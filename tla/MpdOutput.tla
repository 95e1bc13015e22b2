----------------------------- MODULE MpdOutput -----------------------------
(***************************************************************************)
(* output_mpd.c: the one connection to the music player daemon (MPD), the  *)
(* mutex that guards it, and the output_* operations the UPnP handlers     *)
(* call from libupnp's worker threads.                                     *)
(*                                                                         *)
(* A thread's call is an activation: op[t] is the function, arg[t] its     *)
(* argument, pc[t] the place it has reached, rc[t] what it will return.    *)
(* Threads call the functions of Ops in any order (the most general        *)
(* client); AVTransport and RenderingControl restrict the callers to the   *)
(* handlers of the two services.                                           *)
(*                                                                         *)
(* mpd_conn is a pointer, and conn says what it points to:                 *)
(*   "null"   NULL                                                         *)
(*   "ok"     a usable connection                                          *)
(*   "acked"  a connection whose last command the server refused;          *)
(*            libmpdclient keeps that error until it is cleared, and the   *)
(*            code never clears it: every later command fails at once      *)
(*   "bad"    a connection with a fatal error, to be freed                 *)
(*   "freed"  memory already given back, the pointer not yet cleared       *)
(* Passing NULL to libmpdclient ends the program: crashed.                 *)
(***************************************************************************)
EXTENDS Integers

CONSTANTS Threads,   \* libupnp's worker threads and the main thread
          None,      \* no thread, no argument
          Ops,       \* the output_* functions the threads may call
          Env,       \* what the environment may do wrong or on its own
          TestMode,  \* the --testmode option
          Uris,      \* URIs a control point may set
          NoUri,     \* the empty URI
          Volumes,   \* volumes a control point may ask for
          PlayModes  \* play modes a control point may ask for

CommandOps == {"output_play", "output_stop", "output_pause", "output_next",
               "output_prev", "output_seekto"}

CheckOps == {"check_mpd_connection(TRUE)", "check_mpd_connection(FALSE)"}

MuteOps == {"output_set_mute(TRUE)", "output_set_mute(FALSE)"}

AllOps == CommandOps \cup CheckOps \cup MuteOps \cup
          {"output_playmode", "output_set_uri", "output_set_volume",
           "output_get_volume", "output_update_status", "output_update_position"}

\* The faults and outside activity a run may include: the server refuses a
\* command, the link fails, no memory for a connection, a status MPD reports
\* without a known state, and another MPD client or the end of a song moving
\* the player or the mixer.
AllEnv == {"ack", "link", "nomem", "garbled", "moves", "mixer"}

PlayerStates == {"STOP", "PLAY", "PAUSE"}
TransportStates == {"UNSET", "STOPPED", "PLAYING", "PAUSED_PLAYBACK"}

ASSUME NoneAssumption == /\ None \notin Threads \cup Uris \cup {NoUri}
                         /\ NoUri \notin Uris
ASSUME OpsAssumption == Ops \subseteq AllOps
ASSUME EnvAssumption == Env \subseteq AllEnv /\ TestMode \in BOOLEAN
ASSUME VolumesAssumption == Volumes \subseteq Int

VARIABLES
  conn, crashed,             \* mpd_conn; the process has died
  mpdMutex,                  \* owner of mpd_mutex
  player, queue, mixer,      \* MPD itself: its state, the head of its queue, its volume
  transportState, stateVar,  \* transport_state and the TransportState variable
  avUri, trackUri,           \* AVTransportURI and CurrentTrackURI
  mpdvolume, mutevolume,     \* local copies of the volume
  pc, op, arg, rc,           \* each thread's call
  cont,                      \* where a call goes on after output_printError
  snap                       \* the status a call received: player state and volume

linkVars   == <<conn, crashed>>
mpdVars    == <<player, queue, mixer>>
stateVars  == <<transportState, stateVar>>
uriVars    == <<avUri, trackUri>>
volumeVars == <<mpdvolume, mutevolume>>
callVars   == <<pc, op, arg, rc, cont, snap>>
vars == <<linkVars, mpdMutex, mpdVars, stateVars, uriVars, volumeVars, callVars>>

Labels == {"idle", "ret", "lock", "check", "check_unlock", "uri_test", "save",
           "read", "clear", "add", "command", "seek_status", "mode",
           "mode_finish", "volume", "position", "early_unlock", "peek",
           "query", "song", "adopt", "finish", "state", "var", "free", "null",
           "unlock"}

\* Where output_printError and the connection check may hand over to.
Continuations == {"ret", "position", "unlock", "check_unlock", "state"}

\* A mutation: a volume above the range goes through.
ClampBelow(v) == IF v < 0 THEN 0 ELSE v

\* output_set_volume brings what it is asked for into MPD's range.
Clamp(v) == IF v < 0 THEN 0 ELSE IF v > 100 THEN 100 ELSE v

NoStatus == [state |-> "STOP", volume |-> 0]

Args(o) == IF o = "output_set_uri" THEN Uris
           ELSE IF o = "output_set_volume" THEN Volumes
           ELSE IF o = "output_playmode" THEN PlayModes
           ELSE {None}

\* A mutation: MPD's own name of the state is published.
TranslateNothing(s) == s

\* A mutation: a paused player is reported as a playing one.
TranslateWithoutPause(s) ==
  IF s = "STOP" THEN "STOPPED" ELSE "PLAYING"

\* output_translate_state, for a state MPD knows.
Translate(s) ==
  CASE s = "STOP"  -> "STOPPED"
    [] s = "PLAY"  -> "PLAYING"
    [] OTHER       -> "PAUSED_PLAYBACK"

\* transport_init, with transport_state still -1.
BeforeFirstStatus ==
  /\ transportState = "UNSET" /\ stateVar = "STOPPED"
  /\ avUri = NoUri /\ trackUri = NoUri
  /\ mpdvolume = 0

\* What the first update_mpd_status makes of it.
AfterFirstStatus ==
  /\ ~TestMode
  /\ transportState = Translate(player) /\ stateVar = transportState
  /\ avUri = queue /\ trackUri = queue
  /\ mpdvolume = mixer

Init ==
  /\ conn = (IF TestMode THEN "null" ELSE "ok")
  /\ crashed = FALSE
  /\ mpdMutex = None
  /\ player \in PlayerStates
  /\ queue \in Uris \cup {NoUri}
  /\ (queue = NoUri => player = "STOP")
  /\ mixer \in {Clamp(v) : v \in Volumes}
  /\ BeforeFirstStatus \/ AfterFirstStatus
  /\ mutevolume = 0
  /\ pc = [t \in Threads |-> "idle"]
  /\ op = [t \in Threads |-> "none"]
  /\ arg = [t \in Threads |-> None]
  /\ rc = [t \in Threads |-> "ok"]
  /\ cont = [t \in Threads |-> "ret"]
  /\ snap = [t \in Threads |-> NoStatus]
-----------------------------------------------------------------------------
(* libmpdclient, as the code uses it.                                      *)

At(t, l) == ~crashed /\ pc[t] = l

Goto(t, l) == pc' = [pc EXCEPT ![t] = l]

\* How a request on a connection in state c can end.
Outcomes(c) ==
  CASE c = "null"  -> {"crash"}
    [] c = "freed" -> {"crash", "link"}
    [] c = "acked" -> {"ack"}
    [] c = "bad"   -> {"link"}
    [] OTHER       -> {"done"} \cup (Env \cap {"ack", "link"})

\* The fate of mpd_conn after a request that ended with out.
ConnAfter(out) ==
  CASE out = "ack"  -> "acked"
    [] out = "link" -> IF conn = "freed" THEN "freed" ELSE "bad"
    [] OTHER        -> conn

\* MPD's reaction to a player command it accepts: play does nothing on an
\* empty queue, next and previous may run off either end of it.
Effect(o) ==
  CASE o = "output_play"  -> IF queue = NoUri THEN {player} ELSE {"PLAY"}
    [] o = "output_stop"  -> {"STOP"}
    [] o = "output_pause" -> IF player = "PLAY" THEN {"PAUSE"} ELSE {player}
    [] o \in {"output_next", "output_prev"} ->
         IF player = "STOP" THEN {"STOP"} ELSE {"PLAY", "STOP"}
    [] OTHER -> {player}

\* A failed request, where the code keeps the connection if the server sent
\* the error and calls output_printError if not.
Refused(t, out, after) ==
  \/ /\ out = "ack"
     /\ Goto(t, after)
     /\ UNCHANGED cont
  \/ /\ out = "link"
     /\ Goto(t, "free")
     /\ cont' = [cont EXCEPT ![t] = after]

\* A failed request after which the code always calls output_printError.
Dropped(t, out, after) ==
  /\ out \in {"ack", "link"}
  /\ Goto(t, "free")
  /\ cont' = [cont EXCEPT ![t] = after]

\* NULL (or freed memory) given to libmpdclient.
Crash(out) ==
  /\ out = "crash"
  /\ crashed' = TRUE
  /\ UNCHANGED <<conn, pc, cont, rc>>

Fail(t) == rc' = [rc EXCEPT ![t] = "fail"]
-----------------------------------------------------------------------------
(* Entering, leaving, and the mutex.                                       *)

\* The first place of a call; the early returns of the test mode are taken here.
Entry(o) ==
  CASE o = "output_set_uri" -> "uri_test"
    [] o = "output_get_volume" -> "read"
    [] o \in MuteOps -> IF TestMode THEN "ret" ELSE "save"
    [] OTHER -> IF TestMode /\ o # "output_update_status" THEN "ret" ELSE "lock"

EntryRc(o) ==
  IF TestMode /\ o \in CheckOps THEN "test" ELSE "ok"

Call(t, o, a) ==
  /\ At(t, "idle")
  /\ Goto(t, Entry(o))
  /\ op' = [op EXCEPT ![t] = o]
  /\ arg' = [arg EXCEPT ![t] = a]
  /\ rc' = [rc EXCEPT ![t] = EntryRc(o)]
  /\ UNCHANGED <<linkVars, mpdMutex, mpdVars, stateVars, uriVars, volumeVars, cont, snap>>

\* The caller reads rc[t] in the step that returns.
Return(t) ==
  /\ At(t, "ret")
  /\ Goto(t, "idle")
  /\ op' = [op EXCEPT ![t] = "none"]
  /\ arg' = [arg EXCEPT ![t] = None]
  /\ rc' = [rc EXCEPT ![t] = "ok"]
  /\ cont' = [cont EXCEPT ![t] = "ret"]
  /\ snap' = [snap EXCEPT ![t] = NoStatus]
  /\ UNCHANGED <<linkVars, mpdMutex, mpdVars, stateVars, uriVars, volumeVars>>

\* Where a call goes on once it holds mpd_mutex. output_update_position takes
\* the mutex twice: in check_mpd_connection(FALSE) and again for its own work.
AfterLock(t) ==
  CASE op[t] = "output_update_position" /\ cont[t] = "position" -> "position"
    [] op[t] = "output_update_position" /\ cont[t] # "position" -> "check"
    [] op[t] \in CheckOps -> "check"
    [] op[t] = "output_seekto" -> "seek_status"
    [] op[t] \in CommandOps \ {"output_seekto"} -> "command"
    [] op[t] = "output_playmode" -> "mode"
    [] op[t] = "output_set_uri" -> "clear"
    [] op[t] \in MuteOps \cup {"output_set_volume"} -> "volume"
    [] OTHER -> "query"

Lock(t) ==
  /\ At(t, "lock")
  /\ mpdMutex = None
  /\ mpdMutex' = t
  /\ Goto(t, AfterLock(t))
  /\ UNCHANGED <<linkVars, mpdVars, stateVars, uriVars, volumeVars, op, arg, rc, cont, snap>>

\* pthread_mutex_unlock of a normal mutex frees it whoever owns it.
Unlock(t) ==
  /\ At(t, "unlock")
  /\ mpdMutex' = None
  /\ Goto(t, "ret")
  /\ UNCHANGED <<linkVars, mpdVars, stateVars, uriVars, volumeVars, op, arg, rc, cont, snap>>
-----------------------------------------------------------------------------
(* check_mpd_connection and setup_connection.                              *)

AfterUpdate(o) ==
  IF o \in CheckOps THEN "check_unlock" ELSE "unlock"

\* A mutation: a new connection is made whether or not there is one.
CheckWithoutTest(t) ==
  /\ At(t, "check")
  /\ conn' = "ok"
  /\ Goto(t, "check_unlock")
  /\ UNCHANGED <<crashed, mpdMutex, mpdVars, stateVars, uriVars, volumeVars, op, arg, rc, cont, snap>>

\* A mutation: a lost connection is never made again.
CheckGivesUp(t) ==
  /\ At(t, "check")
  /\ Goto(t, "check_unlock")
  /\ rc' = [rc EXCEPT ![t] = IF conn = "null" THEN "fail" ELSE rc[t]]
  /\ UNCHANGED <<linkVars, mpdMutex, mpdVars, stateVars, uriVars, volumeVars, op, arg, cont, snap>>

\* Success is reported for any non-NULL mpd_conn, and again after a reconnect
\* whose status update failed and freed the connection.
Check(t) ==
  /\ At(t, "check")
  /\ \/ /\ conn # "null"
        /\ Goto(t, "check_unlock")
        /\ UNCHANGED <<conn, rc, cont>>
     \/ /\ conn = "null"
        /\ conn' = "ok"
        /\ Goto(t, IF op[t] = "check_mpd_connection(TRUE)" THEN "query" ELSE "check_unlock")
        /\ UNCHANGED <<rc, cont>>
     \/ /\ conn = "null"
        /\ "nomem" \in Env
        /\ Goto(t, "check_unlock")
        /\ Fail(t)
        /\ UNCHANGED <<conn, cont>>
     \/ /\ conn = "null"
        /\ "link" \in Env
        /\ conn' = "bad"
        /\ Fail(t)
        /\ Goto(t, "free")
        /\ cont' = [cont EXCEPT ![t] = "check_unlock"]
  /\ UNCHANGED <<crashed, mpdMutex, mpdVars, stateVars, uriVars, volumeVars, op, arg, snap>>

\* check_mpd_connection returns; output_update_position goes on if it may.
CheckUnlock(t) ==
  /\ At(t, "check_unlock")
  /\ mpdMutex' = None
  /\ IF op[t] = "output_update_position" /\ rc[t] = "ok"
     THEN Goto(t, "lock") /\ cont' = [cont EXCEPT ![t] = "position"]
     ELSE Goto(t, "ret") /\ UNCHANGED cont
  /\ UNCHANGED <<linkVars, mpdVars, stateVars, uriVars, volumeVars, op, arg, rc, snap>>

\* output_printError: nothing for NULL, else free the connection ...
FreeConn(t) ==
  /\ At(t, "free")
  /\ \/ /\ conn = "null"
        /\ Goto(t, cont[t])
        /\ UNCHANGED linkVars
     \/ /\ conn = "freed"
        /\ crashed' = TRUE
        /\ UNCHANGED <<conn, pc>>
     \/ /\ conn \notin {"null", "freed"}
        /\ conn' = "freed"
        /\ Goto(t, "null")
        /\ UNCHANGED crashed
  /\ UNCHANGED <<mpdMutex, mpdVars, stateVars, uriVars, volumeVars, op, arg, rc, cont, snap>>

\* A mutation: mpd_conn is not cleared after the connection is freed.
ForgetToClearConn(t) ==
  /\ At(t, "null")
  /\ Goto(t, cont[t])
  /\ UNCHANGED <<linkVars, mpdMutex, mpdVars, stateVars, uriVars, volumeVars, op, arg, rc, cont, snap>>

\* ... and clear the pointer.
ClearConn(t) ==
  /\ At(t, "null")
  /\ conn' = "null"
  /\ Goto(t, cont[t])
  /\ UNCHANGED <<crashed, mpdMutex, mpdVars, stateVars, uriVars, volumeVars, op, arg, rc, cont, snap>>
-----------------------------------------------------------------------------
(* update_mpd_status: called with mpd_mutex held.                          *)

\* The statuses MPD may send now.
Reported ==
  {[state |-> s, volume |-> mixer] :
     s \in {player} \cup (IF "garbled" \in Env THEN {"UNKNOWN"} ELSE {})}

\* The command list, the status and the first song of the queue.
Query(t) ==
  /\ At(t, "query")
  /\ IF conn = "null"
     THEN Goto(t, AfterUpdate(op[t])) /\ UNCHANGED <<linkVars, rc, cont, snap>>
     ELSE \E out \in Outcomes(conn) :
            \/ /\ out = "done"
               /\ \E s \in Reported : snap' = [snap EXCEPT ![t] = s]
               /\ Goto(t, IF queue = NoUri THEN "finish" ELSE "song")
               /\ UNCHANGED <<linkVars, rc, cont>>
            \/ /\ Dropped(t, out, AfterUpdate(op[t]))
               /\ conn' = ConnAfter(out)
               /\ UNCHANGED <<crashed, rc, snap>>
            \/ Crash(out) /\ UNCHANGED snap
  /\ UNCHANGED <<mpdMutex, mpdVars, stateVars, uriVars, volumeVars, op, arg>>

\* mpd_recv_song, and "Get current meta data": is AVTransportURI still empty?
\* Without a song the update goes on to mpd_response_finish.
Song(t) ==
  /\ At(t, "song")
  /\ \E out \in Outcomes(conn) :
       \/ /\ out = "done"
          /\ Goto(t, IF avUri = NoUri THEN "adopt" ELSE "finish")
          /\ UNCHANGED <<linkVars, rc, cont>>
       \/ /\ out \in {"ack", "link"}
          /\ Goto(t, "finish")
          /\ conn' = ConnAfter(out)
          /\ UNCHANGED <<crashed, rc, cont>>
       \/ Crash(out)
  /\ UNCHANGED <<mpdMutex, mpdVars, stateVars, uriVars, volumeVars, op, arg, snap>>

\* "Set the current URI for track and transport" to what MPD has queued.
AdoptUri(t) ==
  /\ At(t, "adopt")
  /\ avUri' = queue /\ trackUri' = queue
  /\ Goto(t, "finish")
  /\ UNCHANGED <<linkVars, mpdMutex, mpdVars, stateVars, volumeVars, op, arg, rc, cont, snap>>

\* mpd_response_finish; a failure frees the connection, and the update goes
\* on with the status it has.
Finish(t) ==
  /\ At(t, "finish")
  /\ \E out \in Outcomes(conn) :
       \/ /\ out = "done"
          /\ Goto(t, "state")
          /\ UNCHANGED <<linkVars, rc, cont>>
       \/ /\ Dropped(t, out, "state")
          /\ conn' = ConnAfter(out)
          /\ UNCHANGED <<crashed, rc>>
       \/ Crash(out)
  /\ UNCHANGED <<mpdMutex, mpdVars, stateVars, uriVars, volumeVars, op, arg, snap>>

\* The status's volume is kept, then transport_set_state writes
\* transport_state ...
SetState(t) ==
  /\ At(t, "state")
  /\ mpdvolume' = (IF op[t] = "output_update_position" THEN mpdvolume ELSE snap[t].volume)
  /\ UNCHANGED mutevolume
  /\ IF snap[t].state = "UNKNOWN"
     THEN Goto(t, AfterUpdate(op[t])) /\ UNCHANGED transportState
     ELSE Goto(t, "var") /\ transportState' = Translate(snap[t].state)
  /\ UNCHANGED <<linkVars, mpdMutex, mpdVars, stateVar, uriVars, op, arg, rc, cont, snap>>

\* A mutation: transport_set_state forgets the TransportState variable.
SetOnlyState(t) ==
  /\ At(t, "var")
  /\ Goto(t, AfterUpdate(op[t]))
  /\ UNCHANGED <<linkVars, mpdMutex, mpdVars, stateVars, uriVars, volumeVars, op, arg, rc, cont, snap>>

\* ... and the TransportState variable.
SetVar(t) ==
  /\ At(t, "var")
  /\ stateVar' = Translate(snap[t].state)
  /\ Goto(t, AfterUpdate(op[t]))
  /\ UNCHANGED <<linkVars, mpdMutex, mpdVars, transportState, uriVars, volumeVars, op, arg, rc, cont, snap>>
-----------------------------------------------------------------------------
(* The player commands.                                                    *)

\* output_play, _stop, _pause, _next, _prev and the seek of output_seekto.
Command(t) ==
  /\ At(t, "command")
  /\ \E out \in Outcomes(conn) :
       \/ /\ out = "done"
          /\ player' \in Effect(op[t])
          /\ Goto(t, "query")
          /\ UNCHANGED <<linkVars, rc, cont>>
       \/ /\ Refused(t, out, "unlock")
          /\ conn' = ConnAfter(out)
          /\ Fail(t)
          /\ UNCHANGED <<crashed, player>>
       \/ Crash(out) /\ UNCHANGED player
  /\ UNCHANGED <<mpdMutex, queue, mixer, stateVars, uriVars, volumeVars, op, arg, snap>>

\* output_seekto asks for the status first: a stopped player cannot seek.
SeekStatus(t) ==
  /\ At(t, "seek_status")
  /\ \E out \in Outcomes(conn) :
       \/ /\ out = "done"
          /\ \E s \in Reported :
               IF s.state = "STOP" THEN Goto(t, "unlock") /\ Fail(t)
                                   ELSE Goto(t, "command") /\ UNCHANGED rc
          /\ UNCHANGED <<linkVars, cont>>
       \/ /\ Refused(t, out, "unlock")
          /\ conn' = ConnAfter(out)
          /\ Fail(t)
          /\ UNCHANGED crashed
       \/ Crash(out)
  /\ UNCHANGED <<mpdMutex, mpdVars, stateVars, uriVars, volumeVars, op, arg, snap>>

\* The names output_playmode compares its argument with.
KnownPlayModes == {"NORMAL", "REPEAT-ONE", "DIRECT_1", "REPEAT-ALL", "RANDOM"}

\* output_playmode sends its command list; only an error left on the
\* connection, or the link, can make the sending fail.
SendPlayMode(t) ==
  /\ At(t, "mode")
  /\ \/ /\ arg[t] \notin KnownPlayModes
        /\ Fail(t)
        /\ Goto(t, "unlock")
        /\ UNCHANGED <<linkVars, cont>>
     \/ /\ arg[t] \in KnownPlayModes
        /\ \E out \in Outcomes(conn) :
             \/ /\ out = "done"
                /\ Goto(t, "mode_finish")
                /\ UNCHANGED <<linkVars, rc, cont>>
             \/ /\ out = "ack" => conn = "acked"
                /\ Dropped(t, out, "unlock")
                /\ conn' = ConnAfter(out)
                /\ Fail(t)
                /\ UNCHANGED crashed
             \/ Crash(out)
  /\ UNCHANGED <<mpdMutex, mpdVars, stateVars, uriVars, volumeVars, op, arg, snap>>

\* Its mpd_response_finish: a refusal frees the connection, the result stays 0.
FinishPlayMode(t) ==
  /\ At(t, "mode_finish")
  /\ \E out \in Outcomes(conn) :
       \/ /\ out = "done"
          /\ Goto(t, "unlock")
          /\ UNCHANGED <<linkVars, rc, cont>>
       \/ /\ Dropped(t, out, "unlock")
          /\ conn' = ConnAfter(out)
          /\ UNCHANGED <<crashed, rc>>
       \/ Crash(out)
  /\ UNCHANGED <<mpdMutex, mpdVars, stateVars, uriVars, volumeVars, op, arg, snap>>

\* A mutation: the mutex is not taken after the test.
TestUriUnlocked(t) ==
  /\ At(t, "uri_test")
  /\ Goto(t, IF conn = "null" THEN "ret" ELSE "clear")
  /\ UNCHANGED <<linkVars, mpdMutex, mpdVars, stateVars, uriVars, volumeVars, op, arg, rc, cont, snap>>

\* output_set_uri looks at mpd_conn before it takes the mutex.
TestUri(t) ==
  /\ At(t, "uri_test")
  /\ Goto(t, IF conn = "null" THEN "ret" ELSE "lock")
  /\ UNCHANGED <<linkVars, mpdMutex, mpdVars, stateVars, uriVars, volumeVars, op, arg, rc, cont, snap>>

\* It clears the queue, whatever the result,
ClearQueue(t) ==
  /\ At(t, "clear")
  /\ \E out \in Outcomes(conn) :
       \/ /\ out = "done"
          /\ queue' = NoUri /\ player' = "STOP"
          /\ Goto(t, "add")
          /\ UNCHANGED <<linkVars, rc, cont>>
       \/ /\ out \in {"ack", "link"}
          /\ conn' = ConnAfter(out)
          /\ Goto(t, "add")
          /\ UNCHANGED <<crashed, rc, cont, queue, player>>
       \/ Crash(out) /\ UNCHANGED <<queue, player>>
  /\ UNCHANGED <<mpdMutex, mixer, stateVars, uriVars, volumeVars, op, arg, snap>>

\* and adds the URI, to an empty queue if the clear was obeyed.
AddUri(t) ==
  /\ At(t, "add")
  /\ \E out \in Outcomes(conn) :
       \/ /\ out = "done"
          /\ queue' = IF queue = NoUri THEN arg[t] ELSE queue
          /\ Goto(t, "unlock")
          /\ UNCHANGED <<linkVars, rc, cont>>
       \/ /\ Refused(t, out, "unlock")
          /\ conn' = ConnAfter(out)
          /\ UNCHANGED <<crashed, rc, queue>>
       \/ Crash(out) /\ UNCHANGED queue
  /\ UNCHANGED <<mpdMutex, player, mixer, stateVars, uriVars, volumeVars, op, arg, snap>>
-----------------------------------------------------------------------------
(* Volume, and the position poll.                                          *)

\* output_set_mute: "save current volume for restore", or restore it, before
\* the mutex is taken.
SaveVolume(t) ==
  /\ At(t, "save")
  /\ IF op[t] = "output_set_mute(TRUE)"
     THEN mutevolume' = mpdvolume /\ arg' = [arg EXCEPT ![t] = 0]
     ELSE UNCHANGED mutevolume /\ arg' = [arg EXCEPT ![t] = mutevolume]
  /\ Goto(t, "lock")
  /\ UNCHANGED <<linkVars, mpdMutex, mpdVars, stateVars, uriVars, mpdvolume, op, rc, cont, snap>>

\* The request of output_set_volume and output_set_mute; the local copies
\* follow only if MPD obeyed.
SetMixer(t) ==
  /\ At(t, "volume")
  /\ \E out \in Outcomes(conn) :
       \/ /\ out = "done"
          /\ mixer' = Clamp(arg[t])
          /\ mpdvolume' = Clamp(arg[t])
          /\ mutevolume' = (IF op[t] = "output_set_volume" THEN Clamp(arg[t]) ELSE mutevolume)
          /\ Goto(t, "unlock")
          /\ UNCHANGED <<linkVars, rc, cont>>
       \/ /\ Refused(t, out, "unlock")
          /\ conn' = ConnAfter(out)
          /\ UNCHANGED <<crashed, rc, mixer, volumeVars>>
       \/ Crash(out) /\ UNCHANGED <<mixer, volumeVars>>
  /\ UNCHANGED <<mpdMutex, player, queue, stateVars, uriVars, op, arg, snap>>

\* A mutation: the volume kept for an unmute is returned.
ReadMuteVolume(t) ==
  /\ At(t, "read")
  /\ arg' = [arg EXCEPT ![t] = mutevolume]
  /\ Goto(t, "ret")
  /\ UNCHANGED <<linkVars, mpdMutex, mpdVars, stateVars, uriVars, volumeVars, op, rc, cont, snap>>

\* output_get_volume reads the local copy without the mutex.
ReadVolume(t) ==
  /\ At(t, "read")
  /\ arg' = [arg EXCEPT ![t] = mpdvolume]
  /\ Goto(t, "ret")
  /\ UNCHANGED <<linkVars, mpdMutex, mpdVars, stateVars, uriVars, volumeVars, op, rc, cont, snap>>

\* output_update_position asks for the status; when that fails it unlocks
\* before it handles the failure ...
Position(t) ==
  /\ At(t, "position")
  /\ \E out \in Outcomes(conn) :
       \/ /\ out = "done"
          /\ \E s \in Reported : snap' = [snap EXCEPT ![t] = s]
          /\ Goto(t, "state")
          /\ UNCHANGED <<linkVars, rc, cont>>
       \/ /\ out \in {"ack", "link"}
          /\ conn' = ConnAfter(out)
          /\ Goto(t, "early_unlock")
          /\ UNCHANGED <<crashed, rc, cont, snap>>
       \/ Crash(out) /\ UNCHANGED snap
  /\ UNCHANGED <<mpdMutex, mpdVars, stateVars, uriVars, volumeVars, op, arg>>

EarlyUnlock(t) ==
  /\ At(t, "early_unlock")
  /\ mpdMutex' = None
  /\ Goto(t, "peek")
  /\ UNCHANGED <<linkVars, mpdVars, stateVars, uriVars, volumeVars, op, arg, rc, cont, snap>>

\* ... and so looks at mpd_conn, frees it and unlocks again without owning
\* the mutex.
Peek(t) ==
  /\ At(t, "peek")
  /\ \/ /\ conn \in {"null", "freed"}
        /\ crashed' = TRUE
        /\ UNCHANGED <<pc, cont>>
     \/ /\ conn = "acked"
        /\ Goto(t, "unlock")
        /\ UNCHANGED <<crashed, cont>>
     \/ /\ conn \notin {"null", "acked"}
        /\ Goto(t, "free")
        /\ cont' = [cont EXCEPT ![t] = "unlock"]
        /\ UNCHANGED crashed
  /\ UNCHANGED <<conn, mpdMutex, mpdVars, stateVars, uriVars, volumeVars, op, arg, rc, snap>>
-----------------------------------------------------------------------------
(* The specification.                                                      *)

\* The steps of the functions that hold mpd_mutex as long as they work ...
Exclusive(t) ==
  \/ Lock(t) \/ Unlock(t)
  \/ Check(t) \/ CheckUnlock(t) \/ FreeConn(t) \/ ClearConn(t)
  \/ Query(t) \/ Song(t) \/ AdoptUri(t) \/ Finish(t) \/ SetState(t) \/ SetVar(t)
  \/ Command(t) \/ SeekStatus(t) \/ SendPlayMode(t) \/ FinishPlayMode(t)
  \/ TestUri(t) \/ ClearQueue(t) \/ AddUri(t)

\* ... and of those that read the volume, or poll the position, without it.
Mixing(t) == SaveVolume(t) \/ SetMixer(t) \/ ReadVolume(t)
Polling(t) == Position(t) \/ EarlyUnlock(t) \/ Peek(t)

Inner(t) == Exclusive(t) \/ Mixing(t) \/ Polling(t)

Step(t) == Inner(t) \/ Return(t)

\* A song ends, or another MPD client uses the player or the mixer.
PlayerMoves ==
  /\ ~crashed /\ "moves" \in Env
  /\ queue # NoUri
  /\ player' \in PlayerStates \ {player}
  /\ UNCHANGED <<linkVars, mpdMutex, queue, mixer, stateVars, uriVars, volumeVars, callVars>>

MixerMoves ==
  /\ ~crashed /\ "mixer" \in Env
  /\ mixer' \in {Clamp(v) : v \in Volumes} \ {mixer}
  /\ UNCHANGED <<linkVars, mpdMutex, player, queue, stateVars, uriVars, volumeVars, callVars>>

\* The process is gone; nothing moves any more.
Dead == crashed /\ UNCHANGED vars

Next ==
  \/ \E t \in Threads : Step(t) \/ \E o \in Ops : \E a \in Args(o) : Call(t, o, a)
  \/ PlayerMoves \/ MixerMoves \/ Dead

Spec == Init /\ [][Next]_vars

-----------------------------------------------------------------------------
(* Properties.                                                             *)

\* Labels inside a critical section of mpd_mutex.
Guarded == {"check", "check_unlock", "clear", "add", "command", "seek_status",
            "mode", "mode_finish", "volume", "position", "early_unlock",
            "query", "song", "adopt", "finish", "state", "var", "free", "null",
            "unlock"}

\* Types: what all threads share, where each call is, and what it holds.
SharedOK ==
  /\ conn \in {"null", "ok", "acked", "bad", "freed"} /\ crashed \in BOOLEAN
  /\ mpdMutex \in Threads \cup {None}
  /\ player \in PlayerStates /\ queue \in Uris \cup {NoUri} /\ mixer \in Int
  /\ transportState \in TransportStates /\ stateVar \in TransportStates \ {"UNSET"}
  /\ avUri \in Uris \cup {NoUri} /\ trackUri \in Uris \cup {NoUri}
  /\ mpdvolume \in Int /\ mutevolume \in Int

PlaceOK == pc \in [Threads -> Labels] /\ cont \in [Threads -> Continuations]

ValueOK ==
  /\ op \in [Threads -> AllOps \cup {"none"}]
  /\ rc \in [Threads -> {"ok", "fail", "test"}]
  /\ snap \in [Threads -> [state : PlayerStates \cup {"UNKNOWN"}, volume : Int]]

TypeOK == SharedOK /\ PlaceOK /\ ValueOK

\* A thread at work on the connection or
\* on a status it read owns mpd_mutex (output_mpd.c, every stretch from
\* ithread_mutex_lock to ithread_mutex_unlock).
MutexHeld ==
  \A t \in Threads : pc[t] \in Guarded => mpdMutex = t

\* The comment before update_mpd_status taken alone: "caller must hold
\* mpd_mutex" while it asks for the status and writes what it says.
UpdateHoldsMutex ==
  \A t \in Threads :
    pc[t] \in {"query", "song", "adopt", "finish", "state", "var"} => mpdMutex = t

\* Labels whose step hands mpd_conn to libmpdclient.
UsesConn == {"clear", "add", "command", "seek_status", "mode", "mode_finish",
             "volume", "position", "query", "song", "finish", "peek", "free"}

\* No thread is about to use, or free again, a connection another thread has
\* freed: between mpd_connection_free and the assignment of NULL only the
\* freeing thread may be looking at mpd_conn (output_printError).
NoUseAfterFree ==
  conn = "freed" => \A t \in Threads : pc[t] \notin UsesConn

\* While nobody updates it, transport_state and the TransportState variable
\* say the same (output_translate_state through transport_set_state).
StatePublished ==
  mpdMutex = None /\ transportState # "UNSET" => stateVar = transportState

\* The UPnP name of each MPD player state.
UPnPState == [STOP |-> "STOPPED", PLAY |-> "PLAYING", PAUSE |-> "PAUSED_PLAYBACK"]

\* A player command that is about to return 0 has published the state MPD
\* reported after it, unless that status never came or named no known state
\* (output_play and its siblings: "OK - update status").
SuccessRefreshes ==
  \A t \in Threads :
    /\ pc[t] = "unlock" /\ op[t] \in CommandOps /\ rc[t] = "ok"
    /\ conn = "ok" /\ snap[t].state # "UNKNOWN"
    => transportState = UPnPState[snap[t].state]

\* One thread at a time uses the connection, makes it only where there is
\* none and drops it only once it is broken (check_mpd_connection,
\* setup_connection and output_printError under mpd_mutex).
LinkOf(c) == IF c = "null" THEN "down" ELSE IF c = "ok" THEN "up" ELSE "broken"
Link == INSTANCE MpdLink WITH user <- mpdMutex, link <- LinkOf(conn)
LinkSpec == Link!Spec
=============================================================================
