-------------------------- MODULE TransportProofs --------------------------
(***************************************************************************)
(* The transport variables agree, for every set of threads and requests of *)
(* both services, as long as the link holds and the three handlers that do *)
(* not lock are not called; and what AVTransport publishes, sends and      *)
(* chooses by is what MPD does, as long as MPD obeys besides.              *)
(*                                                                         *)
(* Two mutexes protect the transport variables one after the other: the    *)
(* handlers write under transport_mutex, update_mpd_status under           *)
(* mpd_mutex.  The proof rests on both being the same thread's: whoever is *)
(* in an update is in a call of the owner of transport_mutex.              *)
(***************************************************************************)
EXTENDS ServicesProofs

\* The conditions: the link holds, MPD refuses nothing, and no handler goes
\* without transport_mutex. MPD obeys when besides nobody but the renderer
\* moves the player and every status names its state.
Linked ==
  /\ ~TestMode /\ Main = None
  /\ Env \subseteq {"mixer", "nomem", "moves", "garbled"}
  /\ Handlers \cap Unlocked = {}

Calm == Linked /\ Env \subseteq {"mixer", "nomem"}

\* obeys says which of the two is asked for, and whether the invariant
\* speaks of the player or only of the variables.
Given(obeys) == Linked /\ (obeys => Calm)
-----------------------------------------------------------------------------
(* The invariant: who calls what, and where.                               *)

Updating == {"query", "song", "adopt", "finish", "state", "var", "unlock", "ret"}

PlayerOps == {"output_play", "output_stop", "output_pause"}

ControlOps == MuteOps \cup {"output_set_volume", "output_get_volume"}

\* The labels a call passes while the link holds.
OnPath(o, l) ==
  \/ o = "none" /\ l = "idle"
  \/ o = "check_mpd_connection(TRUE)" /\ l \in {"lock", "check", "check_unlock", "ret"}
  \/ o \in PlayerOps /\ l \in {"lock", "command"} \cup Updating
  \/ o = "output_update_status" /\ l \in {"lock"} \cup Updating
  \/ o = "output_update_position" /\ l \in {"lock", "check", "check_unlock", "position",
                                            "state", "var", "unlock", "ret"}
  \/ o = "output_playmode" /\ l \in {"lock", "mode", "mode_finish", "unlock", "ret"}
  \/ o = "output_set_uri" /\ l \in {"uri_test", "lock", "clear", "add", "unlock", "ret"}
  \/ o \in MuteOps /\ l \in {"save", "lock", "volume", "unlock", "ret"}
  \/ o = "output_set_volume" /\ l \in {"lock", "volume", "unlock", "ret"}
  \/ o = "output_get_volume" /\ l \in {"read", "ret"}

\* The operations a handler of AVTransport may have called.
CalledBy(h, o) ==
  \/ h = "Stop" /\ o = "output_stop"
  \/ h = "Pause" /\ o \in {"output_pause", "output_play"}
  \/ h = "Play" /\ o = "output_play"
  \/ h \notin {"Stop", "Pause", "Play"} /\ o = Operation(h)

CallOK(t) ==
  /\ OnPath(op[t], pc[t])
  /\ at[t] = "checking" => op[t] = "check_mpd_connection(TRUE)"
  /\ at[t] = "calling" => CalledBy(req[t], op[t])
  /\ rcAt[t] = "calling" => op[t] \in ControlOps
  /\ at[t] \notin {"checking", "calling"} /\ rcAt[t] # "calling" => op[t] = "none"
  /\ op[t] = "output_set_uri" => arg[t] \in Uris

RequestOK(t) ==
  /\ req[t] \in (AllHandlers \ Unlocked) \cup {"none"}
  /\ at[t] \notin {"idle", "reply"} => req[t] # "none"
  /\ at[t] \notin {"main", "loop"}
  /\ req[t] = "SetAVTransportURI" => param[t] \in Uris
  /\ at[t] = "switch" => req[t] \in {"Stop", "Pause", "Play"}
  /\ at[t] = "command" => req[t] \notin {"Stop", "Pause", "Play"}
  /\ at[t] = "set_av_uri" => req[t] = "SetAVTransportURI"
-----------------------------------------------------------------------------
(* The invariant: what the owner of transport_mutex knows.                 *)

\* What is chosen by and published is what MPD does.
Agree(obeys) ==
  stateVar = transportState /\ (obeys => transportState = UPnPState[player])

\* In a call: before it has told MPD anything all agrees; a player command
\* then has the effect the handler will publish; a status is what MPD does
\* when it is written; after the update all agrees again. SetAVTransportURI
\* stops the player and leaves the variables to its handler.
Progress(t, obeys) ==
  /\ pc[t] # "var" => stateVar = transportState
  /\ pc[t] = "var" => transportState = Translate(snap[t].state)
  /\ obeys =>
       /\ pc[t] \in {"lock", "uri_test", "command", "check", "check_unlock", "position",
                     "clear", "mode", "mode_finish"} => Agree(obeys)
       /\ pc[t] \in {"lock", "command"} /\ op[t] = "output_pause" => player = "PLAY"
       /\ pc[t] \in Updating /\ op[t] \in PlayerOps => Published(op[t]) = UPnPState[player]
       /\ pc[t] \in {"song", "adopt", "finish", "state", "var"} => snap[t].state = player
       /\ pc[t] = "query" /\ op[t] = "output_update_status" => Agree(obeys)
       /\ pc[t] = "var" => transportState = UPnPState[player]
       /\ pc[t] \in {"unlock", "ret"} /\ op[t] # "output_set_uri" => Agree(obeys)
       /\ pc[t] \in {"add", "unlock", "ret"} /\ op[t] = "output_set_uri" => player = "STOP"

OwnerInv(t, obeys) ==
  /\ at[t] \in {"switch", "command", "update_last", "store_last", "transport_unlock",
                "notify", "send"} => Agree(obeys)
  /\ at[t] = "calling" => Progress(t, obeys)
  /\ obeys /\ at[t] \in {"set_av_uri", "set_state", "change_var"}
       => target[t] = UPnPState[player]
  /\ at[t] = "change_var" => transportState = target[t]
  /\ at[t] = "send" => said[t].form = "mode" \/ said[t].state = stateVar
  /\ obeys /\ queue = NoUri => at[t] = "calling" /\ pc[t] = "add"

DataInv(obeys) ==
  /\ conn = "ok" /\ player \in PlayerStates
  /\ transportMutex \in Threads \cup {None}
  /\ transportMutex = None => Agree(obeys) /\ (obeys => queue # NoUri)
  /\ \A t \in Threads : transportMutex = t => OwnerInv(t, obeys)

MoreDomains ==
  /\ DOMAIN op = Threads /\ DOMAIN arg = Threads /\ DOMAIN snap = Threads
  /\ DOMAIN param = Threads /\ DOMAIN target = Threads /\ DOMAIN said = Threads

CalmInv(obeys) ==
  /\ MoreDomains
  /\ \A t \in Threads : CallOK(t) /\ RequestOK(t)
  /\ DataInv(obeys)
-----------------------------------------------------------------------------
(* What a step of t has to keep.                                           *)

\* The other threads stand where they were.
Same(u) ==
  /\ pc'[u] = pc[u] /\ op'[u] = op[u] /\ arg'[u] = arg[u] /\ snap'[u] = snap[u]
  /\ at'[u] = at[u] /\ req'[u] = req[u] /\ param'[u] = param[u]
  /\ target'[u] = target[u] /\ said'[u] = said[u] /\ rcAt'[u] = rcAt[u]

\* t publishes nothing and moves no player unless transport_mutex is its own.
Stepped(t, obeys) ==
  /\ MoreDomains' /\ conn' = "ok" /\ player' \in PlayerStates
  /\ \A u \in Threads \ {t} : Same(u)
  /\ CallOK(t)' /\ RequestOK(t)'
  /\ transportMutex' = t => OwnerInv(t, obeys)'
  /\ transportMutex' = None => Agree(obeys)' /\ (obeys => queue' # NoUri)
  /\ transportMutex' \notin {t, None} =>
       UNCHANGED <<transportMutex, player, queue, transportState, stateVar>>

LEMMA OtherOwner ==
  ASSUME NEW obeys \in BOOLEAN, NEW u, Same(u), OwnerInv(u, obeys),
         UNCHANGED <<player, queue, transportState, stateVar>>
  PROVE  OwnerInv(u, obeys)'
BY DEF Same, OwnerInv, Progress, Agree

LEMMA SteppedKeeps ==
  ASSUME NEW obeys \in BOOLEAN, CalmInv(obeys), NEW t \in Threads, Stepped(t, obeys)
  PROVE  CalmInv(obeys)'
<1>1. ASSUME NEW u \in Threads PROVE CallOK(u)' /\ RequestOK(u)'
  <2>1. CASE u = t
    BY <2>1 DEF Stepped
  <2>2. CASE u # t
    BY <2>2 DEF Stepped, Same, CalmInv, CallOK, RequestOK
  <2> QED BY <2>1, <2>2
<1>2. ASSUME NEW u \in Threads, transportMutex' = u PROVE OwnerInv(u, obeys)'
  <2>1. CASE u = t
    BY <1>2, <2>1 DEF Stepped
  <2>2. CASE u # t
    <3>1. /\ Same(u) /\ transportMutex = u
          /\ UNCHANGED <<player, queue, transportState, stateVar>>
      BY <1>2, <2>2, NoneAssumption DEF Stepped
    <3> QED BY <3>1, OtherOwner DEF CalmInv, DataInv
  <2> QED BY <2>1, <2>2
<1>3. DataInv(obeys)'
  BY <1>2 DEF Stepped, CalmInv, DataInv
<1> QED BY <1>1, <1>3 DEF Stepped, CalmInv
-----------------------------------------------------------------------------
(* Steps inside output_mpd.c.                                              *)

\* A request on the connection has one outcome, and while MPD obeys a
\* status says what is.
LEMMA Obeyed ==
  ASSUME NEW obeys \in BOOLEAN, Given(obeys), conn = "ok"
  PROVE  /\ Outcomes(conn) = {"done"}
         /\ obeys => Reported = {[state |-> player, volume |-> mixer]}
<1>1. Env \cap {"ack", "link"} = {}
  BY DEF Given, Linked
<1>2. Outcomes(conn) = {"done"}
  BY <1>1 DEF Outcomes
<1>3. ASSUME obeys PROVE Reported = {[state |-> s, volume |-> mixer] : s \in {player}}
  <2>1. "garbled" \notin Env
    BY <1>3 DEF Given, Calm
  <2> QED BY <2>1 DEF Reported
<1> QED BY <1>2, <1>3

\* What such a step of t keeps: the connection, the function, its path, the
\* calls of the others, and all that AVTransport publishes, unless t is
\* in a call of that service.
Moved(t) ==
  /\ conn' = "ok" /\ op' = op /\ OnPath(op[t], pc'[t])
  /\ DOMAIN arg' = Threads /\ DOMAIN snap' = Threads
  /\ \A u \in Threads \ {t} : pc'[u] = pc[u] /\ snap'[u] = snap[u] /\ arg'[u] = arg[u]
  /\ op[t] = "output_set_uri" => arg'[t] = arg[t]
  /\ op[t] \in ControlOps \cup {"check_mpd_connection(TRUE)"}
       => UNCHANGED <<player, queue, transportState, stateVar>>

LEMMA InnerMoved ==
  ASSUME NEW obeys \in BOOLEAN, Given(obeys), Domains, MoreDomains, conn = "ok",
         NEW t \in Threads, Inner(t),
         OnPath(op[t], pc[t])
  PROVE  Moved(t)
<1> USE DEF Domains, MoreDomains, At, Goto, linkVars, mpdVars, stateVars, uriVars,
        volumeVars, callVars
<1>0. Outcomes(conn) = {"done"} /\ (obeys => Reported = {[state |-> player, volume |-> mixer]})
  BY Obeyed
<1>a. /\ pc[t] \notin {"free", "null", "seek_status", "early_unlock", "peek"}
      /\ pc[t] = "check" => op[t] \in {"check_mpd_connection(TRUE)", "output_update_position"}
  BY DEF OnPath, PlayerOps, Updating, MuteOps
<1>1. CASE Lock(t)
  <2>1. OnPath(op[t], AfterLock(t))
    BY <1>1 DEF Lock, AfterLock, OnPath, PlayerOps, MuteOps, Updating, CheckOps, CommandOps
  <2> QED
    BY <1>1, <2>1 DEF Lock, Moved
<1>2. CASE Unlock(t)
  BY <1>2 DEF Unlock, Moved, OnPath, PlayerOps, ControlOps, MuteOps, Updating
<1>3. CASE Check(t)
  BY <1>3, <1>a DEF Check, Moved, OnPath, PlayerOps, ControlOps, MuteOps, Updating
<1>4. CASE CheckUnlock(t)
  BY <1>4 DEF CheckUnlock, Moved, OnPath, PlayerOps, ControlOps, MuteOps, Updating
<1>5. CASE FreeConn(t) \/ ClearConn(t) \/ SeekStatus(t) \/ EarlyUnlock(t) \/ Peek(t)
  BY <1>5, <1>a DEF FreeConn, ClearConn, SeekStatus, EarlyUnlock, Peek
<1>6. CASE Query(t)
  BY <1>0, <1>6 DEF Query, Dropped, Crash, Moved, OnPath, PlayerOps, ControlOps, MuteOps, Updating
<1>7. CASE Song(t)
  BY <1>0, <1>7 DEF Song, Crash, Moved, OnPath, PlayerOps, ControlOps, MuteOps, Updating
<1>8. CASE AdoptUri(t)
  BY <1>8 DEF AdoptUri, Moved, OnPath, PlayerOps, ControlOps, MuteOps, Updating
<1>9. CASE Finish(t)
  BY <1>0, <1>9 DEF Finish, Dropped, Crash, Moved, OnPath, PlayerOps, ControlOps, MuteOps, Updating
<1>10. CASE SetState(t)
  BY <1>10 DEF SetState, AfterUpdate, CheckOps, Moved, OnPath, PlayerOps, ControlOps, MuteOps, Updating
<1>11. CASE SetVar(t)
  BY <1>11 DEF SetVar, AfterUpdate, CheckOps, Moved, OnPath, PlayerOps, ControlOps, MuteOps, Updating
<1>12. CASE Command(t)
  BY <1>0, <1>12 DEF Command, Refused, Crash, Moved, OnPath, PlayerOps, ControlOps, MuteOps, Updating
<1>13. CASE SendPlayMode(t)
  BY <1>0, <1>13 DEF SendPlayMode, Dropped, Crash, Moved, OnPath, PlayerOps, ControlOps, MuteOps, Updating
<1>14. CASE FinishPlayMode(t)
  BY <1>0, <1>14 DEF FinishPlayMode, Dropped, Crash, Moved, OnPath, PlayerOps, ControlOps, MuteOps, Updating
<1>15. CASE TestUri(t)
  BY <1>15 DEF TestUri, Moved, OnPath, PlayerOps, ControlOps, MuteOps, Updating
<1>16. CASE ClearQueue(t)
  BY <1>0, <1>16 DEF ClearQueue, Crash, Moved, OnPath, PlayerOps, ControlOps, MuteOps, Updating
<1>17. CASE AddUri(t)
  BY <1>0, <1>17 DEF AddUri, Refused, Crash, Moved, OnPath, PlayerOps, ControlOps, MuteOps, Updating
<1>18. CASE SaveVolume(t)
  BY <1>18 DEF SaveVolume, Moved, OnPath, PlayerOps, ControlOps, MuteOps, Updating
<1>19. CASE SetMixer(t)
  BY <1>0, <1>19 DEF SetMixer, Refused, Crash, Moved, OnPath, PlayerOps, ControlOps, MuteOps, Updating
<1>20. CASE ReadVolume(t)
  BY <1>20 DEF ReadVolume, Moved, OnPath, PlayerOps, ControlOps, MuteOps, Updating
<1>21. CASE Position(t)
  BY <1>0, <1>21 DEF Position, Crash, Moved, OnPath, PlayerOps, ControlOps, MuteOps, Updating
<1> QED
  BY <1>1, <1>2, <1>3, <1>4, <1>5, <1>6, <1>7, <1>8, <1>9, <1>10, <1>11, <1>12, <1>13,
     <1>14, <1>15, <1>16, <1>17, <1>18, <1>19, <1>20, <1>21
     DEF Inner, Exclusive, Mixing, Polling

\* In a call of AVTransport the owner's knowledge survives.
LEMMA InnerProgress ==
  ASSUME NEW obeys \in BOOLEAN, Given(obeys), Domains, MoreDomains, conn = "ok",
         player \in PlayerStates,
         NEW t \in Threads, Inner(t), UNCHANGED handlerVars,
         at[t] = "calling", CallOK(t), RequestOK(t), OwnerInv(t, obeys)
  PROVE  OwnerInv(t, obeys)' /\ player' \in PlayerStates
<1> USE DEF Domains, MoreDomains, At, Goto, linkVars, mpdVars, stateVars, uriVars,
        volumeVars, callVars, handlerVars
<1>0. Outcomes(conn) = {"done"} /\ (obeys => Reported = {[state |-> player, volume |-> mixer]})
  BY Obeyed
<1>a. /\ op[t] \in PlayerOps \cup {"output_update_status", "output_update_position",
                                  "output_playmode", "output_set_uri"}
      /\ pc[t] \notin {"free", "null", "seek_status", "early_unlock", "peek", "save",
                       "volume", "read"}
      /\ OnPath(op[t], pc[t])
      /\ op[t] = "output_set_uri" => arg[t] \in Uris
  BY DEF CallOK, RequestOK, CalledBy, Operation, OnPath, PlayerOps, Updating, MuteOps,
         AllHandlers, Checked, Unlocked
<1>b. Progress(t, obeys) /\ (obeys /\ queue = NoUri => pc[t] = "add")
  BY DEF OwnerInv
<1>c. at' = at /\ UNCHANGED <<target, said>>
  OBVIOUS
<1>d. SUFFICES /\ player' \in PlayerStates /\ Progress(t, obeys)'
               /\ obeys /\ queue' = NoUri => pc'[t] = "add"
  BY <1>c DEF OwnerInv
<1> USE <1>a, <1>b DEF Progress, Agree, PlayerOps, Updating, OnPath
<1>1. CASE Lock(t)
  BY <1>1 DEF Lock, AfterLock, CheckOps, CommandOps, MuteOps
<1>2. CASE Unlock(t)
  BY <1>2 DEF Unlock
<1>3. CASE Check(t)
  BY <1>3 DEF Check
<1>4. CASE CheckUnlock(t)
  BY <1>4 DEF CheckUnlock
<1>5. CASE Query(t)
  BY <1>0, <1>5 DEF Query, Dropped, Crash
<1>6. CASE Song(t) \/ AdoptUri(t)
  BY <1>0, <1>6 DEF Song, AdoptUri, Crash
<1>7. CASE Finish(t)
  BY <1>0, <1>7 DEF Finish, Dropped, Crash
<1>8. CASE SetState(t)
  BY <1>8 DEF SetState, PlayerStates, UPnPState, Translate, AfterUpdate, CheckOps
<1>9. CASE SetVar(t)
  BY <1>9 DEF SetVar, PlayerStates, UPnPState, Translate, AfterUpdate, CheckOps
<1>10. CASE Command(t)
  BY <1>0, <1>10 DEF Command, Refused, Crash, Effect, Published, PlayerStates, UPnPState
<1>11. CASE SendPlayMode(t) \/ FinishPlayMode(t)
  BY <1>0, <1>11 DEF SendPlayMode, FinishPlayMode, Dropped, Crash
<1>12. CASE TestUri(t)
  BY <1>12 DEF TestUri
<1>13. CASE ClearQueue(t)
  BY <1>0, <1>13 DEF ClearQueue, Crash, PlayerStates
<1>14. CASE AddUri(t)
  BY <1>0, <1>14, NoneAssumption DEF AddUri, Refused, Crash
<1>15. CASE Position(t)
  BY <1>0, <1>15 DEF Position, Crash
<1>16. ~(\/ FreeConn(t) \/ ClearConn(t) \/ SeekStatus(t) \/ EarlyUnlock(t) \/ Peek(t)
         \/ Mixing(t))
  BY DEF FreeConn, ClearConn, SeekStatus, EarlyUnlock, Peek, Mixing, SaveVolume, SetMixer,
         ReadVolume
<1> QED
  BY <1>1, <1>2, <1>3, <1>4, <1>5, <1>6, <1>7, <1>8, <1>9, <1>10, <1>11, <1>12, <1>13,
     <1>14, <1>15, <1>16 DEF Inner, Exclusive, Polling

\* In the calls of AVTransport t owns transport_mutex.
LEMMA CallingOwns ==
  ASSUME NEW obeys \in BOOLEAN, MutexInv, CalmInv(obeys),
         NEW t \in Threads, at[t] \in TransportGuarded
  PROVE  transportMutex = t
BY DEF MutexInv, TransportInv, CalmInv, RequestOK, Mutexless, Unlocked, AllHandlers, Checked,
       TransportGuarded

LEMMA InnerStepped ==
  ASSUME NEW obeys \in BOOLEAN, Given(obeys), MutexInv, CalmInv(obeys), NEW t \in Threads, Inner(t),
         UNCHANGED <<handlerVars, controlOnly>>
  PROVE  Stepped(t, obeys)
<1> USE DEF MutexInv, CalmInv, DataInv
<1>0. UNCHANGED <<transportMutex, at, req, param, target, said, rcAt>>
  BY DEF handlerVars, controlOnly
<1>1. Moved(t)
  BY InnerMoved DEF CallOK
<1>2. MoreDomains' /\ conn' = "ok"
  <2>1. DOMAIN op' = Threads /\ DOMAIN arg' = Threads /\ DOMAIN snap' = Threads
    BY <1>1 DEF Moved, MoreDomains
  <2> QED BY <1>0, <1>1, <2>1 DEF Moved, MoreDomains
<1>3. \A u \in Threads \ {t} : Same(u)
  BY <1>0, <1>1 DEF Moved, Same
<1>4. CallOK(t)' /\ RequestOK(t)'
  BY <1>0, <1>1 DEF Moved, CallOK, RequestOK
<1>5. CASE at[t] = "calling"
  <2>1. transportMutex = t
    BY <1>5, CallingOwns DEF TransportGuarded
  <2>2. OwnerInv(t, obeys)' /\ player' \in PlayerStates
    BY <1>5, <2>1, InnerProgress
  <2> QED BY <1>0, <1>2, <1>3, <1>4, <2>1, <2>2, NoneAssumption DEF Stepped
<1>6. CASE at[t] # "calling"
  <2>1. op[t] \in ControlOps \cup {"check_mpd_connection(TRUE)"}
    <3>1. pc[t] # "idle"
      BY InnerStep
    <3> QED BY <1>6, <3>1 DEF CallOK, OnPath, PlayerOps, MuteOps
  <2>2. UNCHANGED <<player, queue, transportState, stateVar>>
    BY <1>1, <2>1 DEF Moved
  <2>3. transportMutex # t
    BY <1>6, <2>1 DEF TransportInv, TransportGuarded, CallOK, OneRequest, ControlOps, MuteOps
  <2>4. transportMutex = None => Agree(obeys)' /\ (obeys => queue' # NoUri)
    BY <2>2 DEF Agree
  <2> QED BY <1>0, <1>2, <1>3, <1>4, <2>2, <2>3, <2>4 DEF Stepped
<1> QED BY <1>5, <1>6

(* Steps of the handlers.                                                  *)

\* What entering and leaving a function does to the calls.
LEMMA CallMoved ==
  ASSUME Domains, MoreDomains, NEW t \in Threads, NEW o, NEW a, Call(t, o, a)
  PROVE  /\ op'[t] = o /\ arg'[t] = a /\ pc'[t] = Entry(o) /\ snap' = snap
         /\ DOMAIN op' = Threads /\ DOMAIN arg' = Threads
         /\ \A u \in Threads \ {t} : pc'[u] = pc[u] /\ op'[u] = op[u] /\ arg'[u] = arg[u]
         /\ UNCHANGED <<conn, player, queue, transportState, stateVar>>
BY DEF Domains, MoreDomains, Call, At, Goto, linkVars, mpdVars, stateVars

LEMMA ReturnMoved ==
  ASSUME Domains, MoreDomains, NEW t \in Threads, Return(t)
  PROVE  /\ pc[t] = "ret" /\ op'[t] = "none" /\ pc'[t] = "idle"
         /\ DOMAIN op' = Threads /\ DOMAIN arg' = Threads /\ DOMAIN snap' = Threads
         /\ \A u \in Threads \ {t} :
              pc'[u] = pc[u] /\ op'[u] = op[u] /\ arg'[u] = arg[u] /\ snap'[u] = snap[u]
         /\ UNCHANGED <<conn, player, queue, transportState, stateVar>>
BY DEF Domains, MoreDomains, Return, At, Goto, linkVars, mpdVars, stateVars

\* Steps that leave output_mpd.c alone.
LEMMA AloneMoved ==
  ASSUME UNCHANGED vars
  PROVE  UNCHANGED <<pc, op, arg, snap, conn, player, queue, transportState, stateVar>>
BY DEF vars, callVars, linkVars, mpdVars, stateVars

LEMMA TransportStepped ==
  ASSUME NEW obeys \in BOOLEAN, Given(obeys), MutexInv, CalmInv(obeys),
         NEW t \in Threads, Handle(t), UNCHANGED controlOnly
  PROVE  Stepped(t, obeys)
<1> USE NoneAssumption DEF MutexInv, CalmInv, DataInv, Domains, Here, Move, locals
<1>0. rcAt' = rcAt
  BY DEF controlOnly
<1>a. /\ at[t] \in TransportGuarded => transportMutex = t /\ OwnerInv(t, obeys)
      /\ transportMutex = t => at[t] \in TransportGuarded
  BY CallingOwns DEF TransportInv
<1>b. at[t] # "idle" => rcAt[t] = "idle"
  BY DEF OneRequest
<1> USE <1>0, <1>a, <1>b DEF Stepped, MoreDomains, Same
<1>1. CASE StartLoop(t)
  BY <1>1, CallMoved
     DEF StartLoop, CallOK, RequestOK, OwnerInv, Agree, TransportGuarded
<1>2. CASE CheckConnection(t)
  <2> USE <1>2 DEF CheckConnection, TransportGuarded
  <2>1. Call(t, "check_mpd_connection(TRUE)", None)
    OBVIOUS
  <2>2. CallOK(t)'
    BY <2>1, CallMoved DEF CallOK, OnPath, Entry, MuteOps, Given, Linked
  <2>3. RequestOK(t)'
    BY DEF RequestOK
  <2> QED BY <2>1, <2>2, <2>3, CallMoved DEF Agree
<1>3. CASE CheckDone(t)
  <2> USE <1>3 DEF CheckDone, TransportGuarded
  <2>1. CallOK(t)' /\ RequestOK(t)'
    BY ReturnMoved DEF CallOK, RequestOK, OnPath, AllHandlers, Checked, Unlocked
  <2> QED BY <2>1, ReturnMoved DEF Agree
<1>4. CASE TransportLock(t)
  BY <1>4, AloneMoved
     DEF TransportLock, CallOK, RequestOK, OwnerInv, Agree, TransportGuarded
<1>5. CASE TransportUnlock(t)
  BY <1>5, AloneMoved
     DEF TransportUnlock, CallOK, RequestOK, OwnerInv, Agree, TransportGuarded
<1>6. CASE Switch(t)
  <2> USE <1>6 DEF Switch
  <2>1. CASE Chosen(req[t], transportState) = "none"
    BY <2>1, AloneMoved DEF CallOK, RequestOK, OwnerInv, Agree, TransportGuarded
  <2>2. CASE Chosen(req[t], transportState) # "none"
    <3> DEFINE o == Chosen(req[t], transportState)
    <3>1. /\ o \in PlayerOps /\ CalledBy(req[t], o)
          /\ o = "output_pause" => transportState = "PLAYING"
      BY <2>2 DEF Chosen, CalledBy, PlayerOps
    <3>2. Call(t, o, None) /\ Entry(o) = "lock"
      BY <2>2, <3>1 DEF Entry, PlayerOps, Given, Linked, MuteOps
    <3>3. op'[t] = o /\ pc'[t] = "lock"
      BY <3>2, CallMoved
    <3>4. CallOK(t)' /\ RequestOK(t)'
      BY <2>2, <3>1, <3>3 DEF CallOK, RequestOK, OnPath, PlayerOps
    <3>5. Agree(obeys) /\ (obeys => queue # NoUri)
      BY DEF OwnerInv, TransportGuarded
    <3>6. obeys /\ o = "output_pause" => player = "PLAY"
      BY <3>1, <3>5 DEF Agree, UPnPState, PlayerStates
    <3>7. OwnerInv(t, obeys)'
      BY <2>2, <3>1, <3>2, <3>3, <3>5, <3>6, CallMoved DEF OwnerInv, Progress, Agree, Updating, PlayerOps
    <3> QED BY <2>2, <3>2, <3>4, <3>7, CallMoved DEF TransportGuarded
  <2> QED BY <2>1, <2>2
<1>7. CASE Invoke(t)
  <2> USE <1>7 DEF Invoke
  <2> DEFINE o == Operation(req[t])
  <2>1. /\ o \in {"output_update_status", "output_update_position", "output_playmode",
                  "output_set_uri"}
        /\ CalledBy(req[t], o) /\ Call(t, o, param[t])
        /\ o = "output_set_uri" => param[t] \in Uris
    BY DEF RequestOK, Operation, CalledBy, AllHandlers, Checked, Unlocked
  <2>2. Entry(o) \in {"lock", "uri_test"} /\ OnPath(o, Entry(o))
    BY <2>1 DEF Entry, OnPath, PlayerOps, Given, Linked, MuteOps
  <2>3. op'[t] = o /\ pc'[t] = Entry(o) /\ arg'[t] = param[t]
    BY <2>1, CallMoved
  <2>4. CallOK(t)' /\ RequestOK(t)'
    BY <2>1, <2>2, <2>3 DEF CallOK, RequestOK
  <2>5. Agree(obeys) /\ (obeys => queue # NoUri)
    BY DEF OwnerInv, TransportGuarded
  <2>6. OwnerInv(t, obeys)'
    BY <2>1, <2>2, <2>3, <2>5, CallMoved DEF OwnerInv, Progress, Agree, Updating
  <2> QED BY <2>1, <2>4, <2>6, CallMoved DEF TransportGuarded
<1>8. CASE CallDone(t)
  <2> USE <1>8 DEF CallDone
  <2>1. /\ CallOK(t) /\ OwnerInv(t, obeys) /\ RequestOK(t) /\ transportMutex = t
        /\ pc[t] = "ret" /\ at[t] = "calling"
    BY ReturnMoved DEF TransportGuarded
  <2>2. NextPlace(req[t], rc[t] = "fail" /\ req[t] \in Reporting) = at'[t]
    OBVIOUS
  <2>3. /\ at'[t] \in {"transport_unlock", "set_state", "notify", "set_av_uri", "update_last"}
        /\ at'[t] = "set_state" => req[t] \in {"Stop", "Pause", "Play"}
        /\ at'[t] = "set_av_uri" <=> req[t] = "SetAVTransportURI"
    BY <2>1, <2>2 DEF NextPlace, RequestOK, AllHandlers, Checked, Unlocked
  <2>4. CallOK(t)' /\ RequestOK(t)'
    BY <2>1, <2>3, ReturnMoved DEF CallOK, RequestOK, OnPath
  <2>5. OwnerInv(t, obeys)'
    <3>1. op[t] = "output_set_uri" <=> req[t] = "SetAVTransportURI"
      BY <2>1 DEF CallOK, RequestOK, CalledBy, Operation, AllHandlers, Checked, Unlocked
    <3>2. req[t] # "SetAVTransportURI" => Agree(obeys)
      BY <2>1, <3>1 DEF OwnerInv, Progress, Agree
    <3>3. obeys /\ at'[t] = "set_av_uri" => Published(op[t]) = UPnPState[player]
      BY <2>1, <2>3, <3>1 DEF OwnerInv, Progress, Published, UPnPState
    <3>4. obeys /\ at'[t] = "set_state" => Published(op[t]) = UPnPState[player]
      BY <2>1, <2>3 DEF CallOK, CalledBy, OwnerInv, Progress, Updating, PlayerOps
    <3>5. obeys => queue # NoUri
      BY <2>1 DEF OwnerInv
    <3>6. /\ target'[t] = Published(op[t]) /\ said' = said
          /\ UNCHANGED <<player, queue, transportState, stateVar>>
      BY ReturnMoved
    <3>7. at'[t] # "set_av_uri" => Agree(obeys)'
      BY <2>3, <3>1, <3>2, <3>6 DEF Agree
    <3> QED BY <2>3, <3>3, <3>4, <3>5, <3>6, <3>7 DEF OwnerInv
  <2> QED BY <2>1, <2>4, <2>5, ReturnMoved
<1>9. CASE SetAvUri(t)
  <2> USE <1>9 DEF SetAvUri, callVars, linkVars, mpdVars, stateVars
  <2>1. CallOK(t)' /\ RequestOK(t)'
    BY DEF CallOK, RequestOK
  <2>2. OwnerInv(t, obeys)'
    BY DEF OwnerInv, TransportGuarded
  <2> QED BY <2>1, <2>2 DEF TransportGuarded
<1>10. CASE SetTransportState(t)
  BY <1>10
     DEF SetTransportState, CallOK, RequestOK, OwnerInv, Agree, TransportGuarded, callVars, linkVars, mpdVars, stateVars
<1>11. CASE ChangeVar(t)
  BY <1>11
     DEF ChangeVar, CallOK, RequestOK, OwnerInv, Agree, TransportGuarded, callVars, linkVars, mpdVars, stateVars
<1>12. CASE Notify(t)
  <2> USE <1>12 DEF Notify
  <2>1. CallOK(t)' /\ RequestOK(t)'
    BY AloneMoved DEF CallOK, RequestOK
  <2>2. said'[t].form = "mode" \/ said'[t].state = stateVar
    BY DEF Event
  <2>3. OwnerInv(t, obeys)'
    BY <2>2, AloneMoved DEF OwnerInv, Agree, TransportGuarded
  <2> QED BY <2>1, <2>3, AloneMoved DEF TransportGuarded
<1>13. CASE Send(t)
  BY <1>13, AloneMoved
     DEF Send, CallOK, RequestOK, OwnerInv, Agree, TransportGuarded
<1>14. CASE Append(t)
  BY <1>14, AloneMoved
     DEF Append, CallOK, RequestOK, OwnerInv, Agree, TransportGuarded
<1>15. CASE Reply(t)
  BY <1>15, AloneMoved
     DEF Reply, CallOK, RequestOK, OwnerInv, Agree, TransportGuarded
<1>16. CASE DeviceLock(t)
  BY <1>16, AloneMoved
     DEF DeviceLock, CallOK, RequestOK, OwnerInv, Agree, TransportGuarded
<1>17. CASE UpdateLast(t)
  BY <1>17, AloneMoved
     DEF UpdateLast, CallOK, RequestOK, OwnerInv, Agree, TransportGuarded
<1>18. CASE StoreLast(t)
  BY <1>18, AloneMoved
     DEF StoreLast, CallOK, RequestOK, OwnerInv, Agree, TransportGuarded
<1>19. CASE ReadLast(t)
  BY <1>19
     DEF ReadLast, CallOK, RequestOK, OwnerInv, Agree, TransportGuarded, callVars, linkVars, mpdVars, stateVars
<1>20. CASE Accept(t)
  BY <1>20, AloneMoved
     DEF Accept, CallOK, RequestOK, OwnerInv, Agree, TransportGuarded
<1> QED
  BY <1>1, <1>2, <1>3, <1>4, <1>5, <1>6, <1>7, <1>8, <1>9, <1>10, <1>11, <1>12, <1>13,
     <1>14, <1>15, <1>16, <1>17, <1>18, <1>19, <1>20 DEF Handle

\* RenderingControl works on other variables, and on the mixer.
LEMMA ControlStepped ==
  ASSUME NEW obeys \in BOOLEAN, Given(obeys), MutexInv, CalmInv(obeys),
         NEW t \in Threads, RC!Handle(t), UNCHANGED transportOnly
  PROVE  Stepped(t, obeys)
<1> USE DEF MutexInv, CalmInv, DataInv, Domains, RC!Here, RC!Move
<1>0. UNCHANGED <<transportMutex, at, req, param, target, said>>
  BY DEF transportOnly
<1>1. ~RC!DoneElsewhere(t)
  BY DEF RC!DoneElsewhere, OneRequest
<1>2. rcAt[t] # "idle" /\ rcAt[t] # rcAt'[t] /\ (\A u \in Threads \ {t} : rcAt'[u] = rcAt[u])
  BY <1>1 DEF RC!Handle, RC!DeviceLock, RC!ControlLock, RC!ControlUnlock, RC!Begin, RC!SetDone,
     RC!ReadBack, RC!GetDone, RC!ChangeVolume, RC!ChangeMute, RC!Send, RC!Append, RC!Reply,
     RC!LastChange, RC!StoreLast, RC!ReadLast, RC!Accept
<1>3. at[t] = "idle" /\ transportMutex # t
  BY <1>2 DEF OneRequest, TransportInv, TransportGuarded
<1>4. RequestOK(t)'
  BY <1>0 DEF RequestOK
<1>5. CASE rcAt'[t] = "calling"
  <2>0. RC!Begin(t) \/ RC!ReadBack(t)
    BY <1>1, <1>5 DEF RC!Handle, RC!DeviceLock, RC!ControlLock, RC!ControlUnlock, RC!SetDone,
       RC!GetDone, RC!ChangeVolume, RC!ChangeMute, RC!Send, RC!Append, RC!Reply, RC!LastChange,
       RC!StoreLast, RC!ReadLast, RC!Accept
  <2>c. \E c \in ControlOps : \E a : Call(t, c, a)
    <3>1. CASE RC!ReadBack(t)
      <4>1. Call(t, "output_get_volume", None)
        BY <3>1, SameCalls DEF RC!ReadBack
      <4> QED BY <4>1 DEF ControlOps
    <3>2. CASE RC!Begin(t)
      <4> DEFINE o == RC!FirstCall(rcReq[t], rcParam[t])
      <4>1. o # "none" /\ \E a : RC!Call(t, o, a)
        BY <1>5, <3>2 DEF RC!Begin
      <4>2. o \in ControlOps
        BY <4>1 DEF RC!FirstCall, ControlOps, MuteOps
      <4> QED BY <4>1, <4>2, SameCalls
    <3> QED BY <2>0, <3>1, <3>2
  <2>p. PICK c \in ControlOps : \E a : Call(t, c, a)
    BY <2>c
  <2>1. PICK a : Call(t, c, a)
    BY <2>p
  <2>2. CallOK(t)'
    BY <1>0, <1>3, <1>5, <2>1, CallMoved
       DEF CallOK, OnPath, ControlOps, MuteOps, Entry, Given, Linked
  <2> QED BY <1>0, <1>2, <1>3, <1>4, <2>1, <2>2, CallMoved DEF Stepped, MoreDomains, Same, Agree
<1>6. CASE rcAt[t] = "calling"
  <2>1. Return(t)
    BY <1>1, <1>6, SameCalls DEF RC!Handle, RC!DeviceLock, RC!ControlLock, RC!ControlUnlock,
       RC!Begin, RC!SetDone, RC!ReadBack, RC!GetDone, RC!ChangeVolume, RC!ChangeMute, RC!Send,
       RC!Append, RC!Reply, RC!LastChange, RC!StoreLast, RC!ReadLast, RC!Accept
  <2>2. CallOK(t)'
    BY <1>0, <1>2, <1>3, <1>6, <2>1, ReturnMoved DEF CallOK, OnPath
  <2> QED BY <1>0, <1>2, <1>3, <1>4, <2>1, <2>2, ReturnMoved DEF Stepped, MoreDomains, Same, Agree
<1>7. CASE rcAt[t] # "calling" /\ rcAt'[t] # "calling"
  <2>1. UNCHANGED <<pc, op, arg, snap, conn, player, queue, transportState, stateVar>>
    BY <1>1, <1>7, SameCalls, AloneMoved DEF RC!Handle, RC!DeviceLock, RC!ControlLock, RC!ControlUnlock,
       RC!Begin, RC!SetDone, RC!ReadBack, RC!GetDone, RC!ChangeVolume, RC!ChangeMute, RC!Send,
       RC!Append, RC!Reply, RC!LastChange, RC!StoreLast, RC!ReadLast, RC!Accept,
       RC!callVars, RC!mpdVars, RC!stateVars
  <2>2. CallOK(t)'
    BY <1>0, <1>3, <1>7, <2>1 DEF CallOK
  <2> QED BY <1>0, <1>2, <1>3, <1>4, <2>1, <2>2 DEF Stepped, MoreDomains, Same, Agree
<1> QED BY <1>5, <1>6, <1>7

LEMMA RequestStepped ==
  ASSUME NEW obeys \in BOOLEAN, Given(obeys), MutexInv, CalmInv(obeys), NEW t \in Threads,
         RequestTransport(t) \/ RequestControl(t)
  PROVE  Stepped(t, obeys)
<1> USE DEF MutexInv, CalmInv, DataInv, Domains, Free
<1>0. /\ UNCHANGED <<pc, op, arg, snap, conn, player, queue, transportState, stateVar>>
      /\ UNCHANGED <<transportMutex, target, said>> /\ transportMutex # t
      /\ at[t] = "idle" /\ rcAt[t] = "idle" /\ op[t] = "none"
  BY AloneMoved, SameCalls DEF RequestTransport, RequestControl, Request, RC!Request, transportOnly,
     TransportInv, TransportGuarded, CallOK
<1>1. CASE RequestTransport(t)
  <2>1. PICK h \in Handlers : \E p \in Params(h) : Request(t, h, p)
    BY <1>1 DEF RequestTransport
  <2>2. PICK p \in Params(h) : Request(t, h, p)
    BY <2>1
  <2>3. h \in AllHandlers \ Unlocked /\ (h = "SetAVTransportURI" => p \in Uris)
    BY <2>2, HandlersAssumption DEF Given, Linked, Params
  <2>4. /\ at'[t] = FirstPlace(h) /\ req'[t] = h /\ param'[t] = p /\ rcAt' = rcAt
        /\ DOMAIN param' = Threads
        /\ \A u \in Threads \ {t} : at'[u] = at[u] /\ req'[u] = req[u] /\ param'[u] = param[u]
    BY <1>1, <2>2 DEF Request, Move, RequestTransport, controlOnly, MoreDomains
  <2>5. RequestOK(t)'
    BY <2>3, <2>4 DEF RequestOK, FirstPlace, AllHandlers, Checked, Unlocked
  <2>6. CallOK(t)'
    BY <1>0, <2>4 DEF CallOK, FirstPlace
  <2> QED BY <1>0, <2>4, <2>5, <2>6 DEF Stepped, MoreDomains, Same, Agree
<1>2. CASE RequestControl(t)
  <2>1. /\ UNCHANGED <<at, req, param>> /\ rcAt'[t] # "calling"
        /\ \A u \in Threads \ {t} : rcAt'[u] = rcAt[u]
    BY <1>2 DEF RequestControl, transportOnly, RC!Request, RC!Move, RC!FirstPlace
  <2>2. CallOK(t)' /\ RequestOK(t)'
    BY <1>0, <2>1 DEF CallOK, RequestOK
  <2> QED BY <1>0, <2>1, <2>2 DEF Stepped, MoreDomains, Same, Agree
<1> QED BY <1>1, <1>2
-----------------------------------------------------------------------------
(* All steps, and the results.                                             *)

\* With a URI queued where MPD obeys.
LEMMA CalmInit ==
  ASSUME NEW obeys \in BOOLEAN, Given(obeys), ServicesInit, obeys => queue # NoUri
  PROVE  CalmInv(obeys)
<1> USE NoneAssumption DEF ServicesInit, AVInit, Init, RC!ControlInit, Given, Linked
<1>1. MoreDomains
  BY DEF MoreDomains
<1>2. \A t \in Threads : CallOK(t) /\ RequestOK(t)
  BY DEF CallOK, RequestOK, OnPath
<1>3. DataInv(obeys)
  BY DEF DataInv, AfterFirstStatus, Agree, UPnPState, Translate, PlayerStates
<1> QED BY <1>1, <1>2, <1>3 DEF CalmInv

LEMMA CalmStep ==
  ASSUME NEW obeys \in BOOLEAN, Given(obeys), MutexInv, CalmInv(obeys),
         [ServicesNext]_servicesVars
  PROVE  CalmInv(obeys)'
<1>1. ASSUME NEW t \in Threads, Serve(t) \/ RequestTransport(t) \/ RequestControl(t)
      PROVE  CalmInv(obeys)'
  <2>1. Stepped(t, obeys)
    BY <1>1, TransportStepped, ControlStepped, InnerStepped, RequestStepped DEF Serve
  <2> QED BY <2>1, SteppedKeeps
<1>2. CASE Outside \/ UNCHANGED servicesVars
  <2>1. UNCHANGED <<conn, queue, transportState, stateVar, callVars, transportMutex, at,
                    req, param, target, said, rcAt>>
    BY <1>2 DEF Outside, PlayerMoves, MixerMoves, Dead, vars, linkVars, mpdVars, stateVars,
                handlerVars, controlOnly, servicesVars, avVars
  <2>2. player' \in PlayerStates /\ (obeys => player' = player)
    BY <1>2 DEF Outside, PlayerMoves, MixerMoves, Dead, Given, Calm, vars, mpdVars,
                servicesVars, avVars, CalmInv, DataInv
  <2>3. MoreDomains' /\ \A t \in Threads : CallOK(t)' /\ RequestOK(t)'
    BY <2>1 DEF CalmInv, MoreDomains, CallOK, RequestOK, callVars
  <2>4. DataInv(obeys)'
    BY <2>1, <2>2 DEF CalmInv, DataInv, OwnerInv, Progress, Agree, callVars
  <2> QED BY <2>3, <2>4 DEF CalmInv
<1> QED BY <1>1, <1>2 DEF ServicesNext

LEMMA LinkedInvariant == Linked => (ServicesSpec => [](MutexInv /\ CalmInv(FALSE)))
<1> SUFFICES ASSUME Linked PROVE ServicesSpec => [](MutexInv /\ CalmInv(FALSE))
  OBVIOUS
<1>0. Given(FALSE)
  BY DEF Given
<1>1. ServicesInit => MutexInv /\ CalmInv(FALSE)
  BY <1>0, CalmInit, MutexInit
<1>2. MutexInv /\ CalmInv(FALSE) /\ [ServicesNext]_servicesVars => MutexInv' /\ CalmInv(FALSE)'
  BY <1>0, CalmStep, MutexStep
<1> QED BY <1>1, <1>2, PTL DEF ServicesSpec

LEMMA CalmInvariant == Calm => (QueuedSpec => [](MutexInv /\ CalmInv(TRUE)))
<1> SUFFICES ASSUME Calm PROVE QueuedSpec => [](MutexInv /\ CalmInv(TRUE))
  OBVIOUS
<1>0. Given(TRUE)
  BY DEF Given, Calm
<1>1. QueuedInit => MutexInv /\ CalmInv(TRUE)
  BY <1>0, CalmInit, MutexInit DEF QueuedInit
<1>2. MutexInv /\ CalmInv(TRUE) /\ [ServicesNext]_servicesVars => MutexInv' /\ CalmInv(TRUE)'
  BY <1>0, CalmStep, MutexStep
<1> QED BY <1>1, <1>2, PTL DEF QueuedSpec

\* A thread that reads or writes what AVTransport publishes owns
\* transport_mutex, inside output_mpd.c too.
LEMMA TouchOwns ==
  ASSUME NEW obeys \in BOOLEAN, MutexInv, CalmInv(obeys),
         NEW t \in Threads, NEW v, NEW write \in BOOLEAN,
         Touches(t, v, write)
  PROVE  transportMutex = t
<1>1. CASE at[t] \in {"set_state", "switch", "change_var", "notify", "update_last"}
  BY <1>1, CallingOwns DEF TransportGuarded
<1>2. CASE pc[t] \in {"state", "var"}
  <2>1. at[t] = "calling"
    BY <1>2 DEF CalmInv, CallOK, OnPath, ControlOps, MuteOps, PlayerOps, Updating
  <2> QED BY <2>1, CallingOwns DEF TransportGuarded
<1> QED BY <1>1, <1>2 DEF Touches

(* The TransportState variable and transport_state agree whenever neither   *)
(* mutex is held, whichever thread wrote last under whichever of the two    *)
(* (update_mpd_status, transport_change_var).                               *)
THEOREM VariablesAgree == Linked => (ServicesSpec => []StateVarAgree)
<1>1. CalmInv(FALSE) => StateVarAgree
  BY DEF CalmInv, DataInv, Agree, StateVarAgree
<1> QED BY <1>1, LinkedInvariant, PTL

(* No two threads are at the transport variables at once, though they write *)
(* them under two different mutexes: one is taken inside the other          *)
(* (upnp_transport.c:437).                                                  *)
THEOREM TransportIsProtected == Linked => (ServicesSpec => []TransportProtected)
<1>1. MutexInv /\ CalmInv(FALSE) => TransportProtected
  <2> SUFFICES ASSUME MutexInv, CalmInv(FALSE), NEW t \in Threads, NEW u \in Threads,
                      NEW v \in {"state", "var"}, Touches(t, v, TRUE), Touches(u, v, FALSE)
               PROVE  t = u
    BY DEF TransportProtected
  <2> QED BY TouchOwns
<1> QED BY <1>1, LinkedInvariant, PTL

(* With every request answered the renderer chooses by what MPD does        *)
(* (xstop, xpause, xplay).                                                  *)
THEOREM StateIsThePlayers == Calm => (QueuedSpec => []StateFollowsPlayer)
<1>1. MutexInv /\ CalmInv(TRUE) => StateFollowsPlayer
  <2> SUFFICES ASSUME MutexInv, CalmInv(TRUE), \A t \in Threads : at[t] \in {"idle", "loop"}
               PROVE  transportState = UPnPState[player]
    BY DEF StateFollowsPlayer
  <2>1. transportMutex = None
    BY DEF MutexInv, TransportInv, TransportGuarded, CalmInv, DataInv
  <2> QED BY <2>1 DEF CalmInv, DataInv, Agree
<1> QED BY <1>1, CalmInvariant, PTL

(* An event that names a transport state names the state MPD is in          *)
(* (transport_change_var, transport_notify_lastchange).                     *)
THEOREM EventsTellTheTruth == Calm => (QueuedSpec => []EventTruth)
<1>1. MutexInv /\ CalmInv(TRUE) => EventTruth
  <2> SUFFICES ASSUME MutexInv, CalmInv(TRUE), NEW t \in Threads, at[t] = "send",
                      said[t].form # "mode"
               PROVE  said[t].state = UPnPState[player]
    BY DEF EventTruth
  <2>1. transportMutex = t
    BY CallingOwns DEF TransportGuarded
  <2> QED BY <2>1 DEF CalmInv, DataInv, OwnerInv, Agree
<1> QED BY <1>1, CalmInvariant, PTL
=============================================================================
