---------------------------- MODULE AVTransport ----------------------------
(***************************************************************************)
(* upnp_transport.c, and the parts of upnp_device.c that call it: the      *)
(* handlers of the AVTransport service, run by libupnp's worker threads    *)
(* on top of the output_* operations of MpdOutput.                         *)
(*                                                                         *)
(* at[t] is the place the handler has reached, req[t] the action it        *)
(* serves.  A handler that has called an output_* function waits, in       *)
(* "checking" or "calling", until pc[t] is "ret".  The main thread, if the *)
(* run has one, makes the one status update of output_loop.                *)
(*                                                                         *)
(* A request with a missing argument or a wrong InstanceID is answered     *)
(* before any state is touched and is left out; so are                     *)
(* TRANSPORT_TRANSITIONING and TRANSPORT_NO_MEDIA_PRESENT, which no code   *)
(* ever assigns.                                                           *)
(***************************************************************************)
EXTENDS MpdOutput

CONSTANTS Handlers,  \* the requests control points send
          Main       \* the main thread, or None if start-up is over

\* Handlers that call check_mpd_connection(TRUE) first.
Checked == {"Stop", "Pause", "Play", "SetPlayMode", "Seek", "Next", "Previous"}

\* Of these, the ones that never take transport_mutex.
Unlocked == {"Seek", "Next", "Previous"}

AllHandlers == Checked \cup {"SetAVTransportURI", "GetPositionInfo",
                             "GetTransportInfo", "Subscribe"}

ASSUME HandlersAssumption == Handlers \subseteq AllHandlers
ASSUME MainAssumption == Main \in Threads \cup {None}

VARIABLES
  transportMutex,  \* owner of transport_mutex
  deviceMutex,     \* owner of device_mutex
  at, req,         \* each thread's handler: place and action
  param,           \* its argument
  result,          \* what it will answer
  target,          \* the transport state it is about to publish
  said,            \* the event it has formatted
  lastChange       \* the event the LastChange variable holds

handlerVars ==
  <<transportMutex, deviceMutex, at, req, param, result, target, said, lastChange>>
avVars == <<vars, handlerVars>>

Places == {"idle", "main", "loop", "check", "checking", "transport_lock",
           "switch", "command", "calling", "set_av_uri", "set_state",
           "change_var", "notify", "send", "transport_unlock", "append",
           "device_lock", "update_last", "store_last", "read_last", "accept",
           "reply"}

\* An event names the state alone, the state with the status and the track,
\* or the play mode; it holds nothing yet, or memory already freed.
Event(form, state) == [form |-> form, state |-> state]
Forms == {"state", "full", "mode", "none", "freed"}
NoEvent == Event("none", "STOPPED")
FreedEvent == Event("freed", "STOPPED")

AVInit ==
  /\ Init
  /\ IF Main = None /\ ~TestMode THEN AfterFirstStatus ELSE BeforeFirstStatus
  /\ transportMutex = None /\ deviceMutex = None
  /\ at = [t \in Threads |-> IF t = Main THEN "main" ELSE "idle"]
  /\ req = [t \in Threads |-> IF t = Main THEN "output_loop" ELSE "none"]
  /\ param = [t \in Threads |-> None]
  /\ result = [t \in Threads |-> "ok"]
  /\ target = [t \in Threads |-> "STOPPED"]
  /\ said = [t \in Threads |-> NoEvent]
  /\ lastChange = NoEvent

Here(t, l) == ~crashed /\ at[t] = l

Move(t, l) == at' = [at EXCEPT ![t] = l]

\* The local state of a handler at rest.
locals == <<req, param, result, target, said>>
-----------------------------------------------------------------------------
(* Requests and the connection check.                                      *)

Params(h) ==
  CASE h = "SetAVTransportURI" -> Uris
    [] h = "SetPlayMode" -> PlayModes
    [] OTHER -> {None}

FirstPlace(h) ==
  CASE h \in Checked -> "check"
    [] h = "Subscribe" -> "device_lock"
    [] h = "GetTransportInfo" -> "append"
    [] OTHER -> "transport_lock"

\* event_handler: a worker thread takes up an action or a subscription.
Request(t, h, p) ==
  /\ Here(t, "idle")
  /\ Move(t, FirstPlace(h))
  /\ req' = [req EXCEPT ![t] = h]
  /\ param' = [param EXCEPT ![t] = p]
  /\ UNCHANGED <<vars, transportMutex, deviceMutex, result, target, said, lastChange>>

\* The main thread enters output_loop and asks for the status.
StartLoop(t) ==
  /\ Here(t, "main")
  /\ Call(t, "output_update_status", None)
  /\ Move(t, "calling")
  /\ UNCHANGED <<transportMutex, deviceMutex, lastChange, locals>>

CheckConnection(t) ==
  /\ Here(t, "check")
  /\ Call(t, "check_mpd_connection(TRUE)", None)
  /\ Move(t, "checking")
  /\ UNCHANGED <<transportMutex, deviceMutex, lastChange, locals>>

CheckDone(t) ==
  /\ Here(t, "checking")
  /\ Return(t)
  /\ IF rc[t] = "fail"
     THEN Move(t, "reply") /\ result' = [result EXCEPT ![t] = "error"]
     ELSE /\ Move(t, IF req[t] \in Unlocked THEN "command" ELSE "transport_lock")
          /\ UNCHANGED result
  /\ UNCHANGED <<transportMutex, deviceMutex, lastChange, req, param, target, said>>

\* A mutation: the place after transport_lock is entered without the mutex.
TransportLockIgnored(t) ==
  /\ Here(t, "transport_lock")
  /\ Move(t, IF req[t] \in {"Stop", "Pause", "Play"} THEN "switch" ELSE "command")
  /\ UNCHANGED <<vars, transportMutex, deviceMutex, lastChange, locals>>

TransportLock(t) ==
  /\ Here(t, "transport_lock")
  /\ transportMutex = None
  /\ transportMutex' = t
  /\ Move(t, IF req[t] \in {"Stop", "Pause", "Play"} THEN "switch" ELSE "command")
  /\ UNCHANGED <<vars, deviceMutex, lastChange, locals>>

\* A mutation: the error paths skip the unlock.
TransportUnlockOnSuccess(t) ==
  /\ Here(t, "transport_unlock")
  /\ transportMutex' = (IF result[t] = "ok" THEN None ELSE transportMutex)
  /\ Move(t, CASE req[t] = "Subscribe" -> "read_last"
               [] req[t] = "GetPositionInfo" -> "append"
               [] OTHER -> "reply")
  /\ UNCHANGED <<vars, deviceMutex, lastChange, locals>>

TransportUnlock(t) ==
  /\ Here(t, "transport_unlock")
  /\ transportMutex' = None
  /\ Move(t, CASE req[t] = "Subscribe" -> "read_last"
               [] req[t] = "GetPositionInfo" -> "append"
               [] OTHER -> "reply")
  /\ UNCHANGED <<vars, deviceMutex, lastChange, locals>>
-----------------------------------------------------------------------------
(* The work of the handlers.                                               *)

\* The switch statements of xstop, xpause and xplay: the operation for each
\* transport state, "none" where the handler has nothing to do. A state that
\* was never set has no case.
Chosen(h, s) ==
  CASE h = "Stop" /\ s \in {"PLAYING", "PAUSED_PLAYBACK"} -> "output_stop"
    [] h = "Pause" /\ s = "PLAYING" -> "output_pause"
    [] h = "Pause" /\ s = "PAUSED_PLAYBACK" -> "output_play"
    [] h = "Play" /\ s \in {"STOPPED", "PAUSED_PLAYBACK"} -> "output_play"
    [] OTHER -> "none"

Switch(t) ==
  /\ Here(t, "switch")
  /\ IF Chosen(req[t], transportState) = "none"
     THEN Move(t, "transport_unlock") /\ UNCHANGED vars
     ELSE Move(t, "calling") /\ Call(t, Chosen(req[t], transportState), None)
  /\ UNCHANGED <<transportMutex, deviceMutex, lastChange, locals>>

\* The operation of the handlers that have no choice.
Operation(h) ==
  CASE h = "SetPlayMode" -> "output_playmode"
    [] h = "Seek" -> "output_seekto"
    [] h = "Next" -> "output_next"
    [] h = "Previous" -> "output_prev"
    [] h = "SetAVTransportURI" -> "output_set_uri"
    [] h = "GetPositionInfo" -> "output_update_position"
    [] OTHER -> "output_update_status"

Invoke(t) ==
  /\ Here(t, "command")
  /\ Call(t, Operation(req[t]), param[t])
  /\ Move(t, "calling")
  /\ UNCHANGED <<transportMutex, deviceMutex, lastChange, locals>>

\* A mutation: every Pause publishes PAUSED_PLAYBACK, the resuming one too.
PublishedByRequest(o) ==
  IF o \in {"output_play", "output_pause"} THEN "PAUSED_PLAYBACK" ELSE "STOPPED"

\* The state a handler publishes after each operation.
Published(o) ==
  CASE o = "output_play" -> "PLAYING"
    [] o = "output_pause" -> "PAUSED_PLAYBACK"
    [] OTHER -> "STOPPED"

\* Handlers whose operation reports failure to the control point.
Reporting == {"Stop", "Pause", "Play", "SetPlayMode"} \cup Unlocked

\* Where each handler goes on when its operation has returned.
NextPlace(h, failed) ==
  CASE h = "output_loop" -> "loop"
    [] h \in Unlocked -> "reply"
    [] h \in {"Stop", "Pause", "Play"} -> IF failed THEN "transport_unlock" ELSE "set_state"
    [] h = "SetPlayMode" -> IF failed THEN "transport_unlock" ELSE "notify"
    [] h = "SetAVTransportURI" -> "set_av_uri"
    [] h = "Subscribe" -> "update_last"
    [] OTHER -> "transport_unlock"

\* The output_* call has returned.
CallDone(t) ==
  /\ Here(t, "calling")
  /\ Return(t)
  /\ LET failed == rc[t] = "fail" /\ req[t] \in Reporting
     IN  /\ Move(t, NextPlace(req[t], failed))
         /\ result' = [result EXCEPT ![t] = IF failed THEN "error" ELSE "ok"]
  /\ target' = [target EXCEPT ![t] = Published(op[t])]
  /\ UNCHANGED <<transportMutex, deviceMutex, lastChange, req, param, said>>

\* SetAVTransportURI sets AVTransportURI whatever became of output_set_uri;
\* without CurrentURIMetaData it goes on and answers with an error.
SetAvUri(t) ==
  /\ Here(t, "set_av_uri")
  /\ avUri' = param[t]
  /\ \E answer \in {"ok", "error"} : result' = [result EXCEPT ![t] = answer]
  /\ Move(t, "set_state")
  /\ UNCHANGED <<linkVars, mpdMutex, mpdVars, stateVars, trackUri, volumeVars, callVars,
                 transportMutex, deviceMutex, req, param, target, said, lastChange>>

\* transport_state = ...
SetTransportState(t) ==
  /\ Here(t, "set_state")
  /\ transportState' = target[t]
  /\ Move(t, "change_var")
  /\ UNCHANGED <<linkVars, mpdMutex, mpdVars, stateVar, uriVars, volumeVars, callVars,
                 transportMutex, deviceMutex, lastChange, locals>>

\* A mutation: the variable keeps its old value.
ChangeVarForgotten(t) ==
  /\ Here(t, "change_var")
  /\ Move(t, "notify")
  /\ UNCHANGED <<vars, transportMutex, deviceMutex, lastChange, locals>>

\* transport_change_var: set the variable,
ChangeVar(t) ==
  /\ Here(t, "change_var")
  /\ stateVar' = target[t]
  /\ Move(t, "notify")
  /\ UNCHANGED <<linkVars, mpdMutex, mpdVars, transportState, uriVars, volumeVars, callVars,
                 transportMutex, deviceMutex, lastChange, locals>>

\* read it again for the event, and free the last one;
Notify(t) ==
  /\ Here(t, "notify")
  /\ said' = [said EXCEPT ![t] =
       CASE req[t] = "SetPlayMode" -> Event("mode", "STOPPED")
         [] req[t] = "SetAVTransportURI" -> Event("full", stateVar)
         [] OTHER -> Event("state", stateVar)]
  /\ lastChange' = FreedEvent
  /\ Move(t, "send")
  /\ UNCHANGED <<vars, transportMutex, deviceMutex, req, param, result, target>>

\* keep the new event and give it to UpnpNotify.
Send(t) ==
  /\ Here(t, "send")
  /\ lastChange' = said[t]
  /\ Move(t, "transport_unlock")
  /\ UNCHANGED <<vars, transportMutex, deviceMutex, locals>>

\* upnp_append_variable takes and releases transport_mutex for each variable.
Append(t) ==
  /\ Here(t, "append")
  /\ transportMutex = None
  /\ Move(t, "reply")
  /\ UNCHANGED <<vars, transportMutex, deviceMutex, lastChange, locals>>

\* The answer goes out and the thread returns to the pool.
Reply(t) ==
  /\ Here(t, "reply")
  /\ Move(t, "idle")
  /\ req' = [req EXCEPT ![t] = "none"]
  /\ param' = [param EXCEPT ![t] = None]
  /\ result' = [result EXCEPT ![t] = "ok"]
  /\ target' = [target EXCEPT ![t] = "STOPPED"]
  /\ said' = [said EXCEPT ![t] = NoEvent]
  /\ UNCHANGED <<vars, transportMutex, deviceMutex, lastChange>>
-----------------------------------------------------------------------------
(* handle_subscription_request with transport_notify_subscription.         *)

\* A mutation: the subscription goes on without device_mutex.
DeviceLockIgnored(t) ==
  /\ Here(t, "device_lock")
  /\ Move(t, "transport_lock")
  /\ UNCHANGED <<vars, transportMutex, deviceMutex, lastChange, locals>>

DeviceLock(t) ==
  /\ Here(t, "device_lock")
  /\ deviceMutex = None
  /\ deviceMutex' = t
  /\ Move(t, "transport_lock")
  /\ UNCHANGED <<vars, transportMutex, lastChange, locals>>

\* LAST_CHANGE gets the current state: transport_set_var keeps the old value
\* if it is the same, and that depends on the track too, or frees it ...
UpdateLast(t) ==
  /\ Here(t, "update_last")
  /\ \/ /\ lastChange = Event("full", stateVar)
        /\ Move(t, "transport_unlock")
        /\ UNCHANGED <<said, lastChange>>
     \/ /\ Move(t, "store_last")
        /\ said' = [said EXCEPT ![t] = Event("full", stateVar)]
        /\ lastChange' = FreedEvent
  /\ UNCHANGED <<vars, transportMutex, deviceMutex, req, param, result, target>>

\* ... and stores a copy.
StoreLast(t) ==
  /\ Here(t, "store_last")
  /\ lastChange' = said[t]
  /\ Move(t, "transport_unlock")
  /\ UNCHANGED <<vars, transportMutex, deviceMutex, locals>>

\* The evented variable is read for the new subscriber, without
\* transport_mutex. Freed memory may hold anything, or end the program.
ReadLast(t) ==
  /\ Here(t, "read_last")
  /\ said' = [said EXCEPT ![t] = lastChange]
  /\ crashed' \in (IF lastChange = FreedEvent THEN BOOLEAN ELSE {FALSE})
  /\ Move(t, "accept")
  /\ UNCHANGED <<conn, mpdMutex, mpdVars, stateVars, uriVars, volumeVars, callVars,
                 transportMutex, deviceMutex, lastChange, req, param, result, target>>

\* UpnpAcceptSubscription sends the first event; device_mutex is released.
Accept(t) ==
  /\ Here(t, "accept")
  /\ deviceMutex' = None
  /\ Move(t, "reply")
  /\ UNCHANGED <<vars, transportMutex, lastChange, locals>>
-----------------------------------------------------------------------------
Handle(t) ==
  \/ StartLoop(t) \/ CheckConnection(t) \/ CheckDone(t)
  \/ TransportLock(t) \/ TransportUnlock(t) \/ Switch(t) \/ Invoke(t) \/ CallDone(t)
  \/ SetAvUri(t) \/ SetTransportState(t) \/ ChangeVar(t) \/ Notify(t) \/ Send(t)
  \/ Append(t) \/ Reply(t)
  \/ DeviceLock(t) \/ UpdateLast(t) \/ StoreLast(t) \/ ReadLast(t) \/ Accept(t)

Work(t) == Handle(t) \/ (Inner(t) /\ UNCHANGED handlerVars)

AVNext ==
  \/ \E t \in Threads : Work(t) \/ \E h \in Handlers : \E p \in Params(h) : Request(t, h, p)
  \/ (PlayerMoves \/ Dead) /\ UNCHANGED handlerVars

AVSpec == AVInit /\ [][AVNext]_avVars

\* Worker threads run; nothing obliges a control point to send a request.
AVFairSpec == AVSpec /\ \A t \in Threads : WF_avVars(Work(t))

\* The same with control points that keep asking.
AVBusySpec ==
  AVFairSpec /\ \A t \in Threads :
    WF_avVars(\E h \in Handlers : \E p \in Params(h) : Request(t, h, p))
-----------------------------------------------------------------------------
(* Properties.                                                             *)

AVTypeOK ==
  /\ transportMutex \in Threads \cup {None} /\ deviceMutex \in Threads \cup {None}
  /\ at \in [Threads -> Places]
  /\ req \in [Threads -> AllHandlers \cup {"none", "output_loop"}]
  /\ result \in [Threads -> {"ok", "error"}]
  /\ target \in [Threads -> TransportStates \ {"UNSET"}]
  /\ said \in [Threads -> [form : Forms, state : TransportStates]]
  /\ lastChange \in [form : Forms, state : TransportStates]

\* Places inside a critical section of transport_mutex, for a handler that
\* takes it.
TransportGuarded ==
  {"switch", "command", "calling", "set_av_uri", "set_state", "change_var",
   "notify", "send", "transport_unlock", "update_last", "store_last"}

\* A handler at work on the transport variables owns transport_mutex, unless
\* it is one of those that never take it (upnp_transport.c, every stretch
\* from ithread_mutex_lock to ithread_mutex_unlock).
TransportHeld ==
  \A t \in Threads :
    at[t] \in TransportGuarded /\ req[t] \notin Unlocked \cup {"output_loop"}
      => transportMutex = t

\* A subscription owns device_mutex from its lock to its acceptance.
DeviceHeld ==
  \A t \in Threads :
    req[t] = "Subscribe" /\ at[t] \notin {"device_lock", "reply"} => deviceMutex = t

\* With nobody in either critical section, transport_state and the variable
\* the control points see agree.
StateVarAgree ==
  transportMutex = None /\ mpdMutex = None /\ transportState # "UNSET"
    => stateVar = transportState

\* "protects transport_values, and service-specific state": no two threads
\* are at the same time about to touch transport_state or the TransportState
\* variable, one of them to write it (upnp_transport.c:437).
Touches(t, v, write) ==
  CASE v = "state" -> pc[t] = "state" \/ at[t] = "set_state" \/ (~write /\ at[t] = "switch")
    [] OTHER -> pc[t] = "var" \/ at[t] = "change_var" \/ (~write /\ at[t] \in {"notify", "update_last"})

TransportProtected ==
  \A t, u \in Threads : \A v \in {"state", "var"} :
    t # u => ~(Touches(t, v, TRUE) /\ Touches(u, v, FALSE))

\* When every handler has answered, transport_state is what MPD is doing: the
\* next Stop, Pause or Play chooses by it (xstop, xpause, xplay).
StateFollowsPlayer ==
  (\A t \in Threads : at[t] \in {"idle", "loop"}) /\ transportState # "UNSET"
    => transportState = UPnPState[player]

\* The LastChange event of a handler names the state MPD is in
\* (transport_change_var, transport_notify_lastchange).
EventTruth ==
  \A t \in Threads :
    at[t] = "send" /\ said[t].form # "mode" => said[t].state = UPnPState[player]

\* "Attempt (re-)connection": once the connection is gone, a later command
\* makes a new attempt (check_mpd_connection).
Reconnects == conn = "null" ~> (conn # "null" \/ crashed)

\* The same for a connection that has kept an error of the server: the code
\* keeps it and goes on, so some later command must get through again.
ErrorClears == conn = "acked" ~> (conn # "acked" \/ crashed)

\* "Check MPD connection": a handler that has checked never hands NULL to
\* libmpdclient (upnp_transport.c:894, 942, 1000).
CheckedConnection == ~crashed
=============================================================================
