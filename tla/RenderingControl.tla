-------------------------- MODULE RenderingControl -------------------------
(***************************************************************************)
(* upnp_control.c, and the parts of upnp_device.c that call it: volume and *)
(* mute of the RenderingControl service, on top of the volume operations   *)
(* of MpdOutput. The handlers that only read a variable nobody writes      *)
(* (presets, loudness, the picture settings) are left out, as are requests *)
(* refused for a missing argument or a wrong InstanceID.                   *)
(*                                                                         *)
(* The threads also make the calls of Ops: what the other service asks of  *)
(* output_mpd.c meanwhile.                                                 *)
(***************************************************************************)
EXTENDS MpdOutput

CONSTANTS Handlers,  \* the requests control points send
          Mutes      \* the DesiredMute values they send

AllHandlers == {"SetMute", "GetMute", "SetVolume", "GetVolume", "Subscribe"}

ASSUME HandlersAssumption == Handlers \subseteq AllHandlers
ASSUME NoVolumeAssumption == None \notin Int
ASSUME MutesAssumption == Mutes \subseteq {"0", "1", "other"}

VARIABLES
  controlMutex,        \* owner of control_mutex
  deviceMutex,         \* owner of device_mutex
  at, req, param,      \* each thread's handler: place, action, argument
  volumeVar, muteVar,  \* the Volume and Mute variables
  said,                \* the event a handler has formatted
  lastChange           \* the event LastChange holds, None while it is freed

rcVars == <<controlMutex, deviceMutex, at, req, param, volumeVar, muteVar, said, lastChange>>
allVars == <<vars, rcVars>>

Places == {"idle", "elsewhere", "device_lock", "control_lock", "begin", "calling",
           "update", "change_volume", "change_mute", "send", "last_change",
           "store_last", "control_unlock", "read_last", "accept", "append", "reply"}

\* An event names a volume or a mute or both; None is not named.
Says(v, m) == [volume |-> v, mute |-> m]
Silence == Says(None, None)

\* control_init, before any request.
ControlInit ==
  /\ controlMutex = None
  /\ at = [t \in Threads |-> "idle"]
  /\ req = [t \in Threads |-> "none"]
  /\ param = [t \in Threads |-> None]
  /\ volumeVar = None /\ muteVar = "0"
  /\ said = [t \in Threads |-> Silence]
  /\ lastChange = Silence

RCInit ==
  /\ Init
  /\ IF TestMode THEN BeforeFirstStatus ELSE AfterFirstStatus
  /\ deviceMutex = None
  /\ ControlInit

Here(t, l) == ~crashed /\ at[t] = l

Move(t, l) == at' = [at EXCEPT ![t] = l]
-----------------------------------------------------------------------------
(* Requests and the mutexes.                                               *)

Params(h) ==
  CASE h = "SetMute" -> Mutes
    [] h = "SetVolume" -> Volumes
    [] OTHER -> {None}

FirstPlace(h) ==
  CASE h = "GetMute" -> "append"
    [] h = "Subscribe" -> "device_lock"
    [] OTHER -> "control_lock"

Request(t, h, p) ==
  /\ Here(t, "idle")
  /\ Move(t, FirstPlace(h))
  /\ req' = [req EXCEPT ![t] = h]
  /\ param' = [param EXCEPT ![t] = p]
  /\ UNCHANGED <<vars, controlMutex, deviceMutex, volumeVar, muteVar, said, lastChange>>

\* A call made by a handler of the other service.
CallElsewhere(t, o, a) ==
  /\ Here(t, "idle")
  /\ Call(t, o, a)
  /\ Move(t, "elsewhere")
  /\ UNCHANGED <<controlMutex, deviceMutex, req, param, volumeVar, muteVar, said, lastChange>>

DoneElsewhere(t) ==
  /\ Here(t, "elsewhere")
  /\ Return(t)
  /\ Move(t, "idle")
  /\ UNCHANGED <<controlMutex, deviceMutex, req, param, volumeVar, muteVar, said, lastChange>>

DeviceLock(t) ==
  /\ Here(t, "device_lock")
  /\ deviceMutex = None
  /\ deviceMutex' = t
  /\ Move(t, "control_lock")
  /\ UNCHANGED <<vars, controlMutex, req, param, volumeVar, muteVar, said, lastChange>>

ControlLock(t) ==
  /\ Here(t, "control_lock")
  /\ controlMutex = None
  /\ controlMutex' = t
  /\ Move(t, "begin")
  /\ UNCHANGED <<vars, deviceMutex, req, param, volumeVar, muteVar, said, lastChange>>

\* A mutation: GetVolume leaves its mutex to upnp_append_variable.
ControlUnlockSetsOnly(t) ==
  /\ Here(t, "control_unlock")
  /\ controlMutex' = (IF req[t] = "GetVolume" THEN controlMutex ELSE None)
  /\ Move(t, CASE req[t] = "Subscribe" -> "read_last"
               [] req[t] = "GetVolume" -> "append"
               [] OTHER -> "reply")
  /\ UNCHANGED <<vars, deviceMutex, req, param, volumeVar, muteVar, said, lastChange>>

ControlUnlock(t) ==
  /\ Here(t, "control_unlock")
  /\ controlMutex' = None
  /\ Move(t, CASE req[t] = "Subscribe" -> "read_last"
               [] req[t] = "GetVolume" -> "append"
               [] OTHER -> "reply")
  /\ UNCHANGED <<vars, deviceMutex, req, param, volumeVar, muteVar, said, lastChange>>
-----------------------------------------------------------------------------
(* set_mute, set_volume, get_volume and control_update_settings.           *)

\* The first output_* call of each handler; an unknown mute value has none.
FirstCall(h, p) ==
  CASE h = "SetMute" /\ p = "1" -> "output_set_mute(TRUE)"
    [] h = "SetMute" /\ p = "0" -> "output_set_mute(FALSE)"
    [] h = "SetMute" /\ p \notin {"0", "1"} -> "none"
    [] h = "SetVolume" -> "output_set_volume"
    [] OTHER -> "output_get_volume"

Begin(t) ==
  /\ Here(t, "begin")
  /\ LET o == FirstCall(req[t], param[t])
     IN  IF o = "none"
         THEN Move(t, "change_mute") /\ UNCHANGED vars
         ELSE /\ Move(t, "calling")
              /\ Call(t, o, IF o = "output_set_volume" THEN param[t] ELSE None)
  /\ UNCHANGED <<controlMutex, deviceMutex, req, param, volumeVar, muteVar, said, lastChange>>

\* What follows the setting operations; an unmute reads the volume it restored.
SetDone(t) ==
  /\ Here(t, "calling")
  /\ op[t] \in MuteOps \cup {"output_set_volume"}
  /\ Return(t)
  /\ Move(t, CASE op[t] = "output_set_volume" -> "change_volume"
               [] op[t] = "output_set_mute(FALSE)" -> "update"
               [] OTHER -> "change_mute")
  /\ UNCHANGED <<controlMutex, deviceMutex, req, param, volumeVar, muteVar, said, lastChange>>

ReadBack(t) ==
  /\ Here(t, "update")
  /\ Call(t, "output_get_volume", None)
  /\ Move(t, "calling")
  /\ UNCHANGED <<controlMutex, deviceMutex, req, param, volumeVar, muteVar, said, lastChange>>

\* output_get_volume has returned the local copy. GetVolume and a subscription
\* keep it, a subscription takes 0 for mute; an unmute also sends an event.
GetDone(t) ==
  /\ Here(t, "calling")
  /\ op[t] = "output_get_volume"
  /\ Return(t)
  /\ volumeVar' = arg[t]
  /\ CASE req[t] = "SetMute" ->
            /\ Move(t, "send")
            /\ said' = [said EXCEPT ![t] = Says(arg[t], None)]
            /\ lastChange' = None
            /\ UNCHANGED muteVar
       [] req[t] = "Subscribe" ->
            /\ Move(t, "last_change")
            /\ muteVar' = (IF arg[t] = 0 THEN "1" ELSE "0")
            /\ UNCHANGED <<said, lastChange>>
       [] OTHER -> Move(t, "control_unlock") /\ UNCHANGED <<muteVar, said, lastChange>>
  /\ UNCHANGED <<controlMutex, deviceMutex, req, param>>

\* control_change_var for the volume a control point asked for, as it was
\* written: only output_set_volume brings it into 0..100.
ChangeVolume(t) ==
  /\ Here(t, "change_volume")
  /\ volumeVar' = param[t]
  /\ said' = [said EXCEPT ![t] = Says(param[t], None)]
  /\ lastChange' = None
  /\ Move(t, "send")
  /\ UNCHANGED <<vars, controlMutex, deviceMutex, req, param, muteVar>>

\* A mutation: a new volume does not end the mute.
ChangeMuteOnlyOnMute(t) ==
  /\ Here(t, "change_mute")
  /\ muteVar' = (IF req[t] = "SetVolume" THEN muteVar ELSE param[t])
  /\ said' = [said EXCEPT ![t] = Says(None, muteVar')]
  /\ lastChange' = None
  /\ Move(t, "send")
  /\ UNCHANGED <<vars, controlMutex, deviceMutex, req, param, volumeVar>>

\* control_change_var for the mute: as asked for, or reset by a new volume.
ChangeMute(t) ==
  /\ Here(t, "change_mute")
  /\ muteVar' = (IF req[t] = "SetVolume" THEN "0" ELSE param[t])
  /\ said' = [said EXCEPT ![t] = Says(None, muteVar')]
  /\ lastChange' = None
  /\ Move(t, "send")
  /\ UNCHANGED <<vars, controlMutex, deviceMutex, req, param, volumeVar>>

\* control_notify_lastchange keeps the event and gives it to UpnpNotify; the
\* volume's event is followed by the mute's.
Send(t) ==
  /\ Here(t, "send")
  /\ lastChange' = said[t]
  /\ Move(t, IF said[t].volume # None THEN "change_mute" ELSE "control_unlock")
  /\ UNCHANGED <<vars, controlMutex, deviceMutex, req, param, volumeVar, muteVar, said>>

\* upnp_append_variable takes and releases control_mutex.
Append(t) ==
  /\ Here(t, "append")
  /\ controlMutex = None
  /\ Move(t, "reply")
  /\ UNCHANGED <<vars, controlMutex, deviceMutex, req, param, volumeVar, muteVar, said, lastChange>>

Reply(t) ==
  /\ Here(t, "reply")
  /\ Move(t, "idle")
  /\ req' = [req EXCEPT ![t] = "none"]
  /\ param' = [param EXCEPT ![t] = None]
  /\ said' = [said EXCEPT ![t] = Silence]
  /\ UNCHANGED <<vars, controlMutex, deviceMutex, volumeVar, muteVar, lastChange>>
-----------------------------------------------------------------------------
(* handle_subscription_request with control_notify_subscription.           *)

\* LastChange gets both variables: unless it says just that, it is freed ...
LastChange(t) ==
  /\ Here(t, "last_change")
  /\ IF lastChange = Says(volumeVar, muteVar)
     THEN Move(t, "control_unlock") /\ UNCHANGED lastChange
     ELSE Move(t, "store_last") /\ lastChange' = None
  /\ UNCHANGED <<vars, controlMutex, deviceMutex, req, param, volumeVar, muteVar, said>>

\* ... and a copy of the new one kept.
StoreLast(t) ==
  /\ Here(t, "store_last")
  /\ lastChange' = Says(volumeVar, muteVar)
  /\ Move(t, "control_unlock")
  /\ UNCHANGED <<vars, controlMutex, deviceMutex, req, param, volumeVar, muteVar, said>>

\* It is read for the subscriber without control_mutex. Freed memory may hold
\* anything, or end the program.
ReadLast(t) ==
  /\ Here(t, "read_last")
  /\ said' = [said EXCEPT ![t] = IF lastChange = None THEN Silence ELSE lastChange]
  /\ crashed' \in (IF lastChange = None THEN BOOLEAN ELSE {FALSE})
  /\ Move(t, "accept")
  /\ UNCHANGED <<conn, mpdMutex, mpdVars, stateVars, uriVars, volumeVars, callVars,
                 controlMutex, deviceMutex, req, param, volumeVar, muteVar, lastChange>>

Accept(t) ==
  /\ Here(t, "accept")
  /\ deviceMutex' = None
  /\ Move(t, "reply")
  /\ UNCHANGED <<vars, controlMutex, req, param, volumeVar, muteVar, said, lastChange>>
-----------------------------------------------------------------------------
Handle(t) ==
  \/ DoneElsewhere(t) \/ DeviceLock(t) \/ ControlLock(t) \/ ControlUnlock(t)
  \/ Begin(t) \/ SetDone(t) \/ ReadBack(t) \/ GetDone(t)
  \/ ChangeVolume(t) \/ ChangeMute(t) \/ Send(t) \/ Append(t) \/ Reply(t)
  \/ LastChange(t) \/ StoreLast(t) \/ ReadLast(t) \/ Accept(t)

Work(t) == Handle(t) \/ (Inner(t) /\ UNCHANGED rcVars)

RCNext ==
  \/ \E t \in Threads :
       \/ Work(t)
       \/ \E h \in Handlers : \E p \in Params(h) : Request(t, h, p)
       \/ \E o \in Ops : \E a \in Args(o) : CallElsewhere(t, o, a)
  \/ (MixerMoves \/ Dead) /\ UNCHANGED rcVars

RCSpec == RCInit /\ [][RCNext]_allVars

\* Worker threads run; nothing obliges a control point to send a request.
RCFairSpec == RCSpec /\ \A t \in Threads : WF_allVars(Work(t))
-----------------------------------------------------------------------------
(* Properties.                                                             *)

RCTypeOK ==
  /\ controlMutex \in Threads \cup {None} /\ deviceMutex \in Threads \cup {None}
  /\ at \in [Threads -> Places]
  /\ req \in [Threads -> AllHandlers \cup {"none"}]
  /\ mixer \in 0 .. 100 /\ mpdvolume \in 0 .. 100 /\ mutevolume \in 0 .. 100
  /\ volumeVar \in Int \cup {None} /\ muteVar \in {"0", "1", "other"}
  /\ \A e \in {said[t] : t \in Threads} \cup ({lastChange} \ {None}) :
       e.volume \in Int \cup {None} /\ e.mute \in {"0", "1", "other", None}

Resting == controlMutex = None /\ mpdMutex = None

\* A handler at work on the volume, the mute or LastChange owns control_mutex
\* (set_mute, set_volume, get_volume, control_notify_subscription).
ControlHeld ==
  \A t \in Threads :
    at[t] \in {"begin", "calling", "update", "change_volume", "change_mute",
               "send", "last_change", "store_last", "control_unlock"}
      => controlMutex = t

\* Control points that see Mute = 1 hear nothing, while MPD obeys and nobody
\* else touches its mixer (set_mute; "Reset mute state" in set_volume).
MuteMeansSilent == Resting /\ muteVar = "1" => mixer = 0

\* Control points that see Mute = 0 and a volume hear that volume, in the same
\* conditions: requested, restored by an unmute or read back (set_mute,
\* set_volume, get_volume, control_update_settings).
UnmutedVolumeTrue ==
  Resting /\ muteVar = "0" /\ volumeVar # None => volumeVar = mixer

\* Some request is always being answered: control_mutex, device_mutex and
\* mpd_mutex are given back on every path and never waited for in a circle.
RCAnswers == []<>(crashed \/ \E t \in Threads : at[t] = "idle")

\* "Save current volume for restore" and "Restore volume": where nobody asks
\* for volume 0, the renderer is never silent with Mute = 0
\* (output_set_mute).
UnmutedAudible == Resting /\ muteVar = "0" => mixer # 0
=============================================================================
