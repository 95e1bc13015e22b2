----------------------- MODULE RenderingControlProofs -----------------------
(***************************************************************************)
(* What RenderingControl publishes is what one hears, for every set of     *)
(* threads, requests, volumes and calls of the other service, as long as   *)
(* MPD obeys and nobody else moves its mixer.                              *)
(*                                                                         *)
(* Between two requests the Mute and Volume variables are true; on the way *)
(* through a request they are not, and the proof follows what the owner of *)
(* control_mutex still has to say.  That nobody changes the mixer behind   *)
(* its back takes both mutexes: control_mutex for the requests, mpd_mutex  *)
(* for the local copy that a status update writes.                         *)
(***************************************************************************)
EXTENDS RenderingControl, TLAPS

SettingOps == MuteOps \cup {"output_set_volume"}

\* The conditions: MPD obeys, its mixer is ours, and no call that comes from
\* elsewhere sets the volume. A failed connection attempt, a status without a
\* known state and a player that moves on its own do no harm.
Calm ==
  /\ ~TestMode
  /\ Env \subseteq {"nomem", "garbled", "moves"}
  /\ Ops \cap SettingOps = {}

Domains ==
  /\ DOMAIN pc = Threads /\ DOMAIN op = Threads /\ DOMAIN arg = Threads /\ DOMAIN snap = Threads
  /\ DOMAIN at = Threads /\ DOMAIN req = Threads /\ DOMAIN param = Threads
  /\ DOMAIN said = Threads

\* A call: mpd_mutex is held where it must be, a status has MPD's volume, and
\* only a handler of this service sets the volume.
CallOK(t) ==
  /\ pc[t] \notin {"free", "null", "early_unlock", "peek"}
  /\ pc[t] \in Guarded => mpdMutex = t
  /\ pc[t] \in {"song", "adopt", "finish", "state"} /\ op[t] # "output_update_position"
       => snap[t].volume = mixer
  /\ pc[t] = "idle" => op[t] = "none"
  /\ at[t] \notin {"calling", "elsewhere"} => pc[t] = "idle"
  /\ at[t] = "elsewhere" => op[t] \notin SettingOps
  /\ pc[t] \in {"save", "volume"} => op[t] \in SettingOps
  /\ op[t] \in SettingOps => pc[t] \in {"save", "lock", "volume", "unlock", "ret"}

\* A handler and the operation it has called.
RequestOK(t) ==
  /\ at[t] = "calling" => op[t] \in SettingOps \cup {"output_get_volume"}
  /\ op[t] = "output_get_volume" => pc[t] \in {"read", "ret"}
  /\ op[t] = "output_set_mute(TRUE)" => req[t] = "SetMute" /\ param[t] = "1"
  /\ op[t] = "output_set_mute(FALSE)" => req[t] = "SetMute" /\ param[t] = "0"
  /\ op[t] = "output_set_volume" => req[t] = "SetVolume" /\ pc[t] # "save"
  /\ req[t] = "SetVolume" => param[t] \in Volumes
  /\ at[t] = "update" => req[t] = "SetMute" /\ param[t] = "0"
  /\ at[t] = "calling" /\ op[t] = "output_get_volume" /\ req[t] = "SetMute" => param[t] = "0"
  /\ at[t] = "change_volume" => req[t] = "SetVolume"
  /\ at[t] = "change_mute" => req[t] \in {"SetMute", "SetVolume"}

\* v is what one hears, where requests stay in MPD's range.
Heard(v) == Volumes \subseteq 0 .. 100 => v = mixer

\* Both variables are true.
Sound ==
  /\ muteVar = "1" => mixer = 0
  /\ muteVar = "0" /\ volumeVar # None => Heard(volumeVar)

\* What the owner of control_mutex knows in its call ...
CallKnows(t) ==
  /\ op[t] = "output_get_volume" /\ req[t] # "SetMute" => Sound
  /\ op[t] = "output_get_volume" /\ pc[t] = "ret" => arg[t] = mixer
  /\ op[t] = "output_set_mute(TRUE)" /\ pc[t] \in {"lock", "volume"} => arg[t] = 0
  /\ op[t] = "output_set_mute(FALSE)" /\ pc[t] \in {"lock", "volume"} => arg[t] \in Int
  /\ op[t] = "output_set_volume" /\ pc[t] \in {"lock", "volume"} => arg[t] = param[t]
  /\ op[t] = "output_set_mute(TRUE)" /\ pc[t] \in {"unlock", "ret"} => mixer = 0
  /\ op[t] = "output_set_volume" /\ pc[t] \in {"unlock", "ret"} => Heard(param[t])

\* ... and around it.
OwnerKnows(t) ==
  /\ at[t] \in {"begin", "last_change", "store_last", "control_unlock"} => Sound
  /\ at[t] = "calling" => CallKnows(t)
  /\ at[t] = "change_volume" => Heard(param[t])
  /\ at[t] = "send" /\ said[t].volume = None => Sound
  /\ at[t] = "send" /\ said[t].volume # None =>
       Heard(volumeVar) /\ (req[t] = "SetVolume" \/ (req[t] = "SetMute" /\ param[t] = "0"))
  /\ at[t] = "change_mute" /\ req[t] = "SetVolume" => Heard(volumeVar)
  /\ at[t] = "change_mute" /\ req[t] = "SetMute" /\ param[t] = "0" => Heard(volumeVar)
  /\ at[t] = "change_mute" /\ req[t] = "SetMute" /\ param[t] = "1" => mixer = 0

ControlGuarded == {"begin", "calling", "update", "change_volume", "change_mute", "send",
                   "last_change", "store_last", "control_unlock"}

MixerOK ==
  /\ conn = "ok" /\ mixer \in Int /\ mpdvolume = mixer /\ mutevolume \in Int
  /\ controlMutex \in Threads \cup {None}
  /\ controlMutex = None => Sound

SoundInv ==
  /\ Domains /\ MixerOK
  /\ \A t \in Threads :
       /\ CallOK(t) /\ RequestOK(t)
       /\ controlMutex = t <=> at[t] \in ControlGuarded
       /\ controlMutex = t => OwnerKnows(t)
-----------------------------------------------------------------------------
(* What a step of t has to keep.                                           *)

\* The other threads stand where they were, with their mutexes.
Same(u) ==
  /\ pc'[u] = pc[u] /\ op'[u] = op[u] /\ arg'[u] = arg[u] /\ snap'[u] = snap[u]
  /\ at'[u] = at[u] /\ req'[u] = req[u] /\ param'[u] = param[u] /\ said'[u] = said[u]
  /\ mpdMutex = u => mpdMutex' = u
  /\ controlMutex' = u <=> controlMutex = u

\* t moves the mixer with both mutexes, the variables with control_mutex.
Stepped(t) ==
  /\ Domains' /\ MixerOK'
  /\ \A u \in Threads \ {t} : Same(u)
  /\ CallOK(t)' /\ RequestOK(t)'
  /\ controlMutex' = t <=> at'[t] \in ControlGuarded
  /\ controlMutex' = t => OwnerKnows(t)'
  /\ mixer' = mixer \/ (controlMutex' = t /\ mpdMutex = t)
  /\ UNCHANGED <<volumeVar, muteVar>> \/ controlMutex' = t

LEMMA SteppedKeeps ==
  ASSUME SoundInv, NEW t \in Threads, Stepped(t)
  PROVE  SoundInv'
<1>1. ASSUME NEW u \in Threads
      PROVE  /\ CallOK(u)' /\ RequestOK(u)'
             /\ (controlMutex = u <=> at[u] \in ControlGuarded)'
             /\ (controlMutex = u => OwnerKnows(u))'
  <2>1. CASE u = t
    BY <2>1 DEF Stepped
  <2>2. CASE u # t
    <3>1. Same(u) /\ CallOK(u) /\ RequestOK(u)
      BY <2>2 DEF Stepped, SoundInv
    <3>2. mixer' = mixer \/ mpdMutex # u
      BY <2>2 DEF Stepped
    <3>3. CallOK(u)'
      BY <3>1, <3>2 DEF Same, CallOK, Guarded
    <3>4. RequestOK(u)'
      BY <3>1 DEF Same, RequestOK
    <3>5. ASSUME controlMutex' = u PROVE OwnerKnows(u)'
      <4>1. OwnerKnows(u) /\ UNCHANGED <<mixer, volumeVar, muteVar>>
        BY <2>2, <3>1, <3>5 DEF Same, Stepped, SoundInv
      <4> QED BY <3>1, <4>1 DEF Same, OwnerKnows, CallKnows, Sound, Heard
    <3> QED BY <3>1, <3>3, <3>4, <3>5 DEF Same, SoundInv
  <2> QED BY <2>1, <2>2
<1> QED BY <1>1 DEF Stepped, SoundInv
-----------------------------------------------------------------------------
(* Steps inside output_mpd.c.                                              *)

\* While MPD obeys, a request has one outcome, and a status MPD's volume.
LEMMA Obeyed ==
  ASSUME Calm, conn = "ok"
  PROVE  Outcomes(conn) = {"done"} /\ \A s \in Reported : s.volume = mixer
<1>1. Env \cap {"ack", "link"} = {}
  BY DEF Calm
<1> QED BY <1>1 DEF Outcomes, Reported

\* Such a step keeps the function and all the handlers rely on, and leaves
\* the mixer alone.
Moved(t) ==
  /\ conn' = "ok" /\ op' = op /\ CallOK(t)'
  /\ DOMAIN pc' = Threads /\ DOMAIN arg' = Threads /\ DOMAIN snap' = Threads
  /\ \A u \in Threads \ {t} :
       /\ pc'[u] = pc[u] /\ arg'[u] = arg[u] /\ snap'[u] = snap[u]
       /\ mpdMutex = u => mpdMutex' = u
  /\ mixer' = mixer /\ mpdvolume' = mixer /\ mutevolume' \in Int
  /\ op[t] = "output_get_volume" => pc'[t] \in {"read", "ret"}
  /\ op[t] = "output_get_volume" /\ pc'[t] = "ret" => arg'[t] = mixer
  /\ op[t] = "output_set_mute(TRUE)" /\ pc'[t] \in {"lock", "volume"} => arg'[t] = 0
  /\ op[t] = "output_set_mute(FALSE)" /\ pc'[t] \in {"lock", "volume"} => arg'[t] \in Int
  /\ op[t] = "output_set_volume" => arg'[t] = arg[t] /\ pc'[t] # "save"
  /\ op[t] \in SettingOps /\ pc'[t] \in {"unlock", "ret"} => pc[t] \in {"unlock", "ret"}
  /\ op[t] \in SettingOps /\ pc'[t] \in {"lock", "volume"} => pc[t] \in {"lock", "volume", "save"}

LEMMA InnerMoved ==
  ASSUME Calm, SoundInv, NEW t \in Threads, Inner(t), ~SetMixer(t), UNCHANGED rcVars
  PROVE  Moved(t)
<1> USE NoneAssumption DEF SoundInv, MixerOK, Domains, At, Goto, linkVars, mpdVars, stateVars,
        uriVars, volumeVars, callVars, rcVars
<1>0. /\ Outcomes(conn) = {"done"} /\ \A s \in Reported : s.volume = mixer
      /\ CallOK(t) /\ RequestOK(t) /\ (controlMutex = t => OwnerKnows(t))
      /\ op[t] \in SettingOps => at[t] = "calling" /\ controlMutex = t
      /\ at' = at
  BY Obeyed DEF CallOK, ControlGuarded
<1>1. CASE Lock(t)
  <2>1. /\ op[t] = "output_set_mute(TRUE)" => arg[t] = 0
        /\ op[t] = "output_set_mute(FALSE)" => arg[t] \in Int
    BY <1>0, <1>1 DEF Lock, OwnerKnows, CallKnows, SettingOps, MuteOps
  <2>2. op[t] # "output_get_volume"
    BY <1>0, <1>1 DEF Lock, RequestOK
  <2>3. op[t] \in SettingOps => AfterLock(t) = "volume"
    BY DEF AfterLock, SettingOps, MuteOps, CheckOps, CommandOps
  <2>4. op[t] \notin SettingOps =>
          AfterLock(t) \in {"position", "check", "seek_status", "command", "mode", "clear", "query"}
    BY DEF AfterLock, SettingOps
  <2> QED BY <1>0, <1>1, <2>1, <2>2, <2>3, <2>4 DEF Lock, Moved, CallOK, RequestOK, Guarded, SettingOps
<1>2. CASE Unlock(t)
  BY <1>0, <1>2 DEF Unlock, Moved, CallOK, RequestOK, Guarded, SettingOps, MuteOps
<1>3. CASE Check(t)
  BY <1>0, <1>3 DEF Check, Moved, CallOK, RequestOK, Guarded, SettingOps, MuteOps
<1>4. CASE CheckUnlock(t)
  BY <1>0, <1>4 DEF CheckUnlock, Moved, CallOK, RequestOK, Guarded, SettingOps, MuteOps
<1>5. CASE FreeConn(t)
  BY <1>0, <1>5 DEF FreeConn, Moved, CallOK, RequestOK, Guarded, SettingOps, MuteOps
<1>6. CASE ClearConn(t)
  BY <1>0, <1>6 DEF ClearConn, Moved, CallOK, RequestOK, Guarded, SettingOps, MuteOps
<1>7. CASE Query(t)
  BY <1>0, <1>7 DEF Query, Moved, CallOK, RequestOK, Guarded, SettingOps, MuteOps, Dropped, Crash, AfterUpdate, CheckOps
<1>8. CASE Song(t)
  BY <1>0, <1>8 DEF Song, Moved, CallOK, RequestOK, Guarded, SettingOps, MuteOps, Crash
<1>9. CASE AdoptUri(t)
  BY <1>0, <1>9 DEF AdoptUri, Moved, CallOK, RequestOK, Guarded, SettingOps, MuteOps
<1>10. CASE Finish(t)
  BY <1>0, <1>10 DEF Finish, Moved, CallOK, RequestOK, Guarded, SettingOps, MuteOps, Dropped, Crash
<1>11. CASE SetState(t)
  BY <1>0, <1>11 DEF SetState, Moved, CallOK, RequestOK, Guarded, SettingOps, MuteOps, AfterUpdate, CheckOps
<1>12. CASE SetVar(t)
  BY <1>0, <1>12 DEF SetVar, Moved, CallOK, RequestOK, Guarded, SettingOps, MuteOps, AfterUpdate, CheckOps
<1>13. CASE Command(t)
  BY <1>0, <1>13 DEF Command, Moved, CallOK, RequestOK, Guarded, SettingOps, MuteOps, Refused, Crash
<1>14. CASE SeekStatus(t)
  BY <1>0, <1>14 DEF SeekStatus, Moved, CallOK, RequestOK, Guarded, SettingOps, MuteOps, Refused, Crash, Fail
<1>15. CASE SendPlayMode(t)
  BY <1>0, <1>15 DEF SendPlayMode, Moved, CallOK, RequestOK, Guarded, SettingOps, MuteOps, Dropped, Crash, Fail
<1>16. CASE FinishPlayMode(t)
  BY <1>0, <1>16 DEF FinishPlayMode, Moved, CallOK, RequestOK, Guarded, SettingOps, MuteOps, Dropped, Crash
<1>17. CASE TestUri(t)
  BY <1>0, <1>17 DEF TestUri, Moved, CallOK, RequestOK, Guarded, SettingOps, MuteOps
<1>18. CASE ClearQueue(t)
  BY <1>0, <1>18 DEF ClearQueue, Moved, CallOK, RequestOK, Guarded, SettingOps, MuteOps, Crash
<1>19. CASE AddUri(t)
  BY <1>0, <1>19 DEF AddUri, Moved, CallOK, RequestOK, Guarded, SettingOps, MuteOps, Refused, Crash
<1>20. CASE SaveVolume(t)
  BY <1>0, <1>20 DEF SaveVolume, Moved, CallOK, RequestOK, Guarded, SettingOps, MuteOps
<1>21. CASE ReadVolume(t)
  BY <1>0, <1>21 DEF ReadVolume, Moved, CallOK, RequestOK, Guarded, SettingOps, MuteOps
<1>22. CASE Position(t)
  BY <1>0, <1>22 DEF Position, Moved, CallOK, RequestOK, Guarded, SettingOps, MuteOps, Refused, Crash
<1>23. CASE EarlyUnlock(t)
  BY <1>0, <1>23 DEF EarlyUnlock, Moved, CallOK, RequestOK, Guarded, SettingOps, MuteOps
<1>24. CASE Peek(t)
  BY <1>0, <1>24 DEF Peek, Moved, CallOK, RequestOK, Guarded, SettingOps, MuteOps
<1> QED
  BY <1>1, <1>2, <1>3, <1>4, <1>5, <1>6, <1>7, <1>8, <1>9, <1>10, <1>11, <1>12, <1>13, <1>14, <1>15, <1>16, <1>17, <1>18, <1>19, <1>20, <1>21, <1>22, <1>23, <1>24
     DEF Inner, Exclusive, Mixing, Polling

\* MPD's volume is what was asked for, in its range.
LEMMA Clamped ==
  ASSUME NEW v \in Int
  PROVE  Clamp(v) \in Int /\ (v \in 0 .. 100 => Clamp(v) = v)
BY DEF Clamp

LEMMA InnerStepped ==
  ASSUME Calm, SoundInv, NEW t \in Threads, Inner(t), UNCHANGED rcVars
  PROVE  Stepped(t)
<1> USE DEF SoundInv, MixerOK, Domains
<1>0. /\ CallOK(t) /\ RequestOK(t) /\ (controlMutex = t => OwnerKnows(t))
      /\ op[t] \in SettingOps => at[t] = "calling" /\ controlMutex = t
      /\ UNCHANGED <<controlMutex, at, req, param, said, volumeVar, muteVar>>
      /\ at[t] \in ControlGuarded <=> controlMutex = t
      /\ at[t] \in {"calling", "elsewhere"}
  <2>1. pc[t] # "idle"
    BY DEF Inner, Exclusive, Mixing, Polling, At, Lock, Unlock, Check, CheckUnlock, FreeConn,
       ClearConn, Query, Song, AdoptUri, Finish, SetState, SetVar, Command, SeekStatus,
       SendPlayMode, FinishPlayMode, TestUri, ClearQueue, AddUri, SaveVolume, SetMixer,
       ReadVolume, Position, EarlyUnlock, Peek
  <2> QED BY <2>1 DEF CallOK, ControlGuarded, rcVars
<1>1. CASE ~SetMixer(t)
  <2>1. Moved(t)
    BY <1>1, InnerMoved
  <2>2. RequestOK(t)'
    BY <1>0, <2>1 DEF Moved, RequestOK
  <2>3. CASE controlMutex = t
    <3>1. CallKnows(t)'
      BY <1>0, <2>1, <2>3 DEF Moved, RequestOK, OwnerKnows, CallKnows, Sound, Heard, SettingOps,
         MuteOps, CallOK, ControlGuarded
    <3>2. OwnerKnows(t)'
      BY <1>0, <3>1 DEF OwnerKnows
    <3> QED BY <1>0, <2>1, <2>2, <2>3, <3>2, NoneAssumption DEF Moved, Stepped, Same
  <2>4. CASE controlMutex # t
    BY <1>0, <2>1, <2>2, <2>4 DEF Moved, Stepped, Same, Sound, Heard
  <2> QED BY <2>3, <2>4
<1>2. CASE SetMixer(t)
  <2>1. pc[t] = "volume" /\ op[t] \in SettingOps /\ at[t] = "calling" /\ controlMutex = t
        /\ mpdMutex = t
    BY <1>0, <1>2 DEF SetMixer, At, CallOK, Guarded
  <2>2. /\ arg[t] \in Int
        /\ op[t] = "output_set_mute(TRUE)" => arg[t] = 0
        /\ op[t] = "output_set_volume" => arg[t] = param[t]
    <3>1. CallKnows(t) /\ RequestOK(t)
      BY <1>0, <2>1 DEF OwnerKnows
    <3>2. CASE op[t] \in MuteOps
      BY <2>1, <3>1, <3>2 DEF CallKnows, MuteOps
    <3>3. CASE op[t] = "output_set_volume"
      <4>1. arg[t] = param[t] /\ param[t] \in Volumes
        BY <2>1, <3>1, <3>3 DEF CallKnows, RequestOK
      <4> QED BY <3>3, <4>1, VolumesAssumption
    <3> QED BY <2>1, <3>2, <3>3 DEF SettingOps
  <2>3. /\ mixer' = Clamp(arg[t]) /\ mpdvolume' = mixer' /\ mutevolume' \in {mutevolume, mixer'}
        /\ pc' = [pc EXCEPT ![t] = "unlock"] /\ conn' = "ok"
        /\ UNCHANGED <<op, arg, snap, mpdMutex>>
    <3>1. Outcomes(conn) = {"done"}
      BY Obeyed
    <3> QED BY <1>2, <3>1 DEF SetMixer, Refused, Crash, Goto, linkVars
  <2>4. mixer' \in Int
    BY <2>2, <2>3, Clamped
  <2>5. CallOK(t)' /\ RequestOK(t)'
    BY <1>0, <2>1, <2>3 DEF CallOK, RequestOK, Guarded, SettingOps, MuteOps
  <2>6. CallKnows(t)'
    <3>1. op[t] = "output_set_mute(TRUE)" => mixer' = 0
      BY <2>2, <2>3 DEF Clamp
    <3>2. ASSUME op[t] = "output_set_volume", Volumes \subseteq 0 .. 100
          PROVE  param'[t] = mixer'
      <4>1. param[t] \in 0 .. 100 /\ arg[t] = param[t] /\ param' = param
        BY <1>0, <2>2, <3>2 DEF RequestOK
      <4> QED BY <2>2, <2>3, <4>1, Clamped
    <3> QED BY <1>0, <2>1, <2>3, <3>1, <3>2 DEF CallKnows, Heard, SettingOps, MuteOps
  <2>7. OwnerKnows(t)'
    BY <1>0, <2>1, <2>6 DEF OwnerKnows
  <2> QED BY <1>0, <2>1, <2>3, <2>4, <2>5, <2>7, NoneAssumption DEF Stepped, Same
<1> QED BY <1>1, <1>2
-----------------------------------------------------------------------------
(* Steps of the handlers.                                                  *)

mpdData == <<conn, mixer, mpdvolume, mutevolume, mpdMutex>>

LEMMA CallMoved ==
  ASSUME Calm, Domains, NEW t \in Threads, NEW o, NEW a, Call(t, o, a)
  PROVE  /\ op'[t] = o /\ arg'[t] = a /\ snap' = snap /\ UNCHANGED mpdData
         /\ pc'[t] \in {"lock", "save", "read", "uri_test"}
         /\ pc'[t] = "save" <=> o \in MuteOps
         /\ pc'[t] = "read" <=> o = "output_get_volume"
         /\ DOMAIN pc' = Threads /\ DOMAIN op' = Threads /\ DOMAIN arg' = Threads
         /\ \A u \in Threads \ {t} : pc'[u] = pc[u] /\ op'[u] = op[u] /\ arg'[u] = arg[u]
<1>1. /\ Entry(o) \in {"lock", "save", "read", "uri_test"}
      /\ Entry(o) = "save" <=> o \in MuteOps
      /\ Entry(o) = "read" <=> o = "output_get_volume"
  BY DEF Calm, Entry, MuteOps
<1> QED BY <1>1 DEF Domains, Call, At, Goto, linkVars, mpdVars, volumeVars, mpdData

LEMMA ReturnMoved ==
  ASSUME Domains, NEW t \in Threads, Return(t)
  PROVE  /\ pc[t] = "ret" /\ op'[t] = "none" /\ pc'[t] = "idle" /\ UNCHANGED mpdData
         /\ DOMAIN pc' = Threads /\ DOMAIN op' = Threads /\ DOMAIN arg' = Threads
         /\ DOMAIN snap' = Threads
         /\ \A u \in Threads \ {t} :
              pc'[u] = pc[u] /\ op'[u] = op[u] /\ arg'[u] = arg[u] /\ snap'[u] = snap[u]
BY DEF Domains, Return, At, Goto, linkVars, mpdVars, volumeVars, mpdData

\* Steps that leave output_mpd.c alone.
LEMMA AloneMoved ==
  ASSUME UNCHANGED vars
  PROVE  UNCHANGED <<pc, op, arg, snap, mpdData>>
BY DEF vars, callVars, linkVars, mpdVars, volumeVars, mpdData

LEMMA FirstCallIs ==
  ASSUME NEW h, NEW p
  PROVE  LET o == FirstCall(h, p) IN
         /\ o = "none" => h = "SetMute" /\ p # "0" /\ p # "1"
         /\ o \in MuteOps \cup {"output_set_volume", "output_get_volume", "none"}
         /\ o = "output_set_mute(TRUE)" => h = "SetMute" /\ p = "1"
         /\ o = "output_set_mute(FALSE)" => h = "SetMute" /\ p = "0"
         /\ o = "output_set_volume" <=> h = "SetVolume"
         /\ o = "output_get_volume" => h # "SetMute"
<1>1. CASE h = "SetMute" /\ p = "1"
  <2>1. FirstCall(h, p) = "output_set_mute(TRUE)"
    BY <1>1 DEF FirstCall
  <2> QED BY <1>1, <2>1 DEF MuteOps
<1>2. CASE h = "SetMute" /\ p = "0"
  <2>1. FirstCall(h, p) = "output_set_mute(FALSE)"
    BY <1>2 DEF FirstCall
  <2> QED BY <1>2, <2>1 DEF MuteOps
<1>3. CASE h = "SetMute" /\ p # "0" /\ p # "1"
  <2>1. FirstCall(h, p) = "none"
    BY <1>3 DEF FirstCall
  <2> QED BY <1>3, <2>1 DEF MuteOps
<1>4. CASE h = "SetVolume"
  <2>1. FirstCall(h, p) = "output_set_volume"
    BY <1>4 DEF FirstCall
  <2> QED BY <1>4, <2>1 DEF MuteOps
<1>5. CASE h # "SetMute" /\ h # "SetVolume"
  <2>1. FirstCall(h, p) = "output_get_volume"
    BY <1>5 DEF FirstCall
  <2> QED BY <1>5, <2>1 DEF MuteOps
<1> QED BY <1>1, <1>2, <1>3, <1>4, <1>5

LEMMA HandleStepped ==
  ASSUME Calm, SoundInv, NEW t \in Threads, Handle(t)
  PROVE  Stepped(t)
<1> USE NoneAssumption DEF SoundInv, MixerOK, Domains, Here, Move, Stepped, Same, mpdData
<1>a. /\ CallOK(t) /\ RequestOK(t)
      /\ at[t] \in ControlGuarded => controlMutex = t /\ OwnerKnows(t)
      /\ controlMutex = t => at[t] \in ControlGuarded
  OBVIOUS
<1> USE <1>a DEF ControlGuarded
<1>1. CASE DoneElsewhere(t)
  <2> USE <1>1 DEF DoneElsewhere
  <2>1. CallOK(t)' /\ RequestOK(t)'
    BY ReturnMoved DEF CallOK, RequestOK, Guarded, SettingOps, MuteOps
  <2>2. controlMutex' = t => OwnerKnows(t)'
    BY ReturnMoved DEF OwnerKnows, Sound, Heard
  <2>3. controlMutex' = None => Sound'
    BY ReturnMoved DEF OwnerKnows, Sound, Heard
  <2> QED BY <2>1, <2>2, <2>3, ReturnMoved
<1>2. CASE DeviceLock(t)
  <2> USE <1>2 DEF DeviceLock
  <2>1. CallOK(t)' /\ RequestOK(t)'
    BY AloneMoved DEF CallOK, RequestOK, Guarded, SettingOps, MuteOps
  <2>2. controlMutex' = t => OwnerKnows(t)'
    BY AloneMoved DEF OwnerKnows, Sound, Heard
  <2>3. controlMutex' = None => Sound'
    BY AloneMoved DEF OwnerKnows, Sound, Heard
  <2> QED BY <2>1, <2>2, <2>3, AloneMoved
<1>3. CASE ControlLock(t)
  <2> USE <1>3 DEF ControlLock
  <2>1. CallOK(t)' /\ RequestOK(t)'
    BY AloneMoved DEF CallOK, RequestOK, Guarded, SettingOps, MuteOps
  <2>2. controlMutex' = t => OwnerKnows(t)'
    BY AloneMoved DEF OwnerKnows, Sound, Heard
  <2>3. controlMutex' = None => Sound'
    BY AloneMoved DEF OwnerKnows, Sound, Heard
  <2> QED BY <2>1, <2>2, <2>3, AloneMoved
<1>4. CASE ControlUnlock(t)
  <2> USE <1>4 DEF ControlUnlock
  <2>1. CallOK(t)' /\ RequestOK(t)'
    BY AloneMoved DEF CallOK, RequestOK, Guarded, SettingOps, MuteOps
  <2>2. controlMutex' = t => OwnerKnows(t)'
    BY AloneMoved DEF OwnerKnows, Sound, Heard
  <2>3. controlMutex' = None => Sound'
    BY AloneMoved DEF OwnerKnows, Sound, Heard
  <2> QED BY <2>1, <2>2, <2>3, AloneMoved
<1>5. CASE Begin(t)
  <2> USE <1>5 DEF Begin
  <2> DEFINE o == FirstCall(req[t], param[t])
  <2>0. at[t] = "begin" /\ Sound /\ pc[t] = "idle" /\ op[t] = "none" /\ controlMutex' = t
    BY DEF OwnerKnows, CallOK
  <2>1. CASE o = "none"
    <3>1. req[t] = "SetMute" /\ param[t] # "0" /\ param[t] # "1"
      BY <2>1, FirstCallIs
    <3>1a. at' = [at EXCEPT ![t] = "change_mute"] /\ UNCHANGED <<vars, req, param>>
      BY <2>1
    <3>2. CallOK(t)' /\ RequestOK(t)'
      BY <2>0, <3>1, <3>1a, AloneMoved DEF CallOK, RequestOK, Guarded, SettingOps, MuteOps
    <3>3. OwnerKnows(t)'
      BY <3>1, <3>1a, AloneMoved DEF OwnerKnows
    <3> QED BY <2>0, <2>1, <3>1a, <3>2, <3>3, AloneMoved
  <2>2. CASE o # "none"
    <3>1. /\ o \in SettingOps \cup {"output_get_volume"}
          /\ o = "output_set_mute(TRUE)" => req[t] = "SetMute" /\ param[t] = "1"
          /\ o = "output_set_mute(FALSE)" => req[t] = "SetMute" /\ param[t] = "0"
          /\ o = "output_set_volume" <=> req[t] = "SetVolume"
          /\ o = "output_get_volume" => req[t] # "SetMute"
      BY <2>2, FirstCallIs DEF SettingOps, MuteOps
    <3>2. PICK a : Call(t, o, a) /\ (o = "output_set_volume" => a = param[t])
      BY <2>2
    <3>3. at'[t] = "calling" /\ UNCHANGED <<req, param>>
      BY <2>2
    <3> HIDE DEF o
    <3>4. /\ op'[t] = o /\ pc'[t] \in {"lock", "save", "read", "uri_test"}
          /\ pc'[t] = "save" <=> o \in MuteOps
          /\ pc'[t] = "read" <=> o = "output_get_volume"
      BY <3>2, CallMoved
    <3>4a. o # "output_get_volume" => pc'[t] \in {"save", "lock"}
      BY <3>1, <3>2 DEF Call, Entry, Goto, SettingOps, MuteOps, Calm
    <3>4b. CallOK(t)'
      BY <3>1, <3>3, <3>4, <3>4a DEF CallOK, Guarded, SettingOps, MuteOps
    <3>4c. RequestOK(t)'
      BY <3>1, <3>3, <3>4, <3>4a DEF RequestOK, SettingOps, MuteOps
    <3>5. CallKnows(t)'
      BY <2>0, <3>1, <3>2, <3>3, CallMoved DEF CallKnows, Sound, Heard, SettingOps, MuteOps
    <3>6. OwnerKnows(t)'
      BY <3>3, <3>5 DEF OwnerKnows
    <3> QED BY <2>0, <3>2, <3>3, <3>4b, <3>4c, <3>6, CallMoved
  <2> QED BY <2>1, <2>2
<1>6. CASE SetDone(t)
  <2> USE <1>6 DEF SetDone
  <2>1. CallOK(t)' /\ RequestOK(t)'
    BY ReturnMoved DEF CallOK, RequestOK, Guarded, SettingOps, MuteOps
  <2>2. CallKnows(t) /\ pc[t] = "ret" /\ at'[t] \in {"change_volume", "update", "change_mute"}
        /\ UNCHANGED <<req, param, controlMutex, mixer>>
    BY ReturnMoved DEF OwnerKnows, MuteOps
  <2>3. /\ at'[t] = "change_volume" => Heard(param[t])
        /\ at'[t] = "change_mute" => req[t] = "SetMute" /\ param[t] = "1" /\ mixer = 0
    BY <2>2 DEF CallKnows, RequestOK, MuteOps
  <2>4. OwnerKnows(t)'
    BY <2>2, <2>3 DEF OwnerKnows, Heard
  <2> QED BY <2>1, <2>2, <2>4, ReturnMoved
<1>7. CASE ReadBack(t)
  <2> USE <1>7 DEF ReadBack
  <2>1. CallOK(t)' /\ RequestOK(t)'
    BY CallMoved DEF CallOK, RequestOK, Guarded, SettingOps, MuteOps
  <2>2. CallKnows(t)'
    BY CallMoved DEF CallKnows, RequestOK
  <2>3. OwnerKnows(t)'
    BY <2>2 DEF OwnerKnows
  <2> QED BY <2>1, <2>3, CallMoved
<1>8. CASE GetDone(t)
  <2> USE <1>8 DEF GetDone
  <2>1. CallKnows(t) /\ pc[t] = "ret" /\ arg[t] = mixer /\ mixer # None
    BY ReturnMoved, NoVolumeAssumption DEF OwnerKnows, CallKnows
  <2>2. /\ req[t] = "SetMute" => at'[t] = "send" /\ said'[t].volume = mixer /\ param[t] = "0"
        /\ req[t] = "Subscribe" => at'[t] = "last_change" /\ muteVar' = (IF mixer = 0 THEN "1" ELSE "0")
        /\ req[t] \notin {"SetMute", "Subscribe"} => at'[t] = "control_unlock" /\ muteVar' = muteVar
        /\ volumeVar' = mixer /\ mixer' = mixer /\ DOMAIN said' = Threads
        /\ \A u \in Threads \ {t} : said'[u] = said[u]
    BY <2>1, ReturnMoved DEF RequestOK, Says
  <2>3. CallOK(t)' /\ RequestOK(t)'
    BY <2>2, ReturnMoved DEF CallOK, RequestOK, Guarded, SettingOps, MuteOps
  <2>4. at'[t] # "send" => Sound'
    BY <2>1, <2>2 DEF Sound, Heard, CallKnows
  <2>5. OwnerKnows(t)'
    BY <2>1, <2>2, <2>4 DEF OwnerKnows, Heard
  <2> QED BY <2>2, <2>3, <2>5, ReturnMoved
<1>9. CASE ChangeVolume(t)
  <2> USE <1>9 DEF ChangeVolume
  <2>1. CallOK(t)' /\ RequestOK(t)'
    BY AloneMoved DEF CallOK, RequestOK, Guarded, SettingOps, MuteOps
  <2>2. req[t] = "SetVolume" /\ param[t] # None /\ said'[t].volume = param[t] /\ mixer' = mixer
    BY AloneMoved, VolumesAssumption, NoVolumeAssumption DEF RequestOK, Says
  <2>3. OwnerKnows(t)'
    BY <2>2 DEF OwnerKnows, Heard
  <2> QED BY <2>1, <2>3, AloneMoved
<1>10. CASE ChangeMute(t)
  <2> USE <1>10 DEF ChangeMute
  <2>1. CallOK(t)' /\ RequestOK(t)'
    BY AloneMoved DEF CallOK, RequestOK, Guarded, SettingOps, MuteOps
  <2>2. said'[t].volume = None /\ mixer' = mixer
    BY AloneMoved DEF Says
  <2>3. Sound'
    BY <2>2 DEF OwnerKnows, RequestOK, Sound, Heard
  <2>4. OwnerKnows(t)'
    BY <2>2, <2>3 DEF OwnerKnows
  <2> QED BY <2>1, <2>4, AloneMoved
<1>11. CASE Send(t)
  <2> USE <1>11 DEF Send
  <2>1. said[t].volume # None => req[t] = "SetVolume" \/ (req[t] = "SetMute" /\ param[t] = "0")
    BY DEF OwnerKnows
  <2>2. CallOK(t)' /\ RequestOK(t)'
    BY <2>1, AloneMoved DEF CallOK, RequestOK, Guarded, SettingOps, MuteOps
  <2>3. OwnerKnows(t)'
    BY <2>1, AloneMoved DEF OwnerKnows, Sound, Heard
  <2> QED BY <2>2, <2>3, AloneMoved
<1>12. CASE Append(t)
  <2> USE <1>12 DEF Append
  <2>1. CallOK(t)' /\ RequestOK(t)'
    BY AloneMoved DEF CallOK, RequestOK, Guarded, SettingOps, MuteOps
  <2>2. controlMutex' = t => OwnerKnows(t)'
    BY AloneMoved DEF OwnerKnows, Sound, Heard
  <2>3. controlMutex' = None => Sound'
    BY AloneMoved DEF OwnerKnows, Sound, Heard
  <2> QED BY <2>1, <2>2, <2>3, AloneMoved
<1>13. CASE Reply(t)
  <2> USE <1>13 DEF Reply
  <2>1. CallOK(t)' /\ RequestOK(t)'
    BY AloneMoved DEF CallOK, RequestOK, Guarded, SettingOps, MuteOps
  <2>2. controlMutex' = t => OwnerKnows(t)'
    BY AloneMoved DEF OwnerKnows, Sound, Heard
  <2>3. controlMutex' = None => Sound'
    BY AloneMoved DEF OwnerKnows, Sound, Heard
  <2> QED BY <2>1, <2>2, <2>3, AloneMoved
<1>14. CASE LastChange(t)
  <2> USE <1>14 DEF LastChange
  <2>1. CallOK(t)' /\ RequestOK(t)'
    BY AloneMoved DEF CallOK, RequestOK, Guarded, SettingOps, MuteOps
  <2>2. controlMutex' = t => OwnerKnows(t)'
    BY AloneMoved DEF OwnerKnows, Sound, Heard
  <2>3. controlMutex' = None => Sound'
    BY AloneMoved DEF OwnerKnows, Sound, Heard
  <2> QED BY <2>1, <2>2, <2>3, AloneMoved
<1>15. CASE StoreLast(t)
  <2> USE <1>15 DEF StoreLast
  <2>1. CallOK(t)' /\ RequestOK(t)'
    BY AloneMoved DEF CallOK, RequestOK, Guarded, SettingOps, MuteOps
  <2>2. controlMutex' = t => OwnerKnows(t)'
    BY AloneMoved DEF OwnerKnows, Sound, Heard
  <2>3. controlMutex' = None => Sound'
    BY AloneMoved DEF OwnerKnows, Sound, Heard
  <2> QED BY <2>1, <2>2, <2>3, AloneMoved
<1>16. CASE ReadLast(t)
  <2> USE <1>16 DEF ReadLast, callVars, linkVars, mpdVars, volumeVars
  <2>1. CallOK(t)' /\ RequestOK(t)'
    BY DEF CallOK, RequestOK, Guarded, SettingOps, MuteOps
  <2>2. controlMutex' = t => OwnerKnows(t)'
    BY DEF OwnerKnows, Sound, Heard
  <2>3. controlMutex' = None => Sound'
    BY DEF OwnerKnows, Sound, Heard
  <2> QED BY <2>1, <2>2, <2>3
<1>17. CASE Accept(t)
  <2> USE <1>17 DEF Accept
  <2>1. CallOK(t)' /\ RequestOK(t)'
    BY AloneMoved DEF CallOK, RequestOK, Guarded, SettingOps, MuteOps
  <2>2. controlMutex' = t => OwnerKnows(t)'
    BY AloneMoved DEF OwnerKnows, Sound, Heard
  <2>3. controlMutex' = None => Sound'
    BY AloneMoved DEF OwnerKnows, Sound, Heard
  <2> QED BY <2>1, <2>2, <2>3, AloneMoved
<1> QED
  BY <1>1, <1>2, <1>3, <1>4, <1>5, <1>6, <1>7, <1>8, <1>9, <1>10, <1>11, <1>12, <1>13, <1>14, <1>15, <1>16, <1>17
     DEF Handle

LEMMA RequestStepped ==
  ASSUME Calm, SoundInv, NEW t \in Threads, NEW h \in Handlers, NEW p \in Params(h),
         Request(t, h, p)
  PROVE  Stepped(t)
<1> USE NoneAssumption DEF SoundInv, MixerOK, Domains, Here, Move, Stepped, Same, mpdData, Request
<1>1. at'[t] \in {"append", "device_lock", "control_lock"} /\ at[t] = "idle"
  BY DEF FirstPlace
<1>2. CallOK(t)'
  BY <1>1, AloneMoved DEF CallOK, Guarded
<1>3. RequestOK(t)'
  <2>1. h = "SetVolume" => p \in Volumes
    BY DEF Params
  <2>2. op[t] = "none" /\ op' = op
    BY <1>1, AloneMoved DEF CallOK
  <2>3. req'[t] = h /\ param'[t] = p
    OBVIOUS
  <2> QED BY <1>1, <2>1, <2>2, <2>3 DEF RequestOK, SettingOps, MuteOps
<1> QED BY <1>1, <1>2, <1>3, AloneMoved DEF ControlGuarded, Sound, Heard

LEMMA ElsewhereStepped ==
  ASSUME Calm, SoundInv, NEW t \in Threads, NEW o \in Ops, NEW a, CallElsewhere(t, o, a)
  PROVE  Stepped(t)
<1> USE NoneAssumption DEF SoundInv, MixerOK, Domains, Here, Move, Stepped, Same, mpdData,
        CallElsewhere
<1>1. at[t] = "idle" /\ at'[t] = "elsewhere" /\ o \notin SettingOps
  BY DEF Calm
<1>2. CallOK(t)'
  BY <1>1, CallMoved DEF CallOK, Guarded, SettingOps
<1>3. RequestOK(t)'
  BY <1>1, CallMoved DEF RequestOK, SettingOps, MuteOps
<1> QED BY <1>1, <1>2, <1>3, CallMoved DEF ControlGuarded, Sound, Heard

\* The invariant speaks of no more than this.
LEMMA SoundSame ==
  ASSUME SoundInv,
         UNCHANGED <<pc, op, arg, snap, mpdData>>,
         UNCHANGED <<controlMutex, at, req, param, said, volumeVar, muteVar>>
  PROVE  SoundInv'
BY DEF mpdData, SoundInv, MixerOK, Domains, CallOK, RequestOK, OwnerKnows, CallKnows, Sound, Heard

LEMMA SoundStart ==
  ASSUME Calm, RCInit
  PROVE  SoundInv
<1> USE NoneAssumption DEF RCInit, Init, AfterFirstStatus, ControlInit
<1>1. Domains
  BY DEF Domains, Calm
<1>2. MixerOK
  <2>1. mixer \in Int
    BY Clamped, VolumesAssumption
  <2> QED BY <2>1 DEF MixerOK, Sound, Calm
<1>3. ASSUME NEW t \in Threads
      PROVE  CallOK(t) /\ RequestOK(t) /\ controlMutex # t /\ at[t] = "idle"
  BY <1>3 DEF Calm, CallOK, RequestOK, Guarded, SettingOps, MuteOps
<1> QED BY <1>1, <1>2, <1>3 DEF SoundInv, ControlGuarded

LEMMA SoundStep ==
  ASSUME Calm, SoundInv, [RCNext]_allVars
  PROVE  SoundInv'
<1>1. ASSUME NEW t \in Threads, Work(t) PROVE SoundInv'
  BY <1>1, HandleStepped, InnerStepped, SteppedKeeps DEF Work
<1>2. ASSUME NEW t \in Threads, NEW h \in Handlers, NEW p \in Params(h), Request(t, h, p)
      PROVE  SoundInv'
  BY <1>2, RequestStepped, SteppedKeeps
<1>3. ASSUME NEW t \in Threads, NEW o \in Ops, NEW a \in Args(o), CallElsewhere(t, o, a)
      PROVE  SoundInv'
  BY <1>3, ElsewhereStepped, SteppedKeeps
<1>4. CASE (MixerMoves \/ Dead) /\ UNCHANGED rcVars
  <2>1. UNCHANGED vars
    BY <1>4 DEF MixerMoves, Dead, Calm
  <2> QED BY <1>4, <2>1, AloneMoved, SoundSame DEF rcVars
<1>5. CASE UNCHANGED allVars
  BY <1>5, AloneMoved, SoundSame DEF allVars, rcVars
<1> QED BY <1>1, <1>2, <1>3, <1>4, <1>5 DEF RCNext
-----------------------------------------------------------------------------
(* Control points that see Mute = 1 hear nothing: in set_mute and          *)
(* set_volume the variable follows what MPD was told, and neither a status *)
(* update nor another handler undoes it (MuteMeansSilent).                 *)
THEOREM MuteIsSilence == Calm => (RCSpec => []MuteMeansSilent)
<1> SUFFICES ASSUME Calm PROVE RCSpec => []MuteMeansSilent
  OBVIOUS
<1>1. SoundInv => MuteMeansSilent
  BY DEF SoundInv, MixerOK, Sound, MuteMeansSilent, Resting
<1>2. RCInit => SoundInv
  BY SoundStart
<1>3. SoundInv /\ [RCNext]_allVars => SoundInv'
  BY SoundStep
<1> QED BY <1>1, <1>2, <1>3, PTL DEF RCSpec

(* Control points that see Mute = 0 and a volume hear that volume, where   *)
(* they ask for volumes MPD knows: after any interleaving of set_volume,   *)
(* set_mute, get_volume, subscriptions and status updates                  *)
(* (UnmutedVolumeTrue).                                                    *)
THEOREM VolumeIsHeard == Calm /\ Volumes \subseteq 0 .. 100 => (RCSpec => []UnmutedVolumeTrue)
<1> SUFFICES ASSUME Calm, Volumes \subseteq 0 .. 100 PROVE RCSpec => []UnmutedVolumeTrue
  OBVIOUS
<1>1. SoundInv => UnmutedVolumeTrue
  BY DEF SoundInv, MixerOK, Sound, Heard, UnmutedVolumeTrue, Resting
<1>2. RCInit => SoundInv
  BY SoundStart
<1>3. SoundInv /\ [RCNext]_allVars => SoundInv'
  BY SoundStep
<1> QED BY <1>1, <1>2, <1>3, PTL DEF RCSpec
=============================================================================
