--------------------------- MODULE ServicesProofs ---------------------------
(***************************************************************************)
(* The four mutexes of the program, for every set of threads, requests and *)
(* faults: the handlers hold them where they must, give them back on every *)
(* path, and never wait for them in a circle.                              *)
(*                                                                         *)
(* MutexInv says who may own what where.  Both directions are needed: a    *)
(* place implies its mutex for mutual exclusion, and a mutex implies its   *)
(* place so that it is not kept and not waited for by its owner.  For      *)
(* mpd_mutex the second direction is all that holds, as                    *)
(* output_update_position works on after it has unlocked.                  *)
(*                                                                         *)
(* On it rest the types: every volume that is saved or given to MPD lies   *)
(* in 0..100 for all integers asked for, as only the owner of a call has   *)
(* set its argument.                                                       *)
(***************************************************************************)
EXTENDS Services, TLAPS

\* The handlers that never touch transport_mutex, and where they go.
Mutexless == Unlocked \cup {"output_loop"}
UnlockedPlaces == {"check", "checking", "command", "calling", "reply"}
LoopPlaces == {"main", "calling", "loop"}

ControlGuarded == {"begin", "calling", "update", "change_volume", "change_mute",
                   "send", "last_change", "store_last", "control_unlock"}

\* A subscription of either service that is past its lock.
Accepting(t) == req[t] = "Subscribe" /\ at[t] \notin {"device_lock", "reply"}
RCAccepting(t) == rcReq[t] = "Subscribe" /\ rcAt[t] \notin {"device_lock", "reply"}

Domains ==
  /\ DOMAIN pc = Threads /\ DOMAIN cont = Threads
  /\ DOMAIN at = Threads /\ DOMAIN req = Threads
  /\ DOMAIN rcAt = Threads /\ DOMAIN rcReq = Threads

MpdInv ==
  \A t \in Threads :
    /\ mpdMutex = t => pc[t] \in Guarded
    /\ pc[t] \in {"free", "null"} => cont[t] \in {"unlock", "check_unlock", "state"}

OneRequest ==
  \A t \in Threads :
    /\ at[t] = "idle" \/ rcAt[t] = "idle"
    /\ pc[t] # "idle" => at[t] \in {"checking", "calling"} \/ rcAt[t] = "calling"
    /\ rcAt[t] # "elsewhere"

TransportInv ==
  \A t \in Threads :
    /\ transportMutex = t => at[t] \in TransportGuarded /\ req[t] \notin Mutexless
    /\ at[t] \in TransportGuarded /\ req[t] \notin Mutexless => transportMutex = t
    /\ req[t] \in Unlocked => at[t] \in UnlockedPlaces
    /\ req[t] = "output_loop" => at[t] \in LoopPlaces
    /\ at[t] = "main" => req[t] = "output_loop"

ControlInv ==
  \A t \in Threads : controlMutex = t <=> rcAt[t] \in ControlGuarded

DeviceInv ==
  \A t \in Threads :
    /\ deviceMutex = t <=> Accepting(t) \/ RCAccepting(t)
    /\ at[t] \in {"device_lock", "update_last", "store_last", "read_last", "accept"}
         => req[t] = "Subscribe"
    /\ req[t] = "Subscribe" => at[t] \notin {"idle", "append", "check", "checking"}
    /\ rcAt[t] \in {"device_lock", "last_change", "store_last", "read_last", "accept"}
         => rcReq[t] = "Subscribe"
    /\ rcReq[t] = "Subscribe" => rcAt[t] \notin {"idle", "append"}

MutexInv == Domains /\ MpdInv /\ OneRequest /\ TransportInv /\ ControlInv /\ DeviceInv
-----------------------------------------------------------------------------
(* The places inside output_mpd.c.                                         *)

\* A step inside an output_* function gives mpd_mutex back or stays in the
\* critical section, and does not leave the function.
LEMMA InnerStep ==
  ASSUME Domains, MpdInv, NEW t \in Threads, Inner(t)
  PROVE  /\ MpdInv'
         /\ pc[t] # "idle"
         /\ DOMAIN pc' = Threads /\ DOMAIN cont' = Threads
         /\ \A u \in Threads : pc'[u] # "idle" => pc[u] # "idle"
<1> USE NoneAssumption DEF Domains, MpdInv, At, Goto, Guarded, linkVars, mpdVars,
        stateVars, uriVars, volumeVars, callVars
<1>1. CASE Lock(t)
  BY <1>1 DEF Lock, AfterLock
<1>2. CASE Unlock(t) \/ CheckUnlock(t) \/ EarlyUnlock(t)
  BY <1>2 DEF Unlock, CheckUnlock, EarlyUnlock
<1>3. CASE Check(t)
  BY <1>3 DEF Check, Fail
<1>4. CASE FreeConn(t) \/ ClearConn(t)
  BY <1>4 DEF FreeConn, ClearConn
<1>5. CASE Query(t)
  BY <1>5 DEF Query, Dropped, Crash, AfterUpdate
<1>6. CASE Song(t) \/ AdoptUri(t)
  BY <1>6 DEF Song, AdoptUri, Crash
<1>7. CASE Finish(t)
  BY <1>7 DEF Finish, Dropped, Crash
<1>8. CASE SetState(t) \/ SetVar(t)
  BY <1>8 DEF SetState, SetVar, AfterUpdate
<1>9. CASE Command(t)
  BY <1>9 DEF Command, Refused, Crash, Fail
<1>10. CASE SeekStatus(t)
  BY <1>10 DEF SeekStatus, Refused, Crash, Fail
<1>11. CASE SendPlayMode(t)
  BY <1>11 DEF SendPlayMode, Dropped, Crash, Fail
<1>12. CASE FinishPlayMode(t)
  BY <1>12 DEF FinishPlayMode, Dropped, Crash
<1>13. CASE TestUri(t) \/ SaveVolume(t) \/ ReadVolume(t)
  BY <1>13 DEF TestUri, SaveVolume, ReadVolume
<1>14. CASE ClearQueue(t)
  BY <1>14 DEF ClearQueue, Crash
<1>15. CASE AddUri(t)
  BY <1>15 DEF AddUri, Refused, Crash
<1>16. CASE SetMixer(t)
  BY <1>16 DEF SetMixer, Refused, Crash
<1>17. CASE Position(t)
  BY <1>17 DEF Position, Crash
<1>18. CASE Peek(t)
  BY <1>18 DEF Peek
<1> QED
  BY <1>1, <1>2, <1>3, <1>4, <1>5, <1>6, <1>7, <1>8, <1>9, <1>10, <1>11, <1>12,
     <1>13, <1>14, <1>15, <1>16, <1>17, <1>18 DEF Inner, Exclusive, Mixing, Polling

\* Entering and leaving a function touches no mutex.
LEMMA CallStep ==
  ASSUME Domains, MpdInv, NEW t \in Threads, NEW o, NEW a, Call(t, o, a)
  PROVE  /\ MpdInv' /\ DOMAIN pc' = Threads /\ DOMAIN cont' = Threads
         /\ \A u \in Threads \ {t} : pc'[u] = pc[u]
BY DEF Domains, MpdInv, Call, Entry, At, Goto, Guarded

LEMMA ReturnStep ==
  ASSUME Domains, MpdInv, NEW t \in Threads, Return(t)
  PROVE  /\ MpdInv' /\ DOMAIN pc' = Threads /\ DOMAIN cont' = Threads
         /\ pc'[t] = "idle"
         /\ \A u \in Threads \ {t} : pc'[u] = pc[u]
BY DEF Domains, MpdInv, Return, At, Goto, Guarded
-----------------------------------------------------------------------------
(* The handlers of AVTransport.                                            *)

\* Steps that leave output_mpd.c alone.
LEMMA Alone ==
  ASSUME MpdInv, UNCHANGED vars \/ UNCHANGED <<mpdMutex, callVars>>
  PROVE  MpdInv' /\ pc' = pc /\ cont' = cont
BY DEF vars, callVars, MpdInv

\* A step of a handler of AVTransport keeps all but the mutex it shares with
\* nobody.
TransportKept == Domains' /\ MpdInv' /\ OneRequest' /\ TransportInv' /\ DeviceInv'

LEMMA TransportStep ==
  ASSUME MutexInv, NEW t \in Threads, Handle(t), UNCHANGED controlOnly
  PROVE  TransportKept
<1> USE NoneAssumption DEF MutexInv, TransportKept, Here, Move, locals
<1>0. rcAt' = rcAt /\ rcReq' = rcReq
  BY DEF controlOnly
<1>1. CASE StartLoop(t)
  <2> USE <1>0, <1>1 DEF StartLoop
  <2>1. MpdInv' /\ DOMAIN pc' = Threads /\ DOMAIN cont' = Threads
        /\ \A u \in Threads \ {t} : pc'[u] = pc[u]
    BY CallStep
  <2>2. Domains'
    BY <2>1 DEF Domains
  <2>3. OneRequest'
    BY <2>1 DEF Domains, OneRequest
  <2>4. TransportInv'
    BY DEF Domains, TransportInv, TransportGuarded, Mutexless, Unlocked,
       UnlockedPlaces, LoopPlaces
  <2>5. DeviceInv'
    BY DEF Domains, DeviceInv, Accepting, RCAccepting, TransportInv, Mutexless, OneRequest
  <2> QED BY <2>1, <2>2, <2>3, <2>4, <2>5
<1>2. CASE CheckConnection(t)
  <2> USE <1>0, <1>2 DEF CheckConnection
  <2>1. MpdInv' /\ DOMAIN pc' = Threads /\ DOMAIN cont' = Threads
        /\ \A u \in Threads \ {t} : pc'[u] = pc[u]
    BY CallStep
  <2>2. Domains'
    BY <2>1 DEF Domains
  <2>3. OneRequest'
    BY <2>1 DEF Domains, OneRequest
  <2>4. TransportInv'
    BY DEF Domains, TransportInv, TransportGuarded, Mutexless, Unlocked,
       UnlockedPlaces, LoopPlaces
  <2>5. DeviceInv'
    BY DEF Domains, DeviceInv, Accepting, RCAccepting, TransportInv, Mutexless, OneRequest
  <2> QED BY <2>1, <2>2, <2>3, <2>4, <2>5
<1>3. CASE CheckDone(t)
  <2> USE <1>0, <1>3 DEF CheckDone
  <2>1. MpdInv' /\ DOMAIN pc' = Threads /\ DOMAIN cont' = Threads
        /\ pc'[t] = "idle" /\ \A u \in Threads \ {t} : pc'[u] = pc[u]
    BY ReturnStep
  <2>2. Domains'
    BY <2>1 DEF Domains
  <2>3. OneRequest'
    BY <2>1 DEF Domains, OneRequest
  <2>4. TransportInv'
    BY DEF Domains, TransportInv, TransportGuarded, Mutexless, Unlocked,
       UnlockedPlaces, LoopPlaces
  <2>5. DeviceInv'
    BY DEF Domains, DeviceInv, Accepting, RCAccepting, TransportInv, Mutexless, OneRequest
  <2> QED BY <2>1, <2>2, <2>3, <2>4, <2>5
<1>4. CASE TransportLock(t)
  <2> USE <1>0, <1>4 DEF TransportLock
  <2>1. MpdInv' /\ pc' = pc /\ cont' = cont
    BY Alone
  <2>2. Domains'
    BY <2>1 DEF Domains
  <2>3. OneRequest'
    BY <2>1 DEF Domains, OneRequest
  <2>4. TransportInv'
    BY DEF Domains, TransportInv, TransportGuarded, Mutexless, Unlocked,
       UnlockedPlaces, LoopPlaces
  <2>5. DeviceInv'
    BY DEF Domains, DeviceInv, Accepting, RCAccepting, TransportInv, Mutexless, OneRequest
  <2> QED BY <2>1, <2>2, <2>3, <2>4, <2>5
<1>5. CASE TransportUnlock(t)
  <2> USE <1>0, <1>5 DEF TransportUnlock
  <2>1. MpdInv' /\ pc' = pc /\ cont' = cont
    BY Alone
  <2>2. Domains'
    BY <2>1 DEF Domains
  <2>3. OneRequest'
    BY <2>1 DEF Domains, OneRequest
  <2>4. TransportInv'
    BY DEF Domains, TransportInv, TransportGuarded, Mutexless, Unlocked,
       UnlockedPlaces, LoopPlaces
  <2>5. DeviceInv'
    BY DEF Domains, DeviceInv, Accepting, RCAccepting, TransportInv, Mutexless, OneRequest
  <2> QED BY <2>1, <2>2, <2>3, <2>4, <2>5
<1>6. CASE Switch(t)
  <2> USE <1>0, <1>6 DEF Switch
  <2>1. MpdInv' /\ DOMAIN pc' = Threads /\ DOMAIN cont' = Threads
        /\ (at'[t] = "calling" \/ pc' = pc) /\ \A u \in Threads \ {t} : pc'[u] = pc[u]
    <3>1. CASE Chosen(req[t], transportState) = "none"
      BY <3>1, Alone DEF Domains
    <3>2. CASE Chosen(req[t], transportState) # "none"
      BY <3>2, CallStep DEF Domains
    <3> QED BY <3>1, <3>2
  <2>2. Domains'
    BY <2>1 DEF Domains
  <2>3. OneRequest'
    BY <2>1 DEF Domains, OneRequest
  <2>4. TransportInv'
    BY DEF Domains, TransportInv, TransportGuarded, Mutexless, Unlocked,
       UnlockedPlaces, LoopPlaces
  <2>5. DeviceInv'
    BY DEF Domains, DeviceInv, Accepting, RCAccepting, TransportInv, Mutexless, OneRequest
  <2> QED BY <2>1, <2>2, <2>3, <2>4, <2>5
<1>7. CASE Invoke(t)
  <2> USE <1>0, <1>7 DEF Invoke
  <2>1. MpdInv' /\ DOMAIN pc' = Threads /\ DOMAIN cont' = Threads
        /\ \A u \in Threads \ {t} : pc'[u] = pc[u]
    BY CallStep
  <2>2. Domains'
    BY <2>1 DEF Domains
  <2>3. OneRequest'
    BY <2>1 DEF Domains, OneRequest
  <2>4. TransportInv'
    BY DEF Domains, TransportInv, TransportGuarded, Mutexless, Unlocked,
       UnlockedPlaces, LoopPlaces
  <2>5. DeviceInv'
    BY DEF Domains, DeviceInv, Accepting, RCAccepting, TransportInv, Mutexless, OneRequest
  <2> QED BY <2>1, <2>2, <2>3, <2>4, <2>5
<1>8. CASE CallDone(t)
  <2> USE <1>0, <1>8 DEF CallDone, NextPlace
  <2>1. MpdInv' /\ DOMAIN pc' = Threads /\ DOMAIN cont' = Threads
        /\ pc'[t] = "idle" /\ \A u \in Threads \ {t} : pc'[u] = pc[u]
    BY ReturnStep
  <2>2. Domains'
    BY <2>1 DEF Domains
  <2>3. OneRequest'
    BY <2>1 DEF Domains, OneRequest
  <2>4. TransportInv'
    BY DEF Domains, TransportInv, TransportGuarded, Mutexless, Unlocked,
       UnlockedPlaces, LoopPlaces
  <2>5. DeviceInv'
    BY DEF Domains, DeviceInv, Accepting, RCAccepting, TransportInv, Mutexless, OneRequest
  <2> QED BY <2>1, <2>2, <2>3, <2>4, <2>5
<1>9. CASE SetAvUri(t)
  <2> USE <1>0, <1>9 DEF SetAvUri
  <2>1. MpdInv' /\ pc' = pc /\ cont' = cont
    BY Alone
  <2>2. Domains'
    BY <2>1 DEF Domains
  <2>3. OneRequest'
    BY <2>1 DEF Domains, OneRequest
  <2>4. TransportInv'
    BY DEF Domains, TransportInv, TransportGuarded, Mutexless, Unlocked,
       UnlockedPlaces, LoopPlaces
  <2>5. DeviceInv'
    BY DEF Domains, DeviceInv, Accepting, RCAccepting, TransportInv, Mutexless, OneRequest
  <2> QED BY <2>1, <2>2, <2>3, <2>4, <2>5
<1>10. CASE SetTransportState(t)
  <2> USE <1>0, <1>10 DEF SetTransportState
  <2>1. MpdInv' /\ pc' = pc /\ cont' = cont
    BY Alone
  <2>2. Domains'
    BY <2>1 DEF Domains
  <2>3. OneRequest'
    BY <2>1 DEF Domains, OneRequest
  <2>4. TransportInv'
    BY DEF Domains, TransportInv, TransportGuarded, Mutexless, Unlocked,
       UnlockedPlaces, LoopPlaces
  <2>5. DeviceInv'
    BY DEF Domains, DeviceInv, Accepting, RCAccepting, TransportInv, Mutexless, OneRequest
  <2> QED BY <2>1, <2>2, <2>3, <2>4, <2>5
<1>11. CASE ChangeVar(t)
  <2> USE <1>0, <1>11 DEF ChangeVar
  <2>1. MpdInv' /\ pc' = pc /\ cont' = cont
    BY Alone
  <2>2. Domains'
    BY <2>1 DEF Domains
  <2>3. OneRequest'
    BY <2>1 DEF Domains, OneRequest
  <2>4. TransportInv'
    BY DEF Domains, TransportInv, TransportGuarded, Mutexless, Unlocked,
       UnlockedPlaces, LoopPlaces
  <2>5. DeviceInv'
    BY DEF Domains, DeviceInv, Accepting, RCAccepting, TransportInv, Mutexless, OneRequest
  <2> QED BY <2>1, <2>2, <2>3, <2>4, <2>5
<1>12. CASE Notify(t)
  <2> USE <1>0, <1>12 DEF Notify
  <2>1. MpdInv' /\ pc' = pc /\ cont' = cont
    BY Alone
  <2>2. Domains'
    BY <2>1 DEF Domains
  <2>3. OneRequest'
    BY <2>1 DEF Domains, OneRequest
  <2>4. TransportInv'
    BY DEF Domains, TransportInv, TransportGuarded, Mutexless, Unlocked,
       UnlockedPlaces, LoopPlaces
  <2>5. DeviceInv'
    BY DEF Domains, DeviceInv, Accepting, RCAccepting, TransportInv, Mutexless, OneRequest
  <2> QED BY <2>1, <2>2, <2>3, <2>4, <2>5
<1>13. CASE Send(t)
  <2> USE <1>0, <1>13 DEF Send
  <2>1. MpdInv' /\ pc' = pc /\ cont' = cont
    BY Alone
  <2>2. Domains'
    BY <2>1 DEF Domains
  <2>3. OneRequest'
    BY <2>1 DEF Domains, OneRequest
  <2>4. TransportInv'
    BY DEF Domains, TransportInv, TransportGuarded, Mutexless, Unlocked,
       UnlockedPlaces, LoopPlaces
  <2>5. DeviceInv'
    BY DEF Domains, DeviceInv, Accepting, RCAccepting, TransportInv, Mutexless, OneRequest
  <2> QED BY <2>1, <2>2, <2>3, <2>4, <2>5
<1>14. CASE Append(t)
  <2> USE <1>0, <1>14 DEF Append
  <2>1. MpdInv' /\ pc' = pc /\ cont' = cont
    BY Alone
  <2>2. Domains'
    BY <2>1 DEF Domains
  <2>3. OneRequest'
    BY <2>1 DEF Domains, OneRequest
  <2>4. TransportInv'
    BY DEF Domains, TransportInv, TransportGuarded, Mutexless, Unlocked,
       UnlockedPlaces, LoopPlaces
  <2>5. DeviceInv'
    BY DEF Domains, DeviceInv, Accepting, RCAccepting, TransportInv, Mutexless, OneRequest
  <2> QED BY <2>1, <2>2, <2>3, <2>4, <2>5
<1>15. CASE Reply(t)
  <2> USE <1>0, <1>15 DEF Reply
  <2>1. MpdInv' /\ pc' = pc /\ cont' = cont
    BY Alone
  <2>2. Domains'
    BY <2>1 DEF Domains
  <2>3. OneRequest'
    BY <2>1 DEF Domains, OneRequest
  <2>4. TransportInv'
    BY DEF Domains, TransportInv, TransportGuarded, Mutexless, Unlocked,
       UnlockedPlaces, LoopPlaces
  <2>5. DeviceInv'
    BY DEF Domains, DeviceInv, Accepting, RCAccepting, TransportInv, Mutexless, OneRequest
  <2> QED BY <2>1, <2>2, <2>3, <2>4, <2>5
<1>16. CASE DeviceLock(t)
  <2> USE <1>0, <1>16 DEF DeviceLock
  <2>1. MpdInv' /\ pc' = pc /\ cont' = cont
    BY Alone
  <2>2. Domains'
    BY <2>1 DEF Domains
  <2>3. OneRequest'
    BY <2>1 DEF Domains, OneRequest
  <2>4. TransportInv'
    BY DEF Domains, TransportInv, TransportGuarded, Mutexless, Unlocked,
       UnlockedPlaces, LoopPlaces
  <2>5. DeviceInv'
    BY DEF Domains, DeviceInv, Accepting, RCAccepting, TransportInv, Mutexless, OneRequest
  <2> QED BY <2>1, <2>2, <2>3, <2>4, <2>5
<1>17. CASE UpdateLast(t)
  <2> USE <1>0, <1>17 DEF UpdateLast
  <2>1. MpdInv' /\ pc' = pc /\ cont' = cont
    BY Alone
  <2>2. Domains'
    BY <2>1 DEF Domains
  <2>3. OneRequest'
    BY <2>1 DEF Domains, OneRequest
  <2>4. TransportInv'
    BY DEF Domains, TransportInv, TransportGuarded, Mutexless, Unlocked,
       UnlockedPlaces, LoopPlaces
  <2>5. DeviceInv'
    BY DEF Domains, DeviceInv, Accepting, RCAccepting, TransportInv, Mutexless, OneRequest
  <2> QED BY <2>1, <2>2, <2>3, <2>4, <2>5
<1>18. CASE StoreLast(t)
  <2> USE <1>0, <1>18 DEF StoreLast
  <2>1. MpdInv' /\ pc' = pc /\ cont' = cont
    BY Alone
  <2>2. Domains'
    BY <2>1 DEF Domains
  <2>3. OneRequest'
    BY <2>1 DEF Domains, OneRequest
  <2>4. TransportInv'
    BY DEF Domains, TransportInv, TransportGuarded, Mutexless, Unlocked,
       UnlockedPlaces, LoopPlaces
  <2>5. DeviceInv'
    BY DEF Domains, DeviceInv, Accepting, RCAccepting, TransportInv, Mutexless, OneRequest
  <2> QED BY <2>1, <2>2, <2>3, <2>4, <2>5
<1>19. CASE ReadLast(t)
  <2> USE <1>0, <1>19 DEF ReadLast
  <2>1. MpdInv' /\ pc' = pc /\ cont' = cont
    BY Alone
  <2>2. Domains'
    BY <2>1 DEF Domains
  <2>3. OneRequest'
    BY <2>1 DEF Domains, OneRequest
  <2>4. TransportInv'
    BY DEF Domains, TransportInv, TransportGuarded, Mutexless, Unlocked,
       UnlockedPlaces, LoopPlaces
  <2>5. DeviceInv'
    BY DEF Domains, DeviceInv, Accepting, RCAccepting, TransportInv, Mutexless, OneRequest
  <2> QED BY <2>1, <2>2, <2>3, <2>4, <2>5
<1>20. CASE Accept(t)
  <2> USE <1>0, <1>20 DEF Accept
  <2>1. MpdInv' /\ pc' = pc /\ cont' = cont
    BY Alone
  <2>2. Domains'
    BY <2>1 DEF Domains
  <2>3. OneRequest'
    BY <2>1 DEF Domains, OneRequest
  <2>4. TransportInv'
    BY DEF Domains, TransportInv, TransportGuarded, Mutexless, Unlocked,
       UnlockedPlaces, LoopPlaces
  <2>5. DeviceInv'
    BY DEF Domains, DeviceInv, Accepting, RCAccepting, TransportInv, Mutexless, OneRequest
  <2> QED BY <2>1, <2>2, <2>3, <2>4, <2>5
<1> QED
  BY <1>1, <1>2, <1>3, <1>4, <1>5, <1>6, <1>7, <1>8, <1>9, <1>10, <1>11,
      <1>12, <1>13, <1>14, <1>15, <1>16, <1>17, <1>18, <1>19, <1>20 DEF Handle
-----------------------------------------------------------------------------
(* The handlers of RenderingControl.                                       *)

\* The shared vocabulary, as RenderingControl names it.
LEMMA SameCalls ==
  ASSUME NEW t, NEW o, NEW a
  PROVE  /\ RC!Call(t, o, a) <=> Call(t, o, a)
         /\ RC!Return(t) <=> Return(t)
         /\ UNCHANGED RC!vars <=> UNCHANGED vars
         /\ UNCHANGED RC!callVars <=> UNCHANGED callVars
BY DEF RC!Call, Call, RC!Return, Return, RC!At, At, RC!Goto, Goto, RC!Entry, Entry,
       RC!EntryRc, EntryRc, RC!NoStatus, NoStatus, RC!CheckOps, CheckOps, RC!MuteOps,
       MuteOps, RC!vars, vars, RC!callVars, callVars, RC!linkVars, linkVars, RC!mpdVars,
       mpdVars, RC!stateVars, stateVars, RC!uriVars, uriVars, RC!volumeVars, volumeVars

ControlKept == Domains' /\ MpdInv' /\ OneRequest' /\ ControlInv' /\ DeviceInv'

LEMMA ControlStep ==
  ASSUME MutexInv, NEW t \in Threads, RC!Handle(t), UNCHANGED transportOnly
  PROVE  ControlKept
<1> USE NoneAssumption DEF MutexInv, ControlKept, RC!Here, RC!Move
<1>0. at' = at /\ req' = req
  BY DEF transportOnly
<1>n. ~RC!DoneElsewhere(t)
  BY DEF RC!DoneElsewhere, OneRequest
<1>1. CASE RC!DeviceLock(t)
  <2> USE <1>0, <1>1 DEF RC!DeviceLock
  <2>1. MpdInv' /\ pc' = pc /\ cont' = cont
    BY Alone, SameCalls
  <2>2. Domains'
    BY <2>1 DEF Domains
  <2>3. OneRequest'
    BY <2>1 DEF Domains, OneRequest
  <2>4. ControlInv'
    BY DEF Domains, ControlInv, ControlGuarded
  <2>5. DeviceInv'
    BY DEF Domains, DeviceInv, Accepting, RCAccepting, OneRequest
  <2> QED BY <2>1, <2>2, <2>3, <2>4, <2>5
<1>2. CASE RC!ControlLock(t)
  <2> USE <1>0, <1>2 DEF RC!ControlLock
  <2>1. MpdInv' /\ pc' = pc /\ cont' = cont
    BY Alone, SameCalls
  <2>2. Domains'
    BY <2>1 DEF Domains
  <2>3. OneRequest'
    BY <2>1 DEF Domains, OneRequest
  <2>4. ControlInv'
    BY DEF Domains, ControlInv, ControlGuarded
  <2>5. DeviceInv'
    BY DEF Domains, DeviceInv, Accepting, RCAccepting, OneRequest
  <2> QED BY <2>1, <2>2, <2>3, <2>4, <2>5
<1>3. CASE RC!ControlUnlock(t)
  <2> USE <1>0, <1>3 DEF RC!ControlUnlock
  <2>1. MpdInv' /\ pc' = pc /\ cont' = cont
    BY Alone, SameCalls
  <2>2. Domains'
    BY <2>1 DEF Domains
  <2>3. OneRequest'
    BY <2>1 DEF Domains, OneRequest
  <2>4. ControlInv'
    BY DEF Domains, ControlInv, ControlGuarded
  <2>5. DeviceInv'
    BY DEF Domains, DeviceInv, Accepting, RCAccepting, OneRequest
  <2> QED BY <2>1, <2>2, <2>3, <2>4, <2>5
<1>4. CASE RC!Begin(t)
  <2> USE <1>0, <1>4 DEF RC!Begin
  <2>1. MpdInv' /\ DOMAIN pc' = Threads /\ DOMAIN cont' = Threads
        /\ (rcAt'[t] = "calling" \/ pc' = pc) /\ \A u \in Threads \ {t} : pc'[u] = pc[u]
    <3>1. CASE RC!FirstCall(rcReq[t], rcParam[t]) = "none"
      BY <3>1, Alone, SameCalls DEF Domains
    <3>2. CASE RC!FirstCall(rcReq[t], rcParam[t]) # "none"
      BY <3>2, CallStep, SameCalls DEF Domains
    <3> QED BY <3>1, <3>2
  <2>2. Domains'
    BY <2>1 DEF Domains
  <2>3. OneRequest'
    BY <2>1 DEF Domains, OneRequest
  <2>4. ControlInv'
    BY DEF Domains, ControlInv, ControlGuarded
  <2>5. DeviceInv'
    BY DEF Domains, DeviceInv, Accepting, RCAccepting, OneRequest
  <2> QED BY <2>1, <2>2, <2>3, <2>4, <2>5
<1>5. CASE RC!SetDone(t)
  <2> USE <1>0, <1>5 DEF RC!SetDone
  <2>1. MpdInv' /\ DOMAIN pc' = Threads /\ DOMAIN cont' = Threads
        /\ pc'[t] = "idle" /\ \A u \in Threads \ {t} : pc'[u] = pc[u]
    BY ReturnStep, SameCalls
  <2>2. Domains'
    BY <2>1 DEF Domains
  <2>3. OneRequest'
    BY <2>1 DEF Domains, OneRequest
  <2>4. ControlInv'
    BY DEF Domains, ControlInv, ControlGuarded
  <2>5. DeviceInv'
    BY DEF Domains, DeviceInv, Accepting, RCAccepting, OneRequest
  <2> QED BY <2>1, <2>2, <2>3, <2>4, <2>5
<1>6. CASE RC!ReadBack(t)
  <2> USE <1>0, <1>6 DEF RC!ReadBack
  <2>1. MpdInv' /\ DOMAIN pc' = Threads /\ DOMAIN cont' = Threads
        /\ \A u \in Threads \ {t} : pc'[u] = pc[u]
    BY CallStep, SameCalls
  <2>2. Domains'
    BY <2>1 DEF Domains
  <2>3. OneRequest'
    BY <2>1 DEF Domains, OneRequest
  <2>4. ControlInv'
    BY DEF Domains, ControlInv, ControlGuarded
  <2>5. DeviceInv'
    BY DEF Domains, DeviceInv, Accepting, RCAccepting, OneRequest
  <2> QED BY <2>1, <2>2, <2>3, <2>4, <2>5
<1>7. CASE RC!GetDone(t)
  <2> USE <1>0, <1>7 DEF RC!GetDone
  <2>1. MpdInv' /\ DOMAIN pc' = Threads /\ DOMAIN cont' = Threads
        /\ pc'[t] = "idle" /\ \A u \in Threads \ {t} : pc'[u] = pc[u]
    BY ReturnStep, SameCalls
  <2>2. Domains'
    BY <2>1 DEF Domains
  <2>3. OneRequest'
    BY <2>1 DEF Domains, OneRequest
  <2>4. ControlInv'
    BY DEF Domains, ControlInv, ControlGuarded
  <2>5. DeviceInv'
    BY DEF Domains, DeviceInv, Accepting, RCAccepting, OneRequest
  <2> QED BY <2>1, <2>2, <2>3, <2>4, <2>5
<1>8. CASE RC!ChangeVolume(t)
  <2> USE <1>0, <1>8 DEF RC!ChangeVolume
  <2>1. MpdInv' /\ pc' = pc /\ cont' = cont
    BY Alone, SameCalls
  <2>2. Domains'
    BY <2>1 DEF Domains
  <2>3. OneRequest'
    BY <2>1 DEF Domains, OneRequest
  <2>4. ControlInv'
    BY DEF Domains, ControlInv, ControlGuarded
  <2>5. DeviceInv'
    BY DEF Domains, DeviceInv, Accepting, RCAccepting, OneRequest
  <2> QED BY <2>1, <2>2, <2>3, <2>4, <2>5
<1>9. CASE RC!ChangeMute(t)
  <2> USE <1>0, <1>9 DEF RC!ChangeMute
  <2>1. MpdInv' /\ pc' = pc /\ cont' = cont
    BY Alone, SameCalls
  <2>2. Domains'
    BY <2>1 DEF Domains
  <2>3. OneRequest'
    BY <2>1 DEF Domains, OneRequest
  <2>4. ControlInv'
    BY DEF Domains, ControlInv, ControlGuarded
  <2>5. DeviceInv'
    BY DEF Domains, DeviceInv, Accepting, RCAccepting, OneRequest
  <2> QED BY <2>1, <2>2, <2>3, <2>4, <2>5
<1>10. CASE RC!Send(t)
  <2> USE <1>0, <1>10 DEF RC!Send
  <2>1. MpdInv' /\ pc' = pc /\ cont' = cont
    BY Alone, SameCalls
  <2>2. Domains'
    BY <2>1 DEF Domains
  <2>3. OneRequest'
    BY <2>1 DEF Domains, OneRequest
  <2>4. ControlInv'
    BY DEF Domains, ControlInv, ControlGuarded
  <2>5. DeviceInv'
    BY DEF Domains, DeviceInv, Accepting, RCAccepting, OneRequest
  <2> QED BY <2>1, <2>2, <2>3, <2>4, <2>5
<1>11. CASE RC!Append(t)
  <2> USE <1>0, <1>11 DEF RC!Append
  <2>1. MpdInv' /\ pc' = pc /\ cont' = cont
    BY Alone, SameCalls
  <2>2. Domains'
    BY <2>1 DEF Domains
  <2>3. OneRequest'
    BY <2>1 DEF Domains, OneRequest
  <2>4. ControlInv'
    BY DEF Domains, ControlInv, ControlGuarded
  <2>5. DeviceInv'
    BY DEF Domains, DeviceInv, Accepting, RCAccepting, OneRequest
  <2> QED BY <2>1, <2>2, <2>3, <2>4, <2>5
<1>12. CASE RC!Reply(t)
  <2> USE <1>0, <1>12 DEF RC!Reply
  <2>1. MpdInv' /\ pc' = pc /\ cont' = cont
    BY Alone, SameCalls
  <2>2. Domains'
    BY <2>1 DEF Domains
  <2>3. OneRequest'
    BY <2>1 DEF Domains, OneRequest
  <2>4. ControlInv'
    BY DEF Domains, ControlInv, ControlGuarded
  <2>5. DeviceInv'
    BY DEF Domains, DeviceInv, Accepting, RCAccepting, OneRequest
  <2> QED BY <2>1, <2>2, <2>3, <2>4, <2>5
<1>13. CASE RC!LastChange(t)
  <2> USE <1>0, <1>13 DEF RC!LastChange
  <2>1. MpdInv' /\ pc' = pc /\ cont' = cont
    BY Alone, SameCalls
  <2>2. Domains'
    BY <2>1 DEF Domains
  <2>3. OneRequest'
    BY <2>1 DEF Domains, OneRequest
  <2>4. ControlInv'
    BY DEF Domains, ControlInv, ControlGuarded
  <2>5. DeviceInv'
    BY DEF Domains, DeviceInv, Accepting, RCAccepting, OneRequest
  <2> QED BY <2>1, <2>2, <2>3, <2>4, <2>5
<1>14. CASE RC!StoreLast(t)
  <2> USE <1>0, <1>14 DEF RC!StoreLast
  <2>1. MpdInv' /\ pc' = pc /\ cont' = cont
    BY Alone, SameCalls
  <2>2. Domains'
    BY <2>1 DEF Domains
  <2>3. OneRequest'
    BY <2>1 DEF Domains, OneRequest
  <2>4. ControlInv'
    BY DEF Domains, ControlInv, ControlGuarded
  <2>5. DeviceInv'
    BY DEF Domains, DeviceInv, Accepting, RCAccepting, OneRequest
  <2> QED BY <2>1, <2>2, <2>3, <2>4, <2>5
<1>15. CASE RC!ReadLast(t)
  <2> USE <1>0, <1>15 DEF RC!ReadLast
  <2>1. MpdInv' /\ pc' = pc /\ cont' = cont
    BY Alone, SameCalls
  <2>2. Domains'
    BY <2>1 DEF Domains
  <2>3. OneRequest'
    BY <2>1 DEF Domains, OneRequest
  <2>4. ControlInv'
    BY DEF Domains, ControlInv, ControlGuarded
  <2>5. DeviceInv'
    BY DEF Domains, DeviceInv, Accepting, RCAccepting, OneRequest
  <2> QED BY <2>1, <2>2, <2>3, <2>4, <2>5
<1>16. CASE RC!Accept(t)
  <2> USE <1>0, <1>16 DEF RC!Accept
  <2>1. MpdInv' /\ pc' = pc /\ cont' = cont
    BY Alone, SameCalls
  <2>2. Domains'
    BY <2>1 DEF Domains
  <2>3. OneRequest'
    BY <2>1 DEF Domains, OneRequest
  <2>4. ControlInv'
    BY DEF Domains, ControlInv, ControlGuarded
  <2>5. DeviceInv'
    BY DEF Domains, DeviceInv, Accepting, RCAccepting, OneRequest
  <2> QED BY <2>1, <2>2, <2>3, <2>4, <2>5
<1> QED
  BY <1>n, <1>1, <1>2, <1>3, <1>4, <1>5, <1>6, <1>7, <1>8, <1>9, <1>10, <1>11,
      <1>12, <1>13, <1>14, <1>15, <1>16 DEF RC!Handle
-----------------------------------------------------------------------------
(* All steps.                                                              *)

LEMMA MutexInit == ServicesInit => MutexInv
<1> SUFFICES ASSUME ServicesInit PROVE MutexInv
  OBVIOUS
<1> USE NoneAssumption, MainAssumption DEF ServicesInit, AVInit, Init, RC!ControlInit
<1>1. Domains /\ MpdInv /\ OneRequest
  BY DEF Domains, MpdInv, OneRequest
<1>2. TransportInv /\ ControlInv
  BY DEF TransportInv, TransportGuarded, Mutexless, Unlocked, UnlockedPlaces, LoopPlaces,
         ControlInv, ControlGuarded
<1>3. DeviceInv
  BY DEF DeviceInv, Accepting, RCAccepting
<1> QED BY <1>1, <1>2, <1>3 DEF MutexInv

LEMMA RequestStep ==
  ASSUME MutexInv, NEW t \in Threads, RequestTransport(t) \/ RequestControl(t)
  PROVE  MutexInv'
<1> USE DEF MutexInv, Free
<1>1. CASE RequestTransport(t)
  <2>1. PICK h \in Handlers : \E p \in Params(h) : Request(t, h, p)
    BY <1>1 DEF RequestTransport
  <2>2. /\ Here(t, "idle") /\ Move(t, FirstPlace(h)) /\ req' = [req EXCEPT ![t] = h]
        /\ UNCHANGED <<vars, transportMutex, deviceMutex, controlMutex, rcAt, rcReq>>
        /\ rcAt[t] = "idle" /\ h \in AllHandlers
    BY <1>1, <2>1, HandlersAssumption DEF Request, RequestTransport, controlOnly
  <2> USE <2>2 DEF Here, Move, FirstPlace
  <2>3. MpdInv' /\ pc' = pc /\ cont' = cont
    BY Alone
  <2>4. Domains' /\ OneRequest' /\ ControlInv'
    BY <2>3 DEF Domains, OneRequest, ControlInv
  <2>5. TransportInv'
    BY DEF Domains, TransportInv, TransportGuarded, Mutexless, Unlocked, Checked, AllHandlers,
           UnlockedPlaces, LoopPlaces
  <2>6. DeviceInv'
    BY DEF Domains, DeviceInv, Accepting, RCAccepting, Checked, AllHandlers
  <2> QED BY <2>3, <2>4, <2>5, <2>6
<1>2. CASE RequestControl(t)
  <2>1. PICK h \in ControlHandlers : \E p \in RC!Params(h) : RC!Request(t, h, p)
    BY <1>2 DEF RequestControl
  <2>2. /\ RC!Here(t, "idle") /\ RC!Move(t, RC!FirstPlace(h))
        /\ rcReq' = [rcReq EXCEPT ![t] = h]
        /\ UNCHANGED <<vars, transportMutex, deviceMutex, controlMutex, at, req>>
        /\ at[t] = "idle"
    BY <1>2, <2>1, SameCalls DEF RC!Request, RequestControl, transportOnly
  <2> USE <2>2 DEF RC!Here, RC!Move, RC!FirstPlace
  <2>3. MpdInv' /\ pc' = pc /\ cont' = cont
    BY Alone
  <2>4. Domains' /\ OneRequest' /\ TransportInv'
    BY <2>3 DEF Domains, OneRequest, TransportInv
  <2>5. ControlInv'
    BY DEF Domains, ControlInv, ControlGuarded
  <2>6. DeviceInv'
    BY DEF Domains, DeviceInv, Accepting, RCAccepting
  <2> QED BY <2>3, <2>4, <2>5, <2>6
<1> QED BY <1>1, <1>2

LEMMA MutexStep == MutexInv /\ [ServicesNext]_servicesVars => MutexInv'
<1> SUFFICES ASSUME MutexInv, [ServicesNext]_servicesVars PROVE MutexInv'
  OBVIOUS
<1>1. ASSUME NEW t \in Threads, Handle(t), UNCHANGED controlOnly PROVE MutexInv'
  BY <1>1, TransportStep DEF TransportKept, MutexInv, ControlInv, controlOnly
<1>2. ASSUME NEW t \in Threads, RC!Handle(t), UNCHANGED transportOnly PROVE MutexInv'
  BY <1>2, ControlStep DEF ControlKept, MutexInv, TransportInv, transportOnly
<1>3. ASSUME NEW t \in Threads, Inner(t), UNCHANGED <<handlerVars, controlOnly>>
      PROVE  MutexInv'
  <2>1. UNCHANGED <<transportMutex, deviceMutex, controlMutex, at, req, rcAt, rcReq>>
    BY <1>3 DEF handlerVars, controlOnly
  <2>2. /\ MpdInv' /\ DOMAIN pc' = Threads /\ DOMAIN cont' = Threads
        /\ \A u \in Threads : pc'[u] # "idle" => pc[u] # "idle"
    BY <1>3, InnerStep DEF MutexInv
  <2>3. Domains' /\ OneRequest'
    BY <2>1, <2>2 DEF MutexInv, Domains, OneRequest
  <2>4. TransportInv' /\ ControlInv' /\ DeviceInv'
    BY <2>1 DEF MutexInv, TransportInv, ControlInv, DeviceInv, Accepting, RCAccepting
  <2> QED BY <2>2, <2>3, <2>4 DEF MutexInv
<1>4. ASSUME NEW t \in Threads, RequestTransport(t) \/ RequestControl(t) PROVE MutexInv'
  BY <1>4, RequestStep
<1>5. CASE Outside \/ UNCHANGED servicesVars
  <2>1. UNCHANGED <<mpdMutex, pc, cont, transportMutex, deviceMutex, controlMutex, at, req,
                    rcAt, rcReq>>
    BY <1>5 DEF Outside, PlayerMoves, MixerMoves, Dead, vars, callVars, handlerVars,
                controlOnly, servicesVars, avVars
  <2> QED BY <2>1 DEF MutexInv, Domains, MpdInv, OneRequest, TransportInv, ControlInv,
                      DeviceInv, Accepting, RCAccepting
<1> QED BY <1>1, <1>2, <1>3, <1>4, <1>5 DEF ServicesNext, Serve

THEOREM MutexInvariant == ServicesSpec => []MutexInv
BY MutexInit, MutexStep, PTL DEF ServicesSpec

(* A handler that works on the variables of its service owns its mutex, for *)
(* any number of threads, requests and faults (upnp_transport.c,            *)
(* upnp_control.c).                                                         *)
THEOREM HandlersHoldAlways == ServicesSpec => []HandlersHold
<1>1. MutexInv => HandlersHold
  BY DEF MutexInv, HandlersHold, TransportHeld, TransportInv, Mutexless, RC!ControlHeld,
         ControlInv, ControlGuarded
<1> QED BY <1>1, MutexInvariant, PTL

(* Subscriptions to the two services exclude each other                     *)
(* (handle_subscription_request).                                           *)
THEOREM SubscriptionsHold == ServicesSpec => []SubscriptionHolds
<1>1. MutexInv => SubscriptionHolds
  BY DEF MutexInv, SubscriptionHolds, DeviceHeld, DeviceInv, Accepting, RCAccepting
<1> QED BY <1>1, MutexInvariant, PTL

(* A thread that has answered has given back all four mutexes, whichever    *)
(* error path it came by (every handler and output_* function).             *)
THEOREM NothingIsKept == ServicesSpec => []NothingKept
<1>1. MutexInv => NothingKept
  BY DEF MutexInv, NothingKept, Free, MpdInv, OneRequest, Guarded, TransportInv,
         TransportGuarded, ControlInv, ControlGuarded, DeviceInv, Accepting, RCAccepting
<1> QED BY <1>1, MutexInvariant, PTL

(* No group of threads, of any size, waits in a circle: the owner of        *)
(* mpd_mutex waits for nothing, the owner of a service's mutex at most for  *)
(* mpd_mutex, the owner of device_mutex at most for these.                  *)
THEOREM NeverInACircle == ServicesSpec => []NoCircularWait
<1>1. ASSUME MutexInv, NEW group \in SUBSET Threads,
             \A t \in group : Awaited(t) \in group
      PROVE  group = {}
  <2> USE <1>1, NoneAssumption DEF MutexInv
  <2>1. \A t \in group : pc[t] # "lock"
    <3> SUFFICES ASSUME NEW t \in group, pc[t] = "lock" PROVE FALSE
      OBVIOUS
    <3>1. mpdMutex \in group
      BY DEF Awaited, OneRequest
    <3>2. pc[mpdMutex] \in Guarded
      BY <3>1 DEF MpdInv
    <3>3. Awaited(mpdMutex) = None
      BY <3>1, <3>2 DEF Awaited, OneRequest, Guarded
    <3> QED BY <3>1, <3>3
  <2>2. \A t \in group : at[t] \notin {"transport_lock", "append"}
    <3> SUFFICES ASSUME NEW t \in group, at[t] \in {"transport_lock", "append"} PROVE FALSE
      OBVIOUS
    <3>1. transportMutex \in group
      BY <2>1 DEF Awaited, OneRequest
    <3>2. at[transportMutex] \in TransportGuarded /\ pc[transportMutex] # "lock"
      BY <2>1, <3>1 DEF TransportInv
    <3>3. Awaited(transportMutex) = None
      BY <3>1, <3>2 DEF Awaited, OneRequest, TransportGuarded
    <3> QED BY <3>1, <3>3
  <2>3. \A t \in group : rcAt[t] \notin {"control_lock", "append"}
    <3> SUFFICES ASSUME NEW t \in group, rcAt[t] \in {"control_lock", "append"} PROVE FALSE
      OBVIOUS
    <3>1. controlMutex \in group
      BY <2>1, <2>2 DEF Awaited, OneRequest
    <3>2. rcAt[controlMutex] \in ControlGuarded /\ pc[controlMutex] # "lock"
      BY <2>1, <3>1 DEF ControlInv
    <3>3. Awaited(controlMutex) = None
      BY <3>1, <3>2 DEF Awaited, OneRequest, ControlGuarded
    <3> QED BY <3>1, <3>3
  <2>4. \A t \in group : FALSE
    <3> SUFFICES ASSUME NEW t \in group PROVE FALSE
      OBVIOUS
    <3>1. deviceMutex \in group
      BY <2>1, <2>2, <2>3 DEF Awaited
    <3>2. Accepting(deviceMutex) \/ RCAccepting(deviceMutex)
      BY <3>1 DEF DeviceInv
    <3>3. "device_lock" \notin {at[deviceMutex], rcAt[deviceMutex]}
      BY <3>1, <3>2 DEF Accepting, RCAccepting, DeviceInv, OneRequest
    <3>4. Awaited(deviceMutex) = None
      BY <2>1, <2>2, <2>3, <3>1, <3>3 DEF Awaited
    <3> QED BY <3>1, <3>4
  <2> QED BY <2>4
<1>2. MutexInv => NoCircularWait
  BY <1>1 DEF NoCircularWait
<1> QED BY <1>2, MutexInvariant, PTL
-----------------------------------------------------------------------------
(* Types.                                                                  *)

\* What the calls hold where they use it: volumes in MPD's range, numbers as
\* the arguments of the volume operations.
CallHolds(t) ==
  /\ snap[t].volume \in 0 .. 100
  /\ op[t] = "output_set_volume" => arg[t] \in Int
  /\ op[t] \in MuteOps /\ pc[t] \in {"lock", "volume"} => arg[t] \in Int
  /\ op[t] = "output_get_volume" => pc[t] = "read" \/ (pc[t] = "ret" /\ arg[t] \in Int)
  /\ pc[t] = "uri_test" => op[t] = "output_set_uri"
  /\ pc[t] = "volume" => op[t] \in MuteOps \cup {"output_set_volume"}

VolumeInv ==
  /\ mixer \in 0 .. 100 /\ mpdvolume \in 0 .. 100 /\ mutevolume \in 0 .. 100
  /\ stateVar \in TransportStates \ {"UNSET"}
  /\ DOMAIN op = Threads /\ DOMAIN arg = Threads /\ DOMAIN snap = Threads
  /\ \A t \in Threads : CallHolds(t)

\* An event of RenderingControl names a volume, a mute, or both.
SaysOK(e) == e.volume \in Int \cup {None} /\ e.mute \in {"0", "1", "other", None}

\* Which request a handler of RenderingControl serves where it uses the
\* argument.
ControlRequest(t) ==
  /\ rcReq[t] = "SetVolume" => rcParam[t] \in Int
  /\ rcReq[t] = "SetMute" => rcParam[t] \in {"0", "1", "other"}
  /\ rcAt[t] = "calling" /\ op[t] \in MuteOps => rcReq[t] = "SetMute"
  /\ rcAt[t] = "calling" /\ op[t] = "output_set_volume" => rcReq[t] = "SetVolume"
  /\ rcAt[t] = "update" => rcReq[t] = "SetMute"
  /\ rcAt[t] = "change_volume" => rcReq[t] = "SetVolume"
  /\ rcAt[t] \in {"change_mute", "send"} => rcReq[t] \in {"SetMute", "SetVolume"}

ControlTypes ==
  /\ controlMutex \in Threads \cup {None} /\ deviceMutex \in Threads \cup {None}
  /\ rcAt \in [Threads -> RC!Places]
  /\ rcReq \in [Threads -> RC!AllHandlers \cup {"none"}]
  /\ DOMAIN rcParam = Threads /\ DOMAIN rcSaid = Threads
  /\ volumeVar \in Int \cup {None} /\ muteVar \in {"0", "1", "other"}
  /\ \A t \in Threads : SaysOK(rcSaid[t]) /\ ControlRequest(t)
  /\ rcLastChange = None \/ SaysOK(rcLastChange)

TypesInv == AVTypeOK /\ VolumeInv /\ ControlTypes

\* A volume the code gives to MPD is in MPD's range.
LEMMA Clamped == ASSUME NEW v \in Int PROVE Clamp(v) \in 0 .. 100
BY DEF Clamp

LEMMA Translated == \A s : Translate(s) \in TransportStates \ {"UNSET"}
BY DEF Translate, TransportStates

LEMMA InnerTypes ==
  ASSUME Domains, MpdInv, VolumeInv, NEW t \in Threads, Inner(t)
  PROVE  VolumeInv' /\ op' = op
<1> USE DEF Domains, MpdInv, VolumeInv, CallHolds, At, Goto, linkVars, mpdVars,
        stateVars, uriVars, volumeVars, callVars
<1>1. CASE Lock(t)
  BY <1>1 DEF Lock, AfterLock, MuteOps
<1>2. CASE Unlock(t) \/ CheckUnlock(t) \/ EarlyUnlock(t)
  BY <1>2 DEF Unlock, CheckUnlock, EarlyUnlock, MuteOps
<1>3. CASE Check(t)
  BY <1>3 DEF Check, Fail
<1>4. CASE FreeConn(t) \/ ClearConn(t)
  BY <1>4 DEF FreeConn, ClearConn
<1>5. CASE Query(t)
  BY <1>5 DEF Query, Dropped, Crash, AfterUpdate, Reported
<1>6. CASE Song(t) \/ AdoptUri(t)
  BY <1>6 DEF Song, AdoptUri, Crash
<1>7. CASE Finish(t)
  BY <1>7 DEF Finish, Dropped, Crash
<1>8. CASE SetState(t) \/ SetVar(t)
  BY <1>8, Translated DEF SetState, SetVar, AfterUpdate
<1>9. CASE Command(t)
  BY <1>9 DEF Command, Refused, Crash, Fail
<1>10. CASE SeekStatus(t)
  BY <1>10 DEF SeekStatus, Refused, Crash, Fail
<1>11. CASE SendPlayMode(t)
  BY <1>11 DEF SendPlayMode, Dropped, Crash, Fail
<1>12. CASE FinishPlayMode(t)
  BY <1>12 DEF FinishPlayMode, Dropped, Crash
<1>13. CASE TestUri(t) \/ SaveVolume(t) \/ ReadVolume(t)
  BY <1>13 DEF TestUri, SaveVolume, ReadVolume, MuteOps
<1>14. CASE ClearQueue(t)
  BY <1>14 DEF ClearQueue, Crash
<1>15. CASE AddUri(t)
  BY <1>15 DEF AddUri, Refused, Crash
<1>16. CASE SetMixer(t)
  <2>1. Clamp(arg[t]) \in 0 .. 100
    BY <1>16, Clamped DEF SetMixer
  <2> QED BY <1>16, <2>1 DEF SetMixer, Refused, Crash
<1>17. CASE Position(t)
  BY <1>17 DEF Position, Crash, Reported
<1>18. CASE Peek(t)
  BY <1>18 DEF Peek
<1> QED
  BY <1>1, <1>2, <1>3, <1>4, <1>5, <1>6, <1>7, <1>8, <1>9, <1>10, <1>11, <1>12,
     <1>13, <1>14, <1>15, <1>16, <1>17, <1>18 DEF Inner, Exclusive, Mixing, Polling

LEMMA CallTypes ==
  ASSUME VolumeInv, Domains, NEW t \in Threads, NEW o, NEW a, Call(t, o, a),
         o = "output_set_volume" => a \in Int
  PROVE  VolumeInv' /\ op'[t] = o /\ \A u \in Threads \ {t} : op'[u] = op[u]
BY DEF VolumeInv, Domains, CallHolds, Call, Entry, MuteOps, At, Goto, mpdVars, stateVars, volumeVars

LEMMA ReturnTypes ==
  ASSUME VolumeInv, Domains, NEW t \in Threads, Return(t)
  PROVE  VolumeInv' /\ op'[t] = "none" /\ \A u \in Threads \ {t} : op'[u] = op[u]
BY DEF VolumeInv, Domains, CallHolds, Return, NoStatus, MuteOps, At, Goto, mpdVars, stateVars,
       volumeVars

LEMMA AloneTypes ==
  ASSUME VolumeInv, UNCHANGED vars \/ UNCHANGED <<mpdVars, stateVars, volumeVars, callVars>>
  PROVE  VolumeInv' /\ op' = op
BY DEF VolumeInv, CallHolds, vars, mpdVars, stateVars, volumeVars, callVars

\* A step of a handler of AVTransport.
LEMMA TransportTypes ==
  ASSUME TypesInv, Domains, NEW t \in Threads, Handle(t), UNCHANGED controlOnly
  PROVE  TypesInv'
<1> USE DEF TypesInv, Here, Move, locals
<1>1. /\ AVTypeOK /\ VolumeInv /\ ControlTypes
      /\ UNCHANGED <<controlMutex, rcAt, rcReq, rcParam, volumeVar, muteVar, rcSaid, rcLastChange>>
  BY DEF controlOnly
<1>2. /\ Event("mode", "STOPPED") \in [form : Forms, state : TransportStates]
      /\ Event("full", stateVar) \in [form : Forms, state : TransportStates]
      /\ Event("state", stateVar) \in [form : Forms, state : TransportStates]
      /\ NoEvent \in [form : Forms, state : TransportStates]
      /\ FreedEvent \in [form : Forms, state : TransportStates]
  BY <1>1 DEF Event, NoEvent, FreedEvent, Forms, TransportStates, VolumeInv
<1>4. \A o : Published(o) \in TransportStates \ {"UNSET"}
  BY DEF Published, TransportStates
<1>5. AVTypeOK'
  <2> USE <1>1 DEF AVTypeOK
  <2>1. CASE StartLoop(t)
    BY <2>1 DEF StartLoop, Places
  <2>2. CASE CheckConnection(t)
    BY <2>2 DEF CheckConnection, Places
  <2>3. CASE CheckDone(t)
    BY <2>3 DEF CheckDone, Places
  <2>4. CASE TransportLock(t)
    BY <2>4 DEF TransportLock, Places
  <2>5. CASE TransportUnlock(t)
    BY <2>5 DEF TransportUnlock, Places
  <2>6. CASE Switch(t)
    BY <2>6 DEF Switch, Places
  <2>7. CASE Invoke(t)
    BY <2>7 DEF Invoke, Places
  <2>8. CASE CallDone(t)
    BY <1>4, <2>8 DEF CallDone, Places, NextPlace
  <2>9. CASE SetAvUri(t)
    BY <2>9 DEF SetAvUri, Places
  <2>10. CASE SetTransportState(t)
    BY <2>10 DEF SetTransportState, Places
  <2>11. CASE ChangeVar(t)
    BY <2>11 DEF ChangeVar, Places
  <2>12. CASE Notify(t)
    BY <1>2, <2>12 DEF Notify, Places
  <2>13. CASE Send(t)
    BY <2>13 DEF Send, Places
  <2>14. CASE Append(t)
    BY <2>14 DEF Append, Places
  <2>15. CASE Reply(t)
    BY <1>2, <2>15 DEF Reply, Places, TransportStates, AllHandlers
  <2>16. CASE DeviceLock(t)
    BY <2>16 DEF DeviceLock, Places
  <2>17. CASE UpdateLast(t)
    <3>1. CASE UNCHANGED <<said, lastChange>>
      BY <2>17, <3>1 DEF UpdateLast, Places
    <3>2. CASE said' = [said EXCEPT ![t] = Event("full", stateVar)] /\ lastChange' = FreedEvent
      BY <1>2, <2>17, <3>2 DEF UpdateLast, Places
    <3> QED BY <2>17, <3>1, <3>2 DEF UpdateLast
  <2>18. CASE StoreLast(t)
    BY <2>18 DEF StoreLast, Places
  <2>19. CASE ReadLast(t)
    BY <2>19 DEF ReadLast, Places
  <2>20. CASE Accept(t)
    BY <2>20 DEF Accept, Places
  <2> QED BY <2>1, <2>2, <2>3, <2>4, <2>5, <2>6, <2>7, <2>8, <2>9, <2>10, <2>11, <2>12,
      <2>13, <2>14, <2>15, <2>16, <2>17, <2>18, <2>19, <2>20 DEF Handle
<1>6. /\ VolumeInv' /\ deviceMutex' \in Threads \cup {None}
      /\ \A u \in Threads : op'[u] = op[u] \/ op'[u] \notin MuteOps \cup {"output_set_volume"}
  <2>1. deviceMutex' \in Threads \cup {None}
    BY <1>5 DEF AVTypeOK
  <2>2. CASE \E o, a : Call(t, o, a) /\ o \notin MuteOps \cup {"output_set_volume"}
    BY <2>1, <2>2, <1>1, CallTypes
  <2>3. CASE Return(t)
    BY <2>1, <2>3, <1>1, ReturnTypes DEF MuteOps
  <2>4. CASE UNCHANGED vars \/ UNCHANGED <<mpdVars, stateVars, volumeVars, callVars>>
    BY <2>1, <2>4, <1>1, AloneTypes
  <2>5. CASE SetTransportState(t) \/ ChangeVar(t)
    <3>1. CASE SetTransportState(t)
      BY <2>1, <3>1, <1>1 DEF SetTransportState, VolumeInv, CallHolds, mpdVars, volumeVars, callVars
    <3>2. CASE ChangeVar(t)
      BY <2>1, <3>2, <1>1 DEF ChangeVar, VolumeInv, AVTypeOK, CallHolds, mpdVars, volumeVars, callVars
    <3> QED BY <2>5, <3>1, <3>2
  <2>6. CASE StartLoop(t) \/ CheckConnection(t)
    BY <2>2, <2>6 DEF StartLoop, CheckConnection, MuteOps
  <2>7. CASE Switch(t)
    <3>1. Chosen(req[t], transportState) \notin MuteOps \cup {"output_set_volume"}
      BY DEF Chosen, MuteOps
    <3> QED BY <2>2, <2>4, <2>7, <3>1 DEF Switch
  <2>8. CASE Invoke(t)
    <3>1. Operation(req[t]) \notin MuteOps \cup {"output_set_volume"}
      BY DEF Operation, MuteOps
    <3> QED BY <2>2, <2>8, <3>1 DEF Invoke
  <2>9. CASE CheckDone(t) \/ CallDone(t)
    BY <2>3, <2>9 DEF CheckDone, CallDone
  <2>10. CASE TransportLock(t) \/ TransportUnlock(t) \/ Append(t) \/ Reply(t)
              \/ Notify(t) \/ Send(t) \/ DeviceLock(t) \/ UpdateLast(t) \/ StoreLast(t) \/ Accept(t)
    BY <2>4, <2>10 DEF TransportLock, TransportUnlock, Append, Reply, Notify, Send, DeviceLock,
       UpdateLast, StoreLast, Accept
  <2>11. CASE SetAvUri(t) \/ ReadLast(t)
    BY <2>4, <2>11 DEF SetAvUri, ReadLast
  <2> QED BY <2>5, <2>6, <2>7, <2>8, <2>9, <2>10, <2>11 DEF Handle
<1>7. ControlTypes'
  BY <1>1, <1>6 DEF ControlTypes, ControlRequest
<1> QED BY <1>5, <1>6, <1>7

\* A step of a handler of RenderingControl.
LEMMA ControlTypesKept ==
  ASSUME TypesInv, Domains, OneRequest, NEW t \in Threads, RC!Handle(t), UNCHANGED transportOnly
  PROVE  TypesInv'
<1> USE DEF TypesInv, RC!Here, RC!Move
<1>1. /\ AVTypeOK /\ VolumeInv /\ ControlTypes
      /\ UNCHANGED <<transportMutex, at, req, param, result, target, said, lastChange>>
  BY DEF transportOnly
<1>n. ~RC!DoneElsewhere(t)
  BY DEF RC!DoneElsewhere, OneRequest
<1>2. SaysOK(RC!Silence) /\ \A v \in Int : SaysOK(RC!Says(v, None))
      /\ \A m \in {"0", "1", "other"} : SaysOK(RC!Says(None, m))
      /\ \A n \in Int \cup {None}, s \in {"0", "1", "other"} : SaysOK(RC!Says(n, s))
  BY DEF SaysOK, RC!Says, RC!Silence
<1>3. /\ VolumeInv'
      /\ \A u \in Threads \ {t} : op'[u] = op[u]
      /\ op'[t] = op[t] \/ RC!Begin(t) \/ op'[t] \notin MuteOps \cup {"output_set_volume"}
  <2>1. CASE RC!Begin(t)
    <3>1. CASE RC!FirstCall(rcReq[t], rcParam[t]) = "none"
      BY <1>1, <2>1, <3>1, AloneTypes, SameCalls DEF RC!Begin
    <3>2. CASE RC!FirstCall(rcReq[t], rcParam[t]) = "output_set_volume"
      <4>1. rcReq[t] = "SetVolume"
        BY <3>2 DEF RC!FirstCall
      <4>2. rcParam[t] \in Int
        BY <4>1, <1>1 DEF ControlTypes, ControlRequest
      <4>3. Call(t, "output_set_volume", rcParam[t])
        BY <2>1, <3>2, SameCalls DEF RC!Begin
      <4> QED BY <1>1, <2>1, <4>2, <4>3, CallTypes
    <3>3. CASE RC!FirstCall(rcReq[t], rcParam[t]) \notin {"none", "output_set_volume"}
      <4>1. Call(t, RC!FirstCall(rcReq[t], rcParam[t]), None)
        BY <2>1, <3>3, SameCalls DEF RC!Begin
      <4> QED BY <1>1, <2>1, <3>3, <4>1, CallTypes
    <3> QED BY <3>1, <3>2, <3>3
  <2>2. CASE RC!ReadBack(t)
    <3>1. Call(t, "output_get_volume", None)
      BY <2>2, SameCalls DEF RC!ReadBack
    <3> QED BY <1>1, <3>1, CallTypes DEF MuteOps
  <2>3. CASE RC!SetDone(t) \/ RC!GetDone(t)
    <3>1. Return(t)
      BY <2>3, SameCalls DEF RC!SetDone, RC!GetDone
    <3> QED BY <1>1, <3>1, ReturnTypes DEF MuteOps
  <2>4. CASE RC!ReadLast(t)
    BY <1>1, <2>4, AloneTypes DEF RC!ReadLast, RC!mpdVars, RC!stateVars, RC!volumeVars, RC!callVars,
       mpdVars, stateVars, volumeVars, callVars
  <2>5. CASE UNCHANGED RC!vars
    BY <1>1, <2>5, AloneTypes, SameCalls
  <2> QED BY <1>n, <2>1, <2>2, <2>3, <2>4, <2>5 DEF RC!Handle, RC!DeviceLock, RC!ControlLock,
      RC!ControlUnlock, RC!ChangeVolume, RC!ChangeMute, RC!Send, RC!Append, RC!Reply,
      RC!LastChange, RC!StoreLast, RC!Accept
<1>b. ASSUME RC!Begin(t), rcAt'[t] = "calling"
      PROVE  /\ op'[t] \in MuteOps => rcReq[t] = "SetMute"
             /\ op'[t] = "output_set_volume" => rcReq[t] = "SetVolume"
  <2>1. op'[t] = RC!FirstCall(rcReq[t], rcParam[t])
    BY <1>1, <1>b, CallTypes, SameCalls DEF RC!Begin, ControlTypes, RC!Places, VolumeInv, RC!Call
  <2> QED BY <2>1 DEF RC!FirstCall, MuteOps
<1>r. RC!ReadBack(t) => op'[t] = "output_get_volume"
  BY <1>1 DEF RC!ReadBack, RC!Call, VolumeInv
<1>g. RC!GetDone(t) => arg[t] \in Int
  BY <1>1 DEF RC!GetDone, RC!Return, RC!At, VolumeInv, CallHolds
<1>4. ControlTypes'
  <2> USE <1>1, <1>3 DEF ControlTypes
  <2>1. CASE RC!DeviceLock(t)
    BY <1>2, <2>1 DEF RC!DeviceLock, RC!Places, ControlRequest
  <2>2. CASE RC!ControlLock(t)
    BY <1>2, <2>2 DEF RC!ControlLock, RC!Places, ControlRequest
  <2>3. CASE RC!ControlUnlock(t)
    BY <1>2, <2>3 DEF RC!ControlUnlock, RC!Places, ControlRequest
  <2>4. CASE RC!Begin(t)
    BY <1>b, <2>4 DEF RC!Begin, RC!Places, ControlRequest, RC!FirstCall
  <2>5. CASE RC!SetDone(t)
    BY <2>5, SameCalls DEF RC!SetDone, RC!Places, ControlRequest, RC!MuteOps, MuteOps
  <2>6. CASE RC!ReadBack(t)
    BY <1>r, <2>6 DEF RC!ReadBack, RC!Places, ControlRequest, MuteOps
  <2>7. CASE RC!GetDone(t)
    BY <1>2, <1>g, <2>7 DEF RC!GetDone, RC!Places, ControlRequest
  <2>8. CASE RC!ChangeVolume(t)
    BY <1>2, <2>8 DEF RC!ChangeVolume, RC!Places, ControlRequest
  <2>9. CASE RC!ChangeMute(t)
    BY <1>2, <2>9 DEF RC!ChangeMute, RC!Places, ControlRequest
  <2>10. CASE RC!Send(t)
    BY <1>2, <2>10 DEF RC!Send, RC!Places, ControlRequest
  <2>11. CASE RC!Append(t)
    BY <1>2, <2>11 DEF RC!Append, RC!Places, ControlRequest
  <2>12. CASE RC!Reply(t)
    BY <1>2, <2>12 DEF RC!Reply, RC!Places, ControlRequest
  <2>13. CASE RC!LastChange(t)
    BY <1>2, <2>13 DEF RC!LastChange, RC!Places, ControlRequest
  <2>14. CASE RC!StoreLast(t)
    BY <1>2, <2>14 DEF RC!StoreLast, RC!Places, ControlRequest
  <2>15. CASE RC!ReadLast(t)
    BY <1>2, <2>15 DEF RC!ReadLast, RC!Places, ControlRequest
  <2>16. CASE RC!Accept(t)
    BY <1>2, <2>16 DEF RC!Accept, RC!Places, ControlRequest
  <2> QED BY <1>n, <2>1, <2>2, <2>3, <2>4, <2>5, <2>6, <2>7, <2>8, <2>9, <2>10, <2>11,
      <2>12, <2>13, <2>14, <2>15, <2>16 DEF RC!Handle
<1>5. AVTypeOK'
  BY <1>1, <1>4 DEF AVTypeOK, ControlTypes
<1> QED BY <1>3, <1>4, <1>5

LEMMA TypesInit == ServicesInit => TypesInv
<1> SUFFICES ASSUME ServicesInit PROVE TypesInv
  OBVIOUS
<1> USE DEF ServicesInit, AVInit, Init
<1>1. mixer \in 0 .. 100
  BY VolumesAssumption, Clamped
<1>2. AVTypeOK
  BY MainAssumption DEF AVTypeOK, Places, AllHandlers, TransportStates, NoEvent, Event, Forms
<1>3. VolumeInv
  BY <1>1, Translated DEF VolumeInv, CallHolds, BeforeFirstStatus, AfterFirstStatus, NoStatus,
     MuteOps, TransportStates
<1>4. ControlTypes
  BY DEF ControlTypes, RC!ControlInit, ControlRequest, SaysOK, RC!Silence, RC!Says, RC!Places
<1> QED BY <1>2, <1>3, <1>4 DEF TypesInv

LEMMA RequestTypes ==
  ASSUME TypesInv, Domains, NEW t \in Threads, RequestTransport(t) \/ RequestControl(t)
  PROVE  TypesInv'
<1> USE DEF TypesInv
<1>1. CASE RequestTransport(t)
  <2>1. PICK h \in Handlers : \E p \in Params(h) : Request(t, h, p)
    BY <1>1 DEF RequestTransport
  <2>2. h \in AllHandlers /\ UNCHANGED controlOnly
    BY <1>1, HandlersAssumption DEF RequestTransport
  <2>3. AVTypeOK'
    BY <2>1, <2>2 DEF AVTypeOK, Request, Here, Move, FirstPlace, Places
  <2>4. VolumeInv' /\ op' = op /\ deviceMutex' = deviceMutex
    BY <2>1, AloneTypes DEF Request
  <2>5. ControlTypes'
    BY <2>2, <2>4 DEF ControlTypes, ControlRequest, controlOnly
  <2> QED BY <2>3, <2>4, <2>5
<1>2. CASE RequestControl(t)
  <2>1. PICK h \in ControlHandlers : \E p \in RC!Params(h) : RC!Request(t, h, p)
    BY <1>2 DEF RequestControl
  <2>p. PICK p \in RC!Params(h) : RC!Request(t, h, p)
    BY <2>1
  <2>2. h \in RC!AllHandlers /\ UNCHANGED transportOnly
    BY <1>2, ControlHandlersAssumption DEF RequestControl
  <2>3. VolumeInv' /\ op' = op /\ deviceMutex' = deviceMutex
    BY <2>p, AloneTypes, SameCalls DEF RC!Request
  <2>4. /\ h = "SetVolume" => p \in Int
        /\ h = "SetMute" => p \in {"0", "1", "other"}
    BY <2>p, VolumesAssumption, MutesAssumption DEF RC!Params
  <2>5. ControlTypes'
    BY <2>p, <2>2, <2>3, <2>4 DEF ControlTypes, ControlRequest, RC!Request, RC!Here, RC!Move,
       RC!FirstPlace, RC!Places
  <2>6. AVTypeOK'
    BY <2>2, <2>3 DEF AVTypeOK, transportOnly
  <2> QED BY <2>3, <2>5, <2>6
<1> QED BY <1>1, <1>2

LEMMA TypesStep == TypesInv /\ MutexInv /\ [ServicesNext]_servicesVars => TypesInv'
<1> SUFFICES ASSUME TypesInv, MutexInv, [ServicesNext]_servicesVars PROVE TypesInv'
  OBVIOUS
<1>0. Domains /\ MpdInv /\ OneRequest
  BY DEF MutexInv
<1>1. ASSUME NEW t \in Threads, Handle(t), UNCHANGED controlOnly PROVE TypesInv'
  BY <1>0, <1>1, TransportTypes
<1>2. ASSUME NEW t \in Threads, RC!Handle(t), UNCHANGED transportOnly PROVE TypesInv'
  BY <1>0, <1>2, ControlTypesKept
<1>3. ASSUME NEW t \in Threads, Inner(t), UNCHANGED <<handlerVars, controlOnly>>
      PROVE  TypesInv'
  <2>1. VolumeInv' /\ op' = op
    BY <1>0, <1>3, InnerTypes DEF TypesInv
  <2> QED BY <1>3, <2>1 DEF TypesInv, AVTypeOK, ControlTypes, ControlRequest, handlerVars,
      controlOnly
<1>4. ASSUME NEW t \in Threads, RequestTransport(t) \/ RequestControl(t) PROVE TypesInv'
  BY <1>0, <1>4, RequestTypes
<1>5. CASE Outside \/ UNCHANGED servicesVars
  <2>1. UNCHANGED <<handlerVars, controlOnly>> /\ UNCHANGED <<stateVars, volumeVars, callVars>>
    BY <1>5 DEF Outside, PlayerMoves, MixerMoves, Dead, vars, servicesVars, avVars
  <2>2. mixer' \in 0 .. 100
    BY <1>5, VolumesAssumption, Clamped DEF Outside, PlayerMoves, MixerMoves, Dead, vars, mpdVars,
       servicesVars, avVars, TypesInv, VolumeInv
  <2> QED BY <2>1, <2>2 DEF TypesInv, VolumeInv, CallHolds, AVTypeOK, ControlTypes, ControlRequest,
       handlerVars, controlOnly, stateVars, volumeVars, callVars
<1> QED BY <1>1, <1>2, <1>3, <1>4, <1>5 DEF ServicesNext, Serve

\* Every variable of the two services keeps its type: volumes in MPD's range,
\* states with a UPnP name, events that name a state or a volume and a mute.
THEOREM ServicesTyped == ServicesSpec => []ServicesTypeOK
<1>1. TypesInv => ServicesTypeOK
  BY DEF TypesInv, ServicesTypeOK, ControlTypes, VolumeInv, RC!RCTypeOK, SaysOK
<1>2. ServicesInit => TypesInv /\ MutexInv
  BY TypesInit, MutexInit
<1>3. TypesInv /\ MutexInv /\ [ServicesNext]_servicesVars => (TypesInv /\ MutexInv)'
  BY TypesStep, MutexStep
<1> QED BY <1>1, <1>2, <1>3, PTL DEF ServicesSpec
=============================================================================
