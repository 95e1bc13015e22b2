-------------------------- MODULE MpdOutputProofs --------------------------
(***************************************************************************)
(* Proofs about MpdOutput, for every set of threads, operations, faults,   *)
(* URIs and volumes: first the types, then the mutex and the connection,   *)
(* then what is published.                                                 *)
(***************************************************************************)
EXTENDS MpdOutput, TLAPS

\* The argument of a call fits the operation where the call uses it.
ArgOK ==
  /\ DOMAIN arg = Threads
  /\ \A t \in Threads :
       /\ op[t] = "output_set_uri" => arg[t] \in Uris
       /\ op[t] = "output_set_volume" => arg[t] \in Int
       /\ op[t] \in MuteOps /\ pc[t] \in {"lock", "volume"} => arg[t] \in Int
       /\ pc[t] \in {"uri_test", "clear", "add"} => op[t] = "output_set_uri"
       /\ pc[t] = "save" => op[t] \in MuteOps
       /\ pc[t] = "read" => op[t] = "output_get_volume"
       /\ pc[t] = "volume" => op[t] \in MuteOps \cup {"output_set_volume"}

TypeInv == TypeOK /\ ArgOK

\* Vocabulary that every step needs.
USE DEF At, Goto, linkVars, mpdVars, stateVars, uriVars, volumeVars, callVars

LEMMA TypeInit == Init => TypeInv
<1> SUFFICES ASSUME Init PROVE TypeInv
  OBVIOUS
<1>1. mixer \in Int
  BY VolumesAssumption DEF Init, Clamp
<1>2. transportState \in TransportStates /\ stateVar \in TransportStates \ {"UNSET"}
  BY DEF Init, BeforeFirstStatus, AfterFirstStatus, TransportStates, Translate
<1>3. avUri \in Uris \cup {NoUri} /\ trackUri \in Uris \cup {NoUri} /\ mpdvolume \in Int
  BY <1>1 DEF Init, BeforeFirstStatus, AfterFirstStatus
<1>4. SharedOK
  <2>1. conn \in {"null", "ok"} /\ crashed = FALSE /\ mpdMutex = None /\ mutevolume = 0
    BY DEF Init
  <2>2. player \in PlayerStates /\ queue \in Uris \cup {NoUri}
    BY DEF Init
  <2>3. conn \in {"null", "ok", "acked", "bad", "freed"} /\ crashed \in BOOLEAN
    BY <2>1
  <2>4. mpdMutex \in Threads \cup {None}
    BY <2>1
  <2>5. mutevolume \in Int
    BY <2>1
  <2>q. QED
    BY <1>1, <1>2, <1>3, <2>2, <2>3, <2>4, <2>5, Zenon DEF SharedOK
<1>5. PlaceOK
  BY DEF Init, PlaceOK, Labels, Continuations
<1>6. ValueOK
  BY DEF Init, ValueOK, NoStatus, PlayerStates
<1>7. ArgOK
  BY DEF Init, ArgOK, MuteOps
<1>q. QED
  BY <1>4, <1>5, <1>6, <1>7 DEF TypeInv, TypeOK

LEMMA TypeCall ==
  ASSUME TypeInv, NEW t \in Threads, NEW o \in AllOps, NEW a \in Args(o), Call(t, o, a)
  PROVE  TypeInv'
<1> USE DEF Call, TypeInv, TypeOK
<1>1. SharedOK'
  BY DEF SharedOK
<1>2. PlaceOK'
  BY DEF PlaceOK, Labels, Entry
<1>3. ValueOK'
  BY DEF ValueOK, EntryRc
<1>4. ArgOK'
  BY VolumesAssumption DEF ArgOK, PlaceOK, ValueOK, Args, Entry, MuteOps
<1>q. QED
  BY <1>1, <1>2, <1>3, <1>4

LEMMA TypeStep ==
  ASSUME TypeInv, NEW t \in Threads, Step(t)
  PROVE  TypeInv'
<1> USE DEF TypeInv, TypeOK
<1>1. CASE Return(t)
  <2> USE <1>1 DEF Return, NoStatus
  <2>1. SharedOK'
    BY DEF SharedOK, ArgOK, ValueOK, PlayerStates, TransportStates
  <2>2. PlaceOK'
    BY DEF PlaceOK, Labels, Continuations
  <2>3. ValueOK'
    BY DEF ValueOK, SharedOK, PlayerStates
  <2>4. ArgOK'
    BY DEF ArgOK, PlaceOK, ValueOK, MuteOps
  <2>q. QED
    BY <2>1, <2>2, <2>3, <2>4
<1>2. CASE Lock(t)
  <2> USE <1>2 DEF Lock, AfterLock
  <2>1. SharedOK'
    BY DEF SharedOK, ArgOK, ValueOK, PlayerStates, TransportStates
  <2>2. PlaceOK'
    BY DEF PlaceOK, Labels, Continuations
  <2>3. ValueOK'
    BY DEF ValueOK, SharedOK, PlayerStates
  <2>4. ArgOK'
    BY DEF ArgOK, PlaceOK, SharedOK, Continuations, MuteOps
  <2>q. QED
    BY <2>1, <2>2, <2>3, <2>4
<1>3. CASE Unlock(t)
  <2> USE <1>3 DEF Unlock
  <2>1. SharedOK'
    BY DEF SharedOK, ArgOK, ValueOK, PlayerStates, TransportStates
  <2>2. PlaceOK'
    BY DEF PlaceOK, Labels, Continuations
  <2>3. ValueOK'
    BY DEF ValueOK, SharedOK, PlayerStates
  <2>4. ArgOK'
    BY DEF ArgOK, PlaceOK, SharedOK, Continuations, MuteOps
  <2>q. QED
    BY <2>1, <2>2, <2>3, <2>4
<1>4. CASE Check(t)
  <2> USE <1>4 DEF Check, Fail
  <2>1. SharedOK'
    BY DEF SharedOK, ArgOK, ValueOK, PlayerStates, TransportStates
  <2>2. PlaceOK'
    BY DEF PlaceOK, Labels, Continuations
  <2>3. ValueOK'
    BY DEF ValueOK, SharedOK, PlayerStates
  <2>4. ArgOK'
    BY DEF ArgOK, PlaceOK, SharedOK, Continuations, MuteOps
  <2>q. QED
    BY <2>1, <2>2, <2>3, <2>4
<1>5. CASE CheckUnlock(t)
  <2> USE <1>5 DEF CheckUnlock
  <2>1. SharedOK'
    BY DEF SharedOK, ArgOK, ValueOK, PlayerStates, TransportStates
  <2>2. PlaceOK'
    BY DEF PlaceOK, Labels, Continuations
  <2>3. ValueOK'
    BY DEF ValueOK, SharedOK, PlayerStates
  <2>4. ArgOK'
    BY DEF ArgOK, PlaceOK, SharedOK, Continuations, MuteOps
  <2>q. QED
    BY <2>1, <2>2, <2>3, <2>4
<1>6. CASE FreeConn(t)
  <2> USE <1>6 DEF FreeConn
  <2>1. SharedOK'
    BY DEF SharedOK, ArgOK, ValueOK, PlayerStates, TransportStates
  <2>2. PlaceOK'
    BY DEF PlaceOK, Labels, Continuations
  <2>3. ValueOK'
    BY DEF ValueOK, SharedOK, PlayerStates
  <2>4. ArgOK'
    BY DEF ArgOK, PlaceOK, SharedOK, Continuations, MuteOps
  <2>q. QED
    BY <2>1, <2>2, <2>3, <2>4
<1>7. CASE ClearConn(t)
  <2> USE <1>7 DEF ClearConn
  <2>1. SharedOK'
    BY DEF SharedOK, ArgOK, ValueOK, PlayerStates, TransportStates
  <2>2. PlaceOK'
    BY DEF PlaceOK, Labels, Continuations
  <2>3. ValueOK'
    BY DEF ValueOK, SharedOK, PlayerStates
  <2>4. ArgOK'
    BY DEF ArgOK, PlaceOK, SharedOK, Continuations, MuteOps
  <2>q. QED
    BY <2>1, <2>2, <2>3, <2>4
<1>8. CASE Query(t)
  <2> USE <1>8 DEF Query, Outcomes, ConnAfter, Refused, Dropped, Crash, Fail, AfterUpdate, Reported
  <2>0. conn' \in {"null", "ok", "acked", "bad", "freed"} /\ crashed' \in BOOLEAN
    BY DEF SharedOK
  <2>1. SharedOK'
    BY <2>0 DEF SharedOK
  <2>2. PlaceOK'
    BY DEF PlaceOK, Labels, Continuations
  <2>3. ValueOK'
    BY DEF ValueOK, SharedOK, PlayerStates
  <2>4. ArgOK'
    BY DEF ArgOK, PlaceOK, SharedOK, Continuations, MuteOps
  <2>q. QED
    BY <2>1, <2>2, <2>3, <2>4
<1>9. CASE Song(t)
  <2> USE <1>9 DEF Song, Outcomes, ConnAfter, Crash
  <2>0. conn' \in {"null", "ok", "acked", "bad", "freed"} /\ crashed' \in BOOLEAN
    BY DEF SharedOK
  <2>1. SharedOK'
    BY <2>0 DEF SharedOK
  <2>2. PlaceOK'
    BY DEF PlaceOK, Labels, Continuations
  <2>3. ValueOK'
    BY DEF ValueOK, SharedOK, PlayerStates
  <2>4. ArgOK'
    BY DEF ArgOK, PlaceOK, SharedOK, Continuations, MuteOps
  <2>q. QED
    BY <2>1, <2>2, <2>3, <2>4
<1>10. CASE AdoptUri(t)
  <2> USE <1>10 DEF AdoptUri
  <2>1. SharedOK'
    BY DEF SharedOK, ArgOK, ValueOK, PlayerStates, TransportStates
  <2>2. PlaceOK'
    BY DEF PlaceOK, Labels, Continuations
  <2>3. ValueOK'
    BY DEF ValueOK, SharedOK, PlayerStates
  <2>4. ArgOK'
    BY DEF ArgOK, PlaceOK, SharedOK, Continuations, MuteOps
  <2>q. QED
    BY <2>1, <2>2, <2>3, <2>4
<1>11. CASE Finish(t)
  <2> USE <1>11 DEF Finish, Outcomes, ConnAfter, Refused, Dropped, Crash, Fail
  <2>0. /\ conn' \in {"null", "ok", "acked", "bad", "freed"}
        /\ crashed' \in BOOLEAN
    BY DEF SharedOK
  <2>1. SharedOK'
    BY <2>0 DEF SharedOK, PlayerStates, TransportStates
  <2>2. PlaceOK'
    BY DEF PlaceOK, Labels, Continuations
  <2>3. ValueOK'
    BY DEF ValueOK, SharedOK, PlayerStates
  <2>4. ArgOK'
    BY DEF ArgOK, PlaceOK, SharedOK, Continuations, MuteOps
  <2>q. QED
    BY <2>1, <2>2, <2>3, <2>4
<1>12. CASE SetState(t)
  <2> USE <1>12 DEF SetState, AfterUpdate, Translate
  <2>1. SharedOK'
    BY DEF SharedOK, ArgOK, ValueOK, PlayerStates, TransportStates
  <2>2. PlaceOK'
    BY DEF PlaceOK, Labels, Continuations
  <2>3. ValueOK'
    BY DEF ValueOK, SharedOK, PlayerStates
  <2>4. ArgOK'
    BY DEF ArgOK, PlaceOK, SharedOK, Continuations, MuteOps
  <2>q. QED
    BY <2>1, <2>2, <2>3, <2>4
<1>13. CASE SetVar(t)
  <2> USE <1>13 DEF SetVar, AfterUpdate, Translate
  <2>1. SharedOK'
    BY DEF SharedOK, ArgOK, ValueOK, PlayerStates, TransportStates
  <2>2. PlaceOK'
    BY DEF PlaceOK, Labels, Continuations
  <2>3. ValueOK'
    BY DEF ValueOK, SharedOK, PlayerStates
  <2>4. ArgOK'
    BY DEF ArgOK, PlaceOK, SharedOK, Continuations, MuteOps
  <2>q. QED
    BY <2>1, <2>2, <2>3, <2>4
<1>14. CASE Command(t)
  <2> USE <1>14 DEF Command, Outcomes, ConnAfter, Refused, Dropped, Crash, Fail, Effect
  <2>1. SharedOK'
    BY DEF SharedOK, PlayerStates
  <2>2. PlaceOK'
    BY DEF PlaceOK, Labels, Continuations
  <2>3. ValueOK'
    BY DEF ValueOK, SharedOK, PlayerStates
  <2>4. ArgOK'
    BY DEF ArgOK, PlaceOK, SharedOK, Continuations, MuteOps
  <2>q. QED
    BY <2>1, <2>2, <2>3, <2>4
<1>15. CASE SeekStatus(t)
  <2> USE <1>15 DEF SeekStatus, Outcomes, ConnAfter, Refused, Dropped, Crash, Fail, Reported
  <2>1. SharedOK'
    BY DEF SharedOK
  <2>2. PlaceOK'
    BY DEF PlaceOK, Labels, Continuations
  <2>3. ValueOK'
    BY DEF ValueOK, SharedOK, PlayerStates
  <2>4. ArgOK'
    BY DEF ArgOK, PlaceOK, SharedOK, Continuations, MuteOps
  <2>q. QED
    BY <2>1, <2>2, <2>3, <2>4
<1>16. CASE SendPlayMode(t)
  <2> USE <1>16 DEF SendPlayMode, Outcomes, ConnAfter, Refused, Dropped, Crash, Fail
  <2>1. SharedOK'
    BY DEF SharedOK
  <2>2. PlaceOK'
    BY DEF PlaceOK, Labels, Continuations
  <2>3. ValueOK'
    BY DEF ValueOK, SharedOK, PlayerStates
  <2>4. ArgOK'
    BY DEF ArgOK, PlaceOK, SharedOK, Continuations, MuteOps
  <2>q. QED
    BY <2>1, <2>2, <2>3, <2>4
<1>17. CASE FinishPlayMode(t)
  <2> USE <1>17 DEF FinishPlayMode, Outcomes, ConnAfter, Refused, Dropped, Crash, Fail
  <2>0. conn' \in {"null", "ok", "acked", "bad", "freed"} /\ crashed' \in BOOLEAN
    BY DEF SharedOK
  <2>1. SharedOK'
    BY <2>0 DEF SharedOK
  <2>2. PlaceOK'
    BY DEF PlaceOK, Labels, Continuations
  <2>3. ValueOK'
    BY DEF ValueOK, SharedOK, PlayerStates
  <2>4. ArgOK'
    BY DEF ArgOK, PlaceOK, SharedOK, Continuations, MuteOps
  <2>q. QED
    BY <2>1, <2>2, <2>3, <2>4
<1>18. CASE TestUri(t)
  <2> USE <1>18 DEF TestUri
  <2>1. SharedOK'
    BY DEF SharedOK, ArgOK, ValueOK, PlayerStates, TransportStates
  <2>2. PlaceOK'
    BY DEF PlaceOK, Labels, Continuations
  <2>3. ValueOK'
    BY DEF ValueOK, SharedOK, PlayerStates
  <2>4. ArgOK'
    BY DEF ArgOK, PlaceOK, SharedOK, Continuations, MuteOps
  <2>q. QED
    BY <2>1, <2>2, <2>3, <2>4
<1>19. CASE ClearQueue(t)
  <2>c. conn' \in {"null", "ok", "acked", "bad", "freed"} /\ crashed' \in BOOLEAN
    BY <1>19 DEF ClearQueue, Outcomes, ConnAfter, Crash, SharedOK
  <2>m. queue' \in Uris \cup {NoUri} /\ player' \in PlayerStates
    BY <1>19 DEF ClearQueue, Crash, SharedOK, PlayerStates
  <2>u. UNCHANGED <<mpdMutex, mixer, stateVars, uriVars, volumeVars>>
    BY <1>19 DEF ClearQueue
  <2>1. SharedOK'
    BY <2>c, <2>m, <2>u DEF SharedOK
  <2> USE <1>19 DEF ClearQueue, Outcomes, ConnAfter, Refused, Dropped, Crash, Fail
  <2>2. PlaceOK'
    BY DEF PlaceOK, Labels, Continuations
  <2>3. ValueOK'
    BY DEF ValueOK, SharedOK, PlayerStates
  <2>4. ArgOK'
    BY DEF ArgOK, PlaceOK, SharedOK, Continuations, MuteOps
  <2>q. QED
    BY <2>1, <2>2, <2>3, <2>4
<1>20. CASE AddUri(t)
  <2>c. conn' \in {"null", "ok", "acked", "bad", "freed"} /\ crashed' \in BOOLEAN
    BY <1>20 DEF AddUri, Outcomes, ConnAfter, Crash, SharedOK
  <2>m. queue' \in Uris \cup {NoUri}
    BY <1>20 DEF AddUri, Crash, ArgOK, SharedOK
  <2>u. UNCHANGED <<mpdMutex, player, mixer, stateVars, uriVars, volumeVars>>
    BY <1>20 DEF AddUri
  <2>1. SharedOK'
    BY <2>c, <2>m, <2>u DEF SharedOK
  <2> USE <1>20 DEF AddUri, Outcomes, ConnAfter, Refused, Dropped, Crash, Fail
  <2>2. PlaceOK'
    BY DEF PlaceOK, Labels, Continuations
  <2>3. ValueOK'
    BY DEF ValueOK, SharedOK, PlayerStates
  <2>4. ArgOK'
    BY DEF ArgOK, PlaceOK, SharedOK, Continuations, MuteOps
  <2>q. QED
    BY <2>1, <2>2, <2>3, <2>4
<1>21. CASE SaveVolume(t)
  <2> USE <1>21 DEF SaveVolume
  <2>1. SharedOK'
    BY DEF SharedOK, ArgOK, ValueOK, PlayerStates, TransportStates
  <2>2. PlaceOK'
    BY DEF PlaceOK, Labels, Continuations
  <2>3. ValueOK'
    BY DEF ValueOK, SharedOK, PlayerStates
  <2>4. ArgOK'
    BY DEF ArgOK, PlaceOK, SharedOK, Continuations, MuteOps
  <2>q. QED
    BY <2>1, <2>2, <2>3, <2>4
<1>22. CASE SetMixer(t)
  <2>0. Clamp(arg[t]) \in Int
    BY <1>22 DEF SetMixer, ArgOK, Clamp
  <2> USE <1>22 DEF SetMixer, Outcomes, ConnAfter, Refused, Dropped, Crash, Fail
  <2>1. SharedOK'
    BY <2>0 DEF SharedOK
  <2>2. PlaceOK'
    BY DEF PlaceOK, Labels, Continuations
  <2>3. ValueOK'
    BY DEF ValueOK, SharedOK, PlayerStates
  <2>4. ArgOK'
    BY DEF ArgOK, PlaceOK, SharedOK, Continuations, MuteOps
  <2>q. QED
    BY <2>1, <2>2, <2>3, <2>4
<1>23. CASE ReadVolume(t)
  <2> USE <1>23 DEF ReadVolume
  <2>1. SharedOK'
    BY DEF SharedOK, ArgOK, ValueOK, PlayerStates, TransportStates
  <2>2. PlaceOK'
    BY DEF PlaceOK, Labels, Continuations
  <2>3. ValueOK'
    BY DEF ValueOK, SharedOK, PlayerStates
  <2>4. ArgOK'
    BY DEF ArgOK, PlaceOK, SharedOK, Continuations, MuteOps
  <2>q. QED
    BY <2>1, <2>2, <2>3, <2>4
<1>24. CASE Position(t)
  <2> USE <1>24 DEF Position, Outcomes, ConnAfter, Refused, Dropped, Crash, Fail, Reported
  <2>1. SharedOK'
    BY DEF SharedOK
  <2>2. PlaceOK'
    BY DEF PlaceOK, Labels, Continuations
  <2>3. ValueOK'
    BY DEF ValueOK, SharedOK, PlayerStates
  <2>4. ArgOK'
    BY DEF ArgOK, PlaceOK, SharedOK, Continuations, MuteOps
  <2>q. QED
    BY <2>1, <2>2, <2>3, <2>4
<1>25. CASE EarlyUnlock(t)
  <2> USE <1>25 DEF EarlyUnlock
  <2>1. SharedOK'
    BY DEF SharedOK, ArgOK, ValueOK, PlayerStates, TransportStates
  <2>2. PlaceOK'
    BY DEF PlaceOK, Labels, Continuations
  <2>3. ValueOK'
    BY DEF ValueOK, SharedOK, PlayerStates
  <2>4. ArgOK'
    BY DEF ArgOK, PlaceOK, SharedOK, Continuations, MuteOps
  <2>q. QED
    BY <2>1, <2>2, <2>3, <2>4
<1>26. CASE Peek(t)
  <2>c. conn' = conn /\ crashed' \in BOOLEAN
    BY <1>26 DEF Peek, SharedOK
  <2>u. UNCHANGED <<mpdMutex, mpdVars, stateVars, uriVars, volumeVars>>
    BY <1>26 DEF Peek
  <2>1. SharedOK'
    BY <2>c, <2>u DEF SharedOK
  <2> USE <1>26 DEF Peek
  <2>2. PlaceOK'
    BY DEF PlaceOK, Labels, Continuations
  <2>3. ValueOK'
    BY DEF ValueOK, SharedOK, PlayerStates
  <2>4. ArgOK'
    BY DEF ArgOK, PlaceOK, SharedOK, Continuations, MuteOps
  <2>q. QED
    BY <2>1, <2>2, <2>3, <2>4
<1>q. QED
  BY <1>1, <1>2, <1>3, <1>4, <1>5, <1>6, <1>7, <1>8, <1>9, <1>10, <1>11, <1>12, <1>13, <1>14, <1>15, <1>16, <1>17, <1>18, <1>19, <1>20, <1>21, <1>22, <1>23, <1>24, <1>25, <1>26 DEF Step, Inner, Exclusive, Mixing, Polling

LEMMA TypeNext == TypeInv /\ [Next]_vars => TypeInv'
<1> SUFFICES ASSUME TypeInv, [Next]_vars PROVE TypeInv'
  OBVIOUS
<1>1. CASE UNCHANGED vars
  BY <1>1 DEF vars, TypeInv, TypeOK, SharedOK, PlaceOK, ValueOK, ArgOK
<1>2. ASSUME NEW t \in Threads, Step(t) PROVE TypeInv'
  BY <1>2, TypeStep
<1>3. ASSUME NEW t \in Threads, NEW o \in Ops, NEW a \in Args(o), Call(t, o, a)
      PROVE  TypeInv'
  BY <1>3, TypeCall, OpsAssumption
<1>4. CASE PlayerMoves
  BY <1>4 DEF PlayerMoves, TypeInv, TypeOK, SharedOK, PlaceOK, ValueOK, ArgOK
<1>5. CASE MixerMoves
  BY <1>5, VolumesAssumption
     DEF MixerMoves, Clamp, TypeInv, TypeOK, SharedOK, PlaceOK, ValueOK, ArgOK
<1>q. QED
  BY <1>1, <1>2, <1>3, <1>4, <1>5 DEF Next, Dead

\* Every variable keeps its type, and every call its place and argument
\* (all of output_mpd.c).
THEOREM TypeCorrect == Spec => []TypeOK
<1>1. TypeInv => TypeOK
  BY DEF TypeInv
<1>q. QED
  BY TypeInit, TypeNext, <1>1, PTL DEF Spec
-----------------------------------------------------------------------------
(***************************************************************************)
(* The mutex of output_mpd.c protects the connection as long as nobody     *)
(* calls output_update_position, whose error path unlocks twice.           *)
(***************************************************************************)

\* GetPositionInfo, the only caller of output_update_position, is not served.
NoPosition == "output_update_position" \notin Ops

\* Calls are never in output_update_position, and a call that drops the
\* connection knows a place to go on inside its critical section.
Placed ==
  \A t \in Threads :
    /\ op[t] # "output_update_position"
    /\ pc[t] \notin {"position", "early_unlock", "peek"}
    /\ pc[t] \in {"free", "null"} => cont[t] \in {"unlock", "check_unlock", "state"}

\* What output_printError finds: a broken connection to free, then a freed
\* one that only its own thread has yet to clear.
Freeing ==
  /\ \A t \in Threads : pc[t] = "free" => conn \in {"acked", "bad"}
  /\ \A t \in Threads : pc[t] = "null" => conn = "freed"
  /\ conn = "freed" => \E t \in Threads : pc[t] = "null"

SafeInv == PlaceOK /\ ValueOK /\ Placed /\ MutexHeld /\ Freeing

LEMMA SafeInit == Init => Placed /\ MutexHeld /\ Freeing
  BY DEF Init, Placed, MutexHeld, Guarded, Freeing

LEMMA SafeCall ==
  ASSUME SafeInv, NEW t \in Threads, NEW o \in AllOps \ {"output_update_position"}, NEW a,
         Call(t, o, a)
  PROVE  Placed' /\ MutexHeld' /\ Freeing'
<1> USE DEF Call, Entry, SafeInv, PlaceOK, ValueOK
<1>1. Placed'
  BY DEF Placed
<1>2. MutexHeld'
  BY DEF MutexHeld, Guarded
<1>3. Freeing'
  BY DEF Freeing
<1>q. QED
  BY <1>1, <1>2, <1>3

LEMMA SafeStep ==
  ASSUME SafeInv, NEW t \in Threads, Step(t)
  PROVE  Placed' /\ MutexHeld' /\ Freeing'
<1> USE NoneAssumption DEF SafeInv, PlaceOK, ValueOK
<1>1. CASE Return(t)
  <2> USE <1>1 DEF Return
  <2>1. Placed'
    BY DEF Placed
  <2>2. MutexHeld'
    BY DEF Placed, MutexHeld, Guarded
  <2>3. Freeing'
    BY DEF Placed, MutexHeld, Guarded, Freeing
  <2>q. QED
    BY <2>1, <2>2, <2>3
<1>2. CASE Lock(t)
  <2> USE <1>2 DEF Lock, AfterLock, MuteOps
  <2>1. Placed'
    BY DEF Placed
  <2>2. MutexHeld'
    BY DEF Placed, MutexHeld, Guarded
  <2>3. Freeing'
    BY DEF Placed, MutexHeld, Guarded, Freeing
  <2>q. QED
    BY <2>1, <2>2, <2>3
<1>3. CASE Unlock(t)
  <2> USE <1>3 DEF Unlock
  <2>1. Placed'
    BY DEF Placed
  <2>2. MutexHeld'
    BY DEF Placed, MutexHeld, Guarded
  <2>3. Freeing'
    BY DEF Placed, MutexHeld, Guarded, Freeing
  <2>q. QED
    BY <2>1, <2>2, <2>3
<1>4. CASE Check(t)
  <2> USE <1>4 DEF Check, Fail
  <2>1. Placed'
    BY DEF Placed
  <2>2. MutexHeld'
    BY DEF Placed, MutexHeld, Guarded
  <2>3. Freeing'
    BY DEF Placed, MutexHeld, Guarded, Freeing
  <2>q. QED
    BY <2>1, <2>2, <2>3
<1>5. CASE CheckUnlock(t)
  <2> USE <1>5 DEF CheckUnlock
  <2>1. Placed'
    BY DEF Placed
  <2>2. MutexHeld'
    BY DEF Placed, MutexHeld, Guarded
  <2>3. Freeing'
    BY DEF Placed, MutexHeld, Guarded, Freeing
  <2>q. QED
    BY <2>1, <2>2, <2>3
<1>6. CASE FreeConn(t)
  <2> USE <1>6 DEF FreeConn
  <2>1. Placed'
    BY DEF Placed
  <2>2. MutexHeld'
    BY DEF Placed, MutexHeld, Guarded
  <2>3. Freeing'
    BY DEF Placed, MutexHeld, Guarded, Freeing
  <2>q. QED
    BY <2>1, <2>2, <2>3
<1>7. CASE ClearConn(t)
  <2> USE <1>7 DEF ClearConn
  <2>1. Placed'
    BY DEF Placed
  <2>2. MutexHeld'
    BY DEF Placed, MutexHeld, Guarded
  <2>3. Freeing'
    BY DEF Placed, MutexHeld, Guarded, Freeing
  <2>q. QED
    BY <2>1, <2>2, <2>3
<1>8. CASE Query(t)
  <2> USE <1>8 DEF Query, Outcomes, ConnAfter, Refused, Dropped, Crash, Fail, AfterUpdate
  <2>1. Placed'
    BY DEF Placed
  <2>2. MutexHeld'
    BY DEF Placed, MutexHeld, Guarded
  <2>3. Freeing'
    BY DEF Placed, MutexHeld, Guarded, Freeing
  <2>q. QED
    BY <2>1, <2>2, <2>3
<1>9. CASE Song(t)
  <2> USE <1>9 DEF Song, Outcomes, ConnAfter, Crash
  <2>1. Placed'
    BY DEF Placed
  <2>2. MutexHeld'
    BY DEF Placed, MutexHeld, Guarded
  <2>3. Freeing'
    BY DEF Placed, MutexHeld, Guarded, Freeing
  <2>q. QED
    BY <2>1, <2>2, <2>3
<1>10. CASE AdoptUri(t)
  <2> USE <1>10 DEF AdoptUri
  <2>1. Placed'
    BY DEF Placed
  <2>2. MutexHeld'
    BY DEF Placed, MutexHeld, Guarded
  <2>3. Freeing'
    BY DEF Placed, MutexHeld, Guarded, Freeing
  <2>q. QED
    BY <2>1, <2>2, <2>3
<1>11. CASE Finish(t)
  <2> USE <1>11 DEF Finish, Outcomes, ConnAfter, Refused, Dropped, Crash, Fail
  <2>1. Placed'
    BY DEF Placed
  <2>2. MutexHeld'
    BY DEF Placed, MutexHeld, Guarded
  <2>3. Freeing'
    BY DEF Placed, MutexHeld, Guarded, Freeing
  <2>q. QED
    BY <2>1, <2>2, <2>3
<1>12. CASE SetState(t)
  <2> USE <1>12 DEF SetState, AfterUpdate
  <2>1. Placed'
    BY DEF Placed
  <2>2. MutexHeld'
    BY DEF Placed, MutexHeld, Guarded
  <2>3. Freeing'
    BY DEF Placed, MutexHeld, Guarded, Freeing
  <2>q. QED
    BY <2>1, <2>2, <2>3
<1>13. CASE SetVar(t)
  <2> USE <1>13 DEF SetVar, AfterUpdate
  <2>1. Placed'
    BY DEF Placed
  <2>2. MutexHeld'
    BY DEF Placed, MutexHeld, Guarded
  <2>3. Freeing'
    BY DEF Placed, MutexHeld, Guarded, Freeing
  <2>q. QED
    BY <2>1, <2>2, <2>3
<1>14. CASE Command(t)
  <2> USE <1>14 DEF Command, Outcomes, ConnAfter, Refused, Dropped, Crash, Fail
  <2>1. Placed'
    BY DEF Placed
  <2>2. MutexHeld'
    BY DEF Placed, MutexHeld, Guarded
  <2>3. Freeing'
    BY DEF Placed, MutexHeld, Guarded, Freeing
  <2>q. QED
    BY <2>1, <2>2, <2>3
<1>15. CASE SeekStatus(t)
  <2> USE <1>15 DEF SeekStatus, Outcomes, ConnAfter, Refused, Dropped, Crash, Fail
  <2>1. Placed'
    BY DEF Placed
  <2>2. MutexHeld'
    BY DEF Placed, MutexHeld, Guarded
  <2>3. Freeing'
    BY DEF Placed, MutexHeld, Guarded, Freeing
  <2>q. QED
    BY <2>1, <2>2, <2>3
<1>16. CASE SendPlayMode(t)
  <2> USE <1>16 DEF SendPlayMode, Outcomes, ConnAfter, Refused, Dropped, Crash, Fail
  <2>1. Placed'
    BY DEF Placed
  <2>2. MutexHeld'
    BY DEF Placed, MutexHeld, Guarded
  <2>3. Freeing'
    BY DEF Placed, MutexHeld, Guarded, Freeing
  <2>q. QED
    BY <2>1, <2>2, <2>3
<1>17. CASE FinishPlayMode(t)
  <2> USE <1>17 DEF FinishPlayMode, Outcomes, ConnAfter, Refused, Dropped, Crash, Fail
  <2>1. Placed'
    BY DEF Placed
  <2>2. MutexHeld'
    BY DEF Placed, MutexHeld, Guarded
  <2>3. Freeing'
    BY DEF Placed, MutexHeld, Guarded, Freeing
  <2>q. QED
    BY <2>1, <2>2, <2>3
<1>18. CASE TestUri(t)
  <2> USE <1>18 DEF TestUri
  <2>1. Placed'
    BY DEF Placed
  <2>2. MutexHeld'
    BY DEF Placed, MutexHeld, Guarded
  <2>3. Freeing'
    BY DEF Placed, MutexHeld, Guarded, Freeing
  <2>q. QED
    BY <2>1, <2>2, <2>3
<1>19. CASE ClearQueue(t)
  <2> USE <1>19 DEF ClearQueue, Outcomes, ConnAfter, Refused, Dropped, Crash, Fail
  <2>1. Placed'
    BY DEF Placed
  <2>2. MutexHeld'
    BY DEF Placed, MutexHeld, Guarded
  <2>3. Freeing'
    BY DEF Placed, MutexHeld, Guarded, Freeing
  <2>q. QED
    BY <2>1, <2>2, <2>3
<1>20. CASE AddUri(t)
  <2> USE <1>20 DEF AddUri, Outcomes, ConnAfter, Refused, Dropped, Crash, Fail
  <2>1. Placed'
    BY DEF Placed
  <2>2. MutexHeld'
    BY DEF Placed, MutexHeld, Guarded
  <2>3. Freeing'
    BY DEF Placed, MutexHeld, Guarded, Freeing
  <2>q. QED
    BY <2>1, <2>2, <2>3
<1>21. CASE SaveVolume(t)
  <2> USE <1>21 DEF SaveVolume
  <2>1. Placed'
    BY DEF Placed
  <2>2. MutexHeld'
    BY DEF Placed, MutexHeld, Guarded
  <2>3. Freeing'
    BY DEF Placed, MutexHeld, Guarded, Freeing
  <2>q. QED
    BY <2>1, <2>2, <2>3
<1>22. CASE SetMixer(t)
  <2> USE <1>22 DEF SetMixer, Outcomes, ConnAfter, Refused, Dropped, Crash, Fail
  <2>1. Placed'
    BY DEF Placed
  <2>2. MutexHeld'
    BY DEF Placed, MutexHeld, Guarded
  <2>3. Freeing'
    BY DEF Placed, MutexHeld, Guarded, Freeing
  <2>q. QED
    BY <2>1, <2>2, <2>3
<1>23. CASE ReadVolume(t)
  <2> USE <1>23 DEF ReadVolume
  <2>1. Placed'
    BY DEF Placed
  <2>2. MutexHeld'
    BY DEF Placed, MutexHeld, Guarded
  <2>3. Freeing'
    BY DEF Placed, MutexHeld, Guarded, Freeing
  <2>q. QED
    BY <2>1, <2>2, <2>3
<1>p. ~Position(t) /\ ~EarlyUnlock(t) /\ ~Peek(t)
  BY DEF Placed, Position, EarlyUnlock, Peek
<1>q. QED
  BY <1>1, <1>2, <1>3, <1>4, <1>5, <1>6, <1>7, <1>8, <1>9, <1>10, <1>11, <1>12, <1>13, <1>14, <1>15, <1>16, <1>17, <1>18, <1>19, <1>20, <1>21, <1>22, <1>23, <1>p DEF Step, Inner, Exclusive, Mixing, Polling

LEMMA SafeNext == NoPosition /\ TypeInv /\ TypeInv' /\ SafeInv /\ [Next]_vars => SafeInv'
<1> SUFFICES ASSUME NoPosition, TypeInv, TypeInv', SafeInv, [Next]_vars
             PROVE  Placed' /\ MutexHeld' /\ Freeing'
  BY DEF SafeInv, TypeInv, TypeOK
<1>1. ASSUME NEW t \in Threads, Step(t) PROVE Placed' /\ MutexHeld' /\ Freeing'
  BY <1>1, SafeStep
<1>2. ASSUME NEW t \in Threads, NEW o \in Ops, NEW a \in Args(o), Call(t, o, a)
      PROVE  Placed' /\ MutexHeld' /\ Freeing'
  BY <1>2, SafeCall, OpsAssumption DEF NoPosition
<1>3. CASE PlayerMoves
  BY <1>3 DEF PlayerMoves, SafeInv, Placed, MutexHeld, Freeing
<1>4. CASE MixerMoves
  BY <1>4 DEF MixerMoves, SafeInv, Placed, MutexHeld, Freeing
<1>5. CASE UNCHANGED vars
  BY <1>5 DEF vars, SafeInv, Placed, MutexHeld, Freeing
<1>q. QED
  BY <1>1, <1>2, <1>3, <1>4, <1>5 DEF Next, Dead

LEMMA SafeUse == SafeInv => NoUseAfterFree
<1> SUFFICES ASSUME SafeInv, conn = "freed", NEW t \in Threads, pc[t] \in UsesConn
             PROVE  FALSE
  BY DEF NoUseAfterFree
<1>1. PICK u \in Threads : pc[u] = "null"
  BY DEF SafeInv, Freeing
<1>2. pc[u] \in Guarded /\ pc[t] # pc[u]
  BY <1>1 DEF UsesConn, Guarded
<1>3. pc[t] \notin {"peek", "free"} => pc[t] \in Guarded
  BY DEF UsesConn, Guarded
<1>q. QED
  BY <1>1, <1>2, <1>3 DEF SafeInv, MutexHeld, Freeing, Placed

LEMMA SafeAlways == NoPosition => (Spec => [](TypeInv /\ SafeInv))
<1> SUFFICES ASSUME NoPosition PROVE Spec => [](TypeInv /\ SafeInv)
  OBVIOUS
<1>1. Init => TypeInv /\ SafeInv
  BY TypeInit, SafeInit DEF SafeInv, TypeInv, TypeOK
<1>2. TypeInv /\ SafeInv /\ [Next]_vars => TypeInv' /\ SafeInv'
  BY TypeNext, SafeNext
<1>q. QED
  BY <1>1, <1>2, PTL DEF Spec

\* Whoever works on the connection or on a status owns mpd_mutex: every way
\* through the output_* functions but output_update_position's.
THEOREM MutexCorrect == NoPosition => (Spec => []MutexHeld)
<1> SUFFICES ASSUME NoPosition PROVE Spec => []MutexHeld
  OBVIOUS
<1>1. SafeInv => MutexHeld
  BY DEF SafeInv
<1>q. QED
  BY <1>1, SafeAlways, PTL

\* No connection is used or freed after output_printError has freed it.
THEOREM ConnectionSafe == NoPosition => (Spec => []NoUseAfterFree)
<1> SUFFICES ASSUME NoPosition PROVE Spec => []NoUseAfterFree
  OBVIOUS
<1>q. QED
  BY SafeUse, SafeAlways, PTL
-----------------------------------------------------------------------------
(***************************************************************************)
(* What output_mpd.c promises for callers that leave                       *)
(* output_update_position alone: transport_state and the TransportState    *)
(* variable agree whenever nobody holds mpd_mutex, a command that succeeds *)
(* has published what MPD reported, and the connection is a MpdLink.       *)
(***************************************************************************)

\* Between the two assignments of transport_set_state the variable is behind
\* by the status the call holds; at any other time the two agree.
Publishing ==
  /\ \A t \in Threads : pc[t] = "var" => transportState = Translate(snap[t].state)
  /\ (\A t \in Threads : pc[t] # "var") /\ transportState # "UNSET"
       => stateVar = transportState

LEMMA PublishStep ==
  ASSUME SafeInv, Publishing, NEW t \in Threads, Step(t)
  PROVE  Publishing'
<1> USE DEF SafeInv, PlaceOK, ValueOK
<1>1. CASE Return(t)
  BY <1>1 DEF Return, Publishing
<1>2. CASE Lock(t)
  BY <1>2 DEF Lock, AfterLock, MuteOps, Publishing
<1>3. CASE Unlock(t)
  BY <1>3 DEF Unlock, Publishing
<1>4. CASE Check(t)
  BY <1>4 DEF Check, Fail, Publishing
<1>5. CASE CheckUnlock(t)
  BY <1>5 DEF CheckUnlock, Publishing
<1>6. CASE FreeConn(t)
  BY <1>6 DEF FreeConn, Placed, Publishing
<1>7. CASE ClearConn(t)
  <2>1. cont[t] # "var"
    BY DEF Continuations
  <2>q. QED
    BY <1>7, <2>1 DEF ClearConn, Publishing
<1>8. CASE Query(t)
  BY <1>8 DEF Query, AfterUpdate, Dropped, Crash, Publishing
<1>9. CASE Song(t)
  BY <1>9 DEF Song, Crash, Publishing
<1>10. CASE AdoptUri(t)
  BY <1>10 DEF AdoptUri, Publishing
<1>11. CASE Finish(t)
  BY <1>11 DEF Finish, Refused, Dropped, Crash, Publishing
<1>12. CASE SetState(t)
  <2>1. \A u \in Threads \ {t} : pc[u] # "var" /\ pc'[u] = pc[u]
    BY <1>12 DEF SetState, AfterUpdate, MutexHeld, Guarded
  <2>2. \A u \in Threads : snap'[u] = snap[u]
    BY <1>12 DEF SetState
  <2>q. QED
    BY <1>12, <2>1, <2>2 DEF SetState, AfterUpdate, Publishing
<1>13. CASE SetVar(t)
  <2>1. \A u \in Threads \ {t} : pc[u] # "var" /\ pc'[u] = pc[u]
    BY <1>13 DEF SetVar, AfterUpdate, MutexHeld, Guarded
  <2>2. \A u \in Threads : snap'[u] = snap[u]
    BY <1>13 DEF SetVar
  <2>q. QED
    BY <1>13, <2>1, <2>2 DEF SetVar, AfterUpdate, Publishing
<1>14. CASE Command(t)
  BY <1>14 DEF Command, Refused, Dropped, Crash, Publishing
<1>15. CASE SeekStatus(t)
  BY <1>15 DEF SeekStatus, Refused, Dropped, Crash, Publishing
<1>16. CASE SendPlayMode(t)
  BY <1>16 DEF SendPlayMode, Refused, Dropped, Crash, Publishing
<1>17. CASE FinishPlayMode(t)
  BY <1>17 DEF FinishPlayMode, Refused, Dropped, Crash, Publishing
<1>18. CASE TestUri(t)
  BY <1>18 DEF TestUri, Publishing
<1>19. CASE ClearQueue(t)
  BY <1>19 DEF ClearQueue, Refused, Dropped, Crash, Publishing
<1>20. CASE AddUri(t)
  BY <1>20 DEF AddUri, Refused, Dropped, Crash, Publishing
<1>21. CASE SaveVolume(t)
  BY <1>21 DEF SaveVolume, Publishing
<1>22. CASE SetMixer(t)
  BY <1>22 DEF SetMixer, Refused, Dropped, Crash, Publishing
<1>23. CASE ReadVolume(t)
  BY <1>23 DEF ReadVolume, Publishing
<1>p. ~Position(t) /\ ~EarlyUnlock(t) /\ ~Peek(t)
  BY DEF Placed, Position, EarlyUnlock, Peek
<1>q. QED
  BY <1>1, <1>2, <1>3, <1>4, <1>5, <1>6, <1>7, <1>8, <1>9, <1>10, <1>11, <1>12, <1>13, <1>14, <1>15, <1>16, <1>17, <1>18, <1>19, <1>20, <1>21, <1>22, <1>23, <1>p DEF Step, Inner, Exclusive, Mixing, Polling

LEMMA PublishNext == SafeInv /\ Publishing /\ [Next]_vars => Publishing'
<1> SUFFICES ASSUME SafeInv, Publishing, [Next]_vars PROVE Publishing'
  OBVIOUS
<1>1. ASSUME NEW t \in Threads, Step(t) PROVE Publishing'
  BY <1>1, PublishStep
<1>2. ASSUME NEW t \in Threads, NEW o \in Ops, NEW a \in Args(o), Call(t, o, a)
      PROVE  Publishing'
  BY <1>2 DEF Call, Entry, Publishing, SafeInv, PlaceOK
<1>3. CASE PlayerMoves \/ MixerMoves
  BY <1>3 DEF PlayerMoves, MixerMoves, Publishing
<1>4. CASE UNCHANGED vars
  BY <1>4 DEF vars, Publishing
<1>q. QED
  BY <1>1, <1>2, <1>3, <1>4 DEF Next, Dead

\* With mpd_mutex free, the control points see the state the handlers choose
\* by (output_translate_state through transport_set_state).
THEOREM StateCorrect == NoPosition => (Spec => []StatePublished)
<1> SUFFICES ASSUME NoPosition PROVE Spec => []StatePublished
  OBVIOUS
<1>1. Init => Publishing
  BY DEF Init, BeforeFirstStatus, AfterFirstStatus, Publishing
<1>2. SafeInv /\ Publishing => StatePublished
  <2> SUFFICES ASSUME SafeInv, Publishing, mpdMutex = None, transportState # "UNSET"
               PROVE  stateVar = transportState
    BY DEF StatePublished
  <2>1. \A t \in Threads : pc[t] # "var"
    BY NoneAssumption DEF SafeInv, MutexHeld, Guarded
  <2>q. QED
    BY <2>1 DEF Publishing
<1>q. QED
  BY <1>1, <1>2, PublishNext, SafeAlways, PTL DEF Spec
-----------------------------------------------------------------------------
(* A command that succeeds.                                                *)

\* What a call has published stays published while it holds mpd_mutex, and a
\* call that could not publish has failed, or has no usable connection any
\* more. Only output_playmode passes its two labels.
Refreshed ==
  /\ TypeInv /\ SafeInv /\ Publishing /\ SuccessRefreshes
  /\ \A t \in Threads : pc[t] \in {"mode", "mode_finish"} => op[t] = "output_playmode"

\* What a step of one call leaves to the calls of other threads; outside the
\* critical section it also leaves the connection and the state alone.
LEMMA OthersKept ==
  ASSUME SafeInv, NEW t \in Threads, Step(t)
  PROVE  /\ \A u \in Threads \ {t} :
              /\ pc'[u] = pc[u] /\ op'[u] = op[u] /\ rc'[u] = rc[u] /\ snap'[u] = snap[u]
         /\ op' = op \/ pc'[t] = "idle"
         /\ pc[t] \in Guarded \/ UNCHANGED <<conn, transportState>>
<1> USE DEF SafeInv, PlaceOK, ValueOK
<1>1. CASE Return(t) \/ Lock(t) \/ TestUri(t) \/ SaveVolume(t) \/ ReadVolume(t)
  BY <1>1 DEF Return, Lock, TestUri, SaveVolume, ReadVolume
<1>2. CASE ~(Return(t) \/ Lock(t) \/ TestUri(t) \/ SaveVolume(t) \/ ReadVolume(t))
  <2>1. pc[t] \in Guarded
    BY <1>2 DEF Step, Inner, Exclusive, Mixing, Polling, Unlock, Check, CheckUnlock,
       FreeConn, ClearConn, Query, Song, AdoptUri, Finish, SetState, SetVar, Command,
       SeekStatus, SendPlayMode, FinishPlayMode, ClearQueue, AddUri, SetMixer, Position,
       EarlyUnlock, Peek, Placed, Guarded
  <2>2. /\ op' = op
        /\ \A u \in Threads \ {t} :
             pc'[u] = pc[u] /\ rc'[u] = rc[u] /\ snap'[u] = snap[u]
    BY <1>2 DEF Step, Inner, Exclusive, Mixing, Polling, Unlock, Check, CheckUnlock,
       FreeConn, ClearConn, Query, Song, AdoptUri, Finish, SetState, SetVar, Command,
       SeekStatus, SendPlayMode, FinishPlayMode, ClearQueue, AddUri, SetMixer, Position,
       EarlyUnlock, Peek, Fail, Dropped, Refused, Crash
  <2> QED
    BY <2>1, <2>2
<1> QED
  BY <1>1, <1>2

\* The call that takes the step: when it comes to its unlock with success and
\* a connection, it comes from the write of the variable.
LEMMA RefreshOwn ==
  ASSUME Refreshed, TypeInv', NEW t \in Threads, Step(t), pc'[t] = "unlock",
         op'[t] \in CommandOps, rc'[t] = "ok", conn' = "ok", snap'[t].state # "UNKNOWN"
  PROVE  transportState' = UPnPState[snap'[t].state]
<1> USE DEF Refreshed, SafeInv, PlaceOK, ValueOK
<1>1. Translate(snap'[t].state) = UPnPState[snap'[t].state]
  BY DEF TypeInv, TypeOK, Translate, UPnPState, PlayerStates
<1>2. op' = op
  BY OthersKept DEF CommandOps
<1>3. ~SendPlayMode(t) /\ ~FinishPlayMode(t) /\ ~AddUri(t) /\ ~SetMixer(t)
  BY <1>2 DEF SendPlayMode, FinishPlayMode, AddUri, SetMixer, TypeInv, ArgOK, MuteOps, CommandOps
<1>4. ~FreeConn(t) /\ ~ClearConn(t) /\ ~Query(t)
  BY DEF FreeConn, ClearConn, Query, Freeing, Dropped, Crash
<1>5. ~Command(t) /\ ~SeekStatus(t)
  BY DEF Command, SeekStatus, Fail, Refused, Crash
<1>6. SetVar(t) \/ (SetState(t) /\ snap[t].state = "UNKNOWN")
  <2>1. ~(Return(t) \/ Lock(t) \/ Unlock(t) \/ Check(t) \/ CheckUnlock(t) \/ Song(t))
    BY DEF Return, Lock, AfterLock, Unlock, Check, CheckUnlock, Song, Crash
  <2>2. ~(AdoptUri(t) \/ Finish(t) \/ TestUri(t) \/ ClearQueue(t) \/ SaveVolume(t) \/ ReadVolume(t))
    BY DEF AdoptUri, Finish, TestUri, ClearQueue, SaveVolume, ReadVolume, Dropped, Crash
  <2>3. ~(Position(t) \/ EarlyUnlock(t) \/ Peek(t))
    BY DEF Position, EarlyUnlock, Peek, Placed
  <2> QED
    BY <2>1, <2>2, <2>3, <1>3, <1>4, <1>5 DEF Step, Inner, Exclusive, Mixing, Polling, SetState
<1> QED
  BY <1>1, <1>6 DEF SetVar, SetState, Publishing

LEMMA RefreshStep ==
  ASSUME Refreshed, TypeInv', NEW t \in Threads, Step(t)
  PROVE  SuccessRefreshes' /\ \A u \in Threads : pc'[u] \in {"mode", "mode_finish"} => op'[u] = "output_playmode"
<1> USE DEF Refreshed
<1>1. SuccessRefreshes'
  <2> SUFFICES ASSUME NEW u \in Threads, pc'[u] = "unlock", op'[u] \in CommandOps,
                      rc'[u] = "ok", conn' = "ok", snap'[u].state # "UNKNOWN"
               PROVE  transportState' = UPnPState[snap'[u].state]
    BY DEF SuccessRefreshes
  <2>1. CASE u = t
    BY <2>1, RefreshOwn
  <2>2. CASE u # t
    <3>1. pc[u] = "unlock" /\ pc[t] \notin Guarded
      BY <2>2, OthersKept DEF SafeInv, MutexHeld, Guarded
    <3> QED
      BY <2>2, <3>1, OthersKept DEF SuccessRefreshes
  <2> QED
    BY <2>1, <2>2
<1>2. \A u \in Threads : pc'[u] \in {"mode", "mode_finish"} => op'[u] = "output_playmode"
  <2> SUFFICES ASSUME NEW u \in Threads, pc'[u] \in {"mode", "mode_finish"}
               PROVE  op'[u] = "output_playmode"
    OBVIOUS
  <2>1. CASE u # t
    BY <2>1, OthersKept
  <2>2. CASE u = t /\ pc'[t] = pc[t]
    BY <2>2, OthersKept
  <2>3. CASE u = t /\ pc'[t] # pc[t]
    <3>1. /\ ~(Return(t) \/ Unlock(t) \/ Check(t) \/ CheckUnlock(t) \/ Song(t) \/ AdoptUri(t))
          /\ ~(SetState(t) \/ SetVar(t) \/ TestUri(t) \/ SaveVolume(t) \/ ReadVolume(t))
      BY <2>3 DEF SafeInv, PlaceOK, Return, Unlock, Check, CheckUnlock, Song, AdoptUri,
         SetState, SetVar, TestUri, SaveVolume, ReadVolume, AfterUpdate, Crash
    <3>2. /\ ~(Query(t) \/ Finish(t) \/ Command(t) \/ FinishPlayMode(t))
          /\ ~(AddUri(t) \/ SetMixer(t) \/ SeekStatus(t))
      <4>1. pc \in [Threads -> Labels]
        BY DEF SafeInv, PlaceOK
      <4>2. ~Query(t)
        BY <2>3, <4>1 DEF Query, Dropped, Crash, AfterUpdate
      <4>3. ~Finish(t) /\ ~Command(t) /\ ~FinishPlayMode(t)
        BY <2>3, <4>1 DEF Finish, Command, FinishPlayMode, Dropped, Refused, Crash
      <4>4. ~AddUri(t) /\ ~SetMixer(t) /\ ~SeekStatus(t)
        BY <2>3, <4>1 DEF AddUri, SetMixer, SeekStatus, Refused, Crash
      <4> QED
        BY <4>2, <4>3, <4>4
    <3>5. ~(ClearQueue(t) \/ Position(t) \/ EarlyUnlock(t) \/ Peek(t))
      BY <2>3 DEF SafeInv, PlaceOK, Placed, ClearQueue, Position, EarlyUnlock, Peek, Crash
    <3>3. ~(FreeConn(t) \/ ClearConn(t))
      BY <2>3 DEF SafeInv, PlaceOK, Placed, FreeConn, ClearConn
    <3>4. Lock(t) \/ SendPlayMode(t)
      BY <3>1, <3>2, <3>3, <3>5 DEF Step, Inner, Exclusive, Mixing, Polling
    <3>6. pc \in [Threads -> Labels] /\ op' = op
      BY <3>4 DEF SafeInv, PlaceOK, Lock, SendPlayMode
    <3>7. CASE Lock(t)
      BY <2>3, <3>6, <3>7 DEF Lock, AfterLock
    <3>8. CASE SendPlayMode(t)
      BY <2>3, <3>6, <3>8 DEF SendPlayMode
    <3> QED
      BY <3>4, <3>7, <3>8
  <2> QED
    BY <2>1, <2>2, <2>3
<1> QED
  BY <1>1, <1>2

LEMMA RefreshNext ==
  NoPosition /\ Refreshed /\ TypeInv' /\ [Next]_vars => Refreshed'
<1> SUFFICES ASSUME NoPosition, Refreshed, TypeInv', [Next]_vars PROVE Refreshed'
  OBVIOUS
<1>1. SafeInv' /\ Publishing'
  BY SafeNext, PublishNext DEF Refreshed
<1> DEFINE Modes == \A t \in Threads : pc[t] \in {"mode", "mode_finish"} => op[t] = "output_playmode"
<1>2. SuccessRefreshes' /\ Modes'
  <2>1. ASSUME NEW t \in Threads, Step(t) PROVE SuccessRefreshes' /\ Modes'
    BY <2>1, RefreshStep
  <2>2. ASSUME NEW t \in Threads, NEW o \in Ops, NEW a \in Args(o), Call(t, o, a)
        PROVE  SuccessRefreshes' /\ Modes'
    BY <2>2 DEF Refreshed, SafeInv, PlaceOK, ValueOK, SuccessRefreshes, Call, Entry
  <2>3. CASE PlayerMoves \/ MixerMoves
    BY <2>3 DEF PlayerMoves, MixerMoves, SuccessRefreshes, Refreshed
  <2>4. CASE UNCHANGED vars
    BY <2>4 DEF vars, SuccessRefreshes, Refreshed
  <2> QED
    BY <2>1, <2>2, <2>3, <2>4 DEF Next, Dead
<1> QED
  BY <1>1, <1>2 DEF Refreshed

\* A player command that is about to return 0 over a usable connection has
\* published the state MPD reported after it, whatever other threads do ("OK -
\* update status" in output_play and its siblings).
THEOREM SuccessPublishes == NoPosition => (Spec => []SuccessRefreshes)
<1> SUFFICES ASSUME NoPosition PROVE Spec => []SuccessRefreshes
  OBVIOUS
<1>1. Init /\ TypeInv /\ SafeInv => Refreshed
  BY DEF Init, BeforeFirstStatus, AfterFirstStatus, Publishing, SuccessRefreshes, Refreshed
<1>2. Refreshed => SuccessRefreshes
  BY DEF Refreshed
<1> QED
  BY <1>1, <1>2, RefreshNext, SafeAlways, PTL DEF Spec

-----------------------------------------------------------------------------
(* The connection as a link.                                               *)

\* The step the abstract link takes: one of its own, or none.
LinkStep == [Link!Next]_<<mpdMutex, LinkOf(conn)>>

\* A request may break the link of the thread that uses it, no more.
LEMMA LinkRequest ==
  ASSUME NEW t \in Threads, mpdMutex = t, mpdMutex' = mpdMutex,
         conn' = conn \/ (conn # "null" /\ conn' \in {"acked", "bad", "freed"})
  PROVE  LinkStep
<1>1. CASE conn' = conn
  BY <1>1 DEF LinkStep
<1>2. CASE conn # "null" /\ conn' \in {"acked", "bad", "freed"}
  <2>1. LinkOf(conn)' = "broken" /\ LinkOf(conn) \in {"up", "broken"}
    BY <1>2 DEF LinkOf
  <2>q. QED
    BY <2>1 DEF LinkStep, Link!Next, Link!Break
<1>q. QED
  BY <1>1, <1>2

\* Every step of a call is a step of the link or leaves it alone.
LEMMA LinkOfStep ==
  ASSUME SafeInv, NEW t \in Threads, Step(t)
  PROVE  LinkStep
<1> USE NoneAssumption DEF SafeInv, LinkStep
<1>1. CASE Return(t)
  BY <1>1 DEF Return
<1>2. CASE Lock(t)
  BY <1>2 DEF Lock, Link!Next, Link!Acquire
<1>3. CASE Unlock(t)
  BY <1>3 DEF Unlock, MutexHeld, Guarded, Link!Next, Link!Release
<1>4. CASE Check(t)
  BY <1>4 DEF Check, MutexHeld, Guarded, LinkOf, Link!Next, Link!Connect
<1>5. CASE CheckUnlock(t)
  BY <1>5 DEF CheckUnlock, MutexHeld, Guarded, Link!Next, Link!Release
<1>6. CASE FreeConn(t)
  BY <1>6 DEF FreeConn, Freeing, LinkOf
<1>7. CASE ClearConn(t)
  BY <1>7 DEF ClearConn, Freeing, MutexHeld, Guarded, LinkOf, Link!Next, Link!Discard
<1>8. CASE Query(t)
  <2>1. pc[t] \in Guarded /\ mpdMutex' = mpdMutex
    BY <1>8 DEF Query, Guarded
  <2>2. conn' = conn \/ (conn # "null" /\ conn' \in {"acked", "bad", "freed"})
    BY <1>8 DEF Query, Outcomes, ConnAfter, Refused, Dropped, Crash
  <2>q. QED
    BY <2>1, <2>2, LinkRequest DEF MutexHeld
<1>9. CASE Song(t)
  <2>1. pc[t] \in Guarded /\ mpdMutex' = mpdMutex
    BY <1>9 DEF Song, Guarded
  <2>2. conn' = conn \/ (conn # "null" /\ conn' \in {"acked", "bad", "freed"})
    BY <1>9 DEF Song, Outcomes, ConnAfter, Crash
  <2>q. QED
    BY <2>1, <2>2, LinkRequest DEF MutexHeld
<1>10. CASE AdoptUri(t)
  BY <1>10 DEF AdoptUri
<1>11. CASE Finish(t)
  <2>1. pc[t] \in Guarded /\ mpdMutex' = mpdMutex
    BY <1>11 DEF Finish, Guarded
  <2>2. conn' = conn \/ (conn # "null" /\ conn' \in {"acked", "bad", "freed"})
    BY <1>11 DEF Finish, Outcomes, ConnAfter, Refused, Dropped, Crash
  <2>q. QED
    BY <2>1, <2>2, LinkRequest DEF MutexHeld
<1>12. CASE SetState(t)
  BY <1>12 DEF SetState
<1>13. CASE SetVar(t)
  BY <1>13 DEF SetVar
<1>14. CASE Command(t)
  <2>1. pc[t] \in Guarded /\ mpdMutex' = mpdMutex
    BY <1>14 DEF Command, Guarded
  <2>2. conn' = conn \/ (conn # "null" /\ conn' \in {"acked", "bad", "freed"})
    BY <1>14 DEF Command, Outcomes, ConnAfter, Refused, Dropped, Crash
  <2>q. QED
    BY <2>1, <2>2, LinkRequest DEF MutexHeld
<1>15. CASE SeekStatus(t)
  <2>1. pc[t] \in Guarded /\ mpdMutex' = mpdMutex
    BY <1>15 DEF SeekStatus, Guarded
  <2>2. conn' = conn \/ (conn # "null" /\ conn' \in {"acked", "bad", "freed"})
    BY <1>15 DEF SeekStatus, Outcomes, ConnAfter, Refused, Dropped, Crash
  <2>q. QED
    BY <2>1, <2>2, LinkRequest DEF MutexHeld
<1>16. CASE SendPlayMode(t)
  <2>1. pc[t] \in Guarded /\ mpdMutex' = mpdMutex
    BY <1>16 DEF SendPlayMode, Guarded
  <2>2. conn' = conn \/ (conn # "null" /\ conn' \in {"acked", "bad", "freed"})
    BY <1>16 DEF SendPlayMode, Outcomes, ConnAfter, Refused, Dropped, Crash
  <2>q. QED
    BY <2>1, <2>2, LinkRequest DEF MutexHeld
<1>17. CASE FinishPlayMode(t)
  <2>1. pc[t] \in Guarded /\ mpdMutex' = mpdMutex
    BY <1>17 DEF FinishPlayMode, Guarded
  <2>2. conn' = conn \/ (conn # "null" /\ conn' \in {"acked", "bad", "freed"})
    BY <1>17 DEF FinishPlayMode, Outcomes, ConnAfter, Refused, Dropped, Crash
  <2>q. QED
    BY <2>1, <2>2, LinkRequest DEF MutexHeld
<1>18. CASE TestUri(t)
  BY <1>18 DEF TestUri
<1>19. CASE ClearQueue(t)
  <2>1. pc[t] \in Guarded /\ mpdMutex' = mpdMutex
    BY <1>19 DEF ClearQueue, Guarded
  <2>2. conn' = conn \/ (conn # "null" /\ conn' \in {"acked", "bad", "freed"})
    BY <1>19 DEF ClearQueue, Outcomes, ConnAfter, Refused, Dropped, Crash
  <2>q. QED
    BY <2>1, <2>2, LinkRequest DEF MutexHeld
<1>20. CASE AddUri(t)
  <2>1. pc[t] \in Guarded /\ mpdMutex' = mpdMutex
    BY <1>20 DEF AddUri, Guarded
  <2>2. conn' = conn \/ (conn # "null" /\ conn' \in {"acked", "bad", "freed"})
    BY <1>20 DEF AddUri, Outcomes, ConnAfter, Refused, Dropped, Crash
  <2>q. QED
    BY <2>1, <2>2, LinkRequest DEF MutexHeld
<1>21. CASE SaveVolume(t)
  BY <1>21 DEF SaveVolume
<1>22. CASE SetMixer(t)
  <2>1. pc[t] \in Guarded /\ mpdMutex' = mpdMutex
    BY <1>22 DEF SetMixer, Guarded
  <2>2. conn' = conn \/ (conn # "null" /\ conn' \in {"acked", "bad", "freed"})
    BY <1>22 DEF SetMixer, Outcomes, ConnAfter, Refused, Dropped, Crash
  <2>q. QED
    BY <2>1, <2>2, LinkRequest DEF MutexHeld
<1>23. CASE ReadVolume(t)
  BY <1>23 DEF ReadVolume
<1>p. ~Position(t) /\ ~EarlyUnlock(t) /\ ~Peek(t)
  BY DEF Placed, Position, EarlyUnlock, Peek
<1>q. QED
  BY <1>1, <1>2, <1>3, <1>4, <1>5, <1>6, <1>7, <1>8, <1>9, <1>10, <1>11, <1>12, <1>13, <1>14, <1>15, <1>16, <1>17, <1>18, <1>19, <1>20, <1>21, <1>22, <1>23, <1>p DEF Step, Inner, Exclusive, Mixing, Polling

\* One thread at a time uses the connection, makes it only where there is
\* none and drops it only once it is broken: MpdOutput implements MpdLink
\* (check_mpd_connection, setup_connection, output_printError).
THEOREM ImplementsLink == NoPosition => (Spec => LinkSpec)
<1> SUFFICES ASSUME NoPosition PROVE Spec => LinkSpec
  OBVIOUS
<1>1. Init => Link!Init
  BY DEF Init, Link!Init, LinkOf
<1>2. SafeInv /\ [Next]_vars => LinkStep
  <2> SUFFICES ASSUME SafeInv, [Next]_vars PROVE LinkStep
    OBVIOUS
  <2>1. ASSUME NEW t \in Threads, Step(t) PROVE LinkStep
    BY <2>1, LinkOfStep
  <2>2. ASSUME NEW t \in Threads, NEW o \in Ops, NEW a \in Args(o), Call(t, o, a)
        PROVE  LinkStep
    BY <2>2 DEF Call, LinkStep
  <2>3. CASE PlayerMoves \/ MixerMoves
    BY <2>3 DEF PlayerMoves, MixerMoves, LinkStep
  <2>4. CASE UNCHANGED vars
    BY <2>4 DEF vars, LinkStep
  <2>q. QED
    BY <2>1, <2>2, <2>3, <2>4 DEF Next, Dead
<1>q. QED
  BY <1>1, <1>2, SafeAlways, PTL DEF Spec, LinkSpec, Link!Spec, LinkStep
=============================================================================
