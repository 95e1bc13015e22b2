---------------------------- MODULE SharingProofs ---------------------------
(***************************************************************************)
(* What the parts promise alone they keep together, with both services on  *)
(* one device.  output_mpd.c keeps what it promises the most general       *)
(* client: outside of it the handlers write only the transport variables.  *)
(* RenderingControl keeps what it promises beside any other callers of     *)
(* output_mpd.c: AVTransport is one.                                       *)
(***************************************************************************)
EXTENDS ServicesProofs, MpdOutputProofs

USE DEF At, Goto, linkVars, mpdVars, stateVars, uriVars, volumeVars, callVars

\* The request for the position, which alone leads to output_update_position,
\* is not served.
NoPoll == "GetPositionInfo" \notin Handlers

\* A handler has the argument its request brings, and sets the URI for the
\* request that brings one.
Asked ==
  /\ DOMAIN param = Threads
  /\ \A t \in Threads :
       /\ param[t] \in Params(req[t]) /\ rcParam[t] \in RC!Params(rcReq[t])
       /\ at[t] = "set_av_uri" => req[t] = "SetAVTransportURI"

\* No thread serves the request that is left out.
Unpolled == \A t \in Threads : req[t] # "GetPositionInfo"

\* What a handler does itself: output_mpd.c sees at most a transport variable
\* change, or the process end.
Aside ==
  /\ UNCHANGED <<conn, mpdMutex, mpdVars, trackUri, volumeVars, callVars>>
  /\ crashed' \in BOOLEAN
  /\ transportState' \in TransportStates /\ stateVar' \in TransportStates \ {"UNSET"}
  /\ avUri' \in Uris \cup {NoUri}

\* What a handler has output_mpd.c do.
Calling(t, o) == \E a \in Args(o) : Call(t, o, a)

Served(t) == Step(t) \/ Aside \/ \E o \in AllOps \ {"output_update_position"} : Calling(t, o)

\* ... with the request for the position too.
Polled(t) == Served(t) \/ Calling(t, "output_update_position")

LEMMA StillAside ==
  ASSUME SharedOK, UNCHANGED vars
  PROVE  Aside
BY DEF SharedOK, Aside, vars
-----------------------------------------------------------------------------
(* What the steps of the services are for output_mpd.c.                    *)

LEMMA TransportServed ==
  ASSUME SharedOK, AVTypeOK, Asked, NEW t \in Threads, Handle(t)
  PROVE  /\ Polled(t)
         /\ req[t] # "GetPositionInfo" => Served(t)
<1> USE DEF Polled, Served
<1>1. CASE UNCHANGED vars
  BY <1>1, StillAside
<1>2. CASE StartLoop(t) \/ CheckConnection(t)
  BY <1>2 DEF StartLoop, CheckConnection, Calling, Args, AllOps, CheckOps
<1>3. CASE CheckDone(t) \/ CallDone(t)
  BY <1>3 DEF CheckDone, CallDone, Step
<1>4. CASE Switch(t) /\ ~ UNCHANGED vars
  <2>1. Chosen(req[t], transportState) \in {"output_stop", "output_pause", "output_play"}
    BY <1>4 DEF Switch, Chosen
  <2>2. Calling(t, Chosen(req[t], transportState))
    BY <1>4, <2>1 DEF Switch, Calling, Args
  <2> QED BY <2>1, <2>2 DEF AllOps, CommandOps
<1>5. CASE Invoke(t)
  <2>1. param[t] \in Args(Operation(req[t]))
    BY DEF Asked, Params, Args, Operation
  <2>2. Calling(t, Operation(req[t]))
    BY <1>5, <2>1 DEF Invoke, Calling
  <2>3. Operation(req[t]) \in AllOps
    BY DEF Operation, AllOps, CommandOps
  <2>4. Operation(req[t]) = "output_update_position" => req[t] = "GetPositionInfo"
    BY DEF Operation
  <2> QED BY <2>2, <2>3, <2>4
<1>6. CASE SetAvUri(t)
  <2>1. param[t] \in Uris
    BY <1>6 DEF SetAvUri, Here, Asked, Params
  <2> QED BY <1>6, <2>1 DEF SetAvUri, SharedOK, Aside
<1>7. CASE SetTransportState(t) \/ ChangeVar(t)
  BY <1>7 DEF SetTransportState, ChangeVar, AVTypeOK, SharedOK, Aside
<1>8. CASE ReadLast(t)
  BY <1>8 DEF ReadLast, SharedOK, Aside
<1> QED
  BY <1>1, <1>2, <1>3, <1>4, <1>5, <1>6, <1>7, <1>8
     DEF Handle, TransportLock, TransportUnlock, Notify, Send, Append, Reply, DeviceLock,
         UpdateLast, StoreLast, Accept

LEMMA ControlServed ==
  ASSUME SharedOK, Asked, NEW t \in Threads, RC!Handle(t)
  PROVE  Served(t)
<1> USE SameCalls DEF Served
<1>1. CASE UNCHANGED RC!vars
  BY <1>1, StillAside
<1>2. CASE RC!DoneElsewhere(t) \/ RC!SetDone(t) \/ RC!GetDone(t)
  BY <1>2 DEF RC!DoneElsewhere, RC!SetDone, RC!GetDone, Step
<1>3. CASE RC!Begin(t) /\ ~ UNCHANGED RC!vars
  <2> DEFINE o == RC!FirstCall(rcReq[t], rcParam[t])
             a == IF o = "output_set_volume" THEN rcParam[t] ELSE None
  <2>1. o \in MuteOps \cup {"output_set_volume", "output_get_volume"} /\ Call(t, o, a)
    BY <1>3 DEF RC!Begin, RC!FirstCall, MuteOps
  <2>2. a \in Args(o)
    BY <2>1 DEF Asked, RC!Params, RC!FirstCall, Args, MuteOps
  <2> HIDE DEF o, a
  <2> QED BY <2>1, <2>2 DEF Calling, AllOps, MuteOps
<1>4. CASE RC!ReadBack(t)
  BY <1>4 DEF RC!ReadBack, Calling, Args, AllOps
<1>5. CASE RC!ReadLast(t)
  BY <1>5 DEF RC!ReadLast, SharedOK, Aside, RC!mpdVars, RC!stateVars, RC!uriVars,
     RC!volumeVars, RC!callVars
<1> QED
  BY <1>1, <1>2, <1>3, <1>4, <1>5
     DEF RC!Handle, RC!DeviceLock, RC!ControlLock, RC!ControlUnlock, RC!ChangeVolume,
         RC!ChangeMute, RC!Send, RC!Append, RC!Reply, RC!LastChange, RC!StoreLast, RC!Accept
-----------------------------------------------------------------------------
(* What output_mpd.c keeps through them.                                   *)

LEMMA AsideKeeps ==
  ASSUME Aside
  PROVE  /\ TypeInv => TypeInv'
         /\ SafeInv => SafeInv'
         /\ LinkStep
<1> USE DEF Aside
<1>1. TypeInv => TypeInv'
  BY DEF TypeInv, TypeOK, SharedOK, PlaceOK, ValueOK, ArgOK
<1>2. SafeInv => SafeInv'
  BY DEF SafeInv, PlaceOK, ValueOK, Placed, MutexHeld, Freeing
<1>3. LinkStep
  BY DEF LinkStep, LinkOf
<1> QED
  BY <1>1, <1>2, <1>3

LEMMA OutsideKeeps ==
  ASSUME PlayerMoves \/ MixerMoves \/ Dead
  PROVE  /\ TypeInv => TypeInv'
         /\ SafeInv => SafeInv'
         /\ LinkStep
<1>1. TypeInv => TypeInv'
  BY TypeNext DEF Next
<1>2. SafeInv => SafeInv'
  BY DEF PlayerMoves, MixerMoves, Dead, vars, SafeInv, PlaceOK, ValueOK, Placed, MutexHeld,
     Freeing
<1>3. LinkStep
  BY DEF PlayerMoves, MixerMoves, Dead, vars, LinkStep, LinkOf
<1> QED
  BY <1>1, <1>2, <1>3

LEMMA PolledTypes ==
  ASSUME TypeInv, NEW t \in Threads, Polled(t)
  PROVE  TypeInv'
<1>1. ASSUME NEW o \in AllOps, Calling(t, o) PROVE TypeInv'
  BY <1>1, TypeCall DEF Calling
<1>2. "output_update_position" \in AllOps
  BY DEF AllOps
<1> QED
  BY <1>1, <1>2, TypeStep, AsideKeeps DEF Polled, Served

LEMMA ServedSafe ==
  ASSUME TypeInv, SafeInv, NEW t \in Threads, Served(t)
  PROVE  SafeInv' /\ LinkStep
<1>1. TypeInv'
  BY PolledTypes DEF Polled
<1>2. CASE Step(t)
  BY <1>1, <1>2, SafeStep, LinkOfStep DEF SafeInv, TypeInv, TypeOK
<1>3. CASE Aside
  BY <1>3, AsideKeeps
<1>4. ASSUME NEW o \in AllOps \ {"output_update_position"}, NEW a, Call(t, o, a)
      PROVE  SafeInv' /\ LinkStep
  <2>1. LinkStep
    BY <1>4 DEF Call, LinkStep
  <2> QED BY <1>1, <1>4, <2>1, SafeCall DEF SafeInv, TypeInv, TypeOK
<1> QED
  BY <1>2, <1>3, <1>4 DEF Served, Calling
-----------------------------------------------------------------------------
(* Requests and their arguments.                                           *)

LEMMA AskedInit == ServicesInit => Asked /\ (NoPoll => Unpolled)
BY DEF ServicesInit, AVInit, RC!ControlInit, Asked, Unpolled, Params, RC!Params

LEMMA AskedHandle ==
  ASSUME Domains, Asked, NEW t \in Threads, Handle(t), UNCHANGED controlOnly
  PROVE  Asked' /\ (Unpolled => Unpolled')
<1> USE DEF Domains, Here, Move, locals, controlOnly
<1>1. CASE UNCHANGED <<req, param>>
  <2>1. at'[t] = "set_av_uri" => req[t] = "SetAVTransportURI"
    <3>1. CASE CallDone(t)
      BY <3>1 DEF CallDone, NextPlace, Unlocked
    <3>2. CASE ~ CallDone(t)
      BY <3>2, <1>1 DEF Handle, StartLoop, CheckConnection, CheckDone, TransportLock,
         TransportUnlock, Switch, Invoke, SetAvUri, SetTransportState, ChangeVar, Notify,
         Send, Append, Reply, DeviceLock, UpdateLast, StoreLast, ReadLast, Accept, Asked
    <3> QED BY <3>1, <3>2
  <2>2. \A u \in Threads \ {t} : at'[u] = at[u]
    BY DEF Handle, StartLoop, CheckConnection, CheckDone, CallDone, TransportLock,
         TransportUnlock, Switch, Invoke, SetAvUri, SetTransportState, ChangeVar, Notify,
         Send, Append, Reply, DeviceLock, UpdateLast, StoreLast, ReadLast, Accept
  <2> QED BY <1>1, <2>1, <2>2 DEF Asked, Unpolled, Params
<1>2. CASE Reply(t)
  BY <1>2 DEF Reply, Asked, Unpolled, Params
<1> QED
  BY <1>1, <1>2 DEF Handle, StartLoop, CheckConnection, CheckDone, CallDone, TransportLock,
         TransportUnlock, Switch, Invoke, SetAvUri, SetTransportState, ChangeVar, Notify,
         Send, Append, DeviceLock, UpdateLast, StoreLast, ReadLast, Accept

LEMMA AskedControl ==
  ASSUME Domains, ControlTypes, Asked, NEW t \in Threads, RC!Handle(t), UNCHANGED transportOnly
  PROVE  Asked' /\ (Unpolled => Unpolled')
<1>1. UNCHANGED <<at, req, param>>
  BY DEF transportOnly
<1>2. CASE UNCHANGED <<rcReq, rcParam>>
  BY <1>1, <1>2 DEF Asked, Unpolled
<1>3. CASE RC!Reply(t)
  BY <1>1, <1>3 DEF RC!Reply, RC!Params, Domains, ControlTypes, Asked, Unpolled
<1> QED
  BY <1>2, <1>3 DEF RC!Handle, RC!DoneElsewhere, RC!DeviceLock, RC!ControlLock,
     RC!ControlUnlock, RC!Begin, RC!SetDone, RC!ReadBack, RC!GetDone, RC!ChangeVolume,
     RC!ChangeMute, RC!Send, RC!Append, RC!LastChange, RC!StoreLast, RC!ReadLast, RC!Accept

LEMMA AskedRequest ==
  ASSUME Domains, ControlTypes, Asked, NEW t \in Threads,
         RequestTransport(t) \/ RequestControl(t)
  PROVE  Asked' /\ (NoPoll /\ Unpolled => Unpolled') /\ UNCHANGED vars
<1>1. CASE RequestTransport(t)
  <2>1. PICK h \in Handlers : \E p \in Params(h) : Request(t, h, p)
    BY <1>1 DEF RequestTransport
  <2>2. PICK p \in Params(h) : Request(t, h, p)
    BY <2>1
  <2>3. UNCHANGED <<rcReq, rcParam>> /\ UNCHANGED vars
    BY <1>1, <2>2 DEF RequestTransport, controlOnly, Request
  <2>4. at'[t] # "set_av_uri"
    BY <2>2 DEF Request, Move, FirstPlace, Domains
  <2>5. Asked'
    BY <2>2, <2>3, <2>4 DEF Request, Move, Domains, Asked
  <2>6. NoPoll /\ Unpolled => Unpolled'
    BY <2>2 DEF Request, NoPoll, Unpolled, Domains
  <2> QED BY <2>3, <2>5, <2>6
<1>2. CASE RequestControl(t)
  <2>1. PICK h \in ControlHandlers : \E p \in RC!Params(h) : RC!Request(t, h, p)
    BY <1>2 DEF RequestControl
  <2>2. PICK p \in RC!Params(h) : RC!Request(t, h, p)
    BY <2>1
  <2>3. UNCHANGED <<at, req, param>>
    BY <1>2 DEF RequestControl, transportOnly
  <2>4. UNCHANGED vars
    BY <2>2, SameCalls DEF RC!Request
  <2>5. Asked'
    BY <2>2, <2>3 DEF RC!Request, Domains, ControlTypes, Asked
  <2> QED BY <2>3, <2>4, <2>5 DEF Unpolled
<1> QED
  BY <1>1, <1>2
-----------------------------------------------------------------------------
(* The services.                                                           *)

SharedInv == TypesInv /\ MutexInv /\ TypeInv /\ Asked

LEMMA SharedNext ==
  ASSUME SharedInv, [ServicesNext]_servicesVars
  PROVE  /\ SharedInv'
         /\ NoPoll /\ Unpolled /\ SafeInv => Unpolled' /\ SafeInv' /\ LinkStep
<1> USE DEF SharedInv
<1>a. (TypesInv /\ MutexInv)'
  BY TypesStep, MutexStep
<1>b. Domains /\ ControlTypes /\ AVTypeOK /\ SharedOK
  BY DEF TypesInv, MutexInv, TypeInv, TypeOK
<1> DEFINE Goal == /\ TypeInv' /\ Asked'
                   /\ NoPoll /\ Unpolled /\ SafeInv => Unpolled' /\ SafeInv' /\ LinkStep
<1>1. CASE UNCHANGED servicesVars
  <2>1. UNCHANGED vars /\ UNCHANGED <<at, req, param, rcReq, rcParam>>
    BY <1>1 DEF servicesVars, avVars, handlerVars, controlOnly
  <2>2. Asked' /\ (Unpolled => Unpolled')
    BY <2>1 DEF Asked, Unpolled
  <2> QED BY <1>a, <1>b, <2>1, <2>2, StillAside, AsideKeeps
<1>2. ASSUME NEW t \in Threads, Handle(t), UNCHANGED controlOnly PROVE Goal
  <2>1. Asked' /\ (Unpolled => Unpolled')
    BY <1>2, <1>b, AskedHandle
  <2>2. Polled(t) /\ (Unpolled => Served(t))
    BY <1>2, <1>b, TransportServed DEF Unpolled
  <2> QED BY <2>1, <2>2, PolledTypes, ServedSafe
<1>3. ASSUME NEW t \in Threads, RC!Handle(t), UNCHANGED transportOnly PROVE Goal
  <2>1. Asked' /\ (Unpolled => Unpolled')
    BY <1>3, <1>b, AskedControl
  <2>2. Served(t)
    BY <1>3, <1>b, ControlServed
  <2> QED BY <2>1, <2>2, PolledTypes, ServedSafe DEF Polled
<1>4. ASSUME NEW t \in Threads, Inner(t), UNCHANGED <<handlerVars, controlOnly>> PROVE Goal
  <2>1. Asked' /\ (Unpolled => Unpolled')
    BY <1>4 DEF handlerVars, controlOnly, Asked, Unpolled
  <2>2. Served(t)
    BY <1>4 DEF Served, Step
  <2> QED BY <2>1, <2>2, PolledTypes, ServedSafe DEF Polled
<1>5. ASSUME NEW t \in Threads, RequestTransport(t) \/ RequestControl(t) PROVE Goal
  <2>1. Asked' /\ (NoPoll /\ Unpolled => Unpolled') /\ UNCHANGED vars
    BY <1>5, <1>b, AskedRequest
  <2> QED BY <1>b, <2>1, StillAside, AsideKeeps
<1>6. CASE Outside
  <2>1. Asked' /\ (Unpolled => Unpolled')
    BY <1>6 DEF Outside, handlerVars, controlOnly, Asked, Unpolled
  <2> QED BY <1>a, <1>6, <2>1, OutsideKeeps DEF Outside
<1> HIDE DEF Goal
<1>7. Goal
  BY <1>1, <1>2, <1>3, <1>4, <1>5, <1>6 DEF ServicesNext, Serve, Goal
<1> QED
  BY <1>a, <1>7 DEF Goal

LEMMA SharedInit == ServicesInit => SharedInv
BY TypesInit, MutexInit, TypeInit, AskedInit DEF SharedInv, ServicesInit, AVInit

LEMMA SharedAlways == NoPoll => (ServicesSpec => [](SharedInv /\ Unpolled /\ SafeInv))
<1> SUFFICES ASSUME NoPoll PROVE ServicesSpec => [](SharedInv /\ Unpolled /\ SafeInv)
  OBVIOUS
<1>1. ServicesInit => SharedInv /\ Unpolled /\ SafeInv
  BY SharedInit, AskedInit, SafeInit
     DEF ServicesInit, AVInit, SharedInv, TypeInv, TypeOK, SafeInv
<1>2. SharedInv /\ Unpolled /\ SafeInv /\ [ServicesNext]_servicesVars
        => SharedInv' /\ Unpolled' /\ SafeInv'
  BY SharedNext
<1> QED
  BY <1>1, <1>2, PTL DEF ServicesSpec

\* Whatever the handlers of both services ask for, and whatever they write
\* beside it, the state and the calls of output_mpd.c keep their types: every
\* call is made with an argument that fits it.
THEOREM MpdTyped == ServicesSpec => []TypeOK
<1>1. SharedInv => TypeOK
  BY DEF SharedInv, TypeInv
<1>2. SharedInv /\ [ServicesNext]_servicesVars => SharedInv'
  BY SharedNext
<1> QED
  BY SharedInit, <1>1, <1>2, PTL DEF ServicesSpec

\* With all handlers of both services but GetPositionInfo, whoever works on
\* the connection or on a status owns mpd_mutex.
THEOREM MutexShared == NoPoll => (ServicesSpec => []MutexHeld)
<1> SUFFICES ASSUME NoPoll PROVE ServicesSpec => []MutexHeld
  OBVIOUS
<1>1. SafeInv => MutexHeld
  BY DEF SafeInv
<1> QED
  BY <1>1, SharedAlways, PTL

\* Neither service uses or frees a connection the other has freed.
THEOREM ConnectionShared == NoPoll => (ServicesSpec => []NoUseAfterFree)
<1> SUFFICES ASSUME NoPoll PROVE ServicesSpec => []NoUseAfterFree
  OBVIOUS
<1> QED
  BY SafeUse, SharedAlways, PTL

\* Both services together use one link, one thread at a time, make it only
\* where there is none and drop it only once it is broken.
THEOREM ServicesLink == NoPoll => (ServicesSpec => LinkSpec)
<1> SUFFICES ASSUME NoPoll PROVE ServicesSpec => LinkSpec
  OBVIOUS
<1>1. ServicesInit => Link!Init
  BY DEF ServicesInit, AVInit, Init, Link!Init, LinkOf
<1>2. SharedInv /\ Unpolled /\ SafeInv /\ [ServicesNext]_servicesVars => LinkStep
  BY SharedNext
<1> QED
  BY <1>1, <1>2, SharedAlways, PTL DEF ServicesSpec, LinkSpec, Link!Spec, LinkStep
-----------------------------------------------------------------------------
(* RenderingControl beside AVTransport: for the former, the latter is a    *)
(* thread that calls any operation but the three that set the volume.      *)

Setting == MuteOps \cup {"output_set_volume"}

\* Where RenderingControl takes a thread to be.
Within == [t \in Threads |-> IF at[t] \in {"checking", "calling"} THEN "elsewhere" ELSE rcAt[t]]

Rendering == INSTANCE RenderingControlProofs
               WITH Handlers <- ControlHandlers, Ops <- AllOps \ Setting, at <- Within,
                    req <- rcReq, param <- rcParam, said <- rcSaid, lastChange <- rcLastChange

\* The assumptions of that module hold here.
LEMMA Assumed ==
  /\ None \notin Threads \cup Uris \cup {NoUri} /\ NoUri \notin Uris
  /\ AllOps \ Setting \subseteq Rendering!AllOps
  /\ Env \subseteq Rendering!AllEnv /\ TestMode \in BOOLEAN
  /\ Volumes \subseteq Int /\ None \notin Int
  /\ ControlHandlers \subseteq Rendering!AllHandlers
  /\ Mutes \subseteq {"0", "1", "other"}
BY NoneAssumption, EnvAssumption, VolumesAssumption, NoVolumeAssumption,
   ControlHandlersAssumption, MutesAssumption
   DEF AllOps, Rendering!AllOps, AllEnv, Rendering!AllEnv, Rendering!AllHandlers, RC!AllHandlers,
       Rendering!CheckOps, CheckOps, Rendering!CommandOps, CommandOps, Rendering!MuteOps, MuteOps

\* The conditions of RenderingControlProofs, for the whole device.
Ours == ~TestMode /\ Main = None /\ Env \subseteq {"nomem", "garbled", "moves"}

LEMMA OursIsCalm == Ours => Rendering!Calm
BY DEF Ours, Rendering!Calm, Rendering!SettingOps, Rendering!MuteOps, Setting, MuteOps

\* The operations of output_mpd.c are the same for all.
LEMMA SameInner ==
  ASSUME NEW t
  PROVE  Rendering!Inner(t) <=> Inner(t)
BY DEF Inner, Rendering!Inner, Exclusive, Rendering!Exclusive, Mixing,
       Rendering!Mixing, Polling, Rendering!Polling, Lock, Rendering!Lock,
       Unlock, Rendering!Unlock, Check, Rendering!Check, CheckUnlock,
       Rendering!CheckUnlock, FreeConn, Rendering!FreeConn, ClearConn,
       Rendering!ClearConn, Query, Rendering!Query, Song, Rendering!Song,
       AdoptUri, Rendering!AdoptUri, Finish, Rendering!Finish, SetState,
       Rendering!SetState, SetVar, Rendering!SetVar, Command,
       Rendering!Command, SeekStatus, Rendering!SeekStatus, SendPlayMode,
       Rendering!SendPlayMode, FinishPlayMode, Rendering!FinishPlayMode,
       TestUri, Rendering!TestUri, ClearQueue, Rendering!ClearQueue, AddUri,
       Rendering!AddUri, SaveVolume, Rendering!SaveVolume, SetMixer,
       Rendering!SetMixer, ReadVolume, Rendering!ReadVolume, Position,
       Rendering!Position, EarlyUnlock, Rendering!EarlyUnlock, Peek,
       Rendering!Peek, AfterLock, Rendering!AfterLock, CheckOps,
       Rendering!CheckOps, CommandOps, Rendering!CommandOps, MuteOps,
       Rendering!MuteOps, Fail, Rendering!Fail, AfterUpdate,
       Rendering!AfterUpdate, Outcomes, Rendering!Outcomes, Reported,
       Rendering!Reported, Dropped, Rendering!Dropped, ConnAfter,
       Rendering!ConnAfter, Crash, Rendering!Crash, Translate,
       Rendering!Translate, Effect, Rendering!Effect, Refused,
       Rendering!Refused, KnownPlayModes, Rendering!KnownPlayModes, Clamp,
       Rendering!Clamp, BeforeFirstStatus, Rendering!BeforeFirstStatus,
       Rendering!At, Rendering!Goto, Rendering!linkVars, Rendering!mpdVars,
       Rendering!stateVars, Rendering!uriVars, Rendering!volumeVars,
       Rendering!callVars

LEMMA SameOps ==
  ASSUME NEW t, NEW o, NEW a
  PROVE  /\ Rendering!Call(t, o, a) <=> Call(t, o, a)
         /\ Rendering!Return(t) <=> Return(t)
         /\ UNCHANGED Rendering!vars <=> UNCHANGED vars
BY DEF Rendering!Call, Call, Rendering!Return, Return, Rendering!At, At, Rendering!Goto, Goto,
       Rendering!Entry, Entry, Rendering!EntryRc, EntryRc, Rendering!NoStatus, NoStatus,
       Rendering!CheckOps, CheckOps, Rendering!MuteOps, MuteOps, Rendering!vars, vars,
       Rendering!callVars, callVars, Rendering!linkVars, linkVars, Rendering!mpdVars, mpdVars,
       Rendering!stateVars, stateVars, Rendering!uriVars, uriVars, Rendering!volumeVars, volumeVars

\* What a thread does in RenderingControl it does there.
LEMMA RenderingHandles ==
  ASSUME Domains, OneRequest, NEW t \in Threads, RC!Handle(t), UNCHANGED transportOnly
  PROVE  Rendering!Handle(t)
<1>1. rcAt[t] # "idle" /\ ~RC!DoneElsewhere(t)
  BY DEF OneRequest, RC!Handle, RC!Here, RC!DoneElsewhere, RC!DeviceLock, RC!ControlLock,
     RC!ControlUnlock, RC!Begin, RC!SetDone, RC!ReadBack, RC!GetDone, RC!ChangeVolume,
     RC!ChangeMute, RC!Send, RC!Append, RC!Reply, RC!LastChange, RC!StoreLast, RC!ReadLast,
     RC!Accept
<1>2. at[t] = "idle" /\ at' = at
  BY <1>1 DEF OneRequest, transportOnly
<1>3. \A l : Rendering!Here(t, l) <=> RC!Here(t, l)
  BY <1>2 DEF Rendering!Here, RC!Here, Within
<1>4. \A l : RC!Move(t, l) => Rendering!Move(t, l)
  BY <1>2 DEF Rendering!Move, RC!Move, Within, Domains
<1>5. /\ UNCHANGED RC!vars <=> UNCHANGED Rendering!vars
      /\ RC!Return(t) <=> Rendering!Return(t)
      /\ \A o, a : RC!Call(t, o, a) <=> Rendering!Call(t, o, a)
  BY SameCalls, SameOps
<1> USE <1>3, <1>4, <1>5
<1>10. RC!DeviceLock(t) => Rendering!DeviceLock(t)
  BY DEF RC!DeviceLock, Rendering!DeviceLock
<1>11. RC!ControlLock(t) => Rendering!ControlLock(t)
  BY DEF RC!ControlLock, Rendering!ControlLock
<1>12. RC!ControlUnlock(t) => Rendering!ControlUnlock(t)
  BY DEF RC!ControlUnlock, Rendering!ControlUnlock
<1>13. RC!Begin(t) => Rendering!Begin(t)
  BY DEF RC!Begin, Rendering!Begin, RC!FirstCall, Rendering!FirstCall
<1>14. RC!SetDone(t) => Rendering!SetDone(t)
  BY DEF RC!SetDone, Rendering!SetDone, RC!MuteOps, Rendering!MuteOps
<1>15. RC!ReadBack(t) => Rendering!ReadBack(t)
  BY DEF RC!ReadBack, Rendering!ReadBack
<1>16. RC!GetDone(t) => Rendering!GetDone(t)
  BY DEF RC!GetDone, Rendering!GetDone, RC!Says, Rendering!Says
<1>17. RC!ChangeVolume(t) => Rendering!ChangeVolume(t)
  BY DEF RC!ChangeVolume, Rendering!ChangeVolume, RC!Says, Rendering!Says
<1>18. RC!ChangeMute(t) => Rendering!ChangeMute(t)
  BY DEF RC!ChangeMute, Rendering!ChangeMute, RC!Says, Rendering!Says
<1>19. RC!Send(t) => Rendering!Send(t)
  BY DEF RC!Send, Rendering!Send
<1>20. RC!Append(t) => Rendering!Append(t)
  BY DEF RC!Append, Rendering!Append
<1>21. RC!Reply(t) => Rendering!Reply(t)
  BY DEF RC!Reply, Rendering!Reply, RC!Silence, Rendering!Silence, RC!Says, Rendering!Says
<1>22. RC!LastChange(t) => Rendering!LastChange(t)
  BY DEF RC!LastChange, Rendering!LastChange, RC!Says, Rendering!Says
<1>23. RC!StoreLast(t) => Rendering!StoreLast(t)
  BY DEF RC!StoreLast, Rendering!StoreLast, RC!Says, Rendering!Says
<1>24. RC!ReadLast(t) => Rendering!ReadLast(t)
  BY DEF RC!ReadLast, Rendering!ReadLast, RC!Silence, Rendering!Silence, RC!Says, Rendering!Says,
         RC!mpdVars, Rendering!mpdVars, RC!stateVars, Rendering!stateVars, RC!uriVars,
         Rendering!uriVars, RC!volumeVars, Rendering!volumeVars, RC!callVars, Rendering!callVars
<1>25. RC!Accept(t) => Rendering!Accept(t)
  BY DEF RC!Accept, Rendering!Accept
<1> QED
  BY <1>1, <1>10, <1>11, <1>12, <1>13, <1>14, <1>15, <1>16, <1>17, <1>18, <1>19, <1>20, <1>21, <1>22, <1>23, <1>24, <1>25
     DEF RC!Handle, Rendering!Handle

\* What AVTransport does is a call, a return, or nothing to RenderingControl.
Silent ==
  /\ UNCHANGED <<pc, op, arg, snap, conn, mixer, mpdvolume, mutevolume, mpdMutex>>
  /\ Within' = Within /\ UNCHANGED <<controlMutex, rcReq, rcParam, rcSaid, volumeVar, muteVar>>

LEMMA TransportHandles ==
  ASSUME Domains, OneRequest, NEW t \in Threads, Handle(t), UNCHANGED controlOnly
  PROVE  \/ Silent \/ Rendering!DoneElsewhere(t)
         \/ \E o \in AllOps \ Setting : \E a : Rendering!CallElsewhere(t, o, a)
<1> USE DEF Domains, Here, Move, locals, controlOnly
<1>1. rcAt[t] = "idle" /\ rcAt' = rcAt
  BY DEF OneRequest, Handle, StartLoop, CheckConnection, CheckDone, CallDone, TransportLock,
     TransportUnlock, Switch, Invoke, SetAvUri, SetTransportState, ChangeVar, Notify, Send,
     Append, Reply, DeviceLock, UpdateLast, StoreLast, ReadLast, Accept
<1>2. ASSUME NEW o \in AllOps \ Setting, NEW a, Call(t, o, a), ~crashed,
             at[t] \notin {"checking", "calling"},
             \E l \in {"checking", "calling"} : at' = [at EXCEPT ![t] = l],
             deviceMutex' = deviceMutex
      PROVE  Rendering!CallElsewhere(t, o, a)
  <2>1. Within[t] = "idle" /\ Within' = [Within EXCEPT ![t] = "elsewhere"]
    BY <1>1, <1>2 DEF Within
  <2> QED
    BY <1>2, <2>1, SameOps DEF Rendering!CallElsewhere, Rendering!Here, Rendering!Move
<1>3. CASE StartLoop(t) \/ CheckConnection(t)
  <2>1. PICK o \in {"output_update_status", "check_mpd_connection(TRUE)"} : Call(t, o, None)
    BY <1>3 DEF StartLoop, CheckConnection
  <2>2. o \in AllOps \ Setting
    BY <2>1 DEF CheckOps, CommandOps, AllOps, Setting, MuteOps
  <2>3. Rendering!CallElsewhere(t, o, None)
    BY <1>2, <1>3, <2>1, <2>2 DEF StartLoop, CheckConnection
  <2> QED BY <2>2, <2>3
<1>4. CASE Switch(t) /\ Chosen(req[t], transportState) # "none"
  <2> DEFINE o == Chosen(req[t], transportState)
  <2>1. o \in AllOps \ Setting
    BY <1>4 DEF Chosen, AllOps, CommandOps, Setting, MuteOps
  <2>2. Rendering!CallElsewhere(t, o, None)
    BY <1>2, <1>4, <2>1 DEF Switch
  <2> QED BY <2>1, <2>2
<1>5. CASE Invoke(t)
  <2> DEFINE o == Operation(req[t])
  <2>1. o \in AllOps \ Setting
    BY DEF Operation, AllOps, CommandOps, Setting, MuteOps
  <2>2. Rendering!CallElsewhere(t, o, param[t])
    BY <1>2, <1>5, <2>1 DEF Invoke
  <2> QED BY <2>1, <2>2
<1>6. CASE CheckDone(t) \/ CallDone(t)
  <2>1. /\ Return(t) /\ ~crashed /\ at[t] \in {"checking", "calling"}
        /\ deviceMutex' = deviceMutex
        /\ at'[t] \notin {"checking", "calling"}
        /\ \A u \in Threads \ {t} : at'[u] = at[u]
    BY <1>6 DEF CheckDone, CallDone, NextPlace
  <2>2. Within[t] = "elsewhere" /\ Within' = [Within EXCEPT ![t] = "idle"]
    BY <1>1, <2>1 DEF Within
  <2> QED
    BY <1>6, <2>1, <2>2, SameOps DEF Rendering!DoneElsewhere, Rendering!Here, Rendering!Move
<1>7. CASE /\ ~(StartLoop(t) \/ CheckConnection(t) \/ Invoke(t) \/ CheckDone(t) \/ CallDone(t))
           /\ ~(Switch(t) /\ Chosen(req[t], transportState) # "none")
  <2>1. /\ UNCHANGED <<pc, op, arg, snap, conn, mixer, mpdvolume, mutevolume, mpdMutex>>
        /\ at[t] \notin {"checking", "calling"} /\ at'[t] \notin {"checking", "calling"}
        /\ \A u \in Threads \ {t} : at'[u] = at[u]
    BY <1>7 DEF Handle, TransportLock, TransportUnlock, Switch, SetAvUri, SetTransportState,
       ChangeVar, Notify, Send, Append, Reply, DeviceLock, UpdateLast, StoreLast, ReadLast,
       Accept, vars, linkVars, mpdVars, volumeVars, callVars
  <2>2. Within' = Within
    BY <1>1, <2>1 DEF Within
  <2> QED BY <2>1, <2>2 DEF Silent
<1> QED BY <1>3, <1>4, <1>5, <1>6, <1>7

LEMMA RenderingRests ==
  ASSUME Rendering!SoundInv, Silent
  PROVE  Rendering!SoundInv'
BY Rendering!SoundSame, Assumed DEF Silent, Rendering!mpdData

\* Every step of the services keeps what RenderingControl rests on.
LEMMA RenderingNext ==
  ASSUME Ours, MutexInv, Rendering!SoundInv, [ServicesNext]_servicesVars
  PROVE  Rendering!SoundInv'
<1>a. Domains /\ OneRequest /\ Rendering!Calm
  BY OursIsCalm DEF MutexInv
<1>1. ASSUME NEW t \in Threads, Rendering!Stepped(t) PROVE Rendering!SoundInv'
  BY <1>1, Rendering!SteppedKeeps, Assumed
<1>2. ASSUME NEW t \in Threads, Rendering!Handle(t) PROVE Rendering!SoundInv'
  BY <1>a, <1>1, <1>2, Rendering!HandleStepped, Assumed
<1>3. ASSUME NEW t \in Threads, Handle(t), UNCHANGED controlOnly PROVE Rendering!SoundInv'
  <2>1. CASE Silent
    BY <2>1, RenderingRests
  <2>2. CASE Rendering!DoneElsewhere(t)
    BY <1>2, <2>2 DEF Rendering!Handle
  <2>3. ASSUME NEW o \in AllOps \ Setting, NEW a, Rendering!CallElsewhere(t, o, a)
        PROVE  Rendering!SoundInv'
    BY <1>a, <1>1, <2>3, Rendering!ElsewhereStepped, Assumed
  <2> QED
    BY <1>a, <1>3, <2>1, <2>2, <2>3, TransportHandles
<1>4. ASSUME NEW t \in Threads, RC!Handle(t), UNCHANGED transportOnly PROVE Rendering!SoundInv'
  BY <1>a, <1>2, <1>4, RenderingHandles
<1>5. ASSUME NEW t \in Threads, Inner(t), UNCHANGED <<handlerVars, controlOnly>>
      PROVE  Rendering!SoundInv'
  <2>1. UNCHANGED Rendering!rcVars
    BY <1>5 DEF handlerVars, controlOnly, Rendering!rcVars, Within
  <2>2. Rendering!Inner(t)
    BY <1>5, SameInner
  <2> QED
    BY <1>a, <1>1, <2>1, <2>2, Rendering!InnerStepped, Assumed
<1>6. ASSUME NEW t \in Threads, RequestTransport(t) PROVE Rendering!SoundInv'
  <2>1. PICK h \in Handlers : \E p \in Params(h) : Request(t, h, p)
    BY <1>6 DEF RequestTransport
  <2>2. UNCHANGED vars /\ UNCHANGED controlOnly /\ at[t] = "idle"
    BY <1>6, <2>1 DEF RequestTransport, Request, Here
  <2>3. at'[t] \notin {"checking", "calling"} /\ \A u \in Threads \ {t} : at'[u] = at[u]
    BY <1>a, <2>1 DEF Request, Move, FirstPlace, Domains
  <2>4. Within' = Within
    BY <2>2, <2>3 DEF Within, controlOnly
  <2> QED
    BY <2>2, <2>4, RenderingRests DEF Silent, vars, controlOnly
<1>7. ASSUME NEW t \in Threads, RequestControl(t) PROVE Rendering!SoundInv'
  <2>1. PICK h \in ControlHandlers : \E p \in RC!Params(h) : RC!Request(t, h, p)
    BY <1>7 DEF RequestControl
  <2>2. PICK p \in RC!Params(h) : RC!Request(t, h, p)
    BY <2>1
  <2>3. Within[t] = rcAt[t] /\ at' = at /\ at[t] = "idle"
    BY <1>7 DEF RequestControl, Free, transportOnly, Within
  <2>4. Within' = [Within EXCEPT ![t] = RC!FirstPlace(h)]
    BY <1>a, <2>2, <2>3 DEF RC!Request, RC!Move, Within, Domains
  <2>5. Rendering!Request(t, h, p) /\ p \in Rendering!Params(h)
    BY <2>2, <2>3, <2>4, SameOps, SameCalls
       DEF RC!Request, Rendering!Request, RC!Here, Rendering!Here, Rendering!Move,
           RC!FirstPlace, Rendering!FirstPlace, RC!Params, Rendering!Params
  <2> QED
    BY <1>a, <1>1, <2>5, Rendering!RequestStepped, Assumed
<1>8. CASE Outside
  <2>1. UNCHANGED <<handlerVars, controlOnly>> /\ (PlayerMoves \/ UNCHANGED vars)
    BY <1>8 DEF Outside, MixerMoves, Dead, Ours
  <2> QED
    BY <2>1, RenderingRests DEF Silent, Within, PlayerMoves, vars, handlerVars, controlOnly
<1>9. CASE UNCHANGED servicesVars
  BY <1>9, RenderingRests DEF Silent, Within, servicesVars, avVars, vars, handlerVars, controlOnly
<1> QED
  BY <1>3, <1>4, <1>5, <1>6, <1>7, <1>8, <1>9 DEF ServicesNext, Serve

LEMMA RenderingInit == Ours /\ ServicesInit => Rendering!SoundInv
<1> SUFFICES ASSUME Ours, ServicesInit PROVE Rendering!SoundInv
  OBVIOUS
<1>1. Main \notin Threads
  BY NoneAssumption DEF Ours
<1>2. Within = [t \in Threads |-> "idle"]
  BY <1>1 DEF Within, ServicesInit, AVInit, RC!ControlInit
<1>3. Rendering!ControlInit
  BY <1>2 DEF ServicesInit, RC!ControlInit, Rendering!ControlInit, RC!Silence, Rendering!Silence,
              RC!Says, Rendering!Says
<1>4. Rendering!Init /\ Rendering!AfterFirstStatus
  BY DEF ServicesInit, AVInit, Ours, Init, Rendering!Init, AfterFirstStatus,
         Rendering!AfterFirstStatus, BeforeFirstStatus, Rendering!BeforeFirstStatus, Clamp,
         Rendering!Clamp, NoStatus, Rendering!NoStatus, Translate, Rendering!Translate,
         PlayerStates, Rendering!PlayerStates
<1>5. Rendering!RCInit
  BY <1>3, <1>4 DEF ServicesInit, AVInit, Ours, Rendering!RCInit
<1> QED
  BY <1>5, OursIsCalm, Rendering!SoundStart, Assumed

LEMMA RenderingAlways == Ours => (ServicesSpec => []Rendering!SoundInv)
<1> SUFFICES ASSUME Ours PROVE ServicesSpec => []Rendering!SoundInv
  OBVIOUS
<1>1. ServicesInit => MutexInv /\ Rendering!SoundInv
  BY MutexInit, RenderingInit
<1>2. MutexInv /\ Rendering!SoundInv /\ [ServicesNext]_servicesVars
        => MutexInv' /\ Rendering!SoundInv'
  BY MutexStep, RenderingNext
<1> QED
  BY <1>1, <1>2, PTL DEF ServicesSpec

\* With AVTransport served at the same time, whatever it asks MPD for,
\* control points that see Mute = 1 still hear nothing (set_mute, set_volume).
THEOREM MuteShared == Ours => (ServicesSpec => []RC!MuteMeansSilent)
<1> SUFFICES ASSUME Ours PROVE ServicesSpec => []RC!MuteMeansSilent
  OBVIOUS
<1>1. Rendering!SoundInv => RC!MuteMeansSilent
  BY DEF Rendering!SoundInv, Rendering!MixerOK, Rendering!Sound, RC!MuteMeansSilent, RC!Resting
<1> QED
  BY <1>1, RenderingAlways, PTL

\* ... and those that see Mute = 0 still hear the volume they see (set_volume,
\* control_update_settings).
THEOREM VolumeShared ==
  Ours /\ Volumes \subseteq 0 .. 100 => (ServicesSpec => []RC!UnmutedVolumeTrue)
<1> SUFFICES ASSUME Ours, Volumes \subseteq 0 .. 100
             PROVE  ServicesSpec => []RC!UnmutedVolumeTrue
  OBVIOUS
<1>1. Rendering!SoundInv => RC!UnmutedVolumeTrue
  BY DEF Rendering!SoundInv, Rendering!MixerOK, Rendering!Sound, Rendering!Heard,
         RC!UnmutedVolumeTrue, RC!Resting
<1> QED
  BY <1>1, RenderingAlways, PTL
=============================================================================
