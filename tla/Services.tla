------------------------------- MODULE Services -----------------------------
(***************************************************************************)
(* AVTransport and RenderingControl on one device, as upnp_device.c runs   *)
(* them: the same worker threads serve both, each service has its mutex    *)
(* and its variables, and the two share device_mutex and all of            *)
(* output_mpd.c.                                                           *)
(***************************************************************************)
EXTENDS AVTransport

CONSTANTS ControlHandlers,  \* the requests to RenderingControl
          Mutes             \* the DesiredMute values they bring

VARIABLES
  controlMutex,             \* owner of control_mutex
  rcAt, rcReq, rcParam,     \* the handlers of RenderingControl
  volumeVar, muteVar,       \* its variables
  rcSaid, rcLastChange      \* its events

RC == INSTANCE RenderingControl
        WITH Handlers <- ControlHandlers, at <- rcAt, req <- rcReq, param <- rcParam,
             said <- rcSaid, lastChange <- rcLastChange

ASSUME ControlHandlersAssumption == ControlHandlers \subseteq RC!AllHandlers
ASSUME MutesAssumption == Mutes \subseteq {"0", "1", "other"}
ASSUME NoVolumeAssumption == None \notin Int

transportOnly == <<transportMutex, at, req, param, result, target, said, lastChange>>
controlOnly ==
  <<controlMutex, rcAt, rcReq, rcParam, volumeVar, muteVar, rcSaid, rcLastChange>>
servicesVars == <<avVars, controlOnly>>

ServicesInit == AVInit /\ RC!ControlInit

\* event_handler finds the service by its ID and runs the handler in the thread
\* libupnp gave it: a thread serves one request at a time.
Free(t) == at[t] = "idle" /\ rcAt[t] = "idle"

RequestTransport(t) ==
  /\ Free(t)
  /\ \E h \in Handlers : \E p \in Params(h) : Request(t, h, p)
  /\ UNCHANGED controlOnly

RequestControl(t) ==
  /\ Free(t)
  /\ \E h \in ControlHandlers : \E p \in RC!Params(h) : RC!Request(t, h, p)
  /\ UNCHANGED transportOnly

\* A thread goes on in one of the handlers or inside output_mpd.c.
Serve(t) ==
  \/ Handle(t) /\ UNCHANGED controlOnly
  \/ RC!Handle(t) /\ UNCHANGED transportOnly
  \/ Inner(t) /\ UNCHANGED <<handlerVars, controlOnly>>

\* MPD on its own, or nothing once the process is gone.
Outside ==
  /\ PlayerMoves \/ MixerMoves \/ Dead
  /\ UNCHANGED <<handlerVars, controlOnly>>

ServicesNext ==
  \/ \E t \in Threads : Serve(t) \/ RequestTransport(t) \/ RequestControl(t)
  \/ Outside

ServicesSpec == ServicesInit /\ [][ServicesNext]_servicesVars

\* The same where MPD has a song queued, as it keeps its queue between two
\* runs of the program.
QueuedInit == ServicesInit /\ queue # NoUri
QueuedSpec == QueuedInit /\ [][ServicesNext]_servicesVars

\* Worker threads run, and control points ask AVTransport again and again.
Scheduled ==
  /\ \A t \in Threads : WF_servicesVars(Serve(t))
  /\ SF_servicesVars(\E t \in Threads : RequestTransport(t))
-----------------------------------------------------------------------------
(* Properties.                                                             *)

ServicesTypeOK == AVTypeOK /\ RC!RCTypeOK

\* A subscription to either service owns device_mutex from its lock to its
\* acceptance, whatever the other service is doing
\* (handle_subscription_request).
SubscriptionHolds ==
  /\ DeviceHeld
  /\ \A t \in Threads :
       rcReq[t] = "Subscribe" /\ rcAt[t] \notin {"device_lock", "reply"} => deviceMutex = t

\* A handler at work on the variables of its service owns that service's
\* mutex, also while the other service uses MPD (upnp_transport.c,
\* upnp_control.c, every stretch from ithread_mutex_lock to
\* ithread_mutex_unlock).
HandlersHold == TransportHeld /\ RC!ControlHeld

\* A thread that has answered owns no mutex, whatever failed on its way: not
\* one of the error paths of the handlers and of output_mpd.c forgets one.
NothingKept ==
  \A t \in Threads :
    Free(t) => t \notin {mpdMutex, transportMutex, controlMutex, deviceMutex}

\* The owner of the mutex a thread waits for.
Awaited(t) ==
  CASE pc[t] = "lock" -> mpdMutex
    [] at[t] \in {"transport_lock", "append"} -> transportMutex
    [] rcAt[t] \in {"control_lock", "append"} -> controlMutex
    [] "device_lock" \in {at[t], rcAt[t]} -> deviceMutex
    [] OTHER -> None

\* The four mutexes are never waited for in a circle, nor by their own owner:
\* of any group of threads one waits for nothing or for somebody outside
\* (upnp_append_variable, handle_subscription_request, and the output_*
\* functions called with transport_mutex or control_mutex held).
NoCircularWait ==
  \A group \in SUBSET Threads : group # {} => \E t \in group : Awaited(t) \notin group

\* Some request is always being answered, during the first status update and
\* after a lost connection too (a pthread mutex promises no single thread its
\* turn).
ServiceAnswers == []<>(crashed \/ \E t \in Threads : Free(t))
=============================================================================
