--------------------------- MODULE ActionDispatch ---------------------------
(***************************************************************************)
(* handle_action_request and handle_subscription_request of upnp_device.c  *)
(* and what they are driven by: the tables of actions and arguments of the *)
(* three services (audio build), the description upnp.c publishes from     *)
(* them, the course of every handler from its first check to the answer,   *)
(* and the first event of a subscription.                                  *)
(*                                                                         *)
(* A handler is a script of steps.  What the steps do to the player and to *)
(* the variables is the business of AVTransport and RenderingControl; here *)
(* a step succeeds or fails, and the question is what the control point is *)
(* told, and whether the player was commanded.  The handlers' appends and  *)
(* the argument lists are transcribed separately, as they are in the code. *)
(***************************************************************************)
EXTENDS XmlEscape

CONSTANTS None,
          Texts    \* what a variable may hold when it is sent as an event

ASSUME TextsAssumption == Texts \subseteq Seq(STRING)

(* Scripts.                                                                *)
Step(op, name, var) == [op |-> op, name |-> name, var |-> var]

\* upnp_obtain_instanceid, after whose failure get_transport_info goes on.
IdOn == Step("instance_on", "InstanceID", None)

\* upnp_obtain_instanceid, after whose failure the handler returns.
Id == Step("instance", "InstanceID", None)

\* upnp_get_string; "on" for set_avtransport_uri, which goes on without it.
Arg(name) == Step("argument", name, None)
ArgOn(name) == Step("argument_on", name, None)

\* check_mpd_connection, and an output_* call whose failure is an error.
Link == Step("link", None, None)
Work == Step("work", None, None)

\* The switch over transport_state of the named handler, with its call.
Switch(name) == Step("switch", name, None)

\* What is set although the handler looks at no failure: an output_* call
\* and the variables it is to change.
Store == Step("store", None, None)

\* Variables refreshed with what MPD reported last, by GetVolume and
\* GetPositionInfo.
Report == Step("report", None, None)

\* upnp_append_variable for each pair of a name and a variable; "on" for the
\* handlers of ConnectionManager that do not look at its failure.
Adds(outs) == [i \in DOMAIN outs |-> Step("add", outs[i][1], outs[i][2])]
AddsOn(outs) == [i \in DOMAIN outs |-> Step("add_on", outs[i][1], outs[i][2])]

NoHandler == <<>>
-----------------------------------------------------------------------------
(* The handlers.                                                           *)

GetMediaInfo ==
  <<Id>> \o Adds(<<<<"NrTracks", "NumberOfTracks">>, <<"MediaDuration", "CurrentMediaDuration">>,
                   <<"CurrentURI", "AVTransportURI">>,
                   <<"CurrentURIMetaData", "AVTransportURIMetaData">>,
                   <<"NextURI", "NextAVTransportURI">>,
                   <<"NextURIMetaData", "NextAVTransportURIMetaData">>,
                   <<"PlayMedium", "PossibleRecordStorageMedia">>,
                   <<"RecordMedium", "RecordStorageMedium">>,
                   <<"WriteStatus", "RecordMediumWriteStatus">>>>)

GetTransportInfo ==
  <<IdOn>> \o Adds(<<<<"CurrentTransportState", "TransportState">>,
                     <<"CurrentTransportStatus", "TransportStatus">>,
                     <<"CurrentSpeed", "TransportPlaySpeed">>>>)

GetTransportSettings ==
  <<Id>> \o Adds(<<<<"CurrentPlayMode", "CurrentPlayMode">>,
                   <<"CurrentRecordQualityMode", "CurrentRecordQualityMode">>>>)

\* A mutation: the variable of RelCount is answered for AbsCount as well.
GetPositionInfoTwice ==
  <<Id, Report>> \o Adds(<<<<"Track", "CurrentTrack">>, <<"TrackDuration", "CurrentTrackDuration">>,
                           <<"TrackMetaData", "CurrentTrackMetaData">>,
                           <<"TrackURI", "CurrentTrackURI">>,
                           <<"RelTime", "RelativeTimePosition">>,
                           <<"AbsTime", "AbsoluteTimePosition">>,
                           <<"RelCount", "RelativeCounterPosition">>,
                           <<"AbsCount", "RelativeCounterPosition">>>>)

GetPositionInfo ==
  <<Id, Report>> \o Adds(<<<<"Track", "CurrentTrack">>, <<"TrackDuration", "CurrentTrackDuration">>,
                           <<"TrackMetaData", "CurrentTrackMetaData">>,
                           <<"TrackURI", "CurrentTrackURI">>,
                           <<"RelTime", "RelativeTimePosition">>,
                           <<"AbsTime", "AbsoluteTimePosition">>,
                           <<"RelCount", "RelativeCounterPosition">>,
                           <<"AbsCount", "AbsoluteCounterPosition">>>>)

SetAVTransportURI == <<Id, Arg("CurrentURI"), Store, ArgOn("CurrentURIMetaData")>>
Seek == <<Id, Arg("Unit"), Arg("Target"), Link, Work>>
SetPlayMode == <<Id, Arg("NewPlayMode"), Link, Work>>
Skip == <<Id, Link, Work>>
Transition(name) == <<Id, Link, Switch(name)>>

\* cmd_obtain_variable.
Obtain(var, name) == <<Id>> \o Adds(<<<<name, var>>>>)
GetVolume == <<Report, Id>> \o Adds(<<<<"CurrentVolume", "Volume">>>>)
Set(name) == <<Id, Arg(name), Store>>

\* get_current_conn_ids answers a text of its own in place of a variable.
GetCurrentConnectionIDs == AddsOn(<<<<"ConnectionIDs", "0">>>>)

GetProtocolInfo ==
  AddsOn(<<<<"Source", "SourceProtocolInfo">>, <<"Sink", "SinkProtocolInfo">>>>)

GetCurrentConnectionInfo ==
  <<Arg("ConnectionID")>> \o
    Adds(<<<<"RcsID", "A_ARG_TYPE_RcsID">>, <<"AVTransportID", "A_ARG_TYPE_AVTransportID">>,
           <<"ProtocolInfo", "A_ARG_TYPE_ProtocolInfo">>,
           <<"PeerConnectionManager", "A_ARG_TYPE_ConnectionManager">>,
           <<"PeerConnectionID", "A_ARG_TYPE_ConnectionID">>,
           <<"Direction", "A_ARG_TYPE_Direction">>, <<"Status", "A_ARG_TYPE_ConnectionStatus">>>>)

\* The switch statements of the three handlers: nothing is done, the player is
\* told to, the handler fails with an error, or it only sets the error.  The
\* transport_state nothing was heard for yet is in no case.
Cases ==
  [Stop  |-> [STOPPED |-> "nothing", PLAYING |-> "work", PAUSED_PLAYBACK |-> "work",
              TRANSITIONING |-> "work", NO_MEDIA_PRESENT |-> "error", UNSET |-> "nothing"],
   Pause |-> [STOPPED |-> "nothing", PLAYING |-> "work", PAUSED_PLAYBACK |-> "work",
              TRANSITIONING |-> "error", NO_MEDIA_PRESENT |-> "error", UNSET |-> "nothing"],
   Play  |-> [STOPPED |-> "work", PLAYING |-> "nothing", PAUSED_PLAYBACK |-> "work",
              TRANSITIONING |-> "fail", NO_MEDIA_PRESENT |-> "fail", UNSET |-> "nothing"]]

\* A mutation: the player is also found TRANSITIONING.
TransportStatesMore == {"UNSET", "STOPPED", "PLAYING", "PAUSED_PLAYBACK", "TRANSITIONING"}

\* The values transport_state takes: nothing sets the other two.
TransportStates == {"UNSET", "STOPPED", "PLAYING", "PAUSED_PLAYBACK"}
-----------------------------------------------------------------------------
(* The tables, in the order of their enumerations.                         *)

\* struct action, and the entry that ends a table of them.
Action(name, script) == [name |-> name, script |-> script]
NoAction == Action(None, NoHandler)

\* A list of struct argument, by direction; the ones with direction "out" are
\* pairs of a name and the related variable.
Arguments(in, out) == [in |-> in, out |-> out]

TransportActions ==
  <<Action("GetCurrentTransportActions", NoHandler),
    Action("GetDeviceCapabilities", <<Id>>),
    Action("GetMediaInfo", GetMediaInfo),
    Action("GetPositionInfo", GetPositionInfo),
    Action("GetTransportInfo", GetTransportInfo),
    Action("GetTransportSettings", GetTransportSettings),
    Action("Next", Skip), Action("Pause", Transition("Pause")),
    Action("Play", Transition("Play")), Action("Previous", Skip),
    Action("Seek", Seek), Action("SetAVTransportURI", SetAVTransportURI),
    Action("SetPlayMode", SetPlayMode), Action("Stop", Transition("Stop")),
    NoAction>>

MediaInfoArguments ==
  Arguments({"InstanceID"},
    <<<<"NrTracks", "NumberOfTracks">>, <<"MediaDuration", "CurrentMediaDuration">>,
      <<"CurrentURI", "AVTransportURI">>, <<"CurrentURIMetaData", "AVTransportURIMetaData">>,
      <<"NextURI", "NextAVTransportURI">>, <<"NextURIMetaData", "NextAVTransportURIMetaData">>,
      <<"PlayMedium", "PlaybackStorageMedium">>, <<"RecordMedium", "RecordStorageMedium">>,
      <<"WriteStatus", "RecordMediumWriteStatus">>>>)

PositionInfoArguments ==
  Arguments({"InstanceID"},
    <<<<"Track", "CurrentTrack">>, <<"TrackDuration", "CurrentTrackDuration">>,
      <<"TrackMetaData", "CurrentTrackMetaData">>, <<"TrackURI", "CurrentTrackURI">>,
      <<"RelTime", "RelativeTimePosition">>, <<"AbsTime", "AbsoluteTimePosition">>,
      <<"RelCount", "RelativeCounterPosition">>, <<"AbsCount", "AbsoluteCounterPosition">>>>)

TransportInfoArguments ==
  Arguments({"InstanceID"},
    <<<<"CurrentTransportState", "TransportState">>,
      <<"CurrentTransportStatus", "TransportStatus">>, <<"CurrentSpeed", "TransportPlaySpeed">>>>)

TransportArguments ==
  LET I == {"InstanceID"}
  IN <<Arguments(I, <<<<"Actions", "CurrentTransportActions">>>>),
       Arguments(I, <<<<"PlayMedia", "PossiblePlaybackStorageMedia">>,
                      <<"RecMedia", "PossibleRecordStorageMedia">>,
                      <<"RecQualityModes", "PossibleRecordQualityModes">>>>),
       MediaInfoArguments, PositionInfoArguments, TransportInfoArguments,
       Arguments(I, <<<<"PlayMode", "CurrentPlayMode">>,
                      <<"RecQualityMode", "CurrentRecordQualityMode">>>>),
       Arguments(I, <<>>), Arguments(I, <<>>),
       Arguments(I \cup {"Speed"}, <<>>), Arguments(I, <<>>),
       Arguments(I \cup {"Unit", "Target"}, <<>>),
       Arguments(I \cup {"CurrentURI", "CurrentURIMetaData"}, <<>>),
       Arguments(I \cup {"NewPlayMode"}, <<>>), Arguments(I, <<>>)>>

ControlActions ==
  <<Action("GetLoudness", Obtain("Loudness", "CurrentLoudness")),
    Action("GetMute", Obtain("Mute", "CurrentMute")),
    Action("GetVolume", GetVolume),
    Action("GetVolumeDB", Obtain("VolumeDB", "CurrentVolumeDB")),
    Action("GetVolumeDBRange", NoHandler),
    Action("ListPresets", Obtain("PresetNameList", "CurrentPresetNameList")),
    Action("SelectPreset", NoHandler), Action("SetLoudness", NoHandler),
    Action("SetMute", Set("DesiredMute")), Action("SetVolume", Set("DesiredVolume")),
    Action("SetVolumeDB", NoHandler),
    NoAction>>

ControlArguments ==
  LET I == {"InstanceID"}
      IC == I \cup {"Channel"}
  IN <<Arguments(IC, <<<<"CurrentLoudness", "Loudness">>>>),
       Arguments(IC, <<<<"CurrentMute", "Mute">>>>),
       Arguments(IC, <<<<"CurrentVolume", "Volume">>>>),
       Arguments(IC, <<<<"CurrentVolume", "VolumeDB">>>>),
       Arguments(IC, <<<<"MinValue", "VolumeDB">>, <<"MaxValue", "VolumeDB">>>>),
       Arguments(I, <<<<"CurrentPresetNameList", "PresetNameList">>>>),
       Arguments(I \cup {"PresetName"}, <<>>), Arguments(IC \cup {"DesiredLoudness"}, <<>>),
       Arguments(IC \cup {"DesiredMute"}, <<>>), Arguments(IC \cup {"DesiredVolume"}, <<>>),
       Arguments(IC \cup {"DesiredVolume"}, <<>>)>>

ConnmgrActions ==
  <<Action("GetCurrentConnectionIDs", GetCurrentConnectionIDs),
    Action("GetCurrentConnectionInfo", GetCurrentConnectionInfo),
    Action("GetProtocolInfo", GetProtocolInfo),
    NoAction>>

ConnectionInfoArguments ==
  Arguments({"ConnectionID"},
    <<<<"RcsID", "A_ARG_TYPE_RcsID">>, <<"AVTransportID", "A_ARG_TYPE_AVTransportID">>,
      <<"ProtocolInfo", "A_ARG_TYPE_ProtocolInfo">>,
      <<"PeerConnectionManager", "A_ARG_TYPE_ConnectionManager">>,
      <<"PeerConnectionID", "A_ARG_TYPE_ConnectionID">>,
      <<"Direction", "A_ARG_TYPE_Direction">>, <<"Status", "A_ARG_TYPE_ConnectionStatus">>>>)

ConnmgrArguments ==
  <<Arguments({}, <<<<"ConnectionIDs", "CurrentConnectionIDs">>>>),
    ConnectionInfoArguments,
    Arguments({}, <<<<"Source", "SourceProtocolInfo">>, <<"Sink", "SinkProtocolInfo">>>>)>>

\* upnp_renderer.c: the services of the device, each with its command_count
\* and the variables whose sendevents is SENDEVENT_YES.
Services ==
  <<[name |-> "AVTransport", actions |-> TransportActions,
     arguments |-> TransportArguments, count |-> 14, evented |-> <<"LastChange">>],
    [name |-> "ConnectionManager", actions |-> ConnmgrActions,
     arguments |-> ConnmgrArguments, count |-> 3,
     evented |-> <<"SinkProtocolInfo", "SourceProtocolInfo", "CurrentConnectionIDs">>],
    [name |-> "RenderingControl", actions |-> ControlActions,
     arguments |-> ControlArguments, count |-> 11, evented |-> <<"LastChange">>]>>

\* gen_scpd_actionlist: the actions and arguments a service describes itself
\* with, the first command_count of both tables, with or without a handler.
Scpd(service) ==
  {[action |-> service.actions[i].name,
    in |-> service.arguments[i].in, out |-> service.arguments[i].out] : i \in 1 .. service.count}
-----------------------------------------------------------------------------
(* Looking them up.                                                        *)

\* The first entry of a table with one of these names.
FirstNamed(table, names) ==
  table[CHOOSE i \in DOMAIN table :
          table[i].name \in names /\ \A j \in DOMAIN table : table[j].name \in names => i <= j]

\* find_service.
FindService(name) ==
  IF \E s \in ToSet(Services) : s.name = name THEN FirstNamed(Services, {name}) ELSE None

\* find_action stops at the entry without a name.
FindAction(service, name) ==
  LET found == FirstNamed(service.actions, {name, None})
  IN  IF found.name = None THEN None ELSE found

\* How a service describes an action.
Described(name, action) ==
  LET service == FindService(name)
  IN  IF service = None THEN {} ELSE {d \in Scpd(service) : d.action = action}

Entries == UNION {ToSet(s.actions) : s \in ToSet(Services)}
ActionNames == {e.name : e \in Entries \ {NoAction}}

\* What the handlers append, as pairs of a name and a variable.
Appendable == {<<step.name, step.var>> : step \in UNION {ToSet(e.script) : e \in Entries}}

\* None is neither a service nor an action, and it is not an answer.
ASSUME NoneAssumption == None \notin ToSet(Services) \cup Entries \cup Seq(Appendable)
-----------------------------------------------------------------------------
(* Requests.                                                               *)

VARIABLES
  stage,    \* "idle", "handling" a request, "returned", "answered" or "subscribed"
  request,  \* the service, the action, the InstanceID and the arguments given
  entry,    \* the action of the table, or None
  next,     \* the step of its script
  status,   \* event->status
  rc,       \* what the handler is about to return
  errCode,  \* request->ErrCode
  answer,   \* request->ActionResult: its arguments and variables, or None
  changed,  \* "command" once what was asked for may have been done, "report"
            \* once variables may have been refreshed with what MPD reports
  lost,     \* whether MPD or an append failed in a way no answer tells
  held,     \* the values of the evented variables at a subscription
  sent      \* the names and values sent, each with the size of its buffer

eventVars == <<next, status, rc, errCode, answer, changed, lost>>
subscription == <<held, sent>>
dispatchVars == <<stage, request, entry, eventVars, subscription>>

\* InstanceID values; atoi takes text without digits for 0.
InstanceIds == {"0", "1", "text"}
Atoi(id) == IF id = "1" THEN 1 ELSE 0

NoRequest == [service |-> "none", action |-> "none", id |-> "0", args |-> {}]

DispatchInit ==
  /\ stage = "idle" /\ request = NoRequest /\ entry = None
  /\ next = 1 /\ status = 0 /\ rc = 0
  /\ errCode = "success" /\ answer = None
  /\ changed = {} /\ lost = FALSE
  /\ held = <<>> /\ sent = <<>>

\* The argument sets control points send: any of the described ones are left
\* out, but for the mode of SetPlayMode, which the handler goes on with as NULL.
GivenArgs(service, action) ==
  {a \in SUBSET UNION {d.in : d \in Described(service, action)} :
     action = "SetPlayMode" => "NewPlayMode" \in a}

\* The action a request names, or None.
Named(service, action) ==
  LET found == FindService(service)
  IN  IF found = None THEN None ELSE FindAction(found, action)

\* The start of handle_action_request; libupnp hands over a request without a
\* result or an error, and the event is a new one.
Dispatch(service, action, id, args) ==
  LET act == Named(service, action)
      known == act # None
  IN  /\ stage = "idle"
      /\ request' = [service |-> service, action |-> action, id |-> id, args |-> args]
      /\ entry' = act
      /\ errCode' = (IF known THEN "success" ELSE "401")
      /\ stage' = (IF ~known THEN "answered"
                   ELSE IF act.script = NoHandler THEN "answered" ELSE "handling")
      /\ UNCHANGED <<next, status, rc, answer, changed, lost, subscription>>

At(op) ==
  /\ stage = "handling" /\ next <= Len(entry.script)
  /\ entry.script[next].op = op

\* A mutation: a step is left out.
GoOnTwice == next' = next + 2 /\ UNCHANGED stage

\* To the next step, or back from the handler with code.
GoOn == next' = next + 1 /\ UNCHANGED stage
Leave(code) == stage' = "returned" /\ rc' = code /\ UNCHANGED next

\* upnp_set_error.
SetError ==
  /\ status' = -1
  /\ answer' = None
  /\ errCode' = "failed"

InstanceGood == "InstanceID" \in request.args /\ Atoi(request.id) = 0

CheckInstance ==
  /\ At("instance") \/ At("instance_on")
  /\ IF InstanceGood
     THEN GoOn /\ UNCHANGED <<status, rc, errCode, answer>>
     ELSE /\ SetError
          /\ IF At("instance_on") THEN GoOn /\ UNCHANGED rc ELSE Leave(-1)
  /\ UNCHANGED <<request, entry, changed, lost, subscription>>

GetArgument ==
  /\ At("argument") \/ At("argument_on")
  /\ IF entry.script[next].name \in request.args
     THEN GoOn /\ UNCHANGED <<status, rc, errCode, answer>>
     ELSE /\ SetError
          /\ IF At("argument_on") THEN GoOn /\ rc' = -1 ELSE Leave(-1)
  /\ UNCHANGED <<request, entry, changed, lost, subscription>>

\* changed grows by some of kinds.
Touch(kinds) == \E more \in SUBSET kinds : changed' = changed \cup more

\* Without a connection the handler fails, and no error is set.  A connection
\* that is made anew comes with a status update.
CheckLink ==
  /\ At("link")
  /\ \/ GoOn /\ Touch({"report"}) /\ UNCHANGED <<rc, lost>>
     \/ Leave(-1) /\ lost' = TRUE /\ UNCHANGED changed
  /\ UNCHANGED <<request, entry, status, errCode, answer, subscription>>

\* An output_* call: it succeeds, with a status update after it or without,
\* or MPD refuses, or the connection breaks and the command may have arrived.
Try ==
  \/ /\ GoOn
     /\ Touch({"command", "report"})
     /\ UNCHANGED <<status, rc, errCode, answer, lost>>
  \/ /\ SetError /\ Leave(-1)
     /\ \/ UNCHANGED <<changed, lost>>
        \/ Touch({"command"}) /\ lost' = TRUE

DoWork ==
  /\ At("work")
  /\ Try
  /\ UNCHANGED <<request, entry, subscription>>

\* The switch of Stop, Pause and Play over transport_state, which other
\* requests and status updates have set.
DoSwitch ==
  /\ At("switch")
  /\ \E state \in TransportStates :
       LET case == Cases[entry.script[next].name][state]
       IN  IF case = "work" THEN Try
           ELSE /\ IF case = "nothing" THEN UNCHANGED <<status, errCode, answer>> ELSE SetError
                /\ IF case = "fail" THEN Leave(-1) ELSE GoOn /\ UNCHANGED rc
                /\ UNCHANGED <<changed, lost>>
  /\ UNCHANGED <<request, entry, subscription>>

DoStore ==
  /\ At("store")
  /\ GoOn
  /\ changed' = changed \cup {"command"}
  /\ UNCHANGED <<request, entry, status, rc, errCode, answer, lost, subscription>>

\* output_update_position may find no connection, which nobody looks at.
DoReport ==
  /\ At("report")
  /\ GoOn
  /\ Touch({"report"})
  /\ UNCHANGED <<request, entry, status, rc, errCode, answer, lost, subscription>>

\* upnp_add_response adds nothing once an error is set.
Refused == status # 0

Filled(pair) == IF answer = None THEN <<pair>> ELSE Append(answer, pair)

\* One upnp_append_variable; libupnp may be unable to add to the answer.
AppendVariable ==
  /\ At("add") \/ At("add_on")
  /\ LET step == entry.script[next]
     IN \/ /\ ~Refused
           /\ answer' = Filled(<<step.name, step.var>>)
           /\ GoOn
           /\ UNCHANGED <<rc, errCode, lost>>
        \/ /\ \/ Refused /\ UNCHANGED <<answer, errCode, lost>>
              \/ ~Refused /\ answer' = None /\ errCode' = "failed" /\ lost' = TRUE
           /\ IF At("add_on") THEN GoOn /\ UNCHANGED rc ELSE Leave(-1)
  /\ UNCHANGED <<request, entry, status, changed, subscription>>

Return ==
  /\ stage = "handling" /\ next > Len(entry.script)
  /\ Leave(rc)
  /\ UNCHANGED <<request, entry, status, errCode, answer, changed, lost, subscription>>

\* A handler that returns 0 clears the error code.
ErrCodeAfter == IF rc = 0 THEN "success" ELSE errCode

\* The end of handle_action_request: an answer that is missing is made.
Finish ==
  /\ stage = "returned"
  /\ stage' = "answered"
  /\ errCode' = ErrCodeAfter
  /\ answer' = (IF answer = None THEN <<>> ELSE answer)
  /\ UNCHANGED <<request, entry, next, status, rc, changed, lost, subscription>>

\* A mutation: the markup of a value is sent as it is.
FirstEventRaw(service, values) ==
  [i \in DOMAIN service.evented |->
     [name |-> service.evented[i], value |-> values[i], room |-> Allocated(values[i], FALSE)]]

\* The evented variables in the order of the table, each escaped.
FirstEvent(service, values) ==
  [i \in DOMAIN service.evented |->
     [name |-> service.evented[i], value |-> Escape(values[i], FALSE),
      room |-> Allocated(values[i], FALSE)]]

\* handle_subscription_request; a service it does not know gets no event.
Subscribe(name, values) ==
  LET service == FindService(name)
  IN  /\ stage = "idle"
      /\ stage' = "subscribed"
      /\ request' = [NoRequest EXCEPT !.service = name]
      /\ entry' = None
      /\ held' = values
      /\ sent' = (IF service = None THEN <<>> ELSE FirstEvent(service, values))
      /\ UNCHANGED eventVars

\* libupnp sends what it was given; the event and the request are gone.
Send ==
  /\ stage \in {"answered", "subscribed"}
  /\ stage' = "idle" /\ request' = NoRequest /\ entry' = None
  /\ next' = 1 /\ status' = 0 /\ rc' = 0
  /\ errCode' = "success" /\ answer' = None
  /\ changed' = {} /\ lost' = FALSE
  /\ held' = <<>> /\ sent' = <<>>

Handle ==
  \/ CheckInstance \/ GetArgument \/ CheckLink \/ DoWork \/ DoSwitch \/ DoStore \/ DoReport
  \/ AppendVariable \/ Return \/ Finish \/ Send

DispatchNext ==
  \/ \E service \in {s.name : s \in ToSet(Services)} \cup {"other"} :
       \/ \E action \in ActionNames \cup {"other"}, id \in InstanceIds :
            \E args \in GivenArgs(service, action) : Dispatch(service, action, id, args)
       \/ \E text, plain \in Texts : Subscribe(service, <<text, plain, text>>)
  \/ Handle

DispatchSpec == DispatchInit /\ [][DispatchNext]_dispatchVars
-----------------------------------------------------------------------------
(* Properties.                                                             *)

DispatchTypeOK ==
  /\ stage \in {"idle", "handling", "returned", "answered", "subscribed"}
  /\ next \in 1 .. (IF entry = None THEN 1 ELSE Len(entry.script) + 1)
  /\ status \in {0, -1} /\ rc \in {0, -1}
  /\ errCode \in {"success", "failed", "401"}
  /\ changed \subseteq {"command", "report"} /\ lost \in BOOLEAN

\* What the control point gets: libupnp sends an error for an error code and
\* for an answer that is missing.
Succeeded == stage = "answered" /\ errCode = "success" /\ answer # None
Failed == stage = "answered" /\ ~Succeeded

\* A success is true: every step of the handler was carried out and no error
\* was set on the way, also where the handler went on after it, unless the
\* player was lost or libupnp could not add to the answer (get_transport_info,
\* upnp_add_response, handle_action_request).
SuccessIsTrue ==
  Succeeded /\ ~lost => status = 0 /\ next > Len(entry.script)

\* The handlers whose answer is not the one their argument list describes, and
\* the one that does not look at a failed append.
Deviating ==
  {"GetMediaInfo", "GetTransportSettings", "GetDeviceCapabilities", "GetVolumeDB",
   "GetCurrentConnectionIDs"}
Careless == {"GetProtocolInfo"}

\* A success of any other handler, and of the careless one if no append
\* failed, answers the arguments its service describes, all of them in this
\* order, each with its related variable: the calls of the handler agree with
\* the list at its place in the table (argument_list, gen_scpd_actionlist,
\* upnp_append_variable).
AnsweredAsDescribed ==
  Succeeded /\ entry.name \notin Deviating /\ (lost => entry.name \notin Careless) =>
    \E d \in Described(request.service, request.action) : d.out = answer

\* Arguments the handlers never read, or do without.
Optional == {"Speed", "Channel", "CurrentURIMetaData"}

\* The player is commanded, or a variable set as asked, only for a request
\* with the right instance and all its service asks for, and not for one that
\* is refused; but for SetAVTransportURI, which has set the URI when it finds
\* that the metadata is missing, and for a command whose answer was lost.  All
\* else a refused request leaves behind is variables refreshed with what MPD
\* reports (get_volume, output_update_position, check_mpd_connection).
RefusedUnchanged ==
  stage = "answered" /\ "command" \in changed =>
    /\ InstanceGood
    /\ \E d \in Described(request.service, request.action) : d.in \ Optional \subseteq request.args
    /\ Failed /\ ~lost => /\ entry.name = "SetAVTransportURI"
                          /\ "CurrentURIMetaData" \notin request.args

\* A subscription is sent the evented variables of its service and no other,
\* each written inside its buffer, and a reader finds in it the value the
\* variable had, markup and all (handle_subscription_request, xmlescape).
FirstEventWhole ==
  stage = "subscribed" =>
    \A s \in ToSet(Services) : s.name = request.service =>
      /\ [i \in DOMAIN sent |-> sent[i].name] = s.evented
      /\ \A i \in DOMAIN sent : /\ Len(sent[i].value) + 1 = sent[i].room
                                /\ "<" \notin ToSet(sent[i].value)
                                /\ Read(sent[i].value) = held[i]
=============================================================================
