# UPnPMPD in TLA+

A TLA+ model of UPnPMPD, the UPnP media renderer that drives the music player
daemon (MPD), with TLC runs and TLAPS proofs. All source paths below are under
`src/src/`; `PROJECT.json` names the lines each definition stands for.

## The system

UPnPMPD is one process between two peers. On one side libupnp calls it from a
pool of worker threads, with actions and subscriptions of control points and
with requests for its virtual files. On the other it holds one connection to an
MPD server, through libmpdclient. Nothing is persisted.

    control points --> libupnp workers --> upnp_device.c  (dispatch, subscriptions)
                                             |        device_mutex
                                  upnp_transport.c   upnp_control.c   upnp_connmgr.c
                                   transport_mutex    control_mutex
                                             |           |
                                           output_mpd.c  (mpd_mutex, mpd_conn) --> MPD

output_mpd.c also calls back: a status it receives is written into the transport
variables of upnp_transport.c. That is where most of the difficulty lies: the same
variables have two writers, each under a mutex of its own.

### Inventory

| part | state | operations | what is hard | what makes it correct |
|---|---|---|---|---|
| MPD output, `output_mpd.c` | `mpd_conn`, `mpdvolume`, `mutevolume`, `mpd_mutex` | `check_mpd_connection`, `output_*`, `update_mpd_status` | every command can be refused or lose the link; each has several exits from its critical section; the pointer is freed and cleared in two steps | the mutex is held whenever the connection or a received status is in use, and given back; no freed connection is used; a lost one is made again |
| AVTransport, `upnp_transport.c` | `transport_state`, `transport_values`, `transport_mutex` | Play, Stop, Pause, Seek, Next, Previous, SetPlayMode, SetAVTransportURI, the Get actions, subscription | handlers choose by state that another thread or MPD changes; three handlers do not lock; state, variable and event are written one after the other | what is published is what MPD does; the writes exclude each other; no deadlock |
| RenderingControl, `upnp_control.c` | `control_values`, `control_mutex` | SetMute, GetMute, SetVolume, GetVolume, subscription | mute is a volume of 0 with the old one kept; status updates change the local volume meanwhile | what control points see is what is heard |
| Device dispatch, `upnp_device.c` | `device_mutex`, `device_handle`; an `action_event` per request | action, subscription, response, `upnp_device_init` | the subscription holds one mutex and takes another; it reads the evented variable outside the service's mutex; what is answered depends on an error code, a return code and a response that are set separately | no circle of mutexes; a success is true; a first event that is whole |
| Web server, `webserver.c` | list of files, a handle per transfer | register, get_info, open, read, seek, close | boundaries; registration that partly fails; the list has no lock | the bytes announced, in order, and no others |
| ConnectionManager, `upnp_connmgr.c` | MIME types, protocol info | register_mime_type, connmgr_init, the Get actions | buffer size against contents; the variables have no lock in connmgr_init | every type once; the buffer is large enough; all control points are told the same |
| Descriptions, `upnp.c`, `upnp_renderer.c` | constant tables, the device name | generate_scpd, generate_desc, find_service, find_action | agreement of the tables with the handlers | a success answers the arguments the description lists |
| XML escaping, `xmlescape.c` | none | xmlescape | two passes that name the characters separately | the text written fits, and reads as the value |
| Start, `main.c` | `gIF_NAME`, `gIF_IPV4` | options, interface, start order | every stage can fail; libupnp's threads run before the start is over | unlocked lists are complete before a thread can read them; a failed start leaves nothing running |

The hazards, with the lines where they bite and the properties that cover them,
are listed in `PROJECT.json`.

## Modules

| module | models | extends / uses |
|---|---|---|
| `MpdOutput` | the control of `output_mpd.c`, under the most general client | |
| `MpdLink` | what `output_mpd.c` promises about its connection (abstract) | implemented by `MpdOutput` |
| `AVTransport` | the locking handlers of `upnp_transport.c`, its part of `upnp_device.c` | extends `MpdOutput` |
| `RenderingControl` | `upnp_control.c`, its part of `upnp_device.c` | extends `MpdOutput` |
| `Services` | both services on one device | extends `AVTransport`, instantiates `RenderingControl` |
| `TrackData` | the data `output_mpd.c` and `set_avtransport_uri` publish of a track | |
| `WebServer` | `webserver.c` | |
| `ConnectionManager` | `upnp_connmgr.c` up to the end of `connmgr_init` | |
| `Device` | the start of the program beside libupnp's threads | extends `WebServer`, `ConnectionManager` |
| `XmlEscape` | `xmlescape.c` | |
| `ActionDispatch` | requests, tables, descriptions and answers of all services; the first event | extends `XmlEscape` |
| `MC...` | model values, symmetry and restricted initial states for TLC | one per specification |
| `MpdOutputProofs` | theorems about `MpdOutput` and `MpdLink` | |
| `ServicesProofs`, `TransportProofs` | theorems about `Services` | the second extends the first |
| `SharingProofs` | what the parts of `Services` keep together | extends `ServicesProofs`, `MpdOutputProofs`, instantiates `RenderingControlProofs` |
| `RenderingControlProofs`, `TrackProofs` | theorems about `RenderingControl`, `TrackData` | |
| `DeviceProofs` | theorems about `WebServer`, `ConnectionManager` and `Device` | |
| `ActionDispatchProofs` | theorems about `ActionDispatch` and `XmlEscape` | |

Locking, data and answers are three views of the same handlers, in modules of their
own: `AVTransport` and `RenderingControl` keep every point where threads interfere and
forget what is told; `TrackData` keeps what is told and makes a handler one step;
`ActionDispatch` keeps the course of a handler to its answer and forgets the player.

### MpdOutput

A thread's call of an `output_*` function is an activation: `op`, `arg`, the place
`pc` it has reached and the `rc` it will return. A step is what happens between
two points where another thread can interfere or a request can fail: taking
or releasing `mpd_mutex`, one request to MPD with its outcome, one write to the
shared variables. Reads and writes made without the mutex (the test of `mpd_conn` in
`output_set_uri`, the saved volume of `output_set_mute`, the volume of
`output_get_volume`) are steps of their own, and so are the writes that a second
mutex should have protected: `transport_state`, then the TransportState variable.

`mpd_conn` is `"null"`, `"ok"`, `"bad"` (a fatal error, about to be freed), `"freed"`
(freed, pointer not yet cleared) or `"acked"`: libmpdclient keeps an error of the
server on the connection until `mpd_connection_clear_error`, which the code never
calls, and every later command fails at once. A request on NULL or freed memory
ends the program (`crashed`); on freed memory it may also fail like a broken
link.

MPD is external: its player state, the head of its queue and its volume, with the effect
of each command as the code relies on it. Any answer of it may be lost with the link,
the song of a status included, whatever the queue holds. `Env` says what may go wrong in
a run: `"ack"` (the server refuses), `"link"` (the link fails, or the reconnect),
`"nomem"`, `"garbled"` (a status without a known state), `"moves"` (a song ends, another
client plays), `"mixer"` (another client sets the volume). `TestMode` is the
`--testmode` option: its early returns are in `Entry`.

### AVTransport, RenderingControl and Services

The first two put the handlers on top: `at[t]` is a handler's place, `req[t]` its
action. A handler that has called an `output_*` function waits in `"checking"` or
`"calling"` while `Inner(t)` of `MpdOutput` runs its call. `LastChange` is modelled
with the free and the store of `transport_set_var` and `control_set_var` as separate
steps, because a subscription reads it without the service's mutex. An event is what
it says of the state, or of volume and mute, not its text. `Main` is the main thread
with the single status update of `output_loop`. In `RenderingControl` alone the threads
may also make calls of `Ops`: the updates the other service causes.

`Services` lets one pool of threads serve both: the places and events of
RenderingControl become `rcAt`, `rcReq`, `rcSaid`, ..., its mutex stays its own, and
`device_mutex` and all of `MpdOutput` are shared. A thread serves one request at a
time (`Free`).

### TrackData

Here a handler or an update is one step. `link` tells apart a connection over which
a whole status update has come (`"heard"`), one over which none has yet (`"new"`), none
(`"down"`) and one with an error that is never cleared (`"acked"`). The code knows no
difference between the first two, but only the first means that what is published is
of what MPD has now: `Connect` is the check of the handlers, whose reconnect brings an
update, and `Position` that of GetPositionInfo, whose reconnect brings none. An update
(`UpdateOverLink`) comes whole, without its song, or not at all (`Broken`).

MPD has a queue, a place in it and an elapsed time; the renderer has `track_duration`
and the variables a control point reads. A time text is the triple of its numbers;
`Shown` is `"%02d:%02d:%02d"` in a buffer of ten bytes, so it cuts the seconds after 999
hours, and `Counted` the number alone in the same buffer, which loses the last of ten
digits. Metadata is the URI it is about and its duration attribute, if it has one; a
control point sends metadata that is about the URI it sends. No other client gives MPD
commands.

### Device, WebServer, ConnectionManager

`stage` is the place main has reached in `Order`, the order of the calls in `main`,
`output_mpd_init` and `upnp_device_init`; every stage may fail. libupnp's threads serve
files as soon as it has the callbacks and the directory (`Serving`), and answer
GetProtocolInfo once the device is registered. The contents of a file are the pairs of
the file and an index, so a byte served twice, left out or taken from another file is
visible. A handle belongs to one transfer; `start` and `got` record what was read since
the last seek. `AsInt` is the conversion of an unsigned size to int on the way to the
minimum of a read; that libupnp reads into a buffer whose size an int can hold is an
assumption (`SizesAssumption`). `Merge` is the copy loop of `upnp_renderer_new` by
offsets. `Consider` is one turn of the loop of `getIfInfo`, and each turn is a step:
`turn` counts them, `named` is what `gIF_NAME` holds meanwhile.

### ActionDispatch and XmlEscape

A handler is a script: which checks it makes in which order, after which failures it
goes on, and which arguments it answers from which variables. `Switch` names a handler
that chooses by `transport_state`, `Cases` are the switch statements of the three. A
`Work`, a `Switch` that leads to it and a `Store` may command the player or set a
variable as asked ("command" in `changed`); `Report`, and a status update after a
reconnect or a command, refresh variables with what MPD says ("report").

The calls of the handlers and the argument lists are written down separately, each
from its own place in the source, so that the two can disagree, and `Scpd` is the
description generated from the tables alone. The searches of the tables are by name up
to the entry without one (`FindAction`), the description goes by the count.

Arguments are given or left out,
InstanceID is 0, 1 or no number. Every step that can fail may fail.
`XmlEscape` has both passes of `xmlescape`, each as the function from the number of
characters it has passed to what it has by then, and an XML reader in the same form.

## Runs

Passing runs:

| run | question |
|---|---|
| `output_locked` | Is the connection, and the state published from it, covered by `mpd_mutex` on every path, with every fault? Does a successful command publish what MPD reported after it? Does the connection behave as `MpdLink`? |
| `av_calm` | With MPD obeying, do the locked handlers exclude each other, and is what they publish, send and choose by what MPD does? |
| `services_faults` | With refusals, a broken link and another client at the mixer, both services at once: is every critical section owned, is no mutex kept by a request that is over, is there no circle of waiting threads, does every volume MPD is given lie in 0..100? |
| `services_live` | The main thread's first update beside a request of each service, over a link that breaks: does some thread always come to answer, and is a lost connection made again? |
| `rc_calm` | Do the published mute and volume tell what is heard? Is `control_mutex` given back? |
| `device_start` | Is everything without a lock at rest before libupnp's threads can see it? Is what is announced whole, the address the one that was asked for, and libupnp stopped when the start fails? Does the protocol info fit its buffer? Are exactly the announced bytes delivered, and never any outside the file? |
| `dispatch` | Is a success true, and is it the answer the description promises? Has a refused request commanded nothing? Is a first event whole? |
| `track` | Are duration, position and metadata those of the track they are told of, and do seeks stay inside it? |

`av_calm` is an instance of `Services` without requests of the RenderingControl
service and without the main thread: its properties are those of `AVTransport`.
`output_locked` names in `ExclusiveNext` the steps that its `Ops` leave possible.

TLC's deadlock check is on in every run: in `av_calm` it covers
GetPositionInfo, which must release `transport_mutex` before it builds its answer,
and in `services_faults` the subscription, which takes three mutexes.

Runs that find a disagreement (one property each, TLC's counterexample is the
result; the quoted line is in `PROJECT.json`):

| run | what happens |
|---|---|
| `output_position` | `output_update_position` unlocks twice when its status request fails, and frees another thread's mutex |
| `av_null` | the connection is checked, lost and used: NULL reaches libmpdclient |
| `av_acked` | one refused command makes every later one fail |
| `rc_silent` | an unmute restores volume 0 that nobody asked for |

Because of these, the passing runs say under which conditions the good property
holds: `output_locked` and the proofs about the connection leave out the position
poll, `av_calm` the three unlocked handlers and the empty queue.

### Known weaknesses without a run

The models contain these behaviours too; they were met while modelling, and the
passing runs are chosen, or their properties worded, so that they do not depend on
them.

- Next, Previous and Seek, and a connection check that reconnects, write the
  transport variables without `transport_mutex`, which "protects transport_values,
  and service-specific state" (upnp_transport.c:437 against 1095 and 895): `SetState`
  and `SetVar` beside `SetTransportState` and `ChangeVar`. The adopted URI of such an
  update can overwrite one that SetAVTransportURI has just set (output_mpd.c:924).
- A Stop can be served before the first status update of `output_loop`
  (output_mpd.c:1015 against main.c:514): `Switch` with `transportState = "UNSET"`.
- SetAVTransportURI answers success though MPD did not take the URI
  (upnp_transport.c:666): `ClearQueue` and `AddUri` fail, `SetAvUri` goes on. Without
  the metadata argument it answers an error when the URI is already set
  (upnp_transport.c:692); `RefusedUnchanged` and `MetadataOwn` name the case.
- A handler that finds no connection returns -1 without an error code, and the
  control point is told success with an empty response (upnp_transport.c:1001,
  upnp_device.c:342): `CheckLink`, and `lost` in `SuccessIsTrue`.
- GetMediaInfo, GetTransportSettings, GetDeviceCapabilities and GetVolumeDB do not
  answer what their tables describe, and GetCurrentConnectionIDs answers the text "0" in
  place of its variable (upnp_connmgr.c:299): `Deviating`. GetProtocolInfo does not
  look at a failed append (289): `Careless`.
- A refused GetVolume or GetPositionInfo has refreshed variables with what MPD reports
  (upnp_control.c:711, upnp_transport.c:792): `Report`.
- Play on an empty queue publishes PLAYING over the STOPPED just read
  (upnp_transport.c:1021): `SetState`, then `SetTransportState`.
- From the second SetAVTransportURI on, the track URI names a previous track
  (upnp_transport.c:668): `SetUri` leaves `trackUri` alone.
- After Next in a queue of several songs the published duration, and the limit of
  seeks, is that of the first one (output_mpd.c:904): `Known`. For a stream the
  duration attribute of its metadata or, without one, the duration of the track
  before is taken (911).
- GetPositionInfo reconnects without a status update (output_mpd.c:975, 164). Until
  the next update the published duration, or the limit of seeks, may be another
  track's: that of metadata which came while the link was lost (upnp_transport.c:686),
  or of the song before. In `TrackData` that is `Position`, which leads to `link = "new"`;
  `DurationTold` and `SeekInside` speak of `"heard"`.
- GetPositionInfo takes the mutex for each of its variables, so that its answer may
  mix two tracks (upnp_transport.c:796). In the model one acquisition (`NextPlace`,
  `Append`) stands for its eight, and for the three of GetTransportInfo (741): threads
  come between the update and the answer, not between two variables of the answer.
- CurrentPlayMode is published although MPD refused the mode, and REPEAT_ONE is
  compared as REPEAT-ONE (output_mpd.c:589, upnp_transport.c:188): `SendPlayMode`.
- A subscription reads `LastChange` without the service's mutex (upnp_device.c:278):
  between the free and the store of another handler, or after another handler has
  replaced the full event by a partial one: `ReadLast` against `Notify`, `Send` and
  `ChangeVolume`.
- SetVolume publishes the volume as it was asked for, also outside the declared
  range (upnp_control.c:740): `ChangeVolume`. RenderingControl publishes a mute or a
  volume that MPD refused (698), and its handlers use the connection without a check.
- The hardware address goes into the device name one place too early: a dash of the
  template is lost and one of its digits stays (upnp_renderer.c:173): `Merge`. The
  name remains unique (`NamesDiffer`).
- The hardware address is that of the first of wlan0, eth0 and eth1 that exists, the
  IP address that of the first usable interface: they may differ (main.c:463, 172). An
  interface without IPv4 makes `getIfInfo` forget the name it was asked for (224).

Outside the models: SetPlayMode without its argument goes on with NULL
(upnp_transport.c:858), a time text without colons is read past its end
(output_mpd.c:190), the presentation URL is never registered with the web server,
and TRANSITIONING and NO_MEDIA_PRESENT are declared but never assigned.

### Bounds

No bound cuts a behaviour off: no counter grows, and each run is exhaustive.

- Threads: two workers; each property speaks of one thread or of two that meet, and all
  mutexes have one owner. `services_live` has a third, the main one. The theorems are
  for any number.
- Values: one URI where the runs compare states (two songs and a stream in `track`, with
  queues of up to two), two volumes with the lower limit or one above the range, one
  play mode `output_playmode` knows and one it does not.
- `track`: a duration attribute longer than either song, targets inside, past and before
  a song, elapsed times around the thousandth hour and past 10^9 seconds.
- `device_start`: ints of four bits (`MaxInt` is 7), files of 0 and 3 bytes with buffers
  of 1, 2 and 7: below, at and above what is left; seeks before, to and past both ends;
  type lists with a duplicate, with the two names of MPEG audio in the unusual order,
  and empty; hosts with the loopback first, a second interface beyond `MaxInterfaces` (2
  in the run), the first interface without IPv4.
- `dispatch`: all tables of the program, all subsets of the arguments (but NewPlayMode
  is always given), all texts of up to two of the characters `xmlescape` tells apart.

Symmetry is used on the worker threads, never in a run with a liveness property.

Handlers are chosen per run so that each run is exhaustive within minutes:
`services_faults` has one of each kind (one that chooses its command, the one that sets
a URI, one that does not lock, a subscription of each service). Between them the
passing runs take every handler but Previous, which differs from Next only in its
command (`output_prev`, taken in `output_locked`), and Seek, whose commands are taken
there too and in `track`; the theorems about `Services` cover all.

### Fairness

`RCFairSpec` and `AVFairSpec` ask that a thread inside a call or a handler
goes on when it can (weak fairness): worker threads are scheduled by the operating system
and libmpdclient's requests end, by a reply or by the timeout the connection is
made with. `Scheduled` asks the same of the threads of `Services`, and that control
points keep sending requests to AVTransport (strong fairness, as all threads may be
busy in between), without which "a later command reconnects" would be empty; so does
`AVBusySpec`, for `ErrorClears`. A pthread mutex promises no order among its waiters,
so no property says that each request is answered, only that some request always is.

## Proofs

The proofs hold for every set of threads, URIs, volumes, play modes, requests and
faults, files, hosts and songs that the named assumptions allow. `PROJECT.json` lists
the theorems; here is the argument of each.

### The connection (`MpdOutputProofs`)

- `TypeCorrect`: `Spec => []TypeOK`. The state is split into what is shared, where
  each call is, and what it holds; one lemma per action.
- `MutexCorrect` and `ConnectionSafe`: `MutexHeld` and `NoUseAfterFree`, if
  `output_update_position` is not called (`NoPosition`; the run `output_position` shows
  that they do not hold with it). `MutexHeld` alone is not inductive: a
  thread may come back from `output_printError` to wherever `cont` says, and a freed
  connection may only be seen by the thread about to clear it. `SafeInv` adds where the
  continuations may lead (`Placed`) and that a freed connection has exactly such a
  thread (`Freeing`).
- `StateCorrect`: under the same `NoPosition`, `[]StatePublished`, strengthened to: the
  two agree or are unset unless some thread is between its two writes, and then that
  thread holds the mutex.
- `SuccessPublishes`: `[]SuccessRefreshes`, under `NoPosition` again. What keeps it is
  that nobody else writes `transport_state` while the caller owns the mutex
  (`OthersKept`), and that a call whose status update could not publish has lost its
  connection or failed; only `output_playmode` passes the labels of the command list.
- `ImplementsLink`: `MpdOutput` implements `MpdLink` under the mapping of `mpdMutex` to
  `user` and `LinkOf(conn)` to `link`. It rests on `SafeInv`: that a step changes
  the link only as its user is `MutexHeld`, and that the two steps of freeing map to
  one `Discard` and a stutter is `Freeing`.

### Both services (`ServicesProofs`)

- `HandlersHoldAlways`, `SubscriptionsHold`, `NothingIsKept` and `NeverInACircle`, all
  from `MutexInv`, with the position poll and every handler. `MutexInv`
  says for each mutex which places its owner may be at and, but for `mpd_mutex`, that
  whoever is at such a place owns it; and that a thread is in one request (`OneRequest`),
  so that a subscription of one service and a handler of the other are never mixed
  up in a thread. Both directions are needed: the first gives that nothing is kept and
  that no owner waits for its own mutex, the second that critical sections are
  owned. The circle is then excluded by ranking the mutexes: `device_mutex`, the two
  service mutexes, `mpd_mutex`; an owner of one waits only for one further down, so
  of any group of waiting threads one waits for nobody in it.
- `ServicesTyped`: `ServicesTypeOK`, with the range of every volume given to MPD. The
  clamp of `output_set_volume` is not enough for it: `TypesInv` needs to know what each
  call has in hand between its unlocked reads and its request (`CallHolds`), and which
  request a handler serves where it uses the argument (`ControlRequest`).

### What AVTransport publishes (`TransportProofs`)

The four properties of `av_calm`, under two levels of conditions.

- `VariablesAgree` and `TransportIsProtected` hold for `ServicesSpec` under `Linked`: no
  test mode, no main thread, no handler that goes without `transport_mutex` (Next,
  Previous, Seek), and no fault of the link or refusal. The player may move on its own,
  a status may lack a known state, another client may be at the mixer, the queue may be
  empty. The conditions are needed: with an unlocked handler, a reconnect or
  the first update of the main thread, two threads write the variables; when MPD
  refuses, a handler publishes what it expected.
- `StateIsThePlayers` and `EventsTellTheTruth` speak of the player and ask for more:
  `Calm` leaves out a player that moves on its own, which is ahead of what was read
  last, and statuses without a known state, which are no state of MPD's; `QueuedSpec`
  starts with a song queued, as on an empty queue Play publishes PLAYING.

RenderingControl may serve any requests meanwhile, which the run leaves out. One
invariant serves both levels: `CalmInv(obeys)` speaks of the player where `obeys` is
TRUE and only of the variables where it is FALSE.

The handlers write under `transport_mutex` and `update_mpd_status` under `mpd_mutex`, so
neither mutex alone protects the variables. `CalmInv` therefore says who calls whom:
whoever is in a status update is in a call of a handler, and that handler owns
`transport_mutex` (`CallingOwns`, with `MutexInv`). `OwnerInv` is then what this one
thread knows at each place: before it has told MPD anything all agrees, in the call
`Progress` says how far MPD is ahead of what is published, and where it writes the state
it expects, that is the player's. With `transport_mutex` free, `DataInv` says all agree.

### What RenderingControl publishes (`RenderingControlProofs`)

`MuteIsSilence` and `VolumeIsHeard` hold under a `Calm` of their own: MPD does not
refuse, the link holds, no other client is at the mixer and no call from
elsewhere sets the volume; the second also asks for volumes in 0..100, as the
published one is the text of the request. `SoundInv` says that the saved `mpdvolume` is
the mixer's even in the steps where it is read without `mpd_mutex`, because a status
update that is about to write it has read the same volume, and the mixer changes
only under that mutex; and it follows the owner of `control_mutex` from its call over
the two variables to the event (`CallKnows`, `OwnerKnows`). The volume
saved by a mute need not be known: an unmute publishes what it reads back.

### Both services over one output (`SharingProofs`)

What `MpdOutput` promises the most general client and what `RenderingControl` promises
beside any other callers is carried over to `Services`, where the code puts them.

- `MpdTyped`, `MutexShared`, `ConnectionShared` and `ServicesLink`. `TransportServed` and
  `ControlServed` show what a step of a handler is for `output_mpd.c`: a step of a
  call, a call with an argument that fits (`Asked`: the argument is the request's), or
  `Aside`, which writes nothing but the transport variables, AVTransportURI and the end of
  the process. The invariants of `MpdOutputProofs` survive each of them. Apart from
  `MpdTyped` all ask that GetPositionInfo is not served (`NoPoll`), for the reason the run
  `output_position` shows; that no thread then comes to call the position update is
  `Unpolled`. They include the main thread, every fault and test mode.
- `MuteShared` and `VolumeShared`. For RenderingControl a thread that is in a call
  AVTransport made is elsewhere; `Rendering` instantiates `RenderingControlProofs` with
  the places seen that way (`Within`). Each step of the services is then a handler's step
  of RenderingControl, a step of a call, a call from elsewhere or its return, or
  `Silent`: it leaves alone what `SoundInv` speaks of. The conditions (`Ours`)
  are those of RenderingControl alone and no main thread; AVTransport may serve all
  its handlers, the position poll and the unlocked ones included, and the player may
  move on its own. No run checks the two properties of `Services`; `rc_calm` checks
  them of RenderingControl with `output_update_status` called from elsewhere.

### The start (`DeviceProofs`)

- `DeviceComposes`: a run of `Device` is one of `WebServer` and of `ConnectionManager`,
  so that what is proved of them holds beside the start. A step of `Device` takes a step
  of at most one of the two.
- `ReadsCorrect` and `FilesDelivered`: no transfer's position leaves its file, and it
  has got exactly the bytes from its last seek on, in order. `HandleOK` ties `pos`,
  `start`, `got` and `ended` of a handle together; `BytesJoin` says that two reads in a
  row give what one would have given.
- `BufferSafe`, `TypesListedOnce` and `TypesToldWhole`: in `connmgr_init` the position
  is the end of the buffer after each entry, as what is allocated for one is what is
  written (`RoomIsWritten`), and an entry is not empty, so the terminator replaces a
  comma; a list never names a type twice; what is written is a prefix of the types
  registered, and all of them once `initRc` is ok, which it is before libupnp can ask
  (`WrittenInv`, `StartInv`).
- `DeviceTyped`, `FilesAtRest`, `AnnouncedIsWhole`, `AddressIsAsked` and
  `FailedStartStops`, from `StartInv`: `Reached(i)` says what holds once the start has
  come to the i-th place of `Order` (which calls libupnp has had, that no file is
  pending, that the name is made), and `AddressInv` follows the loop of `getIfInfo`:
  with IPv4 everywhere, `gIF_NAME` is still the name asked for while no address is
  found.
- `NamesDiffer`: the device name determines the hardware address.

### The track (`TrackProofs`)

`TrackTyped`, `DurationIsTold`, `PositionIsTold`, `SeeksStayInside` and `MetadataIsOwn`,
from `TrackInv`. Durations and seeks are right over a connection over which an update
has come: every way to `"heard"` is a whole update, and whatever makes the duration
stale (a new queue, a song that is lost with the link) passes through a song that is not
played or a link that is not heard. The position needs that text and count are `Shown`
and `Counted` of one number (`PositionInv`), that `Counted` below 10^8 is that number,
and `ShownSeconds`: reading the text back gives it for a thousand hours. The metadata
needs that no metadata is kept while no URI is set (`UnsetInv`), as an update then
adopts a URI with metadata of its own.

### Requests and answers (`ActionDispatchProofs`)

The five properties of the run `dispatch`, from one inductive invariant.

- `EventProved`: `FirstEventWhole` for texts of every length. It takes an induction over
  the text, three times: that both passes of `xmlescape` are at the same place after
  each character (`SizeMatches`), that no `<` is written (`NoMarkup`), and that the
  reader, having read what is written of the first n characters, has these n characters
  and is inside no entity (`ReadsBack`). The library's induction rules take an operator
  as a parameter, which the provers cannot instantiate; `Upwards` gets the same from the
  well-foundedness of the order of the naturals, with a set of numbers in the place of
  the operator, and `LoopExists` is the one recursive definition the others are cases
  of.
- `SuccessProved`, `DescribedProved`, `RefusedProved`, `DispatchTypeCorrect`: `Sound(e,
  a)` is what the script of an action `e` must be like beside the arguments `a` at its
  place in the other table, whatever its length: it checks before it commands
  (`ChecksFirst`), no state the player is found in leads to the cases of a switch that
  only set an error (`Allows`), where it goes on without an instance it appends next,
  which then fails (`AppendsNext`), and its appends come last and are what `a` describes
  (`Describes`, for all but the five of `Deviating`). `PlacesSound` goes through both
  tables place by place; the lemmas it uses compare the two transcriptions, so that a
  name or a variable that differs in one of them leaves an obligation unproved. From
  there on only `Sound` is used, and an entry added to the tables needs no more than its
  own case. `FirstNamed`, `Asked` and `PlaceFound` say that the searches lead to one
  place of both tables. `DispatchInv` ties the place in the script to what has happened:
  which arguments were given if it came that far (`Passed`), that an error that is set
  stays (`Errors`), that only a work, a switch or a store commands (`Changes`,
  `Commanded`), and that the answer is the appends already passed (`Answers`).

### Assumptions, and what stays with TLC

The assumptions are those named in the modules (`NoneAssumption`, `OpsAssumption`,
`EnvAssumption`, `VolumesAssumption`, `NoVolumeAssumption`, `HandlersAssumption`,
`MainAssumption`, `ControlHandlersAssumption`, `MutesAssumption`, `LengthAssumption`,
`SizesAssumption`, `OffsetsAssumption`, `TypesAssumption`, `HostsAssumption`,
`TrackAssumption`, `TextsAssumption`); TLC evaluates them in every run.
`NoVolumeAssumption` says that the mark for "no volume" is not a number, the others say
what the constants are.

Only model-checked:

- all liveness: `ServiceAnswers`, `Reconnects`, `RCAnswers`. Fairness and ENABLED are out
  of the prover's reach.
- the runs that find a disagreement, where TLC's counterexample is the result.

## Not modelled

Still to do, in this order: the abstract specification of the eventing (a first
event that is whole, then the changes in their order) with `LastChange` as a
sequence; CurrentPlayMode with the names of the modes; the state variable tables of
`upnp.c` with allowed values and ranges against what the handlers publish.

Left out for good: option parsing, the debug signal handler, the document text
around names and values, the advertisements (pure input and output), the picture
actions of the video build (constant variables). MPD reporting volume -1 (no mixer) is
not in the model.
