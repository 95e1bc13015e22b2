------------------------------ MODULE TrackData -----------------------------
(***************************************************************************)
(* What the renderer tells of the track: the data side of                  *)
(* update_mpd_status, get_track_metadata, update_track_position,           *)
(* output_seekto and set_avtransport_uri.  The locking of these functions  *)
(* is in MpdOutput and AVTransport; here each one is a single step, and    *)
(* the question is whether durations, positions, URIs and metadata of      *)
(* different tracks are ever mixed up.                                     *)
(*                                                                         *)
(* A time text "h:m:s" is the triple of its numbers, and an empty text is  *)
(* Empty.  The metadata of a track is the record of the URI it is about    *)
(* and of its duration attribute, Empty if it has none.                    *)
(*                                                                         *)
(* link is what mpd_conn is good for:                                      *)
(*   "down"   NULL: there is no connection                                 *)
(*   "new"    a connection over which no whole status update has come      *)
(*   "heard"  a connection over which one has come                         *)
(*   "acked"  the server refused a request; the error is never cleared,    *)
(*            and every later request fails                                *)
(* The code does not tell "new" from "heard": what was published under     *)
(* another connection stays, and DurationTold and SeekInside need the      *)
(* difference.                                                             *)
(***************************************************************************)
EXTENDS Integers, Sequences

CONSTANTS
  Empty,
  Uris,
  Duration,   \* the length MPD knows of each in seconds, 0 for a stream
  Tagged,     \* the ones with a title or a name
  Durations,  \* duration attributes of the metadata control points send
  Elapsed,    \* play positions, in seconds
  Targets     \* time texts control points seek to

Times == Nat \X Nat \X Nat

ASSUME TrackAssumption ==
  /\ Empty \notin Uris
  /\ Durations \subseteq Times
  /\ Targets \subseteq Int \X Int \X Int
  /\ Duration \in [Uris -> Nat]
  /\ Tagged \subseteq Uris
  /\ Elapsed \subseteq Nat /\ 0 \in Elapsed

VARIABLES
  queue, song, elapsed,  \* MPD: its queue, the place in it (0 when stopped)
  link,                  \* the connection to MPD
  track_duration,
  trackDur,              \* CurrentTrackDuration
  relTime, relCount,     \* RelativeTimePosition, RelativeCounterPosition
  avUri, avMeta,         \* AVTransportURI, AVTransportURIMetaData
  trackUri, trackMeta,   \* CurrentTrackURI, CurrentTrackMetaData
  bare                   \* the last URI came without a metadata argument

mpdVars == <<queue, song, elapsed>>
positionVars == <<relTime, relCount>>
metaVars == <<avUri, avMeta, trackUri, trackMeta>>
trackVars == <<mpdVars, link, track_duration, trackDur, positionVars, metaVars, bare>>
-----------------------------------------------------------------------------
(* Times.                                                                  *)

\* parsetimetosecs.
Seconds(text) == text[1] * 3600 + text[2] * 60 + text[3]

\* A mutation: the buffer is a byte shorter.
ShownShort(v) ==
  LET hh == v \div 3600
      mm == (v - hh * 3600) \div 60
      ss == v - hh * 3600 - mm * 60
  IN  <<hh, mm, IF hh < 100 THEN ss ELSE IF hh < 1000 THEN ss \div 10 ELSE 0>>

\* "%02d:%02d:%02d" in a buffer of ten bytes, of which the text may use nine:
\* of the seconds one digit is left after 999 hours, none after 9999.
Shown(v) ==
  LET hh == v \div 3600
      mm == (v - hh * 3600) \div 60
      ss == v - hh * 3600 - mm * 60
  IN  <<hh, mm, IF hh < 1000 THEN ss ELSE IF hh < 10000 THEN ss \div 10 ELSE 0>>

\* A mutation: the target is not compared with the length of the track.
ClampLow(v) == IF v < 0 THEN 0 ELSE v

\* A mutation: a target before the start is passed on.
ClampHigh(v) == IF v > track_duration THEN track_duration ELSE v

\* output_seekto: never before the start or past track_duration.
Clamp(v) == IF v < 0 THEN 0 ELSE IF v > track_duration THEN track_duration ELSE v
-----------------------------------------------------------------------------
(* The status update.                                                      *)

Meta(uri, duration) == [about |-> uri, duration |-> duration]

\* A mutation: a duration that is known is kept.
KnownKept(q, at) ==
  IF track_duration # 0 THEN track_duration ELSE Duration[Head(q)]

\* The length of the first song of the queue, or else of the current one.
Known(q, at) ==
  IF Duration[Head(q)] # 0 THEN Duration[Head(q)]
  ELSE IF at = 0 THEN 0 ELSE Duration[q[at]]

\* Without any length the published duration is taken as the last resort.
SetDuration(known) ==
  /\ track_duration' = (IF known = 0 THEN Seconds(trackDur) ELSE known)
  /\ trackDur' = (IF known = 0 THEN trackDur ELSE Shown(known))

\* While no URI was set, the one of the song in the queue is adopted, with
\* metadata made of its tags if there is none.
AdoptUri(uri) ==
  IF avUri # Empty
  THEN UNCHANGED metaVars
  ELSE LET make == avMeta = Empty /\ uri \in Tagged
           made == Meta(uri, trackDur')
       IN  /\ avUri' = uri /\ trackUri' = uri
           /\ avMeta' = (IF make THEN made ELSE avMeta)
           /\ trackMeta' = (IF make THEN made ELSE trackMeta)

\* "%d" in the same buffer: of ten digits, the most an int has, the last is
\* lost.
Counted(v) == IF v < 1000000000 THEN v ELSE v \div 10

\* update_track_position.
SetPosition(e) ==
  /\ relTime' = Shown(e)
  /\ relCount' = Counted(e)

\* update_mpd_status with queue q, the player at its place at, e seconds in.
Update(q, at, e) ==
  /\ IF q = <<>>
     THEN UNCHANGED <<track_duration, trackDur, metaVars>>
     ELSE SetDuration(Known(q, at)) /\ AdoptUri(Head(q))
  /\ SetPosition(e)

\* An update that found the connection broken: nothing is set.
Broken == UNCHANGED <<track_duration, trackDur, metaVars, positionVars>>

\* One whose song did not arrive: the status that came before it is used.
WithoutSong(e) ==
  /\ UNCHANGED <<track_duration, trackDur, metaVars>>
  /\ SetPosition(e)

\* A status update over the link, at most the last of whose answers is lost
\* with it, or none of whose songs, or none of whose answers comes.
UpdateOverLink(q, at, e) ==
  \/ Update(q, at, e) /\ link' \in {"heard", "down"}
  \/ WithoutSong(e) /\ link' = "down"
  \/ Broken /\ link' = "down"
-----------------------------------------------------------------------------
(* Operations.                                                             *)

\* "Not implemented": the initial value of the counter positions.
NoCount == 2147483647

\* MPD may hold a queue already, and play it, when the renderer is started;
\* the connection is made before the first status update.
TrackInit ==
  /\ queue \in {<<>>} \cup {<<u>> : u \in Uris} \cup {<<u, v>> : u, v \in Uris}
  /\ song \in 0 .. Len(queue) /\ elapsed = 0
  /\ link = "new"
  /\ track_duration = 0
  /\ trackDur = <<0, 0, 0>>
  /\ relTime = Empty /\ relCount = NoCount
  /\ avUri = Empty /\ avMeta = Empty /\ trackUri = Empty /\ trackMeta = Empty
  /\ bare = FALSE

Usable == link \in {"new", "heard"}

\* check_mpd_connection(TRUE), which all handlers of player commands call: a
\* new connection starts with a status update.
Connect ==
  /\ link = "down"
  /\ UpdateOverLink(queue, song, elapsed)
  /\ UNCHANGED <<mpdVars, bare>>

\* The updates of output_loop and of a new subscriber, over the connection
\* there is.
Subscribed ==
  /\ link # "down"
  /\ link = "acked" => Broken
  /\ UpdateOverLink(queue, song, elapsed)
  /\ UNCHANGED <<mpdVars, bare>>

\* A request of a handler that is refused or lost on its way.
RequestFails ==
  /\ link # "down"
  /\ link' \in {"acked", "down"}
  /\ UNCHANGED <<mpdVars, track_duration, trackDur, positionVars, metaVars, bare>>

\* A mutation: empty metadata does not replace the old one.
NewMetaIfAny(meta) == IF meta.about = Empty THEN avMeta ELSE meta

\* The metadata of a URI replaces the old one, also when it is empty.
NewMeta(meta) == IF meta.about = Empty THEN Empty ELSE meta

\* output_set_uri: the queue becomes this URI; or it is only cleared, when MPD
\* refuses the URI or does not get it; or nothing reaches MPD.
NewQueue(uri) ==
  \/ /\ Usable
     /\ \/ queue' = <<uri>> /\ link' \in {link, "down"}
        \/ queue' = <<>> /\ link' \in {"acked", "down"}
     /\ song' = 0 /\ elapsed' = 0
  \/ Usable /\ link' \in {"acked", "down"} /\ UNCHANGED mpdVars
  \/ ~Usable /\ UNCHANGED <<mpdVars, link>>

\* set_avtransport_uri: the variables are set whatever became of the queue.
SetUri(uri, meta) ==
  /\ NewQueue(uri)
  /\ avUri' = uri
  /\ avMeta' = NewMeta(meta)
  /\ trackDur' = (IF meta.duration = Empty THEN trackDur ELSE meta.duration)
  /\ bare' = FALSE
  /\ UNCHANGED <<track_duration, positionVars, trackUri, trackMeta>>

\* The same without the CurrentURIMetaData argument.
SetUriBare(uri) ==
  /\ NewQueue(uri)
  /\ avUri' = uri
  /\ bare' = TRUE
  /\ UNCHANGED <<track_duration, trackDur, positionVars, avMeta, trackUri, trackMeta>>

\* Play, Stop and Next; each is followed by an update.
Play ==
  /\ Usable /\ queue # <<>>
  /\ song' = (IF song = 0 THEN 1 ELSE song)
  /\ UpdateOverLink(queue, song', elapsed)
  /\ UNCHANGED <<queue, elapsed, bare>>

Stop ==
  /\ Usable
  /\ song' = 0 /\ elapsed' = 0
  /\ UpdateOverLink(queue, 0, 0)
  /\ UNCHANGED <<queue, bare>>

NextSong ==
  /\ Usable /\ song # 0
  /\ song' = (IF song < Len(queue) THEN song + 1 ELSE 0)
  /\ elapsed' = 0
  /\ UpdateOverLink(queue, song', 0)
  /\ UNCHANGED <<queue, bare>>

\* xseek and output_seekto, refused while the player is stopped.
SeekTo(text) ==
  /\ Usable /\ song # 0
  /\ elapsed' = Clamp(Seconds(text))
  /\ UpdateOverLink(queue, song, elapsed')
  /\ UNCHANGED <<queue, song, bare>>

\* output_update_position, which makes a connection too but no update.
Position ==
  /\ link # "acked"
  /\ SetPosition(elapsed)
  /\ link' = (IF link = "down" THEN "new" ELSE link)
  /\ UNCHANGED <<mpdVars, track_duration, trackDur, metaVars, bare>>

\* The track ends; MPD goes on with the next one, if there is one.
SongEnds ==
  /\ song # 0 /\ Duration[queue[song]] # 0
  /\ song' = (IF song < Len(queue) THEN song + 1 ELSE 0)
  /\ elapsed' = 0
  /\ UNCHANGED <<queue, link, track_duration, trackDur, positionVars, metaVars, bare>>

\* MPD plays on, inside the track; no other client gives it commands.
PlayOn ==
  /\ song # 0
  /\ \E e \in Elapsed :
       /\ Duration[queue[song]] # 0 => e <= Duration[queue[song]]
       /\ elapsed' = e
  /\ UNCHANGED <<queue, song, link, track_duration, trackDur, positionVars, metaVars, bare>>

Metas(uri) ==
  {Meta(Empty, Empty)} \cup {Meta(uri, d) : d \in Durations \cup {Empty}}

TrackNext ==
  \/ Connect \/ Subscribed \/ RequestFails \/ Position
  \/ Play \/ Stop \/ NextSong \/ PlayOn \/ SongEnds
  \/ \E uri \in Uris : SetUriBare(uri) \/ \E meta \in Metas(uri) : SetUri(uri, meta)
  \/ \E text \in Targets : SeekTo(text)

TrackSpec == TrackInit /\ [][TrackNext]_trackVars
-----------------------------------------------------------------------------
(* Properties.                                                             *)

TrackTypeOK ==
  /\ queue \in Seq(Uris) /\ song \in 0 .. Len(queue) /\ elapsed \in Nat
  /\ link \in {"down", "new", "heard", "acked"} /\ bare \in BOOLEAN
  /\ track_duration \in Nat
  /\ trackDur \in Times
  /\ relTime \in {Empty} \cup Times /\ relCount \in Nat

\* A seek never leaves the track that is played, though it is clamped with a
\* duration kept from the last status update: while the queue is the one song
\* SetAVTransportURI has made it, MPD knows its length, and an update has come
\* over the present connection, as after every reconnect but the one of
\* GetPositionInfo (output_seekto, update_mpd_status).
SeekInside ==
  [][\A text \in Targets :
       SeekTo(text) /\ link = "heard" /\ Len(queue) = 1 /\ Duration[queue[song]] # 0 =>
         elapsed' <= Duration[queue[song]]]_trackVars

\* While such a song is played and an update has come over the present
\* connection, the published duration and the one seeks are clamped with are
\* both its own, whatever its metadata said, whatever was refused, and however
\* often the link was lost in between (update_mpd_status, set_avtransport_uri).
DurationTold ==
  link = "heard" /\ song # 0 /\ Len(queue) = 1 /\ Duration[queue[1]] # 0 =>
    /\ track_duration = Duration[queue[1]]
    /\ trackDur = Shown(track_duration)

\* The transport metadata is about the transport URI, made up or not, unless
\* that URI came without a metadata argument, which is answered with an error
\* (set_avtransport_uri, get_track_metadata).
MetadataOwn ==
  avMeta # Empty /\ ~bare => avMeta.about = avUri

\* The two forms of the position agree for 1000 hours, which a stream may
\* outlast; after that the text shows less than the count, until the count
\* itself is cut (update_track_position).
PositionTold ==
  relTime # Empty =>
    /\ relCount < 100000000 => Seconds(relTime) <= relCount
    /\ relCount < 3600000 => Seconds(relTime) = relCount
=============================================================================
