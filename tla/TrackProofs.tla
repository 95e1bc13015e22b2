----------------------------- MODULE TrackProofs -----------------------------
(***************************************************************************)
(* Theorems about TrackData, for all songs, lengths and play positions.    *)
(* TrackInv strengthens the properties: the type invariant says that no    *)
(* clamped target and no parsed duration is negative, and as long as no    *)
(* URI was set there is no metadata either.                                *)
(***************************************************************************)
EXTENDS TrackData, TLAPS

PositionInv ==
  relTime # Empty => \E v \in Nat : relTime = Shown(v) /\ relCount = Counted(v)

UnsetInv == avUri = Empty => avMeta = Empty

TrackInv == TrackTypeOK /\ PositionInv /\ DurationTold /\ UnsetInv /\ MetadataOwn
-----------------------------------------------------------------------------
(* What the time text keeps of a number of seconds: all of it below 1000    *)
(* hours, and never more than the number (update_track_position).           *)
THEOREM ShownSeconds ==
  ASSUME NEW v \in Nat
  PROVE  /\ Shown(v) \in Times
         /\ Seconds(Shown(v)) <= v
         /\ v < 3600000 => Seconds(Shown(v)) = v
<1> DEFINE hh == v \div 3600
           rest == v - hh * 3600
           mm == rest \div 60
           ss == rest - mm * 60
           cut == IF hh < 1000 THEN ss ELSE IF hh < 10000 THEN ss \div 10 ELSE 0
<1>1. hh \in Nat /\ rest \in 0 .. 3599
  OBVIOUS
<1>2. mm \in Nat /\ ss \in 0 .. 59
  <2> HIDE DEF rest
  <2> QED BY <1>1
<1>3. v = hh * 3600 + mm * 60 + ss
  <2>1. rest = mm * 60 + ss
    <3> HIDE DEF rest
    <3> QED BY <1>1, <1>2
  <2> HIDE DEF mm, ss
  <2> QED BY <1>1, <1>2, <2>1
<1>4. v < 3600000 => hh < 1000
  OBVIOUS
<1>5. cut \in Nat /\ cut <= ss /\ (hh < 1000 => cut = ss)
  <2> HIDE DEF hh, ss
  <2> QED BY <1>1, <1>2
<1>6. Shown(v) = <<hh, mm, cut>>
  BY DEF Shown
<1> HIDE DEF hh, rest, mm, ss, cut
<1>7. Seconds(Shown(v)) = hh * 3600 + mm * 60 + cut
  BY <1>6 DEF Seconds
<1> QED BY <1>1, <1>2, <1>3, <1>4, <1>5, <1>6, <1>7 DEF Times

(* What the count keeps of a number: all of nine digits, and of more at      *)
(* least as much (update_track_position).                                   *)
LEMMA CountedNat ==
  ASSUME NEW v \in Nat
  PROVE  /\ Counted(v) \in Nat
         /\ Counted(v) < 100000000 => Counted(v) = v
BY DEF Counted

(* update_track_position leaves both forms of one number.                   *)
LEMMA PositionFits ==
  ASSUME NEW v \in Nat, SetPosition(v)
  PROVE  relTime' \in Times /\ relCount' \in Nat /\ PositionInv'
BY ShownSeconds, CountedNat DEF SetPosition, PositionInv

(* A duration that is parsed is not negative (parsetimetosecs).             *)
LEMMA SecondsNat == ASSUME NEW text \in Times PROVE Seconds(text) \in Nat
BY DEF Times, Seconds

(* A clamped target is one of the seconds of the track (output_seekto).     *)
LEMMA ClampInside ==
  ASSUME track_duration \in Nat, NEW text \in Int \X Int \X Int
  PROVE  Clamp(Seconds(text)) \in 0 .. track_duration
BY DEF Clamp, Seconds
-----------------------------------------------------------------------------
(* What a status update leaves behind: a duration and a position that fit,  *)
(* and the duration of a song MPD knows the length of is its own            *)
(* (update_mpd_status).                                                     *)
LEMMA UpdateFits ==
  ASSUME TrackTypeOK, NEW q \in Seq(Uris), NEW at \in 0 .. Len(q), NEW e \in Nat,
         Update(q, at, e)
  PROVE  /\ track_duration' \in Nat /\ trackDur' \in Times
         /\ relTime' \in Times /\ relCount' \in Nat
         /\ PositionInv'
         /\ q # <<>> /\ Duration[Head(q)] # 0 =>
              /\ track_duration' = Duration[Head(q)]
              /\ trackDur' = Shown(track_duration')
<1>1. relTime' \in Times /\ relCount' \in Nat /\ PositionInv'
  BY PositionFits DEF Update
<1>2. CASE q = <<>>
  BY <1>1, <1>2 DEF Update, TrackTypeOK
<1>3. CASE q # <<>>
  <2>1. Head(q) \in Uris /\ (at # 0 => q[at] \in Uris)
    BY <1>3
  <2>2. Known(q, at) \in Nat
    BY <2>1, TrackAssumption DEF Known
  <2>3. SetDuration(Known(q, at))
    BY <1>3 DEF Update
  <2>4. track_duration' \in Nat /\ trackDur' \in Times
    <3>1. CASE Known(q, at) = 0
      BY <2>3, <3>1, SecondsNat DEF SetDuration, TrackTypeOK
    <3>2. CASE Known(q, at) # 0
      BY <2>2, <2>3, <3>2, ShownSeconds DEF SetDuration
    <3> QED BY <3>1, <3>2
  <2>5. Duration[Head(q)] # 0 => /\ track_duration' = Duration[Head(q)]
                                 /\ trackDur' = Shown(track_duration')
    BY <2>3 DEF SetDuration, Known
  <2> QED BY <1>1, <2>4, <2>5
<1> QED BY <1>2, <1>3

(* An update adopts a URI only while none was set, and makes metadata only  *)
(* of the URI it adopts (update_mpd_status, get_track_metadata).            *)
LEMMA AdoptsOwn ==
  ASSUME UnsetInv, MetadataOwn, bare' = bare,
         UNCHANGED metaVars \/ \E uri \in Uris : AdoptUri(uri)
  PROVE  UnsetInv' /\ MetadataOwn'
<1>1. CASE UNCHANGED metaVars
  BY <1>1 DEF metaVars, UnsetInv, MetadataOwn
<1>2. CASE \E uri \in Uris : AdoptUri(uri)
  <2>1. PICK uri \in Uris : AdoptUri(uri)
    BY <1>2
  <2>2. CASE avUri # Empty
    BY <1>1, <2>1, <2>2 DEF AdoptUri
  <2>3. CASE avUri = Empty
    <3>1. avUri' = uri /\ uri # Empty /\ avMeta = Empty
      BY <2>1, <2>3, TrackAssumption DEF AdoptUri, UnsetInv
    <3>2. avMeta' = Empty \/ avMeta' = Meta(uri, trackDur')
      BY <2>1, <2>3, <3>1 DEF AdoptUri
    <3>3. avMeta' # Empty => avMeta'.about = uri
      BY <3>2 DEF Meta
    <3> QED BY <3>1, <3>3 DEF UnsetInv, MetadataOwn
  <2> QED BY <2>2, <2>3
<1> QED BY <1>1, <1>2

(* An update has adopted the first song of the queue or nothing.            *)
LEMMA UpdateAdopts ==
  ASSUME NEW q \in Seq(Uris), NEW at, NEW e, Update(q, at, e)
  PROVE  UNCHANGED metaVars \/ \E uri \in Uris : AdoptUri(uri)
<1>1. q # <<>> => Head(q) \in Uris
  OBVIOUS
<1> QED BY <1>1 DEF Update, metaVars

(* The same for an update over a link that may be lost on the way.          *)
LEMMA UpdateOverLinkFits ==
  ASSUME TrackTypeOK, PositionInv, NEW q \in Seq(Uris), NEW at \in 0 .. Len(q),
         NEW e \in Nat, UpdateOverLink(q, at, e)
  PROVE  /\ track_duration' \in Nat /\ trackDur' \in Times
         /\ relTime' \in {Empty} \cup Times /\ relCount' \in Nat
         /\ link' \in {"heard", "down"} /\ PositionInv'
         /\ link' = "heard" /\ q # <<>> /\ Duration[Head(q)] # 0 =>
              /\ track_duration' = Duration[Head(q)]
              /\ trackDur' = Shown(track_duration')
         /\ UNCHANGED metaVars \/ \E uri \in Uris : AdoptUri(uri)
<1>1. CASE Update(q, at, e) /\ link' \in {"heard", "down"}
  BY <1>1, UpdateFits, UpdateAdopts DEF TrackTypeOK
<1>2. CASE WithoutSong(e) /\ link' = "down"
  BY <1>2, PositionFits DEF WithoutSong, metaVars, TrackTypeOK
<1>3. CASE Broken /\ link' = "down"
  BY <1>3 DEF Broken, positionVars, metaVars, TrackTypeOK, PositionInv
<1> QED BY <1>1, <1>2, <1>3 DEF UpdateOverLink
-----------------------------------------------------------------------------
LEMMA TrackInitInv == TrackInit => TrackInv
<1> SUFFICES ASSUME TrackInit PROVE TrackInv
  OBVIOUS
<1>1. queue \in Seq(Uris) /\ song \in 0 .. Len(queue)
  <2>1. queue \in Seq(Uris)
    <3>1. CASE queue = <<>>
      BY <3>1
    <3>2. CASE \E u \in Uris : queue = <<u>>
      BY <3>2
    <3>3. CASE \E u, v \in Uris : queue = <<u, v>>
      BY <3>3
    <3> QED BY <3>1, <3>2, <3>3 DEF TrackInit
  <2>2. song \in 0 .. Len(queue)
    BY DEF TrackInit
  <2> QED BY <2>1, <2>2
<1>2. TrackTypeOK
  <2>1. NoCount \in Nat
    BY SMT DEF NoCount
  <2>2. trackDur \in Times
    BY SMT DEF TrackInit, Times
  <2> QED BY <1>1, <2>1, <2>2 DEF TrackInit, TrackTypeOK
<1>3. PositionInv /\ UnsetInv /\ MetadataOwn /\ DurationTold
  BY DEF TrackInit, PositionInv, UnsetInv, MetadataOwn, DurationTold
<1> QED BY <1>2, <1>3 DEF TrackInv

(* What SetAVTransportURI does to MPD: its queue is the URI or nothing, and  *)
(* it is stopped, as long as the link is good for a whole update.           *)
LEMMA NewQueueFits ==
  ASSUME TrackTypeOK, NEW uri \in Uris, NewQueue(uri)
  PROVE  /\ queue' \in Seq(Uris) /\ song' \in 0 .. Len(queue') /\ elapsed' \in Nat
         /\ link' \in {"down", "new", "heard", "acked"}
         /\ link' = "heard" => song' = 0
<1>1. CASE queue' = <<uri>> /\ song' = 0 /\ elapsed' = 0 /\ link' \in {link, "down"}
  BY <1>1 DEF TrackTypeOK
<1>2. CASE queue' = <<>> /\ song' = 0 /\ elapsed' = 0 /\ link' \in {"acked", "down"}
  BY <1>2
<1>3. CASE link' \in {"acked", "down"} /\ UNCHANGED mpdVars
  BY <1>3 DEF TrackTypeOK, mpdVars
<1>4. CASE ~Usable /\ UNCHANGED <<mpdVars, link>>
  BY <1>4 DEF Usable, TrackTypeOK, mpdVars
<1> QED BY <1>1, <1>2, <1>3, <1>4 DEF NewQueue

(* Every step keeps types, position and duration.                           *)
LEMMA FitsStep ==
  ASSUME TrackTypeOK, PositionInv, DurationTold, [TrackNext]_trackVars
  PROVE  TrackTypeOK' /\ PositionInv' /\ DurationTold'
<1> USE DEF mpdVars, positionVars
<1>0. /\ queue \in Seq(Uris) /\ song \in 0 .. Len(queue) /\ elapsed \in Nat
      /\ Len(queue) = 1 => queue # <<>> /\ Head(queue) = queue[1]
  <2>1. queue \in Seq(Uris) /\ song \in 0 .. Len(queue) /\ elapsed \in Nat
    BY DEF TrackTypeOK
  <2>2. ASSUME NEW q \in Seq(Uris), Len(q) = 1 PROVE q # <<>> /\ Head(q) = q[1]
    BY <2>2
  <2> QED BY <2>1, <2>2
<1>1. CASE Connect \/ Subscribed
  <2>1. UpdateOverLink(queue, song, elapsed) /\ UNCHANGED <<queue, song, elapsed, bare>>
    BY <1>1 DEF Connect, Subscribed
  <2> QED BY <1>0, <2>1, UpdateOverLinkFits DEF TrackTypeOK, DurationTold
<1>2. CASE Play
  <2>1. song' \in 0 .. Len(queue) /\ UpdateOverLink(queue, song', elapsed)
    BY <1>0, <1>2 DEF Play
  <2> QED BY <1>0, <1>2, <2>1, UpdateOverLinkFits DEF Play, TrackTypeOK, DurationTold
<1>3. CASE Stop
  <2>1. UpdateOverLink(queue, 0, 0)
    BY <1>3 DEF Stop
  <2>2. 0 \in 0 .. Len(queue)
    BY <1>0
  <2> QED BY <1>0, <1>3, <2>1, <2>2, UpdateOverLinkFits DEF Stop, TrackTypeOK, DurationTold
<1>4. CASE NextSong
  <2>1. song' \in 0 .. Len(queue) /\ UpdateOverLink(queue, song', 0)
    BY <1>0, <1>4 DEF NextSong
  <2> QED BY <1>0, <1>4, <2>1, UpdateOverLinkFits DEF NextSong, TrackTypeOK, DurationTold
<1>5. CASE Position
  <2>1. relTime' \in Times /\ relCount' \in Nat /\ PositionInv'
    BY <1>0, <1>5, PositionFits DEF Position
  <2> QED BY <1>5, <2>1 DEF Position, TrackTypeOK, DurationTold
<1>6. CASE PlayOn
  <2>1. elapsed' \in Nat
    BY <1>6, TrackAssumption DEF PlayOn
  <2> QED BY <1>6, <2>1 DEF PlayOn, TrackTypeOK, PositionInv, DurationTold
<1>7. CASE SongEnds
  BY <1>0, <1>7 DEF SongEnds, TrackTypeOK, PositionInv, DurationTold
<1>8. CASE \E uri \in Uris : SetUriBare(uri)
  <2>1. PICK uri \in Uris : SetUriBare(uri)
    BY <1>8
  <2>2. NewQueue(uri)
    BY <2>1 DEF SetUriBare
  <2>3. TrackTypeOK' /\ PositionInv'
    BY <2>1, <2>2, NewQueueFits DEF SetUriBare, TrackTypeOK, PositionInv
  <2>4. link' = "heard" => song' = 0
    BY <2>2, NewQueueFits
  <2> QED BY <2>3, <2>4 DEF DurationTold
<1>9. CASE \E uri \in Uris : \E meta \in Metas(uri) : SetUri(uri, meta)
  <2>0. PICK uri \in Uris : \E meta \in Metas(uri) : SetUri(uri, meta)
    BY <1>9
  <2>1. PICK meta \in Metas(uri) : SetUri(uri, meta)
    BY <2>0
  <2>2. meta.duration \in {Empty} \cup Times
    BY TrackAssumption DEF Metas, Meta
  <2>3. trackDur' \in Times
    BY <2>1, <2>2 DEF SetUri, TrackTypeOK
  <2>4. NewQueue(uri)
    BY <2>1 DEF SetUri
  <2>5. TrackTypeOK'
    BY <2>1, <2>3, <2>4, NewQueueFits DEF SetUri, TrackTypeOK
  <2>6. PositionInv' /\ (link' = "heard" => song' = 0)
    BY <2>1, <2>4, NewQueueFits DEF SetUri, PositionInv
  <2> QED BY <2>5, <2>6 DEF DurationTold
<1>10. CASE \E text \in Targets : SeekTo(text)
  <2>1. PICK text \in Targets : SeekTo(text)
    BY <1>10
  <2>2. elapsed' \in Nat
    <3>1. text \in Int \X Int \X Int /\ track_duration \in Nat
      BY TrackAssumption DEF TrackTypeOK
    <3>2. Clamp(Seconds(text)) \in 0 .. track_duration
      BY <3>1, ClampInside
    <3> QED BY <2>1, <3>1, <3>2 DEF SeekTo
  <2>3. UpdateOverLink(queue, song, elapsed')
    BY <2>1 DEF SeekTo
  <2> QED BY <1>0, <2>1, <2>2, <2>3, UpdateOverLinkFits DEF SeekTo, TrackTypeOK, DurationTold
<1>11. CASE RequestFails
  BY <1>11 DEF RequestFails, TrackTypeOK, PositionInv, DurationTold
<1>12. CASE UNCHANGED trackVars
  BY <1>12 DEF trackVars, TrackTypeOK, PositionInv, DurationTold
<1> QED
  BY <1>1, <1>2, <1>3, <1>4, <1>5, <1>6, <1>7, <1>8, <1>9, <1>10, <1>11, <1>12
  DEF TrackNext
-----------------------------------------------------------------------------
(* Every step keeps the metadata's owner.                                   *)
LEMMA MetaStep ==
  ASSUME TrackTypeOK, PositionInv, UnsetInv, MetadataOwn, [TrackNext]_trackVars
  PROVE  UnsetInv' /\ MetadataOwn'
<1>0. queue \in Seq(Uris) /\ song \in 0 .. Len(queue) /\ elapsed \in Nat
  BY DEF TrackTypeOK
<1>2. CASE \/ Connect \/ Subscribed \/ Play \/ Stop \/ NextSong
           \/ \E text \in Targets : SeekTo(text)
  <2>1. bare' = bare /\ \E i, e : UpdateOverLink(queue, i, e)
    BY <1>2 DEF Connect, Subscribed, Play, Stop, NextSong, SeekTo
  <2>2. UNCHANGED metaVars \/ \E uri \in Uris : AdoptUri(uri)
    BY <1>0, <2>1, UpdateAdopts DEF UpdateOverLink, Broken, WithoutSong, metaVars
  <2> QED BY <2>1, <2>2, AdoptsOwn
<1>3. CASE RequestFails \/ Position \/ PlayOn \/ SongEnds \/ UNCHANGED trackVars
  <2>1. UNCHANGED <<bare, metaVars>>
    BY <1>3 DEF RequestFails, Position, PlayOn, SongEnds, trackVars
  <2> QED BY <2>1, AdoptsOwn
<1>4. CASE \E uri \in Uris : SetUriBare(uri)
  BY <1>4, TrackAssumption DEF SetUriBare, UnsetInv, MetadataOwn
<1>5. CASE \E uri \in Uris : \E meta \in Metas(uri) : SetUri(uri, meta)
  <2>0. PICK uri \in Uris : \E meta \in Metas(uri) : SetUri(uri, meta)
    BY <1>5
  <2>1. PICK meta \in Metas(uri) : SetUri(uri, meta)
    BY <2>0
  <2>2. meta.about \in {Empty, uri}
    BY DEF Metas, Meta
  <2>3. avMeta' = Empty \/ avMeta'.about = uri
    BY <2>1, <2>2 DEF SetUri, NewMeta
  <2> QED BY <2>1, <2>3, TrackAssumption DEF SetUri, UnsetInv, MetadataOwn
<1> QED BY <1>2, <1>3, <1>4, <1>5 DEF TrackNext

LEMMA TrackStep == TrackInv /\ [TrackNext]_trackVars => TrackInv'
BY FitsStep, MetaStep DEF TrackInv

THEOREM TrackInvariant == TrackSpec => []TrackInv
BY TrackInitInv, TrackStep, PTL DEF TrackSpec

(* The player stands at a song of its queue or at none, no duration or      *)
(* position is ever negative, and a position that is shown is a time        *)
(* (update_mpd_status, parsetimetosecs).                                    *)
THEOREM TrackTyped == TrackSpec => []TrackTypeOK
<1>1. TrackInv => TrackTypeOK
  BY DEF TrackInv
<1> QED BY <1>1, TrackInvariant, PTL

(* The published duration, and the one seeks are clamped with, are those of *)
(* the one song SetAVTransportURI has queued, of any length, as soon as an  *)
(* update has come over the present connection (update_mpd_status).         *)
THEOREM DurationIsTold == TrackSpec => []DurationTold
<1>1. TrackInv => DurationTold
  BY DEF TrackInv
<1> QED BY <1>1, TrackInvariant, PTL

(* The metadata is about the URI, for any number of URIs set in any order   *)
(* (set_avtransport_uri, get_track_metadata).                               *)
THEOREM MetadataIsOwn == TrackSpec => []MetadataOwn
<1>1. TrackInv => MetadataOwn
  BY DEF TrackInv
<1> QED BY <1>1, TrackInvariant, PTL

(* The two forms of the position agree up to 1000 hours, and the text never *)
(* shows more than the count, until the count is cut itself                 *)
(* (update_track_position).                                                 *)
THEOREM PositionIsTold == TrackSpec => []PositionTold
<1>1. ASSUME TrackInv, relTime # Empty
      PROVE  /\ relCount < 100000000 => Seconds(relTime) <= relCount
             /\ relCount < 3600000 => Seconds(relTime) = relCount
  <2>1. PICK v \in Nat : relTime = Shown(v) /\ relCount = Counted(v)
    BY <1>1 DEF TrackInv, PositionInv
  <2>2. relCount < 100000000 => relCount = v
    BY <2>1, CountedNat
  <2>3. relCount \in Nat
    BY <1>1 DEF TrackInv, TrackTypeOK
  <2> QED BY <2>1, <2>2, <2>3, ShownSeconds
<1>2. TrackInv => PositionTold
  BY <1>1 DEF PositionTold
<1> QED BY <1>2, TrackInvariant, PTL

(* A seek stays inside the song that is queued alone, for every target and  *)
(* length: once an update has come over the present connection, it is       *)
(* clamped with that song's own duration (output_seekto).                   *)
THEOREM SeeksStayInside == TrackSpec => SeekInside
<1>1. ASSUME TrackInv, NEW text \in Targets, SeekTo(text), link = "heard",
             Len(queue) = 1, Duration[queue[song]] # 0
      PROVE  elapsed' <= Duration[queue[song]]
  <2>1. elapsed' = Clamp(Seconds(text)) /\ song # 0
    BY <1>1 DEF SeekTo
  <2>2. song = 1
    BY <1>1, <2>1 DEF TrackInv, TrackTypeOK
  <2>3. track_duration = Duration[queue[song]] /\ track_duration \in Nat
    BY <1>1, <2>1, <2>2 DEF TrackInv, TrackTypeOK, DurationTold
  <2>4. Clamp(Seconds(text)) \in 0 .. track_duration
    BY <1>1, <2>3, TrackAssumption, ClampInside
  <2> QED BY <2>1, <2>3, <2>4
<1>2. TrackInv =>
        [\A text \in Targets :
           SeekTo(text) /\ link = "heard" /\ Len(queue) = 1 /\ Duration[queue[song]] # 0 =>
             elapsed' <= Duration[queue[song]]]_trackVars
  BY <1>1
<1> QED BY <1>2, TrackInvariant, PTL DEF SeekInside
=============================================================================
