----------------------------- MODULE MCTrackData -----------------------------
(* TLC instances of TrackData.                                              *)
EXTENDS TrackData, TLC

CONSTANTS song1, song2, radio

\* A song of three minutes, one of more than an hour, a stream.
Lengths == song1 :> 200 @@ song2 :> 4000 @@ radio :> 0

\* What metadata claims: longer than either song.
Attributes == {<<2, 0, 0>>}

\* A target inside all songs, one past them and one before the start.
SeekTexts == {<<0, 1, 1>>, <<1, 30, 0>>, <<0, -1, 0>>}
=============================================================================
