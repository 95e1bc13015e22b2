CONSTANTS
  song1 = song1
  song2 = song2
  radio = radio
  Uris = {song1, song2, radio}
  Duration <- Lengths
  Tagged = {song1, radio}
  Durations <- Attributes
  Elapsed = {0, 3599999, 3600009, 1000000007}
  Targets <- SeekTexts
  Empty = Empty
SPECIFICATION TrackSpec
INVARIANTS TrackTypeOK DurationTold MetadataOwn PositionTold
PROPERTY SeekInside
