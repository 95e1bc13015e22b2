CONSTANTS
  t1 = t1
  t2 = t2
  u1 = u1
  Threads = {t1, t2}
  None = None
  NoUri = NoUri
  Uris = {u1}
  Volumes = {0, 30}
  PlayModes = {"NORMAL"}
  TestMode = FALSE
  Ops = {"output_update_status"}
  Env = {}
  Mutes = {"0", "1", "other"}
  Handlers = {"SetMute", "GetMute", "SetVolume", "GetVolume", "Subscribe"}
SPECIFICATION RCFairSpec
INVARIANTS MuteMeansSilent UnmutedVolumeTrue
PROPERTY RCAnswers
