CONSTANTS
  t1 = t1
  t2 = t2
  u1 = u1
  Threads = {t1}
  None = None
  NoUri = NoUri
  Uris = {u1}
  Volumes = {30}
  PlayModes = {"NORMAL"}
  TestMode = FALSE
  Ops = {}
  Env = {}
  Mutes = {"0", "1"}
  Handlers = {"SetMute"}
SPECIFICATION AudibleSpec
INVARIANT UnmutedAudible
