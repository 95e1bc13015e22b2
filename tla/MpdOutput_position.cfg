CONSTANTS
  t1 = t1
  t2 = t2
  u1 = u1
  Threads = {t1, t2}
  None = None
  NoUri = NoUri
  Uris = {u1}
  Volumes = {50}
  PlayModes = {"NORMAL", "REPEAT_ONE"}
  TestMode = FALSE
  Env = {"ack", "link"}
  Ops = {"output_play", "output_update_position"}
SYMMETRY Symmetry
SPECIFICATION Spec
INVARIANT UpdateHoldsMutex
