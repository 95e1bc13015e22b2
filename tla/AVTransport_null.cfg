CONSTANTS
  t0 = t0
  t1 = t1
  t2 = t2
  u1 = u1
  u2 = u2
  Threads = {t1, t2}
  None = None
  Main = None
  NoUri = NoUri
  Uris = {u1}
  Volumes = {50}
  PlayModes = {"NORMAL", "REPEAT_ONE"}
  TestMode = FALSE
  Ops = {}
  Env = {"link"}
  Handlers = {"Play"}
SYMMETRY Symmetry
SPECIFICATION AVSpec
INVARIANT CheckedConnection
