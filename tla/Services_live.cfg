CONSTANTS
  t0 = t0
  t1 = t1
  t2 = t2
  u1 = u1
  Threads = {t0, t1, t2}
  None = None
  Main = t0
  NoUri = NoUri
  Uris = {u1}
  Volumes = {50}
  PlayModes = {"NORMAL"}
  Mutes = {"0", "1"}
  TestMode = FALSE
  Ops = {}
  Env = {"link"}
  Handlers = {"GetPositionInfo"}
  ControlHandlers = {"GetVolume"}
SPECIFICATION PlayingSpec
PROPERTIES ServiceAnswers Reconnects
