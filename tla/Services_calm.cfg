CONSTANTS
  t0 = t0
  t1 = t1
  t2 = t2
  u1 = u1
  Threads = {t1, t2}
  None = None
  Main = None
  NoUri = NoUri
  Uris = {u1}
  Volumes = {50}
  PlayModes = {"NORMAL", "REPEAT_ONE"}
  TestMode = FALSE
  Ops = {}
  Env = {}
  Mutes = {}
  ControlHandlers = {}
  Handlers = {"Stop", "Pause", "Play", "SetAVTransportURI", "SetPlayMode",
              "GetPositionInfo", "GetTransportInfo", "Subscribe"}
SYMMETRY Symmetry
SPECIFICATION QueuedSpec
INVARIANTS StateVarAgree TransportProtected StateFollowsPlayer EventTruth
