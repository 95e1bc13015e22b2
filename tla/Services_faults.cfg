CONSTANTS
  t0 = t0
  t1 = t1
  t2 = t2
  u1 = u1
  Threads = {t1, t2}
  None = None
  Main = None
  NoUri = NoUri
  Uris = {u1}
  Volumes = {150}
  PlayModes = {"NORMAL"}
  Mutes = {"0", "1"}
  TestMode = FALSE
  Ops = {}
  Env = {"ack", "link", "mixer"}
  Handlers = {"Stop", "SetAVTransportURI", "Next", "Subscribe"}
  ControlHandlers = {"SetVolume", "Subscribe"}
SYMMETRY Symmetry
SPECIFICATION ServicesSpec
INVARIANTS ServicesTypeOK HandlersHold SubscriptionHolds NothingKept NoCircularWait
