CONSTANTS
  t1 = t1
  t2 = t2
  u1 = u1
  Threads = {t1, t2}
  None = None
  NoUri = NoUri
  Uris = {u1}
  Volumes = {50}
  PlayModes = {"NORMAL", "REPEAT_ONE"}
  TestMode = FALSE
  Env = {"ack", "link", "nomem", "garbled", "moves"}
  Ops = {"output_play", "output_stop", "output_pause", "output_next",
         "output_prev", "output_seekto", "check_mpd_connection(TRUE)",
         "check_mpd_connection(FALSE)", "output_playmode", "output_set_uri",
         "output_update_status"}
SYMMETRY Symmetry
SPECIFICATION ExclusiveSpec
INVARIANTS SuccessRefreshes TypeOK MutexHeld NoUseAfterFree StatePublished
PROPERTY LinkSpec
