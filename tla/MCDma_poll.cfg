SPECIFICATION ClientSpec
CONSTANTS
  Threads = {t1, t2, t3}
  NR_MAX_CHAN = 1
  Items = {m1, m2, m3}
  MaxPeriods = 2
  Smp = TRUE
  NULL = NULL
  Kinds = {"single", "cyclic"}
  Waits = FALSE
SYMMETRY Symmetry
INVARIANTS
  ChannelExclusive
  CallbackPaired
  HwListAllocated
  NoLeak
  NoNullDesc
