SPECIFICATION FairClientSpec
CONSTANTS
  Threads = {t1, t2}
  NR_MAX_CHAN = 2
  Items = {m1, m2, m3}
  MaxPeriods = 2
  Smp = TRUE
  NULL = NULL
  Kinds = {"single"}
  Waits = TRUE
INVARIANTS
  FreeChannelMasked
  CallbackEarned
PROPERTIES
  TransferEnds
