SPECIFICATION FairSpec
CONSTANTS
  NULL = NULL
  e1 = e1  e2 = e2  e3 = e3  s1 = s1
  Tasks = {t1, t2}
  PmTasks = {t1}
  Edps = {e1, e2, e3}
  Senders = {s1}
  Channels = {1, 2}
  ReadCh <- Reads
  WriteCh <- Writes
  MsgWords = 2
  MaxWords = 2
  MSGBOX_MAX_QUEUE = 1
INVARIANTS IInv WordsSeen
PROPERTIES BoxSpec WordsTaken CallsReturn
