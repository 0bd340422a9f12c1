SPECIFICATION FairSpec
CONSTANTS
  Edps = {1, 2}
  RecCh <- Rec
  SendCh <- Snd
  MSGBOX_CHANNEL_DEPTH = 1
  MsgWords = 2
  MaxWords <- Most
INVARIANTS DoneExactly
PROPERTIES BoxSpec SendsComplete
