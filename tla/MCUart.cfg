SPECIFICATION UartFairSpec
CONSTANTS
  Senders = {s1}
  FifoDepth = 1
  UART_FIFO_SIZE = 1
  Rates = {"default", "fast"}
  uart_defconfig = "default"
  PeerBytes = 1
  MaxBytes = 2
  MaxOwnerCalls = 3
CHECK_DEADLOCK FALSE
INVARIANTS HandlerHasMailbox OpenReceives DivisorRight
PROPERTIES LineSpec OwnerReturns
