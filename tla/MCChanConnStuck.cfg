SPECIFICATION LiveSpec
CONSTANTS
  Conns <- Ends
  Peer <- OtherEnd
  Writers = {"w1"}
  Readers = {"r1"}
  Home <- OneWayOne
  MsgLen = 2
  BufLens = {1, 3}
  MaxWrites = 2
  MaxDeadlines = 1
  Closable <- Ends
PROPERTY CloseReturns
CHECK_DEADLOCK FALSE
