SPECIFICATION LiveSpec
CONSTANTS
  Conns <- Ends
  Peer <- OtherEnd
  Writers = {"w1", "w2"}
  Readers = {"r1"}
  Home <- OneWay
  MsgLen = 2
  BufLens = {1, 3}
  MaxWrites = 1
  MaxDeadlines = 2
  Closable <- Ends
INVARIANTS NoSendOnClosed StreamIsReliable
PROPERTY WaitsEnd
CHECK_DEADLOCK FALSE
