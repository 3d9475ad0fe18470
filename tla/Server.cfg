SPECIFICATION Spec
CONSTANTS
  RawSock = {"r1", "r2", "r3"}
  WebSock = {"w1", "w2", "w3"}
  Company = {{"r1"}, {"r2", "r3"}, {"w1"}, {"w2", "w3"}, {"r3", "w3"}}
  Heads <- AnyHead
  HttpSlots = 1
  SndMax = 3
  InMax = 2
  CtlMax = 6
  Budget = 1
  Rounds = 2
  MaxRequests <- Requests
  MaxFrames = 2
  MaxPings <- Pings
INVARIANTS
  StreamIntact
  RoomToReceive
  OnlyOwnPages
PROPERTIES
  NobodyBlocks
