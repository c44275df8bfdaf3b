SPECIFICATION FairSpec
CONSTANTS
  o = o
  a = a
  b = b
  z = z
  Node = {o, a, z}
  NoNode = NoNode
  Broadcast = Broadcast
  Link <- Triangle
  MAX_ACK_FAILURES = 2
  RECENT_RRQ_NUM = 2
  FIFO_SLOTS = 4
  RrqId = {1, 2}
  FORCE_HOPS = TRUE
  Traffic <- OneWay
  MaxPackets = 3
  MaxRequests = 3
  MaxHops = 2
  MaxLoss = 0
  MaxRestarts = 0
  MaxEarly = 0
PROPERTIES
  Delivered
INVARIANTS
  HopsForced
\* A network with nothing left to send is quiet.
CHECK_DEADLOCK FALSE
