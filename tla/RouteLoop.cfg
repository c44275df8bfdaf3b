SPECIFICATION Spec
CONSTANTS
  o = o
  a = a
  b = b
  z = z
  Node = {o, a, b, z}
  NoNode = NoNode
  Broadcast = Broadcast
  Link <- Line4
  MAX_ACK_FAILURES = 2
  RECENT_RRQ_NUM = 2
  FIFO_SLOTS = 4
  RrqId = {1}
  FORCE_HOPS = FALSE
  Traffic <- OneWay
  MaxPackets = 1
  MaxRequests = 1
  MaxHops = 5
  MaxLoss = 0
  MaxRestarts = 0
  MaxEarly = 0
INVARIANTS
  LoopFree
\* A network with nothing left to send is quiet.
CHECK_DEADLOCK FALSE
