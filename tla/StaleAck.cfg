SPECIFICATION Spec
CONSTANTS
  o = o
  a = a
  b = b
  z = z
  Node = {o, a, z}
  NoNode = NoNode
  Broadcast = Broadcast
  Link <- Line3
  MAX_ACK_FAILURES = 2
  RECENT_RRQ_NUM = 2
  FIFO_SLOTS = 4
  RrqId = {1, 2}
  FORCE_HOPS = FALSE
  Traffic <- OneWay
  MaxPackets = 2
  MaxRequests = 2
  MaxHops = 2
  MaxLoss = 1
  MaxRestarts = 0
  MaxEarly = 0
PROPERTY
  AckIsFromNextHop
\* A network with nothing left to send is quiet.
CHECK_DEADLOCK FALSE
