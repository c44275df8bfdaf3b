SPECIFICATION Spec
CONSTANTS
  A = A
  B = B
  NoId = NoId
  Slots = 2
  ReplySlots = 2
  ReplySize = 200
  Lengths = {194, 195}
  Talkers = {A}
  MaxUnread = 3
  MaxEvents = 2
INVARIANTS
  TypeOK
  RepliesFit
  
  FailureMeansReplaced
  AuthenticatedIsConfigured
  CountedAreThere
