SPECIFICATION Spec
CONSTANTS
  Item = {p1, p2}
  Slots = 4
  None = None
  Preempt = FALSE
SYMMETRY Packets
INVARIANTS
  TypeOK
  RefusedOnlyWhenFull
  EmptyWhenNothingQueued
PROPERTY
  ImplementsQueue
