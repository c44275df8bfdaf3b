SPECIFICATION Spec
CONSTANTS
  Item = {p1, p2}
  Slots = 4
  None = None
  Preempt = TRUE
SYMMETRY Packets
INVARIANT
  EmptyWhenNothingQueued
