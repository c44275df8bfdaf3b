SPECIFICATION Spec
CONSTANTS
  Peer = {1, 2, 3}
  Sender = {0, 1}
  Id = {0, 1}
  Pair = {g1, g2}
  Public = {k1, k2}
  Password = {w1, w2}
  Slots = 2
  Erased = Erased
  None = None
SYMMETRY Sym
INVARIANTS
  TypeOK
  FlagsMeanStored
  ConfiguredIsComplete
  EntriesHaveKeys
  CacheIsCurrent
PROPERTIES
  OnlyOwnKeyChanges
  SavedKeyIsFound
