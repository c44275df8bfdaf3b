SPECIFICATION Spec
CONSTANTS
  Item <- Line
  Slots = 2
  None = None
  Char = {a, b}
  End = End
  Zero = Zero
  BufSize = 5
  MaxChunk = 4
  MaxTyped = 7
SYMMETRY Letters
INVARIANTS
  TypeOK
  SlotUndisturbed
  NeverOvercounts
  LinesAsTyped
\* A host that types nothing more leaves the main loop with nothing to do, and the
\* model stops where bytes went past the buffer.
CHECK_DEADLOCK FALSE
