\* Capacity 4 with cursors modulo 16: both the slots and the cursors wrap
\* within a few calls.
CONSTANTS
  Capacity = 4
  CursorModulus = 16
  Byte = {0, 1}
  MaxRequest = 2
SPECIFICATION Spec
INVARIANTS ExclusiveSlots PromiseKept
PROPERTY ImplementsFifo
