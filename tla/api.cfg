SPECIFICATION Spec
CONSTANTS
  Requests = {r1, r2, r3, r4}
  Limit = 2
  Window = 3
  MaxSlots = 1
  MaxBatch = 2
  MaxDelay = 1
  MaxTime = 6
SYMMETRY RequestSymmetry
INVARIANTS TypeOK WindowKept SlotsAccounted
PROPERTIES RefusalJustified
CHECK_DEADLOCK FALSE
