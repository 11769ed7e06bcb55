SPECIFICATION Spec
CONSTANTS
  Handlers = {h1}
  Shifts = {s1, s2}
  NoShift = NoShift
  MaxDay = 3
  Today = 2
  MaxRows = 3
CHECK_DEADLOCK FALSE
SYMMETRY ShiftSymmetry
INVARIANTS NoSharedDay OpenRowHasShift ChecksForesee
PROPERTIES PastKept
