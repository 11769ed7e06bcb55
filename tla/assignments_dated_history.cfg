SPECIFICATION Spec
CONSTANTS
  Handlers = {h1}
  Shifts = {s1, s2}
  NoShift = NoShift
  MaxDay = 3
  Today = 2
  MaxRows = 2
CHECK_DEADLOCK FALSE
SYMMETRY ShiftSymmetry
PROPERTIES ShiftChangeKeepsPast
