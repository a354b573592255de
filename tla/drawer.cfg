SPECIFICATION Spec
CONSTANTS
  Case = {A, B}
  NoCase = NoCase
  MaxTask = 2
  MaxEpoch = 3
INVARIANT TypeOK
INVARIANT OnlyRetriesStray
INVARIANT LoadErrorsStayHome
INVARIANT WaitsForAnAnswer
SYMMETRY Symmetry
CHECK_DEADLOCK FALSE
