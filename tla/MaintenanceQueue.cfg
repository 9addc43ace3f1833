SPECIFICATION Spec
CONSTANTS
  n1 = n1  n2 = n2
  Notes <- TwoNotes
  Full = TRUE
  MaxPendingPaths = 1
  BatchSize = 1
  WatcherLoses = TRUE
  Sealed = TRUE
  MaxEdits = 2
  MaxFaults = 2
CHECK_DEADLOCK FALSE
SYMMETRY NoteSymmetry
INVARIANTS NothingIsForgotten ReleaseIsLast
PROPERTIES OnlyTheGoneArePurged
