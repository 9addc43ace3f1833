SPECIFICATION Spec
CONSTANTS
  w1 = w1  w2 = w2  w3 = w3
  Writers <- ThreeWriters
  NoFile = NoFile
  MaxEvents = 5
  MaxCrashes = 1
CHECK_DEADLOCK FALSE
PROPERTIES NothingBehindAPartialCopy
