CONSTANTS
  w1 = w1
  w2 = w2
  Workers = {w1, w2}
  Inputs = {"job"}
  MaxEntries = 1
  BatchSize = 1
  ScanLimit = 1
  MaxRetries = 3
  MaxFaults = 2
  CountMayExpire = TRUE
SYMMETRY Symmetry
SPECIFICATION Spec
INVARIANT
  DeadLetterEarned
PROPERTY
  AtLeastOnce
