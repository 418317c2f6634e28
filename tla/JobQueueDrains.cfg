CONSTANTS
  w1 = w1
  Workers = {w1}
  Inputs = {"job", "malformed", "bare"}
  MaxEntries = 2
  BatchSize = 2
  ScanLimit = 1
  MaxRetries = 2
  MaxFaults = 2
  CountMayExpire = FALSE
SPECIFICATION FairSpec
INVARIANTS
  TypeOK
  NoLoss
PROPERTY
  Drains
