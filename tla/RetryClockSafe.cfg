CONSTANTS
  w1 = w1
  w2 = w2
  Workers = {w1, w2}
  MaxEntries = 2
  BatchSize = 2
  ScanLimit = 20
  MaxRetries = 3
  BaseBackoff = 1
  Threshold = 5
  PollTime = 1
  MaxJobTime = 2
SPECIFICATION Spec
INVARIANTS
  TypeOK
  CounterExact
  OneHandler
  AttemptsBounded
PROPERTY
  Settles
