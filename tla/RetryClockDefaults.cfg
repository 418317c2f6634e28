CONSTANTS
  w1 = w1
  Workers = {w1}
  MaxEntries = 1
  BatchSize = 10
  ScanLimit = 100
  MaxRetries = 3
  BaseBackoff = 1
  Threshold = 30
  PollTime = 2
  MaxJobTime = 20
SPECIFICATION Spec
INVARIANT
  CounterExact
