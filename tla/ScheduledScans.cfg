CONSTANTS
  Timers = {{"refresh"}, {"reingest"}}
  Procs = {p1, p2}
  Conns = {c1, c2}
  RowCount = 3
  Limit = 2
  MaxDepth = 2
SPECIFICATION FairSpec
INVARIANT
  TypeOK
  OneScan
PROPERTY
  ScansGoOn
  OldestEnqueued
