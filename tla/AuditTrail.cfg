CONSTANTS
  w1 = w1
  r1 = r1
  r2 = r2
  w2 = w2
  Workers = {w1, w2}
  Tenants = {"co"}
  Shared = "nil"
  Laws = {"law"}
  Revisions = {r1, r2}
  MaxChunks = 2
  MaxJobs = 2
  MaxDeliveries = 3
  Company = "co"
  Skus = {"sku"}
  MaxAudits = 1
  MaxAuditDeliveries = 2
  MaxEdits = 2
SYMMETRY Symmetry
SPECIFICATION Spec
CHECK_DEADLOCK FALSE
INVARIANT
  TypeOK
  RatesResolvable
  ChunksMatchText
  
PROPERTY
  CitationsKept
