CONSTANTS
  w1 = w1
  r1 = r1
  r2 = r2
  Workers = {w1}
  Tenants = {"co"}
  Shared = "nil"
  Laws = {"law"}
  Revisions = {r1, r2}
  MaxChunks = 2
  MaxJobs = 2
  MaxDeliveries = 2
  Company = "co"
  Skus = {"sku"}
  MaxAudits = 1
  MaxAuditDeliveries = 2
  MaxEdits = 2
SPECIFICATION Spec
CHECK_DEADLOCK FALSE
INVARIANT
  SharedStored
