\* One item, two callers of payPayrollItem, one failed write, under fairness.
SPECIFICATION BoundedFairSpec
CONSTANTS
  w1 = w1  i1 = i1
  Envelopes = {e1, e2}
  Items = {i1}
  Obligations = {i1}
  Outcomes <- NoGateway
  Rows = {1, 2}
  Workers = {w1, w2}
  Calls <- Payers
  GroupOf <- OneGroup
  ChunkSize = 100
  MaxFaults = 1
  MaxCrashes = 0
  None = None
CHECK_DEADLOCK FALSE
PROPERTY ClaimedItemResolves
