\* Every operation at once on one item: success or a lost answer, one failed write, no crash.
SPECIFICATION PayrollSpec
CONSTANTS
  w1 = w1  i1 = i1
  Envelopes = {e1, e2}
  Items = {i1}
  Obligations = {i1}
  Outcomes <- NoGateway
  Rows = {1}
  Workers = {w1, w2}
  Calls <- AnyCall
  GroupOf <- OneGroup
  ChunkSize = 100
  MaxFaults = 1
  MaxCrashes = 0
  None = None
SYMMETRY EnvelopeSymmetry
CHECK_DEADLOCK FALSE
INVARIANTS PayrollInv ReportedPaidIsPaid
PROPERTY ClosedStaysClosed
