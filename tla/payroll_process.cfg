\* Two processors of one batch of three items, two of them in one chunk: every answer, one failed write, one crash.
SPECIFICATION PayrollSpec
CONSTANTS
  w1 = w1  i1 = i1
  Envelopes = {e1, e2, e3, e4}
  Items = {i1, i2, i3}
  Obligations = {i1, i2, i3}
  Outcomes <- AllAnswers
  Rows = {1}
  Workers = {w1, w2}
  Calls <- Processors
  GroupOf <- TwoGroups
  ChunkSize = 2
  MaxFaults = 1
  MaxCrashes = 1
  None = None
SYMMETRY EnvelopeSymmetry
CHECK_DEADLOCK FALSE
INVARIANTS NoDoublePay ClosedBatchIsSettled
