\* processPayrollBatch and payPayrollItem at the same time: definite answers, no failure.
SPECIFICATION PayrollSpec
CONSTANTS
  w1 = w1  i1 = i1
  Envelopes = {e1, e2}
  Items = {i1}
  Obligations = {i1}
  Outcomes <- Definite
  Rows = {1}
  Workers = {w1, w2}
  Calls <- ProcessorAndPayer
  GroupOf <- OneGroup
  ChunkSize = 100
  MaxFaults = 0
  MaxCrashes = 0
  None = None
SYMMETRY EnvelopeSymmetry
CHECK_DEADLOCK FALSE
INVARIANT NoDoublePay
