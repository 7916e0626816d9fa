\* payPayrollItem with one crash: two callers over two items that get definite
\* answers, or one caller that retries one item, with up to four envelopes,
\* after timeouts, and a client that polls.
SPECIFICATION LoadSpec
CONSTANTS
  w1 = w1  i1 = i1
  Envelopes = {e1, e2, e3, e4}
  Items = {i1, i2}
  Obligations = {i1, i2}
  Outcomes <- NoGateway
  Rows = {1, 2}
  Workers = {w1, w2}
  Calls <- PayersAndPoll
  GroupOf <- OneGroup
  ChunkSize = 100
  Loads <- PayLoads
  MaxFaults = 0
  MaxCrashes = 1
  None = None
SYMMETRY ItemSymmetry
CHECK_DEADLOCK FALSE
INVARIANTS OnePayerPerItem NoDoublePay UnknownOutcomeKeepsHash
