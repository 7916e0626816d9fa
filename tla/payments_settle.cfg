\* Two calls at a time and pollers, no crash and no failed write, under fairness.
SPECIFICATION FairSpec
CONSTANTS
  Envelopes = {e1, e2}
  Obligations = {o1}
  Outcomes <- AllAnswers
  Rows = {1}
  Workers = {w1, w2}
  Calls <- RebuildsPollsAndJob
  MaxFaults = 0
  MaxCrashes = 0
  None = None
CHECK_DEADLOCK FALSE
PROPERTY SubmittedResolves
