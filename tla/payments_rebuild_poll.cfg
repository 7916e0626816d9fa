\* Two rebuilds of one payment, and a client that polls it.
SPECIFICATION Spec
CONSTANTS
  Envelopes = {e1, e2, e3}
  Obligations = {o1}
  Outcomes <- Definite
  Rows = {1}
  Workers = {w1, w2}
  Calls <- RebuildsAndPolls
  MaxFaults = 0
  MaxCrashes = 0
  None = None
CHECK_DEADLOCK FALSE
INVARIANT OneExecutionPerRow
