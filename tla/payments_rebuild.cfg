\* Payments over two requests that may be rebuilt, with definite answers and one
\* crash: two calls at a time without a failed write or polling, or one call at
\* a time with two failed writes and polling.
SPECIFICATION LoadSpec
CONSTANTS
  Envelopes = {e1, e2, e3, e4}
  Obligations = {o1, o2}
  Outcomes <- Definite
  Rows = {1, 2}
  Workers = {w1, w2}
  Calls <- RebuildsAndPolls
  Loads <- RebuildLoads
  MaxFaults = 2
  MaxCrashes = 1
  None = None
SYMMETRY Symmetry
CHECK_DEADLOCK FALSE
INVARIANTS NoDoublePay OneExecutionPerRow
PROPERTY PromiseKept
