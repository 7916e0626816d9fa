\* Three calls at a time over two requests: every answer but gateway errors, one
\* failed write, one crash, and clients that poll; no rebuilds.
SPECIFICATION Spec
CONSTANTS
  Envelopes = {e1, e2}
  Obligations = {o1, o2}
  Outcomes <- NoGateway
  Rows = {1, 2}
  Workers = {w1, w2, w3}
  Calls <- PaymentsAndPolls
  MaxFaults = 1
  MaxCrashes = 1
  None = None
SYMMETRY Symmetry
CHECK_DEADLOCK FALSE
INVARIANTS PaymentInv NoForgottenEnvelope
