--------------------------- MODULE MCPayrollLoads ---------------------------
(* Instances of Payroll whose behaviours are under different loads. *)
EXTENDS MCPayroll

\* How many callers of payPayrollItem there are, how often one of them submits
\* an envelope (if once, its answer is definite: a timeout is met by submitting
\* again), how many items and envelopes there are and whether a client polls.
CONSTANT Loads
VARIABLE load

TwoPayers == [payers |-> 2, submits |-> 1, items |-> 2, envelopes |-> 2, polls |-> {}]
OneRetries == [payers |-> 1, submits |-> 2, items |-> 1, envelopes |-> 4, polls |-> {"poll"}]
PayLoads == {TwoPayers, OneRetries}

Within ==
  /\ Cardinality({w \in Workers : ~At(w, "none")}) <= load.payers
  /\ \A w \in Workers : ctx[w].attempt <= load.submits
  /\ \A w \in Workers : ctx[w].mode = "poll" => "poll" \in load.polls
  /\ Cardinality({e \in Envelopes : envState[e] # "unused"}) <= load.envelopes

LoadInit ==
  /\ PayrollInit /\ load \in Loads
  /\ Cardinality({i \in Items : itemStatus[i] # "none"}) <= load.items

LoadSpec == LoadInit /\ [][PayrollNext /\ UNCHANGED load /\ Within']_<<payrollVars, load>>
=============================================================================
