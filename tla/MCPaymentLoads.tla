--------------------------- MODULE MCPaymentLoads ---------------------------
(* Instances of PaymentExecution whose behaviours are under different loads. *)
EXTENDS MCPayment

\* Each behaviour is under one load: how many calls run at once, how many
\* envelopes they sign, what they do, and what fails.
CONSTANT Loads
VARIABLE load

TwoRebuild == [calls |-> 2, envelopes |-> 3, modes |-> {"payment", "rebuild"},
               faults |-> 0, crashes |-> 1]
OneFails == [calls |-> 1, envelopes |-> 4, modes |-> {"payment", "rebuild", "poll"},
             faults |-> 2, crashes |-> 1]
RebuildLoads == {TwoRebuild, OneFails}

Within ==
  /\ Cardinality({w \in Workers : pc[w] # "idle"}) <= load.calls
  /\ Cardinality({e \in Envelopes : envState[e] # "unused"}) <= load.envelopes
  /\ \A w \in Workers : ctx[w].mode \in load.modes \cup {"none", "reconcile"}
  /\ faults <= load.faults /\ crashes <= load.crashes

LoadSpec ==
  /\ Init /\ load \in Loads
  /\ [][Next /\ UNCHANGED load /\ Within']_<<payVars, load>>
=============================================================================
