----------------------------- MODULE MCPayroll -----------------------------
(* Instances of Payroll for TLC. *)
EXTENDS Payroll, TLC

CONSTANTS w1, i1   \* model values the definitions below name

AllAnswers == {"success", "rejected", "timeout", "gateway"}
Definite == {"success", "rejected"}
NoGateway == {"success", "rejected", "timeout"}

OneGroup == [i \in Items |-> "XLM"]
TwoGroups == [i \in Items |-> IF i = i1 THEN "XLM" ELSE "USDC"]

\* Who serves what.  The first worker also approves the batch.
Serve(first, others) ==
  [w \in Workers |-> IF w = w1 THEN first \cup {"approve"} ELSE others]
Payers == Serve({"pay"}, {"pay"})
PayersAndPoll == Serve({"pay"}, {"pay", "poll"})
Processors == Serve({"process"}, {"process"})
ProcessorAndPayer == Serve({"process"}, {"pay"})
AnyCall == Serve({"add", "pay", "process"}, {"add", "pay", "poll", "rebuild"})

\* A bound for liveness, where running out of rows must not look like a call
\* that hangs: an operation starts only if a row is left for it.
BeforeRow == {"advance", "readItem", "findPrior", "itemAttempt", "findUnsettled",
              "rowAttempt", "recover", "claim", "pay"}
Room == Cardinality({w \in Workers : job[w].at \in BeforeRow})
          <= Cardinality({r \in Rows : rowStatus[r] = "none"})
BoundedFairSpec ==
  PayrollInit /\ [][PayrollNext /\ Room']_payrollVars /\ PayrollFairness

EnvelopeSymmetry == Permutations(Envelopes)
ItemSymmetry == EnvelopeSymmetry \cup Permutations(Items)
=============================================================================
