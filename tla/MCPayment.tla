----------------------------- MODULE MCPayment -----------------------------
(* Instances of PaymentExecution for TLC. *)
EXTENDS PaymentExecution, TLC

AllAnswers == {"success", "rejected", "timeout", "gateway"}
Definite == {"success", "rejected"}

NoGateway == {"success", "rejected", "timeout"}

PaymentsAndPolls == [w \in Workers |-> {"payment", "payout", "poll"}]
RebuildsAndPolls == [w \in Workers |-> {"payment", "rebuild", "poll"}]
RebuildsPollsAndJob ==
  [w \in Workers |-> {"payment", "rebuild", "poll", "reconcileJob"}]

Symmetry == Permutations(Envelopes) \cup Permutations(Workers)
              \cup Permutations(Obligations)
=============================================================================
