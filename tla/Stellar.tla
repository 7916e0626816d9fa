------------------------------ MODULE Stellar ------------------------------
(***************************************************************************)
(* The Stellar network and its Horizon API, as the backend uses them.      *)
(* None of this code is in the repository: it is modelled from the calls   *)
(* of src/apps/backend/src/services and what they rely on.                 *)
(*                                                                         *)
(* One wallet (one account) funds every payment.  An envelope is a signed  *)
(* transaction, named by its hash.  It carries a sequence number, and the  *)
(* ledger applies it only when that number is the account's next one, so   *)
(* two envelopes built from the same loadAccount never both apply.         *)
(***************************************************************************)
EXTENDS Naturals, FiniteSets

CONSTANTS
  Envelopes,    \* signed transactions, named by their hash
  Obligations,  \* what can be owed: a payment request or a payroll item
  Outcomes      \* how a submission may be answered (see Answers)

VARIABLES
  envState,     \* what became of each envelope
  envSeq,       \* its sequence number
  envPays,      \* the obligations it pays: one, or a chunk of a payroll
  accountSeq    \* the source account's sequence number

stellarVars == <<envState, envSeq, envPays, accountSeq>>

\* "success" and "rejected" are definite; after a "timeout" (the connection
\* dropped or timed out) or a "gateway" answer (an HTTP 5xx without result
\* codes) the caller does not know whether the envelope applies.  A 429 is
\* given after Drop: the batch processor takes it for a rejection, the other
\* callers for a gateway answer.
Answers == {"success", "rejected", "timeout", "gateway"}

ASSUME StellarAssumption == Outcomes \subseteq Answers

EnvStates == {"unused", "signed", "inflight", "success", "failed", "dead"}

StellarTypeOK ==
  /\ envState \in [Envelopes -> EnvStates]
  /\ envSeq \in [Envelopes -> Nat]
  /\ envPays \in [Envelopes -> SUBSET Obligations]
  /\ accountSeq \in Nat

StellarInit ==
  /\ envState = [e \in Envelopes |-> "unused"]
  /\ envSeq = [e \in Envelopes |-> 0]
  /\ envPays = [e \in Envelopes |-> {}]
  /\ accountSeq = 0

-----------------------------------------------------------------------------
(* What the backend does with an envelope. *)

\* TransactionBuilder.build() and sign(): a new envelope, for the sequence
\* number after the one that loadAccount returned.
Sign(e, seq, pays) ==
  /\ envState[e] = "unused"
  /\ envState' = [envState EXCEPT ![e] = "signed"]
  /\ envSeq' = [envSeq EXCEPT ![e] = seq + 1]
  /\ envPays' = [envPays EXCEPT ![e] = pays]
  /\ UNCHANGED accountSeq

\* server.submitTransaction: the request leaves.  A request that is lost on
\* the way is one that Drop then removes; submitting again revives it, and
\* leaves an envelope the network still holds or has applied as it was.
Submit(e) ==
  /\ envState' = [envState EXCEPT ![e] =
                    IF @ \in {"signed", "dead"} THEN "inflight" ELSE @]
  /\ UNCHANGED <<envSeq, envPays, accountSeq>>

\* The answers Horizon may give to the submission of e.
MayAnswer(e, answer) ==
  /\ answer \in Outcomes
  /\ answer = "success" => envState[e] = "success"
  /\ answer = "rejected" => envState[e] \in {"failed", "dead"}

\* Whether GET /transactions/<e> finds a record.  Otherwise it answers 404.
OnLedger(e) == envState[e] \in {"success", "failed"}

-----------------------------------------------------------------------------
(* What the network does by itself. *)

Apply(e) ==
  /\ envState[e] = "inflight"
  /\ envSeq[e] = accountSeq + 1
  /\ accountSeq' = accountSeq + 1
  /\ \E result \in {"success", "failed"} :
       envState' = [envState EXCEPT ![e] = result]
  /\ UNCHANGED <<envSeq, envPays>>

\* The time bounds pass, the sequence number is taken, or it never arrived.
Drop(e) ==
  /\ envState[e] = "inflight"
  /\ envState' = [envState EXCEPT ![e] = "dead"]
  /\ UNCHANGED <<envSeq, envPays, accountSeq>>

NetworkStep == \E e \in Envelopes : Apply(e) \/ Drop(e)

-----------------------------------------------------------------------------

\* The envelopes that moved the money of obligation o.
Landed(o) == {e \in Envelopes : envState[e] = "success" /\ o \in envPays[e]}

Paid(o) == Landed(o) # {}

\* The envelopes that the ledger has applied to o, or still may.
Live(e) == envState[e] \in {"inflight", "success"}
=============================================================================
