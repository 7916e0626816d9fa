---------------------------- MODULE PaymentReview ----------------------------
(***************************************************************************)
(* Cross-border payments and their compliance review                       *)
(* (services/payment.service.ts, transaction-monitor.service.ts,           *)
(* admin.service.ts and the rebuild of transaction.service.ts under        *)
(* src/apps/backend/src): a payment is created, then monitored; a          *)
(* background scan and admins flag it; admins release or block it; its     *)
(* owner cancels it or has it processed; admins rebuild it once it failed. *)
(* Every call reads, awaits and writes, and may be cut short in between.   *)
(***************************************************************************)
EXTENDS Naturals, Sequences, FiniteSets

CONSTANTS
  Payments,
  ReviewCalls,        \* calls served at a time
  MaxAlerts,          \* bound: alerts per payment
  MaxRebuilds         \* bound: rebuilds of a payment

VARIABLES
  payment,       \* payment -> the columns of its row the review is about
  alerts,        \* payment -> its compliance alerts, oldest first
  call,          \* call -> where it is and what it works on
  submitted,     \* payment -> envelopes submitted for it (history)
  rebuilds       \* payment -> how often a rebuild claimed it (history)

reviewVars == <<payment, alerts, call, submitted, rebuilds>>

\* hash: the row has the hash of an envelope.
NoPayment == [status |-> "none", flagged |-> FALSE, action |-> "none", hash |-> FALSE]
Resting == [at |-> "none", p |-> "none", alert |-> 0]

CallAt(c, place, p) == call[c].at = place /\ call[c].p = p
Resume(c, place, p) == call' = [call EXCEPT ![c] = [Resting EXCEPT !.at = place, !.p = p]]
Return(c) == call' = [call EXCEPT ![c] = Resting]
IsResting(c) == call[c] = Resting
KeepCounts == UNCHANGED <<submitted, rebuilds>>

SetColumns(p, row) == payment' = [payment EXCEPT ![p] = row]
SetPaymentStatus(p, status) == SetColumns(p, [payment[p] EXCEPT !.status = status])
Raise(p, by) == alerts' = [alerts EXCEPT ![p] = Append(@, [by |-> by, status |-> "open"])]

\* Mutant: any review clears the payment.
ClearUnlessNew(row) == ~row.flagged \/ row.action # "none"

\* A payment may be processed unless it is flagged and not released.
Clear(row) == ~row.flagged \/ row.action = "release"

-----------------------------------------------------------------------------
(* createCrossBorderPayment and monitoring. *)

CreatePayment(c, p) ==
  /\ IsResting(c) /\ payment[p] = NoPayment
  /\ SetPaymentStatus(p, "created")
  /\ Resume(c, "monitor", p)
  /\ UNCHANGED alerts /\ KeepCounts

\* claimFlag: whoever sets the flag raises the alert, in one transaction.
ClaimFlag(p) ==
  IF payment[p].flagged THEN UNCHANGED <<payment, alerts>>
  ELSE /\ Len(alerts[p]) < MaxAlerts
       /\ SetColumns(p, [payment[p] EXCEPT !.flagged = TRUE])
       /\ Raise(p, "monitor")

\* Monitoring finds nothing, or a rule fires; when it fails, the payment is
\* flagged without an alert, unless that fails as well.
Monitor(c, p) ==
  /\ CallAt(c, "monitor", p)
  /\ \/ UNCHANGED <<payment, alerts>>
     \/ ClaimFlag(p)
     \/ SetColumns(p, [payment[p] EXCEPT !.flagged = TRUE]) /\ UNCHANGED alerts
  /\ Return(c)
  /\ KeepCounts

\* screenPastTransactions picks a row that is not flagged and claims it later.
Screen(c, p) ==
  /\ IsResting(c)
  /\ payment[p].status = "created" /\ ~payment[p].flagged
  /\ Resume(c, "screen", p)
  /\ UNCHANGED <<payment, alerts>> /\ KeepCounts

ScreenRow(c, p) ==
  /\ CallAt(c, "screen", p)
  /\ ClaimFlag(p)
  /\ Return(c)
  /\ KeepCounts

-----------------------------------------------------------------------------
(* What admins do. *)

\* An earlier review of the payment stays on the row.
FlagTransaction(p) ==
  /\ payment[p] # NoPayment /\ Len(alerts[p]) < MaxAlerts
  /\ SetColumns(p, [payment[p] EXCEPT !.flagged = TRUE])
  /\ Raise(p, "admin")
  /\ UNCHANGED call /\ KeepCounts

CloseOpen(p, status) ==
  alerts' = [alerts EXCEPT ![p] =
    [i \in DOMAIN @ |-> IF @[i].status = "open" THEN [@[i] EXCEPT !.status = status] ELSE @[i]]]

CloseReviewed(p, action) ==
  CASE action = "reviewing" -> UNCHANGED alerts
    [] action = "release" -> CloseOpen(p, "resolved")
    [] action = "block" -> CloseOpen(p, "dismissed")

\* performReviewTransition, in one transaction.
ReviewFlagged(p, action) ==
  /\ payment[p].flagged /\ payment[p].action \in {"none", "reviewing"}
  /\ SetColumns(p, [payment[p] EXCEPT !.action = action])
  /\ CloseReviewed(p, action)
  /\ UNCHANGED call /\ KeepCounts

\* resolveComplianceAlert reads the alert as open and closes it later.
ReadAlert(c, p, i) ==
  /\ IsResting(c) /\ alerts[p][i].status = "open"
  /\ call' = [call EXCEPT ![c] = [at |-> "resolve", p |-> p, alert |-> i]]
  /\ UNCHANGED <<payment, alerts>> /\ KeepCounts

ResolveAlert(c, p) ==
  /\ CallAt(c, "resolve", p)
  /\ \E status \in {"resolved", "dismissed"} :
       alerts' = [alerts EXCEPT ![p][call[c].alert].status = status]
  /\ Return(c)
  /\ UNCHANGED payment /\ KeepCounts

-----------------------------------------------------------------------------
(* processPayment and cancelPayment. *)

\* The row is read and the review gate passed on what was read.
StartProcessing(c, p) ==
  /\ IsResting(c)
  /\ payment[p].status = "created" /\ Clear(payment[p])
  /\ Resume(c, "claim", p)
  /\ UNCHANGED <<payment, alerts>> /\ KeepCounts

\* Mutant: the claim does not ask for the status.
ClaimPaymentById(c, p) ==
  /\ CallAt(c, "claim", p)
  /\ SetPaymentStatus(p, "processing") /\ Resume(c, "decrypt", p)
  /\ UNCHANGED alerts /\ KeepCounts

\* updateMany where status = 'created'.
ClaimPayment(c, p) ==
  /\ CallAt(c, "claim", p)
  /\ IF payment[p].status = "created"
     THEN SetPaymentStatus(p, "processing") /\ Resume(c, "decrypt", p)
     ELSE Return(c) /\ UNCHANGED payment
  /\ UNCHANGED alerts /\ KeepCounts

\* Without the wallet's key the payment is set back to 'created'.
DecryptWallet(c, p) ==
  /\ CallAt(c, "decrypt", p)
  /\ \/ Resume(c, "submit", p) /\ UNCHANGED payment
     \/ SetPaymentStatus(p, "created") /\ Return(c)
  /\ UNCHANGED alerts /\ KeepCounts

\* Loading the account may fail before anything is submitted.
SubmitPayment(c, p) ==
  /\ CallAt(c, "submit", p)
  /\ \/ submitted' = [submitted EXCEPT ![p] = @ + 1] /\ Resume(c, "settle", p) /\ UNCHANGED payment
     \/ SetPaymentStatus(p, "failed") /\ Return(c) /\ UNCHANGED submitted
  /\ UNCHANGED <<alerts, rebuilds>>

\* Any error after the submission, an unanswered one too, fails the payment; the
\* hash is there when the completing write was made before the error.
SettlePayment(c, p) ==
  /\ CallAt(c, "settle", p)
  /\ \/ \E status \in {"completed", "failed"} :
          SetColumns(p, [payment[p] EXCEPT !.status = status, !.hash = TRUE])
     \/ SetPaymentStatus(p, "failed")
  /\ Return(c)
  /\ UNCHANGED alerts /\ KeepCounts

\* updateMany where status in ('created', 'pending').
CancelPayment(p) ==
  /\ payment[p].status = "created"
  /\ SetPaymentStatus(p, "cancelled")
  /\ UNCHANGED <<alerts, call>> /\ KeepCounts

-----------------------------------------------------------------------------
(* rebuildFailedTransaction: no flag and no review is looked at. *)

\* Without a hash on the row Horizon is not asked.
StartRebuild(c, p) ==
  /\ IsResting(c) /\ payment[p].status = "failed"
  /\ Resume(c, IF payment[p].hash THEN "verify" ELSE "reclaim", p)
  /\ UNCHANGED <<payment, alerts>> /\ KeepCounts

\* Horizon knows the envelope as settled, does not answer, or lets the rebuild go on.
VerifyNotLanded(c, p) ==
  /\ CallAt(c, "verify", p)
  /\ Return(c) \/ Resume(c, "reclaim", p)
  /\ UNCHANGED <<payment, alerts>> /\ KeepCounts

\* updateMany where status = 'failed'.
Reclaim(c, p) ==
  /\ CallAt(c, "reclaim", p)
  /\ IF payment[p].status = "failed"
     THEN /\ rebuilds[p] < MaxRebuilds
          /\ rebuilds' = [rebuilds EXCEPT ![p] = @ + 1]
          /\ SetPaymentStatus(p, "submitted") /\ Resume(c, "sign", p)
     ELSE Return(c) /\ UNCHANGED <<payment, rebuilds>>
  /\ UNCHANGED <<alerts, submitted>>

\* The hash is stored before the envelope is submitted; any error fails the payment.
SignRebuilt(c, p) ==
  /\ CallAt(c, "sign", p)
  /\ \/ SetColumns(p, [payment[p] EXCEPT !.hash = TRUE]) /\ Resume(c, "resubmit", p)
     \/ SetPaymentStatus(p, "failed") /\ Return(c)
  /\ UNCHANGED alerts /\ KeepCounts

SubmitRebuilt(c, p) ==
  /\ CallAt(c, "resubmit", p)
  /\ submitted' = [submitted EXCEPT ![p] = @ + 1]
  /\ Resume(c, "record", p)
  /\ UNCHANGED <<payment, alerts, rebuilds>>

RecordRebuilt(c, p) ==
  /\ CallAt(c, "record", p)
  /\ \/ SetPaymentStatus(p, "processing") /\ Resume(c, "confirm", p)
     \/ SetPaymentStatus(p, "failed") /\ Return(c)
  /\ UNCHANGED alerts /\ KeepCounts

\* syncLocalTransaction: what Horizon says of the row's hash, which may be that of
\* an envelope from before the rebuild, is written over any status but a last one.
Sync(p) ==
  /\ payment[p].hash
  /\ payment[p].status \notin {"successful", "completed", "failed", "cancelled"}
  /\ \E status \in {"successful", "failed"} :
       /\ status = "successful" => submitted[p] > 0
       /\ SetPaymentStatus(p, status)

ConfirmRebuilt(c, p) ==
  /\ CallAt(c, "confirm", p)
  /\ UNCHANGED payment \/ Sync(p)
  /\ Return(c)
  /\ UNCHANGED alerts /\ KeepCounts

\* getTransactionStatus for a client that asks.
PollStatus(p) ==
  /\ Sync(p)
  /\ UNCHANGED <<alerts, call>> /\ KeepCounts

\* The process dies, which ends every call, or a write of this one is refused.
CutShort(c) ==
  /\ ~IsResting(c)
  /\ Return(c)
  /\ UNCHANGED <<payment, alerts>> /\ KeepCounts

ReviewInit ==
  /\ payment = [p \in Payments |-> NoPayment]
  /\ alerts = [p \in Payments |-> <<>>]
  /\ call = [c \in ReviewCalls |-> Resting]
  /\ submitted = [p \in Payments |-> 0]
  /\ rebuilds = [p \in Payments |-> 0]

ReviewNext ==
  \/ \E c \in ReviewCalls : CutShort(c)
  \/ \E p \in Payments :
       \/ FlagTransaction(p) \/ CancelPayment(p) \/ PollStatus(p)
       \/ \E action \in {"reviewing", "release", "block"} : ReviewFlagged(p, action)
       \/ \E c \in ReviewCalls :
            \/ CreatePayment(c, p) \/ Monitor(c, p) \/ Screen(c, p) \/ ScreenRow(c, p)
            \/ ResolveAlert(c, p) \/ \E i \in DOMAIN alerts[p] : ReadAlert(c, p, i)
            \/ StartProcessing(c, p) \/ ClaimPayment(c, p) \/ DecryptWallet(c, p)
            \/ SubmitPayment(c, p) \/ SettlePayment(c, p)
            \/ StartRebuild(c, p) \/ VerifyNotLanded(c, p) \/ Reclaim(c, p) \/ SignRebuilt(c, p)
            \/ SubmitRebuilt(c, p) \/ RecordRebuilt(c, p) \/ ConfirmRebuilt(c, p)

ReviewSpec == ReviewInit /\ [][ReviewNext]_reviewVars

-----------------------------------------------------------------------------
(* Properties. *)

ReviewTypeOK ==
  \A p \in Payments :
    /\ payment[p].status \in {"none", "created", "submitted", "processing", "completed",
                               "successful", "failed", "cancelled"}
    /\ payment[p].action \in {"none", "reviewing", "release", "block"}
    /\ \A i \in DOMAIN alerts[p] : alerts[p][i].status \in {"open", "resolved", "dismissed"}

\* Where a call has claimed its payment, and where it may still do so.
Processing == {"decrypt", "submit", "settle"}
Rebuilding == {"sign", "resubmit", "record", "confirm"}
BeforeClaim == {"claim", "verify", "reclaim"}
CallsOf(p, places) == {c \in ReviewCalls : call[c].p = p /\ call[c].at \in places}

\* However many process, rebuild, cancel and status requests interleave, a payment
\* is processed by one call at a time and rebuilt by none meanwhile; it is
\* submitted once, and once more for every rebuild that claimed it as failed, and
\* never when it is cancelled; a key that cannot be decrypted makes it
\* processable again.  (Two rebuilds overlap when a status request fails the row of
\* the first by its old hash.)
SubmittedByClaim ==
  \A p \in Payments :
    /\ Cardinality(CallsOf(p, Processing)) <= 1
    /\ CallsOf(p, Processing) = {} \/ CallsOf(p, Rebuilding) = {}
    /\ submitted[p] <= 1 + rebuilds[p]
    /\ payment[p].status = "cancelled" => submitted[p] = 0

Blocked(p) == payment[p].flagged /\ payment[p].action = "block"
InFlight(p) == CallsOf(p, Processing \cup Rebuilding \cup BeforeClaim) # {}

\* A block stands: nothing any other handler does later lifts it, and no run of
\* the payment starts that was not under way when it was blocked, but for the
\* rebuild of a payment that has failed, which looks at no flag.
BlockStands ==
  [][\A p \in Payments : Blocked(p) =>
       /\ Blocked(p)'
       /\ InFlight(p)' => InFlight(p) \/ payment[p].status = "failed"]_reviewVars

\* "concurrent scans cannot create duplicate alerts"
\* (transaction-monitor.service.ts:309): monitoring raises one alert per payment.
MonitoredOnce ==
  \A p \in Payments : Cardinality({i \in DOMAIN alerts[p] : alerts[p][i].by = "monitor"}) <= 1

\* Once a payment is released or blocked, none of monitoring's alerts about it is open.
ReviewClosesAlerts ==
  \A p \in Payments : payment[p].action \in {"release", "block"} =>
    \A i \in DOMAIN alerts[p] : alerts[p][i].by = "monitor" => alerts[p][i].status # "open"

\* What the compliance review keeps: well-formed rows, one submission for each
\* claim, one alert of monitoring, and none left open by a decision.
ReviewInv == ReviewTypeOK /\ SubmittedByClaim /\ MonitoredOnce /\ ReviewClosesAlerts
=============================================================================
