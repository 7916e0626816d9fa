-------------------------- MODULE PaymentExecution --------------------------
(***************************************************************************)
(* Instant payments (src/apps/backend/src/services/transaction.service.ts) *)
(* as concurrent calls over the rows of the Transaction table and the      *)
(* ledger.  A worker is one call being served; it stops at each await of   *)
(* the code that reads or writes shared state, and other workers, the      *)
(* ledger, a failing database write or a crash may come in between.        *)
(*                                                                         *)
(*   payment   buildAndSubmitPayment on a row of its own                   *)
(*   payout    one payout of executeBatchPayouts                           *)
(*   rebuild   rebuildFailedTransaction, then buildAndSubmitPayment        *)
(*   poll      getPaymentDetails refreshing a row from Horizon             *)
(*   reconcile getTransactionStatus called for a recorded hash             *)
(***************************************************************************)
EXTENDS Stellar

CONSTANTS
  Rows,         \* rows of the Transaction table, numbered by creation
  Workers,      \* calls being served at the same time
  Calls,        \* Calls[w]: the entry points worker w serves
  MaxFaults,    \* bound: database writes that fail
  MaxCrashes,   \* bound: calls cut off by a crash
  None

EntryPoints == {"payment", "payout", "rebuild", "poll", "reconcileJob",
                "add", "approve", "pay", "process"}

ASSUME PaymentAssumption ==
  /\ Rows \subseteq Nat
  /\ Calls \in [Workers -> SUBSET EntryPoints]
  /\ None \notin Rows /\ None \notin Envelopes /\ None \notin Obligations
  /\ MaxFaults \in Nat /\ MaxCrashes \in Nat

VARIABLES
  rowStatus,    \* Transaction.status, "none" before the row is created
  rowError,     \* Transaction.errorCode
  rowHash,      \* Transaction.stellarTxId (unique in the schema)
  rowFor,       \* the obligation the row is to pay
  rowType,      \* metadata.paymentType
  completions,  \* how often transaction.completed was announced for the row
  pc,           \* where each worker is
  ctx,          \* what each worker holds in local variables
  faults,       \* database writes that failed so far
  crashes       \* calls cut off so far

rowVars == <<rowStatus, rowError, rowHash, rowFor, rowType>>
budget == <<faults, crashes>>
payVars == <<stellarVars, rowVars, completions, pc, ctx, budget>>

Statuses == {"none", "created", "submitted", "processing", "successful", "failed"}

\* TERMINAL_STATUSES of syncLocalTransaction, of those the model reaches.
Terminal == {"successful", "failed"}

\* SUBMISSION_TIMEOUT is the only code later code looks at: every other one,
\* and PAYMENT_FAILED for an error without a code, is PAYMENT_FAILED.
ErrorCodes == {"none", "SUBMISSION_TIMEOUT", "PAYMENT_FAILED"}

\* Bound: announcements are counted up to here, more than one is too many.
Many == 2

Modes == {"none", "payment", "payout", "rebuild", "poll", "reconcile"}

Labels == {"idle", "created", "load", "sign", "submit", "await", "record",
           "lookup", "claim", "fail", "verify", "reclaim", "done", "threw"}

\* The locals of a call that begins: its row, and an envelope it knows of.
Begin(mode, r, e) ==
  [mode |-> mode, row |-> r, env |-> e, seq |-> 0, attempt |-> 0, err |-> "none"]

Idle == Begin("none", None, None)

Contexts == [mode : Modes, row : Rows \cup {None},
             env : Envelopes \cup {None}, seq : Nat, attempt : 0..2,
             err : ErrorCodes]

-----------------------------------------------------------------------------
(* Steps that several operations share. *)

Goto(w, label) == pc' = [pc EXCEPT ![w] = label]

\* Leaves the try block with an error: the catch block is next.
Throw(w, code) ==
  /\ Goto(w, "fail")
  /\ ctx' = [ctx EXCEPT ![w].err = code]

\* A write that the database refuses.
WriteFails == faults < MaxFaults /\ faults' = faults + 1 /\ UNCHANGED crashes

NoRowChange == UNCHANGED <<rowVars, completions>>

SetRow(r, status, error, hash) ==
  /\ rowStatus' = [rowStatus EXCEPT ![r] = status]
  /\ rowError' = [rowError EXCEPT ![r] = error]
  /\ rowHash' = [rowHash EXCEPT ![r] = hash]
  /\ UNCHANGED <<rowFor, rowType>>

NewRow(r, status, type, o) ==
  /\ rowStatus[r] = "none"
  /\ \A s \in Rows : s < r => rowStatus[s] # "none"
  /\ rowStatus' = [rowStatus EXCEPT ![r] = status]
  /\ rowType' = [rowType EXCEPT ![r] = type]
  /\ rowFor' = [rowFor EXCEPT ![r] = o]
  /\ UNCHANGED <<rowError, rowHash, completions>>

\* No other row is for this obligation: each request owes its own amount.
Unasked(o) == \A r \in Rows : rowFor[r] # o

-----------------------------------------------------------------------------
(* buildAndSubmitPayment and one payout: the row, then the payment cycle. *)

\* prisma.transaction.create, with status 'created'.
CreatePayment(w, r, o) ==
  /\ pc[w] = "idle"
  /\ NewRow(r, "created", "stellar_payment", o)
  /\ Goto(w, "created")
  /\ ctx' = [ctx EXCEPT ![w] = Begin("payment", r, None)]
  /\ UNCHANGED <<stellarVars, budget>>

\* prisma.transaction.update to 'submitted'; no catch block is open yet.
MarkSubmitted(w) ==
  /\ pc[w] = "created"
  /\ \/ /\ SetRow(ctx[w].row, "submitted", rowError[ctx[w].row],
                  rowHash[ctx[w].row])
        /\ Goto(w, "load")
        /\ UNCHANGED <<completions, budget>>
     \/ WriteFails /\ NoRowChange /\ Goto(w, "threw")
  /\ UNCHANGED <<stellarVars, ctx>>

\* The row of one payout is created as 'submitted'.
CreatePayout(w, r, o) ==
  /\ pc[w] = "idle"
  /\ NewRow(r, "submitted", "treasury_batch_payout", o)
  /\ Goto(w, "load")
  /\ ctx' = [ctx EXCEPT ![w] = Begin("payout", r, None)]
  /\ UNCHANGED <<stellarVars, budget>>

\* Mutant: the row is taken by its id alone.
ReclaimById(w) ==
  /\ pc[w] = "reclaim"
  /\ SetRow(ctx[w].row, "submitted", "none", rowHash[ctx[w].row])
  /\ Goto(w, "load")
  /\ UNCHANGED <<stellarVars, completions, ctx, budget>>

\* updateMany where status = 'failed': only one claimer gets the row.  The
\* row keeps the hash of the failed attempt.
Reclaim(w) ==
  /\ pc[w] = "reclaim"
  /\ \/ /\ rowStatus[ctx[w].row] = "failed"
        /\ SetRow(ctx[w].row, "submitted", "none", rowHash[ctx[w].row])
        /\ Goto(w, "load")
        /\ UNCHANGED <<completions, budget>>
     \/ /\ rowStatus[ctx[w].row] # "failed"
        /\ Goto(w, "threw")
        /\ NoRowChange /\ UNCHANGED budget
     \/ WriteFails /\ NoRowChange /\ Goto(w, "threw")
  /\ UNCHANGED <<stellarVars, ctx>>

\* server.loadAccount in buildRawPaymentTransaction.
LoadAccount(w) ==
  /\ pc[w] = "load"
  /\ \/ /\ Goto(w, "sign")
        /\ ctx' = [ctx EXCEPT ![w].seq = accountSeq]
     \/ Throw(w, "PAYMENT_FAILED")
  /\ NoRowChange
  /\ UNCHANGED <<stellarVars, budget>>

\* Mutant: no onSignedHash, the hash is recorded with 'processing' only.
SignOnly(w) ==
  /\ pc[w] = "sign"
  /\ \E e \in Envelopes : /\ Sign(e, ctx[w].seq, {rowFor[ctx[w].row]})
                          /\ ctx' = [ctx EXCEPT ![w].env = e]
  /\ Goto(w, "submit")
  /\ NoRowChange /\ UNCHANGED budget

\* signTransaction, then onSignedHash: the row gets the hash of the signed
\* envelope before anything is submitted.  The wallet may be inactive or its
\* key unreadable; a failed write leaves the envelope unused.
SignAndRecordHash(w) ==
  /\ pc[w] = "sign"
  /\ \/ \E e \in Envelopes :
          /\ Sign(e, ctx[w].seq, {rowFor[ctx[w].row]})
          /\ SetRow(ctx[w].row, rowStatus[ctx[w].row], rowError[ctx[w].row], e)
          /\ Goto(w, "submit")
          /\ ctx' = [ctx EXCEPT ![w].env = e]
          /\ UNCHANGED <<completions, budget>>
     \/ /\ Throw(w, "PAYMENT_FAILED")
        /\ NoRowChange /\ UNCHANGED <<stellarVars, budget>>
     \/ /\ WriteFails /\ Throw(w, "PAYMENT_FAILED")
        /\ NoRowChange /\ UNCHANGED stellarVars

\* Mutant: the row is 'processing' as soon as the envelope is sent.
SubmitAndReport(w) ==
  /\ pc[w] = "submit"
  /\ Submit(ctx[w].env)
  /\ SetRow(ctx[w].row, "processing", "none", ctx[w].env)
  /\ Goto(w, "await")
  /\ ctx' = [ctx EXCEPT ![w].attempt = 1]
  /\ UNCHANGED <<completions, budget>>

\* submitSignedTransaction, first attempt.
SubmitEnvelope(w) ==
  /\ pc[w] = "submit"
  /\ Submit(ctx[w].env)
  /\ Goto(w, "await")
  /\ ctx' = [ctx EXCEPT ![w].attempt = 1]
  /\ NoRowChange /\ UNCHANGED budget

\* The code an unanswered submission ends with, by mapSubmissionError: only a
\* timeout has one of its own.
IndeterminateCode(answer) ==
  IF answer = "timeout" THEN "SUBMISSION_TIMEOUT" ELSE "PAYMENT_FAILED"

\* Mutant: an unanswered submission counts as accepted.
AcceptUnanswered(w) ==
  /\ pc[w] = "await"
  /\ \E answer \in {"success", "timeout", "gateway"} : MayAnswer(ctx[w].env, answer)
  /\ Goto(w, "record")
  /\ NoRowChange /\ UNCHANGED <<stellarVars, ctx, budget>>

\* Horizon answers.  A rejection is final; an answer that looks transient is
\* retried once with the same envelope, and then given up.
ReceiveAnswer(w) ==
  LET e == ctx[w].env IN
  /\ pc[w] = "await"
  /\ \/ /\ MayAnswer(e, "success")
        /\ Goto(w, "record")
        /\ UNCHANGED <<stellarVars, ctx>>
     \/ /\ MayAnswer(e, "rejected")
        /\ Throw(w, "PAYMENT_FAILED")
        /\ UNCHANGED stellarVars
     \/ \E answer \in {"timeout", "gateway"} :
          /\ MayAnswer(e, answer)
          /\ \/ /\ ctx[w].attempt < 2
                /\ Submit(e)
                /\ ctx' = [ctx EXCEPT ![w].attempt = @ + 1]
                /\ UNCHANGED pc
             \/ /\ ctx[w].attempt = 2
                /\ Throw(w, IndeterminateCode(answer))
                /\ UNCHANGED stellarVars
  /\ NoRowChange /\ UNCHANGED budget

\* The row is 'processing', whatever it was meanwhile.  A payment is then
\* confirmed inline, a payout is not.
MarkProcessing(w) ==
  /\ pc[w] = "record"
  /\ \/ /\ SetRow(ctx[w].row, "processing", "none", ctx[w].env)
        /\ Goto(w, IF ctx[w].mode = "payout" THEN "done" ELSE "lookup")
        /\ UNCHANGED <<completions, ctx, budget>>
     \/ /\ WriteFails /\ Throw(w, "PAYMENT_FAILED") /\ NoRowChange
  /\ UNCHANGED stellarVars

\* Mutant: the catch block throws on without a write.
RethrowOnly(w) ==
  /\ pc[w] = "fail"
  /\ Goto(w, "threw")
  /\ NoRowChange /\ UNCHANGED <<stellarVars, ctx, budget>>

\* The catch block: the row is 'failed', whatever it was meanwhile.  When
\* this write fails too, its own error is thrown.
RecordFailure(w) ==
  /\ pc[w] = "fail"
  /\ \/ /\ SetRow(ctx[w].row, "failed", ctx[w].err, rowHash[ctx[w].row])
        /\ UNCHANGED <<completions, ctx, budget>>
     \/ /\ WriteFails /\ NoRowChange
        /\ ctx' = [ctx EXCEPT ![w].err = "PAYMENT_FAILED"]
  /\ Goto(w, "threw")
  /\ UNCHANGED stellarVars

-----------------------------------------------------------------------------
(* getTransactionStatus and syncLocalTransaction. *)

\* getPaymentDetails reads the row; only instant payments are served by it.
StartPoll(w, r) ==
  /\ pc[w] = "idle"
  /\ rowType[r] = "stellar_payment"
  /\ rowStatus[r] \in {"processing", "submitted"}
  /\ rowHash[r] # None
  /\ Goto(w, "lookup")
  /\ ctx' = [ctx EXCEPT ![w] = Begin("poll", r, rowHash[r])]
  /\ NoRowChange /\ UNCHANGED <<stellarVars, budget>>

\* Where a call of getTransactionStatus that throws leads: the error of the
\* inline confirmation is ignored, every other caller passes it on.
OnStatusError(w) ==
  IF ctx[w].mode \in {"poll", "reconcile"} THEN "threw" ELSE "done"

\* Mutant: a 404 is taken for a record.
LookUpAnyway(w) ==
  /\ pc[w] = "lookup"
  /\ \E r \in Rows : /\ rowHash[r] = ctx[w].env
                     /\ ctx' = [ctx EXCEPT ![w].row = r]
  /\ Goto(w, "claim")
  /\ NoRowChange /\ UNCHANGED <<stellarVars, budget>>

\* Horizon is asked for the envelope, and the row is found by its hash.  What
\* the ledger says of an envelope never changes, so the answer and the find
\* are one step.  A 404 is 'pending': the call holds no record.
LookUp(w) ==
  LET e == ctx[w].env IN
  /\ pc[w] = "lookup"
  /\ \/ \E r \in Rows :
          /\ OnLedger(e)
          /\ rowHash[r] = e
          /\ Goto(w, "claim")
          /\ ctx' = [ctx EXCEPT ![w].row = r]
     \/ /\ OnLedger(e)
        /\ \A r \in Rows : rowHash[r] # e
        /\ Goto(w, "done") /\ UNCHANGED ctx
     \/ /\ ~OnLedger(e)
        /\ Goto(w, "done")
        /\ ctx' = [ctx EXCEPT ![w].env = None]
     \/ Goto(w, OnStatusError(w)) /\ UNCHANGED ctx
  /\ NoRowChange /\ UNCHANGED <<stellarVars, budget>>

\* updateMany where the status is not terminal, by the id found before; the
\* winner announces the outcome.
ClaimOutcome(w) ==
  LET r == ctx[w].row IN
  /\ pc[w] = "claim"
  /\ \/ /\ rowStatus[r] \notin Terminal
        /\ envState[ctx[w].env] = "success"
        /\ SetRow(r, "successful", rowError[r], rowHash[r])
        /\ completions' = [completions EXCEPT ![r] = IF @ < Many THEN @ + 1 ELSE @]
        /\ UNCHANGED budget
     \/ /\ rowStatus[r] \notin Terminal
        /\ envState[ctx[w].env] = "failed"
        /\ SetRow(r, "failed", "PAYMENT_FAILED", rowHash[r])
        /\ UNCHANGED <<completions, budget>>
     \/ rowStatus[r] \in Terminal /\ NoRowChange /\ UNCHANGED budget
  /\ Goto(w, "done")
  /\ UNCHANGED <<stellarVars, ctx>>

ClaimOutcomeFails(w) ==
  /\ pc[w] = "claim"
  /\ WriteFails
  /\ Goto(w, OnStatusError(w))
  /\ NoRowChange /\ UNCHANGED <<stellarVars, ctx>>

-----------------------------------------------------------------------------
(* rebuildFailedTransaction. *)

\* The row is read: it must be 'failed'.  Without a hash there is nothing to
\* verify.
StartRebuild(w, r) ==
  /\ pc[w] = "idle"
  /\ rowStatus[r] = "failed"
  /\ Goto(w, IF rowHash[r] = None THEN "reclaim" ELSE "verify")
  /\ ctx' = [ctx EXCEPT ![w] = Begin("rebuild", r, rowHash[r])]
  /\ NoRowChange /\ UNCHANGED <<stellarVars, budget>>

\* Mutant: the failed attempt is not looked up.
SkipVerification(w) ==
  /\ pc[w] = "verify"
  /\ Goto(w, "reclaim")
  /\ NoRowChange /\ UNCHANGED <<stellarVars, ctx, budget>>

\* Horizon is asked for the envelope of the failed attempt.  A successful one
\* ends the call, and so does a Horizon error; a failed one and a 404 go on.
VerifyNotLanded(w) ==
  /\ pc[w] = "verify"
  /\ \/ envState[ctx[w].env] # "success" /\ Goto(w, "reclaim")
     \/ Goto(w, "threw")
  /\ NoRowChange /\ UNCHANGED <<stellarVars, ctx, budget>>

-----------------------------------------------------------------------------

\* The call has answered: its worker serves the next one.
End(w) ==
  /\ pc[w] \in {"done", "threw"}
  /\ Goto(w, "idle")
  /\ ctx' = [ctx EXCEPT ![w] = Idle]
  /\ NoRowChange /\ UNCHANGED <<stellarVars, budget>>

\* The process dies in the middle of a call: its local variables are lost.
Crash(w) ==
  /\ pc[w] # "idle"
  /\ crashes < MaxCrashes
  /\ crashes' = crashes + 1
  /\ Goto(w, "idle")
  /\ ctx' = [ctx EXCEPT ![w] = Idle]
  /\ NoRowChange /\ UNCHANGED <<stellarVars, faults>>

\* One step of a call that has begun.
CallStep(w) ==
  \/ MarkSubmitted(w) \/ LoadAccount(w) \/ SignAndRecordHash(w)
  \/ SubmitEnvelope(w) \/ ReceiveAnswer(w) \/ MarkProcessing(w)
  \/ RecordFailure(w) \/ LookUp(w) \/ ClaimOutcome(w)
  \/ ClaimOutcomeFails(w) \/ VerifyNotLanded(w) \/ Reclaim(w)

\* The entry points.
StartPayment(w) == /\ "payment" \in Calls[w]
                   /\ \E r \in Rows, o \in Obligations :
                        Unasked(o) /\ CreatePayment(w, r, o)
StartPayout(w) == /\ "payout" \in Calls[w]
                  /\ \E r \in Rows, o \in Obligations :
                       Unasked(o) /\ CreatePayout(w, r, o)
Poll(w) == "poll" \in Calls[w] /\ \E r \in Rows : StartPoll(w, r)
Rebuild(w) == "rebuild" \in Calls[w] /\ \E r \in Rows : StartRebuild(w, r)

\* The hourly job reconcile-transactions reads the treasury history; comparing
\* rows with the ledger is a TODO of its handler, and no row changes.
ReconcileJob(w) ==
  /\ "reconcileJob" \in Calls[w]
  /\ pc[w] = "idle"
  /\ UNCHANGED payVars

Network == NetworkStep /\ NoRowChange /\ UNCHANGED <<pc, ctx, budget>>

Init ==
  /\ StellarInit
  /\ rowStatus = [r \in Rows |-> "none"]
  /\ rowError = [r \in Rows |-> "none"]
  /\ rowHash = [r \in Rows |-> None]
  /\ rowFor = [r \in Rows |-> None]
  /\ rowType = [r \in Rows |-> "none"]
  /\ completions = [r \in Rows |-> 0]
  /\ pc = [w \in Workers |-> "idle"]
  /\ ctx = [w \in Workers |-> Idle]
  /\ faults = 0
  /\ crashes = 0

Next ==
  \/ Network
  \/ \E w \in Workers :
       \/ StartPayment(w) \/ StartPayout(w) \/ Poll(w) \/ Rebuild(w)
       \/ ReconcileJob(w)
       \/ CallStep(w) \/ End(w) \/ Crash(w)

Spec == Init /\ [][Next]_payVars

\* Every await of a call is answered in the end, and the network applies or
\* drops what was submitted.  Nothing makes a client call again.
Fairness ==
  /\ \A w \in Workers : WF_payVars(CallStep(w)) /\ WF_payVars(End(w))
  /\ WF_payVars(Network)

FairSpec == Spec /\ Fairness

-----------------------------------------------------------------------------
(* Properties. *)

\* Every variable holds values of the kind the code stores in it.
TypeOK ==
  /\ StellarTypeOK
  /\ rowStatus \in [Rows -> Statuses]
  /\ rowError \in [Rows -> ErrorCodes]
  /\ rowHash \in [Rows -> Envelopes \cup {None}]
  /\ rowFor \in [Rows -> Obligations \cup {None}]
  /\ rowType \in [Rows -> {"none", "stellar_payment", "treasury_batch_payout"}]
  /\ completions \in [Rows -> 0..Many]
  /\ pc \in [Workers -> Labels]
  /\ ctx \in [Workers -> Contexts]
  /\ faults \in Nat
  /\ crashes \in Nat

\* The status a client is shown is never ahead of the ledger: a row that says
\* 'processing' or 'successful', or whose completion was announced, is for an
\* obligation whose money has moved.  Handlers, pollers and rebuilds all
\* write that status, each from an answer it obtained earlier, so it relates
\* what a call remembers to what the ledger did.
ReportedPaidIsPaid ==
  \A r \in Rows :
    rowStatus[r] \in {"processing", "successful"} \/ completions[r] > 0
      => Paid(rowFor[r])

\* The parts of the inductive invariant that ReportedPaidIsPaid rests on.  The
\* hash on a row is that of an envelope signed to pay what the row is for.
RowsSound ==
  \A r \in Rows :
    /\ rowStatus[r] = "none" => rowHash[r] = None /\ completions[r] = 0
    /\ rowStatus[r] # "none" => rowFor[r] \in Obligations
    /\ rowHash[r] # None => /\ envState[rowHash[r]] # "unused"
                            /\ envPays[rowHash[r]] = {rowFor[r]}

\* What a call remembers when it resumes is still true: its row exists, its
\* envelope pays what the row is for, and an answer that said so is matched
\* by the ledger.
CallSound(w) ==
  LET c == ctx[w] IN
  /\ pc[w] \in {"created", "load", "sign", "submit", "await", "record", "fail",
               "verify", "reclaim", "claim"}
       => c.row \in Rows /\ rowStatus[c.row] # "none"
  /\ pc[w] \in {"submit", "await", "record", "lookup", "claim", "verify"}
       => c.env \in Envelopes /\ envState[c.env] # "unused"
  /\ pc[w] \in {"submit", "await", "record", "claim"}
       => envPays[c.env] = {rowFor[c.row]}
  /\ pc[w] = "record" => envState[c.env] = "success"
  /\ pc[w] = "claim" => OnLedger(c.env)

\* What the rows, the calls and the ledger agree on whenever a step begins.
PaymentInv ==
  TypeOK /\ RowsSound /\ (\A w \in Workers : CallSound(w)) /\ ReportedPaidIsPaid

\* Nothing that moved money, or still may, is out of reach of a later
\* reconciliation: its hash stands on a row.  onSignedHash records it before
\* the submission, and a crash or a failed write must not undo that.
NoForgottenEnvelope ==
  \A e \in Envelopes : Live(e) => \E r \in Rows : rowHash[r] = e

\* One request moves its money at most once.
NoDoublePay ==
  \A o \in Obligations : \A e, f \in Landed(o) : e = f

\* "two concurrent rebuilds can never both submit": no two calls execute the
\* same row at the same time.
Executing(w) == pc[w] \in {"load", "sign", "submit", "await", "record", "fail"}
OneExecutionPerRow ==
  \A v, w \in Workers :
    Executing(v) /\ Executing(w) /\ ctx[v].row = ctx[w].row => v = w

\* A row that a handler has submitted leaves 'submitted' in the end: without
\* crashes and failed writes no answer of Horizon leaves a payment hanging,
\* whatever pollers and rebuilds do meanwhile.
SubmittedResolves ==
  \A r \in Rows : rowStatus[r] = "submitted" ~> rowStatus[r] # "submitted"

\* What the payment service promises, without rows, hashes and workers.
Promise == INSTANCE PaymentPromise WITH
  landed <- [o \in Obligations |-> Cardinality(Landed(o))],
  told <- {o \in Obligations : \E r \in Rows :
             rowFor[r] = o /\ rowStatus[r] \in {"processing", "successful"}}

\* Money moves at most once per request, the requester is told only after it
\* moved, and what was told is not taken back.
PromiseKept == Promise!Spec
=============================================================================
