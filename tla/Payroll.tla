------------------------------ MODULE Payroll ------------------------------
(***************************************************************************)
(* Payroll batches (src/apps/backend/src/services/payroll.service.ts) over *)
(* the payment rows and the ledger.  One batch, whose items are paid by    *)
(* two operations that share nothing but the database:                     *)
(*                                                                         *)
(*   pay       payPayrollItem: one item, through buildAndSubmitPayment     *)
(*   process   processPayrollBatch: many items per envelope, no rows       *)
(*                                                                         *)
(* A worker serving one of them keeps its own locals in job[w]; while the  *)
(* call of another service runs inside, pc[w] and ctx[w] are that call's.  *)
(***************************************************************************)
EXTENDS PaymentExecution

CONSTANTS
  Items,        \* payroll items of the batch: each owes its recipient once
  GroupOf,      \* GroupOf[i]: asset and memo, which an envelope has one of
  ChunkSize     \* operations per envelope (100 in the code)

ASSUME PayrollAssumption ==
  /\ Items \subseteq Obligations
  /\ ChunkSize \in Nat \ {0}

VARIABLES
  batchStatus,  \* PayrollBatch.status
  itemStatus,   \* PayrollItem.status, "none" before the item is added
  itemHash,     \* PayrollItem.stellarTxId
  itemError,    \* PayrollItem.errorMessage, as far as later code reads it
  job           \* the locals of the payroll operation a worker serves

itemVars == <<itemStatus, itemHash, itemError>>
payrollVars == <<payVars, batchStatus, itemVars, job>>

BatchStatuses == {"pending", "approved", "processing", "completed", "failed"}
ItemStatuses == {"none", "pending", "processing", "completed", "failed"}
Payable == {"pending", "failed"}

NoJob == [at |-> "none", item |-> None, hash |-> None, reuse |-> None,
          todo |-> {}, chunk |-> {}, left |-> {}, paid |-> FALSE, failed |-> FALSE]

-----------------------------------------------------------------------------

At(w, label) == job[w].at = label
Free(w) == pc[w] = "idle" /\ job[w] = NoJob

\* The operation ends, with or without an error.
Leave(w) ==
  /\ job' = [job EXCEPT ![w] = NoJob]
  /\ Goto(w, "idle")
  /\ ctx' = [ctx EXCEPT ![w] = Idle]

\* It goes on, with nothing of a call inside.
Proceed(w, label) ==
  /\ job' = [job EXCEPT ![w].at = label]
  /\ UNCHANGED <<pc, ctx>>

SetItem(i, status, hash, error) ==
  /\ itemStatus' = [itemStatus EXCEPT ![i] = status]
  /\ itemHash' = [itemHash EXCEPT ![i] = hash]
  /\ itemError' = [itemError EXCEPT ![i] = error]

SetBatch(status) == batchStatus' = status

NoPaymentChange == UNCHANGED <<stellarVars, rowVars, completions>>
NoItemChange == UNCHANGED <<batchStatus, itemVars>>

\* A write that the database refuses ends the operation with its error.
RefusedWriteEnds(w) == WriteFails /\ Leave(w) /\ NoItemChange

-----------------------------------------------------------------------------
(* The life of a batch before payment. *)

\* addPayrollItem reads the batch, validates, and creates the item later.  It
\* begins only while Items, a bound, has one that is not there yet.
StartAdd(w) ==
  /\ "add" \in Calls[w]
  /\ Free(w)
  /\ \E i \in Items : itemStatus[i] = "none"
  /\ batchStatus = "pending"
  /\ job' = [job EXCEPT ![w] = [NoJob EXCEPT !.at = "add"]]
  /\ UNCHANGED <<pc, ctx, budget>> /\ NoPaymentChange /\ NoItemChange

\* prisma.payrollItem.create: the item is one that was not there.
AddItem(w) ==
  /\ At(w, "add")
  /\ \E i \in Items : itemStatus[i] = "none" /\ SetItem(i, "pending", None, "none")
  /\ Leave(w)
  /\ UNCHANGED <<batchStatus, budget>> /\ NoPaymentChange

\* approvePayrollBatch reads the batch and approves it later, whatever it is
\* by then.
StartApprove(w) ==
  /\ "approve" \in Calls[w]
  /\ Free(w)
  /\ batchStatus = "pending"
  /\ job' = [job EXCEPT ![w] = [NoJob EXCEPT !.at = "approve"]]
  /\ UNCHANGED <<pc, ctx, budget>> /\ NoPaymentChange /\ NoItemChange

ApproveBatch(w) ==
  /\ At(w, "approve")
  /\ SetBatch("approved")
  /\ Leave(w)
  /\ UNCHANGED <<itemVars, budget>> /\ NoPaymentChange

-----------------------------------------------------------------------------
(* payPayrollItem. *)

StartPay(w, i) ==
  /\ "pay" \in Calls[w]
  /\ Free(w)
  /\ batchStatus \in {"approved", "processing"}
  /\ job' = [job EXCEPT ![w] = [NoJob EXCEPT !.at = "advance", !.item = i]]
  /\ UNCHANGED <<pc, ctx, budget>> /\ NoPaymentChange /\ NoItemChange

\* Mutant: the batch is advanced by its id alone.
AdvanceById(w) ==
  /\ At(w, "advance")
  /\ SetBatch("processing")
  /\ Proceed(w, "readItem")
  /\ UNCHANGED <<itemVars, budget>> /\ NoPaymentChange

\* updateMany where status = 'approved'.
AdvanceBatch(w) ==
  /\ At(w, "advance")
  /\ \/ /\ SetBatch(IF batchStatus = "approved" THEN "processing" ELSE batchStatus)
        /\ Proceed(w, "readItem")
        /\ UNCHANGED <<itemVars, budget>>
     \/ RefusedWriteEnds(w)
  /\ NoPaymentChange

\* The item is read; a failed one is looked into before it is paid again.  The
\* batch processor leaves the hash of an unanswered envelope on the item.
ReadItem(w) ==
  LET i == job[w].item IN
  /\ At(w, "readItem")
  /\ \/ itemStatus[i] = "none" /\ Leave(w)
     \/ /\ itemStatus[i] = "failed"
        /\ job' = [job EXCEPT ![w].at = "findPrior",
             ![w].hash = IF itemError[i] = "SUBMISSION_TIMEOUT"
                         THEN itemHash[i] ELSE None]
        /\ UNCHANGED <<pc, ctx>>
     \/ itemStatus[i] \notin {"none", "failed"} /\ Proceed(w, "claim")
  /\ UNCHANGED budget /\ NoPaymentChange /\ NoItemChange

FailedRows(i) == {r \in Rows : rowFor[r] = i /\ rowStatus[r] = "failed"}
UnsettledRows(i) ==
  {r \in FailedRows(i) : rowError[r] = "SUBMISSION_TIMEOUT" /\ rowHash[r] # None}

\* orderBy createdAt desc, the first one; None when there is none.
Latest(r, rows) ==
  \/ rows = {} /\ r = None
  \/ r \in rows /\ \A s \in rows : s <= r

\* getTransactionStatus is called for a hash.
AskHorizon(w, hash) ==
  /\ Goto(w, "lookup")
  /\ ctx' = [ctx EXCEPT ![w] = Begin("reconcile", None, hash)]

\* The latest failed row of the item is what a new attempt will reuse.
FindPriorRow(w) ==
  /\ At(w, "findPrior")
  /\ \E reuse \in Rows \cup {None} :
       /\ Latest(reuse, FailedRows(job[w].item))
       /\ \/ /\ job[w].hash # None
             /\ job' = [job EXCEPT ![w].at = "itemAttempt", ![w].reuse = reuse]
             /\ AskHorizon(w, job[w].hash)
          \/ /\ job[w].hash = None
             /\ job' = [job EXCEPT ![w].at = "findUnsettled", ![w].reuse = reuse]
             /\ UNCHANGED <<pc, ctx>>
  /\ UNCHANGED budget /\ NoPaymentChange /\ NoItemChange

\* The latest row of the item whose submission timed out is asked about too.
FindUnsettledRow(w) ==
  /\ At(w, "findUnsettled")
  /\ \E r \in Rows \cup {None} :
       /\ Latest(r, UnsettledRows(job[w].item))
       /\ \/ /\ r # None
             /\ job' = [job EXCEPT ![w].at = "rowAttempt"]
             /\ AskHorizon(w, rowHash[r])
          \/ r = None /\ Proceed(w, "claim")
  /\ UNCHANGED budget /\ NoPaymentChange /\ NoItemChange

\* Mutant: an envelope that Horizon does not know counts as failed.
UnknownIsSafe(w) ==
  /\ job[w].at \in {"itemAttempt", "rowAttempt"}
  /\ pc[w] = "done"
  /\ job' = [job EXCEPT
       ![w].at = IF ctx[w].env = None THEN "claim"
                 ELSE IF envState[ctx[w].env] = "success" THEN "recover"
                 ELSE "claim",
       ![w].hash = ctx[w].env]
  /\ Goto(w, "idle")
  /\ ctx' = [ctx EXCEPT ![w] = Idle]
  /\ UNCHANGED budget /\ NoPaymentChange /\ NoItemChange

\* reconcileAttempt: 'recover' when the envelope landed, 'wait' when Horizon
\* does not know it, 'safe' when it failed on the ledger.
Reconciled(w) ==
  /\ job[w].at \in {"itemAttempt", "rowAttempt"}
  /\ \/ pc[w] = "threw" /\ Leave(w)
     \/ pc[w] = "done" /\ ctx[w].env = None /\ Leave(w)
     \/ /\ pc[w] = "done" /\ ctx[w].env # None
        /\ job' = [job EXCEPT
             ![w].at = IF envState[ctx[w].env] = "success" THEN "recover"
                       ELSE IF @ = "itemAttempt" THEN "findUnsettled"
                       ELSE "claim",
             ![w].hash = ctx[w].env]
        /\ Goto(w, "idle")
        /\ ctx' = [ctx EXCEPT ![w] = Idle]
  /\ UNCHANGED budget /\ NoPaymentChange /\ NoItemChange

RecoverItem(w) ==
  /\ At(w, "recover")
  /\ \/ /\ SetItem(job[w].item, "completed", job[w].hash, "none")
        /\ Leave(w)
        /\ UNCHANGED <<batchStatus, budget>>
     \/ RefusedWriteEnds(w)
  /\ NoPaymentChange

\* Mutant: the item is claimed by its id alone.
ClaimItemById(w) ==
  /\ At(w, "claim")
  /\ SetItem(job[w].item, "processing", itemHash[job[w].item], itemError[job[w].item])
  /\ Proceed(w, "pay")
  /\ UNCHANGED <<batchStatus, budget>> /\ NoPaymentChange

\* updateMany where the status is pending or failed.
ClaimItem(w) ==
  LET i == job[w].item IN
  /\ At(w, "claim")
  /\ \/ /\ itemStatus[i] \in Payable
        /\ SetItem(i, "processing", itemHash[i], itemError[i])
        /\ Proceed(w, "pay")
        /\ UNCHANGED <<batchStatus, budget>>
     \/ /\ itemStatus[i] \notin Payable
        /\ Leave(w)
        /\ NoItemChange /\ UNCHANGED budget
     \/ RefusedWriteEnds(w)
  /\ NoPaymentChange

\* buildAndSubmitPayment is called, on the row to reuse or on a new one; it
\* throws without a row when it refuses its input or cannot write.
CallPayment(w) ==
  /\ At(w, "pay")
  /\ \/ /\ job[w].reuse = None
        /\ \E r \in Rows : CreatePayment(w, r, job[w].item)
        /\ job' = [job EXCEPT ![w].at = "call"]
     \/ /\ job[w].reuse # None
        /\ Goto(w, "reclaim")
        /\ ctx' = [ctx EXCEPT ![w] = Begin("payment", job[w].reuse, None)]
        /\ job' = [job EXCEPT ![w].at = "call"]
        /\ NoPaymentChange /\ UNCHANGED budget
     \/ Proceed(w, "persist") /\ NoPaymentChange /\ UNCHANGED budget
  /\ NoItemChange

\* Mutant: the item is completed whether the call returned or threw.
CompleteAnyway(w) ==
  /\ At(w, "call") /\ pc[w] \in {"done", "threw"}
  /\ SetItem(job[w].item, "completed", ctx[w].env, "none")
  /\ Leave(w)
  /\ UNCHANGED <<batchStatus, budget>> /\ NoPaymentChange

\* It returned: the item is completed.  If that write fails, the catch block
\* treats it like a failed payment.
CompleteItem(w) ==
  /\ At(w, "call") /\ pc[w] = "done"
  /\ \/ /\ SetItem(job[w].item, "completed", ctx[w].env, "none")
        /\ Leave(w)
        /\ UNCHANGED <<batchStatus, budget>>
     \/ WriteFails /\ Proceed(w, "persist") /\ NoItemChange
  /\ NoPaymentChange

\* Mutant: the failure is written once, and a failed write is not repeated.
PersistOnce(w) ==
  /\ \/ At(w, "call") /\ pc[w] = "threw"
     \/ At(w, "persist")
  /\ \/ /\ SetItem(job[w].item, "failed", itemHash[job[w].item], ctx[w].err)
        /\ Leave(w)
        /\ UNCHANGED <<batchStatus, budget>>
     \/ RefusedWriteEnds(w)
  /\ NoPaymentChange

\* It threw, or the item could not be completed: the item is failed, with the
\* message of the error.  A second write is tried when the first one fails;
\* when both fail the item stays in 'processing'.
PersistItemFailure(w) ==
  LET i == job[w].item IN
  /\ \/ At(w, "call") /\ pc[w] = "threw"
     \/ job[w].at \in {"persist", "persistAgain"}
  /\ \/ /\ SetItem(i, "failed", itemHash[i],
                   IF ctx[w].err = "SUBMISSION_TIMEOUT"
                   THEN "SUBMISSION_TIMEOUT" ELSE "PAYMENT_FAILED")
        /\ Leave(w)
        /\ UNCHANGED <<batchStatus, budget>>
     \/ /\ ~At(w, "persistAgain")
        /\ WriteFails /\ Proceed(w, "persistAgain") /\ NoItemChange
     \/ At(w, "persistAgain") /\ RefusedWriteEnds(w)
  /\ NoPaymentChange

-----------------------------------------------------------------------------
(* processPayrollBatch: claiming. *)

\* The batch and its items are read together.
StartProcess(w) ==
  /\ "process" \in Calls[w]
  /\ Free(w)
  /\ batchStatus = "approved"
  /\ job' = [job EXCEPT ![w] = [NoJob EXCEPT !.at = "claimBatch",
               !.todo = {i \in Items : itemStatus[i] \in Payable}]]
  /\ UNCHANGED <<pc, ctx, budget>> /\ NoPaymentChange /\ NoItemChange

\* Mutant: the batch is claimed by its id alone.
ClaimBatchById(w) ==
  /\ At(w, "claimBatch")
  /\ SetBatch("processing")
  /\ Proceed(w, IF job[w].todo = {} THEN "finish" ELSE "decrypt")
  /\ UNCHANGED <<itemVars, budget>> /\ NoPaymentChange

\* updateMany where status = 'approved': one processor wins.
ClaimBatch(w) ==
  /\ At(w, "claimBatch")
  /\ \/ /\ batchStatus = "approved"
        /\ SetBatch("processing")
        /\ Proceed(w, IF job[w].todo = {} THEN "finish" ELSE "decrypt")
        /\ UNCHANGED <<itemVars, budget>>
     \/ batchStatus # "approved" /\ Leave(w) /\ NoItemChange /\ UNCHANGED budget
     \/ RefusedWriteEnds(w)
  /\ NoPaymentChange

\* Without the wallet's key the batch is set back to 'approved'; a key that is
\* no Stellar secret ends the call after that, with the batch in 'processing'.
DecryptKey(w) ==
  /\ At(w, "decrypt")
  /\ \/ Proceed(w, "claimItems") /\ NoItemChange /\ UNCHANGED budget
     \/ SetBatch("approved") /\ Leave(w) /\ UNCHANGED <<itemVars, budget>>
     \/ Leave(w) /\ NoItemChange /\ UNCHANGED budget
     \/ RefusedWriteEnds(w)
  /\ NoPaymentChange

\* updateMany over the snapshot, where the status is pending or failed.
ClaimItems(w) ==
  /\ At(w, "claimItems")
  /\ \/ /\ itemStatus' = [i \in Items |->
             IF i \in job[w].todo /\ itemStatus[i] \in Payable
             THEN "processing" ELSE itemStatus[i]]
        /\ Proceed(w, "reread")
        /\ UNCHANGED <<batchStatus, itemHash, itemError, budget>>
     \/ RefusedWriteEnds(w)
  /\ NoPaymentChange

\* The items of the snapshot that are 'processing' now are the ones to pay.
RereadItems(w) ==
  /\ At(w, "reread")
  /\ job' = [job EXCEPT ![w].at = "next",
               ![w].todo = {i \in @ : itemStatus[i] = "processing"}]
  /\ UNCHANGED <<pc, ctx, budget>> /\ NoPaymentChange /\ NoItemChange

-----------------------------------------------------------------------------
(* processPayrollBatch: one envelope per chunk of a group. *)

IsChunk(c, todo) ==
  LET group == {i \in todo : \E j \in c : GroupOf[i] = GroupOf[j]} IN
  /\ c # {} /\ c \subseteq todo
  /\ \A i, j \in c : GroupOf[i] = GroupOf[j]
  /\ Cardinality(c) <= ChunkSize
  /\ c = group \/ Cardinality(c) = ChunkSize

\* loadAccount for the next chunk; when it fails there is no hash yet, and the
\* items are tried one by one.
LoadForChunk(w) ==
  /\ At(w, "next")
  /\ \E c \in SUBSET job[w].todo, label \in {"chunkSubmit", "single"} :
       /\ IsChunk(c, job[w].todo)
       /\ job' = [job EXCEPT ![w].at = label, ![w].chunk = c, ![w].left = c,
                             ![w].todo = @ \ c]
  /\ ctx' = [ctx EXCEPT ![w] = [Idle EXCEPT !.seq = accountSeq]]
  /\ UNCHANGED <<pc, budget>> /\ NoPaymentChange /\ NoItemChange

\* build, sign and submitTransaction, with no await and no write between; an
\* operation that cannot be built leaves no hash.
SignAndSubmit(w, pays, label) ==
  \E e \in Envelopes :
    /\ envState[e] = "unused"
    /\ envState' = [envState EXCEPT ![e] = "inflight"]
    /\ envSeq' = [envSeq EXCEPT ![e] = ctx[w].seq + 1]
    /\ envPays' = [envPays EXCEPT ![e] = pays]
    /\ ctx' = [ctx EXCEPT ![w].env = e]
    /\ job' = [job EXCEPT ![w].at = label]
    /\ UNCHANGED <<accountSeq, pc>>

SubmitChunk(w) ==
  /\ At(w, "chunkSubmit")
  /\ \/ SignAndSubmit(w, job[w].chunk, "chunkAwait")
     \/ Proceed(w, "single") /\ UNCHANGED stellarVars
  /\ UNCHANGED budget /\ NoRowChange /\ NoItemChange

\* An answer without an HTTP status, or with a 5xx, leaves the outcome unknown;
\* one with result codes sends the items to be tried one by one.
ReceiveChunkAnswer(w) ==
  LET e == ctx[w].env IN
  /\ At(w, "chunkAwait")
  /\ \/ MayAnswer(e, "success") /\ Proceed(w, "chunkDone")
     \/ MayAnswer(e, "rejected") /\ Proceed(w, "single")
     \/ /\ MayAnswer(e, "timeout") \/ MayAnswer(e, "gateway")
        /\ Proceed(w, "chunkUnknown")
  /\ UNCHANGED budget /\ NoPaymentChange /\ NoItemChange

\* After an item: the next one of the chunk, or the next chunk.
Tick(w, i, here, outcome) ==
  /\ job' = [job EXCEPT ![w].left = @ \ {i},
               ![w].at = IF job[w].left = {i} THEN "next" ELSE here,
               ![w].item = None,
               ![w].paid = @ \/ outcome = "paid",
               ![w].failed = @ \/ outcome = "failed"]
  /\ UNCHANGED <<pc, ctx>>

\* Each item is completed with a write of its own.  A failed write reaches the
\* same catch block as the submission: the outcome counts as unknown, for the
\* whole chunk.
CompleteChunk(w) ==
  /\ At(w, "chunkDone")
  /\ \/ \E i \in job[w].left :
          /\ SetItem(i, "completed", ctx[w].env, "none")
          /\ Tick(w, i, "chunkDone", "paid")
          /\ UNCHANGED <<batchStatus, budget>>
     \/ /\ WriteFails
        /\ job' = [job EXCEPT ![w].at = "chunkUnknown", ![w].left = job[w].chunk]
        /\ UNCHANGED <<pc, ctx>> /\ NoItemChange
  /\ NoPaymentChange

\* Mutant: the items of an unanswered envelope are left as they are.
LeaveUnknownChunk(w) ==
  /\ At(w, "chunkUnknown")
  /\ job' = [job EXCEPT ![w].at = "next", ![w].left = {}, ![w].failed = TRUE]
  /\ UNCHANGED <<pc, ctx, budget>> /\ NoPaymentChange /\ NoItemChange

\* The items of an unanswered envelope are failed and keep its hash.
FailUnknownChunk(w) ==
  /\ At(w, "chunkUnknown")
  /\ \/ \E i \in job[w].left :
          /\ SetItem(i, "failed", ctx[w].env, "SUBMISSION_TIMEOUT")
          /\ Tick(w, i, "chunkUnknown", "failed")
          /\ UNCHANGED <<batchStatus, budget>>
     \/ RefusedWriteEnds(w)
  /\ NoPaymentChange

-----------------------------------------------------------------------------
(* processPayrollBatch: the items of a rejected chunk, one by one. *)

LoadForSingle(w) ==
  /\ At(w, "single")
  /\ \E i \in job[w].left, label \in {"singleSubmit", "singleFail"} :
       job' = [job EXCEPT ![w].at = label, ![w].item = i]
  /\ ctx' = [ctx EXCEPT ![w] = [Idle EXCEPT !.seq = accountSeq]]
  /\ UNCHANGED <<pc, budget>> /\ NoPaymentChange /\ NoItemChange

SubmitSingle(w) ==
  /\ At(w, "singleSubmit")
  /\ \/ SignAndSubmit(w, {job[w].item}, "singleAwait")
     \/ Proceed(w, "singleFail") /\ UNCHANGED stellarVars
  /\ UNCHANGED budget /\ NoRowChange /\ NoItemChange

\* Whatever is not a success is a failure here.
ReceiveSingleAnswer(w) ==
  LET e == ctx[w].env IN
  /\ At(w, "singleAwait")
  /\ \/ MayAnswer(e, "success") /\ Proceed(w, "singleDone")
     \/ /\ \E answer \in Answers \ {"success"} : MayAnswer(e, answer)
        /\ Proceed(w, "singleFail")
  /\ UNCHANGED budget /\ NoPaymentChange /\ NoItemChange

CompleteSingle(w) ==
  LET i == job[w].item IN
  /\ At(w, "singleDone")
  /\ \/ /\ SetItem(i, "completed", ctx[w].env, "none")
        /\ Tick(w, i, "single", "paid")
        /\ UNCHANGED <<batchStatus, budget>>
     \/ WriteFails /\ Proceed(w, "singleFail") /\ NoItemChange
  /\ NoPaymentChange

\* The item is failed; no hash is recorded.
FailSingle(w) ==
  LET i == job[w].item IN
  /\ At(w, "singleFail")
  /\ \/ /\ SetItem(i, "failed", itemHash[i], "PAYMENT_FAILED")
        /\ Tick(w, i, "single", "failed")
        /\ UNCHANGED <<batchStatus, budget>>
     \/ RefusedWriteEnds(w)
  /\ NoPaymentChange

\* The batch fails only if every item did.
FinishBatch(w) ==
  /\ \/ At(w, "next") /\ job[w].todo = {}
     \/ At(w, "finish")
  /\ \/ /\ SetBatch(IF job[w].failed /\ ~job[w].paid THEN "failed" ELSE "completed")
        /\ Leave(w)
        /\ UNCHANGED <<itemVars, budget>>
     \/ RefusedWriteEnds(w)
  /\ NoPaymentChange

-----------------------------------------------------------------------------

CrashPayroll(w) ==
  /\ job[w] # NoJob
  /\ crashes < MaxCrashes
  /\ crashes' = crashes + 1
  /\ Leave(w)
  /\ UNCHANGED faults /\ NoPaymentChange /\ NoItemChange

PayStep(w) ==
  \/ AdvanceBatch(w) \/ ReadItem(w) \/ FindPriorRow(w) \/ FindUnsettledRow(w)
  \/ Reconciled(w) \/ RecoverItem(w) \/ ClaimItem(w) \/ CallPayment(w)
  \/ CompleteItem(w) \/ PersistItemFailure(w)

ProcessStep(w) ==
  \/ ClaimBatch(w) \/ DecryptKey(w) \/ ClaimItems(w) \/ RereadItems(w)
  \/ LoadForChunk(w) \/ SubmitChunk(w) \/ ReceiveChunkAnswer(w)
  \/ CompleteChunk(w) \/ FailUnknownChunk(w)
  \/ LoadForSingle(w) \/ SubmitSingle(w) \/ ReceiveSingleAnswer(w)
  \/ CompleteSingle(w) \/ FailSingle(w) \/ FinishBatch(w)

PayrollStep(w) == PayStep(w) \/ ProcessStep(w) \/ AddItem(w) \/ ApproveBatch(w)

\* A step of a payment call, whoever called it; payroll items are paid by
\* payroll operations and rebuilds only.
PaymentStep(w) ==
  /\ \/ CallStep(w)
     \/ /\ job[w] = NoJob
        /\ \/ End(w) \/ Crash(w) \/ Poll(w) \/ Rebuild(w)
  /\ UNCHANGED <<batchStatus, itemVars, job>>

PayrollInit ==
  /\ Init
  /\ batchStatus = "pending"
  /\ itemStatus \in [Items -> {"none", "pending"}]
  /\ itemHash = [i \in Items |-> None]
  /\ itemError = [i \in Items |-> "none"]
  /\ job = [w \in Workers |-> NoJob]

PayrollNext ==
  \/ Network /\ UNCHANGED <<batchStatus, itemVars, job>>
  \/ \E w \in Workers :
       \/ StartAdd(w) \/ StartApprove(w) \/ StartProcess(w)
       \/ \E i \in Items : StartPay(w, i)
       \/ PayrollStep(w) \/ PaymentStep(w) \/ CrashPayroll(w)

PayrollSpec == PayrollInit /\ [][PayrollNext]_payrollVars

\* Every await is answered and the network applies or drops what it holds;
\* nobody is obliged to call an operation.
PayrollFairness ==
  /\ WF_payrollVars(Network /\ UNCHANGED <<batchStatus, itemVars, job>>)
  /\ \A w \in Workers :
       /\ WF_payrollVars(PayrollStep(w))
       /\ WF_payrollVars(CallStep(w) /\ UNCHANGED <<batchStatus, itemVars, job>>)

-----------------------------------------------------------------------------
(* Properties. *)

Places == {"none", "add", "approve", "advance", "readItem", "findPrior",
           "itemAttempt", "findUnsettled", "rowAttempt", "recover", "claim",
           "pay", "call", "persist", "persistAgain", "claimBatch", "decrypt",
           "claimItems", "reread", "next", "chunkSubmit", "chunkAwait",
           "chunkDone", "chunkUnknown", "single", "singleSubmit",
           "singleAwait", "singleDone", "singleFail", "finish"}

Jobs == [at : Places, item : Items \cup {None}, hash : Envelopes \cup {None},
         reuse : Rows \cup {None}, todo : SUBSET Items, chunk : SUBSET Items,
         left : SUBSET Items, paid : BOOLEAN, failed : BOOLEAN]

\* Every variable holds values of the kind the code stores in it.
PayrollTypeOK ==
  /\ TypeOK
  /\ batchStatus \in BatchStatuses
  /\ itemStatus \in [Items -> ItemStatuses]
  /\ itemHash \in [Items -> Envelopes \cup {None}]
  /\ itemError \in [Items -> ErrorCodes]
  /\ job \in [Workers -> Jobs]

\* An item is 'completed' only when its recipient was paid: by the attempt of
\* this call, by an earlier one that reconciliation found on the ledger, or by
\* a chunk.
CompletedItemIsPaid ==
  \A i \in Items : itemStatus[i] = "completed" => Paid(i)

Closed == batchStatus \in {"completed", "failed"}

\* A batch that was closed stays closed: a payPayrollItem that read it while it
\* was open advances it to 'processing' only if it is still 'approved', and the
\* processor that gives it back when it has no key is the one that holds it.
ClosedStaysClosed ==
  [][Closed => UNCHANGED batchStatus]_payrollVars

\* "The item is atomically claimed before funds move so concurrent workers
\* cannot double-pay": no two operations pay the same item at the same time.
Paying(w, i) ==
  \/ job[w].item = i /\ job[w].at \in {"pay", "call", "persist", "persistAgain"}
  \/ i \in job[w].todo /\ job[w].at \in {"next", "chunkSubmit", "chunkAwait",
       "chunkDone", "chunkUnknown", "single", "singleSubmit", "singleAwait",
       "singleDone", "singleFail"}
  \/ i \in job[w].left /\ ~At(w, "none")
OnePayerPerItem ==
  \A v, w \in Workers, i \in Items : Paying(v, i) /\ Paying(w, i) => v = w

\* When a batch is closed, none of its items is left between claim and outcome.
ClosedBatchIsSettled ==
  Closed => \A i \in Items : itemStatus[i] # "processing"

\* "an indeterminate failure can be reconciled later instead of blindly
\* re-paid": a failed item whose payment landed or still may has its hash on
\* the item or on a row of the item.
UnknownOutcomeKeepsHash ==
  \A i \in Items, e \in Envelopes :
    itemStatus[i] = "failed" /\ Live(e) /\ i \in envPays[e]
      => itemHash[i] = e \/ \E r \in Rows : rowFor[r] = i /\ rowHash[r] = e

\* A claimed item is completed or failed in the end: the claim guard never
\* accepts an item that is left in 'processing'.
ClaimedItemResolves ==
  \A i \in Items : itemStatus[i] = "processing" ~> itemStatus[i] # "processing"

\* What payroll keeps whoever acts: well-formed items, and none completed unpaid.
PayrollInv == PayrollTypeOK /\ CompletedItemIsPaid
=============================================================================
