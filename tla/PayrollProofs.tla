--------------------------- MODULE PayrollProofs ---------------------------
(***************************************************************************)
(* Theorems about Payroll, over the invariants of PaymentExecution: for    *)
(* every batch of items, every number of rows, envelopes and workers,      *)
(* every answer of Horizon, failed write and crash.                        *)
(***************************************************************************)
EXTENDS Payroll, PaymentProofs

-----------------------------------------------------------------------------
(* The inductive invariant of payroll. *)

\* The hash on an item is that of an envelope submitted to pay it.
HashesSound ==
  \A i \in Items :
    itemHash[i] # None => envState[itemHash[i]] # "unused" /\ i \in envPays[itemHash[i]]

\* Where an operation has one item before it.
OneItem == {"advance", "readItem", "findPrior", "itemAttempt", "findUnsettled",
            "rowAttempt", "recover", "claim", "pay", "call", "persist",
            "persistAgain", "singleSubmit", "singleAwait", "singleDone", "singleFail"}

Asking == {"itemAttempt", "rowAttempt"}

\* Where a call of buildAndSubmitPayment may be, by what it knows.
OnItsRow == {"created", "load", "sign", "submit", "await", "record", "fail", "reclaim"}
Confirming == {"lookup", "claim", "done"}

\* A processor that has claimed the batch, before and after it starts to pay.
Preparing == {"decrypt", "claimItems", "reread", "finish"}
Running == {"next", "chunkSubmit", "chunkAwait", "chunkDone", "chunkUnknown",
            "single", "singleSubmit", "singleAwait", "singleDone", "singleFail"}
Processing == {"claimBatch"} \cup Preparing \cup Running

\* What a payroll operation remembers when it resumes is still true: its hashes
\* and rows are those of its item, and an answer it acts on is the ledger's.
JobSound(w) ==
  LET j == job[w]
      c == ctx[w]
  IN
  /\ j.at \in OneItem => j.item \in Items
  /\ j.hash # None => envState[j.hash] # "unused" /\ j.item \in envPays[j.hash]
  /\ j.at = "recover" => j.hash # None /\ envState[j.hash] = "success"
  /\ j.reuse # None => rowStatus[j.reuse] # "none" /\ rowFor[j.reuse] = j.item
  /\ j.at \notin Asking \cup {"none", "call"} => pc[w] \in {"idle", "done", "threw"}
  /\ j.at \in Asking =>
       /\ pc[w] \in {"lookup", "claim", "done", "threw"}
       /\ c.env # None => envState[c.env] # "unused" /\ j.item \in envPays[c.env]
  /\ j.at = "call" =>
       /\ pc[w] \in OnItsRow \cup Confirming \cup {"threw"}
       /\ pc[w] \in OnItsRow => rowFor[c.row] = j.item
       /\ pc[w] \in Confirming => /\ c.env # None /\ envState[c.env] = "success"
                                  /\ j.item \in envPays[c.env]
  /\ j.at \in Processing => j.hash = None /\ j.reuse = None
  /\ j.left \subseteq j.chunk
  /\ j.at \in {"chunkAwait", "chunkDone", "chunkUnknown"} =>
       c.env # None /\ envState[c.env] # "unused" /\ envPays[c.env] = j.chunk
  /\ j.at \in {"singleAwait", "singleDone"} =>
       c.env # None /\ envState[c.env] # "unused" /\ envPays[c.env] = {j.item}
  /\ j.at \in {"chunkDone", "singleDone"} => envState[c.env] = "success"

PayrollSound ==
  /\ PayrollTypeOK /\ PaymentInv
  /\ HashesSound /\ CompletedItemIsPaid
  /\ \A w \in Workers : JobSound(w)

-----------------------------------------------------------------------------
(* Conditions on the load, and the invariants that hold under them. *)

\* Nobody processes a batch as a whole.
NoProcessor == \A w \in Workers : "process" \notin Calls[w]

\* Nobody pays an item by itself.
NoPayer == \A w \in Workers : "pay" \notin Calls[w]

\* One client approves batches.
OneApprover ==
  \A v, w \in Workers : "approve" \in Calls[v] /\ "approve" \in Calls[w] => v = w

\* Without processors: an item that a call pays is claimed, for that call.
PayPlaces == {"pay", "call", "persist", "persistAgain"}
PayerPlaces == {"none", "add", "approve", "advance", "readItem", "findPrior",
                "itemAttempt", "findUnsettled", "rowAttempt", "recover", "claim"}
                 \cup PayPlaces

ClaimInv ==
  /\ \A w \in Workers : job[w].at \in PayerPlaces /\ job[w].todo = {} /\ job[w].left = {}
  /\ \A w \in Workers : job[w].at \in PayPlaces =>
       itemStatus[job[w].item] \in {"processing", "completed"}
  /\ \A v, w \in Workers :
       job[v].at \in PayPlaces /\ job[w].at \in PayPlaces /\ job[v].item = job[w].item
         => v = w

\* A processor that has claimed the batch.
Claimer(w) == job[w].at \in Preparing \cup Running

\* With one approver: a batch is 'processing' while a processor holds it, and
\* one processor does.
HeldByOne ==
  /\ \A w \in Workers : Claimer(w) => batchStatus = "processing"
  /\ \A v, w \in Workers : Claimer(v) /\ Claimer(w) => v = w
  /\ \A w \in Workers :
       job[w].at = "approve" => "approve" \in Calls[w] /\ batchStatus = "pending"

-----------------------------------------------------------------------------
(* What payroll does to rows, envelopes and calls. *)

\* The types, in the form the proofs below use.
LEMMA PayrollTypes ==
  ASSUME PayrollTypeOK
  PROVE  /\ TypeOK /\ RowTypeOK /\ StellarTypeOK
         /\ pc \in [Workers -> Labels] /\ ctx \in [Workers -> Contexts]
         /\ completions \in [Rows -> 0..Many] /\ faults \in Nat /\ crashes \in Nat
         /\ itemStatus \in [Items -> ItemStatuses]
         /\ itemHash \in [Items -> Envelopes \cup {None}]
         /\ itemError \in [Items -> ErrorCodes]
         /\ job \in [Workers -> Jobs]
         /\ batchStatus \in BatchStatuses
  BY DEF PayrollTypeOK, TypeOK, RowTypeOK

\* What was reported of a row stays true while rows do not change.
LEMMA ReportedStays ==
  ASSUME LedgerGrows, ReportedPaidIsPaid, UNCHANGED <<rowVars, completions>>
  PROVE  ReportedPaidIsPaid'
  BY DEF ReportedPaidIsPaid, rowVars, Paid, Landed, LedgerGrows, OnLedger

\* Only what one worker remembers changes.
LEMMA QuietPayment ==
  ASSUME PaymentInv, NoPaymentChange, NEW w \in Workers,
         pc' \in [Workers -> Labels], ctx' \in [Workers -> Contexts],
         faults' \in Nat, crashes' \in Nat,
         \A v \in Workers : v # w => pc'[v] = pc[v] /\ ctx'[v] = ctx[v],
         CallSound(w)'
  PROVE  PaymentInv' /\ LedgerGrows /\ RowsGrow
<1>1. UNCHANGED <<stellarVars, rowVars, completions>>
  BY DEF NoPaymentChange
<1>2. LedgerGrows /\ RowsGrow
  BY <1>1 DEF LedgerGrows, RowsGrow, stellarVars, rowVars
<1>3. TypeOK'
  BY <1>1 DEF PaymentInv, TypeOK, StellarTypeOK, stellarVars, rowVars
<1>4. RowsSound'
  BY <1>1 DEF PaymentInv, RowsSound, stellarVars, rowVars
<1>5. ReportedPaidIsPaid'
  BY <1>1, <1>2, ReportedStays DEF PaymentInv
<1>6. ASSUME NEW v \in Workers PROVE CallSound(v)'
  BY <1>2, OtherCall DEF PaymentInv
<1> QED
  BY <1>2, <1>3, <1>4, <1>5, <1>6 DEF PaymentInv

\* A row is created for the item that is to be paid.
LEMMA CreatedPayment ==
  ASSUME PaymentInv, NEW w \in Workers, NEW r \in Rows, NEW o \in Obligations,
         CreatePayment(w, r, o)
  PROVE  PaymentInv' /\ LedgerGrows /\ RowsGrow
<1>0. /\ TypeOK /\ RowTypeOK /\ RowsSound /\ ReportedPaidIsPaid
      /\ \A v \in Workers : CallSound(v)
      /\ pc \in [Workers -> Labels] /\ ctx \in [Workers -> Contexts]
      /\ completions \in [Rows -> 0..Many]
  BY DEF PaymentInv, TypeOK, RowTypeOK
<1>1. /\ UNCHANGED stellarVars /\ UNCHANGED budget
      /\ NewRow(r, "created", "stellar_payment", o)
      /\ pc' = [pc EXCEPT ![w] = "created"]
      /\ ctx' = [ctx EXCEPT ![w] = Begin("payment", r, None)]
  BY DEF CreatePayment, Goto
<1>2. LedgerGrows /\ RowsGrow
  BY <1>0, <1>1 DEF LedgerGrows, RowsGrow, stellarVars, NewRow, RowTypeOK
<1>3. TypeOK'
  <2>1. Begin("payment", r, None) \in Contexts
    BY BeginType DEF Modes
  <2> QED
    BY <1>0, <1>1, <2>1 DEF TypeOK, StellarTypeOK, stellarVars, budget, NewRow, Statuses, Labels
<1>4. RowsSound'
  BY <1>0, <1>1, <1>2 DEF NewRow, RowsSound, LedgerGrows, RowTypeOK
<1>5. ReportedPaidIsPaid'
  <2> SUFFICES ASSUME NEW s \in Rows,
                      \/ rowStatus'[s] \in {"processing", "successful"}
                      \/ completions'[s] > 0
               PROVE  Paid(rowFor[s])'
    BY DEF ReportedPaidIsPaid
  <2>1. s # r
    BY <1>0, <1>1 DEF NewRow, RowsSound, RowTypeOK
  <2>2. Paid(rowFor[s]) /\ rowFor'[s] = rowFor[s]
    BY <1>0, <1>1, <2>1 DEF NewRow, ReportedPaidIsPaid, RowTypeOK
  <2> QED
    BY <1>1, <2>2 DEF Paid, Landed, stellarVars
<1>6. ASSUME NEW v \in Workers PROVE CallSound(v)'
  <2>1. CASE v = w
    BY <1>0, <1>1, <2>1 DEF NewRow, CallSound, Begin, RowTypeOK
  <2>2. CASE v # w
    BY <1>0, <1>1, <1>2, <2>2, OtherCall
  <2> QED
    BY <2>1, <2>2
<1> QED
  BY <1>2, <1>3, <1>4, <1>5, <1>6 DEF PaymentInv

\* The processor signs and submits an envelope.
LEMMA SubmittedEnvelope ==
  ASSUME PaymentInv, NEW w \in Workers, NEW pays \in SUBSET Obligations, NEW label,
         SignAndSubmit(w, pays, label), NoRowChange, UNCHANGED budget,
         pc[w] \in {"idle", "done", "threw"}
  PROVE  PaymentInv' /\ LedgerGrows /\ RowsGrow
<1>0. /\ TypeOK /\ StellarTypeOK /\ RowTypeOK /\ RowsSound /\ ReportedPaidIsPaid
      /\ \A v \in Workers : CallSound(v)
      /\ ctx \in [Workers -> Contexts]
  BY DEF PaymentInv, TypeOK, RowTypeOK
<1> PICK e \in Envelopes :
      /\ envState[e] = "unused"
      /\ envState' = [envState EXCEPT ![e] = "inflight"]
      /\ envSeq' = [envSeq EXCEPT ![e] = ctx[w].seq + 1]
      /\ envPays' = [envPays EXCEPT ![e] = pays]
      /\ ctx' = [ctx EXCEPT ![w].env = e]
      /\ UNCHANGED <<accountSeq, pc>>
  BY DEF SignAndSubmit
<1>1. UNCHANGED <<rowVars, completions, budget>>
  BY DEF NoRowChange
<1>2. LedgerGrows /\ RowsGrow
  BY <1>0, <1>1 DEF LedgerGrows, RowsGrow, rowVars, StellarTypeOK, OnLedger
<1>3. TypeOK'
  <2>1. ctx' \in [Workers -> Contexts]
    BY <1>0, EnvUpdate
  <2>2. ctx[w].seq \in Nat
    BY <1>0 DEF Contexts
  <2>3. StellarTypeOK'
    BY <1>0, <2>2 DEF StellarTypeOK, EnvStates
  <2> QED
    BY <1>0, <1>1, <2>1, <2>3 DEF TypeOK, rowVars, budget
<1>4. RowsSound'
  BY <1>0, <1>1, <1>2 DEF RowsSound, LedgerGrows, RowTypeOK, rowVars
<1>5. ReportedPaidIsPaid'
  BY <1>0, <1>1, <1>2, ReportedStays
<1>6. ASSUME NEW v \in Workers PROVE CallSound(v)'
  <2>1. CASE v = w
    BY <1>0, <2>1 DEF CallSound
  <2>2. CASE v # w
    BY <1>0, <1>2, <2>2, OtherCall
  <2> QED
    BY <2>1, <2>2
<1> QED
  BY <1>2, <1>3, <1>4, <1>5, <1>6 DEF PaymentInv

-----------------------------------------------------------------------------
(* Items and jobs. *)

\* What is true of the items, whoever writes them.
ItemsSound ==
  /\ itemStatus \in [Items -> ItemStatuses]
  /\ itemHash \in [Items -> Envelopes \cup {None}]
  /\ itemError \in [Items -> ErrorCodes]
  /\ HashesSound /\ CompletedItemIsPaid

LEMMA ItemsKept ==
  ASSUME ItemsSound, LedgerGrows, UNCHANGED itemVars
  PROVE  ItemsSound'
  BY DEF ItemsSound, itemVars, HashesSound, CompletedItemIsPaid, Paid, Landed,
     LedgerGrows, OnLedger

\* A write to an item keeps its hash or sets that of an envelope that pays it,
\* and completes it only for one that landed.
LEMMA ItemWritten ==
  ASSUME ItemsSound, NoPaymentChange, NEW i, NEW status \in ItemStatuses, NEW hash,
         NEW error \in ErrorCodes, SetItem(i, status, hash, error),
         i \in Items =>
           \/ hash = itemHash[i] /\ status # "completed"
           \/ hash = None /\ status # "completed"
           \/ /\ hash \in Envelopes /\ envState[hash] # "unused" /\ i \in envPays[hash]
              /\ status = "completed" => envState[hash] = "success"
  PROVE  ItemsSound'
<1>1. UNCHANGED stellarVars
  BY DEF NoPaymentChange
<1>2. /\ itemStatus' \in [Items -> ItemStatuses]
      /\ itemHash' \in [Items -> Envelopes \cup {None}]
      /\ itemError' \in [Items -> ErrorCodes]
  BY DEF ItemsSound, SetItem
<1>3. HashesSound'
  BY <1>1 DEF ItemsSound, SetItem, HashesSound, stellarVars
<1>4. CompletedItemIsPaid'
  BY <1>1 DEF ItemsSound, SetItem, CompletedItemIsPaid, Paid, Landed, stellarVars
<1> QED
  BY <1>2, <1>3, <1>4 DEF ItemsSound

\* A worker that takes no step remembers what stays true.
LEMMA OtherJob ==
  ASSUME PayrollTypeOK, LedgerGrows, RowsGrow, NEW v \in Workers, JobSound(v), CallSound(v),
         pc'[v] = pc[v], ctx'[v] = ctx[v], job'[v] = job[v]
  PROVE  JobSound(v)'
<1>1. /\ job[v].hash \in Envelopes \cup {None}
      /\ job[v].reuse \in Rows \cup {None}
      /\ ctx[v].env \in Envelopes \cup {None}
  BY PayrollTypes DEF Jobs, Contexts
<1>2. pc[v] \in OnItsRow => ctx[v].row \in Rows /\ rowStatus[ctx[v].row] # "none"
  BY DEF CallSound, OnItsRow
<1> QED
  BY <1>1, <1>2 DEF JobSound, LedgerGrows, RowsGrow, OnLedger

LEMMA NoJobType == NoJob \in Jobs
  BY DEF NoJob, Jobs, Places

\* An operation that ends remembers nothing.
LEMMA LeftJob ==
  ASSUME PayrollTypeOK, NEW w \in Workers, Leave(w)
  PROVE  /\ job' \in [Workers -> Jobs] /\ JobSound(w)'
         /\ \A v \in Workers : v # w => job'[v] = job[v]
<1>1. job' \in [Workers -> Jobs] /\ job'[w] = NoJob
  BY PayrollTypes, NoJobType DEF Leave
<1>2. JobSound(w)'
  BY <1>1 DEF JobSound, NoJob, OneItem, Asking, Processing, Preparing, Running
<1> QED
  BY <1>1, <1>2 DEF Leave

\* How a step of payroll spends the budget of failures.
Spends ==
  \/ UNCHANGED budget
  \/ WriteFails
  \/ crashes' = crashes + 1 /\ UNCHANGED faults

\* What payroll does to the call inside it when it makes none: nothing, it
\* forgets it, or it remembers the sequence number it loaded.
Quiet(w) ==
  \/ UNCHANGED <<pc, ctx>>
  \/ Goto(w, "idle") /\ ctx' = [ctx EXCEPT ![w] = Idle]
  \/ /\ pc[w] \in {"idle", "done", "threw"} /\ UNCHANGED pc
     /\ ctx' = [ctx EXCEPT ![w] = [Idle EXCEPT !.seq = accountSeq]]

LEMMA QuietKept ==
  ASSUME PayrollSound, NEW w \in Workers, NoPaymentChange, Spends, Quiet(w)
  PROVE  /\ PaymentInv' /\ LedgerGrows /\ RowsGrow
         /\ \A v \in Workers : v # w => pc'[v] = pc[v] /\ ctx'[v] = ctx[v]
<1>0. /\ PaymentInv /\ CallSound(w) /\ StellarTypeOK
      /\ pc \in [Workers -> Labels] /\ ctx \in [Workers -> Contexts]
      /\ faults \in Nat /\ crashes \in Nat
  BY PayrollTypes DEF PayrollSound, PaymentInv
<1>1. Idle \in Contexts /\ [Idle EXCEPT !.seq = accountSeq] \in Contexts
  BY <1>0, IdleType DEF Contexts, StellarTypeOK
<1>2. /\ pc' \in [Workers -> Labels] /\ ctx' \in [Workers -> Contexts]
      /\ \A v \in Workers : v # w => pc'[v] = pc[v] /\ ctx'[v] = ctx[v]
  BY <1>0, <1>1 DEF Quiet, Goto, Labels
<1>3. faults' \in Nat /\ crashes' \in Nat
  BY <1>0 DEF Spends, WriteFails, budget
<1>4. CallSound(w)'
  <2>1. CASE UNCHANGED <<pc, ctx>>
    BY <1>0, <2>1 DEF CallSound, NoPaymentChange, stellarVars, rowVars, OnLedger
  <2>2. CASE pc'[w] \in {"idle", "done", "threw"}
    BY <2>2 DEF CallSound
  <2> QED
    BY <1>0, <2>1, <2>2 DEF Quiet, Goto
<1> QED
  BY <1>0, <1>2, <1>3, <1>4, QuietPayment

\* The parts of the invariant, put together for a step of worker w.
LEMMA StepSound ==
  ASSUME PayrollSound, NEW w \in Workers, PaymentInv', LedgerGrows, RowsGrow,
         \A v \in Workers : v # w => /\ pc'[v] = pc[v] /\ ctx'[v] = ctx[v]
                                     /\ job'[v] = job[v],
         batchStatus' \in BatchStatuses, ItemsSound',
         job' \in [Workers -> Jobs], JobSound(w)'
  PROVE  PayrollSound'
<1>1. \A v \in Workers : JobSound(v)'
  BY OtherJob DEF PayrollSound, PaymentInv
<1>2. PayrollTypeOK'
  BY DEF PaymentInv, ItemsSound, PayrollTypeOK
<1> QED
  BY <1>1, <1>2 DEF PayrollSound, ItemsSound

LEMMA QuietSound ==
  ASSUME PayrollSound, NEW w \in Workers, NoPaymentChange, Spends, Quiet(w),
         \A v \in Workers : v # w => job'[v] = job[v],
         batchStatus' \in BatchStatuses, ItemsSound' \/ UNCHANGED itemVars,
         job' \in [Workers -> Jobs], JobSound(w)'
  PROVE  PayrollSound'
<1>1. ItemsSound
  BY DEF PayrollSound, PayrollTypeOK, ItemsSound
<1>2. ItemsSound'
  BY <1>1, QuietKept, ItemsKept
<1> QED
  BY <1>2, QuietKept, StepSound

-----------------------------------------------------------------------------
(* The invariant is inductive: operations that make no call. *)

\* An operation ends.
LEMMA LeaveSound ==
  ASSUME PayrollSound, NEW w \in Workers, Leave(w), NoPaymentChange, Spends,
         batchStatus' \in BatchStatuses, ItemsSound' \/ UNCHANGED itemVars
  PROVE  PayrollSound'
<1>1. Quiet(w)
  BY DEF Leave, Quiet
<1> QED
  BY <1>1, LeftJob, QuietSound DEF PayrollSound

\* It goes on to a place where all it remembers is what it had.
LEMMA ProceedSound ==
  ASSUME PayrollSound, NEW w \in Workers, NEW label \in Places, Proceed(w, label),
         NoPaymentChange, Spends, batchStatus' \in BatchStatuses,
         ItemsSound' \/ UNCHANGED itemVars,
         pc[w] \in {"idle", "done", "threw"},
         label \in OneItem => job[w].item \in Items,
         label \in Processing => job[w].hash = None /\ job[w].reuse = None,
         label \notin Asking \cup {"none", "recover", "call", "chunkAwait", "chunkDone",
           "chunkUnknown", "singleAwait", "singleDone"}
  PROVE  PayrollSound'
<1>0. job \in [Workers -> Jobs] /\ JobSound(w)
  BY PayrollTypes DEF PayrollSound
<1>1. Quiet(w) /\ UNCHANGED <<pc, ctx, stellarVars, rowVars>>
  BY DEF Proceed, Quiet, NoPaymentChange
<1>2. /\ job' = [job EXCEPT ![w].at = label]
      /\ job' \in [Workers -> Jobs]
      /\ \A v \in Workers : v # w => job'[v] = job[v]
  BY <1>0 DEF Proceed, Jobs
<1>3. JobSound(w)'
  BY <1>0, <1>1, <1>2 DEF JobSound, Jobs, stellarVars, rowVars, Asking
<1> QED
  BY <1>1, <1>2, <1>3, QuietSound

LEMMA BatchSound ==
  ASSUME PayrollSound, NEW w \in Workers,
         \/ StartAdd(w) \/ AddItem(w) \/ StartApprove(w) \/ ApproveBatch(w)
         \/ StartProcess(w) \/ (\E i \in Items : StartPay(w, i))
  PROVE  PayrollSound'
<1>0. /\ job \in [Workers -> Jobs] /\ batchStatus \in BatchStatuses /\ ItemsSound
      /\ itemStatus \in [Items -> ItemStatuses]
  BY PayrollTypes DEF PayrollSound, ItemsSound
<1>1. CASE AddItem(w)
  <2> PICK i \in Items : SetItem(i, "pending", None, "none")
    BY <1>1 DEF AddItem
  <2>1. NoPaymentChange /\ Leave(w) /\ Spends /\ batchStatus' \in BatchStatuses
    BY <1>0, <1>1 DEF AddItem, Spends
  <2>2. ItemsSound'
    BY <1>0, <2>1, ItemWritten DEF ItemStatuses, ErrorCodes
  <2> QED
    BY <2>1, <2>2, LeaveSound
<1>2. CASE ApproveBatch(w)
  BY <1>2, LeaveSound DEF ApproveBatch, SetBatch, Spends, BatchStatuses
<1>3. ASSUME NEW x \in Jobs, job' = [job EXCEPT ![w] = x], pc[w] = "idle",
             x.at \in {"add", "approve", "advance", "claimBatch"},
             x.at = "advance" => x.item \in Items,
             x.hash = None, x.reuse = None, x.left = {},
             UNCHANGED <<pc, ctx, budget>>, NoPaymentChange, NoItemChange
      PROVE  PayrollSound'
  <2>1. Quiet(w) /\ Spends /\ UNCHANGED itemVars /\ batchStatus' \in BatchStatuses
    BY <1>0, <1>3 DEF Quiet, Spends, NoItemChange
  <2>2. /\ job' \in [Workers -> Jobs] /\ job'[w] = x
        /\ \A v \in Workers : v # w => job'[v] = job[v]
    BY <1>0, <1>3
  <2>3. JobSound(w)'
    BY <1>3, <2>2 DEF JobSound, OneItem, Asking, Processing, Preparing, Running
  <2> QED
    BY <1>3, <2>1, <2>2, <2>3, QuietSound
<1>4. CASE StartAdd(w)
  <2> DEFINE x == [NoJob EXCEPT !.at = "add"]
  <2>1. x \in Jobs /\ x.at = "add" /\ x.hash = None /\ x.reuse = None /\ x.left = {}
    BY DEF NoJob, Jobs, Places
  <2> QED
    BY <1>3, <1>4, <2>1 DEF StartAdd, Free
<1>5. CASE StartApprove(w)
  <2> DEFINE x == [NoJob EXCEPT !.at = "approve"]
  <2>1. x \in Jobs /\ x.at = "approve" /\ x.hash = None /\ x.reuse = None /\ x.left = {}
    BY DEF NoJob, Jobs, Places
  <2> QED
    BY <1>3, <1>5, <2>1 DEF StartApprove, Free
<1>6. CASE StartProcess(w)
  <2> DEFINE x == [NoJob EXCEPT !.at = "claimBatch",
                     !.todo = {i \in Items : itemStatus[i] \in Payable}]
  <2>1. x \in Jobs /\ x.at = "claimBatch" /\ x.hash = None /\ x.reuse = None /\ x.left = {}
    BY DEF NoJob, Jobs, Places
  <2> QED
    BY <1>3, <1>6, <2>1 DEF StartProcess, Free
<1>7. ASSUME NEW i \in Items, StartPay(w, i) PROVE PayrollSound'
  <2> DEFINE x == [NoJob EXCEPT !.at = "advance", !.item = i]
  <2>1. /\ x \in Jobs /\ x.at = "advance" /\ x.item = i
        /\ x.hash = None /\ x.reuse = None /\ x.left = {}
    BY DEF NoJob, Jobs, Places
  <2> QED
    BY <1>3, <1>7, <2>1 DEF StartPay, Free
<1> QED
  BY <1>1, <1>2, <1>4, <1>5, <1>6, <1>7

-----------------------------------------------------------------------------
(* payPayrollItem keeps it. *)

\* Two fields of what worker w remembers are assigned.
LEMMA HashUpdate ==
  ASSUME job \in [Workers -> Jobs], NEW w \in Workers, NEW label \in Places,
         NEW hash \in Envelopes \cup {None},
         job' = [job EXCEPT ![w].at = label, ![w].hash = hash]
  PROVE  /\ job' \in [Workers -> Jobs]
         /\ job'[w] = [job[w] EXCEPT !.at = label, !.hash = hash]
         /\ \A v \in Workers : v # w => job'[v] = job[v]
<1> DEFINE x == [job[w] EXCEPT !.at = label, !.hash = hash]
<1>1. job[w] \in Jobs
  OBVIOUS
<1>2. x \in Jobs
  BY <1>1 DEF Jobs
<1>3. job' = [job EXCEPT ![w] = x]
  BY <1>1
<1> QED
  BY <1>2, <1>3

LEMMA ReuseUpdate ==
  ASSUME job \in [Workers -> Jobs], NEW w \in Workers, NEW label \in Places,
         NEW reuse \in Rows \cup {None},
         job' = [job EXCEPT ![w].at = label, ![w].reuse = reuse]
  PROVE  /\ job' \in [Workers -> Jobs]
         /\ job'[w] = [job[w] EXCEPT !.at = label, !.reuse = reuse]
         /\ \A v \in Workers : v # w => job'[v] = job[v]
<1> DEFINE x == [job[w] EXCEPT !.at = label, !.reuse = reuse]
<1>1. job[w] \in Jobs
  OBVIOUS
<1>2. x \in Jobs
  BY <1>1 DEF Jobs
<1>3. job' = [job EXCEPT ![w] = x]
  BY <1>1
<1> QED
  BY <1>2, <1>3

LEMMA RefusedSound ==
  ASSUME PayrollSound, NEW w \in Workers, RefusedWriteEnds(w), NoPaymentChange
  PROVE  PayrollSound'
  BY PayrollTypes, LeaveSound
  DEF RefusedWriteEnds, NoItemChange, Spends, PayrollSound

LEMMA AdvanceBatchSound ==
  ASSUME PayrollSound, NEW w \in Workers, AdvanceBatch(w)
  PROVE  PayrollSound'
<1>1. CASE RefusedWriteEnds(w)
  BY <1>1, RefusedSound DEF AdvanceBatch
<1>2. CASE Proceed(w, "readItem") /\ UNCHANGED <<itemVars, budget>>
           /\ SetBatch(IF batchStatus = "approved" THEN "processing" ELSE batchStatus)
  <2>1. batchStatus' \in BatchStatuses
    BY <1>2, PayrollTypes DEF PayrollSound, SetBatch, BatchStatuses
  <2>2. pc[w] \in {"idle", "done", "threw"} /\ job[w].item \in Items
    BY DEF AdvanceBatch, At, PayrollSound, JobSound, OneItem, Asking, Processing, Preparing, Running
  <2> QED
    BY <1>2, <2>1, <2>2, ProceedSound DEF AdvanceBatch, Spends, Places, Asking, Processing,
      Preparing, Running
<1> QED
  BY <1>1, <1>2 DEF AdvanceBatch

\* Where the item of an operation is known, no call is inside it.
LEMMA Alone ==
  ASSUME PayrollSound, NEW w \in Workers, job[w].at \notin Asking \cup {"none", "call"}
  PROVE  pc[w] \in {"idle", "done", "threw"}
  BY DEF PayrollSound, JobSound

LEMMA OneItemHere ==
  ASSUME PayrollSound, NEW w \in Workers, job[w].at \in OneItem
  PROVE  job[w].item \in Items
  BY DEF PayrollSound, JobSound

LEMMA ReadItemSound ==
  ASSUME PayrollSound, NEW w \in Workers, ReadItem(w)
  PROVE  PayrollSound'
<1> DEFINE i == job[w].item
           hash == IF itemError[i] = "SUBMISSION_TIMEOUT" THEN itemHash[i] ELSE None
<1>0. /\ NoPaymentChange /\ Spends /\ UNCHANGED itemVars /\ batchStatus' \in BatchStatuses
      /\ pc[w] \in {"idle", "done", "threw"} /\ i \in Items /\ At(w, "readItem")
      /\ job \in [Workers -> Jobs] /\ JobSound(w) /\ HashesSound
      /\ itemHash \in [Items -> Envelopes \cup {None}]
  BY Alone, OneItemHere, PayrollTypes
  DEF ReadItem, At, Asking, OneItem, NoItemChange, Spends, PayrollSound
<1>1. CASE Leave(w)
  BY <1>0, <1>1, LeaveSound
<1>2. CASE Proceed(w, "claim")
  BY <1>0, <1>2, ProceedSound DEF Places, Asking, Processing, Preparing, Running
<1>3. CASE /\ job' = [job EXCEPT ![w].at = "findPrior", ![w].hash = hash]
           /\ UNCHANGED <<pc, ctx>>
  <2>1. /\ job' \in [Workers -> Jobs]
        /\ job'[w] = [job[w] EXCEPT !.at = "findPrior", !.hash = hash]
        /\ \A v \in Workers : v # w => job'[v] = job[v]
    <3>1. hash \in Envelopes \cup {None}
      BY <1>0
    <3>2. job \in [Workers -> Jobs] /\ "findPrior" \in Places
      BY <1>0 DEF Places
    <3>3. job' = [job EXCEPT ![w].at = "findPrior", ![w].hash = hash]
      BY <1>3
    <3> HIDE DEF hash
    <3> QED
      BY <3>1, <3>2, <3>3, HashUpdate
  <2>2. hash # None => envState[hash] # "unused" /\ i \in envPays[hash]
    BY <1>0 DEF HashesSound
  <2>3. JobSound(w)'
    BY <1>0, <1>3, <2>1, <2>2
    DEF JobSound, Jobs, NoPaymentChange, stellarVars, rowVars, OneItem, Asking, Processing, Preparing, Running
  <2> QED
    BY <1>0, <1>3, <2>1, <2>3, QuietSound DEF Quiet
<1> QED
  BY <1>1, <1>2, <1>3 DEF ReadItem

\* A look at the ledger begins: what is looked up was submitted for the item.
LEMMA AskedSound ==
  ASSUME PayrollSound, NEW w \in Workers, NEW hash \in Envelopes,
         envState[hash] # "unused", job[w].item \in envPays[hash], AskHorizon(w, hash),
         job[w].at \in {"findPrior", "findUnsettled"},
         NEW label \in Asking, NEW reuse \in Rows \cup {None},
         reuse # None => rowStatus[reuse] # "none" /\ rowFor[reuse] = job[w].item,
         job' = [job EXCEPT ![w].at = label, ![w].reuse = reuse],
         UNCHANGED budget, NoPaymentChange, NoItemChange
  PROVE  PayrollSound'
<1>0. /\ job \in [Workers -> Jobs] /\ JobSound(w) /\ ItemsSound /\ PaymentInv
      /\ pc \in [Workers -> Labels] /\ ctx \in [Workers -> Contexts]
      /\ faults' \in Nat /\ crashes' \in Nat /\ batchStatus' \in BatchStatuses
  BY PayrollTypes DEF PayrollSound, ItemsSound, NoItemChange, budget
<1>1. /\ pc' \in [Workers -> Labels] /\ pc'[w] = "lookup"
      /\ ctx' \in [Workers -> Contexts] /\ ctx'[w] = Begin("reconcile", None, hash)
      /\ \A v \in Workers : v # w => pc'[v] = pc[v] /\ ctx'[v] = ctx[v]
  <2>1. Begin("reconcile", None, hash) \in Contexts
    BY BeginType DEF Modes
  <2> QED
    BY <1>0, <2>1 DEF AskHorizon, Goto, Labels
<1>2. CallSound(w)'
  BY <1>1 DEF CallSound, Begin, NoPaymentChange, stellarVars
<1>3. PaymentInv' /\ LedgerGrows /\ RowsGrow
  BY <1>0, <1>1, <1>2, QuietPayment
<1>4. /\ job' \in [Workers -> Jobs]
      /\ job'[w] = [job[w] EXCEPT !.at = label, !.reuse = reuse]
      /\ \A v \in Workers : v # w => job'[v] = job[v]
  <2>1. label \in Places
    BY DEF Places, Asking
  <2>2. job \in [Workers -> Jobs]
    BY <1>0
  <2> QED
    BY <2>1, <2>2, ReuseUpdate
<1>5. JobSound(w)'
  BY <1>0, <1>1, <1>4
  DEF JobSound, Jobs, NoPaymentChange, stellarVars, rowVars, OneItem, Asking, Processing, Preparing, Running, Begin
<1>6. ItemsSound'
  BY <1>0, <1>3, ItemsKept DEF NoItemChange
<1> QED
  BY <1>0, <1>1, <1>3, <1>4, <1>5, <1>6, StepSound

LEMMA FindPriorRowSound ==
  ASSUME PayrollSound, NEW w \in Workers, FindPriorRow(w)
  PROVE  PayrollSound'
<1> PICK reuse \in Rows \cup {None} :
      /\ Latest(reuse, FailedRows(job[w].item))
      /\ \/ /\ job[w].hash # None
            /\ job' = [job EXCEPT ![w].at = "itemAttempt", ![w].reuse = reuse]
            /\ AskHorizon(w, job[w].hash)
         \/ /\ job[w].hash = None
            /\ job' = [job EXCEPT ![w].at = "findUnsettled", ![w].reuse = reuse]
            /\ UNCHANGED <<pc, ctx>>
  BY DEF FindPriorRow
<1>0. /\ NoPaymentChange /\ UNCHANGED budget /\ NoItemChange /\ At(w, "findPrior")
      /\ pc[w] \in {"idle", "done", "threw"}
      /\ job \in [Workers -> Jobs] /\ JobSound(w) /\ batchStatus \in BatchStatuses
      /\ job[w].hash \in Envelopes \cup {None}
  BY Alone, PayrollTypes DEF FindPriorRow, At, Asking, PayrollSound, Jobs
<1>1. reuse # None => rowStatus[reuse] # "none" /\ rowFor[reuse] = job[w].item
  BY DEF Latest, FailedRows
<1>2. CASE AskHorizon(w, job[w].hash) /\ job[w].hash # None
           /\ job' = [job EXCEPT ![w].at = "itemAttempt", ![w].reuse = reuse]
  <2>1. /\ job[w].hash \in Envelopes /\ envState[job[w].hash] # "unused"
        /\ job[w].item \in envPays[job[w].hash]
    BY <1>0, <1>2 DEF JobSound
  <2> QED
    BY <1>0, <1>1, <1>2, <2>1, AskedSound DEF At, Asking
<1>3. CASE /\ UNCHANGED <<pc, ctx>>
           /\ job' = [job EXCEPT ![w].at = "findUnsettled", ![w].reuse = reuse]
  <2>1. /\ job' \in [Workers -> Jobs]
        /\ job'[w] = [job[w] EXCEPT !.at = "findUnsettled", !.reuse = reuse]
        /\ \A v \in Workers : v # w => job'[v] = job[v]
    BY <1>0, <1>3, ReuseUpdate DEF Places
  <2>2. JobSound(w)'
    BY <1>0, <1>1, <1>3, <2>1
    DEF JobSound, Jobs, NoPaymentChange, stellarVars, rowVars, OneItem, Asking, Processing, Preparing, Running, At
  <2> QED
    BY <1>0, <1>3, <2>1, <2>2, QuietSound DEF Quiet, Spends, NoItemChange
<1> QED
  BY <1>2, <1>3

LEMMA FindUnsettledRowSound ==
  ASSUME PayrollSound, NEW w \in Workers, FindUnsettledRow(w)
  PROVE  PayrollSound'
<1> PICK r \in Rows \cup {None} :
      /\ Latest(r, UnsettledRows(job[w].item))
      /\ \/ /\ r # None
            /\ job' = [job EXCEPT ![w].at = "rowAttempt"]
            /\ AskHorizon(w, rowHash[r])
         \/ r = None /\ Proceed(w, "claim")
  BY DEF FindUnsettledRow
<1>0. /\ NoPaymentChange /\ UNCHANGED budget /\ NoItemChange /\ At(w, "findUnsettled")
      /\ pc[w] \in {"idle", "done", "threw"} /\ job[w].item \in Items
      /\ job \in [Workers -> Jobs] /\ JobSound(w) /\ batchStatus \in BatchStatuses
      /\ RowTypeOK /\ RowsSound
  BY Alone, OneItemHere, PayrollTypes
  DEF FindUnsettledRow, At, Asking, OneItem, PayrollSound, PaymentInv
<1>1. CASE Proceed(w, "claim")
  BY <1>0, <1>1, ProceedSound DEF Places, Asking, Processing, Preparing, Running, NoItemChange, Spends
<1>2. CASE AskHorizon(w, rowHash[r]) /\ r # None
           /\ job' = [job EXCEPT ![w].at = "rowAttempt"]
  <2>1. r \in Rows /\ rowFor[r] = job[w].item /\ rowHash[r] # None
    BY <1>2 DEF Latest, UnsettledRows, FailedRows
  <2>2. /\ rowHash[r] \in Envelopes /\ envState[rowHash[r]] # "unused"
        /\ job[w].item \in envPays[rowHash[r]]
    BY <1>0, <2>1 DEF RowsSound, RowTypeOK
  <2> DEFINE reuse == job[w].reuse
  <2>3. job' = [job EXCEPT ![w].at = "rowAttempt", ![w].reuse = reuse]
    BY <1>0, <1>2 DEF Jobs
  <2>4. /\ reuse \in Rows \cup {None}
        /\ reuse # None => rowStatus[reuse] # "none" /\ rowFor[reuse] = job[w].item
    BY <1>0 DEF JobSound, Jobs
  <2> QED
    BY <1>0, <1>2, <2>2, <2>3, <2>4, AskedSound DEF At, Asking
<1> QED
  BY <1>1, <1>2

LEMMA ReconciledSound ==
  ASSUME PayrollSound, NEW w \in Workers, Reconciled(w)
  PROVE  PayrollSound'
<1>0. /\ NoPaymentChange /\ Spends /\ UNCHANGED itemVars /\ batchStatus' \in BatchStatuses
      /\ job \in [Workers -> Jobs] /\ JobSound(w) /\ job[w].at \in Asking
      /\ ctx \in [Workers -> Contexts] /\ pc \in [Workers -> Labels]
      /\ ctx[w].env \in Envelopes \cup {None} /\ job[w].item \in Items
  BY PayrollTypes, OneItemHere
  DEF Reconciled, NoItemChange, Spends, PayrollSound, Contexts, Asking, OneItem
<1>1. CASE Leave(w)
  BY <1>0, <1>1, LeaveSound
<1>2. ASSUME NEW label \in {"recover", "findUnsettled", "claim"}, ctx[w].env # None,
             label = "recover" => envState[ctx[w].env] = "success",
             job' = [job EXCEPT ![w].at = label, ![w].hash = ctx[w].env],
             Goto(w, "idle"), ctx' = [ctx EXCEPT ![w] = Idle]
      PROVE  PayrollSound'
  <2>1. /\ job' \in [Workers -> Jobs]
        /\ job'[w] = [job[w] EXCEPT !.at = label, !.hash = ctx[w].env]
        /\ \A v \in Workers : v # w => job'[v] = job[v]
    BY <1>0, <1>2, HashUpdate DEF Places
  <2>2. pc'[w] = "idle"
    BY <1>0, <1>2 DEF Goto
  <2>3. JobSound(w)'
    BY <1>0, <1>2, <2>1, <2>2
    DEF JobSound, Jobs, NoPaymentChange, stellarVars, rowVars, OneItem, Asking, Processing, Preparing, Running
  <2> QED
    BY <1>0, <1>2, <2>1, <2>3, QuietSound DEF Quiet
<1>3. CASE /\ pc[w] = "done" /\ ctx[w].env # None
           /\ job' = [job EXCEPT
                ![w].at = IF envState[ctx[w].env] = "success" THEN "recover"
                          ELSE IF @ = "itemAttempt" THEN "findUnsettled"
                          ELSE "claim",
                ![w].hash = ctx[w].env]
           /\ Goto(w, "idle")
           /\ ctx' = [ctx EXCEPT ![w] = Idle]
  <2> DEFINE label == IF envState[ctx[w].env] = "success" THEN "recover"
                      ELSE IF job[w].at = "itemAttempt" THEN "findUnsettled" ELSE "claim"
  <2>1. job' = [job EXCEPT ![w].at = label, ![w].hash = ctx[w].env]
    BY <1>0, <1>3
  <2> QED
    BY <1>2, <1>3, <2>1
<1> QED
  BY <1>1, <1>3 DEF Reconciled

LEMMA RecoverItemSound ==
  ASSUME PayrollSound, NEW w \in Workers, RecoverItem(w)
  PROVE  PayrollSound'
<1>1. CASE RefusedWriteEnds(w)
  BY <1>1, RefusedSound DEF RecoverItem
<1>2. CASE /\ SetItem(job[w].item, "completed", job[w].hash, "none")
           /\ Leave(w) /\ UNCHANGED <<batchStatus, budget>>
  <2>0. /\ NoPaymentChange /\ Spends /\ batchStatus' \in BatchStatuses /\ ItemsSound
        /\ job[w].hash \in Envelopes /\ envState[job[w].hash] = "success"
        /\ job[w].item \in envPays[job[w].hash]
    BY <1>2, PayrollTypes
    DEF RecoverItem, At, PayrollSound, ItemsSound, JobSound, Jobs, Spends
  <2>1. ItemsSound'
    BY <1>2, <2>0, ItemWritten DEF ItemStatuses, ErrorCodes
  <2> QED
    BY <1>2, <2>0, <2>1, LeaveSound
<1> QED
  BY <1>1, <1>2 DEF RecoverItem

LEMMA ClaimItemSound ==
  ASSUME PayrollSound, NEW w \in Workers, ClaimItem(w)
  PROVE  PayrollSound'
<1> DEFINE i == job[w].item
<1>0. /\ NoPaymentChange /\ batchStatus \in BatchStatuses /\ ItemsSound
      /\ pc[w] \in {"idle", "done", "threw"} /\ i \in Items
  BY Alone, OneItemHere, PayrollTypes
  DEF ClaimItem, At, Asking, OneItem, PayrollSound, ItemsSound
<1>1. CASE RefusedWriteEnds(w)
  BY <1>0, <1>1, RefusedSound
<1>2. CASE Leave(w) /\ NoItemChange /\ UNCHANGED budget
  BY <1>0, <1>2, LeaveSound DEF NoItemChange, Spends
<1>3. CASE /\ SetItem(i, "processing", itemHash[i], itemError[i])
           /\ Proceed(w, "pay") /\ UNCHANGED <<batchStatus, budget>>
  <2>1. ItemsSound'
    BY <1>0, <1>3, ItemWritten DEF ItemStatuses, ItemsSound
  <2> QED
    BY <1>0, <1>3, <2>1, ProceedSound DEF Spends, Places, Asking, Processing, Preparing, Running
<1> QED
  BY <1>1, <1>2, <1>3 DEF ClaimItem

LEMMA CallPaymentSound ==
  ASSUME PayrollSound, NEW w \in Workers, CallPayment(w)
  PROVE  PayrollSound'
<1> DEFINE i == job[w].item
           reuse == job[w].reuse
<1>0. /\ pc[w] \in {"idle", "done", "threw"} /\ i \in Items /\ i \in Obligations
      /\ job \in [Workers -> Jobs] /\ JobSound(w) /\ At(w, "pay") /\ PaymentInv
      /\ batchStatus' \in BatchStatuses /\ ItemsSound /\ UNCHANGED itemVars
      /\ pc \in [Workers -> Labels] /\ ctx \in [Workers -> Contexts]
      /\ RowTypeOK /\ StellarTypeOK /\ faults \in Nat /\ crashes \in Nat
      /\ reuse \in Rows \cup {None}
  BY Alone, OneItemHere, PayrollTypes, PayrollAssumption
  DEF CallPayment, At, Asking, OneItem, PayrollSound, ItemsSound, NoItemChange, Jobs
<1>1. CASE Proceed(w, "persist") /\ NoPaymentChange /\ UNCHANGED budget
  BY <1>0, <1>1, ProceedSound DEF Places, Asking, Processing, Preparing, Running, Spends
<1>2. ASSUME PaymentInv', LedgerGrows, RowsGrow, job' = [job EXCEPT ![w].at = "call"],
             pc'[w] \in {"created", "reclaim"}, ctx'[w].row \in Rows,
             rowFor'[ctx'[w].row] = i,
             \A v \in Workers : v # w => pc'[v] = pc[v] /\ ctx'[v] = ctx[v]
      PROVE  PayrollSound'
  <2>1. /\ job' \in [Workers -> Jobs]
        /\ job'[w] = [job[w] EXCEPT !.at = "call"]
        /\ \A v \in Workers : v # w => job'[v] = job[v]
    BY <1>0, <1>2 DEF Jobs, Places
  <2>2. job[w].hash \in Envelopes \cup {None}
    BY <1>0 DEF Jobs
  <2>3. JobSound(w)'
    BY <1>0, <1>2, <2>1, <2>2
    DEF JobSound, Jobs, LedgerGrows, RowsGrow, OneItem, Asking, Processing, Preparing, Running, OnItsRow, Confirming, At
  <2>4. ItemsSound'
    BY <1>0, <1>2, ItemsKept
  <2> QED
    BY <1>0, <1>2, <2>1, <2>3, <2>4, StepSound
<1>3. ASSUME NEW r \in Rows, CreatePayment(w, r, i), job' = [job EXCEPT ![w].at = "call"]
      PROVE  PayrollSound'
  <2>1. /\ pc'[w] = "created" /\ ctx'[w] = Begin("payment", r, None)
        /\ rowFor'[r] = i
        /\ \A v \in Workers : v # w => pc'[v] = pc[v] /\ ctx'[v] = ctx[v]
    BY <1>0, <1>3 DEF CreatePayment, NewRow, Goto, RowTypeOK
  <2>2. ctx'[w].row = r
    BY <2>1 DEF Begin
  <2> QED
    BY <1>0, <1>2, <1>3, <2>1, <2>2, CreatedPayment
<1>4. CASE /\ reuse # None
           /\ Goto(w, "reclaim")
           /\ ctx' = [ctx EXCEPT ![w] = Begin("payment", reuse, None)]
           /\ job' = [job EXCEPT ![w].at = "call"]
           /\ NoPaymentChange /\ UNCHANGED budget
  <2>1. Begin("payment", reuse, None) \in Contexts
    BY <1>0, BeginType DEF Modes
  <2>2. /\ pc' \in [Workers -> Labels] /\ pc'[w] = "reclaim"
        /\ ctx' \in [Workers -> Contexts] /\ ctx'[w].row = reuse
        /\ \A v \in Workers : v # w => pc'[v] = pc[v] /\ ctx'[v] = ctx[v]
    BY <1>0, <1>4, <2>1 DEF Goto, Labels, Begin
  <2>3. rowStatus[reuse] # "none" /\ rowFor[reuse] = i /\ reuse \in Rows
    BY <1>0, <1>4 DEF JobSound
  <2>4. CallSound(w)'
    BY <1>4, <2>2, <2>3 DEF CallSound, NoPaymentChange, rowVars
  <2>5. PaymentInv' /\ LedgerGrows /\ RowsGrow
    BY <1>0, <1>4, <2>2, <2>4, QuietPayment DEF budget
  <2>6. rowFor'[ctx'[w].row] = i
    BY <1>4, <2>2, <2>3 DEF NoPaymentChange, rowVars
  <2> QED
    BY <1>2, <1>4, <2>2, <2>3, <2>5, <2>6
<1> QED
  BY <1>1, <1>3, <1>4 DEF CallPayment

LEMMA CompleteItemSound ==
  ASSUME PayrollSound, NEW w \in Workers, CompleteItem(w)
  PROVE  PayrollSound'
<1>0. /\ NoPaymentChange /\ batchStatus \in BatchStatuses /\ ItemsSound
      /\ pc[w] = "done" /\ job[w].item \in Items
      /\ ctx[w].env \in Envelopes /\ envState[ctx[w].env] = "success"
      /\ job[w].item \in envPays[ctx[w].env]
  BY OneItemHere, PayrollTypes
  DEF CompleteItem, At, OneItem, PayrollSound, ItemsSound, JobSound, Confirming,
      Contexts
<1>1. CASE /\ SetItem(job[w].item, "completed", ctx[w].env, "none")
           /\ Leave(w) /\ UNCHANGED <<batchStatus, budget>>
  <2>1. ItemsSound'
    BY <1>0, <1>1, ItemWritten DEF ItemStatuses, ErrorCodes
  <2> QED
    BY <1>0, <1>1, <2>1, LeaveSound DEF Spends
<1>2. CASE WriteFails /\ Proceed(w, "persist") /\ NoItemChange
  BY <1>0, <1>2, ProceedSound DEF Spends, Places, Asking, Processing, Preparing, Running, NoItemChange
<1> QED
  BY <1>1, <1>2 DEF CompleteItem

LEMMA PersistItemFailureSound ==
  ASSUME PayrollSound, NEW w \in Workers, PersistItemFailure(w)
  PROVE  PayrollSound'
<1> DEFINE i == job[w].item
           error == IF ctx[w].err = "SUBMISSION_TIMEOUT"
                    THEN "SUBMISSION_TIMEOUT" ELSE "PAYMENT_FAILED"
<1>0. /\ NoPaymentChange /\ batchStatus \in BatchStatuses /\ ItemsSound
      /\ pc[w] \in {"idle", "done", "threw"} /\ i \in Items
  BY Alone, OneItemHere, PayrollTypes
  DEF PersistItemFailure, At, Asking, OneItem, PayrollSound, ItemsSound
<1>1. CASE /\ SetItem(i, "failed", itemHash[i], error)
           /\ Leave(w) /\ UNCHANGED <<batchStatus, budget>>
  <2>1. ItemsSound'
    BY <1>0, <1>1, ItemWritten DEF ItemStatuses, ErrorCodes
  <2> QED
    BY <1>0, <1>1, <2>1, LeaveSound DEF Spends
<1>2. CASE WriteFails /\ Proceed(w, "persistAgain") /\ NoItemChange
  BY <1>0, <1>2, ProceedSound DEF Spends, Places, Asking, Processing, Preparing, Running, NoItemChange
<1>3. CASE RefusedWriteEnds(w)
  BY <1>0, <1>3, RefusedSound
<1> QED
  BY <1>1, <1>2, <1>3 DEF PersistItemFailure

-----------------------------------------------------------------------------
(* The steps of a payment call keep it. *)

LEMMA OneCaller ==
  ASSUME pc \in [Workers -> Labels], ctx \in [Workers -> Contexts],
         NEW w \in Workers, PaymentStep(w)
  PROVE  \A v \in Workers : v # w => pc'[v] = pc[v] /\ ctx'[v] = ctx[v]
<1>1. CASE CallStep(w)
  BY <1>1 DEF CallStep, MarkSubmitted, LoadAccount, SignAndRecordHash,
     SubmitEnvelope, ReceiveAnswer, MarkProcessing, RecordFailure, LookUp, ClaimOutcome,
     ClaimOutcomeFails, VerifyNotLanded, Reclaim, Goto, Throw
<1>2. CASE End(w) \/ Crash(w)
  BY <1>2 DEF End, Crash, Goto
<1>3. CASE Poll(w) \/ Rebuild(w)
  BY <1>3 DEF Poll, StartPoll, Rebuild, StartRebuild, Goto
<1> QED
  BY <1>1, <1>2, <1>3 DEF PaymentStep

\* Where a call inside an operation goes from where it is.
LEMMA CallGoesOn ==
  ASSUME PaymentInv, LedgerGrows, RowsGrow, NEW w \in Workers, CallStep(w)
  PROVE  /\ pc[w] \in OnItsRow =>
              /\ pc'[w] \in OnItsRow \cup Confirming \cup {"threw"}
              /\ ctx'[w].row = ctx[w].row
              /\ pc'[w] \in Confirming =>
                   /\ ctx'[w].env = ctx[w].env /\ ctx[w].env \in Envelopes
                   /\ envState[ctx[w].env] = "success"
                   /\ envPays[ctx[w].env] = {rowFor[ctx[w].row]}
         /\ pc[w] \in {"lookup", "claim"} =>
              /\ pc'[w] \in {"claim", "done", "threw"}
              /\ \/ ctx'[w].env = ctx[w].env
                 \/ ctx'[w].env = None /\ ~OnLedger(ctx[w].env)
         /\ pc[w] \in OnItsRow \cup {"lookup", "claim", "verify"}
<1>0. /\ CallSound(w) /\ pc \in [Workers -> Labels] /\ ctx \in [Workers -> Contexts]
  BY DEF PaymentInv, TypeOK
<1> USE DEF OnItsRow, Confirming, Goto, Throw
<1>1. CASE MarkSubmitted(w) \/ Reclaim(w)
  BY <1>0, <1>1 DEF MarkSubmitted, Reclaim
<1>2. CASE LoadAccount(w)
  BY <1>0, <1>2 DEF LoadAccount, Contexts
<1>3. CASE SignAndRecordHash(w)
  <2>1. /\ pc[w] = "sign" /\ pc'[w] \in {"submit", "fail"}
        /\ \/ \E e \in Envelopes : ctx' = [ctx EXCEPT ![w].env = e]
           \/ ctx' = [ctx EXCEPT ![w].err = "PAYMENT_FAILED"]
    BY <1>0, <1>3 DEF SignAndRecordHash
  <2> QED
    BY <1>0, <2>1 DEF Contexts
<1>4. CASE SubmitEnvelope(w)
  BY <1>0, <1>4 DEF SubmitEnvelope, Contexts
<1>5. CASE ReceiveAnswer(w)
  BY <1>0, <1>5 DEF ReceiveAnswer, Contexts
<1>6. CASE MarkProcessing(w)
  BY <1>0, <1>6 DEF MarkProcessing, CallSound, Contexts
<1>7. CASE RecordFailure(w)
  BY <1>0, <1>7 DEF RecordFailure, Contexts
<1>8. CASE LookUp(w)
  BY <1>0, <1>8 DEF LookUp, OnStatusError, Contexts
<1>9. CASE ClaimOutcome(w) \/ ClaimOutcomeFails(w) \/ VerifyNotLanded(w)
  BY <1>0, <1>9 DEF ClaimOutcome, ClaimOutcomeFails, VerifyNotLanded, OnStatusError
<1> QED
  BY <1>1, <1>2, <1>3, <1>4, <1>5, <1>6, <1>7, <1>8, <1>9 DEF CallStep

LEMMA PaymentStepSound ==
  ASSUME PayrollSound, NEW w \in Workers, PaymentStep(w)
  PROVE  PayrollSound'
<1>0. /\ PaymentInv /\ JobSound(w) /\ CallSound(w) /\ ItemsSound /\ PayrollTypeOK
      /\ UNCHANGED <<batchStatus, itemVars, job>> /\ batchStatus \in BatchStatuses
      /\ job \in [Workers -> Jobs]
      /\ pc \in [Workers -> Labels] /\ ctx \in [Workers -> Contexts]
  BY PayrollTypes DEF PayrollSound, PaymentInv, ItemsSound, PaymentStep
<1>1. [Next]_payVars
  BY DEF PaymentStep, Next
<1>2. PaymentInv' /\ LedgerGrows /\ RowsGrow
  BY <1>0, <1>1, TypeStep, RowsSoundStep, CallsStep, ReportedStep, LedgerStep, RowsStep
  DEF PaymentInv
<1>3. /\ job[w].hash \in Envelopes \cup {None}
      /\ job[w].reuse \in Rows \cup {None}
      /\ ctx[w].env \in Envelopes \cup {None}
  BY <1>0 DEF Jobs, Contexts
<1>4. JobSound(w)'
  <2>1. CASE job[w] = NoJob
    BY <1>0, <2>1 DEF JobSound, NoJob, OneItem, Asking, Processing, Preparing, Running
  <2>2. CASE CallStep(w)
    <3>0. /\ job'[w] = job[w]
          /\ pc[w] \in OnItsRow => ctx[w].row \in Rows /\ rowStatus[ctx[w].row] # "none"
      BY <1>0 DEF CallSound, OnItsRow
    <3>1. CASE job[w].at = "call"
      <4>1. CASE pc[w] \in OnItsRow
        <5>1. rowFor[ctx[w].row] = job[w].item
          BY <1>0, <3>1, <4>1 DEF JobSound
        <5>2. rowFor'[ctx[w].row] = job[w].item
          BY <1>2, <3>0, <4>1, <5>1 DEF RowsGrow
        <5>3. /\ pc'[w] \in OnItsRow \cup Confirming \cup {"threw"}
              /\ ctx'[w].row = ctx[w].row
              /\ pc'[w] \in Confirming =>
                   /\ ctx'[w].env # None /\ envState'[ctx'[w].env] = "success"
                   /\ job[w].item \in envPays'[ctx'[w].env]
          <6>1. /\ pc'[w] \in OnItsRow \cup Confirming \cup {"threw"}
                /\ ctx'[w].row = ctx[w].row
                /\ pc'[w] \in Confirming =>
                     /\ ctx'[w].env = ctx[w].env /\ ctx[w].env \in Envelopes
                     /\ envState[ctx[w].env] = "success"
                     /\ envPays[ctx[w].env] = {rowFor[ctx[w].row]}
            BY <1>0, <1>2, <2>2, <4>1, CallGoesOn
          <6>2. ASSUME NEW e \in Envelopes, envState[e] = "success"
                PROVE  envState'[e] = "success" /\ envPays'[e] = envPays[e] /\ e # None
            BY <1>2, <6>2, PaymentAssumption DEF LedgerGrows, OnLedger
          <6> QED
            BY <5>1, <6>1, <6>2
        <5> QED
          BY <1>0, <1>2, <1>3, <3>0, <3>1, <5>2, <5>3
          DEF JobSound, LedgerGrows, RowsGrow, OneItem, Asking, Processing, Preparing, Running
      <4>2. CASE pc[w] \in {"lookup", "claim"}
        <5>1. /\ ctx[w].env \in Envelopes /\ envState[ctx[w].env] = "success"
              /\ job[w].item \in envPays[ctx[w].env]
          BY <1>0, <1>3, <3>1, <4>2 DEF JobSound, Confirming
        <5>2. pc'[w] \in {"claim", "done", "threw"} /\ ctx'[w].env = ctx[w].env
          BY <1>0, <1>2, <2>2, <4>2, <5>1, CallGoesOn DEF OnLedger
        <5>3. envState'[ctx'[w].env] = "success" /\ job[w].item \in envPays'[ctx'[w].env]
          BY <1>2, <5>1, <5>2 DEF LedgerGrows, OnLedger
        <5> QED
          BY <1>0, <1>2, <1>3, <3>0, <3>1, <5>1, <5>2, <5>3, PaymentAssumption
          DEF JobSound, LedgerGrows, RowsGrow, OneItem, Asking, Processing, Preparing, Running, OnItsRow, Confirming
      <4> QED
        BY <1>0, <1>2, <2>2, <3>1, <4>1, <4>2, CallGoesOn
        DEF JobSound, OnItsRow, Confirming
    <3>2. CASE job[w].at \in Asking
      BY <1>0, <1>2, <1>3, <2>2, <3>0, <3>2, CallGoesOn
      DEF JobSound, LedgerGrows, RowsGrow, OnLedger, OneItem, Asking, Processing, Preparing, Running, OnItsRow, Confirming
    <3>3. CASE job[w].at = "none"
      BY <1>0, <1>2, <1>3, <3>0, <3>3
      DEF JobSound, LedgerGrows, RowsGrow, OnLedger, OneItem, Asking, Processing, Preparing, Running
    <3>4. CASE job[w].at \notin Asking \cup {"none", "call"}
      BY <1>0, <1>2, <2>2, <3>4, CallGoesOn DEF JobSound, OnItsRow
    <3> QED
      BY <3>1, <3>2, <3>3, <3>4
  <2> QED
    BY <2>1, <2>2 DEF PaymentStep
<1>5. ItemsSound'
  BY <1>0, <1>2, ItemsKept
<1> QED
  BY <1>0, <1>2, <1>4, <1>5, OneCaller, StepSound

-----------------------------------------------------------------------------
(* processPayrollBatch keeps it. *)

\* What a processor remembers, apart from where it is.
LEMMA ProcessorHere ==
  ASSUME PayrollSound, NEW w \in Workers, job[w].at \in Processing
  PROVE  /\ pc[w] \in {"idle", "done", "threw"} /\ JobSound(w)
         /\ job[w].hash = None /\ job[w].reuse = None /\ job[w].left \subseteq job[w].chunk
         /\ job \in [Workers -> Jobs] /\ batchStatus \in BatchStatuses /\ ItemsSound
         /\ ctx[w].env \in Envelopes \cup {None}
  BY PayrollTypes
  DEF PayrollSound, ItemsSound, JobSound, Processing, Preparing, Running, Asking, Contexts

LEMMA ClaimBatchSound ==
  ASSUME PayrollSound, NEW w \in Workers, ClaimBatch(w) \/ DecryptKey(w) \/ FinishBatch(w)
  PROVE  PayrollSound'
<1>0. /\ pc[w] \in {"idle", "done", "threw"} /\ batchStatus \in BatchStatuses
      /\ job[w].hash = None /\ job[w].reuse = None /\ NoPaymentChange
  BY ProcessorHere
  DEF ClaimBatch, DecryptKey, FinishBatch, At, Processing, Preparing, Running
<1>1. CASE RefusedWriteEnds(w)
  BY <1>0, <1>1, RefusedSound
<1>2. ASSUME Leave(w), UNCHANGED <<itemVars, budget>>, batchStatus' \in BatchStatuses
      PROVE  PayrollSound'
  BY <1>0, <1>2, LeaveSound DEF Spends
<1>3. ASSUME NEW label \in {"finish", "decrypt", "claimItems"}, Proceed(w, label),
             UNCHANGED <<itemVars, budget>>, batchStatus' \in BatchStatuses
      PROVE  PayrollSound'
  <2>1. /\ label \in Places /\ label \notin OneItem
        /\ label \notin Asking \cup {"none", "recover", "call", "chunkAwait", "chunkDone",
             "chunkUnknown", "singleAwait", "singleDone"}
    BY DEF Places, OneItem, Asking
  <2> QED
    BY <1>0, <1>3, <2>1, ProceedSound DEF Spends
<1>4. CASE ClaimBatch(w)
  BY <1>0, <1>1, <1>2, <1>3, <1>4 DEF ClaimBatch, SetBatch, BatchStatuses, NoItemChange
<1>5. CASE DecryptKey(w)
  BY <1>0, <1>1, <1>2, <1>3, <1>5 DEF DecryptKey, SetBatch, BatchStatuses, NoItemChange
<1>6. CASE FinishBatch(w)
  BY <1>0, <1>1, <1>2, <1>6 DEF FinishBatch, SetBatch, BatchStatuses
<1> QED
  BY <1>4, <1>5, <1>6

LEMMA ClaimItemsSound ==
  ASSUME PayrollSound, NEW w \in Workers, ClaimItems(w)
  PROVE  PayrollSound'
<1>0. /\ pc[w] \in {"idle", "done", "threw"} /\ batchStatus \in BatchStatuses
      /\ job[w].hash = None /\ job[w].reuse = None /\ NoPaymentChange /\ ItemsSound
  BY ProcessorHere DEF ClaimItems, At, Processing, Preparing
<1>1. CASE RefusedWriteEnds(w)
  BY <1>0, <1>1, RefusedSound
<1>2. CASE /\ itemStatus' = [i \in Items |->
                 IF i \in job[w].todo /\ itemStatus[i] \in Payable
                 THEN "processing" ELSE itemStatus[i]]
           /\ Proceed(w, "reread")
           /\ UNCHANGED <<batchStatus, itemHash, itemError, budget>>
  <2>1. ItemsSound'
    BY <1>0, <1>2
    DEF ItemsSound, ItemStatuses, HashesSound, CompletedItemIsPaid, Paid, Landed,
        NoPaymentChange, stellarVars
  <2>2. "reread" \in Places /\ "reread" \notin OneItem
        /\ "reread" \notin Asking \cup {"none", "recover", "call", "chunkAwait", "chunkDone",
             "chunkUnknown", "singleAwait", "singleDone"}
    BY DEF Places, OneItem, Asking
  <2> QED
    BY <1>0, <1>2, <2>1, <2>2, ProceedSound DEF Spends
<1> QED
  BY <1>1, <1>2 DEF ClaimItems

\* The fields a processor assigns, all at once.
LEMMA FieldsUpdate ==
  ASSUME job \in [Workers -> Jobs], NEW w \in Workers, NEW x, x \in Jobs,
         job' = [job EXCEPT ![w] = x]
  PROVE  /\ job' \in [Workers -> Jobs] /\ job'[w] = x
         /\ \A v \in Workers : v # w => job'[v] = job[v]
  OBVIOUS

LEMMA RereadItemsSound ==
  ASSUME PayrollSound, NEW w \in Workers, RereadItems(w)
  PROVE  PayrollSound'
<1>0. /\ pc[w] \in {"idle", "done", "threw"} /\ batchStatus' \in BatchStatuses
      /\ JobSound(w) /\ job[w].hash = None /\ job[w].reuse = None
      /\ job[w].left \subseteq job[w].chunk /\ job \in [Workers -> Jobs]
      /\ NoPaymentChange /\ Quiet(w) /\ Spends /\ UNCHANGED itemVars
  BY ProcessorHere
  DEF RereadItems, At, Processing, Preparing, NoItemChange, Quiet, Spends
<1> DEFINE todo == {i \in job[w].todo : itemStatus[i] = "processing"}
           x == [job[w] EXCEPT !.at = "next", !.todo = todo]
<1>1. job[w] \in Jobs
  BY <1>0
<1>2. x \in Jobs
  BY <1>1 DEF Jobs, Places
<1>3. job' = [job EXCEPT ![w] = x]
  BY <1>1 DEF RereadItems
<1>4. /\ job' \in [Workers -> Jobs] /\ job'[w] = x
      /\ \A v \in Workers : v # w => job'[v] = job[v]
  BY <1>0, <1>2, <1>3, FieldsUpdate
<1>5. JobSound(w)'
  <2>1. /\ x.at = "next" /\ x.hash = None /\ x.reuse = None
        /\ x.left \subseteq x.chunk
    BY <1>0, <1>1 DEF Jobs
  <2> QED
    BY <1>0, <1>4, <2>1 DEF JobSound, OneItem, Asking, RereadItems
<1> QED
  BY <1>0, <1>4, <1>5, QuietSound

LEMMA LoadForChunkSound ==
  ASSUME PayrollSound, NEW w \in Workers, LoadForChunk(w)
  PROVE  PayrollSound'
<1>0. /\ pc[w] \in {"idle", "done", "threw"} /\ UNCHANGED pc /\ batchStatus' \in BatchStatuses
      /\ JobSound(w) /\ job[w].hash = None /\ job[w].reuse = None
      /\ job \in [Workers -> Jobs]
      /\ NoPaymentChange /\ Quiet(w) /\ Spends /\ UNCHANGED itemVars
  BY ProcessorHere
  DEF LoadForChunk, At, Processing, Running, NoItemChange, Quiet, Spends
<1> PICK c \in SUBSET job[w].todo, label \in {"chunkSubmit", "single"} :
      job' = [job EXCEPT ![w].at = label, ![w].chunk = c, ![w].left = c, ![w].todo = @ \ c]
  BY DEF LoadForChunk
<1> DEFINE x == [job[w] EXCEPT !.at = label, !.chunk = c, !.left = c, !.todo = @ \ c]
<1>1. job[w] \in Jobs
  BY <1>0
<1>2. x \in Jobs
  BY <1>1 DEF Jobs, Places
<1>3. job' = [job EXCEPT ![w] = x]
  BY <1>1
<1>4. /\ job' \in [Workers -> Jobs] /\ job'[w] = x
      /\ \A v \in Workers : v # w => job'[v] = job[v]
  BY <1>0, <1>2, <1>3, FieldsUpdate
<1>5. JobSound(w)'
  <2>1. /\ x.at = label /\ x.hash = None /\ x.reuse = None /\ x.left = c /\ x.chunk = c
    BY <1>0, <1>1 DEF Jobs
  <2> QED
    BY <1>0, <1>4, <2>1 DEF JobSound, OneItem, Asking
<1> QED
  BY <1>0, <1>4, <1>5, QuietSound

LEMMA LoadForSingleSound ==
  ASSUME PayrollSound, NEW w \in Workers, LoadForSingle(w)
  PROVE  PayrollSound'
<1>0. /\ pc[w] \in {"idle", "done", "threw"} /\ UNCHANGED pc /\ batchStatus' \in BatchStatuses
      /\ JobSound(w) /\ job[w].hash = None /\ job[w].reuse = None
      /\ job[w].left \subseteq job[w].chunk /\ job \in [Workers -> Jobs]
      /\ NoPaymentChange /\ Quiet(w) /\ Spends /\ UNCHANGED itemVars
  BY ProcessorHere
  DEF LoadForSingle, At, Processing, Running, NoItemChange, Quiet, Spends
<1> PICK i \in job[w].left, label \in {"singleSubmit", "singleFail"} :
      job' = [job EXCEPT ![w].at = label, ![w].item = i]
  BY DEF LoadForSingle
<1> DEFINE x == [job[w] EXCEPT !.at = label, !.item = i]
<1>1. job[w] \in Jobs /\ i \in Items
  BY <1>0 DEF Jobs
<1>2. x \in Jobs
  BY <1>1 DEF Jobs, Places
<1>3. job' = [job EXCEPT ![w] = x]
  BY <1>1
<1>4. /\ job' \in [Workers -> Jobs] /\ job'[w] = x
      /\ \A v \in Workers : v # w => job'[v] = job[v]
  BY <1>0, <1>2, <1>3, FieldsUpdate
<1>5. JobSound(w)'
  <2>1. /\ x.at = label /\ x.hash = None /\ x.reuse = None /\ x.item = i
        /\ x.left \subseteq x.chunk
    BY <1>0, <1>1 DEF Jobs
  <2> QED
    BY <1>0, <1>1, <1>4, <2>1 DEF JobSound, OneItem, Asking
<1> QED
  BY <1>0, <1>4, <1>5, QuietSound

\* An envelope leaves: it pays the chunk, or the one item.
LEMMA SubmittedSound ==
  ASSUME PayrollSound, NEW w \in Workers, NEW pays \in SUBSET Items,
         \/ At(w, "chunkSubmit") /\ pays = job[w].chunk /\ SignAndSubmit(w, pays, "chunkAwait")
         \/ /\ At(w, "singleSubmit") /\ pays = {job[w].item}
            /\ SignAndSubmit(w, pays, "singleAwait"),
         UNCHANGED budget, NoRowChange, NoItemChange
  PROVE  PayrollSound'
<1>0. /\ pc[w] \in {"idle", "done", "threw"} /\ UNCHANGED pc /\ batchStatus' \in BatchStatuses
      /\ JobSound(w) /\ job[w].hash = None /\ job[w].reuse = None
      /\ job[w].left \subseteq job[w].chunk /\ job \in [Workers -> Jobs]
      /\ ItemsSound /\ UNCHANGED itemVars /\ PaymentInv
      /\ ctx \in [Workers -> Contexts] /\ StellarTypeOK
  BY ProcessorHere, PayrollTypes
  DEF At, Processing, Running, NoItemChange, SignAndSubmit, PayrollSound
<1>1. PaymentInv' /\ LedgerGrows /\ RowsGrow
  BY <1>0, SubmittedEnvelope, PayrollAssumption
<1> PICK label \in {"chunkAwait", "singleAwait"}, e \in Envelopes :
      /\ label = "chunkAwait" => pays = job[w].chunk
      /\ label = "singleAwait" => pays = {job[w].item} /\ job[w].item \in Items
      /\ envState' = [envState EXCEPT ![e] = "inflight"]
      /\ envPays' = [envPays EXCEPT ![e] = pays]
      /\ ctx' = [ctx EXCEPT ![w].env = e]
      /\ job' = [job EXCEPT ![w].at = label]
  BY OneItemHere DEF SignAndSubmit, At, OneItem
<1>2. /\ job' \in [Workers -> Jobs] /\ job'[w] = [job[w] EXCEPT !.at = label]
      /\ \A v \in Workers : v # w => job'[v] = job[v]
  BY <1>0 DEF Jobs, Places
<1>3. /\ ctx'[w].env = e /\ envState'[e] = "inflight" /\ envPays'[e] = pays /\ e # None
      /\ \A v \in Workers : v # w => ctx'[v] = ctx[v]
  BY <1>0, PaymentAssumption DEF Contexts, StellarTypeOK
<1>4. JobSound(w)'
  <2>1. /\ job'[w].at = label /\ job'[w].hash = None /\ job'[w].reuse = None
        /\ job'[w].left \subseteq job'[w].chunk /\ job'[w].chunk = job[w].chunk
        /\ job'[w].item = job[w].item
    BY <1>0, <1>2 DEF Jobs
  <2> QED
    BY <1>0, <1>3, <2>1 DEF JobSound, OneItem, Asking
<1>5. ItemsSound'
  BY <1>0, <1>1, ItemsKept
<1> QED
  BY <1>0, <1>1, <1>2, <1>3, <1>4, <1>5, StepSound

LEMMA SubmitSound ==
  ASSUME PayrollSound, NEW w \in Workers, SubmitChunk(w) \/ SubmitSingle(w)
  PROVE  PayrollSound'
<1>0. /\ pc[w] \in {"idle", "done", "threw"} /\ batchStatus' \in BatchStatuses
      /\ job[w].hash = None /\ job[w].reuse = None /\ job \in [Workers -> Jobs]
      /\ UNCHANGED itemVars /\ UNCHANGED budget /\ NoRowChange /\ NoItemChange
  BY ProcessorHere
  DEF SubmitChunk, SubmitSingle, At, Processing, Running, NoItemChange
<1>1. ASSUME NEW label \in {"single", "singleFail"}, Proceed(w, label),
             label = "singleFail" => job[w].item \in Items, UNCHANGED stellarVars
      PROVE  PayrollSound'
  <2>1. NoPaymentChange /\ Spends
    BY <1>0, <1>1 DEF NoPaymentChange, NoRowChange, Spends
  <2> QED
    BY <1>0, <1>1, <2>1, ProceedSound DEF Places, Asking, OneItem
<1>2. CASE SubmitChunk(w)
  <2>1. job[w].chunk \in SUBSET Items
    BY <1>0 DEF Jobs
  <2> QED
    BY <1>0, <1>1, <1>2, <2>1, SubmittedSound DEF SubmitChunk
<1>3. CASE SubmitSingle(w)
  <2>1. job[w].item \in Items
    BY <1>3, OneItemHere DEF SubmitSingle, At, OneItem
  <2> QED
    BY <1>0, <1>1, <1>3, <2>1, SubmittedSound DEF SubmitSingle
<1> QED
  BY <1>2, <1>3

LEMMA AnswerSound ==
  ASSUME PayrollSound, NEW w \in Workers, ReceiveChunkAnswer(w) \/ ReceiveSingleAnswer(w)
  PROVE  PayrollSound'
<1>0. /\ pc[w] \in {"idle", "done", "threw"} /\ batchStatus' \in BatchStatuses
      /\ JobSound(w) /\ job[w].hash = None /\ job[w].reuse = None
      /\ job[w].left \subseteq job[w].chunk /\ job \in [Workers -> Jobs]
      /\ NoPaymentChange /\ Spends /\ UNCHANGED itemVars
  BY ProcessorHere
  DEF ReceiveChunkAnswer, ReceiveSingleAnswer, At, Processing, Running, NoItemChange, Spends
<1>1. PICK label \in {"chunkDone", "chunkUnknown", "single", "singleDone", "singleFail"} :
        /\ Proceed(w, label)
        /\ label \in {"chunkDone", "singleDone"} => envState[ctx[w].env] = "success"
        /\ label \in {"chunkDone", "chunkUnknown"} => job[w].at = "chunkAwait"
        /\ label \in {"singleDone", "singleFail"} => job[w].at = "singleAwait"
  BY DEF ReceiveChunkAnswer, ReceiveSingleAnswer, MayAnswer, At
<1>2. /\ job' \in [Workers -> Jobs] /\ job'[w] = [job[w] EXCEPT !.at = label]
      /\ \A v \in Workers : v # w => job'[v] = job[v]
  BY <1>0, <1>1 DEF Proceed, Jobs, Places
<1>3. Quiet(w) /\ UNCHANGED <<pc, ctx, stellarVars, rowVars>>
  BY <1>0, <1>1 DEF Quiet, Proceed, NoPaymentChange
<1>4. JobSound(w)'
  <2>1. /\ job'[w].at = label /\ job'[w].hash = None /\ job'[w].reuse = None
        /\ job'[w].left \subseteq job'[w].chunk /\ job'[w].chunk = job[w].chunk
        /\ job'[w].item = job[w].item
    BY <1>0, <1>2 DEF Jobs
  <2> QED
    BY <1>0, <1>1, <1>3, <2>1 DEF JobSound, OneItem, Asking, stellarVars
<1> QED
  BY <1>0, <1>2, <1>3, <1>4, QuietSound

\* After an item, the processor remembers the same chunk without it.
LEMMA TickUpdate ==
  ASSUME job \in [Workers -> Jobs], NEW w \in Workers, NEW i, NEW here \in Places,
         NEW outcome, Tick(w, i, here, outcome)
  PROVE  /\ job' \in [Workers -> Jobs]
         /\ job'[w].left = job[w].left \ {i}
         /\ job'[w].at = IF job[w].left = {i} THEN "next" ELSE here
         /\ job'[w].item = None
         /\ job'[w].chunk = job[w].chunk /\ job'[w].todo = job[w].todo
         /\ job'[w].hash = job[w].hash /\ job'[w].reuse = job[w].reuse
         /\ \A v \in Workers : v # w => job'[v] = job[v]
<1> DEFINE left == job[w].left \ {i}
           at == IF job[w].left = {i} THEN "next" ELSE here
           paid == job[w].paid \/ outcome = "paid"
           failed == job[w].failed \/ outcome = "failed"
           x == [job[w] EXCEPT !.left = left, !.at = at, !.item = None,
                               !.paid = paid, !.failed = failed]
<1>1. job[w] \in Jobs
  OBVIOUS
<1>2. /\ left \in SUBSET Items /\ at \in Places /\ paid \in BOOLEAN /\ failed \in BOOLEAN
  BY <1>1 DEF Jobs, Places
<1>3. job' = [job EXCEPT ![w] = x]
  BY <1>1, Zenon DEF Tick
<1> HIDE DEF left, at, paid, failed
<1>4. /\ x \in Jobs /\ x.left = left /\ x.at = at /\ x.item = None
      /\ x.chunk = job[w].chunk /\ x.todo = job[w].todo
      /\ x.hash = job[w].hash /\ x.reuse = job[w].reuse
  BY <1>1, <1>2 DEF Jobs
<1>5. /\ job' \in [Workers -> Jobs] /\ job'[w] = x
      /\ \A v \in Workers : v # w => job'[v] = job[v]
  BY <1>3, <1>4, FieldsUpdate
<1> QED
  BY <1>4, <1>5 DEF left, at

\* An item of the chunk is written, and the processor goes on.
LEMMA TickSound ==
  ASSUME PayrollSound, NEW w \in Workers, NEW i, NEW outcome,
         NEW here \in {"chunkDone", "chunkUnknown", "single"}, Tick(w, i, here, outcome),
         here = "single" \/ job[w].at = here, job[w].at \in Running,
         NoPaymentChange, UNCHANGED <<batchStatus, budget>>, ItemsSound'
  PROVE  PayrollSound'
<1>0. /\ pc[w] \in {"idle", "done", "threw"} /\ batchStatus' \in BatchStatuses
      /\ JobSound(w) /\ job[w].hash = None /\ job[w].reuse = None
      /\ job[w].left \subseteq job[w].chunk /\ job \in [Workers -> Jobs]
      /\ Spends /\ Quiet(w) /\ UNCHANGED <<pc, ctx, stellarVars, rowVars>>
  BY ProcessorHere DEF Processing, Spends, Quiet, Tick, NoPaymentChange
<1>1. here \in Places
  BY DEF Places
<1>2. JobSound(w)'
  BY <1>0, <1>1, TickUpdate DEF JobSound, OneItem, Asking, stellarVars
<1> QED
  BY <1>0, <1>1, <1>2, TickUpdate, QuietSound

LEMMA CompleteChunkSound ==
  ASSUME PayrollSound, NEW w \in Workers, CompleteChunk(w)
  PROVE  PayrollSound'
<1> DEFINE e == ctx[w].env
<1>0. /\ pc[w] \in {"idle", "done", "threw"} /\ batchStatus \in BatchStatuses
      /\ JobSound(w) /\ job[w].hash = None /\ job[w].reuse = None
      /\ job[w].left \subseteq job[w].chunk /\ job \in [Workers -> Jobs]
      /\ NoPaymentChange /\ ItemsSound /\ job[w].at = "chunkDone"
      /\ e \in Envelopes /\ envState[e] = "success" /\ envPays[e] = job[w].chunk
  BY ProcessorHere DEF CompleteChunk, At, Processing, Running, JobSound
<1>1. ASSUME NEW i \in job[w].left, SetItem(i, "completed", e, "none"),
             Tick(w, i, "chunkDone", "paid"), UNCHANGED <<batchStatus, budget>>
      PROVE  PayrollSound'
  <2>1. ItemsSound'
    BY <1>0, <1>1, ItemWritten DEF ItemStatuses, ErrorCodes
  <2> QED
    BY <1>0, <1>1, <2>1, TickSound DEF Running
<1>2. CASE /\ WriteFails
           /\ job' = [job EXCEPT ![w].at = "chunkUnknown", ![w].left = job[w].chunk]
           /\ UNCHANGED <<pc, ctx>> /\ NoItemChange
  <2> DEFINE x == [job[w] EXCEPT !.at = "chunkUnknown", !.left = job[w].chunk]
  <2>1. job[w] \in Jobs
    BY <1>0
  <2>2. /\ x \in Jobs /\ x.at = "chunkUnknown" /\ x.left = job[w].chunk
        /\ x.chunk = job[w].chunk /\ x.hash = None /\ x.reuse = None
    BY <1>0, <2>1 DEF Jobs, Places
  <2>3. job' = [job EXCEPT ![w] = x]
    BY <1>2, <2>1
  <2>4. /\ job' \in [Workers -> Jobs] /\ job'[w] = x
        /\ \A v \in Workers : v # w => job'[v] = job[v]
    BY <1>0, <2>2, <2>3, FieldsUpdate
  <2>5. UNCHANGED <<pc, ctx, stellarVars, rowVars>>
    BY <1>0, <1>2 DEF NoPaymentChange
  <2>6. JobSound(w)'
    BY <1>0, <2>2, <2>4, <2>5 DEF JobSound, OneItem, Asking, stellarVars
  <2> QED
    BY <1>0, <1>2, <2>4, <2>6, QuietSound DEF Quiet, Spends, NoItemChange
<1> QED
  BY <1>1, <1>2 DEF CompleteChunk

LEMMA FailUnknownChunkSound ==
  ASSUME PayrollSound, NEW w \in Workers, FailUnknownChunk(w)
  PROVE  PayrollSound'
<1> DEFINE e == ctx[w].env
<1>0. /\ JobSound(w) /\ job[w].left \subseteq job[w].chunk
      /\ NoPaymentChange /\ ItemsSound /\ job[w].at = "chunkUnknown"
      /\ e \in Envelopes /\ envState[e] # "unused" /\ envPays[e] = job[w].chunk
  BY ProcessorHere DEF FailUnknownChunk, At, Processing, Running, JobSound
<1>1. CASE RefusedWriteEnds(w)
  BY <1>0, <1>1, RefusedSound
<1>2. ASSUME NEW i \in job[w].left, SetItem(i, "failed", e, "SUBMISSION_TIMEOUT"),
             Tick(w, i, "chunkUnknown", "failed"), UNCHANGED <<batchStatus, budget>>
      PROVE  PayrollSound'
  <2>1. ItemsSound'
    BY <1>0, <1>2, ItemWritten DEF ItemStatuses, ErrorCodes
  <2> QED
    BY <1>0, <1>2, <2>1, TickSound DEF Running
<1> QED
  BY <1>1, <1>2 DEF FailUnknownChunk

LEMMA CompleteSingleSound ==
  ASSUME PayrollSound, NEW w \in Workers, CompleteSingle(w)
  PROVE  PayrollSound'
<1> DEFINE e == ctx[w].env
           i == job[w].item
<1>0. /\ JobSound(w) /\ pc[w] \in {"idle", "done", "threw"} /\ batchStatus \in BatchStatuses
      /\ NoPaymentChange /\ ItemsSound /\ job[w].at = "singleDone"
      /\ job[w].hash = None /\ job[w].reuse = None
      /\ e \in Envelopes /\ envState[e] = "success" /\ envPays[e] = {i} /\ i \in Items
  BY ProcessorHere, OneItemHere DEF CompleteSingle, At, Processing, Running, JobSound, OneItem
<1>1. CASE WriteFails /\ Proceed(w, "singleFail") /\ NoItemChange
  BY <1>0, <1>1, ProceedSound DEF Places, Asking, Spends, NoItemChange
<1>2. CASE /\ SetItem(i, "completed", e, "none") /\ Tick(w, i, "single", "paid")
           /\ UNCHANGED <<batchStatus, budget>>
  <2>1. ItemsSound'
    BY <1>0, <1>2, ItemWritten DEF ItemStatuses, ErrorCodes
  <2> QED
    BY <1>0, <1>2, <2>1, TickSound DEF Running
<1> QED
  BY <1>1, <1>2 DEF CompleteSingle

LEMMA FailSingleSound ==
  ASSUME PayrollSound, NEW w \in Workers, FailSingle(w)
  PROVE  PayrollSound'
<1> DEFINE i == job[w].item
<1>0. NoPaymentChange /\ ItemsSound /\ job[w].at = "singleFail"
  BY ProcessorHere DEF FailSingle, At, Processing, Running
<1>1. CASE RefusedWriteEnds(w)
  BY <1>0, <1>1, RefusedSound
<1>2. CASE /\ SetItem(i, "failed", itemHash[i], "PAYMENT_FAILED")
           /\ Tick(w, i, "single", "failed") /\ UNCHANGED <<batchStatus, budget>>
  <2>1. ItemsSound'
    BY <1>0, <1>2, ItemWritten DEF ItemStatuses, ErrorCodes
  <2> QED
    BY <1>0, <1>2, <2>1, TickSound DEF Running
<1> QED
  BY <1>1, <1>2 DEF FailSingle

-----------------------------------------------------------------------------
(* The invariant of payroll. *)

LEMMA PayrollInitSound == PayrollInit => PayrollSound
<1> SUFFICES ASSUME PayrollInit PROVE PayrollSound
  OBVIOUS
<1>1. PaymentInv
  BY InitInv DEF PayrollInit
<1>2. PayrollTypeOK
  BY <1>1, NoJobType DEF PayrollInit, PayrollTypeOK, PaymentInv, BatchStatuses,
     ItemStatuses, ErrorCodes
<1>3. HashesSound /\ CompletedItemIsPaid
  BY DEF PayrollInit, HashesSound, CompletedItemIsPaid
<1>4. \A w \in Workers : JobSound(w)
  BY DEF PayrollInit, JobSound, NoJob, OneItem, Asking, Processing, Preparing, Running
<1> QED
  BY <1>1, <1>2, <1>3, <1>4 DEF PayrollSound

\* Only the ledger moves, or nothing does.
LEMMA NetworkSound ==
  ASSUME PayrollSound, [Network]_payVars, UNCHANGED <<batchStatus, itemVars, job>>
  PROVE  PayrollSound'
<1>1. [Next]_payVars /\ PaymentInv /\ ItemsSound /\ UNCHANGED <<pc, ctx>>
  BY DEF Next, PayrollSound, PayrollTypeOK, ItemsSound, Network, payVars
<1>2. PaymentInv' /\ LedgerGrows /\ RowsGrow
  BY <1>1, TypeStep, RowsSoundStep, CallsStep, ReportedStep, LedgerStep, RowsStep
  DEF PaymentInv
<1>3. ItemsSound'
  BY <1>1, <1>2, ItemsKept
<1>4. \A v \in Workers : JobSound(v)'
  BY <1>1, <1>2, OtherJob DEF PayrollSound, PaymentInv
<1>5. PayrollTypeOK'
  BY <1>2, <1>3 DEF PayrollSound, PaymentInv, PayrollTypeOK, ItemsSound
<1> QED
  BY <1>2, <1>3, <1>4, <1>5 DEF PayrollSound, ItemsSound

LEMMA PayrollStepSound == PayrollSound /\ [PayrollNext]_payrollVars => PayrollSound'
<1> SUFFICES ASSUME PayrollSound, [PayrollNext]_payrollVars PROVE PayrollSound'
  OBVIOUS
<1>1. CASE Network /\ UNCHANGED <<batchStatus, itemVars, job>>
  BY <1>1, NetworkSound
<1>2. CASE UNCHANGED payrollVars
  BY <1>2, NetworkSound DEF payrollVars
<1>3. ASSUME NEW w \in Workers,
             \/ StartAdd(w) \/ StartApprove(w) \/ StartProcess(w)
             \/ \E i \in Items : StartPay(w, i)
      PROVE  PayrollSound'
  BY <1>3, BatchSound
<1>4. ASSUME NEW w \in Workers, PayrollStep(w) PROVE PayrollSound'
  <2>1. CASE PayStep(w)
    BY <2>1, AdvanceBatchSound, ReadItemSound, FindPriorRowSound, FindUnsettledRowSound,
       ReconciledSound, RecoverItemSound, ClaimItemSound, CallPaymentSound,
       CompleteItemSound, PersistItemFailureSound DEF PayStep
  <2>2. CASE ProcessStep(w)
    BY <2>2, ClaimBatchSound, ClaimItemsSound, RereadItemsSound, LoadForChunkSound,
       SubmitSound, AnswerSound, CompleteChunkSound, FailUnknownChunkSound,
       LoadForSingleSound, CompleteSingleSound, FailSingleSound DEF ProcessStep
  <2> QED
    BY <1>4, <2>1, <2>2, BatchSound DEF PayrollStep
<1>5. ASSUME NEW w \in Workers, PaymentStep(w) PROVE PayrollSound'
  BY <1>5, PaymentStepSound
<1>6. ASSUME NEW w \in Workers, CrashPayroll(w) PROVE PayrollSound'
  <2>1. /\ Leave(w) /\ NoPaymentChange /\ Spends /\ UNCHANGED itemVars
        /\ batchStatus' \in BatchStatuses
    BY <1>6, PayrollTypes DEF CrashPayroll, NoItemChange, Spends, PayrollSound
  <2> QED
    BY <2>1, LeaveSound
<1> QED
  BY <1>1, <1>2, <1>3, <1>4, <1>5, <1>6 DEF PayrollNext

\* Rows, envelopes, items and the operations on them agree, whoever pays,
\* processes, polls and rebuilds: the invariant the other theorems rest on.
THEOREM PayrollSoundness == PayrollSpec => []PayrollSound
  BY PayrollInitSound, PayrollStepSound, PTL DEF PayrollSpec

\* An item is completed only if its recipient was paid, whatever Horizon
\* answers, whichever writes fail and wherever operations are cut off.
THEOREM CompletedItems == PayrollSpec => []PayrollInv
<1>1. PayrollSound => PayrollInv
  BY DEF PayrollSound, PayrollInv
<1> QED
  BY PayrollSoundness, <1>1, PTL

\* The rows that payroll creates and reuses report a payment only when its
\* money has moved, like the rows of other payments.
THEOREM PayrollReportsPaid == PayrollSpec => []ReportedPaidIsPaid
<1>1. PayrollSound => ReportedPaidIsPaid
  BY DEF PayrollSound, PaymentInv
<1> QED
  BY PayrollSoundness, <1>1, PTL

-----------------------------------------------------------------------------
(* Where an operation goes, and what it does to the batch and its items. *)

\* The places of payPayrollItem.
PayItemPlaces == PayerPlaces \ {"none", "add", "approve"}

\* Worker w keeps its item, and keeps or forgets what it has before it.
KeepsItem(w) ==
  /\ job'[w].at # "none" => job'[w].item = job[w].item
  /\ job'[w].todo \in {job[w].todo, {}} /\ job'[w].left \in {job[w].left, {}}

LEMMA LeaveFlow ==
  ASSUME PayrollTypeOK, NEW w \in Workers, Leave(w)
  PROVE  /\ \A v \in Workers : v # w => job'[v] = job[v]
         /\ job'[w].at = "none" /\ KeepsItem(w)
  BY PayrollTypes DEF Leave, KeepsItem, NoJob

LEMMA ProceedFlow ==
  ASSUME PayrollTypeOK, NEW w \in Workers, NEW label, Proceed(w, label)
  PROVE  /\ \A v \in Workers : v # w => job'[v] = job[v]
         /\ job'[w].at = label /\ KeepsItem(w) /\ job'[w].chunk = job[w].chunk
         /\ job'[w].todo = job[w].todo /\ job'[w].left = job[w].left
         /\ UNCHANGED <<pc, ctx>>
  BY PayrollTypes DEF Proceed, KeepsItem, Jobs

\* An item is written, and no other.
LEMMA OneItemWritten ==
  ASSUME PayrollTypeOK, NEW i, NEW status, NEW hash, NEW error,
         SetItem(i, status, hash, error)
  PROVE  /\ \A k \in Items : k # i => itemStatus'[k] = itemStatus[k]
         /\ i \in Items => itemStatus'[i] = status
  BY PayrollTypes DEF SetItem

\* An operation that pays one item claims it when it was payable, and writes
\* its outcome when it stops paying.
LEMMA PayFlow ==
  ASSUME PayrollSound, NEW w \in Workers, PayStep(w)
  PROVE  /\ \A v \in Workers : v # w => job'[v] = job[v]
         /\ job[w].at \in PayItemPlaces /\ job'[w].at \in PayItemPlaces \cup {"none"} /\ KeepsItem(w)
         /\ job'[w].at \in PayPlaces /\ job[w].at \notin PayPlaces =>
              /\ itemStatus[job[w].item] \in Payable
              /\ itemStatus'[job[w].item] = "processing"
         /\ \A i \in Items :
              \/ itemStatus'[i] = itemStatus[i]
              \/ itemStatus'[i] \in {"processing", "completed"}
              \/ /\ itemStatus'[i] = "failed" /\ job[w].item = i
                 /\ job[w].at \in PayPlaces /\ job'[w].at = "none"
         /\ \/ batchStatus' = batchStatus
            \/ batchStatus = "approved" /\ batchStatus' = "processing"
<1> USE DEF PayItemPlaces, PayPlaces, PayerPlaces, At
<1>0. /\ PayrollTypeOK /\ job \in [Workers -> Jobs]
      /\ job[w].at \in OneItem => job[w].item \in Items
  BY PayrollTypes, OneItemHere DEF PayrollSound
<1>1. ASSUME RefusedWriteEnds(w) \/ (Leave(w) /\ NoItemChange),
             job[w].at \in PayItemPlaces
      PROVE  /\ \A v \in Workers : v # w => job'[v] = job[v]
             /\ job'[w].at = "none" /\ KeepsItem(w)
             /\ itemStatus' = itemStatus /\ batchStatus' = batchStatus
  BY <1>0, <1>1, LeaveFlow DEF RefusedWriteEnds, NoItemChange, itemVars
<1>2. CASE AdvanceBatch(w)
  BY <1>0, <1>1, <1>2, ProceedFlow DEF AdvanceBatch, SetBatch, itemVars
<1>3. CASE ReadItem(w)
  <2>1. ASSUME NEW hash, job' = [job EXCEPT ![w].at = "findPrior", ![w].hash = hash]
        PROVE  /\ \A v \in Workers : v # w => job'[v] = job[v]
               /\ job'[w].at = "findPrior" /\ KeepsItem(w)
    BY <1>0, <2>1 DEF KeepsItem, Jobs
  <2> QED
    BY <1>0, <1>1, <1>3, <2>1, ProceedFlow DEF ReadItem, NoItemChange, itemVars
<1>4. CASE FindPriorRow(w)
  <2> PICK label \in Asking \cup {"findUnsettled"}, reuse \in Rows \cup {None} :
        job' = [job EXCEPT ![w].at = label, ![w].reuse = reuse]
    BY <1>4 DEF FindPriorRow, Asking
  <2>1. /\ \A v \in Workers : v # w => job'[v] = job[v]
        /\ job'[w].at = label /\ KeepsItem(w)
    BY <1>0 DEF KeepsItem, Jobs
  <2> QED
    BY <1>4, <2>1 DEF FindPriorRow, NoItemChange, itemVars, Asking
<1>5. CASE FindUnsettledRow(w)
  <2>1. ASSUME job' = [job EXCEPT ![w].at = "rowAttempt"]
        PROVE  /\ \A v \in Workers : v # w => job'[v] = job[v]
               /\ job'[w].at = "rowAttempt" /\ KeepsItem(w)
    BY <1>0, <2>1 DEF KeepsItem, Jobs
  <2> QED
    BY <1>0, <1>5, <2>1, ProceedFlow DEF FindUnsettledRow, NoItemChange, itemVars
<1>6. CASE Reconciled(w)
  <2>1. ASSUME NEW label \in {"recover", "findUnsettled", "claim"},
               job' = [job EXCEPT ![w].at = label, ![w].hash = ctx[w].env]
        PROVE  /\ \A v \in Workers : v # w => job'[v] = job[v]
               /\ job'[w].at = label /\ KeepsItem(w)
    BY <1>0, <2>1 DEF KeepsItem, Jobs
  <2>2. CASE Leave(w)
    BY <1>1, <1>6, <2>2 DEF Reconciled
  <2>3. CASE job' = [job EXCEPT
               ![w].at = IF envState[ctx[w].env] = "success" THEN "recover"
                         ELSE IF @ = "itemAttempt" THEN "findUnsettled"
                         ELSE "claim",
               ![w].hash = ctx[w].env]
    <3> DEFINE label == IF envState[ctx[w].env] = "success" THEN "recover"
                        ELSE IF job[w].at = "itemAttempt" THEN "findUnsettled" ELSE "claim"
    <3>1. label \in {"recover", "findUnsettled", "claim"}
      OBVIOUS
    <3>2. job' = [job EXCEPT ![w].at = label, ![w].hash = ctx[w].env]
      BY <1>0, <2>3
    <3> HIDE DEF label
    <3> QED
      BY <1>6, <2>1, <3>1, <3>2 DEF Reconciled, NoItemChange, itemVars
  <2> QED
    BY <1>6, <2>2, <2>3 DEF Reconciled
<1>7. CASE RecoverItem(w)
  BY <1>0, <1>1, <1>7, LeaveFlow, OneItemWritten DEF RecoverItem, OneItem
<1>8. CASE ClaimItem(w)
  BY <1>0, <1>1, <1>8, LeaveFlow, ProceedFlow, OneItemWritten
  DEF ClaimItem, OneItem, NoItemChange, itemVars
<1>9. CASE CallPayment(w)
  <2>1. ASSUME job' = [job EXCEPT ![w].at = "call"]
        PROVE  /\ \A v \in Workers : v # w => job'[v] = job[v]
               /\ job'[w].at = "call" /\ KeepsItem(w)
    BY <1>0, <2>1 DEF KeepsItem, Jobs
  <2> QED
    BY <1>0, <1>9, <2>1, ProceedFlow DEF CallPayment, NoItemChange, itemVars
<1>10. CASE CompleteItem(w)
  BY <1>0, <1>10, LeaveFlow, ProceedFlow, OneItemWritten
  DEF CompleteItem, OneItem, NoItemChange, itemVars
<1>11. CASE PersistItemFailure(w)
  BY <1>0, <1>1, <1>11, LeaveFlow, ProceedFlow, OneItemWritten
  DEF PersistItemFailure, OneItem, NoItemChange, itemVars
<1> QED
  BY <1>2, <1>3, <1>4, <1>5, <1>6, <1>7, <1>8, <1>9, <1>10, <1>11 DEF PayStep

\* A processor claims the batch when it is approved, writes the batch only
\* while it has it, and never makes an item pending.
LEMMA ProcessFlow ==
  ASSUME PayrollSound, NEW w \in Workers, ProcessStep(w)
  PROVE  /\ \A v \in Workers : v # w => job'[v] = job[v]
         /\ job[w].at \in Processing
         /\ job'[w].at \in {"none"} \cup Preparing \cup Running
         /\ \/ batchStatus' = batchStatus
            \/ /\ job[w].at = "claimBatch" /\ batchStatus = "approved"
               /\ batchStatus' = "processing"
            \/ /\ Claimer(w) /\ job'[w].at = "none"
               /\ batchStatus' \in {"approved", "completed", "failed"}
         /\ job[w].at = "claimBatch" /\ job'[w].at # "none" =>
              batchStatus = "approved" /\ batchStatus' = "processing"
         /\ \A i \in Items :
              \/ itemStatus'[i] = itemStatus[i]
              \/ itemStatus'[i] \in {"processing", "completed", "failed"}
<1> USE DEF Processing, Preparing, Running, Claimer, At
<1>0. /\ PayrollTypeOK /\ job \in [Workers -> Jobs]
      /\ itemStatus \in [Items -> ItemStatuses]
  BY PayrollTypes DEF PayrollSound
<1>1. ASSUME RefusedWriteEnds(w) \/ (Leave(w) /\ NoItemChange)
      PROVE  /\ \A v \in Workers : v # w => job'[v] = job[v]
             /\ job'[w].at = "none"
             /\ itemStatus' = itemStatus /\ batchStatus' = batchStatus
  BY <1>0, <1>1, LeaveFlow DEF RefusedWriteEnds, NoItemChange, itemVars
<1>2. CASE ClaimBatch(w)
  BY <1>0, <1>1, <1>2, ProceedFlow DEF ClaimBatch, SetBatch, itemVars
<1>3. CASE DecryptKey(w)
  BY <1>0, <1>1, <1>3, ProceedFlow, LeaveFlow DEF DecryptKey, SetBatch, itemVars, NoItemChange
<1>4. CASE ClaimItems(w)
  BY <1>0, <1>1, <1>4, ProceedFlow DEF ClaimItems
<1>5. CASE FinishBatch(w)
  BY <1>0, <1>1, <1>5, LeaveFlow DEF FinishBatch, SetBatch, itemVars
\* The steps that keep what the processor remembers but for some fields.
<1>6. ASSUME NEW label \in Running, NEW x, x.at = label, job' = [job EXCEPT ![w] = x]
      PROVE  (\A v \in Workers : v # w => job'[v] = job[v]) /\ job'[w].at = label
  BY <1>0, <1>6
<1>7. job[w] \in Jobs
  BY <1>0
<1>8. CASE RereadItems(w)
  <2> DEFINE todo == {i \in job[w].todo : itemStatus[i] = "processing"}
             x == [job[w] EXCEPT !.at = "next", !.todo = todo]
  <2>1. x.at = "next" /\ job' = [job EXCEPT ![w] = x]
    BY <1>7, <1>8 DEF RereadItems, Jobs
  <2> QED
    BY <1>6, <1>8, <2>1 DEF RereadItems, NoItemChange, itemVars
<1>9. CASE LoadForChunk(w)
  <2> PICK c \in SUBSET job[w].todo, label \in {"chunkSubmit", "single"} :
        job' = [job EXCEPT ![w].at = label, ![w].chunk = c, ![w].left = c, ![w].todo = @ \ c]
    BY <1>9 DEF LoadForChunk
  <2> DEFINE x == [job[w] EXCEPT !.at = label, !.chunk = c, !.left = c, !.todo = @ \ c]
  <2>1. x.at = label /\ job' = [job EXCEPT ![w] = x]
    BY <1>7 DEF Jobs
  <2> QED
    BY <1>6, <1>9, <2>1 DEF LoadForChunk, NoItemChange, itemVars
<1>10. CASE LoadForSingle(w)
  <2> PICK i \in job[w].left, label \in {"singleSubmit", "singleFail"} :
        job' = [job EXCEPT ![w].at = label, ![w].item = i]
    BY <1>10 DEF LoadForSingle
  <2> DEFINE x == [job[w] EXCEPT !.at = label, !.item = i]
  <2>1. x.at = label /\ job' = [job EXCEPT ![w] = x]
    BY <1>7 DEF Jobs
  <2> QED
    BY <1>6, <1>10, <2>1 DEF LoadForSingle, NoItemChange, itemVars
<1>11. CASE SubmitChunk(w) \/ SubmitSingle(w)
  <2>1. ASSUME NEW label \in Running, job' = [job EXCEPT ![w].at = label]
        PROVE  (\A v \in Workers : v # w => job'[v] = job[v]) /\ job'[w].at = label
    BY <1>0, <2>1 DEF Jobs
  <2> QED
    BY <1>0, <1>11, <2>1, ProceedFlow
    DEF SubmitChunk, SubmitSingle, SignAndSubmit, NoItemChange, itemVars
<1>12. CASE ReceiveChunkAnswer(w) \/ ReceiveSingleAnswer(w)
  BY <1>0, <1>12, ProceedFlow DEF ReceiveChunkAnswer, ReceiveSingleAnswer, NoItemChange, itemVars
\* The steps that write an item.
<1>13. ASSUME NEW i, NEW here \in Running, NEW outcome, Tick(w, i, here, outcome)
       PROVE  (\A v \in Workers : v # w => job'[v] = job[v]) /\ job'[w].at \in Running
  <2>1. here \in Places
    BY <1>13 DEF Places
  <2> QED
    BY <1>0, <1>13, <2>1, TickUpdate
<1>14. ASSUME NEW i, NEW status \in {"completed", "failed"}, NEW hash, NEW error,
              SetItem(i, status, hash, error)
       PROVE  \A k \in Items : itemStatus'[k] \in {itemStatus[k], "completed", "failed"}
  BY <1>0, <1>14, OneItemWritten
<1>15. CASE CompleteChunk(w)
  <2>1. ASSUME job' = [job EXCEPT ![w].at = "chunkUnknown", ![w].left = job[w].chunk]
        PROVE  (\A v \in Workers : v # w => job'[v] = job[v]) /\ job'[w].at = "chunkUnknown"
    BY <1>0, <2>1 DEF Jobs
  <2> QED
    BY <1>13, <1>14, <1>15, <2>1 DEF CompleteChunk, NoItemChange, itemVars
<1>16. CASE FailUnknownChunk(w)
  BY <1>1, <1>13, <1>14, <1>16 DEF FailUnknownChunk
<1>17. CASE CompleteSingle(w)
  BY <1>0, <1>13, <1>14, <1>17, ProceedFlow DEF CompleteSingle, NoItemChange, itemVars
<1>18. CASE FailSingle(w)
  BY <1>1, <1>13, <1>14, <1>18 DEF FailSingle
<1> QED
  BY <1>2, <1>3, <1>4, <1>5, <1>8, <1>9, <1>10, <1>11, <1>12, <1>15, <1>16, <1>17, <1>18
  DEF ProcessStep

\* The other steps: an operation starts, is cut off, or makes a call.
StartStep(w) ==
  StartAdd(w) \/ StartApprove(w) \/ StartProcess(w) \/ \E i \in Items : StartPay(w, i)

LEMMA StartFlow ==
  ASSUME PayrollSound, NEW w \in Workers, StartStep(w)
  PROVE  /\ \A v \in Workers : v # w => job'[v] = job[v]
         /\ job'[w].left = {} /\ job'[w].chunk = {}
         /\ (job'[w].at # "claimBatch" => job'[w].todo = {})
         /\ NoItemChange /\ NoPaymentChange /\ UNCHANGED <<pc, ctx, budget>>
         /\ \/ job'[w].at = "add" /\ "add" \in Calls[w] /\ batchStatus = "pending"
            \/ job'[w].at = "approve" /\ "approve" \in Calls[w] /\ batchStatus = "pending"
            \/ job'[w].at = "advance" /\ "pay" \in Calls[w]
            \/ job'[w].at = "claimBatch" /\ "process" \in Calls[w] /\ batchStatus = "approved"
         /\ pc[w] = "idle" /\ job[w] = NoJob
<1>0. job \in [Workers -> Jobs]
  BY PayrollTypes DEF PayrollSound
<1>1. CASE StartAdd(w)
  BY <1>0, <1>1 DEF StartAdd, Free, NoJob
<1>2. CASE StartApprove(w)
  BY <1>0, <1>2 DEF StartApprove, Free, NoJob
<1>3. CASE StartProcess(w)
  BY <1>0, <1>3 DEF StartProcess, Free, NoJob
<1>4. CASE \E i \in Items : StartPay(w, i)
  BY <1>0, <1>4 DEF StartPay, Free, NoJob
<1> QED
  BY <1>1, <1>2, <1>3, <1>4 DEF StartStep

\* Every step of payroll, by who takes it.
LEMMA WhoSteps ==
  ASSUME PayrollNext
  PROVE  \/ Network /\ UNCHANGED <<batchStatus, itemVars, job>>
         \/ \E w \in Workers :
              \/ StartStep(w) \/ PayStep(w) \/ ProcessStep(w) \/ AddItem(w)
              \/ ApproveBatch(w) \/ PaymentStep(w) \/ CrashPayroll(w)
  BY DEF PayrollNext, PayrollStep, StartStep

-----------------------------------------------------------------------------
(* Without processors, one call pays an item. *)

LEMMA ClaimInvStep ==
  ASSUME NoProcessor, PayrollSound, ClaimInv, [PayrollNext]_payrollVars
  PROVE  ClaimInv'
<1>0. /\ job \in [Workers -> Jobs] /\ itemStatus \in [Items -> ItemStatuses]
      /\ \A w \in Workers : job[w].at \in PayPlaces => job[w].item \in Items
  BY PayrollTypes, OneItemHere DEF PayrollSound, PayPlaces, OneItem
\* Nobody starts or goes on paying, and no claimed item changes.
<1>1. ASSUME NEW w \in Workers, \A v \in Workers : v # w => job'[v] = job[v],
             job'[w].at \in PayerPlaces \ PayPlaces, job'[w].todo = {}, job'[w].left = {},
             \A i \in Items : itemStatus'[i] = itemStatus[i] \/ itemStatus[i] = "none"
      PROVE  ClaimInv'
  BY <1>0, <1>1 DEF ClaimInv
<1>2. CASE UNCHANGED <<job, itemStatus>>
  BY <1>2 DEF ClaimInv
<1>3. ASSUME NEW w \in Workers, StartStep(w) PROVE ClaimInv'
  BY <1>1, <1>3, StartFlow DEF NoProcessor, PayerPlaces, PayPlaces, NoItemChange, itemVars
<1>4. ASSUME NEW w \in Workers, Leave(w),
             \A i \in Items : itemStatus'[i] = itemStatus[i] \/ itemStatus[i] = "none"
      PROVE  ClaimInv'
  <2>1. job'[w] = NoJob /\ \A v \in Workers : v # w => job'[v] = job[v]
    BY <1>0, <1>4 DEF Leave
  <2> QED
    BY <1>1, <1>4, <2>1 DEF NoJob, PayerPlaces, PayPlaces
<1>5. ASSUME NEW w \in Workers, AddItem(w) PROVE ClaimInv'
  <2> PICK i \in Items : itemStatus[i] = "none" /\ SetItem(i, "pending", None, "none")
    BY <1>5 DEF AddItem
  <2>1. \A k \in Items : itemStatus'[k] = itemStatus[k] \/ itemStatus[k] = "none"
    BY OneItemWritten DEF PayrollSound
  <2> QED
    BY <1>4, <1>5, <2>1 DEF AddItem
<1>6. ASSUME NEW w \in Workers, ApproveBatch(w) \/ CrashPayroll(w) PROVE ClaimInv'
  BY <1>4, <1>6 DEF ApproveBatch, CrashPayroll, NoItemChange, itemVars
<1>7. ASSUME NEW w \in Workers, PayStep(w) PROVE ClaimInv'
  <2>1. /\ \A v \in Workers : v # w => job'[v] = job[v]
        /\ job'[w].at \in PayerPlaces /\ job'[w].todo = {} /\ job'[w].left = {}
        /\ job'[w].at \in PayPlaces => job'[w].item = job[w].item
    BY <1>7, PayFlow DEF KeepsItem, ClaimInv, PayItemPlaces, PayerPlaces, PayPlaces
  <2>2. /\ job'[w].at \in PayPlaces /\ job[w].at \notin PayPlaces =>
             /\ itemStatus[job[w].item] \in Payable
             /\ itemStatus'[job[w].item] = "processing"
        /\ \A i \in Items :
             \/ itemStatus'[i] = itemStatus[i]
             \/ itemStatus'[i] \in {"processing", "completed"}
             \/ /\ job[w].item = i /\ job[w].at \in PayPlaces /\ job'[w].at = "none"
    BY <1>7, PayFlow
  <2>3. ASSUME NEW v \in Workers, v # w, job[v].at \in PayPlaces, job'[w].at \in PayPlaces
        PROVE  job[v].item # job[w].item
    BY <2>2, <2>3 DEF ClaimInv, Payable
  <2>4. ASSUME NEW v \in Workers, job'[v].at \in PayPlaces
        PROVE  itemStatus'[job'[v].item] \in {"processing", "completed"}
    <3>1. CASE v = w
      BY <1>0, <2>1, <2>2, <2>4, <3>1 DEF ClaimInv, PayPlaces
    <3>2. CASE v # w
      BY <1>0, <2>1, <2>2, <2>4, <3>2 DEF ClaimInv, PayPlaces
    <3> QED
      BY <3>1, <3>2
  <2> QED
    BY <1>0, <2>1, <2>3, <2>4 DEF ClaimInv
<1>8. ASSUME NEW w \in Workers, ProcessStep(w) PROVE ClaimInv'
  BY <1>8, ProcessFlow DEF ClaimInv, PayerPlaces, PayPlaces, Processing, Preparing, Running
<1>9. ASSUME NEW w \in Workers, PaymentStep(w) PROVE ClaimInv'
  BY <1>2, <1>9 DEF PaymentStep, itemVars
<1>10. CASE Network /\ UNCHANGED <<batchStatus, itemVars, job>>
  BY <1>2, <1>10 DEF itemVars
<1>11. CASE UNCHANGED payrollVars
  BY <1>2, <1>11 DEF payrollVars, itemVars
<1> QED
  BY <1>3, <1>5, <1>6, <1>7, <1>8, <1>9, <1>10, <1>11, WhoSteps

\* "The item is atomically claimed before funds move so concurrent workers
\* cannot double-pay": no two calls of payPayrollItem pay the same item at the
\* same time, whatever fails.  Next to a processor of the batch it is not so.
THEOREM OnePayer ==
  ASSUME NoProcessor
  PROVE  PayrollSpec => []OnePayerPerItem
<1>1. PayrollInit => ClaimInv
  BY DEF PayrollInit, ClaimInv, NoJob, PayerPlaces, PayPlaces
<1>2. PayrollSound /\ ClaimInv /\ [PayrollNext]_payrollVars => ClaimInv'
  BY ClaimInvStep
<1>3. ClaimInv => OnePayerPerItem
  BY DEF ClaimInv, OnePayerPerItem, Paying, PayPlaces
<1> QED
  BY PayrollSoundness, <1>1, <1>2, <1>3, PTL DEF PayrollSpec

-----------------------------------------------------------------------------
(* With one approver a batch is held by one processor and closed for good.  *)

\* A step of a call that was no processor's, and makes it none, of which the
\* batch knows only that it may have been advanced.
LEMMA AsideHeld ==
  ASSUME HeldByOne, NEW w \in Workers, \A v \in Workers : v # w => job'[v] = job[v],
         job[w].at \notin Preparing \cup Running, job'[w].at \notin Preparing \cup Running,
         job'[w].at = "approve" => "approve" \in Calls[w] /\ batchStatus = "pending",
         \/ UNCHANGED batchStatus
         \/ batchStatus = "approved" /\ batchStatus' = "processing"
  PROVE  HeldByOne' /\ (Closed => UNCHANGED batchStatus)
  BY DEF HeldByOne, Claimer, Closed

LEMMA HeldByOneStep ==
  ASSUME OneApprover, PayrollSound, HeldByOne, [PayrollNext]_payrollVars
  PROVE  HeldByOne' /\ (Closed => UNCHANGED batchStatus)
<1>0. /\ job \in [Workers -> Jobs]
      /\ \A w \in Workers : job[w].at = "claimBatch" => ~Claimer(w)
      /\ \A w \in Workers : Claimer(w) => job[w].at # "none"
  BY PayrollTypes DEF PayrollSound, Claimer, Preparing, Running
<1>1. CASE UNCHANGED <<job, batchStatus>>
  BY <1>1 DEF HeldByOne, Claimer
<1>2. ASSUME NEW w \in Workers, StartStep(w) PROVE HeldByOne' /\ (Closed => UNCHANGED batchStatus)
  <2>1. /\ job[w].at = "none" /\ job'[w].at \in {"add", "approve", "advance", "claimBatch"}
        /\ job'[w].at = "approve" => "approve" \in Calls[w] /\ batchStatus = "pending"
        /\ \A v \in Workers : v # w => job'[v] = job[v]
        /\ UNCHANGED batchStatus
    BY <1>2, StartFlow DEF NoJob, NoItemChange
  <2> QED
    BY <2>1, AsideHeld DEF Preparing, Running
\* It ends: a crash, or an item that was added.
<1>3. ASSUME NEW w \in Workers, Leave(w), UNCHANGED batchStatus
      PROVE  HeldByOne' /\ (Closed => UNCHANGED batchStatus)
  <2>1. job'[w].at = "none" /\ \A v \in Workers : v # w => job'[v] = job[v]
    BY <1>0, <1>3 DEF Leave, NoJob
  <2> QED
    BY <1>3, <2>1 DEF HeldByOne, Claimer, Preparing, Running
<1>4. ASSUME NEW w \in Workers, AddItem(w) \/ CrashPayroll(w)
      PROVE  HeldByOne' /\ (Closed => UNCHANGED batchStatus)
  BY <1>3, <1>4 DEF AddItem, CrashPayroll, NoItemChange
<1>5. ASSUME NEW w \in Workers, ApproveBatch(w) PROVE HeldByOne' /\ (Closed => UNCHANGED batchStatus)
  <2>1. /\ job[w].at = "approve" /\ batchStatus = "pending"
        /\ job'[w].at = "none" /\ \A v \in Workers : v # w => job'[v] = job[v]
    BY <1>0, <1>5 DEF ApproveBatch, At, Leave, NoJob, HeldByOne
  <2>2. \A v \in Workers : ~Claimer(v) /\ (v # w => job[v].at # "approve")
    BY <1>5, <2>1 DEF HeldByOne, OneApprover
  <2> QED
    BY <2>1, <2>2 DEF HeldByOne, Claimer, Preparing, Running, Closed
<1>6. ASSUME NEW w \in Workers, PayStep(w) PROVE HeldByOne' /\ (Closed => UNCHANGED batchStatus)
  <2>1. /\ job[w].at \in PayItemPlaces /\ job'[w].at \in PayItemPlaces \cup {"none"}
        /\ \A v \in Workers : v # w => job'[v] = job[v]
        /\ \/ UNCHANGED batchStatus
           \/ batchStatus = "approved" /\ batchStatus' = "processing"
    BY <1>6, PayFlow
  <2> QED
    BY <2>1, AsideHeld DEF PayItemPlaces, PayerPlaces, PayPlaces, Preparing, Running
<1>7. ASSUME NEW w \in Workers, ProcessStep(w) PROVE HeldByOne' /\ (Closed => UNCHANGED batchStatus)
  <2>1. /\ job[w].at = "claimBatch" \/ Claimer(w)
        /\ job'[w].at \in {"none"} \cup Preparing \cup Running
        /\ \A v \in Workers : v # w => job'[v] = job[v]
        /\ \/ batchStatus' = batchStatus
           \/ /\ job[w].at = "claimBatch" /\ batchStatus = "approved"
              /\ batchStatus' = "processing"
           \/ Claimer(w) /\ job'[w].at = "none"
        /\ job[w].at = "claimBatch" /\ job'[w].at # "none" =>
             batchStatus = "approved" /\ batchStatus' = "processing"
    BY <1>7, ProcessFlow DEF Processing, Claimer
  <2>2. CASE job[w].at = "claimBatch" /\ job'[w].at = "none"
    BY <1>0, <2>1, <2>2, AsideHeld DEF Claimer, Preparing, Running
  <2>3. CASE job[w].at = "claimBatch" /\ job'[w].at # "none"
    BY <1>0, <2>1, <2>3 DEF HeldByOne, Claimer, Preparing, Running, Closed
  <2>4. CASE Claimer(w)
    BY <1>0, <2>1, <2>4 DEF HeldByOne, Claimer, Preparing, Running, Closed
  <2> QED
    BY <2>1, <2>2, <2>3, <2>4
<1>8. ASSUME NEW w \in Workers, PaymentStep(w) PROVE HeldByOne' /\ (Closed => UNCHANGED batchStatus)
  BY <1>1, <1>8 DEF PaymentStep
<1>9. CASE Network /\ UNCHANGED <<batchStatus, itemVars, job>>
  BY <1>1, <1>9
<1>10. CASE UNCHANGED payrollVars
  BY <1>1, <1>10 DEF payrollVars
<1> QED
  BY <1>2, <1>4, <1>5, <1>6, <1>7, <1>8, <1>9, <1>10, WhoSteps

\* When one client approves batches, a closed batch stays closed, whoever pays its
\* items meanwhile and however often its processor fails.  Two approvals race: the
\* second one opens a batch that was processed after the first.
THEOREM ClosedForGood ==
  ASSUME OneApprover
  PROVE  PayrollSpec => ClosedStaysClosed
<1>1. PayrollInit => HeldByOne
  BY DEF PayrollInit, HeldByOne, NoJob, Claimer, Preparing, Running
<1>2. PayrollSound /\ HeldByOne /\ [PayrollNext]_payrollVars => HeldByOne'
  BY HeldByOneStep
<1>3. PayrollSound /\ HeldByOne /\ [PayrollNext]_payrollVars =>
        [Closed => UNCHANGED batchStatus]_payrollVars
  BY HeldByOneStep
<1> QED
  BY PayrollSoundness, <1>1, <1>2, <1>3, PTL DEF PayrollSpec, ClosedStaysClosed

-----------------------------------------------------------------------------
(* processPayrollBatch alone: when the items of a batch are paid by         *)
(* processors only, no item is paid twice and a closed batch is settled.    *)
(* First the invariants that hold without payers.                           *)

\* No row is created, and no other service is called.
NoRows ==
  /\ \A r \in Rows : rowStatus[r] = "none"
  /\ \A w \in Workers : pc[w] = "idle"
                        /\ job[w].at \in {"none", "add", "approve"} \cup Processing

\* Nothing is paid before the batch is claimed and its items are.
Untouched ==
  /\ \A e \in Envelopes : envState[e] = "unused"
  /\ \A i \in Items : itemStatus[i] \in {"none", "pending", "processing"}
PaidByRunner ==
  /\ batchStatus \in {"pending", "approved"} => Untouched
  /\ \A w \in Workers : job[w].at \in Preparing => Untouched

\* An item between claim and outcome is one its processor still has before it.
ProcessingIsHeld ==
  /\ batchStatus # "processing" => \A i \in Items : itemStatus[i] # "processing"
  /\ \A w \in Workers :
       /\ job[w].at \in {"decrypt", "claimItems", "finish"} =>
            \A i \in Items : itemStatus[i] # "processing"
       /\ job[w].at \in {"reread"} \cup Running =>
            \A i \in Items : itemStatus[i] = "processing" => i \in job[w].todo \cup job[w].left
       /\ job[w].at \in {"claimBatch", "next"} \cup Preparing => job[w].left = {}
       /\ job[w].at \in {"claimBatch"} \cup Preparing => job[w].chunk = {}

\* The items that processor w may still submit an envelope for.
Unsubmitted(w) ==
  job[w].todo \cup
    (IF job[w].at \in {"chunkSubmit", "single", "singleSubmit"} THEN job[w].left
     ELSE IF job[w].at \in {"singleAwait", "singleDone", "singleFail"}
     THEN job[w].left \ {job[w].item} ELSE {})

\* They have no envelope that landed or still may, no item has two, and the
\* chunk that waits for an answer has the one it waits for.
NoneLive(items) == \A e \in Envelopes : Live(e) => envPays[e] \cap items = {}
OneLiveEnvelope ==
  /\ \A o \in Obligations, e, f \in Envelopes :
       Live(e) /\ Live(f) /\ o \in envPays[e] /\ o \in envPays[f] => e = f
  /\ \A w \in Workers :
       job[w].at \in Running =>
         /\ NoneLive(Unsubmitted(w))
         /\ job[w].todo \cap job[w].chunk = {}
         /\ job[w].at = "singleSubmit" => job[w].item \in job[w].left
         /\ job[w].at = "chunkSubmit" => job[w].left = job[w].chunk
         /\ job[w].at = "chunkAwait" =>
              \A e \in Envelopes :
                Live(e) /\ envPays[e] \cap job[w].chunk # {} => e = ctx[w].env

ProcessInv ==
  HeldByOne /\ NoRows /\ PaidByRunner /\ ProcessingIsHeld /\ OneLiveEnvelope

-----------------------------------------------------------------------------
(* Without payers, one processor pays: what its steps are. *)

\* Worker w goes on with the same items before it.
SameItems(w) ==
  /\ job'[w].todo = job[w].todo /\ job'[w].chunk = job[w].chunk
  /\ job'[w].left = job[w].left /\ job'[w].item = job[w].item

\* No item and no envelope changes.
Still == UNCHANGED <<stellarVars, itemStatus>>

\* Before it pays, a processor only claims the items of the batch.
LEMMA PreparingMoves ==
  ASSUME PayrollSound, NEW w \in Workers, ProcessStep(w),
         job[w].at \in {"claimBatch"} \cup Preparing
  PROVE  /\ UNCHANGED stellarVars
         /\ \/ job'[w].at = "none" /\ UNCHANGED itemStatus
            \/ /\ job[w].at = "claimBatch" /\ job'[w].at \in {"decrypt", "finish"}
               /\ batchStatus = "approved" /\ SameItems(w) /\ UNCHANGED itemStatus
            \/ /\ job[w].at = "decrypt" /\ job'[w].at = "claimItems"
               /\ SameItems(w) /\ UNCHANGED itemStatus
            \/ /\ job[w].at = "claimItems" /\ job'[w].at = "reread" /\ SameItems(w)
               /\ \A i \in Items :
                    itemStatus'[i] = IF i \in job[w].todo /\ itemStatus[i] \in Payable
                                     THEN "processing" ELSE itemStatus[i]
            \/ /\ job[w].at = "reread" /\ job'[w].at = "next" /\ UNCHANGED itemStatus
               /\ job'[w].todo = {i \in job[w].todo : itemStatus[i] = "processing"}
               /\ job'[w].left = job[w].left /\ job'[w].chunk = job[w].chunk
<1> USE DEF At, Preparing, NoPaymentChange, NoItemChange, itemVars
<1>0. /\ PayrollTypeOK /\ job \in [Workers -> Jobs]
  BY PayrollTypes DEF PayrollSound
<1>1. ASSUME Leave(w) PROVE job'[w].at = "none"
  BY <1>0, <1>1, LeaveFlow
<1>2. ASSUME NEW label, Proceed(w, label)
      PROVE  job'[w].at = label /\ SameItems(w)
  BY <1>0, <1>2 DEF Proceed, SameItems, Jobs
<1>3. CASE ClaimBatch(w)
  BY <1>1, <1>2, <1>3 DEF ClaimBatch, RefusedWriteEnds
<1>4. CASE DecryptKey(w)
  BY <1>1, <1>2, <1>4 DEF DecryptKey, RefusedWriteEnds
<1>5. CASE ClaimItems(w)
  BY <1>1, <1>2, <1>5 DEF ClaimItems, RefusedWriteEnds
<1>6. CASE RereadItems(w)
  <2> DEFINE todo == {i \in job[w].todo : itemStatus[i] = "processing"}
             x == [job[w] EXCEPT !.at = "next", !.todo = todo]
  <2>1. job[w] \in Jobs
    BY <1>0
  <2>2. /\ x \in Jobs /\ x.at = "next" /\ x.todo = todo
        /\ x.left = job[w].left /\ x.chunk = job[w].chunk
    BY <2>1 DEF Jobs, Places
  <2>3. job' = [job EXCEPT ![w] = x]
    BY <1>6, <2>1 DEF RereadItems
  <2>4. job'[w] = x
    BY <1>0, <2>2, <2>3, FieldsUpdate
  <2> HIDE DEF x
  <2> QED
    BY <1>6, <2>2, <2>4 DEF RereadItems
<1>7. CASE FinishBatch(w)
  BY <1>1, <1>7 DEF FinishBatch, RefusedWriteEnds
<1> QED
  BY <1>3, <1>4, <1>5, <1>6, <1>7
  DEF ProcessStep, LoadForChunk, SubmitChunk, ReceiveChunkAnswer, CompleteChunk,
      FailUnknownChunk, LoadForSingle, SubmitSingle, ReceiveSingleAnswer, CompleteSingle,
      FailSingle

\* While it pays, it submits a chunk or an item, or it writes an outcome.
Submits(w) ==
  \E e \in Envelopes, pays \in SUBSET Items :
    /\ \/ job[w].at = "chunkSubmit" /\ job'[w].at = "chunkAwait" /\ pays = job[w].chunk
       \/ job[w].at = "singleSubmit" /\ job'[w].at = "singleAwait" /\ pays = {job[w].item}
    /\ SameItems(w) /\ UNCHANGED itemStatus
    /\ envState[e] = "unused" /\ envState' = [envState EXCEPT ![e] = "inflight"]
    /\ envPays' = [envPays EXCEPT ![e] = pays] /\ ctx'[w].env = e

TakesChunk(w) ==
  \E c \in SUBSET job[w].todo :
    /\ job[w].at = "next" /\ job'[w].at \in {"chunkSubmit", "single"}
    /\ job'[w].chunk = c /\ job'[w].left = c /\ job'[w].todo = job[w].todo \ c
    /\ Still

TakesSingle(w) ==
  /\ job[w].at = "single" /\ job'[w].at \in {"singleSubmit", "singleFail"}
  /\ job'[w].item \in job[w].left /\ job'[w].left = job[w].left
  /\ job'[w].todo = job[w].todo /\ job'[w].chunk = job[w].chunk
  /\ Still

Moves(w) ==
  /\ SameItems(w) /\ Still /\ ctx'[w].env = ctx[w].env
  /\ \/ job[w].at = "chunkSubmit" /\ job'[w].at = "single"
     \/ job[w].at = "singleSubmit" /\ job'[w].at = "singleFail"
     \/ job[w].at = "chunkAwait" /\ job'[w].at \in {"chunkDone", "chunkUnknown"}
     \/ /\ job[w].at = "chunkAwait" /\ job'[w].at = "single"
        /\ ~Live(ctx[w].env)
     \/ job[w].at = "singleAwait" /\ job'[w].at \in {"singleDone", "singleFail"}
     \/ job[w].at = "singleDone" /\ job'[w].at = "singleFail"

GivesUp(w) ==
  /\ job[w].at = "chunkDone" /\ job'[w].at = "chunkUnknown"
  /\ job'[w].left = job[w].chunk /\ job'[w].chunk = job[w].chunk
  /\ job'[w].todo = job[w].todo /\ Still

Writes(w) ==
  \E i \in Items :
    /\ \/ job[w].at \in {"chunkDone", "chunkUnknown"} /\ i \in job[w].left
          /\ job'[w].at \in {job[w].at, "next"}
       \/ /\ job[w].at \in {"singleDone", "singleFail"} /\ i = job[w].item
          /\ job'[w].at \in {"single", "next"}
    /\ job'[w].at = "next" => job[w].left = {i}
    /\ job'[w].left = job[w].left \ {i}
    /\ job'[w].todo = job[w].todo /\ job'[w].chunk = job[w].chunk
    /\ itemStatus'[i] \in {"completed", "failed"}
    /\ \A k \in Items : k # i => itemStatus'[k] = itemStatus[k]
    /\ UNCHANGED stellarVars

Stops(w) == job'[w].at = "none" /\ Still

LEMMA RunningMoves ==
  ASSUME PayrollSound, NEW w \in Workers, ProcessStep(w), job[w].at \in Running
  PROVE  \/ Submits(w) \/ TakesChunk(w) \/ TakesSingle(w) \/ Moves(w)
         \/ GivesUp(w) \/ Writes(w) \/ Stops(w)
<1> USE DEF At, Running
<1>0. /\ PayrollTypeOK /\ job \in [Workers -> Jobs] /\ ctx \in [Workers -> Contexts]
      /\ job[w] \in Jobs
  BY PayrollTypes DEF PayrollSound
<1>1. ASSUME RefusedWriteEnds(w), NoPaymentChange PROVE Stops(w)
  BY <1>0, <1>1, LeaveFlow
  DEF RefusedWriteEnds, NoItemChange, NoPaymentChange, itemVars, Stops, Still
<1>2. ASSUME NEW label, Proceed(w, label), UNCHANGED stellarVars, NoItemChange
      PROVE  job'[w].at = label /\ SameItems(w) /\ Still /\ ctx'[w].env = ctx[w].env
  BY <1>0, <1>2 DEF Proceed, SameItems, Jobs, Still, NoItemChange, itemVars
<1>3. CASE LoadForChunk(w)
  <2> PICK c \in SUBSET job[w].todo, label \in {"chunkSubmit", "single"} :
        job' = [job EXCEPT ![w].at = label, ![w].chunk = c, ![w].left = c, ![w].todo = @ \ c]
    BY <1>3 DEF LoadForChunk
  <2> DEFINE x == [job[w] EXCEPT !.at = label, !.chunk = c, !.left = c, !.todo = @ \ c]
  <2>1. /\ x \in Jobs /\ x.at = label /\ x.chunk = c /\ x.left = c
        /\ x.todo = job[w].todo \ c
    BY <1>0 DEF Jobs, Places
  <2>2. job' = [job EXCEPT ![w] = x]
    BY <1>0
  <2>3. job'[w] = x
    BY <1>0, <2>1, <2>2, FieldsUpdate
  <2> HIDE DEF x
  <2> QED
    BY <1>3, <2>1, <2>3
    DEF LoadForChunk, TakesChunk, Still, NoPaymentChange, NoItemChange, itemVars
<1>4. CASE LoadForSingle(w)
  <2> PICK i \in job[w].left, label \in {"singleSubmit", "singleFail"} :
        job' = [job EXCEPT ![w].at = label, ![w].item = i]
    BY <1>4 DEF LoadForSingle
  <2> DEFINE x == [job[w] EXCEPT !.at = label, !.item = i]
  <2>1. /\ x \in Jobs /\ x.at = label /\ x.item = i /\ x.left = job[w].left
        /\ x.todo = job[w].todo /\ x.chunk = job[w].chunk
    BY <1>0 DEF Jobs, Places
  <2>2. job' = [job EXCEPT ![w] = x]
    BY <1>0
  <2>3. job'[w] = x
    BY <1>0, <2>1, <2>2, FieldsUpdate
  <2> HIDE DEF x
  <2> QED
    BY <1>4, <2>1, <2>3
    DEF LoadForSingle, TakesSingle, Still, NoPaymentChange, NoItemChange, itemVars
<1>5. ASSUME NEW label \in {"chunkAwait", "singleAwait"}, NEW pays \in SUBSET Items,
             SignAndSubmit(w, pays, label), NoItemChange,
             \/ job[w].at = "chunkSubmit" /\ label = "chunkAwait" /\ pays = job[w].chunk
             \/ job[w].at = "singleSubmit" /\ label = "singleAwait" /\ pays = {job[w].item}
      PROVE  Submits(w)
  <2> PICK e \in Envelopes :
        /\ envState[e] = "unused"
        /\ envState' = [envState EXCEPT ![e] = "inflight"]
        /\ envPays' = [envPays EXCEPT ![e] = pays]
        /\ ctx' = [ctx EXCEPT ![w].env = e]
        /\ job' = [job EXCEPT ![w].at = label]
    BY <1>5 DEF SignAndSubmit
  <2>1. job'[w].at = label /\ SameItems(w)
    BY <1>0 DEF SameItems, Jobs
  <2>2. ctx'[w].env = e
    BY <1>0, EnvUpdate
  <2>3. UNCHANGED itemStatus
    BY <1>5 DEF NoItemChange, itemVars
  <2> QED
    BY <1>5, <2>1, <2>2, <2>3 DEF Submits
<1>6. CASE SubmitChunk(w) \/ SubmitSingle(w)
  <2>1. CASE SubmitChunk(w)
    <3>1. job[w].chunk \in SUBSET Items
      BY <1>0 DEF Jobs
    <3> QED
      BY <1>2, <1>5, <2>1, <3>1 DEF SubmitChunk, Moves
  <2>2. CASE SubmitSingle(w)
    <3>1. job[w].item \in Items
      BY <2>2, OneItemHere DEF SubmitSingle, OneItem
    <3> QED
      BY <1>2, <1>5, <2>2, <3>1 DEF SubmitSingle, Moves
  <2> QED
    BY <1>6, <2>1, <2>2
<1>7. CASE ReceiveChunkAnswer(w) \/ ReceiveSingleAnswer(w)
  BY <1>2, <1>7
  DEF ReceiveChunkAnswer, ReceiveSingleAnswer, Moves, MayAnswer, Live, NoPaymentChange
\* An outcome is written for item i.
<1>8. ASSUME NEW i \in Items, NEW status \in {"completed", "failed"}, NEW hash, NEW error,
             SetItem(i, status, hash, error), NEW here \in Running, NEW outcome,
             Tick(w, i, here, outcome), NoPaymentChange,
             \/ job[w].at \in {"chunkDone", "chunkUnknown"} /\ i \in job[w].left /\ here = job[w].at
             \/ job[w].at \in {"singleDone", "singleFail"} /\ i = job[w].item /\ here = "single"
      PROVE  Writes(w)
  <2>1. here \in Places
    BY <1>8 DEF Places
  <2>2. /\ job'[w].left = job[w].left \ {i}
        /\ job'[w].at = IF job[w].left = {i} THEN "next" ELSE here
        /\ job'[w].chunk = job[w].chunk /\ job'[w].todo = job[w].todo
    <3>1. Tick(w, i, here, outcome)
      BY <1>8
    <3> QED
      BY <1>0, <2>1, <3>1, TickUpdate
  <2>3. /\ \A k \in Items : k # i => itemStatus'[k] = itemStatus[k]
        /\ itemStatus'[i] = status
    BY <1>0, <1>8, OneItemWritten
  <2> QED
    BY <1>8, <2>2, <2>3 DEF Writes, NoPaymentChange
<1>9. job[w].left \subseteq Items
  BY <1>0 DEF Jobs
<1>10. CASE CompleteChunk(w)
  <2>1. ASSUME job' = [job EXCEPT ![w].at = "chunkUnknown", ![w].left = job[w].chunk],
               NoItemChange
        PROVE  GivesUp(w)
    <3> DEFINE x == [job[w] EXCEPT !.at = "chunkUnknown", !.left = job[w].chunk]
    <3>1. /\ x \in Jobs /\ x.at = "chunkUnknown" /\ x.left = job[w].chunk
          /\ x.chunk = job[w].chunk /\ x.todo = job[w].todo
      BY <1>0 DEF Jobs, Places
    <3>2. job' = [job EXCEPT ![w] = x]
      BY <1>0, <2>1
    <3>3. job'[w] = x
      BY <1>0, <3>1, <3>2, FieldsUpdate
    <3> HIDE DEF x
    <3> QED
      BY <1>10, <2>1, <3>1, <3>3
      DEF CompleteChunk, GivesUp, Still, NoPaymentChange, NoItemChange, itemVars
  <2> QED
    BY <1>8, <1>9, <1>10, <2>1 DEF CompleteChunk
<1>11. CASE FailUnknownChunk(w)
  BY <1>1, <1>8, <1>9, <1>11 DEF FailUnknownChunk
<1>12. CASE CompleteSingle(w)
  <2>1. job[w].item \in Items
    BY <1>12, OneItemHere DEF CompleteSingle, OneItem
  <2> QED
    BY <1>2, <1>8, <1>12, <2>1 DEF CompleteSingle, Moves, NoPaymentChange
<1>13. CASE FailSingle(w)
  <2>1. job[w].item \in Items
    BY <1>13, OneItemHere DEF FailSingle, OneItem
  <2> QED
    BY <1>1, <1>8, <1>13, <2>1 DEF FailSingle
<1>14. CASE FinishBatch(w)
  BY <1>0, <1>1, <1>14, LeaveFlow
  DEF FinishBatch, Stops, Still, NoPaymentChange, itemVars
<1> QED
  BY <1>3, <1>4, <1>6, <1>7, <1>10, <1>11, <1>12, <1>13, <1>14
  DEF ProcessStep, ClaimBatch, DecryptKey, ClaimItems, RereadItems

\* It leaves rows and calls of other services alone, and what others remember.
LEMMA ProcessKeeps ==
  ASSUME PayrollSound, NEW w \in Workers, ProcessStep(w)
  PROVE  /\ UNCHANGED rowStatus
         /\ \A v \in Workers : pc'[v] \in {pc[v], "idle"}
         /\ \A v \in Workers : v # w => ctx'[v] = ctx[v]
<1>0. pc \in [Workers -> Labels] /\ ctx \in [Workers -> Contexts]
  BY PayrollTypes DEF PayrollSound
<1>1. ASSUME Leave(w) \/ UNCHANGED <<pc, ctx>>
      PROVE  /\ \A v \in Workers : pc'[v] \in {pc[v], "idle"}
             /\ \A v \in Workers : v # w => ctx'[v] = ctx[v]
  BY <1>0, <1>1 DEF Leave, Goto
<1>2. UNCHANGED rowStatus
  BY DEF ProcessStep, ClaimBatch, DecryptKey, ClaimItems, RereadItems, LoadForChunk,
    SubmitChunk, ReceiveChunkAnswer, CompleteChunk, FailUnknownChunk, LoadForSingle,
    SubmitSingle, ReceiveSingleAnswer, CompleteSingle, FailSingle, FinishBatch,
    NoPaymentChange, NoRowChange, rowVars
<1>3. CASE SubmitChunk(w) \/ SubmitSingle(w)
  <2>1. ASSUME NEW pays, NEW label, SignAndSubmit(w, pays, label)
        PROVE  UNCHANGED pc /\ \A v \in Workers : v # w => ctx'[v] = ctx[v]
    <3> PICK e \in Envelopes : ctx' = [ctx EXCEPT ![w].env = e] /\ UNCHANGED pc
      BY <2>1 DEF SignAndSubmit
    <3> QED
      BY <1>0
  <2> QED
    BY <1>1, <1>2, <1>3, <2>1 DEF SubmitChunk, SubmitSingle, Proceed
<1>4. CASE LoadForChunk(w) \/ LoadForSingle(w)
  BY <1>0, <1>2, <1>4 DEF LoadForChunk, LoadForSingle
<1> QED
  BY <1>1, <1>2, <1>3, <1>4
  DEF ProcessStep, ClaimBatch, DecryptKey, ClaimItems, RereadItems, ReceiveChunkAnswer,
    CompleteChunk, FailUnknownChunk, ReceiveSingleAnswer, CompleteSingle, FailSingle,
    FinishBatch, RefusedWriteEnds, Proceed, Tick

\* It closes the batch only at its end, and gives it back only before it claims
\* an item.
LEMMA Closes ==
  ASSUME PayrollSound, NEW w \in Workers, ProcessStep(w), job[w].at # "claimBatch"
  PROVE  \/ UNCHANGED batchStatus
         \/ job[w].at = "decrypt" /\ batchStatus' = "approved"
         \/ /\ job[w].at = "finish" \/ (job[w].at = "next" /\ job[w].todo = {})
            /\ UNCHANGED itemStatus /\ batchStatus' \in {"completed", "failed"}
<1>1. CASE DecryptKey(w)
  BY <1>1 DEF DecryptKey, At, RefusedWriteEnds, NoItemChange, SetBatch
<1>2. CASE FinishBatch(w)
  <2>1. \/ UNCHANGED itemStatus /\ batchStatus' \in {"completed", "failed"}
        \/ UNCHANGED batchStatus
    BY <1>2, ZenonT(30) DEF FinishBatch, RefusedWriteEnds, NoItemChange, SetBatch, itemVars
  <2>2. At(w, "finish") \/ (At(w, "next") /\ job[w].todo = {})
    BY <1>2 DEF FinishBatch
  <2> QED
    BY <2>1, <2>2 DEF At
<1>3. ASSUME \/ ClaimItems(w) \/ RereadItems(w) \/ LoadForChunk(w) \/ SubmitChunk(w)
             \/ ReceiveChunkAnswer(w) \/ LoadForSingle(w) \/ SubmitSingle(w)
             \/ ReceiveSingleAnswer(w)
      PROVE  UNCHANGED batchStatus
  BY <1>3
  DEF ClaimItems, RereadItems, LoadForChunk, SubmitChunk, ReceiveChunkAnswer, LoadForSingle,
    SubmitSingle, ReceiveSingleAnswer, RefusedWriteEnds, NoItemChange
<1>4. ASSUME CompleteChunk(w) \/ FailUnknownChunk(w) \/ CompleteSingle(w) \/ FailSingle(w)
      PROVE  UNCHANGED batchStatus
  BY <1>4
  DEF CompleteChunk, FailUnknownChunk, CompleteSingle, FailSingle, RefusedWriteEnds,
    NoItemChange
<1> QED
  BY <1>1, <1>2, <1>3, <1>4 DEF ProcessStep, ClaimBatch, At

-----------------------------------------------------------------------------
(* What everybody does, without payers. *)

Begins(w) ==
  /\ job[w].at = "none" /\ UNCHANGED batchStatus /\ Still
  /\ job'[w].left = {} /\ job'[w].chunk = {}
  /\ \/ job'[w].at = "add"
     \/ job'[w].at = "approve" /\ "approve" \in Calls[w] /\ batchStatus = "pending"
     \/ job'[w].at = "claimBatch"

Adds(w) ==
  /\ job'[w].at = "none" /\ UNCHANGED <<batchStatus, stellarVars>>
  /\ \A i \in Items : \/ itemStatus'[i] = itemStatus[i]
                      \/ itemStatus[i] = "none" /\ itemStatus'[i] = "pending"

Approves(w) ==
  /\ job[w].at = "approve" /\ batchStatus' = "approved"
  /\ job'[w].at = "none" /\ Still

\* Everything but the steps of a processor.
Around(w) ==
  Begins(w) \/ Adds(w) \/ Approves(w) \/ (Stops(w) /\ UNCHANGED batchStatus)

\* Only worker w steps, and no row is touched.
OnlyBy(w) ==
  /\ UNCHANGED rowStatus
  /\ \A v \in Workers : pc'[v] = "idle"
  /\ \A v \in Workers : v # w => job'[v] = job[v] /\ ctx'[v] = ctx[v]

LEMMA StepsWithoutPayers ==
  ASSUME NoPayer, PayrollSound, NoRows, PayrollNext
  PROVE  \/ Network /\ UNCHANGED <<batchStatus, itemVars, job>>
         \/ \E w \in Workers : OnlyBy(w) /\ (Around(w) \/ ProcessStep(w))
<1>0. /\ PayrollTypeOK /\ pc \in [Workers -> Labels] /\ ctx \in [Workers -> Contexts]
      /\ job \in [Workers -> Jobs] /\ \A w \in Workers : pc[w] = "idle"
  BY PayrollTypes DEF PayrollSound, NoRows
<1>1. ASSUME NEW w \in Workers, PayStep(w) PROVE FALSE
  BY <1>1, PayFlow DEF NoRows, PayItemPlaces, PayerPlaces, PayPlaces, Processing,
    Preparing, Running
<1>2. ASSUME NEW w \in Workers, PaymentStep(w) PROVE FALSE
  <2>1. CASE CallStep(w)
    BY <1>0, <2>1
    DEF CallStep, MarkSubmitted, LoadAccount, SignAndRecordHash, SubmitEnvelope,
      ReceiveAnswer, MarkProcessing, RecordFailure, LookUp, ClaimOutcome,
      ClaimOutcomeFails, VerifyNotLanded, Reclaim
  <2> QED
    BY <1>0, <1>2, <2>1
    DEF PaymentStep, End, Crash, Poll, Rebuild, StartPoll, StartRebuild, NoRows
<1>3. ASSUME NEW w \in Workers, StartStep(w) PROVE OnlyBy(w) /\ Begins(w)
  BY <1>0, <1>3, StartFlow
  DEF OnlyBy, Begins, Still, NoItemChange, NoPaymentChange, itemVars, rowVars, NoJob, NoPayer
\* An operation ends.
<1>8. ASSUME NEW w \in Workers, Leave(w), NoPaymentChange
      PROVE  OnlyBy(w) /\ job'[w].at = "none"
  BY <1>0, <1>8, LeaveFlow DEF OnlyBy, Leave, Goto, NoPaymentChange, rowVars
<1>4. ASSUME NEW w \in Workers, AddItem(w) PROVE OnlyBy(w) /\ Adds(w)
  <2> PICK i \in Items : itemStatus[i] = "none" /\ SetItem(i, "pending", None, "none")
    BY <1>4 DEF AddItem
  <2>1. \A k \in Items : k # i => itemStatus'[k] = itemStatus[k]
    BY <1>0, OneItemWritten
  <2>2. itemStatus'[i] = "pending"
    BY <1>0, OneItemWritten
  <2> QED
    BY <1>0, <1>4, <1>8, <2>1, <2>2 DEF AddItem, Adds, NoPaymentChange
<1>5. ASSUME NEW w \in Workers, ApproveBatch(w) PROVE OnlyBy(w) /\ Approves(w)
  BY <1>0, <1>5, <1>8 DEF ApproveBatch, At, SetBatch, Approves, Still, NoPaymentChange, itemVars
<1>6. ASSUME NEW w \in Workers, CrashPayroll(w)
      PROVE  OnlyBy(w) /\ Stops(w) /\ UNCHANGED batchStatus
  BY <1>0, <1>6, <1>8
  DEF CrashPayroll, Stops, Still, NoPaymentChange, NoItemChange, itemVars
<1>7. ASSUME NEW w \in Workers, ProcessStep(w) PROVE OnlyBy(w)
  BY <1>0, <1>7, ProcessKeeps, ProcessFlow DEF OnlyBy
<1> QED
  BY <1>1, <1>2, <1>3, <1>4, <1>5, <1>6, <1>7, WhoSteps DEF Around

-----------------------------------------------------------------------------
(* Every part of the invariant is kept. *)

\* What the parts are proved from.
Situation == PayrollSound /\ ProcessInv

LEMMA NoRowsKept ==
  ASSUME Situation, NEW w \in Workers, OnlyBy(w), Around(w) \/ ProcessStep(w)
  PROVE  NoRows'
<1>1. job'[w].at \in {"none", "add", "approve"} \cup Processing
  <2>1. CASE Around(w)
    BY <2>1 DEF Around, Begins, Adds, Approves, Stops, Processing
  <2>2. CASE ProcessStep(w)
    BY <2>2, ProcessFlow DEF Processing, Situation
  <2> QED
    BY <2>1, <2>2
<1> QED
  BY <1>1 DEF OnlyBy, NoRows, Situation, ProcessInv

LEMMA PaidByRunnerKept ==
  ASSUME Situation, NEW w \in Workers, OnlyBy(w), Around(w) \/ ProcessStep(w)
  PROVE  PaidByRunner'
<1>0. /\ HeldByOne /\ PaidByRunner /\ PayrollSound
      /\ \A v \in Workers : v # w => job'[v] = job[v]
      /\ itemStatus \in [Items -> ItemStatuses]
  BY PayrollTypes DEF Situation, ProcessInv, OnlyBy, PayrollSound
<1> USE DEF Claimer, Preparing, Running
<1>1. ASSUME UNCHANGED envState, Untouched,
             \A i \in Items : itemStatus'[i] \in {itemStatus[i], "pending", "processing"}
      PROVE  Untouched'
  BY <1>1 DEF Untouched
<1>2. CASE Begins(w) \/ (Stops(w) /\ UNCHANGED batchStatus)
  BY <1>0, <1>2 DEF PaidByRunner, Begins, Stops, Still, stellarVars, Untouched
<1>3. CASE Adds(w)
  BY <1>0, <1>1, <1>3 DEF PaidByRunner, Adds, stellarVars
<1>4. CASE Approves(w)
  BY <1>0, <1>4 DEF PaidByRunner, Approves, HeldByOne, Still, stellarVars, Untouched
<1>5. CASE ProcessStep(w) /\ job[w].at \in {"claimBatch"} \cup Preparing
  <2>1. /\ UNCHANGED envState
        /\ \A i \in Items : itemStatus'[i] \in {itemStatus[i], "pending", "processing"}
    BY <1>0, <1>5, PreparingMoves DEF stellarVars
  <2>2. job[w].at = "claimBatch" =>
          \/ UNCHANGED batchStatus /\ job'[w].at = "none"
          \/ batchStatus = "approved"
    BY <1>0, <1>5, ProcessFlow
  <2> QED
    BY <1>0, <1>1, <1>5, <2>1, <2>2 DEF PaidByRunner
<1>6. CASE ProcessStep(w) /\ job[w].at \in Running
  <2>1. batchStatus' \notin {"pending", "approved"}
    BY <1>0, <1>6, Closes DEF HeldByOne
  <2>2. job'[w].at \notin Preparing
    BY <1>0, <1>6, RunningMoves
    DEF Submits, TakesChunk, TakesSingle, Moves, GivesUp, Writes, Stops
  <2>3. ASSUME NEW v \in Workers, v # w PROVE job'[v].at \notin Preparing
    BY <1>0, <1>6, <2>3 DEF HeldByOne
  <2> QED
    BY <2>1, <2>2, <2>3 DEF PaidByRunner
<1>7. ProcessStep(w) => job[w].at \in Processing
  BY <1>0, ProcessFlow
<1> QED
  BY <1>2, <1>3, <1>4, <1>5, <1>6, <1>7 DEF Around, Processing

LEMMA ProcessingIsHeldKept ==
  ASSUME Situation, NEW w \in Workers, OnlyBy(w), Around(w) \/ ProcessStep(w)
  PROVE  ProcessingIsHeld'
<1>0. /\ HeldByOne /\ ProcessingIsHeld /\ PayrollSound
      /\ \A v \in Workers : v # w => job'[v] = job[v]
      /\ itemStatus \in [Items -> ItemStatuses]
      /\ job \in [Workers -> Jobs] /\ job[w].left \subseteq job[w].chunk
  BY PayrollTypes DEF Situation, ProcessInv, OnlyBy, PayrollSound, JobSound
<1> USE DEF Claimer, Preparing, Running
<1>1. CASE Begins(w) \/ (Stops(w) /\ UNCHANGED batchStatus)
  BY <1>0, <1>1 DEF ProcessingIsHeld, Begins, Stops, Still
<1>2. CASE Adds(w)
  BY <1>0, <1>2 DEF ProcessingIsHeld, Adds
<1>3. CASE Approves(w)
  BY <1>0, <1>3 DEF ProcessingIsHeld, HeldByOne, Approves, Still
<1>4. CASE ProcessStep(w) /\ job[w].at = "claimBatch"
  <2>1. CASE job'[w].at = "none"
    BY <1>0, <1>4, <2>1, PreparingMoves, ProcessFlow DEF ProcessingIsHeld
  <2>2. CASE job'[w].at # "none"
    <3>1. /\ UNCHANGED itemStatus /\ SameItems(w) /\ job'[w].at \in {"decrypt", "finish"}
          /\ batchStatus = "approved" /\ batchStatus' = "processing"
      BY <1>0, <1>4, <2>2, PreparingMoves, ProcessFlow
    <3> QED
      BY <1>0, <1>4, <3>1 DEF ProcessingIsHeld, SameItems
  <2> QED
    BY <2>1, <2>2
\* The others hold nothing while w holds the batch.
<1>5. ASSUME ProcessStep(w), Claimer(w),
             batchStatus' # "processing" => \A i \in Items : itemStatus'[i] # "processing",
             job'[w].at \in {"decrypt", "claimItems", "finish"} =>
               \A i \in Items : itemStatus'[i] # "processing",
             job'[w].at \in {"reread"} \cup Running =>
               \A i \in Items : itemStatus'[i] = "processing"
                                  => i \in job'[w].todo \cup job'[w].left,
             job'[w].at \in {"next"} \cup Preparing => job'[w].left = {},
             job'[w].at \in Preparing => job'[w].chunk = {},
             job'[w].at # "claimBatch"
      PROVE  ProcessingIsHeld'
  <2>1. \A v \in Workers : v # w => ~Claimer(v) /\ job'[v] = job[v]
    BY <1>0, <1>5 DEF HeldByOne
  <2> QED
    BY <1>0, <1>5, <2>1 DEF ProcessingIsHeld
<1>6. CASE ProcessStep(w) /\ job[w].at \in Preparing
  <2>1. /\ batchStatus = "processing" /\ job[w].left = {} /\ job[w].chunk = {}
        /\ \/ UNCHANGED batchStatus
           \/ job[w].at \in {"decrypt", "finish"} /\ job'[w].at = "none"
    BY <1>0, <1>6, Closes, ProcessFlow DEF ProcessingIsHeld, HeldByOne
  <2>2. \/ job'[w].at = "none" /\ UNCHANGED itemStatus
        \/ /\ job[w].at = "decrypt" /\ job'[w].at = "claimItems"
           /\ SameItems(w) /\ UNCHANGED itemStatus
        \/ /\ job[w].at = "claimItems" /\ job'[w].at = "reread" /\ SameItems(w)
           /\ \A i \in Items :
                itemStatus'[i] = IF i \in job[w].todo /\ itemStatus[i] \in Payable
                                 THEN "processing" ELSE itemStatus[i]
        \/ /\ job[w].at = "reread" /\ job'[w].at = "next" /\ UNCHANGED itemStatus
           /\ job'[w].todo = {i \in job[w].todo : itemStatus[i] = "processing"}
           /\ job'[w].left = job[w].left /\ job'[w].chunk = job[w].chunk
    BY <1>0, <1>6, PreparingMoves
  <2> QED
    BY <1>0, <1>5, <1>6, <2>1, <2>2 DEF ProcessingIsHeld, SameItems
<1>7. CASE ProcessStep(w) /\ job[w].at \in Running
  <2>1. /\ batchStatus = "processing"
        /\ \/ UNCHANGED batchStatus
           \/ /\ job[w].at = "next" /\ job[w].todo = {}
              /\ UNCHANGED itemStatus
    BY <1>0, <1>7, Closes DEF HeldByOne
  <2>2. \A i \in Items : itemStatus[i] = "processing" => i \in job[w].todo \cup job[w].left
    BY <1>7 DEF ProcessingIsHeld, Situation, ProcessInv
  <2>3. job[w].at = "next" => job[w].left = {}
    BY <1>0 DEF ProcessingIsHeld
  <2>4. batchStatus' # "processing" => \A i \in Items : itemStatus'[i] # "processing"
    BY <2>1, <2>2, <2>3
  <2>5. CASE Submits(w)
    BY <1>5, <1>7, <2>2, <2>4, <2>5 DEF Submits, SameItems
  <2>6. CASE TakesChunk(w)
    BY <1>5, <1>7, <2>2, <2>3, <2>4, <2>6 DEF TakesChunk, Still
  <2>7. CASE TakesSingle(w)
    BY <1>5, <1>7, <2>2, <2>4, <2>7 DEF TakesSingle, Still
  <2>8. CASE Moves(w)
    BY <1>5, <1>7, <2>2, <2>4, <2>8 DEF Moves, SameItems, Still
  <2>9. CASE GivesUp(w)
    BY <1>0, <1>5, <1>7, <2>2, <2>4, <2>9 DEF GivesUp, Still
  <2>10. CASE Writes(w)
    BY <1>5, <1>7, <2>2, <2>4, <2>10 DEF Writes
  <2>11. CASE Stops(w)
    BY <1>5, <1>7, <2>4, <2>11 DEF Stops
  <2> QED
    BY <1>0, <1>7, <2>5, <2>6, <2>7, <2>8, <2>9, <2>10, <2>11, RunningMoves
<1>8. ProcessStep(w) => job[w].at \in Processing
  BY <1>0, ProcessFlow
<1> QED
  BY <1>1, <1>2, <1>3, <1>4, <1>6, <1>7, <1>8 DEF Around, Processing

\* What the network does leaves fewer envelopes that may land, and as many unused.
LEMMA NetworkMoves ==
  ASSUME StellarTypeOK, Network
  PROVE  /\ UNCHANGED <<envPays, rowStatus, pc, ctx>>
         /\ \A e \in Envelopes : /\ Live(e)' => Live(e)
                                 /\ envState[e] = "unused" => envState'[e] = "unused"
  BY DEF Network, NetworkStep, Apply, Drop, Live, StellarTypeOK, NoRowChange, rowVars

\* No envelope is submitted for what one has been submitted for already.
LEMMA OneLiveEnvelopeKept ==
  ASSUME Situation, NEW w \in Workers, OnlyBy(w), Around(w) \/ ProcessStep(w)
  PROVE  OneLiveEnvelope'
<1>0. /\ HeldByOne /\ PaidByRunner /\ ProcessingIsHeld /\ OneLiveEnvelope /\ PayrollSound
      /\ \A v \in Workers : v # w => job'[v] = job[v] /\ ctx'[v] = ctx[v]
      /\ StellarTypeOK /\ job \in [Workers -> Jobs] /\ job[w].left \subseteq job[w].chunk
      /\ Items \subseteq Obligations
  BY PayrollTypes, PayrollAssumption
  DEF Situation, ProcessInv, OnlyBy, PayrollSound, JobSound
<1> DEFINE Shared(v) ==
             job[v].at \in Running =>
               /\ NoneLive(Unsubmitted(v))
               /\ job[v].todo \cap job[v].chunk = {}
               /\ job[v].at = "singleSubmit" => job[v].item \in job[v].left
               /\ job[v].at = "chunkSubmit" => job[v].left = job[v].chunk
               /\ job[v].at = "chunkAwait" =>
                    \A e \in Envelopes :
                      Live(e) /\ envPays[e] \cap job[v].chunk # {} => e = ctx[v].env
           Once == \A o \in Obligations, e, f \in Envelopes :
                     Live(e) /\ Live(f) /\ o \in envPays[e] /\ o \in envPays[f] => e = f
<1>1. OneLiveEnvelope <=> Once /\ \A v \in Workers : Shared(v)
  BY DEF OneLiveEnvelope
<1>2. ASSUME UNCHANGED stellarVars PROVE Once'
  BY <1>0, <1>1, <1>2 DEF Live, stellarVars
<1>3. ASSUME UNCHANGED stellarVars, NEW v \in Workers, v # w PROVE Shared(v)'
  BY <1>0, <1>1, <1>3 DEF Live, NoneLive, Unsubmitted, stellarVars
<1>4. ASSUME job'[w].at \notin Running PROVE Shared(w)'
  BY <1>4
<1>5. CASE Around(w)
  BY <1>1, <1>2, <1>3, <1>4, <1>5
  DEF Around, Begins, Adds, Approves, Stops, Still, Running, OneLiveEnvelope
<1>6. CASE ProcessStep(w) /\ job[w].at \in {"claimBatch"} \cup Preparing
  <2>1. /\ UNCHANGED stellarVars
        /\ \/ job'[w].at \notin Running
           \/ /\ job[w].at = "reread" /\ job'[w].at = "next"
              /\ job'[w].chunk = job[w].chunk
    BY <1>0, <1>6, PreparingMoves DEF Preparing, Running
  <2>2. ASSUME job[w].at = "reread", job'[w].at = "next", job'[w].chunk = job[w].chunk
        PROVE  Shared(w)'
    <3>1. job[w].chunk = {} /\ Untouched
      BY <1>0, <2>2 DEF ProcessingIsHeld, PaidByRunner, Preparing
    <3>2. \A e \in Envelopes : ~Live(e)'
      BY <2>1, <3>1 DEF Untouched, Live, stellarVars
    <3>3. NoneLive(Unsubmitted(w))'
      BY <3>2 DEF NoneLive
    <3> QED
      BY <2>2, <3>1, <3>3
  <2>3. Shared(w)'
    BY <1>4, <2>1, <2>2
  <2> QED
    BY <1>2, <1>3, <2>1, <2>3 DEF OneLiveEnvelope
<1>7. CASE ProcessStep(w) /\ job[w].at \in Running
  <2>0. Once /\ Shared(w)
    BY <1>0, <1>1
  \* The others are no processors that hold the batch.
  <2>1. ASSUME NEW v \in Workers, v # w PROVE Shared(v)'
    <3>1. job'[v].at \notin Running
      BY <1>0, <1>7, <2>1 DEF HeldByOne, Claimer
    <3> QED
      BY <3>1
  <2>2. ASSUME UNCHANGED stellarVars, Shared(w)' PROVE OneLiveEnvelope'
    BY <1>2, <2>1, <2>2 DEF OneLiveEnvelope
  \* What it may still submit for is less, and nothing was submitted.
  <2>3. ASSUME UNCHANGED stellarVars, Unsubmitted(w)' \subseteq Unsubmitted(w)
        PROVE  NoneLive(Unsubmitted(w))'
    BY <1>7, <2>0, <2>3 DEF NoneLive, Live, stellarVars
  <2>4. CASE Submits(w)
    <3> PICK e \in Envelopes, pays \in SUBSET Items :
          /\ \/ job[w].at = "chunkSubmit" /\ job'[w].at = "chunkAwait" /\ pays = job[w].chunk
             \/ job[w].at = "singleSubmit" /\ job'[w].at = "singleAwait" /\ pays = {job[w].item}
          /\ SameItems(w)
          /\ envState[e] = "unused" /\ envState' = [envState EXCEPT ![e] = "inflight"]
          /\ envPays' = [envPays EXCEPT ![e] = pays] /\ ctx'[w].env = e
      BY <2>4 DEF Submits
    \* What is submitted was free of envelopes, and is not submitted again.
    <3>1. /\ pays \subseteq Unsubmitted(w) /\ Unsubmitted(w)' \subseteq Unsubmitted(w)
          /\ Unsubmitted(w)' \cap pays = {}
      BY <1>0, <1>7, <2>0 DEF Unsubmitted, SameItems
    <3>2. \A f \in Envelopes : Live(f) => envPays[f] \cap Unsubmitted(w) = {}
      BY <1>7, <2>0 DEF NoneLive
    <3>3. \A f \in Envelopes :
            /\ f # e => /\ Live(f)' <=> Live(f)
                        /\ envPays'[f] = envPays[f]
            /\ f = e => envPays'[f] = pays
      BY <1>0 DEF Live, StellarTypeOK
    <3>4. \A f \in Envelopes : f # e /\ Live(f)' => envPays'[f] \cap pays = {}
      BY <3>1, <3>2, <3>3
    <3>5. Once'
      BY <2>0, <3>3, <3>4
    <3>6. NoneLive(Unsubmitted(w))'
      BY <3>1, <3>2, <3>3 DEF NoneLive
    <3>7. job'[w].at = "chunkAwait" => job'[w].chunk = pays
      BY DEF SameItems
    <3>8. Shared(w)'
      BY <1>7, <2>0, <3>4, <3>6, <3>7 DEF SameItems
    <3> QED
      BY <2>1, <3>5, <3>8 DEF OneLiveEnvelope
  <2>5. CASE TakesChunk(w)
    <3> PICK c \in SUBSET job[w].todo :
          /\ job[w].at = "next" /\ job'[w].at \in {"chunkSubmit", "single"}
          /\ job'[w].chunk = c /\ job'[w].left = c /\ job'[w].todo = job[w].todo \ c
          /\ UNCHANGED stellarVars
      BY <2>5 DEF TakesChunk, Still
    <3>1. Unsubmitted(w)' \subseteq Unsubmitted(w)
      BY DEF Unsubmitted
    <3> QED
      BY <2>2, <2>3, <3>1
  <2>6. CASE TakesSingle(w)
    <3>1. Unsubmitted(w)' \subseteq Unsubmitted(w)
      BY <2>6 DEF Unsubmitted, TakesSingle
    <3> QED
      BY <1>7, <2>0, <2>2, <2>3, <2>6, <3>1 DEF TakesSingle, Still
  <2>7. CASE Moves(w)
    <3>1. CASE job[w].at = "chunkAwait" /\ job'[w].at = "single"
      <4>1. NoneLive(job[w].todo \cup job[w].left)
        <5>1. Unsubmitted(w) = job[w].todo /\ NoneLive(job[w].todo)
          BY <1>7, <2>0, <3>1 DEF Unsubmitted
        <5>2. ~Live(ctx[w].env)
          BY <2>7, <3>1 DEF Moves
        <5>3. \A e \in Envelopes : Live(e) => envPays[e] \cap job[w].left = {}
          BY <1>0, <1>7, <2>0, <3>1, <5>2
        <5> QED
          BY <5>1, <5>3 DEF NoneLive
      <4>2. Unsubmitted(w)' = job[w].todo \cup job[w].left
        BY <2>7, <3>1 DEF Moves, SameItems, Unsubmitted
      <4> QED
        <5>1. NoneLive(Unsubmitted(w))'
          BY <2>7, <4>1, <4>2 DEF Moves, Still, NoneLive, Live, stellarVars
        <5> QED
          BY <1>7, <2>0, <2>2, <2>7, <3>1, <5>1 DEF Moves, SameItems, Still
    <3>2. CASE ~(job[w].at = "chunkAwait" /\ job'[w].at = "single")
      <4>1. Unsubmitted(w)' \subseteq Unsubmitted(w)
        BY <2>7, <3>2 DEF Unsubmitted, Moves, SameItems
      <4> QED
        BY <1>7, <2>0, <2>2, <2>3, <2>7, <3>2, <4>1 DEF Moves, SameItems, Still
    <3> QED
      BY <3>1, <3>2
  <2>8. CASE GivesUp(w)
    <3>1. Unsubmitted(w)' \subseteq Unsubmitted(w)
      BY <2>8 DEF Unsubmitted, GivesUp
    <3> QED
      BY <1>7, <2>0, <2>2, <2>3, <2>8, <3>1 DEF GivesUp, Still
  <2>9. CASE Writes(w)
    <3>1. Unsubmitted(w)' \subseteq Unsubmitted(w)
      BY <2>9 DEF Unsubmitted, Writes
    <3> QED
      BY <1>7, <2>0, <2>2, <2>3, <2>9, <3>1 DEF Writes
  <2>10. CASE Stops(w)
    BY <1>4, <2>2, <2>10 DEF Stops, Still, Running
  <2> QED
    BY <1>0, <1>7, <2>4, <2>5, <2>6, <2>7, <2>8, <2>9, <2>10, RunningMoves
<1>8. ProcessStep(w) => job[w].at \in Processing
  BY <1>0, ProcessFlow
<1> QED
  BY <1>5, <1>6, <1>7, <1>8 DEF Processing

\* The network acts: what is unused stays so, and no more is live.
LEMMA NetworkKeeps ==
  ASSUME Situation, Network, UNCHANGED <<batchStatus, itemVars, job>>
  PROVE  ProcessInv'
<1>0. /\ UNCHANGED <<envPays, rowStatus, pc, ctx, batchStatus, itemStatus, job>>
      /\ \A e \in Envelopes : /\ Live(e)' => Live(e)
                              /\ envState[e] = "unused" => envState'[e] = "unused"
  BY PayrollTypes, NetworkMoves DEF Situation, PayrollSound, itemVars
<1>1. HeldByOne' /\ NoRows' /\ ProcessingIsHeld'
  BY <1>0 DEF Situation, ProcessInv, HeldByOne, NoRows, ProcessingIsHeld, Claimer
<1>2. PaidByRunner'
  BY <1>0 DEF Situation, ProcessInv, PaidByRunner, Untouched
<1>3. OneLiveEnvelope'
  <2>1. OneLiveEnvelope
    BY DEF Situation, ProcessInv
  <2>2. ASSUME NEW v \in Workers, NoneLive(Unsubmitted(v)) PROVE NoneLive(Unsubmitted(v))'
    BY <1>0, <2>2 DEF NoneLive, Unsubmitted
  <2> QED
    BY <1>0, <2>1, <2>2 DEF OneLiveEnvelope
<1> QED
  BY <1>1, <1>2, <1>3 DEF ProcessInv

LEMMA ProcessInvStep ==
  ASSUME NoPayer, OneApprover, Situation, [PayrollNext]_payrollVars
  PROVE  ProcessInv'
<1>1. CASE UNCHANGED payrollVars
  <2>1. UNCHANGED <<envState, envPays, rowStatus, pc, ctx, batchStatus, itemStatus, job>>
    BY <1>1 DEF payrollVars, payVars, stellarVars, rowVars, itemVars
  <2>2. HeldByOne' /\ NoRows' /\ ProcessingIsHeld'
    BY <2>1 DEF Situation, ProcessInv, HeldByOne, NoRows, ProcessingIsHeld, Claimer
  <2>3. PaidByRunner' /\ OneLiveEnvelope'
    BY <2>1 DEF Situation, ProcessInv, PaidByRunner, Untouched, OneLiveEnvelope, Live,
      NoneLive, Unsubmitted
  <2> QED
    BY <2>2, <2>3 DEF ProcessInv
<1>2. CASE Network /\ UNCHANGED <<batchStatus, itemVars, job>>
  BY <1>2, NetworkKeeps
<1>3. ASSUME NEW w \in Workers, OnlyBy(w), Around(w) \/ ProcessStep(w) PROVE ProcessInv'
  BY <1>3, HeldByOneStep, NoRowsKept, PaidByRunnerKept, ProcessingIsHeldKept,
    OneLiveEnvelopeKept
  DEF Situation, ProcessInv
<1> QED
  BY <1>1, <1>2, <1>3, StepsWithoutPayers DEF Situation, ProcessInv

LEMMA ProcessInvInit == PayrollInit => ProcessInv
<1> SUFFICES ASSUME PayrollInit PROVE ProcessInv
  OBVIOUS
<1>1. /\ \A w \in Workers : job[w] = NoJob /\ pc[w] = "idle"
      /\ \A e \in Envelopes : envState[e] = "unused"
      /\ \A i \in Items : itemStatus[i] \in {"none", "pending"}
      /\ \A r \in Rows : rowStatus[r] = "none"
      /\ batchStatus = "pending"
  BY DEF PayrollInit, Init, StellarInit
<1>2. HeldByOne /\ NoRows /\ ProcessingIsHeld
  BY <1>1 DEF HeldByOne, NoRows, ProcessingIsHeld, Claimer, NoJob, Preparing, Running
<1>3. PaidByRunner /\ OneLiveEnvelope
  BY <1>1 DEF PaidByRunner, Untouched, OneLiveEnvelope, Live, NoJob, Running
<1> QED
  BY <1>2, <1>3 DEF ProcessInv

LEMMA ProcessInvAlways ==
  ASSUME NoPayer, OneApprover
  PROVE  PayrollSpec => []Situation
<1>1. PayrollInit => Situation
  BY ProcessInvInit, PayrollInitSound DEF Situation
<1>2. Situation /\ [PayrollNext]_payrollVars => Situation'
  BY ProcessInvStep, PayrollStepSound DEF Situation
<1> QED
  BY <1>1, <1>2, PTL DEF PayrollSpec

\* processPayrollBatch: when a batch is closed as 'completed' or 'failed', every
\* item it claimed has an outcome, whatever Horizon answered, whichever write
\* failed and wherever a processor died.  Nobody pays an item by itself, and
\* one client approves.
THEOREM ClosedBatchSettled ==
  ASSUME NoPayer, OneApprover
  PROVE  PayrollSpec => []ClosedBatchIsSettled
<1>1. Situation => ClosedBatchIsSettled
  BY DEF Situation, ProcessInv, ProcessingIsHeld, ClosedBatchIsSettled, Closed
<1> QED
  BY ProcessInvAlways, <1>1, PTL

\* processPayrollBatch: no item is paid by two envelopes of the ledger: chunks
\* are disjoint, an unanswered chunk is never tried again, and the items of a
\* rejected one are tried once each.
THEOREM BatchPaysOnce ==
  ASSUME NoPayer, OneApprover
  PROVE  PayrollSpec => []NoDoublePay
<1>1. Situation => NoDoublePay
  BY DEF Situation, ProcessInv, OneLiveEnvelope, NoDoublePay, Landed, Live
<1> QED
  BY ProcessInvAlways, <1>1, PTL

-----------------------------------------------------------------------------
(* Without processors, what is known of an item's payment when it is paid   *)
(* again.  The conditions first.                                            *)

\* One client pays items; others may add them, approve the batch and poll.
SinglePayer == \A v, w \in Workers : "pay" \in Calls[v] /\ "pay" \in Calls[w] => v = w

\* Every unanswered submission is known for one: no answer is a bare 5xx, whose
\* error code payPayrollItem does not look at.
TimeoutsAreNamed == "gateway" \notin Outcomes

\* What payPayrollItem relies on when it pays an item that failed: nothing else
\* pays the item or its row, no write is refused, and an attempt without an
\* answer is known for one.  Two payers do no harm while every answer is definite.
PayersApart ==
  /\ NoProcessor /\ NoRebuilds /\ MaxFaults = 0 /\ TimeoutsAreNamed
  /\ SinglePayer \/ DefiniteAnswers

\* Which envelopes may move the money of item i, or have: none, or none but e.
NoneMoves(i) == \A e \in Envelopes : MayMove(e) => i \notin envPays[e]
OnlyMoves(i, e) == \A f \in Envelopes : MayMove(f) /\ i \in envPays[f] => f = e

NoRowOf(i) == \A r \in Rows : rowFor[r] # i
AllFailed(i) == \A r \in Rows : rowFor[r] = i => rowStatus[r] = "failed"
OneRowOf(i) == \A r, s \in Rows : rowFor[r] = i /\ rowFor[s] = i => r = s

\* The item has a failed row whose submission timed out, with the hash of the
\* only envelope that may have paid it: payPayrollItem asks Horizon about it.
AskedFirst(i) ==
  \E r \in Rows : /\ rowFor[r] = i /\ rowStatus[r] = "failed"
                  /\ rowError[r] = "SUBMISSION_TIMEOUT" /\ rowHash[r] # None
                  /\ OnlyMoves(i, rowHash[r])

\* An item that may be claimed, now or once it is added.
Open(i) == itemStatus[i] \in {"none", "pending", "failed"}

\* An item may be paid by one envelope at most.  While it is open, none may pay
\* it, or the one that may will be asked about first.
ItemSafe(i) ==
  /\ \A e, f \in Envelopes :
       MayMove(e) /\ MayMove(f) /\ i \in envPays[e] /\ i \in envPays[f] => e = f
  /\ Open(i) =>
       NoneMoves(i) \/ (~DefiniteAnswers /\ itemStatus[i] = "failed" /\ AskedFirst(i))
  /\ ~DefiniteAnswers =>
       /\ OneRowOf(i)
       /\ Open(i) => AllFailed(i)
       /\ Open(i) /\ itemStatus[i] # "failed" => NoRowOf(i)

\* What the call of buildAndSubmitPayment inside an operation knows of its item.
CallSafe(w) ==
  LET i == job[w].item
      c == ctx[w]
  IN
  /\ c.mode = "payment"
  /\ pc[w] \in {"created", "load", "sign", "reclaim"} => NoneMoves(i)
  /\ pc[w] \in {"submit", "await", "record"} \cup Confirming => OnlyMoves(i, c.env)
  /\ pc[w] \in {"submit", "await"} => rowHash[c.row] = c.env
  /\ pc[w] = "fail" =>
       \/ NoneMoves(i)
       \/ /\ ~DefiniteAnswers /\ c.err = "SUBMISSION_TIMEOUT"
          /\ rowHash[c.row] # None /\ OnlyMoves(i, rowHash[c.row])
  /\ pc[w] = "threw" => NoneMoves(i) \/ (~DefiniteAnswers /\ AskedFirst(i))
  /\ ~DefiniteAnswers /\ pc[w] \in {"reclaim", "threw"} => AllFailed(i)

\* What the only payer knows of its item before it claims it.
ClaimSafe(w) ==
  LET j == job[w]
      i == j.item
  IN
  /\ j.at = "rowAttempt" /\ Open(i) /\ ctx[w].env # None => OnlyMoves(i, ctx[w].env)
  /\ j.at = "claim" /\ Open(i) => NoneMoves(i)
  /\ /\ j.at \in {"itemAttempt", "findUnsettled", "rowAttempt", "claim"}
     /\ Open(i) /\ j.reuse = None
     => NoRowOf(i)
  /\ j.at = "pay" /\ j.reuse = None => NoRowOf(i)
  /\ j.at \in {"pay", "persist"} => AllFailed(i)

\* Outside an operation a worker only confirms rows.
PayerSafe(w) ==
  LET j == job[w] IN
  /\ j.at \in PayItemPlaces => "pay" \in Calls[w]
  /\ j.at = "none" => pc[w] \in {"idle", "threw"} \cup Confirming
  /\ j.at # "persistAgain"
  /\ j.at \in {"pay", "persist"} => NoneMoves(j.item)
  /\ j.at = "call" => CallSafe(w)
  /\ j.at \in Asking =>
       /\ ctx[w].mode = "reconcile"
       /\ pc[w] = "done" /\ ctx[w].env # None => OnLedger(ctx[w].env)
  /\ ~DefiniteAnswers => ClaimSafe(w)

\* A row that exists is for an item.
RowsOwed ==
  \A r \in Rows : /\ rowFor[r] \in Items \cup {None}
                  /\ rowStatus[r] = "none" => rowFor[r] = None

\* Every envelope that may move money stands on a row, no item is paid twice,
\* and no payer has forgotten what may pay its item.
PayersInv ==
  /\ Recorded /\ RowsOwed
  /\ \A i \in Items : ItemSafe(i)
  /\ \A w \in Workers : PayerSafe(w)

\* What the parts are proved from.
PayersSound == PayrollSound /\ ClaimInv /\ PayersInv

\* A step that leaves item i alone: no envelope begins to pay it, its rows keep
\* their hashes, and those that failed stay as they were.
Calm(i) ==
  /\ \A e \in Envelopes : MayMove(e)' /\ i \in envPays'[e] => MayMove(e) /\ i \in envPays[e]
  /\ \A r \in Rows : rowFor'[r] = i <=> rowFor[r] = i
  /\ \A r \in Rows : rowFor[r] = i =>
       /\ rowHash'[r] = rowHash[r]
       /\ rowStatus[r] = "failed" => rowStatus'[r] = "failed" /\ rowError'[r] = rowError[r]

LEMMA CalmKeeps ==
  ASSUME NEW i, Calm(i)
  PROVE  /\ NoneMoves(i) => NoneMoves(i)'
         /\ \A e : OnlyMoves(i, e) => \A f \in Envelopes : MayMove(f)' /\ i \in envPays'[f] => f = e
         /\ NoRowOf(i) => NoRowOf(i)'
         /\ AllFailed(i) => AllFailed(i)'
         /\ OneRowOf(i) => OneRowOf(i)'
         /\ AskedFirst(i) => AskedFirst(i)'
<1>1. NoneMoves(i) => NoneMoves(i)'
  BY DEF Calm, NoneMoves
<1>2. \A e : OnlyMoves(i, e) => \A f \in Envelopes : MayMove(f)' /\ i \in envPays'[f] => f = e
  BY DEF Calm, OnlyMoves
<1>3. (NoRowOf(i) => NoRowOf(i)') /\ (OneRowOf(i) => OneRowOf(i)')
  BY DEF Calm, NoRowOf, OneRowOf
<1>4. AllFailed(i) => AllFailed(i)'
  BY DEF Calm, AllFailed
<1>5. ASSUME AskedFirst(i) PROVE AskedFirst(i)'
  <2> PICK r \in Rows : /\ rowFor[r] = i /\ rowStatus[r] = "failed"
                        /\ rowError[r] = "SUBMISSION_TIMEOUT" /\ rowHash[r] # None
                        /\ OnlyMoves(i, rowHash[r])
    BY <1>5 DEF AskedFirst
  <2>1. /\ rowFor'[r] = i /\ rowStatus'[r] = "failed"
        /\ rowError'[r] = "SUBMISSION_TIMEOUT" /\ rowHash'[r] = rowHash[r]
    BY DEF Calm
  <2>2. \A f \in Envelopes : MayMove(f)' /\ i \in envPays'[f] => f = rowHash'[r]
    BY <1>2, <2>1
  <2> QED
    BY <2>1, <2>2 DEF AskedFirst, OnlyMoves
<1> QED
  BY <1>1, <1>2, <1>3, <1>4, <1>5

\* An item that a step leaves alone is as safe as before, unless it is failed
\* by the operation that pays it.
LEMMA CalmItem ==
  ASSUME NEW i \in Items, Calm(i), ItemSafe(i),
         \/ itemStatus'[i] = itemStatus[i]
         \/ itemStatus[i] = "none" /\ itemStatus'[i] = "pending"
         \/ itemStatus'[i] \in {"processing", "completed"}
  PROVE  ItemSafe(i)'
<1>1. \A e, f \in Envelopes :
        MayMove(e)' /\ MayMove(f)' /\ i \in envPays'[e] /\ i \in envPays'[f] => e = f
  BY DEF Calm, ItemSafe
<1>2. Open(i)' => /\ Open(i)
                  /\ itemStatus[i] # "failed" <=> itemStatus'[i] # "failed"
  BY DEF Open
<1>3. Open(i)' =>
        NoneMoves(i)' \/ (~DefiniteAnswers /\ itemStatus'[i] = "failed" /\ AskedFirst(i)')
  BY <1>2, CalmKeeps DEF ItemSafe
<1>4. ~DefiniteAnswers =>
        /\ OneRowOf(i)'
        /\ Open(i)' => AllFailed(i)'
        /\ Open(i)' /\ itemStatus'[i] # "failed" => NoRowOf(i)'
  BY <1>2, CalmKeeps DEF ItemSafe
<1> QED
  BY <1>1, <1>3, <1>4 DEF ItemSafe

\* A worker that does not step knows of its item what it knew, while its item is
\* left alone.
LEMMA OtherPayer ==
  ASSUME PayersSound, LedgerGrows, NEW v \in Workers,
         job'[v] = job[v], pc'[v] = pc[v], ctx'[v] = ctx[v],
         job[v].at \in PayPlaces => Calm(job[v].item),
         ~DefiniteAnswers /\ job[v].at \in PayItemPlaces =>
           Calm(job[v].item) /\ (Open(job[v].item)' => Open(job[v].item))
  PROVE  PayerSafe(v)'
<1>0. /\ PayerSafe(v) /\ JobSound(v) /\ CallSound(v)
      /\ ctx[v].env \in Envelopes \cup {None}
  BY PayrollTypes DEF PayersSound, PayersInv, PayrollSound, PaymentInv, Contexts
<1> DEFINE i == job[v].item
           c == ctx[v]
<1>1. ASSUME job[v].at = "call" PROVE CallSafe(v)'
  <2>1. Calm(i) /\ CallSafe(v)
    BY <1>0, <1>1 DEF PayerSafe, PayPlaces
  <2>2. pc[v] \in OnItsRow => c.row \in Rows /\ rowFor[c.row] = i
    BY <1>0, <1>1 DEF JobSound, CallSound, OnItsRow
  <2>3. pc[v] \in OnItsRow => rowHash'[c.row] = rowHash[c.row]
    BY <2>1, <2>2 DEF Calm
  <2>4. /\ NoneMoves(i) => NoneMoves(i)'
        /\ \A e : OnlyMoves(i, e) => OnlyMoves(i, e)'
        /\ AllFailed(i) => AllFailed(i)'
        /\ AskedFirst(i) => AskedFirst(i)'
    BY <2>1, CalmKeeps DEF OnlyMoves
  <2> QED
    BY <2>1, <2>3, <2>4 DEF CallSafe, OnItsRow, OnlyMoves
<1>2. ASSUME ~DefiniteAnswers PROVE ClaimSafe(v)'
  <2>1. CASE job[v].at \in PayItemPlaces
    <3>1. Calm(i) /\ (Open(i)' => Open(i)) /\ ClaimSafe(v)
      BY <1>0, <1>2, <2>1 DEF PayerSafe
    <3>2. /\ NoneMoves(i) => NoneMoves(i)'
          /\ OnlyMoves(i, c.env) => \A f \in Envelopes : MayMove(f)' /\ i \in envPays'[f] => f = c.env
          /\ AllFailed(i) => AllFailed(i)'
          /\ NoRowOf(i) => NoRowOf(i)'
      BY <3>1, CalmKeeps
    <3> QED
      BY <3>1, <3>2 DEF ClaimSafe, OnlyMoves
  <2>2. CASE job[v].at \notin PayItemPlaces
    BY <2>2 DEF ClaimSafe, PayItemPlaces, PayerPlaces, PayPlaces
  <2> QED
    BY <2>1, <2>2
<1>3. job[v].at \in {"pay", "persist"} => NoneMoves(i)'
  BY <1>0, CalmKeeps DEF PayerSafe, PayPlaces
<1>4. c.env # None /\ OnLedger(c.env) => OnLedger(c.env)'
  BY <1>0 DEF LedgerGrows, OnLedger
<1> QED
  BY <1>0, <1>1, <1>2, <1>3, <1>4 DEF PayerSafe

\* One worker steps: the parts that it may disturb are its own knowledge, the
\* item it pays, and the hashes on rows.
LEMMA OnePayerActs ==
  ASSUME PayersApart, PayersSound, LedgerGrows, NEW w \in Workers,
         \A v \in Workers : v # w => job'[v] = job[v] /\ pc'[v] = pc[v] /\ ctx'[v] = ctx[v],
         \A i \in Items : Calm(i) \/ (i = job[w].item /\ job[w].at \in {"pay", "call"}),
         \A i \in Items :
           \/ itemStatus'[i] = itemStatus[i]
           \/ itemStatus[i] = "none" /\ itemStatus'[i] = "pending"
           \/ itemStatus'[i] \in {"processing", "completed"}
           \/ i = job[w].item /\ job[w].at \in PayPlaces,
         \A i \in Items : i = job[w].item /\ job[w].at \in PayPlaces => ItemSafe(i)',
         PayerSafe(w)', Recorded',
         RowsOwed'
  PROVE  PayersInv'
<1>0. /\ \A i \in Items : ItemSafe(i)
      /\ \A v \in Workers : PayerSafe(v)
      /\ \A v \in Workers : job[v].at \in PayItemPlaces => job[v].item \in Items
      /\ \A v \in Workers :
           job[v].at \in PayPlaces /\ job[w].at \in PayPlaces /\ job[v].item = job[w].item
             => v = w
  BY OneItemHere
  DEF PayersSound, PayersInv, ClaimInv, PayItemPlaces, PayerPlaces, PayPlaces, OneItem,
    PayrollSound
<1>1. ASSUME NEW i \in Items PROVE ItemSafe(i)'
  <2>1. CASE i = job[w].item /\ job[w].at \in PayPlaces
    BY <2>1
  <2>2. CASE ~(i = job[w].item /\ job[w].at \in PayPlaces)
    <3>1. Calm(i)
      BY <2>2 DEF PayPlaces
    <3> QED
      BY <1>0, <2>2, <3>1, CalmItem
  <2> QED
    BY <2>1, <2>2
<1>2. ASSUME NEW v \in Workers, v # w PROVE PayerSafe(v)'
  <2>1. ASSUME job[v].at \in PayPlaces PROVE Calm(job[v].item)
    <3>1. job[v].item \in Items
      BY <1>0, <2>1 DEF PayItemPlaces, PayerPlaces, PayPlaces
    <3> QED
      BY <1>0, <1>2, <2>1, <3>1 DEF PayPlaces
  <2>2. ASSUME ~DefiniteAnswers, job[v].at \in PayItemPlaces
        PROVE  Calm(job[v].item) /\ (Open(job[v].item)' => Open(job[v].item))
    <3>1. job[w].at \notin PayPlaces
      BY <1>0, <1>2, <2>2
      DEF PayersApart, SinglePayer, PayerSafe, PayItemPlaces, PayerPlaces, PayPlaces
    <3>2. job[v].item \in Items
      BY <1>0, <2>2
    <3> QED
      BY <1>2, <3>1, <3>2 DEF PayPlaces, Open
  <2> QED
    BY <1>2, <2>1, <2>2, OtherPayer
<1> QED
  BY <1>1, <1>2 DEF PayersInv

-----------------------------------------------------------------------------
(* Without processors, what a payment call does to the items.               *)

\* A payment call pays the item of the operation around it; outside an
\* operation that pays, a call only confirms.
LEMMA CallHere ==
  ASSUME PayersSound, NEW w \in Workers, CallStep(w)
  PROVE  /\ job[w].at \in {"none", "call"} \cup Asking
         /\ pc[w] \in OnItsRow =>
              /\ job[w].at = "call" /\ ctx[w].row \in Rows
              /\ rowFor[ctx[w].row] = job[w].item /\ job[w].item \in Items
         /\ pc[w] \in OnItsRow \cup {"lookup", "claim"}
<1>0. /\ JobSound(w) /\ PayerSafe(w) /\ CallSound(w)
  BY DEF PayersSound, PayersInv, PayrollSound, PaymentInv
<1>1. pc[w] \in OnItsRow \cup {"lookup", "claim", "verify"}
  BY DEF CallStep, MarkSubmitted, LoadAccount, SignAndRecordHash, SubmitEnvelope,
     ReceiveAnswer, MarkProcessing, RecordFailure, LookUp, ClaimOutcome,
     ClaimOutcomeFails, VerifyNotLanded, Reclaim, OnItsRow
<1>2. job[w].at \in {"none", "call"} \cup Asking
  BY <1>0, <1>1 DEF JobSound, OnItsRow
<1>3. pc[w] # "verify" /\ (pc[w] \in OnItsRow => job[w].at = "call")
  BY <1>0, <1>2 DEF JobSound, PayerSafe, OnItsRow, Confirming, Asking
<1> QED
  BY <1>0, <1>1, <1>2, <1>3 DEF JobSound, CallSound, OnItsRow, OneItem

\* No write is refused.
LEMMA NoRefusal ==
  ASSUME PayersApart, PayrollTypeOK
  PROVE  ~WriteFails
  BY PayrollTypes DEF PayersApart, WriteFails

\* The rows of an item keep their hashes while another row is written, or while
\* one that has not ended is given its outcome.
LEMMA CalmWrite ==
  ASSUME PayrollTypeOK, UNCHANGED stellarVars, NEW i, NEW r, NEW status, NEW error, NEW hash,
         SetRow(r, status, error, hash),
         \/ r \in Rows /\ rowFor[r] # i
         \/ rowStatus[r] # "failed" /\ hash = rowHash[r]
  PROVE  Calm(i)
<1>0. /\ rowStatus \in [Rows -> Statuses] /\ rowError \in [Rows -> ErrorCodes]
      /\ rowHash \in [Rows -> Envelopes \cup {None}]
  BY PayrollTypes DEF RowTypeOK
<1> QED
  BY <1>0 DEF Calm, SetRow, MayMove, stellarVars

LEMMA CalmStill ==
  ASSUME UNCHANGED <<stellarVars, rowVars>>, NEW i
  PROVE  Calm(i)
  BY DEF Calm, MayMove, stellarVars, rowVars

\* Submitting an envelope begins no payment of another item.
LEMMA CalmSubmit ==
  ASSUME PayrollTypeOK, UNCHANGED rowVars, NEW i, NEW e, Submit(e), i \notin envPays[e]
  PROVE  Calm(i)
<1>0. envState \in [Envelopes -> EnvStates]
  BY PayrollTypes DEF StellarTypeOK
<1> QED
  BY <1>0 DEF Calm, Submit, MayMove, rowVars

\* A payment call leaves every item alone but the one it pays.
LEMMA CallCalm ==
  ASSUME PayersApart, PayersSound, NEW w \in Workers, CallStep(w), NEW i,
         job[w].at = "call" => i # job[w].item
  PROVE  Calm(i)
<1> DEFINE r == ctx[w].row
           e == ctx[w].env
<1>0. /\ PayrollTypeOK /\ ~WriteFails /\ CallSound(w)
  BY NoRefusal DEF PayersSound, PayrollSound, PaymentInv
<1>1. pc[w] \in OnItsRow => r \in Rows /\ rowFor[r] # i
  BY CallHere
<1>2. pc[w] \in {"submit", "await"} => i \notin envPays[e]
  BY <1>0, <1>1 DEF CallSound, OnItsRow
<1> USE DEF NoRowChange
<1>3. CASE MarkSubmitted(w) \/ Reclaim(w) \/ RecordFailure(w) \/ MarkProcessing(w)
  BY <1>0, <1>1, <1>3, CalmWrite, CalmStill
  DEF MarkSubmitted, Reclaim, RecordFailure, MarkProcessing, OnItsRow
<1>4. CASE LoadAccount(w) \/ LookUp(w) \/ ClaimOutcomeFails(w) \/ VerifyNotLanded(w)
  BY <1>4, CalmStill DEF LoadAccount, LookUp, ClaimOutcomeFails, VerifyNotLanded
<1>5. CASE SignAndRecordHash(w)
  <2>1. CASE UNCHANGED <<stellarVars, rowVars>>
    BY <2>1, CalmStill
  <2>2. CASE \E f \in Envelopes :
               /\ Sign(f, ctx[w].seq, {rowFor[r]})
               /\ SetRow(r, rowStatus[r], rowError[r], f)
    <3> PICK f \in Envelopes : /\ Sign(f, ctx[w].seq, {rowFor[r]})
                               /\ SetRow(r, rowStatus[r], rowError[r], f)
      BY <2>2
    <3>1. /\ envState \in [Envelopes -> EnvStates] /\ rowHash \in [Rows -> Envelopes \cup {None}]
          /\ envPays \in [Envelopes -> SUBSET Obligations] /\ r \in Rows /\ rowFor[r] # i
          /\ rowStatus \in [Rows -> Statuses] /\ rowError \in [Rows -> ErrorCodes]
      BY <1>0, <1>1, <1>5, PayrollTypes DEF RowTypeOK, StellarTypeOK, SignAndRecordHash, OnItsRow
    <3>2. \A g \in Envelopes : /\ MayMove(g)' => MayMove(g) \/ g = f
                               /\ envPays'[g] = IF g = f THEN {rowFor[r]} ELSE envPays[g]
      BY <3>1 DEF Sign, MayMove
    <3>3. \A s \in Rows : /\ rowFor'[s] = rowFor[s]
                          /\ s # r => /\ rowHash'[s] = rowHash[s] /\ rowStatus'[s] = rowStatus[s]
                                      /\ rowError'[s] = rowError[s]
      BY <3>1 DEF SetRow
    <3> QED
      BY <3>1, <3>2, <3>3 DEF Calm
  <2> QED
    BY <1>0, <1>5, <2>1, <2>2 DEF SignAndRecordHash
<1>6. CASE SubmitEnvelope(w) \/ ReceiveAnswer(w)
  BY <1>0, <1>2, <1>6, CalmSubmit, CalmStill DEF SubmitEnvelope, ReceiveAnswer
<1>7. CASE ClaimOutcome(w)
  BY <1>0, <1>7, CalmWrite, CalmStill DEF ClaimOutcome, Terminal
<1> QED
  BY <1>3, <1>4, <1>5, <1>6, <1>7 DEF CallStep

\* While the ledger stands still, so does what may pay an item.
LEMMA MovesStill ==
  ASSUME UNCHANGED stellarVars, NEW i
  PROVE  /\ NoneMoves(i) => NoneMoves(i)'
         /\ \A e : OnlyMoves(i, e) =>
              \A f \in Envelopes : MayMove(f)' /\ i \in envPays'[f] => f = e
  BY DEF NoneMoves, OnlyMoves, MayMove, stellarVars

\* A call that stops before it signs, or after an answer, knows what may pay its
\* item.
LEMMA CallPays ==
  ASSUME PayersApart, PayersSound, NEW w \in Workers, CallStep(w), job[w].at = "call",
         UNCHANGED job
  PROVE  CallSafe(w)'
<1> DEFINE r == ctx[w].row
           e == ctx[w].env
<1> PICK i : i = job[w].item
  OBVIOUS
<1>0. /\ PayrollTypeOK /\ ~WriteFails /\ CallSound(w) /\ CallSafe(w) /\ JobSound(w)
      /\ pc \in [Workers -> Labels] /\ ctx \in [Workers -> Contexts]
      /\ job'[w].item = i /\ RowsSound
  BY NoRefusal, PayrollTypes
  DEF PayersSound, PayersInv, PayerSafe, PayrollSound, PaymentInv
<1>1. /\ envState \in [Envelopes -> EnvStates] /\ rowHash \in [Rows -> Envelopes \cup {None}]
      /\ envPays \in [Envelopes -> SUBSET Obligations]
      /\ rowStatus \in [Rows -> Statuses] /\ rowError \in [Rows -> ErrorCodes]
  BY <1>0, PayrollTypes DEF RowTypeOK, StellarTypeOK
<1>2. /\ pc[w] \in OnItsRow => r \in Rows /\ rowFor[r] = i /\ i \in Items
      /\ pc[w] \in OnItsRow \cup {"lookup", "claim"}
      /\ pc[w] \in {"lookup", "claim"} => e \in Envelopes /\ envState[e] = "success"
      /\ ~DefiniteAnswers /\ pc[w] \in OnItsRow => OneRowOf(i)
  BY <1>0, CallHere DEF JobSound, CallSound, Confirming, PayersSound, PayersInv, ItemSafe
<1> USE DEF NoRowChange, Goto
\* The steps that leave the ledger as it is, and go where nothing more is known.
<1>3. ASSUME UNCHANGED stellarVars, ctx'[w] = ctx[w], pc'[w] \in {"load", "sign"},
             NoneMoves(i)
      PROVE  CallSafe(w)'
  BY <1>0, <1>3, MovesStill DEF CallSafe, Confirming
<1>4. CASE MarkSubmitted(w)
  BY <1>0, <1>3, <1>4 DEF MarkSubmitted, CallSafe
<1>5. CASE Reclaim(w)
  <2>1. CASE rowStatus[r] = "failed"
    BY <1>0, <1>3, <1>5, <2>1 DEF Reclaim, CallSafe
  <2>2. CASE rowStatus[r] # "failed"
    <3>1. /\ UNCHANGED <<stellarVars, rowVars>> /\ ctx' = ctx /\ pc'[w] = "threw"
          /\ NoneMoves(i) /\ (~DefiniteAnswers => AllFailed(i))
      BY <1>0, <1>5, <2>2 DEF Reclaim, CallSafe
    <3>2. Calm(i)
      BY <3>1, CalmStill
    <3> QED
      BY <1>0, <3>1, <3>2, CalmKeeps DEF CallSafe, Confirming
  <2> QED
    BY <2>1, <2>2
\* A call that throws without an envelope.
<1>6. ASSUME UNCHANGED <<stellarVars, rowVars>>, Throw(w, "PAYMENT_FAILED"), NoneMoves(i)
      PROVE  CallSafe(w)'
  <2>1. pc'[w] = "fail" /\ ctx'[w].mode = ctx[w].mode
    BY <1>0, <1>6 DEF Throw, Contexts
  <2> QED
    BY <1>0, <1>6, <2>1, MovesStill DEF CallSafe, Confirming
<1>7. CASE LoadAccount(w)
  <2>1. NoneMoves(i)
    BY <1>0, <1>7 DEF LoadAccount, CallSafe
  <2>2. CASE Goto(w, "sign") /\ ctx' = [ctx EXCEPT ![w].seq = accountSeq]
    <3>1. pc'[w] = "sign" /\ ctx'[w].mode = ctx[w].mode
      BY <1>0, <2>2 DEF Contexts
    <3> QED
      BY <1>0, <1>7, <2>1, <3>1, MovesStill DEF CallSafe, Confirming, LoadAccount
  <2> QED
    BY <1>6, <1>7, <2>1, <2>2 DEF LoadAccount
<1>8. CASE SignAndRecordHash(w)
  <2>1. NoneMoves(i)
    BY <1>0, <1>8 DEF SignAndRecordHash, CallSafe
  <2>2. CASE Throw(w, "PAYMENT_FAILED")
    BY <1>0, <1>6, <1>8, <2>1, <2>2 DEF SignAndRecordHash, Throw
  <2>3. CASE pc'[w] # "fail"
    <3> PICK f \in Envelopes :
          /\ Sign(f, ctx[w].seq, {rowFor[r]})
          /\ SetRow(r, rowStatus[r], rowError[r], f)
          /\ pc' = [pc EXCEPT ![w] = "submit"]
          /\ ctx' = [ctx EXCEPT ![w].env = f]
      BY <1>0, <1>8, <2>3 DEF SignAndRecordHash, Throw
    <3>1. /\ pc'[w] = "submit" /\ ctx'[w].mode = ctx[w].mode
          /\ ctx'[w].env = f /\ ctx'[w].row = r
      BY <1>0 DEF Contexts
    <3>2. r \in Rows /\ rowHash'[r] = f
      BY <1>1, <1>2, <1>8 DEF SetRow, SignAndRecordHash, OnItsRow
    <3>3. \A g \in Envelopes : g # f => envState'[g] = envState[g] /\ envPays'[g] = envPays[g]
      BY <1>1 DEF Sign
    <3>4. \A g \in Envelopes : MayMove(g)' /\ i \in envPays'[g] => g = f
      BY <2>1, <3>3 DEF NoneMoves, MayMove
    <3> QED
      BY <1>0, <3>1, <3>2, <3>4 DEF CallSafe, OnlyMoves, Confirming
  <2> QED
    BY <1>0, <1>8, <2>2, <2>3 DEF SignAndRecordHash, Throw
\* The envelope of the call is sent, or sent again.
<1>9. ASSUME pc[w] \in {"submit", "await"}, Submit(e), UNCHANGED rowVars, pc'[w] = "await",
             ctx'[w].mode = ctx[w].mode, ctx'[w].env = e, ctx'[w].row = r
      PROVE  CallSafe(w)'
  <2>1. OnlyMoves(i, e) /\ rowHash[r] = e /\ e \in Envelopes
    BY <1>0, <1>9 DEF CallSafe, CallSound
  <2>2. \A g \in Envelopes : g # e => envState'[g] = envState[g] /\ envPays'[g] = envPays[g]
    BY <1>1, <1>9 DEF Submit
  <2>3. \A g \in Envelopes : MayMove(g)' /\ i \in envPays'[g] => g = e
    BY <2>1, <2>2 DEF OnlyMoves, MayMove
  <2> QED
    BY <1>0, <1>9, <2>1, <2>3 DEF CallSafe, OnlyMoves, Confirming, rowVars
<1>10. CASE SubmitEnvelope(w)
  <2>1. pc'[w] = "await" /\ ctx'[w].mode = ctx[w].mode /\ ctx'[w].env = e /\ ctx'[w].row = r
    BY <1>0, <1>10 DEF SubmitEnvelope, Contexts
  <2> QED
    BY <1>9, <1>10, <2>1 DEF SubmitEnvelope
<1>11. CASE ReceiveAnswer(w)
  <2>0. /\ pc[w] = "await" /\ OnlyMoves(i, e) /\ rowHash[r] = e /\ e \in Envelopes
        /\ UNCHANGED rowVars
    BY <1>0, <1>11 DEF ReceiveAnswer, CallSafe, CallSound
  <2>1. CASE MayAnswer(e, "success") /\ pc' = [pc EXCEPT ![w] = "record"]
                /\ UNCHANGED <<stellarVars, ctx>>
    BY <1>0, <2>0, <2>1, MovesStill DEF CallSafe, OnlyMoves, Confirming
  <2>2. CASE MayAnswer(e, "rejected") /\ Throw(w, "PAYMENT_FAILED") /\ UNCHANGED stellarVars
    <3>1. NoneMoves(i)
      BY <2>0, <2>2 DEF MayAnswer, OnlyMoves, NoneMoves, MayMove
    <3> QED
      BY <1>6, <2>0, <2>2, <3>1
  <2>3. ASSUME Submit(e), ctx' = [ctx EXCEPT ![w].attempt = @ + 1], UNCHANGED pc
        PROVE  CallSafe(w)'
    <3>1. ctx'[w].mode = ctx[w].mode /\ ctx'[w].env = e /\ ctx'[w].row = r
      BY <1>0, <2>3 DEF Contexts
    <3> QED
      BY <1>9, <2>0, <2>3, <3>1
  <2>4. ASSUME MayAnswer(e, "timeout"), Throw(w, "SUBMISSION_TIMEOUT"), UNCHANGED stellarVars
        PROVE  CallSafe(w)'
    <3>1. ~DefiniteAnswers
      BY <2>4 DEF MayAnswer, DefiniteAnswers
    <3>2. /\ pc'[w] = "fail" /\ ctx'[w].mode = ctx[w].mode /\ ctx'[w].row = r
          /\ ctx'[w].err = "SUBMISSION_TIMEOUT"
      BY <1>0, <2>4 DEF Throw, Contexts
    <3>3. rowHash'[r] = e /\ e # None
      BY <2>0, PaymentAssumption DEF rowVars
    <3>4. \A f \in Envelopes : MayMove(f)' /\ i \in envPays'[f] => f = rowHash'[r]
      BY <2>0, <2>4, <3>3, MovesStill
    <3> QED
      BY <1>0, <3>1, <3>2, <3>3, <3>4 DEF CallSafe, OnlyMoves, Confirming
  <2>5. ~MayAnswer(e, "gateway")
    BY DEF MayAnswer, PayersApart, TimeoutsAreNamed
  <2> QED
    BY <1>11, <2>1, <2>2, <2>3, <2>4, <2>5 DEF ReceiveAnswer, IndeterminateCode
\* What was paid is being confirmed.
<1>14. ASSUME UNCHANGED stellarVars, pc'[w] \in Confirming, pc[w] \in {"record"} \cup Confirming,
              ctx'[w].mode = ctx[w].mode, ctx'[w].env = e
       PROVE  CallSafe(w)'
  <2>1. \A f \in Envelopes : MayMove(f)' /\ i \in envPays'[f] => f = e
    BY <1>0, <1>14, MovesStill DEF CallSafe
  <2> QED
    BY <1>0, <1>14, <2>1 DEF CallSafe, OnlyMoves, Confirming
<1>12. CASE MarkProcessing(w)
  BY <1>0, <1>12, <1>14 DEF MarkProcessing, Confirming
<1>13. CASE RecordFailure(w)
  <2>1. /\ UNCHANGED <<stellarVars, ctx>> /\ pc'[w] = "threw"
        /\ SetRow(r, "failed", ctx[w].err, rowHash[r]) /\ r \in Rows /\ rowFor[r] = i
    BY <1>0, <1>2, <1>13 DEF RecordFailure, OnItsRow
  <2>2. /\ rowStatus'[r] = "failed" /\ rowError'[r] = ctx[w].err /\ rowHash'[r] = rowHash[r]
        /\ rowFor' = rowFor
    BY <1>1, <2>1 DEF SetRow
  <2>3. ~DefiniteAnswers => AllFailed(i)'
    BY <1>2, <1>13, <2>1, <2>2 DEF RecordFailure, OnItsRow, OneRowOf, AllFailed
  <2>4. CASE NoneMoves(i)
    BY <1>0, <2>1, <2>3, <2>4, MovesStill DEF CallSafe, Confirming
  <2>5. CASE ~NoneMoves(i)
    <3>1. /\ ~DefiniteAnswers /\ ctx[w].err = "SUBMISSION_TIMEOUT"
          /\ rowHash[r] # None /\ OnlyMoves(i, rowHash[r])
      BY <1>0, <1>13, <2>5 DEF RecordFailure, CallSafe
    <3>2. \A f \in Envelopes : MayMove(f)' /\ i \in envPays'[f] => f = rowHash'[r]
      BY <2>1, <2>2, <3>1, MovesStill
    <3>3. AskedFirst(i)'
      BY <2>1, <2>2, <3>1, <3>2 DEF AskedFirst, OnlyMoves
    <3> QED
      BY <1>0, <2>1, <2>3, <3>1, <3>3 DEF CallSafe, Confirming
  <2> QED
    BY <2>4, <2>5
<1>15. CASE LookUp(w)
  <2>1. pc'[w] \in {"claim", "done"} /\ ctx'[w].mode = ctx[w].mode /\ ctx'[w].env = e
    BY <1>0, <1>2, <1>15 DEF LookUp, OnStatusError, CallSafe, OnLedger, Contexts
  <2> QED
    BY <1>14, <1>15, <2>1 DEF LookUp, Confirming
<1>16. CASE ClaimOutcome(w)
  BY <1>0, <1>14, <1>16 DEF ClaimOutcome, Confirming
<1>17. CASE ClaimOutcomeFails(w) \/ VerifyNotLanded(w)
  BY <1>0, <1>2, <1>17 DEF ClaimOutcomeFails, VerifyNotLanded, OnItsRow
<1> QED
  BY <1>4, <1>5, <1>7, <1>8, <1>10, <1>11, <1>12, <1>13, <1>15, <1>16, <1>17 DEF CallStep

\* The item that a call pays is paid by one envelope at most, and has one row.
LEMMA CallItem ==
  ASSUME PayersSound, PayrollSound', NEW w \in Workers, CallStep(w), job[w].at = "call",
         UNCHANGED <<job, itemStatus>>, CallSafe(w)', NEW i \in Items, i = job[w].item
  PROVE  ItemSafe(i)'
<1>1. ~Open(i)'
  BY DEF PayersSound, ClaimInv, PayPlaces, Open
<1>2. UNCHANGED rowFor
  BY DEF CallStep, MarkSubmitted, LoadAccount, SignAndRecordHash, SubmitEnvelope,
     ReceiveAnswer, MarkProcessing, RecordFailure, LookUp, ClaimOutcome,
     ClaimOutcomeFails, VerifyNotLanded, Reclaim, NoRowChange, rowVars, SetRow
<1>3. ~DefiniteAnswers => OneRowOf(i)'
  BY <1>2 DEF PayersSound, PayersInv, ItemSafe, OneRowOf
<1>4. job'[w].at = "call" /\ job'[w].item = i
  OBVIOUS
<1>5. pc'[w] \in OnItsRow \cup Confirming \cup {"threw"}
  BY <1>4 DEF PayrollSound, JobSound
<1>6. NoneMoves(i)' \/ \E e : OnlyMoves(i, e)'
  BY <1>4, <1>5 DEF CallSafe, AskedFirst, OnItsRow
<1>7. \A e, f \in Envelopes :
        MayMove(e)' /\ MayMove(f)' /\ i \in envPays'[e] /\ i \in envPays'[f] => e = f
  BY <1>6 DEF NoneMoves, OnlyMoves
<1> QED
  BY <1>1, <1>3, <1>7 DEF ItemSafe

\* The hash that a call overwrites is that of an envelope that moves nothing.
LEMMA CallRecords ==
  ASSUME PayersApart, PayersSound, NEW w \in Workers, CallStep(w)
  PROVE  Recorded'
<1> DEFINE r == ctx[w].row
           e == ctx[w].env
           i == job[w].item
<1>0. /\ PayrollTypeOK /\ Recorded /\ RowsSound /\ CallSound(w) /\ PayerSafe(w)
      /\ envState \in [Envelopes -> EnvStates] /\ rowHash \in [Rows -> Envelopes \cup {None}]
      /\ pc[w] \in OnItsRow =>
           r \in Rows /\ rowFor[r] = i /\ i \in Items /\ job[w].at = "call" /\ CallSafe(w)
  BY PayrollTypes, CallHere
  DEF PayersSound, PayersInv, PayerSafe, PayrollSound, PaymentInv, RowTypeOK, StellarTypeOK
<1> USE DEF NoRowChange, OnItsRow
\* A hash on the row of the call is that of an envelope that pays its item.
<1>1. pc[w] \in OnItsRow /\ rowHash[r] # None => i \in envPays[rowHash[r]]
  BY <1>0 DEF RowsSound
<1>2. ASSUME UNCHANGED <<stellarVars, rowHash>> PROVE Recorded'
  BY <1>0, <1>2 DEF Recorded, MayMove, stellarVars
<1>3. CASE MarkSubmitted(w) \/ Reclaim(w) \/ RecordFailure(w) \/ ClaimOutcome(w)
  <2>1. ASSUME NEW s, NEW status, NEW error, SetRow(s, status, error, rowHash[s])
        PROVE  UNCHANGED rowHash
    BY <1>0, <2>1 DEF SetRow
  <2> QED
    BY <1>2, <1>3, <2>1
    DEF MarkSubmitted, Reclaim, RecordFailure, ClaimOutcome, rowVars
<1>4. CASE LoadAccount(w) \/ LookUp(w) \/ ClaimOutcomeFails(w) \/ VerifyNotLanded(w)
  BY <1>2, <1>4 DEF LoadAccount, LookUp, ClaimOutcomeFails, VerifyNotLanded, rowVars
<1>5. CASE SignAndRecordHash(w)
  <2>1. CASE UNCHANGED <<stellarVars, rowVars>>
    BY <1>2, <2>1 DEF rowVars
  <2>2. CASE \E f \in Envelopes :
               /\ Sign(f, ctx[w].seq, {rowFor[r]})
               /\ SetRow(r, rowStatus[r], rowError[r], f)
    <3> PICK f \in Envelopes : /\ Sign(f, ctx[w].seq, {rowFor[r]})
                               /\ SetRow(r, rowStatus[r], rowError[r], f)
      BY <2>2
    <3>1. NoneMoves(i) /\ r \in Rows
      BY <1>0, <1>5 DEF SignAndRecordHash, CallSafe
    <3>2. \A g \in Envelopes : MayMove(g)' => MayMove(g) \/ g = f
      BY <1>0 DEF Sign, MayMove
    <3>3. rowHash'[r] = f /\ \A s \in Rows : s # r => rowHash'[s] = rowHash[s]
      BY <1>0, <3>1 DEF SetRow
    <3>4. \A g \in Envelopes : MayMove(g) => rowHash[r] # g
      BY <1>0, <1>1, <1>5, <3>1, PaymentAssumption DEF NoneMoves, SignAndRecordHash
    <3> QED
      BY <1>0, <3>1, <3>2, <3>3, <3>4 DEF Recorded
  <2> QED
    BY <1>5, <2>1, <2>2 DEF SignAndRecordHash
<1>6. CASE SubmitEnvelope(w) \/ ReceiveAnswer(w)
  <2>1. pc[w] \in {"submit", "await"} /\ UNCHANGED rowHash
    BY <1>6 DEF SubmitEnvelope, ReceiveAnswer, rowVars
  <2>2. r \in Rows /\ rowHash[r] = e
    BY <1>0, <2>1 DEF CallSafe
  <2>3. ASSUME Submit(e) PROVE Recorded'
    <3>1. \A g \in Envelopes : MayMove(g)' => MayMove(g) \/ g = e
      BY <1>0, <2>3 DEF Submit, MayMove
    <3> QED
      BY <1>0, <2>1, <2>2, <3>1 DEF Recorded
  <2> QED
    BY <1>2, <1>6, <2>1, <2>3 DEF SubmitEnvelope, ReceiveAnswer
<1>7. CASE MarkProcessing(w)
  <2>1. CASE SetRow(r, "processing", "none", e)
    <3>1. OnlyMoves(i, e) /\ r \in Rows
      BY <1>0, <1>7 DEF MarkProcessing, CallSafe
    <3>2. rowHash'[r] = e /\ \A s \in Rows : s # r => rowHash'[s] = rowHash[s]
      BY <1>0, <2>1, <3>1 DEF SetRow
    <3>3. \A g \in Envelopes : MayMove(g) /\ rowHash[r] = g => g = e
      BY <1>1, <1>7, <3>1, PaymentAssumption DEF OnlyMoves, MarkProcessing
    <3>4. UNCHANGED stellarVars
      BY <1>7 DEF MarkProcessing
    <3> QED
      BY <1>0, <3>1, <3>2, <3>3, <3>4 DEF Recorded, MayMove, stellarVars
  <2> QED
    BY <1>2, <1>7, <2>1 DEF MarkProcessing, rowVars
<1> QED
  BY <1>3, <1>4, <1>5, <1>6, <1>7 DEF CallStep

\* A call inside an operation that asks Horizon brings what the ledger says.
LEMMA AskingGoesOn ==
  ASSUME PayersApart, PayersSound, NEW w \in Workers, CallStep(w), job[w].at # "call"
  PROVE  /\ pc'[w] \in {"claim", "done", "threw"}
         /\ ctx'[w].mode = ctx[w].mode /\ ctx'[w].env \in {ctx[w].env, None}
         /\ ctx[w].mode = "reconcile" /\ pc'[w] = "done" /\ ctx'[w].env # None =>
              OnLedger(ctx'[w].env)
         /\ UNCHANGED stellarVars
<1>0. /\ pc \in [Workers -> Labels] /\ ctx \in [Workers -> Contexts] /\ CallSound(w)
      /\ ~WriteFails /\ pc[w] \in {"lookup", "claim"}
  BY NoRefusal, PayrollTypes, CallHere DEF PayersSound, PayrollSound, PaymentInv
<1>1. LookUp(w) \/ ClaimOutcome(w)
  BY <1>0
  DEF CallStep, MarkSubmitted, LoadAccount, SignAndRecordHash, SubmitEnvelope,
    ReceiveAnswer, MarkProcessing, RecordFailure, ClaimOutcomeFails, VerifyNotLanded, Reclaim
<1>2. CASE LookUp(w)
  BY <1>0, <1>2 DEF LookUp, Goto, OnStatusError, Contexts
<1>3. CASE ClaimOutcome(w)
  BY <1>0, <1>3 DEF ClaimOutcome, Goto, CallSound
<1> QED
  BY <1>1, <1>2, <1>3

LEMMA CallKeeps ==
  ASSUME PayersApart, PayersSound, PayrollSound', LedgerGrows, RowsGrow, NEW w \in Workers,
         CallStep(w), UNCHANGED <<batchStatus, itemVars, job>>
  PROVE  PayersInv'
<1>0. /\ PayersInv /\ UNCHANGED <<job, itemStatus>> /\ PayrollTypeOK
  BY DEF PayersSound, itemVars, PayrollSound
<1>1. \A v \in Workers : v # w => pc'[v] = pc[v] /\ ctx'[v] = ctx[v]
  BY <1>0, PayrollTypes DEF CallStep, MarkSubmitted, LoadAccount, SignAndRecordHash,
     SubmitEnvelope, ReceiveAnswer, MarkProcessing, RecordFailure, LookUp, ClaimOutcome,
     ClaimOutcomeFails, VerifyNotLanded, Reclaim, Goto, Throw
<1>2. \A i \in Items : Calm(i) \/ (i = job[w].item /\ job[w].at = "call")
  BY CallCalm
<1>3. RowsOwed'
  <2>1. UNCHANGED rowFor
    BY DEF CallStep, MarkSubmitted, LoadAccount, SignAndRecordHash, SubmitEnvelope,
       ReceiveAnswer, MarkProcessing, RecordFailure, LookUp, ClaimOutcome,
       ClaimOutcomeFails, VerifyNotLanded, Reclaim, NoRowChange, rowVars, SetRow
  <2> QED
    BY <1>0, <2>1 DEF PayersInv, RowsOwed, RowsGrow
<1>4. Recorded'
  BY CallRecords
<1>5. CASE job[w].at = "call"
  <2>1. CallSafe(w)'
    BY <1>0, <1>5, CallPays
  <2>2. \A i \in Items : i = job[w].item => ItemSafe(i)'
    BY <1>0, <1>5, <2>1, CallItem
  <2>3. PayerSafe(w)'
    <3>1. PayerSafe(w) /\ job'[w].at = "call" /\ job' = job
      BY <1>0, <1>5 DEF PayersInv
    <3>2. ClaimSafe(w)'
      BY <3>1 DEF ClaimSafe
    <3> QED
      BY <2>1, <3>1, <3>2 DEF PayerSafe, Asking
  <2> QED
    BY <1>0, <1>1, <1>2, <1>3, <1>4, <1>5, <2>2, <2>3, OnePayerActs
<1>6. CASE job[w].at # "call"
  <2>1. job[w].at \in {"none"} \cup Asking
    BY <1>6, CallHere
  <2>2. /\ PayerSafe(w) /\ job' = job
    BY <1>0 DEF PayersInv
  <2>3. ~DefiniteAnswers => ClaimSafe(w)'
    <3> PICK i : i = job[w].item
      OBVIOUS
    <3>1. CASE job[w].at = "none"
      BY <2>2, <3>1 DEF ClaimSafe
    <3>2. CASE job[w].at \in Asking
      <4>1. i \in Items
        BY <3>2 DEF PayersSound, PayrollSound, JobSound, Asking, OneItem
      <4>2. Calm(i)
        BY <1>2, <1>6, <4>1
      <4>3. ctx'[w].env \in {ctx[w].env, None}
        BY <1>6, AskingGoesOn
      <4>4. Open(i)' <=> Open(i)
        BY <1>0 DEF Open
      <4>5. NoRowOf(i) => NoRowOf(i)'
        BY <4>2, CalmKeeps
      <4>6. ~DefiniteAnswers /\ job'[w].at = "rowAttempt" /\ Open(i)' /\ ctx'[w].env # None =>
              OnlyMoves(i, ctx[w].env) /\ ctx'[w].env = ctx[w].env
        BY <2>2, <4>3, <4>4 DEF PayerSafe, ClaimSafe
      <4>7. OnlyMoves(i, ctx[w].env) =>
              \A f \in Envelopes : MayMove(f)' /\ i \in envPays'[f] => f = ctx[w].env
        BY <4>2, CalmKeeps
      <4> QED
        BY <2>2, <3>2, <4>4, <4>5, <4>6, <4>7 DEF PayerSafe, ClaimSafe, OnlyMoves, Asking
    <3> QED
      BY <2>1, <3>1, <3>2
  <2>4. PayerSafe(w)'
    BY <1>6, <2>1, <2>2, <2>3, AskingGoesOn
    DEF PayerSafe, Asking, Confirming, OnLedger, stellarVars
  <2> QED
    BY <1>0, <1>1, <1>2, <1>3, <1>4, <1>6, <2>1, <2>4, OnePayerActs DEF Asking, PayPlaces
<1> QED
  BY <1>5, <1>6

-----------------------------------------------------------------------------
(* Without processors, what an operation of payroll does to the items.      *)

LEMMA StillGrows ==
  ASSUME UNCHANGED stellarVars
  PROVE  LedgerGrows
  BY DEF LedgerGrows, stellarVars

\* A step that writes neither rows nor envelopes, and fails no item.
LEMMA QuietActs ==
  ASSUME PayersApart, PayersSound, NEW w \in Workers, NoPaymentChange,
         \A v \in Workers : v # w => job'[v] = job[v] /\ pc'[v] = pc[v] /\ ctx'[v] = ctx[v],
         \A i \in Items :
           \/ itemStatus'[i] = itemStatus[i]
           \/ itemStatus[i] = "none" /\ itemStatus'[i] = "pending"
           \/ itemStatus'[i] \in {"processing", "completed"},
         PayerSafe(w)'
  PROVE  PayersInv'
<1>1. UNCHANGED <<stellarVars, rowVars>>
  BY DEF NoPaymentChange
<1>2. \A i \in Items : Calm(i)
  BY <1>1, CalmStill
<1>3. \A i \in Items : ItemSafe(i) => ItemSafe(i)'
  BY <1>2, CalmItem
<1>4. Recorded' /\ RowsOwed'
  BY <1>1 DEF PayersSound, PayersInv, Recorded, RowsOwed, MayMove, stellarVars, rowVars
<1>5. \A i \in Items : ItemSafe(i)
  BY DEF PayersSound, PayersInv
<1> QED
  BY <1>1, <1>2, <1>3, <1>4, <1>5, StillGrows, OnePayerActs

\* An operation that ends leaves nothing to be known.
LEMMA LeaveSafe ==
  ASSUME PayrollTypeOK, NEW w \in Workers, Leave(w)
  PROVE  /\ PayerSafe(w)'
         /\ \A v \in Workers : v # w => job'[v] = job[v] /\ pc'[v] = pc[v] /\ ctx'[v] = ctx[v]
<1>1. job'[w].at = "none" /\ pc'[w] = "idle"
  BY PayrollTypes DEF Leave, Goto, NoJob
<1>2. \A v \in Workers : v # w => job'[v] = job[v] /\ pc'[v] = pc[v] /\ ctx'[v] = ctx[v]
  BY PayrollTypes DEF Leave, Goto
<1> QED
  BY <1>1, <1>2 DEF PayerSafe, ClaimSafe, PayItemPlaces, PayerPlaces, PayPlaces, Asking

\* An operation that ends without failing an item.
LEMMA LeaveKeeps ==
  ASSUME PayersApart, PayersSound, NEW w \in Workers, NoPaymentChange, Leave(w),
         \A i \in Items :
           \/ itemStatus'[i] = itemStatus[i]
           \/ itemStatus[i] = "none" /\ itemStatus'[i] = "pending"
           \/ itemStatus'[i] \in {"processing", "completed"}
  PROVE  PayersInv'
  BY LeaveSafe, QuietActs DEF PayersSound, PayrollSound

\* What an operation has to know to go on at a place where it asks nobody and
\* calls nobody.
LEMMA PlaceSafe ==
  ASSUME NEW w \in Workers, NEW i, NoPaymentChange, "pay" \in Calls[w], job'[w].item = i,
         job'[w].at \in {"readItem", "findPrior", "findUnsettled", "recover", "claim", "pay",
                         "persist"},
         job'[w].at \in {"pay", "persist"} =>
           NoneMoves(i) /\ (~DefiniteAnswers => AllFailed(i)),
         ~DefiniteAnswers /\ job'[w].at = "claim" /\ Open(i)' => NoneMoves(i),
         /\ ~DefiniteAnswers /\ job'[w].reuse = None
         /\ job'[w].at = "pay" \/ (job'[w].at \in {"findUnsettled", "claim"} /\ Open(i)')
         => NoRowOf(i)
  PROVE  PayerSafe(w)'
<1>1. UNCHANGED <<stellarVars, rowVars>>
  BY DEF NoPaymentChange
<1>2. Calm(i)
  BY <1>1, CalmStill
<1>3. /\ NoneMoves(i) => NoneMoves(i)'
      /\ NoRowOf(i) => NoRowOf(i)'
      /\ AllFailed(i) => AllFailed(i)'
  BY <1>2, CalmKeeps
<1>4. ~DefiniteAnswers => ClaimSafe(w)'
  BY <1>3 DEF ClaimSafe
<1> QED
  BY <1>3, <1>4 DEF PayerSafe, Asking

\* The item before an operation that pays it.
LEMMA PayHere ==
  ASSUME PayersSound, NEW w \in Workers, job[w].at \in PayItemPlaces
  PROVE  /\ "pay" \in Calls[w] /\ job[w].item \in Items
         /\ ItemSafe(job[w].item) /\ PayerSafe(w) /\ JobSound(w)
         /\ ~DefiniteAnswers => ClaimSafe(w)
         /\ PayrollTypeOK /\ job \in [Workers -> Jobs] /\ itemStatus \in [Items -> ItemStatuses]
<1>1. job[w].item \in Items
  BY OneItemHere DEF PayersSound, PayrollSound, PayItemPlaces, PayerPlaces, PayPlaces, OneItem
<1> QED
  BY <1>1, PayrollTypes DEF PayersSound, PayersInv, PayrollSound, PayerSafe

\* The operation goes on with what it remembers.
LEMMA ProceedHere ==
  ASSUME PayrollTypeOK, NEW w \in Workers, NEW label, Proceed(w, label)
  PROVE  /\ job'[w].at = label /\ job'[w].item = job[w].item /\ job'[w].reuse = job[w].reuse
         /\ \A v \in Workers : v # w => job'[v] = job[v] /\ pc'[v] = pc[v] /\ ctx'[v] = ctx[v]
  BY PayrollTypes DEF Proceed, Jobs

LEMMA AdvanceKeeps ==
  ASSUME PayersApart, PayersSound, NEW w \in Workers, AdvanceBatch(w)
  PROVE  PayersInv'
<1>0. /\ "pay" \in Calls[w] /\ PayrollTypeOK /\ NoPaymentChange /\ UNCHANGED itemStatus
      /\ ~WriteFails
  BY PayHere, NoRefusal
  DEF AdvanceBatch, At, PayItemPlaces, PayerPlaces, itemVars, RefusedWriteEnds, NoItemChange,
    PayersSound, PayrollSound
<1>1. Proceed(w, "readItem")
  BY <1>0 DEF AdvanceBatch, RefusedWriteEnds
<1>2. PayerSafe(w)'
  BY <1>0, <1>1, ProceedHere, PlaceSafe
<1> QED
  BY <1>0, <1>1, <1>2, ProceedHere, QuietActs

LEMMA ReadKeeps ==
  ASSUME PayersApart, PayersSound, NEW w \in Workers, ReadItem(w)
  PROVE  PayersInv'
<1> PICK i \in Items : i = job[w].item
  BY PayHere DEF ReadItem, At, PayItemPlaces, PayerPlaces
<1>0. /\ "pay" \in Calls[w] /\ PayrollTypeOK /\ NoPaymentChange /\ UNCHANGED itemStatus
      /\ ItemSafe(i) /\ job \in [Workers -> Jobs] /\ itemStatus[i] \in ItemStatuses
  BY PayHere DEF ReadItem, At, PayItemPlaces, PayerPlaces, itemVars, NoItemChange
<1>1. CASE Leave(w)
  BY <1>0, <1>1, LeaveKeeps
<1>2. ASSUME NEW hash, job' = [job EXCEPT ![w].at = "findPrior", ![w].hash = hash],
             UNCHANGED <<pc, ctx>>
      PROVE  PayersInv'
  <2>1. /\ job'[w].at = "findPrior" /\ job'[w].item = i
        /\ \A v \in Workers : v # w => job'[v] = job[v]
    BY <1>0, <1>2 DEF Jobs
  <2>2. PayerSafe(w)'
    BY <1>0, <2>1, PlaceSafe
  <2> QED
    BY <1>0, <1>2, <2>1, <2>2, QuietActs
<1>3. CASE itemStatus[i] \notin {"none", "failed"} /\ Proceed(w, "claim")
  <2>1. ~DefiniteAnswers /\ Open(i) => NoneMoves(i) /\ NoRowOf(i)
    BY <1>0, <1>3 DEF ItemSafe, Open
  <2>2. Open(i)' => Open(i)
    BY <1>0 DEF Open
  <2>3. PayerSafe(w)'
    BY <1>0, <1>3, <2>1, <2>2, ProceedHere, PlaceSafe
  <2> QED
    BY <1>0, <1>3, <2>3, ProceedHere, QuietActs
<1> QED
  BY <1>1, <1>2, <1>3 DEF ReadItem

\* When it looks for the row to reuse and finds none, the item has none.
LEMMA NoRowFound ==
  ASSUME NEW i \in Items, NEW reuse \in Rows \cup {None}, Latest(reuse, FailedRows(i)),
         reuse = None, AllFailed(i)
  PROVE  NoRowOf(i)
  BY PaymentAssumption DEF Latest, FailedRows, AllFailed, NoRowOf

\* What an operation has to know while it asks Horizon.
LEMMA AskSafe ==
  ASSUME NEW w \in Workers, NEW i, NoPaymentChange, UNCHANGED itemStatus, "pay" \in Calls[w],
         job'[w].item = i, job'[w].at \in Asking, pc'[w] = "lookup",
         ctx'[w].mode = "reconcile",
         ~DefiniteAnswers /\ job'[w].at = "rowAttempt" /\ Open(i) => OnlyMoves(i, ctx'[w].env),
         ~DefiniteAnswers /\ Open(i) /\ job'[w].reuse = None => NoRowOf(i)
  PROVE  PayerSafe(w)'
<1>1. UNCHANGED <<stellarVars, rowVars>>
  BY DEF NoPaymentChange
<1>2. Calm(i)
  BY <1>1, CalmStill
<1>3. /\ NoRowOf(i) => NoRowOf(i)'
      /\ OnlyMoves(i, ctx'[w].env) =>
           \A f \in Envelopes : MayMove(f)' /\ i \in envPays'[f] => f = ctx'[w].env
      /\ Open(i)' => Open(i)
  BY <1>2, CalmKeeps DEF Open
<1>4. ~DefiniteAnswers => ClaimSafe(w)'
  BY <1>3 DEF ClaimSafe, OnlyMoves, Asking
<1> QED
  BY <1>4 DEF PayerSafe, Asking

LEMMA FindPriorKeeps ==
  ASSUME PayersApart, PayersSound, NEW w \in Workers, FindPriorRow(w)
  PROVE  PayersInv'
<1> PICK i \in Items : i = job[w].item
  BY PayHere DEF FindPriorRow, At, PayItemPlaces, PayerPlaces
<1>0. /\ "pay" \in Calls[w] /\ PayrollTypeOK /\ NoPaymentChange /\ UNCHANGED itemStatus
      /\ ItemSafe(i) /\ job \in [Workers -> Jobs]
      /\ pc \in [Workers -> Labels] /\ ctx \in [Workers -> Contexts]
  BY PayHere, PayrollTypes DEF FindPriorRow, At, PayItemPlaces, PayerPlaces, itemVars, NoItemChange
<1> PICK reuse \in Rows \cup {None} :
       /\ Latest(reuse, FailedRows(i))
       /\ \/ /\ job[w].hash # None
             /\ job' = [job EXCEPT ![w].at = "itemAttempt", ![w].reuse = reuse]
             /\ AskHorizon(w, job[w].hash)
          \/ /\ job[w].hash = None
             /\ job' = [job EXCEPT ![w].at = "findUnsettled", ![w].reuse = reuse]
             /\ UNCHANGED <<pc, ctx>>
  BY DEF FindPriorRow
<1>1. ~DefiniteAnswers /\ Open(i) /\ reuse = None => NoRowOf(i)
  BY <1>0, NoRowFound DEF ItemSafe
<1>2. Open(i)' => Open(i)
  BY <1>0 DEF Open
<1>3. CASE /\ job' = [job EXCEPT ![w].at = "itemAttempt", ![w].reuse = reuse]
           /\ AskHorizon(w, job[w].hash)
  <2>1. /\ job'[w].at = "itemAttempt" /\ job'[w].item = i /\ job'[w].reuse = reuse
        /\ pc'[w] = "lookup" /\ ctx'[w].mode = "reconcile"
        /\ \A v \in Workers : v # w => job'[v] = job[v] /\ pc'[v] = pc[v] /\ ctx'[v] = ctx[v]
    BY <1>0, <1>3 DEF Jobs, AskHorizon, Goto, Begin
  <2>2. PayerSafe(w)'
    BY <1>0, <1>1, <2>1, AskSafe DEF Asking
  <2> QED
    BY <1>0, <2>1, <2>2, QuietActs
<1>4. CASE /\ job' = [job EXCEPT ![w].at = "findUnsettled", ![w].reuse = reuse]
           /\ UNCHANGED <<pc, ctx>>
  <2>1. /\ job'[w].at = "findUnsettled" /\ job'[w].item = i /\ job'[w].reuse = reuse
        /\ \A v \in Workers : v # w => job'[v] = job[v] /\ pc'[v] = pc[v] /\ ctx'[v] = ctx[v]
    BY <1>0, <1>4 DEF Jobs
  <2>2. PayerSafe(w)'
    BY <1>0, <1>1, <1>2, <2>1, PlaceSafe
  <2> QED
    BY <1>0, <2>1, <2>2, QuietActs
<1> QED
  BY <1>3, <1>4

LEMMA FindUnsettledKeeps ==
  ASSUME PayersApart, PayersSound, NEW w \in Workers, FindUnsettledRow(w)
  PROVE  PayersInv'
<1> PICK i \in Items : i = job[w].item
  BY PayHere DEF FindUnsettledRow, At, PayItemPlaces, PayerPlaces
<1>0. /\ "pay" \in Calls[w] /\ PayrollTypeOK /\ NoPaymentChange /\ UNCHANGED itemStatus
      /\ ItemSafe(i) /\ (~DefiniteAnswers => ClaimSafe(w)) /\ job[w].at = "findUnsettled"
      /\ job \in [Workers -> Jobs]
      /\ pc \in [Workers -> Labels] /\ ctx \in [Workers -> Contexts]
  BY PayHere, PayrollTypes DEF FindUnsettledRow, At, PayItemPlaces, PayerPlaces, itemVars, NoItemChange
<1> PICK r \in Rows \cup {None} :
       /\ Latest(r, UnsettledRows(i))
       /\ \/ /\ r # None
             /\ job' = [job EXCEPT ![w].at = "rowAttempt"]
             /\ AskHorizon(w, rowHash[r])
          \/ r = None /\ Proceed(w, "claim")
  BY DEF FindUnsettledRow
<1>1. ~DefiniteAnswers /\ Open(i) /\ job[w].reuse = None => NoRowOf(i)
  BY <1>0 DEF ClaimSafe
<1>2. Open(i)' => Open(i)
  BY <1>0 DEF Open
<1>3. CASE /\ r # None /\ job' = [job EXCEPT ![w].at = "rowAttempt"]
           /\ AskHorizon(w, rowHash[r])
  <2>1. /\ job'[w].at = "rowAttempt" /\ job'[w].item = i /\ job'[w].reuse = job[w].reuse
        /\ pc'[w] = "lookup" /\ ctx'[w].mode = "reconcile" /\ ctx'[w].env = rowHash[r]
        /\ \A v \in Workers : v # w => job'[v] = job[v] /\ pc'[v] = pc[v] /\ ctx'[v] = ctx[v]
    BY <1>0, <1>3 DEF Jobs, AskHorizon, Goto, Begin
  <2>2. ASSUME ~DefiniteAnswers, Open(i) PROVE OnlyMoves(i, rowHash[r])
    <3>1. r \in Rows /\ rowFor[r] = i
      BY <1>3, PaymentAssumption DEF Latest, UnsettledRows, FailedRows
    <3>2. AskedFirst(i) => OnlyMoves(i, rowHash[r])
      BY <1>0, <2>2, <3>1 DEF ItemSafe, AskedFirst, OneRowOf
    <3>3. NoneMoves(i) => OnlyMoves(i, rowHash[r])
      BY DEF NoneMoves, OnlyMoves
    <3> QED
      BY <1>0, <2>2, <3>2, <3>3 DEF ItemSafe
  <2>3. PayerSafe(w)'
    BY <1>0, <1>1, <2>1, <2>2, AskSafe DEF Asking
  <2> QED
    BY <1>0, <2>1, <2>3, QuietActs
<1>4. CASE r = None /\ Proceed(w, "claim")
  <2>1. ~AskedFirst(i)
    <3>1. UnsettledRows(i) = {}
      BY <1>4, PaymentAssumption DEF Latest, UnsettledRows, FailedRows
    <3> QED
      BY <3>1 DEF UnsettledRows, FailedRows, AskedFirst
  <2>2. Open(i) => NoneMoves(i)
    BY <1>0, <2>1 DEF ItemSafe
  <2>3. PayerSafe(w)'
    BY <1>0, <1>1, <1>2, <1>4, <2>2, ProceedHere, PlaceSafe
  <2> QED
    BY <1>0, <1>4, <2>3, ProceedHere, QuietActs
<1> QED
  BY <1>3, <1>4

LEMMA ReconciledKeeps ==
  ASSUME PayersApart, PayersSound, NEW w \in Workers, Reconciled(w)
  PROVE  PayersInv'
<1> PICK i \in Items : i = job[w].item
  BY PayHere DEF Reconciled, PayItemPlaces, PayerPlaces
<1>0. /\ "pay" \in Calls[w] /\ PayrollTypeOK /\ NoPaymentChange /\ UNCHANGED itemStatus
      /\ PayerSafe(w) /\ (~DefiniteAnswers => ClaimSafe(w)) /\ job[w].at \in Asking
      /\ job \in [Workers -> Jobs]
      /\ pc \in [Workers -> Labels] /\ ctx \in [Workers -> Contexts]
  BY PayHere, PayrollTypes DEF Reconciled, Asking, PayItemPlaces, PayerPlaces, itemVars, NoItemChange
<1>1. CASE Leave(w)
  BY <1>0, <1>1, LeaveKeeps
<1>2. CASE ~Leave(w)
  <2> DEFINE label == IF envState[ctx[w].env] = "success" THEN "recover"
                      ELSE IF job[w].at = "itemAttempt" THEN "findUnsettled" ELSE "claim"
  <2>1. /\ pc[w] = "done" /\ ctx[w].env # None
        /\ job' = [job EXCEPT ![w].at = label, ![w].hash = ctx[w].env]
        /\ Goto(w, "idle") /\ ctx' = [ctx EXCEPT ![w] = Idle]
    BY <1>0, <1>2 DEF Reconciled
  <2>2. label \in {"recover", "findUnsettled", "claim"}
    OBVIOUS
  <2>3. /\ job'[w].at = label /\ job'[w].item = i /\ job'[w].reuse = job[w].reuse
        /\ \A v \in Workers : v # w => job'[v] = job[v] /\ pc'[v] = pc[v] /\ ctx'[v] = ctx[v]
    <3> HIDE DEF label
    <3> QED
      BY <1>0, <2>1, <2>2 DEF Jobs, Goto
  \* Horizon has a record of the envelope, and it is not of a success.
  <2>4. ASSUME ~DefiniteAnswers, label = "claim", Open(i) PROVE NoneMoves(i)
    <3>1. OnLedger(ctx[w].env) /\ envState[ctx[w].env] # "success"
      BY <1>0, <2>1, <2>4 DEF PayerSafe
    <3>2. job[w].at = "rowAttempt"
      BY <1>0, <2>4 DEF Asking
    <3>3. OnlyMoves(i, ctx[w].env)
      BY <1>0, <2>1, <2>4, <3>2 DEF ClaimSafe
    <3> QED
      BY <3>1, <3>3 DEF OnlyMoves, NoneMoves, MayMove, OnLedger
  <2>5. ~DefiniteAnswers /\ Open(i) /\ job[w].reuse = None => NoRowOf(i)
    BY <1>0 DEF ClaimSafe, Asking
  <2>6. Open(i)' => Open(i)
    BY <1>0 DEF Open
  <2>7. PayerSafe(w)'
    <3> HIDE DEF label
    <3> QED
      BY <1>0, <2>2, <2>3, <2>4, <2>5, <2>6, PlaceSafe
  <2> QED
    BY <1>0, <2>3, <2>7, QuietActs
<1> QED
  BY <1>1, <1>2

LEMMA RecoverKeeps ==
  ASSUME PayersApart, PayersSound, NEW w \in Workers, RecoverItem(w)
  PROVE  PayersInv'
<1> PICK i \in Items : i = job[w].item
  BY PayHere DEF RecoverItem, At, PayItemPlaces, PayerPlaces
<1>0. /\ PayrollTypeOK /\ ~WriteFails /\ NoPaymentChange
  BY NoRefusal DEF PayersSound, PayrollSound, RecoverItem
<1>1. Leave(w) /\ SetItem(i, "completed", job[w].hash, "none")
  BY <1>0 DEF RecoverItem, RefusedWriteEnds
<1>2. \A k \in Items : itemStatus'[k] = itemStatus[k] \/ itemStatus'[k] \in {"processing", "completed"}
  BY <1>0, <1>1, OneItemWritten
<1> QED
  BY <1>0, <1>1, <1>2, LeaveKeeps

LEMMA ClaimKeeps ==
  ASSUME PayersApart, PayersSound, NEW w \in Workers, ClaimItem(w)
  PROVE  PayersInv'
<1> PICK i \in Items : i = job[w].item
  BY PayHere DEF ClaimItem, At, PayItemPlaces, PayerPlaces
<1>0. /\ "pay" \in Calls[w] /\ PayrollTypeOK /\ NoPaymentChange /\ ~WriteFails
      /\ ItemSafe(i) /\ (~DefiniteAnswers => ClaimSafe(w)) /\ job[w].at = "claim"
  BY PayHere, NoRefusal DEF ClaimItem, At, PayItemPlaces, PayerPlaces
<1>1. CASE Leave(w) /\ NoItemChange
  BY <1>0, <1>1, LeaveKeeps DEF NoItemChange, itemVars
<1>2. CASE /\ itemStatus[i] \in Payable /\ Proceed(w, "pay")
           /\ SetItem(i, "processing", itemHash[i], itemError[i])
  <2>1. Open(i)
    BY <1>2 DEF Open, Payable
  <2>2. NoneMoves(i) /\ (~DefiniteAnswers => AllFailed(i))
    BY <1>0, <2>1 DEF ItemSafe, ClaimSafe
  <2>3. ~DefiniteAnswers /\ job[w].reuse = None => NoRowOf(i)
    BY <1>0, <2>1 DEF ClaimSafe
  <2>4. PayerSafe(w)'
    BY <1>0, <1>2, <2>2, <2>3, ProceedHere, PlaceSafe
  <2>5. \A k \in Items : itemStatus'[k] = itemStatus[k] \/ itemStatus'[k] \in {"processing", "completed"}
    BY <1>0, <1>2, OneItemWritten
  <2> QED
    BY <1>0, <1>2, <2>4, <2>5, ProceedHere, QuietActs
<1> QED
  BY <1>0, <1>1, <1>2 DEF ClaimItem, RefusedWriteEnds

LEMMA CompleteKeeps ==
  ASSUME PayersApart, PayersSound, NEW w \in Workers, CompleteItem(w)
  PROVE  PayersInv'
<1> PICK i \in Items : i = job[w].item
  BY PayHere DEF CompleteItem, At, PayItemPlaces, PayerPlaces, PayPlaces
<1>0. /\ PayrollTypeOK /\ ~WriteFails /\ NoPaymentChange
  BY NoRefusal DEF PayersSound, PayrollSound, CompleteItem
<1>1. Leave(w) /\ SetItem(i, "completed", ctx[w].env, "none")
  BY <1>0 DEF CompleteItem
<1>2. \A k \in Items : itemStatus'[k] = itemStatus[k] \/ itemStatus'[k] \in {"processing", "completed"}
  BY <1>0, <1>1, OneItemWritten
<1> QED
  BY <1>0, <1>1, <1>2, LeaveKeeps

\* A call that throws leaves its item open: nothing may pay it, or what may is
\* asked about before it is paid again.
LEMMA FailKeeps ==
  ASSUME PayersApart, PayersSound, NEW w \in Workers, PersistItemFailure(w)
  PROVE  PayersInv'
<1>0. /\ PayrollTypeOK /\ ~WriteFails /\ NoPaymentChange /\ job[w].at \in PayPlaces
  BY NoRefusal DEF PayersSound, PayrollSound, PersistItemFailure, PayPlaces, At
<1> PICK i \in Items : i = job[w].item
  BY <1>0, PayHere DEF PayItemPlaces, PayerPlaces, PayPlaces
<1>1. ItemSafe(i) /\ PayerSafe(w) /\ (~DefiniteAnswers => ClaimSafe(w))
  BY <1>0, PayHere DEF PayItemPlaces, PayerPlaces, PayPlaces
<1>2. /\ Leave(w) /\ itemStatus'[i] = "failed"
      /\ \A k \in Items : k # i => itemStatus'[k] = itemStatus[k]
  <2> PICK error : Leave(w) /\ SetItem(i, "failed", itemHash[i], error)
    BY <1>0, <1>1 DEF PersistItemFailure, RefusedWriteEnds, PayerSafe, At
  <2> QED
    BY <1>0, OneItemWritten
<1>3. /\ NoneMoves(i) \/ (~DefiniteAnswers /\ AskedFirst(i))
      /\ ~DefiniteAnswers => AllFailed(i)
  <2>1. CASE job[w].at = "call" /\ pc[w] = "threw"
    BY <1>1, <2>1 DEF PayerSafe, CallSafe
  <2>2. CASE job[w].at \in {"persist", "persistAgain"}
    BY <1>1, <2>2 DEF PayerSafe, ClaimSafe
  <2> QED
    BY <2>1, <2>2 DEF PersistItemFailure, At
<1>4. UNCHANGED <<stellarVars, rowVars>>
  BY <1>0 DEF NoPaymentChange
<1>5. \A k : Calm(k)
  BY <1>4, CalmStill
<1>6. ItemSafe(i)'
  <2>1. /\ NoneMoves(i) => NoneMoves(i)'
        /\ AllFailed(i) => AllFailed(i)'
        /\ OneRowOf(i) => OneRowOf(i)'
        /\ AskedFirst(i) => AskedFirst(i)'
    BY <1>5, CalmKeeps
  <2>2. \A e, f \in Envelopes :
          MayMove(e)' /\ MayMove(f)' /\ i \in envPays'[e] /\ i \in envPays'[f] => e = f
    BY <1>1, <1>5 DEF Calm, ItemSafe
  <2> QED
    BY <1>1, <1>2, <1>3, <2>1, <2>2 DEF ItemSafe
<1>7. Recorded' /\ RowsOwed'
  BY <1>4 DEF PayersSound, PayersInv, Recorded, RowsOwed, MayMove, stellarVars, rowVars
<1> QED
  BY <1>0, <1>2, <1>4, <1>5, <1>6, <1>7, LeaveSafe, StillGrows, OnePayerActs

LEMMA CallPaymentKeeps ==
  ASSUME PayersApart, PayersSound, NEW w \in Workers, CallPayment(w)
  PROVE  PayersInv'
<1> PICK i \in Items : i = job[w].item
  BY PayHere DEF CallPayment, At, PayItemPlaces, PayerPlaces, PayPlaces
<1>0. /\ "pay" \in Calls[w] /\ PayrollTypeOK /\ UNCHANGED <<stellarVars, itemStatus>>
      /\ ItemSafe(i) /\ PayerSafe(w) /\ (~DefiniteAnswers => ClaimSafe(w))
      /\ job[w].at = "pay" /\ job \in [Workers -> Jobs] /\ Recorded /\ RowsOwed
      /\ pc \in [Workers -> Labels] /\ ctx \in [Workers -> Contexts] /\ RowTypeOK
      /\ \A k \in Items : ItemSafe(k)
  BY PayHere, PayrollTypes
  DEF CallPayment, At, PayItemPlaces, PayerPlaces, PayPlaces, NoItemChange, itemVars,
    NoPaymentChange, CreatePayment, PayersSound, PayersInv
<1>1. NoneMoves(i) /\ (~DefiniteAnswers => AllFailed(i)) /\ ~Open(i)
  BY <1>0 DEF PayerSafe, ClaimSafe, PayersSound, ClaimInv, PayPlaces, Open
<1>2. ASSUME job' = [job EXCEPT ![w].at = "call"], pc' = [pc EXCEPT ![w] = pc'[w]],
             pc'[w] \in {"created", "reclaim"}, ctx'[w].mode = "payment",
             \A v \in Workers : v # w => ctx'[v] = ctx[v],
             ~DefiniteAnswers /\ pc'[w] = "reclaim" => AllFailed(i)'
      PROVE  /\ PayerSafe(w)'
             /\ \A v \in Workers : v # w => job'[v] = job[v] /\ pc'[v] = pc[v] /\ ctx'[v] = ctx[v]
  <2>1. job'[w].at = "call" /\ job'[w].item = i
    BY <1>0, <1>2 DEF Jobs
  <2>2. NoneMoves(i)'
    BY <1>0, <1>1, MovesStill
  <2>3. CallSafe(w)'
    BY <1>2, <2>1, <2>2 DEF CallSafe, Confirming
  <2>4. PayerSafe(w)'
    BY <1>0, <2>1, <2>3 DEF PayerSafe, ClaimSafe, Asking
  <2> QED
    BY <1>0, <1>2, <2>4
\* A row is created, and the item had none.
<1>3. ASSUME job[w].reuse = None, NEW r \in Rows, CreatePayment(w, r, i),
             job' = [job EXCEPT ![w].at = "call"]
      PROVE  PayersInv'
  <2>1. /\ rowStatus[r] = "none" /\ rowStatus' = [rowStatus EXCEPT ![r] = "created"]
        /\ rowFor' = [rowFor EXCEPT ![r] = i] /\ UNCHANGED <<rowError, rowHash>>
        /\ pc' = [pc EXCEPT ![w] = "created"] /\ ctx'[w].mode = "payment"
        /\ \A v \in Workers : v # w => ctx'[v] = ctx[v]
    BY <1>0, <1>3 DEF CreatePayment, NewRow, Goto, Begin
  <2>2. rowFor[r] = None /\ i # None
    BY <1>0, <2>1, PaymentAssumption, PayrollAssumption DEF RowsOwed
  <2>3. /\ rowFor'[r] = i /\ rowStatus'[r] = "created"
        /\ \A s \in Rows : s # r => rowFor'[s] = rowFor[s] /\ rowStatus'[s] = rowStatus[s]
    BY <1>0, <2>1 DEF RowTypeOK
  <2>4. \A k \in Items : Calm(k) \/ k = i
    BY <1>0, <2>1, <2>2, <2>3, PaymentAssumption, PayrollAssumption DEF Calm, MayMove, stellarVars
  <2>5. Recorded' /\ RowsOwed'
    BY <1>0, <2>1, <2>3 DEF Recorded, RowsOwed, MayMove, stellarVars
  <2>6. PayerSafe(w)' /\ \A v \in Workers : v # w => job'[v] = job[v] /\ pc'[v] = pc[v] /\ ctx'[v] = ctx[v]
    BY <1>0, <1>2, <1>3, <2>1
  <2>7. ItemSafe(i)'
    <3>1. ~DefiniteAnswers => OneRowOf(i)'
      BY <1>0, <1>3, <2>3 DEF ClaimSafe, NoRowOf, OneRowOf
    <3>2. ~Open(i)'
      BY <1>0, <1>1 DEF Open
    <3>3. \A e, f \in Envelopes :
            MayMove(e)' /\ MayMove(f)' /\ i \in envPays'[e] /\ i \in envPays'[f] => e = f
      BY <1>0 DEF ItemSafe, MayMove, stellarVars
    <3> QED
      BY <3>1, <3>2, <3>3 DEF ItemSafe
  <2> QED
    BY <1>0, <2>4, <2>5, <2>6, <2>7, StillGrows, OnePayerActs
\* The row of the failed attempt is taken again.
<1>4. CASE /\ pc' = [pc EXCEPT ![w] = "reclaim"]
           /\ ctx' = [ctx EXCEPT ![w] = Begin("payment", job[w].reuse, None)]
           /\ job' = [job EXCEPT ![w].at = "call"]
           /\ NoPaymentChange
  <2>1. Calm(i)
    BY <1>4, CalmStill DEF NoPaymentChange
  <2>2. AllFailed(i) => AllFailed(i)'
    BY <2>1, CalmKeeps
  <2>3. ctx'[w].mode = "payment" /\ \A v \in Workers : v # w => ctx'[v] = ctx[v]
    BY <1>0, <1>4 DEF Begin
  <2>4. PayerSafe(w)' /\ \A v \in Workers : v # w => job'[v] = job[v] /\ pc'[v] = pc[v] /\ ctx'[v] = ctx[v]
    BY <1>0, <1>1, <1>2, <1>4, <2>2, <2>3
  <2> QED
    BY <1>0, <1>4, <2>4, QuietActs
\* It is refused before it has a row.
<1>5. CASE Proceed(w, "persist") /\ NoPaymentChange
  <2>1. PayerSafe(w)'
    BY <1>0, <1>1, <1>5, ProceedHere, PlaceSafe
  <2> QED
    BY <1>0, <1>5, <2>1, ProceedHere, QuietActs
<1> QED
  BY <1>3, <1>4, <1>5 DEF CallPayment, Goto

LEMMA PayKeeps ==
  ASSUME PayersApart, PayersSound, NEW w \in Workers, PayStep(w)
  PROVE  PayersInv'
  BY AdvanceKeeps, ReadKeeps, FindPriorKeeps, FindUnsettledKeeps, ReconciledKeeps,
    RecoverKeeps, ClaimKeeps, CallPaymentKeeps, CompleteKeeps, FailKeeps
  DEF PayStep

\* The other steps of a worker.
LEMMA OtherKeeps ==
  ASSUME PayersApart, PayersSound, NEW w \in Workers,
         StartStep(w) \/ AddItem(w) \/ ApproveBatch(w) \/ CrashPayroll(w)
  PROVE  PayersInv'
<1>0. /\ PayrollTypeOK /\ PayrollSound /\ job \in [Workers -> Jobs]
      /\ pc \in [Workers -> Labels] /\ ctx \in [Workers -> Contexts]
  BY PayrollTypes DEF PayersSound, PayrollSound
<1>1. CASE StartStep(w)
  <2>1. /\ NoPaymentChange /\ UNCHANGED <<itemStatus, pc, ctx>> /\ pc[w] = "idle"
        /\ \A v \in Workers : v # w => job'[v] = job[v]
        /\ \/ job'[w].at \in {"add", "approve"}
           \/ job'[w].at = "advance" /\ "pay" \in Calls[w]
           \/ "process" \in Calls[w]
    BY <1>0, <1>1, StartFlow DEF NoItemChange, itemVars
  <2>2. PayerSafe(w)'
    BY <2>1 DEF PayerSafe, ClaimSafe, PayItemPlaces, PayerPlaces, PayPlaces, Asking,
      PayersApart, NoProcessor
  <2> QED
    BY <2>1, <2>2, QuietActs
<1>2. CASE AddItem(w)
  <2> PICK i \in Items : itemStatus[i] = "none" /\ SetItem(i, "pending", None, "none")
    BY <1>2 DEF AddItem
  <2>1. \A k \in Items :
          \/ itemStatus'[k] = itemStatus[k]
          \/ itemStatus[k] = "none" /\ itemStatus'[k] = "pending"
    BY <1>0, OneItemWritten
  <2> QED
    BY <1>2, <2>1, LeaveKeeps DEF AddItem
<1>3. CASE ApproveBatch(w) \/ CrashPayroll(w)
  BY <1>3, LeaveKeeps DEF ApproveBatch, CrashPayroll, NoItemChange, itemVars
<1> QED
  BY <1>1, <1>2, <1>3

\* A worker outside an operation ends a call, or starts to poll.
LEMMA PollKeeps ==
  ASSUME PayersApart, PayersSound, NEW w \in Workers, job[w] = NoJob,
         End(w) \/ Crash(w) \/ Poll(w) \/ Rebuild(w), UNCHANGED <<batchStatus, itemVars, job>>
  PROVE  PayersInv'
<1>0. /\ pc \in [Workers -> Labels] /\ ctx \in [Workers -> Contexts] /\ ~Rebuild(w)
  BY PayrollTypes DEF PayersSound, PayrollSound, PayersApart, NoRebuilds, Rebuild
<1>1. /\ NoPaymentChange /\ pc'[w] \in {"idle", "lookup"}
      /\ \A v \in Workers : v # w => pc'[v] = pc[v] /\ ctx'[v] = ctx[v]
  BY <1>0 DEF End, Crash, Poll, StartPoll, Goto, NoPaymentChange, NoRowChange
<1>2. job'[w].at = "none" /\ UNCHANGED <<job, itemStatus>>
  BY DEF NoJob, itemVars
<1>3. PayerSafe(w)'
  BY <1>1, <1>2
  DEF PayerSafe, ClaimSafe, PayItemPlaces, PayerPlaces, PayPlaces, Asking, Confirming
<1> QED
  BY <1>1, <1>2, <1>3, QuietActs

\* Nobody steps, and no envelope begins to move money.
LEMMA NobodyActs ==
  ASSUME PayersSound, LedgerGrows, UNCHANGED <<rowVars, pc, ctx, job, itemStatus>>,
         \A e \in Envelopes : MayMove(e)' => MayMove(e) /\ envPays'[e] = envPays[e]
  PROVE  PayersInv'
<1>1. \A i : Calm(i)
  BY DEF Calm, rowVars
<1>2. \A i \in Items : ItemSafe(i)'
  BY <1>1, CalmItem DEF PayersSound, PayersInv
<1>3. ASSUME NEW v \in Workers PROVE PayerSafe(v)'
  <2>1. Open(job[v].item)' => Open(job[v].item)
    BY DEF Open
  <2> QED
    BY <1>1, <2>1, OtherPayer
<1>4. Recorded' /\ RowsOwed'
  BY DEF PayersSound, PayersInv, Recorded, RowsOwed, rowVars
<1> QED
  BY <1>2, <1>3, <1>4 DEF PayersInv

LEMMA PayersInvStep ==
  ASSUME PayersApart, PayersSound, PayrollSound', [PayrollNext]_payrollVars
  PROVE  PayersInv'
<1>0. PaymentInv /\ PayrollTypeOK /\ StellarTypeOK
  BY PayrollTypes DEF PayersSound, PayrollSound
<1>1. CASE UNCHANGED payrollVars
  <2>1. UNCHANGED <<stellarVars, rowVars, pc, ctx, job, itemStatus>>
    BY <1>1 DEF payrollVars, payVars, itemVars
  <2>2. \A e \in Envelopes : MayMove(e)' => MayMove(e) /\ envPays'[e] = envPays[e]
    BY <2>1 DEF MayMove, stellarVars
  <2> QED
    BY <2>1, <2>2, StillGrows, NobodyActs
<1>2. CASE Network /\ UNCHANGED <<batchStatus, itemVars, job>>
  <2>1. [Next]_payVars
    BY <1>2 DEF Next
  <2>2. LedgerGrows
    BY <1>0, <2>1, LedgerStep
  <2>3. \A e \in Envelopes : MayMove(e)' => MayMove(e) /\ envPays'[e] = envPays[e]
    BY <1>0, <1>2 DEF Network, NetworkStep, Apply, Drop, MayMove, StellarTypeOK
  <2> QED
    BY <1>2, <2>2, <2>3, NobodyActs DEF Network, NoRowChange, itemVars
<1>3. ASSUME NEW w \in Workers, ProcessStep(w) PROVE FALSE
  BY <1>3, ProcessFlow
  DEF PayersSound, ClaimInv, PayerPlaces, PayPlaces, Processing, Preparing, Running
<1>4. ASSUME NEW w \in Workers, PaymentStep(w) PROVE PayersInv'
  <2>1. CASE CallStep(w)
    <3>1. [Next]_payVars
      BY <2>1 DEF Next
    <3>2. LedgerGrows /\ RowsGrow
      BY <1>0, <3>1, LedgerStep, RowsStep
    <3> QED
      BY <1>4, <2>1, <3>2, CallKeeps DEF PaymentStep
  <2>2. CASE ~CallStep(w)
    BY <1>4, <2>2, PollKeeps DEF PaymentStep
  <2> QED
    BY <2>1, <2>2
<1> QED
  BY <1>1, <1>2, <1>3, <1>4, PayKeeps, OtherKeeps, WhoSteps

LEMMA PayersInvInit == PayrollInit => PayersInv
<1> SUFFICES ASSUME PayrollInit PROVE PayersInv
  OBVIOUS
<1>1. /\ \A w \in Workers : job[w] = NoJob /\ pc[w] = "idle"
      /\ \A e \in Envelopes : ~MayMove(e)
      /\ \A i \in Items : itemStatus[i] \in {"none", "pending"}
      /\ \A r \in Rows : rowStatus[r] = "none" /\ rowFor[r] = None
  BY DEF PayrollInit, Init, StellarInit, MayMove
<1>2. Recorded /\ RowsOwed
  BY <1>1 DEF Recorded, RowsOwed
<1>3. ASSUME NEW i \in Items PROVE ItemSafe(i)
  <2>1. i # None
    BY PaymentAssumption, PayrollAssumption
  <2>2. NoRowOf(i) /\ AllFailed(i) /\ OneRowOf(i) /\ NoneMoves(i)
    BY <1>1, <2>1 DEF NoRowOf, AllFailed, OneRowOf, NoneMoves
  <2> QED
    BY <1>1, <2>2 DEF ItemSafe
<1>4. ASSUME NEW w \in Workers PROVE PayerSafe(w)
  BY <1>1, <1>4
  DEF PayerSafe, ClaimSafe, NoJob, PayItemPlaces, PayerPlaces, PayPlaces, Asking, Confirming
<1> QED
  BY <1>2, <1>3, <1>4 DEF PayersInv

LEMMA PayersSoundAlways ==
  ASSUME PayersApart
  PROVE  PayrollSpec => []PayersSound
<1>1. PayrollInit => PayersSound
  <2>1. PayrollInit => ClaimInv
    BY DEF PayrollInit, ClaimInv, NoJob, PayerPlaces, PayPlaces
  <2> QED
    BY <2>1, PayersInvInit, PayrollInitSound DEF PayersSound
<1>2. PayersSound /\ [PayrollNext]_payrollVars => PayersSound'
  BY PayersInvStep, PayrollStepSound, ClaimInvStep DEF PayersSound, PayersApart
<1> QED
  BY <1>1, <1>2, PTL DEF PayrollSpec

\* "an indeterminate failure can be reconciled later instead of blindly
\* re-paid": whatever Horizon answers and wherever a payer dies, an item that
\* failed while its payment landed or still may has the hash of that payment,
\* on itself or on a row of its own.
THEOREM UnknownOutcomesKept ==
  ASSUME PayersApart
  PROVE  PayrollSpec => []UnknownOutcomeKeepsHash
<1>1. PayersSound => UnknownOutcomeKeepsHash
  <2> SUFFICES ASSUME PayersSound, NEW i \in Items, NEW e \in Envelopes, Live(e), i \in envPays[e]
               PROVE  \E r \in Rows : rowFor[r] = i /\ rowHash[r] = e
    BY DEF UnknownOutcomeKeepsHash
  <2>1. MayMove(e) /\ e # None
    BY PaymentAssumption DEF Live, MayMove
  <2> PICK r \in Rows : rowHash[r] = e
    BY <2>1 DEF PayersSound, PayersInv, Recorded
  <2>2. rowFor[r] = i
    BY <2>1 DEF PayersSound, PayrollSound, PaymentInv, RowsSound
  <2> QED
    BY <2>2
<1> QED
  BY PayersSoundAlways, <1>1, PTL

\* payPayrollItem: no item is paid by two envelopes of the ledger.  A failed one
\* is paid again only when nothing may pay it: it was never signed for, its
\* envelope failed or was dropped, or Horizon was asked and knows it as failed.
THEOREM ItemsPaidOnce ==
  ASSUME PayersApart
  PROVE  PayrollSpec => []NoDoublePay
<1>1. PayersSound => NoDoublePay
  <2> SUFFICES ASSUME PayersSound, NEW o \in Obligations, NEW e \in Landed(o), NEW f \in Landed(o)
               PROVE  e = f
    BY DEF NoDoublePay
  <2>1. MayMove(e) /\ MayMove(f) /\ e \in Envelopes /\ f \in Envelopes
        /\ o \in envPays[e] /\ o \in envPays[f]
    BY DEF Landed, MayMove
  <2> PICK r \in Rows : rowHash[r] = e
    BY <2>1 DEF PayersSound, PayersInv, Recorded
  <2>2. rowFor[r] = o /\ o \in Items
    BY <2>1, PaymentAssumption
    DEF PayersSound, PayersInv, RowsOwed, PayrollSound, PaymentInv, RowsSound
  <2> QED
    BY <2>1, <2>2 DEF PayersSound, PayersInv, ItemSafe
<1> QED
  BY PayersSoundAlways, <1>1, PTL
===============================================================================
