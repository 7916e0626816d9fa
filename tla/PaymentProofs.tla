--------------------------- MODULE PaymentProofs ---------------------------
(***************************************************************************)
(* Theorems about PaymentExecution, for every set of rows, envelopes,      *)
(* workers and obligations, every way Horizon may answer, every number of  *)
(* failed writes and crashes, and every entry point a worker may serve.    *)
(* That a row is executed by one call at a time, that a request is paid at *)
(* most once and that the service keeps PaymentPromise does not hold       *)
(* whatever the clients do and Horizon answers; conditions with names say  *)
(* for which loads those are proved.                                       *)
(***************************************************************************)
EXTENDS PaymentExecution, FiniteSetTheorems, TLAPS

-----------------------------------------------------------------------------
(* Type correctness. *)

\* Steps on the ledger keep its types.
LEMMA SignType ==
  ASSUME NEW e \in Envelopes, NEW seq \in Nat, NEW pays \in SUBSET Obligations,
         StellarTypeOK, Sign(e, seq, pays)
  PROVE  StellarTypeOK'
  BY DEF Sign, StellarTypeOK, EnvStates

LEMMA SubmitType ==
  ASSUME NEW e, StellarTypeOK, Submit(e)
  PROVE  StellarTypeOK'
  BY DEF Submit, StellarTypeOK, EnvStates

LEMMA NetworkType ==
  ASSUME StellarTypeOK, NetworkStep
  PROVE  StellarTypeOK'
  BY DEF NetworkStep, Apply, Drop, StellarTypeOK, EnvStates

\* What a call remembers is a context when it begins.
LEMMA BeginType ==
  ASSUME NEW mode \in Modes, NEW r \in Rows \cup {None},
         NEW e \in Envelopes \cup {None}
  PROVE  Begin(mode, r, e) \in Contexts
  BY DEF Begin, Contexts, ErrorCodes

LEMMA IdleType == Idle \in Contexts
  BY BeginType DEF Idle, Modes

\* One field of what worker w remembers is assigned.
LEMMA RowUpdate ==
  ASSUME NEW w \in Workers, ctx \in [Workers -> Contexts], NEW x \in Rows,
         ctx' = [ctx EXCEPT ![w].row = x]
  PROVE  ctx' \in [Workers -> Contexts]
  BY DEF Contexts

LEMMA EnvUpdate ==
  ASSUME NEW w \in Workers, ctx \in [Workers -> Contexts], NEW x \in Envelopes \cup {None},
         ctx' = [ctx EXCEPT ![w].env = x]
  PROVE  ctx' \in [Workers -> Contexts]
  BY DEF Contexts

LEMMA SeqUpdate ==
  ASSUME NEW w \in Workers, ctx \in [Workers -> Contexts], NEW x \in Nat,
         ctx' = [ctx EXCEPT ![w].seq = x]
  PROVE  ctx' \in [Workers -> Contexts]
  BY DEF Contexts

LEMMA AttemptUpdate ==
  ASSUME NEW w \in Workers, ctx \in [Workers -> Contexts], NEW x \in 0..2,
         ctx' = [ctx EXCEPT ![w].attempt = x]
  PROVE  ctx' \in [Workers -> Contexts]
  BY DEF Contexts

LEMMA ErrUpdate ==
  ASSUME NEW w \in Workers, ctx \in [Workers -> Contexts], NEW x \in ErrorCodes,
         ctx' = [ctx EXCEPT ![w].err = x]
  PROVE  ctx' \in [Workers -> Contexts]
  BY DEF Contexts

RowTypeOK ==
  /\ rowStatus \in [Rows -> Statuses]
  /\ rowError \in [Rows -> ErrorCodes]
  /\ rowHash \in [Rows -> Envelopes \cup {None}]
  /\ rowFor \in [Rows -> Obligations \cup {None}]
  /\ rowType \in [Rows -> {"none", "stellar_payment", "treasury_batch_payout"}]

LEMMA SetRowType ==
  ASSUME RowTypeOK, NEW r, NEW status \in Statuses, NEW error, NEW hash,
         r \in Rows => error \in ErrorCodes /\ hash \in Envelopes \cup {None},
         SetRow(r, status, error, hash)
  PROVE  RowTypeOK'
  BY DEF RowTypeOK, SetRow

LEMMA InitType == Init => TypeOK
<1> SUFFICES ASSUME Init PROVE TypeOK
  OBVIOUS
<1>1. StellarTypeOK
  BY DEF Init, StellarInit, StellarTypeOK, EnvStates
<1>2. RowTypeOK
  BY DEF Init, RowTypeOK, Statuses, ErrorCodes
<1>3. ctx \in [Workers -> Contexts]
  BY IdleType DEF Init
<1> QED
  BY <1>1, <1>2, <1>3 DEF Init, TypeOK, RowTypeOK, Many, Labels

\* An envelope is signed for a row that exists, so the types need the rest of
\* the invariant.
LEMMA TypeStep == PaymentInv /\ [Next]_payVars => TypeOK'
<1> SUFFICES ASSUME TypeOK, RowsSound, \A w \in Workers : CallSound(w),
                    [Next]_payVars
             PROVE  TypeOK'
  BY DEF PaymentInv
<1> USE DEF TypeOK, Goto, NoRowChange, rowVars, budget, Statuses, Labels, ErrorCodes
<1>1. CASE Network
  BY <1>1, NetworkType DEF Network
<1>2. CASE UNCHANGED payVars
  BY <1>2 DEF payVars, stellarVars, StellarTypeOK
<1>3. ASSUME NEW w \in Workers, StartPayment(w) \/ StartPayout(w)
      PROVE  TypeOK'
  <2> PICK r \in Rows, o \in Obligations :
        CreatePayment(w, r, o) \/ CreatePayout(w, r, o)
    BY <1>3 DEF StartPayment, StartPayout
  <2>1. Begin("payment", r, None) \in Contexts /\ Begin("payout", r, None) \in Contexts
    BY BeginType DEF Modes
  <2> QED
    BY <2>1 DEF CreatePayment, CreatePayout, NewRow, stellarVars, StellarTypeOK
<1>4. ASSUME NEW w \in Workers, Poll(w) \/ Rebuild(w)
      PROVE  TypeOK'
  <2> PICK r \in Rows : StartPoll(w, r) \/ StartRebuild(w, r)
    BY <1>4 DEF Poll, Rebuild
  <2>1. Begin("poll", r, rowHash[r]) \in Contexts
        /\ Begin("rebuild", r, rowHash[r]) \in Contexts
    BY BeginType DEF Modes
  <2> QED
    BY <2>1 DEF StartPoll, StartRebuild, stellarVars, StellarTypeOK
<1>5. ASSUME NEW w \in Workers, ReconcileJob(w) PROVE TypeOK'
  BY <1>5 DEF ReconcileJob, payVars, stellarVars, StellarTypeOK
<1>6. ASSUME NEW w \in Workers, End(w) \/ Crash(w) PROVE TypeOK'
  BY <1>6, IdleType DEF End, Crash, stellarVars, StellarTypeOK
<1>7. ASSUME NEW w \in Workers, CallStep(w) PROVE TypeOK'
  <2> DEFINE r == ctx[w].row
             e == ctx[w].env
  <2> USE DEF WriteFails, Throw
  <2>0. /\ RowTypeOK /\ ctx[w] \in Contexts
        /\ UNCHANGED rowVars => RowTypeOK'
        /\ UNCHANGED stellarVars => StellarTypeOK'
        /\ r \in Rows => rowError[r] \in ErrorCodes /\ rowHash[r] \in Envelopes \cup {None}
        /\ e \in Envelopes \cup {None}
        /\ ctx[w].err \in ErrorCodes
    BY DEF RowTypeOK, stellarVars, StellarTypeOK, Contexts
  <2>1. CASE MarkSubmitted(w)
    <3>1. RowTypeOK'
      BY <2>0, <2>1 DEF MarkSubmitted, SetRow, RowTypeOK
    <3> QED
      BY <2>0, <2>1, <3>1 DEF MarkSubmitted, RowTypeOK
  <2>2. CASE LoadAccount(w)
    <3>1. ctx' \in [Workers -> Contexts]
      <4>1. \/ ctx' = [ctx EXCEPT ![w].seq = accountSeq]
            \/ ctx' = [ctx EXCEPT ![w].err = "PAYMENT_FAILED"]
        BY <2>2 DEF LoadAccount
      <4> QED
        BY <2>0, <4>1, SeqUpdate, ErrUpdate DEF StellarTypeOK
    <3> QED
      BY <2>0, <2>2, <3>1 DEF LoadAccount, RowTypeOK
  <2>3. CASE SignAndRecordHash(w)
    <3>1. CASE \E x \in Envelopes :
                 /\ Sign(x, ctx[w].seq, {rowFor[r]})
                 /\ SetRow(r, rowStatus[r], rowError[r], x)
                 /\ Goto(w, "submit")
                 /\ ctx' = [ctx EXCEPT ![w].env = x]
                 /\ UNCHANGED <<completions, budget>>
      <4> PICK x \in Envelopes :
                 /\ Sign(x, ctx[w].seq, {rowFor[r]})
                 /\ SetRow(r, rowStatus[r], rowError[r], x)
                 /\ Goto(w, "submit")
                 /\ ctx' = [ctx EXCEPT ![w].env = x]
                 /\ UNCHANGED <<completions, budget>>
        BY <3>1
      <4>1. StellarTypeOK'
        <5>1. rowFor[r] \in Obligations
          BY <2>3 DEF SignAndRecordHash, CallSound, RowsSound
        <5>2. ctx[w].seq \in Nat
          BY <2>0 DEF Contexts
        <5> QED
          BY <5>1, <5>2, SignType
      <4> QED
        BY <2>0, <4>1, EnvUpdate DEF SetRow
    <3>2. CASE UNCHANGED stellarVars /\ Throw(w, "PAYMENT_FAILED") /\ NoRowChange
               /\ (UNCHANGED budget \/ WriteFails)
      <4>1. ctx' \in [Workers -> Contexts]
        BY <2>0, <3>2, ErrUpdate
      <4> QED
        BY <2>0, <3>2, <4>1 DEF RowTypeOK
    <3> QED
      BY <2>3, <3>1, <3>2 DEF SignAndRecordHash
  <2>4. CASE SubmitEnvelope(w)
    <3>1. ctx' \in [Workers -> Contexts]
      <4>1. \/ ctx' = [ctx EXCEPT ![w].attempt = 1]
        BY <2>4 DEF SubmitEnvelope
      <4> QED
        BY <2>0, <4>1, AttemptUpdate
    <3> QED
      BY <2>0, <2>4, <3>1, SubmitType DEF SubmitEnvelope, RowTypeOK
  <2>5. CASE ReceiveAnswer(w)
    <3>1. StellarTypeOK'
      BY <2>0, <2>5, SubmitType DEF ReceiveAnswer
    <3>2. ctx' \in [Workers -> Contexts]
      <4>1. \/ ctx' = ctx
            \/ ctx' = [ctx EXCEPT ![w].err = "PAYMENT_FAILED"]
            \/ ctx' = [ctx EXCEPT ![w].err = "SUBMISSION_TIMEOUT"]
            \/ ctx[w].attempt < 2 /\ ctx' = [ctx EXCEPT ![w].attempt = @ + 1]
        BY <2>5 DEF ReceiveAnswer, IndeterminateCode
      <4> QED
        BY <2>0, <4>1, AttemptUpdate, ErrUpdate DEF Contexts
    <3> QED
      BY <2>0, <2>5, <3>1, <3>2 DEF ReceiveAnswer, RowTypeOK
  <2>6. CASE MarkProcessing(w)
    <3>1. RowTypeOK'
      BY <2>0, <2>6 DEF MarkProcessing, SetRow, RowTypeOK
    <3>2. ctx' \in [Workers -> Contexts]
      <4>1. \/ ctx' = ctx
            \/ ctx' = [ctx EXCEPT ![w].err = "PAYMENT_FAILED"]
        BY <2>6 DEF MarkProcessing
      <4> QED
        BY <2>0, <4>1, ErrUpdate
    <3> QED
      BY <2>0, <2>6, <3>1, <3>2 DEF MarkProcessing, RowTypeOK
  <2>7. CASE RecordFailure(w)
    <3>1. RowTypeOK'
      BY <2>0, <2>7 DEF RecordFailure, SetRow, RowTypeOK
    <3>2. ctx' \in [Workers -> Contexts]
      BY <2>0, <2>7, ErrUpdate DEF RecordFailure
    <3> QED
      <4>1. completions' = completions /\ faults' \in Nat /\ crashes' \in Nat
        BY <2>7 DEF RecordFailure
      <4>2. StellarTypeOK' /\ pc' \in [Workers -> Labels]
        BY <2>0, <2>7 DEF RecordFailure
      <4> QED
        BY <3>1, <3>2, <4>1, <4>2 DEF RowTypeOK
  <2>8. CASE LookUp(w)
    <3>1. ctx' \in [Workers -> Contexts]
      <4>1. \/ ctx' = ctx
            \/ \E x \in Rows : ctx' = [ctx EXCEPT ![w].row = x]
            \/ ctx' = [ctx EXCEPT ![w].env = None]
        BY <2>8 DEF LookUp
      <4> QED
        BY <2>0, <4>1, RowUpdate, EnvUpdate
    <3> QED
      BY <2>0, <2>8, <3>1 DEF LookUp, OnStatusError, RowTypeOK
  <2>9. CASE ClaimOutcome(w) \/ ClaimOutcomeFails(w)
    <3>1. RowTypeOK'
      BY <2>0, <2>9 DEF ClaimOutcome, ClaimOutcomeFails, SetRow, RowTypeOK
    <3>2. completions' \in [Rows -> 0..Many]
      BY <2>9 DEF ClaimOutcome, ClaimOutcomeFails, Many
    <3> QED
      BY <2>0, <2>9, <3>1, <3>2
      DEF ClaimOutcome, ClaimOutcomeFails, OnStatusError, RowTypeOK
  <2>10. CASE VerifyNotLanded(w)
    BY <2>0, <2>10 DEF VerifyNotLanded, RowTypeOK
  <2>11. CASE Reclaim(w)
    <3>1. RowTypeOK'
      BY <2>0, <2>11 DEF Reclaim, SetRow, RowTypeOK
    <3> QED
      BY <2>0, <2>11, <3>1 DEF Reclaim, RowTypeOK
  <2> QED
    BY <1>7, <2>1, <2>2, <2>3, <2>4, <2>5, <2>6, <2>7, <2>8, <2>9, <2>10, <2>11
    DEF CallStep
<1> QED
  BY <1>1, <1>2, <1>3, <1>4, <1>5, <1>6, <1>7 DEF Next

-----------------------------------------------------------------------------
(* What no step undoes. *)

\* The ledger's outcomes and the content of signed envelopes are final.
LedgerGrows ==
  \A e \in Envelopes :
    /\ envState[e] # "unused" => envState'[e] # "unused" /\ envPays'[e] = envPays[e]
    /\ OnLedger(e) => envState'[e] = envState[e]

\* A row that exists stays, and stays for the same obligation.
RowsGrow ==
  \A r \in Rows :
    rowStatus[r] # "none" => rowStatus'[r] # "none" /\ rowFor'[r] = rowFor[r]

LEMMA LedgerStep == PaymentInv /\ [Next]_payVars => LedgerGrows
<1> SUFFICES ASSUME PaymentInv, [Next]_payVars PROVE LedgerGrows
  OBVIOUS
<1>1. StellarTypeOK
  BY DEF PaymentInv, TypeOK
<1>2. CASE UNCHANGED stellarVars
  BY <1>2 DEF LedgerGrows, stellarVars
<1>3. CASE NetworkStep
  BY <1>1, <1>3 DEF NetworkStep, Apply, Drop, LedgerGrows, OnLedger, StellarTypeOK
<1>4. ASSUME NEW e, Submit(e) PROVE LedgerGrows
  BY <1>1, <1>4 DEF Submit, LedgerGrows, OnLedger, StellarTypeOK
<1>5. ASSUME NEW e \in Envelopes, NEW seq, NEW pays, Sign(e, seq, pays)
      PROVE  LedgerGrows
  BY <1>1, <1>5 DEF Sign, LedgerGrows, OnLedger, StellarTypeOK
<1>6. \/ UNCHANGED stellarVars \/ NetworkStep
      \/ \E w \in Workers : SignAndRecordHash(w) \/ SubmitEnvelope(w) \/ ReceiveAnswer(w)
  BY DEF Next, payVars, Network, StartPayment, CreatePayment, StartPayout, CreatePayout,
     Poll, StartPoll, Rebuild, StartRebuild, ReconcileJob, CallStep, MarkSubmitted,
     LoadAccount, MarkProcessing, RecordFailure, LookUp, ClaimOutcome,
     ClaimOutcomeFails, VerifyNotLanded, Reclaim, End, Crash
<1> QED
  BY <1>2, <1>3, <1>4, <1>5, <1>6 DEF SignAndRecordHash, SubmitEnvelope, ReceiveAnswer

LEMMA RowsStep == PaymentInv /\ [Next]_payVars => RowsGrow
<1> SUFFICES ASSUME PaymentInv, [Next]_payVars PROVE RowsGrow
  OBVIOUS
<1>1. RowTypeOK
  BY DEF PaymentInv, TypeOK, RowTypeOK
<1>2. CASE UNCHANGED rowVars
  BY <1>2 DEF RowsGrow, rowVars
<1>3. ASSUME NEW r, NEW status, NEW error, NEW hash,
             SetRow(r, status, error, hash), status # "none" \/ status = rowStatus[r]
      PROVE  RowsGrow
  BY <1>1, <1>3 DEF RowsGrow, SetRow, RowTypeOK
<1>4. ASSUME NEW r, NEW status, NEW type, NEW o, NewRow(r, status, type, o)
      PROVE  RowsGrow
  BY <1>1, <1>4 DEF RowsGrow, NewRow, RowTypeOK
<1>5. CASE Network
  BY <1>2, <1>5 DEF Network, NoRowChange
<1>6. CASE UNCHANGED payVars
  BY <1>2, <1>6 DEF payVars
<1>7. ASSUME NEW w \in Workers,
             StartPayment(w) \/ StartPayout(w) \/ Poll(w) \/ Rebuild(w)
               \/ ReconcileJob(w) \/ End(w) \/ Crash(w)
      PROVE  RowsGrow
  BY <1>2, <1>4, <1>7 DEF StartPayment, CreatePayment, StartPayout, CreatePayout, Poll,
     StartPoll, Rebuild, StartRebuild, ReconcileJob, End, Crash, NoRowChange, payVars
<1>8. ASSUME NEW w \in Workers, CallStep(w) PROVE RowsGrow
  <2>1. CASE MarkSubmitted(w) \/ MarkProcessing(w) \/ RecordFailure(w) \/ Reclaim(w)
    BY <1>2, <1>3, <2>1 DEF MarkSubmitted, MarkProcessing, RecordFailure, Reclaim,
       NoRowChange
  <2>2. CASE SignAndRecordHash(w)
    BY <1>2, <1>3, <2>2 DEF SignAndRecordHash, NoRowChange
  <2>3. CASE ClaimOutcome(w) \/ ClaimOutcomeFails(w)
    BY <1>2, <1>3, <2>3 DEF ClaimOutcome, ClaimOutcomeFails, NoRowChange
  <2>4. CASE LoadAccount(w) \/ SubmitEnvelope(w) \/ ReceiveAnswer(w) \/ LookUp(w)
               \/ VerifyNotLanded(w)
    BY <1>2, <2>4 DEF LoadAccount, SubmitEnvelope, ReceiveAnswer, LookUp,
       VerifyNotLanded, NoRowChange
  <2> QED
    BY <1>8, <2>1, <2>2, <2>3, <2>4 DEF CallStep
<1> QED
  BY <1>5, <1>6, <1>7, <1>8 DEF Next

\* Money that moved has moved.
LEMMA PaidStays ==
  ASSUME LedgerGrows, NEW o, Paid(o)
  PROVE  Paid(o)'
  BY DEF Paid, Landed, LedgerGrows, OnLedger

\* A call that takes no step stays sound while others step.
LEMMA OtherCall ==
  ASSUME LedgerGrows, RowsGrow, NEW v \in Workers, CallSound(v),
         pc'[v] = pc[v], ctx'[v] = ctx[v]
  PROVE  CallSound(v)'
  BY DEF CallSound, LedgerGrows, RowsGrow, OnLedger

-----------------------------------------------------------------------------
(* The inductive invariant. *)

LEMMA InitInv == Init => PaymentInv
<1> SUFFICES ASSUME Init PROVE PaymentInv
  OBVIOUS
<1>1. TypeOK
  BY InitType
<1>2. RowsSound /\ ReportedPaidIsPaid
  BY DEF Init, RowsSound, ReportedPaidIsPaid
<1>3. \A w \in Workers : CallSound(w)
  BY DEF Init, CallSound
<1> QED
  BY <1>1, <1>2, <1>3 DEF PaymentInv

\* What the call that acts remembers is true when it resumes.
LEMMA ActingCall ==
  ASSUME PaymentInv, LedgerGrows, RowsGrow, NEW w \in Workers, CallStep(w)
  PROVE  CallSound(w)'
<1> DEFINE r == ctx[w].row
           e == ctx[w].env
<1>0. /\ CallSound(w) /\ RowsSound
      /\ pc \in [Workers -> Labels] /\ ctx \in [Workers -> Contexts]
      /\ RowTypeOK /\ StellarTypeOK
  BY DEF PaymentInv, TypeOK, RowTypeOK
<1>1. CASE MarkSubmitted(w)
  BY <1>0, <1>1 DEF MarkSubmitted, Goto, CallSound, RowsGrow
<1>2. CASE LoadAccount(w)
  BY <1>0, <1>2 DEF LoadAccount, Goto, Throw, CallSound, RowsGrow, Contexts
<1>3. CASE SignAndRecordHash(w)
  BY <1>0, <1>3 DEF SignAndRecordHash, Sign, Goto, Throw, CallSound, RowsGrow,
     Contexts, SetRow, StellarTypeOK
<1>4. CASE SubmitEnvelope(w)
  BY <1>0, <1>4 DEF SubmitEnvelope, Goto, CallSound, RowsGrow, LedgerGrows, Contexts
<1>5. CASE ReceiveAnswer(w)
  BY <1>0, <1>5 DEF ReceiveAnswer, Goto, Throw, CallSound, RowsGrow, LedgerGrows,
     Contexts, MayAnswer, OnLedger
<1>6. CASE MarkProcessing(w)
  BY <1>0, <1>6 DEF MarkProcessing, Goto, Throw, CallSound, RowsGrow, LedgerGrows, Contexts
<1>7. CASE RecordFailure(w)
  BY <1>0, <1>7 DEF RecordFailure, Goto, CallSound
<1>8. CASE LookUp(w)
  <2>1. CASE \E x \in Rows : /\ OnLedger(e) /\ rowHash[x] = e
                           /\ Goto(w, "claim") /\ ctx' = [ctx EXCEPT ![w].row = x]
    <3> PICK x \in Rows : /\ OnLedger(e) /\ rowHash[x] = e
                         /\ Goto(w, "claim") /\ ctx' = [ctx EXCEPT ![w].row = x]
      BY <2>1
    <3>1. e \in Envelopes /\ rowHash[x] # None
      BY <1>0, <1>8, PaymentAssumption DEF LookUp, CallSound
    <3>2. rowStatus[x] # "none" /\ envPays[e] = {rowFor[x]}
      BY <1>0, <3>1 DEF RowsSound
    <3>3. pc'[w] = "claim" /\ ctx'[w].row = x /\ ctx'[w].env = e
      BY <1>0 DEF Goto, Contexts
    <3> QED
      BY <3>1, <3>2, <3>3 DEF CallSound, RowsGrow, LedgerGrows, OnLedger
  <2>2. CASE Goto(w, "done") \/ Goto(w, "threw")
    BY <1>0, <2>2 DEF Goto, CallSound
  <2> QED
    BY <1>8, <2>1, <2>2 DEF LookUp, OnStatusError
<1>9. CASE ClaimOutcome(w) \/ ClaimOutcomeFails(w)
  BY <1>0, <1>9 DEF ClaimOutcome, ClaimOutcomeFails, Goto, CallSound, OnStatusError
<1>10. CASE VerifyNotLanded(w)
  BY <1>0, <1>10 DEF VerifyNotLanded, Goto, CallSound, RowsGrow
<1>11. CASE Reclaim(w)
  BY <1>0, <1>11 DEF Reclaim, Goto, CallSound, RowsGrow
<1> QED
  BY <1>1, <1>2, <1>3, <1>4, <1>5, <1>6, <1>7, <1>8, <1>9, <1>10, <1>11 DEF CallStep

\* One step leaves the other calls alone.
LEMMA CallsStep ==
  PaymentInv /\ [Next]_payVars => \A v \in Workers : CallSound(v)'
<1> SUFFICES ASSUME PaymentInv, [Next]_payVars, NEW v \in Workers PROVE CallSound(v)'
  OBVIOUS
<1>0. /\ CallSound(v) /\ LedgerGrows /\ RowsGrow /\ RowsSound /\ RowTypeOK
      /\ pc \in [Workers -> Labels] /\ ctx \in [Workers -> Contexts]
  BY LedgerStep, RowsStep DEF PaymentInv, TypeOK, RowTypeOK
<1>1. CASE pc'[v] = pc[v] /\ ctx'[v] = ctx[v]
  BY <1>0, <1>1, OtherCall
<1>2. CASE UNCHANGED payVars \/ Network
  BY <1>1, <1>2 DEF payVars, Network
<1>3. ASSUME NEW w \in Workers, StartPayment(w) \/ StartPayout(w)
      PROVE  CallSound(v)'
  <2> PICK r \in Rows, o \in Obligations :
        CreatePayment(w, r, o) \/ CreatePayout(w, r, o)
    BY <1>3 DEF StartPayment, StartPayout
  <2>1. CASE v = w
    BY <1>0, <2>1 DEF CreatePayment, CreatePayout, NewRow, Goto, CallSound, Begin, RowTypeOK
  <2> QED
    BY <1>0, <1>1, <2>1 DEF CreatePayment, CreatePayout, Goto
<1>4. ASSUME NEW w \in Workers, Poll(w) \/ Rebuild(w)
      PROVE  CallSound(v)'
  <2> PICK r \in Rows : StartPoll(w, r) \/ StartRebuild(w, r)
    BY <1>4 DEF Poll, Rebuild
  <2>1. CASE v = w
    <3>1. /\ UNCHANGED stellarVars /\ UNCHANGED rowVars
          /\ ctx'[w].row = r /\ ctx'[w].env = rowHash[r]
          /\ rowStatus[r] # "none"
          /\ \/ pc'[w] \in {"lookup", "verify"} /\ rowHash[r] # None
             \/ pc'[w] = "reclaim"
      BY <1>0 DEF StartPoll, StartRebuild, NoRowChange, Goto, Begin
    <3> QED
      BY <1>0, <2>1, <3>1 DEF RowsSound, CallSound, rowVars, stellarVars, RowTypeOK
  <2> QED
    BY <1>0, <1>1, <2>1 DEF StartPoll, StartRebuild, Goto
<1>5. ASSUME NEW w \in Workers, ReconcileJob(w) PROVE CallSound(v)'
  BY <1>1, <1>5 DEF ReconcileJob, payVars
<1>6. ASSUME NEW w \in Workers, End(w) \/ Crash(w) PROVE CallSound(v)'
  BY <1>0, <1>1, <1>6 DEF End, Crash, Goto, CallSound
<1>7. ASSUME NEW w \in Workers, CallStep(w) PROVE CallSound(v)'
  <2>1. CASE v = w
    BY <1>0, <1>7, <2>1, ActingCall
  <2>2. CASE v # w
    BY <1>0, <1>1, <1>7, <2>2 DEF CallStep, MarkSubmitted, LoadAccount, SignAndRecordHash,
       SubmitEnvelope, ReceiveAnswer, MarkProcessing, RecordFailure, LookUp, ClaimOutcome,
       ClaimOutcomeFails, VerifyNotLanded, Reclaim, Goto, Throw
  <2> QED
    BY <2>1, <2>2
<1> QED
  BY <1>2, <1>3, <1>4, <1>5, <1>6, <1>7 DEF Next

\* A hash on a row names an envelope signed for what the row is to pay.
LEMMA RowsSoundStep == PaymentInv /\ [Next]_payVars => RowsSound'
<1> SUFFICES ASSUME PaymentInv, [Next]_payVars PROVE RowsSound'
  OBVIOUS
<1>0. /\ \A w \in Workers : CallSound(w)
      /\ LedgerGrows /\ RowsGrow /\ RowsSound /\ RowTypeOK /\ StellarTypeOK
      /\ ctx \in [Workers -> Contexts] /\ completions \in [Rows -> 0..Many]
  BY LedgerStep, RowsStep DEF PaymentInv, TypeOK, RowTypeOK
<1>1. CASE UNCHANGED <<rowVars, completions>>
  BY <1>0, <1>1 DEF rowVars, RowsSound, LedgerGrows, RowTypeOK
\* A write to a row leaves its hash, or sets that of a sound envelope.
<1>2. ASSUME NEW r \in Rows, NEW status, NEW error, NEW hash,
             SetRow(r, status, error, hash), status # "none", rowStatus[r] # "none",
             \/ hash = rowHash[r]
             \/ /\ hash \in Envelopes /\ envState'[hash] # "unused"
                /\ envPays'[hash] = {rowFor[r]},
             \A s \in Rows : s # r => completions'[s] = completions[s]
      PROVE  RowsSound'
  BY <1>0, <1>2 DEF SetRow, RowsSound, LedgerGrows, RowTypeOK
<1>3. ASSUME NEW r \in Rows, NEW status, NEW type, NEW o \in Obligations,
             status # "none", NewRow(r, status, type, o)
      PROVE  RowsSound'
  BY <1>0, <1>3 DEF NewRow, RowsSound, LedgerGrows, RowTypeOK
<1>4. CASE UNCHANGED payVars \/ Network
  BY <1>1, <1>4 DEF payVars, Network, NoRowChange
<1>5. ASSUME NEW w \in Workers,
             StartPayment(w) \/ StartPayout(w) \/ Poll(w) \/ Rebuild(w)
               \/ ReconcileJob(w) \/ End(w) \/ Crash(w)
      PROVE  RowsSound'
  BY <1>1, <1>3, <1>5 DEF StartPayment, CreatePayment, StartPayout, CreatePayout, Poll,
     StartPoll, Rebuild, StartRebuild, ReconcileJob, End, Crash, NoRowChange, payVars
<1>6. ASSUME NEW w \in Workers, CallStep(w) PROVE RowsSound'
  <2>0. pc[w] \in {"created", "sign", "record", "fail", "reclaim", "claim"}
          => ctx[w].row \in Rows /\ rowStatus[ctx[w].row] # "none"
    BY <1>0 DEF CallSound
  <2>1. CASE MarkSubmitted(w) \/ RecordFailure(w) \/ Reclaim(w)
    BY <1>1, <1>2, <2>0, <2>1 DEF MarkSubmitted, RecordFailure, Reclaim, NoRowChange
  <2>2. CASE SignAndRecordHash(w)
    <3>1. CASE NoRowChange
      BY <1>1, <3>1 DEF NoRowChange
    <3>2. ASSUME NEW x \in Envelopes, Sign(x, ctx[w].seq, {rowFor[ctx[w].row]})
          PROVE  envState'[x] # "unused" /\ envPays'[x] = {rowFor[ctx[w].row]}
      BY <1>0, <3>2 DEF Sign, StellarTypeOK
    <3> QED
      BY <1>0, <1>2, <2>0, <2>2, <3>1, <3>2 DEF SignAndRecordHash
  <2>3. CASE MarkProcessing(w)
    <3>1. CASE NoRowChange
      BY <1>1, <3>1 DEF NoRowChange
    <3>2. /\ ctx[w].env \in Envelopes /\ envState'[ctx[w].env] # "unused"
          /\ envPays'[ctx[w].env] = {rowFor[ctx[w].row]}
      BY <1>0, <2>3 DEF MarkProcessing, CallSound, LedgerGrows
    <3> QED
      BY <1>2, <2>0, <2>3, <3>1, <3>2 DEF MarkProcessing
  <2>4. CASE ClaimOutcome(w) \/ ClaimOutcomeFails(w)
    BY <1>0, <1>1, <1>2, <2>0, <2>4 DEF ClaimOutcome, ClaimOutcomeFails, NoRowChange
  <2>5. CASE LoadAccount(w) \/ SubmitEnvelope(w) \/ ReceiveAnswer(w) \/ LookUp(w)
               \/ VerifyNotLanded(w)
    BY <1>1, <2>5 DEF LoadAccount, SubmitEnvelope, ReceiveAnswer, LookUp,
       VerifyNotLanded, NoRowChange
  <2> QED
    BY <1>6, <2>1, <2>2, <2>3, <2>4, <2>5 DEF CallStep
<1> QED
  BY <1>4, <1>5, <1>6 DEF Next

\* Only MarkProcessing and ClaimOutcome report money as moved, and both hold
\* an envelope that the ledger has applied.
LEMMA ReportedStep == PaymentInv /\ [Next]_payVars => ReportedPaidIsPaid'
<1> SUFFICES ASSUME PaymentInv, [Next]_payVars PROVE ReportedPaidIsPaid'
  OBVIOUS
<1>0. /\ \A w \in Workers : CallSound(w)
      /\ LedgerGrows /\ RowsGrow /\ ReportedPaidIsPaid /\ RowsSound
      /\ RowTypeOK /\ StellarTypeOK
      /\ ctx \in [Workers -> Contexts] /\ completions \in [Rows -> 0..Many]
  BY LedgerStep, RowsStep DEF PaymentInv, TypeOK, RowTypeOK
\* A row whose obligation was paid keeps it so.
<1>1. ASSUME NEW s \in Rows, Paid(rowFor[s]), rowFor'[s] = rowFor[s]
      PROVE  Paid(rowFor[s])'
  <2>1. Paid(rowFor[s])
    BY <1>1
  <2> DEFINE o == rowFor[s]
  <2>2. PICK x \in Envelopes : envState[x] = "success" /\ o \in envPays[x]
    BY <2>1 DEF Paid, Landed
  <2>3. envState'[x] = "success" /\ o \in envPays'[x]
    BY <1>0, <2>2 DEF LedgerGrows, OnLedger
  <2> QED
    BY <1>1, <2>3 DEF Paid, Landed
<1>2. ASSUME NEW s \in Rows, NEW x \in Envelopes, envState[x] = "success",
             envPays[x] = {rowFor[s]}, rowStatus[s] # "none"
      PROVE  Paid(rowFor[s])'
  BY <1>0, <1>1, <1>2 DEF Paid, Landed, RowsGrow
<1>3. CASE UNCHANGED <<rowVars, completions>>
  BY <1>0, <1>1, <1>3 DEF rowVars, ReportedPaidIsPaid
<1>4. ASSUME NEW r \in Rows, NEW status, NEW error, NEW hash,
             SetRow(r, status, error, hash),
             \/ Paid(rowFor[r])'
             \/ /\ status = rowStatus[r] \/ status \notin {"processing", "successful"}
                /\ completions'[r] = completions[r],
             \A s \in Rows : s # r => completions'[s] = completions[s]
      PROVE  ReportedPaidIsPaid'
  <2> SUFFICES ASSUME NEW s \in Rows,
                      \/ rowStatus'[s] \in {"processing", "successful"}
                      \/ completions'[s] > 0
               PROVE  Paid(rowFor[s])'
    BY DEF ReportedPaidIsPaid
  <2>1. rowFor'[s] = rowFor[s]
    BY <1>4 DEF SetRow
  <2>2. CASE s = r
    BY <1>0, <1>1, <1>4, <2>1, <2>2 DEF SetRow, ReportedPaidIsPaid, RowTypeOK
  <2>3. CASE s # r
    BY <1>0, <1>1, <1>4, <2>1, <2>3 DEF SetRow, ReportedPaidIsPaid, RowTypeOK
  <2> QED
    BY <2>2, <2>3
<1>5. ASSUME NEW r \in Rows, NEW status, NEW type, NEW o,
             status \notin {"processing", "successful"}, NewRow(r, status, type, o)
      PROVE  ReportedPaidIsPaid'
  <2> SUFFICES ASSUME NEW s \in Rows,
                      \/ rowStatus'[s] \in {"processing", "successful"}
                      \/ completions'[s] > 0
               PROVE  Paid(rowFor[s])'
    BY DEF ReportedPaidIsPaid
  <2>1. s # r
    BY <1>0, <1>5 DEF NewRow, RowsSound, RowTypeOK
  <2> QED
    BY <1>0, <1>1, <1>5, <2>1 DEF NewRow, ReportedPaidIsPaid, RowTypeOK
<1>6. CASE UNCHANGED payVars \/ Network
  BY <1>3, <1>6 DEF payVars, Network, NoRowChange
<1>7. ASSUME NEW w \in Workers,
             StartPayment(w) \/ StartPayout(w) \/ Poll(w) \/ Rebuild(w)
               \/ ReconcileJob(w) \/ End(w) \/ Crash(w)
      PROVE  ReportedPaidIsPaid'
  BY <1>3, <1>5, <1>7 DEF StartPayment, CreatePayment, StartPayout, CreatePayout, Poll,
     StartPoll, Rebuild, StartRebuild, ReconcileJob, End, Crash, NoRowChange, payVars
<1>8. ASSUME NEW w \in Workers, CallStep(w) PROVE ReportedPaidIsPaid'
  <2>0. pc[w] \in {"created", "sign", "record", "fail", "reclaim", "claim"}
          => ctx[w].row \in Rows /\ rowStatus[ctx[w].row] # "none"
    BY <1>0 DEF CallSound
  <2>1. CASE MarkSubmitted(w) \/ RecordFailure(w) \/ Reclaim(w)
    BY <1>3, <1>4, <2>0, <2>1 DEF MarkSubmitted, RecordFailure, Reclaim, NoRowChange
  <2>2. CASE SignAndRecordHash(w)
    BY <1>3, <1>4, <2>0, <2>2 DEF SignAndRecordHash, NoRowChange
  <2>3. CASE MarkProcessing(w)
    <3>1. CASE NoRowChange
      BY <1>3, <3>1 DEF NoRowChange
    <3> PICK r \in Rows : r = ctx[w].row
      BY <2>0, <2>3 DEF MarkProcessing
    <3>2. Paid(rowFor[r])'
      BY <1>0, <1>2, <2>0, <2>3 DEF MarkProcessing, CallSound
    <3> QED
      BY <1>4, <2>3, <3>1, <3>2 DEF MarkProcessing
  <2>4. CASE ClaimOutcome(w) \/ ClaimOutcomeFails(w)
    <3>1. CASE NoRowChange
      BY <1>3, <3>1 DEF NoRowChange
    <3> PICK r \in Rows : r = ctx[w].row
      BY <2>0, <2>4 DEF ClaimOutcome, ClaimOutcomeFails
    <3>2. envState[ctx[w].env] = "success" => Paid(rowFor[r])'
      BY <1>0, <1>2, <2>0, <2>4 DEF CallSound, ClaimOutcome, ClaimOutcomeFails
    <3> QED
      BY <1>0, <1>4, <2>4, <3>1, <3>2 DEF ClaimOutcome, ClaimOutcomeFails
  <2>5. CASE LoadAccount(w) \/ SubmitEnvelope(w) \/ ReceiveAnswer(w) \/ LookUp(w)
               \/ VerifyNotLanded(w)
    BY <1>3, <2>5 DEF LoadAccount, SubmitEnvelope, ReceiveAnswer, LookUp,
       VerifyNotLanded, NoRowChange
  <2> QED
    BY <1>8, <2>1, <2>2, <2>3, <2>4, <2>5 DEF CallStep
<1> QED
  BY <1>6, <1>7, <1>8 DEF Next

-----------------------------------------------------------------------------

\* What the rows, the calls and the ledger agree on is kept by every step of
\* every call, of the network, of a failing database and of a crash: the
\* inductive invariant that the other theorems rest on.
THEOREM PaymentInvariant == Spec => []PaymentInv
<1>1. PaymentInv /\ [Next]_payVars => PaymentInv'
  BY TypeStep, RowsSoundStep, CallsStep, ReportedStep DEF PaymentInv
<1> QED
  BY InitInv, <1>1, PTL DEF Spec

\* Every variable always has its type.
THEOREM TypeCorrect == Spec => []TypeOK
<1>1. PaymentInv => TypeOK
  BY DEF PaymentInv
<1> QED
  BY PaymentInvariant, <1>1, PTL

\* The status a client is shown is never ahead of the ledger, however calls,
\* pollers and rebuilds interleave, whatever Horizon answers, and whichever
\* writes fail or calls are cut off.
THEOREM ReportedPaid == Spec => []ReportedPaidIsPaid
<1>1. PaymentInv => ReportedPaidIsPaid
  BY DEF PaymentInv
<1> QED
  BY PaymentInvariant, <1>1, PTL

-----------------------------------------------------------------------------
(* Conditions on the load and on the environment. *)

\* No client asks for a row while it is 'processing'.
NoPolls == \A w \in Workers : "poll" \notin Calls[w]

\* Nobody rebuilds a failed payment.
NoRebuilds == \A w \in Workers : "rebuild" \notin Calls[w]

\* One call is served at a time.
OneCall == \A v, w \in Workers : v = w

\* Horizon answers every submission with an outcome.
DefiniteAnswers == Outcomes \subseteq {"success", "rejected"}

\* The loads under which a row's status is written by the call executing it.
OneWriter == NoPolls \/ OneCall

\* The loads under which a failed payment may be executed again.
SafeRetries ==
  \/ NoRebuilds
  \/ DefiniteAnswers /\ NoPolls /\ MaxFaults = 0
  \/ DefiniteAnswers /\ OneCall

-----------------------------------------------------------------------------
(* The parts of the inductive invariants. *)

\* A call that owns its row until it ends.
Holder(w) == pc[w] = "created" \/ Executing(w)

Unshared ==
  \A v, w \in Workers : Holder(v) /\ Holder(w) /\ ctx[v].row = ctx[w].row => v = w

\* A request has one row.
OneRowEach ==
  \A r, s \in Rows : rowFor[r] = rowFor[s] /\ rowFor[r] \in Obligations => r = s

\* The row of a call has the hash of the envelope the call submits.
HashKept ==
  \A w \in Workers :
    pc[w] \in {"submit", "await", "record"} => rowHash[ctx[w].row] = ctx[w].env

\* A call that reclaims a failed row finds nobody executing it.
ReclaimAlone ==
  \A v, w \in Workers :
    pc[v] = "reclaim" /\ rowStatus[ctx[v].row] = "failed" /\ Holder(w)
      => ctx[w].row # ctx[v].row

Told(r) == rowStatus[r] \in {"processing", "successful"}

\* The row of a call is in the status that the call gave it.
HolderStatus ==
  \A w \in Workers :
    /\ Executing(w) => rowStatus[ctx[w].row] = "submitted"
    /\ pc[w] = "created" => rowStatus[ctx[w].row] = "created"

\* A row that reports its payment names the envelope that landed.
ToldLanded ==
  \A r \in Rows : Told(r) => rowHash[r] # None /\ envState[rowHash[r]] = "success"

\* The row about to be claimed still has the hash it was found by.
ClaimedHash ==
  \A w \in Workers : pc[w] = "claim" => rowHash[ctx[w].row] = ctx[w].env

\* Without polls, only a payment that has reported its row looks it up.
ConfirmsTold ==
  OneCall \/ \A w \in Workers, r \in Rows :
               pc[w] \in {"lookup", "claim"} /\ rowHash[r] = ctx[w].env => Told(r)

\* What a row's status says of the calls that hold it, of its envelope, and of
\* the calls that are about to confirm it.
StatusInv == HolderStatus /\ ToldLanded /\ ClaimedHash /\ ConfirmsTold

-----------------------------------------------------------------------------
(* What a step does to the calls that hold a row. *)

\* A step leaves the holders of rows as they are, or one worker becomes the
\* holder of a new row or of a failed one.
LEMMA HolderStep ==
  ASSUME PaymentInv, [Next]_payVars
  PROVE  \/ \A v \in Workers : Holder(v)' => Holder(v) /\ ctx'[v].row = ctx[v].row
         \/ \E w \in Workers :
              /\ \A v \in Workers : v # w => pc'[v] = pc[v] /\ ctx'[v] = ctx[v]
              /\ \/ ctx'[w].row \in Rows /\ rowStatus[ctx'[w].row] = "none"
                 \/ /\ pc[w] = "reclaim" /\ rowStatus[ctx[w].row] = "failed"
                    /\ ctx'[w].row = ctx[w].row
<1> USE DEF Holder, Executing, Goto
<1>0. pc \in [Workers -> Labels] /\ ctx \in [Workers -> Contexts]
  BY DEF PaymentInv, TypeOK
<1>1. CASE UNCHANGED <<pc, ctx>>
  BY <1>1
<1>2. CASE Network \/ UNCHANGED payVars
  BY <1>1, <1>2 DEF Network, payVars
<1>3. ASSUME NEW w \in Workers, StartPayment(w) \/ StartPayout(w)
      PROVE  /\ \A v \in Workers : v # w => pc'[v] = pc[v] /\ ctx'[v] = ctx[v]
             /\ ctx'[w].row \in Rows /\ rowStatus[ctx'[w].row] = "none"
  BY <1>0, <1>3 DEF StartPayment, StartPayout, CreatePayment, CreatePayout, NewRow, Begin
<1>4. ASSUME NEW w \in Workers, Poll(w) \/ Rebuild(w) \/ End(w) \/ Crash(w)
      PROVE  \A v \in Workers : Holder(v)' => Holder(v) /\ ctx'[v].row = ctx[v].row
  BY <1>0, <1>4 DEF Poll, StartPoll, Rebuild, StartRebuild, End, Crash
<1>5. ASSUME NEW w \in Workers, ReconcileJob(w)
      PROVE  UNCHANGED <<pc, ctx>>
  BY <1>5 DEF ReconcileJob, payVars
<1>6. ASSUME NEW w \in Workers, LookUp(w) \/ ClaimOutcome(w) \/ ClaimOutcomeFails(w)
                                 \/ VerifyNotLanded(w)
      PROVE  \A v \in Workers : Holder(v)' => Holder(v) /\ ctx'[v].row = ctx[v].row
  BY <1>0, <1>6 DEF LookUp, ClaimOutcome, ClaimOutcomeFails, OnStatusError, VerifyNotLanded
<1>7. ASSUME NEW w \in Workers,
             MarkSubmitted(w) \/ LoadAccount(w) \/ SignAndRecordHash(w)
               \/ SubmitEnvelope(w) \/ ReceiveAnswer(w) \/ MarkProcessing(w)
               \/ RecordFailure(w)
      PROVE  \A v \in Workers : Holder(v)' => Holder(v) /\ ctx'[v].row = ctx[v].row
  BY <1>0, <1>7 DEF MarkSubmitted, LoadAccount, SignAndRecordHash, SubmitEnvelope,
     ReceiveAnswer, MarkProcessing, RecordFailure, Throw, Contexts
<1>8. ASSUME NEW w \in Workers, Reclaim(w)
      PROVE  \/ \A v \in Workers : Holder(v)' => Holder(v) /\ ctx'[v].row = ctx[v].row
             \/ /\ \A v \in Workers : v # w => pc'[v] = pc[v] /\ ctx'[v] = ctx[v]
                /\ pc[w] = "reclaim" /\ rowStatus[ctx[w].row] = "failed"
                /\ ctx'[w].row = ctx[w].row
  BY <1>0, <1>8 DEF Reclaim
<1> QED
  BY <1>1, <1>2, <1>3, <1>4, <1>5, <1>6, <1>7, <1>8 DEF Next, CallStep

\* A row has one holder as long as nobody reclaims the row of another.
LEMMA UnsharedStep ==
  ASSUME PaymentInv, [Next]_payVars, Unshared, ReclaimAlone
  PROVE  Unshared'
<1>1. \A v \in Workers : Holder(v) => rowStatus[ctx[v].row] # "none"
  BY DEF PaymentInv, CallSound, Holder, Executing
<1> QED
  BY <1>1, HolderStep DEF Unshared, ReclaimAlone, Holder, Executing

\* Every request gets a row of its own.
LEMMA OneRowEachStep ==
  ASSUME PaymentInv, [Next]_payVars, OneRowEach
  PROVE  OneRowEach'
<1>0. rowFor \in [Rows -> Obligations \cup {None}]
  BY DEF PaymentInv, TypeOK
<1>1. CASE UNCHANGED rowFor
  BY <1>1 DEF OneRowEach
<1>2. ASSUME NEW w \in Workers, StartPayment(w) \/ StartPayout(w)
      PROVE  OneRowEach'
  <2> PICK r \in Rows, o \in Obligations :
        Unasked(o) /\ rowFor' = [rowFor EXCEPT ![r] = o]
    BY <1>2 DEF StartPayment, StartPayout, CreatePayment, CreatePayout, NewRow
  <2> QED
    BY <1>0 DEF OneRowEach, Unasked
<1>3. ASSUME NEW w \in Workers, CallStep(w)
      PROVE  UNCHANGED rowFor
  BY <1>3 DEF CallStep, MarkSubmitted, LoadAccount, SignAndRecordHash, SubmitEnvelope,
     ReceiveAnswer, MarkProcessing, RecordFailure, LookUp, ClaimOutcome, ClaimOutcomeFails,
     VerifyNotLanded, Reclaim, SetRow, NoRowChange, rowVars
<1>4. ASSUME NEW w \in Workers, Poll(w) \/ Rebuild(w) \/ ReconcileJob(w) \/ End(w) \/ Crash(w)
      PROVE  UNCHANGED rowFor
  BY <1>4 DEF Poll, StartPoll, Rebuild, StartRebuild, ReconcileJob, End, Crash, payVars,
     NoRowChange, rowVars
<1>5. CASE Network \/ UNCHANGED payVars
  BY <1>1, <1>5 DEF Network, payVars, NoRowChange, rowVars
<1> QED
  BY <1>1, <1>2, <1>3, <1>4, <1>5 DEF Next
\* Between signing and the outcome, a call's row keeps the call's envelope.
LEMMA HashKeptStep ==
  ASSUME PaymentInv, [Next]_payVars, Unshared, HashKept
  PROVE  HashKept'
<1> SUFFICES ASSUME NEW v \in Workers, pc'[v] \in {"submit", "await", "record"}
             PROVE  rowHash'[ctx'[v].row] = ctx'[v].env
  BY DEF HashKept
<1> USE DEF Goto
<1>0. /\ pc \in [Workers -> Labels] /\ ctx \in [Workers -> Contexts] /\ RowTypeOK
      /\ RowsSound /\ \A w \in Workers : CallSound(w)
  BY DEF PaymentInv, TypeOK, RowTypeOK
<1>1. CASE UNCHANGED rowHash /\ pc'[v] = pc[v] /\ ctx'[v] = ctx[v]
  BY <1>1 DEF HashKept
<1>2. CASE Network \/ UNCHANGED payVars
  BY <1>1, <1>2 DEF Network, payVars, NoRowChange, rowVars
<1>3. ASSUME NEW w \in Workers,
             \/ StartPayment(w) \/ StartPayout(w) \/ Poll(w) \/ Rebuild(w)
             \/ ReconcileJob(w) \/ End(w) \/ Crash(w)
      PROVE  UNCHANGED rowHash /\ pc'[v] = pc[v] /\ ctx'[v] = ctx[v]
  BY <1>0, <1>3 DEF StartPayment, StartPayout, CreatePayment, CreatePayout, NewRow, Poll,
     StartPoll, Rebuild, StartRebuild, ReconcileJob, End, Crash, NoRowChange, rowVars, payVars
<1>4. ASSUME NEW w \in Workers,
             LoadAccount(w) \/ LookUp(w) \/ ClaimOutcomeFails(w) \/ VerifyNotLanded(w)
      PROVE  UNCHANGED rowHash /\ pc'[v] = pc[v] /\ ctx'[v] = ctx[v]
  BY <1>0, <1>4 DEF LoadAccount, LookUp, ClaimOutcomeFails, VerifyNotLanded, Throw,
     OnStatusError, NoRowChange, rowVars
<1>5. ASSUME NEW w \in Workers,
             MarkSubmitted(w) \/ RecordFailure(w) \/ ClaimOutcome(w) \/ Reclaim(w)
      PROVE  UNCHANGED rowHash /\ pc'[v] = pc[v] /\ ctx'[v] = ctx[v]
  BY <1>0, <1>5 DEF MarkSubmitted, RecordFailure, ClaimOutcome, Reclaim, SetRow, CallSound,
     NoRowChange, rowVars, RowTypeOK
<1>6. ASSUME NEW w \in Workers, SubmitEnvelope(w) \/ ReceiveAnswer(w)
      PROVE  rowHash'[ctx'[v].row] = ctx'[v].env
  BY <1>0, <1>6 DEF SubmitEnvelope, ReceiveAnswer, Throw, NoRowChange, rowVars, HashKept,
     Contexts
<1>7. ASSUME NEW w \in Workers, SignAndRecordHash(w) \/ MarkProcessing(w)
      PROVE  rowHash'[ctx'[v].row] = ctx'[v].env
  <2>1. CASE v = w
    BY <1>0, <1>7, <2>1 DEF SignAndRecordHash, MarkProcessing, Throw, SetRow, CallSound,
       RowTypeOK, Contexts
  <2>2. CASE v # w
    <3>1. pc'[v] = pc[v] /\ ctx'[v] = ctx[v] /\ ctx[v].row # ctx[w].row
      BY <1>0, <1>7, <2>2 DEF SignAndRecordHash, MarkProcessing, Throw, Unshared, Holder,
         Executing
    <3>2. rowHash'[ctx[v].row] = rowHash[ctx[v].row]
      BY <1>0, <1>7, <3>1 DEF SignAndRecordHash, MarkProcessing, SetRow, CallSound,
         NoRowChange, rowVars, RowTypeOK
    <3> QED
      BY <3>1, <3>2 DEF HashKept
  <2> QED
    BY <2>1, <2>2
<1> QED
  BY <1>1, <1>2, <1>3, <1>4, <1>5, <1>6, <1>7 DEF Next, CallStep

-----------------------------------------------------------------------------
(* One writer per row: what a row's status says. *)

\* An envelope stands on one row.
LEMMA OneRowPerHash ==
  ASSUME PaymentInv, OneRowEach, NEW r \in Rows, NEW s \in Rows,
         rowHash[r] = rowHash[s], rowHash[r] # None
  PROVE  r = s
<1>1. rowStatus[r] # "none" /\ rowStatus[s] # "none"
  BY DEF PaymentInv, RowsSound
<1>2. rowFor[r] \in Obligations /\ {rowFor[r]} = {rowFor[s]}
  BY <1>1 DEF PaymentInv, RowsSound
<1> QED
  BY <1>2 DEF OneRowEach

\* Under one writer nobody reclaims a row that is being executed.
LEMMA ReclaimAloneHere ==
  ASSUME StatusInv
  PROVE  ReclaimAlone
  BY DEF StatusInv, HolderStatus, ReclaimAlone, Holder
\* What holds when a step begins, as the lemmas of this part use it.
Before ==
  /\ PaymentInv /\ Unshared /\ OneRowEach /\ HashKept /\ StatusInv
  /\ LedgerGrows /\ RowsGrow

LEMMA BeforeTypes ==
  ASSUME Before
  PROVE  /\ pc \in [Workers -> Labels] /\ ctx \in [Workers -> Contexts]
         /\ RowTypeOK /\ StellarTypeOK /\ faults \in Nat
         /\ RowsSound /\ \A w \in Workers : CallSound(w)
  BY DEF Before, PaymentInv, TypeOK, RowTypeOK

\* The row that an envelope looked up stands on is claimed only when it has
\* reported its payment, or when there is no other call.
LEMMA ClaimsTold ==
  ASSUME Before, NEW w \in Workers, pc[w] = "claim", ~OneCall
  PROVE  Told(ctx[w].row) /\ envState[ctx[w].env] = "success"
<1>1. ctx[w].row \in Rows /\ rowHash[ctx[w].row] = ctx[w].env
  BY BeforeTypes DEF Before, StatusInv, ClaimedHash, CallSound
<1>2. Told(ctx[w].row)
  BY <1>1 DEF Before, StatusInv, ConfirmsTold
<1> QED
  BY <1>1, <1>2 DEF Before, StatusInv, ToldLanded

\* Where a call writes to its row.
WritesRow(w) ==
  \/ pc[w] \in {"created", "sign", "record", "fail", "claim"}
  \/ pc[w] = "reclaim" /\ rowStatus[ctx[w].row] = "failed"

\* A row is written by the call that holds it, or when nobody does.
LEMMA WriterRow ==
  ASSUME Before, NEW v \in Workers, NEW w \in Workers, v # w, Holder(v),
         WritesRow(w)
  PROVE  ctx[v].row # ctx[w].row
<1>1. CASE pc[w] \in {"created", "sign", "record", "fail"}
  BY <1>1 DEF Before, Unshared, Holder, Executing
<1>2. CASE pc[w] = "claim"
  <2>1. Told(ctx[w].row)
    BY <1>2, ClaimsTold DEF OneCall
  <2> QED
    BY <2>1 DEF Told, Before, StatusInv, HolderStatus, Holder
<1>3. CASE pc[w] = "reclaim" /\ rowStatus[ctx[w].row] = "failed"
  BY <1>3 DEF Before, StatusInv, HolderStatus, Holder
<1> QED
  BY <1>1, <1>2, <1>3 DEF WritesRow

\* What a step of a call leaves alone when it writes to its row.
OwnRowOnly(w) ==
  /\ \A s \in Rows : s # ctx[w].row => rowStatus'[s] = rowStatus[s] /\ rowHash'[s] = rowHash[s]
  /\ rowFor' = rowFor

\* A step of a call writes to its own row at most.
LEMMA OneRowWritten ==
  ASSUME NEW w \in Workers, CallStep(w), RowTypeOK
  PROVE  \/ UNCHANGED <<rowStatus, rowHash, rowFor>>
         \/ WritesRow(w) /\ OwnRowOnly(w)
<1>1. ASSUME NEW r, NEW status, NEW error, NEW hash, SetRow(r, status, error, hash), r = ctx[w].row
      PROVE  OwnRowOnly(w)
  BY <1>1 DEF SetRow, OwnRowOnly, RowTypeOK
<1>2. CASE MarkSubmitted(w) \/ RecordFailure(w)
  BY <1>1, <1>2 DEF MarkSubmitted, RecordFailure, NoRowChange, rowVars, WritesRow
<1>3. CASE SignAndRecordHash(w) \/ MarkProcessing(w)
  BY <1>1, <1>3 DEF SignAndRecordHash, MarkProcessing, NoRowChange, rowVars, WritesRow
<1>4. CASE ClaimOutcome(w) \/ Reclaim(w)
  BY <1>1, <1>4 DEF ClaimOutcome, Reclaim, NoRowChange, rowVars, WritesRow
<1>5. CASE LoadAccount(w) \/ SubmitEnvelope(w) \/ ReceiveAnswer(w) \/ LookUp(w)
             \/ ClaimOutcomeFails(w) \/ VerifyNotLanded(w)
  BY <1>5 DEF LoadAccount, SubmitEnvelope, ReceiveAnswer, LookUp, ClaimOutcomeFails,
     VerifyNotLanded, NoRowChange, rowVars
<1> QED
  BY <1>2, <1>3, <1>4, <1>5 DEF CallStep

\* A step of a call is nobody else's.
LEMMA OthersWait ==
  ASSUME NEW v \in Workers, NEW w \in Workers, v # w, CallStep(w),
         pc \in [Workers -> Labels], ctx \in [Workers -> Contexts]
  PROVE  pc'[v] = pc[v] /\ ctx'[v] = ctx[v]
  BY DEF CallStep, MarkSubmitted, LoadAccount, SignAndRecordHash, SubmitEnvelope,
     ReceiveAnswer, MarkProcessing, RecordFailure, LookUp, ClaimOutcome, ClaimOutcomeFails,
     VerifyNotLanded, Reclaim, Goto, Throw

LEMMA HolderStatusStep ==
  ASSUME Before, [Next]_payVars
  PROVE  HolderStatus'
<1> SUFFICES ASSUME NEW v \in Workers, Holder(v)'
             PROVE  /\ Executing(v)' => rowStatus'[ctx'[v].row] = "submitted"
                    /\ pc'[v] = "created" => rowStatus'[ctx'[v].row] = "created"
  BY DEF HolderStatus, Holder
<1> DEFINE Good == /\ Executing(v)' => rowStatus'[ctx'[v].row] = "submitted"
                   /\ pc'[v] = "created" => rowStatus'[ctx'[v].row] = "created"
<1> USE DEF Goto, Executing, Holder
<1>0. /\ pc \in [Workers -> Labels] /\ ctx \in [Workers -> Contexts] /\ RowTypeOK
      /\ \A w \in Workers : CallSound(w)
      /\ HolderStatus
  BY BeforeTypes DEF Before, StatusInv
<1>1. CASE /\ pc'[v] = pc[v] /\ ctx'[v] = ctx[v]
           /\ rowStatus'[ctx[v].row] = rowStatus[ctx[v].row]
  BY <1>0, <1>1 DEF HolderStatus
<1>2. CASE Network \/ UNCHANGED payVars
  BY <1>1, <1>2 DEF Network, payVars, NoRowChange, rowVars
<1>3. ASSUME NEW w \in Workers, StartPayment(w) \/ StartPayout(w)
      PROVE  Good
  BY <1>0, <1>3 DEF StartPayment, StartPayout, CreatePayment, CreatePayout, NewRow, Begin,
     HolderStatus, CallSound, RowTypeOK
<1>4. ASSUME NEW w \in Workers,
             Poll(w) \/ Rebuild(w) \/ ReconcileJob(w) \/ End(w) \/ Crash(w)
      PROVE  Good
  BY <1>0, <1>4 DEF Poll, StartPoll, Rebuild, StartRebuild, ReconcileJob, End, Crash,
     NoRowChange, rowVars, payVars, HolderStatus
<1>5. ASSUME NEW w \in Workers,
             LoadAccount(w) \/ SubmitEnvelope(w) \/ ReceiveAnswer(w) \/ LookUp(w)
               \/ ClaimOutcomeFails(w) \/ VerifyNotLanded(w)
      PROVE  Good
  BY <1>0, <1>5 DEF LoadAccount, SubmitEnvelope, ReceiveAnswer, LookUp, ClaimOutcomeFails,
     VerifyNotLanded, Throw, OnStatusError, NoRowChange, rowVars, HolderStatus, Contexts
<1>6. ASSUME NEW w \in Workers,
             MarkSubmitted(w) \/ SignAndRecordHash(w) \/ MarkProcessing(w)
               \/ RecordFailure(w) \/ ClaimOutcome(w) \/ Reclaim(w)
      PROVE  Good
  <2>1. CASE v = w
    BY <1>0, <1>6, <2>1 DEF MarkSubmitted, SignAndRecordHash, MarkProcessing, RecordFailure,
       ClaimOutcome, Reclaim, Throw, SetRow, NoRowChange, rowVars, HolderStatus, CallSound,
       RowTypeOK, Contexts
  <2>2. CASE v # w
    <3>1. CallStep(w)
      BY <1>6 DEF CallStep
    <3>2. pc'[v] = pc[v] /\ ctx'[v] = ctx[v] /\ ctx[v].row \in Rows
      BY <1>0, <2>2, <3>1, OthersWait DEF CallSound
    <3> QED
      BY <1>0, <1>1, <2>2, <3>1, <3>2, OneRowWritten, WriterRow DEF OwnRowOnly
  <2> QED
    BY <2>1, <2>2
<1> QED
  BY <1>2, <1>3, <1>4, <1>5, <1>6 DEF Next, CallStep

\* What a worker does when it takes no step of a call: it waits, or leaves,
\* or begins to create a row, to poll or to rebuild.
Waits(v) == pc'[v] = pc[v] /\ ctx'[v] = ctx[v]
Leaves(v) == pc'[v] = "idle"
Creates(v) ==
  /\ pc'[v] \in {"created", "load"}
  /\ ctx'[v].row \in Rows /\ rowStatus[ctx'[v].row] = "none"
Polls(v) == "poll" \in Calls[v] /\ pc'[v] = "lookup"
Rebuilds(v) ==
  /\ "rebuild" \in Calls[v]
  /\ ctx'[v].row \in Rows /\ rowStatus[ctx'[v].row] = "failed"
  /\ ctx'[v].env = rowHash[ctx'[v].row]
  /\ pc'[v] = IF rowHash[ctx'[v].row] = None THEN "reclaim" ELSE "verify"

\* A step that is no step of a call changes no row but one that it creates, and
\* no envelope but one in flight.
Between ==
  /\ rowHash' = rowHash
  /\ \A e \in Envelopes : envState[e] # "inflight" => envState'[e] = envState[e]
  /\ \A r \in Rows : \/ rowStatus'[r] = rowStatus[r]
                     \/ rowStatus[r] = "none" /\ rowStatus'[r] \in {"created", "submitted"}
  /\ \A v \in Workers : Waits(v) \/ Leaves(v) \/ Creates(v) \/ Polls(v) \/ Rebuilds(v)

LEMMA OtherSteps ==
  ASSUME PaymentInv, [Next]_payVars
  PROVE  Between \/ \E w \in Workers : CallStep(w)
<1> USE DEF Between, Waits, Leaves, Creates, Polls, Rebuilds, Goto
<1>0. /\ pc \in [Workers -> Labels] /\ ctx \in [Workers -> Contexts] /\ RowTypeOK
      /\ envState \in [Envelopes -> EnvStates]
  BY DEF PaymentInv, TypeOK, RowTypeOK, StellarTypeOK
<1>1. CASE Network \/ UNCHANGED payVars
  BY <1>0, <1>1 DEF Network, NetworkStep, Apply, Drop, stellarVars, payVars, NoRowChange,
     rowVars
<1>2. ASSUME NEW w \in Workers, StartPayment(w) \/ StartPayout(w) PROVE Between
  BY <1>0, <1>2 DEF StartPayment, StartPayout, CreatePayment, CreatePayout, NewRow, Begin,
     RowTypeOK, stellarVars
<1>3. ASSUME NEW w \in Workers, Poll(w) \/ Rebuild(w) PROVE Between
  BY <1>0, <1>3 DEF Poll, StartPoll, Rebuild, StartRebuild, Begin, NoRowChange, rowVars,
     stellarVars
<1>4. ASSUME NEW w \in Workers, ReconcileJob(w) \/ End(w) \/ Crash(w) PROVE Between
  BY <1>0, <1>4 DEF ReconcileJob, End, Crash, payVars, NoRowChange, rowVars, stellarVars
<1> QED
  BY <1>1, <1>2, <1>3, <1>4 DEF Next

LEMMA ToldLandedStep ==
  ASSUME Before, [Next]_payVars
  PROVE  ToldLanded'
<1> SUFFICES ASSUME NEW r \in Rows, Told(r)'
             PROVE  rowHash'[r] # None /\ envState'[rowHash'[r]] = "success"
  BY DEF ToldLanded
<1>0. /\ RowTypeOK /\ LedgerGrows /\ ToldLanded /\ HolderStatus /\ ClaimedHash
      /\ \A w \in Workers : CallSound(w)
  BY BeforeTypes DEF Before, StatusInv
<1>1. CASE rowHash'[r] = rowHash[r] /\ Told(r)
  BY <1>0, <1>1 DEF ToldLanded, LedgerGrows, OnLedger, RowTypeOK
<1>2. CASE Between
  BY <1>1, <1>2 DEF Between, Told
<1>3. ASSUME NEW w \in Workers, CallStep(w)
      PROVE  rowHash'[r] # None /\ envState'[rowHash'[r]] = "success"
  <2>1. CASE r # ctx[w].row \/ UNCHANGED <<rowStatus, rowHash>>
    BY <1>0, <1>1, <1>3, <2>1, OneRowWritten DEF OwnRowOnly, Told
  <2>2. CASE r = ctx[w].row
    <3>1. CASE MarkSubmitted(w) \/ RecordFailure(w) \/ Reclaim(w)
      BY <1>0, <2>1, <2>2, <3>1 DEF MarkSubmitted, RecordFailure, Reclaim, SetRow,
         NoRowChange, rowVars, RowTypeOK, Told
    <3>2. CASE SignAndRecordHash(w)
      BY <1>0, <2>1, <2>2, <3>2 DEF SignAndRecordHash, SetRow, NoRowChange, rowVars,
         RowTypeOK, HolderStatus, Executing, Told
    <3>3. CASE MarkProcessing(w)
      <4>1. /\ ctx[w].env \in Envelopes /\ ctx[w].env # None
            /\ envState'[ctx[w].env] = "success"
        BY <1>0, <3>3, PaymentAssumption DEF MarkProcessing, CallSound, LedgerGrows, OnLedger
      <4> QED
        BY <1>0, <2>1, <2>2, <3>3, <4>1 DEF MarkProcessing, SetRow, NoRowChange, rowVars,
           RowTypeOK
    <3>4. CASE ClaimOutcome(w)
      <4>1. rowHash[r] = ctx[w].env /\ ctx[w].env \in Envelopes /\ ctx[w].env # None
        BY <1>0, <2>2, <3>4, PaymentAssumption DEF ClaimOutcome, ClaimedHash, CallSound
      <4>2. envState[ctx[w].env] = "success" => envState'[ctx[w].env] = "success"
        BY <1>0, <4>1 DEF LedgerGrows, OnLedger
      <4> QED
        BY <1>0, <2>1, <2>2, <3>4, <4>1, <4>2 DEF ClaimOutcome, SetRow, NoRowChange,
           rowVars, RowTypeOK, Told
    <3>5. CASE LoadAccount(w) \/ SubmitEnvelope(w) \/ ReceiveAnswer(w) \/ LookUp(w)
                 \/ ClaimOutcomeFails(w) \/ VerifyNotLanded(w)
      BY <2>1, <3>5 DEF LoadAccount, SubmitEnvelope, ReceiveAnswer, LookUp,
         ClaimOutcomeFails, VerifyNotLanded, NoRowChange, rowVars
    <3> QED
      BY <1>3, <3>1, <3>2, <3>3, <3>4, <3>5 DEF CallStep
  <2> QED
    BY <2>1, <2>2
<1> QED
  BY <1>2, <1>3, OtherSteps DEF Before

LEMMA ClaimedHashStep ==
  ASSUME Before, [Next]_payVars
  PROVE  ClaimedHash'
<1> SUFFICES ASSUME NEW v \in Workers, pc'[v] = "claim"
             PROVE  rowHash'[ctx'[v].row] = ctx'[v].env
  BY DEF ClaimedHash
<1>0. /\ pc \in [Workers -> Labels] /\ ctx \in [Workers -> Contexts] /\ RowTypeOK
      /\ HolderStatus /\ ClaimedHash /\ \A w \in Workers : CallSound(w)
  BY BeforeTypes DEF Before, StatusInv
<1>1. CASE Between
  BY <1>0, <1>1 DEF Between, Waits, Leaves, Creates, Polls, Rebuilds, ClaimedHash
<1>2. ASSUME NEW w \in Workers, CallStep(w)
      PROVE  rowHash'[ctx'[v].row] = ctx'[v].env
  <2>1. CASE v = w
    \* Only LookUp leads to "claim", with a row that has the hash.
    <3>1. LookUp(w)
      BY <1>0, <1>2, <2>1 DEF CallStep, MarkSubmitted, LoadAccount, SignAndRecordHash,
         SubmitEnvelope, ReceiveAnswer, MarkProcessing, RecordFailure, ClaimOutcome,
         ClaimOutcomeFails, VerifyNotLanded, Reclaim, Goto, Throw, OnStatusError
    <3> QED
      BY <1>0, <2>1, <3>1 DEF LookUp, Goto, OnStatusError, NoRowChange, rowVars, Contexts
  <2>2. CASE v # w
    <3>1. pc[v] = "claim" /\ ctx'[v] = ctx[v] /\ ctx[v].row \in Rows
      BY <1>0, <1>2, <2>2, OthersWait DEF CallSound
    <3>2. Told(ctx[v].row)
      BY <2>2, <3>1, ClaimsTold DEF OneCall
    <3>3. CASE ctx[v].row # ctx[w].row \/ UNCHANGED rowHash
      BY <1>0, <1>2, <3>1, <3>3, OneRowWritten DEF OwnRowOnly, ClaimedHash
    <3>4. CASE ctx[v].row = ctx[w].row
      <4>1. pc[w] \notin {"sign", "record"}
        BY <1>0, <3>2, <3>4 DEF HolderStatus, Executing, Told
      <4>2. UNCHANGED rowHash
        BY <1>0, <1>2, <3>1, <3>4, <4>1 DEF CallStep, MarkSubmitted, LoadAccount,
           SignAndRecordHash, SubmitEnvelope, ReceiveAnswer, MarkProcessing, RecordFailure,
           LookUp, ClaimOutcome, ClaimOutcomeFails, VerifyNotLanded, Reclaim, SetRow,
           NoRowChange, rowVars, RowTypeOK
      <4> QED
        BY <3>3, <4>2
    <3> QED
      BY <3>3, <3>4
  <2> QED
    BY <2>1, <2>2
<1> QED
  BY <1>1, <1>2, OtherSteps DEF Before

LEMMA ConfirmsToldStep ==
  ASSUME Before, [Next]_payVars, OneWriter
  PROVE  ConfirmsTold'
<1> SUFFICES ASSUME ~OneCall, NEW v \in Workers, NEW r \in Rows,
                    pc'[v] \in {"lookup", "claim"}, rowHash'[r] = ctx'[v].env
             PROVE  Told(r)'
  BY DEF ConfirmsTold, OneCall
<1>0. /\ pc \in [Workers -> Labels] /\ ctx \in [Workers -> Contexts] /\ RowTypeOK
      /\ RowsSound /\ HolderStatus /\ ToldLanded /\ ClaimedHash /\ NoPolls
      /\ \A w \in Workers : CallSound(w)
      /\ \A w \in Workers, s \in Rows :
           pc[w] \in {"lookup", "claim"} /\ rowHash[s] = ctx[w].env => Told(s)
  BY BeforeTypes DEF Before, StatusInv, ConfirmsTold, OneWriter
<1>1. CASE Between
  BY <1>0, <1>1 DEF Between, Waits, Leaves, Creates, Polls, Rebuilds, NoPolls, Told
<1>2. ASSUME NEW w \in Workers, CallStep(w)
      PROVE  Told(r)'
  <2>1. CASE /\ pc[v] \in {"lookup", "claim"} /\ ctx'[v].env = ctx[v].env
    <3>0. ctx[v].env \in Envelopes /\ ctx[v].env # None /\ envState[ctx[v].env] # "unused"
      BY <1>0, <2>1, PaymentAssumption DEF CallSound
    <3>1. CASE r # ctx[w].row \/ UNCHANGED <<rowStatus, rowHash>>
      BY <1>0, <1>2, <2>1, <3>1, OneRowWritten DEF OwnRowOnly, Told
    <3>2. CASE r = ctx[w].row
      <4>1. CASE MarkSubmitted(w) \/ RecordFailure(w) \/ Reclaim(w)
        <5>1. rowHash'[r] = rowHash[r] /\ (~Told(r) \/ rowStatus'[r] = rowStatus[r])
          BY <1>0, <3>2, <4>1 DEF MarkSubmitted, RecordFailure, Reclaim, SetRow, NoRowChange,
             rowVars, RowTypeOK, HolderStatus, Executing, Told
        <5> QED
          BY <1>0, <2>1, <5>1 DEF Told
      <4>2. CASE SignAndRecordHash(w)
        \* The envelope that is signed is new, the one looked up is not.
        BY <1>0, <2>1, <3>0, <3>1, <3>2, <4>2 DEF SignAndRecordHash, Sign, SetRow,
           NoRowChange, rowVars, RowTypeOK
      <4>3. CASE MarkProcessing(w)
        BY <1>0, <3>1, <3>2, <4>3 DEF MarkProcessing, SetRow, NoRowChange, rowVars,
           RowTypeOK, Told
      <4>4. CASE ClaimOutcome(w)
        <5>1. envState[ctx[w].env] = "success"
          BY <4>4, ClaimsTold DEF ClaimOutcome
        <5> QED
          BY <1>0, <3>1, <3>2, <4>4, <5>1 DEF ClaimOutcome, SetRow, NoRowChange, rowVars,
             RowTypeOK, Told
      <4>5. CASE LoadAccount(w) \/ SubmitEnvelope(w) \/ ReceiveAnswer(w) \/ LookUp(w)
                   \/ ClaimOutcomeFails(w) \/ VerifyNotLanded(w)
        BY <3>1, <4>5 DEF LoadAccount, SubmitEnvelope, ReceiveAnswer, LookUp,
           ClaimOutcomeFails, VerifyNotLanded, NoRowChange, rowVars
      <4> QED
        BY <1>2, <4>1, <4>2, <4>3, <4>4, <4>5 DEF CallStep
    <3> QED
      BY <3>1, <3>2
  <2>2. CASE v # w
    BY <1>0, <1>2, <2>1, <2>2, OthersWait
  <2>3. CASE v = w
    <3>1. LookUp(w) \/ MarkProcessing(w)
      BY <1>0, <1>2, <2>3 DEF CallStep, MarkSubmitted, LoadAccount, SignAndRecordHash,
         SubmitEnvelope, ReceiveAnswer, RecordFailure, ClaimOutcome,
         ClaimOutcomeFails, VerifyNotLanded, Reclaim, Goto, Throw, OnStatusError
    <3>2. CASE LookUp(w)
      BY <1>0, <2>1, <2>3, <3>2 DEF LookUp, Goto, OnStatusError, Contexts
    <3>3. CASE MarkProcessing(w)
      \* The row of the call is the only one with the hash of its envelope.
      <4>1. /\ SetRow(ctx[w].row, "processing", "none", ctx[w].env)
            /\ ctx' = ctx /\ pc[w] = "record"
        BY <1>0, <2>3, <3>3 DEF MarkProcessing, Goto, Throw
      <4>2. /\ ctx[w].row \in Rows /\ rowHash[ctx[w].row] = ctx[w].env
            /\ ctx[w].env # None
        BY <1>0, <4>1, PaymentAssumption DEF CallSound, Before, HashKept
      <4>3. rowHash'[r] = rowHash[r]
        BY <1>0, <4>1, <4>2 DEF SetRow, RowTypeOK
      <4>4. r = ctx[w].row
        BY <2>3, <4>1, <4>2, <4>3, OneRowPerHash DEF Before
      <4> QED
        BY <1>0, <4>1, <4>2, <4>4 DEF SetRow, RowTypeOK, Told
    <3> QED
      BY <3>1, <3>2, <3>3
  <2> QED
    BY <2>2, <2>3
<1> QED
  BY <1>1, <1>2, OtherSteps DEF Before

LEMMA StatusInvStep ==
  ASSUME PaymentInv, Unshared, OneRowEach, HashKept, StatusInv, OneWriter, [Next]_payVars
  PROVE  StatusInv'
<1>1. Before
  BY LedgerStep, RowsStep DEF Before
<1> QED
  BY <1>1, HolderStatusStep, ToldLandedStep, ClaimedHashStep, ConfirmsToldStep DEF StatusInv

-----------------------------------------------------------------------------
(* One call per row. *)

\* Where nobody rebuilds, no call is on its way to execute a row again.
NoRetry == NoRebuilds /\ \A w \in Workers : pc[w] \notin {"verify", "reclaim"}

LEMMA NoRetryStep ==
  ASSUME PaymentInv, NoRetry, [Next]_payVars
  PROVE  NoRetry'
<1>0. pc \in [Workers -> Labels]
  BY DEF PaymentInv, TypeOK
<1>1. CASE Between
  BY <1>1 DEF Between, Waits, Leaves, Creates, Polls, Rebuilds, NoRetry, NoRebuilds
<1>2. ASSUME NEW w \in Workers, CallStep(w) PROVE NoRetry'
  BY <1>0, <1>2 DEF CallStep, MarkSubmitted, LoadAccount, SignAndRecordHash, SubmitEnvelope,
     ReceiveAnswer, MarkProcessing, RecordFailure, LookUp, ClaimOutcome, ClaimOutcomeFails,
     VerifyNotLanded, Reclaim, Goto, Throw, OnStatusError, NoRetry
<1> QED
  BY <1>1, <1>2, OtherSteps

\* What excludes two executions of a row.
ExclusionInv == PaymentInv /\ Unshared /\ OneRowEach /\ HashKept /\ (NoRetry \/ StatusInv)

LEMMA ExclusionInit ==
  ASSUME Init, OneWriter \/ NoRebuilds
  PROVE  ExclusionInv /\ (OneWriter => StatusInv) /\ (NoRebuilds => NoRetry)
<1>1. OneWriter => StatusInv
  BY DEF Init, StatusInv, HolderStatus, ToldLanded, ClaimedHash, ConfirmsTold, Executing, Told
<1>2. NoRebuilds => NoRetry
  BY DEF Init, NoRetry
<1>3. Unshared /\ HashKept
  BY DEF Init, Unshared, HashKept, Holder, Executing
<1>4. OneRowEach
  BY PaymentAssumption DEF Init, OneRowEach
<1> QED
  BY <1>1, <1>2, <1>3, <1>4, InitInv DEF ExclusionInv

LEMMA ExclusionStep ==
  ASSUME ExclusionInv, [Next]_payVars
  PROVE  /\ PaymentInv' /\ Unshared' /\ OneRowEach' /\ HashKept'
         /\ NoRetry => NoRetry'
         /\ OneWriter /\ StatusInv => StatusInv'
<1>1. ReclaimAlone
  BY ReclaimAloneHere DEF ExclusionInv, NoRetry, ReclaimAlone
<1>2. PaymentInv'
  BY TypeStep, RowsSoundStep, CallsStep, ReportedStep DEF PaymentInv, ExclusionInv
<1>3. Unshared' /\ OneRowEach' /\ HashKept'
  BY <1>1, UnsharedStep, OneRowEachStep, HashKeptStep DEF ExclusionInv
<1> QED
  BY <1>2, <1>3, NoRetryStep, StatusInvStep DEF ExclusionInv

\* "two concurrent rebuilds can never both submit": as long as no client polls,
\* or nobody rebuilds, one call at a time executes a row, whatever Horizon
\* answers, whichever writes fail and wherever calls are cut off.
THEOREM OneExecution ==
  ASSUME NoPolls \/ NoRebuilds
  PROVE  Spec => []OneExecutionPerRow
<1> DEFINE Inv == ExclusionInv /\ (NoPolls => StatusInv) /\ (NoRebuilds => NoRetry)
<1>1. Init => Inv
  BY ExclusionInit DEF OneWriter
<1>2. Inv /\ [Next]_payVars => Inv'
  BY ExclusionStep DEF ExclusionInv, OneWriter, NoPolls, NoRebuilds
<1>3. Inv => OneExecutionPerRow
  BY DEF ExclusionInv, Unshared, OneExecutionPerRow, Holder
<1> QED
  BY <1>1, <1>2, <1>3, PTL DEF Spec

-----------------------------------------------------------------------------
(* Envelopes and rows. *)

\* The envelope of the row's last attempt, if any, is known to move no money.
Spent(r) == rowHash[r] = None \/ envState[rowHash[r]] \in {"dead", "failed"}

MayMove(e) == envState[e] \in {"signed", "inflight", "success"}

\* An envelope that may move money, or has, stands on a row.
Recorded == \A e \in Envelopes : MayMove(e) => \E r \in Rows : rowHash[r] = e

\* A call that is about to sign replaces no envelope that may move money.
FreshStart ==
  \A w \in Workers : pc[w] \in {"created", "load", "sign"} => Spent(ctx[w].row)

\* A failed row that is reclaimed is done with its envelope.
ReclaimSpent ==
  \A w \in Workers :
    pc[w] = "reclaim" /\ rowStatus[ctx[w].row] = "failed" => Spent(ctx[w].row)

Exclusive == PaymentInv /\ Unshared /\ OneRowEach /\ HashKept

LEMMA ExclusiveTypes ==
  ASSUME Exclusive
  PROVE  /\ pc \in [Workers -> Labels] /\ ctx \in [Workers -> Contexts]
         /\ RowTypeOK /\ StellarTypeOK /\ faults \in Nat
         /\ RowsSound /\ \A w \in Workers : CallSound(w)
  BY DEF Exclusive, PaymentInv, TypeOK, RowTypeOK

\* Only a submission revives an envelope, and it is that of the call's row.
LEMMA SpentStays ==
  ASSUME Exclusive, NEW w \in Workers, CallStep(w), NEW r \in Rows, Spent(r),
         rowHash'[r] = rowHash[r],
         r # ctx[w].row \/ pc[w] \notin {"submit", "await"}
  PROVE  Spent(r)'
<1>0. /\ RowTypeOK /\ StellarTypeOK /\ \A v \in Workers : CallSound(v)
  BY ExclusiveTypes
<1> DEFINE e == rowHash[r]
<1>1. CASE rowHash[r] = None \/ envState'[e] = envState[e]
  BY <1>1 DEF Spent
<1>2. CASE e \in Envelopes /\ (SubmitEnvelope(w) \/ ReceiveAnswer(w))
  <2>1. /\ ctx[w].row \in Rows /\ rowHash[ctx[w].row] = ctx[w].env
        /\ pc[w] \in {"submit", "await"}
    BY <1>0, <1>2 DEF SubmitEnvelope, ReceiveAnswer, CallSound, Exclusive, HashKept
  <2>2. e # None => ctx[w].env # e
    BY <2>1, OneRowPerHash DEF Exclusive
  <2>3. e # None => envState'[e] = envState[e]
    BY <1>0, <1>2, <2>2 DEF SubmitEnvelope, ReceiveAnswer, Submit, StellarTypeOK, stellarVars
  <2> QED
    BY <1>1, <2>3
<1>3. CASE e \in Envelopes /\ SignAndRecordHash(w)
  BY <1>0, <1>1, <1>3 DEF SignAndRecordHash, Sign, StellarTypeOK, Spent, stellarVars
<1>4. CASE MarkSubmitted(w) \/ LoadAccount(w) \/ MarkProcessing(w) \/ RecordFailure(w)
             \/ LookUp(w) \/ ClaimOutcome(w) \/ ClaimOutcomeFails(w) \/ VerifyNotLanded(w)
             \/ Reclaim(w)
  BY <1>1, <1>4 DEF MarkSubmitted, LoadAccount, MarkProcessing, RecordFailure, LookUp,
     ClaimOutcome, ClaimOutcomeFails, VerifyNotLanded, Reclaim, stellarVars
<1> QED
  BY <1>0, <1>1, <1>2, <1>3, <1>4 DEF CallStep, RowTypeOK

\* Other steps revive nothing.
LEMMA SpentBetween ==
  ASSUME Exclusive, Between, NEW r \in Rows, Spent(r)
  PROVE  Spent(r)'
  BY ExclusiveTypes DEF Between, Spent, RowTypeOK

\* Only a call that holds a row changes its hash.
LEMMA HashWriters ==
  ASSUME Exclusive, NEW w \in Workers, CallStep(w), NEW r \in Rows,
         rowHash'[r] # rowHash[r]
  PROVE  SignAndRecordHash(w) /\ r = ctx[w].row
<1>0. RowTypeOK /\ \A v \in Workers : CallSound(v)
  BY ExclusiveTypes
<1>1. CASE MarkSubmitted(w) \/ RecordFailure(w) \/ ClaimOutcome(w) \/ Reclaim(w)
  BY <1>0, <1>1 DEF MarkSubmitted, RecordFailure, ClaimOutcome, Reclaim, SetRow, NoRowChange,
     rowVars, RowTypeOK
<1>2. CASE MarkProcessing(w)
  BY <1>0, <1>2 DEF MarkProcessing, SetRow, NoRowChange, rowVars, RowTypeOK, Exclusive,
     HashKept
<1>3. CASE LoadAccount(w) \/ SubmitEnvelope(w) \/ ReceiveAnswer(w) \/ LookUp(w)
             \/ ClaimOutcomeFails(w) \/ VerifyNotLanded(w)
  BY <1>3 DEF LoadAccount, SubmitEnvelope, ReceiveAnswer, LookUp, ClaimOutcomeFails,
     VerifyNotLanded, NoRowChange, rowVars
<1>4. CASE SignAndRecordHash(w)
  BY <1>0, <1>4 DEF SignAndRecordHash, SetRow, NoRowChange, rowVars, RowTypeOK
<1> QED
  BY <1>1, <1>2, <1>3, <1>4 DEF CallStep

LEMMA FreshStartStep ==
  ASSUME Exclusive, FreshStart, ReclaimSpent, [Next]_payVars
  PROVE  FreshStart'
<1> SUFFICES ASSUME NEW v \in Workers, pc'[v] \in {"created", "load", "sign"},
                    NEW r \in Rows, r = ctx'[v].row
             PROVE  Spent(r)'
  <2>1. \A v \in Workers : CallSound(v)'
    BY CallsStep DEF Exclusive
  <2> QED
    BY <2>1 DEF FreshStart, Spent, CallSound
<1>0. /\ pc \in [Workers -> Labels] /\ ctx \in [Workers -> Contexts]
      /\ RowsSound /\ \A w \in Workers : CallSound(w)
  BY ExclusiveTypes
<1>1. CASE Between
  <2>1. CASE Waits(v)
    BY <1>1, <2>1, SpentBetween DEF Waits, FreshStart
  <2>2. CASE Creates(v)
    BY <1>0, <1>1, <2>2 DEF Creates, Between, RowsSound, Spent
  <2> QED
    BY <1>1, <2>1, <2>2 DEF Between, Leaves, Polls, Rebuilds
<1>2. ASSUME NEW w \in Workers, CallStep(w)
      PROVE  Spent(r)'
  <2>1. CASE v # w
    <3>1. pc'[v] = pc[v] /\ ctx'[v] = ctx[v]
      BY <1>0, <1>2, <2>1, OthersWait
    <3>2. r = ctx[v].row /\ Spent(r)
      BY <3>1 DEF FreshStart
    <3>3. pc[w] \in {"submit", "await", "sign"} => r # ctx[w].row
      BY <2>1, <3>1, <3>2 DEF Exclusive, Unshared, Holder, Executing
    <3>4. rowHash'[r] = rowHash[r]
      BY <1>2, <3>2, <3>3, HashWriters DEF SignAndRecordHash
    <3> QED
      BY <1>2, <3>1, <3>2, <3>3, <3>4, SpentStays
  <2>2. CASE v = w
    <3>1. \/ MarkSubmitted(w) \/ LoadAccount(w)
          \/ Reclaim(w) /\ rowStatus[ctx[w].row] = "failed"
      BY <1>0, <1>2, <2>2 DEF CallStep, MarkSubmitted, LoadAccount, SignAndRecordHash,
         SubmitEnvelope, ReceiveAnswer, MarkProcessing, RecordFailure, LookUp, ClaimOutcome,
         ClaimOutcomeFails, VerifyNotLanded, Reclaim, Goto, Throw, OnStatusError
    <3>2. /\ pc[w] \in {"created", "load", "reclaim"} /\ Spent(r)
          /\ r = ctx[w].row
      BY <1>0, <2>2, <3>1 DEF MarkSubmitted, LoadAccount, Reclaim, FreshStart, ReclaimSpent,
         Throw, Contexts
    <3>3. rowHash'[r] = rowHash[r]
      BY <1>2, <3>2, HashWriters DEF SignAndRecordHash
    <3> QED
      BY <1>2, <2>2, <3>2, <3>3, SpentStays
  <2> QED
    BY <2>1, <2>2
<1> QED
  BY <1>1, <1>2, OtherSteps DEF Exclusive

LEMMA RecordedStep ==
  ASSUME Exclusive, FreshStart, Recorded, [Next]_payVars
  PROVE  Recorded'
<1> SUFFICES ASSUME NEW e \in Envelopes, MayMove(e)'
             PROVE  \E r \in Rows : rowHash'[r] = e
  BY DEF Recorded
<1>0. RowTypeOK /\ StellarTypeOK /\ \A v \in Workers : CallSound(v)
  BY ExclusiveTypes
<1>1. CASE Between
  BY <1>1 DEF Between, MayMove, Recorded
<1>2. ASSUME NEW w \in Workers, CallStep(w)
      PROVE  \E r \in Rows : rowHash'[r] = e
  <2>1. CASE MayMove(e)
    <3> PICK r \in Rows : rowHash[r] = e
      BY <2>1 DEF Recorded
    <3>1. CASE rowHash'[r] = rowHash[r]
      BY <3>1
    <3>2. CASE SignAndRecordHash(w) /\ r = ctx[w].row
      \* What is replaced is spent, so it is not e.
      BY <2>1, <3>2, PaymentAssumption DEF SignAndRecordHash, FreshStart, Spent, MayMove
    <3> QED
      BY <1>2, <3>1, <3>2, HashWriters
  <2>2. CASE ~MayMove(e)
    <3>1. SignAndRecordHash(w) \/ SubmitEnvelope(w) \/ ReceiveAnswer(w)
      BY <1>2, <2>2 DEF CallStep, MarkSubmitted, LoadAccount, MarkProcessing, RecordFailure,
         LookUp, ClaimOutcome, ClaimOutcomeFails, VerifyNotLanded, Reclaim, stellarVars,
         MayMove
    <3>2. CASE SignAndRecordHash(w)
      <4> PICK x \in Envelopes : /\ Sign(x, ctx[w].seq, {rowFor[ctx[w].row]})
                                 /\ SetRow(ctx[w].row, rowStatus[ctx[w].row],
                                           rowError[ctx[w].row], x)
        BY <2>2, <3>2 DEF SignAndRecordHash, MayMove, stellarVars
      <4>1. x = e
        BY <1>0, <2>2 DEF Sign, MayMove, StellarTypeOK
      <4> QED
        BY <1>0, <3>2, <4>1 DEF SignAndRecordHash, SetRow, RowTypeOK, CallSound
    <3>3. CASE SubmitEnvelope(w) \/ ReceiveAnswer(w)
      <4>1. ctx[w].env = e
        BY <1>0, <2>2, <3>3 DEF SubmitEnvelope, ReceiveAnswer, Submit, MayMove,
           StellarTypeOK, stellarVars
      <4>2. ctx[w].row \in Rows /\ rowHash[ctx[w].row] = e /\ rowHash' = rowHash
        BY <1>0, <3>3, <4>1 DEF SubmitEnvelope, ReceiveAnswer, CallSound, Exclusive,
           HashKept, NoRowChange, rowVars
      <4> QED
        BY <4>2
    <3> QED
      BY <3>1, <3>2, <3>3
  <2> QED
    BY <2>1, <2>2
<1> QED
  BY <1>1, <1>2, OtherSteps DEF Exclusive

-----------------------------------------------------------------------------
(* Retries with definite answers. *)

\* A failed attempt moved no money; where one call is served at a time it may
\* have, and then VerifyNotLanded finds out.
Settled(r) ==
  \/ Spent(r)
  \/ OneCall /\ rowHash[r] # None /\ envState[rowHash[r]] = "success"

RetryInv ==
  /\ DefiniteAnswers /\ (OneCall \/ (NoPolls /\ MaxFaults = 0))
  /\ \A r \in Rows : rowStatus[r] = "failed" => Settled(r)
  /\ \A w \in Workers : pc[w] = "fail" => Settled(ctx[w].row)
  /\ OneCall => \A w \in Workers :
       /\ pc[w] = "verify" => /\ rowStatus[ctx[w].row] = "failed"
                              /\ ctx[w].env = rowHash[ctx[w].row]
       /\ pc[w] = "reclaim" => Spent(ctx[w].row)

LEMMA SettledStays ==
  ASSUME Exclusive, LedgerGrows, NEW w \in Workers, CallStep(w), NEW r \in Rows, Settled(r),
         rowHash'[r] = rowHash[r],
         r # ctx[w].row \/ pc[w] \notin {"submit", "await"}
  PROVE  Settled(r)'
<1>1. CASE Spent(r)
  BY <1>1, SpentStays DEF Settled
<1>2. CASE ~Spent(r)
  BY <1>2, ExclusiveTypes DEF Settled, LedgerGrows, OnLedger, RowTypeOK, OneCall
<1> QED
  BY <1>1, <1>2

LEMMA SettledBetween ==
  ASSUME Exclusive, Between, NEW r \in Rows, Settled(r)
  PROVE  Settled(r)'
<1>1. CASE Spent(r)
  BY <1>1, SpentBetween DEF Settled
<1>2. CASE ~Spent(r)
  BY <1>2, ExclusiveTypes DEF Settled, Between, RowTypeOK, OneCall
<1> QED
  BY <1>1, <1>2

LEMMA FailedSettledStep ==
  ASSUME Exclusive, StatusInv, RetryInv, [Next]_payVars,
         NEW r \in Rows, rowStatus'[r] = "failed"
  PROVE  Settled(r)'
<1>0. /\ LedgerGrows /\ Before /\ RowTypeOK /\ StellarTypeOK
      /\ \A w \in Workers : CallSound(w)
  BY ExclusiveTypes, LedgerStep, RowsStep DEF Exclusive, Before
<1>1. CASE Between
  BY <1>1, SettledBetween DEF Between, RetryInv
<1>2. ASSUME NEW w \in Workers, CallStep(w)
      PROVE  Settled(r)'
  <2>1. CASE rowStatus[r] = "failed"
    <3>1. pc[w] \in {"submit", "await", "sign"} => r # ctx[w].row
      BY <2>1 DEF StatusInv, HolderStatus, Executing
    <3>2. rowHash'[r] = rowHash[r]
      BY <1>2, <3>1, HashWriters DEF SignAndRecordHash
    <3> QED
      BY <1>0, <1>2, <2>1, <3>1, <3>2, SettledStays DEF RetryInv
  <2>2. CASE rowStatus[r] # "failed"
    <3>1. r = ctx[w].row
      BY <1>0, <1>2, <2>2, OneRowWritten DEF OwnRowOnly
    <3>2. CASE RecordFailure(w)
      <4>1. pc[w] = "fail" /\ Settled(r)
        BY <3>1, <3>2 DEF RecordFailure, RetryInv
      <4>2. rowHash'[r] = rowHash[r]
        BY <1>2, <4>1, HashWriters DEF SignAndRecordHash
      <4> QED
        BY <1>0, <1>2, <4>1, <4>2, SettledStays
    <3>3. CASE ClaimOutcome(w)
      <4>1. /\ rowHash[r] = ctx[w].env /\ rowHash'[r] = rowHash[r]
            /\ envState' = envState
        BY <1>0, <3>1, <3>3 DEF ClaimOutcome, SetRow, NoRowChange, rowVars, RowTypeOK,
           stellarVars, StatusInv, ClaimedHash
      <4>2. envState[ctx[w].env] = "failed"
        BY <1>0, <2>2, <3>1, <3>3 DEF ClaimOutcome, SetRow, NoRowChange, rowVars, RowTypeOK
      <4> QED
        BY <4>1, <4>2 DEF Settled, Spent
    <3>4. CASE MarkSubmitted(w) \/ SignAndRecordHash(w) \/ MarkProcessing(w) \/ Reclaim(w)
      BY <1>0, <2>2, <3>1, <3>4 DEF MarkSubmitted, SignAndRecordHash, MarkProcessing, Reclaim,
         SetRow, NoRowChange, rowVars, RowTypeOK
    <3>5. CASE LoadAccount(w) \/ SubmitEnvelope(w) \/ ReceiveAnswer(w) \/ LookUp(w)
                 \/ ClaimOutcomeFails(w) \/ VerifyNotLanded(w)
      BY <2>2, <3>5 DEF LoadAccount, SubmitEnvelope, ReceiveAnswer, LookUp,
         ClaimOutcomeFails, VerifyNotLanded, NoRowChange, rowVars
    <3> QED
      BY <1>2, <3>2, <3>3, <3>4, <3>5 DEF CallStep
  <2> QED
    BY <2>1, <2>2
<1> QED
  BY <1>1, <1>2, OtherSteps DEF Exclusive

\* A call that fails got an answer, or none of its writes was refused.
LEMMA FailingSettledStep ==
  ASSUME Exclusive, FreshStart, StatusInv, RetryInv, [Next]_payVars,
         NEW v \in Workers, pc'[v] = "fail", NEW r \in Rows, r = ctx'[v].row
  PROVE  Settled(r)'
<1>0. /\ pc \in [Workers -> Labels] /\ ctx \in [Workers -> Contexts] /\ faults \in Nat
      /\ LedgerGrows /\ \A w \in Workers : CallSound(w)
  BY ExclusiveTypes, LedgerStep DEF Exclusive
<1>1. CASE Between
  BY <1>1, SettledBetween DEF Between, Waits, Leaves, Creates, Polls, Rebuilds, RetryInv
<1>2. ASSUME NEW w \in Workers, CallStep(w)
      PROVE  Settled(r)'
  <2>1. CASE v # w
    <3>1. pc[v] = "fail" /\ r = ctx[v].row
      BY <1>0, <1>2, <2>1, OthersWait
    <3>2. pc[w] \in {"submit", "await", "sign"} => r # ctx[w].row
      BY <2>1, <3>1 DEF Exclusive, Unshared, Holder, Executing
    <3>3. rowHash'[r] = rowHash[r]
      BY <1>2, <3>2, HashWriters DEF SignAndRecordHash
    <3> QED
      BY <1>0, <1>2, <3>1, <3>2, <3>3, SettledStays DEF RetryInv
  <2>2. CASE v = w
    <3>1. /\ r = ctx[w].row /\ UNCHANGED <<rowHash, envState>>
          /\ \/ pc[w] \in {"load", "sign"}
             \/ pc[w] = "await" /\ MayAnswer(ctx[w].env, "rejected")
             \/ pc[w] = "record" /\ faults < MaxFaults
      <4>1. CASE LoadAccount(w) \/ SignAndRecordHash(w) \/ MarkProcessing(w)
        BY <1>0, <2>2, <4>1 DEF LoadAccount, SignAndRecordHash, MarkProcessing, Goto, Throw,
           WriteFails, NoRowChange, rowVars, stellarVars, Contexts
      <4>2. CASE ReceiveAnswer(w)
        BY <1>0, <2>2, <4>2 DEF ReceiveAnswer, MayAnswer, Goto, Throw, NoRowChange, rowVars,
           stellarVars, Contexts, RetryInv, DefiniteAnswers
      <4>3. CASE MarkSubmitted(w) \/ SubmitEnvelope(w) \/ RecordFailure(w) \/ LookUp(w)
                   \/ ClaimOutcome(w) \/ ClaimOutcomeFails(w) \/ VerifyNotLanded(w)
                   \/ Reclaim(w)
        BY <1>0, <2>2, <4>3 DEF MarkSubmitted, SubmitEnvelope, RecordFailure, LookUp,
           ClaimOutcome, ClaimOutcomeFails, VerifyNotLanded, Reclaim, Goto, OnStatusError
      <4> QED
        BY <1>2, <4>1, <4>2, <4>3 DEF CallStep
    <3>2. CASE pc[w] \in {"load", "sign"}
      BY <3>1, <3>2 DEF FreshStart, Settled, Spent
    <3>3. CASE pc[w] = "await"
      BY <3>1, <3>3 DEF Exclusive, HashKept, MayAnswer, Settled, Spent
    <3>4. CASE pc[w] = "record"
      <4>1. /\ rowHash[r] = ctx[w].env /\ ctx[w].env # None
            /\ envState[ctx[w].env] = "success"
        BY <1>0, <3>1, <3>4, PaymentAssumption DEF Exclusive, HashKept, CallSound
      <4>2. OneCall
        BY <1>0, <3>1, <3>4 DEF RetryInv
      <4> QED
        BY <3>1, <4>1, <4>2 DEF Settled, OneCall
    <3> QED
      BY <3>1, <3>2, <3>3, <3>4
  <2> QED
    BY <2>1, <2>2
<1> QED
  BY <1>1, <1>2, OtherSteps DEF Exclusive

LEMMA RetryInvStep ==
  ASSUME Exclusive, FreshStart, StatusInv, RetryInv, [Next]_payVars
  PROVE  RetryInv'
<1>0. /\ pc \in [Workers -> Labels] /\ ctx \in [Workers -> Contexts] /\ RowTypeOK
      /\ \A w \in Workers : CallSound(w) /\ CallSound(w)'
  BY ExclusiveTypes, CallsStep DEF Exclusive
<1>1. \A r \in Rows : rowStatus'[r] = "failed" => Settled(r)'
  BY FailedSettledStep
<1>2. ASSUME NEW v \in Workers, pc'[v] = "fail", NEW r \in Rows, r = ctx'[v].row
      PROVE  Settled(r)'
  BY <1>2, FailingSettledStep
<1>3. ASSUME OneCall, NEW v \in Workers, pc'[v] = "verify"
      PROVE  rowStatus'[ctx'[v].row] = "failed" /\ ctx'[v].env = rowHash'[ctx'[v].row]
  <2>1. CASE Between
    BY <1>0, <1>3, <2>1 DEF Between, Waits, Leaves, Creates, Polls, Rebuilds, RetryInv,
       CallSound
  <2>2. ASSUME NEW w \in Workers, CallStep(w) PROVE FALSE
    <3>1. v = w
      BY <1>3 DEF OneCall
    <3> QED
      BY <1>0, <1>3, <2>2, <3>1 DEF CallStep, MarkSubmitted, LoadAccount, SignAndRecordHash,
         SubmitEnvelope, ReceiveAnswer, MarkProcessing, RecordFailure, LookUp, ClaimOutcome,
         ClaimOutcomeFails, VerifyNotLanded, Reclaim, Goto, Throw, OnStatusError
  <2> QED
    BY <2>1, <2>2, OtherSteps DEF Exclusive
<1>4. ASSUME OneCall, NEW v \in Workers, pc'[v] = "reclaim", NEW r \in Rows, r = ctx'[v].row
      PROVE  Spent(r)'
  <2>1. CASE Between
    <3>1. CASE Waits(v)
      BY <1>4, <2>1, <3>1, SpentBetween DEF Waits, RetryInv
    <3>2. CASE Rebuilds(v)
      BY <1>4, <2>1, <3>2 DEF Rebuilds, Between, Spent
    <3> QED
      BY <1>4, <2>1, <3>1, <3>2 DEF Between, Leaves, Creates, Polls
  <2>2. ASSUME NEW w \in Workers, CallStep(w) PROVE Spent(r)'
    <3>1. v = w
      BY <1>4 DEF OneCall
    <3>2. VerifyNotLanded(w)
      BY <1>0, <1>4, <2>2, <3>1 DEF CallStep, MarkSubmitted, LoadAccount, SignAndRecordHash,
         SubmitEnvelope, ReceiveAnswer, MarkProcessing, RecordFailure, LookUp, ClaimOutcome,
         ClaimOutcomeFails, Reclaim, Goto, Throw, OnStatusError
    <3>3. /\ r = ctx[w].row /\ pc[w] = "verify" /\ envState[ctx[w].env] # "success"
          /\ UNCHANGED <<rowHash, envState>>
      BY <1>0, <1>4, <3>1, <3>2 DEF VerifyNotLanded, Goto, NoRowChange, rowVars, stellarVars
    <3>4. Settled(r) /\ ctx[w].env = rowHash[r]
      BY <1>4, <3>3 DEF RetryInv
    <3> QED
      BY <3>3, <3>4 DEF Settled, Spent
  <2> QED
    BY <2>1, <2>2, OtherSteps DEF Exclusive
<1>5. /\ DefiniteAnswers /\ (OneCall \/ (NoPolls /\ MaxFaults = 0))
  BY DEF RetryInv
<1>6. \A v \in Workers : pc'[v] = "fail" => Settled(ctx[v].row)'
  BY <1>0, <1>2 DEF CallSound, Settled, Spent
<1>7. OneCall => \A v \in Workers : pc'[v] = "reclaim" => Spent(ctx[v].row)'
  BY <1>0, <1>4 DEF CallSound, Spent
<1> QED
  BY <1>1, <1>3, <1>5, <1>6, <1>7 DEF RetryInv, OneCall

-----------------------------------------------------------------------------
(* Once per request, and never out of sight. *)

OnceInv ==
  /\ Exclusive /\ Recorded /\ FreshStart
  /\ NoRetry \/ (StatusInv /\ RetryInv)

LEMMA OnceInit ==
  ASSUME Init, SafeRetries
  PROVE  OnceInv
<1>1. Recorded /\ FreshStart
  BY DEF Init, StellarInit, Recorded, FreshStart, MayMove
<1>2. ~NoRebuilds => RetryInv /\ OneWriter
  BY DEF Init, SafeRetries, RetryInv, OneWriter
<1> QED
  BY <1>1, <1>2, ExclusionInit DEF OnceInv, Exclusive, ExclusionInv

LEMMA OnceStep ==
  ASSUME OnceInv, [Next]_payVars
  PROVE  OnceInv'
<1>1. ExclusionInv
  BY DEF OnceInv, Exclusive, ExclusionInv
<1>2. ReclaimSpent
  BY DEF OnceInv, NoRetry, RetryInv, ReclaimSpent, Settled, Exclusive, PaymentInv, CallSound
<1>3. Recorded' /\ FreshStart'
  BY <1>2, RecordedStep, FreshStartStep DEF OnceInv
<1>4. NoRetry => NoRetry'
  BY <1>1, ExclusionStep
<1>5. StatusInv /\ RetryInv => StatusInv' /\ RetryInv'
  BY <1>1, ExclusionStep, RetryInvStep DEF OnceInv, RetryInv, OneWriter
<1> QED
  BY <1>1, <1>3, <1>4, <1>5, ExclusionStep DEF OnceInv, Exclusive

\* What moved the money of a request stands on its one row.
LEMMA OnceIsEnough ==
  ASSUME OnceInv
  PROVE  NoDoublePay /\ NoForgottenEnvelope
<1>1. NoForgottenEnvelope
  BY DEF OnceInv, Recorded, MayMove, NoForgottenEnvelope, Live
<1>2. ASSUME NEW o \in Obligations, NEW e \in Landed(o), NEW f \in Landed(o)
      PROVE  e = f
  <2>1. /\ e \in Envelopes /\ f \in Envelopes /\ MayMove(e) /\ MayMove(f)
        /\ o \in envPays[e] /\ o \in envPays[f]
    BY DEF Landed, MayMove
  <2> PICK r \in Rows, s \in Rows : rowHash[r] = e /\ rowHash[s] = f
    BY <2>1 DEF OnceInv, Recorded
  <2>2. rowFor[r] = o /\ rowFor[s] = o
    BY <2>1, PaymentAssumption DEF OnceInv, Exclusive, PaymentInv, RowsSound
  <2> QED
    BY <2>2 DEF OnceInv, Exclusive, OneRowEach
<1> QED
  BY <1>1, <1>2 DEF NoDoublePay

\* One request moves its money at most once: when nobody rebuilds, whatever
\* Horizon answers, whichever writes fail and wherever calls are cut off; with
\* rebuilds, when Horizon's answers are definite and either no client polls and
\* no write fails, or one call is served at a time.
THEOREM PaidAtMostOnce ==
  ASSUME SafeRetries
  PROVE  Spec => []NoDoublePay
<1>1. Init => OnceInv
  BY OnceInit
<1>2. OnceInv /\ [Next]_payVars => OnceInv'
  BY OnceStep
<1>3. OnceInv => NoDoublePay
  BY OnceIsEnough
<1> QED
  BY <1>1, <1>2, <1>3, PTL DEF Spec

\* Under the same loads every envelope that moved money, or may, stands on a
\* row, so that a later reconciliation finds it.
THEOREM NothingForgotten ==
  ASSUME SafeRetries
  PROVE  Spec => []NoForgottenEnvelope
<1>1. Init => OnceInv
  BY OnceInit
<1>2. OnceInv /\ [Next]_payVars => OnceInv'
  BY OnceStep
<1>3. OnceInv => NoForgottenEnvelope
  BY OnceIsEnough
<1> QED
  BY <1>1, <1>2, <1>3, PTL DEF Spec

-----------------------------------------------------------------------------
(* The payment service implements PaymentPromise. *)

PromiseInv == OnceInv /\ StatusInv

ToldOf == {o \in Obligations : \E r \in Rows : rowFor[r] = o /\ Told(r)}

\* Only the network lands an envelope.
LandedKept == \A o \in Obligations : Landed(o)' = Landed(o)

LEMMA CallLandsNothing ==
  ASSUME PaymentInv, [Next]_payVars, ~Network
  PROVE  LandedKept
<1>0. StellarTypeOK
  BY DEF PaymentInv, TypeOK
<1>1. CASE UNCHANGED stellarVars
  BY <1>1 DEF stellarVars, LandedKept, Landed
<1>2. ASSUME NEW w \in Workers, SignAndRecordHash(w) PROVE LandedKept
  BY <1>0, <1>1, <1>2 DEF SignAndRecordHash, Sign, StellarTypeOK, LandedKept, Landed
<1>3. ASSUME NEW w \in Workers, SubmitEnvelope(w) \/ ReceiveAnswer(w) PROVE LandedKept
  BY <1>0, <1>1, <1>3 DEF SubmitEnvelope, ReceiveAnswer, Submit, StellarTypeOK, LandedKept,
     Landed
<1>4. ASSUME NEW w \in Workers,
             StartPayment(w) \/ StartPayout(w) \/ Poll(w) \/ Rebuild(w) \/ ReconcileJob(w)
               \/ End(w) \/ Crash(w)
      PROVE  UNCHANGED stellarVars
  BY <1>4 DEF StartPayment, StartPayout, CreatePayment, CreatePayout, Poll, StartPoll,
     Rebuild, StartRebuild, ReconcileJob, End, Crash, payVars
<1>5. ASSUME NEW w \in Workers, CallStep(w)
      PROVE  \/ UNCHANGED stellarVars
             \/ SignAndRecordHash(w) \/ SubmitEnvelope(w) \/ ReceiveAnswer(w)
  BY <1>5 DEF CallStep, MarkSubmitted, LoadAccount, MarkProcessing, RecordFailure, LookUp,
     ClaimOutcome, ClaimOutcomeFails, VerifyNotLanded, Reclaim
<1> QED
  BY <1>1, <1>2, <1>3, <1>4, <1>5 DEF Next, payVars

\* What a requester was told is not taken back.
LEMMA ToldStays ==
  ASSUME PromiseInv, [Next]_payVars, NEW r \in Rows, Told(r)
  PROVE  Told(r)'
<1>0. /\ RowTypeOK /\ StellarTypeOK /\ HolderStatus /\ ToldLanded /\ ClaimedHash
  BY ExclusiveTypes DEF PromiseInv, OnceInv, StatusInv
<1>1. CASE Between
  BY <1>1 DEF Between, Told
<1>2. ASSUME NEW w \in Workers, CallStep(w)
      PROVE  Told(r)'
  <2>1. CASE r # ctx[w].row \/ UNCHANGED rowStatus
    BY <1>0, <1>2, <2>1, OneRowWritten DEF OwnRowOnly, Told
  <2>2. CASE r = ctx[w].row
    <3>1. CASE MarkSubmitted(w) \/ RecordFailure(w) \/ Reclaim(w) \/ SignAndRecordHash(w)
                 \/ MarkProcessing(w)
      BY <1>0, <2>1, <2>2, <3>1 DEF MarkSubmitted, RecordFailure, Reclaim,
         SignAndRecordHash, MarkProcessing, SetRow, NoRowChange, rowVars, RowTypeOK,
         HolderStatus, Executing, Told
    <3>2. CASE ClaimOutcome(w)
      BY <1>0, <2>1, <2>2, <3>2 DEF ClaimOutcome, SetRow, NoRowChange, rowVars, RowTypeOK,
         ToldLanded, ClaimedHash, Told
    <3>3. CASE LoadAccount(w) \/ SubmitEnvelope(w) \/ ReceiveAnswer(w) \/ LookUp(w)
                 \/ ClaimOutcomeFails(w) \/ VerifyNotLanded(w)
      BY <2>1, <3>3 DEF LoadAccount, SubmitEnvelope, ReceiveAnswer, LookUp,
         ClaimOutcomeFails, VerifyNotLanded, NoRowChange, rowVars
    <3> QED
      BY <1>2, <3>1, <3>2, <3>3 DEF CallStep
  <2> QED
    BY <2>1, <2>2
<1> QED
  BY <1>1, <1>2, OtherSteps DEF PromiseInv, OnceInv, Exclusive

\* A step tells the requester of one row at most, and of one that was paid.
LEMMA ToldStep ==
  ASSUME PromiseInv, [Next]_payVars
  PROVE  \/ ToldOf' = ToldOf
         \/ \E o \in Obligations : Paid(o)' /\ ToldOf' = ToldOf \cup {o}
<1>0. /\ RowTypeOK /\ RowsSound /\ RowsGrow /\ ReportedPaidIsPaid' /\ RowsSound'
  BY ExclusiveTypes, RowsStep, ReportedStep, RowsSoundStep
  DEF PromiseInv, OnceInv, Exclusive
<1>1. \A r \in Rows : Told(r) => Told(r)' /\ rowFor'[r] = rowFor[r]
  BY <1>0, ToldStays DEF RowsGrow, Told
<1>2. CASE \A r \in Rows : Told(r)' => Told(r)
  BY <1>1, <1>2 DEF ToldOf
<1>3. ASSUME NEW r \in Rows, Told(r)', ~Told(r)
      PROVE  \E o \in Obligations : Paid(o)' /\ ToldOf' = ToldOf \cup {o}
  <2>1. PICK w \in Workers : CallStep(w)
    BY <1>3, OtherSteps DEF PromiseInv, OnceInv, Exclusive, Between, Told
  <2>2. rowFor' = rowFor /\ \A s \in Rows : Told(s)' /\ ~Told(s) => s = r
    BY <1>0, <1>3, <2>1, OneRowWritten DEF OwnRowOnly, Told
  <2> PICK o : o = rowFor[r]
    OBVIOUS
  <2>3. o \in Obligations /\ rowFor'[r] = o
    BY <1>0, <1>3, <2>2 DEF RowsSound, Told
  <2>4. Paid(o)'
    BY <1>0, <1>3, <2>3 DEF ReportedPaidIsPaid, Told, Paid, Landed
  <2>5. ToldOf' = ToldOf \cup {o}
    BY <1>1, <1>3, <2>2, <2>3 DEF ToldOf
  <2> QED
    BY <2>3, <2>4, <2>5
<1> QED
  BY <1>2, <1>3

\* A set without two different members counts one or none.
LEMMA AtMostOne ==
  ASSUME NEW S, \A e, f \in S : e = f
  PROVE  Cardinality(S) = IF S # {} THEN 1 ELSE 0
<1>1. CASE S = {}
  BY <1>1, FS_EmptySet
<1>2. CASE S # {}
  <2> PICK e : S = {e}
    BY <1>2
  <2> QED
    BY <1>2, FS_Singleton
<1> QED
  BY <1>1, <1>2

\* The network lands nothing new, or one envelope of an unpaid request.
LEMMA NetworkLands ==
  ASSUME PromiseInv, NoDoublePay', Network
  PROVE  \/ LandedKept
         \/ \E o \in Obligations :
              /\ ~Paid(o) /\ Paid(o)'
              /\ \A p \in Obligations : p # o => Landed(p)' = Landed(p)
<1>0. StellarTypeOK /\ RowsSound
  BY ExclusiveTypes DEF PromiseInv, OnceInv
<1>1. CASE \A e \in Envelopes : envState'[e] = "success" <=> envState[e] = "success"
  BY <1>0, <1>1 DEF Network, NetworkStep, Apply, Drop, LandedKept, Landed, StellarTypeOK
<1>2. ASSUME NEW e \in Envelopes, envState[e] = "inflight",
             envState' = [envState EXCEPT ![e] = "success"], envPays' = envPays
      PROVE  \E o \in Obligations :
               /\ ~Paid(o) /\ Paid(o)'
               /\ \A p \in Obligations : p # o => Landed(p)' = Landed(p)
  \* The envelope stands on a row, and pays for that row only.
  <2> PICK r \in Rows : rowHash[r] = e
    BY <1>2 DEF PromiseInv, OnceInv, Recorded, MayMove
  <2> PICK o : o = rowFor[r]
    OBVIOUS
  <2>1. o \in Obligations /\ envPays[e] = {o}
    BY <1>0, PaymentAssumption DEF RowsSound
  <2>2. \A p \in Obligations : Landed(p)' = IF p = o THEN Landed(p) \cup {e} ELSE Landed(p)
    BY <1>0, <1>2, <2>1 DEF Landed, StellarTypeOK
  <2>3. e \notin Landed(o)
    BY <1>2 DEF Landed
  <2>4. ~Paid(o)
    BY <2>1, <2>2, <2>3 DEF NoDoublePay, Paid
  <2> QED
    BY <2>1, <2>2, <2>4 DEF Paid
<1>3. PICK e \in Envelopes : Apply(e) \/ Drop(e)
  BY DEF Network, NetworkStep
<1>4. CASE envState' = [envState EXCEPT ![e] = "success"]
  BY <1>2, <1>3, <1>4 DEF Apply, Drop
<1>5. CASE envState' # [envState EXCEPT ![e] = "success"]
  BY <1>0, <1>1, <1>3, <1>5 DEF Apply, Drop, StellarTypeOK
<1> QED
  BY <1>4, <1>5

LEMMA PromiseStep ==
  ASSUME PromiseInv, NoDoublePay, NoDoublePay', [Next]_payVars
  PROVE  [Promise!Next]_(Promise!vars)
<1> DEFINE Count == [o \in Obligations |-> Cardinality(Landed(o))]
           Same == Count' = Count /\ ToldOf' = ToldOf
           Lands(o) == /\ Count[o] = 0 /\ Count' = [Count EXCEPT ![o] = 1]
                       /\ ToldOf' = ToldOf
           Tells(o) == Count[o] = 1 /\ Count' = Count /\ ToldOf' = ToldOf \cup {o}
<1>1. Same \/ \E o \in Obligations : Lands(o) \/ Tells(o)
  <2>0. \A o \in Obligations :
          /\ Count[o] = IF Paid(o) THEN 1 ELSE 0
          /\ Count'[o] = IF Paid(o)' THEN 1 ELSE 0
    <3>1. ASSUME NEW o \in Obligations
          PROVE  /\ \A e, f \in Landed(o) : e = f
                 /\ \A e, f \in Landed(o)' : e = f
      BY DEF NoDoublePay
    <3>2. \A o \in Obligations :
            /\ Cardinality(Landed(o)) = IF Paid(o) THEN 1 ELSE 0
            /\ Cardinality(Landed(o)') = IF Paid(o)' THEN 1 ELSE 0
      BY <3>1, AtMostOne DEF Paid
    <3> QED
      BY <3>2
  <2>1. CASE LandedKept
    <3>1. Count' = Count
      BY <2>1 DEF LandedKept
    <3>2. \A o \in Obligations : Paid(o)' => Paid(o)
      BY <2>1 DEF LandedKept, Paid
    <3> QED
      BY <2>0, <3>1, <3>2, ToldStep
  <2>2. CASE Network /\ ~LandedKept
    <3>1. PICK o \in Obligations :
            /\ ~Paid(o) /\ Paid(o)'
            /\ \A p \in Obligations : p # o => Landed(p)' = Landed(p)
      BY <2>2, NetworkLands
    <3>2. Count' = [Count EXCEPT ![o] = 1]
      <4>1. \A p \in Obligations : p # o => Count'[p] = Count[p]
        BY <3>1
      <4> QED
        BY <2>0, <3>1, <4>1
    <3>3. ToldOf' = ToldOf
      BY <2>2 DEF Network, NoRowChange, rowVars, ToldOf, Told
    <3> QED
      BY <2>0, <3>1, <3>2, <3>3
  <2> QED
    BY <2>1, <2>2, CallLandsNothing DEF PromiseInv, OnceInv, Exclusive
<1> QED
  BY <1>1 DEF Promise!Next, Promise!vars, Promise!Land, Promise!Tell, ToldOf, Told

\* The payment service implements PaymentPromise: money moves at most once per
\* request, the requester is told only after it moved, and what was told is not
\* taken back.  The loads are those of PaidAtMostOnce under which a row's
\* status has one writer: no client polls, or one call is served at a time.
THEOREM PromiseIsKept ==
  ASSUME SafeRetries, OneWriter
  PROVE  Spec => PromiseKept
<1>1. Init => PromiseInv
  BY OnceInit, ExclusionInit DEF PromiseInv
<1>2. PromiseInv /\ [Next]_payVars => PromiseInv'
  BY OnceStep, ExclusionStep DEF PromiseInv, OnceInv, Exclusive, ExclusionInv
<1>3. PromiseInv => NoDoublePay
  BY OnceIsEnough DEF PromiseInv
<1>4. Init => Promise!Init
  <2> SUFFICES ASSUME Init PROVE Promise!Init
    OBVIOUS
  <2>1. \A o \in Obligations : Cardinality(Landed(o)) = 0
    BY FS_EmptySet DEF Init, StellarInit, Landed
  <2>2. ToldOf = {}
    BY DEF Init, ToldOf, Told
  <2> QED
    BY <2>1, <2>2 DEF Promise!Init, ToldOf, Told
<1>5. PromiseInv /\ NoDoublePay /\ NoDoublePay' /\ [Next]_payVars
        => [Promise!Next]_(Promise!vars)
  BY PromiseStep
<1> QED
  BY <1>1, <1>2, <1>3, <1>4, <1>5, PTL DEF Spec, PromiseKept, Promise!Spec
===============================================================================
