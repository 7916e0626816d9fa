-------------------------------- MODULE Sep24 --------------------------------
(***************************************************************************)
(* SEP-24 sessions (services/stellar-sep24.service.ts and the payment part *)
(* of stellar.service.ts under src/apps/backend/src).  A client opens a    *)
(* session, exchanges its one-time token for a cookie and sends the form;  *)
(* the operator settles deposits and finalizes withdrawals; a scheduled    *)
(* watcher matches credits to the hot wallet with sessions by memo.        *)
(***************************************************************************)
EXTENDS Naturals, Sequences, FiniteSets

CONSTANTS
  Sessions,
  SepAmounts,      \* amounts of sessions and credits
  SepCalls,        \* calls served at a time
  PAGE_LIMIT,      \* payments of the first page, 200
  MaxCredits,      \* bound: payments of the hot wallet
  MaxForms,        \* bound: forms sent for a session
  MaxPayouts       \* bound: payments signed for a session

ASSUME Sep24Assumption == PAGE_LIMIT \in Nat \ {0}

VARIABLES
  session,      \* SepSession rows
  credits,      \* payments of the hot wallet, in ledger order: [memo, amount]
  cursor,       \* SepWatchCursor, the number of credits behind it; 0 without a row
  handler,      \* call -> where it is and what it has read
  cookies,      \* withdrawal -> cookies given for its token (history)
  forms,        \* session -> forms stored (history)
  signed,       \* session -> payments signed for it (history)
  seen,         \* credits a watch pass has looked up (history)
  older         \* credits that are older than a first page (history)

sepVars == <<session, credits, cursor, handler, cookies, forms, signed, seen, older>>

NoHash == <<>>
PayoutHash(s, n) == <<s, n>>
CreditHash(i) == <<i>>
NoAmount == 0
OtherMemo == "other"
MaxCookies == 2  \* bound: cookies are counted up to it
NoSession == [kind |-> "none", status |-> "none", amount |-> NoAmount, tx |-> NoHash,
              token |-> FALSE, submittedTx |-> NoHash]

DepositSettleStatuses == {"pending_anchor", "pending_external", "pending_stellar_unknown"}
WithdrawFinalizeStatuses == {"pending_external", "pending_anchor"}
WatchPendingStatuses ==
  {"pending_user_transfer_start", "pending_stellar", "pending_stellar_unknown", "incomplete"}

NoHandler == [at |-> "none", s |-> "none", read |-> NoSession, hash |-> NoHash,
              pending |-> {}, records |-> <<>>, newest |-> 0]
\* What the watcher, and completeDeposit, use later of the rows they read.
Compared(row) == [row EXCEPT !.token = FALSE, !.submittedTx = NoHash]
Metadata(row) == [NoSession EXCEPT !.token = row.token, !.submittedTx = row.submittedTx]
Waits(c) == handler[c] = NoHandler
HandlerAt(c, place) == handler[c].at = place
Becomes(c, h) == handler' = [handler EXCEPT ![c] = h]
Ends(c) == Becomes(c, NoHandler)
Steps(c, place) == Becomes(c, [handler[c] EXCEPT !.at = place])
Begins(c, place, s, read) == Becomes(c, [NoHandler EXCEPT !.at = place, !.s = s, !.read = read])

Put(s, row) == session' = [session EXCEPT ![s] = row]
KeepWatch == UNCHANGED <<seen, older>>
KeepLedger == UNCHANGED <<credits, cursor>> /\ KeepWatch
KeepHistory == UNCHANGED <<cookies, forms, signed>>

-----------------------------------------------------------------------------
(* The client. *)

\* startInteractive: the cookie that comes with the answer is not for the token.
StartInteractive(s, kind, amount) ==
  /\ session[s] = NoSession
  /\ Put(s, [NoSession EXCEPT !.kind = kind, !.status = "incomplete", !.amount = amount, !.token = TRUE])
  /\ UNCHANGED handler /\ KeepLedger /\ KeepHistory

ReadToken(c, s) ==
  /\ Waits(c) /\ session[s].token
  /\ Begins(c, "token", s, [NoSession EXCEPT !.submittedTx = session[s].submittedTx])
  /\ UNCHANGED session /\ KeepLedger /\ KeepHistory

\* issueInteractiveCookie: the token is consumed by whoever still finds it.
IssueCookie(c) ==
  LET s == handler[c].s IN
  /\ HandlerAt(c, "token")
  /\ IF session[s].token
     THEN /\ Put(s, [session[s] EXCEPT !.token = FALSE, !.submittedTx = handler[c].read.submittedTx])
          /\ cookies' = [cookies EXCEPT ![s] = IF session[s].kind # "withdraw" \/ @ = MaxCookies THEN @ ELSE @ + 1]
     ELSE UNCHANGED <<session, cookies>>
  /\ Ends(c)
  /\ UNCHANGED <<forms, signed>> /\ KeepLedger

\* completeInteractive refuses a session that it reads as completed, and stores
\* the form later, whatever the session is by then.
ReadForForm(c, s) ==
  /\ Waits(c) /\ session[s] # NoSession /\ session[s].status # "completed"
  /\ forms[s] < MaxForms
  /\ Begins(c, "form", s, [NoSession EXCEPT !.amount = session[s].amount])
  /\ UNCHANGED session /\ KeepLedger /\ KeepHistory

StoreForm(c, amount) ==
  LET s == handler[c].s IN
  /\ HandlerAt(c, "form") /\ forms[s] < MaxForms
  /\ Put(s, [session[s] EXCEPT
       !.status = IF session[s].kind = "deposit" THEN "pending_anchor" ELSE "pending_user_transfer_start",
       !.amount = IF amount = NoAmount THEN handler[c].read.amount ELSE amount,
       !.token = FALSE, !.submittedTx = NoHash])
  /\ forms' = [forms EXCEPT ![s] = @ + 1]
  /\ Ends(c)
  /\ UNCHANGED <<cookies, signed>> /\ KeepLedger

\* The user pays the hot wallet with the session's memo, or there is a payment of
\* another memo, one that the hot wallet makes included.
Credit(memo, amount) ==
  /\ Len(credits) < MaxCredits
  /\ memo \in Sessions => session[memo] # NoSession
  /\ credits' = Append(credits, [memo |-> memo, amount |-> amount])
  /\ UNCHANGED <<session, cursor, handler>> /\ KeepWatch /\ KeepHistory

-----------------------------------------------------------------------------
(* completeDeposit and submitPayment. *)

ReadDeposit(c, s) ==
  /\ Waits(c) /\ session[s].kind = "deposit" /\ session[s].amount # NoAmount
  /\ Begins(c, "claim", s, Metadata(session[s]))
  /\ UNCHANGED session /\ KeepLedger /\ KeepHistory

\* Mutant: a deposit that is being paid out may be claimed.
ClaimUnlessCompleted(c) ==
  LET s == handler[c].s IN
  /\ HandlerAt(c, "claim")
  /\ IF session[s].status # "completed"
     THEN Put(s, [session[s] EXCEPT !.status = "pending_stellar"]) /\ Steps(c, "sign")
     ELSE UNCHANGED session /\ Ends(c)
  /\ KeepLedger /\ KeepHistory

\* Without the treasury's key the call ends after the claim.
ClaimDeposit(c) ==
  LET s == handler[c].s IN
  /\ HandlerAt(c, "claim")
  /\ IF session[s].status \in DepositSettleStatuses
     THEN /\ Put(s, [session[s] EXCEPT !.status = "pending_stellar"])
          /\ Steps(c, "sign") \/ Ends(c)
     ELSE UNCHANGED session /\ Ends(c)
  /\ KeepLedger /\ KeepHistory

\* What is stored of a failure that does not carry the hash of this attempt: the
\* hash that was read with the session, if there was one.
FailWithout(c) ==
  LET s == handler[c].s
      row == [session[s] EXCEPT !.token = handler[c].read.token, !.submittedTx = handler[c].read.submittedTx] IN
  /\ \/ Put(s, [row EXCEPT !.status = "error"])
     \/ /\ handler[c].read.submittedTx # NoHash
        /\ Put(s, [row EXCEPT !.status = "pending_stellar_unknown", !.tx = handler[c].read.submittedTx])
  /\ Ends(c)

\* The hash is stored, with the metadata that was read, before the payment is
\* submitted; what fails before there is one fails without it.
Sign(c) ==
  LET s == handler[c].s
      hash == PayoutHash(s, signed[s] + 1) IN
  /\ HandlerAt(c, "sign")
  /\ \/ /\ signed[s] < MaxPayouts
        /\ signed' = [signed EXCEPT ![s] = @ + 1]
        /\ Put(s, [session[s] EXCEPT !.tx = hash, !.submittedTx = hash, !.token = handler[c].read.token])
        /\ Becomes(c, [handler[c] EXCEPT !.at = "submitted", !.hash = hash])
     \/ FailWithout(c) /\ UNCHANGED signed
  /\ UNCHANGED <<cookies, forms>> /\ KeepLedger

\* A submission that is not answered leaves the outcome unknown; when the
\* payment went through and the completing write is refused, the failure knows
\* nothing of this payment's hash.
FinishDeposit(c) ==
  LET s == handler[c].s IN
  /\ HandlerAt(c, "submitted")
  /\ \/ Put(s, [session[s] EXCEPT !.status = "completed", !.tx = handler[c].hash]) /\ Ends(c)
     \/ /\ Put(s, [session[s] EXCEPT !.status = "pending_stellar_unknown", !.tx = handler[c].hash,
                     !.submittedTx = handler[c].hash, !.token = handler[c].read.token])
        /\ Ends(c)
     \/ FailWithout(c)
  /\ KeepLedger /\ KeepHistory

-----------------------------------------------------------------------------
(* finalizeWithdrawal and watchDeposits. *)

\* updateMany where the status allows it.
FinalizeWithdrawal(s) ==
  /\ session[s].kind = "withdraw" /\ session[s].status \in WithdrawFinalizeStatuses
  /\ Put(s, [session[s] EXCEPT !.status = "completed"])
  /\ UNCHANGED handler /\ KeepLedger /\ KeepHistory

\* A pass reads the sessions it may match before it reads the ledger.
StartWatch(c) ==
  /\ Waits(c)
  /\ Becomes(c, [NoHandler EXCEPT !.at = "fetch",
       !.pending = {[s |-> s, row |-> Compared(session[s])] :
                      s \in {t \in Sessions : session[t].status \in WatchPendingStatuses}}])
  /\ UNCHANGED session /\ KeepLedger /\ KeepHistory

\* With a cursor all that follows it is read, page by page; without one there is
\* one page, the newest payments first.
Fetch(c) ==
  LET n == Len(credits)
      page == IF n < PAGE_LIMIT THEN n ELSE PAGE_LIMIT IN
  /\ HandlerAt(c, "fetch")
  /\ IF cursor = 0
     THEN /\ Becomes(c, [handler[c] EXCEPT !.at = "match", !.newest = n,
                          !.records = [i \in 1..page |-> n + 1 - i]])
          /\ older' = IF older < n - page THEN n - page ELSE older
     ELSE /\ Becomes(c, [handler[c] EXCEPT !.at = "match", !.newest = n,
                          !.records = [i \in 1..(n - cursor) |-> cursor + i]])
          /\ UNCHANGED older
  /\ UNCHANGED <<session, credits, cursor, seen>> /\ KeepHistory

\* paymentMatchesSession, with the memo, when it was found, or the hash.
Matches(entry, i, found) ==
  /\ entry.row.tx = CreditHash(i) \/ (found /\ credits[i].memo = entry.s)
  /\ entry.row.amount \in {NoAmount, credits[i].amount}

\* The memo is on the payment's transaction, which may not be found; the pass
\* goes on without it.  A withdrawal that waits for the transfer is funded by it;
\* any other session that matches is completed.
MatchNext(c) ==
  LET h == handler[c]
      i == Head(h.records)
      rest == [h EXCEPT !.records = Tail(@)] IN
  /\ HandlerAt(c, "match") /\ h.records # <<>>
  /\ seen' = seen \cup {i}
  /\ \E found \in BOOLEAN :
       \/ /\ \A entry \in h.pending : ~Matches(entry, i, found)
          /\ Becomes(c, rest) /\ UNCHANGED session
       \/ \E entry \in h.pending :
            /\ Matches(entry, i, found)
            /\ Becomes(c, [rest EXCEPT !.pending = @ \ {entry}])
            /\ Put(entry.s, [session[entry.s] EXCEPT !.tx = CreditHash(i),
                 !.status = IF entry.row.kind = "withdraw" /\ entry.row.status = "pending_user_transfer_start"
                            THEN "pending_external" ELSE "completed"])
  /\ UNCHANGED <<credits, cursor, older>> /\ KeepHistory

\* Mutant: the cursor is set to the newest payment there is by then.
SaveNewest(c) ==
  /\ HandlerAt(c, "match") /\ handler[c].records = <<>>
  /\ cursor' = Len(credits)
  /\ Ends(c)
  /\ UNCHANGED <<session, credits>> /\ KeepWatch /\ KeepHistory

SaveCursor(c) ==
  /\ HandlerAt(c, "match") /\ handler[c].records = <<>>
  /\ cursor' = handler[c].newest
  /\ Ends(c)
  /\ UNCHANGED <<session, credits>> /\ KeepWatch /\ KeepHistory

\* The process dies, which ends every handler, or a request or write of this one
\* fails: a pass leaves the cursor where it was.
HandlerFails(c) ==
  /\ ~Waits(c)
  /\ Ends(c)
  /\ UNCHANGED session /\ KeepLedger /\ KeepHistory

SepInit ==
  /\ session = [s \in Sessions |-> NoSession]
  /\ credits = <<>>
  /\ cursor = 0
  /\ handler = [c \in SepCalls |-> NoHandler]
  /\ cookies = [s \in Sessions |-> 0]
  /\ forms = [s \in Sessions |-> 0]
  /\ signed = [s \in Sessions |-> 0]
  /\ seen = {} /\ older = 0

SepNext ==
  \/ \E memo \in Sessions \cup {OtherMemo}, amount \in SepAmounts : Credit(memo, amount)
  \/ \E s \in Sessions :
       \/ FinalizeWithdrawal(s)
       \/ \E kind \in {"deposit", "withdraw"}, amount \in {NoAmount} \cup SepAmounts :
            StartInteractive(s, kind, amount)
       \/ \E c \in SepCalls : ReadToken(c, s) \/ ReadForForm(c, s) \/ ReadDeposit(c, s)
  \/ \E c \in SepCalls :
       \/ IssueCookie(c) \/ \E amount \in {NoAmount} \cup SepAmounts : StoreForm(c, amount)
       \/ ClaimDeposit(c) \/ Sign(c) \/ FinishDeposit(c)
       \/ StartWatch(c) \/ Fetch(c) \/ MatchNext(c) \/ SaveCursor(c)
       \/ HandlerFails(c)

SepSpec == SepInit /\ [][SepNext]_sepVars

-----------------------------------------------------------------------------
(* Properties. *)

SepTypeOK ==
  /\ cursor <= Len(credits)
  /\ \A s \in Sessions : session[s].status \in
       {"none", "error", "completed"} \cup DepositSettleStatuses \cup WatchPendingStatuses

\* A withdrawal is only ever taken for funded, or completed, when the hot wallet
\* received a payment with its memo, whatever forms and passes interleave.
WithdrawalFunded ==
  \A s \in Sessions :
    session[s].kind = "withdraw" /\ session[s].status \in {"pending_external", "completed"} =>
      \E i \in DOMAIN credits : credits[i].memo = s

\* "invalid or already used": the link of a withdrawal gives one cookie, however
\* many times it is opened at once and whatever form is stored meanwhile.  (A
\* deposit that is settled with metadata read before its link was opened gets
\* the token back.)
TokenUsedOnce == \A s \in Sessions : session[s].kind = "withdraw" => cookies[s] <= 1

\* "already in progress": two settlements of a deposit never overlap, unless its
\* form was sent again and set it back to 'pending_anchor'.
SettlesApart ==
  \A s \in Sessions : forms[s] <= 1 =>
    Cardinality({c \in SepCalls : handler[c].s = s /\ handler[c].at \in {"sign", "submitted"}}) <= 1

\* The cursor leaves no credit behind, by however many passes that die, fail or
\* overlap: what it has passed was looked up, though its transaction may not have
\* been found, or is older than the page a pass without a cursor reads.
NoCreditSkipped == \A i \in 1..cursor : i \in seen \/ i <= older

\* What the sessions keep: nothing is taken for funded that is not, settled twice
\* at once, skipped by the watcher or opened with a used token.
SepInv == SepTypeOK /\ WithdrawalFunded /\ SettlesApart /\ NoCreditSkipped /\ TokenUsedOnce
=============================================================================
