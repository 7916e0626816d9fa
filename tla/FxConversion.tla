----------------------------- MODULE FxConversion -----------------------------
(***************************************************************************)
(* Rates, quotes and conversions of one asset pair in one wallet           *)
(* (services/fx.service.ts).  A transaction of the database is Read        *)
(* Committed unless the code says otherwise: each of its statements reads  *)
(* what is committed by then, and its writes become visible together.      *)
(***************************************************************************)
EXTENDS Integers, Sequences, FiniteSets

CONSTANTS
  OfferedRates,     \* rates the sources offer: units bought by one unit sold
  FxCalls,          \* requests served at a time
  MaxRates,         \* bound: ExchangeRate rows
  MaxQuotes,        \* bound: ConversionQuote rows
  SourceFunds,      \* balances of the asset that is sold that a wallet begins with
  QUOTE_TTL,
  MaxFxTime         \* bound: the clock

ASSUME FxAssumption ==
  /\ OfferedRates \subseteq Nat /\ SourceFunds \subseteq Nat
  /\ {MaxRates, MaxQuotes, QUOTE_TTL, MaxFxTime} \subseteq Nat

VARIABLES
  rates,         \* ExchangeRate rows in order of validFrom: [rate, active]
  quotes,        \* ConversionQuote rows: [rate, status, expiresAt]
  funds,         \* what the wallet began with (history)
  source,        \* balance of the asset that is sold
  target,        \* balance of the asset that is bought
  conversions,   \* Transaction rows: [quote, executedAt, amount]
  fx,            \* call -> where it is and what it has read
  fxTime,
  overlapped,    \* whether a conversion committed during another (history)
  syncRaced      \* whether a rate was written during a sync (history)

fxVars == <<rates, quotes, funds, source, target, conversions, fx, fxTime, overlapped, syncRaced>>

NoCall == [at |-> "none", quote |-> 0, rate |-> 0, snapshot |-> {}, read |-> 0, also |-> 0, executedAt |-> 0,
           pricing |-> FALSE, alone |-> TRUE]
AtFx(c, place) == fx[c].at = place
EndFx(c) == fx' = [fx EXCEPT ![c] = NoCall]
GoFx(c, place) == fx' = [fx EXCEPT ![c].at = place]
Active == {i \in DOMAIN rates : rates[i].active}
\* c has committed; the calls at these places were under way meanwhile.
Committed(c, places) ==
  [d \in FxCalls |-> IF d = c THEN NoCall ELSE [fx[d] EXCEPT !.alone = @ /\ fx[d].at \notin places]]
Converting == {"date", "quote", "source", "target", "commit"}
Underway(c, places) == \E d \in FxCalls \ {c} : fx[d].at \in places

KeepRates == UNCHANGED <<rates, syncRaced>>
KeepMoney == UNCHANGED <<funds, source, target, conversions, overlapped>>

-----------------------------------------------------------------------------
(* getCurrentRates, calculateQuote, upsertRate, deactivateRate *)

\* The newest active row stands if it is what the sources offer.
ReadLatestRate(c, rate, pricing) ==
  LET stands == \E i \in Active : rates[i].rate = rate /\ \A j \in Active : j <= i IN
  /\ AtFx(c, "none") /\ stands => pricing
  /\ fx' = [fx EXCEPT ![c] = [NoCall EXCEPT !.rate = rate, !.pricing = pricing,
       !.at = IF stands THEN "price" ELSE "sync"]]
  /\ KeepRates /\ KeepMoney /\ UNCHANGED <<quotes, fxTime>>

\* The update of the active rows, which does not see rows inserted meanwhile.
BeginSync(c) ==
  /\ AtFx(c, "sync")
  /\ fx' = [fx EXCEPT ![c].at = "insert", ![c].snapshot = Active, ![c].alone = TRUE]
  /\ KeepRates /\ KeepMoney /\ UNCHANGED <<quotes, fxTime>>

Replaced(rows, rate) ==
  Append([i \in DOMAIN rates |-> [rates[i] EXCEPT !.active = @ /\ i \notin rows]],
         [rate |-> rate, active |-> TRUE])

CommitSync(c) ==
  /\ AtFx(c, "insert") /\ Len(rates) < MaxRates
  /\ rates' = Replaced(fx[c].snapshot, fx[c].rate)
  /\ syncRaced' = (syncRaced \/ ~fx[c].alone \/ Underway(c, {"insert", "upsert"}))
  /\ fx' = [Committed(c, {}) EXCEPT ![c].at = IF fx[c].pricing THEN "price" ELSE "none"]
  /\ KeepMoney /\ UNCHANGED <<quotes, fxTime>>

\* The price is read back from the table; without an active row there is none.
CreateQuote(c) ==
  /\ AtFx(c, "price")
  /\ IF Active = {} THEN UNCHANGED quotes
     ELSE /\ Len(quotes) < MaxQuotes
          /\ \E i \in Active :
               quotes' = Append(quotes, [rate |-> rates[i].rate, status |-> "pending", expiresAt |-> fxTime + QUOTE_TTL])
  /\ EndFx(c)
  /\ KeepRates /\ KeepMoney /\ UNCHANGED fxTime

BeginUpsert(c, rate) ==
  /\ AtFx(c, "none")
  /\ fx' = [fx EXCEPT ![c] = [NoCall EXCEPT !.at = "upsert", !.rate = rate, !.snapshot = Active]]
  /\ KeepRates /\ KeepMoney /\ UNCHANGED <<quotes, fxTime>>

\* Serializable: it fails if a rate it would replace was changed, or another
\* upsert committed, since it began.
CommitUpsert(c) ==
  /\ AtFx(c, "upsert")
  /\ IF fx[c].alone /\ fx[c].snapshot \subseteq Active
     THEN /\ Len(rates) < MaxRates
          /\ rates' = Replaced(fx[c].snapshot, fx[c].rate)
          /\ fx' = Committed(c, {"upsert", "insert"})
          /\ syncRaced' = (syncRaced \/ Underway(c, {"insert"}))
     ELSE EndFx(c) /\ KeepRates
  /\ KeepMoney /\ UNCHANGED <<quotes, fxTime>>

DeactivateRate(i) ==
  /\ i \in Active
  /\ rates' = [rates EXCEPT ![i].active = FALSE]
  /\ UNCHANGED <<fx, syncRaced, quotes, fxTime>> /\ KeepMoney

-----------------------------------------------------------------------------
(* executeConversion *)

\* The reads before the transaction.
BeginConversion(c, q) ==
  /\ AtFx(c, "none") /\ q \in DOMAIN quotes
  /\ quotes[q].status # "executed"
  /\ quotes[q].expiresAt <= fxTime => quotes[q].status = "pending"
  /\ fx' = [fx EXCEPT ![c] = [NoCall EXCEPT !.quote = q,
       !.at = IF quotes[q].expiresAt > fxTime THEN "date" ELSE "expire"]]
  /\ KeepRates /\ KeepMoney /\ UNCHANGED <<quotes, fxTime>>

\* executedAt is a later look at the clock than the check before it.
TakeDate(c) ==
  /\ AtFx(c, "date")
  /\ fx' = [fx EXCEPT ![c].at = "quote", ![c].executedAt = fxTime]
  /\ KeepRates /\ KeepMoney /\ UNCHANGED <<quotes, fxTime>>

\* The status is written over whatever it is by then.
ExpireQuote(c) ==
  /\ AtFx(c, "expire")
  /\ quotes' = [quotes EXCEPT ![fx[c].quote].status = "expired"]
  /\ EndFx(c)
  /\ KeepRates /\ KeepMoney /\ UNCHANGED fxTime

\* What is read in the transaction decides again; nothing locks the row.  A quote
\* that has expired by now is marked so, and the error undoes the mark.
ReadQuote(c) ==
  LET quote == quotes[fx[c].quote] IN
  /\ AtFx(c, "quote")
  /\ IF quote.status = "executed" \/ quote.expiresAt <= fx[c].executedAt THEN EndFx(c) ELSE GoFx(c, "source")
  /\ KeepRates /\ KeepMoney /\ UNCHANGED <<quotes, fxTime>>

ReadSource(c) ==
  /\ AtFx(c, "source")
  /\ IF source < 1 THEN EndFx(c) ELSE fx' = [fx EXCEPT ![c].at = "target", ![c].read = source]
  /\ KeepRates /\ KeepMoney /\ UNCHANGED <<quotes, fxTime>>

ReadTarget(c) ==
  /\ AtFx(c, "target")
  /\ fx' = [fx EXCEPT ![c].at = "commit", ![c].also = target]
  /\ KeepRates /\ KeepMoney /\ UNCHANGED <<quotes, fxTime>>

\* Mutant: the quote is not marked with the rest.
CommitUnmarked(c) ==
  LET q == fx[c].quote IN
  /\ AtFx(c, "commit")
  /\ source' = fx[c].read - 1 /\ target' = fx[c].also + quotes[q].rate
  /\ conversions' = Append(conversions, [quote |-> q, executedAt |-> fx[c].executedAt, amount |-> quotes[q].rate])
  /\ overlapped' = (overlapped \/ ~fx[c].alone)
  /\ fx' = Committed(c, Converting)
  /\ UNCHANGED <<fxTime, quotes, funds>> /\ KeepRates

\* Both balances become what was read, less and plus the amounts of the quote.
CommitConversion(c) ==
  LET q == fx[c].quote IN
  /\ AtFx(c, "commit")
  /\ source' = fx[c].read - 1 /\ target' = fx[c].also + quotes[q].rate
  /\ quotes' = [quotes EXCEPT ![q].status = "executed"]
  /\ conversions' = Append(conversions, [quote |-> q, executedAt |-> fx[c].executedAt, amount |-> quotes[q].rate])
  /\ overlapped' = (overlapped \/ ~fx[c].alone)
  /\ fx' = Committed(c, Converting)
  /\ UNCHANGED <<fxTime, funds>> /\ KeepRates

\* A lost connection, a dead process or a serialization failure undoes a call.
FxFails(c) ==
  /\ fx[c] # NoCall /\ EndFx(c)
  /\ UNCHANGED <<quotes, fxTime>> /\ KeepRates /\ KeepMoney

FxTick ==
  /\ fxTime < MaxFxTime /\ fxTime' = fxTime + 1
  /\ UNCHANGED <<quotes, fx>> /\ KeepRates /\ KeepMoney

FxInit ==
  /\ rates = <<>> /\ quotes = <<>> /\ conversions = <<>>
  /\ funds \in SourceFunds /\ source = funds /\ target = 0
  /\ fx = [c \in FxCalls |-> NoCall]
  /\ fxTime = 0 /\ overlapped = FALSE /\ syncRaced = FALSE

FxNext ==
  \/ FxTick
  \/ \E i \in 1..MaxRates : DeactivateRate(i)
  \/ \E c \in FxCalls :
       \/ \E rate \in OfferedRates :
            BeginUpsert(c, rate) \/ \E pricing \in BOOLEAN : ReadLatestRate(c, rate, pricing)
       \/ BeginSync(c) \/ CommitSync(c) \/ CreateQuote(c) \/ CommitUpsert(c)
       \/ \E q \in 1..MaxQuotes : BeginConversion(c, q)
       \/ ExpireQuote(c) \/ TakeDate(c) \/ ReadQuote(c) \/ ReadSource(c) \/ ReadTarget(c) \/ CommitConversion(c)
       \/ FxFails(c)

FxSpec == FxInit /\ [][FxNext]_fxVars

-----------------------------------------------------------------------------
(* Properties. *)

\* A conversion names a quote, and nothing is added to what is sold.
FxTypeOK ==
  /\ source <= funds /\ target >= 0
  /\ \A i \in DOMAIN conversions : conversions[i].quote \in DOMAIN quotes

\* "Insufficient balance": no wallet is overdrawn, whatever conversions overlap.
NeverOverdrawn == source >= 0

\* "Quote has expired": a conversion is dated before its quote's expiry, and a
\* quote that is marked executed has its conversion.
ConvertedInTime ==
  /\ \A i \in DOMAIN conversions : conversions[i].executedAt < quotes[conversions[i].quote].expiresAt
  /\ \A q \in DOMAIN quotes : quotes[q].status = "executed" => \E i \in DOMAIN conversions : conversions[i].quote = q

\* "Quote has already been used": as long as no conversion of the wallet
\* committed while another was under way, each quote is converted once and the
\* balances are those of the conversions, one after another.
ConvertedOnce ==
  ~overlapped =>
    /\ \A i, j \in DOMAIN conversions : conversions[i].quote = conversions[j].quote => i = j
    /\ source = funds - Len(conversions)

\* A pair has at most one active rate, though rates are set by hand at the same
\* time, unless a sync with the sources ran during another write.
OneActiveRate == ~syncRaced => Cardinality(Active) <= 1

\* What conversions keep: a wallet that is not overdrawn, quotes that are used in
\* time and once, and one rate to quote from.
FxInv == FxTypeOK /\ NeverOverdrawn /\ ConvertedInTime /\ ConvertedOnce /\ OneActiveRate
=============================================================================
