---------------------------- MODULE ContractProofs ----------------------------
(***************************************************************************)
(* Theorems about contracts that act for named parties, each for every     *)
(* number of accounts, records and calls: the escrow, the multisig wallet, *)
(* the treasury, the payroll and the vesting contract, the batch executor  *)
(* and governance.  They share the clock and the token balances of         *)
(* Soroban.tla and nothing else: each part speaks of the specification of  *)
(* one contract.                                                           *)
(***************************************************************************)
EXTENDS Escrow, Multisig, PayrollContract, TreasuryContract, Vesting, BatchExecutor, Governance,
  SumProofs, SequenceTheorems, TLAPS

-----------------------------------------------------------------------------
(* The escrow: its records are well formed, and a dispute is held.          *)

EscrowRecords ==
  [buyer : Accounts, seller : Accounts, arbitrator : Accounts, asset : Assets,
   amount : Nat \ {0}, timeoutAt : Nat, status : EscrowStatuses, settledBy : SUBSET Accounts]

EscrowSound == HostTypeOK /\ escrows \in Seq(EscrowRecords)

\* A record of which only the status and who authorised it change.
LEMMA SettledRecord ==
  ASSUME EscrowSound, NEW id \in DOMAIN escrows, NEW status \in EscrowStatuses,
         NEW by \in SUBSET Accounts,
         escrows' = [escrows EXCEPT ![id].status = status, ![id].settledBy = by]
  PROVE  /\ escrows' \in Seq(EscrowRecords)
         /\ escrows'[id].status = status /\ escrows'[id].settledBy = by
         /\ escrows'[id].asset = escrows[id].asset /\ escrows'[id].amount = escrows[id].amount
         /\ DOMAIN escrows' = DOMAIN escrows
         /\ \A x \in DOMAIN escrows : x # id => escrows'[x] = escrows[x]
<1> DEFINE e == [escrows[id] EXCEPT !.status = status, !.settledBy = by]
<1>1. /\ DOMAIN escrows = 1..Len(escrows) /\ id \in 1..Len(escrows)
      /\ escrows[id] \in EscrowRecords
      /\ escrows \in [1..Len(escrows) -> EscrowRecords]
  BY LenProperties, ElementOfSeq DEF EscrowSound
<1>2. /\ e \in EscrowRecords /\ e.status = status /\ e.settledBy = by
      /\ e.asset = escrows[id].asset /\ e.amount = escrows[id].amount
  BY <1>1 DEF EscrowRecords
<1>3. escrows' = [escrows EXCEPT ![id] = e]
  BY <1>1
<1> HIDE DEF e
<1>4. /\ escrows' \in Seq(EscrowRecords)
      /\ \A x \in 1..Len(escrows) : escrows'[x] = IF x = id THEN e ELSE escrows[x]
  <2>1. escrows \in Seq(EscrowRecords) /\ id \in 1..Len(escrows) /\ e \in EscrowRecords
    BY <1>1, <1>2 DEF EscrowSound
  <2>2. [escrows EXCEPT ![id] = e] \in Seq(EscrowRecords)
    BY <2>1, ExceptSeq
  <2> QED
    BY <1>1, <1>3, <2>2
<1> QED
  BY <1>1, <1>2, <1>4

LEMMA SetEscrowRecord ==
  ASSUME EscrowSound, NEW id \in DOMAIN escrows, NEW status \in EscrowStatuses,
         SetEscrow(id, status)
  PROVE  /\ escrows' \in Seq(EscrowRecords)
         /\ escrows'[id].status = status
         /\ escrows'[id].asset = escrows[id].asset /\ escrows'[id].amount = escrows[id].amount
         /\ DOMAIN escrows' = DOMAIN escrows
         /\ \A x \in DOMAIN escrows : x # id => escrows'[x] = escrows[x]
<1>1. /\ id \in 1..Len(escrows) /\ escrows[id] \in EscrowRecords
      /\ escrows \in [1..Len(escrows) -> EscrowRecords]
  BY LenProperties, ElementOfSeq DEF EscrowSound
<1>2. escrows' = [escrows EXCEPT ![id].status = status, ![id].settledBy = escrows[id].settledBy]
  BY <1>1 DEF SetEscrow, EscrowRecords
<1>3. escrows[id].settledBy \in SUBSET Accounts
  BY <1>1 DEF EscrowRecords
<1> QED
  BY <1>2, <1>3, SettledRecord

\* A record that is paid out.
LEMMA PaidRecord ==
  ASSUME EscrowSound, NEW id \in DOMAIN escrows, NEW winner, NEW by \in SUBSET Accounts,
         NEW status \in {"Completed", "Refunded"}, PayFromEscrow(id, winner, status, by)
  PROVE  /\ escrows' \in Seq(EscrowRecords)
         /\ escrows'[id].status = status /\ escrows'[id].settledBy = by
         /\ escrows'[id].asset = escrows[id].asset /\ escrows'[id].amount = escrows[id].amount
         /\ DOMAIN escrows' = DOMAIN escrows
         /\ \A x \in DOMAIN escrows : x # id => escrows'[x] = escrows[x]
<1>1. /\ escrows' = [escrows EXCEPT ![id].status = status, ![id].settledBy = by]
      /\ status \in EscrowStatuses
  BY DEF PayFromEscrow, EscrowStatuses
<1> QED
  BY <1>1, SettledRecord

\* One step keeps the records well formed and holds every dispute.
LEMMA EscrowStep ==
  ASSUME EscrowSound, [EscrowNext]_escrowVars
  PROVE  /\ EscrowSound'
         /\ \A id \in DOMAIN escrows :
              escrows[id].status \in EscrowHolding /\ escrows'[id].status \notin EscrowHolding =>
                LET e == escrows[id]
                    paid == IF escrows'[id].status = "Completed" THEN e.seller ELSE e.buyer IN
                /\ escrows'[id].status \in {"Completed", "Refunded"}
                /\ balance' = [balance EXCEPT ![e.asset] = Moved(@, EscrowAt, paid, e.amount)]
                /\ e.status = "Disputed" => escrows'[id].settledBy = {e.arbitrator}
                /\ now < e.timeoutAt => escrows'[id].settledBy \cap {e.buyer, e.arbitrator} # {}
<1> DEFINE Held(id) ==
      escrows[id].status \in EscrowHolding /\ escrows'[id].status \notin EscrowHolding =>
        LET e == escrows[id]
            paid == IF escrows'[id].status = "Completed" THEN e.seller ELSE e.buyer IN
        /\ escrows'[id].status \in {"Completed", "Refunded"}
        /\ balance' = [balance EXCEPT ![e.asset] = Moved(@, EscrowAt, paid, e.amount)]
        /\ e.status = "Disputed" => escrows'[id].settledBy = {e.arbitrator}
        /\ now < e.timeoutAt => escrows'[id].settledBy \cap {e.buyer, e.arbitrator} # {}
<1> SUFFICES EscrowSound' /\ \A id \in DOMAIN escrows : Held(id)
  OBVIOUS
<1>1. /\ HostTypeOK /\ now \in Nat /\ DOMAIN escrows = 1..Len(escrows)
      /\ \A id \in DOMAIN escrows : escrows[id] \in EscrowRecords
  BY SorobanAssumption, LenProperties, ElementOfSeq DEF EscrowSound, HostTypeOK
\* Nothing is paid out by a step that changes no record, or one that holds no money or goes on
\* holding it.
<1>2. ASSUME NEW id \in DOMAIN escrows,
             escrows'[id].status \in EscrowHolding \/ escrows[id].status \notin EscrowHolding
      PROVE  Held(id)
  BY <1>2
<1>3. ASSUME NEW id \in DOMAIN escrows, escrows'[id] = escrows[id]
      PROVE  Held(id)
  BY <1>3
<1>4. ASSUME NEW id \in DOMAIN escrows, NEW winner \in {escrows[id].buyer, escrows[id].seller},
             NEW status \in {"Completed", "Refunded"}, NEW by \in SUBSET Accounts,
             PayFromEscrow(id, winner, status, by),
             winner = (IF status = "Completed" THEN escrows[id].seller ELSE escrows[id].buyer),
             escrows[id].status = "Disputed" => by = {escrows[id].arbitrator},
             now < escrows[id].timeoutAt => by \cap {escrows[id].buyer, escrows[id].arbitrator} # {}
      PROVE  EscrowSound' /\ \A x \in DOMAIN escrows : Held(x)
  <2>1. /\ escrows' = [escrows EXCEPT ![id].status = status, ![id].settledBy = by]
        /\ Transfer(escrows[id].asset, EscrowAt, winner, escrows[id].amount)
        /\ now' = now /\ status \in EscrowStatuses
        /\ balance' = [balance EXCEPT ![escrows[id].asset] =
                         Moved(@, EscrowAt, winner, escrows[id].amount)]
    BY <1>4 DEF PayFromEscrow, Transfer, EscrowStatuses
  <2>2. /\ escrows' \in Seq(EscrowRecords)
        /\ escrows'[id].status = status /\ escrows'[id].settledBy = by
        /\ \A x \in DOMAIN escrows : x # id => escrows'[x] = escrows[x]
    BY <1>4, PaidRecord
  <2>3. HostTypeOK'
    <3>1. escrows[id].asset \in Assets /\ escrows[id].amount \in Int
      BY <1>1 DEF EscrowRecords
    <3>2. balance' \in [Assets -> [Addresses -> Nat]]
      BY <1>1, <2>1, <3>1, TransferTyped
    <3> QED
      BY <1>1, <2>1, <3>2 DEF HostTypeOK
  <2>4. Held(id)
    BY <1>4, <2>1, <2>2
  <2>5. \A x \in DOMAIN escrows : Held(x)
    BY <1>3, <2>2, <2>4
  <2> QED
    BY <2>2, <2>3, <2>5 DEF EscrowSound
<1>5. CASE UNCHANGED escrowVars
  <2>1. EscrowSound'
    BY <1>5 DEF EscrowSound, escrowVars, hostVars, HostTypeOK
  <2> QED
    BY <1>3, <1>5, <2>1 DEF escrowVars
<1>6. CASE Tick /\ UNCHANGED escrows
  <2>1. EscrowSound'
    BY <1>1, <1>6, TickTyped DEF EscrowSound
  <2> QED
    BY <1>3, <1>6, <2>1
<1>7. ASSUME NEW buyer \in Accounts, NEW seller \in Accounts, NEW arbitrator \in Accounts,
             NEW asset \in Assets, NEW amount \in EscrowAmounts, NEW timeout \in EscrowTimeouts,
             CreateEscrow(buyer, seller, arbitrator, asset, amount, timeout)
      PROVE  EscrowSound' /\ \A id \in DOMAIN escrows : Held(id)
  <2> DEFINE e == [buyer |-> buyer, seller |-> seller, arbitrator |-> arbitrator, asset |-> asset,
                   amount |-> amount, timeoutAt |-> now + timeout, status |-> "Created",
                   settledBy |-> {}]
  <2>1. e \in EscrowRecords
    BY <1>1, <1>7, EscrowAssumption DEF CreateEscrow, EscrowRecords, EscrowStatuses
  <2>2. escrows' = Append(escrows, e) /\ UNCHANGED hostVars
    BY <1>7 DEF CreateEscrow
  <2> HIDE DEF e
  <2>3. escrows' \in Seq(EscrowRecords) /\ \A id \in DOMAIN escrows : escrows'[id] = escrows[id]
    BY <1>1, <2>1, <2>2, AppendProperties DEF EscrowSound
  <2>4. EscrowSound'
    BY <1>1, <2>2, <2>3 DEF EscrowSound, hostVars, HostTypeOK
  <2> QED
    BY <1>3, <2>3, <2>4
<1>8. ASSUME NEW id \in DOMAIN escrows, FundEscrow(id)
      PROVE  EscrowSound' /\ \A x \in DOMAIN escrows : Held(x)
  <2>1. /\ escrows[id].asset \in Assets /\ escrows[id].amount \in Int
        /\ SetEscrow(id, "Funded") /\ now' = now /\ "Funded" \in EscrowStatuses
        /\ Transfer(escrows[id].asset, escrows[id].buyer, EscrowAt, escrows[id].amount)
    BY <1>1, <1>8 DEF FundEscrow, EscrowRecords, EscrowStatuses
  <2>2. /\ escrows' \in Seq(EscrowRecords) /\ escrows'[id].status = "Funded"
        /\ \A x \in DOMAIN escrows : x # id => escrows'[x] = escrows[x]
    BY <2>1, SetEscrowRecord
  <2>3. balance' \in [Assets -> [Addresses -> Nat]]
    BY <1>1, <2>1, TransferTyped
  <2>4. EscrowSound'
    BY <1>1, <2>1, <2>2, <2>3 DEF EscrowSound, HostTypeOK
  <2>5. Held(id)
    BY <1>2, <2>2 DEF EscrowHolding
  <2> QED
    BY <1>3, <2>2, <2>4, <2>5
<1>9. ASSUME NEW id \in DOMAIN escrows, RefundBuyer(id)
      PROVE  EscrowSound' /\ \A x \in DOMAIN escrows : Held(x)
  <2>1. /\ PayFromEscrow(id, escrows[id].buyer, "Refunded", {escrows[id].arbitrator})
        /\ {escrows[id].arbitrator} \in SUBSET Accounts
    BY <1>1, <1>9 DEF RefundBuyer, EscrowRecords
  <2> QED
    BY <1>4, <2>1
<1>10. ASSUME NEW id \in DOMAIN escrows, StartDispute(id) \/ CancelEscrow(id)
       PROVE  EscrowSound' /\ \A x \in DOMAIN escrows : Held(x)
  <2>1. PICK status \in {"Disputed", "Cancelled"} :
          /\ SetEscrow(id, status) /\ UNCHANGED hostVars /\ status \in EscrowStatuses
          /\ status = "Cancelled" => escrows[id].status = "Created"
    BY <1>10 DEF StartDispute, CancelEscrow, Open, EscrowStatuses
  <2>2. /\ escrows' \in Seq(EscrowRecords) /\ escrows'[id].status = status
        /\ \A x \in DOMAIN escrows : x # id => escrows'[x] = escrows[x]
    BY <2>1, SetEscrowRecord
  <2>3. EscrowSound'
    BY <1>1, <2>1, <2>2 DEF EscrowSound, hostVars, HostTypeOK
  <2>4. Held(id)
    BY <1>2, <2>1, <2>2 DEF EscrowHolding
  <2> QED
    BY <1>3, <2>2, <2>3, <2>4
<1>11. ASSUME NEW id \in DOMAIN escrows, NEW caller \in Accounts, ReleaseFunds(id, caller)
       PROVE  EscrowSound' /\ \A x \in DOMAIN escrows : Held(x)
  <2>1. PICK by \in SUBSET Accounts :
          /\ PayFromEscrow(id, escrows[id].seller, "Completed", by)
          /\ escrows[id].status = "Funded"
          /\ now < escrows[id].timeoutAt => by \cap {escrows[id].buyer, escrows[id].arbitrator} # {}
    BY <1>11 DEF ReleaseFunds, Open
  <2> QED
    BY <1>4, <2>1
<1>12. ASSUME NEW id \in DOMAIN escrows, NEW caller \in Accounts, ResolveDispute(id, caller)
       PROVE  EscrowSound' /\ \A x \in DOMAIN escrows : Held(x)
  <2>1. PICK status \in {"Completed", "Refunded"} :
          /\ PayFromEscrow(id, caller, status, {escrows[id].arbitrator})
          /\ status = (IF caller = escrows[id].seller THEN "Completed" ELSE "Refunded")
          /\ caller \in {escrows[id].buyer, escrows[id].seller}
          /\ {escrows[id].arbitrator} \in SUBSET Accounts
    BY <1>1, <1>12 DEF ResolveDispute, EscrowRecords
  <2>2. caller = (IF status = "Completed" THEN escrows[id].seller ELSE escrows[id].buyer)
    BY <2>1
  <2> QED
    BY <1>4, <2>1, <2>2
<1> QED
  BY <1>5, <1>6, <1>7, <1>8, <1>9, <1>10, <1>11, <1>12 DEF EscrowNext

\* What the escrow owes of an asset, and for which escrows.
AmountOf == [id \in DOMAIN escrows |-> escrows[id].amount]
HeldFor(t) == {id \in DOMAIN escrows : escrows[id].asset = t /\ escrows[id].status \in EscrowHolding}

LEMMA RecordsFinite ==
  ASSUME NEW rows \in Seq(EscrowRecords)
  PROVE  /\ IsFiniteSet(DOMAIN rows)
         /\ \A id \in DOMAIN rows : rows[id] \in EscrowRecords /\ rows[id].amount \in Int
<1>1. IsFiniteSet(DOMAIN rows) /\ \A id \in DOMAIN rows : rows[id] \in EscrowRecords
  BY SeqFacts
<1>2. \A id \in DOMAIN rows : rows[id].amount \in Int
  BY <1>1 DEF EscrowRecords
<1> QED
  BY <1>1, <1>2

\* What a step adds to the books of one asset, or takes from them, is one escrow's amount.
LEMMA BooksFollow ==
  ASSUME EscrowSound, EscrowSound', EscrowCovered, NEW t \in Assets,
         \A id \in DOMAIN escrows : id \in DOMAIN escrows' /\ escrows'[id].amount = escrows[id].amount,
         \/ /\ HeldFor(t)' = HeldFor(t)
            /\ balance'[t][EscrowAt] = balance[t][EscrowAt]
         \/ \E id \in DOMAIN escrows :
              \/ /\ id \notin HeldFor(t) /\ HeldFor(t)' = HeldFor(t) \cup {id}
                 /\ balance'[t][EscrowAt] = balance[t][EscrowAt] + escrows[id].amount
              \/ /\ id \in HeldFor(t) /\ HeldFor(t)' = HeldFor(t) \ {id}
                 /\ balance'[t][EscrowAt] = balance[t][EscrowAt] - escrows[id].amount
  PROVE  balance'[t][EscrowAt] = SumFunctionOnSet(AmountOf', HeldFor(t)')
<1>1. balance[t][EscrowAt] = SumFunctionOnSet(AmountOf, HeldFor(t))
  BY DEF EscrowCovered, AmountOf, HeldFor
<1>2. /\ IsFiniteSet(HeldFor(t)) /\ IsFiniteSet(HeldFor(t)') /\ HeldFor(t)' \subseteq DOMAIN escrows'
      /\ HeldFor(t) \subseteq DOMAIN escrows
      /\ \A id \in DOMAIN escrows : AmountOf[id] = escrows[id].amount /\ AmountOf[id] \in Int
      /\ \A id \in DOMAIN escrows : AmountOf'[id] = AmountOf[id]
  <2>1. \A id \in DOMAIN escrows : AmountOf'[id] = escrows'[id].amount
    BY DEF AmountOf
  <2> QED
    <3>1. HeldFor(t) \in SUBSET DOMAIN escrows /\ HeldFor(t)' \in SUBSET DOMAIN escrows'
      BY DEF HeldFor
    <3>2. IsFiniteSet(DOMAIN escrows) /\ IsFiniteSet(DOMAIN escrows')
      BY RecordsFinite DEF EscrowSound
    <3>3. IsFiniteSet(HeldFor(t)) /\ IsFiniteSet(HeldFor(t)')
      BY <3>1, <3>2, FS_Subset
    <3>4. \A id \in DOMAIN escrows : AmountOf[id] = escrows[id].amount /\ AmountOf[id] \in Int
      BY RecordsFinite DEF EscrowSound, AmountOf
    <3> QED
      BY <2>1, <3>1, <3>3, <3>4
<1>3. SumFunctionOnSet(AmountOf, HeldFor(t)) \in Int
  BY <1>2, SumInt
<1>4. ASSUME HeldFor(t)' \subseteq DOMAIN escrows
      PROVE  SumFunctionOnSet(AmountOf', HeldFor(t)') = SumFunctionOnSet(AmountOf, HeldFor(t)')
  BY <1>2, <1>4, SumSame
<1>5. CASE HeldFor(t)' = HeldFor(t) /\ balance'[t][EscrowAt] = balance[t][EscrowAt]
  BY <1>1, <1>2, <1>4, <1>5
<1>6. ASSUME NEW id \in DOMAIN escrows, id \notin HeldFor(t), HeldFor(t)' = HeldFor(t) \cup {id},
             balance'[t][EscrowAt] = balance[t][EscrowAt] + escrows[id].amount
      PROVE  balance'[t][EscrowAt] = SumFunctionOnSet(AmountOf', HeldFor(t)')
  <2>1. SumFunctionOnSet(AmountOf, HeldFor(t) \cup {id})
          = AmountOf[id] + SumFunctionOnSet(AmountOf, HeldFor(t))
    BY <1>2, <1>6, SumPut
  <2> QED
    BY <1>1, <1>2, <1>3, <1>4, <1>6, <2>1
<1>7. ASSUME NEW id \in DOMAIN escrows, id \in HeldFor(t), HeldFor(t)' = HeldFor(t) \ {id},
             balance'[t][EscrowAt] = balance[t][EscrowAt] - escrows[id].amount
      PROVE  balance'[t][EscrowAt] = SumFunctionOnSet(AmountOf', HeldFor(t)')
  <2>1. SumFunctionOnSet(AmountOf, HeldFor(t))
          = AmountOf[id] + SumFunctionOnSet(AmountOf, HeldFor(t) \ {id})
    BY <1>2, <1>7, SumTake
  <2>2. SumFunctionOnSet(AmountOf, HeldFor(t) \ {id}) \in Int
    BY <1>2, <1>7, SumInt
  <2> QED
    BY <1>1, <1>2, <1>4, <1>7, <2>1, <2>2
<1> QED
  BY <1>5, <1>6, <1>7

LEMMA CoveredStep ==
  ASSUME EscrowSound, EscrowCovered, [EscrowNext]_escrowVars
  PROVE  EscrowCovered'
<1>1. /\ EscrowSound' /\ HostTypeOK /\ EscrowAt \in Contracts
      /\ \A id \in DOMAIN escrows :
           /\ escrows[id].asset \in Assets /\ escrows[id].amount \in Int
           /\ escrows[id].buyer \in Accounts /\ escrows[id].seller \in Accounts
           /\ escrows[id].arbitrator \in Accounts
  <2>1. \A id \in DOMAIN escrows : escrows[id] \in EscrowRecords
    BY LenProperties, ElementOfSeq DEF EscrowSound
  <2> QED
    BY <2>1, EscrowStep, EscrowAssumption DEF EscrowSound, EscrowRecords
<1> DEFINE Stays(t) == HeldFor(t)' = HeldFor(t) /\ balance'[t][EscrowAt] = balance[t][EscrowAt]
           Enters(t, id) == /\ id \notin HeldFor(t) /\ HeldFor(t)' = HeldFor(t) \cup {id}
                            /\ balance'[t][EscrowAt] = balance[t][EscrowAt] + escrows[id].amount
           Leaves(t, id) == /\ id \in HeldFor(t) /\ HeldFor(t)' = HeldFor(t) \ {id}
                            /\ balance'[t][EscrowAt] = balance[t][EscrowAt] - escrows[id].amount
           Follows == /\ \A id \in DOMAIN escrows :
                           id \in DOMAIN escrows' /\ escrows'[id].amount = escrows[id].amount
                      /\ \A t \in Assets :
                           Stays(t) \/ \E id \in DOMAIN escrows : Enters(t, id) \/ Leaves(t, id)
<1>2. ASSUME UNCHANGED <<balance, escrows>>
      PROVE  Follows
  <2>1. \A t \in Assets : Stays(t)
    BY <1>2 DEF HeldFor
  <2> QED
    BY <1>2, <2>1
<1>3. ASSUME NEW buyer \in Accounts, NEW seller \in Accounts, NEW arbitrator \in Accounts,
             NEW asset \in Assets, NEW amount \in EscrowAmounts, NEW timeout \in EscrowTimeouts,
             CreateEscrow(buyer, seller, arbitrator, asset, amount, timeout)
      PROVE  Follows
  <2> DEFINE e == [buyer |-> buyer, seller |-> seller, arbitrator |-> arbitrator, asset |-> asset,
                   amount |-> amount, timeoutAt |-> now + timeout, status |-> "Created",
                   settledBy |-> {}]
  <2>1. escrows' = Append(escrows, e) /\ UNCHANGED hostVars
    BY <1>3 DEF CreateEscrow
  <2>2. e \in EscrowRecords /\ e.status \notin EscrowHolding
    <3>1. amount \in Int /\ amount > 0 /\ now \in Nat /\ timeout \in Nat
      BY <1>1, <1>3, EscrowAssumption, SorobanAssumption DEF CreateEscrow, HostTypeOK
    <3> QED
      BY <3>1 DEF EscrowRecords, EscrowStatuses, EscrowHolding
  <2> HIDE DEF e
  <2>3. /\ escrows' \in Seq(EscrowRecords) /\ DOMAIN escrows = 1..Len(escrows)
        /\ DOMAIN escrows' = 1..(Len(escrows) + 1) /\ Len(escrows) \in Nat
        /\ \A id \in DOMAIN escrows : escrows'[id] = escrows[id]
        /\ escrows'[Len(escrows) + 1] = e
    BY <2>1, <2>2, AppendProperties, LenProperties DEF EscrowSound
  <2>4. \A t \in Assets : HeldFor(t)' = HeldFor(t)
    BY <2>2, <2>3 DEF HeldFor
  <2> QED
    BY <2>1, <2>3, <2>4 DEF hostVars
<1>4. ASSUME NEW id \in DOMAIN escrows, NEW status \in EscrowStatuses, SetEscrow(id, status),
             status \in EscrowHolding <=> escrows[id].status \in EscrowHolding, UNCHANGED balance
      PROVE  Follows
  <2>1. /\ escrows'[id].status = status
        /\ escrows'[id].asset = escrows[id].asset /\ escrows'[id].amount = escrows[id].amount
        /\ DOMAIN escrows' = DOMAIN escrows
        /\ \A x \in DOMAIN escrows : x # id => escrows'[x] = escrows[x]
    BY <1>4, SetEscrowRecord
  <2>2. \A t \in Assets : HeldFor(t)' = HeldFor(t)
    BY <1>4, <2>1 DEF HeldFor
  <2> QED
    BY <1>4, <2>1, <2>2
<1>5. ASSUME NEW id \in DOMAIN escrows, FundEscrow(id)
      PROVE  Follows
  <2>1. /\ SetEscrow(id, "Funded") /\ "Funded" \in EscrowStatuses /\ escrows[id].status = "Created"
        /\ Transfer(escrows[id].asset, escrows[id].buyer, EscrowAt, escrows[id].amount)
    BY <1>5 DEF FundEscrow, Open, EscrowStatuses
  <2>2. /\ escrows'[id].status = "Funded"
        /\ escrows'[id].asset = escrows[id].asset /\ escrows'[id].amount = escrows[id].amount
        /\ DOMAIN escrows' = DOMAIN escrows
        /\ \A x \in DOMAIN escrows : x # id => escrows'[x] = escrows[x]
    BY <2>1, SetEscrowRecord
  <2>3. /\ id \notin HeldFor(escrows[id].asset)
        /\ HeldFor(escrows[id].asset)' = HeldFor(escrows[id].asset) \cup {id}
        /\ \A t \in Assets : t # escrows[id].asset => HeldFor(t)' = HeldFor(t)
    <3>1. HeldFor(escrows[id].asset)' = HeldFor(escrows[id].asset) \cup {id}
      BY <2>1, <2>2 DEF HeldFor, EscrowHolding
    <3>2. \A t \in Assets : t # escrows[id].asset => HeldFor(t)' = HeldFor(t)
      BY <2>1, <2>2 DEF HeldFor, EscrowHolding
    <3> QED
      BY <2>1, <3>1, <3>2 DEF HeldFor, EscrowHolding
  <2>4. /\ balance'[escrows[id].asset][EscrowAt] = balance[escrows[id].asset][EscrowAt] + escrows[id].amount
        /\ \A t \in Assets : t # escrows[id].asset => balance'[t][EscrowAt] = balance[t][EscrowAt]
    BY <1>1, <2>1, MoneyIn
  <2> QED
    BY <2>2, <2>3, <2>4
<1>6. ASSUME NEW id \in DOMAIN escrows, NEW winner \in {escrows[id].buyer, escrows[id].seller},
             NEW status \in {"Completed", "Refunded"}, NEW by \in SUBSET Accounts,
             PayFromEscrow(id, winner, status, by), escrows[id].status \in EscrowHolding
      PROVE  Follows
  <2>1. /\ escrows' = [escrows EXCEPT ![id].status = status, ![id].settledBy = by]
        /\ status \in EscrowStatuses /\ status \notin EscrowHolding
        /\ Transfer(escrows[id].asset, EscrowAt, winner, escrows[id].amount)
    BY <1>6 DEF PayFromEscrow, EscrowStatuses, EscrowHolding
  <2>2. /\ escrows'[id].status = status
        /\ escrows'[id].asset = escrows[id].asset /\ escrows'[id].amount = escrows[id].amount
        /\ DOMAIN escrows' = DOMAIN escrows
        /\ \A x \in DOMAIN escrows : x # id => escrows'[x] = escrows[x]
    BY <2>1, SettledRecord
  <2>3. /\ id \in HeldFor(escrows[id].asset)
        /\ HeldFor(escrows[id].asset)' = HeldFor(escrows[id].asset) \ {id}
        /\ \A t \in Assets : t # escrows[id].asset => HeldFor(t)' = HeldFor(t)
    <3>1. HeldFor(escrows[id].asset)' = HeldFor(escrows[id].asset) \ {id}
      BY <2>1, <2>2 DEF HeldFor
    <3>2. \A t \in Assets : t # escrows[id].asset => HeldFor(t)' = HeldFor(t)
      BY <2>1, <2>2 DEF HeldFor
    <3> QED
      BY <1>6, <3>1, <3>2 DEF HeldFor
  <2>4. /\ balance'[escrows[id].asset][EscrowAt] = balance[escrows[id].asset][EscrowAt] - escrows[id].amount
        /\ \A t \in Assets : t # escrows[id].asset => balance'[t][EscrowAt] = balance[t][EscrowAt]
    BY <1>1, <1>6, <2>1, MoneyOut
  <2> QED
    BY <2>2, <2>3, <2>4
<1>7. ASSUME NEW id \in DOMAIN escrows, RefundBuyer(id) \/ StartDispute(id) \/ CancelEscrow(id)
      PROVE  Follows
  <2>1. CASE RefundBuyer(id)
    <3>1. escrows[id].arbitrator \in Accounts
      BY <1>1
    <3> QED
      BY <1>6, <2>1, <3>1 DEF RefundBuyer, Open, EscrowHolding
  <2>2. CASE StartDispute(id)
    BY <1>4, <2>2 DEF StartDispute, Open, EscrowHolding, EscrowStatuses, hostVars
  <2>3. CASE CancelEscrow(id)
    BY <1>4, <2>3 DEF CancelEscrow, Open, EscrowHolding, EscrowStatuses, hostVars
  <2> QED
    BY <1>7, <2>1, <2>2, <2>3
<1>8. ASSUME NEW id \in DOMAIN escrows, NEW caller \in Accounts,
             ReleaseFunds(id, caller) \/ ResolveDispute(id, caller)
      PROVE  Follows
  <2>1. CASE ReleaseFunds(id, caller)
    <3>1. PICK by \in SUBSET Accounts : PayFromEscrow(id, escrows[id].seller, "Completed", by)
      BY <2>1 DEF ReleaseFunds
    <3>2. escrows[id].status \in EscrowHolding
      BY <2>1 DEF ReleaseFunds, Open, EscrowHolding
    <3> QED
      BY <1>6, <3>1, <3>2
  <2>2. CASE ResolveDispute(id, caller)
    <3>1. escrows[id].arbitrator \in Accounts
      BY <1>1
    <3>2. PICK status \in {"Completed", "Refunded"} :
            PayFromEscrow(id, caller, status, {escrows[id].arbitrator})
      BY <2>2 DEF ResolveDispute
    <3>3. escrows[id].status \in EscrowHolding /\ caller \in {escrows[id].buyer, escrows[id].seller}
      BY <2>2 DEF ResolveDispute, Open, EscrowHolding
    <3>4. {escrows[id].arbitrator} \in SUBSET Accounts
      BY <3>1
    <3> QED
      BY <1>6, <3>2, <3>3, <3>4
  <2> QED
    BY <1>8, <2>1, <2>2
<1>9. Follows
  <2> HIDE DEF Follows
  <2>1. CASE UNCHANGED escrowVars \/ (Tick /\ UNCHANGED escrows)
    BY <1>2, <2>1 DEF escrowVars, hostVars, Tick
  <2> QED
    BY <1>3, <1>5, <1>7, <1>8, <2>1 DEF EscrowNext
<1>10. \A t \in Assets : balance'[t][EscrowAt] = SumFunctionOnSet(AmountOf', HeldFor(t)')
  BY <1>1, <1>9, BooksFollow
<1> QED
  BY <1>10 DEF EscrowCovered, AmountOf, HeldFor

LEMMA EscrowRests ==
  ASSUME HostTypeOK, EscrowStart, \A t \in Assets : balance[t][EscrowAt] = 0
  PROVE  EscrowSound /\ EscrowCovered
<1>1. EscrowSound /\ escrows = <<>>
  BY EmptySeq DEF EscrowStart, EscrowSound
<1>2. \A t \in Assets : HeldFor(t) = {}
  BY <1>1 DEF HeldFor
<1>3. \A t \in Assets : balance[t][EscrowAt] = SumFunctionOnSet(AmountOf, HeldFor(t))
  BY <1>2, SumEmpty
<1> QED
  BY <1>1, <1>3 DEF EscrowCovered, AmountOf, HeldFor

LEMMA EscrowBegin ==
  ASSUME EscrowInit
  PROVE  EscrowSound /\ EscrowCovered
  BY HostStart, EscrowRests, EscrowAssumption DEF EscrowInit

\* What the contract holds of an asset is exactly what its open escrows owe, for any
\* number of escrows that are funded, released, refunded and disputed in any order.
THEOREM EscrowsCovered == EscrowSpec => []EscrowCovered
<1>1. EscrowInit => EscrowSound /\ EscrowCovered
  BY EscrowBegin
<1>2. EscrowSound /\ EscrowCovered /\ [EscrowNext]_escrowVars => EscrowSound' /\ EscrowCovered'
  BY EscrowStep, CoveredStep
<1> QED
  BY <1>1, <1>2, PTL DEF EscrowSpec

LEMMA EscrowRecordsTyped ==
  ASSUME EscrowSound
  PROVE  EscrowTypeOK
<1>1. ASSUME NEW id \in DOMAIN escrows
      PROVE  escrows[id] \in EscrowRecords
  BY LenProperties, ElementOfSeq DEF EscrowSound
<1> QED
  BY <1>1 DEF EscrowSound, EscrowTypeOK, EscrowRecords

\* The records of escrows stay well formed, whatever is released, refunded, disputed
\* and awarded.
THEOREM EscrowsWellFormed == EscrowSpec => []EscrowTypeOK
<1>1. EscrowInit => EscrowSound
  BY EscrowBegin
<1>2. EscrowSound /\ [EscrowNext]_escrowVars => EscrowSound'
  BY EscrowStep
<1>3. EscrowSound => EscrowTypeOK
  BY EscrowRecordsTyped
<1> QED
  BY <1>1, <1>2, <1>3, PTL DEF EscrowSpec

\* A dispute is decided by the arbitrator alone, a release before the timeout is
\* signed by the buyer or the arbitrator, and what is paid out is the amount, to the
\* party that the new status names (release_funds, refund_buyer, resolve_dispute).
THEOREM DisputesHeld == EscrowSpec => DisputeHeld
<1>1. EscrowInit => EscrowSound
  BY EscrowBegin
<1>2. EscrowSound /\ [EscrowNext]_escrowVars => EscrowSound'
  BY EscrowStep
<1>3. EscrowSound /\ [EscrowNext]_escrowVars =>
        \A id \in DOMAIN escrows :
          escrows[id].status \in EscrowHolding /\ escrows'[id].status \notin EscrowHolding =>
            LET e == escrows[id]
                paid == IF escrows'[id].status = "Completed" THEN e.seller ELSE e.buyer IN
            /\ escrows'[id].status \in {"Completed", "Refunded"}
            /\ balance' = [balance EXCEPT ![e.asset] = Moved(@, EscrowAt, paid, e.amount)]
            /\ e.status = "Disputed" => escrows'[id].settledBy = {e.arbitrator}
            /\ now < e.timeoutAt => escrows'[id].settledBy \cap {e.buyer, e.arbitrator} # {}
  BY EscrowStep
<1> QED
  BY <1>1, <1>2, <1>3, PTL DEF EscrowSpec, DisputeHeld

-----------------------------------------------------------------------------
(* The multisig wallet: its signers can reach its threshold, and money      *)
(* leaves only with a quorum of the signers of the moment.                  *)

Proposals ==
  [destination : Accounts, asset : Assets, amount : Nat \ {0}, approvals : SUBSET Accounts,
   executed : BOOLEAN]

MultisigSound ==
  /\ HostTypeOK
  /\ signers \subseteq Accounts
  /\ threshold \in Nat
  /\ signers = {} => threshold = 0
  /\ ThresholdReachable
  /\ transactions \in Seq(Proposals)

\* A finite set has a subset of every smaller size.
LEMMA SubsetOfSize ==
  ASSUME NEW S, IsFiniteSet(S), NEW k \in Nat, k <= Cardinality(S)
  PROVE  \E quorum \in SUBSET S : Cardinality(quorum) = k
<1>1. Cardinality(S) \in Nat /\ ExistsBijection(1..Cardinality(S), S)
  BY FS_CardinalityType
<1>2. PICK f \in Bijection(1..Cardinality(S), S) : TRUE
  BY <1>1 DEF ExistsBijection
<1>3. /\ f \in [1..Cardinality(S) -> S]
      /\ \A a, b \in 1..Cardinality(S) : f[a] = f[b] => a = b
  BY <1>2 DEF Bijection, Injection, IsInjective
<1> DEFINE quorum == {f[i] : i \in 1..k}
<1>4. 1..k \subseteq 1..Cardinality(S)
  BY <1>1
<1>5. quorum \in SUBSET S
  BY <1>3, <1>4
<1> DEFINE g == [i \in 1..k |-> f[i]]
<1>6. g \in Bijection(1..k, quorum)
  BY <1>3, <1>4 DEF Bijection, Injection, IsInjective, Surjection
<1>7. IsFiniteSet(1..k) /\ Cardinality(1..k) = k
  <2>1. Cardinality(1..k) = IF 1 > k THEN 0 ELSE k - 1 + 1
    BY FS_Interval
  <2> QED
    BY <2>1, FS_Interval
<1>8. Cardinality(quorum) = k
  <2>1. ExistsBijection(1..k, quorum)
    BY <1>6 DEF ExistsBijection
  <2> HIDE DEF quorum
  <2> QED
    BY <1>7, <2>1, FS_Bijection
<1> QED
  BY <1>5, <1>8

\* A transaction of which only the approvals or the execution change.
LEMMA ProposalSet ==
  ASSUME MultisigSound, NEW id \in DOMAIN transactions, NEW tx \in Proposals
  PROVE  /\ [transactions EXCEPT ![id] = tx] \in Seq(Proposals)
         /\ [transactions EXCEPT ![id] = tx][id] = tx
<1>1. /\ transactions \in Seq(Proposals) /\ id \in 1..Len(transactions)
      /\ transactions \in [1..Len(transactions) -> Proposals]
  BY LenProperties DEF MultisigSound
<1>2. [transactions EXCEPT ![id] = tx] \in Seq(Proposals)
  BY <1>1, ExceptSeq
<1> QED
  BY <1>1, <1>2

LEMMA SignersFinite ==
  ASSUME MultisigSound
  PROVE  /\ IsFiniteSet(signers) /\ Cardinality(signers) \in Nat
         /\ Cardinality(signers) <= Cardinality(Accounts) /\ Cardinality(Accounts) \in Nat
         /\ signers = {} <=> Cardinality(signers) = 0
  BY SorobanAssumption, FS_Subset, FS_CardinalityType, FS_EmptySet DEF MultisigSound

LEMMA ExecuteKeeps ==
  ASSUME MultisigSound, NEW id \in DOMAIN transactions, Execute(id)
  PROVE  /\ MultisigSound'
         /\ ~transactions[id].executed /\ transactions'[id].executed
         /\ balance'[transactions[id].asset] =
              Moved(balance[transactions[id].asset], MultisigAt, transactions[id].destination,
                    transactions[id].amount)
         /\ \A t \in Assets : t # transactions[id].asset => balance'[t] = balance[t]
         /\ \E quorum \in SUBSET (transactions[id].approvals \cap signers) :
              Cardinality(quorum) = threshold
<1>1. /\ transactions[id] \in Proposals
      /\ transactions[id].asset \in Assets /\ transactions[id].amount \in Int
      /\ transactions[id].approvals \subseteq Accounts
  <2>1. transactions[id] \in Proposals
    BY LenProperties, ElementOfSeq DEF MultisigSound
  <2> QED
    BY <2>1 DEF Proposals
<1>2. /\ ~transactions[id].executed /\ Cardinality(Approvals(id)) >= threshold
      /\ transactions' = [transactions EXCEPT ![id].executed = TRUE]
      /\ Transfer(transactions[id].asset, MultisigAt, transactions[id].destination,
                  transactions[id].amount)
      /\ UNCHANGED <<now, signers, threshold>>
  BY DEF Execute
<1>3. /\ balance' \in [Assets -> [Addresses -> Nat]]
      /\ balance'[transactions[id].asset] =
           Moved(balance[transactions[id].asset], MultisigAt, transactions[id].destination,
                 transactions[id].amount)
      /\ \A t \in Assets : t # transactions[id].asset => balance'[t] = balance[t]
  BY <1>1, <1>2, TransferTyped DEF MultisigSound
<1> DEFINE tx == [transactions[id] EXCEPT !.executed = TRUE]
<1>4. tx \in Proposals /\ tx.executed
  BY <1>1 DEF Proposals
<1>5. transactions' = [transactions EXCEPT ![id] = tx]
  BY <1>2
<1> HIDE DEF tx
<1>6. transactions' \in Seq(Proposals) /\ transactions'[id].executed
  BY <1>4, <1>5, ProposalSet
<1>7. MultisigSound'
  BY <1>2, <1>3, <1>6 DEF MultisigSound, HostTypeOK, ThresholdReachable
<1>8. \E quorum \in SUBSET Approvals(id) : Cardinality(quorum) = threshold
  <2>1. Approvals(id) \in SUBSET signers
    BY DEF Approvals
  <2>2. IsFiniteSet(Approvals(id)) /\ threshold \in Nat
    BY <2>1, SignersFinite, FS_Subset DEF MultisigSound
  <2>3. Cardinality(Approvals(id)) \in Nat
    BY <2>2, FS_CardinalityType
  <2> QED
    BY <1>2, <2>2, <2>3, SubsetOfSize
<1> QED
  BY <1>2, <1>3, <1>6, <1>7, <1>8 DEF Approvals

\* One step: the wallet stays usable, and what leaves it leaves with a quorum.
LEMMA MultisigStep ==
  ASSUME MultisigSound, [MultisigNext]_multisigVars
  PROVE  /\ MultisigSound'
         /\ \A t \in Assets : balance'[t][MultisigAt] < balance[t][MultisigAt] =>
              \E id \in DOMAIN transactions :
                LET tx == transactions[id] IN
                /\ ~tx.executed /\ transactions'[id].executed
                /\ balance'[t] = Moved(balance[t], MultisigAt, tx.destination, tx.amount)
                /\ \E quorum \in SUBSET (tx.approvals \cap signers) : Cardinality(quorum) = threshold
<1> DEFINE Quorate(t) ==
      balance'[t][MultisigAt] < balance[t][MultisigAt] =>
        \E id \in DOMAIN transactions :
          LET tx == transactions[id] IN
          /\ ~tx.executed /\ transactions'[id].executed
          /\ balance'[t] = Moved(balance[t], MultisigAt, tx.destination, tx.amount)
          /\ \E quorum \in SUBSET (tx.approvals \cap signers) : Cardinality(quorum) = threshold
<1> SUFFICES MultisigSound' /\ \A t \in Assets : Quorate(t)
  OBVIOUS
<1>1. /\ HostTypeOK /\ MultisigAt \in Addresses
      /\ \A t \in Assets : balance[t][MultisigAt] \in Nat
      /\ \A id \in DOMAIN transactions : transactions[id] \in Proposals
  <2>1. HostTypeOK /\ MultisigAt \in Addresses
    BY MultisigAssumption DEF MultisigSound, Addresses
  <2>2. \A t \in Assets : balance[t][MultisigAt] \in Nat
    BY <2>1 DEF HostTypeOK
  <2>3. \A id \in DOMAIN transactions : transactions[id] \in Proposals
    BY LenProperties, ElementOfSeq DEF MultisigSound
  <2> QED
    BY <2>1, <2>2, <2>3
<1>2. ASSUME \A t \in Assets : ~(balance'[t][MultisigAt] < balance[t][MultisigAt])
      PROVE  \A t \in Assets : Quorate(t)
  BY <1>2
<1>3. ASSUME balance' = balance
      PROVE  \A t \in Assets : Quorate(t)
  <2>1. \A t \in Assets : ~(balance[t][MultisigAt] < balance[t][MultisigAt])
    BY <1>1
  <2> QED
    BY <1>2, <1>3, <2>1
<1>4. ASSUME UNCHANGED hostVars, UNCHANGED transactions,
             signers' \subseteq Accounts, threshold' \in 1..Cardinality(signers'), signers' # {}
      PROVE  MultisigSound' /\ \A t \in Assets : Quorate(t)
  <2>1. Cardinality(signers') \in Nat
    BY <1>4, SorobanAssumption, FS_Subset, FS_CardinalityType
  <2>2. MultisigSound'
    BY <1>4, <2>1 DEF MultisigSound, hostVars, HostTypeOK, ThresholdReachable
  <2> QED
    BY <1>3, <1>4, <2>2 DEF hostVars
<1>5. CASE UNCHANGED multisigVars
  <2>1. MultisigSound'
    BY <1>5 DEF MultisigSound, multisigVars, hostVars, HostTypeOK, ThresholdReachable
  <2> QED
    BY <1>3, <1>5, <2>1 DEF multisigVars, hostVars
<1>6. ASSUME NEW first \in SUBSET Accounts, NEW needed \in 0..Cardinality(Accounts),
             InitializeMultisig(first, needed)
      PROVE  MultisigSound' /\ \A t \in Assets : Quorate(t)
  <2>1. /\ UNCHANGED hostVars /\ UNCHANGED transactions
        /\ signers' = first /\ threshold' = needed
        /\ needed # 0 /\ needed <= Cardinality(first)
    BY <1>6 DEF InitializeMultisig
  <2>2. IsFiniteSet(first) /\ Cardinality(first) \in Nat /\ needed \in Nat
    BY SorobanAssumption, FS_Subset, FS_CardinalityType
  <2>3. needed \in 1..Cardinality(first)
    BY <2>1, <2>2
  <2>4. first # {}
    BY <2>2, <2>3, FS_EmptySet
  <2> QED
    BY <1>4, <2>1, <2>3, <2>4
<1>7. ASSUME NEW needed \in 0..Cardinality(Accounts), ChangeThreshold(needed)
      PROVE  MultisigSound' /\ \A t \in Assets : Quorate(t)
  <2>1. /\ UNCHANGED hostVars /\ UNCHANGED <<signers, transactions>> /\ threshold' = needed
        /\ needed # 0 /\ needed <= Cardinality(signers) /\ signers # {}
    BY <1>7 DEF ChangeThreshold, SignedByThreshold
  <2>2. needed \in 1..Cardinality(signers) /\ signers \subseteq Accounts
    BY <2>1, SignersFinite DEF MultisigSound
  <2> QED
    BY <1>4, <2>1, <2>2
<1>8. ASSUME NEW a \in Accounts, AddSigner(a)
      PROVE  MultisigSound' /\ \A t \in Assets : Quorate(t)
  <2>1. /\ UNCHANGED hostVars /\ UNCHANGED <<threshold, transactions>>
        /\ signers' = signers \cup {a} /\ a \notin signers /\ signers # {}
    BY <1>8 DEF AddSigner, SignedByThreshold
  <2>2. Cardinality(signers') = Cardinality(signers) + 1
    BY <2>1, SignersFinite, FS_AddElement
  <2>3. threshold' \in 1..Cardinality(signers') /\ signers' \subseteq Accounts /\ signers' # {}
    BY <2>1, <2>2, SignersFinite DEF MultisigSound, ThresholdReachable
  <2> QED
    BY <1>4, <2>1, <2>3
<1>9. ASSUME NEW a \in Accounts, RemoveSigner(a)
      PROVE  MultisigSound' /\ \A t \in Assets : Quorate(t)
  <2>1. /\ UNCHANGED hostVars /\ UNCHANGED <<threshold, transactions>>
        /\ signers' = signers \ {a} /\ a \in signers
        /\ Cardinality(signers) - 1 >= threshold
    BY <1>9 DEF RemoveSigner
  <2>2. IsFiniteSet(signers') /\ Cardinality(signers') = Cardinality(signers) - 1
    BY <2>1, SignersFinite, FS_RemoveElement
  <2>3. threshold' \in 1..Cardinality(signers') /\ signers' \subseteq Accounts
    BY <2>1, <2>2, SignersFinite DEF MultisigSound, ThresholdReachable
  <2>4. signers' # {}
    BY <2>2, <2>3, FS_EmptySet
  <2> QED
    BY <1>4, <2>1, <2>3, <2>4
<1>10. ASSUME NEW a \in Accounts, NEW asset \in MultisigAssets, NEW amount \in MultisigAmounts,
              FundWallet(a, asset, amount)
       PROVE  MultisigSound' /\ \A t \in Assets : Quorate(t)
  <2>1. /\ Transfer(asset, a, MultisigAt, amount) /\ amount \in Int /\ asset \in Assets
        /\ UNCHANGED <<now, signers, threshold, transactions>>
    BY <1>10, MultisigAssumption DEF FundWallet
  <2>2. balance' \in [Assets -> [Addresses -> Nat]]
    BY <1>1, <2>1, TransferTyped
  <2>3. \A t \in Assets : ~(balance'[t][MultisigAt] < balance[t][MultisigAt])
    BY <1>1, <2>1, MultisigAssumption, MoneyIn
  <2>4. MultisigSound'
    BY <2>1, <2>2 DEF MultisigSound, HostTypeOK, ThresholdReachable
  <2> QED
    BY <1>2, <2>3, <2>4
<1>11. ASSUME NEW a \in Accounts, NEW asset \in MultisigAssets, NEW amount \in MultisigAmounts,
              NEW destination \in Accounts, CreateTransaction(a, destination, asset, amount)
       PROVE  MultisigSound' /\ \A t \in Assets : Quorate(t)
  <2> DEFINE tx == [destination |-> destination, asset |-> asset, amount |-> amount,
                    approvals |-> {}, executed |-> FALSE]
  <2>1. tx \in Proposals
    BY <1>11, MultisigAssumption DEF CreateTransaction, Proposals
  <2>2. transactions' = Append(transactions, tx) /\ UNCHANGED <<hostVars, signers, threshold>>
    BY <1>11 DEF CreateTransaction
  <2> HIDE DEF tx
  <2>3. transactions' \in Seq(Proposals)
    BY <2>1, <2>2, AppendProperties DEF MultisigSound
  <2>4. MultisigSound'
    BY <2>2, <2>3 DEF MultisigSound, hostVars, HostTypeOK, ThresholdReachable
  <2> QED
    BY <1>3, <2>2, <2>4 DEF hostVars
<1>12. ASSUME NEW id \in DOMAIN transactions, NEW a \in Accounts, Approve(a, id)
       PROVE  MultisigSound' /\ \A t \in Assets : Quorate(t)
  <2> DEFINE tx == [transactions[id] EXCEPT !.approvals = @ \cup {a}]
  <2>1. tx \in Proposals
    BY <1>1 DEF Proposals
  <2>2. /\ transactions' = [transactions EXCEPT ![id] = tx]
        /\ UNCHANGED <<hostVars, signers, threshold>>
    BY <1>12 DEF Approve
  <2> HIDE DEF tx
  <2>3. transactions' \in Seq(Proposals)
    BY <2>1, <2>2, ProposalSet
  <2>4. MultisigSound'
    BY <2>2, <2>3 DEF MultisigSound, hostVars, HostTypeOK, ThresholdReachable
  <2> QED
    BY <1>3, <2>2, <2>4 DEF hostVars
<1>13. ASSUME NEW id \in DOMAIN transactions, Execute(id)
       PROVE  MultisigSound' /\ \A t \in Assets : Quorate(t)
  <2>1. Quorate(transactions[id].asset)
    BY <1>13, ExecuteKeeps
  <2>2. ASSUME NEW t \in Assets, t # transactions[id].asset
        PROVE  Quorate(t)
    <3>1. balance'[t] = balance[t]
      BY <1>13, <2>2, ExecuteKeeps
    <3>2. ~(balance'[t][MultisigAt] < balance[t][MultisigAt])
      BY <1>1, <3>1
    <3> QED
      BY <3>2
  <2> QED
    BY <1>13, <2>1, <2>2, ExecuteKeeps
<1> QED
  BY <1>5, <1>6, <1>7, <1>8, <1>9, <1>10, <1>11, <1>12, <1>13 DEF MultisigNext

LEMMA MultisigRests ==
  ASSUME HostTypeOK, MultisigStart
  PROVE  MultisigSound
  BY EmptySeq DEF MultisigStart, MultisigSound, ThresholdReachable

LEMMA MultisigBegin ==
  ASSUME MultisigInit
  PROVE  MultisigSound
  BY HostStart, MultisigRests DEF MultisigInit

LEMMA WalletTyped ==
  ASSUME MultisigSound
  PROVE  MultisigTypeOK /\ ThresholdReachable
<1>1. ASSUME NEW id \in DOMAIN transactions
      PROVE  transactions[id] \in Proposals
  BY LenProperties, ElementOfSeq DEF MultisigSound
<1>2. threshold \in 0..Cardinality(Accounts)
  BY SignersFinite DEF MultisigSound, ThresholdReachable
<1> QED
  BY <1>1, <1>2 DEF MultisigSound, MultisigTypeOK, Proposals

\* However signers join and leave and the threshold changes, there are as many
\* signers as the threshold asks for (add_signer, remove_signer, change_threshold), and
\* the records of the wallet stay well formed.
THEOREM WalletUsable == MultisigSpec => [](MultisigTypeOK /\ ThresholdReachable)
<1>1. MultisigSound /\ [MultisigNext]_multisigVars => MultisigSound'
  BY MultisigStep
<1>2. MultisigSound => MultisigTypeOK /\ ThresholdReachable
  BY WalletTyped
<1> QED
  BY MultisigBegin, <1>1, <1>2, PTL DEF MultisigSpec

\* What leaves the wallet is one transaction's amount, executed for the first
\* time, with approvals of as many of the signers of the moment as the threshold of the
\* moment asks for (execute).
THEOREM QuorumMoves == MultisigSpec => QuorumMovesFunds
<1>1. MultisigSound /\ [MultisigNext]_multisigVars => MultisigSound'
  BY MultisigStep
<1>2. MultisigSound /\ [MultisigNext]_multisigVars =>
        \A t \in Assets : balance'[t][MultisigAt] < balance[t][MultisigAt] =>
          \E id \in DOMAIN transactions :
            LET tx == transactions[id] IN
            /\ ~tx.executed /\ transactions'[id].executed
            /\ balance'[t] = Moved(balance[t], MultisigAt, tx.destination, tx.amount)
            /\ \E quorum \in SUBSET (tx.approvals \cap signers) : Cardinality(quorum) = threshold
  BY MultisigStep
<1> QED
  BY MultisigBegin, <1>1, <1>2, PTL DEF MultisigSpec, QuorumMovesFunds

-----------------------------------------------------------------------------
(* The treasury: one payment per request, and not before its lock.          *)

Requests ==
  [to : Accounts, asset : Assets, amount : Nat \ {0}, unlockAt : Nat,
   executed : BOOLEAN, cancelled : BOOLEAN]

TreasurySound ==
  /\ HostTypeOK
  /\ treasuryReady \in BOOLEAN
  /\ timelocks \in [Assets -> [set : BOOLEAN, period : Nat, enabled : BOOLEAN]]
  /\ emergency.approvers \subseteq Accounts /\ emergency.needed \in Nat
  /\ withdrawals \in Seq(Requests)

LEMMA RequestSet ==
  ASSUME TreasurySound, NEW id \in DOMAIN withdrawals, NEW r \in Requests
  PROVE  /\ [withdrawals EXCEPT ![id] = r] \in Seq(Requests)
         /\ [withdrawals EXCEPT ![id] = r][id] = r
         /\ \A x \in DOMAIN withdrawals : x # id => [withdrawals EXCEPT ![id] = r][x] = withdrawals[x]
<1>1. /\ withdrawals \in Seq(Requests) /\ id \in 1..Len(withdrawals)
      /\ withdrawals \in [1..Len(withdrawals) -> Requests]
  BY LenProperties DEF TreasurySound
<1>2. [withdrawals EXCEPT ![id] = r] \in Seq(Requests)
  BY <1>1, ExceptSeq
<1> QED
  BY <1>1, <1>2

LEMMA RequestOf ==
  ASSUME TreasurySound, NEW id \in DOMAIN withdrawals
  PROVE  /\ withdrawals[id] \in Requests
         /\ withdrawals[id].asset \in Assets /\ withdrawals[id].amount \in Int
         /\ withdrawals[id].unlockAt \in Nat /\ now \in Nat
<1>1. withdrawals[id] \in Requests
  BY LenProperties, ElementOfSeq DEF TreasurySound
<1> QED
  BY <1>1, SorobanAssumption DEF Requests, TreasurySound, HostTypeOK

LEMMA PayKeeps ==
  ASSUME TreasurySound, NEW id \in DOMAIN withdrawals, PayWithdrawal(id)
  PROVE  /\ TreasurySound'
         /\ Waiting(id) /\ withdrawals'[id].executed
         /\ balance'[withdrawals[id].asset] =
              Moved(balance[withdrawals[id].asset], TreasuryAt, withdrawals[id].to,
                    withdrawals[id].amount)
         /\ \A t \in Assets : t # withdrawals[id].asset => balance'[t] = balance[t]
         /\ \A x \in DOMAIN withdrawals : x # id => withdrawals'[x] = withdrawals[x]
<1>1. /\ Waiting(id) /\ withdrawals' = [withdrawals EXCEPT ![id].executed = TRUE]
      /\ Transfer(withdrawals[id].asset, TreasuryAt, withdrawals[id].to, withdrawals[id].amount)
      /\ UNCHANGED <<now, treasuryReady, timelocks, emergency>>
  BY DEF PayWithdrawal
<1>2. withdrawals[id] \in Requests /\ withdrawals[id].asset \in Assets /\ withdrawals[id].amount \in Int
  BY RequestOf
<1>3. /\ balance' \in [Assets -> [Addresses -> Nat]]
      /\ balance'[withdrawals[id].asset] =
           Moved(balance[withdrawals[id].asset], TreasuryAt, withdrawals[id].to,
                 withdrawals[id].amount)
      /\ \A t \in Assets : t # withdrawals[id].asset => balance'[t] = balance[t]
  BY <1>1, <1>2, TransferTyped DEF TreasurySound
<1> DEFINE r == [withdrawals[id] EXCEPT !.executed = TRUE]
<1>4. r \in Requests /\ r.executed
  BY <1>2 DEF Requests
<1>5. withdrawals' = [withdrawals EXCEPT ![id] = r]
  BY <1>1
<1> HIDE DEF r
<1>6. /\ withdrawals' \in Seq(Requests) /\ withdrawals'[id].executed
      /\ \A x \in DOMAIN withdrawals : x # id => withdrawals'[x] = withdrawals[x]
  BY <1>4, <1>5, RequestSet
<1>7. TreasurySound'
  BY <1>1, <1>3, <1>6 DEF TreasurySound, HostTypeOK
<1> QED
  BY <1>1, <1>3, <1>6, <1>7

\* One step: a payment out of the treasury is a waiting request's, and before its lock
\* it is the emergency approvers'.
LEMMA TreasuryStep ==
  ASSUME TreasurySound, [TreasuryNext]_treasuryVars
  PROVE  /\ TreasurySound'
         /\ \A t \in Assets : balance'[t][TreasuryAt] < balance[t][TreasuryAt] =>
              \E id \in DOMAIN withdrawals :
                /\ Waiting(id) /\ withdrawals'[id].executed
                /\ withdrawals[id].asset = t
                /\ balance'[t] = Moved(balance[t], TreasuryAt, withdrawals[id].to, withdrawals[id].amount)
         /\ \A id \in DOMAIN withdrawals :
              ~withdrawals[id].executed /\ withdrawals'[id].executed /\ now < withdrawals[id].unlockAt
                => Overridable
<1> DEFINE Once(t) ==
      balance'[t][TreasuryAt] < balance[t][TreasuryAt] =>
        \E id \in DOMAIN withdrawals :
          /\ Waiting(id) /\ withdrawals'[id].executed
          /\ withdrawals[id].asset = t
          /\ balance'[t] = Moved(balance[t], TreasuryAt, withdrawals[id].to, withdrawals[id].amount)
           Locked(id) ==
      ~withdrawals[id].executed /\ withdrawals'[id].executed /\ now < withdrawals[id].unlockAt
        => Overridable
<1> SUFFICES /\ TreasurySound'
             /\ \A t \in Assets : Once(t)
             /\ \A id \in DOMAIN withdrawals : Locked(id)
  OBVIOUS
<1>1. /\ HostTypeOK /\ TreasuryAt \in Addresses /\ now \in Nat
      /\ \A t \in Assets : balance[t][TreasuryAt] \in Nat
  <2>1. HostTypeOK /\ TreasuryAt \in Addresses
    BY TreasuryAssumption DEF TreasurySound, Addresses
  <2> QED
    BY <2>1, SorobanAssumption DEF HostTypeOK
<1>2. ASSUME \A t \in Assets : ~(balance'[t][TreasuryAt] < balance[t][TreasuryAt])
      PROVE  \A t \in Assets : Once(t)
  BY <1>2
<1>3. ASSUME balance' = balance
      PROVE  \A t \in Assets : Once(t)
  <2>1. \A t \in Assets : ~(balance[t][TreasuryAt] < balance[t][TreasuryAt])
    BY <1>1
  <2> QED
    BY <1>2, <1>3, <2>1
<1>4. ASSUME \A id \in DOMAIN withdrawals : withdrawals'[id].executed = withdrawals[id].executed
      PROVE  \A id \in DOMAIN withdrawals : Locked(id)
  BY <1>4
\* A step of the admin, or of nobody.
<1>5. ASSUME UNCHANGED <<balance, withdrawals>>, now' \in 0..MaxTime, treasuryReady' \in BOOLEAN,
             timelocks' \in [Assets -> [set : BOOLEAN, period : Nat, enabled : BOOLEAN]],
             emergency'.approvers \subseteq Accounts, emergency'.needed \in Nat
      PROVE  /\ TreasurySound'
             /\ \A t \in Assets : Once(t)
             /\ \A id \in DOMAIN withdrawals : Locked(id)
  <2>1. TreasurySound'
    BY <1>5 DEF TreasurySound, HostTypeOK
  <2>2. \A id \in DOMAIN withdrawals : withdrawals'[id].executed = withdrawals[id].executed
    BY <1>5
  <2> QED
    BY <1>3, <1>4, <1>5, <2>1, <2>2
<1>6. CASE UNCHANGED treasuryVars
  BY <1>5, <1>6 DEF TreasurySound, treasuryVars, hostVars, HostTypeOK
<1>7. CASE Tick /\ UNCHANGED <<treasuryReady, timelocks, emergency, withdrawals>>
  <2>1. now' \in 0..MaxTime /\ UNCHANGED balance
    BY <1>1, <1>7, TickTyped DEF HostTypeOK, Tick
  <2> QED
    BY <1>5, <1>7, <2>1 DEF TreasurySound
<1>8. CASE InitializeTreasury
  BY <1>5, <1>8 DEF InitializeTreasury, TreasurySound, hostVars, HostTypeOK
<1>9. ASSUME NEW a \in Accounts, NEW asset \in TreasuryAssets, DisableTimelock(a, asset)
      PROVE  /\ TreasurySound'
             /\ \A t \in Assets : Once(t)
             /\ \A id \in DOMAIN withdrawals : Locked(id)
  <2>1. /\ timelocks' = [timelocks EXCEPT ![asset].enabled = FALSE]
        /\ UNCHANGED <<hostVars, treasuryReady, emergency, withdrawals>>
    BY <1>9 DEF DisableTimelock
  <2>2. timelocks' \in [Assets -> [set : BOOLEAN, period : Nat, enabled : BOOLEAN]]
    BY <2>1 DEF TreasurySound
  <2> QED
    BY <1>5, <2>1, <2>2 DEF TreasurySound, hostVars, HostTypeOK
<1>10. ASSUME NEW a \in Accounts, NEW asset \in TreasuryAssets, NEW period \in LockPeriods,
              SetTimelock(a, asset, period)
       PROVE  /\ TreasurySound'
              /\ \A t \in Assets : Once(t)
              /\ \A id \in DOMAIN withdrawals : Locked(id)
  <2>1. /\ timelocks' = [timelocks EXCEPT ![asset] =
                           [set |-> TRUE, period |-> period, enabled |-> TRUE]]
        /\ UNCHANGED <<hostVars, treasuryReady, emergency, withdrawals>>
    BY <1>10 DEF SetTimelock
  <2>2. timelocks' \in [Assets -> [set : BOOLEAN, period : Nat, enabled : BOOLEAN]]
    BY <2>1, TreasuryAssumption DEF TreasurySound
  <2> QED
    BY <1>5, <2>1, <2>2 DEF TreasurySound, hostVars, HostTypeOK
<1>11. ASSUME NEW a \in Accounts, NEW approvers \in SUBSET Accounts,
              NEW needed \in 0..Cardinality(Accounts), SetEmergencyApprovers(a, approvers, needed)
       PROVE  /\ TreasurySound'
              /\ \A t \in Assets : Once(t)
              /\ \A id \in DOMAIN withdrawals : Locked(id)
  <2>1. /\ emergency' = [set |-> TRUE, approvers |-> approvers, needed |-> needed]
        /\ UNCHANGED <<hostVars, treasuryReady, timelocks, withdrawals>>
    BY <1>11 DEF SetEmergencyApprovers
  <2>2. needed \in Nat
    BY SorobanAssumption, FS_CardinalityType
  <2> QED
    BY <1>5, <2>1, <2>2 DEF TreasurySound, hostVars, HostTypeOK
<1>12. ASSUME NEW a \in Accounts, NEW asset \in TreasuryAssets, NEW amount \in TreasuryAmounts,
              Deposit(a, asset, amount)
       PROVE  /\ TreasurySound'
              /\ \A t \in Assets : Once(t)
              /\ \A id \in DOMAIN withdrawals : Locked(id)
  <2>1. /\ Transfer(asset, a, TreasuryAt, amount) /\ amount \in Int /\ asset \in Assets
        /\ UNCHANGED <<now, treasuryReady, timelocks, emergency, withdrawals>>
    BY <1>12, TreasuryAssumption DEF Deposit
  <2>2. balance' \in [Assets -> [Addresses -> Nat]]
    BY <1>1, <2>1, TransferTyped
  <2>3. \A t \in Assets : ~(balance'[t][TreasuryAt] < balance[t][TreasuryAt])
    BY <1>1, <2>1, TreasuryAssumption, MoneyIn
  <2>4. TreasurySound'
    BY <2>1, <2>2 DEF TreasurySound, HostTypeOK
  <2> QED
    BY <1>2, <1>4, <2>1, <2>3, <2>4
<1>13. ASSUME NEW a \in Accounts, NEW asset \in TreasuryAssets, NEW amount \in TreasuryAmounts,
              RequestWithdrawal(a, asset, amount)
       PROVE  /\ TreasurySound'
              /\ \A t \in Assets : Once(t)
              /\ \A id \in DOMAIN withdrawals : Locked(id)
  <2> DEFINE r == [to |-> a, asset |-> asset, amount |-> amount,
                   unlockAt |-> now + timelocks[asset].period, executed |-> FALSE, cancelled |-> FALSE]
  <2>1. timelocks[asset].period \in Nat /\ asset \in Assets
    BY TreasuryAssumption DEF TreasurySound
  <2>2. r \in Requests
    BY <1>1, <1>13, <2>1, TreasuryAssumption DEF RequestWithdrawal, Requests
  <2>3. /\ withdrawals' = Append(withdrawals, r)
        /\ UNCHANGED <<hostVars, treasuryReady, timelocks, emergency>>
    BY <1>13 DEF RequestWithdrawal
  <2> HIDE DEF r
  <2>4. /\ withdrawals' \in Seq(Requests)
        /\ \A id \in DOMAIN withdrawals : withdrawals'[id] = withdrawals[id]
    BY <2>2, <2>3, AppendProperties, LenProperties DEF TreasurySound
  <2>5. TreasurySound'
    BY <2>3, <2>4 DEF TreasurySound, hostVars, HostTypeOK
  <2> QED
    BY <1>3, <1>4, <2>3, <2>4, <2>5 DEF hostVars
<1>14. ASSUME NEW id \in DOMAIN withdrawals, CancelWithdrawal(id)
       PROVE  /\ TreasurySound'
              /\ \A t \in Assets : Once(t)
              /\ \A x \in DOMAIN withdrawals : Locked(x)
  <2> DEFINE r == [withdrawals[id] EXCEPT !.cancelled = TRUE]
  <2>1. withdrawals[id] \in Requests
    BY RequestOf
  <2>2. r \in Requests /\ r.executed = withdrawals[id].executed
    BY <2>1 DEF Requests
  <2>3. /\ withdrawals' = [withdrawals EXCEPT ![id] = r]
        /\ UNCHANGED <<hostVars, treasuryReady, timelocks, emergency>>
    BY <1>14 DEF CancelWithdrawal
  <2> HIDE DEF r
  <2>4. /\ withdrawals' \in Seq(Requests) /\ withdrawals'[id] = r
        /\ \A x \in DOMAIN withdrawals : x # id => withdrawals'[x] = withdrawals[x]
    BY <2>2, <2>3, RequestSet
  <2>5. TreasurySound'
    BY <2>3, <2>4 DEF TreasurySound, hostVars, HostTypeOK
  <2>6. \A x \in DOMAIN withdrawals : withdrawals'[x].executed = withdrawals[x].executed
    BY <2>2, <2>4
  <2> QED
    BY <1>3, <1>4, <2>3, <2>5, <2>6 DEF hostVars
<1>15. ASSUME NEW id \in DOMAIN withdrawals, PayWithdrawal(id), Locked(id)
       PROVE  /\ TreasurySound'
              /\ \A t \in Assets : Once(t)
              /\ \A x \in DOMAIN withdrawals : Locked(x)
  <2>1. Once(withdrawals[id].asset)
    BY <1>15, PayKeeps
  <2>2. ASSUME NEW t \in Assets, t # withdrawals[id].asset
        PROVE  Once(t)
    <3>1. balance'[t] = balance[t]
      BY <1>15, <2>2, PayKeeps
    <3>2. ~(balance'[t][TreasuryAt] < balance[t][TreasuryAt])
      BY <1>1, <3>1
    <3> QED
      BY <3>2
  <2>3. \A x \in DOMAIN withdrawals : x # id => withdrawals'[x] = withdrawals[x]
    BY <1>15, PayKeeps
  <2>4. \A x \in DOMAIN withdrawals : Locked(x)
    BY <1>15, <2>3
  <2> QED
    BY <1>15, <2>1, <2>2, <2>4, PayKeeps
<1>16. ASSUME NEW id \in DOMAIN withdrawals, ExecuteWithdrawal(id)
       PROVE  /\ TreasurySound'
              /\ \A t \in Assets : Once(t)
              /\ \A x \in DOMAIN withdrawals : Locked(x)
  <2>1. PayWithdrawal(id) /\ ~(now < withdrawals[id].unlockAt)
    BY <1>16, RequestOf DEF ExecuteWithdrawal
  <2>2. Locked(id)
    BY <2>1
  <2> QED
    BY <1>15, <2>1, <2>2
<1>17. ASSUME NEW id \in DOMAIN withdrawals, NEW n \in 0..MaxNamed, NEW named \in [1..n -> Accounts],
              EmergencyOverride(id, named)
       PROVE  /\ TreasurySound'
              /\ \A t \in Assets : Once(t)
              /\ \A x \in DOMAIN withdrawals : Locked(x)
  <2>1. /\ PayWithdrawal(id) /\ emergency.set
        /\ Len(named) >= emergency.needed
        /\ \A i \in DOMAIN named : named[i] \in emergency.approvers
    BY <1>17 DEF EmergencyOverride
  <2>2. Len(named) = n /\ DOMAIN named = 1..n /\ n \in Nat
    OBVIOUS
  <2>3. emergency.needed = 0 \/ 1 \in DOMAIN named
    BY <2>1, <2>2 DEF TreasurySound
  <2>4. Overridable
    BY <2>1, <2>3 DEF Overridable
  <2>5. Locked(id)
    BY <2>1, <2>4
  <2> QED
    BY <1>15, <2>1, <2>5
<1> QED
  BY <1>6, <1>7, <1>8, <1>9, <1>10, <1>11, <1>12, <1>13, <1>14, <1>16, <1>17 DEF TreasuryNext

LEMMA TreasuryRests ==
  ASSUME HostTypeOK, TreasuryStart
  PROVE  TreasurySound
  BY EmptySeq DEF TreasuryStart, TreasurySound

LEMMA TreasuryBegin ==
  ASSUME TreasuryInit
  PROVE  TreasurySound
  BY HostStart, TreasuryRests DEF TreasuryInit

\* What leaves the treasury is the amount of one request that waited, to whom it names,
\* and the request is executed by that: none is paid twice or after a cancellation
\* (execute_withdrawal, emergency_override).
THEOREM TreasuryPaysOnce == TreasurySpec => WithdrawalPaidOnce
<1>1. TreasurySound /\ [TreasuryNext]_treasuryVars => TreasurySound'
  BY TreasuryStep
<1>2. TreasurySound /\ [TreasuryNext]_treasuryVars =>
        \A t \in Assets : balance'[t][TreasuryAt] < balance[t][TreasuryAt] =>
          \E id \in DOMAIN withdrawals :
            /\ Waiting(id) /\ withdrawals'[id].executed
            /\ withdrawals[id].asset = t
            /\ balance'[t] = Moved(balance[t], TreasuryAt, withdrawals[id].to, withdrawals[id].amount)
  BY TreasuryStep
<1> QED
  BY TreasuryBegin, <1>1, <1>2, PTL DEF TreasurySpec, WithdrawalPaidOnce

\* A request is paid before the lock it was made under has elapsed only by emergency
\* approvers - who may all be one, named several times - whatever the admin did to the
\* lock meanwhile (set_timelock, disable_timelock, emergency_override).
THEOREM LocksHonoured == TreasurySpec => LockHonoured
<1>1. TreasurySound /\ [TreasuryNext]_treasuryVars => TreasurySound'
  BY TreasuryStep
<1>2. TreasurySound /\ [TreasuryNext]_treasuryVars =>
        \A id \in DOMAIN withdrawals :
          ~withdrawals[id].executed /\ withdrawals'[id].executed /\ now < withdrawals[id].unlockAt
            => Overridable
  BY TreasuryStep
<1> QED
  BY TreasuryBegin, <1>1, <1>2, PTL DEF TreasurySpec, LockHonoured

-----------------------------------------------------------------------------
(* The payroll contract: what it holds is what the recipients of funded     *)
(* batches are owed, and they are paid what was listed.                     *)

Entries == [address : Accounts, amount : Nat \ {0}]
BatchRows ==
  [creator : Accounts, asset : Assets, recipients : Seq(Entries), total : Nat, status : BatchStates]

BatchesSound ==
  /\ HostTypeOK
  /\ payrollReady \in BOOLEAN
  /\ batches \in Seq(BatchRows)
  /\ \A id \in DOMAIN batches : batches[id].total = Total(batches[id].recipients)

LEMMA DuesOf ==
  ASSUME NEW r \in Seq(Entries)
  PROVE  /\ IsFiniteSet(DOMAIN r) /\ \A i \in DOMAIN r : Dues(r)[i] \in Nat
         /\ Total(r) \in Nat
         /\ \A a : PaysTo(r, a) \in Nat
         /\ \A c \in Contracts : PaysTo(r, c) = 0
<1>1. /\ DOMAIN r = 1..Len(r) /\ Len(r) \in Nat
      /\ \A i \in DOMAIN r : r[i] \in Entries
  BY LenProperties, ElementOfSeq
<1>2. IsFiniteSet(DOMAIN r)
  BY <1>1, FS_Interval
<1>3. \A i \in DOMAIN r : Dues(r)[i] \in Nat /\ r[i].address \in Accounts
  BY <1>1 DEF Dues, Entries
<1>4. Total(r) \in Nat
  BY <1>2, <1>3, SumNat DEF Total
<1>5. ASSUME NEW a
      PROVE  PaysTo(r, a) \in Nat
  <2> DEFINE S == {i \in DOMAIN r : r[i].address = a}
  <2>1. S \in SUBSET DOMAIN r
    OBVIOUS
  <2>2. IsFiniteSet(S) /\ \A i \in S : Dues(r)[i] \in Nat
    BY <1>2, <1>3, <2>1, FS_Subset
  <2> HIDE DEF S
  <2>3. SumFunctionOnSet(Dues(r), S) \in Nat
    BY <2>2, SumNat
  <2> QED
    BY <2>3 DEF S, PaysTo
<1>6. ASSUME NEW c \in Contracts
      PROVE  PaysTo(r, c) = 0
  <2>1. {i \in DOMAIN r : r[i].address = c} = {}
    BY <1>3, SorobanAssumption
  <2> QED
    BY <2>1, SumEmpty DEF PaysTo
<1> QED
  BY <1>2, <1>3, <1>4, <1>5, <1>6

LEMMA TotalAppend ==
  ASSUME NEW r \in Seq(Entries), NEW new \in Entries
  PROVE  Total(Append(r, new)) = Total(r) + new.amount
<1> DEFINE longer == Append(r, new)
           n == Len(r) + 1
<1>1. /\ longer \in Seq(Entries) /\ DOMAIN r = 1..Len(r) /\ Len(r) \in Nat
      /\ DOMAIN longer = 1..n /\ longer[n] = new
      /\ \A i \in DOMAIN r : longer[i] = r[i]
  BY AppendProperties, LenProperties
<1> HIDE DEF longer
<1>2. DOMAIN longer = DOMAIN r \cup {n} /\ n \notin DOMAIN r
  BY <1>1
<1>3. /\ IsFiniteSet(DOMAIN r) /\ Total(r) \in Nat
      /\ \A i \in DOMAIN longer : Dues(longer)[i] \in Nat
  BY <1>1, DuesOf
<1>4. Total(longer) = Dues(longer)[n] + SumFunctionOnSet(Dues(longer), DOMAIN r)
  BY <1>2, <1>3, SumPut DEF Total
<1>5. Dues(longer)[n] = new.amount /\ new.amount \in Nat
  BY <1>1, <1>2 DEF Dues, Entries
<1>6. \A i \in DOMAIN r : Dues(longer)[i] = Dues(r)[i]
  BY <1>1, <1>2 DEF Dues
<1>7. SumFunctionOnSet(Dues(longer), DOMAIN r) = Total(r)
  BY <1>3, <1>6, SumSame DEF Total
<1> QED
  BY <1>3, <1>4, <1>5, <1>7 DEF longer

\* Only the record id changes.
OnlyBatch(id) ==
  \A x : x # id => /\ x \in DOMAIN batches <=> x \in DOMAIN batches'
                   /\ x \in DOMAIN batches => batches'[x] = batches[x]

LEMMA BatchSet ==
  ASSUME BatchesSound, NEW id \in DOMAIN batches, NEW b \in BatchRows,
         b.total = Total(b.recipients), batches' = [batches EXCEPT ![id] = b]
  PROVE  /\ batches' \in Seq(BatchRows) /\ OnlyBatch(id)
         /\ id \in DOMAIN batches' /\ batches'[id] = b
         /\ \A x \in DOMAIN batches' : batches'[x].total = Total(batches'[x].recipients)
<1>1. /\ batches \in Seq(BatchRows) /\ id \in 1..Len(batches)
      /\ batches \in [1..Len(batches) -> BatchRows]
  BY LenProperties DEF BatchesSound
<1>2. batches' \in Seq(BatchRows)
  BY <1>1, ExceptSeq
<1>3. DOMAIN batches' = DOMAIN batches /\ batches'[id] = b
      /\ \A x \in DOMAIN batches : x # id => batches'[x] = batches[x]
  BY <1>1
<1>4. \A x \in DOMAIN batches' : batches'[x].total = Total(batches'[x].recipients)
  BY <1>3 DEF BatchesSound
<1> QED
  BY <1>2, <1>3, <1>4 DEF OnlyBatch

\* What is owed for the batches of an asset.
OwedFor == [id \in DOMAIN batches |-> Total(batches[id].recipients)]
FundedFor(t) == {id \in DOMAIN batches : batches[id].asset = t /\ InState(id, "Funded")}

LEMMA OwedNat ==
  ASSUME NEW rows \in Seq(BatchRows)
  PROVE  /\ IsFiniteSet(DOMAIN rows)
         /\ \A id \in DOMAIN rows : rows[id] \in BatchRows /\ rows[id].recipients \in Seq(Entries)
                                    /\ Total(rows[id].recipients) \in Int
<1>1. /\ DOMAIN rows = 1..Len(rows) /\ Len(rows) \in Nat
      /\ \A id \in DOMAIN rows : rows[id] \in BatchRows
  BY LenProperties, ElementOfSeq
<1>2. \A id \in DOMAIN rows : rows[id].recipients \in Seq(Entries)
  BY <1>1 DEF BatchRows
<1>3. \A id \in DOMAIN rows : Total(rows[id].recipients) \in Int
  BY <1>2, DuesOf
<1> QED
  BY <1>1, <1>2, <1>3, FS_Interval

LEMMA BatchBooks ==
  ASSUME BatchesSound, BatchesSound', BatchesCovered, NEW t \in Assets, NEW id, OnlyBatch(id),
         balance'[t][PayrollAt] - (IF id \in FundedFor(t)' THEN OwedFor'[id] ELSE 0)
           = balance[t][PayrollAt] - (IF id \in FundedFor(t) THEN OwedFor[id] ELSE 0),
         balance'[t][PayrollAt] \in Int, balance[t][PayrollAt] \in Int
  PROVE  balance'[t][PayrollAt] = SumFunctionOnSet(OwedFor', FundedFor(t)')
<1> DEFINE S == FundedFor(t)
           T == FundedFor(t)'
           f == OwedFor
           e == OwedFor'
<1>1. /\ S \in SUBSET DOMAIN batches /\ T \in SUBSET DOMAIN batches'
      /\ IsFiniteSet(DOMAIN batches) /\ IsFiniteSet(DOMAIN batches')
  BY OwedNat DEF FundedFor, BatchesSound
<1>2. IsFiniteSet(S) /\ IsFiniteSet(T)
  BY <1>1, FS_Subset
<1>3. (\A y \in S : f[y] \in Int) /\ (\A y \in T : e[y] \in Int)
  BY <1>1, OwedNat DEF OwedFor, BatchesSound
<1>4. S \ {id} = T \ {id}
  BY DEF FundedFor, InState, OnlyBatch
<1>5. \A y \in S \ {id} : f[y] = e[y]
  BY <1>1 DEF OwedFor, OnlyBatch
<1>6. balance[t][PayrollAt] = SumFunctionOnSet(f, S)
  BY DEF BatchesCovered, OwedFor, FundedFor
<1>7. /\ balance'[t][PayrollAt] - (IF id \in T THEN e[id] ELSE 0)
           = SumFunctionOnSet(f, S) - (IF id \in S THEN f[id] ELSE 0)
      /\ balance'[t][PayrollAt] \in Int
  BY <1>6
<1> HIDE DEF S, T, f, e
<1>8. SumFunctionOnSet(f, S) - (IF id \in S THEN f[id] ELSE 0)
        = SumFunctionOnSet(e, T) - (IF id \in T THEN e[id] ELSE 0)
  BY <1>2, <1>3, <1>4, <1>5, SumChange
<1>9. SumFunctionOnSet(e, T) \in Int
  BY <1>2, <1>3, SumInt
<1>10. balance'[t][PayrollAt] = SumFunctionOnSet(e, T)
  BY <1>3, <1>7, <1>8, <1>9
<1> QED
  BY <1>10 DEF e, T

\* A batch whose status alone changes.
LEMMA BatchStatus ==
  ASSUME BatchesSound, NEW id \in DOMAIN batches, NEW status \in BatchStates,
         batches' = [batches EXCEPT ![id].status = status]
  PROVE  /\ batches' \in Seq(BatchRows) /\ OnlyBatch(id) /\ id \in DOMAIN batches'
         /\ batches'[id].status = status /\ batches'[id].recipients = batches[id].recipients
         /\ batches'[id].asset = batches[id].asset
         /\ \A x \in DOMAIN batches' : batches'[x].total = Total(batches'[x].recipients)
<1> DEFINE b == [batches[id] EXCEPT !.status = status]
<1>1. batches[id] \in BatchRows /\ batches[id].total = Total(batches[id].recipients)
  BY OwedNat DEF BatchesSound
<1>2. /\ b \in BatchRows /\ b.status = status /\ b.recipients = batches[id].recipients
      /\ b.asset = batches[id].asset /\ b.total = batches[id].total
  BY <1>1 DEF BatchRows
<1>3. batches' = [batches EXCEPT ![id] = b]
  OBVIOUS
<1>4. b.total = Total(b.recipients)
  BY <1>1, <1>2
<1> HIDE DEF b
<1>5. /\ batches' \in Seq(BatchRows) /\ OnlyBatch(id) /\ id \in DOMAIN batches' /\ batches'[id] = b
      /\ \A x \in DOMAIN batches' : batches'[x].total = Total(batches'[x].recipients)
  BY <1>2, <1>3, <1>4, BatchSet
<1> QED
  BY <1>2, <1>5

\* One more recipient of one batch.
LEMMA BatchGrows ==
  ASSUME BatchesSound, NEW id \in DOMAIN batches, NEW new \in Entries,
         batches' = [batches EXCEPT ![id].recipients = Append(@, new), ![id].total = @ + new.amount]
  PROVE  /\ batches' \in Seq(BatchRows) /\ OnlyBatch(id) /\ id \in DOMAIN batches'
         /\ batches'[id].status = batches[id].status
         /\ \A x \in DOMAIN batches' : batches'[x].total = Total(batches'[x].recipients)
<1> DEFINE b == [batches[id] EXCEPT !.recipients = Append(@, new), !.total = @ + new.amount]
<1>1. /\ batches[id] \in BatchRows /\ batches[id].total = Total(batches[id].recipients)
      /\ batches[id].recipients \in Seq(Entries) /\ batches[id].total \in Nat /\ new.amount \in Nat
  <2>1. batches[id] \in BatchRows /\ batches[id].total = Total(batches[id].recipients)
        /\ batches[id].recipients \in Seq(Entries)
    BY OwedNat DEF BatchesSound
  <2> QED
    BY <2>1 DEF BatchRows, Entries
<1>2. Append(batches[id].recipients, new) \in Seq(Entries)
  BY <1>1, AppendProperties
<1>3. /\ b \in BatchRows /\ b.status = batches[id].status
      /\ b.recipients = Append(batches[id].recipients, new)
      /\ b.total = batches[id].total + new.amount
  BY <1>1, <1>2 DEF BatchRows
<1>4. b.total = Total(b.recipients)
  <2>1. Total(Append(batches[id].recipients, new)) = Total(batches[id].recipients) + new.amount
    BY <1>1, TotalAppend
  <2> QED
    BY <1>1, <1>3, <2>1
<1>5. batches' = [batches EXCEPT ![id] = b]
  OBVIOUS
<1> HIDE DEF b
<1>6. /\ batches' \in Seq(BatchRows) /\ OnlyBatch(id) /\ id \in DOMAIN batches' /\ batches'[id] = b
      /\ \A x \in DOMAIN batches' : batches'[x].total = Total(batches'[x].recipients)
  BY <1>3, <1>4, <1>5, BatchSet
<1> QED
  BY <1>3, <1>6

\* What a step never does with the list of a funded batch.
ListFinal ==
  \A id \in DOMAIN batches : batches[id].status \in {"Funded", "Distributed"} =>
    /\ batches'[id].recipients = batches[id].recipients
    /\ batches[id].status = "Funded" /\ batches'[id].status # "Funded" =>
         \A a \in Accounts : balance'[batches[id].asset][a] =
           balance[batches[id].asset][a] + PaysTo(batches[id].recipients, a)

PayrollKept == BatchesSound' /\ BatchesCovered' /\ ListFinal

\* A step that moves no money and touches only a batch that is not funded.
LEMMA QuietBatch ==
  ASSUME BatchesSound, BatchesCovered, BatchesSound', UNCHANGED hostVars, NEW id, OnlyBatch(id),
         id \in DOMAIN batches => batches[id].status = "Open",
         id \in DOMAIN batches' => batches'[id].status \in {"Open", "Cancelled"}
  PROVE  PayrollKept
<1>1. \A t \in Assets : id \notin FundedFor(t) /\ id \notin FundedFor(t)'
  BY DEF FundedFor, InState
<1>2. \A t \in Assets : balance[t][PayrollAt] \in Int /\ balance'[t][PayrollAt] = balance[t][PayrollAt]
  BY SorobanAssumption, PayrollContractAssumption
     DEF BatchesSound, HostTypeOK, Addresses, hostVars
<1>3. \A t \in Assets : balance'[t][PayrollAt] = SumFunctionOnSet(OwedFor', FundedFor(t)')
  BY <1>1, <1>2, BatchBooks
<1>4. BatchesCovered'
  BY <1>3 DEF BatchesCovered, OwedFor, FundedFor
<1>5. ListFinal
  BY DEF ListFinal, OnlyBatch
<1> QED
  BY <1>4, <1>5 DEF PayrollKept

LEMMA CreateBatchKeeps ==
  ASSUME BatchesSound, BatchesCovered, NEW creator \in Accounts, NEW asset \in Assets,
         CreateBatch(creator, asset)
  PROVE  PayrollKept
<1> DEFINE b == [creator |-> creator, asset |-> asset, recipients |-> <<>>, total |-> 0, status |-> "Open"]
           n == Len(batches) + 1
<1>1. batches' = Append(batches, b) /\ UNCHANGED <<hostVars, payrollReady>>
  BY DEF CreateBatch
<1>2. b \in BatchRows /\ b.status = "Open" /\ b.total = Total(b.recipients)
  <2>1. <<>> \in Seq(Entries) /\ DOMAIN <<>> = {}
    BY EmptySeq
  <2>2. Total(<<>>) = 0
    BY <2>1, SumEmpty DEF Total
  <2> QED
    BY <2>1, <2>2 DEF BatchRows, BatchStates
<1> HIDE DEF b
<1>3. /\ batches' \in Seq(BatchRows) /\ DOMAIN batches = 1..Len(batches) /\ Len(batches) \in Nat
      /\ DOMAIN batches' = 1..n /\ batches'[n] = b
      /\ \A x \in DOMAIN batches : batches'[x] = batches[x]
  BY <1>1, <1>2, AppendProperties, LenProperties DEF BatchesSound
<1>4. n \notin DOMAIN batches /\ DOMAIN batches' = DOMAIN batches \cup {n}
  BY <1>3
<1> HIDE DEF n
<1>5. OnlyBatch(n)
  BY <1>3, <1>4 DEF OnlyBatch
<1>6. BatchesSound'
  BY <1>1, <1>2, <1>3, <1>4 DEF BatchesSound, HostTypeOK, hostVars
<1> QED
  BY <1>1, <1>2, <1>3, <1>4, <1>5, <1>6, QuietBatch

LEMMA AddRecipientKeeps ==
  ASSUME BatchesSound, BatchesCovered, NEW id \in DOMAIN batches, NEW a \in Accounts,
         NEW amount \in Wages, AddRecipient(id, a, amount)
  PROVE  PayrollKept
<1> DEFINE new == [address |-> a, amount |-> amount]
<1>1. new \in Entries
  BY PayrollContractAssumption DEF AddRecipient, Entries
<1>2. /\ batches' = [batches EXCEPT ![id].recipients = Append(@, new), ![id].total = @ + new.amount]
      /\ batches[id].status = "Open" /\ UNCHANGED <<hostVars, payrollReady>>
  BY DEF AddRecipient, InState
<1> HIDE DEF new
<1>3. /\ batches' \in Seq(BatchRows) /\ OnlyBatch(id) /\ id \in DOMAIN batches'
      /\ batches'[id].status = batches[id].status
      /\ \A x \in DOMAIN batches' : batches'[x].total = Total(batches'[x].recipients)
  BY <1>1, <1>2, BatchGrows
<1>4. BatchesSound'
  BY <1>2, <1>3 DEF BatchesSound, HostTypeOK, hostVars
<1> QED
  BY <1>2, <1>3, <1>4, QuietBatch

LEMMA CancelBatchKeeps ==
  ASSUME BatchesSound, BatchesCovered, NEW id \in DOMAIN batches, CancelBatch(id)
  PROVE  PayrollKept
<1>1. /\ batches' = [batches EXCEPT ![id].status = "Cancelled"] /\ "Cancelled" \in BatchStates
      /\ batches[id].status = "Open" /\ UNCHANGED <<hostVars, payrollReady>>
  BY DEF CancelBatch, InState, BatchStates
<1>2. /\ batches' \in Seq(BatchRows) /\ OnlyBatch(id) /\ id \in DOMAIN batches'
      /\ batches'[id].status = "Cancelled"
      /\ \A x \in DOMAIN batches' : batches'[x].total = Total(batches'[x].recipients)
  BY <1>1, BatchStatus
<1>3. BatchesSound'
  BY <1>1, <1>2 DEF BatchesSound, HostTypeOK, hostVars
<1> QED
  BY <1>1, <1>2, <1>3, QuietBatch

LEMMA FundBatchKeeps ==
  ASSUME BatchesSound, BatchesCovered, NEW id \in DOMAIN batches, NEW funder \in Accounts,
         FundBatch(id, funder)
  PROVE  PayrollKept
<1> DEFINE asset == batches[id].asset
           total == batches[id].total
<1>1. /\ batches' = [batches EXCEPT ![id].status = "Funded"] /\ "Funded" \in BatchStates
      /\ batches[id].status = "Open" /\ UNCHANGED <<now, payrollReady>>
      /\ Transfer(asset, funder, PayrollAt, total)
  BY DEF FundBatch, InState, BatchStates
<1>2. /\ batches' \in Seq(BatchRows) /\ OnlyBatch(id) /\ id \in DOMAIN batches'
      /\ batches'[id].status = "Funded" /\ batches'[id].recipients = batches[id].recipients
      /\ batches'[id].asset = asset
      /\ \A x \in DOMAIN batches' : batches'[x].total = Total(batches'[x].recipients)
  BY <1>1, BatchStatus
<1>3. /\ HostTypeOK /\ PayrollAt \in Contracts /\ asset \in Assets /\ total \in Int
      /\ total = Total(batches[id].recipients)
  <2>1. batches[id] \in BatchRows
    BY OwedNat DEF BatchesSound
  <2> QED
    BY <2>1, PayrollContractAssumption DEF BatchesSound, BatchRows
<1>4. /\ balance'[asset][PayrollAt] = balance[asset][PayrollAt] + total
      /\ \A t \in Assets : t # asset => balance'[t][PayrollAt] = balance[t][PayrollAt]
      /\ balance' \in [Assets -> [Addresses -> Nat]]
  BY <1>1, <1>3, MoneyIn, TransferTyped
<1> HIDE DEF asset, total
<1>5. BatchesSound'
  BY <1>1, <1>2, <1>4 DEF BatchesSound, HostTypeOK
<1>6. ASSUME NEW t \in Assets
      PROVE  balance'[t][PayrollAt] = SumFunctionOnSet(OwedFor', FundedFor(t)')
  <2>1. balance[t][PayrollAt] \in Int /\ balance'[t][PayrollAt] \in Int
    BY <1>3, <1>4 DEF HostTypeOK, Addresses
  <2>2. /\ id \notin FundedFor(t) /\ (id \in FundedFor(t)' <=> t = asset)
        /\ OwedFor'[id] = total
    <3>1. id \notin FundedFor(t)
      BY <1>1 DEF FundedFor, InState
    <3>2. id \in FundedFor(t)' <=> t = asset
      BY <1>2 DEF FundedFor, InState
    <3>3. OwedFor'[id] = total
      BY <1>2, <1>3 DEF OwedFor
    <3> QED
      BY <3>1, <3>2, <3>3
  <2>3. balance'[t][PayrollAt] - (IF id \in FundedFor(t)' THEN OwedFor'[id] ELSE 0)
          = balance[t][PayrollAt] - (IF id \in FundedFor(t) THEN OwedFor[id] ELSE 0)
    BY <1>3, <1>4, <2>1, <2>2
  <2> QED
    BY <1>2, <1>5, <2>1, <2>3, BatchBooks
<1>7. BatchesCovered'
  BY <1>6 DEF BatchesCovered, OwedFor, FundedFor
<1>8. ListFinal
  BY <1>1, <1>2 DEF ListFinal, OnlyBatch
<1> QED
  BY <1>5, <1>7, <1>8 DEF PayrollKept

LEMMA DistributeKeeps ==
  ASSUME BatchesSound, BatchesCovered, NEW id \in DOMAIN batches, Distribute(id)
  PROVE  PayrollKept
<1> DEFINE asset == batches[id].asset
           r == batches[id].recipients
           held == balance[asset]
           paid == [a \in Addresses |-> held[a] + PaysTo(r, a) - (IF a = PayrollAt THEN Total(r) ELSE 0)]
<1>1. /\ batches' = [batches EXCEPT ![id].status = "Distributed"] /\ "Distributed" \in BatchStates
      /\ batches[id].status = "Funded" /\ UNCHANGED <<now, payrollReady>>
      /\ Total(r) <= held[PayrollAt]
      /\ balance' = [balance EXCEPT ![asset] = paid]
  BY DEF Distribute, InState, BatchStates
<1>2. /\ batches' \in Seq(BatchRows) /\ OnlyBatch(id) /\ id \in DOMAIN batches'
      /\ batches'[id].status = "Distributed" /\ batches'[id].recipients = r
      /\ batches'[id].asset = asset
      /\ \A x \in DOMAIN batches' : batches'[x].total = Total(batches'[x].recipients)
  BY <1>1, BatchStatus
<1>3. /\ HostTypeOK /\ PayrollAt \in Contracts /\ asset \in Assets /\ r \in Seq(Entries)
  <2>1. batches[id] \in BatchRows /\ batches[id].recipients \in Seq(Entries)
    BY OwedNat DEF BatchesSound
  <2> QED
    BY <2>1, PayrollContractAssumption DEF BatchesSound, BatchRows
<1>4. /\ Total(r) \in Nat /\ \A a \in Addresses : PaysTo(r, a) \in Nat
      /\ PaysTo(r, PayrollAt) = 0
  BY <1>3, DuesOf
<1>5. balance \in [Assets -> [Addresses -> Nat]] /\ held \in [Addresses -> Nat] /\ PayrollAt \in Addresses
  BY <1>3 DEF HostTypeOK, Addresses
<1>6. /\ paid \in [Addresses -> Nat]
      /\ paid[PayrollAt] = held[PayrollAt] - Total(r)
      /\ \A a \in Accounts : paid[a] = held[a] + PaysTo(r, a)
  <2> HIDE DEF held, r
  <2>1. ASSUME NEW a \in Addresses
        PROVE  held[a] + PaysTo(r, a) - (IF a = PayrollAt THEN Total(r) ELSE 0) \in Nat
    BY <1>1, <1>4, <1>5
  <2>2. paid \in [Addresses -> Nat]
    BY <2>1
  <2>3. paid[PayrollAt] = held[PayrollAt] - Total(r)
    BY <1>4, <1>5
  <2>4. ASSUME NEW a \in Accounts
        PROVE  paid[a] = held[a] + PaysTo(r, a)
    <3>1. a \in Addresses /\ a # PayrollAt
      BY <1>3, SorobanAssumption DEF Addresses
    <3>2. paid[a] = held[a] + PaysTo(r, a) - 0
      BY <3>1
    <3> QED
      BY <1>4, <1>5, <3>1, <3>2
  <2> QED
    BY <2>2, <2>3, <2>4
<1> HIDE DEF paid
<1>7. /\ balance'[asset] = paid /\ balance' \in [Assets -> [Addresses -> Nat]]
      /\ \A t \in Assets : t # asset => balance'[t] = balance[t]
  BY <1>1, <1>3, <1>5, <1>6
<1>8. BatchesSound'
  BY <1>1, <1>2, <1>7 DEF BatchesSound, HostTypeOK
<1>9. ASSUME NEW t \in Assets
      PROVE  balance'[t][PayrollAt] = SumFunctionOnSet(OwedFor', FundedFor(t)')
  <2>1. balance[t][PayrollAt] \in Int /\ balance'[t][PayrollAt] \in Int
    BY <1>5, <1>7
  <2>2. id \notin FundedFor(t)' /\ (id \in FundedFor(t) <=> t = asset) /\ OwedFor[id] = Total(r)
    <3>1. id \notin FundedFor(t)'
      BY <1>2 DEF FundedFor, InState
    <3>2. id \in FundedFor(t) <=> t = asset
      BY <1>1 DEF FundedFor, InState
    <3>3. OwedFor[id] = Total(r)
      BY DEF OwedFor
    <3> QED
      BY <3>1, <3>2, <3>3
  <2>3. balance'[t][PayrollAt] = balance[t][PayrollAt] - (IF t = asset THEN Total(r) ELSE 0)
    BY <1>6, <1>7, <2>1
  <2>4. balance'[t][PayrollAt] - (IF id \in FundedFor(t)' THEN OwedFor'[id] ELSE 0)
          = balance[t][PayrollAt] - (IF id \in FundedFor(t) THEN OwedFor[id] ELSE 0)
    BY <1>4, <2>1, <2>2, <2>3
  <2> QED
    BY <1>2, <1>8, <2>1, <2>4, BatchBooks
<1>10. BatchesCovered'
  BY <1>9 DEF BatchesCovered, OwedFor, FundedFor
<1>11. ListFinal
  BY <1>1, <1>2, <1>6, <1>7 DEF ListFinal, OnlyBatch
<1> QED
  BY <1>8, <1>10, <1>11 DEF PayrollKept

LEMMA PayrollContractStep ==
  ASSUME BatchesSound, BatchesCovered, [PayrollContractNext]_payrollContractVars
  PROVE  PayrollKept
<1>1. ASSUME UNCHANGED <<hostVars, batches>>, payrollReady' \in BOOLEAN
      PROVE  PayrollKept
  BY <1>1 DEF PayrollKept, BatchesSound, BatchesCovered, InState, ListFinal, HostTypeOK, hostVars
<1>2. CASE UNCHANGED payrollContractVars
  BY <1>1, <1>2 DEF payrollContractVars, BatchesSound
<1>3. CASE InitializePayroll
  BY <1>1, <1>3 DEF InitializePayroll
<1>4. ASSUME NEW id \in DOMAIN batches,
             \/ Distribute(id) \/ CancelBatch(id)
             \/ \E a \in Accounts : FundBatch(id, a)
             \/ \E a \in Accounts, amount \in Wages : AddRecipient(id, a, amount)
      PROVE  PayrollKept
  BY <1>4, DistributeKeeps, CancelBatchKeeps, FundBatchKeeps, AddRecipientKeeps
<1> QED
  BY <1>2, <1>3, <1>4, CreateBatchKeeps DEF PayrollContractNext

LEMMA PayrollRests ==
  ASSUME HostTypeOK, PayrollContractStart, \A t \in Assets : balance[t][PayrollAt] = 0
  PROVE  BatchesSound /\ BatchesCovered
<1>1. /\ HostTypeOK /\ batches = <<>> /\ <<>> \in Seq(BatchRows) /\ DOMAIN batches = {}
      /\ payrollReady = FALSE
  BY EmptySeq DEF PayrollContractStart
<1>2. ASSUME NEW t \in Assets
      PROVE  balance[t][PayrollAt] = SumFunctionOnSet(OwedFor, FundedFor(t))
  <2>1. FundedFor(t) = {}
    BY <1>1 DEF FundedFor
  <2> QED
    BY <2>1, SumEmpty
<1> QED
  BY <1>1, <1>2 DEF BatchesSound, BatchesCovered, OwedFor, FundedFor

LEMMA PayrollContractBegin ==
  ASSUME PayrollContractInit
  PROVE  BatchesSound /\ BatchesCovered
  BY HostStart, PayrollRests, PayrollContractAssumption DEF PayrollContractInit

\* What the payroll contract holds of an asset is what the listed recipients of its
\* funded batches are owed, for any number of batches and recipients: a distribution
\* never falls short and never spends another batch's money (fund_batch, distribute).
THEOREM BatchesAreCovered == PayrollContractSpec => []BatchesCovered
<1>1. BatchesSound /\ BatchesCovered /\ [PayrollContractNext]_payrollContractVars
        => BatchesSound' /\ BatchesCovered'
  BY PayrollContractStep DEF PayrollKept
<1> QED
  BY PayrollContractBegin, <1>1, PTL DEF PayrollContractSpec

\* Nobody is added to a funded batch and nobody's share changes, and the distribution
\* pays every address the sum of its entries (add_recipient, distribute).
THEOREM ListsAreFinal == PayrollContractSpec => FundedListIsFinal
<1>1. BatchesSound /\ BatchesCovered /\ [PayrollContractNext]_payrollContractVars
        => BatchesSound' /\ BatchesCovered'
  BY PayrollContractStep DEF PayrollKept
<1>2. BatchesSound /\ BatchesCovered /\ [PayrollContractNext]_payrollContractVars
        => \A id \in DOMAIN batches : batches[id].status \in {"Funded", "Distributed"} =>
             /\ batches'[id].recipients = batches[id].recipients
             /\ batches[id].status = "Funded" /\ batches'[id].status # "Funded" =>
                  \A a \in Accounts : balance'[batches[id].asset][a] =
                    balance[batches[id].asset][a] + PaysTo(batches[id].recipients, a)
  BY PayrollContractStep DEF PayrollKept, ListFinal
<1> QED
  BY PayrollContractBegin, <1>1, <1>2, PTL DEF PayrollContractSpec, FundedListIsFinal

-----------------------------------------------------------------------------
(* The vesting contract: what has vested only grows, to the whole amount,   *)
(* and the contract holds what its schedules have not paid out.             *)

Milestones == [timestamp : Nat, percentage : Nat]
ScheduleRows ==
  [issuer : Accounts, beneficiary : Accounts, asset : Assets, total : Nat, claimed : Nat,
   start : Nat, cliff : Nat, end : Nat, type : {"Immediate", "Linear", "Milestone"},
   milestones : Seq(Milestones), revoked : BOOLEAN]

\* A schedule that was created with valid terms and has paid no more than vested.
Sustained(s, t) == ValidTerms(s) /\ s.claimed <= Vested(s, t)

VestingSound ==
  /\ HostTypeOK
  /\ vestingPaused \in {"none", "no", "yes"}
  /\ schedules \in Seq(ScheduleRows)
  /\ \A id \in DOMAIN schedules : Sustained(schedules[id], now)

LEMMA PercentGrows ==
  ASSUME NEW m \in Seq(Milestones), NEW t \in Nat, NEW u \in Nat, t <= u
  PROVE  /\ PercentPassed(m, t) \in Nat /\ PercentPassed(m, u) \in Nat
         /\ PercentPassed(m, t) <= PercentPassed(m, u)
<1> DEFINE f == [i \in DOMAIN m |-> m[i].percentage]
           Before(x) == {i \in DOMAIN m : m[i].timestamp <= x}
<1>1. DOMAIN m = 1..Len(m) /\ Len(m) \in Nat /\ \A i \in DOMAIN m : m[i] \in Milestones
  BY LenProperties, ElementOfSeq
<1>2. IsFiniteSet(DOMAIN m) /\ \A i \in DOMAIN m : f[i] \in Nat /\ m[i].timestamp \in Nat
  <2>1. IsFiniteSet(DOMAIN m)
    BY <1>1, FS_Interval
  <2>2. \A i \in DOMAIN m : f[i] \in Nat /\ m[i].timestamp \in Nat
    BY <1>1 DEF Milestones
  <2> QED
    BY <2>1, <2>2
<1>3. Before(t) \in SUBSET Before(u) /\ Before(t) \in SUBSET DOMAIN m /\ Before(u) \in SUBSET DOMAIN m
  BY <1>2
<1>4. /\ IsFiniteSet(Before(t)) /\ IsFiniteSet(Before(u))
      /\ \A i \in Before(t) : f[i] \in Nat
      /\ \A i \in Before(u) : f[i] \in Nat
  BY <1>2, <1>3, FS_Subset
<1> HIDE DEF f, Before
<1>5. /\ SumFunctionOnSet(f, Before(t)) \in Nat /\ SumFunctionOnSet(f, Before(u)) \in Nat
      /\ SumFunctionOnSet(f, Before(t)) <= SumFunctionOnSet(f, Before(u))
  BY <1>3, <1>4, SumNat, SumSub
<1> QED
  BY <1>5 DEF PercentPassed, f, Before

\* Milestones lie within the schedule, so all of them have passed at its end, and
\* together they are the whole of it.
LEMMA PercentBound ==
  ASSUME NEW m \in Seq(Milestones), NEW end \in Nat,
         \A i \in DOMAIN m : m[i].timestamp <= end, PercentPassed(m, end) = 100, NEW t \in Nat
  PROVE  /\ PercentPassed(m, t) <= 100
         /\ t >= end => PercentPassed(m, t) = 100
<1>1. \A i \in DOMAIN m : m[i].timestamp \in Nat
  <2>1. \A i \in DOMAIN m : m[i] \in Milestones
    BY LenProperties, ElementOfSeq
  <2> QED
    BY <2>1 DEF Milestones
<1>2. ASSUME t >= end
      PROVE  PercentPassed(m, t) = PercentPassed(m, end)
  <2>1. {i \in DOMAIN m : m[i].timestamp <= t} = {i \in DOMAIN m : m[i].timestamp <= end}
    BY <1>1, <1>2
  <2> QED
    BY <2>1 DEF PercentPassed
<1>3. CASE t >= end
  BY <1>2, <1>3
<1>4. CASE t < end
  <2>1. PercentPassed(m, t) <= PercentPassed(m, end)
    BY <1>4, PercentGrows
  <2> QED
    BY <1>4, <2>1
<1> QED
  BY <1>3, <1>4

LEMMA LinearGrows ==
  ASSUME NEW s \in ScheduleRows, s.start <= s.cliff, s.cliff < s.end,
         NEW t \in Nat, NEW u \in Nat, t <= u
  PROVE  /\ Linear(s, t) \in Nat /\ Linear(s, t) <= s.total
         /\ Linear(s, t) <= Linear(s, u)
         /\ t >= s.end => Linear(s, t) = s.total
<1> DEFINE total == s.total
           start == s.start
           cliff == s.cliff
           end == s.end
<1>1. total \in Nat /\ start \in Nat /\ cliff \in Nat /\ end \in Nat /\ start <= cliff /\ cliff < end
  BY DEF ScheduleRows
<1>2. \A x : Linear(s, x) = IF x < cliff THEN 0 ELSE IF x >= end THEN total
                            ELSE (total * (x - start)) \div (end - start)
  BY DEF Linear
<1> HIDE DEF total, start, cliff, end
<1>3. ASSUME NEW x \in Nat, cliff <= x, x < end
      PROVE  (total * (x - start)) \div (end - start) \in 0..total
  <2>1. total * (x - start) \in Nat /\ total * (end - start) \in Nat
        /\ total * (x - start) <= total * (end - start)
    BY <1>1, <1>3, TimesOrder
  <2>2. end - start \in Nat \ {0}
    BY <1>1
  <2>3. (total * (end - start)) \div (end - start) = total
    BY <1>1, <2>2, DivWhole
  <2> QED
    BY <1>1, <2>1, <2>2, <2>3, DivOrder
<1>4. ASSUME NEW x \in Nat
      PROVE  Linear(s, x) \in 0..total
  <2>1. 0 \in 0..total /\ total \in 0..total
    BY <1>1
  <2> QED
    BY <1>1, <1>2, <1>3, <2>1
<1>5. Linear(s, t) <= Linear(s, u)
  <2>1. CASE t < cliff
    BY <1>1, <1>2, <1>4, <2>1
  <2>2. CASE u >= end
    <3>1. Linear(s, u) = total
      BY <1>1, <1>2, <2>2
    <3>2. Linear(s, t) \in 0..total
      BY <1>4
    <3> QED
      BY <1>1, <3>1, <3>2
  <2>3. CASE t >= cliff /\ u < end
    <3>1. total * (t - start) \in Nat /\ total * (u - start) \in Nat
          /\ total * (t - start) <= total * (u - start)
      BY <1>1, <2>3, TimesOrder
    <3>2. (total * (t - start)) \div (end - start) <= (total * (u - start)) \div (end - start)
      BY <1>1, <3>1, DivOrder
    <3> QED
      BY <1>1, <1>2, <2>3, <3>2
  <2> QED
    BY <1>1, <2>1, <2>2, <2>3
<1>6. t >= end => Linear(s, t) = total
  BY <1>1, <1>2
<1>7. Linear(s, t) \in 0..total
  BY <1>4
<1> QED
  BY <1>1, <1>5, <1>6, <1>7 DEF total, end

LEMMA MilestonesGrow ==
  ASSUME NEW s \in ScheduleRows, ValidTerms(s), s.type = "Milestone",
         NEW t \in Nat, NEW u \in Nat, t <= u
  PROVE  /\ ByMilestones(s, t) \in Nat /\ ByMilestones(s, t) <= s.total
         /\ ByMilestones(s, t) <= ByMilestones(s, u)
         /\ t >= s.end => ByMilestones(s, t) = s.total
<1> DEFINE total == s.total
           cliff == s.cliff
           end == s.end
           P(x) == PercentPassed(s.milestones, x)
<1>1. /\ total \in Nat /\ cliff \in Nat /\ end \in Nat /\ cliff < end
      /\ s.milestones \in Seq(Milestones) /\ P(end) = 100
      /\ \A i \in DOMAIN s.milestones : s.milestones[i].timestamp <= end
  BY DEF ScheduleRows, ValidTerms
<1>2. \A x \in Nat : P(x) \in Nat /\ P(x) <= 100 /\ (x >= end => P(x) = 100)
  <2>1. ASSUME NEW x \in Nat
        PROVE  P(x) \in Nat
    <3>1. x <= x
      BY <2>1
    <3> QED
      BY <1>1, <3>1, PercentGrows
  <2>2. ASSUME NEW x \in Nat
        PROVE  P(x) <= 100 /\ (x >= end => P(x) = 100)
    BY <1>1, PercentBound
  <2> QED
    BY <2>1, <2>2
<1>3. P(t) <= P(u)
  BY <1>1, PercentGrows
<1>4. \A x : ByMilestones(s, x) = IF x < cliff THEN 0 ELSE (total * P(x)) \div 100
  BY DEF ByMilestones
<1> HIDE DEF total, cliff, end, P
<1>5. ASSUME NEW x \in Nat
      PROVE  /\ (total * P(x)) \div 100 \in 0..total
             /\ x >= end => (total * P(x)) \div 100 = total
  <2>1. total * P(x) \in Nat /\ total * 100 \in Nat /\ total * P(x) <= total * 100
    <3>1. total \in Nat /\ P(x) \in Nat /\ 100 \in Nat /\ P(x) <= 100
      BY <1>1, <1>2
    <3> QED
      BY <3>1, TimesOrder
  <2>2. (total * 100) \div 100 = total
    BY <1>1, DivWhole
  <2>3. (total * P(x)) \div 100 \in Nat /\ (total * P(x)) \div 100 <= (total * 100) \div 100
    BY <2>1, DivOrder
  <2> QED
    BY <1>1, <1>2, <2>2, <2>3
<1>6. (total * P(t)) \div 100 <= (total * P(u)) \div 100
  <2>1. total * P(t) \in Nat /\ total * P(u) \in Nat /\ total * P(t) <= total * P(u)
    BY <1>1, <1>2, <1>3, TimesOrder
  <2> QED
    BY <2>1, DivOrder
<1>7. ByMilestones(s, t) <= ByMilestones(s, u)
  <2>1. CASE u < cliff
    <3>1. ByMilestones(s, t) = 0 /\ ByMilestones(s, u) = 0
      BY <1>1, <1>4, <2>1
    <3> QED
      BY <3>1
  <2>2. CASE t < cliff /\ u >= cliff
    <3>1. ByMilestones(s, t) = 0 /\ ByMilestones(s, u) = (total * P(u)) \div 100
      BY <1>1, <1>4, <2>2
    <3>2. (total * P(u)) \div 100 \in 0..total
      BY <1>5
    <3> QED
      BY <1>1, <3>1, <3>2
  <2>3. CASE t >= cliff
    <3>1. /\ ByMilestones(s, t) = (total * P(t)) \div 100
          /\ ByMilestones(s, u) = (total * P(u)) \div 100
      BY <1>1, <1>4, <2>3
    <3> QED
      BY <1>6, <3>1
  <2> QED
    BY <1>1, <2>1, <2>2, <2>3
<1>8. t >= end => ByMilestones(s, t) = total
  BY <1>1, <1>4, <1>5
<1>9. ByMilestones(s, t) \in 0..total
  <2>1. 0 \in 0..total
    BY <1>1
  <2> QED
    BY <1>4, <1>5, <2>1
<1> QED
  BY <1>1, <1>7, <1>8, <1>9 DEF total, end

\* Whatever its kind, a schedule vests upwards, to its whole amount at its end.
LEMMA VestedGrows ==
  ASSUME NEW s \in ScheduleRows, ValidTerms(s), NEW t \in Nat, NEW u \in Nat, t <= u
  PROVE  /\ Vested(s, t) \in Nat /\ Vested(s, t) <= s.total
         /\ Vested(s, t) <= Vested(s, u)
         /\ t >= s.end => Vested(s, t) = s.total
<1>1. /\ s.total \in Nat /\ s.start \in Nat /\ s.cliff \in Nat /\ s.end \in Nat
      /\ s.type \in {"Immediate", "Linear", "Milestone"}
      /\ s.start <= s.cliff /\ s.cliff < s.end
  BY DEF ScheduleRows, ValidTerms
<1>2. CASE s.revoked
  BY <1>1, <1>2 DEF Vested
<1>3. CASE ~s.revoked /\ s.type = "Immediate"
  <2>1. \A x : Vested(s, x) = IF x < s.start THEN 0 ELSE s.total
    BY <1>3 DEF Vested
  <2> QED
    BY <1>1, <2>1
<1>4. CASE ~s.revoked /\ s.type = "Linear"
  <2>1. \A x : Vested(s, x) = Linear(s, x)
    BY <1>4 DEF Vested
  <2> QED
    BY <1>1, <2>1, LinearGrows
<1>5. CASE ~s.revoked /\ s.type = "Milestone"
  <2>1. \A x : Vested(s, x) = ByMilestones(s, x)
    BY <1>5 DEF Vested
  <2> QED
    BY <1>5, <2>1, MilestonesGrow
<1> QED
  BY <1>1, <1>2, <1>3, <1>4, <1>5

\* Only the schedule id changes.
OnlySchedule(id) ==
  \A x : x # id => /\ x \in DOMAIN schedules <=> x \in DOMAIN schedules'
                   /\ x \in DOMAIN schedules => schedules'[x] = schedules[x]

Upwards ==
  \A id \in DOMAIN schedules : Vested(schedules'[id], now') >= Vested(schedules[id], now)

VestingKept == VestingSound' /\ VestingCovered' /\ Upwards

\* What schedules have not paid out, and which are in an asset.
LeftOf == [id \in DOMAIN schedules |-> schedules[id].total - schedules[id].claimed]
SchedulesIn(t) == {id \in DOMAIN schedules : schedules[id].asset = t}

LEMMA SchedulesFinite ==
  ASSUME NEW rows \in Seq(ScheduleRows)
  PROVE  /\ IsFiniteSet(DOMAIN rows)
         /\ \A id \in DOMAIN rows : rows[id] \in ScheduleRows /\ rows[id].total - rows[id].claimed \in Int
<1>1. IsFiniteSet(DOMAIN rows) /\ \A id \in DOMAIN rows : rows[id] \in ScheduleRows
  BY SeqFacts
<1>2. \A id \in DOMAIN rows : rows[id].total - rows[id].claimed \in Int
  BY <1>1 DEF ScheduleRows
<1> QED
  BY <1>1, <1>2

LEMMA VestingBooks ==
  ASSUME VestingSound, schedules' \in Seq(ScheduleRows), VestingCovered, NEW t \in Assets,
         NEW id, OnlySchedule(id),
         balance'[t][VestingAt] - (IF id \in SchedulesIn(t)' THEN LeftOf'[id] ELSE 0)
           = balance[t][VestingAt] - (IF id \in SchedulesIn(t) THEN LeftOf[id] ELSE 0),
         balance'[t][VestingAt] \in Int, balance[t][VestingAt] \in Int
  PROVE  balance'[t][VestingAt] = SumFunctionOnSet(LeftOf', SchedulesIn(t)')
<1> DEFINE S == SchedulesIn(t)
           T == SchedulesIn(t)'
           f == LeftOf
           e == LeftOf'
<1>1. /\ S \in SUBSET DOMAIN schedules /\ T \in SUBSET DOMAIN schedules'
      /\ IsFiniteSet(DOMAIN schedules) /\ IsFiniteSet(DOMAIN schedules')
  BY SchedulesFinite DEF SchedulesIn, VestingSound
<1>2. IsFiniteSet(S) /\ IsFiniteSet(T)
  BY <1>1, FS_Subset
<1>3. (\A y \in S : f[y] \in Int) /\ (\A y \in T : e[y] \in Int)
  BY <1>1, SchedulesFinite DEF LeftOf, VestingSound
<1>4. S \ {id} = T \ {id}
  BY DEF SchedulesIn, OnlySchedule
<1>5. \A y \in S \ {id} : f[y] = e[y]
  BY <1>1 DEF LeftOf, OnlySchedule
<1>6. balance[t][VestingAt] = SumFunctionOnSet(f, S)
  BY DEF VestingCovered, LeftOf, SchedulesIn
<1>7. /\ balance'[t][VestingAt] - (IF id \in T THEN e[id] ELSE 0)
           = SumFunctionOnSet(f, S) - (IF id \in S THEN f[id] ELSE 0)
      /\ balance'[t][VestingAt] \in Int
  BY <1>6
<1> HIDE DEF S, T, f, e
<1>8. SumFunctionOnSet(f, S) - (IF id \in S THEN f[id] ELSE 0)
        = SumFunctionOnSet(e, T) - (IF id \in T THEN e[id] ELSE 0)
  BY <1>2, <1>3, <1>4, <1>5, SumChange
<1>9. SumFunctionOnSet(e, T) \in Int
  BY <1>2, <1>3, SumInt
<1>10. balance'[t][VestingAt] = SumFunctionOnSet(e, T)
  BY <1>3, <1>7, <1>8, <1>9
<1> QED
  BY <1>10 DEF e, T

\* A step of one schedule keeps everything if the schedule stays sound, what it vests
\* does not fall, and what it has left changes with the balance.
LEMMA VestingMoves ==
  ASSUME VestingSound, VestingCovered, HostTypeOK', now' = now, vestingPaused' = vestingPaused,
         NEW id, OnlySchedule(id), id \in DOMAIN schedules', schedules' \in Seq(ScheduleRows),
         Sustained(schedules'[id], now),
         id \in DOMAIN schedules => Vested(schedules'[id], now) = Vested(schedules[id], now),
         \A t \in Assets :
           balance'[t][VestingAt] - (IF id \in SchedulesIn(t)' THEN LeftOf'[id] ELSE 0)
             = balance[t][VestingAt] - (IF id \in SchedulesIn(t) THEN LeftOf[id] ELSE 0)
  PROVE  VestingKept
<1>1. \A t \in Assets : balance[t][VestingAt] \in Int /\ balance'[t][VestingAt] \in Int
  BY VestingAssumption DEF VestingSound, HostTypeOK, Addresses
<1>2. \A t \in Assets : balance'[t][VestingAt] = SumFunctionOnSet(LeftOf', SchedulesIn(t)')
  BY <1>1, VestingBooks
<1>3. VestingCovered'
  BY <1>2 DEF VestingCovered, LeftOf, SchedulesIn
<1>4. \A x \in DOMAIN schedules' : Sustained(schedules'[x], now)
  BY DEF VestingSound, OnlySchedule
<1>5. VestingSound'
  BY <1>4 DEF VestingSound
<1>6. ASSUME NEW x \in DOMAIN schedules
      PROVE  Vested(schedules'[x], now) >= Vested(schedules[x], now)
  <2>1. Vested(schedules[x], now) \in Nat
    <3>1. schedules[x] \in ScheduleRows /\ ValidTerms(schedules[x]) /\ now \in Nat
      BY SchedulesFinite, SorobanAssumption DEF VestingSound, HostTypeOK, Sustained
    <3> QED
      BY <3>1, VestedGrows
  <2>2. Vested(schedules'[x], now) = Vested(schedules[x], now)
    BY DEF OnlySchedule
  <2> QED
    BY <2>1, <2>2
<1>7. Upwards
  BY <1>6 DEF Upwards
<1> QED
  BY <1>3, <1>5, <1>7 DEF VestingKept

\* Replacing one schedule.
LEMMA ScheduleSet ==
  ASSUME VestingSound, NEW id \in DOMAIN schedules, NEW s \in ScheduleRows,
         schedules' = [schedules EXCEPT ![id] = s]
  PROVE  /\ schedules' \in Seq(ScheduleRows) /\ OnlySchedule(id)
         /\ id \in DOMAIN schedules' /\ schedules'[id] = s
<1>1. /\ schedules \in Seq(ScheduleRows) /\ id \in 1..Len(schedules)
      /\ schedules \in [1..Len(schedules) -> ScheduleRows]
  BY LenProperties DEF VestingSound
<1>2. schedules' \in Seq(ScheduleRows)
  BY <1>1, ExceptSeq
<1>3. /\ DOMAIN schedules' = DOMAIN schedules /\ schedules'[id] = s
      /\ \A x \in DOMAIN schedules : x # id => schedules'[x] = schedules[x]
  BY <1>1
<1> QED
  BY <1>2, <1>3 DEF OnlySchedule

\* What is known of a schedule before a step.
LEMMA ScheduleFacts ==
  ASSUME VestingSound, NEW id \in DOMAIN schedules
  PROVE  LET s == schedules[id] IN
         /\ s \in ScheduleRows /\ ValidTerms(s) /\ now \in Nat
         /\ s.total \in Nat /\ s.claimed \in Nat /\ Vested(s, now) \in Nat
         /\ s.claimed <= Vested(s, now) /\ Vested(s, now) <= s.total
         /\ s.asset \in Assets /\ s.issuer \in Accounts /\ s.beneficiary \in Accounts
<1> DEFINE s == schedules[id]
<1>1. s \in ScheduleRows /\ ValidTerms(s) /\ s.claimed <= Vested(s, now) /\ now \in Nat
  BY SchedulesFinite, SorobanAssumption DEF VestingSound, HostTypeOK, Sustained
<1> HIDE DEF s
<1>2. Vested(s, now) \in Nat /\ Vested(s, now) <= s.total
  BY <1>1, VestedGrows
<1>3. /\ s.total \in Nat /\ s.claimed \in Nat
      /\ s.asset \in Assets /\ s.issuer \in Accounts /\ s.beneficiary \in Accounts
  BY <1>1 DEF ScheduleRows
<1> QED
  BY <1>1, <1>2, <1>3 DEF s

LEMMA CreateVestingKeeps ==
  ASSUME VestingSound, VestingCovered, NEW creator \in Accounts, NEW beneficiary \in Accounts,
         NEW asset \in VestingAssets, NEW amount \in VestingAmounts, NEW terms \in VestingTerms,
         CreateVesting(creator, beneficiary, asset, amount, terms)
  PROVE  VestingKept
<1> DEFINE s == [issuer |-> creator, beneficiary |-> beneficiary, asset |-> asset,
                 total |-> amount, claimed |-> 0, start |-> terms.start, cliff |-> terms.cliff,
                 end |-> terms.end, type |-> terms.type, milestones |-> terms.milestones,
                 revoked |-> FALSE]
           n == Len(schedules) + 1
<1>1. /\ schedules' = Append(schedules, s) /\ UNCHANGED <<now, vestingPaused>>
      /\ amount > 0 /\ ValidTerms(terms) /\ Transfer(asset, creator, VestingAt, amount)
      /\ asset \in Assets /\ amount \in Int /\ VestingAt \in Contracts /\ HostTypeOK
  BY VestingAssumption DEF CreateVesting, VestingSound
<1>2. /\ s \in ScheduleRows /\ ValidTerms(s) /\ s.total - s.claimed = amount
      /\ s.asset = asset /\ s.claimed = 0
  <2>1. /\ terms.start \in Nat /\ terms.cliff \in Nat /\ terms.end \in Nat
        /\ terms.type \in {"Immediate", "Linear", "Milestone"}
        /\ terms.milestones \in Seq(Milestones)
    BY VestingAssumption DEF Milestones
  <2>2. s \in ScheduleRows
    BY <1>1, <2>1 DEF ScheduleRows
  <2>3. ValidTerms(s)
    BY <1>1 DEF ValidTerms
  <2> QED
    BY <1>1, <2>2, <2>3
<1> HIDE DEF s
<1>3. now \in Nat /\ Sustained(s, now)
  <2>1. now \in Nat
    BY <1>1, SorobanAssumption DEF HostTypeOK
  <2>2. Vested(s, now) \in Nat
    BY <1>2, <2>1, VestedGrows
  <2> QED
    BY <1>2, <2>1, <2>2 DEF Sustained
<1>4. /\ schedules' \in Seq(ScheduleRows) /\ DOMAIN schedules = 1..Len(schedules)
      /\ Len(schedules) \in Nat /\ DOMAIN schedules' = 1..n /\ schedules'[n] = s
      /\ \A x \in DOMAIN schedules : schedules'[x] = schedules[x]
  BY <1>1, <1>2, AppendProperties, LenProperties DEF VestingSound
<1>5. n \notin DOMAIN schedules /\ DOMAIN schedules' = DOMAIN schedules \cup {n}
  BY <1>4
<1> HIDE DEF n
<1>6. OnlySchedule(n)
  BY <1>4, <1>5 DEF OnlySchedule
<1>7. /\ balance'[asset][VestingAt] = balance[asset][VestingAt] + amount
      /\ \A t \in Assets : t # asset => balance'[t][VestingAt] = balance[t][VestingAt]
      /\ balance' \in [Assets -> [Addresses -> Nat]]
  BY <1>1, MoneyIn, TransferTyped
<1>8. HostTypeOK'
  BY <1>1, <1>7 DEF HostTypeOK
<1>9. ASSUME NEW t \in Assets
      PROVE  balance'[t][VestingAt] - (IF n \in SchedulesIn(t)' THEN LeftOf'[n] ELSE 0)
               = balance[t][VestingAt] - (IF n \in SchedulesIn(t) THEN LeftOf[n] ELSE 0)
  <2>1. /\ n \notin SchedulesIn(t) /\ (n \in SchedulesIn(t)' <=> t = asset)
        /\ LeftOf'[n] = amount
    <3>1. n \notin SchedulesIn(t)
      BY <1>5 DEF SchedulesIn
    <3>2. n \in SchedulesIn(t)' <=> t = asset
      BY <1>2, <1>4, <1>5 DEF SchedulesIn
    <3>3. LeftOf'[n] = amount
      BY <1>2, <1>4, <1>5 DEF LeftOf
    <3> QED
      BY <3>1, <3>2, <3>3
  <2>2. balance[t][VestingAt] \in Int
    BY <1>1 DEF HostTypeOK, Addresses
  <2> QED
    BY <1>1, <1>7, <2>1, <2>2
<1> QED
  BY <1>1, <1>3, <1>4, <1>5, <1>6, <1>8, <1>9, VestingMoves

LEMMA ClaimVestedKeeps ==
  ASSUME VestingSound, VestingCovered, NEW id \in DOMAIN schedules, ClaimVested(id)
  PROVE  VestingKept
<1> DEFINE s == schedules[id]
           vested == Vested(s, now)
           after == [s EXCEPT !.claimed = @ + (vested - s.claimed)]
<1>1. /\ s \in ScheduleRows /\ ValidTerms(s) /\ now \in Nat
      /\ s.total \in Nat /\ s.claimed \in Nat /\ vested \in Nat
      /\ s.claimed <= vested /\ vested <= s.total
      /\ s.asset \in Assets /\ s.beneficiary \in Accounts
  BY ScheduleFacts
<1>2. /\ Transfer(s.asset, VestingAt, s.beneficiary, vested - s.claimed)
      /\ schedules' = [schedules EXCEPT ![id] = after]
      /\ UNCHANGED <<now, vestingPaused>>
  BY DEF ClaimVested
<1>3. /\ after \in ScheduleRows /\ after.claimed = vested /\ after.total = s.total
      /\ after.asset = s.asset
  BY <1>1 DEF ScheduleRows
<1>4. ValidTerms(after) /\ Vested(after, now) = vested
  <2>1. /\ after.start = s.start /\ after.cliff = s.cliff /\ after.end = s.end
        /\ after.type = s.type /\ after.milestones = s.milestones /\ after.revoked = s.revoked
    BY <1>1 DEF ScheduleRows
  <2> HIDE DEF after
  <2>2. ValidTerms(after)
    BY <1>1, <2>1 DEF ValidTerms
  <2>3. Vested(after, now) = vested
    BY <1>3, <2>1 DEF Vested, Linear, ByMilestones
  <2> QED
    BY <2>2, <2>3
<1> HIDE DEF after
<1>5. Sustained(after, now)
  BY <1>1, <1>3, <1>4 DEF Sustained
<1>6. /\ schedules' \in Seq(ScheduleRows) /\ OnlySchedule(id)
      /\ id \in DOMAIN schedules' /\ schedules'[id] = after
  BY <1>2, <1>3, ScheduleSet
<1>7. HostTypeOK /\ VestingAt \in Contracts /\ vested - s.claimed \in Int
  BY <1>1, VestingAssumption DEF VestingSound
<1>8. /\ balance'[s.asset][VestingAt] = balance[s.asset][VestingAt] - (vested - s.claimed)
      /\ \A t \in Assets : t # s.asset => balance'[t][VestingAt] = balance[t][VestingAt]
      /\ balance' \in [Assets -> [Addresses -> Nat]]
  BY <1>1, <1>2, <1>7, MoneyOut, TransferTyped
<1>9. HostTypeOK'
  BY <1>2, <1>7, <1>8 DEF HostTypeOK
<1>10. ASSUME NEW t \in Assets
       PROVE  balance'[t][VestingAt] - (IF id \in SchedulesIn(t)' THEN LeftOf'[id] ELSE 0)
                = balance[t][VestingAt] - (IF id \in SchedulesIn(t) THEN LeftOf[id] ELSE 0)
  <2>1. (id \in SchedulesIn(t) <=> t = s.asset) /\ (id \in SchedulesIn(t)' <=> t = s.asset)
    <3>1. id \in SchedulesIn(t) <=> t = s.asset
      BY DEF SchedulesIn
    <3>2. id \in SchedulesIn(t)' <=> t = s.asset
      BY <1>3, <1>6 DEF SchedulesIn
    <3> QED
      BY <3>1, <3>2
  <2>2. LeftOf[id] = s.total - s.claimed /\ LeftOf'[id] = s.total - vested
    BY <1>3, <1>6 DEF LeftOf
  <2>3. balance[t][VestingAt] \in Int
    BY <1>7 DEF HostTypeOK, Addresses
  <2> HIDE DEF s, vested
  <2> QED
    BY <1>1, <1>8, <2>1, <2>2, <2>3
<1> QED
  BY <1>2, <1>4, <1>5, <1>6, <1>9, <1>10, VestingMoves

LEMMA RevokeVestingKeeps ==
  ASSUME VestingSound, VestingCovered, NEW id \in DOMAIN schedules, RevokeVesting(id)
  PROVE  VestingKept
<1> DEFINE s == schedules[id]
           vested == Vested(s, now)
           after == [s EXCEPT !.total = vested, !.revoked = TRUE]
<1>1. /\ s \in ScheduleRows /\ ValidTerms(s) /\ now \in Nat
      /\ s.total \in Nat /\ s.claimed \in Nat /\ vested \in Nat
      /\ s.claimed <= vested /\ vested <= s.total
      /\ s.asset \in Assets /\ s.issuer \in Accounts
  BY ScheduleFacts
<1>2. /\ IF s.total - vested > 0 THEN Transfer(s.asset, VestingAt, s.issuer, s.total - vested)
         ELSE UNCHANGED balance
      /\ schedules' = [schedules EXCEPT ![id] = after]
      /\ UNCHANGED <<now, vestingPaused>>
  BY DEF RevokeVesting
<1>3. /\ after \in ScheduleRows /\ after.claimed = s.claimed /\ after.total = vested
      /\ after.asset = s.asset /\ after.revoked = TRUE
  BY <1>1 DEF ScheduleRows
<1>4. ValidTerms(after) /\ Vested(after, now) = vested
  <2>1. /\ after.start = s.start /\ after.cliff = s.cliff /\ after.end = s.end
        /\ after.type = s.type /\ after.milestones = s.milestones
    BY <1>1 DEF ScheduleRows
  <2> HIDE DEF after
  <2>2. ValidTerms(after)
    BY <1>1, <2>1 DEF ValidTerms
  <2>3. Vested(after, now) = vested
    BY <1>3 DEF Vested
  <2> QED
    BY <2>2, <2>3
<1> HIDE DEF after
<1>5. Sustained(after, now)
  BY <1>1, <1>3, <1>4 DEF Sustained
<1>6. /\ schedules' \in Seq(ScheduleRows) /\ OnlySchedule(id)
      /\ id \in DOMAIN schedules' /\ schedules'[id] = after
  BY <1>2, <1>3, ScheduleSet
<1>7. HostTypeOK /\ VestingAt \in Contracts /\ s.total - vested \in Int
  BY <1>1, VestingAssumption DEF VestingSound
<1>8. /\ balance'[s.asset][VestingAt] = balance[s.asset][VestingAt] - (s.total - vested)
      /\ \A t \in Assets : t # s.asset => balance'[t][VestingAt] = balance[t][VestingAt]
      /\ balance' \in [Assets -> [Addresses -> Nat]]
  <2>1. CASE s.total - vested > 0
    BY <1>1, <1>2, <1>7, <2>1, MoneyOut, TransferTyped
  <2>2. CASE ~(s.total - vested > 0)
    <3>1. balance[s.asset][VestingAt] \in Int
      BY <1>1, <1>7 DEF HostTypeOK, Addresses
    <3>2. balance' = balance
      BY <1>2, <2>2
    <3>3. s.total - vested = 0
      BY <1>1, <2>2
    <3> QED
      BY <1>7, <3>1, <3>2, <3>3 DEF HostTypeOK
  <2> QED
    BY <2>1, <2>2
<1>9. HostTypeOK'
  BY <1>2, <1>7, <1>8 DEF HostTypeOK
<1>10. ASSUME NEW t \in Assets
       PROVE  balance'[t][VestingAt] - (IF id \in SchedulesIn(t)' THEN LeftOf'[id] ELSE 0)
                = balance[t][VestingAt] - (IF id \in SchedulesIn(t) THEN LeftOf[id] ELSE 0)
  <2>1. (id \in SchedulesIn(t) <=> t = s.asset) /\ (id \in SchedulesIn(t)' <=> t = s.asset)
    <3>1. id \in SchedulesIn(t) <=> t = s.asset
      BY DEF SchedulesIn
    <3>2. id \in SchedulesIn(t)' <=> t = s.asset
      BY <1>3, <1>6 DEF SchedulesIn
    <3> QED
      BY <3>1, <3>2
  <2>2. LeftOf[id] = s.total - s.claimed /\ LeftOf'[id] = vested - s.claimed
    BY <1>3, <1>6 DEF LeftOf
  <2>3. balance[t][VestingAt] \in Int
    BY <1>7 DEF HostTypeOK, Addresses
  <2> HIDE DEF s, vested
  <2> QED
    BY <1>1, <1>8, <2>1, <2>2, <2>3
<1> QED
  BY <1>2, <1>4, <1>5, <1>6, <1>9, <1>10, VestingMoves

LEMMA TransferVestingKeeps ==
  ASSUME VestingSound, VestingCovered, NEW id \in DOMAIN schedules, NEW to \in Accounts,
         TransferVesting(id, to)
  PROVE  VestingKept
<1> DEFINE s == schedules[id]
           after == [s EXCEPT !.beneficiary = to]
<1>1. s \in ScheduleRows /\ ValidTerms(s) /\ now \in Nat /\ s.claimed <= Vested(s, now) /\ HostTypeOK
  BY ScheduleFacts DEF VestingSound
<1>2. schedules' = [schedules EXCEPT ![id] = after] /\ UNCHANGED <<now, balance, vestingPaused>>
  BY DEF TransferVesting, hostVars
<1>3. /\ after \in ScheduleRows /\ after.claimed = s.claimed /\ after.total = s.total
      /\ after.asset = s.asset
      /\ after.start = s.start /\ after.cliff = s.cliff /\ after.end = s.end
      /\ after.type = s.type /\ after.milestones = s.milestones /\ after.revoked = s.revoked
  BY <1>1 DEF ScheduleRows
<1> HIDE DEF after
<1>4. ValidTerms(after)
  BY <1>1, <1>3 DEF ValidTerms
<1>5. Vested(after, now) = Vested(s, now)
  BY <1>3 DEF Vested, Linear, ByMilestones
<1>6. Sustained(after, now)
  BY <1>1, <1>3, <1>4, <1>5 DEF Sustained
<1>7. /\ schedules' \in Seq(ScheduleRows) /\ OnlySchedule(id)
      /\ id \in DOMAIN schedules' /\ schedules'[id] = after
  BY <1>2, <1>3, ScheduleSet
<1>8. ASSUME NEW t \in Assets
      PROVE  balance'[t][VestingAt] - (IF id \in SchedulesIn(t)' THEN LeftOf'[id] ELSE 0)
               = balance[t][VestingAt] - (IF id \in SchedulesIn(t) THEN LeftOf[id] ELSE 0)
  <2>1. id \in SchedulesIn(t) <=> id \in SchedulesIn(t)'
    BY <1>3, <1>7 DEF SchedulesIn
  <2>2. LeftOf[id] = LeftOf'[id]
    BY <1>3, <1>7 DEF LeftOf
  <2> QED
    BY <1>2, <2>1, <2>2
<1> QED
  BY <1>1, <1>2, <1>5, <1>6, <1>7, <1>8, VestingMoves DEF HostTypeOK

LEMMA VestingStep ==
  ASSUME VestingSound, VestingCovered, [VestingNext]_vestingVars
  PROVE  VestingKept
<1>1. ASSUME UNCHANGED <<balance, schedules>>, now' >= now, HostTypeOK',
             vestingPaused' \in {"none", "no", "yes"}
      PROVE  VestingKept
  <2>1. ASSUME NEW id \in DOMAIN schedules
        PROVE  /\ Vested(schedules[id], now') >= Vested(schedules[id], now)
               /\ Sustained(schedules[id], now')
    <3>1. /\ schedules[id] \in ScheduleRows /\ ValidTerms(schedules[id]) /\ now \in Nat
          /\ schedules[id].claimed \in Nat /\ schedules[id].claimed <= Vested(schedules[id], now)
      BY ScheduleFacts
    <3>2. now' \in Nat /\ now <= now'
      BY <1>1, <3>1, SorobanAssumption DEF HostTypeOK
    <3>3. Vested(schedules[id], now) \in Nat /\ Vested(schedules[id], now') \in Nat
          /\ Vested(schedules[id], now) <= Vested(schedules[id], now')
      BY <3>1, <3>2, VestedGrows
    <3> QED
      BY <3>1, <3>3 DEF Sustained
  <2>2. VestingSound' /\ Upwards
    BY <1>1, <2>1 DEF VestingSound, Upwards
  <2> QED
    BY <1>1, <2>2 DEF VestingKept, VestingCovered
<1>2. now' = now => now' >= now
  BY DEF VestingSound, HostTypeOK
<1>3. HostTypeOK /\ (UNCHANGED hostVars => HostTypeOK' /\ UNCHANGED <<now, balance>>)
  BY DEF VestingSound, HostTypeOK, hostVars
<1>4. CASE UNCHANGED vestingVars
  BY <1>1, <1>2, <1>3, <1>4 DEF vestingVars, VestingSound
<1>5. CASE Tick /\ UNCHANGED <<vestingPaused, schedules>>
  <2>1. HostTypeOK' /\ now' >= now /\ UNCHANGED balance
    BY <1>3, <1>5, TickTyped DEF Tick
  <2> QED
    BY <1>1, <1>5, <2>1 DEF VestingSound
<1>6. CASE InitializeVesting
  BY <1>1, <1>2, <1>3, <1>6 DEF InitializeVesting
<1>7. ASSUME NEW a \in Accounts, PauseVesting(a) \/ UnpauseVesting(a)
      PROVE  VestingKept
  BY <1>1, <1>2, <1>3, <1>7 DEF PauseVesting, UnpauseVesting
<1>8. ASSUME NEW id \in DOMAIN schedules,
             \/ ClaimVested(id) \/ RevokeVesting(id)
             \/ \E a \in Accounts : TransferVesting(id, a)
      PROVE  VestingKept
  BY <1>8, ClaimVestedKeeps, RevokeVestingKeeps, TransferVestingKeeps
<1> QED
  BY <1>4, <1>5, <1>6, <1>7, <1>8, CreateVestingKeeps DEF VestingNext

LEMMA VestingRests ==
  ASSUME HostTypeOK, VestingStart, \A t \in Assets : balance[t][VestingAt] = 0
  PROVE  VestingSound /\ VestingCovered
<1>1. /\ HostTypeOK /\ schedules = <<>> /\ <<>> \in Seq(ScheduleRows) /\ DOMAIN schedules = {}
      /\ vestingPaused = "none"
  BY EmptySeq DEF VestingStart
<1>2. ASSUME NEW t \in Assets
      PROVE  balance[t][VestingAt] = SumFunctionOnSet(LeftOf, SchedulesIn(t))
  <2>1. SchedulesIn(t) = {}
    BY <1>1 DEF SchedulesIn
  <2> QED
    BY <2>1, SumEmpty
<1> QED
  BY <1>1, <1>2 DEF VestingSound, VestingCovered, LeftOf, SchedulesIn

LEMMA VestingBegin ==
  ASSUME VestingInit
  PROVE  VestingSound /\ VestingCovered
  BY HostStart, VestingRests, VestingAssumption DEF VestingInit

LEMMA SchedulesVest ==
  ASSUME VestingSound
  PROVE  VestsInFull
<1>1. ASSUME NEW id \in DOMAIN schedules
      PROVE  /\ schedules[id].claimed <= Vested(schedules[id], now)
             /\ now >= schedules[id].end => Vested(schedules[id], now) = schedules[id].total
  <2>1. /\ schedules[id] \in ScheduleRows /\ ValidTerms(schedules[id]) /\ now \in Nat
        /\ schedules[id].claimed <= Vested(schedules[id], now)
    BY ScheduleFacts
  <2>2. now <= now
    BY <2>1
  <2> QED
    BY <2>1, <2>2, VestedGrows
<1> QED
  BY <1>1 DEF VestsInFull

\* A schedule of any kind vests to its last unit by its end, and nobody has claimed
\* more than had vested (calculate_vested_amount, claim).
THEOREM AllVests == VestingSpec => []VestsInFull
<1>1. VestingSound /\ VestingCovered /\ [VestingNext]_vestingVars => VestingSound' /\ VestingCovered'
  BY VestingStep DEF VestingKept
<1>2. VestingSound => VestsInFull
  BY SchedulesVest
<1> QED
  BY VestingBegin, <1>1, <1>2, PTL DEF VestingSpec

\* Neither time nor a claim, a revocation, a pause or a transfer of the rights takes
\* back what has vested (revoke, transfer_vesting, pause).
THEOREM VestedStays == VestingSpec => VestedStaysVested
<1>1. VestingSound /\ VestingCovered /\ [VestingNext]_vestingVars => VestingSound' /\ VestingCovered'
  BY VestingStep DEF VestingKept
<1>2. VestingSound /\ VestingCovered /\ [VestingNext]_vestingVars
        => \A id \in DOMAIN schedules : Vested(schedules'[id], now') >= Vested(schedules[id], now)
  BY VestingStep DEF VestingKept, Upwards
<1> QED
  BY VestingBegin, <1>1, <1>2, PTL DEF VestingSpec, VestedStaysVested

\* The vesting contract holds exactly what its schedules have not paid out, however
\* claims and revocations follow each other and however the vesting is rounded.
THEOREM VestingIsCovered == VestingSpec => []VestingCovered
<1>1. VestingSound /\ VestingCovered /\ [VestingNext]_vestingVars => VestingSound' /\ VestingCovered'
  BY VestingStep DEF VestingKept
<1> QED
  BY VestingBegin, <1>1, PTL DEF VestingSpec

-----------------------------------------------------------------------------
(* The batch executor: all or nothing.                                      *)

Lists == Seq(Targets \cup {ExecutorAt})
RunRows == [ops : Lists, status : {"Pending", "Completed", "Failed"}]
Done == {id \in DOMAIN batchOps : batchOps[id].status = "Completed"}
Called(t) == [id \in DOMAIN batchOps |-> Times(t, batchOps[id].ops)]

BatchSound ==
  /\ batchOps \in Seq(RunRows) /\ calls \in [Targets -> Nat]
  /\ \A t \in Targets : calls[t] = SumFunctionOnSet(Called(t), Done)

LEMMA TimesNat ==
  ASSUME NEW t, NEW ops \in Lists
  PROVE  /\ Times(t, ops) \in Nat
         /\ (\A i \in DOMAIN ops : ops[i] # t) => Times(t, ops) = 0
<1> DEFINE places == {i \in DOMAIN ops : ops[i] = t}
<1>1. IsFiniteSet(DOMAIN ops) /\ places \subseteq DOMAIN ops
  BY SeqFacts DEF Lists
<1>2. Cardinality(places) \in Nat
  BY <1>1, FS_Subset, FS_CardinalityType
<1>3. (\A i \in DOMAIN ops : ops[i] # t) => places = {}
  OBVIOUS
<1> QED
  BY <1>2, <1>3, FS_EmptySet DEF Times

\* What the batches have done before and after a step of one of them.
LEMMA BatchFacts ==
  ASSUME BatchSound
  PROVE  /\ IsFiniteSet(DOMAIN batchOps) /\ IsFiniteSet(Done) /\ DOMAIN batchOps = 1..Len(batchOps)
         /\ Len(batchOps) \in Nat /\ \A id \in DOMAIN batchOps : batchOps[id] \in RunRows
         /\ \A t : \A id \in DOMAIN batchOps : Called(t)[id] \in Nat
<1>1. /\ IsFiniteSet(DOMAIN batchOps) /\ DOMAIN batchOps = 1..Len(batchOps)
      /\ Len(batchOps) \in Nat /\ \A id \in DOMAIN batchOps : batchOps[id] \in RunRows
  BY SeqFacts DEF BatchSound
<1>2. Done \subseteq DOMAIN batchOps
  BY DEF Done
<1>3. \A t : \A id \in DOMAIN batchOps : Called(t)[id] \in Nat
  BY <1>1, TimesNat DEF Called, RunRows
<1> QED
  BY <1>1, <1>2, <1>3, FS_Subset

LEMMA CreateOperationsKeeps ==
  ASSUME BatchSound, NEW ops \in Operations, CreateOperations(ops)
  PROVE  BatchSound'
<1> DEFINE row == [ops |-> ops, status |-> "Pending"]
<1>1. row \in RunRows /\ row.status = "Pending"
  BY BatchAssumption DEF RunRows, Lists
<1>2. batchOps' = Append(batchOps, row) /\ UNCHANGED calls
  BY DEF CreateOperations
<1> HIDE DEF row
<1>3. /\ batchOps' \in Seq(RunRows) /\ Len(batchOps') = Len(batchOps) + 1
      /\ batchOps'[Len(batchOps) + 1] = row /\ \A id \in 1..Len(batchOps) : batchOps'[id] = batchOps[id]
  BY <1>1, <1>2, AppendProperties, BatchFacts DEF BatchSound
<1>4. DOMAIN batchOps' = 1..(Len(batchOps) + 1)
  BY <1>3, LenProperties
<1>5. Done' = Done
  BY <1>1, <1>3, <1>4, BatchFacts DEF Done
<1>6. ASSUME NEW t \in Targets
      PROVE  calls'[t] = SumFunctionOnSet(Called(t)', Done')
  <2>1. \A id \in Done : Called(t)[id] = Called(t)'[id]
    BY <1>3, <1>4, BatchFacts DEF Done, Called
  <2>2. SumFunctionOnSet(Called(t), Done) = SumFunctionOnSet(Called(t)', Done)
    BY <2>1, BatchFacts, SumSame
  <2> QED
    BY <1>2, <1>5, <2>2 DEF BatchSound
<1> QED
  BY <1>2, <1>3, <1>6 DEF BatchSound

\* A batch whose status changes keeps its calls.
LEMMA StatusOfBatch ==
  ASSUME BatchSound, NEW id \in DOMAIN batchOps, NEW status \in {"Completed", "Failed"},
         batchOps' = [batchOps EXCEPT ![id].status = status]
  PROVE  /\ batchOps' \in Seq(RunRows) /\ DOMAIN batchOps' = DOMAIN batchOps
         /\ \A t : Called(t)' = Called(t)
         /\ batchOps'[id].status = status
         /\ \A x \in DOMAIN batchOps : x # id => batchOps'[x] = batchOps[x]
<1> DEFINE row == [batchOps[id] EXCEPT !.status = status]
<1>1. row \in RunRows /\ row.ops = batchOps[id].ops /\ row.status = status
  BY BatchFacts DEF RunRows
<1>2. batchOps' = [batchOps EXCEPT ![id] = row]
  OBVIOUS
<1> HIDE DEF row
<1>3. batchOps \in Seq(RunRows) /\ id \in 1..Len(batchOps)
  BY BatchFacts DEF BatchSound
<1>4. batchOps' \in Seq(RunRows)
  BY <1>1, <1>2, <1>3, ExceptSeq
<1>5. /\ DOMAIN batchOps' = DOMAIN batchOps
      /\ \A x \in DOMAIN batchOps : batchOps'[x] = IF x = id THEN row ELSE batchOps[x]
  BY <1>2
<1>6. \A t : Called(t)' = Called(t)
  BY <1>1, <1>5 DEF Called
<1> QED
  BY <1>1, <1>4, <1>5, <1>6

\* A run adds the calls of its list: none of them failed, so each took effect.
LEMMA ExecuteBatchKeeps ==
  ASSUME BatchSound, NEW id \in DOMAIN batchOps, ExecuteBatch(id)
  PROVE  BatchSound'
<1> DEFINE ops == batchOps[id].ops
<1>1. /\ batchOps[id].status = "Pending" /\ AllReturn(ops)
      /\ calls' = [t \in Targets |-> calls[t] + Effects(ops)[t]]
      /\ batchOps' = [batchOps EXCEPT ![id].status = "Completed"]
  BY DEF ExecuteBatch
<1>2. ops \in Lists
  BY BatchFacts DEF RunRows
<1>3. /\ batchOps' \in Seq(RunRows) /\ DOMAIN batchOps' = DOMAIN batchOps
      /\ \A t : Called(t)' = Called(t)
      /\ batchOps'[id].status = "Completed"
      /\ \A x \in DOMAIN batchOps : x # id => batchOps'[x] = batchOps[x]
  BY <1>1, StatusOfBatch
<1>4. id \notin Done /\ Done' = Done \cup {id}
  BY <1>1, <1>3 DEF Done
<1>5. ASSUME NEW t \in Targets
      PROVE  calls'[t] \in Nat /\ calls'[t] = SumFunctionOnSet(Called(t)', Done')
  <2>1. Effects(ops)[t] = Times(t, ops) /\ Times(t, ops) \in Nat
    <3>1. t \in failing => \A i \in DOMAIN ops : ops[i] # t
      BY <1>1 DEF AllReturn
    <3>2. Times(t, ops) \in Nat /\ (t \in failing => Times(t, ops) = 0)
      BY <1>2, <3>1, TimesNat
    <3>3. Effects(ops)[t] = IF t \in failing THEN 0 ELSE Times(t, ops)
      BY DEF Effects
    <3> QED
      BY <3>2, <3>3
  <2>2. Called(t)[id] = Times(t, ops) /\ \A x \in Done \cup {id} : Called(t)[x] \in Int
    <3>1. \A x \in DOMAIN batchOps : Called(t)[x] \in Nat
      BY BatchFacts
    <3>2. Done \cup {id} \subseteq DOMAIN batchOps
      BY DEF Done
    <3>3. Called(t)[id] = Times(t, ops)
      BY DEF Called
    <3> QED
      BY <3>1, <3>2, <3>3
  <2>3. SumFunctionOnSet(Called(t), Done \cup {id}) = Called(t)[id] + SumFunctionOnSet(Called(t), Done)
    BY <1>4, <2>2, BatchFacts, SumPut
  <2>4. calls[t] \in Nat /\ calls[t] = SumFunctionOnSet(Called(t), Done)
    BY DEF BatchSound
  <2>5. calls'[t] = calls[t] + Times(t, ops)
    BY <1>1, <2>1
  <2> HIDE DEF ops
  <2>6. calls'[t] = SumFunctionOnSet(Called(t), Done \cup {id}) /\ calls'[t] \in Nat
    BY <2>1, <2>2, <2>3, <2>4, <2>5
  <2> QED
    BY <1>3, <1>4, <2>6
<1>6. calls' \in [Targets -> Nat]
  BY <1>1, <1>5
<1> QED
  BY <1>3, <1>5, <1>6 DEF BatchSound

LEMMA BatchStep ==
  ASSUME BatchSound, [BatchNext]_batchVars
  PROVE  BatchSound'
<1>1. ASSUME NEW id \in DOMAIN batchOps, CancelOperations(id)
      PROVE  BatchSound'
  <2>1. batchOps[id].status = "Pending" /\ batchOps' = [batchOps EXCEPT ![id].status = "Failed"] /\ UNCHANGED calls
    BY <1>1 DEF CancelOperations
  <2>2. /\ batchOps' \in Seq(RunRows) /\ DOMAIN batchOps' = DOMAIN batchOps
        /\ \A t : Called(t)' = Called(t)
        /\ batchOps'[id].status = "Failed"
        /\ \A x \in DOMAIN batchOps : x # id => batchOps'[x] = batchOps[x]
    BY <2>1, StatusOfBatch
  <2>3. Done' = Done
    BY <2>1, <2>2 DEF Done
  <2> QED
    BY <2>1, <2>2, <2>3 DEF BatchSound
<1>2. ASSUME UNCHANGED <<batchOps, calls>>
      PROVE  BatchSound'
  BY <1>2 DEF BatchSound, Called, Done
<1> QED
  BY <1>1, <1>2, CreateOperationsKeeps, ExecuteBatchKeeps DEF BatchNext, TargetChanges, batchVars

LEMMA BatchRests ==
  ASSUME BatchStart
  PROVE  BatchSound
<1>1. batchOps = <<>> /\ calls = [t \in Targets |-> 0] /\ <<>> \in Seq(RunRows)
  BY EmptySeq DEF BatchStart
<1>2. Done = {}
  BY <1>1 DEF Done
<1> QED
  BY <1>1, <1>2, SumEmpty DEF BatchSound

LEMMA BatchBegin ==
  ASSUME BatchInit
  PROVE  BatchSound
  BY BatchRests DEF BatchInit

\* The effects on the ledger are those of the completed batches, each once, however often
\* an execution failed and whatever its targets do (execute_batch, cancel_batch).
THEOREM BatchesRunWhole == BatchSpec => []BatchAllOrNothing
<1>1. BatchSound => BatchAllOrNothing
  BY DEF BatchSound, BatchAllOrNothing, Called, Done
<1> QED
  BY <1>1, BatchBegin, BatchStep, PTL DEF BatchSpec

-----------------------------------------------------------------------------
(* Governance: delegated power and tallies add up, and a vote that is over  *)
(* stays as it is.                                                          *)

ProposalRows ==
  [start : Nat, end : Nat, for : Nat, against : Nat, quorum : Quorums, threshold : Thresholds,
   executed : BOOLEAN]
BallotRows == [voter : Accounts, id : Nat, support : BOOLEAN, power : Nat]
Delegated == [a \in Accounts |-> delegation[a].amount]
Delegators(b) == {a \in Accounts : delegation[a].to = b}
Powers == [b \in ballots |-> b.power]
Votes(id, support) == {b \in ballots : b.id = id /\ b.support = support}

GovernanceSound ==
  /\ HostTypeOK /\ governanceReady \in BOOLEAN
  /\ proposals \in Seq(ProposalRows)
  /\ ballots \in SUBSET BallotRows /\ IsFiniteSet(ballots)
  /\ delegation \in [Accounts -> [to : Accounts \cup {NoDelegate}, amount : Nat]]
  /\ delegatedPower \in [Accounts -> Nat]
  /\ \A b \in Accounts : delegatedPower[b] = SumFunctionOnSet(Delegated, Delegators(b))
  /\ \A b \in ballots : b.id \in DOMAIN proposals
  /\ \A b1, b2 \in ballots : b1.voter = b2.voter /\ b1.id = b2.id => b1 = b2
  /\ \A id \in DOMAIN proposals :
       /\ proposals[id].for = SumFunctionOnSet(Powers, Votes(id, TRUE))
       /\ proposals[id].against = SumFunctionOnSet(Powers, Votes(id, FALSE))

LEMMA GovernanceFacts ==
  ASSUME GovernanceSound
  PROVE  /\ \A a \in Accounts : balance[GovernanceToken][a] \in Nat /\ VotingPowerOf(a) \in Nat
         /\ DOMAIN proposals = 1..Len(proposals) /\ Len(proposals) \in Nat
         /\ \A id \in DOMAIN proposals : proposals[id] \in ProposalRows
         /\ \A b : Delegators(b) \subseteq Accounts /\ IsFiniteSet(Delegators(b))
         /\ \A a \in Accounts : Delegated[a] \in Nat /\ Delegated[a] = delegation[a].amount
         /\ \A id, support : IsFiniteSet(Votes(id, support))
         /\ \A b \in ballots : Powers[b] \in Nat
<1>1. \A a \in Accounts : balance[GovernanceToken][a] \in Nat
  BY GovernanceAssumption DEF GovernanceSound, HostTypeOK, Addresses
<1>2. \A a \in Accounts : VotingPowerOf(a) \in Nat
  BY <1>1 DEF VotingPowerOf, GovernanceSound
<1>3. /\ DOMAIN proposals = 1..Len(proposals) /\ Len(proposals) \in Nat
      /\ \A id \in DOMAIN proposals : proposals[id] \in ProposalRows
  BY SeqFacts DEF GovernanceSound
<1>4. \A b : Delegators(b) \subseteq Accounts /\ IsFiniteSet(Delegators(b))
  BY SorobanAssumption, FS_Subset DEF Delegators
<1>5. \A a \in Accounts : Delegated[a] \in Nat /\ Delegated[a] = delegation[a].amount
  BY DEF Delegated, GovernanceSound
<1>6. \A id, support : Votes(id, support) \in SUBSET ballots
  BY DEF Votes
<1>7. \A id, support : IsFiniteSet(Votes(id, support))
  BY <1>6, FS_Subset DEF GovernanceSound
<1>8. \A b \in ballots : Powers[b] \in Nat
  BY DEF Powers, BallotRows, GovernanceSound
<1> QED
  BY <1>1, <1>2, <1>3, <1>4, <1>5, <1>7, <1>8

\* The former delegation is in the power it is taken from: the saturation at zero never bites.
LEMMA DelegateKeeps ==
  ASSUME GovernanceSound, NEW x \in Accounts, NEW y \in Accounts, Delegate(x, y)
  PROVE  GovernanceSound'
<1> DEFINE amount == balance[GovernanceToken][x]
           prev == delegation[x]
           row == [to |-> y, amount |-> amount]
           back(b) == IF prev.to = b THEN prev.amount ELSE 0
           more(b) == IF y = b THEN amount ELSE 0
<1>1. amount \in Nat /\ prev.amount \in Nat /\ prev.to \in Accounts \cup {NoDelegate}
  BY GovernanceFacts DEF GovernanceSound
<1>2. /\ delegation' = [delegation EXCEPT ![x] = row] /\ UNCHANGED <<hostVars, governanceReady, proposals, ballots>>
      /\ delegatedPower' = [(IF prev.to = NoDelegate THEN delegatedPower
                             ELSE [delegatedPower EXCEPT ![prev.to] = AtLeastZero(@ - prev.amount)])
                            EXCEPT ![y] = AtLeastZero(@ + amount)]
  BY DEF Delegate
<1> HIDE DEF amount, prev
<1>3. row \in [to : Accounts \cup {NoDelegate}, amount : Nat] /\ row.to = y /\ row.amount = amount
  BY <1>1
<1>4. delegation' \in [Accounts -> [to : Accounts \cup {NoDelegate}, amount : Nat]]
  BY <1>2, <1>3 DEF GovernanceSound
<1>5. \A a \in Accounts : delegation'[a] = IF a = x THEN row ELSE delegation[a]
  BY <1>2 DEF GovernanceSound
<1> HIDE DEF row
<1>6. ASSUME NEW b \in Accounts
      PROVE  /\ delegatedPower[b] \in Nat /\ back(b) <= delegatedPower[b]
             /\ SumFunctionOnSet(Delegated', Delegators(b)') = delegatedPower[b] - back(b) + more(b)
  <2> DEFINE S == Delegators(b)
             T == Delegators(b)'
  <2>1. /\ IsFiniteSet(S) /\ S \subseteq Accounts /\ T \subseteq Accounts /\ IsFiniteSet(T)
    <3>1. T \subseteq Accounts
      BY DEF Delegators
    <3> QED
      BY <3>1, GovernanceFacts, SorobanAssumption, FS_Subset
  <2>2. /\ \A a \in Accounts : Delegated[a] \in Nat /\ Delegated'[a] \in Nat
        /\ \A a \in Accounts \ {x} : Delegated[a] = Delegated'[a]
        /\ Delegated[x] = prev.amount /\ Delegated'[x] = amount
    <3>1. Delegated[x] = prev.amount
      BY GovernanceFacts DEF prev
    <3>2. \A a \in Accounts : Delegated'[a] = delegation'[a].amount
      BY DEF Delegated
    <3>3. \A a \in Accounts : Delegated[a] \in Nat /\ Delegated[a] = delegation[a].amount
      BY GovernanceFacts
    <3>4. \A a \in Accounts : Delegated'[a] = IF a = x THEN amount ELSE Delegated[a]
      BY <1>3, <1>5, <3>2, <3>3
    <3> HIDE DEF Delegated
    <3> QED
      BY <1>1, <3>1, <3>3, <3>4
  <2>3. S \ {x} = T \ {x} /\ (x \in S <=> prev.to = b) /\ (x \in T <=> y = b)
    BY <1>3, <1>5 DEF Delegators, prev
  <2>4. delegatedPower[b] = SumFunctionOnSet(Delegated, S) /\ delegatedPower[b] \in Nat
    BY DEF GovernanceSound
  <2> HIDE DEF S, T
  <2>5. SumFunctionOnSet(Delegated, S) - (IF x \in S THEN Delegated[x] ELSE 0)
          = SumFunctionOnSet(Delegated', T) - (IF x \in T THEN Delegated'[x] ELSE 0)
    <3>1. PICK f, e : f = Delegated /\ e = Delegated'
      OBVIOUS
    <3>2. /\ \A a \in S : f[a] \in Int
          /\ \A a \in T : e[a] \in Int
          /\ \A a \in S \ {x} : f[a] = e[a]
      BY <2>1, <2>2, <3>1
    <3>3. SumFunctionOnSet(f, S) - (IF x \in S THEN f[x] ELSE 0)
            = SumFunctionOnSet(e, T) - (IF x \in T THEN e[x] ELSE 0)
      BY <2>1, <2>3, <3>2, SumChange
    <3> QED
      BY <3>1, <3>3
  <2>6. SumFunctionOnSet(Delegated', T) \in Nat
    <3>1. PICK e : e = Delegated'
      OBVIOUS
    <3>2. \A a \in T : e[a] \in Nat
      BY <2>1, <2>2, <3>1
    <3> QED
      BY <2>1, <3>1, <3>2, SumNat
  <2>7. back(b) <= delegatedPower[b]
    <3>1. CASE x \notin S
      BY <2>3, <2>4, <3>1
    <3>2. CASE x \in S
      <4>1. \A a \in S : Delegated[a] \in Nat
        BY <2>1, <2>2
      <4>2. \A a \in S \ {x} : Delegated[a] \in Nat
        BY <4>1
      <4>3. SumFunctionOnSet(Delegated, S) = Delegated[x] + SumFunctionOnSet(Delegated, S \ {x})
        BY <2>1, <3>2, <4>1, SumTake
      <4>4. SumFunctionOnSet(Delegated, S \ {x}) \in Nat
        BY <2>1, <4>2, SumNat, FS_RemoveElement, FS_Subset
      <4> QED
        BY <1>1, <2>2, <2>3, <2>4, <3>2, <4>3, <4>4
    <3> QED
      BY <3>1, <3>2
  <2>8. back(b) = (IF x \in S THEN Delegated[x] ELSE 0) /\ more(b) = (IF x \in T THEN Delegated'[x] ELSE 0)
    BY <2>2, <2>3
  <2>9. back(b) \in Nat /\ more(b) \in Nat
    BY <1>1
  <2> HIDE DEF back, more
  <2>10. SumFunctionOnSet(Delegated', T) = delegatedPower[b] - back(b) + more(b)
    BY <2>4, <2>5, <2>6, <2>8, <2>9
  <2> QED
    BY <2>4, <2>7, <2>10 DEF T
<1>7. \A b \in Accounts : /\ delegatedPower'[b] = delegatedPower[b] - back(b) + more(b)
                          /\ delegatedPower'[b] \in Nat
  <2> DEFINE unwound == IF prev.to = NoDelegate THEN delegatedPower
                        ELSE [delegatedPower EXCEPT ![prev.to] = AtLeastZero(@ - prev.amount)]
  <2>1. delegatedPower \in [Accounts -> Nat]
    BY DEF GovernanceSound
  <2>2. \A b \in Accounts : unwound[b] = delegatedPower[b] - back(b) /\ unwound[b] \in Nat
    <3> SUFFICES ASSUME NEW b \in Accounts
                 PROVE  unwound[b] = delegatedPower[b] - back(b) /\ unwound[b] \in Nat
      OBVIOUS
    <3>1. delegatedPower[b] \in Nat /\ back(b) <= delegatedPower[b] /\ back(b) \in Nat
      BY <1>1, <1>6
    <3>2. CASE prev.to = b
      <4>1. prev.to # NoDelegate /\ unwound[b] = AtLeastZero(delegatedPower[b] - prev.amount) /\ back(b) = prev.amount
        BY <2>1, <3>2, GovernanceAssumption
      <4> QED
        BY <3>1, <4>1 DEF AtLeastZero
    <3>3. CASE prev.to # b
      <4>1. unwound[b] = delegatedPower[b] /\ back(b) = 0
        BY <2>1, <3>3
      <4> QED
        BY <3>1, <4>1
    <3> QED
      BY <3>2, <3>3
  <2>3. DOMAIN unwound = Accounts
    BY <2>1
  <2>4. delegatedPower' = [unwound EXCEPT ![y] = AtLeastZero(@ + amount)]
    BY <1>2
  <2> HIDE DEF unwound
  <2>5. \A b \in Accounts : delegatedPower'[b] = IF b = y THEN AtLeastZero(unwound[b] + amount) ELSE unwound[b]
    BY <2>3, <2>4
  <2>6. \A b \in Accounts : /\ b = y => delegatedPower'[b] = unwound[b] + amount
                            /\ b # y => delegatedPower'[b] = unwound[b]
    BY <1>1, <2>2, <2>5 DEF AtLeastZero
  <2> HIDE DEF back
  <2> QED
    BY <1>1, <2>2, <2>6
<1>8. delegatedPower' \in [Accounts -> Nat]
  <2>1. delegatedPower' = [a \in Accounts |-> delegatedPower'[a]]
    BY <1>2 DEF GovernanceSound
  <2> QED
    BY <1>7, <2>1
<1>9. \A b \in Accounts : delegatedPower'[b] = SumFunctionOnSet(Delegated', Delegators(b)')
  BY <1>6, <1>7
<1> HIDE DEF back, more
<1> QED
  BY <1>2, <1>4, <1>8, <1>9 DEF GovernanceSound, HostTypeOK, hostVars, Powers, Votes

\* What a ballot adds to the votes for its proposal.
LEMMA NewVotes ==
  ASSUME GovernanceSound, NEW x \in Accounts, NEW id \in DOMAIN proposals, NEW support \in BOOLEAN,
         NEW power \in Nat, ~HasVoted(x, id),
         ballots' = ballots \cup {[voter |-> x, id |-> id, support |-> support, power |-> power]}
  PROVE  \A i \in DOMAIN proposals, u \in BOOLEAN :
           SumFunctionOnSet(Powers', Votes(i, u)')
             = SumFunctionOnSet(Powers, Votes(i, u)) + (IF i = id /\ u = support THEN power ELSE 0)
<1> DEFINE new == [voter |-> x, id |-> id, support |-> support, power |-> power]
<1>1. new.voter = x /\ new.id = id /\ new.support = support /\ new.power = power
  OBVIOUS
<1>2. ballots' = ballots \cup {new}
  OBVIOUS
<1> HIDE DEF new
<1>3. new \notin ballots
  BY <1>1 DEF HasVoted
<1> SUFFICES ASSUME NEW i \in DOMAIN proposals, NEW u \in BOOLEAN
             PROVE  SumFunctionOnSet(Powers', Votes(i, u)')
                      = SumFunctionOnSet(Powers, Votes(i, u)) + (IF i = id /\ u = support THEN power ELSE 0)
  OBVIOUS
<1>4. PICK f, e, S, T : f = Powers /\ e = Powers' /\ S = Votes(i, u) /\ T = Votes(i, u)'
  OBVIOUS
<1>5. IsFiniteSet(S) /\ (\A b \in S : f[b] \in Nat /\ b \in ballots)
  <2>1. S \subseteq ballots
    BY <1>4 DEF Votes
  <2>2. IsFiniteSet(Votes(i, u)) /\ \A b \in ballots : Powers[b] \in Nat
    BY GovernanceFacts
  <2> QED
    BY <1>4, <2>1, <2>2
<1>6. T = IF i = id /\ u = support THEN S \cup {new} ELSE S
  BY <1>1, <1>2, <1>4 DEF Votes
<1>7. (\A b \in ballots : f[b] = e[b]) /\ e[new] = power
  BY <1>1, <1>2, <1>4 DEF Powers
<1>8. SumFunctionOnSet(f, S) = SumFunctionOnSet(e, S) /\ SumFunctionOnSet(e, S) \in Nat
  <2>1. \A b \in S : f[b] = e[b] /\ e[b] \in Nat
    BY <1>5, <1>7
  <2> QED
    BY <1>5, <2>1, SumSame, SumNat
<1>9. SumFunctionOnSet(e, S \cup {new}) = power + SumFunctionOnSet(e, S)
  <2>1. new \notin S /\ \A b \in S \cup {new} : e[b] \in Int
    BY <1>3, <1>5, <1>7
  <2> QED
    BY <1>5, <1>7, <2>1, SumPut
<1>10. SumFunctionOnSet(e, T) = SumFunctionOnSet(f, S) + (IF i = id /\ u = support THEN power ELSE 0)
  BY <1>6, <1>8, <1>9
<1> QED
  BY <1>4, <1>10

LEMMA CastVoteKeeps ==
  ASSUME GovernanceSound, NEW x \in Accounts, NEW id \in DOMAIN proposals, NEW support \in BOOLEAN,
         CastVote(x, id, support)
  PROVE  GovernanceSound'
<1> DEFINE power == VotingPowerOf(x)
           p == proposals[id]
           row == IF support THEN [p EXCEPT !.for = @ + power] ELSE [p EXCEPT !.against = @ + power]
           new == [voter |-> x, id |-> id, support |-> support, power |-> power]
<1>1. power \in Nat /\ p \in ProposalRows
  BY GovernanceFacts
<1>2. /\ ~HasVoted(x, id)
      /\ UNCHANGED <<hostVars, governanceReady, delegation, delegatedPower>>
      /\ ballots' = ballots \cup {new}
      /\ proposals' = IF support THEN [proposals EXCEPT ![id].for = @ + power]
                                 ELSE [proposals EXCEPT ![id].against = @ + power]
  BY DEF CastVote, CountVote
<1>3. proposals' = [proposals EXCEPT ![id] = row]
  BY <1>2
<1> HIDE DEF power
<1>4. /\ row \in ProposalRows
      /\ row.for = p.for + (IF support THEN power ELSE 0)
      /\ row.against = p.against + (IF support THEN 0 ELSE power)
  <2>1. CASE support
    BY <1>1, <2>1 DEF ProposalRows
  <2>2. CASE ~support
    BY <1>1, <2>2 DEF ProposalRows
  <2> QED
    BY <2>1, <2>2
<1> HIDE DEF row
<1>5. /\ proposals' \in Seq(ProposalRows) /\ DOMAIN proposals' = DOMAIN proposals
      /\ \A i \in DOMAIN proposals : proposals'[i] = IF i = id THEN row ELSE proposals[i]
  BY <1>3, <1>4, ExceptSeq, GovernanceFacts DEF GovernanceSound
<1>6. new \in BallotRows /\ new.voter = x /\ new.id = id
  <2>1. id \in Nat
    BY GovernanceFacts
  <2> QED
    BY <1>1, <2>1 DEF BallotRows
<1>7. \A i \in DOMAIN proposals, u \in BOOLEAN :
        SumFunctionOnSet(Powers', Votes(i, u)')
          = SumFunctionOnSet(Powers, Votes(i, u)) + (IF i = id /\ u = support THEN power ELSE 0)
  BY <1>1, <1>2, NewVotes
<1> HIDE DEF new
<1>8. /\ ballots' \in SUBSET BallotRows /\ IsFiniteSet(ballots')
      /\ \A b \in ballots' : b.id \in DOMAIN proposals'
  BY <1>2, <1>5, <1>6, FS_AddElement DEF GovernanceSound
<1>9. \A b1, b2 \in ballots' : b1.voter = b2.voter /\ b1.id = b2.id => b1 = b2
  BY <1>2, <1>6 DEF GovernanceSound, HasVoted
<1>10. ASSUME NEW i \in DOMAIN proposals'
       PROVE  /\ proposals'[i].for = SumFunctionOnSet(Powers', Votes(i, TRUE)')
              /\ proposals'[i].against = SumFunctionOnSet(Powers', Votes(i, FALSE)')
  <2>1. /\ i \in DOMAIN proposals
        /\ proposals[i].for = SumFunctionOnSet(Powers, Votes(i, TRUE))
        /\ proposals[i].against = SumFunctionOnSet(Powers, Votes(i, FALSE))
        /\ proposals[i].for \in Nat /\ proposals[i].against \in Nat
    BY <1>5, GovernanceFacts DEF GovernanceSound, ProposalRows
  <2>2. /\ proposals'[i].for = proposals[i].for + (IF i = id /\ support THEN power ELSE 0)
        /\ proposals'[i].against = proposals[i].against + (IF i = id /\ ~support THEN power ELSE 0)
    <3>1. CASE i = id
      <4>1. proposals'[i] = row /\ proposals[i] = p
        BY <1>5, <2>1, <3>1
      <4>2. CASE support
        BY <1>4, <3>1, <4>1, <4>2
      <4>3. CASE ~support
        BY <1>4, <3>1, <4>1, <4>3
      <4> QED
        BY <4>2, <4>3
    <3>2. CASE i # id
      <4>1. proposals'[i] = proposals[i]
        BY <1>5, <2>1, <3>2
      <4>2. proposals[i].for + 0 = proposals[i].for /\ proposals[i].against + 0 = proposals[i].against
        <5>1. \A n \in Nat : n + 0 = n
          OBVIOUS
        <5> QED
          BY <2>1, <5>1, Zenon
      <4> QED
        BY <3>2, <4>1, <4>2, Zenon
    <3> QED
      BY <3>1, <3>2
  <2>3. /\ SumFunctionOnSet(Powers', Votes(i, TRUE)')
             = SumFunctionOnSet(Powers, Votes(i, TRUE)) + (IF i = id /\ support THEN power ELSE 0)
        /\ SumFunctionOnSet(Powers', Votes(i, FALSE)')
             = SumFunctionOnSet(Powers, Votes(i, FALSE)) + (IF i = id /\ ~support THEN power ELSE 0)
    BY <1>7, <2>1
  <2> QED
    BY <2>1, <2>2, <2>3
<1>11. /\ HostTypeOK' /\ governanceReady' \in BOOLEAN
       /\ delegation' \in [Accounts -> [to : Accounts \cup {NoDelegate}, amount : Nat]]
       /\ delegatedPower' \in [Accounts -> Nat]
       /\ \A b \in Accounts : delegatedPower'[b] = SumFunctionOnSet(Delegated', Delegators(b)')
  BY <1>2 DEF GovernanceSound, HostTypeOK, hostVars, Delegated, Delegators
<1> HIDE DEF p
<1> QED
  BY <1>5, <1>8, <1>9, <1>10, <1>11 DEF GovernanceSound

\* A new proposal has no ballots: those stored are for proposals there are.
LEMMA CreateProposalKeeps ==
  ASSUME GovernanceSound, NEW x \in Accounts, NEW w \in VotingWindows, NEW q \in Quorums,
         NEW t \in Thresholds, CreateProposal(x, w, q, t)
  PROVE  GovernanceSound'
<1> DEFINE row == [start |-> w.start, end |-> w.end, for |-> 0, against |-> 0,
                   quorum |-> q, threshold |-> t, executed |-> FALSE]
           last == Len(proposals) + 1
<1>1. row \in ProposalRows /\ row.for = 0 /\ row.against = 0
  BY GovernanceAssumption DEF ProposalRows
<1>2. /\ UNCHANGED <<hostVars, governanceReady, ballots, delegation, delegatedPower>>
      /\ proposals' = Append(proposals, row)
  BY DEF CreateProposal
<1> HIDE DEF row
<1>3. proposals \in Seq(ProposalRows) /\ DOMAIN proposals = 1..Len(proposals) /\ Len(proposals) \in Nat
  BY GovernanceFacts DEF GovernanceSound
<1>4. /\ proposals' \in Seq(ProposalRows) /\ Len(proposals') = last /\ proposals'[last] = row
      /\ \A i \in DOMAIN proposals : proposals'[i] = proposals[i]
  BY <1>1, <1>2, <1>3, AppendProperties
<1>5. DOMAIN proposals' = DOMAIN proposals \cup {last} /\ last \notin DOMAIN proposals
  BY <1>3, <1>4, LenProperties
<1>6. Powers' = Powers /\ \A i, u : Votes(i, u)' = Votes(i, u)
  BY <1>2 DEF Powers, Votes
<1>7. \A u : Votes(last, u) = {}
  BY <1>5 DEF Votes, GovernanceSound
<1>8. ASSUME NEW i \in DOMAIN proposals'
      PROVE  /\ proposals'[i].for = SumFunctionOnSet(Powers', Votes(i, TRUE)')
             /\ proposals'[i].against = SumFunctionOnSet(Powers', Votes(i, FALSE)')
  <2>1. CASE i \in DOMAIN proposals
    BY <1>4, <1>6, <2>1 DEF GovernanceSound
  <2>2. CASE i = last
    BY <1>1, <1>4, <1>6, <1>7, <2>2, SumEmpty
  <2> QED
    BY <1>5, <2>1, <2>2
<1>9. /\ HostTypeOK' /\ governanceReady' \in BOOLEAN
      /\ delegation' \in [Accounts -> [to : Accounts \cup {NoDelegate}, amount : Nat]]
      /\ delegatedPower' \in [Accounts -> Nat]
      /\ \A b \in Accounts : delegatedPower'[b] = SumFunctionOnSet(Delegated', Delegators(b)')
  BY <1>2 DEF GovernanceSound, HostTypeOK, hostVars, Delegated, Delegators
<1>10. /\ ballots' \in SUBSET BallotRows /\ IsFiniteSet(ballots')
       /\ \A b \in ballots' : b.id \in DOMAIN proposals'
       /\ \A b1, b2 \in ballots' : b1.voter = b2.voter /\ b1.id = b2.id => b1 = b2
  BY <1>2, <1>5 DEF GovernanceSound
<1> QED
  BY <1>4, <1>8, <1>9, <1>10 DEF GovernanceSound

LEMMA ExecuteProposalKeeps ==
  ASSUME GovernanceSound, NEW id \in DOMAIN proposals, ExecuteProposal(id)
  PROVE  GovernanceSound'
<1> DEFINE row == [proposals[id] EXCEPT !.executed = TRUE]
<1>1. row \in ProposalRows /\ row.for = proposals[id].for /\ row.against = proposals[id].against
  BY GovernanceFacts DEF ProposalRows
<1>2. /\ UNCHANGED <<hostVars, governanceReady, ballots, delegation, delegatedPower>>
      /\ proposals' = [proposals EXCEPT ![id] = row]
  BY DEF ExecuteProposal
<1> HIDE DEF row
<1>3. /\ proposals' \in Seq(ProposalRows) /\ DOMAIN proposals' = DOMAIN proposals
      /\ \A i \in DOMAIN proposals : proposals'[i] = IF i = id THEN row ELSE proposals[i]
  BY <1>1, <1>2, ExceptSeq, GovernanceFacts DEF GovernanceSound
<1>4. Powers' = Powers /\ \A i, u : Votes(i, u)' = Votes(i, u)
  BY <1>2 DEF Powers, Votes
<1>5. ASSUME NEW i \in DOMAIN proposals'
      PROVE  /\ proposals'[i].for = SumFunctionOnSet(Powers', Votes(i, TRUE)')
             /\ proposals'[i].against = SumFunctionOnSet(Powers', Votes(i, FALSE)')
  <2>1. proposals'[i].for = proposals[i].for /\ proposals'[i].against = proposals[i].against
    BY <1>1, <1>3
  <2> QED
    BY <1>3, <1>4, <2>1 DEF GovernanceSound
<1>6. /\ HostTypeOK' /\ governanceReady' \in BOOLEAN
      /\ delegation' \in [Accounts -> [to : Accounts \cup {NoDelegate}, amount : Nat]]
      /\ delegatedPower' \in [Accounts -> Nat]
      /\ \A b \in Accounts : delegatedPower'[b] = SumFunctionOnSet(Delegated', Delegators(b)')
  BY <1>2 DEF GovernanceSound, HostTypeOK, hostVars, Delegated, Delegators
<1>7. /\ ballots' \in SUBSET BallotRows /\ IsFiniteSet(ballots')
      /\ \A b \in ballots' : b.id \in DOMAIN proposals'
      /\ \A b1, b2 \in ballots' : b1.voter = b2.voter /\ b1.id = b2.id => b1 = b2
  BY <1>2, <1>3 DEF GovernanceSound
<1> QED
  BY <1>3, <1>5, <1>6, <1>7 DEF GovernanceSound

LEMMA GovernanceStep ==
  ASSUME GovernanceSound, [GovernanceNext]_governanceVars
  PROVE  GovernanceSound'
<1>1. ASSUME HostTypeOK', UNCHANGED <<governanceReady, proposals, ballots, delegation, delegatedPower>>
      PROVE  GovernanceSound'
  BY <1>1 DEF GovernanceSound, Delegated, Delegators, Powers, Votes
<1>2. CASE UNCHANGED governanceVars
  BY <1>1, <1>2 DEF GovernanceSound, HostTypeOK, governanceVars, hostVars
<1>3. CASE Tick /\ UNCHANGED <<governanceReady, proposals, ballots, delegation, delegatedPower>>
  BY <1>1, <1>3, TickTyped DEF GovernanceSound
<1>4. CASE InitializeGovernance
  BY <1>4 DEF InitializeGovernance, GovernanceSound, HostTypeOK, hostVars, Delegated, Delegators, Powers, Votes
<1>5. ASSUME NEW a \in Accounts, NEW b \in Accounts, NEW n \in TradeAmounts, TradeToken(a, b, n)
      PROVE  GovernanceSound'
  <2>1. HostTypeOK'
    <3>1. HostTypeOK /\ n \in Int /\ GovernanceToken \in Assets
      BY GovernanceAssumption DEF GovernanceSound
    <3>2. Transfer(GovernanceToken, a, b, n) /\ UNCHANGED now
      BY <1>5 DEF TradeToken
    <3>3. balance' \in [Assets -> [Addresses -> Nat]]
      BY <3>1, <3>2, TransferTyped
    <3> QED
      BY <3>1, <3>2, <3>3 DEF HostTypeOK
  <2> QED
    BY <1>1, <1>5, <2>1 DEF TradeToken
<1> QED
  BY <1>2, <1>3, <1>4, <1>5, CreateProposalKeeps, DelegateKeeps, ExecuteProposalKeeps, CastVoteKeeps
  DEF GovernanceNext

LEMMA GovernanceRests ==
  ASSUME HostTypeOK, GovernanceStart
  PROVE  GovernanceSound
<1>1. /\ HostTypeOK /\ governanceReady = FALSE /\ proposals = <<>> /\ ballots = {}
      /\ delegation = [a \in Accounts |-> [to |-> NoDelegate, amount |-> 0]]
      /\ delegatedPower = [a \in Accounts |-> 0]
  BY DEF GovernanceStart
<1>2. \A b \in Accounts : Delegators(b) = {}
  BY <1>1, GovernanceAssumption DEF Delegators
<1>3. \A b \in Accounts : delegatedPower[b] = SumFunctionOnSet(Delegated, Delegators(b))
  BY <1>1, <1>2, SumEmpty
<1>4. <<>> \in Seq(ProposalRows) /\ DOMAIN <<>> = {}
  BY EmptySeq
<1> QED
  BY <1>1, <1>3, <1>4, FS_EmptySet DEF GovernanceSound

LEMMA GovernanceBegin ==
  ASSUME GovernanceInit
  PROVE  GovernanceSound
  BY HostStart, GovernanceRests DEF GovernanceInit

\* The power a delegatee has from others is what those who delegate to it now delegated:
\* the amount a delegation is taken back with is the one it was made with (delegate).
THEOREM DelegationsHold == GovernanceSpec => [](GovernanceTypeOK /\ DelegationsAddUp)
<1>1. GovernanceSound => GovernanceTypeOK /\ DelegationsAddUp
  BY DEF GovernanceSound, GovernanceTypeOK, DelegationsAddUp, Delegated, Delegators
<1> QED
  BY <1>1, GovernanceBegin, GovernanceStep, PTL DEF GovernanceSpec

\* Every tally is the sum of the ballots stored for the proposal, one for each voter
\* (cast_vote).
THEOREM TalliesHold == GovernanceSpec => []TalliesAreBallots
<1>1. GovernanceSound => TalliesAreBallots
  BY DEF GovernanceSound, TalliesAreBallots, Powers, Votes
<1> QED
  BY <1>1, GovernanceBegin, GovernanceStep, PTL DEF GovernanceSpec

\* What a step says of the proposals that have ended.
VotesFinal ==
  \A id \in DOMAIN proposals :
    now >= proposals[id].end =>
      /\ HasPassed(proposals'[id]) <=> HasPassed(proposals[id])
      /\ proposals[id].executed => proposals'[id] = proposals[id]

LEMMA VotesStay ==
  ASSUME GovernanceSound, [GovernanceNext]_governanceVars
  PROVE  VotesFinal
<1>1. ASSUME GovernanceSound, [GovernanceNext]_governanceVars, NEW id \in DOMAIN proposals,
             now >= proposals[id].end
      PROVE  /\ HasPassed(proposals'[id]) <=> HasPassed(proposals[id])
             /\ proposals[id].executed => proposals'[id] = proposals[id]
  <2>1. CASE UNCHANGED proposals
    BY <2>1
  <2>2. ASSUME NEW x \in Accounts, NEW w \in VotingWindows, NEW q \in Quorums, NEW t \in Thresholds,
               CreateProposal(x, w, q, t)
        PROVE  proposals'[id] = proposals[id]
    BY <1>1, <2>2, AppendProperties, GovernanceFacts DEF CreateProposal
  <2>3. ASSUME NEW i \in DOMAIN proposals, NEW x \in Accounts, NEW support \in BOOLEAN,
               CastVote(x, i, support)
        PROVE  proposals'[id] = proposals[id]
    <3>1. now < proposals[i].end /\ \A j \in DOMAIN proposals : j # i => proposals'[j] = proposals[j]
      <4>1. now < proposals[i].end /\ CountVote(x, i, support)
        BY <2>3 DEF CastVote
      <4>2. CASE support
        BY <4>1, <4>2 DEF CountVote
      <4>3. CASE ~support
        BY <4>1, <4>3 DEF CountVote
      <4> QED
        BY <4>1, <4>2, <4>3
    <3>2. now \in Nat /\ proposals[i].end \in Nat /\ proposals[id].end \in Nat
      <4>1. now \in Nat
        BY <1>1, SorobanAssumption DEF GovernanceSound, HostTypeOK
      <4>2. proposals[i] \in ProposalRows /\ proposals[id] \in ProposalRows
        BY <1>1, GovernanceFacts
      <4> QED
        BY <4>1, <4>2 DEF ProposalRows
    <3>3. i # id
      BY <1>1, <3>1, <3>2
    <3> QED
      BY <3>1, <3>3
  <2>4. ASSUME NEW i \in DOMAIN proposals, ExecuteProposal(i)
        PROVE  /\ HasPassed(proposals'[id]) <=> HasPassed(proposals[id])
               /\ proposals[id].executed => proposals'[id] = proposals[id]
    <3>1. ~proposals[i].executed /\ proposals' = [proposals EXCEPT ![i].executed = TRUE]
      BY <2>4 DEF ExecuteProposal
    <3>2. CASE i # id
      BY <3>1, <3>2
    <3>3. CASE i = id
      <4>1. /\ proposals'[id].for = proposals[id].for /\ proposals'[id].against = proposals[id].against
            /\ proposals'[id].quorum = proposals[id].quorum
            /\ proposals'[id].threshold = proposals[id].threshold
        BY <1>1, <3>1, <3>3, GovernanceFacts DEF ProposalRows
      <4> QED
        BY <3>1, <3>3, <4>1 DEF HasPassed
    <3> QED
      BY <3>2, <3>3
  <2>5. ASSUME NEW a \in Accounts, NEW b \in Accounts,
               Delegate(a, b) \/ (\E n \in TradeAmounts : TradeToken(a, b, n))
        PROVE  UNCHANGED proposals
    BY <2>5 DEF Delegate, TradeToken
  <2> QED
    BY <1>1, <2>1, <2>2, <2>3, <2>4, <2>5 DEF GovernanceNext, governanceVars, InitializeGovernance
<1> QED
  BY <1>1 DEF VotesFinal

\* Once a proposal has ended nothing changes whether it has passed, and an executed one
\* keeps its row (cast_vote, execute_proposal).
THEOREM VotesAreOver == GovernanceSpec => OutcomeIsFinal
<1>1. GovernanceSound /\ [GovernanceNext]_governanceVars
        => [\A id \in DOMAIN proposals :
              now >= proposals[id].end =>
                /\ HasPassed(proposals'[id]) <=> HasPassed(proposals[id])
                /\ proposals[id].executed => proposals'[id] = proposals[id]]_governanceVars
  BY VotesStay DEF VotesFinal
<1> QED
  BY <1>1, GovernanceBegin, GovernanceStep, PTL DEF GovernanceSpec, OutcomeIsFinal
===============================================================================
