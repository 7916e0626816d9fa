------------------------------- MODULE Escrow -------------------------------
(***************************************************************************)
(* The escrow contract (src/apps/contracts/contracts/escrow/src/lib.rs):   *)
(* a buyer's payment is held until it is released to the seller, refunded, *)
(* or awarded by an arbitrator; after a timeout anyone may release it.     *)
(***************************************************************************)
EXTENDS Soroban, Sequences, FiniteSetsExt

CONSTANTS
  EscrowAt,         \* the address of the contract
  EscrowAmounts,   \* amounts buyers ask for
  EscrowTimeouts,  \* timeout_seconds they choose
  MaxEscrows       \* bound: escrows created

ASSUME EscrowAssumption ==
  EscrowAt \in Contracts /\ EscrowAmounts \subseteq Int /\ EscrowTimeouts \subseteq Nat

VARIABLE escrows   \* escrows[id]; NextEscrowId is one more than its length.  In a record
                   \* settledBy is history: who authorised the call that paid it out

escrowVars == <<hostVars, escrows>>

EscrowStatuses ==
  {"Created", "Funded", "Completed", "Refunded", "Disputed", "Cancelled"}
EscrowHolding == {"Funded", "Disputed"}

Open(id, status) == id \in DOMAIN escrows /\ escrows[id].status = status
SetEscrow(id, status) == escrows' = [escrows EXCEPT ![id].status = status]
\* The money goes to the winner; `by' are the addresses whose authorisation was asked.
PayFromEscrow(id, winner, status, by) ==
  /\ Transfer(escrows[id].asset, EscrowAt, winner, escrows[id].amount)
  /\ escrows' = [escrows EXCEPT ![id].status = status, ![id].settledBy = by]
  /\ UNCHANGED now

CreateEscrow(buyer, seller, arbitrator, asset, amount, timeout) ==
  /\ Len(escrows) < MaxEscrows
  /\ amount > 0
  /\ buyer # seller /\ buyer # arbitrator /\ seller # arbitrator
  /\ escrows' = Append(escrows,
       [buyer |-> buyer, seller |-> seller, arbitrator |-> arbitrator, asset |-> asset,
        amount |-> amount, timeoutAt |-> now + timeout, status |-> "Created",
        settledBy |-> {}])
  /\ UNCHANGED hostVars

FundEscrow(id) ==
  /\ Open(id, "Created")
  /\ now < escrows[id].timeoutAt
  /\ Transfer(escrows[id].asset, escrows[id].buyer, EscrowAt, escrows[id].amount)
  /\ SetEscrow(id, "Funded")
  /\ UNCHANGED now

\* Mutant: a disputed escrow is released too.
ReleaseDisputed(id, releaser) ==
  /\ Open(id, "Funded") \/ Open(id, "Disputed")
  /\ now < escrows[id].timeoutAt => releaser \in {escrows[id].buyer, escrows[id].arbitrator}
  /\ PayFromEscrow(id, escrows[id].seller, "Completed",
                   IF now < escrows[id].timeoutAt THEN {releaser} ELSE {})

\* From the timeout on nobody is asked to authorise a release.
ReleaseFunds(id, releaser) ==
  /\ Open(id, "Funded")
  /\ now < escrows[id].timeoutAt => releaser \in {escrows[id].buyer, escrows[id].arbitrator}
  /\ PayFromEscrow(id, escrows[id].seller, "Completed",
                   IF now < escrows[id].timeoutAt THEN {releaser} ELSE {})

RefundBuyer(id) ==
  /\ Open(id, "Funded") \/ Open(id, "Disputed")
  /\ PayFromEscrow(id, escrows[id].buyer, "Refunded", {escrows[id].arbitrator})

StartDispute(id) ==
  /\ Open(id, "Funded")
  /\ now < escrows[id].timeoutAt
  /\ SetEscrow(id, "Disputed")
  /\ UNCHANGED hostVars

ResolveDispute(id, winner) ==
  /\ Open(id, "Disputed")
  /\ winner \in {escrows[id].buyer, escrows[id].seller}
  /\ PayFromEscrow(id, winner, IF winner = escrows[id].seller THEN "Completed" ELSE "Refunded",
                   {escrows[id].arbitrator})

\* Mutant: what was funded can still be cancelled.
CancelFunded(id) ==
  /\ Open(id, "Created") \/ Open(id, "Funded")
  /\ SetEscrow(id, "Cancelled")
  /\ UNCHANGED hostVars

CancelEscrow(id) ==
  /\ Open(id, "Created")
  /\ SetEscrow(id, "Cancelled")
  /\ UNCHANGED hostVars

EscrowStart == escrows = <<>>
EscrowInit == HostInit /\ EscrowStart

EscrowNext ==
  \/ Tick /\ UNCHANGED escrows
  \/ \E buyer, seller, arbitrator \in Accounts, asset \in Assets,
        amount \in EscrowAmounts, timeout \in EscrowTimeouts :
       CreateEscrow(buyer, seller, arbitrator, asset, amount, timeout)
  \/ \E id \in DOMAIN escrows :
       \/ FundEscrow(id) \/ RefundBuyer(id) \/ StartDispute(id) \/ CancelEscrow(id)
       \/ \E caller \in Accounts : ReleaseFunds(id, caller) \/ ResolveDispute(id, caller)

EscrowSpec == EscrowInit /\ [][EscrowNext]_escrowVars

-----------------------------------------------------------------------------
(* Properties. *)

EscrowTypeOK ==
  /\ HostTypeOK
  /\ \A id \in DOMAIN escrows :
       /\ escrows[id].status \in EscrowStatuses
       /\ {escrows[id].buyer, escrows[id].seller, escrows[id].arbitrator} \subseteq Accounts
       /\ escrows[id].amount \in Nat \ {0}

\* What the contract holds of an asset is what its open escrows owe, through
\* releases, refunds, disputes and cancellations that compete for it.
EscrowCovered ==
  \A t \in Assets :
    balance[t][EscrowAt] =
      SumFunctionOnSet([id \in DOMAIN escrows |-> escrows[id].amount],
        {id \in DOMAIN escrows : escrows[id].asset = t /\ escrows[id].status \in EscrowHolding})

\* A dispute is decided by the arbitrator alone: until then the timeout, which
\* lets anybody release a funded escrow, releases nothing.  Before the timeout
\* no money leaves without a signature, and it goes to whom the status names.
DisputeHeld ==
  [][\A id \in DOMAIN escrows :
       escrows[id].status \in EscrowHolding /\ escrows'[id].status \notin EscrowHolding =>
         LET e == escrows[id]
             paid == IF escrows'[id].status = "Completed" THEN e.seller ELSE e.buyer IN
         /\ escrows'[id].status \in {"Completed", "Refunded"}
         /\ balance' = [balance EXCEPT ![e.asset] = Moved(@, EscrowAt, paid, e.amount)]
         /\ e.status = "Disputed" => escrows'[id].settledBy = {e.arbitrator}
         /\ now < e.timeoutAt => escrows'[id].settledBy \cap {e.buyer, e.arbitrator} # {}
    ]_escrowVars
=============================================================================
