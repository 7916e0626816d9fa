-------------------------- MODULE TreasuryContract --------------------------
(***************************************************************************)
(* The treasury contract (contracts/treasury/src/lib.rs under              *)
(* src/apps/contracts): anybody deposits, anybody asks for a withdrawal of *)
(* an asset whose time lock is enabled, and anybody executes it once its   *)
(* own lock has elapsed; emergency approvers may execute it earlier.       *)
(***************************************************************************)
EXTENDS Soroban, Sequences

CONSTANTS
  TreasuryAt,       \* the address of the contract
  TreasuryAssets,    \* assets it is used with
  TreasuryAmounts,   \* amounts deposited and asked for
  LockPeriods,       \* lock_period_seconds the admin sets
  TreasuryAdmin,
  MaxWithdrawals,    \* bound: requests made
  MaxNamed           \* bound: approvers named for one override

ASSUME TreasuryAssumption ==
  /\ TreasuryAt \in Contracts
  /\ TreasuryAssets \subseteq Assets
  /\ TreasuryAmounts \subseteq Int
  /\ LockPeriods \subseteq Nat

VARIABLES
  treasuryReady,     \* initialize was called
  timelocks,         \* TimeLockConfig of an asset: [set, period, enabled]
  emergency,         \* [set, approvers, needed]: EmergencyApprovers, EmergencyThreshold
  withdrawals        \* withdrawals[request_id]

treasuryVars == <<hostVars, treasuryReady, timelocks, emergency, withdrawals>>

Waiting(id) == ~withdrawals[id].executed /\ ~withdrawals[id].cancelled

InitializeTreasury ==
  /\ ~treasuryReady
  /\ treasuryReady' = TRUE
  /\ UNCHANGED <<hostVars, timelocks, emergency, withdrawals>>

\* Every call asks for treasuryReady; one on a request has it by its request.

SetTimelock(caller, asset, period) ==
  /\ treasuryReady /\ caller = TreasuryAdmin
  /\ timelocks' = [timelocks EXCEPT ![asset] = [set |-> TRUE, period |-> period, enabled |-> TRUE]]
  /\ UNCHANGED <<hostVars, treasuryReady, emergency, withdrawals>>

DisableTimelock(caller, asset) ==
  /\ treasuryReady /\ caller = TreasuryAdmin
  /\ timelocks[asset].set
  /\ timelocks' = [timelocks EXCEPT ![asset].enabled = FALSE]
  /\ UNCHANGED <<hostVars, treasuryReady, emergency, withdrawals>>

\* Nothing relates the threshold to the number of approvers.
SetEmergencyApprovers(caller, approvers, needed) ==
  /\ treasuryReady /\ caller = TreasuryAdmin
  /\ emergency' = [set |-> TRUE, approvers |-> approvers, needed |-> needed]
  /\ UNCHANGED <<hostVars, treasuryReady, timelocks, withdrawals>>

Deposit(depositor, asset, amount) ==
  /\ treasuryReady
  /\ amount > 0
  /\ Transfer(asset, depositor, TreasuryAt, amount)
  /\ UNCHANGED <<now, treasuryReady, timelocks, emergency, withdrawals>>

\* Whoever asks authorises the call, and a cancellation of the request later.
RequestWithdrawal(to, asset, amount) ==
  /\ treasuryReady
  /\ Len(withdrawals) < MaxWithdrawals
  /\ amount > 0
  /\ timelocks[asset].set /\ timelocks[asset].enabled
  /\ withdrawals' = Append(withdrawals,
       [to |-> to, asset |-> asset, amount |-> amount,
        unlockAt |-> now + timelocks[asset].period, executed |-> FALSE, cancelled |-> FALSE])
  /\ UNCHANGED <<hostVars, treasuryReady, timelocks, emergency>>

PayWithdrawal(id) ==
  /\ Waiting(id)
  /\ Transfer(withdrawals[id].asset, TreasuryAt, withdrawals[id].to, withdrawals[id].amount)
  /\ withdrawals' = [withdrawals EXCEPT ![id].executed = TRUE]
  /\ UNCHANGED <<now, treasuryReady, timelocks, emergency>>

ExecuteWithdrawal(id) ==
  /\ now >= withdrawals[id].unlockAt
  /\ PayWithdrawal(id)

CancelWithdrawal(id) ==
  /\ Waiting(id)
  /\ withdrawals' = [withdrawals EXCEPT ![id].cancelled = TRUE]
  /\ UNCHANGED <<hostVars, treasuryReady, timelocks, emergency>>

\* It is the list that is counted: an approver who is named twice counts twice.
EmergencyOverride(id, named) ==
  /\ emergency.set
  /\ Len(named) >= emergency.needed
  /\ \A i \in DOMAIN named : named[i] \in emergency.approvers
  /\ PayWithdrawal(id)

TreasuryStart ==
  /\ treasuryReady = FALSE
  /\ timelocks = [t \in Assets |-> [set |-> FALSE, period |-> 0, enabled |-> FALSE]]
  /\ emergency = [set |-> FALSE, approvers |-> {}, needed |-> 0]
  /\ withdrawals = <<>>

TreasuryInit == HostInit /\ TreasuryStart

TreasuryNext ==
  \/ Tick /\ UNCHANGED <<treasuryReady, timelocks, emergency, withdrawals>>
  \/ InitializeTreasury
  \/ \E a \in Accounts, asset \in TreasuryAssets :
       \/ DisableTimelock(a, asset)
       \/ \E period \in LockPeriods : SetTimelock(a, asset, period)
       \/ \E amount \in TreasuryAmounts :
            Deposit(a, asset, amount) \/ RequestWithdrawal(a, asset, amount)
  \/ \E a \in Accounts, approvers \in SUBSET Accounts :
       \E needed \in 0..Cardinality(Accounts) : SetEmergencyApprovers(a, approvers, needed)
  \/ \E id \in DOMAIN withdrawals :
       \/ ExecuteWithdrawal(id) \/ CancelWithdrawal(id)
       \/ \E n \in 0..MaxNamed : \E named \in [1..n -> Accounts] : EmergencyOverride(id, named)

TreasurySpec == TreasuryInit /\ [][TreasuryNext]_treasuryVars

-----------------------------------------------------------------------------
(* Properties. *)

TreasuryTypeOK ==
  /\ HostTypeOK
  /\ treasuryReady \in BOOLEAN
  /\ emergency.approvers \subseteq Accounts
  /\ \A id \in DOMAIN withdrawals : withdrawals[id].amount \in Nat \ {0}

\* Money leaves the treasury only for one request that waited, once, to whom
\* it names; cancelled and executed requests stay as they are.
WithdrawalPaidOnce ==
  [][\A t \in Assets : balance'[t][TreasuryAt] < balance[t][TreasuryAt] =>
       \E id \in DOMAIN withdrawals :
         /\ Waiting(id) /\ withdrawals'[id].executed
         /\ withdrawals[id].asset = t
         /\ balance'[t] = Moved(balance[t], TreasuryAt, withdrawals[id].to, withdrawals[id].amount)
    ]_treasuryVars

\* Somebody among the emergency approvers has to agree, unless none is asked for.
Overridable == emergency.set /\ (emergency.needed = 0 \/ emergency.approvers # {})

\* A request is never paid before the lock it was made under has elapsed,
\* whatever the admin does to the lock afterwards, but by emergency approvers of
\* the moment; how many of them are distinct, the contract does not look at.
LockHonoured ==
  [][\A id \in DOMAIN withdrawals :
       ~withdrawals[id].executed /\ withdrawals'[id].executed /\ now < withdrawals[id].unlockAt
         => Overridable]_treasuryVars
=============================================================================
