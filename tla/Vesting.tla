------------------------------ MODULE Vesting ------------------------------
(***************************************************************************)
(* The vesting contract (contracts/vesting/src/lib.rs under                *)
(* src/apps/contracts): an issuer escrows an amount that a beneficiary may *)
(* claim as it vests; the issuer may take back what has not vested.        *)
(***************************************************************************)
EXTENDS Soroban, Sequences, FiniteSetsExt

CONSTANTS
  VestingAt,        \* the address of the contract
  VestingAssets,     \* assets it is used with
  VestingAmounts,    \* amounts issuers escrow
  VestingTerms,      \* terms they ask for: [start, cliff, end, type, milestones]
  VestingAdmin,      \* the address that initialize is called with
  MaxSchedules       \* bound: schedules created

ASSUME VestingAssumption ==
  /\ VestingAt \in Contracts /\ VestingAssets \subseteq Assets /\ VestingAmounts \subseteq Int
  /\ VestingTerms \subseteq
       [start : Nat, cliff : Nat, end : Nat, type : {"Immediate", "Linear", "Milestone"},
        milestones : Seq([timestamp : Nat, percentage : Nat])]

VARIABLES
  vestingPaused,     \* Paused; "none" before initialize
  schedules          \* schedules[vesting_id]

vestingVars == <<hostVars, vestingPaused, schedules>>

Linear(s, t) ==
  IF t < s.cliff THEN 0
  ELSE IF t >= s.end THEN s.total
  ELSE (s.total * (t - s.start)) \div (s.end - s.start)

PercentPassed(milestones, t) ==
  SumFunctionOnSet([i \in DOMAIN milestones |-> milestones[i].percentage],
                   {i \in DOMAIN milestones : milestones[i].timestamp <= t})

\* Mutant: every milestone is rounded on its own.
EachMilestone(s, t) ==
  IF t < s.cliff THEN 0
  ELSE SumFunctionOnSet([i \in DOMAIN s.milestones |-> (s.total * s.milestones[i].percentage) \div 100],
                        {i \in DOMAIN s.milestones : s.milestones[i].timestamp <= t})

\* One division for all milestones, so that their roundings do not add up.
ByMilestones(s, t) ==
  IF t < s.cliff THEN 0 ELSE (s.total * PercentPassed(s.milestones, t)) \div 100

\* What has vested of a schedule; what had, when it was revoked.
Vested(s, t) ==
  IF s.revoked THEN s.total
  ELSE CASE s.type = "Immediate" -> (IF t < s.start THEN 0 ELSE s.total)
         [] s.type = "Linear" -> Linear(s, t)
         [] s.type = "Milestone" -> ByMilestones(s, t)

ValidTerms(terms) ==
  /\ terms.start <= terms.cliff /\ terms.cliff < terms.end
  /\ terms.type = "Milestone" =>
       /\ terms.milestones # <<>>
       /\ \A i \in DOMAIN terms.milestones :
            terms.milestones[i].timestamp \in (terms.start + 1)..terms.end
       /\ PercentPassed(terms.milestones, terms.end) = 100

InitializeVesting ==
  /\ vestingPaused = "none"
  /\ vestingPaused' = "no"
  /\ UNCHANGED <<hostVars, schedules>>

PauseVesting(caller) ==
  /\ vestingPaused # "none" /\ caller = VestingAdmin
  /\ vestingPaused' = "yes"
  /\ UNCHANGED <<hostVars, schedules>>

UnpauseVesting(caller) ==
  /\ vestingPaused # "none" /\ caller = VestingAdmin
  /\ vestingPaused' = "no"
  /\ UNCHANGED <<hostVars, schedules>>

CreateVesting(creator, beneficiary, asset, amount, terms) ==
  /\ vestingPaused = "no"
  /\ Len(schedules) < MaxSchedules
  /\ amount > 0
  /\ ValidTerms(terms)
  /\ Transfer(asset, creator, VestingAt, amount)
  /\ schedules' = Append(schedules,
       [issuer |-> creator, beneficiary |-> beneficiary, asset |-> asset,
        total |-> amount, claimed |-> 0, start |-> terms.start, cliff |-> terms.cliff,
        end |-> terms.end, type |-> terms.type, milestones |-> terms.milestones,
        revoked |-> FALSE])
  /\ UNCHANGED <<now, vestingPaused>>

ClaimVested(id) ==
  LET s == schedules[id]
      claimable == Vested(s, now) - s.claimed IN
  /\ vestingPaused = "no"
  /\ claimable > 0
  /\ Transfer(s.asset, VestingAt, s.beneficiary, claimable)
  /\ schedules' = [schedules EXCEPT ![id].claimed = @ + claimable]
  /\ UNCHANGED <<now, vestingPaused>>

\* Mutant: the total is not frozen.
RevokeKeepsTotal(id) ==
  LET s == schedules[id]
      unvested == s.total - Vested(s, now) IN
  /\ vestingPaused = "no"
  /\ ~s.revoked
  /\ Transfer(s.asset, VestingAt, s.issuer, unvested)
  /\ schedules' = [schedules EXCEPT ![id].revoked = TRUE]
  /\ UNCHANGED <<now, vestingPaused>>

RevokeVesting(id) ==
  LET s == schedules[id]
      unvested == s.total - Vested(s, now) IN
  /\ vestingPaused = "no"
  /\ ~s.revoked
  /\ IF unvested > 0 THEN Transfer(s.asset, VestingAt, s.issuer, unvested)
     ELSE UNCHANGED balance
  /\ schedules' = [schedules EXCEPT ![id].total = Vested(s, now), ![id].revoked = TRUE]
  /\ UNCHANGED <<now, vestingPaused>>

TransferVesting(id, to) ==
  /\ schedules' = [schedules EXCEPT ![id].beneficiary = to]
  /\ UNCHANGED <<hostVars, vestingPaused>>

VestingStart == vestingPaused = "none" /\ schedules = <<>>
VestingInit == HostInit /\ VestingStart

VestingNext ==
  \/ Tick /\ UNCHANGED <<vestingPaused, schedules>>
  \/ InitializeVesting
  \/ \E a \in Accounts : PauseVesting(a) \/ UnpauseVesting(a)
  \/ \E a, b \in Accounts, asset \in VestingAssets, amount \in VestingAmounts, terms \in VestingTerms :
       CreateVesting(a, b, asset, amount, terms)
  \/ \E id \in DOMAIN schedules :
       \/ ClaimVested(id) \/ RevokeVesting(id)
       \/ \E a \in Accounts : TransferVesting(id, a)

VestingSpec == VestingInit /\ [][VestingNext]_vestingVars

-----------------------------------------------------------------------------
(* Properties. *)

VestingTypeOK ==
  /\ HostTypeOK
  /\ vestingPaused \in {"none", "no", "yes"}
  /\ \A id \in DOMAIN schedules :
       /\ {schedules[id].issuer, schedules[id].beneficiary} \subseteq Accounts
       /\ schedules[id].total \in Nat /\ schedules[id].claimed \in Nat

\* What the contract holds is what schedules have not paid out, whatever was
\* claimed, revoked and claimed after that, and however it was rounded.
VestingCovered ==
  \A t \in Assets :
    balance[t][VestingAt] =
      SumFunctionOnSet([id \in DOMAIN schedules |-> schedules[id].total - schedules[id].claimed],
                       {id \in DOMAIN schedules : schedules[id].asset = t})

\* A schedule that runs to its end vests in full, to the last unit, and before
\* it nobody has claimed more than had vested by then.
VestsInFull ==
  \A id \in DOMAIN schedules :
    /\ schedules[id].claimed <= Vested(schedules[id], now)
    /\ ~schedules[id].revoked /\ now >= schedules[id].end
         => Vested(schedules[id], now) = schedules[id].total

\* What has vested stays vested: neither time nor a revocation, a pause or a
\* transfer of the rights takes any of it back.
VestedStaysVested ==
  [][\A id \in DOMAIN schedules :
       Vested(schedules'[id], now') >= Vested(schedules[id], now)]_vestingVars
=============================================================================
