------------------------------ MODULE Staking ------------------------------
(***************************************************************************)
(* The staking contract (contracts/staking/src/lib.rs under                *)
(* src/apps/contracts): stakers lock an asset and earn rewards, per second *)
(* and staked unit, that are paid in the asset's reward asset out of       *)
(* whatever the contract holds of it.                                      *)
(***************************************************************************)
EXTENDS Soroban, FiniteSetsExt

CONSTANTS
  StakingAt,        \* the address of the contract
  StakeAmounts,      \* amounts staked and unstaked
  LockDurations,     \* lock_duration stakers ask for
  RewardRates,       \* rates the admin sets
  MinDurations,      \* min_stake_duration the admin sets
  RewardAssetsOf,    \* reward assets the admin may choose for an asset
  StakingAdmin,
  MaxStake,          \* bound: what one staker has staked
  RewardFunding      \* what is sent to the contract to pay rewards from

ASSUME StakingAssumption ==
  /\ StakingAt \in Contracts /\ StakeAmounts \cup {RewardFunding} \subseteq Int
  /\ LockDurations \cup MinDurations \subseteq Nat /\ RewardRates \subseteq Int
  /\ RewardAssetsOf \in [Assets -> SUBSET Assets]

VARIABLES
  stakingReady,      \* Admin is stored
  rewardConfig,      \* RewardConfig(asset): [set, asset, rate, minDuration]
  positions,         \* Position(staker, asset): [open, amount, ...]
  rewardsLeft        \* of every asset, what was sent in to pay rewards less what was paid
                     \* in rewards, which no code reads: below 0 they were others' principal

stakingVars == <<hostVars, stakingReady, rewardConfig, positions, rewardsLeft>>

NoPosition == [open |-> FALSE, amount |-> 0, stakedAt |-> 0, lockUntil |-> 0,
               claimed |-> 0, rate |-> 0, pending |-> 0]

\* Rewards since the last settlement.
Accrued(pos) ==
  IF now > pos.stakedAt /\ pos.amount > 0 THEN pos.rate * pos.amount * (now - pos.stakedAt) ELSE 0

\* settle_accrual
Settled(pos) == [pos EXCEPT !.pending = @ + Accrued(pos), !.stakedAt = now]

Later(t1, t2) == IF t1 > t2 THEN t1 ELSE t2

SetPosition(staker, asset, pos) == positions' = [positions EXCEPT ![staker][asset] = pos]

InitializeStaking ==
  /\ ~stakingReady
  /\ stakingReady' = TRUE
  /\ UNCHANGED <<hostVars, rewardConfig, positions, rewardsLeft>>

\* The reward asset of an asset is chosen once.
SetRewardConfig(caller, asset, rewardAsset, rate, minDuration) ==
  /\ stakingReady /\ caller = StakingAdmin
  /\ rate >= 0
  /\ rewardConfig[asset].set => rewardConfig[asset].asset = rewardAsset
  /\ rewardConfig' = [rewardConfig EXCEPT ![asset] =
       [set |-> TRUE, asset |-> rewardAsset, rate |-> rate, minDuration |-> minDuration]]
  /\ UNCHANGED <<hostVars, stakingReady, positions, rewardsLeft>>

SetRewardRate(caller, asset, rate) ==
  /\ stakingReady /\ caller = StakingAdmin
  /\ rate >= 0
  /\ rewardConfig[asset].set
  /\ rewardConfig' = [rewardConfig EXCEPT ![asset].rate = rate]
  /\ UNCHANGED <<hostVars, stakingReady, positions, rewardsLeft>>

\* Mutant: the rewards so far are computed with the new amount and rate.
ToppedUpFirst(old, amount, lockUntil, rate) ==
  Settled([old EXCEPT !.amount = @ + amount, !.lockUntil = Later(@, lockUntil), !.rate = rate])

\* The position after a top-up: its rate is the average of the old and the new
\* principal's, its lock is never shortened.
ToppedUp(old, amount, lockUntil, rate) ==
  [Settled(old) EXCEPT
     !.amount = @ + amount,
     !.lockUntil = Later(@, lockUntil),
     !.rate = IF old.amount = 0 THEN rate
              ELSE (@ * old.amount + rate * amount) \div (old.amount + amount)]

Stake(staker, asset, amount, duration) ==
  LET config == rewardConfig[asset]
      old == positions[staker][asset]
      lockUntil == now + duration IN
  /\ amount > 0 /\ old.amount + amount <= MaxStake
  /\ config.set /\ duration >= config.minDuration
  /\ SetPosition(staker, asset,
       IF old.open THEN ToppedUp(old, amount, lockUntil, config.rate)
       ELSE [NoPosition EXCEPT !.open = TRUE, !.amount = amount, !.stakedAt = now,
                               !.lockUntil = lockUntil, !.rate = config.rate])
  /\ Transfer(asset, staker, StakingAt, amount)
  /\ UNCHANGED <<now, stakingReady, rewardConfig, rewardsLeft>>

Unstake(staker, asset, amount) ==
  LET old == positions[staker][asset] IN
  /\ amount > 0
  /\ old.open /\ now >= old.lockUntil /\ amount <= old.amount
  /\ SetPosition(staker, asset, [Settled(old) EXCEPT !.amount = @ - amount])
  /\ Transfer(asset, StakingAt, staker, amount)
  /\ UNCHANGED <<now, stakingReady, rewardConfig, rewardsLeft>>

\* With nothing owed the call succeeds and stores nothing.
ClaimRewards(staker, asset) ==
  LET pos == Settled(positions[staker][asset]) IN
  /\ pos.open /\ pos.pending > 0
  /\ rewardConfig[asset].set
  /\ Transfer(rewardConfig[asset].asset, StakingAt, staker, pos.pending)
  /\ SetPosition(staker, asset, [pos EXCEPT !.claimed = @ + pos.pending, !.pending = 0])
  /\ rewardsLeft' = [rewardsLeft EXCEPT ![rewardConfig[asset].asset] = @ - pos.pending]
  /\ UNCHANGED <<now, stakingReady, rewardConfig>>

\* The contract has no call to fund rewards: its operator sends them.
FundRewards(from, asset) ==
  /\ from = StakingAdmin
  /\ \E a \in Assets : rewardConfig[a].set /\ rewardConfig[a].asset = asset
  /\ RewardFunding > 0
  /\ Transfer(asset, from, StakingAt, RewardFunding)
  /\ rewardsLeft' = [rewardsLeft EXCEPT ![asset] = @ + RewardFunding]
  /\ UNCHANGED <<now, stakingReady, rewardConfig, positions>>

StakingStart ==
  /\ stakingReady = FALSE
  /\ rewardConfig = [t \in Assets |-> [set |-> FALSE, asset |-> t, rate |-> 0, minDuration |-> 0]]
  /\ positions = [a \in Accounts |-> [t \in Assets |-> NoPosition]]
  /\ rewardsLeft = [t \in Assets |-> 0]

StakingInit == HostInit /\ StakingStart

StakingNext ==
  \/ Tick /\ UNCHANGED <<stakingReady, rewardConfig, positions, rewardsLeft>>
  \/ InitializeStaking
  \/ \E a \in Accounts, t \in Assets :
       \/ ClaimRewards(a, t) \/ FundRewards(a, t)
       \/ \E amount \in StakeAmounts :
            \/ Unstake(a, t, amount)
            \/ \E duration \in LockDurations : Stake(a, t, amount, duration)
       \/ \E rate \in RewardRates :
            \/ SetRewardRate(a, t, rate)
            \/ \E r \in RewardAssetsOf[t], min \in MinDurations : SetRewardConfig(a, t, r, rate, min)

StakingSpec == StakingInit /\ [][StakingNext]_stakingVars

-----------------------------------------------------------------------------
(* Properties. *)

StakingTypeOK ==
  /\ HostTypeOK
  /\ stakingReady \in BOOLEAN
  /\ \A a \in Accounts, t \in Assets :
       positions[a][t].amount \in Nat /\ positions[a][t].pending \in Nat

\* The contract holds of every asset the principal of all stakers and the rewards
\* left: the principal is whole while no more was paid in rewards of an asset than
\* was sent in for them, and beyond that it is short by what was paid ("principal
\* is only returned via unstake", staking/src/lib.rs:7, but claim_rewards pays out
\* of the same balance).
PrincipalIsHeld ==
  \A t \in Assets :
    balance[t][StakingAt] =
      SumFunctionOnSet([a \in Accounts |-> positions[a][t].amount], Accounts) + rewardsLeft[t]

\* What a position has earned, paid out or not.
Earned(pos) == pos.claimed + pos.pending + Accrued(pos)

\* Calls never change what a position has earned so far, by a top-up, a partial
\* unstake, a claim or a new rate: only time adds to it, at the rate
\* and amount the position had.
EarnedOnlyByTime ==
  [][\A a \in Accounts, t \in Assets :
       LET old == positions[a][t] IN
       Earned(positions[a][t])' = Earned(old) + old.rate * old.amount * (now' - now)]_stakingVars

\* A lock is never shortened, and nothing is unstaked before it ends.
LockKept ==
  [][\A a \in Accounts, t \in Assets :
       /\ positions'[a][t].lockUntil >= positions[a][t].lockUntil
       /\ positions'[a][t].amount < positions[a][t].amount =>
            now >= positions[a][t].lockUntil]_stakingVars
=============================================================================
