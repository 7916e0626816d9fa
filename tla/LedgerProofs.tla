----------------------------- MODULE LedgerProofs -----------------------------
(***************************************************************************)
(* All contracts on one ledger, called in any order: each holds what it    *)
(* owes and keeps its promises, whatever the others do.  The invariant is  *)
(* that each is as sound as its own proofs say (ContractProofs,            *)
(* PoolProofs); a call of one leaves the others their storage and their    *)
(* money, and lets time pass.                                              *)
(***************************************************************************)
EXTENDS MCContracts, ContractProofs, PoolProofs

\* Where a contract keeps money, if it keeps any.
Home(c) ==
  CASE c = "escrow" -> {EscrowAt} [] c = "multisig" -> {MultisigAt} [] c = "payroll" -> {PayrollAt}
    [] c = "vesting" -> {VestingAt} [] c = "treasury" -> {TreasuryAt} [] c = "staking" -> {StakingAt}
    [] c = "bridge" -> {BridgeAt} [] c = "swap" -> {SwapAt} [] OTHER -> {}

\* No contract outside S gains or loses money in the step.
Undisturbed(S) ==
  \A t \in Assets, c \in Contracts \ S : balance'[t][c] = balance[t][c]

-----------------------------------------------------------------------------
(* Whom the calls of a contract pay: accounts and the contract itself.      *)

LEMMA Between ==
  ASSUME HostTypeOK, NEW S \in SUBSET Contracts, NEW asset \in Assets, NEW amount \in Int,
         NEW from \in Accounts \cup S, NEW to \in Accounts \cup S, Transfer(asset, from, to, amount)
  PROVE  Undisturbed(S)
<1> SUFFICES ASSUME NEW t \in Assets, NEW c \in Contracts \ S
             PROVE  balance'[t][c] = balance[t][c]
  BY DEF Undisturbed
<1>1. c \in Addresses /\ c # from /\ c # to /\ balance[t][c] \in Nat
  BY SorobanAssumption DEF Addresses, HostTypeOK
<1>2. CASE t # asset
  BY <1>2, TransferTyped
<1>3. CASE t = asset
  <2>1. balance'[t] = Moved(balance[t], from, to, amount)
    BY <1>3, TransferTyped
  <2>2. Moved(balance[t], from, to, amount)[c] = balance[t][c] - 0 + 0
    BY <1>1 DEF Moved
  <2> QED
    BY <1>1, <2>1, <2>2
<1> QED
  BY <1>2, <1>3

LEMMA Idle ==
  ASSUME UNCHANGED balance, NEW S
  PROVE  Undisturbed(S)
  BY DEF Undisturbed

LEMMA EscrowPays ==
  ASSUME EscrowSound, EscrowNext
  PROVE  Undisturbed({EscrowAt})
<1>1. HostTypeOK /\ {EscrowAt} \in SUBSET Contracts
  BY EscrowAssumption DEF EscrowSound
<1>2. \A id \in DOMAIN escrows :
        /\ escrows[id].asset \in Assets /\ escrows[id].amount \in Int
        /\ escrows[id].buyer \in Accounts /\ escrows[id].seller \in Accounts
  <2>1. \A id \in DOMAIN escrows : escrows[id] \in EscrowRecords
    BY SeqFacts DEF EscrowSound
  <2> QED
    BY <2>1 DEF EscrowRecords
<1>3. ASSUME NEW id \in DOMAIN escrows, NEW winner \in {escrows[id].buyer, escrows[id].seller},
             NEW status, NEW by, PayFromEscrow(id, winner, status, by)
      PROVE  Undisturbed({EscrowAt})
  <2>1. Transfer(escrows[id].asset, EscrowAt, winner, escrows[id].amount)
    BY <1>3 DEF PayFromEscrow
  <2> QED
    BY <1>1, <1>2, <2>1, Between
<1>4. ASSUME NEW id \in DOMAIN escrows, FundEscrow(id)
      PROVE  Undisturbed({EscrowAt})
  BY <1>1, <1>2, <1>4, Between DEF FundEscrow
<1>5. ASSUME NEW id \in DOMAIN escrows, RefundBuyer(id)
      PROVE  Undisturbed({EscrowAt})
  BY <1>3, <1>5 DEF RefundBuyer
<1>6. ASSUME NEW id \in DOMAIN escrows, NEW caller \in Accounts,
             ReleaseFunds(id, caller) \/ ResolveDispute(id, caller)
      PROVE  Undisturbed({EscrowAt})
  BY <1>3, <1>6 DEF ReleaseFunds, ResolveDispute
<1>7. ASSUME NEW id \in DOMAIN escrows, StartDispute(id) \/ CancelEscrow(id)
      PROVE  Undisturbed({EscrowAt})
  BY <1>7, Idle DEF StartDispute, CancelEscrow, hostVars
<1>8. ASSUME NEW buyer \in Accounts, NEW seller \in Accounts, NEW arbitrator \in Accounts,
             NEW asset \in Assets, NEW amount \in EscrowAmounts, NEW timeout \in EscrowTimeouts,
             CreateEscrow(buyer, seller, arbitrator, asset, amount, timeout)
      PROVE  Undisturbed({EscrowAt})
  BY <1>8, Idle DEF CreateEscrow, hostVars
<1> QED
  BY <1>4, <1>5, <1>6, <1>7, <1>8, Idle DEF EscrowNext, Tick

LEMMA MultisigPays ==
  ASSUME MultisigSound, MultisigNext
  PROVE  Undisturbed({MultisigAt})
<1>1. HostTypeOK /\ {MultisigAt} \in SUBSET Contracts
  BY MultisigAssumption DEF MultisigSound
<1>2. ASSUME NEW a \in Accounts, NEW asset \in MultisigAssets, NEW amount \in MultisigAmounts,
             FundWallet(a, asset, amount)
      PROVE  Undisturbed({MultisigAt})
  <2>1. asset \in Assets /\ amount \in Int /\ Transfer(asset, a, MultisigAt, amount)
    BY <1>2, MultisigAssumption DEF FundWallet
  <2> QED
    BY <1>1, <2>1, Between
<1>3. ASSUME NEW id \in DOMAIN transactions, Execute(id)
      PROVE  Undisturbed({MultisigAt})
  <2>1. transactions[id] \in Proposals
    BY SeqFacts DEF MultisigSound
  <2>2. /\ transactions[id].asset \in Assets /\ transactions[id].amount \in Int
        /\ transactions[id].destination \in Accounts
    BY <2>1 DEF Proposals
  <2>3. Transfer(transactions[id].asset, MultisigAt, transactions[id].destination, transactions[id].amount)
    BY <1>3 DEF Execute
  <2> QED
    BY <1>1, <2>2, <2>3, Between
<1>4. CASE UNCHANGED balance
  BY <1>4, Idle
<1>5. ASSUME NEW first \in SUBSET Accounts, NEW needed, InitializeMultisig(first, needed)
      PROVE  UNCHANGED balance
  BY <1>5 DEF InitializeMultisig, hostVars
<1>6. ASSUME NEW needed, ChangeThreshold(needed)
      PROVE  UNCHANGED balance
  BY <1>6 DEF ChangeThreshold, hostVars
<1>7. ASSUME NEW a \in Accounts, AddSigner(a) \/ RemoveSigner(a)
      PROVE  UNCHANGED balance
  BY <1>7 DEF AddSigner, RemoveSigner, hostVars
<1>8. ASSUME NEW a \in Accounts, NEW asset \in MultisigAssets, NEW amount \in MultisigAmounts,
             NEW destination \in Accounts, CreateTransaction(a, destination, asset, amount)
      PROVE  UNCHANGED balance
  BY <1>8 DEF CreateTransaction, hostVars
<1>9. ASSUME NEW id \in DOMAIN transactions, NEW a \in Accounts, Approve(a, id)
      PROVE  UNCHANGED balance
  BY <1>9 DEF Approve, hostVars
<1> QED
  BY <1>2, <1>3, <1>4, <1>5, <1>6, <1>7, <1>8, <1>9 DEF MultisigNext

LEMMA PayrollPays ==
  ASSUME BatchesSound, PayrollContractNext
  PROVE  Undisturbed({PayrollAt})
<1>1. HostTypeOK /\ {PayrollAt} \in SUBSET Contracts
  BY PayrollContractAssumption DEF BatchesSound
<1>2. \A id \in DOMAIN batches :
        /\ batches[id].asset \in Assets /\ batches[id].total \in Int
        /\ batches[id].recipients \in Seq(Entries)
  <2>1. \A id \in DOMAIN batches : batches[id] \in BatchRows
    BY SeqFacts DEF BatchesSound
  <2> QED
    BY <2>1 DEF BatchRows
<1>3. ASSUME NEW id \in DOMAIN batches, NEW a \in Accounts, FundBatch(id, a)
      PROVE  Undisturbed({PayrollAt})
  BY <1>1, <1>2, <1>3, Between DEF FundBatch
<1>4. ASSUME NEW id \in DOMAIN batches, Distribute(id)
      PROVE  Undisturbed({PayrollAt})
  <2> SUFFICES ASSUME NEW t \in Assets, NEW c \in Contracts \ {PayrollAt}
               PROVE  balance'[t][c] = balance[t][c]
    BY DEF Undisturbed
  <2> DEFINE asset == batches[id].asset
             r == batches[id].recipients
             paid == [a \in Addresses |-> balance[asset][a] + PaysTo(r, a)
                                          - (IF a = PayrollAt THEN Total(r) ELSE 0)]
  <2>1. balance' = [balance EXCEPT ![asset] = paid]
    BY <1>4 DEF Distribute
  <2>2. c \in Addresses /\ c # PayrollAt /\ balance[t][c] \in Nat /\ PaysTo(r, c) = 0
        /\ DOMAIN balance = Assets
    BY <1>1, <1>2, DuesOf DEF HostTypeOK, Addresses
  <2>3. paid[c] = balance[asset][c] + PaysTo(r, c) - 0
    BY <2>2
  <2> HIDE DEF paid
  <2>4. balance'[t] = IF t = asset THEN paid ELSE balance[t]
    BY <2>1, <2>2
  <2>5. CASE t = asset
    <3>1. paid[c] = balance[t][c] + 0 - 0
      BY <2>2, <2>3, <2>5
    <3> QED
      BY <2>2, <2>4, <2>5, <3>1
  <2> QED
    BY <2>4, <2>5
<1>5. ASSUME NEW id \in DOMAIN batches,
             CancelBatch(id) \/ (\E a \in Accounts, amount \in Wages : AddRecipient(id, a, amount))
      PROVE  UNCHANGED balance
  BY <1>5 DEF CancelBatch, AddRecipient, hostVars
<1>6. ASSUME NEW a \in Accounts, NEW asset \in Assets, CreateBatch(a, asset)
      PROVE  UNCHANGED balance
  BY <1>6 DEF CreateBatch, hostVars
<1> QED
  BY <1>3, <1>4, <1>5, <1>6, Idle DEF PayrollContractNext, InitializePayroll, hostVars

LEMMA VestingPays ==
  ASSUME VestingSound, VestingNext
  PROVE  Undisturbed({VestingAt})
<1>1. HostTypeOK /\ {VestingAt} \in SUBSET Contracts
  BY VestingAssumption DEF VestingSound
<1>2. ASSUME NEW a \in Accounts, NEW b \in Accounts, NEW asset \in VestingAssets,
             NEW amount \in VestingAmounts, NEW terms \in VestingTerms,
             CreateVesting(a, b, asset, amount, terms)
      PROVE  Undisturbed({VestingAt})
  <2>1. asset \in Assets /\ amount \in Int /\ Transfer(asset, a, VestingAt, amount)
    BY <1>2, VestingAssumption DEF CreateVesting
  <2> QED
    BY <1>1, <2>1, Between
<1>3. ASSUME NEW id \in DOMAIN schedules, ClaimVested(id) \/ RevokeVesting(id)
      PROVE  Undisturbed({VestingAt})
  <2> DEFINE s == schedules[id]
  <2>1. /\ s.asset \in Assets /\ s.issuer \in Accounts /\ s.beneficiary \in Accounts
        /\ Vested(s, now) - s.claimed \in Int /\ s.total - Vested(s, now) \in Int
    <3>1. /\ s.asset \in Assets /\ s.issuer \in Accounts /\ s.beneficiary \in Accounts
          /\ s.total \in Nat /\ s.claimed \in Nat /\ Vested(s, now) \in Nat
      BY ScheduleFacts
    <3> HIDE DEF s
    <3> QED
      BY <3>1
  <2>2. \/ Transfer(s.asset, VestingAt, s.beneficiary, Vested(s, now) - s.claimed)
        \/ Transfer(s.asset, VestingAt, s.issuer, s.total - Vested(s, now))
        \/ UNCHANGED balance
    BY <1>3 DEF ClaimVested, RevokeVesting
  <2> HIDE DEF s
  <2> QED
    BY <1>1, <2>1, <2>2, Between, Idle
<1>4. ASSUME NEW id \in DOMAIN schedules, NEW a \in Accounts, TransferVesting(id, a)
      PROVE  UNCHANGED balance
  BY <1>4 DEF TransferVesting, hostVars
<1>5. ASSUME NEW a \in Accounts, PauseVesting(a) \/ UnpauseVesting(a)
      PROVE  UNCHANGED balance
  BY <1>5 DEF PauseVesting, UnpauseVesting, hostVars
<1> QED
  BY <1>2, <1>3, <1>4, <1>5, Idle DEF VestingNext, InitializeVesting, Tick, hostVars

LEMMA TreasuryPays ==
  ASSUME TreasurySound, TreasuryNext
  PROVE  Undisturbed({TreasuryAt})
<1>1. HostTypeOK /\ {TreasuryAt} \in SUBSET Contracts
  BY TreasuryAssumption DEF TreasurySound
<1>2. ASSUME NEW a \in Accounts, NEW asset \in TreasuryAssets, NEW amount \in TreasuryAmounts,
             Deposit(a, asset, amount)
      PROVE  Undisturbed({TreasuryAt})
  <2>1. asset \in Assets /\ amount \in Int /\ Transfer(asset, a, TreasuryAt, amount)
    BY <1>2, TreasuryAssumption DEF Deposit
  <2> QED
    BY <1>1, <2>1, Between
<1>3. ASSUME NEW id \in DOMAIN withdrawals, PayWithdrawal(id)
      PROVE  Undisturbed({TreasuryAt})
  <2>1. /\ withdrawals[id].asset \in Assets /\ withdrawals[id].amount \in Int
        /\ withdrawals[id].to \in Accounts
    BY RequestOf DEF Requests
  <2>2. Transfer(withdrawals[id].asset, TreasuryAt, withdrawals[id].to, withdrawals[id].amount)
    BY <1>3 DEF PayWithdrawal
  <2> QED
    BY <1>1, <2>1, <2>2, Between
<1>4. ASSUME NEW id \in DOMAIN withdrawals,
             ExecuteWithdrawal(id) \/ (\E named : EmergencyOverride(id, named))
      PROVE  Undisturbed({TreasuryAt})
  BY <1>3, <1>4 DEF ExecuteWithdrawal, EmergencyOverride
<1>5. ASSUME NEW id \in DOMAIN withdrawals, CancelWithdrawal(id)
      PROVE  UNCHANGED balance
  BY <1>5 DEF CancelWithdrawal, hostVars
<1>6. ASSUME NEW a \in Accounts, NEW asset \in TreasuryAssets,
             \/ DisableTimelock(a, asset)
             \/ \E period \in LockPeriods : SetTimelock(a, asset, period)
             \/ \E amount \in TreasuryAmounts : RequestWithdrawal(a, asset, amount)
      PROVE  UNCHANGED balance
  BY <1>6 DEF DisableTimelock, SetTimelock, RequestWithdrawal, hostVars
<1>7. ASSUME NEW a \in Accounts, NEW approvers \in SUBSET Accounts, NEW needed,
             SetEmergencyApprovers(a, approvers, needed)
      PROVE  UNCHANGED balance
  BY <1>7 DEF SetEmergencyApprovers, hostVars
<1> QED
  BY <1>2, <1>4, <1>5, <1>6, <1>7, Idle DEF TreasuryNext, InitializeTreasury, Tick, hostVars

LEMMA GovernancePays ==
  ASSUME GovernanceSound, GovernanceNext
  PROVE  Undisturbed({})
<1>1. ASSUME NEW a \in Accounts, NEW b \in Accounts, NEW n \in TradeAmounts, TradeToken(a, b, n)
      PROVE  Undisturbed({})
  <2>1. /\ HostTypeOK /\ GovernanceToken \in Assets /\ n \in Int
        /\ Transfer(GovernanceToken, a, b, n)
    BY <1>1, GovernanceAssumption DEF GovernanceSound, TradeToken
  <2> QED
    BY <2>1, Between
<1>2. ASSUME NEW a \in Accounts, NEW b \in Accounts, Delegate(a, b)
      PROVE  UNCHANGED balance
  BY <1>2 DEF Delegate, hostVars
<1>3. ASSUME NEW a, NEW w, NEW q, NEW t, CreateProposal(a, w, q, t)
      PROVE  UNCHANGED balance
  BY <1>3 DEF CreateProposal, hostVars
<1>4. ASSUME NEW id, NEW a, NEW support, ExecuteProposal(id) \/ CastVote(a, id, support)
      PROVE  UNCHANGED balance
  BY <1>4 DEF ExecuteProposal, CastVote, CountVote, hostVars
<1> QED
  BY <1>1, <1>2, <1>3, <1>4, Idle DEF GovernanceNext, InitializeGovernance, Tick, hostVars

LEMMA StakingPays ==
  ASSUME StakingSound, StakingNext
  PROVE  Undisturbed({StakingAt})
<1>1. HostTypeOK /\ {StakingAt} \in SUBSET Contracts /\ RewardFunding \in Int /\ StakeAmounts \subseteq Int
  BY StakingAssumption DEF StakingSound
<1>2. ASSUME NEW a \in Accounts, NEW t \in Assets, ClaimRewards(a, t)
      PROVE  Undisturbed({StakingAt})
  <2>1. /\ rewardConfig[t].asset \in Assets
        /\ \E n \in Nat : Transfer(rewardConfig[t].asset, StakingAt, a, n)
    BY <1>2, ClaimRewardsKeeps DEF StakingSound, RewardConfigs
  <2>2. PICK n \in Nat : Transfer(rewardConfig[t].asset, StakingAt, a, n)
    BY <2>1
  <2>3. PICK r : r = rewardConfig[t].asset
    OBVIOUS
  <2>4. n \in Int /\ r \in Assets /\ Transfer(r, StakingAt, a, n)
    BY <2>1, <2>2, <2>3
  <2> QED
    BY <1>1, <2>4, Between
<1>3. ASSUME NEW a \in Accounts, NEW t \in Assets, FundRewards(a, t)
      PROVE  Undisturbed({StakingAt})
  BY <1>1, <1>3, Between DEF FundRewards
<1>4. ASSUME NEW a \in Accounts, NEW t \in Assets, NEW amount \in StakeAmounts,
             Unstake(a, t, amount) \/ (\E duration \in LockDurations : Stake(a, t, amount, duration))
      PROVE  Undisturbed({StakingAt})
  <2>1. Transfer(t, a, StakingAt, amount) \/ Transfer(t, StakingAt, a, amount)
    BY <1>4 DEF Unstake, Stake
  <2> QED
    BY <1>1, <2>1, Between
<1>5. ASSUME NEW a, NEW t, NEW rate,
             \/ SetRewardRate(a, t, rate)
             \/ \E r, min : SetRewardConfig(a, t, r, rate, min)
      PROVE  UNCHANGED balance
  BY <1>5 DEF SetRewardRate, SetRewardConfig, hostVars
<1> QED
  BY <1>2, <1>3, <1>4, <1>5, Idle DEF StakingNext, InitializeStaking, Tick, hostVars

LEMMA BridgePays ==
  ASSUME BridgeSound, BridgeNext
  PROVE  Undisturbed({BridgeAt})
<1>1. HostTypeOK /\ {BridgeAt} \in SUBSET Contracts /\ BridgeAmounts \subseteq Int
  BY BridgeFacts, BridgeAssumption
<1>2. \A id \in DOMAIN requests :
        /\ requests[id].amount \in Int /\ requests[id].to \in Accounts \cup {BridgeAt}
        /\ requests[id].asset \in Assets
  BY BridgeFacts DEF RequestRows
<1>3. ASSUME NEW a \in Accounts, NEW asset \in Assets, NEW amount \in BridgeAmounts,
             \/ LockAsset(a, asset, amount)
             \/ \E to \in Accounts : BurnWrapped(a, asset, to, amount) \/ WithdrawFees(a, asset, to, amount)
      PROVE  Undisturbed({BridgeAt})
  <2>1. \/ Transfer(asset, a, BridgeAt, amount)
        \/ \E to \in Accounts : Transfer(asset, BridgeAt, to, amount)
    BY <1>3 DEF LockAsset, BurnWrapped, WithdrawFees
  <2> QED
    BY <1>1, <2>1, Between
<1>4. ASSUME NEW id \in DOMAIN requests, NEW proof,
             UnlockAsset(id, proof) \/ (\E issuer \in Accounts : MintWrapped(id, proof, issuer))
      PROVE  Undisturbed({BridgeAt})
  <2>1. \E to \in Accounts \cup {BridgeAt} :
          Transfer(requests[id].asset, BridgeAt, to, requests[id].amount)
    BY <1>2, <1>4 DEF UnlockAsset, MintWrapped
  <2> QED
    BY <1>1, <1>2, <2>1, Between
<1>5. ASSUME NEW a, \/ MigrateStorage(a)
                    \/ \E fee : SetBridgeFee(a, fee)
                    \/ \E token, asset : SetAssetPair(a, token, asset)
      PROVE  UNCHANGED balance
  BY <1>5 DEF SetAssetPair, MigrateStorage, SetBridgeFee, hostVars
<1>6. ASSUME NEW a, NEW keys, NEW needed, SetSigners(a, keys, needed)
      PROVE  UNCHANGED balance
  BY <1>6 DEF SetSigners, hostVars
<1>7. ASSUME UNCHANGED balance PROVE Undisturbed({BridgeAt})
  BY <1>1, <1>7, Idle
<1>8. CASE \E id \in DOMAIN requests, n \in 0..Cardinality(SignerKeys) :
             \E proof \in [1..n -> SignerKeys] :
               UnlockAsset(id, proof) \/ \E issuer \in Accounts : MintWrapped(id, proof, issuer)
  BY <1>4, <1>8
<1>9. CASE InitializeBridge
  BY <1>7, <1>9 DEF InitializeBridge, hostVars
<1> QED
  BY <1>3, <1>5, <1>6, <1>7, <1>8, <1>9, Zenon DEF BridgeNext

LEMMA SwapPays ==
  ASSUME SwapSound, SwapNext
  PROVE  Undisturbed({SwapAt})
<1>1. ASSUME NEW a \in Assets, NEW b \in Assets, a # b,
             NEW f1 \in Providers, NEW t1 \in Providers, NEW f2 \in Providers, NEW t2 \in Providers,
             NEW x, NEW y,
             balance' = [balance EXCEPT ![a] = Moved(@, f1, t1, x), ![b] = Moved(@, f2, t2, y)]
      PROVE  Undisturbed({SwapAt})
  <2> SUFFICES ASSUME NEW t \in Assets, NEW c \in Contracts \ {SwapAt}
               PROVE  balance'[t][c] = balance[t][c]
    BY DEF Undisturbed
  <2>1. /\ c \in Addresses /\ DOMAIN balance = Assets /\ \A u \in Assets : balance[u][c] \in Nat
        /\ c # f1 /\ c # f2 /\ c # t1 /\ c # t2
    BY SorobanAssumption DEF SwapSound, HostTypeOK, Addresses, Providers
  <2> DEFINE ma == Moved(balance[a], f1, t1, x)
             mb == Moved(balance[b], f2, t2, y)
  <2>2. ma[c] = balance[a][c] - 0 + 0 /\ mb[c] = balance[b][c] - 0 + 0
    BY <2>1 DEF Moved
  <2>3. balance' = [balance EXCEPT ![a] = ma, ![b] = mb]
    BY <1>1
  <2> HIDE DEF ma, mb
  <2>4. balance'[t] = IF t = a THEN ma ELSE IF t = b THEN mb ELSE balance[t]
    BY <1>1, <2>1, <2>3
  <2>5. ma[c] = balance[a][c] /\ mb[c] = balance[b][c]
    BY <2>1, <2>2
  <2> QED
    BY <2>4, <2>5
<1>2. ASSUME NEW pair \in Canonical, NEW from \in Providers, NEW to \in Providers, NEW amounts,
             TransferBoth(pair, from, to, amounts)
      PROVE  Undisturbed({SwapAt})
  <2>1. pair[1] \in Assets /\ pair[2] \in Assets /\ pair[1] # pair[2]
    BY PairFacts
  <2>2. balance' = [balance EXCEPT ![pair[1]] = Moved(@, from, to, amounts[1]),
                                   ![pair[2]] = Moved(@, from, to, amounts[2])]
    BY <1>2 DEF TransferBoth
  <2> QED
    BY <1>1, <2>1, <2>2
<1>3. ASSUME NEW pair \in Canonical, NEW a \in Accounts, NEW tokens, RemoveLiquidity(a, pair, tokens)
      PROVE  Undisturbed({SwapAt})
  <2>1. a \in Providers /\ SwapAt \in Providers
    BY DEF Providers
  <2> QED
    BY <1>2, <1>3, <2>1 DEF RemoveLiquidity
<1>4. ASSUME NEW pair \in Canonical, NEW a \in Accounts, NEW amounts, AddLiquidity(a, pair, amounts)
      PROVE  Undisturbed({SwapAt})
  <2>1. a \in Providers /\ SwapAt \in Providers
    BY DEF Providers
  <2> QED
    BY <1>2, <1>4, <2>1 DEF AddLiquidity
<1>5. ASSUME NEW pair \in Canonical, NEW a \in Accounts, NEW i \in {1, 2}, NEW in, SwapAssets(a, pair, i, in)
      PROVE  Undisturbed({SwapAt})
  <2>1. a \in Providers /\ SwapAt \in Providers
    BY DEF Providers
  <2>2. pair[1] \in Assets /\ pair[2] \in Assets /\ pair[1] # pair[2]
    BY PairFacts
  <2>3. PICK j, out : j = 3 - i /\ out = AmountOut(in, pools[pair].reserve[i], pools[pair].reserve[3 - i])
    OBVIOUS
  <2>4. balance' = [balance EXCEPT ![pair[i]] = Moved(@, a, SwapAt, in), ![pair[3 - i]] = Moved(@, SwapAt, a, out)]
    BY <1>5, <2>3 DEF SwapAssets
  <2>5. balance' = [balance EXCEPT ![pair[i]] = Moved(@, a, SwapAt, in), ![pair[j]] = Moved(@, SwapAt, a, out)]
    BY <2>3, <2>4
  <2>6. (i = 1 /\ j = 2) \/ (i = 2 /\ j = 1)
    BY <2>3
  <2>7. pair[i] \in Assets /\ pair[j] \in Assets /\ pair[i] # pair[j]
    BY <2>2, <2>6
  <2> QED
    BY <1>1, <2>1, <2>5, <2>7
<1>6. ASSUME NEW pair, CreatePool(pair)
      PROVE  UNCHANGED balance
  BY <1>6 DEF CreatePool, hostVars
<1> QED
  BY <1>3, <1>4, <1>5, <1>6, Idle DEF SwapNext, InitializeSwap, hostVars

\* The token, the oracle, the executor and upgrades move none of these assets.
LEMMA OthersPay ==
  ASSUME TokenNext \/ OracleNext \/ BatchNext \/ UpgradeNext
  PROVE  Undisturbed({}) /\ (Tick \/ UNCHANGED hostVars)
<1>1. TokenNext => Tick \/ UNCHANGED hostVars
  BY DEF TokenNext, InitializeToken, Mint, Burn, TransferTokens, TransferFrom, ApproveSpender
<1>2. OracleNext => Tick \/ UNCHANGED hostVars
  BY DEF OracleNext, InitializeOracle, AuthorizeProvider, RevokeProvider, Authorize, RegisterProvider,
         Heartbeat, SubmitPrice
<1>3. BatchNext => Tick \/ UNCHANGED hostVars
  BY DEF BatchNext, CreateOperations, ExecuteBatch, CancelOperations, TargetChanges
<1>4. UpgradeNext => Tick \/ UNCHANGED hostVars
  BY DEF UpgradeNext, RollbackUpgrade, ProposeUpgrade, ScheduleUpgrade, ExecuteUpgrade, CancelUpgrade
<1>5. Tick \/ UNCHANGED hostVars
  BY <1>1, <1>2, <1>3, <1>4
<1>6. UNCHANGED balance
  BY <1>5 DEF Tick, hostVars
<1> QED
  BY <1>5, <1>6, Idle

-----------------------------------------------------------------------------
(* A call of another contract: it may let time pass, but leaves money where *)
(* this one keeps it.                                                       *)

TimePasses == HostTypeOK' /\ now' >= now
Aside(at) == TimePasses /\ \A t \in Assets : balance'[t][at] = balance[t][at]

LEMMA EscrowAside ==
  ASSUME EscrowSound, EscrowCovered, Aside(EscrowAt), UNCHANGED escrows
  PROVE  EscrowSound' /\ EscrowCovered'
  BY DEF EscrowSound, EscrowCovered, Aside, TimePasses

LEMMA MultisigAside ==
  ASSUME MultisigSound, TimePasses, UNCHANGED <<signers, threshold, transactions>>
  PROVE  MultisigSound'
  BY DEF MultisigSound, ThresholdReachable, TimePasses

LEMMA PayrollAside ==
  ASSUME BatchesSound, BatchesCovered, Aside(PayrollAt), UNCHANGED <<payrollReady, batches>>
  PROVE  BatchesSound' /\ BatchesCovered'
  BY DEF BatchesSound, BatchesCovered, InState, Aside, TimePasses

LEMMA VestingAside ==
  ASSUME VestingSound, VestingCovered, Aside(VestingAt), UNCHANGED <<vestingPaused, schedules>>
  PROVE  VestingSound' /\ VestingCovered' /\ Upwards
<1>1. ASSUME NEW id \in DOMAIN schedules
      PROVE  /\ Vested(schedules[id], now') >= Vested(schedules[id], now)
             /\ Sustained(schedules[id], now')
  <2>1. /\ schedules[id] \in ScheduleRows /\ ValidTerms(schedules[id]) /\ now \in Nat
        /\ schedules[id].claimed \in Nat /\ schedules[id].claimed <= Vested(schedules[id], now)
    BY ScheduleFacts
  <2>2. now' \in Nat /\ now <= now'
    BY <2>1, SorobanAssumption DEF HostTypeOK, Aside, TimePasses
  <2>3. Vested(schedules[id], now) \in Nat /\ Vested(schedules[id], now') \in Nat
        /\ Vested(schedules[id], now) <= Vested(schedules[id], now')
    BY <2>1, <2>2, VestedGrows
  <2> QED
    BY <2>1, <2>3 DEF Sustained
<1> QED
  BY <1>1 DEF VestingSound, VestingCovered, Aside, TimePasses, Upwards

LEMMA TreasuryAside ==
  ASSUME TreasurySound, TimePasses, UNCHANGED <<treasuryReady, timelocks, emergency, withdrawals>>
  PROVE  TreasurySound'
  BY DEF TreasurySound, TimePasses

LEMMA GovernanceAside ==
  ASSUME GovernanceSound, TimePasses,
         UNCHANGED <<governanceReady, proposals, ballots, delegation, delegatedPower>>
  PROVE  GovernanceSound'
  BY DEF GovernanceSound, Delegated, Delegators, Powers, Votes, TimePasses

LEMMA StakingAside ==
  ASSUME StakingSound, TimePasses, UNCHANGED <<stakingReady, rewardConfig, positions>>
  PROVE  StakingSound' /\ EarnsByTime /\ KeepsLocks
  BY StakingIdles DEF StakingKept, TimePasses

LEMMA BridgeAside ==
  ASSUME BridgeSound, Aside(BridgeAt),
         UNCHANGED <<storageVersion, migrationCursor, configVars, feesCollected, requests>>
  PROVE  BridgeSound'
  BY BridgeAssumption
  DEF BridgeSound, BridgeKept, PoolAddsUp, Amounts, MigratedSoFar, Aside, TimePasses, configVars

LEMMA TokenAside ==
  ASSUME TokenSound, UNCHANGED <<tokenReady, supply, held, allowance, drawn>>
  PROVE  TokenSound'
  BY DEF TokenSound, SupplyIsHeld, GrantNotExceeded

LEMMA SwapAside ==
  ASSUME SwapSound, Aside(SwapAt), UNCHANGED <<swapReady, pools, lpBalance>>
  PROVE  SwapSound'
  BY DEF SwapSound, Reserve, Trades, Issued, Aside, TimePasses

LEMMA OracleAside ==
  ASSUME OracleSound, TimePasses, UNCHANGED <<oracleReady, providerOrder, providers, prices>>
  PROVE  OracleSound'
<1>1. now \in Nat /\ now' \in Nat /\ now <= now'
  BY SorobanAssumption DEF OracleSound, HostTypeOK, TimePasses
<1>2. ASSUME NEW p \in Accounts
      PROVE  /\ providers[p].heartbeat <= now' /\ prices[p].timestamp \in 0..now'
             /\ prices[p].price \in Nat
             /\ providers[p].authorized => Registered(p)
  <2>1. /\ providers[p].heartbeat \in Nat /\ providers[p].heartbeat <= now
        /\ prices[p].timestamp \in 0..now
        /\ prices[p].price \in Nat
        /\ providers[p].authorized => Registered(p)
    BY DEF OracleSound, ProviderRows
  <2> QED
    BY <1>1, <2>1
<1> QED
  BY <1>2 DEF OracleSound, Registered, TimePasses

LEMMA BatchAside ==
  ASSUME BatchSound, UNCHANGED <<batchOps, calls, failing>>
  PROVE  BatchSound'
  BY DEF BatchSound, Called, Done

LEMMA UpgradeAside ==
  ASSUME UpgradeSound, TimePasses, UNCHANGED <<upgrades, wasm, previousWasm, version>>
  PROVE  UpgradeSound'
  BY DEF UpgradeSound, TimePasses, HostTypeOK

LEMMA PrincipalAside ==
  ASSUME PrincipalInv, StakingSound', Aside(StakingAt), UNCHANGED <<positions, rewardsLeft>>
  PROVE  PrincipalInv'
  BY StakingAssumption DEF PrincipalInv, PrincipalIsHeld, Aside

LEMMA BridgeQuiet ==
  ASSUME BridgeSound, Aside(BridgeAt), UNCHANGED <<feesCollected, requests>>
  PROVE  PaysRightly
<1>1. \A t \in Assets : balance[t][BridgeAt] \in Nat
  BY BridgeFacts DEF Pool
<1>2. \A t \in Assets : balance'[t][BridgeAt] = balance[t][BridgeAt]
  BY BridgeAssumption DEF Aside
<1>3. \A t \in Assets : ~(balance'[t][BridgeAt] < balance[t][BridgeAt])
  BY <1>1, <1>2
<1> QED
  BY <1>1, <1>2, <1>3, PaysNothing

LEMMA TreasuryQuiet ==
  ASSUME TreasurySound, Aside(TreasuryAt), UNCHANGED withdrawals
  PROVE  /\ \A t \in Assets : ~(balance'[t][TreasuryAt] < balance[t][TreasuryAt])
         /\ \A id \in DOMAIN withdrawals : ~(~withdrawals[id].executed /\ withdrawals'[id].executed)
<1>1. \A t \in Assets : balance[t][TreasuryAt] \in Nat
  BY TreasuryAssumption DEF TreasurySound, HostTypeOK, Addresses
<1> QED
  BY <1>1 DEF Aside

LEMMA MultisigQuiet ==
  ASSUME MultisigSound, Aside(MultisigAt)
  PROVE  \A t \in Assets : ~(balance'[t][MultisigAt] < balance[t][MultisigAt])
<1>1. \A t \in Assets : balance[t][MultisigAt] \in Nat
  BY MultisigAssumption DEF MultisigSound, HostTypeOK, Addresses
<1> QED
  BY <1>1 DEF Aside

LEMMA OracleQuiet ==
  ASSUME UNCHANGED <<oracleReady, providerOrder, providers, prices>>, NEW who \in Accounts
  PROVE  Silent(who)
<1>1. ASSUME now' = now
      PROVE  GetPrice' = GetPrice /\ Aggregated' = Aggregated
  <2>1. Counted' = Counted
    BY <1>1, Zenon DEF Counted, ValidProvider, Registered, IsActive, FreshPrice
  <2>2. \A i : PriceOf(i)' = PriceOf(i)
    BY Zenon DEF PriceOf
  <2>3. Newest' = Newest
    BY <2>1, <2>2 DEF Newest
  <2>4. GetPrice' = GetPrice
    BY <2>3, Zenon DEF GetPrice
  <2>5. [i \in Counted |-> PriceOf(i).price]' = [i \in Counted |-> PriceOf(i).price]
    BY <2>1, <2>2
  <2>6. (\A i, j \in Counted : PriceOf(i).decimals = PriceOf(j).decimals)'
          <=> (\A i, j \in Counted : PriceOf(i).decimals = PriceOf(j).decimals)
    BY <2>1, <2>2
  <2> QED
    BY <2>1, <2>4, <2>5, <2>6, Zenon DEF Aggregated
<1> QED
  BY <1>1 DEF Silent

-----------------------------------------------------------------------------
(* What a call does to time.                                                *)

LEMMA EscrowTime == EscrowNext => Tick \/ UNCHANGED now
  BY Zenon DEF EscrowNext, CreateEscrow, FundEscrow, ReleaseFunds, StartDispute, ResolveDispute, RefundBuyer,
     CancelEscrow, PayFromEscrow, Transfer, hostVars

LEMMA MultisigTime == MultisigNext => UNCHANGED now
<1>1. ASSUME NEW first, NEW needed, InitializeMultisig(first, needed) \/ ChangeThreshold(needed)
      PROVE  UNCHANGED now
  BY <1>1, Zenon DEF InitializeMultisig, ChangeThreshold, hostVars
<1>2. ASSUME NEW a, AddSigner(a) \/ RemoveSigner(a) PROVE UNCHANGED now
  BY <1>2, Zenon DEF AddSigner, RemoveSigner, hostVars
<1>3. ASSUME NEW a, NEW asset, NEW amount, NEW to,
             FundWallet(a, asset, amount) \/ CreateTransaction(a, to, asset, amount)
      PROVE  UNCHANGED now
  BY <1>3, Zenon DEF FundWallet, CreateTransaction, Transfer, hostVars
<1>4. ASSUME NEW a, NEW id, Approve(a, id) \/ Execute(id) PROVE UNCHANGED now
  BY <1>4, Zenon DEF Approve, Execute, Transfer, hostVars
<1> QED
  BY <1>1, <1>2, <1>3, <1>4, Zenon DEF MultisigNext

LEMMA PayrollTime == PayrollContractNext => UNCHANGED now
<1>1. ASSUME NEW id, NEW a, Distribute(id) \/ CancelBatch(id) \/ FundBatch(id, a)
      PROVE  UNCHANGED now
  BY <1>1, Zenon DEF Distribute, CancelBatch, FundBatch, Transfer, hostVars
<1>2. ASSUME NEW id, NEW a, NEW n, AddRecipient(id, a, n) \/ CreateBatch(a, n)
      PROVE  UNCHANGED now
  BY <1>2, Zenon DEF AddRecipient, CreateBatch, hostVars
<1> QED
  BY <1>1, <1>2, Zenon DEF PayrollContractNext, InitializePayroll, hostVars

LEMMA VestingTime == VestingNext => Tick \/ UNCHANGED now
<1>1. ASSUME NEW id, NEW a, ClaimVested(id) \/ RevokeVesting(id) \/ TransferVesting(id, a)
      PROVE  UNCHANGED now
  BY <1>1, Zenon DEF ClaimVested, RevokeVesting, TransferVesting, Transfer, hostVars
<1>2. ASSUME NEW a, PauseVesting(a) \/ UnpauseVesting(a) PROVE UNCHANGED now
  BY <1>2, Zenon DEF PauseVesting, UnpauseVesting, hostVars
<1>3. ASSUME NEW a, NEW b, NEW asset, NEW n, NEW terms, CreateVesting(a, b, asset, n, terms)
      PROVE  UNCHANGED now
  BY <1>3, Zenon DEF CreateVesting, Transfer
<1> QED
  BY <1>1, <1>2, <1>3, Zenon DEF VestingNext, InitializeVesting, hostVars

LEMMA TreasuryTime == TreasuryNext => Tick \/ UNCHANGED now
<1>1. ASSUME NEW id, NEW named, ExecuteWithdrawal(id) \/ EmergencyOverride(id, named) \/ CancelWithdrawal(id)
      PROVE  UNCHANGED now
  BY <1>1, Zenon DEF ExecuteWithdrawal, EmergencyOverride, CancelWithdrawal, PayWithdrawal, Transfer, hostVars
<1>2. ASSUME NEW a, NEW asset, NEW n,
             \/ Deposit(a, asset, n) \/ DisableTimelock(a, asset)
             \/ SetTimelock(a, asset, n) \/ RequestWithdrawal(a, asset, n)
             \/ SetEmergencyApprovers(a, asset, n)
      PROVE  UNCHANGED now
  BY <1>2, Zenon DEF Deposit, DisableTimelock, SetTimelock, RequestWithdrawal, SetEmergencyApprovers, Transfer, hostVars
<1> QED
  BY <1>1, <1>2, Zenon DEF TreasuryNext, InitializeTreasury, hostVars

LEMMA GovernanceTime == GovernanceNext => Tick \/ UNCHANGED now
<1>1. ASSUME NEW a, NEW b, NEW n, TradeToken(a, b, n) \/ Delegate(a, b)
      PROVE  UNCHANGED now
  BY <1>1, Zenon DEF TradeToken, Delegate, Transfer, hostVars
<1>2. ASSUME NEW a, NEW w, NEW q, NEW t, CreateProposal(a, w, q, t) PROVE UNCHANGED now
  BY <1>2, Zenon DEF CreateProposal, hostVars
<1>3. ASSUME NEW id, NEW a, NEW support, ExecuteProposal(id) \/ CastVote(a, id, support)
      PROVE  UNCHANGED now
  BY <1>3, Zenon DEF ExecuteProposal, CastVote, CountVote, hostVars
<1> QED
  BY <1>1, <1>2, <1>3, Zenon DEF GovernanceNext, InitializeGovernance, hostVars

LEMMA StakingTime == StakingNext => Tick \/ UNCHANGED now
<1>1. ASSUME NEW a, NEW t, ClaimRewards(a, t) \/ FundRewards(a, t) PROVE UNCHANGED now
  BY <1>1, Zenon DEF ClaimRewards, FundRewards, Transfer, hostVars
<1>2. ASSUME NEW a, NEW t, NEW n, NEW duration, Unstake(a, t, n) \/ Stake(a, t, n, duration)
      PROVE  UNCHANGED now
  BY <1>2, Zenon DEF Unstake, Stake, Transfer, hostVars
<1>3. ASSUME NEW a, NEW t, NEW rate, NEW r, NEW min,
             SetRewardRate(a, t, rate) \/ SetRewardConfig(a, t, r, rate, min)
      PROVE  UNCHANGED now
  BY <1>3, Zenon DEF SetRewardRate, SetRewardConfig, hostVars
<1> QED
  BY <1>1, <1>2, <1>3, Zenon DEF StakingNext, InitializeStaking, hostVars

LEMMA BridgeTime == BridgeNext => UNCHANGED now
<1>1. ASSUME NEW a, NEW asset, NEW to, NEW n,
             LockAsset(a, asset, n) \/ BurnWrapped(a, asset, to, n) \/ WithdrawFees(a, asset, to, n)
      PROVE  UNCHANGED now
  BY <1>1, Zenon DEF LockAsset, BurnWrapped, WithdrawFees, Transfer
<1>2. ASSUME NEW id, NEW proof, NEW issuer, UnlockAsset(id, proof) \/ MintWrapped(id, proof, issuer)
      PROVE  UNCHANGED now
  BY <1>2, Zenon DEF UnlockAsset, MintWrapped, Transfer
<1>3. ASSUME NEW a, NEW keys, NEW n,
             \/ SetAssetPair(a, keys, n) \/ MigrateStorage(a) \/ SetBridgeFee(a, n)
             \/ SetSigners(a, keys, n)
      PROVE  UNCHANGED now
  BY <1>3, Zenon DEF SetAssetPair, MigrateStorage, SetBridgeFee, SetSigners, hostVars
<1> QED
  BY <1>1, <1>2, <1>3, Zenon DEF BridgeNext, InitializeBridge, hostVars

LEMMA SwapTime == SwapNext => UNCHANGED now
<1>1. ASSUME NEW pair, NEW a, NEW n, NEW in,
             AddLiquidity(a, pair, n) \/ RemoveLiquidity(a, pair, n) \/ SwapAssets(a, pair, n, in)
      PROVE  UNCHANGED now
  BY <1>1, Zenon DEF AddLiquidity, RemoveLiquidity, SwapAssets, TransferBoth
<1>2. ASSUME NEW pair, CreatePool(pair) PROVE UNCHANGED now
  BY <1>2, Zenon DEF CreatePool, hostVars
<1> QED
  BY <1>1, <1>2, Zenon DEF SwapNext, InitializeSwap, hostVars

-----------------------------------------------------------------------------
(* The invariant of the ledger.                                             *)

\* Every contract is as sound as its own proofs say.
AllSound ==
  /\ EscrowSound /\ EscrowCovered
  /\ MultisigSound
  /\ BatchesSound /\ BatchesCovered
  /\ VestingSound /\ VestingCovered
  /\ TreasurySound /\ GovernanceSound /\ StakingSound /\ BridgeSound
  /\ TokenSound /\ SwapSound /\ OracleSound /\ BatchSound /\ UpgradeSound

LedgerInv ==
  /\ HostTypeOK
  /\ stakingReady \in BOOLEAN /\ tokenReady \in BOOLEAN
  /\ AllSound

\* No contract lies where another keeps its money.
LEMMA Apart ==
  ASSUME NEW c \in Names
  PROVE  /\ c # "escrow" => EscrowAt \notin Home(c)
         /\ c # "multisig" => MultisigAt \notin Home(c)
         /\ c # "payroll" => PayrollAt \notin Home(c)
         /\ c # "vesting" => VestingAt \notin Home(c)
         /\ c # "treasury" => TreasuryAt \notin Home(c)
         /\ c # "staking" => StakingAt \notin Home(c)
         /\ c # "bridge" => BridgeAt \notin Home(c)
         /\ c # "swap" => SwapAt \notin Home(c)
<1> DEFINE at == <<EscrowAt, MultisigAt, PayrollAt, VestingAt, TreasuryAt, StakingAt, BridgeAt, SwapAt>>
<1>1. \A i, j \in 1..8 : at[i] = at[j] => i = j
  BY LedgerAssumption
<1>2. /\ at[1] = EscrowAt /\ at[2] = MultisigAt /\ at[3] = PayrollAt /\ at[4] = VestingAt
      /\ at[5] = TreasuryAt /\ at[6] = StakingAt /\ at[7] = BridgeAt /\ at[8] = SwapAt
  OBVIOUS
<1> HIDE DEF at
<1>3. /\ \A j \in 2..8 : at[j] # at[1]
      /\ \A j \in 3..8 : at[j] # at[2]
      /\ \A j \in 4..8 : at[j] # at[3]
      /\ \A j \in 5..8 : at[j] # at[4]
      /\ \A j \in 6..8 : at[j] # at[5]
      /\ \A j \in 7..8 : at[j] # at[6]
      /\ at[8] # at[7]
  BY <1>1
<1>4. /\ EscrowAt \notin {MultisigAt, PayrollAt, VestingAt, TreasuryAt, StakingAt, BridgeAt, SwapAt}
      /\ MultisigAt \notin {PayrollAt, VestingAt, TreasuryAt, StakingAt, BridgeAt, SwapAt}
      /\ PayrollAt \notin {VestingAt, TreasuryAt, StakingAt, BridgeAt, SwapAt}
      /\ VestingAt \notin {TreasuryAt, StakingAt, BridgeAt, SwapAt}
      /\ TreasuryAt \notin {StakingAt, BridgeAt, SwapAt}
      /\ StakingAt \notin {BridgeAt, SwapAt}
      /\ BridgeAt # SwapAt
  BY <1>2, <1>3
<1>5. CASE c = "escrow"
  <2>1. Home(c) = {EscrowAt}
    BY <1>5 DEF Home
  <2> QED
    BY <1>4, <1>5, <2>1
<1>6. CASE c = "multisig"
  <2>1. Home(c) = {MultisigAt}
    BY <1>6 DEF Home
  <2> QED
    BY <1>4, <1>6, <2>1
<1>7. CASE c = "payroll"
  <2>1. Home(c) = {PayrollAt}
    BY <1>7 DEF Home
  <2> QED
    BY <1>4, <1>7, <2>1
<1>8. CASE c = "vesting"
  <2>1. Home(c) = {VestingAt}
    BY <1>8 DEF Home
  <2> QED
    BY <1>4, <1>8, <2>1
<1>9. CASE c = "treasury"
  <2>1. Home(c) = {TreasuryAt}
    BY <1>9 DEF Home
  <2> QED
    BY <1>4, <1>9, <2>1
<1>10. CASE c = "staking"
  <2>1. Home(c) = {StakingAt}
    BY <1>10 DEF Home
  <2> QED
    BY <1>4, <1>10, <2>1
<1>11. CASE c = "bridge"
  <2>1. Home(c) = {BridgeAt}
    BY <1>11 DEF Home
  <2> QED
    BY <1>4, <1>11, <2>1
<1>12. CASE c = "swap"
  <2>1. Home(c) = {SwapAt}
    BY <1>12 DEF Home
  <2> QED
    BY <1>4, <1>12, <2>1
<1>13. CASE c \in {"governance", "token", "oracle", "executor", "upgrade"}
  <2>1. Home(c) = {}
    BY <1>13 DEF Home
  <2> QED
    BY <2>1
<1> QED
  BY <1>5, <1>6, <1>7, <1>8, <1>9, <1>10, <1>11, <1>12, <1>13 DEF Names

\* At the beginning there is money only at the bridge, if it holds deposits of the version before.
LEMMA FirstMoney ==
  ASSUME MCInit
  PROVE  /\ HostTypeOK
         /\ \A t \in Assets, c \in Contracts \ {BridgeAt} : balance[t][c] = 0
         /\ BridgeSound
<1>1. CASE "bridge" \in focus
  <2>1. BridgeInit
    BY <1>1 DEF MCInit
  <2>2. BridgeSound
    BY <2>1, BridgeBegin
  <2>3. ASSUME NEW t \in Assets, NEW c \in Contracts \ {BridgeAt}
        PROVE  balance[t][c] = 0
    <3>1. FirstBalance \in [Assets -> [Addresses -> Nat]] /\ FirstBalance[t][c] = 0
      BY SorobanAssumption DEF FirstBalance, Addresses
    <3>2. balance[t] = [FirstBalance[t] EXCEPT ![BridgeAt] = Amounts(t, {"Locked"})]
      BY <2>1 DEF BridgeInit
    <3>3. balance[t][c] = FirstBalance[t][c]
      BY <3>1, <3>2 DEF Addresses
    <3> QED
      BY <3>1, <3>3
  <2> QED
    BY <2>2, <2>3 DEF BridgeSound, BridgeKept
<1>2. CASE "bridge" \notin focus
  <2>1. HostTypeOK /\ \A t \in Assets, c \in Contracts : balance[t][c] = 0
    BY <1>2, HostStart DEF MCInit
  <2>2. NewBridge /\ BridgeAt \in Contracts
    BY <1>2, BridgeAssumption DEF MCInit
  <2> QED
    BY <2>1, <2>2, BridgeRests
<1> QED
  BY <1>1, <1>2

LEMMA LedgerBegin ==
  ASSUME MCInit
  PROVE  LedgerInv
<1>1. HostTypeOK /\ BridgeSound
  BY FirstMoney
<1>2. /\ EscrowStart /\ MultisigStart /\ PayrollContractStart /\ VestingStart /\ TreasuryStart
      /\ GovernanceStart /\ StakingStart /\ TokenStart /\ SwapStart /\ OracleStart /\ BatchStart
      /\ UpgradeStart
  BY DEF MCInit
<1>3. BridgeAt \notin {EscrowAt, PayrollAt, VestingAt, SwapAt}
  <2>1. Home("bridge") = {BridgeAt} /\ "bridge" \in Names
    BY DEF Home, Names
  <2> QED
    BY <2>1, Apart
<1>4. \A t \in Assets, c \in {EscrowAt, PayrollAt, VestingAt, SwapAt} : balance[t][c] = 0
  BY <1>3, FirstMoney, EscrowAssumption, PayrollContractAssumption, VestingAssumption, FxSwapAssumption
<1>5. EscrowSound /\ EscrowCovered
  BY <1>1, <1>2, <1>4, EscrowRests
<1>6. BatchesSound /\ BatchesCovered
  BY <1>1, <1>2, <1>4, PayrollRests
<1>7. VestingSound /\ VestingCovered
  BY <1>1, <1>2, <1>4, VestingRests
<1>8. SwapSound
  BY <1>1, <1>2, <1>4, SwapRests
<1>9. MultisigSound /\ TreasurySound /\ GovernanceSound /\ StakingSound
  BY <1>1, <1>2, MultisigRests, TreasuryRests, GovernanceRests, StakingRests
<1>10. TokenSound /\ OracleSound /\ BatchSound /\ UpgradeSound
  BY <1>1, <1>2, TokenRests, OracleRests, BatchRests, UpgradeRests
<1>11. stakingReady \in BOOLEAN /\ tokenReady \in BOOLEAN
  BY <1>2 DEF StakingStart, TokenStart
<1> QED
  BY <1>1, <1>5, <1>6, <1>7, <1>8, <1>9, <1>10, <1>11 DEF LedgerInv, AllSound

\* In a step one contract is called: it pays from its own, and time does not go back.
Dealt(c) ==
  /\ Only(c) /\ TimePasses /\ Undisturbed(Home(c))
  /\ c = "escrow" => EscrowNext
  /\ c = "multisig" => MultisigNext
  /\ c = "payroll" => PayrollContractNext
  /\ c = "vesting" => VestingNext
  /\ c = "treasury" => TreasuryNext
  /\ c = "governance" => GovernanceNext
  /\ c = "staking" => StakingNext
  /\ c = "bridge" => BridgeNext
  /\ c = "token" => TokenNext
  /\ c = "swap" => SwapNext
  /\ c = "oracle" => OracleNext
  /\ c = "executor" => BatchNext
  /\ c = "upgrade" => UpgradeNext

LEMMA CallKeeps ==
  ASSUME LedgerInv, MCNext
  PROVE  \E c \in Names : Dealt(c)
<1>0. HostTypeOK /\ AllSound /\ (now' = now => now' >= now)
  BY DEF LedgerInv, HostTypeOK
<1>1. CASE EscrowNext /\ Only("escrow")
  <2>1. Home("escrow") = {EscrowAt} /\ "escrow" \in Names
    BY DEF Home, Names
  <2>2. EscrowSound
    BY <1>0 DEF AllSound
  <2>3. HostTypeOK'
    BY <1>1, <2>2, EscrowStep DEF EscrowSound
  <2>4. now' >= now
    BY <1>0, <1>1, EscrowTime, TickTyped
  <2>5. Undisturbed({EscrowAt})
    BY <1>1, <2>2, EscrowPays
  <2> QED
    BY <1>1, <2>1, <2>3, <2>4, <2>5 DEF Dealt, TimePasses
<1>2. CASE MultisigNext /\ Only("multisig")
  <2>1. Home("multisig") = {MultisigAt} /\ "multisig" \in Names
    BY DEF Home, Names
  <2>2. MultisigSound
    BY <1>0 DEF AllSound
  <2>3. HostTypeOK'
    BY <1>2, <2>2, MultisigStep DEF MultisigSound
  <2>4. now' >= now
    BY <1>0, <1>2, MultisigTime, TickTyped
  <2>5. Undisturbed({MultisigAt})
    BY <1>2, <2>2, MultisigPays
  <2> QED
    BY <1>2, <2>1, <2>3, <2>4, <2>5 DEF Dealt, TimePasses
<1>3. CASE PayrollContractNext /\ Only("payroll")
  <2>1. Home("payroll") = {PayrollAt} /\ "payroll" \in Names
    BY DEF Home, Names
  <2>2. BatchesSound /\ BatchesCovered
    BY <1>0 DEF AllSound
  <2>3. HostTypeOK'
    BY <1>3, <2>2, PayrollContractStep DEF BatchesSound, PayrollKept
  <2>4. now' >= now
    BY <1>0, <1>3, PayrollTime, TickTyped
  <2>5. Undisturbed({PayrollAt})
    BY <1>3, <2>2, PayrollPays
  <2> QED
    BY <1>3, <2>1, <2>3, <2>4, <2>5 DEF Dealt, TimePasses
<1>4. CASE VestingNext /\ Only("vesting")
  <2>1. Home("vesting") = {VestingAt} /\ "vesting" \in Names
    BY DEF Home, Names
  <2>2. VestingSound /\ VestingCovered
    BY <1>0 DEF AllSound
  <2>3. HostTypeOK'
    BY <1>4, <2>2, VestingStep DEF VestingSound, VestingKept
  <2>4. now' >= now
    BY <1>0, <1>4, VestingTime, TickTyped
  <2>5. Undisturbed({VestingAt})
    BY <1>4, <2>2, VestingPays
  <2> QED
    BY <1>4, <2>1, <2>3, <2>4, <2>5 DEF Dealt, TimePasses
<1>5. CASE TreasuryNext /\ Only("treasury")
  <2>1. Home("treasury") = {TreasuryAt} /\ "treasury" \in Names
    BY DEF Home, Names
  <2>2. TreasurySound
    BY <1>0 DEF AllSound
  <2>3. HostTypeOK'
    BY <1>5, <2>2, TreasuryStep DEF TreasurySound
  <2>4. now' >= now
    BY <1>0, <1>5, TreasuryTime, TickTyped
  <2>5. Undisturbed({TreasuryAt})
    BY <1>5, <2>2, TreasuryPays
  <2> QED
    BY <1>5, <2>1, <2>3, <2>4, <2>5 DEF Dealt, TimePasses
<1>6. CASE GovernanceNext /\ Only("governance")
  <2>1. Home("governance") = {} /\ "governance" \in Names
    BY DEF Home, Names
  <2>2. GovernanceSound
    BY <1>0 DEF AllSound
  <2>3. HostTypeOK'
    BY <1>6, <2>2, GovernanceStep DEF GovernanceSound
  <2>4. now' >= now
    BY <1>0, <1>6, GovernanceTime, TickTyped
  <2>5. Undisturbed({})
    BY <1>6, <2>2, GovernancePays
  <2> QED
    BY <1>6, <2>1, <2>3, <2>4, <2>5 DEF Dealt, TimePasses
<1>7. CASE StakingNext /\ Only("staking")
  <2>1. Home("staking") = {StakingAt} /\ "staking" \in Names
    BY DEF Home, Names
  <2>2. StakingSound
    BY <1>0 DEF AllSound
  <2>3. HostTypeOK'
    BY <1>7, <2>2, StakingStep DEF StakingSound, StakingKept
  <2>4. now' >= now
    BY <1>0, <1>7, StakingTime, TickTyped
  <2>5. Undisturbed({StakingAt})
    BY <1>7, <2>2, StakingPays
  <2> QED
    BY <1>7, <2>1, <2>3, <2>4, <2>5 DEF Dealt, TimePasses
<1>8. CASE BridgeNext /\ Only("bridge")
  <2>1. Home("bridge") = {BridgeAt} /\ "bridge" \in Names
    BY DEF Home, Names
  <2>2. BridgeSound
    BY <1>0 DEF AllSound
  <2>3. HostTypeOK'
    BY <1>8, <2>2, BridgeStep DEF BridgeSound, BridgeKept
  <2>4. now' >= now
    BY <1>0, <1>8, BridgeTime, TickTyped
  <2>5. Undisturbed({BridgeAt})
    BY <1>8, <2>2, BridgePays
  <2> QED
    BY <1>8, <2>1, <2>3, <2>4, <2>5 DEF Dealt, TimePasses
<1>9. CASE TokenNext /\ Only("token")
  <2>1. Home("token") = {} /\ "token" \in Names
    BY DEF Home, Names
  <2>2. Undisturbed({}) /\ (Tick \/ UNCHANGED hostVars)
    BY <1>9, OthersPay
  <2>3. HostTypeOK' /\ now' >= now
    BY <1>0, <2>2, TickTyped DEF HostTypeOK, hostVars
  <2> QED
    BY <1>9, <2>1, <2>2, <2>3 DEF Dealt, TimePasses
<1>10. CASE SwapNext /\ Only("swap")
  <2>1. Home("swap") = {SwapAt} /\ "swap" \in Names
    BY DEF Home, Names
  <2>2. SwapSound
    BY <1>0 DEF AllSound
  <2>3. HostTypeOK'
    BY <1>10, <2>2, SwapStep DEF SwapSound
  <2>4. now' >= now
    BY <1>0, <1>10, SwapTime, TickTyped
  <2>5. Undisturbed({SwapAt})
    BY <1>10, <2>2, SwapPays
  <2> QED
    BY <1>10, <2>1, <2>3, <2>4, <2>5 DEF Dealt, TimePasses
<1>11. CASE OracleNext /\ Only("oracle")
  <2>1. Home("oracle") = {} /\ "oracle" \in Names
    BY DEF Home, Names
  <2>2. Undisturbed({}) /\ (Tick \/ UNCHANGED hostVars)
    BY <1>11, OthersPay
  <2>3. HostTypeOK' /\ now' >= now
    BY <1>0, <2>2, TickTyped DEF HostTypeOK, hostVars
  <2> QED
    BY <1>11, <2>1, <2>2, <2>3 DEF Dealt, TimePasses
<1>12. CASE BatchNext /\ Only("executor")
  <2>1. Home("executor") = {} /\ "executor" \in Names
    BY DEF Home, Names
  <2>2. Undisturbed({}) /\ (Tick \/ UNCHANGED hostVars)
    BY <1>12, OthersPay
  <2>3. HostTypeOK' /\ now' >= now
    BY <1>0, <2>2, TickTyped DEF HostTypeOK, hostVars
  <2> QED
    BY <1>12, <2>1, <2>2, <2>3 DEF Dealt, TimePasses
<1>13. CASE UpgradeNext /\ Only("upgrade")
  <2>1. Home("upgrade") = {} /\ "upgrade" \in Names
    BY DEF Home, Names
  <2>2. Undisturbed({}) /\ (Tick \/ UNCHANGED hostVars)
    BY <1>13, OthersPay
  <2>3. HostTypeOK' /\ now' >= now
    BY <1>0, <2>2, TickTyped DEF HostTypeOK, hostVars
  <2> QED
    BY <1>13, <2>1, <2>2, <2>3 DEF Dealt, TimePasses
<1> QED
  BY <1>1, <1>2, <1>3, <1>4, <1>5, <1>6, <1>7, <1>8, <1>9, <1>10, <1>11, <1>12, <1>13 DEF MCNext

\* To each contract a step of the ledger is a call of it, or it stands aside.
LEMMA CalledOrAside ==
  ASSUME LedgerInv, [MCNext]_ledgerVars
  PROVE  /\ [EscrowNext]_escrowVars \/ (Aside(EscrowAt) /\ UNCHANGED escrows)
         /\ [MultisigNext]_multisigVars \/ (Aside(MultisigAt) /\ UNCHANGED <<signers, threshold, transactions>>)
         /\ [PayrollContractNext]_payrollContractVars \/ (Aside(PayrollAt) /\ UNCHANGED <<payrollReady, batches>>)
         /\ [VestingNext]_vestingVars \/ (Aside(VestingAt) /\ UNCHANGED <<vestingPaused, schedules>>)
         /\ [TreasuryNext]_treasuryVars \/ (Aside(TreasuryAt) /\ UNCHANGED <<treasuryReady, timelocks, emergency, withdrawals>>)
         /\ [GovernanceNext]_governanceVars \/ (TimePasses /\ UNCHANGED <<governanceReady, proposals, ballots, delegation, delegatedPower>>)
         /\ [StakingNext]_stakingVars \/ (Aside(StakingAt) /\ UNCHANGED <<stakingReady, rewardConfig, positions, rewardsLeft>>)
         /\ [BridgeNext]_bridgeVars \/ (Aside(BridgeAt) /\ UNCHANGED <<storageVersion, migrationCursor, configVars, feesCollected, requests>>)
         /\ [TokenNext]_tokenVars \/ (TimePasses /\ UNCHANGED <<tokenReady, supply, held, allowance, drawn>>)
         /\ [SwapNext]_swapVars \/ (Aside(SwapAt) /\ UNCHANGED <<swapReady, pools, lpBalance>>)
         /\ [OracleNext]_oracleVars \/ (TimePasses /\ UNCHANGED <<oracleReady, providerOrder, providers, prices>>)
         /\ [BatchNext]_batchVars \/ (TimePasses /\ UNCHANGED <<batchOps, calls, failing>>)
         /\ [UpgradeNext]_upgradeVars \/ (TimePasses /\ UNCHANGED <<upgrades, wasm, previousWasm, version>>)
<1>1. CASE UNCHANGED ledgerVars
  <2>1. UNCHANGED escrowVars
    BY <1>1 DEF ledgerVars, escrowVars
  <2>2. UNCHANGED multisigVars
    BY <1>1 DEF ledgerVars, multisigVars
  <2>3. UNCHANGED payrollContractVars
    BY <1>1 DEF ledgerVars, payrollContractVars
  <2>4. UNCHANGED vestingVars
    BY <1>1 DEF ledgerVars, vestingVars
  <2>5. UNCHANGED treasuryVars
    BY <1>1 DEF ledgerVars, treasuryVars
  <2>6. UNCHANGED governanceVars
    BY <1>1 DEF ledgerVars, governanceVars
  <2>7. UNCHANGED stakingVars
    BY <1>1 DEF ledgerVars, stakingVars
  <2>8. UNCHANGED bridgeVars
    BY <1>1 DEF ledgerVars, bridgeVars
  <2>9. UNCHANGED tokenVars
    BY <1>1 DEF ledgerVars, tokenVars
  <2>10. UNCHANGED swapVars
    BY <1>1 DEF ledgerVars, swapVars
  <2>11. UNCHANGED oracleVars
    BY <1>1 DEF ledgerVars, oracleVars
  <2>12. UNCHANGED batchVars
    BY <1>1 DEF ledgerVars, batchVars
  <2>13. UNCHANGED upgradeVars
    BY <1>1 DEF ledgerVars, upgradeVars
  <2> QED
    BY <2>1, <2>2, <2>3, <2>4, <2>5, <2>6, <2>7, <2>8, <2>9, <2>10, <2>11, <2>12, <2>13
<1>2. CASE MCNext
  <2>1. PICK c \in Names : Dealt(c)
    BY <1>2, CallKeeps
  <2>2. ASSUME NEW at \in Contracts, at \notin Home(c) PROVE Aside(at)
    BY <2>1, <2>2 DEF Dealt, Undisturbed, Aside
  <2>3. [EscrowNext]_escrowVars \/ (Aside(EscrowAt) /\ UNCHANGED escrows)
    <3>1. CASE c = "escrow"
      BY <2>1, <3>1 DEF Dealt
    <3>2. CASE c # "escrow"
      <4>1. UNCHANGED escrows /\ TimePasses
        BY <2>1, <3>2 DEF Dealt, Only
      <4> QED
        BY <2>2, <3>2, <4>1, Apart, EscrowAssumption
    <3> QED
      BY <3>1, <3>2
  <2>4. [MultisigNext]_multisigVars \/ (Aside(MultisigAt) /\ UNCHANGED <<signers, threshold, transactions>>)
    <3>1. CASE c = "multisig"
      BY <2>1, <3>1 DEF Dealt
    <3>2. CASE c # "multisig"
      <4>1. UNCHANGED <<signers, threshold, transactions>> /\ TimePasses
        BY <2>1, <3>2 DEF Dealt, Only
      <4> QED
        BY <2>2, <3>2, <4>1, Apart, MultisigAssumption
    <3> QED
      BY <3>1, <3>2
  <2>5. [PayrollContractNext]_payrollContractVars \/ (Aside(PayrollAt) /\ UNCHANGED <<payrollReady, batches>>)
    <3>1. CASE c = "payroll"
      BY <2>1, <3>1 DEF Dealt
    <3>2. CASE c # "payroll"
      <4>1. UNCHANGED <<payrollReady, batches>> /\ TimePasses
        BY <2>1, <3>2 DEF Dealt, Only
      <4> QED
        BY <2>2, <3>2, <4>1, Apart, PayrollContractAssumption
    <3> QED
      BY <3>1, <3>2
  <2>6. [VestingNext]_vestingVars \/ (Aside(VestingAt) /\ UNCHANGED <<vestingPaused, schedules>>)
    <3>1. CASE c = "vesting"
      BY <2>1, <3>1 DEF Dealt
    <3>2. CASE c # "vesting"
      <4>1. UNCHANGED <<vestingPaused, schedules>> /\ TimePasses
        BY <2>1, <3>2 DEF Dealt, Only
      <4> QED
        BY <2>2, <3>2, <4>1, Apart, VestingAssumption
    <3> QED
      BY <3>1, <3>2
  <2>7. [TreasuryNext]_treasuryVars \/ (Aside(TreasuryAt) /\ UNCHANGED <<treasuryReady, timelocks, emergency, withdrawals>>)
    <3>1. CASE c = "treasury"
      BY <2>1, <3>1 DEF Dealt
    <3>2. CASE c # "treasury"
      <4>1. UNCHANGED <<treasuryReady, timelocks, emergency, withdrawals>> /\ TimePasses
        BY <2>1, <3>2 DEF Dealt, Only
      <4> QED
        BY <2>2, <3>2, <4>1, Apart, TreasuryAssumption
    <3> QED
      BY <3>1, <3>2
  <2>8. [GovernanceNext]_governanceVars \/ (TimePasses /\ UNCHANGED <<governanceReady, proposals, ballots, delegation, delegatedPower>>)
    <3>1. CASE c = "governance"
      BY <2>1, <3>1 DEF Dealt
    <3>2. CASE c # "governance"
      <4>1. UNCHANGED <<governanceReady, proposals, ballots, delegation, delegatedPower>> /\ TimePasses
        BY <2>1, <3>2 DEF Dealt, Only
      <4> QED
        BY <4>1
    <3> QED
      BY <3>1, <3>2
  <2>9. [StakingNext]_stakingVars \/ (Aside(StakingAt) /\ UNCHANGED <<stakingReady, rewardConfig, positions, rewardsLeft>>)
    <3>1. CASE c = "staking"
      BY <2>1, <3>1 DEF Dealt
    <3>2. CASE c # "staking"
      <4>1. UNCHANGED <<stakingReady, rewardConfig, positions, rewardsLeft>> /\ TimePasses
        BY <2>1, <3>2 DEF Dealt, Only
      <4> QED
        BY <2>2, <3>2, <4>1, Apart, StakingAssumption
    <3> QED
      BY <3>1, <3>2
  <2>10. [BridgeNext]_bridgeVars \/ (Aside(BridgeAt) /\ UNCHANGED <<storageVersion, migrationCursor, configVars, feesCollected, requests>>)
    <3>1. CASE c = "bridge"
      BY <2>1, <3>1 DEF Dealt
    <3>2. CASE c # "bridge"
      <4>1. UNCHANGED <<storageVersion, migrationCursor, configVars, feesCollected, requests>> /\ TimePasses
        BY <2>1, <3>2 DEF Dealt, Only
      <4> QED
        BY <2>2, <3>2, <4>1, Apart, BridgeAssumption
    <3> QED
      BY <3>1, <3>2
  <2>11. [TokenNext]_tokenVars \/ (TimePasses /\ UNCHANGED <<tokenReady, supply, held, allowance, drawn>>)
    <3>1. CASE c = "token"
      BY <2>1, <3>1 DEF Dealt
    <3>2. CASE c # "token"
      <4>1. UNCHANGED <<tokenReady, supply, held, allowance, drawn>> /\ TimePasses
        BY <2>1, <3>2 DEF Dealt, Only
      <4> QED
        BY <4>1
    <3> QED
      BY <3>1, <3>2
  <2>12. [SwapNext]_swapVars \/ (Aside(SwapAt) /\ UNCHANGED <<swapReady, pools, lpBalance>>)
    <3>1. CASE c = "swap"
      BY <2>1, <3>1 DEF Dealt
    <3>2. CASE c # "swap"
      <4>1. UNCHANGED <<swapReady, pools, lpBalance>> /\ TimePasses
        BY <2>1, <3>2 DEF Dealt, Only
      <4> QED
        BY <2>2, <3>2, <4>1, Apart, FxSwapAssumption
    <3> QED
      BY <3>1, <3>2
  <2>13. [OracleNext]_oracleVars \/ (TimePasses /\ UNCHANGED <<oracleReady, providerOrder, providers, prices>>)
    <3>1. CASE c = "oracle"
      BY <2>1, <3>1 DEF Dealt
    <3>2. CASE c # "oracle"
      <4>1. UNCHANGED <<oracleReady, providerOrder, providers, prices>> /\ TimePasses
        BY <2>1, <3>2 DEF Dealt, Only
      <4> QED
        BY <4>1
    <3> QED
      BY <3>1, <3>2
  <2>14. [BatchNext]_batchVars \/ (TimePasses /\ UNCHANGED <<batchOps, calls, failing>>)
    <3>1. CASE c = "executor"
      BY <2>1, <3>1 DEF Dealt
    <3>2. CASE c # "executor"
      <4>1. UNCHANGED <<batchOps, calls, failing>> /\ TimePasses
        BY <2>1, <3>2 DEF Dealt, Only
      <4> QED
        BY <4>1
    <3> QED
      BY <3>1, <3>2
  <2>15. [UpgradeNext]_upgradeVars \/ (TimePasses /\ UNCHANGED <<upgrades, wasm, previousWasm, version>>)
    <3>1. CASE c = "upgrade"
      BY <2>1, <3>1 DEF Dealt
    <3>2. CASE c # "upgrade"
      <4>1. UNCHANGED <<upgrades, wasm, previousWasm, version>> /\ TimePasses
        BY <2>1, <3>2 DEF Dealt, Only
      <4> QED
        BY <4>1
    <3> QED
      BY <3>1, <3>2
  <2> QED
    BY <2>3, <2>4, <2>5, <2>6, <2>7, <2>8, <2>9, <2>10, <2>11, <2>12, <2>13, <2>14, <2>15
<1> QED
  BY <1>1, <1>2

LEMMA ReadyStays ==
  ASSUME LedgerInv, [MCNext]_ledgerVars
  PROVE  stakingReady' \in BOOLEAN /\ tokenReady' \in BOOLEAN
<1>1. StakingNext => stakingReady' = stakingReady \/ stakingReady' = TRUE
  <2>1. ASSUME NEW a, NEW t, ClaimRewards(a, t) \/ FundRewards(a, t)
        PROVE  stakingReady' = stakingReady
    BY <2>1 DEF ClaimRewards, FundRewards
  <2>2. ASSUME NEW a, NEW t, NEW amount, NEW duration, Unstake(a, t, amount) \/ Stake(a, t, amount, duration)
        PROVE  stakingReady' = stakingReady
    BY <2>2 DEF Unstake, Stake
  <2>3. ASSUME NEW a, NEW t, NEW rate, NEW r, NEW min,
               SetRewardRate(a, t, rate) \/ SetRewardConfig(a, t, r, rate, min)
        PROVE  stakingReady' = stakingReady
    BY <2>3 DEF SetRewardRate, SetRewardConfig
  <2> QED
    BY <2>1, <2>2, <2>3, Zenon DEF StakingNext, InitializeStaking
<1>2. TokenNext => tokenReady' = tokenReady \/ tokenReady' = TRUE
  BY Zenon DEF TokenNext, InitializeToken, Mint, Burn, TransferTokens, TransferFrom, ApproveSpender
<1>3. stakingReady' = stakingReady \/ stakingReady' = TRUE
  BY <1>1, CalledOrAside DEF stakingVars
<1>4. tokenReady' = tokenReady \/ tokenReady' = TRUE
  BY <1>2, CalledOrAside DEF tokenVars
<1> QED
  BY <1>3, <1>4 DEF LedgerInv

\* Every contract stays as sound as its own proofs say, whoever is called.
LEMMA LedgerStep ==
  ASSUME LedgerInv, [MCNext]_ledgerVars
  PROVE  LedgerInv'
<1>1. AllSound
  BY DEF LedgerInv
<1>2. EscrowSound' /\ EscrowCovered'
  BY <1>1, CalledOrAside, EscrowStep, CoveredStep, EscrowAside DEF AllSound
<1>3. MultisigSound'
  BY <1>1, CalledOrAside, MultisigStep, MultisigAside DEF AllSound, Aside
<1>4. BatchesSound' /\ BatchesCovered'
  BY <1>1, CalledOrAside, PayrollContractStep, PayrollAside DEF AllSound, PayrollKept
<1>5. VestingSound' /\ VestingCovered'
  BY <1>1, CalledOrAside, VestingStep, VestingAside DEF AllSound, VestingKept
<1>6. TreasurySound'
  BY <1>1, CalledOrAside, TreasuryStep, TreasuryAside DEF AllSound, Aside
<1>7. GovernanceSound'
  BY <1>1, CalledOrAside, GovernanceStep, GovernanceAside DEF AllSound
<1>8. StakingSound'
  BY <1>1, CalledOrAside, StakingStep, StakingAside DEF AllSound, StakingKept, Aside
<1>9. BridgeSound'
  BY <1>1, CalledOrAside, BridgeStep, BridgeAside DEF AllSound
<1>10. TokenSound'
  BY <1>1, CalledOrAside, TokenStep, TokenAside DEF AllSound
<1>11. SwapSound'
  BY <1>1, CalledOrAside, SwapStep, SwapAside DEF AllSound
<1>12. OracleSound'
  BY <1>1, CalledOrAside, OracleStep, OracleAside DEF AllSound
<1>13. BatchSound'
  BY <1>1, CalledOrAside, BatchStep, BatchAside DEF AllSound
<1>14. UpgradeSound'
  BY <1>1, CalledOrAside, UpgradeStep, UpgradeAside DEF AllSound
<1>15. HostTypeOK'
  BY <1>2 DEF EscrowSound
<1> QED
  BY <1>2, <1>3, <1>4, <1>5, <1>6, <1>7, <1>8, <1>9, <1>10, <1>11, <1>12, <1>13, <1>14, <1>15, ReadyStays
  DEF LedgerInv, AllSound

-----------------------------------------------------------------------------
(* What holds of all contracts, whichever are called and in whatever order. *)

\* The invariant of the ledger: every contract is as sound as its own proofs say, however
\* calls of it are mixed with calls of the others.
THEOREM LedgerKept == MCSpec => []LedgerInv
<1>1. LedgerInv /\ [MCNext]_ledgerVars => LedgerInv'
  BY LedgerStep
<1> QED
  BY LedgerBegin, <1>1, PTL DEF MCSpec

LEMMA AllTyped ==
  ASSUME LedgerInv
  PROVE  ContractsTypeOK
<1>1. AllSound /\ stakingReady \in BOOLEAN /\ tokenReady \in BOOLEAN
  BY DEF LedgerInv
<1>2. EscrowTypeOK /\ MultisigTypeOK /\ SwapTypeOK /\ OracleTypeOK
  BY <1>1, EscrowRecordsTyped, WalletTyped, ReservesAreSums, OracleTyped DEF AllSound
<1>3. PayrollContractTypeOK
  <2>1. BatchesSound
    BY <1>1 DEF AllSound
  <2>2. \A id \in DOMAIN batches : batches[id] \in BatchRows
    BY <2>1, SeqFacts DEF BatchesSound
  <2> QED
    BY <2>1, <2>2 DEF BatchesSound, BatchRows, PayrollContractTypeOK
<1>4. VestingTypeOK
  <2>1. VestingSound
    BY <1>1 DEF AllSound
  <2>2. \A id \in DOMAIN schedules : schedules[id] \in ScheduleRows
    BY <2>1, SeqFacts DEF VestingSound
  <2> QED
    BY <2>1, <2>2 DEF VestingSound, ScheduleRows, VestingTypeOK
<1>5. TreasuryTypeOK
  <2>1. TreasurySound
    BY <1>1 DEF AllSound
  <2>2. \A id \in DOMAIN withdrawals : withdrawals[id] \in Requests
    BY <2>1, SeqFacts DEF TreasurySound
  <2> QED
    BY <2>1, <2>2 DEF TreasurySound, Requests, TreasuryTypeOK
<1>6. GovernanceTypeOK
  BY <1>1 DEF AllSound, GovernanceSound, GovernanceTypeOK
<1>7. StakingTypeOK
  BY <1>1 DEF AllSound, StakingSound, Positions, StakingTypeOK
<1>8. BridgeTypeOK
  <2>1. BridgeSound
    BY <1>1 DEF AllSound
  <2> QED
    BY <2>1, BridgeFacts DEF BridgeSound, BridgeKept, BridgeTypeOK, RequestRows
<1>9. TokenTypeOK
  BY <1>1 DEF AllSound, EscrowSound, TokenSound, Allowances, TokenTypeOK
<1> QED
  BY <1>2, <1>3, <1>4, <1>5, <1>6, <1>7, <1>8, <1>9 DEF ContractsTypeOK

LEMMA AllCovered ==
  ASSUME LedgerInv
  PROVE  EscrowCovered /\ BatchesCovered /\ VestingCovered /\ PoolAddsUp /\ SupplyIsHeld /\ ReservesAreHeld
<1>1. AllSound
  BY DEF LedgerInv
<1>2. ReservesAreHeld
  BY <1>1, ReservesAreSums DEF AllSound
<1> QED
  BY <1>1, <1>2 DEF AllSound, BridgeSound, TokenSound

\* Every contract holds at least what it owes, to everyone it owes and in all records
\* together, whichever contracts are called and in whatever order; what rewards beyond
\* their funding took from the stakes, and unlocks from the bridge's pool, is counted out.
THEOREM AllHoldWhatTheyOwe == MCSpec => []HoldsWhatItOwes
<1>1. LedgerInv => ContractsTypeOK
  BY AllTyped
<1>2. LedgerInv => EscrowCovered /\ BatchesCovered /\ VestingCovered /\ PoolAddsUp /\ SupplyIsHeld /\ ReservesAreHeld
  BY AllCovered
<1>3. MCInit => PrincipalInv
  <2>1. ASSUME MCInit PROVE HostTypeOK /\ StakingStart /\ \A t \in Assets : balance[t][StakingAt] = 0
    <3>1. Home("bridge") = {BridgeAt} /\ "bridge" \in Names /\ StakingAt # BridgeAt
      BY Apart DEF Home, Names
    <3> QED
      BY <2>1, <3>1, FirstMoney, StakingAssumption DEF MCInit
  <2> QED
    BY <2>1, PrincipalRests
<1>4. LedgerInv /\ LedgerInv' /\ PrincipalInv /\ [MCNext]_ledgerVars => PrincipalInv'
  BY CalledOrAside, PrincipalStep, PrincipalAside DEF LedgerInv, AllSound, PrincipalInv
<1>5. ContractsTypeOK /\ EscrowCovered /\ BatchesCovered /\ VestingCovered /\ PoolAddsUp /\ SupplyIsHeld /\ ReservesAreHeld
        /\ PrincipalIsHeld => HoldsWhatItOwes
  BY DEF HoldsWhatItOwes
<1>6. PrincipalInv => PrincipalIsHeld
  BY DEF PrincipalInv
<1> QED
  BY <1>1, <1>2, <1>3, <1>4, <1>5, <1>6, LedgerKept, PTL DEF MCSpec

\* A number kept beside the records it counts is their sum: delegated power, tallies,
\* liquidity tokens, what is left of a grant, the calls of a batch.
THEOREM AllCountsAddUp == MCSpec => []CountsAddUp
<1>1. LedgerInv => CountsAddUp
  <2> SUFFICES ASSUME LedgerInv PROVE CountsAddUp
    OBVIOUS
  <2>1. AllSound
    BY DEF LedgerInv
  <2>2. GovernanceSound /\ BatchSound /\ SwapSound /\ TokenSound
    BY <2>1 DEF AllSound
  <2>3. DelegationsAddUp
    BY <2>2 DEF GovernanceSound, DelegationsAddUp, Delegated, Delegators
  <2>4. TalliesAreBallots
    BY <2>2 DEF GovernanceSound, TalliesAreBallots, Powers, Votes
  <2>5. BatchAllOrNothing
    BY <2>2 DEF BatchSound, BatchAllOrNothing, Called, Done
  <2>6. LiquidityAddsUp
    BY <2>2, LiquidityIsIssued
  <2>7. GrantNotExceeded
    BY <2>2 DEF TokenSound
  <2> QED
    BY <2>3, <2>4, <2>5, <2>6, <2>7 DEF CountsAddUp
<1> QED
  BY <1>1, LedgerKept, PTL

\* The stored version names the code that runs and the layout of every stored request,
\* through upgrades, roll-backs and a migration in batches.
THEOREM AllVersionsMatch == MCSpec => []VersionsMatch
<1>1. LedgerInv => VersionsMatch
  <2> SUFFICES ASSUME LedgerInv PROVE VersionsMatch
    OBVIOUS
  <2>1. BridgeSound /\ UpgradeSound
    BY DEF LedgerInv, AllSound
  <2> QED
    BY <2>1 DEF BridgeSound, MigratedSoFar, MigratedWhole, Current, UpgradeSound, VersionNamesCode, VersionsMatch
<1> QED
  BY <1>1, LedgerKept, PTL

LEMMA BridgeOnLedger == MCSpec => PaidOncePerProof
<1>1. ASSUME LedgerInv, [MCNext]_ledgerVars
      PROVE  \A t \in Assets : LET paid == balance[t][BridgeAt] - balance'[t][BridgeAt] IN
               paid > 0 =>
                 \/ feesCollected'[t] = feesCollected[t] - paid /\ UNCHANGED requests
                 \/ /\ UNCHANGED feesCollected
                    /\ \E id \in DOMAIN requests :
                         /\ requests[id].asset = t /\ paid = requests[id].amount
                         /\ <<requests[id].status, requests'[id].status>>
                              \in {<<"Locked", "Minted">>, <<"Burned", "Unlocked">>}
                         /\ Cardinality(requests'[id].signed \cap bridgeSigners) >= signerThreshold
                         /\ \A other \in DOMAIN requests \ {id} : requests'[other] = requests[other]
  <2>1. PaysRightly
    BY <1>1, CalledOrAside, BridgePaysRightly, BridgeQuiet DEF LedgerInv, AllSound
  <2> QED
    BY <2>1, Zenon DEF PaysRightly
<1>2. LedgerInv /\ [MCNext]_ledgerVars =>
        [\A t \in Assets : LET paid == balance[t][BridgeAt] - balance'[t][BridgeAt] IN
           paid > 0 =>
             \/ feesCollected'[t] = feesCollected[t] - paid /\ UNCHANGED requests
             \/ /\ UNCHANGED feesCollected
                /\ \E id \in DOMAIN requests :
                     /\ requests[id].asset = t /\ paid = requests[id].amount
                     /\ <<requests[id].status, requests'[id].status>>
                          \in {<<"Locked", "Minted">>, <<"Burned", "Unlocked">>}
                     /\ Cardinality(requests'[id].signed \cap bridgeSigners) >= signerThreshold
                     /\ \A other \in DOMAIN requests \ {id} : requests'[other] = requests[other]]_bridgeVars
  BY <1>1
<1> QED
  BY <1>2, LedgerKept, PTL DEF MCSpec, PaidOncePerProof

LEMMA WithdrawalsOnLedger == MCSpec => WithdrawalPaidOnce
<1>1. ASSUME LedgerInv, [MCNext]_ledgerVars
      PROVE  \A t \in Assets : balance'[t][TreasuryAt] < balance[t][TreasuryAt] =>
               \E id \in DOMAIN withdrawals :
                 /\ Waiting(id) /\ withdrawals'[id].executed
                 /\ withdrawals[id].asset = t
                 /\ balance'[t] = Moved(balance[t], TreasuryAt, withdrawals[id].to, withdrawals[id].amount)
  BY <1>1, CalledOrAside, TreasuryStep, TreasuryQuiet DEF LedgerInv, AllSound
<1>2. LedgerInv /\ [MCNext]_ledgerVars => [\A t \in Assets : balance'[t][TreasuryAt] < balance[t][TreasuryAt] =>
          \E id \in DOMAIN withdrawals :
            /\ Waiting(id) /\ withdrawals'[id].executed
            /\ withdrawals[id].asset = t
            /\ balance'[t] = Moved(balance[t], TreasuryAt, withdrawals[id].to, withdrawals[id].amount)]_treasuryVars
  BY <1>1
<1> QED
  BY <1>2, LedgerKept, PTL DEF MCSpec, WithdrawalPaidOnce

LEMMA TimelocksOnLedger == MCSpec => LockHonoured
<1>1. ASSUME LedgerInv, [MCNext]_ledgerVars
      PROVE  \A id \in DOMAIN withdrawals :
               ~withdrawals[id].executed /\ withdrawals'[id].executed /\ now < withdrawals[id].unlockAt
                 => Overridable
  BY <1>1, CalledOrAside, TreasuryStep, TreasuryQuiet DEF LedgerInv, AllSound
<1>2. LedgerInv /\ [MCNext]_ledgerVars => [\A id \in DOMAIN withdrawals :
          ~withdrawals[id].executed /\ withdrawals'[id].executed /\ now < withdrawals[id].unlockAt
            => Overridable]_treasuryVars
  BY <1>1
<1> QED
  BY <1>2, LedgerKept, PTL DEF MCSpec, LockHonoured

\* Money that leaves the bridge or the treasury is one request's, once, whatever else is
\* called on the ledger.
THEOREM AllPaidOnce == MCSpec => PaidOnce
  BY BridgeOnLedger, WithdrawalsOnLedger DEF PaidOnce

LEMMA EarningsOnLedger == MCSpec => EarnedOnlyByTime
<1>1. ASSUME LedgerInv, [MCNext]_ledgerVars
      PROVE  \A a \in Accounts, t \in Assets :
               LET old == positions[a][t] IN
               Earned(positions[a][t])' = Earned(old) + old.rate * old.amount * (now' - now)
  <2>1. EarnsByTime
    BY <1>1, CalledOrAside, StakingStep, StakingAside DEF LedgerInv, AllSound, StakingKept, Aside
  <2> QED
    BY <2>1, Zenon DEF EarnsByTime
<1>2. LedgerInv /\ [MCNext]_ledgerVars => [\A a \in Accounts, t \in Assets :
          LET old == positions[a][t] IN
          Earned(positions[a][t])' = Earned(old) + old.rate * old.amount * (now' - now)]_stakingVars
  BY <1>1
<1> QED
  BY <1>2, LedgerKept, PTL DEF MCSpec, EarnedOnlyByTime

LEMMA LocksOnLedger == MCSpec => LockKept
<1>1. ASSUME LedgerInv, [MCNext]_ledgerVars
      PROVE  \A a \in Accounts, t \in Assets :
               /\ positions'[a][t].lockUntil >= positions[a][t].lockUntil
               /\ positions'[a][t].amount < positions[a][t].amount =>
                    now >= positions[a][t].lockUntil
  <2>1. KeepsLocks
    BY <1>1, CalledOrAside, StakingStep, StakingAside DEF LedgerInv, AllSound, StakingKept, Aside
  <2> QED
    BY <2>1, Zenon DEF KeepsLocks
<1>2. LedgerInv /\ [MCNext]_ledgerVars => [\A a \in Accounts, t \in Assets :
          /\ positions'[a][t].lockUntil >= positions[a][t].lockUntil
          /\ positions'[a][t].amount < positions[a][t].amount =>
               now >= positions[a][t].lockUntil]_stakingVars
  BY <1>1
<1> QED
  BY <1>2, LedgerKept, PTL DEF MCSpec, LockKept

LEMMA DelaysOnLedger == MCSpec => CodeWaitsItsDelay
<1>1. ASSUME LedgerInv, [MCNext]_ledgerVars
      PROVE  wasm' # wasm =>
               \/ wasm' = previousWasm
               \/ \E id \in DOMAIN upgrades :
                    /\ upgrades[id].status = "Scheduled" /\ upgrades[id].scheduledAt <= now
                    /\ upgrades'[id].status = "Executed" /\ upgrades[id].wasm = wasm'
  BY <1>1, CalledOrAside, UpgradeStep DEF LedgerInv, AllSound, CodeWaited
<1>2. LedgerInv /\ [MCNext]_ledgerVars => [wasm' # wasm =>
          \/ wasm' = previousWasm
          \/ \E id \in DOMAIN upgrades :
               /\ upgrades[id].status = "Scheduled" /\ upgrades[id].scheduledAt <= now
               /\ upgrades'[id].status = "Executed" /\ upgrades[id].wasm = wasm']_upgradeVars
  BY <1>1
<1> QED
  BY <1>2, LedgerKept, PTL DEF MCSpec, CodeWaitsItsDelay

\* No order of calls gets around the clock: time locks, the lock and the accrual of a stake
\* and the delay of an upgrade bind whatever else is called.
THEOREM ClockBindsAll == MCSpec => TimeBinds
  BY TimelocksOnLedger, LocksOnLedger, EarningsOnLedger, DelaysOnLedger DEF TimeBinds

LEMMA OutcomesOnLedger == MCSpec => OutcomeIsFinal
<1>1. ASSUME LedgerInv, [MCNext]_ledgerVars
      PROVE  \A id \in DOMAIN proposals :
               now >= proposals[id].end =>
                 /\ HasPassed(proposals'[id]) <=> HasPassed(proposals[id])
                 /\ proposals[id].executed => proposals'[id] = proposals[id]
  <2>1. VotesFinal
    BY <1>1, CalledOrAside, VotesStay DEF LedgerInv, AllSound, VotesFinal
  <2> QED
    BY <2>1, Zenon DEF VotesFinal
<1>2. LedgerInv /\ [MCNext]_ledgerVars => [\A id \in DOMAIN proposals :
          now >= proposals[id].end =>
            /\ HasPassed(proposals'[id]) <=> HasPassed(proposals[id])
            /\ proposals[id].executed => proposals'[id] = proposals[id]]_governanceVars
  BY <1>1
<1> QED
  BY <1>2, LedgerKept, PTL DEF MCSpec, OutcomeIsFinal

LEMMA SchedulesOnLedger == MCSpec => VestedStaysVested
<1>1. ASSUME LedgerInv, [MCNext]_ledgerVars
      PROVE  \A id \in DOMAIN schedules :
               Vested(schedules'[id], now') >= Vested(schedules[id], now)
  BY <1>1, CalledOrAside, VestingStep, VestingAside DEF LedgerInv, AllSound, VestingKept, Upwards
<1>2. LedgerInv /\ [MCNext]_ledgerVars => [\A id \in DOMAIN schedules :
          Vested(schedules'[id], now') >= Vested(schedules[id], now)]_vestingVars
  BY <1>1
<1> QED
  BY <1>2, LedgerKept, PTL DEF MCSpec, VestedStaysVested

LEMMA SilenceOnLedger == MCSpec => RevokedIsSilent
<1>1. ASSUME LedgerInv, [MCNext]_ledgerVars
      PROVE  \A p \in Accounts : ~providers[p].authorized =>
               /\ prices'[p] = prices[p]
               /\ now' = now /\ [providers EXCEPT ![p] = providers'[p]] = providers'
                  /\ ~providers'[p].authorized /\ prices' = prices
                    => GetPrice' = GetPrice /\ Aggregated' = Aggregated
  <2>1. \A p \in Accounts : Silent(p)
    BY <1>1, CalledOrAside, RevokedSilent, OracleQuiet DEF LedgerInv, AllSound
  <2> QED
    BY <2>1, Zenon DEF Silent
<1>2. LedgerInv /\ [MCNext]_ledgerVars => [\A p \in Accounts : ~providers[p].authorized =>
          /\ prices'[p] = prices[p]
          /\ now' = now /\ [providers EXCEPT ![p] = providers'[p]] = providers'
             /\ ~providers'[p].authorized /\ prices' = prices
               => GetPrice' = GetPrice /\ Aggregated' = Aggregated]_oracleVars
  BY <1>1
<1> QED
  BY <1>2, LedgerKept, PTL DEF MCSpec, RevokedIsSilent

\* What was settled stays so, whatever else is called: votes that are over, what has
\* vested, and the silence of a provider that was revoked.
THEOREM AllStaysSettled == MCSpec => NothingTakenBack
  BY OutcomesOnLedger, SchedulesOnLedger, SilenceOnLedger DEF NothingTakenBack

-----------------------------------------------------------------------------
(* What one contract promises alone it promises on the ledger. *)

\* The threshold of the wallet can always be met, whatever else is called.
LEMMA WalletUsableOnLedger == MCSpec => []ThresholdReachable
<1>1. LedgerInv => ThresholdReachable
  <2> SUFFICES ASSUME LedgerInv PROVE ThresholdReachable
    OBVIOUS
  <2>1. MultisigSound
    BY DEF LedgerInv, AllSound
  <2> QED
    BY <2>1 DEF MultisigSound, ThresholdReachable
<1> QED
  BY <1>1, LedgerKept, PTL

\* Whatever vests to the last unit when it is called alone does so on the ledger.
LEMMA AllVestsOnLedger == MCSpec => []VestsInFull
<1>1. LedgerInv => VestsInFull
  <2> SUFFICES ASSUME LedgerInv PROVE VestsInFull
    OBVIOUS
  <2>1. VestingSound
    BY DEF LedgerInv, AllSound
  <2> QED
    BY <2>1, SchedulesVest
<1> QED
  BY <1>1, LedgerKept, PTL

\* The answers of the oracle are fresh on the ledger too.
LEMMA FreshAnswersOnLedger == MCSpec => []AnswersAreFresh
<1>1. LedgerInv => AnswersAreFresh
  <2> SUFFICES ASSUME LedgerInv PROVE AnswersAreFresh
    OBVIOUS
  <2>1. OracleSound
    BY DEF LedgerInv, AllSound
  <2> QED
    BY <2>1, AnswersHold
<1> QED
  BY <1>1, LedgerKept, PTL

\* A dispute is the arbitrator's to decide, whatever else is called on the ledger.
LEMMA DisputesOnLedger == MCSpec => DisputeHeld
<1>1. ASSUME LedgerInv, [MCNext]_ledgerVars
      PROVE  \A id \in DOMAIN escrows :
               escrows[id].status \in EscrowHolding /\ escrows'[id].status \notin EscrowHolding =>
                 LET e == escrows[id]
                     paid == IF escrows'[id].status = "Completed" THEN e.seller ELSE e.buyer IN
                 /\ escrows'[id].status \in {"Completed", "Refunded"}
                 /\ balance' = [balance EXCEPT ![e.asset] = Moved(@, EscrowAt, paid, e.amount)]
                 /\ e.status = "Disputed" => escrows'[id].settledBy = {e.arbitrator}
                 /\ now < e.timeoutAt => escrows'[id].settledBy \cap {e.buyer, e.arbitrator} # {}
  BY <1>1, CalledOrAside, EscrowStep DEF LedgerInv, AllSound
<1>2. LedgerInv /\ [MCNext]_ledgerVars => [\A id \in DOMAIN escrows :
          escrows[id].status \in EscrowHolding /\ escrows'[id].status \notin EscrowHolding =>
            LET e == escrows[id]
                paid == IF escrows'[id].status = "Completed" THEN e.seller ELSE e.buyer IN
            /\ escrows'[id].status \in {"Completed", "Refunded"}
            /\ balance' = [balance EXCEPT ![e.asset] = Moved(@, EscrowAt, paid, e.amount)]
            /\ e.status = "Disputed" => escrows'[id].settledBy = {e.arbitrator}
            /\ now < e.timeoutAt => escrows'[id].settledBy \cap {e.buyer, e.arbitrator} # {}]_escrowVars
  BY <1>1
<1> QED
  BY <1>2, LedgerKept, PTL DEF MCSpec, DisputeHeld

\* Nothing but the wallet's quorum moves what the wallet holds: no call of another contract does.
LEMMA QuorumMovesOnLedger == MCSpec => QuorumMovesFunds
<1>1. ASSUME LedgerInv, [MCNext]_ledgerVars
      PROVE  \A t \in Assets : balance'[t][MultisigAt] < balance[t][MultisigAt] =>
               \E id \in DOMAIN transactions :
                 LET tx == transactions[id] IN
                 /\ ~tx.executed /\ transactions'[id].executed
                 /\ balance'[t] = Moved(balance[t], MultisigAt, tx.destination, tx.amount)
                 /\ \E quorum \in SUBSET (tx.approvals \cap signers) : Cardinality(quorum) = threshold
  BY <1>1, CalledOrAside, MultisigStep, MultisigQuiet DEF LedgerInv, AllSound
<1>2. LedgerInv /\ [MCNext]_ledgerVars => [\A t \in Assets : balance'[t][MultisigAt] < balance[t][MultisigAt] =>
          \E id \in DOMAIN transactions :
            LET tx == transactions[id] IN
            /\ ~tx.executed /\ transactions'[id].executed
            /\ balance'[t] = Moved(balance[t], MultisigAt, tx.destination, tx.amount)
            /\ \E quorum \in SUBSET (tx.approvals \cap signers) : Cardinality(quorum) = threshold]_multisigVars
  BY <1>1
<1> QED
  BY <1>2, LedgerKept, PTL DEF MCSpec, QuorumMovesFunds

\* The list of a funded payroll is final, whatever else is called on the ledger.
LEMMA ListsOnLedger == MCSpec => FundedListIsFinal
<1>1. ASSUME LedgerInv, [MCNext]_ledgerVars
      PROVE  \A id \in DOMAIN batches : batches[id].status \in {"Funded", "Distributed"} =>
               /\ batches'[id].recipients = batches[id].recipients
               /\ batches[id].status = "Funded" /\ batches'[id].status # "Funded" =>
                    \A a \in Accounts : balance'[batches[id].asset][a] =
                      balance[batches[id].asset][a] + PaysTo(batches[id].recipients, a)
  <2>1. ListFinal
    BY <1>1, CalledOrAside, PayrollContractStep DEF LedgerInv, AllSound, PayrollKept, ListFinal
  <2> QED
    BY <2>1, Zenon DEF ListFinal
<1>2. LedgerInv /\ [MCNext]_ledgerVars => [\A id \in DOMAIN batches : batches[id].status \in {"Funded", "Distributed"} =>
          /\ batches'[id].recipients = batches[id].recipients
          /\ batches[id].status = "Funded" /\ batches'[id].status # "Funded" =>
               \A a \in Accounts : balance'[batches[id].asset][a] =
                 balance[batches[id].asset][a] + PaysTo(batches[id].recipients, a)]_payrollContractVars
  BY <1>1
<1> QED
  BY <1>2, LedgerKept, PTL DEF MCSpec, FundedListIsFinal

\* The share of a pool keeps its worth, whatever else is called on the ledger.
LEMMA SharesOnLedger == MCSpec => ShareKeepsItsWorth
<1>1. ASSUME LedgerInv, [MCNext]_ledgerVars
      PROVE  \A pair \in Canonical :
               LET p == pools[pair]
                   q == pools'[pair] IN
               p.lpSupply > 0 =>
                 q.reserve[1] * q.reserve[2] * p.lpSupply * p.lpSupply
                   >= p.reserve[1] * p.reserve[2] * q.lpSupply * q.lpSupply
  <2>1. \A pair \in Canonical : Worth(pair)
    BY <1>1, CalledOrAside, WorthStays DEF LedgerInv, AllSound
  <2> QED
    BY <2>1, Zenon DEF Worth
<1>2. LedgerInv /\ [MCNext]_ledgerVars => [\A pair \in Canonical :
          LET p == pools[pair]
              q == pools'[pair] IN
          p.lpSupply > 0 =>
            q.reserve[1] * q.reserve[2] * p.lpSupply * p.lpSupply
              >= p.reserve[1] * p.reserve[2] * q.lpSupply * q.lpSupply]_swapVars
  BY <1>1
<1> QED
  BY <1>2, LedgerKept, PTL DEF MCSpec, ShareKeepsItsWorth

\* What a contract promises when it alone is called it promises on the ledger: a wallet
\* stays usable and moves by its quorum, grants vest in full, the answers of the oracle
\* are fresh, disputes are the arbitrator's, funded lists are final, shares keep their worth.
THEOREM PromisesHoldOnLedger ==
  MCSpec => /\ [](ThresholdReachable /\ VestsInFull /\ AnswersAreFresh)
            /\ QuorumMovesFunds /\ DisputeHeld /\ FundedListIsFinal /\ ShareKeepsItsWorth
<1>1. MCSpec => [](ThresholdReachable /\ VestsInFull /\ AnswersAreFresh)
  BY WalletUsableOnLedger, AllVestsOnLedger, FreshAnswersOnLedger, PTL
<1> QED
  BY <1>1, QuorumMovesOnLedger, DisputesOnLedger, ListsOnLedger, SharesOnLedger
===============================================================================
