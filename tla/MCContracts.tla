----------------------------- MODULE MCContracts -----------------------------
(***************************************************************************)
(* One ledger with every contract deployed on it.  The contracts share the *)
(* clock and the token balances but call none of each other.  In each      *)
(* behaviour those in `focus' are called, in any order; the product of all *)
(* is out of TLC's reach, so that its instances call a few at a time.      *)
(***************************************************************************)
EXTENDS Escrow, Multisig, PayrollContract, Vesting, TreasuryContract, Governance,
  Staking, Bridge, TokenContract, FxSwap, Oracle, BatchExecutor, Upgrade

CONSTANT Focus       \* the sets of contracts that are called together

Names ==
  {"escrow", "multisig", "payroll", "vesting", "treasury", "governance", "staking",
   "bridge", "token", "swap", "oracle", "executor", "upgrade"}

\* Every contract is deployed at an address of its own.
ASSUME LedgerAssumption ==
  /\ Focus \subseteq SUBSET Names
  /\ LET at == <<EscrowAt, MultisigAt, PayrollAt, VestingAt, TreasuryAt, StakingAt, BridgeAt, SwapAt>> IN
     \A i, j \in 1..8 : at[i] = at[j] => i = j

\* Staked gold earns cash or, out of the same balance, gold.
MCRewardAssetsOf == [t \in Assets |-> IF t = "gold" THEN Assets ELSE {}]
MCVestingTerms ==
  {[start |-> 0, cliff |-> 1, end |-> 2, type |-> ty, milestones |-> <<>>] : ty \in {"Immediate", "Linear"}}
  \cup {[start |-> 0, cliff |-> 1, end |-> 2, type |-> "Milestone",
         milestones |-> <<[timestamp |-> 1, percentage |-> p], [timestamp |-> 1, percentage |-> 50],
                          [timestamp |-> 2, percentage |-> 20]>>] : p \in {20, 30}}
MCVotingWindows == {[start |-> 0, end |-> 1], [start |-> 1, end |-> 2]}
MCAssetPairs == {<<"cash", "gold">>, <<"cash", "cash">>}
MCLegacyRequests ==
  LET old(status) == [layout |-> "old", asset |-> "gold", to |-> BridgeAt, amount |-> 1,
                      status |-> status, signed |-> {}] IN
  {<<old("Locked"), old("Burned"), old("Minted")>>, <<old("Burned"), old("Locked")>>, <<old("Locked")>>, <<>>}
MCAssetOrder == <<"gold", "cash">>
MCPrices == {[price |-> p, decimals |-> d] : p \in {1, 4}, d \in {2, 7}}
MCOperations == {<<"t1">>, <<"t1", "t2">>, <<"t2", "t2">>, <<"t1", ExecutorAt>>, <<>>}

VARIABLE focus

\* Only the contract c changes.
Only(c) ==
  /\ UNCHANGED focus
  /\ c # "escrow" => UNCHANGED <<escrows>>
  /\ c # "multisig" => UNCHANGED <<signers, threshold, transactions>>
  /\ c # "payroll" => UNCHANGED <<payrollReady, batches>>
  /\ c # "vesting" => UNCHANGED <<vestingPaused, schedules>>
  /\ c # "treasury" => UNCHANGED <<treasuryReady, timelocks, emergency, withdrawals>>
  /\ c # "governance" => UNCHANGED <<governanceReady, proposals, ballots, delegation, delegatedPower>>
  /\ c # "staking" => UNCHANGED <<stakingReady, rewardConfig, positions, rewardsLeft>>
  /\ c # "bridge" => UNCHANGED <<storageVersion, migrationCursor, configVars, feesCollected, requests>>
  /\ c # "token" => UNCHANGED <<tokenReady, supply, held, allowance, drawn>>
  /\ c # "swap" => UNCHANGED <<swapReady, pools, lpBalance>>
  /\ c # "oracle" => UNCHANGED <<oracleReady, providerOrder, providers, prices>>
  /\ c # "executor" => UNCHANGED <<batchOps, calls, failing>>
  /\ c # "upgrade" => UNCHANGED <<upgrades, wasm, previousWasm, version>>

MCInit ==
  /\ focus \in Focus
  /\ EscrowStart
  /\ MultisigStart
  /\ PayrollContractStart
  /\ VestingStart
  /\ TreasuryStart
  /\ GovernanceStart
  /\ StakingStart
  /\ TokenStart
  /\ SwapStart
  /\ OracleStart
  /\ BatchStart
  /\ UpgradeStart
  /\ IF "bridge" \in focus THEN BridgeInit ELSE NewBridge /\ HostInit

MCNext ==
  \/ "escrow" \in focus /\ EscrowNext /\ Only("escrow")
  \/ "multisig" \in focus /\ MultisigNext /\ Only("multisig")
  \/ "payroll" \in focus /\ PayrollContractNext /\ Only("payroll")
  \/ "vesting" \in focus /\ VestingNext /\ Only("vesting")
  \/ "treasury" \in focus /\ TreasuryNext /\ Only("treasury")
  \/ "governance" \in focus /\ GovernanceNext /\ Only("governance")
  \/ "staking" \in focus /\ StakingNext /\ Only("staking")
  \/ "bridge" \in focus /\ BridgeNext /\ Only("bridge")
  \/ "token" \in focus /\ TokenNext /\ Only("token")
  \/ "swap" \in focus /\ SwapNext /\ Only("swap")
  \/ "oracle" \in focus /\ OracleNext /\ Only("oracle")
  \/ "executor" \in focus /\ BatchNext /\ Only("executor")
  \/ "upgrade" \in focus /\ UpgradeNext /\ Only("upgrade")

ledgerVars ==
  <<hostVars, focus, escrows, signers, threshold, transactions, payrollReady, batches,
    vestingPaused, schedules, treasuryReady, timelocks, emergency, withdrawals,
    governanceReady, proposals, ballots, delegation, delegatedPower, stakingReady,
    rewardConfig, positions, rewardsLeft, storageVersion, migrationCursor, configVars, feesCollected,
    requests, tokenReady, supply, held, allowance, drawn, swapReady, pools, lpBalance,
    oracleReady, providerOrder, providers, prices, batchOps, calls, failing, upgrades,
    wasm, previousWasm, version>>

MCSpec == MCInit /\ [][MCNext]_ledgerVars

\* Every contract keeps its storage well formed: amounts and balances never
\* become negative and nothing is stored for an address or a state that is none.
ContractsTypeOK ==
  /\ EscrowTypeOK
  /\ MultisigTypeOK
  /\ PayrollContractTypeOK
  /\ VestingTypeOK
  /\ TreasuryTypeOK
  /\ GovernanceTypeOK
  /\ StakingTypeOK
  /\ BridgeTypeOK
  /\ TokenTypeOK
  /\ SwapTypeOK
  /\ OracleTypeOK

-----------------------------------------------------------------------------
(* The properties of all contracts that say the same thing of each. *)

\* Every contract holds at least what it owes, in all of its records together:
\* to the parties of escrows, the recipients of funded batches, beneficiaries,
\* stakers, those who locked or burned at the bridge, and the owners of pools;
\* and tokens are only made by minting.
HoldsWhatItOwes ==
  /\ ContractsTypeOK
  /\ EscrowCovered
  /\ BatchesCovered
  /\ VestingCovered
  /\ PrincipalIsHeld
  /\ PoolAddsUp
  /\ SupplyIsHeld
  /\ ReservesAreHeld

\* A number a contract keeps beside the records it counts is their sum: delegated
\* power, tallies, liquidity tokens, what is left of a grant, calls of a batch.
CountsAddUp ==
  /\ DelegationsAddUp
  /\ TalliesAreBallots
  /\ LiquidityAddsUp
  /\ GrantNotExceeded
  /\ BatchAllOrNothing

\* What runs, what is stored and what the version says agree, through upgrades,
\* roll-backs and a migration in batches.
VersionsMatch == MigratedWhole /\ VersionNamesCode

\* Money that leaves the bridge or the treasury is one request's, once.
PaidOnce == PaidOncePerProof /\ WithdrawalPaidOnce

\* No order of calls gets around the clock: the time lock of a withdrawal, the
\* lock and the accrual of a stake, the delay of an upgrade.
TimeBinds == LockHonoured /\ LockKept /\ EarnedOnlyByTime /\ CodeWaitsItsDelay

\* What was settled stays so: a vote that is over, what has vested, and the
\* silence of a provider that was revoked.
NothingTakenBack == OutcomeIsFinal /\ VestedStaysVested /\ RevokedIsSilent
=============================================================================
