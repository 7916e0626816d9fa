SPECIFICATION MCSpec
CONSTANTS
  Focus = {{"escrow"}, {"multisig"}, {"payroll"}}
  Accounts = {"ann", "ben", "cam"}
  Assets = {"gold", "cash"}
  Contracts = {"escrowC", "multisigC", "payrollC", "vestingC", "treasuryC", "stakingC", "bridgeC", "swapC", "executorC"}
  Funds = 2
  MaxTime = 2
  EscrowAt = "escrowC"
  EscrowAmounts = {0, 1, 2}
  EscrowTimeouts = {1}
  MaxEscrows = 2
  MultisigAt = "multisigC"
  MultisigAssets = {"gold"}
  MultisigAmounts = {2}
  MaxTransactions = 2
  PayrollAt = "payrollC"
  Wages = {1}
  MaxRecipients = 2
  MaxBatches = 2
  VestingAt = "vestingC"
  VestingAssets = {"gold"}
  VestingAmounts = {3}
  VestingTerms <- MCVestingTerms
  VestingAdmin = "ann"
  MaxSchedules = 2
  TreasuryAt = "treasuryC"
  TreasuryAssets = {"gold"}
  TreasuryAmounts = {3}
  LockPeriods = {1, 2}
  TreasuryAdmin = "ann"
  MaxWithdrawals = 2
  MaxNamed = 2
  GovernanceToken = "gold"
  VotingWindows <- MCVotingWindows
  Quorums = {4}
  Thresholds = {5}
  BPS_DENOMINATOR = 10
  TradeAmounts = {3}
  NoDelegate = "none"
  MaxProposals = 1
  StakingAt = "stakingC"
  StakeAmounts = {1}
  LockDurations = {0, 1}
  RewardRates = {1, 2}
  MinDurations = {0}
  RewardAssetsOf <- MCRewardAssetsOf
  StakingAdmin = "ann"
  MaxStake = 2
  RewardFunding = 3
  BridgeAt = "bridgeC"
  AssetPairs <- MCAssetPairs
  NoAsset = "none"
  BridgeAmounts = {2}
  BridgeFees = {5, 10}
  MAX_BRIDGE_FEE_BPS = 10
  DEFAULT_BRIDGE_FEE = 4
  SignerKeys = {"k1", "k2"}
  BridgeAdmin = "ann"
  LegacyRequests <- MCLegacyRequests
  MIGRATION_BATCH_SIZE = 2
  MaxRequests = 2
  TokenAmounts = {1, 2}
  InitialSupply = 2
  Issuer = "ann"
  Expirations = {0, 1}
  MaxSupply = 3
  SwapAt = "swapC"
  AssetOrder <- MCAssetOrder
  SwapAmounts = {1, 2, 3}
  MINIMUM_LIQUIDITY = 1
  FEE_BPS = 1
  FEE_DENOMINATOR = 10
  MaxReserve = 6
  Staleness = {0, 1}
  Prices <- MCPrices
  OracleAdmin = "ann"
  ExecutorAt = "executorC"
  Targets = {"t1", "t2"}
  Operations <- MCOperations
  MaxBatchOps = 3
  Wasms = {"w1", "w2"}
  FirstWasm = "w0"
  UpgradeDelays = {0, 2}
  UpgradeAdmin = "ann"
  MaxUpgrades = 3
  MaxPatches = 2
CHECK_DEADLOCK FALSE
INVARIANTS HoldsWhatItOwes ThresholdReachable
PROPERTIES DisputeHeld QuorumMovesFunds FundedListIsFinal
