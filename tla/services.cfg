SPECIFICATION MCSpec
CONSTANTS
  Focus = {"webhook", "review", "sep24", "auth", "sep10", "gate", "limit", "fx"}
  Hooks = {"h1"}
  DeliveryIds = {"d1", "d2"}
  Senders = {"a", "b"}
  MaxAttempts = 2
  MaxSenderCrashes = 1
  NoDelivery = "none"
  Payments = {"p1"}
  ReviewCalls = {"a", "b"}
  MaxAlerts = 2
  MaxRebuilds = 2
  Sessions = {"s1"}
  SepAmounts = {1}
  SepCalls = {"a", "b"}
  PAGE_LIMIT = 1
  MaxCredits = 2
  MaxForms = 2
  MaxPayouts = 1
  AuthCalls = {"a", "b"}
  MaxTokens = 3
  MaxStatusChanges = 1
  MaxAuthCrashes = 1
  Challenges = {"x"}
  Forms = {"f", "g"}
  VerifyCalls = {"a", "b"}
  CHALLENGE_TTL = 2
  MaxSepTime = 3
  LoginCalls = {"a", "b"}
  FLAGGED_ATTEMPT_THRESHOLD = 1
  BLOCK_THRESHOLD = 2
  LOCKOUT_WINDOW = 2
  FAILED_ATTEMPT_TTL = 3
  AUTH_WINDOW = 1
  AuthMax <- MCAuthMax
  MaxGateTime = 3
  MaxFailures = 3
  MaxGateCrashes = 1
  HttpRequests = {"a", "b", "c"}
  windowMs = 2
  maxRequests = 1
  skipSuccessfulRequests = TRUE
  MaxLimitTime = 2
  OfferedRates = {2}
  FxCalls = {"a", "b"}
  MaxRates = 2
  MaxQuotes = 1
  SourceFunds = {1, 2}
  QUOTE_TTL = 1
  MaxFxTime = 2
CHECK_DEADLOCK FALSE
INVARIANTS WebhookInv ReviewInv SepInv AuthInv TextUsedOnce GateInv WindowHolds FxInv
PROPERTIES SettledIsFinal BlockStands SuspendedGetNoMore
