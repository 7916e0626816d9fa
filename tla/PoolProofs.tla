------------------------------ MODULE PoolProofs ------------------------------
(***************************************************************************)
(* Theorems about contracts that pool what many hold or say (the token,    *)
(* staking, the bridge, the swap pools, the oracle), and about the upgrade *)
(* helpers that all of them share, each for every number of accounts,      *)
(* records and calls.  Each part speaks of the specification of one        *)
(* contract.                                                               *)
(***************************************************************************)
EXTENDS Upgrade, Staking, TokenContract, Bridge, FxSwap, Oracle, SumProofs, SequenceTheorems, TLAPS

-----------------------------------------------------------------------------
(* Upgrades: the stored version names the code that runs, and code waits.   *)

Upgrades ==
  [wasm : Wasms, scheduledAt : Int, status : {"Pending", "Scheduled", "Executed", "Cancelled"}]

UpgradeSound ==
  /\ now \in Int
  /\ upgrades \in Seq(Upgrades)
  /\ version \in [major : Nat \ {0}, patch : Nat, hash : Wasms \cup {"zero"}]
  /\ version.major = 1 => version.hash = "zero" /\ previousWasm = "none"
  /\ version.major # 1 => version.hash = wasm

LEMMA UpgradeSet ==
  ASSUME UpgradeSound, NEW id \in DOMAIN upgrades,
         NEW status \in {"Pending", "Scheduled", "Executed", "Cancelled"}, SetUpgrade(id, status)
  PROVE  upgrades' \in Seq(Upgrades) /\ id \in DOMAIN upgrades' /\ upgrades'[id].status = status
<1> DEFINE u == [upgrades[id] EXCEPT !.status = status]
<1>1. /\ upgrades \in Seq(Upgrades) /\ id \in 1..Len(upgrades) /\ upgrades[id] \in Upgrades
      /\ upgrades \in [1..Len(upgrades) -> Upgrades]
  BY LenProperties, ElementOfSeq DEF UpgradeSound
<1>2. u \in Upgrades /\ u.status = status
  BY <1>1 DEF Upgrades
<1>3. upgrades' = [upgrades EXCEPT ![id] = u]
  BY DEF SetUpgrade
<1> HIDE DEF u
<1>4. upgrades' \in Seq(Upgrades)
  BY <1>1, <1>2, <1>3, ExceptSeq
<1>5. id \in DOMAIN upgrades' /\ upgrades'[id] = u
  BY <1>1, <1>3
<1> QED
  BY <1>2, <1>4, <1>5

CodeWaited ==
  wasm' # wasm =>
    \/ wasm' = previousWasm
    \/ \E id \in DOMAIN upgrades :
         /\ upgrades[id].status = "Scheduled" /\ upgrades[id].scheduledAt <= now
         /\ upgrades'[id].status = "Executed" /\ upgrades[id].wasm = wasm'

LEMMA UpgradeStep ==
  ASSUME UpgradeSound, [UpgradeNext]_upgradeVars
  PROVE  UpgradeSound' /\ CodeWaited
<1>1. ASSUME UNCHANGED <<wasm, previousWasm, version>>, now' \in Int, upgrades' \in Seq(Upgrades)
      PROVE  UpgradeSound' /\ CodeWaited
  BY <1>1 DEF UpgradeSound, CodeWaited
<1>2. CASE UNCHANGED upgradeVars
  BY <1>1, <1>2 DEF upgradeVars, hostVars, UpgradeSound
<1>3. CASE Tick /\ UNCHANGED <<upgrades, wasm, previousWasm, version>>
  BY <1>1, <1>3 DEF Tick, UpgradeSound
<1>4. ASSUME NEW a \in Accounts, RollbackUpgrade(a)
      PROVE  UpgradeSound' /\ CodeWaited
  <2> DEFINE v == [version EXCEPT !.patch = @ + 1, !.hash = previousWasm]
  <2>1. /\ wasm' = previousWasm /\ version' = v /\ previousWasm \in Wasms
        /\ UNCHANGED <<hostVars, upgrades, previousWasm>>
    BY <1>4 DEF RollbackUpgrade
  <2>2. /\ v \in [major : Nat \ {0}, patch : Nat, hash : Wasms \cup {"zero"}]
        /\ v.major = version.major /\ v.hash = previousWasm
    <3>1. version \in [major : Nat \ {0}, patch : Nat, hash : Wasms \cup {"zero"}]
      BY DEF UpgradeSound
    <3>2. version.patch + 1 \in Nat /\ previousWasm \in Wasms \cup {"zero"}
      BY <2>1, <3>1
    <3> QED
      BY <3>1, <3>2
  <2> HIDE DEF v
  <2>3. version.major # 1
    BY <2>1, UpgradeAssumption DEF UpgradeSound
  <2> QED
    BY <2>1, <2>2, <2>3 DEF UpgradeSound, CodeWaited, hostVars
<1>5. ASSUME NEW a \in Accounts, NEW code \in Wasms, NEW delay \in UpgradeDelays,
             ProposeUpgrade(a, code, delay)
      PROVE  UpgradeSound' /\ CodeWaited
  <2> DEFINE u == [wasm |-> code, scheduledAt |-> now + delay, status |-> "Pending"]
  <2>1. u \in Upgrades
    BY UpgradeAssumption DEF Upgrades, UpgradeSound
  <2>2. upgrades' = Append(upgrades, u) /\ UNCHANGED <<hostVars, wasm, previousWasm, version>>
    BY <1>5 DEF ProposeUpgrade
  <2> HIDE DEF u
  <2>3. upgrades' \in Seq(Upgrades)
    BY <2>1, <2>2, AppendProperties DEF UpgradeSound
  <2> QED
    BY <1>1, <2>2, <2>3 DEF hostVars, UpgradeSound
<1>6. ASSUME NEW id \in DOMAIN upgrades, ScheduleUpgrade(id) \/ CancelUpgrade(id)
      PROVE  UpgradeSound' /\ CodeWaited
  <2>1. PICK status \in {"Scheduled", "Cancelled"} :
          SetUpgrade(id, status) /\ UNCHANGED <<hostVars, wasm, previousWasm, version>>
    BY <1>6 DEF ScheduleUpgrade, CancelUpgrade
  <2>2. upgrades' \in Seq(Upgrades)
    BY <2>1, UpgradeSet
  <2> QED
    BY <1>1, <2>1, <2>2 DEF hostVars, UpgradeSound
<1>7. ASSUME NEW id \in DOMAIN upgrades, ExecuteUpgrade(id)
      PROVE  UpgradeSound' /\ CodeWaited
  <2>1. /\ upgrades[id].status = "Scheduled" /\ now >= upgrades[id].scheduledAt
        /\ wasm' = upgrades[id].wasm /\ SetUpgrade(id, "Executed") /\ UNCHANGED hostVars
        /\ version' = [major |-> version.major + 1, patch |-> 0, hash |-> upgrades[id].wasm]
    BY <1>7 DEF ExecuteUpgrade
  <2>2. upgrades' \in Seq(Upgrades) /\ upgrades'[id].status = "Executed"
    BY <2>1, UpgradeSet
  <2>3. upgrades[id].wasm \in Wasms /\ upgrades[id].scheduledAt \in Int
    <3>1. upgrades[id] \in Upgrades
      BY ElementOfSeq, LenProperties DEF UpgradeSound
    <3> QED
      BY <3>1 DEF Upgrades
  <2>4. /\ version' \in [major : Nat \ {0}, patch : Nat, hash : Wasms \cup {"zero"}]
        /\ version'.major # 1 /\ version'.hash = wasm'
    BY <2>1, <2>3 DEF UpgradeSound
  <2>5. UpgradeSound'
    BY <2>1, <2>2, <2>4 DEF UpgradeSound, hostVars
  <2>6. upgrades[id].scheduledAt <= now
    BY <2>1, <2>3 DEF UpgradeSound
  <2> QED
    BY <2>1, <2>2, <2>5, <2>6 DEF CodeWaited
<1> QED
  BY <1>2, <1>3, <1>4, <1>5, <1>6, <1>7 DEF UpgradeNext

LEMMA UpgradeRests ==
  ASSUME HostTypeOK, UpgradeStart
  PROVE  UpgradeSound
<1>1. <<>> \in Seq(Upgrades)
  BY EmptySeq
<1> QED
  BY <1>1 DEF UpgradeStart, UpgradeSound, HostTypeOK

LEMMA UpgradeBegin ==
  ASSUME UpgradeInit
  PROVE  UpgradeSound
  BY HostStart, UpgradeRests DEF UpgradeInit

\* After any sequence of upgrades and roll-backs the stored version names the code that
\* runs: the zero hash of the first deployment is never rolled back to (execute,
\* rollback).
THEOREM VersionIsTheCode == UpgradeSpec => []VersionNamesCode
<1>1. UpgradeSound /\ [UpgradeNext]_upgradeVars => UpgradeSound'
  BY UpgradeStep
<1>2. UpgradeSound => VersionNamesCode
  BY DEF UpgradeSound, VersionNamesCode
<1> QED
  BY UpgradeBegin, <1>1, <1>2, PTL DEF UpgradeSpec

\* New code runs only by executing a scheduled proposal for it whose delay is over, or by
\* going back to the code kept as the previous one.
THEOREM CodeWaits == UpgradeSpec => CodeWaitsItsDelay
<1>1. UpgradeSound /\ [UpgradeNext]_upgradeVars => UpgradeSound'
  BY UpgradeStep
<1>2. UpgradeSound /\ [UpgradeNext]_upgradeVars =>
        (wasm' # wasm =>
           \/ wasm' = previousWasm
           \/ \E id \in DOMAIN upgrades :
                /\ upgrades[id].status = "Scheduled" /\ upgrades[id].scheduledAt <= now
                /\ upgrades'[id].status = "Executed" /\ upgrades[id].wasm = wasm')
  BY UpgradeStep DEF CodeWaited
<1> QED
  BY UpgradeBegin, <1>1, <1>2, PTL DEF UpgradeSpec, CodeWaitsItsDelay

-----------------------------------------------------------------------------
(* The token: the supply is what is held, and a grant is not exceeded.      *)

Allowances == [Accounts -> [Accounts -> [amount : Nat, expires : Nat]]]
Grants == [Accounts -> [Accounts -> [granted : Nat, used : Nat]]]

TokenSound ==
  /\ held \in [Accounts -> Nat]
  /\ allowance \in Allowances
  /\ drawn \in Grants
  /\ SupplyIsHeld
  /\ GrantNotExceeded
  /\ ~tokenReady => supply = 0 /\ \A a \in Accounts : held[a] = 0

\* One holder's balance changes.
LEMMA HeldChange ==
  ASSUME NEW h \in [Accounts -> Nat], NEW e \in [Accounts -> Nat], NEW a \in Accounts,
         \A b \in Accounts \ {a} : e[b] = h[b]
  PROVE  /\ SumFunctionOnSet(h, Accounts) \in Int
         /\ SumFunctionOnSet(e, Accounts) = SumFunctionOnSet(h, Accounts) - h[a] + e[a]
<1>1. /\ IsFiniteSet(Accounts) /\ Accounts \ {a} = Accounts \ {a} /\ h[a] \in Int /\ e[a] \in Int
      /\ \A y \in Accounts : h[y] \in Int /\ e[y] \in Int
  BY SorobanAssumption
<1>2. SumFunctionOnSet(h, Accounts) - (IF a \in Accounts THEN h[a] ELSE 0)
        = SumFunctionOnSet(e, Accounts) - (IF a \in Accounts THEN e[a] ELSE 0)
  BY <1>1, SumChange
<1>3. SumFunctionOnSet(h, Accounts) \in Int /\ SumFunctionOnSet(e, Accounts) \in Int
  BY <1>1, SumInt
<1> QED
  BY <1>1, <1>2, <1>3

\* A transfer, to oneself too, leaves the sum alone.
LEMMA MovedTokens ==
  ASSUME TokenSound, NEW from \in Accounts, NEW to \in Accounts, NEW amount \in Nat \ {0},
         MoveTokens(from, to, amount)
  PROVE  /\ held' \in [Accounts -> Nat] /\ tokenReady
         /\ SumFunctionOnSet(held', Accounts) = SumFunctionOnSet(held, Accounts)
<1> DEFINE h == [held EXCEPT ![from] = @ - amount]
<1>1. /\ held \in [Accounts -> Nat] /\ held[from] >= amount
      /\ held' = [h EXCEPT ![to] = @ + amount]
  BY DEF TokenSound, MoveTokens
<1>2. tokenReady
  BY <1>1 DEF TokenSound
<1>3. /\ h \in [Accounts -> Nat] /\ h[from] = held[from] - amount
      /\ held[from] \in Nat /\ \A b \in Accounts \ {from} : h[b] = held[b]
  BY <1>1
<1> HIDE DEF h
<1>4. /\ SumFunctionOnSet(held, Accounts) \in Int
      /\ SumFunctionOnSet(h, Accounts) = SumFunctionOnSet(held, Accounts) - held[from] + h[from]
  BY <1>1, <1>3, HeldChange
<1>5. /\ held' \in [Accounts -> Nat] /\ held'[to] = h[to] + amount /\ h[to] \in Nat
      /\ \A b \in Accounts \ {to} : held'[b] = h[b]
  BY <1>1, <1>3
<1>6. SumFunctionOnSet(held', Accounts) = SumFunctionOnSet(h, Accounts) - h[to] + held'[to]
  BY <1>3, <1>5, HeldChange
<1>7. SumFunctionOnSet(held', Accounts) = SumFunctionOnSet(held, Accounts)
  BY <1>3, <1>4, <1>5, <1>6
<1> QED
  BY <1>2, <1>5, <1>7

LEMMA TokenStep ==
  ASSUME TokenSound, [TokenNext]_tokenVars
  PROVE  TokenSound'
<1>1. /\ held \in [Accounts -> Nat] /\ allowance \in Allowances /\ drawn \in Grants
      /\ supply = SumFunctionOnSet(held, Accounts) /\ GrantNotExceeded
  BY DEF TokenSound, SupplyIsHeld
<1>2. ASSUME UNCHANGED <<tokenReady, supply, held, allowance, drawn>>
      PROVE  TokenSound'
  BY <1>2 DEF TokenSound, SupplyIsHeld, GrantNotExceeded
<1>3. CASE UNCHANGED tokenVars \/ (Tick /\ UNCHANGED <<tokenReady, supply, held, allowance, drawn>>)
  BY <1>2, <1>3 DEF tokenVars
\* What is left when only the balances change.
<1>4. ASSUME UNCHANGED <<allowance, drawn>>, tokenReady', held' \in [Accounts -> Nat],
             supply' = SumFunctionOnSet(held', Accounts)
      PROVE  TokenSound'
  BY <1>1, <1>4 DEF TokenSound, SupplyIsHeld, GrantNotExceeded
<1>5. CASE InitializeToken
  <2>1. held' = [held EXCEPT ![Issuer] = InitialSupply] /\ supply' = InitialSupply
        /\ held[Issuer] = 0 /\ supply = 0 /\ tokenReady' /\ UNCHANGED <<allowance, drawn>>
        /\ InitialSupply \in Nat /\ Issuer \in Accounts
    BY <1>5, TokenAssumption DEF InitializeToken, TokenSound
  <2>2. /\ held' \in [Accounts -> Nat] /\ held'[Issuer] = InitialSupply
        /\ \A x \in Accounts \ {Issuer} : held'[x] = held[x]
    BY <1>1, <2>1
  <2>3. SumFunctionOnSet(held', Accounts)
          = SumFunctionOnSet(held, Accounts) - held[Issuer] + held'[Issuer]
    BY <1>1, <2>1, <2>2, HeldChange
  <2>4. SumFunctionOnSet(held', Accounts) = InitialSupply
    BY <1>1, <2>1, <2>2, <2>3
  <2> QED
    BY <1>4, <2>1, <2>2, <2>4
<1>6. ASSUME NEW a \in Accounts, NEW b \in Accounts, NEW amount \in TokenAmounts, Mint(a, b, amount)
      PROVE  TokenSound'
  <2>1. /\ held' = [held EXCEPT ![b] = held[b] + amount] /\ supply' = supply + amount /\ tokenReady'
        /\ UNCHANGED <<allowance, drawn>> /\ amount \in Nat
    BY <1>6, TokenAssumption DEF Mint
  <2>2. /\ held' \in [Accounts -> Nat] /\ held[b] \in Nat /\ held'[b] = held[b] + amount
        /\ \A x \in Accounts \ {b} : held'[x] = held[x]
    BY <1>1, <2>1
  <2>3. /\ SumFunctionOnSet(held', Accounts)
             = SumFunctionOnSet(held, Accounts) - held[b] + held'[b]
        /\ SumFunctionOnSet(held, Accounts) \in Int
    BY <1>1, <2>2, HeldChange
  <2>4. supply' = SumFunctionOnSet(held', Accounts)
    BY <1>1, <2>1, <2>2, <2>3
  <2> QED
    BY <1>4, <2>1, <2>2, <2>4
<1>7. ASSUME NEW a \in Accounts, NEW b \in Accounts, NEW amount \in TokenAmounts, Burn(a, b, amount)
      PROVE  TokenSound'
  <2>1. /\ held' = [held EXCEPT ![b] = held[b] - amount] /\ supply' = supply - amount
        /\ held[b] >= amount /\ UNCHANGED <<tokenReady, allowance, drawn>> /\ amount \in Nat \ {0}
    BY <1>7, TokenAssumption DEF Burn
  <2>2. /\ held' \in [Accounts -> Nat] /\ held[b] \in Nat /\ held'[b] = held[b] - amount
        /\ \A x \in Accounts \ {b} : held'[x] = held[x]
    BY <1>1, <2>1
  <2>3. /\ SumFunctionOnSet(held', Accounts)
             = SumFunctionOnSet(held, Accounts) - held[b] + held'[b]
        /\ SumFunctionOnSet(held, Accounts) \in Int
    BY <1>1, <2>2, HeldChange
  <2>4. supply' = SumFunctionOnSet(held', Accounts)
    BY <1>1, <2>1, <2>2, <2>3
  <2>5. tokenReady'
    BY <2>1, <2>2 DEF TokenSound
  <2> QED
    BY <1>4, <2>1, <2>2, <2>4, <2>5
<1>8. ASSUME NEW a \in Accounts, NEW b \in Accounts, NEW amount \in TokenAmounts,
             TransferTokens(a, b, amount)
      PROVE  TokenSound'
  <2>1. /\ held' \in [Accounts -> Nat] /\ tokenReady
        /\ SumFunctionOnSet(held', Accounts) = SumFunctionOnSet(held, Accounts)
    BY <1>8, TokenAssumption, MovedTokens DEF TransferTokens
  <2> QED
    BY <1>1, <1>4, <1>8, <2>1 DEF TransferTokens
<1>9. ASSUME NEW owner \in Accounts, NEW spender \in Accounts, NEW amount \in TokenAmounts \cup {0},
             NEW expires \in Expirations, ApproveSpender(owner, spender, amount, expires)
      PROVE  TokenSound'
  <2> DEFINE new == IF amount = 0 THEN NoAllowance ELSE [amount |-> amount, expires |-> expires]
             grant == [granted |-> amount, used |-> 0]
  <2>1. /\ allowance' = [allowance EXCEPT ![owner][spender] = new]
        /\ drawn' = [drawn EXCEPT ![owner][spender] = grant]
        /\ UNCHANGED <<tokenReady, supply, held>>
    BY <1>9 DEF ApproveSpender
  <2>2. /\ new \in [amount : Nat, expires : Nat] /\ new.amount = amount
        /\ grant \in [granted : Nat, used : Nat] /\ grant.granted = amount /\ grant.used = 0
        /\ amount \in Nat
    BY TokenAssumption DEF NoAllowance
  <2> HIDE DEF new, grant
  <2>3. allowance' \in Allowances /\ drawn' \in Grants
    BY <1>1, <2>1, <2>2 DEF Allowances, Grants
  <2>4. ASSUME NEW a \in Accounts, NEW b \in Accounts
        PROVE  drawn'[a][b].granted = drawn'[a][b].used + allowance'[a][b].amount
    <3>1. CASE a = owner /\ b = spender
      <4>1. drawn'[a][b] = grant /\ allowance'[a][b] = new
        BY <1>1, <2>1, <3>1 DEF Allowances, Grants
      <4> QED
        BY <2>2, <4>1
    <3>2. CASE ~(a = owner /\ b = spender)
      <4>1. drawn'[a][b] = drawn[a][b] /\ allowance'[a][b] = allowance[a][b]
        BY <1>1, <2>1, <3>2 DEF Allowances, Grants
      <4> QED
        BY <1>1, <4>1 DEF GrantNotExceeded
    <3> QED
      BY <3>1, <3>2
  <2> QED
    BY <1>1, <2>1, <2>3, <2>4 DEF TokenSound, SupplyIsHeld, GrantNotExceeded
<1>10. ASSUME NEW spender \in Accounts, NEW owner \in Accounts, NEW to \in Accounts,
              NEW amount \in TokenAmounts, TransferFrom(spender, owner, to, amount)
       PROVE  TokenSound'
  <2> DEFINE old == allowance[owner][spender]
             new == Deducted(old, amount)
             grant == [drawn[owner][spender] EXCEPT !.used = @ + amount]
  <2>1. /\ allowance' = [allowance EXCEPT ![owner][spender] = new]
        /\ drawn' = [drawn EXCEPT ![owner][spender] = grant]
        /\ old.amount >= amount /\ MoveTokens(owner, to, amount)
        /\ UNCHANGED <<tokenReady, supply>>
    <3>1. drawn' = [drawn EXCEPT ![owner][spender].used = @ + amount]
      BY <1>10 DEF TransferFrom
    <3>2. drawn' = [drawn EXCEPT ![owner][spender] = grant]
      BY <3>1
    <3> QED
      BY <1>10, <3>2 DEF TransferFrom
  <2>2. /\ old \in [amount : Nat, expires : Nat] /\ drawn[owner][spender] \in [granted : Nat, used : Nat]
        /\ drawn[owner][spender].granted = drawn[owner][spender].used + old.amount
        /\ amount \in Nat \ {0}
    BY <1>1, TokenAssumption DEF Allowances, Grants, GrantNotExceeded
  <2>3. new \in [amount : Nat, expires : Nat] /\ new.amount = old.amount - amount
    <3> HIDE DEF old
    <3>1. CASE old.amount = amount
      BY <2>2, <3>1 DEF Deducted, NoAllowance
    <3>2. CASE old.amount # amount
      BY <2>1, <2>2, <3>2 DEF Deducted
    <3> QED
      BY <3>1, <3>2
  <2>4. /\ grant \in [granted : Nat, used : Nat]
        /\ grant.granted = drawn[owner][spender].granted
        /\ grant.used = drawn[owner][spender].used + amount
    BY <2>2
  <2> HIDE DEF new, grant
  <2>5. allowance' \in Allowances /\ drawn' \in Grants
    BY <1>1, <2>1, <2>3, <2>4 DEF Allowances, Grants
  <2>6. ASSUME NEW a \in Accounts, NEW b \in Accounts
        PROVE  drawn'[a][b].granted = drawn'[a][b].used + allowance'[a][b].amount
    <3>1. CASE a = owner /\ b = spender
      <4>1. drawn'[a][b] = grant /\ allowance'[a][b] = new
        BY <1>1, <2>1, <3>1 DEF Allowances, Grants
      <4> QED
        BY <2>2, <2>3, <2>4, <4>1
    <3>2. CASE ~(a = owner /\ b = spender)
      <4>1. drawn'[a][b] = drawn[a][b] /\ allowance'[a][b] = allowance[a][b]
        BY <1>1, <2>1, <3>2 DEF Allowances, Grants
      <4> QED
        BY <1>1, <4>1 DEF GrantNotExceeded
    <3> QED
      BY <3>1, <3>2
  <2>7. /\ held' \in [Accounts -> Nat] /\ tokenReady
        /\ SumFunctionOnSet(held', Accounts) = SumFunctionOnSet(held, Accounts)
    BY <2>1, <2>2, MovedTokens
  <2> QED
    BY <1>1, <2>1, <2>5, <2>6, <2>7 DEF TokenSound, SupplyIsHeld, GrantNotExceeded
<1> QED
  BY <1>3, <1>5, <1>6, <1>7, <1>8, <1>9, <1>10 DEF TokenNext

LEMMA TokenRests ==
  ASSUME TokenStart
  PROVE  TokenSound
<1>1. /\ held = [a \in Accounts |-> 0] /\ supply = 0
      /\ allowance = [a \in Accounts |-> [b \in Accounts |-> NoAllowance]]
      /\ drawn = [a \in Accounts |-> [b \in Accounts |-> [granted |-> 0, used |-> 0]]]
  BY DEF TokenStart
<1>2. held \in [Accounts -> Nat] /\ allowance \in Allowances /\ drawn \in Grants
  BY <1>1 DEF NoAllowance, Allowances, Grants
<1>3. GrantNotExceeded
  BY <1>1 DEF GrantNotExceeded, NoAllowance
<1>4. SumFunctionOnSet(held, Accounts) = 0
  <2>1. IsFiniteSet(Accounts) /\ \A a \in Accounts : held[a] = 0
    BY <1>1, SorobanAssumption
  <2> QED
    BY <2>1, SumZero
<1> QED
  BY <1>1, <1>2, <1>3, <1>4 DEF TokenSound, SupplyIsHeld

LEMMA TokenBegin ==
  ASSUME TokenInit
  PROVE  TokenSound
  BY TokenRests DEF TokenInit

\* The total supply is what the holders hold, for any number of holders and through every
\* transfer, to oneself too (mint, burn, transfer).
THEOREM SupplyIsExact == TokenSpec => []SupplyIsHeld
<1>1. TokenSound /\ [TokenNext]_tokenVars => TokenSound'
  BY TokenStep
<1>2. TokenSound => SupplyIsHeld
  BY DEF TokenSound
<1> QED
  BY TokenBegin, <1>1, <1>2, PTL DEF TokenSpec

\* However a spender splits them, its transfers move no more than was granted last
\* (approve, transfer_from).
THEOREM GrantsHold == TokenSpec => []GrantNotExceeded
<1>1. TokenSound /\ [TokenNext]_tokenVars => TokenSound'
  BY TokenStep
<1>2. TokenSound => GrantNotExceeded
  BY DEF TokenSound
<1> QED
  BY TokenBegin, <1>1, <1>2, PTL DEF TokenSpec

-----------------------------------------------------------------------------
(* Staking: principal, rewards and locks.                                   *)

Positions ==
  [open : BOOLEAN, amount : Nat, stakedAt : Nat, lockUntil : Nat, claimed : Nat, rate : Nat,
   pending : Nat]
RewardConfigs == [set : BOOLEAN, asset : Assets, rate : Nat, minDuration : Nat]

StakingSound ==
  /\ HostTypeOK
  /\ rewardConfig \in [Assets -> RewardConfigs]
  /\ positions \in [Accounts -> [Assets -> Positions]]
  /\ \A a \in Accounts, t \in Assets :
       /\ positions[a][t].stakedAt <= now
       /\ positions[a][t].open => rewardConfig[t].set
       /\ ~positions[a][t].open => positions[a][t] = NoPosition
  /\ \A t \in Assets : rewardConfig[t].set => rewardConfig[t].asset \in RewardAssetsOf[t]

\* What calls never do to what a position earned, and to its lock.
EarnsByTime ==
  \A a \in Accounts, t \in Assets :
    LET old == positions[a][t] IN
    Earned(positions[a][t])' = Earned(old) + old.rate * old.amount * (now' - now)
KeepsLocks ==
  \A a \in Accounts, t \in Assets :
    /\ positions'[a][t].lockUntil >= positions[a][t].lockUntil
    /\ positions'[a][t].amount < positions[a][t].amount => now >= positions[a][t].lockUntil

StakingKept == StakingSound' /\ EarnsByTime /\ KeepsLocks

LEMMA PositionOf ==
  ASSUME StakingSound, NEW a \in Accounts, NEW t \in Assets
  PROVE  LET pos == positions[a][t] IN
         /\ pos \in Positions /\ pos.amount \in Nat /\ pos.stakedAt \in Nat /\ pos.lockUntil \in Nat
         /\ pos.claimed \in Nat /\ pos.rate \in Nat /\ pos.pending \in Nat
         /\ pos.stakedAt <= now /\ now \in Nat
<1> DEFINE pos == positions[a][t]
<1>1. pos \in Positions /\ pos.stakedAt <= now /\ now \in Nat
  BY SorobanAssumption DEF StakingSound, HostTypeOK
<1> HIDE DEF pos
<1>2. /\ pos.amount \in Nat /\ pos.stakedAt \in Nat /\ pos.lockUntil \in Nat
      /\ pos.claimed \in Nat /\ pos.rate \in Nat /\ pos.pending \in Nat
  BY <1>1 DEF Positions
<1> QED
  BY <1>1, <1>2 DEF pos

\* Rewards accrue with the time since the last settlement, also from nothing.
LEMMA AccruedIs ==
  ASSUME NEW pos \in Positions, NEW t \in Nat, pos.stakedAt <= t
  PROVE  /\ pos.rate * pos.amount * (t - pos.stakedAt) \in Nat
         /\ (IF t > pos.stakedAt /\ pos.amount > 0 THEN pos.rate * pos.amount * (t - pos.stakedAt) ELSE 0)
              = pos.rate * pos.amount * (t - pos.stakedAt)
<1> DEFINE r == pos.rate
           n == pos.amount
           d == t - pos.stakedAt
<1>1. r \in Nat /\ n \in Nat /\ pos.stakedAt \in Nat /\ d \in Nat
  BY DEF Positions
<1>2. t > pos.stakedAt <=> d > 0
  BY <1>1
<1> HIDE DEF r, n, d
<1>3. r * n \in Nat
  BY <1>1
<1>4. r * n * d \in Nat
  BY <1>1, <1>3
<1>5. CASE n = 0
  <2>1. r * n = 0
    BY <1>1, <1>5
  <2>2. r * n * d = 0
    BY <1>1, <2>1
  <2> QED
    BY <1>5, <2>2 DEF r, n, d
<1>6. CASE d = 0
  <2>1. r * n * d = 0
    BY <1>3, <1>6
  <2> QED
    BY <1>2, <1>6, <2>1 DEF r, n, d
<1>7. CASE n > 0 /\ d > 0
  BY <1>2, <1>4, <1>7 DEF r, n, d
<1> QED
  BY <1>1, <1>5, <1>6, <1>7

\* settle_accrual moves what accrued to what is pending.
LEMMA SettledIs ==
  ASSUME StakingSound, NEW a \in Accounts, NEW t \in Assets
  PROVE  LET old == positions[a][t]
             pos == Settled(old) IN
         /\ pos \in Positions /\ pos.stakedAt = now /\ pos.open = old.open
         /\ pos.amount = old.amount /\ pos.lockUntil = old.lockUntil /\ pos.rate = old.rate
         /\ pos.claimed = old.claimed /\ pos.claimed + pos.pending = Earned(old)
         /\ Earned(old) \in Nat
<1> DEFINE old == positions[a][t]
           gain == Accrued(old)
           pos == [old EXCEPT !.pending = @ + gain, !.stakedAt = now]
<1>1. /\ old \in Positions /\ old.pending \in Nat /\ old.claimed \in Nat
      /\ old.stakedAt <= now /\ now \in Nat
  BY PositionOf
<1> HIDE DEF old
<1>2. gain \in Nat
  BY <1>1, AccruedIs DEF Accrued
<1>3. Settled(old) = pos /\ Earned(old) = old.claimed + old.pending + gain
  BY DEF Settled, Earned
<1> HIDE DEF gain
<1>4. /\ pos \in Positions /\ pos.stakedAt = now /\ pos.open = old.open
      /\ pos.amount = old.amount /\ pos.lockUntil = old.lockUntil /\ pos.rate = old.rate
      /\ pos.claimed = old.claimed /\ pos.pending = old.pending + gain
  <2>1. old.pending + gain \in Nat
    BY <1>1, <1>2
  <2>2. pos \in Positions
    BY <1>1, <2>1 DEF Positions
  <2> QED
    BY <1>1, <2>1, <2>2 DEF Positions
<1> HIDE DEF pos
<1> QED
  BY <1>1, <1>2, <1>3, <1>4 DEF old

\* A call that settles one position and then changes its principal, its lock, its rate or
\* what of it was paid out.
LEMMA PositionMoves ==
  ASSUME StakingSound, NEW a \in Accounts, NEW t \in Assets, NEW new \in Positions,
         SetPosition(a, t, new), HostTypeOK', now' = now, UNCHANGED rewardConfig,
         new.open, rewardConfig[t].set, new.stakedAt = now,
         new.claimed + new.pending = Earned(positions[a][t]),
         new.lockUntil >= positions[a][t].lockUntil,
         new.amount < positions[a][t].amount => now >= positions[a][t].lockUntil
  PROVE  StakingKept
<1>1. /\ positions' = [positions EXCEPT ![a][t] = new]
      /\ positions \in [Accounts -> [Assets -> Positions]] /\ now \in Nat
  BY SorobanAssumption DEF SetPosition, StakingSound, HostTypeOK
<1>2. positions' \in [Accounts -> [Assets -> Positions]]
  BY <1>1
<1>3. positions'[a][t] = new
  BY <1>1
<1>4. \A b \in Accounts, u \in Assets : ~(b = a /\ u = t) => positions'[b][u] = positions[b][u]
  BY <1>1
<1>5. ASSUME NEW b \in Accounts, NEW u \in Assets
      PROVE  /\ positions'[b][u].stakedAt <= now
             /\ positions'[b][u].open => rewardConfig[u].set
             /\ ~positions'[b][u].open => positions'[b][u] = NoPosition
  <2>1. CASE b = a /\ u = t
    BY <1>1, <1>3, <2>1
  <2>2. CASE ~(b = a /\ u = t)
    BY <1>4, <2>2 DEF StakingSound
  <2> QED
    BY <2>1, <2>2
<1>6. StakingSound'
  BY <1>2, <1>5 DEF StakingSound
<1>7. ASSUME NEW b \in Accounts, NEW u \in Assets
      PROVE  /\ Earned(positions[b][u])'
                  = Earned(positions[b][u])
                      + positions[b][u].rate * positions[b][u].amount * (now' - now)
             /\ positions'[b][u].lockUntil >= positions[b][u].lockUntil
             /\ positions'[b][u].amount < positions[b][u].amount => now >= positions[b][u].lockUntil
  <2> DEFINE old == positions[b][u]
  <2>1. /\ old.amount \in Nat /\ old.rate \in Nat /\ old.lockUntil \in Nat /\ Earned(old) \in Nat
    BY PositionOf, SettledIs
  <2>2. Earned(old) + old.rate * old.amount * (now' - now) = Earned(old)
    <3>1. now' - now = 0
      BY <1>1
    <3>2. old.rate * old.amount \in Nat
      BY <2>1
    <3>3. old.rate * old.amount * 0 = 0
      BY <3>2
    <3> QED
      BY <2>1, <3>1, <3>3
  <2>3. CASE b = a /\ u = t
    <3>1. Earned(positions[b][u])' = new.claimed + new.pending + 0
      BY <1>1, <1>3, <2>3 DEF Earned, Accrued
    <3>2. new.claimed \in Nat /\ new.pending \in Nat
      BY DEF Positions
    <3>3. Earned(positions[b][u])' = Earned(old)
      BY <2>3, <3>1, <3>2
    <3> QED
      BY <1>3, <2>2, <2>3, <3>3
  <2>4. CASE ~(b = a /\ u = t)
    <3>1. positions'[b][u] = old
      BY <1>4, <2>4
    <3>2. Earned(positions[b][u])' = Earned(old)
      BY <3>1 DEF Earned, Accrued
    <3> QED
      BY <2>1, <2>2, <3>1, <3>2
  <2> QED
    BY <2>3, <2>4
<1>8. EarnsByTime /\ KeepsLocks
  BY <1>7 DEF EarnsByTime, KeepsLocks
<1> QED
  BY <1>6, <1>8 DEF StakingKept

\* A step that leaves the positions alone.
LEMMA PositionsStay ==
  ASSUME StakingSound, UNCHANGED positions, HostTypeOK', now' >= now,
         rewardConfig' \in [Assets -> RewardConfigs],
         \A t \in Assets :
           /\ rewardConfig[t].set => rewardConfig'[t].set
           /\ rewardConfig'[t].set => rewardConfig'[t].asset \in RewardAssetsOf[t]
  PROVE  StakingKept
<1> DEFINE gone == now' - now
<1>1. now \in Nat /\ now' \in Nat /\ gone \in Nat
  <2>1. now \in Nat /\ now' \in Nat
    BY SorobanAssumption DEF StakingSound, HostTypeOK
  <2>2. now' >= now
    OBVIOUS
  <2>3. \A m, n \in Nat : m >= n => m - n \in Nat
    OBVIOUS
  <2>4. now' - now \in Nat
    BY <2>1, <2>2, <2>3, Zenon
  <2> QED
    BY <2>1, <2>4
<1> HIDE DEF gone
<1>2. ASSUME NEW a \in Accounts, NEW t \in Assets
      PROVE  /\ positions[a][t].stakedAt <= now'
             /\ positions[a][t].open => rewardConfig'[t].set
             /\ ~positions[a][t].open => positions[a][t] = NoPosition
  <2>1. positions[a][t].stakedAt \in Nat /\ positions[a][t].stakedAt <= now
    BY PositionOf
  <2> QED
    BY <1>1, <2>1 DEF StakingSound
<1>3. StakingSound'
  BY <1>2 DEF StakingSound
<1>4. ASSUME NEW a \in Accounts, NEW t \in Assets
      PROVE  /\ Earned(positions[a][t])'
                  = Earned(positions[a][t])
                      + positions[a][t].rate * positions[a][t].amount * (now' - now)
             /\ positions[a][t].lockUntil >= positions[a][t].lockUntil
             /\ ~(positions[a][t].amount < positions[a][t].amount)
  <2> DEFINE pos == positions[a][t]
             p == pos.rate * pos.amount
             s == pos.stakedAt
  <2>1. /\ pos \in Positions /\ pos.amount \in Nat /\ s \in Nat /\ pos.lockUntil \in Nat
        /\ pos.claimed \in Nat /\ pos.rate \in Nat /\ pos.pending \in Nat
        /\ s <= now
    BY PositionOf
  <2>2. p \in Nat
    BY <2>1
  <2>3. /\ Earned(pos) = pos.claimed + pos.pending + p * (now - s)
        /\ Earned(positions[a][t])' = pos.claimed + pos.pending + p * (now' - s)
        /\ p * (now - s) \in Nat /\ p * (now' - s) \in Nat
    <3>1. s <= now'
      BY <1>1, <2>1
    <3>2. /\ p * (now - s) \in Nat /\ p * (now' - s) \in Nat
          /\ (IF now > s /\ pos.amount > 0 THEN p * (now - s) ELSE 0) = p * (now - s)
          /\ (IF now' > s /\ pos.amount > 0 THEN p * (now' - s) ELSE 0) = p * (now' - s)
      BY <1>1, <2>1, <3>1, AccruedIs
    <3>3. Accrued(pos) = p * (now - s) /\ Accrued(positions[a][t])' = p * (now' - s)
      BY <3>2 DEF Accrued
    <3> QED
      BY <3>2, <3>3 DEF Earned
  <2>4. p * (now' - s) = p * (now - s) + p * (now' - now)
    <3> HIDE DEF p, s
    <3> QED
      BY <1>1, <2>1, <2>2
  <2> HIDE DEF p, s
  <2>5. p * (now' - now) \in Nat
    <3>1. p * gone \in Nat
      BY <1>1, <2>2
    <3> QED
      BY <3>1 DEF gone
  <2>6. pos.claimed + pos.pending + p * (now' - s) = pos.claimed + pos.pending + p * (now - s) + p * (now' - now)
    BY <2>1, <2>3, <2>4, <2>5
  <2> QED
    BY <2>1, <2>3, <2>6 DEF p
<1>5. EarnsByTime /\ KeepsLocks
  BY <1>4 DEF EarnsByTime, KeepsLocks
<1> QED
  BY <1>3, <1>5 DEF StakingKept

\* The amounts a call moves are whole numbers, and the balances stay well formed.
LEMMA StakingTransfer ==
  ASSUME HostTypeOK, NEW t \in Assets, NEW a \in Accounts, NEW n \in Int, UNCHANGED now,
         Transfer(t, a, StakingAt, n) \/ Transfer(t, StakingAt, a, n)
  PROVE  HostTypeOK' /\ now' = now
<1>1. balance' \in [Assets -> [Addresses -> Nat]]
  BY TransferTyped
<1> QED
  BY <1>1 DEF HostTypeOK

LEMMA StakeKeeps ==
  ASSUME StakingSound, NEW a \in Accounts, NEW t \in Assets, NEW amount \in StakeAmounts,
         NEW duration \in LockDurations, Stake(a, t, amount, duration)
  PROVE  /\ StakingKept /\ amount \in Nat
         /\ positions'[a][t].amount = positions[a][t].amount + amount
<1> DEFINE old == positions[a][t]
           config == rewardConfig[t]
           lock == now + duration
           rate == IF old.amount = 0 THEN config.rate
                   ELSE (old.rate * old.amount + config.rate * amount) \div (old.amount + amount)
           pos == Settled(old)
           first == [NoPosition EXCEPT !.open = TRUE, !.amount = amount, !.stakedAt = now,
                                       !.lockUntil = lock, !.rate = config.rate]
           more == [pos EXCEPT !.amount = @ + amount, !.lockUntil = Later(@, lock),
                               !.rate = IF old.amount = 0 THEN config.rate
                                        ELSE (@ * old.amount + config.rate * amount) \div (old.amount + amount)]
           new == IF old.open THEN more ELSE first
<1>1. /\ amount > 0 /\ amount \in Nat /\ duration \in Nat /\ config.set
      /\ SetPosition(a, t, new) /\ Transfer(t, a, StakingAt, amount)
      /\ UNCHANGED <<now, stakingReady, rewardConfig>>
  <2>1. amount \in Int /\ duration \in Nat
    BY StakingAssumption
  <2>2. /\ amount > 0 /\ config.set
        /\ Transfer(t, a, StakingAt, amount)
        /\ UNCHANGED <<now, stakingReady, rewardConfig>>
    BY DEF Stake
  <2>3. SetPosition(a, t, new)
    BY DEF Stake, ToppedUp
  <2> QED
    BY <2>1, <2>2, <2>3
<1>2. /\ old \in Positions /\ old.amount \in Nat /\ old.lockUntil \in Nat /\ old.rate \in Nat
      /\ now \in Nat /\ config \in RewardConfigs /\ config.rate \in Nat
  <2>1. config \in RewardConfigs
    BY DEF StakingSound
  <2> QED
    BY <2>1, PositionOf DEF RewardConfigs
<1>3. /\ pos \in Positions /\ pos.stakedAt = now /\ pos.open = old.open
      /\ pos.amount = old.amount /\ pos.lockUntil = old.lockUntil /\ pos.rate = old.rate
      /\ pos.claimed + pos.pending = Earned(old)
  BY SettledIs
<1>4. HostTypeOK' /\ now' = now
  BY <1>1, StakingTransfer DEF StakingSound
<1>5. lock \in Nat
  BY <1>1, <1>2
<1>6. rate \in Nat
  <2>1. old.rate * old.amount + config.rate * amount \in Nat /\ old.amount + amount \in Nat \ {0}
    BY <1>1, <1>2
  <2>2. (old.rate * old.amount + config.rate * amount) \div (old.amount + amount) \in Nat
    BY <2>1, DivOrder
  <2> QED
    BY <1>2, <2>2
<1> HIDE DEF lock, config, pos
<1>7. CASE old.open
  <2> DEFINE longer == Later(old.lockUntil, lock)
  <2>1. longer \in Nat /\ longer >= old.lockUntil
    BY <1>2, <1>5 DEF Later
  <2>2. /\ more = [pos EXCEPT !.amount = old.amount + amount, !.lockUntil = longer, !.rate = rate]
        /\ old.amount + amount \in Nat
    BY <1>1, <1>2, <1>3
  <2> HIDE DEF longer, rate, more
  <2>3. /\ more \in Positions /\ more.open = pos.open /\ more.stakedAt = now
        /\ more.amount = old.amount + amount /\ more.lockUntil = longer
        /\ more.claimed = pos.claimed /\ more.pending = pos.pending
    BY <1>3, <1>6, <2>1, <2>2 DEF Positions
  <2>4. SetPosition(a, t, more) /\ more.open
    BY <1>1, <1>3, <1>7, <2>3
  <2>5. ~(more.amount < old.amount) /\ more.lockUntil >= old.lockUntil
    BY <1>1, <1>2, <2>1, <2>3
  <2>6. StakingKept
    BY <1>1, <1>3, <1>4, <2>3, <2>4, <2>5, PositionMoves DEF config
  <2>7. positions'[a][t] = more
    BY <2>4 DEF SetPosition, StakingSound
  <2> QED
    BY <1>1, <2>3, <2>6, <2>7
<1>8. CASE ~old.open
  <2>1. old = NoPosition
    BY <1>8 DEF StakingSound
  <2>2. /\ first \in Positions /\ first.open = TRUE /\ first.stakedAt = now
        /\ first.amount = amount /\ first.lockUntil = lock /\ first.claimed = 0 /\ first.pending = 0
    BY <1>1, <1>2, <1>5 DEF Positions, NoPosition
  <2>3. old.amount = 0 /\ old.lockUntil = 0 /\ Earned(old) = 0
    BY <2>1 DEF NoPosition, Earned, Accrued
  <2> HIDE DEF first, old
  <2>4. SetPosition(a, t, first) /\ first.open
    BY <1>1, <1>8, <2>2
  <2>5. ~(first.amount < old.amount) /\ first.lockUntil >= old.lockUntil
        /\ first.claimed + first.pending = Earned(old)
    BY <1>1, <1>5, <2>2, <2>3
  <2>6. StakingKept
    BY <1>1, <1>4, <2>2, <2>4, <2>5, PositionMoves DEF config, old
  <2>7. positions'[a][t] = first
    BY <2>4 DEF SetPosition, StakingSound
  <2> QED
    BY <1>1, <2>2, <2>3, <2>6, <2>7 DEF old
<1> QED
  BY <1>7, <1>8

LEMMA UnstakeKeeps ==
  ASSUME StakingSound, NEW a \in Accounts, NEW t \in Assets, NEW amount \in StakeAmounts,
         Unstake(a, t, amount)
  PROVE  /\ StakingKept /\ amount \in Nat
         /\ positions'[a][t].amount = positions[a][t].amount - amount
<1> DEFINE old == positions[a][t]
           pos == Settled(old)
           new == [pos EXCEPT !.amount = @ - amount]
<1>1. /\ amount > 0 /\ amount \in Nat /\ old.open /\ now >= old.lockUntil /\ amount <= old.amount
      /\ SetPosition(a, t, new) /\ Transfer(t, StakingAt, a, amount)
      /\ UNCHANGED <<now, stakingReady, rewardConfig>>
  <2>1. amount \in Int
    BY StakingAssumption
  <2> QED
    BY <2>1 DEF Unstake
<1>2. old.amount \in Nat /\ old.lockUntil \in Nat
  BY PositionOf
<1>3. /\ pos \in Positions /\ pos.stakedAt = now /\ pos.open = old.open
      /\ pos.amount = old.amount /\ pos.lockUntil = old.lockUntil
      /\ pos.claimed + pos.pending = Earned(old)
  BY SettledIs
<1> HIDE DEF pos
<1>4. HostTypeOK' /\ now' = now
  BY <1>1, StakingTransfer DEF StakingSound
<1>5. /\ new \in Positions /\ new.open = pos.open /\ new.stakedAt = now
      /\ new.amount = old.amount - amount /\ new.lockUntil = pos.lockUntil
      /\ new.claimed = pos.claimed /\ new.pending = pos.pending
  <2>1. pos.amount - amount \in Nat
    BY <1>1, <1>2, <1>3
  <2> QED
    BY <1>3, <2>1 DEF Positions
<1> HIDE DEF new
<1>6. new.lockUntil >= old.lockUntil /\ rewardConfig[t].set /\ new.open
  BY <1>1, <1>2, <1>3, <1>5 DEF StakingSound
<1>7. StakingKept
  BY <1>1, <1>3, <1>4, <1>5, <1>6, PositionMoves
<1>8. positions'[a][t] = new
  BY <1>1 DEF SetPosition, StakingSound
<1> QED
  BY <1>1, <1>5, <1>7, <1>8

LEMMA ClaimRewardsKeeps ==
  ASSUME StakingSound, NEW a \in Accounts, NEW t \in Assets, ClaimRewards(a, t)
  PROVE  /\ StakingKept
         /\ positions'[a][t].amount = positions[a][t].amount
         /\ rewardConfig[t].set /\ rewardConfig[t].asset \in Assets
         /\ \E n \in Nat : Transfer(rewardConfig[t].asset, StakingAt, a, n)
<1> DEFINE old == positions[a][t]
           pos == Settled(old)
           new == [pos EXCEPT !.claimed = @ + pos.pending, !.pending = 0]
<1>1. /\ pos.open /\ rewardConfig[t].set
      /\ SetPosition(a, t, new) /\ Transfer(rewardConfig[t].asset, StakingAt, a, pos.pending)
      /\ UNCHANGED <<now, stakingReady, rewardConfig>>
  BY DEF ClaimRewards
<1>2. old.amount \in Nat /\ old.lockUntil \in Nat /\ rewardConfig[t].asset \in Assets
  BY PositionOf DEF StakingSound, RewardConfigs
<1>3. /\ pos \in Positions /\ pos.stakedAt = now
      /\ pos.amount = old.amount /\ pos.lockUntil = old.lockUntil
      /\ pos.claimed + pos.pending = Earned(old)
  BY SettledIs
<1> HIDE DEF pos
<1>4. pos.pending \in Nat /\ pos.claimed \in Nat
  BY <1>3 DEF Positions
<1>5. HostTypeOK' /\ now' = now
  BY <1>1, <1>2, <1>4, StakingTransfer DEF StakingSound
<1>6. /\ new \in Positions /\ new.open = pos.open /\ new.stakedAt = now
      /\ new.amount = old.amount /\ new.lockUntil = old.lockUntil
      /\ new.claimed = pos.claimed + pos.pending /\ new.pending = 0
  <2>1. pos.claimed + pos.pending \in Nat
    BY <1>4
  <2> QED
    BY <1>3, <2>1 DEF Positions
<1> HIDE DEF new, old
<1>7. /\ new.claimed + new.pending = Earned(old) /\ new.lockUntil >= old.lockUntil
      /\ ~(new.amount < old.amount) /\ new.open
  BY <1>1, <1>2, <1>3, <1>4, <1>6
<1>8. StakingKept
  BY <1>1, <1>5, <1>6, <1>7, PositionMoves DEF old
<1>9. positions'[a][t] = new
  BY <1>1 DEF SetPosition, StakingSound
<1> QED
  BY <1>1, <1>2, <1>4, <1>6, <1>8, <1>9 DEF old

LEMMA SetRewardKeeps ==
  ASSUME StakingSound, NEW a \in Accounts, NEW t \in Assets, NEW rate \in RewardRates,
         \/ SetRewardRate(a, t, rate)
         \/ \E r \in RewardAssetsOf[t], min \in MinDurations : SetRewardConfig(a, t, r, rate, min)
  PROVE  StakingKept
<1>1. /\ rewardConfig \in [Assets -> RewardConfigs] /\ rate \in Int
      /\ \A u \in Assets : rewardConfig[u].set => rewardConfig[u].asset \in RewardAssetsOf[u]
  BY StakingAssumption DEF StakingSound
<1>2. PICK c \in RewardConfigs :
        /\ rewardConfig' = [rewardConfig EXCEPT ![t] = c]
        /\ c.set /\ c.asset \in RewardAssetsOf[t]
        /\ UNCHANGED <<hostVars, stakingReady, positions>>
  <2>1. CASE SetRewardRate(a, t, rate)
    <3> DEFINE c == [rewardConfig[t] EXCEPT !.rate = rate]
    <3>1. /\ rewardConfig[t] \in RewardConfigs /\ rewardConfig[t].set /\ rate \in Nat
      BY <1>1, <2>1 DEF SetRewardRate
    <3>2. /\ c \in RewardConfigs /\ c.set = rewardConfig[t].set /\ c.asset = rewardConfig[t].asset
      BY <3>1 DEF RewardConfigs
    <3>3. rewardConfig' = [rewardConfig EXCEPT ![t] = c]
      BY <2>1 DEF SetRewardRate
    <3>4. UNCHANGED <<hostVars, stakingReady, positions>>
      BY <2>1 DEF SetRewardRate
    <3> HIDE DEF c
    <3> QED
      BY <1>1, <3>1, <3>2, <3>3, <3>4
  <2>2. CASE \E r \in RewardAssetsOf[t], min \in MinDurations : SetRewardConfig(a, t, r, rate, min)
    <3>1. PICK r \in RewardAssetsOf[t], min \in MinDurations : SetRewardConfig(a, t, r, rate, min)
      BY <2>2
    <3> DEFINE c == [set |-> TRUE, asset |-> r, rate |-> rate, minDuration |-> min]
    <3>2. r \in Assets /\ min \in Nat /\ rate \in Nat
      <4>1. RewardAssetsOf[t] \in SUBSET Assets /\ MinDurations \subseteq Nat
        BY StakingAssumption
      <4>2. rate >= 0
        BY <3>1 DEF SetRewardConfig
      <4> QED
        BY <1>1, <4>1, <4>2
    <3>3. c \in RewardConfigs /\ c.set = TRUE /\ c.asset = r
      BY <3>2 DEF RewardConfigs
    <3>4. rewardConfig' = [rewardConfig EXCEPT ![t] = c] /\ UNCHANGED <<hostVars, stakingReady, positions>>
      BY <3>1 DEF SetRewardConfig
    <3> HIDE DEF c
    <3> QED
      BY <3>3, <3>4
  <2> QED
    BY <2>1, <2>2
<1>3. rewardConfig' \in [Assets -> RewardConfigs]
  BY <1>1, <1>2
<1>4. ASSUME NEW u \in Assets
      PROVE  /\ rewardConfig[u].set => rewardConfig'[u].set
             /\ rewardConfig'[u].set => rewardConfig'[u].asset \in RewardAssetsOf[u]
  <2>1. CASE u = t
    <3>1. rewardConfig'[u] = c
      BY <1>1, <1>2, <2>1
    <3> QED
      BY <1>2, <2>1, <3>1
  <2>2. CASE u # t
    <3>1. rewardConfig'[u] = rewardConfig[u]
      BY <1>1, <1>2, <2>2
    <3> QED
      BY <1>1, <3>1
  <2> QED
    BY <2>1, <2>2
<1>5. HostTypeOK' /\ now' >= now
  <2>1. HostTypeOK /\ UNCHANGED <<now, balance>>
    BY <1>2 DEF StakingSound, hostVars
  <2>2. now \in Nat
    BY <2>1, SorobanAssumption DEF HostTypeOK
  <2> QED
    BY <2>1, <2>2 DEF HostTypeOK
<1> QED
  BY <1>2, <1>3, <1>4, <1>5, PositionsStay

\* Steps that only move the clock or send rewards in.
LEMMA StakingIdles ==
  ASSUME StakingSound, HostTypeOK', now' >= now, UNCHANGED <<rewardConfig, positions>>
  PROVE  StakingKept
<1>1. /\ rewardConfig' \in [Assets -> RewardConfigs]
      /\ \A t \in Assets :
           /\ rewardConfig[t].set => rewardConfig'[t].set
           /\ rewardConfig'[t].set => rewardConfig'[t].asset \in RewardAssetsOf[t]
  BY DEF StakingSound
<1> QED
  BY <1>1, PositionsStay

LEMMA StakingStep ==
  ASSUME StakingSound, [StakingNext]_stakingVars
  PROVE  StakingKept
<1>1. HostTypeOK /\ now \in Nat
  BY SorobanAssumption DEF StakingSound, HostTypeOK
<1>2. ASSUME UNCHANGED <<hostVars, rewardConfig, positions>>
      PROVE  StakingKept
  <2>1. HostTypeOK' /\ now' >= now
    BY <1>1, <1>2 DEF HostTypeOK, hostVars
  <2> QED
    BY <1>2, <2>1, StakingIdles
<1>3. CASE Tick /\ UNCHANGED <<stakingReady, rewardConfig, positions, rewardsLeft>>
  BY <1>1, <1>3, TickTyped, StakingIdles
<1>4. CASE InitializeStaking \/ UNCHANGED stakingVars
  BY <1>2, <1>4 DEF InitializeStaking, stakingVars
<1>5. ASSUME NEW a \in Accounts, NEW t \in Assets, FundRewards(a, t)
      PROVE  StakingKept
  <2>1. RewardFunding \in Int
    BY StakingAssumption
  <2>2. /\ Transfer(t, a, StakingAt, RewardFunding) /\ UNCHANGED now
        /\ UNCHANGED <<rewardConfig, positions>>
    BY <1>5 DEF FundRewards
  <2>3. HostTypeOK' /\ now' = now
    BY <1>1, <2>1, <2>2, StakingTransfer
  <2>4. now' >= now
    BY <1>1, <2>3
  <2> QED
    BY <2>2, <2>3, <2>4, StakingIdles
<1>6. ASSUME NEW a \in Accounts, NEW t \in Assets,
             \/ ClaimRewards(a, t)
             \/ \E amount \in StakeAmounts :
                  \/ Unstake(a, t, amount)
                  \/ \E duration \in LockDurations : Stake(a, t, amount, duration)
             \/ \E rate \in RewardRates :
                  \/ SetRewardRate(a, t, rate)
                  \/ \E r \in RewardAssetsOf[t], min \in MinDurations : SetRewardConfig(a, t, r, rate, min)
      PROVE  StakingKept
  BY <1>6, ClaimRewardsKeeps, UnstakeKeeps, StakeKeeps, SetRewardKeeps
<1> QED
  BY <1>3, <1>4, <1>5, <1>6 DEF StakingNext

LEMMA StakingRests ==
  ASSUME HostTypeOK, StakingStart
  PROVE  StakingSound
<1>1. /\ rewardConfig = [t \in Assets |-> [set |-> FALSE, asset |-> t, rate |-> 0, minDuration |-> 0]]
      /\ positions = [a \in Accounts |-> [t \in Assets |-> NoPosition]]
      /\ HostTypeOK /\ now >= 0
  BY SorobanAssumption DEF StakingStart, HostTypeOK
<1>2. rewardConfig \in [Assets -> RewardConfigs] /\ \A t \in Assets : ~rewardConfig[t].set
  BY <1>1 DEF RewardConfigs
<1>3. NoPosition \in Positions /\ NoPosition.stakedAt = 0 /\ NoPosition.open = FALSE
  BY DEF NoPosition, Positions
<1>4. positions \in [Accounts -> [Assets -> Positions]]
  BY <1>1, <1>3
<1>5. \A a \in Accounts, t \in Assets : positions[a][t] = NoPosition
  BY <1>1
<1> QED
  BY <1>1, <1>2, <1>3, <1>4, <1>5 DEF StakingSound

LEMMA StakingBegin ==
  ASSUME StakingInit
  PROVE  StakingSound
  BY HostStart, StakingRests DEF StakingInit

\* What a position has earned changes with the clock alone: no top-up, partial unstake,
\* claim or new rate adds to it or takes from it (settle_accrual and its callers).
THEOREM EarnsOnlyByTime == StakingSpec => EarnedOnlyByTime
<1>1. StakingSound /\ [StakingNext]_stakingVars => StakingSound'
  BY StakingStep DEF StakingKept
<1>2. StakingSound /\ [StakingNext]_stakingVars =>
        \A a \in Accounts, t \in Assets :
          LET old == positions[a][t] IN
          Earned(positions[a][t])' = Earned(old) + old.rate * old.amount * (now' - now)
  BY StakingStep DEF StakingKept, EarnsByTime
<1> QED
  BY StakingBegin, <1>1, <1>2, PTL DEF StakingSpec, EarnedOnlyByTime

\* No call shortens a lock, and nothing is unstaked before the lock ends (stake, unstake).
THEOREM LocksBind == StakingSpec => LockKept
<1>1. StakingSound /\ [StakingNext]_stakingVars => StakingSound'
  BY StakingStep DEF StakingKept
<1>2. StakingSound /\ [StakingNext]_stakingVars =>
        \A a \in Accounts, t \in Assets :
          /\ positions'[a][t].lockUntil >= positions[a][t].lockUntil
          /\ positions'[a][t].amount < positions[a][t].amount =>
               now >= positions[a][t].lockUntil
  BY StakingStep DEF StakingKept, KeepsLocks
<1> QED
  BY StakingBegin, <1>1, <1>2, PTL DEF StakingSpec, LockKept

-----------------------------------------------------------------------------
(* What stakers put in, and what rewards took from it.  An admin may let an  *)
(* asset earn itself, and rewards are then paid out of the balance that     *)
(* holds the principal: the contract is short by what was paid beyond what  *)
(* was sent in for rewards, and by nothing else.                            *)

Staked(t) == [a \in Accounts |-> positions[a][t].amount]
StakedInAll(t) == SumFunctionOnSet(Staked(t), Accounts)

PrincipalInv == StakingSound /\ PrincipalIsHeld /\ rewardsLeft \in [Assets -> Int]

LEMMA StakedTyped ==
  ASSUME StakingSound, NEW t \in Assets
  PROVE  /\ Staked(t) \in [Accounts -> Nat] /\ IsFiniteSet(Accounts)
         /\ StakedInAll(t) \in Nat
         /\ StakingAt \in Addresses /\ balance[t][StakingAt] \in Nat
<1>1. Staked(t) \in [Accounts -> Nat]
  BY PositionOf DEF Staked
<1>2. IsFiniteSet(Accounts)
  BY SorobanAssumption
<1>3. StakingAt \in Addresses /\ balance[t][StakingAt] \in Nat
  BY StakingAssumption DEF StakingSound, HostTypeOK, Addresses
<1> QED
  BY <1>1, <1>2, <1>3, SumNat DEF StakedInAll

\* One position's amount changes, and no other.
LEMMA StakedChanges ==
  ASSUME StakingSound, StakingSound', NEW a \in Accounts, NEW t \in Assets, NEW n \in Int,
         positions'[a][t].amount = positions[a][t].amount + n,
         \A b \in Accounts, u \in Assets : ~(b = a /\ u = t) => positions'[b][u] = positions[b][u]
  PROVE  /\ StakedInAll(t)' = StakedInAll(t) + n
         /\ \A u \in Assets : u # t => StakedInAll(u)' = StakedInAll(u)
<1>1. /\ Staked(t) \in [Accounts -> Nat] /\ Staked(t)' \in [Accounts -> Nat]
      /\ IsFiniteSet(Accounts) /\ StakedInAll(t) \in Nat
  <2>1. \A b \in Accounts : positions'[b][t].amount \in Nat
    BY DEF StakingSound, Positions
  <2>2. Staked(t)' \in [Accounts -> Nat]
    BY <2>1 DEF Staked
  <2> QED
    BY <2>2, StakedTyped
<1>2. /\ \A b \in Accounts : b # a => Staked(t)[b] = Staked(t)'[b]
      /\ Staked(t)'[a] = Staked(t)[a] + n
  BY DEF Staked
<1>3. StakedInAll(t)' = StakedInAll(t) + n
  <2> DEFINE f == Staked(t)
             e == Staked(t)'
  <2>1. \A b \in Accounts : f[b] \in Int /\ e[b] \in Int
    BY <1>1
  <2>2. SumFunctionOnSet(f, Accounts) \in Nat /\ SumFunctionOnSet(e, Accounts) \in Int
    BY <1>1, <2>1, SumInt DEF StakedInAll
  <2>3. \A b \in Accounts \ {a} : f[b] = e[b]
    BY <1>2
  <2> HIDE DEF f, e
  <2>4. SumFunctionOnSet(f, Accounts) - (IF a \in Accounts THEN f[a] ELSE 0)
          = SumFunctionOnSet(e, Accounts) - (IF a \in Accounts THEN e[a] ELSE 0)
    BY <1>1, <2>1, <2>3, SumChange
  <2>5. e[a] = f[a] + n
    BY <1>2 DEF f, e
  <2>6. SumFunctionOnSet(e, Accounts) = SumFunctionOnSet(f, Accounts) + n
    BY <2>1, <2>2, <2>4, <2>5
  <2> QED
    BY <2>6 DEF f, e, StakedInAll
<1>4. ASSUME NEW u \in Assets, u # t
      PROVE  StakedInAll(u)' = StakedInAll(u)
  <2>1. Staked(u)' = Staked(u)
    BY <1>4 DEF Staked
  <2> QED
    BY <2>1 DEF StakedInAll
<1> QED
  BY <1>3, <1>4

LEMMA PrincipalStep ==
  ASSUME PrincipalInv, [StakingNext]_stakingVars
  PROVE  PrincipalInv'
<1>1. /\ StakingSound /\ StakingSound' /\ rewardsLeft \in [Assets -> Int]
      /\ \A t \in Assets : balance[t][StakingAt] = StakedInAll(t) + rewardsLeft[t]
  BY StakingStep DEF PrincipalInv, PrincipalIsHeld, StakingKept, StakedInAll, Staked
<1> DEFINE Kept == /\ rewardsLeft' \in [Assets -> Int]
                   /\ \A t \in Assets : balance'[t][StakingAt] = StakedInAll(t)' + rewardsLeft'[t]
<1>2. SUFFICES Kept
  BY <1>1 DEF PrincipalInv, PrincipalIsHeld, StakedInAll, Staked
<1>3. /\ HostTypeOK /\ StakingAt \in Contracts
      /\ \A t \in Assets : /\ StakedInAll(t) \in Nat /\ rewardsLeft[t] \in Int
                           /\ balance[t][StakingAt] \in Nat
  BY <1>1, StakedTyped, StakingAssumption DEF StakingSound
<1>4. ASSUME UNCHANGED positions
      PROVE  \A t \in Assets : StakedInAll(t)' = StakedInAll(t)
  BY <1>4 DEF StakedInAll, Staked
<1>5. ASSUME UNCHANGED <<positions, balance, rewardsLeft>>
      PROVE  Kept
  BY <1>1, <1>4, <1>5
<1>6. ASSUME NEW a \in Accounts, NEW t \in Assets, FundRewards(a, t)
      PROVE  Kept
  <2>1. /\ Transfer(t, a, StakingAt, RewardFunding) /\ UNCHANGED positions /\ RewardFunding \in Int
        /\ rewardsLeft' = [rewardsLeft EXCEPT ![t] = @ + RewardFunding]
    BY <1>6, StakingAssumption DEF FundRewards
  <2>2. /\ balance'[t][StakingAt] = balance[t][StakingAt] + RewardFunding
        /\ \A u \in Assets : u # t => balance'[u][StakingAt] = balance[u][StakingAt]
    BY <1>3, <2>1, MoneyIn
  <2>3. rewardsLeft' \in [Assets -> Int] /\ rewardsLeft'[t] = rewardsLeft[t] + RewardFunding
    BY <1>1, <2>1
  <2>4. ASSUME NEW u \in Assets
        PROVE  balance'[u][StakingAt] = StakedInAll(u)' + rewardsLeft'[u]
    BY <1>1, <1>3, <1>4, <2>1, <2>2, <2>3
  <2> QED
    BY <2>3, <2>4
<1>7. ASSUME NEW a \in Accounts, NEW t \in Assets, ClaimRewards(a, t)
      PROVE  Kept
  <2> DEFINE r == rewardConfig[t].asset
             n == Settled(positions[a][t]).pending
  <2>1. /\ Transfer(r, StakingAt, a, n) /\ rewardsLeft' = [rewardsLeft EXCEPT ![r] = @ - n]
        /\ r \in Assets /\ positions'[a][t].amount = positions[a][t].amount
    BY <1>1, <1>7, ClaimRewardsKeeps DEF ClaimRewards
  <2>2. n \in Nat /\ positions'[a][t].amount = positions[a][t].amount + 0
    BY <1>1, <2>1, SettledIs, PositionOf DEF Positions
  <2>3. \A b \in Accounts, u \in Assets : ~(b = a /\ u = t) => positions'[b][u] = positions[b][u]
    BY <1>1, <1>7 DEF ClaimRewards, SetPosition, StakingSound
  <2> HIDE DEF r, n
  <2>4. \A u \in Assets : StakedInAll(u)' = StakedInAll(u)
    <3>1. StakedInAll(t)' = StakedInAll(t) + 0 /\ \A u \in Assets : u # t => StakedInAll(u)' = StakedInAll(u)
      BY <1>1, <2>2, <2>3, StakedChanges
    <3> QED
      BY <1>3, <3>1
  <2>5. /\ balance'[r][StakingAt] = balance[r][StakingAt] - n
        /\ \A u \in Assets : u # r => balance'[u][StakingAt] = balance[u][StakingAt]
    BY <1>3, <2>1, <2>2, MoneyOut
  <2>6. rewardsLeft' \in [Assets -> Int] /\ rewardsLeft'[r] = rewardsLeft[r] - n
    BY <1>1, <2>1, <2>2
  <2>7. ASSUME NEW u \in Assets
        PROVE  balance'[u][StakingAt] = StakedInAll(u)' + rewardsLeft'[u]
    BY <1>1, <1>3, <2>1, <2>2, <2>4, <2>5, <2>6
  <2> QED
    BY <2>6, <2>7
<1>8. ASSUME NEW a \in Accounts, NEW t \in Assets, NEW amount \in StakeAmounts,
             NEW duration \in LockDurations, Stake(a, t, amount, duration)
      PROVE  Kept
  <2>1. amount \in Nat /\ positions'[a][t].amount = positions[a][t].amount + amount
    BY <1>1, <1>8, StakeKeeps
  <2>2. Transfer(t, a, StakingAt, amount) /\ UNCHANGED rewardsLeft
    BY <1>8 DEF Stake
  <2>3. \A b \in Accounts, u \in Assets : ~(b = a /\ u = t) => positions'[b][u] = positions[b][u]
    BY <1>1, <1>8 DEF Stake, SetPosition, StakingSound
  <2>4. /\ StakedInAll(t)' = StakedInAll(t) + amount
        /\ \A u \in Assets : u # t => StakedInAll(u)' = StakedInAll(u)
    BY <1>1, <2>1, <2>3, StakedChanges
  <2>5. /\ balance'[t][StakingAt] = balance[t][StakingAt] + amount
        /\ \A u \in Assets : u # t => balance'[u][StakingAt] = balance[u][StakingAt]
    BY <1>3, <2>1, <2>2, MoneyIn
  <2>6. ASSUME NEW u \in Assets
        PROVE  balance'[u][StakingAt] = StakedInAll(u)' + rewardsLeft'[u]
    BY <1>1, <1>3, <2>1, <2>2, <2>4, <2>5
  <2> QED
    BY <1>1, <2>2, <2>6
<1>9. ASSUME NEW a \in Accounts, NEW t \in Assets, NEW amount \in StakeAmounts, Unstake(a, t, amount)
      PROVE  Kept
  <2>1. amount \in Nat /\ positions'[a][t].amount = positions[a][t].amount + (-amount)
    <3>1. positions[a][t].amount \in Nat
      BY <1>1, PositionOf
    <3> QED
      BY <1>1, <1>9, <3>1, UnstakeKeeps
  <2>2. Transfer(t, StakingAt, a, amount) /\ UNCHANGED rewardsLeft
    BY <1>9 DEF Unstake
  <2>3. \A b \in Accounts, u \in Assets : ~(b = a /\ u = t) => positions'[b][u] = positions[b][u]
    BY <1>1, <1>9 DEF Unstake, SetPosition, StakingSound
  <2>4. /\ StakedInAll(t)' = StakedInAll(t) + (-amount)
        /\ \A u \in Assets : u # t => StakedInAll(u)' = StakedInAll(u)
    <3>1. -amount \in Int
      BY <2>1
    <3> QED
      BY <1>1, <2>1, <2>3, <3>1, StakedChanges
  <2>5. /\ balance'[t][StakingAt] = balance[t][StakingAt] - amount
        /\ \A u \in Assets : u # t => balance'[u][StakingAt] = balance[u][StakingAt]
    BY <1>3, <2>1, <2>2, MoneyOut
  <2>6. ASSUME NEW u \in Assets
        PROVE  balance'[u][StakingAt] = StakedInAll(u)' + rewardsLeft'[u]
    BY <1>1, <1>3, <2>1, <2>2, <2>4, <2>5
  <2> QED
    BY <1>1, <2>2, <2>6
<1>10. ASSUME NEW a \in Accounts, NEW t \in Assets, NEW rate \in RewardRates,
              \/ SetRewardRate(a, t, rate)
              \/ \E r \in RewardAssetsOf[t], min \in MinDurations : SetRewardConfig(a, t, r, rate, min)
       PROVE  UNCHANGED <<positions, balance, rewardsLeft>>
  BY <1>10 DEF SetRewardRate, SetRewardConfig, hostVars
<1>11. CASE \/ Tick /\ UNCHANGED <<stakingReady, rewardConfig, positions, rewardsLeft>>
            \/ InitializeStaking \/ UNCHANGED stakingVars
  BY <1>5, <1>11 DEF Tick, InitializeStaking, stakingVars, hostVars
<1> HIDE DEF Kept
<1> QED
  BY <1>5, <1>6, <1>7, <1>8, <1>9, <1>10, <1>11 DEF StakingNext

LEMMA PrincipalRests ==
  ASSUME HostTypeOK, StakingStart, \A t \in Assets : balance[t][StakingAt] = 0
  PROVE  PrincipalInv
<1>1. /\ StakingSound /\ positions = [a \in Accounts |-> [t \in Assets |-> NoPosition]]
      /\ rewardsLeft = [t \in Assets |-> 0]
  BY StakingRests DEF StakingStart
<1>2. ASSUME NEW t \in Assets
      PROVE  balance[t][StakingAt] = StakedInAll(t) + rewardsLeft[t]
  <2>1. \A a \in Accounts : Staked(t)[a] = 0
    BY <1>1 DEF Staked, NoPosition
  <2>2. StakedInAll(t) = 0 /\ rewardsLeft[t] = 0
    BY <1>1, <2>1, StakedTyped, SumZero DEF StakedInAll
  <2> QED
    BY <2>2
<1>3. rewardsLeft \in [Assets -> Int]
  BY <1>1
<1> QED
  BY <1>1, <1>2, <1>3 DEF PrincipalInv, PrincipalIsHeld, StakedInAll, Staked

LEMMA PrincipalBegin ==
  ASSUME StakingInit
  PROVE  PrincipalInv
<1>1. HostTypeOK /\ \A t \in Assets : balance[t][StakingAt] = 0
  BY HostStart, StakingAssumption DEF StakingInit
<1> QED
  BY <1>1, PrincipalRests DEF StakingInit

\* Of every asset the contract holds the principal of all stakers and the rewards left, so
\* that the principal is short only by rewards paid beyond what was sent in for them, which
\* happens where an asset that is staked is paid as a reward (stake, unstake, claim_rewards).
THEOREM StakesAreHeld == StakingSpec => []PrincipalIsHeld
<1>1. PrincipalInv /\ [StakingNext]_stakingVars => PrincipalInv'
  BY PrincipalStep
<1>2. PrincipalInv => PrincipalIsHeld
  BY DEF PrincipalInv
<1> QED
  BY PrincipalBegin, <1>1, <1>2, PTL DEF StakingSpec

-----------------------------------------------------------------------------
(* The bridge: its pool adds up, it pays once for each proof, and a         *)
(* migration leaves no request behind.                                      *)

RequestRows ==
  [layout : {"old", "3"}, asset : Assets, to : Accounts \cup {BridgeAt}, amount : Nat \ {0},
   status : {"Locked", "Minted", "Burned", "Unlocked"}, signed : SUBSET SignerKeys]

\* What a request adds to the requests of an asset in some statuses.
Share(x, t, X) ==
  IF x \in DOMAIN requests /\ requests[x].asset = t /\ requests[x].status \in X
  THEN requests[x].amount ELSE 0

Pool(t) == balance[t][BridgeAt]

\* A version is stored only when all is migrated, and until then what is before the cursor is.
MigratedSoFar ==
  /\ storageVersion = "3" => \A id \in DOMAIN requests : requests[id].layout = "3"
  /\ storageVersion \in {"none", "2"} => requests = <<>>
  /\ storageVersion = "old" =>
       \A id \in DOMAIN requests : id < migrationCursor => requests[id].layout = "3"

BridgeKept ==
  /\ HostTypeOK
  /\ storageVersion \in {"none", "old", "2", "3"}
  /\ migrationCursor \in Nat \ {0}
  /\ bridgeFee \in Nat /\ signerThreshold \in Nat
  /\ bridgeSigners \in SUBSET SignerKeys
  /\ feesCollected \in [Assets -> Nat]
  /\ assetPair \in [Assets -> Assets \cup {NoAsset}]

BridgeSound ==
  /\ BridgeKept
  /\ requests \in Seq(RequestRows)
  /\ PoolAddsUp
  /\ MigratedSoFar

LEMMA BridgeFacts ==
  ASSUME BridgeSound
  PROVE  /\ \A t \in Assets : Pool(t) \in Nat /\ feesCollected[t] \in Nat
         /\ BridgeAt \in Contracts
         /\ DOMAIN requests = 1..Len(requests) /\ Len(requests) \in Nat /\ IsFiniteSet(DOMAIN requests)
         /\ \A id \in DOMAIN requests : requests[id] \in RequestRows
         /\ HostTypeOK
<1>1. /\ DOMAIN requests = 1..Len(requests) /\ Len(requests) \in Nat /\ IsFiniteSet(DOMAIN requests)
      /\ \A id \in DOMAIN requests : requests[id] \in RequestRows
  BY SeqFacts DEF BridgeSound
<1>2. BridgeAt \in Contracts /\ \A t \in Assets : Pool(t) \in Nat /\ feesCollected[t] \in Nat
  BY BridgeAssumption DEF Pool, BridgeSound, BridgeKept, HostTypeOK, Addresses
<1> QED
  BY <1>1, <1>2 DEF BridgeSound, BridgeKept

\* When one request changes, the amounts of an asset in any statuses change by its share.
LEMMA AmountsChange ==
  ASSUME BridgeSound, NEW x, requests' \in Seq(RequestRows),
         (DOMAIN requests) \ {x} = (DOMAIN requests') \ {x},
         \A i \in DOMAIN requests : i # x => requests'[i] = requests[i],
         NEW t, NEW X
  PROVE  /\ Amounts(t, X) - Share(x, t, X) = Amounts(t, X)' - Share(x, t, X)'
         /\ Amounts(t, X) \in Nat /\ Amounts(t, X)' \in Nat
<1>1. PICK f, e, S, T :
        /\ f = [id \in DOMAIN requests |-> requests[id].amount]
        /\ e = [id \in DOMAIN requests' |-> requests'[id].amount]
        /\ S = {id \in DOMAIN requests : requests[id].asset = t /\ requests[id].status \in X}
        /\ T = {id \in DOMAIN requests' : requests'[id].asset = t /\ requests'[id].status \in X}
  OBVIOUS
<1>2. IsFiniteSet(S) /\ \A y \in S : f[y] \in Nat
  <2>1. S \subseteq DOMAIN requests
    BY <1>1
  <2>2. \A id \in DOMAIN requests : f[id] \in Nat
    BY <1>1, BridgeFacts DEF RequestRows
  <2> QED
    BY <2>1, <2>2, BridgeFacts, FS_Subset
<1>3. IsFiniteSet(T) /\ \A y \in T : e[y] \in Nat
  <2>1. IsFiniteSet(DOMAIN requests') /\ \A id \in DOMAIN requests' : requests'[id] \in RequestRows
    BY SeqFacts
  <2>2. T \subseteq DOMAIN requests'
    BY <1>1
  <2>3. \A id \in DOMAIN requests' : e[id] \in Nat
    BY <1>1, <2>1 DEF RequestRows
  <2> QED
    BY <2>1, <2>2, <2>3, FS_Subset
<1>4. S \ {x} = T \ {x} /\ \A y \in S \ {x} : f[y] = e[y]
  BY <1>1
<1>5. SumFunctionOnSet(f, S) - (IF x \in S THEN f[x] ELSE 0)
        = SumFunctionOnSet(e, T) - (IF x \in T THEN e[x] ELSE 0)
  BY <1>2, <1>3, <1>4, SumChange
<1>6. Share(x, t, X) = (IF x \in S THEN f[x] ELSE 0) /\ Share(x, t, X)' = (IF x \in T THEN e[x] ELSE 0)
  BY <1>1 DEF Share
<1>7. Amounts(t, X) = SumFunctionOnSet(f, S) /\ Amounts(t, X)' = SumFunctionOnSet(e, T)
  BY <1>1 DEF Amounts
<1>8. SumFunctionOnSet(f, S) \in Nat /\ SumFunctionOnSet(e, T) \in Nat
  BY <1>2, <1>3, SumNat
<1> QED
  BY <1>5, <1>6, <1>7, <1>8

\* What was stored last has its share added.
LEMMA RequestAdded ==
  ASSUME BridgeSound, NEW row \in RequestRows, AddRequest(row)
  PROVE  /\ requests' \in Seq(RequestRows)
         /\ DOMAIN requests' = DOMAIN requests \cup {Len(requests) + 1}
         /\ requests'[Len(requests) + 1] = row
         /\ \A id \in DOMAIN requests : requests'[id] = requests[id]
         /\ \A t, X : /\ Amounts(t, X)' = Amounts(t, X)
                           + (IF row.asset = t /\ row.status \in X THEN row.amount ELSE 0)
                      /\ Amounts(t, X) \in Nat
<1>0. PICK last : last = Len(requests) + 1
  OBVIOUS
<1>1. requests' = Append(requests, row)
  BY DEF AddRequest
<1>2. requests \in Seq(RequestRows) /\ DOMAIN requests = 1..Len(requests) /\ Len(requests) \in Nat
  BY BridgeFacts DEF BridgeSound
<1>3. /\ requests' \in Seq(RequestRows) /\ Len(requests') = last /\ requests'[last] = row
      /\ \A id \in DOMAIN requests : requests'[id] = requests[id]
  BY <1>0, <1>1, <1>2, AppendProperties
<1>4. DOMAIN requests' = DOMAIN requests \cup {last} /\ last \notin DOMAIN requests
  BY <1>0, <1>2, <1>3, LenProperties
<1>5. ASSUME NEW t, NEW X
      PROVE  /\ Amounts(t, X)' = Amounts(t, X)
                  + (IF row.asset = t /\ row.status \in X THEN row.amount ELSE 0)
             /\ Amounts(t, X) \in Nat
  <2>1. /\ Amounts(t, X) - Share(last, t, X) = Amounts(t, X)' - Share(last, t, X)'
        /\ Amounts(t, X) \in Nat /\ Amounts(t, X)' \in Nat
    <3>1. (DOMAIN requests) \ {last} = (DOMAIN requests') \ {last}
      BY <1>4
    <3>2. \A i \in DOMAIN requests : i # last => requests'[i] = requests[i]
      BY <1>3
    <3> QED
      BY <1>3, <3>1, <3>2, AmountsChange
  <2>2. /\ Share(last, t, X) = 0
        /\ Share(last, t, X)' = (IF row.asset = t /\ row.status \in X THEN row.amount ELSE 0)
    BY <1>3, <1>4 DEF Share
  <2>3. row.amount \in Nat
    BY DEF RequestRows
  <2> QED
    BY <2>1, <2>2, <2>3
<1> QED
  BY <1>0, <1>3, <1>4, <1>5

\* A request that is settled takes its amount from the one status to the other.
LEMMA RequestMoved ==
  ASSUME BridgeSound, NEW id \in DOMAIN requests, NEW status \in {"Minted", "Unlocked"}, NEW proof,
         requests[id].status \in {"Locked", "Burned"}, Settle(id, status, proof)
  PROVE  /\ requests' \in Seq(RequestRows) /\ DOMAIN requests' = DOMAIN requests
         /\ requests'[id].status = status /\ requests'[id].signed = Signed(proof)
         /\ \A i \in DOMAIN requests : i # id => requests'[i] = requests[i]
         /\ \A i \in DOMAIN requests : requests'[i].layout = requests[i].layout
         /\ \A t, X :
              /\ Amounts(t, X) - (IF requests[id].asset = t /\ requests[id].status \in X
                                  THEN requests[id].amount ELSE 0)
                   = Amounts(t, X)' - (IF requests[id].asset = t /\ status \in X
                                       THEN requests[id].amount ELSE 0)
              /\ Amounts(t, X) \in Nat /\ Amounts(t, X)' \in Nat
<1> DEFINE row == [requests[id] EXCEPT !.status = status, !.signed = Signed(proof)]
<1>0. Signed(proof) \in SUBSET SignerKeys
  <2>1. bridgeSigners \in SUBSET SignerKeys
    BY DEF BridgeSound, BridgeKept
  <2> QED
    BY <2>1 DEF Signed
<1>1. /\ row \in RequestRows /\ row.status = status /\ row.amount = requests[id].amount
      /\ row.layout = requests[id].layout /\ row.asset = requests[id].asset
      /\ row.signed = Signed(proof)
  BY <1>0, BridgeFacts DEF RequestRows
<1>2. requests' = [requests EXCEPT ![id] = row]
  BY DEF Settle
<1> HIDE DEF row
<1>3. /\ requests' \in Seq(RequestRows) /\ DOMAIN requests' = DOMAIN requests
      /\ \A i \in DOMAIN requests : requests'[i] = IF i = id THEN row ELSE requests[i]
  BY <1>1, <1>2, ExceptSeq, BridgeFacts DEF BridgeSound
<1>4. ASSUME NEW t, NEW X
      PROVE  /\ Amounts(t, X) - (IF requests[id].asset = t /\ requests[id].status \in X
                                 THEN requests[id].amount ELSE 0)
                  = Amounts(t, X)' - (IF requests[id].asset = t /\ status \in X
                                      THEN requests[id].amount ELSE 0)
             /\ Amounts(t, X) \in Nat /\ Amounts(t, X)' \in Nat
  <2>1. /\ Amounts(t, X) - Share(id, t, X) = Amounts(t, X)' - Share(id, t, X)'
        /\ Amounts(t, X) \in Nat /\ Amounts(t, X)' \in Nat
    BY <1>3, AmountsChange
  <2>2. /\ Share(id, t, X) = (IF requests[id].asset = t /\ requests[id].status \in X
                              THEN requests[id].amount ELSE 0)
        /\ Share(id, t, X)' = (IF requests[id].asset = t /\ status \in X THEN requests[id].amount ELSE 0)
    BY <1>1, <1>3 DEF Share
  <2> QED
    BY <2>1, <2>2
<1> QED
  BY <1>1, <1>3, <1>4

LEMMA FeeNat ==
  ASSUME BridgeSound, NEW amount \in Nat
  PROVE  FeeOf(amount) \in Nat
<1>1. amount * bridgeFee \in Nat /\ MAX_BRIDGE_FEE_BPS \in Nat \ {0}
  BY BridgeAssumption DEF BridgeSound, BridgeKept
<1> DEFINE product == amount * bridgeFee
<1>2. product \in Nat
  BY <1>1
<1> HIDE DEF product
<1>3. product \div MAX_BRIDGE_FEE_BPS \in Nat
  BY <1>1, <1>2, DivOrder
<1> QED
  BY <1>3 DEF FeeOf, product

LEMMA LockAssetKeeps ==
  ASSUME BridgeSound, NEW a \in Accounts, NEW asset \in Assets, NEW amount \in BridgeAmounts,
         LockAsset(a, asset, amount)
  PROVE  BridgeSound'
<1> DEFINE fee == FeeOf(amount)
           row == [layout |-> "3", asset |-> asset, to |-> a, amount |-> amount - fee,
                   status |-> "Locked", signed |-> {}]
<1>1. amount \in Nat /\ fee \in Nat /\ amount - fee > 0
  BY FeeNat, BridgeAssumption DEF LockAsset
<1>2. /\ Current /\ Transfer(asset, a, BridgeAt, amount)
      /\ feesCollected' = [feesCollected EXCEPT ![asset] = @ + fee] /\ AddRequest(row)
      /\ UNCHANGED <<now, storageVersion, migrationCursor, configVars>>
  BY DEF LockAsset
<1> HIDE DEF fee
<1>3. /\ row \in RequestRows /\ row.status = "Locked" /\ row.amount = amount - fee
      /\ row.layout = "3" /\ row.asset = asset
  BY <1>1 DEF RequestRows
<1> HIDE DEF row
<1>4. /\ requests' \in Seq(RequestRows)
      /\ DOMAIN requests' = DOMAIN requests \cup {Len(requests) + 1}
      /\ requests'[Len(requests) + 1] = row
      /\ \A id \in DOMAIN requests : requests'[id] = requests[id]
      /\ \A t, X : /\ Amounts(t, X)' = Amounts(t, X)
                        + (IF row.asset = t /\ row.status \in X THEN row.amount ELSE 0)
                   /\ Amounts(t, X) \in Nat
  BY <1>2, <1>3, RequestAdded
<1>5. /\ HostTypeOK'
      /\ \A t \in Assets : Pool(t)' = Pool(t) + (IF t = asset THEN amount ELSE 0)
  <2>1. HostTypeOK /\ BridgeAt \in Contracts /\ amount \in Int /\ \A t \in Assets : Pool(t) \in Nat
    BY <1>1, BridgeFacts
  <2>2. balance' \in [Assets -> [Addresses -> Nat]]
    BY <1>2, <2>1, TransferTyped
  <2>3. /\ balance'[asset][BridgeAt] = balance[asset][BridgeAt] + amount
        /\ \A t \in Assets : t # asset => balance'[t][BridgeAt] = balance[t][BridgeAt]
    BY <1>2, <2>1, MoneyIn
  <2>4. ASSUME NEW t \in Assets PROVE Pool(t)' = Pool(t) + (IF t = asset THEN amount ELSE 0)
    BY <2>1, <2>3 DEF Pool
  <2> QED
    BY <1>2, <2>1, <2>2, <2>4 DEF HostTypeOK
<1>6. PoolAddsUp'
  <2> SUFFICES ASSUME NEW t \in Assets
               PROVE  Pool(t)' + Amounts(t, {"Unlocked"})' >= Amounts(t, {"Locked"})' + feesCollected'[t]
    BY DEF PoolAddsUp, Pool
  <2>1. /\ Amounts(t, {"Unlocked"})' = Amounts(t, {"Unlocked"}) /\ Amounts(t, {"Unlocked"}) \in Nat
        /\ Amounts(t, {"Locked"})' = Amounts(t, {"Locked"}) + (IF t = asset THEN amount - fee ELSE 0)
        /\ Amounts(t, {"Locked"}) \in Nat
    <3>1. /\ Amounts(t, {"Unlocked"})' = Amounts(t, {"Unlocked"})
               + (IF row.asset = t /\ row.status \in {"Unlocked"} THEN row.amount ELSE 0)
          /\ Amounts(t, {"Locked"})' = Amounts(t, {"Locked"})
               + (IF row.asset = t /\ row.status \in {"Locked"} THEN row.amount ELSE 0)
          /\ Amounts(t, {"Unlocked"}) \in Nat /\ Amounts(t, {"Locked"}) \in Nat
      BY <1>4
    <3> QED
      BY <1>3, <3>1
  <2>2. /\ Pool(t) + Amounts(t, {"Unlocked"}) >= Amounts(t, {"Locked"}) + feesCollected[t]
        /\ Pool(t) \in Nat /\ feesCollected[t] \in Nat
    BY BridgeFacts DEF BridgeSound, PoolAddsUp, Pool
  <2>3. Pool(t)' = Pool(t) + (IF t = asset THEN amount ELSE 0)
    BY <1>5
  <2>4. feesCollected'[t] = feesCollected[t] + (IF t = asset THEN fee ELSE 0)
    BY <1>1, <1>2, <2>2 DEF BridgeSound, BridgeKept
  <2> QED
    BY <1>1, <2>1, <2>2, <2>3, <2>4
<1>7. BridgeKept'
  <2>1. feesCollected' \in [Assets -> Nat]
    BY <1>1, <1>2 DEF BridgeSound, BridgeKept
  <2> QED
    BY <1>2, <1>5, <2>1 DEF BridgeSound, BridgeKept, configVars
<1>8. MigratedSoFar'
  BY <1>2, <1>3, <1>4 DEF BridgeSound, MigratedSoFar, Current
<1> QED
  BY <1>4, <1>6, <1>7, <1>8 DEF BridgeSound

LEMMA BurnWrappedKeeps ==
  ASSUME BridgeSound, NEW a \in Accounts, NEW token \in Assets, NEW to \in Accounts,
         NEW amount \in BridgeAmounts, BurnWrapped(a, token, to, amount)
  PROVE  BridgeSound'
<1> DEFINE row == [layout |-> "3", asset |-> assetPair[token], to |-> to, amount |-> amount,
                   status |-> "Burned", signed |-> {}]
<1>1. amount \in Nat \ {0} /\ assetPair[token] \in Assets
  BY BridgeAssumption DEF BurnWrapped, BridgeSound, BridgeKept
<1>2. /\ Current /\ Transfer(token, a, BridgeAt, amount) /\ AddRequest(row)
      /\ UNCHANGED <<now, storageVersion, migrationCursor, configVars, feesCollected>>
  BY DEF BurnWrapped
<1>3. row \in RequestRows /\ row.status = "Burned" /\ row.layout = "3"
  BY <1>1 DEF RequestRows
<1> HIDE DEF row
<1>4. /\ requests' \in Seq(RequestRows)
      /\ DOMAIN requests' = DOMAIN requests \cup {Len(requests) + 1}
      /\ requests'[Len(requests) + 1] = row
      /\ \A id \in DOMAIN requests : requests'[id] = requests[id]
      /\ \A t, X : /\ Amounts(t, X)' = Amounts(t, X)
                        + (IF row.asset = t /\ row.status \in X THEN row.amount ELSE 0)
                   /\ Amounts(t, X) \in Nat
  BY <1>2, <1>3, RequestAdded
<1>5. HostTypeOK' /\ \A t \in Assets : Pool(t)' \in Nat /\ Pool(t)' >= Pool(t)
  <2>1. HostTypeOK /\ BridgeAt \in Contracts /\ amount \in Int /\ \A t \in Assets : Pool(t) \in Nat
    BY <1>1, BridgeFacts
  <2>2. balance' \in [Assets -> [Addresses -> Nat]]
    BY <1>2, <2>1, TransferTyped
  <2>3. \A t \in Assets : ~(balance'[t][BridgeAt] < balance[t][BridgeAt])
    BY <1>2, <2>1, MoneyIn
  <2>4. \A t \in Assets : balance'[t][BridgeAt] \in Nat
    BY <2>1, <2>2 DEF Addresses
  <2>5. ASSUME NEW t \in Assets PROVE Pool(t)' \in Nat /\ Pool(t)' >= Pool(t)
    BY <2>1, <2>3, <2>4 DEF Pool
  <2> QED
    BY <1>2, <2>1, <2>2, <2>5 DEF HostTypeOK
<1>6. PoolAddsUp'
  <2> SUFFICES ASSUME NEW t \in Assets
               PROVE  Pool(t)' + Amounts(t, {"Unlocked"})' >= Amounts(t, {"Locked"})' + feesCollected'[t]
    BY DEF PoolAddsUp, Pool
  <2>1. /\ Amounts(t, {"Unlocked"})' = Amounts(t, {"Unlocked"}) /\ Amounts(t, {"Unlocked"}) \in Nat
        /\ Amounts(t, {"Locked"})' = Amounts(t, {"Locked"}) /\ Amounts(t, {"Locked"}) \in Nat
    <3>1. /\ Amounts(t, {"Unlocked"})' = Amounts(t, {"Unlocked"})
               + (IF row.asset = t /\ row.status \in {"Unlocked"} THEN row.amount ELSE 0)
          /\ Amounts(t, {"Locked"})' = Amounts(t, {"Locked"})
               + (IF row.asset = t /\ row.status \in {"Locked"} THEN row.amount ELSE 0)
          /\ Amounts(t, {"Unlocked"}) \in Nat /\ Amounts(t, {"Locked"}) \in Nat
      BY <1>4
    <3> QED
      BY <1>3, <3>1
  <2>2. /\ Pool(t) + Amounts(t, {"Unlocked"}) >= Amounts(t, {"Locked"}) + feesCollected[t]
        /\ Pool(t) \in Nat /\ feesCollected[t] \in Nat /\ feesCollected' = feesCollected
    BY <1>2, BridgeFacts DEF BridgeSound, PoolAddsUp, Pool
  <2>3. Pool(t)' \in Nat /\ Pool(t)' >= Pool(t)
    BY <1>5
  <2> QED
    BY <2>1, <2>2, <2>3
<1>7. BridgeKept'
  BY <1>2, <1>5 DEF BridgeSound, BridgeKept, configVars
<1>8. MigratedSoFar'
  BY <1>2, <1>3, <1>4 DEF BridgeSound, MigratedSoFar, Current
<1> QED
  BY <1>4, <1>6, <1>7, <1>8 DEF BridgeSound

\* Money that leaves the pool of an asset to an account.
LEMMA PoolPays ==
  ASSUME BridgeSound, NEW asset \in Assets, NEW to \in Accounts, NEW amount \in Int,
         Transfer(asset, BridgeAt, to, amount)
  PROVE  /\ balance' \in [Assets -> [Addresses -> Nat]]
         /\ \A t \in Assets : Pool(t)' = Pool(t) - (IF t = asset THEN amount ELSE 0)
<1>1. HostTypeOK /\ BridgeAt \in Contracts /\ \A t \in Assets : Pool(t) \in Nat
  BY BridgeFacts
<1>2. balance' \in [Assets -> [Addresses -> Nat]]
  BY <1>1, TransferTyped
<1>3. /\ balance'[asset][BridgeAt] = balance[asset][BridgeAt] - amount
      /\ \A t \in Assets : t # asset => balance'[t][BridgeAt] = balance[t][BridgeAt]
  BY <1>1, MoneyOut
<1>4. ASSUME NEW t \in Assets PROVE Pool(t)' = Pool(t) - (IF t = asset THEN amount ELSE 0)
  BY <1>1, <1>3 DEF Pool
<1> QED
  BY <1>2, <1>4

\* What a proof pays for: a request's amount, and the request is settled with it.
LEMMA PayoutKeeps ==
  ASSUME BridgeSound, NEW id \in DOMAIN requests, NEW to \in Accounts, NEW proof,
         NEW status \in {"Minted", "Unlocked"},
         requests[id].status = IF status = "Minted" THEN "Locked" ELSE "Burned",
         Settle(id, status, proof),
         Transfer(requests[id].asset, BridgeAt, to, requests[id].amount),
         UNCHANGED <<now, storageVersion, migrationCursor, configVars, feesCollected>>
  PROVE  BridgeSound'
<1> DEFINE amount == requests[id].amount
           asset == requests[id].asset
<1>1. amount \in Nat \ {0} /\ asset \in Assets
  BY BridgeFacts DEF RequestRows
<1>2. /\ requests' \in Seq(RequestRows) /\ DOMAIN requests' = DOMAIN requests
      /\ \A i \in DOMAIN requests : requests'[i].layout = requests[i].layout
      /\ \A t, X : /\ Amounts(t, X) - (IF asset = t /\ requests[id].status \in X THEN amount ELSE 0)
                        = Amounts(t, X)' - (IF asset = t /\ status \in X THEN amount ELSE 0)
                   /\ Amounts(t, X) \in Nat /\ Amounts(t, X)' \in Nat
  BY RequestMoved
<1>3. ASSUME NEW t \in Assets
      PROVE  /\ Amounts(t, {"Unlocked"})' = Amounts(t, {"Unlocked"})
                  + (IF asset = t /\ status = "Unlocked" THEN amount ELSE 0)
             /\ Amounts(t, {"Locked"})' = Amounts(t, {"Locked"})
                  - (IF asset = t /\ status = "Minted" THEN amount ELSE 0)
             /\ Amounts(t, {"Unlocked"}) \in Nat /\ Amounts(t, {"Locked"}) \in Nat
  <2>1. /\ Amounts(t, {"Unlocked"}) - (IF asset = t /\ requests[id].status \in {"Unlocked"} THEN amount ELSE 0)
             = Amounts(t, {"Unlocked"})' - (IF asset = t /\ status \in {"Unlocked"} THEN amount ELSE 0)
        /\ Amounts(t, {"Locked"}) - (IF asset = t /\ requests[id].status \in {"Locked"} THEN amount ELSE 0)
             = Amounts(t, {"Locked"})' - (IF asset = t /\ status \in {"Locked"} THEN amount ELSE 0)
        /\ Amounts(t, {"Unlocked"}) \in Nat /\ Amounts(t, {"Locked"}) \in Nat
        /\ Amounts(t, {"Unlocked"})' \in Nat /\ Amounts(t, {"Locked"})' \in Nat
    BY <1>2
  <2> HIDE DEF amount, asset
  <2>2. CASE status = "Minted"
    BY <1>1, <2>1, <2>2
  <2>3. CASE status = "Unlocked"
    BY <1>1, <2>1, <2>3
  <2> QED
    BY <2>2, <2>3
<1>4. /\ balance' \in [Assets -> [Addresses -> Nat]]
      /\ \A t \in Assets : Pool(t)' = Pool(t) - (IF t = asset THEN amount ELSE 0)
  BY <1>1, PoolPays
<1> HIDE DEF amount, asset
<1>5. PoolAddsUp'
  <2> SUFFICES ASSUME NEW t \in Assets
               PROVE  Pool(t)' + Amounts(t, {"Unlocked"})' >= Amounts(t, {"Locked"})' + feesCollected'[t]
    BY DEF PoolAddsUp, Pool
  <2>1. /\ Pool(t) + Amounts(t, {"Unlocked"}) >= Amounts(t, {"Locked"}) + feesCollected[t]
        /\ Pool(t) \in Nat /\ feesCollected[t] \in Nat /\ feesCollected' = feesCollected
    BY BridgeFacts DEF BridgeSound, PoolAddsUp, Pool
  <2>2. Pool(t)' = Pool(t) - (IF t = asset THEN amount ELSE 0)
    BY <1>4
  <2> QED
    BY <1>1, <1>3, <2>1, <2>2
<1>6. BridgeKept'
  BY <1>4 DEF BridgeSound, BridgeKept, configVars, HostTypeOK
<1>7. MigratedSoFar'
  <2>1. requests = <<>> => requests' = <<>>
    BY <1>2, EmptySeq, BridgeFacts
  <2> QED
    BY <1>2, <2>1 DEF BridgeSound, MigratedSoFar
<1> QED
  BY <1>2, <1>5, <1>6, <1>7 DEF BridgeSound

LEMMA WithdrawFeesKeeps ==
  ASSUME BridgeSound, NEW a \in Accounts, NEW asset \in Assets, NEW to \in Accounts,
         NEW amount \in BridgeAmounts, WithdrawFees(a, asset, to, amount)
  PROVE  BridgeSound'
<1>1. /\ amount \in Nat /\ amount <= feesCollected[asset]
      /\ feesCollected' = [feesCollected EXCEPT ![asset] = @ - amount]
      /\ Transfer(asset, BridgeAt, to, amount)
      /\ UNCHANGED <<now, storageVersion, migrationCursor, configVars, requests>>
  BY BridgeAssumption DEF WithdrawFees
<1>2. /\ balance' \in [Assets -> [Addresses -> Nat]]
      /\ \A t \in Assets : Pool(t)' = Pool(t) - (IF t = asset THEN amount ELSE 0)
  BY <1>1, PoolPays
<1>3. \A t, X : Amounts(t, X)' = Amounts(t, X)
  BY <1>1 DEF Amounts
<1>4. \A t, X : Amounts(t, X) \in Nat
  BY <1>1, AmountsChange DEF BridgeSound
<1>5. PoolAddsUp'
  <2> SUFFICES ASSUME NEW t \in Assets
               PROVE  Pool(t)' + Amounts(t, {"Unlocked"})' >= Amounts(t, {"Locked"})' + feesCollected'[t]
    BY DEF PoolAddsUp, Pool
  <2>1. /\ Pool(t) + Amounts(t, {"Unlocked"}) >= Amounts(t, {"Locked"}) + feesCollected[t]
        /\ Pool(t) \in Nat /\ feesCollected[t] \in Nat
        /\ Amounts(t, {"Unlocked"}) \in Nat /\ Amounts(t, {"Locked"}) \in Nat
    BY <1>4, BridgeFacts DEF BridgeSound, PoolAddsUp, Pool
  <2>2. /\ Amounts(t, {"Unlocked"})' = Amounts(t, {"Unlocked"})
        /\ Amounts(t, {"Locked"})' = Amounts(t, {"Locked"})
    BY <1>3
  <2>3. Pool(t)' = Pool(t) - (IF t = asset THEN amount ELSE 0)
    BY <1>2
  <2>4. feesCollected'[t] = feesCollected[t] - (IF t = asset THEN amount ELSE 0)
    BY <1>1, <2>1 DEF BridgeSound, BridgeKept
  <2> QED
    BY <1>1, <2>1, <2>2, <2>3, <2>4
<1>6. BridgeKept'
  <2>1. feesCollected[asset] \in Nat /\ feesCollected[asset] - amount \in Nat
    BY <1>1, BridgeFacts
  <2>2. feesCollected' \in [Assets -> Nat]
    BY <1>1, <2>1 DEF BridgeSound, BridgeKept
  <2> QED
    BY <1>1, <1>2, <2>2 DEF BridgeSound, BridgeKept, configVars, HostTypeOK
<1> QED
  BY <1>1, <1>5, <1>6 DEF BridgeSound, MigratedSoFar

\* A batch rewrites layouts only, and the version follows the last one.
LEMMA MigrateStorageKeeps ==
  ASSUME BridgeSound, NEW a \in Accounts, MigrateStorage(a)
  PROVE  BridgeSound'
<1>1. CASE storageVersion = "2" /\ storageVersion' = "3" /\ UNCHANGED <<migrationCursor, requests>>
           /\ bridgeSigners' = {} /\ signerThreshold' = 2 /\ UNCHANGED <<hostVars, bridgeFee, feesCollected, assetPair>>
  <2>1. requests = <<>> /\ DOMAIN requests' = {}
    BY <1>1, EmptySeq DEF BridgeSound, MigratedSoFar
  <2>2. BridgeKept' /\ MigratedSoFar'
    BY <1>1, <2>1 DEF BridgeSound, BridgeKept, MigratedSoFar, HostTypeOK, hostVars
  <2>3. PoolAddsUp' /\ requests' \in Seq(RequestRows)
    BY <1>1 DEF BridgeSound, PoolAddsUp, Amounts, hostVars
  <2> QED
    BY <2>2, <2>3 DEF BridgeSound
<1>2. CASE /\ storageVersion = "old"
           /\ requests' = [id \in DOMAIN requests |->
                IF id >= migrationCursor /\ id < BatchEnd THEN Migrated(requests[id]) ELSE requests[id]]
           /\ IF LastBatch
              THEN /\ bridgeSigners' = {} /\ signerThreshold' = 2
                   /\ storageVersion' = "3" /\ migrationCursor' = 1
              ELSE /\ migrationCursor' = BatchEnd
                   /\ UNCHANGED <<storageVersion, bridgeSigners, signerThreshold>>
           /\ UNCHANGED <<hostVars, bridgeFee, feesCollected, assetPair>>
  <2>1. /\ DOMAIN requests' = DOMAIN requests
        /\ \A id \in DOMAIN requests :
             /\ requests'[id] \in RequestRows
             /\ requests'[id].amount = requests[id].amount /\ requests'[id].status = requests[id].status
             /\ requests'[id].asset = requests[id].asset
             /\ requests'[id].layout = IF id >= migrationCursor /\ id < BatchEnd THEN "3" ELSE requests[id].layout
    <3>1. \A id \in DOMAIN requests : requests[id] \in RequestRows
      BY BridgeFacts
    <3>2. \A row \in RequestRows :
            /\ Migrated(row) \in RequestRows /\ Migrated(row).layout = "3"
            /\ Migrated(row).amount = row.amount /\ Migrated(row).status = row.status
            /\ Migrated(row).asset = row.asset
      BY DEF Migrated, RequestRows
    <3>3. /\ DOMAIN requests' = DOMAIN requests
          /\ \A id \in DOMAIN requests : requests'[id] =
               IF id >= migrationCursor /\ id < BatchEnd THEN Migrated(requests[id]) ELSE requests[id]
      BY <1>2
    <3> QED
      BY <3>1, <3>2, <3>3
  <2>2. requests' \in Seq(RequestRows)
    <3>1. requests' \in [1..Len(requests) -> RequestRows] /\ Len(requests) \in Nat
      BY <1>2, <2>1, BridgeFacts
    <3> QED
      BY <3>1, SeqDef
  <2>3. \A t, X : Amounts(t, X)' = Amounts(t, X)
    <3> SUFFICES ASSUME NEW t, NEW X PROVE Amounts(t, X)' = Amounts(t, X)
      OBVIOUS
    <3>1. PICK f, e, S :
            /\ f = [id \in DOMAIN requests |-> requests[id].amount]
            /\ e = [id \in DOMAIN requests' |-> requests'[id].amount]
            /\ S = {id \in DOMAIN requests : requests[id].asset = t /\ requests[id].status \in X}
      OBVIOUS
    <3>2. S = {id \in DOMAIN requests' : requests'[id].asset = t /\ requests'[id].status \in X} /\ S \subseteq DOMAIN requests
      BY <2>1, <3>1
    <3>3. \A id \in S : e[id] = f[id]
      BY <2>1, <3>1, <3>2
    <3>4. IsFiniteSet(S)
      BY <3>2, BridgeFacts, FS_Subset
    <3>5. SumFunctionOnSet(e, S) = SumFunctionOnSet(f, S)
      BY <3>3, <3>4, SumSame
    <3>6. Amounts(t, X) = SumFunctionOnSet(f, S)
      BY <3>1 DEF Amounts
    <3>7. Amounts(t, X)' = SumFunctionOnSet(e, S)
      BY <3>1, <3>2 DEF Amounts
    <3> QED
      BY <3>5, <3>6, <3>7
  <2>4. PoolAddsUp'
    BY <1>2, <2>3 DEF BridgeSound, PoolAddsUp, hostVars
  <2>5. /\ BatchEnd \in Nat \ {0} /\ DOMAIN requests = 1..Len(requests) /\ Len(requests) \in Nat
        /\ migrationCursor \in Nat \ {0}
    BY BridgeFacts, BridgeAssumption DEF BatchEnd, BridgeSound, BridgeKept
  <2>6. BridgeKept'
    <3>1. HostTypeOK' /\ bridgeFee' \in Nat /\ feesCollected' \in [Assets -> Nat]
          /\ assetPair' \in [Assets -> Assets \cup {NoAsset}]
      BY <1>2 DEF BridgeSound, BridgeKept, HostTypeOK, hostVars
    <3>2. CASE LastBatch
      BY <1>2, <3>1, <3>2 DEF BridgeKept
    <3>3. CASE ~LastBatch
      BY <1>2, <2>5, <3>1, <3>3 DEF BridgeSound, BridgeKept
    <3> QED
      BY <3>2, <3>3
  <2>7. ASSUME NEW id \in DOMAIN requests, id < BatchEnd
        PROVE  requests'[id].layout = "3"
    BY <1>2, <2>1, <2>5, <2>7 DEF BridgeSound, MigratedSoFar
  <2>8. MigratedSoFar'
    <3>1. CASE LastBatch
      <4>1. storageVersion' = "3" /\ BatchEnd >= Len(requests) + 1
        BY <1>2, <3>1 DEF LastBatch
      <4>2. \A id \in DOMAIN requests : requests'[id].layout = "3"
        BY <2>5, <2>7, <4>1
      <4> QED
        BY <2>1, <4>1, <4>2 DEF MigratedSoFar
    <3>2. CASE ~LastBatch
      BY <1>2, <2>1, <2>7, <3>2 DEF MigratedSoFar
    <3> QED
      BY <3>1, <3>2
  <2> QED
    BY <2>2, <2>4, <2>6, <2>8 DEF BridgeSound
<1> QED
  BY <1>1, <1>2 DEF MigrateStorage

LEMMA BridgeStep ==
  ASSUME BridgeSound, [BridgeNext]_bridgeVars
  PROVE  BridgeSound'
<1>1. ASSUME UNCHANGED <<hostVars, requests, feesCollected, migrationCursor, storageVersion>>,
             bridgeFee' \in Nat, signerThreshold' \in Nat, bridgeSigners' \in SUBSET SignerKeys,
             assetPair' \in [Assets -> Assets \cup {NoAsset}]
      PROVE  BridgeSound'
  <2>1. HostTypeOK' /\ PoolAddsUp' /\ MigratedSoFar' /\ requests' \in Seq(RequestRows)
    BY <1>1 DEF BridgeSound, BridgeKept, PoolAddsUp, Amounts, MigratedSoFar, HostTypeOK, hostVars
  <2> QED
    BY <1>1, <2>1 DEF BridgeSound, BridgeKept
<1>2. /\ bridgeFee \in Nat /\ signerThreshold \in Nat /\ bridgeSigners \in SUBSET SignerKeys
      /\ assetPair \in [Assets -> Assets \cup {NoAsset}]
  BY DEF BridgeSound, BridgeKept
<1>3. CASE UNCHANGED bridgeVars
  BY <1>1, <1>2, <1>3 DEF bridgeVars, configVars
<1>4. CASE InitializeBridge
  <2>1. /\ storageVersion' = "3" /\ bridgeFee' \in Nat /\ bridgeSigners' = {} /\ signerThreshold' = 2
        /\ UNCHANGED <<hostVars, migrationCursor, feesCollected, requests, assetPair>> /\ requests = <<>>
    BY <1>4, BridgeAssumption DEF InitializeBridge, BridgeSound, MigratedSoFar
  <2>2. DOMAIN requests = {} /\ DOMAIN requests' = {}
    BY <2>1, EmptySeq
  <2>3. BridgeKept'
    BY <2>1 DEF BridgeSound, BridgeKept, HostTypeOK, hostVars
  <2>4. MigratedSoFar'
    BY <2>1, <2>2 DEF MigratedSoFar
  <2>5. PoolAddsUp' /\ requests' \in Seq(RequestRows)
    BY <2>1 DEF BridgeSound, PoolAddsUp, Amounts, hostVars
  <2> QED
    BY <2>3, <2>4, <2>5 DEF BridgeSound
<1>5. ASSUME NEW a \in Accounts, NEW pair \in AssetPairs, SetAssetPair(a, pair[1], pair[2])
      PROVE  BridgeSound'
  <2>1. pair[1] \in Assets /\ pair[2] \in Assets
    BY BridgeAssumption
  <2>2. assetPair' \in [Assets -> Assets \cup {NoAsset}]
    BY <1>2, <1>5, <2>1 DEF SetAssetPair
  <2> QED
    BY <1>1, <1>2, <1>5, <2>2 DEF SetAssetPair
<1>6. ASSUME NEW a \in Accounts, NEW fee \in BridgeFees, SetBridgeFee(a, fee)
      PROVE  BridgeSound'
  BY <1>1, <1>2, <1>6, BridgeAssumption DEF SetBridgeFee
<1>7. ASSUME NEW a \in Accounts, NEW keys \in SUBSET SignerKeys,
             NEW threshold \in 0..Cardinality(SignerKeys), SetSigners(a, keys, threshold)
      PROVE  BridgeSound'
  <2>1. threshold \in Nat
    BY FS_CardinalityType, BridgeAssumption
  <2> QED
    BY <1>1, <1>2, <1>7, <2>1 DEF SetSigners
<1>8. ASSUME NEW id \in DOMAIN requests, NEW proof, UnlockAsset(id, proof)
      PROVE  BridgeSound'
  <2>1. requests[id].to \in Accounts
    BY <1>8, BridgeFacts DEF UnlockAsset, RequestRows
  <2> QED
    BY <1>8, <2>1, PayoutKeeps DEF UnlockAsset
<1>9. ASSUME NEW id \in DOMAIN requests, NEW proof, NEW issuer \in Accounts,
             MintWrapped(id, proof, issuer)
      PROVE  BridgeSound'
  BY <1>9, PayoutKeeps DEF MintWrapped
<1> QED
  BY <1>3, <1>4, <1>5, <1>6, <1>7, <1>8, <1>9, LockAssetKeeps, BurnWrappedKeeps, WithdrawFeesKeeps,
     MigrateStorageKeeps DEF BridgeNext

LEMMA BridgeRests ==
  ASSUME HostTypeOK, NewBridge, \A t \in Assets : balance[t][BridgeAt] = 0
  PROVE  BridgeSound
<1>1. /\ requests = <<>> /\ requests \in Seq(RequestRows) /\ DOMAIN requests = {}
      /\ feesCollected = [t \in Assets |-> 0]
  BY EmptySeq DEF NewBridge, NothingConfigured
<1>2. \A t, X : {id \in DOMAIN requests : requests[id].asset = t /\ requests[id].status \in X} = {}
  BY <1>1
<1>3. \A t, X : Amounts(t, X) = 0
  BY <1>2, SumEmpty DEF Amounts
<1>4. PoolAddsUp
  BY <1>1, <1>3 DEF PoolAddsUp
<1>5. BridgeKept /\ MigratedSoFar
  BY <1>1, BridgeAssumption DEF NewBridge, NothingConfigured, BridgeKept, MigratedSoFar
<1> QED
  BY <1>1, <1>4, <1>5 DEF BridgeSound

LEMMA BridgeBegin ==
  ASSUME BridgeInit
  PROVE  BridgeSound
<1>1. /\ requests \in Seq(RequestRows)
      /\ \A id \in DOMAIN requests : requests[id].status # "Unlocked"
  <2>1. CASE requests = <<>>
    BY <2>1, EmptySeq
  <2>2. CASE requests \in LegacyRequests
    <3> DEFINE Old == [layout : {"old"}, asset : Assets, to : {BridgeAt}, amount : Nat \ {0},
                       status : {"Locked", "Burned", "Minted"}, signed : {{}}]
    <3>1. requests \in Seq(Old)
      BY <2>2, BridgeAssumption
    <3>2. requests \in [1..Len(requests) -> Old] /\ Len(requests) \in Nat
      BY <3>1, SeqFacts, LenProperties
    <3>3. Old \subseteq RequestRows /\ \A row \in Old : row.status # "Unlocked"
      BY DEF RequestRows
    <3> HIDE DEF Old
    <3>4. requests \in [1..Len(requests) -> RequestRows]
      BY <3>2, <3>3
    <3> QED
      BY <3>2, <3>3, <3>4, SeqDef
  <2> QED
    BY <2>1, <2>2 DEF BridgeInit, NewBridge, OldBridge
<1>2. /\ IsFiniteSet(DOMAIN requests) /\ \A id \in DOMAIN requests : requests[id] \in RequestRows
  BY <1>1, SeqFacts
<1>3. ASSUME NEW t
      PROVE  Amounts(t, {"Locked"}) \in Nat /\ Amounts(t, {"Unlocked"}) = 0
  <2>1. PICK f, S : /\ f = [id \in DOMAIN requests |-> requests[id].amount]
                    /\ S = {id \in DOMAIN requests : requests[id].asset = t /\ requests[id].status \in {"Locked"}}
    OBVIOUS
  <2>2. S \subseteq DOMAIN requests /\ \A id \in S : f[id] \in Nat
    BY <1>2, <2>1 DEF RequestRows
  <2>3. SumFunctionOnSet(f, S) \in Nat
    BY <1>2, <2>2, FS_Subset, SumNat
  <2>4. {id \in DOMAIN requests : requests[id].asset = t /\ requests[id].status \in {"Unlocked"}} = {}
    BY <1>1
  <2>5. Amounts(t, {"Unlocked"}) = SumFunctionOnSet(f, {})
    BY <2>1, <2>4 DEF Amounts
  <2> QED
    BY <2>1, <2>3, <2>5, SumEmpty DEF Amounts
<1>4. HostTypeOK /\ \A t \in Assets : balance[t][BridgeAt] = Amounts(t, {"Locked"})
  <2>1. FirstBalance \in [Assets -> [Addresses -> Nat]] /\ BridgeAt \in Addresses
    BY SorobanAssumption, BridgeAssumption DEF FirstBalance, Addresses
  <2>2. now = 0 /\ balance = [t \in Assets |-> [FirstBalance[t] EXCEPT ![BridgeAt] = Amounts(t, {"Locked"})]]
    BY DEF BridgeInit
  <2> HIDE DEF FirstBalance
  <2>3. ASSUME NEW t \in Assets
        PROVE  /\ balance[t] \in [Addresses -> Nat]
               /\ balance[t][BridgeAt] = Amounts(t, {"Locked"})
    <3>1. FirstBalance[t] \in [Addresses -> Nat] /\ Amounts(t, {"Locked"}) \in Nat
      BY <1>3, <2>1
    <3>2. balance[t] = [FirstBalance[t] EXCEPT ![BridgeAt] = Amounts(t, {"Locked"})]
      BY <2>2
    <3> QED
      BY <2>1, <3>1, <3>2
  <2>4. balance \in [Assets -> [Addresses -> Nat]]
    <3>1. balance = [t \in Assets |-> balance[t]]
      BY <2>2
    <3> QED
      BY <2>3, <3>1
  <2> QED
    BY <2>2, <2>3, <2>4, SorobanAssumption DEF HostTypeOK
<1>5. PoolAddsUp
  <2> SUFFICES ASSUME NEW t \in Assets
               PROVE  balance[t][BridgeAt] + Amounts(t, {"Unlocked"}) >= Amounts(t, {"Locked"}) + feesCollected[t]
    BY DEF PoolAddsUp
  <2>1. feesCollected[t] = 0
    BY DEF BridgeInit, NewBridge, OldBridge, NothingConfigured
  <2>2. \A n \in Nat : n + 0 >= n + 0
    OBVIOUS
  <2> QED
    BY <1>3, <1>4, <2>1, <2>2
<1>6. BridgeKept
  <2>1. NothingConfigured
    BY DEF BridgeInit, NewBridge, OldBridge
  <2>2. /\ migrationCursor = 1 /\ bridgeSigners = {} /\ signerThreshold = 2
        /\ feesCollected \in [Assets -> Nat] /\ assetPair \in [Assets -> Assets \cup {NoAsset}]
    BY <2>1 DEF NothingConfigured
  <2>3. bridgeFee \in Nat /\ storageVersion \in {"none", "old", "2", "3"}
    BY BridgeAssumption DEF BridgeInit, NewBridge, OldBridge
  <2> QED
    BY <1>4, <2>2, <2>3 DEF BridgeKept
<1>7. MigratedSoFar
  <2>1. \A id \in DOMAIN requests : ~(id < 1)
    BY <1>1, LenProperties
  <2> QED
    BY <2>1 DEF BridgeInit, NewBridge, OldBridge, NothingConfigured, MigratedSoFar
<1> QED
  BY <1>1, <1>5, <1>6, <1>7 DEF BridgeSound

\* Of every asset, what is in the pool and what was unlocked from it cover the locked
\* deposits not handed out and the fees (lock_asset, mint_wrapped, burn_wrapped,
\* unlock_asset, withdraw_fees, migrate_storage).
THEOREM PoolHolds == BridgeSpec => [](BridgeTypeOK /\ PoolAddsUp)
<1>1. BridgeSound => BridgeTypeOK /\ PoolAddsUp
  BY BridgeFacts DEF BridgeSound, BridgeKept, BridgeTypeOK, RequestRows
<1> QED
  BY <1>1, BridgeBegin, BridgeStep, PTL DEF BridgeSpec

\* However the batches fall, the version is stored when no request is left in the old
\* layout (migrate_storage).
THEOREM NoneLeftBehind == BridgeSpec => []MigratedWhole
<1>1. BridgeSound => MigratedWhole
  BY DEF BridgeSound, MigratedSoFar, MigratedWhole, Current
<1> QED
  BY <1>1, BridgeBegin, BridgeStep, PTL DEF BridgeSpec

\* The step settles the request `id' of the asset t, and pays it.
SettlesFor(id, t, paid) ==
  /\ requests[id].asset = t /\ paid = requests[id].amount
  /\ <<requests[id].status, requests'[id].status>>
       \in {<<"Locked", "Minted">>, <<"Burned", "Unlocked">>}
  /\ Cardinality(requests'[id].signed \cap bridgeSigners) >= signerThreshold
  /\ \A other \in DOMAIN requests \ {id} : requests'[other] = requests[other]

PaysFor(t, paid) ==
  paid > 0 =>
    \/ feesCollected'[t] = feesCollected[t] - paid /\ UNCHANGED requests
    \/ UNCHANGED feesCollected /\ \E id \in DOMAIN requests : SettlesFor(id, t, paid)

\* What a step says of the money that leaves the pools.
PaysRightly ==
  \A t \in Assets : LET paid == balance[t][BridgeAt] - balance'[t][BridgeAt] IN
    paid > 0 =>
      \/ feesCollected'[t] = feesCollected[t] - paid /\ UNCHANGED requests
      \/ /\ UNCHANGED feesCollected
         /\ \E id \in DOMAIN requests :
              /\ requests[id].asset = t /\ paid = requests[id].amount
              /\ <<requests[id].status, requests'[id].status>>
                   \in {<<"Locked", "Minted">>, <<"Burned", "Unlocked">>}
              /\ Cardinality(requests'[id].signed \cap bridgeSigners) >= signerThreshold
              /\ \A other \in DOMAIN requests \ {id} : requests'[other] = requests[other]

LEMMA PaysForAll ==
  ASSUME \A t \in Assets : PaysFor(t, balance[t][BridgeAt] - balance'[t][BridgeAt])
  PROVE  PaysRightly
BY DEF PaysRightly, PaysFor, SettlesFor

\* A step that moves no money out of the pools.
LEMMA PaysNothing ==
  ASSUME \A t \in Assets : /\ balance[t][BridgeAt] \in Nat /\ balance'[t][BridgeAt] \in Nat
                           /\ ~(balance'[t][BridgeAt] < balance[t][BridgeAt])
  PROVE  PaysRightly
<1>1. ASSUME NEW t \in Assets PROVE PaysFor(t, balance[t][BridgeAt] - balance'[t][BridgeAt])
  <2>1. ~(balance[t][BridgeAt] - balance'[t][BridgeAt] > 0)
    BY <1>1
  <2> QED
    BY <2>1 DEF PaysFor
<1> QED
  BY <1>1, PaysForAll

\* A request that is settled with a proof pays for the step.
LEMMA ProofPays ==
  ASSUME BridgeSound, NEW id \in DOMAIN requests, NEW proof, NEW to \in Accounts,
         NEW status \in {"Minted", "Unlocked"}, Proves(proof),
         requests[id].status = (IF status = "Minted" THEN "Locked" ELSE "Burned"),
         Settle(id, status, proof),
         Transfer(requests[id].asset, BridgeAt, to, requests[id].amount), UNCHANGED feesCollected
  PROVE  PaysRightly
<1>1. requests[id].amount \in Nat \ {0} /\ requests[id].asset \in Assets
  BY BridgeFacts DEF RequestRows
<1>2. \A t \in Assets : /\ Pool(t) \in Nat
                        /\ Pool(t)' = Pool(t) - (IF t = requests[id].asset THEN requests[id].amount ELSE 0)
  BY <1>1, PoolPays, BridgeFacts
<1>3. /\ requests'[id].status = status /\ requests'[id].signed = Signed(proof)
      /\ \A i \in DOMAIN requests : i # id => requests'[i] = requests[i]
  BY RequestMoved
<1>4. Cardinality(requests'[id].signed \cap bridgeSigners) >= signerThreshold
  <2>1. Signed(proof) \cap bridgeSigners = Signed(proof)
    BY DEF Signed
  <2> QED
    BY <1>3, <2>1 DEF Proves
<1>5. SettlesFor(id, requests[id].asset, requests[id].amount)
  BY <1>3, <1>4 DEF SettlesFor
<1>6. ASSUME NEW t \in Assets PROVE PaysFor(t, balance[t][BridgeAt] - balance'[t][BridgeAt])
  <2>1. CASE t = requests[id].asset
    <3>1. Pool(t) - Pool(t)' = requests[id].amount
      BY <1>1, <1>2, <2>1
    <3> QED
      BY <1>5, <2>1, <3>1 DEF PaysFor, Pool
  <2>2. CASE t # requests[id].asset
    <3>1. ~(Pool(t) - Pool(t)' > 0)
      BY <1>2, <2>2
    <3> QED
      BY <3>1 DEF PaysFor, Pool
  <2> QED
    BY <2>1, <2>2
<1> QED
  BY <1>6, PaysForAll

LEMMA BridgePaysRightly ==
  ASSUME BridgeSound, [BridgeNext]_bridgeVars
  PROVE  PaysRightly
<1>1. /\ HostTypeOK /\ BridgeAt \in Contracts
      /\ \A t \in Assets : balance[t][BridgeAt] \in Nat
  BY BridgeFacts DEF Pool
<1>2. ASSUME UNCHANGED balance PROVE PaysRightly
  BY <1>1, <1>2, PaysNothing
<1>3. ASSUME NEW a \in Accounts, NEW asset \in Assets, NEW amount \in BridgeAmounts, NEW to \in Accounts,
             LockAsset(a, asset, amount) \/ BurnWrapped(a, asset, to, amount)
      PROVE  PaysRightly
  <2>1. amount \in Int /\ Transfer(asset, a, BridgeAt, amount)
    BY <1>3, BridgeAssumption DEF LockAsset, BurnWrapped
  <2>2. \A t \in Assets : ~(balance'[t][BridgeAt] < balance[t][BridgeAt])
    BY <1>1, <2>1, MoneyIn
  <2>3. balance' \in [Assets -> [Addresses -> Nat]]
    BY <1>1, <2>1, TransferTyped
  <2>4. \A t \in Assets : balance'[t][BridgeAt] \in Nat
    BY <1>1, <2>3 DEF Addresses
  <2> QED
    BY <1>1, <2>2, <2>4, PaysNothing
<1>4. ASSUME NEW a \in Accounts, NEW asset \in Assets, NEW to \in Accounts, NEW amount \in BridgeAmounts,
             WithdrawFees(a, asset, to, amount)
      PROVE  PaysRightly
  <2>1. /\ amount \in Nat /\ Transfer(asset, BridgeAt, to, amount)
        /\ feesCollected' = [feesCollected EXCEPT ![asset] = @ - amount] /\ UNCHANGED requests
    BY <1>4, BridgeAssumption DEF WithdrawFees
  <2>2. \A t \in Assets : /\ Pool(t) \in Nat /\ feesCollected[t] \in Nat
                          /\ Pool(t)' = Pool(t) - (IF t = asset THEN amount ELSE 0)
    BY <2>1, PoolPays, BridgeFacts
  <2>3. feesCollected'[asset] = feesCollected[asset] - amount
    BY <2>1 DEF BridgeSound, BridgeKept
  <2>4. ASSUME NEW t \in Assets PROVE PaysFor(t, balance[t][BridgeAt] - balance'[t][BridgeAt])
    <3>1. CASE t = asset
      <4>1. Pool(t) - Pool(t)' = amount
        BY <2>1, <2>2, <3>1
      <4> QED
        BY <2>1, <2>3, <3>1, <4>1 DEF PaysFor, Pool
    <3>2. CASE t # asset
      <4>1. ~(Pool(t) - Pool(t)' > 0)
        BY <2>2, <3>2
      <4> QED
        BY <4>1 DEF PaysFor, Pool
    <3> QED
      BY <3>1, <3>2
  <2> QED
    BY <2>4, PaysForAll
<1>5. ASSUME NEW id \in DOMAIN requests, NEW proof, UnlockAsset(id, proof)
      PROVE  PaysRightly
  <2>1. /\ Proves(proof) /\ requests[id].status = "Burned" /\ requests[id].to # BridgeAt
        /\ Settle(id, "Unlocked", proof) /\ UNCHANGED feesCollected
        /\ Transfer(requests[id].asset, BridgeAt, requests[id].to, requests[id].amount)
    BY <1>5 DEF UnlockAsset
  <2>2. requests[id].to \in Accounts
    BY <2>1, BridgeFacts DEF RequestRows
  <2> QED
    BY <2>1, <2>2, ProofPays
<1>6. ASSUME NEW id \in DOMAIN requests, NEW proof, NEW issuer \in Accounts, MintWrapped(id, proof, issuer)
      PROVE  PaysRightly
  <2>1. /\ Proves(proof) /\ requests[id].status = "Locked"
        /\ Settle(id, "Minted", proof) /\ UNCHANGED feesCollected
        /\ Transfer(requests[id].asset, BridgeAt, issuer, requests[id].amount)
    BY <1>6 DEF MintWrapped
  <2> QED
    BY <2>1, ProofPays
<1>7. ASSUME \/ InitializeBridge
             \/ \E a \in Accounts :
                  \/ MigrateStorage(a)
                  \/ \E pair \in AssetPairs : SetAssetPair(a, pair[1], pair[2])
                  \/ \E fee \in BridgeFees : SetBridgeFee(a, fee)
                  \/ \E keys \in SUBSET SignerKeys, threshold \in 0..Cardinality(SignerKeys) :
                       SetSigners(a, keys, threshold)
      PROVE  PaysRightly
  BY <1>2, <1>7 DEF InitializeBridge, SetAssetPair, MigrateStorage, SetBridgeFee, SetSigners, hostVars
<1>8. CASE UNCHANGED bridgeVars
  BY <1>2, <1>8 DEF bridgeVars, hostVars
<1>9. ASSUME NEW id \in DOMAIN requests, NEW proof,
             UnlockAsset(id, proof) \/ \E issuer \in Accounts : MintWrapped(id, proof, issuer)
      PROVE  PaysRightly
  BY <1>5, <1>6, <1>9
<1>10. CASE BridgeNext
  <2>1. CASE \E id \in DOMAIN requests, n \in 0..Cardinality(SignerKeys) :
               \E proof \in [1..n -> SignerKeys] :
                 UnlockAsset(id, proof) \/ \E issuer \in Accounts : MintWrapped(id, proof, issuer)
    BY <1>9, <2>1
  <2>2. CASE \E a \in Accounts, asset \in Assets, amount \in BridgeAmounts :
               \/ LockAsset(a, asset, amount)
               \/ \E to \in Accounts : BurnWrapped(a, asset, to, amount) \/ WithdrawFees(a, asset, to, amount)
    BY <1>3, <1>4, <2>2
  <2> HIDE DEF PaysRightly
  <2> QED
    BY <1>7, <1>10, <2>1, <2>2, Zenon DEF BridgeNext
<1> QED
  BY <1>8, <1>10

\* An asset leaves the bridge as a fee, or for one request of that asset that is settled in
\* that step, with a proof in which as many of the signers signed as are needed
\* (mint_wrapped, unlock_asset, withdraw_fees, verify_proof).
THEOREM BridgePaysOnce == BridgeSpec => PaidOncePerProof
<1>1. BridgeSound /\ [BridgeNext]_bridgeVars => PaysRightly
  BY BridgePaysRightly
<1>2. PaysRightly => [PaysRightly]_bridgeVars
  OBVIOUS
<1> QED
  BY <1>1, BridgeBegin, BridgeStep, PTL DEF BridgeSpec, PaidOncePerProof, PaysRightly

-----------------------------------------------------------------------------
(* The swap pools: what is held, what was issued, and what a share is worth *)

Root(g, v) ==
  g = [x \in 1..v |-> LET y == (x + v \div x) \div 2 IN IF y < x THEN g[y] ELSE x]

\* Newton's iteration from v stays within 1..v.
LEMMA NewtonStays ==
  ASSUME NEW v \in Nat, NEW x \in 1..v
  PROVE  (x + v \div x) \div 2 \in Nat \ {0}
<1>1. x \in Nat /\ x # 0 /\ v \div x \in Nat /\ (x = 1 => v \div x = v)
  OBVIOUS
<1>2. x + v \div x >= 2
  BY <1>1
<1> DEFINE q == v \div x
<1>3. q \in Nat /\ x + q >= 2
  BY <1>1, <1>2
<1> HIDE DEF q
<1>4. (x + q) \div 2 \in Nat \ {0}
  BY <1>1, <1>3
<1> QED
  BY <1>4 DEF q

LEMMA RootExists ==
  ASSUME NEW v \in Nat
  PROVE  \E g : Root(g, v)
<1> DEFINE next(x) == (x + v \div x) \div 2
           Upto(g, n) == \A x \in 1..v : x <= n => g[x] = IF next(x) < x THEN g[next(x)] ELSE x
           Good == {n \in Nat : \E g : Upto(g, n)}
<1>1. \A x \in 1..v : next(x) \in Nat \ {0}
  BY NewtonStays
<1> HIDE DEF next
<1>2. 0 \in Good
  <2>1. Upto([x \in 1..v |-> 0], 0)
    OBVIOUS
  <2> HIDE DEF Upto
  <2> QED
    BY <2>1
<1>3. ASSUME NEW n \in Good
      PROVE  n + 1 \in Good
  <2>1. PICK g : Upto(g, n)
    OBVIOUS
  <2> DEFINE h == [x \in 1..v |-> IF x <= n THEN g[x] ELSE IF next(x) < x THEN g[next(x)] ELSE x]
  <2>2. ASSUME NEW x \in 1..v, x <= n + 1
        PROVE  h[x] = IF next(x) < x THEN h[next(x)] ELSE x
    <3>1. h[x] = IF next(x) < x THEN g[next(x)] ELSE x
      BY <2>1
    <3>2. CASE next(x) < x
      <4>1. next(x) \in 1..v /\ next(x) <= n
        BY <1>1, <2>2, <3>2
      <4>2. h[next(x)] = g[next(x)]
        BY <4>1
      <4> QED
        BY <3>1, <3>2, <4>2
    <3> QED
      BY <3>1, <3>2
  <2>3. Upto(h, n + 1)
    BY <2>2
  <2> HIDE DEF h, Upto
  <2> QED
    BY <2>3
<1>4. Good = Nat
  <2> HIDE DEF Good
  <2>1. Good \in SUBSET Nat
    BY DEF Good
  <2> QED
    BY <1>2, <1>3, <2>1, SetInduction
<1>5. PICK g : Upto(g, v)
  BY <1>4
<1> DEFINE h == [x \in 1..v |-> g[x]]
<1>6. \A x \in 1..v : h[x] = IF next(x) < x THEN h[next(x)] ELSE x
  <2> SUFFICES ASSUME NEW x \in 1..v PROVE h[x] = IF next(x) < x THEN h[next(x)] ELSE x
    OBVIOUS
  <2>1. g[x] = IF next(x) < x THEN g[next(x)] ELSE x
    BY <1>5
  <2>2. next(x) < x => next(x) \in 1..v
    BY <1>1
  <2> QED
    BY <2>1, <2>2
<1>7. h = [x \in 1..v |-> IF next(x) < x THEN h[next(x)] ELSE x]
  BY <1>6
<1> HIDE DEF h
<1>8. Root(h, v)
  BY <1>7 DEF Root, next
<1> QED
  BY <1>8

\* sqrt returns a number, and never more than what it is the root of.
LEMMA SqrtTyped ==
  ASSUME NEW v \in Nat
  PROVE  Sqrt(v) \in 0..v
<1>1. CASE v = 0
  BY <1>1 DEF Sqrt
<1>2. CASE v # 0
  <2>1. \E g : Root(g, v)
    BY RootExists
  <2>2. PICK g : Root(g, v) /\ Sqrt(v) = g[v]
    <3>1. ~(v <= 0)
      BY <1>2
    <3>2. Sqrt(v) = (CHOOSE g : Root(g, v))[v]
      BY <3>1, Zenon DEF Sqrt, Root
    <3> QED
      BY <2>1, <3>2
  <2> DEFINE next(x) == (x + v \div x) \div 2
             Good == {n \in Nat : \A x \in 1..v : x <= n => g[x] \in 1..v}
  <2>3. \A x \in 1..v : next(x) \in Nat \ {0} /\ g[x] = IF next(x) < x THEN g[next(x)] ELSE x
    BY <2>2, NewtonStays DEF Root
  <2> HIDE DEF next
  <2>4. 0 \in Good
    OBVIOUS
  <2>5. ASSUME NEW n \in Good PROVE n + 1 \in Good
    <3>1. ASSUME NEW x \in 1..v, x <= n + 1 PROVE g[x] \in 1..v
      <4>1. CASE next(x) < x
        <5>1. next(x) \in 1..v /\ next(x) <= n
          BY <2>3, <3>1, <4>1
        <5> QED
          BY <2>3, <4>1, <5>1
      <4> QED
        BY <2>3, <4>1
    <3> QED
      BY <3>1
  <2>6. Good = Nat
    <3> HIDE DEF Good
    <3>1. Good \in SUBSET Nat
      BY DEF Good
    <3> QED
      BY <2>4, <2>5, <3>1, SetInduction
  <2>7. g[v] \in 1..v
    BY <1>2, <2>6
  <2> QED
    BY <2>2, <2>7
<1> QED
  BY <1>1, <1>2

-----------------------------------------------------------------------------
(* Arithmetic of the pools.                                                 *)

\* A whole quotient is at most the quotient.
LEMMA DivBound ==
  ASSUME NEW a \in Nat, NEW d \in Nat \ {0}
  PROVE  a \div d \in Nat /\ d * (a \div d) <= a
  OBVIOUS

\* Multiplying both sides.
LEMMA TimesBoth ==
  ASSUME NEW a \in Nat, NEW b \in Nat, NEW x \in Nat, NEW y \in Nat, a >= b, x >= y
  PROVE  a * x >= b * y /\ a * x \in Nat /\ b * y \in Nat
<1>1. a * x >= a * y /\ a * y >= b * y
  BY TimesOrder
<1>2. a * x \in Nat /\ a * y \in Nat /\ b * y \in Nat
  OBVIOUS
<1> QED
  BY <1>1, <1>2

\* Two reserves that grow by at least what the supply does.
LEMMA WorthKept ==
  ASSUME NEW r1 \in Nat, NEW r2 \in Nat, NEW s \in Nat,
         NEW q1 \in Nat, NEW q2 \in Nat, NEW u \in Nat,
         q1 * s >= r1 * u, q2 * s >= r2 * u
  PROVE  q1 * q2 * s * s >= r1 * r2 * u * u
<1>1. q1 * s \in Nat /\ r1 * u \in Nat /\ q2 * s \in Nat /\ r2 * u \in Nat
  OBVIOUS
<1>2. (q1 * s) * (q2 * s) >= (r1 * u) * (r2 * u)
  BY <1>1, TimesBoth
<1>3. (q1 * s) * (q2 * s) = q1 * q2 * s * s /\ (r1 * u) * (r2 * u) = r1 * r2 * u * u
  OBVIOUS
<1> QED
  BY <1>2, <1>3

\* What a swap pays out is less than the reserve, and leaves their product at least as large.
LEMMA SwapWorth ==
  ASSUME NEW in \in Nat \ {0}, NEW rin \in Nat \ {0}, NEW rout \in Nat \ {0}
  PROVE  LET out == AmountOut(in, rin, rout) IN
         /\ out \in Nat /\ out < rout
         /\ (rin + in) * (rout - out) >= rin * rout
<1> DEFINE d == FEE_DENOMINATOR
           w == in * (FEE_DENOMINATOR - FEE_BPS)
           out == AmountOut(in, rin, rout)
<1>1. d \in Nat \ {0} /\ FEE_DENOMINATOR - FEE_BPS \in Nat /\ FEE_DENOMINATOR - FEE_BPS <= d
  BY FxSwapAssumption
<1>2. w \in Nat /\ w <= in * d
  BY <1>1, TimesOrder
<1>3. out = (rout * w) \div (rin * d + w)
  BY DEF AmountOut
<1> HIDE DEF d, w, out
<1>4. rin * d \in Nat /\ rin * d > 0
  BY <1>1
<1>5. rin * d + w \in Nat \ {0} /\ rout * w \in Nat
  BY <1>2, <1>4
<1>6. out \in Nat /\ (rin * d + w) * out <= rout * w
  <2> DEFINE a == rout * w
             b == rin * d + w
  <2>1. a \in Nat /\ b \in Nat \ {0} /\ out = a \div b
    BY <1>3, <1>5
  <2> HIDE DEF a, b
  <2>2. out \in Nat /\ b * out <= a
    BY <2>1, DivBound
  <2> QED
    BY <2>2 DEF a, b
<1>7. (rin * d) * out <= (rout - out) * w
  <2>1. (rin * d + w) * out = (rin * d) * out + w * out /\ (rout - out) * w = rout * w - w * out
    BY <1>2, <1>4, <1>6
  <2>2. w * out \in Nat /\ (rin * d) * out \in Nat
    BY <1>2, <1>4, <1>6
  <2> DEFINE x == (rin * d) * out
             y == w * out
             z == rout * w
  <2>3. x + y <= z /\ x \in Nat /\ y \in Nat /\ z \in Nat
    BY <1>5, <1>6, <2>1, <2>2
  <2> HIDE DEF x, y, z
  <2>4. x <= z - y
    BY <2>3
  <2> QED
    BY <2>1, <2>4 DEF x, y, z
<1>8. out < rout
  <2>1. ASSUME out >= rout PROVE FALSE
    <3>1. out * (rin * d + w) >= rout * (rin * d + w)
      BY <1>5, <1>6, <2>1, TimesBoth
    <3>2. rout * (rin * d + w) = rout * (rin * d) + rout * w
      BY <1>2, <1>4
    <3>3. rout * (rin * d) > 0 /\ rout * (rin * d) \in Nat
      BY <1>4
    <3>4. out * (rin * d + w) = (rin * d + w) * out
      BY <1>5, <1>6
    <3> DEFINE a == rout * (rin * d)
               b == rout * w
               c == (rin * d + w) * out
    <3>5. a \in Nat /\ a > 0 /\ b \in Nat /\ c <= b /\ c >= a + b /\ c \in Nat
      BY <1>5, <1>6, <3>1, <3>2, <3>3, <3>4
    <3> HIDE DEF a, b, c
    <3> QED
      BY <3>5
  <2> QED
    BY <1>6, <2>1
<1>9. rin * out <= (rout - out) * in
  <2>1. rout - out \in Nat
    BY <1>6, <1>8
  <2>2. (rout - out) * w <= (rout - out) * (in * d)
    <3>1. in * d \in Nat
      BY <1>1
    <3> QED
      BY <1>2, <2>1, <3>1, TimesOrder
  <2>3. (rin * out) * d <= ((rout - out) * in) * d
    <3>1. (rin * d) * out = (rin * out) * d /\ (rout - out) * (in * d) = ((rout - out) * in) * d
      BY <1>1, <1>6, <2>1
    <3> QED
      BY <1>1, <1>2, <1>4, <1>6, <1>7, <2>1, <2>2, <3>1
  <2>4. rin * out \in Nat /\ (rout - out) * in \in Nat
    BY <1>6, <2>1
  <2> DEFINE a == rin * out
             b == (rout - out) * in
  <2>5. a \in Nat /\ b \in Nat /\ a * d <= b * d
    BY <2>3, <2>4
  <2> HIDE DEF a, b
  <2>6. ASSUME a > b PROVE FALSE
    <3>1. d * a >= d * (b + 1) /\ d * (b + 1) = d * b + d
      BY <1>1, <2>5, <2>6, TimesOrder
    <3> QED
      BY <1>1, <2>5, <3>1
  <2>7. a <= b
    BY <2>5, <2>6
  <2> QED
    BY <2>7 DEF a, b
<1>10. (rin + in) * (rout - out) >= rin * rout
  <2>1. rout - out \in Nat
    BY <1>6, <1>8
  <2>2. (rin + in) * (rout - out) = (rin * rout - rin * out) + (rout - out) * in
    BY <1>6, <2>1
  <2>3. rin * rout \in Nat /\ rin * out \in Nat /\ (rout - out) * in \in Nat
    BY <1>6, <2>1
  <2> QED
    BY <1>9, <2>2, <2>3
<1> QED
  BY <1>6, <1>8, <1>10 DEF out
-----------------------------------------------------------------------------
(* The state of the pools.                                                  *)

PoolRows == [exists : BOOLEAN, reserve : [{1, 2} -> Nat], lpSupply : Nat]
Sides == Canonical \X {1, 2}
Reserve == [p \in Sides |-> pools[p[1]].reserve[p[2]]]
Trades(t) == {p \in Sides : p[1][p[2]] = t}

\* The tokens of a pool are those of its providers, and the locked minimum is among them.
Issued(pair) ==
  /\ pools[pair].lpSupply = SumFunctionOnSet(lpBalance[pair], Providers)
  /\ pools[pair].lpSupply > 0 =>
       /\ lpBalance[pair][SwapAt] >= MINIMUM_LIQUIDITY
       /\ pools[pair].reserve[1] > 0 /\ pools[pair].reserve[2] > 0

SwapSound ==
  /\ HostTypeOK /\ swapReady \in BOOLEAN
  /\ pools \in [Canonical -> PoolRows]
  /\ lpBalance \in [Canonical -> [Providers -> Nat]]
  /\ \A t \in Assets : balance[t][SwapAt] = SumFunctionOnSet(Reserve, Trades(t))
  /\ \A pair \in Canonical : Issued(pair)

LEMMA PairFacts ==
  /\ IsFiniteSet(Canonical) /\ IsFiniteSet(Sides) /\ IsFiniteSet(Providers)
  /\ \A pair \in Canonical :
       /\ pair[1] \in Assets /\ pair[2] \in Assets /\ pair[1] # pair[2]
  /\ SwapAt \in Addresses /\ Accounts \subseteq Addresses /\ SwapAt \notin Accounts
<1>1. IsFiniteSet(DOMAIN AssetOrder) /\ \A i \in DOMAIN AssetOrder : AssetOrder[i] \in Assets
  BY SeqFacts, FxSwapAssumption
<1>2. DOMAIN AssetOrder \subseteq Nat
  BY LenProperties, FxSwapAssumption
<1>3. \A pair \in Canonical : \E i, j \in DOMAIN AssetOrder : i < j /\ pair = <<AssetOrder[i], AssetOrder[j]>>
  BY DEF Canonical
<1>4. \A pair \in Canonical : pair[1] \in Assets /\ pair[2] \in Assets /\ pair[1] # pair[2]
  BY <1>1, <1>2, <1>3, FxSwapAssumption
<1>5. IsFiniteSet(Canonical)
  <2> DEFINE R == {AssetOrder[i] : i \in DOMAIN AssetOrder}
             f == [i \in DOMAIN AssetOrder |-> AssetOrder[i]]
  <2>1. f \in Surjection(DOMAIN AssetOrder, R)
    BY DEF Surjection
  <2>2. IsFiniteSet(R)
    BY <1>1, <2>1, FS_Surjection
  <2>3. Canonical \subseteq R \X R
    BY <1>3
  <2> HIDE DEF R
  <2>4. IsFiniteSet(R \X R)
    BY <2>2, FS_Product
  <2> QED
    BY <2>3, <2>4, FS_Subset
<1>6. IsFiniteSet({1, 2}) /\ IsFiniteSet(Providers)
  <2>1. IsFiniteSet({1}) /\ {1, 2} = {1} \cup {2}
    BY FS_Singleton
  <2>2. IsFiniteSet({1, 2})
    BY <2>1, FS_AddElement
  <2>3. IsFiniteSet(Accounts \cup {SwapAt})
    BY SorobanAssumption, FS_AddElement
  <2> QED
    BY <2>2, <2>3 DEF Providers
<1>7. IsFiniteSet(Sides)
  BY <1>5, <1>6, FS_Product DEF Sides
<1> QED
  BY <1>4, <1>5, <1>6, <1>7, FxSwapAssumption, SorobanAssumption DEF Addresses

LEMMA MovedTyped ==
  ASSUME NEW h \in [Addresses -> Nat], NEW from \in Addresses, NEW to \in Addresses, from # to,
         NEW amount \in Nat, amount <= h[from]
  PROVE  /\ Moved(h, from, to, amount) \in [Addresses -> Nat]
         /\ Moved(h, from, to, amount)[from] = h[from] - amount
         /\ Moved(h, from, to, amount)[to] = h[to] + amount
         /\ \A a \in Addresses : a # from /\ a # to => Moved(h, from, to, amount)[a] = h[a]
<1>1. \A a \in Addresses : h[a] \in Nat
  OBVIOUS
<1> QED
  BY <1>1 DEF Moved

\* A call moves two assets at once.
LEMMA BothMoved ==
  ASSUME HostTypeOK, NEW a \in Assets, NEW b \in Assets, a # b,
         NEW f1 \in Addresses, NEW t1 \in Addresses, f1 # t1,
         NEW f2 \in Addresses, NEW t2 \in Addresses, f2 # t2,
         NEW x \in Nat, NEW y \in Nat, x <= balance[a][f1], y <= balance[b][f2],
         balance' = [balance EXCEPT ![a] = Moved(@, f1, t1, x), ![b] = Moved(@, f2, t2, y)]
  PROVE  /\ balance' \in [Assets -> [Addresses -> Nat]]
         /\ balance'[a] = Moved(balance[a], f1, t1, x)
         /\ balance'[b] = Moved(balance[b], f2, t2, y)
         /\ \A t \in Assets : t # a /\ t # b => balance'[t] = balance[t]
<1> DEFINE ha == Moved(balance[a], f1, t1, x)
           hb == Moved(balance[b], f2, t2, y)
<1>1. balance \in [Assets -> [Addresses -> Nat]] /\ balance[a] \in [Addresses -> Nat] /\ balance[b] \in [Addresses -> Nat]
  BY DEF HostTypeOK
<1>2. ha \in [Addresses -> Nat] /\ hb \in [Addresses -> Nat]
  BY <1>1, MovedTyped
<1>3. balance' = [balance EXCEPT ![a] = ha, ![b] = hb]
  BY <1>1
<1> HIDE DEF ha, hb
<1>4. /\ balance' \in [Assets -> [Addresses -> Nat]] /\ balance'[a] = ha /\ balance'[b] = hb
      /\ \A t \in Assets : t # a /\ t # b => balance'[t] = balance[t]
  BY <1>1, <1>2, <1>3
<1> QED
  BY <1>4 DEF ha, hb

LEMMA SwapFacts ==
  ASSUME SwapSound
  PROVE  /\ \A pair \in Canonical :
              /\ pools[pair].lpSupply \in Nat
              /\ pools[pair].reserve[1] \in Nat /\ pools[pair].reserve[2] \in Nat
              /\ pools[pair].exists \in BOOLEAN
              /\ \A a \in Providers : lpBalance[pair][a] \in Nat
         /\ \A p \in Sides : Reserve[p] \in Nat
         /\ \A t : Trades(t) \subseteq Sides /\ IsFiniteSet(Trades(t))
<1>1. \A pair \in Canonical :
              /\ pools[pair].lpSupply \in Nat
              /\ pools[pair].reserve[1] \in Nat /\ pools[pair].reserve[2] \in Nat
              /\ pools[pair].exists \in BOOLEAN
              /\ \A a \in Providers : lpBalance[pair][a] \in Nat
  BY DEF SwapSound, PoolRows
<1>2. \A p \in Sides : p[1] \in Canonical /\ p[2] \in {1, 2}
  BY DEF Sides
<1>3. \A p \in Sides : Reserve[p] \in Nat
  BY <1>1, <1>2 DEF Reserve
<1>4. \A t : Trades(t) \subseteq Sides
  BY DEF Trades
<1> QED
  BY <1>1, <1>3, <1>4, PairFacts, FS_Subset

\* A pool whose reserves change by what the contract's balances do keeps what is held.
LEMMA ReservesMove ==
  ASSUME SwapSound, NEW pair \in Canonical, NEW x \in Int, NEW y \in Int,
         pools' \in [Canonical -> PoolRows],
         \A c \in Canonical : c # pair => pools'[c] = pools[c],
         pools'[pair].reserve[1] = pools[pair].reserve[1] + x,
         pools'[pair].reserve[2] = pools[pair].reserve[2] + y,
         balance'[pair[1]][SwapAt] = balance[pair[1]][SwapAt] + x,
         balance'[pair[2]][SwapAt] = balance[pair[2]][SwapAt] + y,
         \A t \in Assets : t # pair[1] /\ t # pair[2] => balance'[t] = balance[t]
  PROVE  \A t \in Assets : balance'[t][SwapAt] = SumFunctionOnSet(Reserve', Trades(t))
<1> SUFFICES ASSUME NEW t \in Assets
             PROVE  balance'[t][SwapAt] = SumFunctionOnSet(Reserve', Trades(t))
  OBVIOUS
<1>1. PICK f, e, S : f = Reserve /\ e = Reserve' /\ S = Trades(t)
  OBVIOUS
<1>2. IsFiniteSet(S) /\ S \subseteq Sides /\ \A p \in S : f[p] \in Nat
  BY <1>1, SwapFacts
<1>3. \A p \in Sides : p[1] \in Canonical /\ p[2] \in {1, 2} /\ p = <<p[1], p[2]>>
  BY DEF Sides
<1>4. \A p \in Sides : e[p] = pools'[p[1]].reserve[p[2]] /\ f[p] = pools[p[1]].reserve[p[2]]
  BY <1>1 DEF Reserve
<1>5. \A p \in Sides : e[p] \in Nat
  BY <1>3, <1>4 DEF PoolRows
<1>6. balance[t][SwapAt] = SumFunctionOnSet(f, S) /\ balance[t][SwapAt] \in Nat
  BY <1>1, PairFacts DEF SwapSound, HostTypeOK
<1>7. pair[1] # pair[2] /\ <<pair, 1>> \in Sides /\ <<pair, 2>> \in Sides
  BY PairFacts DEF Sides
<1>8. ASSUME NEW i \in {1, 2}, t = pair[i], NEW d \in Int,
             e[<<pair, i>>] = f[<<pair, i>>] + d, balance'[t][SwapAt] = balance[t][SwapAt] + d
      PROVE  balance'[t][SwapAt] = SumFunctionOnSet(e, S)
  <2>1. PICK k : k = <<pair, i>>
    OBVIOUS
  <2>2. k \in S /\ k \in Sides
    BY <1>1, <1>7, <1>8, <2>1 DEF Trades
  <2>3. \A p \in S \ {k} : f[p] = e[p]
    <3>1. \A p \in S : p[1][p[2]] = t
      BY <1>1 DEF Trades
    <3>2. \A p \in S : p # k => p[1] # pair
      BY <1>2, <1>3, <1>7, <1>8, <2>1, <3>1
    <3> QED
      BY <1>2, <1>3, <1>4, <3>2
  <2>4. SumFunctionOnSet(f, S) - (IF k \in S THEN f[k] ELSE 0) = SumFunctionOnSet(e, S) - (IF k \in S THEN e[k] ELSE 0)
    <3>1. \A p \in S : f[p] \in Int /\ e[p] \in Int
      BY <1>2, <1>5
    <3> QED
      BY <1>2, <2>3, <3>1, SumChange
  <2>5. f[k] \in Nat /\ e[k] \in Nat /\ SumFunctionOnSet(e, S) \in Nat
    BY <1>2, <1>5, <2>2, SumNat
  <2> QED
    BY <1>6, <1>8, <2>1, <2>2, <2>4, <2>5
<1>9. CASE t = pair[1]
  BY <1>1, <1>4, <1>7, <1>8, <1>9
<1>10. CASE t = pair[2]
  BY <1>1, <1>4, <1>7, <1>8, <1>10
<1>11. CASE t # pair[1] /\ t # pair[2]
  <2>1. \A p \in S : p[1] # pair
    BY <1>1, <1>2, <1>3, <1>11 DEF Trades
  <2>2. \A p \in S : f[p] = e[p]
    BY <1>2, <1>3, <1>4, <2>1
  <2>3. SumFunctionOnSet(f, S) = SumFunctionOnSet(e, S)
    BY <1>2, <2>2, SumSame
  <2> QED
    BY <1>1, <1>6, <1>11, <2>3
<1> QED
  BY <1>9, <1>10, <1>11

\* Two places of a sum change.
LEMMA SumTwo ==
  ASSUME NEW f, NEW e, NEW S, IsFiniteSet(S), NEW x \in S, NEW y \in S, x # y,
         \A a \in S : f[a] \in Nat /\ e[a] \in Nat,
         \A a \in S : a # x /\ a # y => e[a] = f[a]
  PROVE  SumFunctionOnSet(e, S) = SumFunctionOnSet(f, S) - f[x] - f[y] + e[x] + e[y]
<1> DEFINE T == S \ {x}
           U == T \ {y}
<1>1. IsFiniteSet(T) /\ IsFiniteSet(U) /\ y \in T
  BY FS_RemoveElement
<1>2. \A a \in S : f[a] \in Int /\ e[a] \in Int
  OBVIOUS
<1>3. /\ SumFunctionOnSet(f, S) = f[x] + SumFunctionOnSet(f, T)
      /\ SumFunctionOnSet(e, S) = e[x] + SumFunctionOnSet(e, T)
  BY <1>2, SumTake
<1>4. /\ SumFunctionOnSet(f, T) = f[y] + SumFunctionOnSet(f, U)
      /\ SumFunctionOnSet(e, T) = e[y] + SumFunctionOnSet(e, U)
  BY <1>1, <1>2, SumTake
<1>5. SumFunctionOnSet(f, U) = SumFunctionOnSet(e, U) /\ SumFunctionOnSet(f, U) \in Int
  BY <1>1, <1>2, SumSame, SumInt
<1> QED
  BY <1>2, <1>3, <1>4, <1>5

\* The tokens of a pool change by what two providers have more or less of.
LEMMA LiquidityMove ==
  ASSUME SwapSound, NEW pair \in Canonical, NEW lp \in Accounts,
         pools' \in [Canonical -> PoolRows], lpBalance' \in [Canonical -> [Providers -> Nat]],
         \A c \in Canonical : c # pair => pools'[c] = pools[c] /\ lpBalance'[c] = lpBalance[c],
         \A a \in Providers : a # lp /\ a # SwapAt => lpBalance'[pair][a] = lpBalance[pair][a],
         pools'[pair].lpSupply = pools[pair].lpSupply + (lpBalance'[pair][lp] - lpBalance[pair][lp])
                                   + (lpBalance'[pair][SwapAt] - lpBalance[pair][SwapAt]),
         pools'[pair].lpSupply > 0 => lpBalance'[pair][SwapAt] >= MINIMUM_LIQUIDITY,
         pools'[pair].lpSupply > 0 => pools'[pair].reserve[1] > 0 /\ pools'[pair].reserve[2] > 0
  PROVE  \A c \in Canonical : Issued(c)'
<1>1. PICK f, h : f = lpBalance[pair] /\ h = lpBalance'[pair]
  OBVIOUS
<1>2. SumFunctionOnSet(h, Providers) = pools'[pair].lpSupply
  <2>1. \A a \in Providers : f[a] \in Nat /\ h[a] \in Nat
    BY <1>1, SwapFacts
  <2>2. lp \in Providers /\ SwapAt \in Providers /\ lp # SwapAt /\ IsFiniteSet(Providers)
    BY PairFacts DEF Providers
  <2>3. \A a \in Providers : a # lp /\ a # SwapAt => h[a] = f[a]
    BY <1>1
  <2>4. SumFunctionOnSet(h, Providers) = SumFunctionOnSet(f, Providers) - f[lp] - f[SwapAt] + h[lp] + h[SwapAt]
    BY <2>1, <2>2, <2>3, SumTwo
  <2>5. SumFunctionOnSet(f, Providers) = pools[pair].lpSupply /\ pools[pair].lpSupply \in Nat
    BY <1>1, SwapFacts DEF SwapSound, Issued
  <2>6. /\ f[lp] \in Nat /\ f[SwapAt] \in Nat /\ h[lp] \in Nat /\ h[SwapAt] \in Nat
        /\ pools'[pair].lpSupply = pools[pair].lpSupply + (h[lp] - f[lp]) + (h[SwapAt] - f[SwapAt])
    BY <1>1, <2>1, <2>2
  <2> QED
    BY <2>4, <2>5, <2>6
<1>3. Issued(pair)'
  BY <1>1, <1>2 DEF Issued
<1>4. \A c \in Canonical : c # pair => Issued(c)'
  BY DEF Issued, SwapSound
<1> QED
  BY <1>3, <1>4

\* A deposit: its tokens are at most its share of either reserve.
LEMMA DepositFacts ==
  ASSUME SwapSound, NEW pair \in Canonical, NEW a \in Nat \ {0}, NEW b \in Nat \ {0}, NEW tokens, NEW locked,
         tokens = (IF pools[pair].lpSupply = 0 THEN Sqrt(a * b) - MINIMUM_LIQUIDITY ELSE Shares(pools[pair], <<a, b>>)),
         locked = (IF pools[pair].lpSupply = 0 THEN MINIMUM_LIQUIDITY ELSE 0),
         IF pools[pair].lpSupply = 0 THEN tokens >= 0 ELSE tokens > 0
  PROVE  /\ tokens \in Nat /\ locked \in Nat
         /\ lpBalance[pair][SwapAt] + locked >= MINIMUM_LIQUIDITY
         /\ pools[pair].lpSupply > 0 =>
              /\ locked = 0
              /\ pools[pair].reserve[1] * tokens <= a * pools[pair].lpSupply
              /\ pools[pair].reserve[2] * tokens <= b * pools[pair].lpSupply
<1> DEFINE s == pools[pair].lpSupply
           r1 == pools[pair].reserve[1]
           r2 == pools[pair].reserve[2]
           mine == lpBalance[pair][SwapAt]
<1>1. s \in Nat /\ r1 \in Nat /\ r2 \in Nat /\ mine \in Nat /\ MINIMUM_LIQUIDITY \in Nat
  <2>1. SwapAt \in Providers
    BY DEF Providers
  <2> QED
    BY <2>1, SwapFacts, FxSwapAssumption
<1>2. CASE s = 0
  <2>1. Sqrt(a * b) \in Nat
    <3>1. PICK v \in Nat : v = a * b
      OBVIOUS
    <3>2. Sqrt(v) \in 0..v
      BY SqrtTyped
    <3> QED
      BY <3>1, <3>2
  <2> HIDE DEF r1, r2, mine
  <2> QED
    BY <1>1, <1>2, <2>1 DEF mine
<1>3. CASE s > 0
  <2>1. r1 > 0 /\ r2 > 0 /\ mine >= MINIMUM_LIQUIDITY
    BY <1>3 DEF SwapSound, Issued
  <2>2. PICK x, y : x = (a * s) \div r1 /\ y = (b * s) \div r2
    OBVIOUS
  <2>3. tokens = IF x < y THEN x ELSE y
    BY <1>1, <1>3, <2>2 DEF Shares
  <2>4. x \in Nat /\ r1 * x <= a * s
    <3>1. PICK v, d : v = a * s /\ d = r1
      OBVIOUS
    <3>2. v \in Nat /\ d \in Nat \ {0} /\ x = v \div d
      BY <1>1, <2>1, <2>2, <3>1
    <3>3. v \div d \in Nat /\ d * (v \div d) <= v
      BY <3>2, DivBound
    <3> QED
      BY <3>1, <3>2, <3>3
  <2>5. y \in Nat /\ r2 * y <= b * s
    <3>1. PICK v, d : v = b * s /\ d = r2
      OBVIOUS
    <3>2. v \in Nat /\ d \in Nat \ {0} /\ y = v \div d
      BY <1>1, <2>1, <2>2, <3>1
    <3>3. v \div d \in Nat /\ d * (v \div d) <= v
      BY <3>2, DivBound
    <3> QED
      BY <3>1, <3>2, <3>3
  <2>6. tokens \in Nat /\ tokens <= x /\ tokens <= y
    BY <2>3, <2>4, <2>5
  <2>7. r1 * tokens <= r1 * x /\ r2 * tokens <= r2 * y /\ r1 * x \in Nat /\ r2 * y \in Nat
        /\ r1 * tokens \in Nat /\ r2 * tokens \in Nat
    BY <1>1, <2>4, <2>5, <2>6, TimesOrder
  <2>8. r1 * tokens <= a * s /\ r2 * tokens <= b * s
    <3>1. PICK u, v, w, z, m, n : u = r1 * tokens /\ v = r1 * x /\ w = a * s /\ z = r2 * tokens /\ m = r2 * y /\ n = b * s
      OBVIOUS
    <3>2. u <= v /\ v <= w /\ z <= m /\ m <= n /\ u \in Nat /\ v \in Nat /\ z \in Nat /\ m \in Nat
      BY <2>4, <2>5, <2>7, <3>1
    <3>3. w \in Nat /\ n \in Nat
      BY <1>1, <3>1
    <3>4. u <= w /\ z <= n
      BY <3>2, <3>3
    <3> QED
      BY <3>1, <3>4
  <2> QED
    BY <1>1, <1>3, <2>1, <2>6, <2>8
<1> QED
  BY <1>1, <1>2, <1>3

\* What a step says of the worth of the shares of a pool.
Worth(pair) ==
  pools[pair].lpSupply > 0 =>
    pools'[pair].reserve[1] * pools'[pair].reserve[2] * pools[pair].lpSupply * pools[pair].lpSupply
      >= pools[pair].reserve[1] * pools[pair].reserve[2] * pools'[pair].lpSupply * pools'[pair].lpSupply

LEMMA AddLiquidityKeeps ==
  ASSUME SwapSound, NEW pair \in Canonical, NEW lp \in Accounts, NEW a \in SwapAmounts, NEW b \in SwapAmounts,
         AddLiquidity(lp, pair, <<a, b>>)
  PROVE  SwapSound' /\ Worth(pair) /\ \A c \in Canonical : c # pair => pools'[c] = pools[c]
<1> DEFINE pool == pools[pair]
           tokens == IF pool.lpSupply = 0 THEN Sqrt(a * b) - MINIMUM_LIQUIDITY ELSE Shares(pool, <<a, b>>)
           locked == IF pool.lpSupply = 0 THEN MINIMUM_LIQUIDITY ELSE 0
           row == [pool EXCEPT !.lpSupply = @ + tokens + locked, !.reserve = <<@[1] + a, @[2] + b>>]
           h == [lpBalance[pair] EXCEPT ![lp] = @ + tokens, ![SwapAt] = @ + locked]
<1>1. /\ a > 0 /\ b > 0 /\ a \in Nat /\ b \in Nat
      /\ IF pool.lpSupply = 0 THEN tokens >= 0 ELSE tokens > 0
      /\ TransferBoth(pair, lp, SwapAt, <<a, b>>)
      /\ UNCHANGED <<now, swapReady>>
  BY FxSwapAssumption DEF AddLiquidity
<1>2. pools' = [pools EXCEPT ![pair] = row]
  BY DEF AddLiquidity
<1>3. lpBalance' = [lpBalance EXCEPT ![pair] = h]
  BY DEF AddLiquidity
<1>4. pool \in PoolRows /\ lpBalance[pair] \in [Providers -> Nat]
  BY DEF SwapSound
<1>5. PICK t, l : t = tokens /\ l = locked
  OBVIOUS
<1>6. /\ t \in Nat /\ l \in Nat /\ lpBalance[pair][SwapAt] + l >= MINIMUM_LIQUIDITY
      /\ pool.lpSupply > 0 =>
           l = 0 /\ pool.reserve[1] * t <= a * pool.lpSupply /\ pool.reserve[2] * t <= b * pool.lpSupply
  BY <1>1, <1>5, DepositFacts
<1>7. /\ row = [pool EXCEPT !.lpSupply = @ + t + l, !.reserve = <<@[1] + a, @[2] + b>>]
      /\ h = [lpBalance[pair] EXCEPT ![lp] = @ + t, ![SwapAt] = @ + l]
  BY <1>5
<1> HIDE DEF tokens, locked, row, h, pool
<1>8. /\ row \in PoolRows /\ row.lpSupply = pool.lpSupply + t + l
      /\ row.reserve[1] = pool.reserve[1] + a /\ row.reserve[2] = pool.reserve[2] + b
  <2> DEFINE two == <<pool.reserve[1] + a, pool.reserve[2] + b>>
  <2>1. pool.reserve[1] \in Nat /\ pool.reserve[2] \in Nat /\ pool.lpSupply \in Nat
    BY <1>4 DEF PoolRows
  <2>2. two \in [{1, 2} -> Nat] /\ two[1] = pool.reserve[1] + a /\ two[2] = pool.reserve[2] + b
    BY <1>1, <2>1
  <2>3. row = [pool EXCEPT !.lpSupply = @ + t + l, !.reserve = two]
    BY <1>7
  <2> HIDE DEF two
  <2>4. pool.lpSupply + t + l \in Nat
    BY <1>6, <2>1
  <2>5. row \in PoolRows /\ row.lpSupply = pool.lpSupply + t + l /\ row.reserve = two
    BY <1>4, <2>2, <2>3, <2>4 DEF PoolRows
  <2> QED
    BY <2>2, <2>5
<1>9. lp \in Providers /\ SwapAt \in Providers /\ lp # SwapAt
  BY PairFacts DEF Providers
<1>10. /\ h \in [Providers -> Nat] /\ h[lp] = lpBalance[pair][lp] + t /\ h[SwapAt] = lpBalance[pair][SwapAt] + l
       /\ \A c \in Providers : c # lp /\ c # SwapAt => h[c] = lpBalance[pair][c]
  BY <1>4, <1>6, <1>7, <1>9
<1>11. pool.lpSupply \in Nat /\ pool.reserve[1] \in Nat /\ pool.reserve[2] \in Nat
  BY <1>4 DEF PoolRows
<1>12. row.lpSupply > 0 => h[SwapAt] >= MINIMUM_LIQUIDITY /\ row.reserve[1] > 0 /\ row.reserve[2] > 0
  BY <1>1, <1>6, <1>8, <1>10, <1>11
<1>13. /\ pools' \in [Canonical -> PoolRows] /\ pools'[pair] = row
       /\ \A c \in Canonical : c # pair => pools'[c] = pools[c]
       /\ lpBalance' \in [Canonical -> [Providers -> Nat]]
       /\ \A c \in Canonical : Issued(c)'
  <2>1. t \in Int /\ l \in Int /\ row.lpSupply = pools[pair].lpSupply + t + l
    BY <1>6, <1>8 DEF pool
  <2>2. /\ pools' \in [Canonical -> PoolRows] /\ pools'[pair] = row
        /\ \A c \in Canonical : c # pair => pools'[c] = pools[c]
    BY <1>2, <1>8 DEF SwapSound
  <2>3. /\ lpBalance' \in [Canonical -> [Providers -> Nat]] /\ lpBalance'[pair] = h
        /\ \A c \in Canonical : c # pair => lpBalance'[c] = lpBalance[c]
    BY <1>3, <1>10 DEF SwapSound
  <2>4. /\ pools'[pair].lpSupply = pools[pair].lpSupply + (lpBalance'[pair][lp] - lpBalance[pair][lp])
                                    + (lpBalance'[pair][SwapAt] - lpBalance[pair][SwapAt])
        /\ pools'[pair].lpSupply > 0 => lpBalance'[pair][SwapAt] >= MINIMUM_LIQUIDITY
        /\ pools'[pair].lpSupply > 0 => pools'[pair].reserve[1] > 0 /\ pools'[pair].reserve[2] > 0
    <3>1. /\ lpBalance[pair][lp] \in Nat /\ lpBalance[pair][SwapAt] \in Nat /\ pools[pair].lpSupply \in Nat
          /\ lpBalance'[pair][lp] = lpBalance[pair][lp] + t /\ lpBalance'[pair][SwapAt] = lpBalance[pair][SwapAt] + l
      BY <1>9, <1>10, <2>3, SwapFacts
    <3>2. PICK m, n, m1, n1 : /\ m = lpBalance[pair][lp] /\ n = lpBalance[pair][SwapAt]
                              /\ m1 = lpBalance'[pair][lp] /\ n1 = lpBalance'[pair][SwapAt]
      OBVIOUS
    <3>3. t = m1 - m /\ l = n1 - n
      BY <1>6, <3>1, <3>2
    <3>4. row.lpSupply = pools[pair].lpSupply + (m1 - m) + (n1 - n)
      BY <2>1, <3>3
    <3>5. /\ row.lpSupply > 0 => lpBalance'[pair][SwapAt] >= MINIMUM_LIQUIDITY
          /\ row.lpSupply > 0 => row.reserve[1] > 0 /\ row.reserve[2] > 0
      BY <1>12, <2>3
    <3> QED
      BY <2>2, <3>2, <3>4, <3>5
  <2>6. \A c \in Providers : c # lp /\ c # SwapAt => lpBalance'[pair][c] = lpBalance[pair][c]
    BY <1>10, <2>3
  <2>7. \A c \in Canonical : c # pair => pools'[c] = pools[c] /\ lpBalance'[c] = lpBalance[c]
    BY <2>2, <2>3
  <2>8. pools' \in [Canonical -> PoolRows] /\ lpBalance' \in [Canonical -> [Providers -> Nat]]
    BY <2>2, <2>3
  <2>9. \A c \in Canonical : Issued(c)'
    BY <2>1, <2>4, <2>6, <2>7, <2>8, LiquidityMove
  <2> QED
    BY <2>2, <2>3, <2>9
<1>14. /\ balance' \in [Assets -> [Addresses -> Nat]]
       /\ balance'[pair[1]][SwapAt] = balance[pair[1]][SwapAt] + a
       /\ balance'[pair[2]][SwapAt] = balance[pair[2]][SwapAt] + b
       /\ \A s \in Assets : s # pair[1] /\ s # pair[2] => balance'[s] = balance[s]
  <2>1. /\ a <= balance[pair[1]][lp] /\ b <= balance[pair[2]][lp]
        /\ balance' = [balance EXCEPT ![pair[1]] = Moved(@, lp, SwapAt, a), ![pair[2]] = Moved(@, lp, SwapAt, b)]
    BY <1>1 DEF TransferBoth
  <2>2. /\ pair[1] \in Assets /\ pair[2] \in Assets /\ pair[1] # pair[2]
        /\ lp \in Addresses /\ SwapAt \in Addresses /\ lp # SwapAt /\ HostTypeOK
    BY PairFacts DEF SwapSound
  <2>3. /\ balance' \in [Assets -> [Addresses -> Nat]]
        /\ balance'[pair[1]] = Moved(balance[pair[1]], lp, SwapAt, a)
        /\ balance'[pair[2]] = Moved(balance[pair[2]], lp, SwapAt, b)
        /\ \A s \in Assets : s # pair[1] /\ s # pair[2] => balance'[s] = balance[s]
    BY <1>1, <2>1, <2>2, BothMoved
  <2>4. balance[pair[1]] \in [Addresses -> Nat] /\ balance[pair[2]] \in [Addresses -> Nat]
    BY <2>2 DEF HostTypeOK
  <2>5. PICK x, y : x = balance[pair[1]] /\ y = balance[pair[2]]
    OBVIOUS
  <2>6. /\ a \in Nat /\ b \in Nat /\ a <= x[lp] /\ b <= y[lp]
        /\ x \in [Addresses -> Nat] /\ y \in [Addresses -> Nat]
    BY <1>1, <2>1, <2>4, <2>5
  <2>7. Moved(x, lp, SwapAt, a)[SwapAt] = x[SwapAt] + a
    BY <2>2, <2>6, MovedTyped
  <2>8. Moved(y, lp, SwapAt, b)[SwapAt] = y[SwapAt] + b
    BY <2>2, <2>6, MovedTyped
  <2> QED
    BY <2>3, <2>5, <2>7, <2>8
<1>15. \A s \in Assets : balance'[s][SwapAt] = SumFunctionOnSet(Reserve', Trades(s))
  <2>1. /\ a \in Int /\ b \in Int
        /\ pools'[pair].reserve[1] = pools[pair].reserve[1] + a
        /\ pools'[pair].reserve[2] = pools[pair].reserve[2] + b
    BY <1>1, <1>8, <1>13 DEF pool
  <2> QED
    BY <1>13, <1>14, <2>1, ReservesMove
<1>16. HostTypeOK' /\ swapReady' \in BOOLEAN
  BY <1>1, <1>14 DEF SwapSound, HostTypeOK
<1>17. SwapSound'
  BY <1>13, <1>15, <1>16 DEF SwapSound, Trades
<1>18. Worth(pair)
  <2>1. ASSUME pool.lpSupply > 0
        PROVE  row.reserve[1] * row.reserve[2] * pool.lpSupply * pool.lpSupply
                 >= pool.reserve[1] * pool.reserve[2] * row.lpSupply * row.lpSupply
    <3>1. PICK s, r1, r2, q1, q2, u :
            /\ s = pool.lpSupply /\ r1 = pool.reserve[1] /\ r2 = pool.reserve[2]
            /\ q1 = row.reserve[1] /\ q2 = row.reserve[2] /\ u = row.lpSupply
      OBVIOUS
    <3>2. /\ s \in Nat /\ r1 \in Nat /\ r2 \in Nat /\ q1 = r1 + a /\ q2 = r2 + b /\ u = s + t
          /\ r1 * t <= a * s /\ r2 * t <= b * s
      BY <1>6, <1>8, <1>11, <2>1, <3>1
    <3>3. q1 * s >= r1 * u /\ q2 * s >= r2 * u
      <4>1. ASSUME NEW r \in Nat, NEW n \in Nat, r * t <= n * s
            PROVE  (r + n) * s >= r * (s + t)
        <5>1. (r + n) * s = r * s + n * s /\ r * (s + t) = r * s + r * t
          BY <1>6, <3>2
        <5>2. r * s \in Nat /\ n * s \in Nat /\ r * t \in Nat
          BY <1>6, <3>2
        <5> QED
          BY <4>1, <5>1, <5>2
      <4> QED
        BY <1>1, <3>2, <4>1
    <3>4. q1 \in Nat /\ q2 \in Nat /\ u \in Nat
      BY <1>1, <1>6, <3>2
    <3>5. q1 * q2 * s * s >= r1 * r2 * u * u
      BY <3>2, <3>3, <3>4, WorthKept
    <3> QED
      BY <3>1, <3>5
  <2> QED
    BY <1>13, <2>1 DEF Worth, pool
<1> QED
  BY <1>13, <1>17, <1>18

\* What is redeemed leaves the others at least their share.
LEMMA RedeemFacts ==
  ASSUME NEW r \in Nat \ {0}, NEW s \in Nat \ {0}, NEW t \in Nat, t < s
  PROVE  LET out == Redeemed(r, t, s) IN
         out \in Nat /\ out < r /\ (r - out) * s >= r * (s - t)
<1> DEFINE out == Redeemed(r, t, s)
<1>1. PICK v : v = r * t
  OBVIOUS
<1>2. v \in Nat /\ out = v \div s
  BY <1>1 DEF Redeemed
<1> HIDE DEF out
<1>3. out \in Nat /\ s * out <= v
  BY <1>2, DivBound
<1>4. /\ (r - out) * s = r * s - s * out /\ r * (s - t) = r * s - r * t
      /\ r * s \in Nat /\ s * out \in Nat
  BY <1>3
<1>5. (r - out) * s >= r * (s - t)
  <2>1. PICK x, y : x = r * s /\ y = s * out
    OBVIOUS
  <2>2. x \in Nat /\ y \in Nat /\ y <= v /\ v = r * t /\ (r - out) * s = x - y /\ r * (s - t) = x - v
    BY <1>1, <1>3, <1>4, <2>1
  <2>3. x - y >= x - v
    BY <1>2, <2>2
  <2> QED
    BY <2>2, <2>3
<1>6. out < r
  <2>1. ASSUME out >= r PROVE FALSE
    <3>1. s * r <= s * out /\ s * r \in Nat /\ s * out \in Nat
      BY <1>3, <2>1, TimesOrder
    <3>2. r * t < r * s
      <4>1. r * (t + 1) <= r * s /\ r * (t + 1) = r * t + r
        BY TimesOrder
      <4> QED
        BY <1>1, <1>2, <1>4, <4>1
    <3> QED
      BY <1>1, <1>2, <1>3, <3>1, <3>2
  <2> QED
    BY <1>3, <2>1
<1> QED
  BY <1>3, <1>5, <1>6 DEF out

\* What a provider and the contract itself have of the tokens is not more than there is.
LEMMA ShareOfSupply ==
  ASSUME SwapSound, NEW pair \in Canonical, NEW lp \in Accounts
  PROVE  lpBalance[pair][lp] + lpBalance[pair][SwapAt] <= pools[pair].lpSupply
<1>1. PICK f : f = lpBalance[pair]
  OBVIOUS
<1>2. \A a \in Providers : f[a] \in Nat
  BY <1>1, SwapFacts
<1>3. lp \in Providers /\ SwapAt \in Providers /\ lp # SwapAt /\ IsFiniteSet(Providers)
  BY PairFacts DEF Providers
<1>4. SumFunctionOnSet(f, Providers) = pools[pair].lpSupply
  BY <1>1 DEF SwapSound, Issued
<1> DEFINE T == Providers \ {lp}
           U == T \ {SwapAt}
<1>5. IsFiniteSet(T) /\ IsFiniteSet(U) /\ SwapAt \in T /\ \A a \in Providers : f[a] \in Int
  BY <1>2, <1>3, FS_RemoveElement
<1>6. SumFunctionOnSet(f, Providers) = f[lp] + SumFunctionOnSet(f, T)
  BY <1>3, <1>5, SumTake
<1>7. SumFunctionOnSet(f, T) = f[SwapAt] + SumFunctionOnSet(f, U)
  BY <1>5, SumTake
<1>8. SumFunctionOnSet(f, U) \in Nat
  BY <1>2, <1>5, SumNat
<1> HIDE DEF T, U
<1> QED
  BY <1>1, <1>2, <1>3, <1>4, <1>6, <1>7, <1>8

LEMMA RemoveLiquidityKeeps ==
  ASSUME SwapSound, NEW pair \in Canonical, NEW lp \in Accounts, NEW t \in SwapAmounts,
         RemoveLiquidity(lp, pair, t)
  PROVE  SwapSound' /\ Worth(pair) /\ \A c \in Canonical : c # pair => pools'[c] = pools[c]
<1> DEFINE pool == pools[pair]
           o1 == Redeemed(pool.reserve[1], t, pool.lpSupply)
           o2 == Redeemed(pool.reserve[2], t, pool.lpSupply)
           row == [pool EXCEPT !.lpSupply = @ - t, !.reserve = <<@[1] - o1, @[2] - o2>>]
           h == [lpBalance[pair] EXCEPT ![lp] = @ - t]
<1>1. /\ t > 0 /\ t \in Nat /\ t <= lpBalance[pair][lp]
      /\ TransferBoth(pair, SwapAt, lp, <<o1, o2>>)
      /\ UNCHANGED <<now, swapReady>>
  BY FxSwapAssumption DEF RemoveLiquidity
<1>2. pools' = [pools EXCEPT ![pair] = row] /\ lpBalance' = [lpBalance EXCEPT ![pair] = h]
  BY DEF RemoveLiquidity
<1>3. pool \in PoolRows /\ lpBalance[pair] \in [Providers -> Nat]
  BY DEF SwapSound
<1>4. lp \in Providers /\ SwapAt \in Providers /\ lp # SwapAt
  BY PairFacts DEF Providers
<1>5. /\ pool.lpSupply \in Nat /\ pool.reserve[1] \in Nat /\ pool.reserve[2] \in Nat
      /\ lpBalance[pair][lp] \in Nat /\ lpBalance[pair][SwapAt] \in Nat
      /\ lpBalance[pair][lp] + lpBalance[pair][SwapAt] <= pool.lpSupply
      /\ MINIMUM_LIQUIDITY \in Nat \ {0}
  BY <1>3, <1>4, ShareOfSupply, FxSwapAssumption DEF PoolRows
<1>6. /\ pool.lpSupply > 0 /\ lpBalance[pair][SwapAt] >= MINIMUM_LIQUIDITY
      /\ pool.reserve[1] > 0 /\ pool.reserve[2] > 0
  BY <1>1, <1>5 DEF SwapSound, Issued
<1>7. t < pool.lpSupply
  BY <1>1, <1>5, <1>6
<1>8. PICK s, r1, r2, x, y : s = pool.lpSupply /\ r1 = pool.reserve[1] /\ r2 = pool.reserve[2] /\ x = o1 /\ y = o2
  OBVIOUS
<1>9. s \in Nat \ {0} /\ r1 \in Nat \ {0} /\ r2 \in Nat \ {0} /\ t < s
  BY <1>5, <1>6, <1>7, <1>8
<1>10. x = Redeemed(r1, t, s) /\ y = Redeemed(r2, t, s)
  BY <1>8
<1>11. /\ x \in Nat /\ x < r1 /\ (r1 - x) * s >= r1 * (s - t)
       /\ y \in Nat /\ y < r2 /\ (r2 - y) * s >= r2 * (s - t)
  BY <1>1, <1>9, <1>10, RedeemFacts
<1>12. row = [pool EXCEPT !.lpSupply = @ - t, !.reserve = <<@[1] - x, @[2] - y>>]
  BY <1>8
<1>13. /\ x <= balance[pair[1]][SwapAt] /\ y <= balance[pair[2]][SwapAt]
       /\ balance' = [balance EXCEPT ![pair[1]] = Moved(@, SwapAt, lp, x), ![pair[2]] = Moved(@, SwapAt, lp, y)]
  BY <1>1, <1>8 DEF TransferBoth
<1> HIDE DEF o1, o2, row, pool
<1>14. /\ row \in PoolRows /\ row.lpSupply = s - t /\ row.reserve[1] = r1 - x /\ row.reserve[2] = r2 - y
  <2> DEFINE two == <<r1 - x, r2 - y>>
  <2>1. two \in [{1, 2} -> Nat] /\ two[1] = r1 - x /\ two[2] = r2 - y
    BY <1>9, <1>11
  <2>2. row = [pool EXCEPT !.lpSupply = s - t, !.reserve = two]
    BY <1>8, <1>12
  <2> HIDE DEF two
  <2>3. s - t \in Nat
    BY <1>1, <1>9
  <2>4. row \in PoolRows /\ row.lpSupply = s - t /\ row.reserve = two
    BY <1>3, <2>1, <2>2, <2>3 DEF PoolRows
  <2> QED
    BY <2>1, <2>4
<1>15. /\ h \in [Providers -> Nat] /\ h[lp] = lpBalance[pair][lp] - t
       /\ \A a \in Providers : a # lp => h[a] = lpBalance[pair][a]
  BY <1>1, <1>3, <1>4, <1>5
<1> HIDE DEF h
<1>16. /\ pools' \in [Canonical -> PoolRows] /\ pools'[pair] = row
       /\ \A c \in Canonical : c # pair => pools'[c] = pools[c]
  BY <1>2, <1>14 DEF SwapSound
<1>17. /\ lpBalance' \in [Canonical -> [Providers -> Nat]] /\ lpBalance'[pair] = h
       /\ \A c \in Canonical : c # pair => lpBalance'[c] = lpBalance[c]
  BY <1>2, <1>15 DEF SwapSound
<1>18. \A c \in Canonical : Issued(c)'
  <2>1. \A a \in Providers : a # lp /\ a # SwapAt => lpBalance'[pair][a] = lpBalance[pair][a]
    BY <1>15, <1>17
  <2>2. \A c \in Canonical : c # pair => pools'[c] = pools[c] /\ lpBalance'[c] = lpBalance[c]
    BY <1>16, <1>17
  <2>3. pools'[pair].lpSupply = pools[pair].lpSupply + (lpBalance'[pair][lp] - lpBalance[pair][lp])
                                 + (lpBalance'[pair][SwapAt] - lpBalance[pair][SwapAt])
    <3>1. PICK m, n : m = lpBalance[pair][lp] /\ n = lpBalance[pair][SwapAt]
      OBVIOUS
    <3>2. lpBalance'[pair][lp] = m - t /\ lpBalance'[pair][SwapAt] = n /\ m \in Nat /\ n \in Nat
      BY <1>4, <1>5, <1>15, <1>17, <3>1
    <3>3. s - t = s + ((m - t) - m) + (n - n)
      BY <1>1, <1>9, <3>2
    <3> QED
      BY <1>8, <1>14, <1>16, <3>1, <3>2, <3>3 DEF pool
  <2>4. lpBalance'[pair][SwapAt] >= MINIMUM_LIQUIDITY
    BY <1>4, <1>6, <1>15, <1>17
  <2>5. pools'[pair].reserve[1] > 0 /\ pools'[pair].reserve[2] > 0
    BY <1>9, <1>11, <1>14, <1>16
  <2> QED
    BY <1>16, <1>17, <2>1, <2>2, <2>3, <2>4, <2>5, LiquidityMove
<1>19. /\ balance' \in [Assets -> [Addresses -> Nat]]
       /\ balance'[pair[1]][SwapAt] = balance[pair[1]][SwapAt] + (0 - x)
       /\ balance'[pair[2]][SwapAt] = balance[pair[2]][SwapAt] + (0 - y)
       /\ \A a \in Assets : a # pair[1] /\ a # pair[2] => balance'[a] = balance[a]
  <2>1. /\ pair[1] \in Assets /\ pair[2] \in Assets /\ pair[1] # pair[2]
        /\ lp \in Addresses /\ SwapAt \in Addresses /\ lp # SwapAt /\ HostTypeOK
    BY PairFacts DEF SwapSound
  <2>2. PICK p, q : p = pair[1] /\ q = pair[2]
    OBVIOUS
  <2>3. p \in Assets /\ q \in Assets /\ p # q /\ x <= balance[p][SwapAt] /\ y <= balance[q][SwapAt]
        /\ balance' = [balance EXCEPT ![p] = Moved(@, SwapAt, lp, x), ![q] = Moved(@, SwapAt, lp, y)]
    BY <1>13, <2>1, <2>2
  <2>4. /\ balance' \in [Assets -> [Addresses -> Nat]]
        /\ balance'[p] = Moved(balance[p], SwapAt, lp, x)
        /\ balance'[q] = Moved(balance[q], SwapAt, lp, y)
        /\ \A a \in Assets : a # p /\ a # q => balance'[a] = balance[a]
    BY <1>11, <2>1, <2>3, BothMoved
  <2>5. PICK u, v : u = balance[p] /\ v = balance[q]
    OBVIOUS
  <2>6. u \in [Addresses -> Nat] /\ v \in [Addresses -> Nat] /\ x <= u[SwapAt] /\ y <= v[SwapAt]
    BY <2>1, <2>3, <2>5 DEF HostTypeOK
  <2>7. Moved(u, SwapAt, lp, x)[SwapAt] = u[SwapAt] - x
    BY <1>11, <2>1, <2>6, MovedTyped
  <2>8. Moved(v, SwapAt, lp, y)[SwapAt] = v[SwapAt] - y
    BY <1>11, <2>1, <2>6, MovedTyped
  <2>9. u[SwapAt] - x = u[SwapAt] + (0 - x) /\ v[SwapAt] - y = v[SwapAt] + (0 - y)
    BY <1>11, <2>1, <2>6
  <2> QED
    BY <2>2, <2>4, <2>5, <2>7, <2>8, <2>9
<1>20. \A a \in Assets : balance'[a][SwapAt] = SumFunctionOnSet(Reserve', Trades(a))
  <2>1. PICK d, e : d = 0 - x /\ e = 0 - y
    OBVIOUS
  <2>2. /\ d \in Int /\ e \in Int
        /\ pools'[pair].reserve[1] = pools[pair].reserve[1] + d
        /\ pools'[pair].reserve[2] = pools[pair].reserve[2] + e
    BY <1>8, <1>9, <1>11, <1>14, <1>16, <2>1 DEF pool
  <2>3. /\ balance'[pair[1]][SwapAt] = balance[pair[1]][SwapAt] + d
        /\ balance'[pair[2]][SwapAt] = balance[pair[2]][SwapAt] + e
    BY <1>19, <2>1
  <2> QED
    BY <1>16, <1>19, <2>2, <2>3, ReservesMove
<1>21. HostTypeOK' /\ swapReady' \in BOOLEAN
  BY <1>1, <1>19 DEF SwapSound, HostTypeOK
<1>22. SwapSound'
  BY <1>16, <1>17, <1>18, <1>20, <1>21 DEF SwapSound, Trades
<1>23. Worth(pair)
  <2>1. PICK q1, q2, u : q1 = r1 - x /\ q2 = r2 - y /\ u = s - t
    OBVIOUS
  <2>2. q1 \in Nat /\ q2 \in Nat /\ u \in Nat /\ q1 * s >= r1 * u /\ q2 * s >= r2 * u
    BY <1>1, <1>9, <1>11, <2>1
  <2>3. q1 * q2 * s * s >= r1 * r2 * u * u
    BY <1>9, <2>2, WorthKept
  <2> QED
    BY <1>8, <1>14, <1>16, <2>1, <2>3 DEF Worth, pool
<1> QED
  BY <1>16, <1>22, <1>23

LEMMA SwapAssetsKeeps ==
  ASSUME SwapSound, NEW pair \in Canonical, NEW user \in Accounts, NEW i \in {1, 2}, NEW in \in SwapAmounts,
         SwapAssets(user, pair, i, in)
  PROVE  SwapSound' /\ Worth(pair) /\ \A c \in Canonical : c # pair => pools'[c] = pools[c]
<1> DEFINE pool == pools[pair]
<1>1. pool \in PoolRows /\ pool.reserve \in [{1, 2} -> Nat] /\ pool.lpSupply \in Nat
  BY DEF SwapSound, PoolRows
<1>2. PICK j : j = 3 - i
  OBVIOUS
<1>3. (i = 1 /\ j = 2) \/ (i = 2 /\ j = 1)
  BY <1>2
<1> DEFINE r == Swapped(pool.reserve, i, in, AmountOut(in, pool.reserve[i], pool.reserve[3 - i]))
           row == [pool EXCEPT !.reserve = r]
<1>4. PICK ri, ro, out : ri = pool.reserve[i] /\ ro = pool.reserve[j] /\ out = AmountOut(in, ri, ro)
  OBVIOUS
<1>5. /\ in \in Nat \ {0} /\ ri \in Nat \ {0} /\ ro \in Nat \ {0}
      /\ in <= balance[pair[i]][user] /\ out <= balance[pair[j]][SwapAt]
      /\ balance' = [balance EXCEPT ![pair[i]] = Moved(@, user, SwapAt, in),
                                    ![pair[j]] = Moved(@, SwapAt, user, out)]
  <2>1. in \in Nat /\ in > 0 /\ pool.reserve[1] > 0 /\ pool.reserve[2] > 0
    BY FxSwapAssumption DEF SwapAssets
  <2>2. in \in Nat \ {0} /\ ri \in Nat \ {0} /\ ro \in Nat \ {0}
    BY <1>1, <1>3, <1>4, <2>1
  <2>3. PICK paid : paid = AmountOut(in, pool.reserve[i], pool.reserve[3 - i])
    OBVIOUS
  <2>4. /\ in <= balance[pair[i]][user] /\ paid <= balance[pair[3 - i]][SwapAt]
        /\ balance' = [balance EXCEPT ![pair[i]] = Moved(@, user, SwapAt, in),
                                      ![pair[3 - i]] = Moved(@, SwapAt, user, paid)]
    BY <2>3 DEF SwapAssets
  <2>5. paid = out
    BY <1>2, <1>4, <2>3
  <2> QED
    BY <1>2, <2>2, <2>4, <2>5
<1>5a. pools' = [pools EXCEPT ![pair] = row] /\ UNCHANGED <<now, swapReady, lpBalance>>
  BY DEF SwapAssets
<1>5b. r = [pool.reserve EXCEPT ![i] = @ + in, ![j] = @ - out]
  BY <1>2, <1>4 DEF Swapped
<1>6. out \in Nat /\ out < ro /\ (ri + in) * (ro - out) >= ri * ro
  BY <1>4, <1>5, SwapWorth
<1>7. r \in [{1, 2} -> Nat] /\ r[i] = ri + in /\ r[j] = ro - out /\ r[i] > 0 /\ r[j] > 0
  BY <1>1, <1>3, <1>4, <1>5, <1>6, <1>5b
<1> HIDE DEF r
<1>9. row \in PoolRows /\ row.reserve = r /\ row.lpSupply = pool.lpSupply
  BY <1>1, <1>7 DEF PoolRows
<1> HIDE DEF row
<1>10. /\ pools' \in [Canonical -> PoolRows] /\ pools'[pair] = row
       /\ \A c \in Canonical : c # pair => pools'[c] = pools[c]
  BY <1>5a, <1>9 DEF SwapSound
<1> HIDE DEF pool
<1>11. \A c \in Canonical : Issued(c)'
  <2>1. r[1] > 0 /\ r[2] > 0
    BY <1>3, <1>7
  <2>2. \A c \in Canonical : pools'[c].lpSupply = pools[c].lpSupply /\ lpBalance'[c] = lpBalance[c]
    BY <1>5a, <1>9, <1>10 DEF pool
  <2>3. pools'[pair].reserve[1] > 0 /\ pools'[pair].reserve[2] > 0
    BY <1>9, <1>10, <2>1
  <2>4. Issued(pair)'
    BY <2>2, <2>3 DEF Issued, SwapSound
  <2>5. \A c \in Canonical : c # pair => Issued(c)'
    BY <1>10, <2>2 DEF Issued, SwapSound
  <2> QED
    BY <2>4, <2>5
<1>12. /\ balance' \in [Assets -> [Addresses -> Nat]]
       /\ balance'[pair[i]][SwapAt] = balance[pair[i]][SwapAt] + in
       /\ balance'[pair[j]][SwapAt] = balance[pair[j]][SwapAt] + (0 - out)
       /\ \A t \in Assets : t # pair[i] /\ t # pair[j] => balance'[t] = balance[t]
  <2>1. /\ pair[i] \in Assets /\ pair[j] \in Assets /\ pair[i] # pair[j]
        /\ user \in Addresses /\ SwapAt \in Addresses /\ user # SwapAt /\ HostTypeOK
    BY <1>3, PairFacts DEF SwapSound
  <2>2. PICK p, q : p = pair[i] /\ q = pair[j]
    OBVIOUS
  <2>3. p \in Assets /\ q \in Assets /\ p # q /\ in <= balance[p][user] /\ out <= balance[q][SwapAt]
        /\ balance' = [balance EXCEPT ![p] = Moved(@, user, SwapAt, in), ![q] = Moved(@, SwapAt, user, out)]
    BY <1>5, <2>1, <2>2
  <2>4. /\ balance' \in [Assets -> [Addresses -> Nat]]
        /\ balance'[p] = Moved(balance[p], user, SwapAt, in)
        /\ balance'[q] = Moved(balance[q], SwapAt, user, out)
        /\ \A a \in Assets : a # p /\ a # q => balance'[a] = balance[a]
    <3>1. in \in Nat /\ out \in Nat
      BY <1>5, <1>6
    <3> QED
      BY <2>1, <2>3, <3>1, BothMoved
  <2>5. PICK u, v : u = balance[p] /\ v = balance[q]
    OBVIOUS
  <2>6. u \in [Addresses -> Nat] /\ v \in [Addresses -> Nat] /\ in <= u[user] /\ out <= v[SwapAt]
    BY <2>1, <2>3, <2>5 DEF HostTypeOK
  <2>7. Moved(u, user, SwapAt, in)[SwapAt] = u[SwapAt] + in
    BY <1>5, <2>1, <2>6, MovedTyped
  <2>8. Moved(v, SwapAt, user, out)[SwapAt] = v[SwapAt] - out
    BY <1>6, <2>1, <2>6, MovedTyped
  <2>9. v[SwapAt] - out = v[SwapAt] + (0 - out)
    BY <1>6, <2>1, <2>6
  <2> QED
    BY <2>2, <2>4, <2>5, <2>7, <2>8, <2>9
<1>13. \A t \in Assets : balance'[t][SwapAt] = SumFunctionOnSet(Reserve', Trades(t))
  <2>1. PICK d : d = 0 - out
    OBVIOUS
  <2>2. /\ in \in Int /\ d \in Int
        /\ pools'[pair].reserve[i] = pools[pair].reserve[i] + in
        /\ pools'[pair].reserve[j] = pools[pair].reserve[j] + d
    <3>1. /\ pools'[pair].reserve[i] = ri + in /\ pools'[pair].reserve[j] = ro - out
          /\ pools[pair].reserve[i] = ri /\ pools[pair].reserve[j] = ro
      BY <1>4, <1>7, <1>9, <1>10 DEF pool
    <3>2. ro - out = ro + d /\ d \in Int /\ in \in Int
      BY <1>5, <1>6, <2>1
    <3> QED
      BY <3>1, <3>2
  <2>3. /\ balance'[pair[i]][SwapAt] = balance[pair[i]][SwapAt] + in
        /\ balance'[pair[j]][SwapAt] = balance[pair[j]][SwapAt] + d
    BY <1>12, <2>1
  <2>4. CASE i = 1 /\ j = 2
    BY <1>10, <1>12, <2>2, <2>3, <2>4, ReservesMove
  <2>5. CASE i = 2 /\ j = 1
    BY <1>10, <1>12, <2>2, <2>3, <2>5, ReservesMove
  <2> QED
    BY <1>3, <2>4, <2>5
<1>14. HostTypeOK' /\ swapReady' \in BOOLEAN /\ lpBalance' \in [Canonical -> [Providers -> Nat]]
  BY <1>5a, <1>12 DEF SwapSound, HostTypeOK
<1>15. SwapSound'
  BY <1>10, <1>11, <1>13, <1>14 DEF SwapSound, Trades
<1>16. Worth(pair)
  <2>1. PICK s, p1, p2, q1, q2 : /\ s = pool.lpSupply /\ p1 = pool.reserve[1] /\ p2 = pool.reserve[2]
                                 /\ q1 = r[1] /\ q2 = r[2]
    OBVIOUS
  <2>2. q1 * q2 >= p1 * p2
    <3>1. CASE i = 1 /\ j = 2
      BY <1>4, <1>6, <1>7, <2>1, <3>1
    <3>2. CASE i = 2 /\ j = 1
      <4>1. q1 = ro - out /\ q2 = ri + in /\ p1 = ro /\ p2 = ri
        BY <1>4, <1>7, <2>1, <3>2
      <4>2. (ro - out) * (ri + in) = (ri + in) * (ro - out) /\ ro * ri = ri * ro
        BY <1>5, <1>6
      <4> QED
        BY <1>6, <4>1, <4>2
    <3> QED
      BY <1>3, <3>1, <3>2
  <2>3. s \in Nat /\ p1 \in Nat /\ p2 \in Nat /\ q1 \in Nat /\ q2 \in Nat
    BY <1>1, <1>7, <2>1 DEF pool
  <2>4. q1 * q2 * s * s >= p1 * p2 * s * s
    <3>1. PICK x, y : x = q1 * q2 /\ y = p1 * p2
      OBVIOUS
    <3>2. x \in Nat /\ y \in Nat /\ x >= y
      BY <2>2, <2>3, <3>1
    <3>3. x * s >= y * s /\ x * s \in Nat /\ y * s \in Nat
      BY <2>3, <3>2, TimesBoth
    <3>4. (x * s) * s >= (y * s) * s
      BY <2>3, <3>3, TimesBoth
    <3> QED
      BY <3>1, <3>4
  <2> QED
    BY <1>9, <1>10, <2>1, <2>4 DEF Worth, pool
<1> QED
  BY <1>10, <1>15, <1>16

\* Calls that leave balances, reserves and tokens alone.
LEMMA PoolsOpen ==
  ASSUME SwapSound, UNCHANGED <<now, balance, lpBalance>>, swapReady' \in BOOLEAN,
         pools' \in [Canonical -> PoolRows],
         \A c \in Canonical : pools'[c].reserve = pools[c].reserve /\ pools'[c].lpSupply = pools[c].lpSupply
  PROVE  SwapSound' /\ \A c \in Canonical : Worth(c)
<1>1. Reserve' = Reserve
  <2>1. \A p \in Sides : p[1] \in Canonical
    BY DEF Sides
  <2> QED
    BY <2>1 DEF Reserve
<1>2. \A t \in Assets : balance'[t][SwapAt] = SumFunctionOnSet(Reserve', Trades(t))
  BY <1>1 DEF SwapSound
<1>3. \A c \in Canonical : Issued(c)'
  BY DEF SwapSound, Issued
<1>4. SwapSound'
  BY <1>2, <1>3 DEF SwapSound, HostTypeOK, Trades
<1>5. ASSUME NEW c \in Canonical PROVE Worth(c)
  <2>1. PICK s, a, b : s = pools[c].lpSupply /\ a = pools[c].reserve[1] /\ b = pools[c].reserve[2]
    OBVIOUS
  <2>2. s = pools'[c].lpSupply /\ a = pools'[c].reserve[1] /\ b = pools'[c].reserve[2]
    BY <2>1
  <2>3. s \in Nat /\ a \in Nat /\ b \in Nat
    BY <2>1, SwapFacts
  <2>4. a * b * s * s >= a * b * s * s
    <3>1. a * b * s * s \in Nat
      BY <2>3
    <3> QED
      BY <3>1
  <2> QED
    BY <2>1, <2>2, <2>4 DEF Worth
<1> QED
  BY <1>4, <1>5

LEMMA SwapRests ==
  ASSUME HostTypeOK, SwapStart, \A t \in Assets : balance[t][SwapAt] = 0
  PROVE  SwapSound
<1>1. /\ HostTypeOK /\ swapReady \in BOOLEAN
      /\ pools = [pair \in Canonical |-> NoPool] /\ lpBalance = [pair \in Canonical |-> [a \in Providers |-> 0]]
  BY DEF SwapStart
<1>2. NoPool \in PoolRows /\ NoPool.lpSupply = 0 /\ NoPool.reserve[1] = 0 /\ NoPool.reserve[2] = 0
  BY DEF NoPool, PoolRows
<1>3. pools \in [Canonical -> PoolRows] /\ lpBalance \in [Canonical -> [Providers -> Nat]]
  BY <1>1, <1>2
<1>4. \A pair \in Canonical : Issued(pair)
  <2> SUFFICES ASSUME NEW pair \in Canonical PROVE Issued(pair)
    OBVIOUS
  <2>1. PICK f : f = lpBalance[pair]
    OBVIOUS
  <2>2. \A a \in Providers : f[a] = 0
    BY <1>1, <2>1
  <2>3. SumFunctionOnSet(f, Providers) = 0
    BY <2>2, PairFacts, SumZero
  <2> QED
    BY <1>1, <1>2, <2>1, <2>3 DEF Issued
<1>5. \A t \in Assets : balance[t][SwapAt] = SumFunctionOnSet(Reserve, Trades(t))
  <2> SUFFICES ASSUME NEW t \in Assets PROVE balance[t][SwapAt] = SumFunctionOnSet(Reserve, Trades(t))
    OBVIOUS
  <2>1. \A p \in Sides : p[1] \in Canonical /\ p[2] \in {1, 2}
    BY DEF Sides
  <2>2. \A p \in Sides : Reserve[p] = 0
    BY <1>1, <1>2, <2>1 DEF Reserve
  <2>3. Trades(t) \subseteq Sides /\ IsFiniteSet(Trades(t))
    BY PairFacts, FS_Subset DEF Trades
  <2>4. PICK f, S : f = Reserve /\ S = Trades(t)
    OBVIOUS
  <2>5. SumFunctionOnSet(f, S) = 0
    <3>1. \A p \in S : f[p] = 0
      BY <2>2, <2>3, <2>4
    <3> QED
      BY <2>3, <2>4, <3>1, SumZero
  <2> QED
    BY <2>4, <2>5
<1> QED
  BY <1>1, <1>3, <1>4, <1>5 DEF SwapSound

LEMMA SwapBegin ==
  ASSUME SwapInit
  PROVE  SwapSound
  BY HostStart, SwapRests, FxSwapAssumption DEF SwapInit

LEMMA SwapStep ==
  ASSUME SwapSound, [SwapNext]_swapVars
  PROVE  SwapSound' /\ \A c \in Canonical : Worth(c) \/ pools'[c] = pools[c]
<1>1. CASE UNCHANGED swapVars
  <2>1. UNCHANGED <<now, balance, lpBalance, pools, swapReady>>
    BY <1>1 DEF swapVars, hostVars
  <2>2. pools' \in [Canonical -> PoolRows] /\ swapReady' \in BOOLEAN
    BY <2>1 DEF SwapSound
  <2> QED
    BY <2>1, <2>2, PoolsOpen
<1>2. CASE InitializeSwap
  <2>1. UNCHANGED <<now, balance, lpBalance, pools>> /\ swapReady' \in BOOLEAN
    BY <1>2 DEF InitializeSwap, hostVars
  <2>2. pools' \in [Canonical -> PoolRows]
    BY <2>1 DEF SwapSound
  <2> QED
    BY <2>1, <2>2, PoolsOpen
<1>3. ASSUME NEW pair \in Canonical, CreatePool(pair)
      PROVE  SwapSound' /\ \A c \in Canonical : Worth(c)
  <2>1. UNCHANGED <<now, balance, lpBalance>> /\ swapReady' \in BOOLEAN
    BY <1>3 DEF CreatePool, hostVars, SwapSound
  <2> DEFINE row == [pools[pair] EXCEPT !.exists = TRUE]
  <2>2. pools' = [pools EXCEPT ![pair] = row] /\ pools \in [Canonical -> PoolRows]
    BY <1>3 DEF CreatePool, SwapSound
  <2>3. row \in PoolRows /\ row.reserve = pools[pair].reserve /\ row.lpSupply = pools[pair].lpSupply
    BY <2>2 DEF PoolRows
  <2> HIDE DEF row
  <2>4. /\ pools' \in [Canonical -> PoolRows]
        /\ \A c \in Canonical : pools'[c].reserve = pools[c].reserve /\ pools'[c].lpSupply = pools[c].lpSupply
    BY <2>2, <2>3
  <2> QED
    BY <2>1, <2>4, PoolsOpen
<1>4. ASSUME NEW pair \in Canonical, NEW a \in Accounts, NEW amount \in SwapAmounts,
             \/ RemoveLiquidity(a, pair, amount)
             \/ \E other \in SwapAmounts : AddLiquidity(a, pair, <<amount, other>>)
             \/ \E i \in {1, 2} : SwapAssets(a, pair, i, amount)
      PROVE  SwapSound' /\ \A c \in Canonical : Worth(c) \/ pools'[c] = pools[c]
  <2>1. SwapSound' /\ Worth(pair) /\ \A c \in Canonical : c # pair => pools'[c] = pools[c]
    BY <1>4, RemoveLiquidityKeeps, AddLiquidityKeeps, SwapAssetsKeeps
  <2> QED
    BY <2>1
<1> QED
  BY <1>1, <1>2, <1>3, <1>4 DEF SwapNext

LEMMA SwapIsSound == SwapSpec => []SwapSound
<1>1. SwapSound /\ [SwapNext]_swapVars => SwapSound'
  BY SwapStep
<1> QED
  BY <1>1, SwapBegin, PTL DEF SwapSpec

LEMMA ReservesAreSums ==
  ASSUME SwapSound
  PROVE  SwapTypeOK /\ ReservesAreHeld
<1>1. SwapTypeOK
  BY SwapFacts DEF SwapSound, SwapTypeOK
<1>2. ReservesAreHeld
  BY DEF SwapSound, ReservesAreHeld, Reserve, Trades, Sides
<1> QED
  BY <1>1, <1>2

\* What the swap contract holds of an asset is at every moment the sum of the
\* reserves of the pools that trade it: one pool is never paid out of the
\* reserve of another, whatever the calls and their order
\* (fx-swap/src/lib.rs, add_liquidity, remove_liquidity, swap).
THEOREM ReservesHold == SwapSpec => [](SwapTypeOK /\ ReservesAreHeld)
<1>1. SwapSound => SwapTypeOK /\ ReservesAreHeld
  BY ReservesAreSums
<1> QED
  BY <1>1, SwapIsSound, PTL

LEMMA LiquidityIsIssued ==
  ASSUME SwapSound
  PROVE  LiquidityAddsUp
<1> SUFFICES ASSUME NEW pair \in Canonical
             PROVE  /\ pools[pair].lpSupply = SumFunctionOnSet(lpBalance[pair], Providers)
                    /\ pools[pair].lpSupply > 0 =>
                         /\ pools[pair].lpSupply >= MINIMUM_LIQUIDITY
                         /\ pools[pair].reserve[1] * pools[pair].reserve[2] > 0
  BY DEF LiquidityAddsUp
<1>1. Issued(pair)
  BY DEF SwapSound
<1>2. ASSUME pools[pair].lpSupply > 0
      PROVE  pools[pair].lpSupply >= MINIMUM_LIQUIDITY
  <2>1. PICK f : f = lpBalance[pair]
    OBVIOUS
  <2>2. \A a \in Providers : f[a] \in Nat /\ f[a] \in Int
    BY <2>1, SwapFacts
  <2>3. SwapAt \in Providers /\ IsFiniteSet(Providers) /\ IsFiniteSet(Providers \ {SwapAt})
    BY PairFacts, FS_RemoveElement DEF Providers
  <2>4. SumFunctionOnSet(f, Providers) = f[SwapAt] + SumFunctionOnSet(f, Providers \ {SwapAt})
    BY <2>2, <2>3, SumTake
  <2>5. SumFunctionOnSet(f, Providers \ {SwapAt}) \in Nat
    BY <2>2, <2>3, SumNat
  <2>6. f[SwapAt] >= MINIMUM_LIQUIDITY /\ pools[pair].lpSupply = SumFunctionOnSet(f, Providers)
    BY <1>1, <1>2, <2>1 DEF Issued
  <2> QED
    BY <2>2, <2>3, <2>4, <2>5, <2>6, FxSwapAssumption
<1>3. ASSUME pools[pair].lpSupply > 0
      PROVE  pools[pair].reserve[1] * pools[pair].reserve[2] > 0
  <2>1. PICK a, b : a = pools[pair].reserve[1] /\ b = pools[pair].reserve[2]
    OBVIOUS
  <2>2. a \in Nat \ {0} /\ b \in Nat \ {0}
    BY <1>1, <1>3, <2>1, SwapFacts DEF Issued
  <2>3. a * b > 0
    BY <2>2
  <2> QED
    BY <2>1, <2>3
<1> QED
  BY <1>1, <1>2, <1>3 DEF Issued

\* The liquidity tokens of a pool are those of its providers and the locked
\* minimum, which nobody redeems: a pool that was funded is never emptied.
THEOREM LiquidityHolds == SwapSpec => []LiquidityAddsUp
<1>1. SwapSound => LiquidityAddsUp
  BY LiquidityIsIssued
<1> QED
  BY <1>1, SwapIsSound, PTL

\* The shares of every pool keep their worth in a step of the contract.
LEMMA WorthStays ==
  ASSUME SwapSound, [SwapNext]_swapVars \/ UNCHANGED pools
  PROVE  \A c \in Canonical : Worth(c)
<1> SUFFICES ASSUME NEW c \in Canonical PROVE Worth(c)
  OBVIOUS
<1>1. CASE pools'[c] = pools[c]
  <2>1. PICK s, a, b : s = pools[c].lpSupply /\ a = pools[c].reserve[1] /\ b = pools[c].reserve[2]
    OBVIOUS
  <2>2. s \in Nat /\ a \in Nat /\ b \in Nat
    BY <2>1, SwapFacts
  <2>3. a * b * s * s \in Nat
    BY <2>2
  <2>4. a * b * s * s >= a * b * s * s
    BY <2>3
  <2> QED
    BY <1>1, <2>1, <2>4 DEF Worth
<1> QED
  BY <1>1, SwapStep

\* The share of a pool that a liquidity token stands for never shrinks,
\* measured by the product of the reserves: no deposit, redemption or swap of
\* others, and no rounding of the contract's integer arithmetic, takes from
\* those who stay (compute_amount_out, sqrt, add_liquidity, remove_liquidity).
THEOREM SharesKeepTheirWorth == SwapSpec => ShareKeepsItsWorth
<1>1. SwapSound /\ [SwapNext]_swapVars =>
        [\A pair \in Canonical :
           LET p == pools[pair]
               q == pools'[pair] IN
           p.lpSupply > 0 =>
             q.reserve[1] * q.reserve[2] * p.lpSupply * p.lpSupply
               >= p.reserve[1] * p.reserve[2] * q.lpSupply * q.lpSupply]_swapVars
  BY WorthStays, Zenon DEF Worth
<1> QED
  BY <1>1, SwapIsSound, PTL DEF SwapSpec, ShareKeepsItsWorth

-----------------------------------------------------------------------------
(* The oracle.                                                              *)

ProviderRows == [authorized : BOOLEAN, heartbeat : Nat, staleness : Nat]

\* Whoever is trusted was registered, and no stored price or heartbeat is from the future.
OracleSound ==
  /\ HostTypeOK /\ oracleReady \in BOOLEAN
  /\ providerOrder \in Seq(Accounts)
  /\ providers \in [Accounts -> ProviderRows]
  /\ DOMAIN prices = Accounts
  /\ \A p \in Accounts :
       /\ providers[p].heartbeat <= now
       /\ prices[p].timestamp \in 0..now
       /\ prices[p].price \in Nat
       /\ providers[p].authorized => Registered(p)

LEMMA OracleRests ==
  ASSUME HostTypeOK, OracleStart
  PROVE  OracleSound
<1>1. HostTypeOK /\ now \in Nat /\ oracleReady \in BOOLEAN /\ providerOrder = <<>>
  <2>1. now \in Nat
    BY SorobanAssumption DEF HostTypeOK
  <2> QED
    BY <2>1 DEF OracleStart
<1>2. /\ providers = [p \in Accounts |-> [authorized |-> FALSE, heartbeat |-> 0, staleness |-> 0]]
      /\ prices = [p \in Accounts |-> [stored |-> FALSE, price |-> 0, decimals |-> 0, timestamp |-> 0]]
  BY DEF OracleStart
<1>3. providerOrder \in Seq(Accounts)
  BY <1>1, EmptySeq
<1>4. /\ providers \in [Accounts -> ProviderRows] /\ DOMAIN prices = Accounts
      /\ \A p \in Accounts : /\ providers[p].heartbeat <= now /\ prices[p].timestamp \in 0..now
                             /\ prices[p].price \in Nat /\ ~providers[p].authorized
  BY <1>1, <1>2 DEF ProviderRows
<1> QED
  BY <1>1, <1>3, <1>4 DEF OracleSound

LEMMA OracleBegin ==
  ASSUME OracleInit
  PROVE  OracleSound
  BY HostStart, OracleRests DEF OracleInit

LEMMA AppendedProvider ==
  ASSUME NEW s \in Seq(Accounts), NEW p \in Accounts
  PROVE  LET t == Append(s, p) IN
         /\ t \in Seq(Accounts)
         /\ DOMAIN s \subseteq DOMAIN t /\ \A i \in DOMAIN s : t[i] = s[i]
         /\ \A i \in DOMAIN t : i \notin DOMAIN s => t[i] = p
         /\ \E i \in DOMAIN t : t[i] = p
<1> DEFINE t == Append(s, p)
<1>1. t \in Seq(Accounts) /\ Len(t) = Len(s) + 1 /\ t[Len(s) + 1] = p /\ \A i \in 1..Len(s) : t[i] = s[i]
  BY AppendProperties
<1>2. Len(s) \in Nat /\ DOMAIN s = 1..Len(s) /\ DOMAIN t = 1..Len(t)
  BY <1>1, LenProperties
<1> HIDE DEF t
<1> QED
  BY <1>1, <1>2 DEF t

\* A step of the oracle: a provider's row is left alone or replaced by a typed one.
LEMMA OracleStep ==
  ASSUME OracleSound, [OracleNext]_oracleVars
  PROVE  OracleSound'
<1>1. /\ HostTypeOK /\ now \in Nat /\ providers \in [Accounts -> ProviderRows] /\ providerOrder \in Seq(Accounts)
      /\ \A p \in Accounts : providers[p].heartbeat \in Nat /\ providers[p].staleness \in Nat
                             /\ providers[p].authorized \in BOOLEAN
  BY DEF OracleSound, HostTypeOK, ProviderRows
<1>2. CASE UNCHANGED oracleVars
  BY <1>2 DEF OracleSound, oracleVars, hostVars, HostTypeOK, Registered
<1>3. CASE Tick /\ UNCHANGED <<oracleReady, providerOrder, providers, prices>>
  <2>1. HostTypeOK' /\ now' = now + 1
    BY <1>1, <1>3, TickTyped DEF Tick
  <2>2. \A p \in Accounts : providers[p].heartbeat <= now' /\ prices[p].timestamp \in 0..now'
    BY <1>1, <2>1 DEF OracleSound
  <2> QED
    BY <1>3, <2>1, <2>2 DEF OracleSound, Registered
<1>4. CASE InitializeOracle
  BY <1>4 DEF InitializeOracle, OracleSound, hostVars, HostTypeOK, Registered
<1>5. ASSUME NEW caller \in Accounts, NEW p \in Accounts, NEW b \in BOOLEAN, Authorize(caller, p, b)
      PROVE  OracleSound'
  <2> DEFINE row == [providers[p] EXCEPT !.authorized = b]
  <2>1. row \in ProviderRows /\ row.heartbeat = providers[p].heartbeat
    BY <1>1 DEF ProviderRows
  <2>2. providers' = [providers EXCEPT ![p] = row] /\ Registered(p)
        /\ UNCHANGED <<hostVars, oracleReady, providerOrder, prices>>
    BY <1>5 DEF Authorize
  <2> HIDE DEF row
  <2>3. providers' \in [Accounts -> ProviderRows] /\ providers'[p] = row
        /\ \A q \in Accounts : q # p => providers'[q] = providers[q]
    BY <1>1, <2>1, <2>2
  <2>4. \A q \in Accounts : providers'[q].heartbeat <= now
    BY <2>1, <2>3 DEF OracleSound
  <2>5. \A q \in Accounts : providers'[q].authorized => Registered(q)
    BY <2>2, <2>3 DEF OracleSound
  <2> QED
    BY <2>2, <2>3, <2>4, <2>5 DEF OracleSound, Registered, hostVars, HostTypeOK
<1>6. ASSUME NEW caller \in Accounts, NEW p \in Accounts, NEW s \in Staleness, RegisterProvider(caller, p, s)
      PROVE  OracleSound'
  <2> DEFINE row == [authorized |-> FALSE, heartbeat |-> now, staleness |-> s]
  <2>1. row \in ProviderRows /\ row.heartbeat = now /\ row.authorized = FALSE
    BY <1>1, OracleAssumption DEF ProviderRows
  <2>2. providers' = [providers EXCEPT ![p] = row] /\ providerOrder' = Append(providerOrder, p)
        /\ UNCHANGED <<hostVars, oracleReady, prices>>
    BY <1>6 DEF RegisterProvider
  <2> HIDE DEF row
  <2>3. providers' \in [Accounts -> ProviderRows] /\ providers'[p] = row
        /\ \A q \in Accounts : q # p => providers'[q] = providers[q]
    BY <1>1, <2>1, <2>2
  <2>4. \A q \in Accounts : providers'[q].heartbeat <= now
    <3>1. now <= now
      BY <1>1
    <3>2. \A q \in Accounts : providers[q].heartbeat <= now
      BY DEF OracleSound
    <3> QED
      BY <2>1, <2>3, <3>1, <3>2
  <2>5. providerOrder' \in Seq(Accounts) /\ \A q : Registered(q) => Registered(q)'
    BY <1>1, <2>2, AppendedProvider DEF Registered
  <2>6. \A q \in Accounts : providers'[q].authorized => Registered(q)'
    BY <2>1, <2>3, <2>5 DEF OracleSound
  <2> QED
    BY <2>2, <2>3, <2>4, <2>5, <2>6 DEF OracleSound, hostVars, HostTypeOK
<1>7. ASSUME NEW p \in Accounts, Heartbeat(p)
      PROVE  OracleSound'
  <2> DEFINE row == [providers[p] EXCEPT !.heartbeat = now]
  <2>1. row \in ProviderRows /\ row.heartbeat = now
    BY <1>1 DEF ProviderRows
  <2>2. providers' = [providers EXCEPT ![p] = row] /\ Registered(p)
        /\ UNCHANGED <<hostVars, oracleReady, providerOrder, prices>>
    BY <1>7 DEF Heartbeat
  <2> HIDE DEF row
  <2>3. providers' \in [Accounts -> ProviderRows] /\ providers'[p] = row
        /\ \A q \in Accounts : q # p => providers'[q] = providers[q]
    BY <1>1, <2>1, <2>2
  <2>4. \A q \in Accounts : providers'[q].heartbeat <= now
    BY <1>1, <2>1, <2>3 DEF OracleSound
  <2>5. \A q \in Accounts : providers'[q].authorized => Registered(q)
    BY <2>2, <2>3 DEF OracleSound
  <2> QED
    BY <2>2, <2>3, <2>4, <2>5 DEF OracleSound, Registered, hostVars, HostTypeOK
<1>8. ASSUME NEW p \in Accounts, NEW data \in Prices, SubmitPrice(p, data)
      PROVE  OracleSound'
  <2> DEFINE row == [stored |-> TRUE, price |-> data.price, decimals |-> data.decimals, timestamp |-> now]
  <2>1. row.price \in Nat /\ row.timestamp \in 0..now
    BY <1>1, <1>8, OracleAssumption DEF SubmitPrice
  <2>2. prices' = [prices EXCEPT ![p] = row] /\ UNCHANGED <<hostVars, oracleReady, providerOrder, providers>>
    BY <1>8 DEF SubmitPrice
  <2> HIDE DEF row
  <2>3. DOMAIN prices' = Accounts /\ prices'[p] = row /\ \A q \in Accounts : q # p => prices'[q] = prices[q]
    BY <2>2 DEF OracleSound
  <2>4. \A q \in Accounts : prices'[q].timestamp \in 0..now /\ prices'[q].price \in Nat
    BY <2>1, <2>3 DEF OracleSound
  <2> QED
    BY <2>2, <2>3, <2>4 DEF OracleSound, Registered, hostVars, HostTypeOK
<1> QED
  BY <1>2, <1>3, <1>4, <1>5, <1>6, <1>7, <1>8 DEF OracleNext, AuthorizeProvider, RevokeProvider

LEMMA OracleIsSound == OracleSpec => []OracleSound
<1>1. OracleSound /\ [OracleNext]_oracleVars => OracleSound'
  BY OracleStep
<1> QED
  BY <1>1, OracleBegin, PTL DEF OracleSpec

\* The places that count are few, and their providers trusted.
LEMMA CountedFacts ==
  ASSUME OracleSound
  PROVE  /\ IsFiniteSet(Counted) /\ Counted \subseteq Nat
         /\ \A i \in Counted :
              /\ i \in DOMAIN providerOrder /\ providerOrder[i] \in Accounts
              /\ providers[providerOrder[i]].authorized /\ IsActive(providerOrder[i])
              /\ FreshPrice(providerOrder[i])
              /\ PriceOf(i).timestamp \in 0..now /\ PriceOf(i).price \in Nat
         /\ \A p \in Accounts : providers[p].authorized /\ IsActive(p) /\ FreshPrice(p) =>
              \E i \in Counted : providerOrder[i] = p
         /\ now \in Nat
<1>1. /\ IsFiniteSet(DOMAIN providerOrder) /\ DOMAIN providerOrder \subseteq Nat /\ now \in Nat
      /\ \A i \in DOMAIN providerOrder : providerOrder[i] \in Accounts
  BY SeqFacts DEF OracleSound, HostTypeOK
<1>2. Counted \subseteq DOMAIN providerOrder
  BY DEF Counted
<1>3. IsFiniteSet(Counted)
  BY <1>1, <1>2, FS_Subset
<1>4. ASSUME NEW i \in Counted
      PROVE  /\ i \in DOMAIN providerOrder /\ providerOrder[i] \in Accounts
             /\ providers[providerOrder[i]].authorized /\ IsActive(providerOrder[i])
             /\ FreshPrice(providerOrder[i])
             /\ PriceOf(i).timestamp \in 0..now /\ PriceOf(i).price \in Nat
  <2>1. i \in DOMAIN providerOrder /\ ValidProvider(providerOrder[i]) /\ FreshPrice(providerOrder[i])
    BY DEF Counted
  <2>2. providerOrder[i] \in Accounts
    BY <1>1, <2>1
  <2> QED
    BY <2>1, <2>2 DEF OracleSound, PriceOf, ValidProvider
<1>5. ASSUME NEW p \in Accounts, providers[p].authorized, IsActive(p), FreshPrice(p)
      PROVE  \E i \in Counted : providerOrder[i] = p
  <2>1. PICK i \in DOMAIN providerOrder : providerOrder[i] = p
    BY <1>5 DEF OracleSound, Registered
  <2> QED
    BY <1>5, <2>1 DEF Counted, ValidProvider, Registered
<1> QED
  BY <1>1, <1>2, <1>3, <1>4, <1>5

\* Of the prices that count, exactly one is the newest and first.
LEMMA NewestIsOne ==
  ASSUME OracleSound, Counted # {}
  PROVE  \E i \in Counted : Newest = {i}
<1>1. /\ IsFiniteSet(Counted) /\ Counted \subseteq Nat /\ now \in Nat
      /\ \A i \in Counted : PriceOf(i).timestamp \in Nat /\ PriceOf(i).timestamp <= now
  <2>1. IsFiniteSet(Counted) /\ Counted \subseteq Nat /\ now \in Nat
        /\ \A i \in Counted : PriceOf(i).timestamp \in 0..now
    BY CountedFacts
  <2>2. \A x \in 0..now : x \in Nat /\ x <= now
    BY <2>1
  <2> QED
    BY <2>1, <2>2
<1> DEFINE Ages == {now - PriceOf(i).timestamp : i \in Counted}
<1>2. Ages \in SUBSET Nat /\ Ages # {}
  <2>1. \A i \in Counted : now - PriceOf(i).timestamp \in Nat
    BY <1>1
  <2> QED
    BY <2>1
<1>3. PICK age \in Ages : \A n \in Ages : age <= n
  <2> HIDE DEF Ages
  <2> QED
    BY <1>2, LeastNat
<1>4. PICK c \in Counted : age = now - PriceOf(c).timestamp
  BY <1>3
<1>5. \A i \in Counted : PriceOf(i).timestamp <= PriceOf(c).timestamp
  <2> SUFFICES ASSUME NEW i \in Counted PROVE PriceOf(i).timestamp <= PriceOf(c).timestamp
    OBVIOUS
  <2>1. now - PriceOf(c).timestamp <= now - PriceOf(i).timestamp
    BY <1>3, <1>4
  <2> QED
    BY <1>1, <2>1
<1> DEFINE Firsts == {i \in Counted : PriceOf(i).timestamp = PriceOf(c).timestamp}
<1>6. Firsts \in SUBSET Nat /\ Firsts # {}
  BY <1>1
<1>7. PICK f \in Firsts : \A n \in Firsts : f <= n
  <2> HIDE DEF Firsts
  <2> QED
    BY <1>6, LeastNat
<1>8. f \in Counted /\ f \in Nat /\ PriceOf(f).timestamp = PriceOf(c).timestamp
  BY <1>1, <1>7
<1>9. f \in Newest
  <2> SUFFICES ASSUME NEW j \in Counted
               PROVE  /\ PriceOf(j).timestamp <= PriceOf(f).timestamp
                      /\ j < f => PriceOf(j).timestamp < PriceOf(f).timestamp
    BY <1>8 DEF Newest
  <2>1. PriceOf(j).timestamp <= PriceOf(f).timestamp
    BY <1>5, <1>8
  <2>2. ASSUME j < f PROVE PriceOf(j).timestamp # PriceOf(c).timestamp
    <3>1. SUFFICES ASSUME PriceOf(j).timestamp = PriceOf(c).timestamp PROVE FALSE
      OBVIOUS
    <3>2. j \in Firsts /\ j \in Nat
      BY <1>1, <3>1
    <3>3. f <= j
      BY <1>7, <3>2
    <3> QED
      BY <1>8, <2>2, <3>2, <3>3
  <2>3. PriceOf(j).timestamp \in Nat /\ PriceOf(f).timestamp \in Nat
    BY <1>1, <1>8
  <2> QED
    BY <1>8, <2>1, <2>2, <2>3
<1>10. ASSUME NEW i \in Newest PROVE i = f
  <2>1. /\ i \in Counted /\ i \in Nat
        /\ PriceOf(f).timestamp <= PriceOf(i).timestamp /\ (f < i => PriceOf(f).timestamp < PriceOf(i).timestamp)
    BY <1>1, <1>8 DEF Newest
  <2>2. PriceOf(i).timestamp <= PriceOf(f).timestamp /\ (i < f => PriceOf(i).timestamp < PriceOf(f).timestamp)
    BY <1>9, <2>1 DEF Newest
  <2>3. PriceOf(i).timestamp \in Nat /\ PriceOf(f).timestamp \in Nat
    BY <1>1, <1>8, <2>1
  <2> QED
    BY <1>8, <2>1, <2>2, <2>3
<1> QED
  BY <1>8, <1>9, <1>10

\* The mean of the prices that count lies between two of them.
LEMMA MeanIsBetween ==
  ASSUME OracleSound, Counted # {}
  PROVE  /\ \E i \in Counted : PriceOf(i).price <= Aggregated.price
         /\ \E i \in Counted : PriceOf(i).price >= Aggregated.price
<1>1. PICK f : f = [i \in Counted |-> PriceOf(i).price]
  OBVIOUS
<1>2. PICK S, n, total, q : S = Counted /\ n = Cardinality(S) /\ total = SumFunctionOnSet(f, S) /\ q = total \div n
  OBVIOUS
<1>3. IsFiniteSet(S) /\ S # {} /\ \A i \in S : f[i] \in Nat /\ f[i] = PriceOf(i).price
  BY <1>1, <1>2, CountedFacts
<1>4. n \in Nat \ {0} /\ total \in Nat
  BY <1>2, <1>3, FS_CardinalityType, FS_EmptySet, SumNat
<1>5. q \in Nat /\ n * q <= total /\ total < n * (q + 1)
  <2>1. q \in Nat /\ n * q <= total
    <3>1. total \div n \in Nat /\ n * (total \div n) <= total
      BY <1>4, DivBound
    <3> QED
      BY <1>2, <3>1
  <2>2. PICK m : m = (q + 1) * n
    OBVIOUS
  <2>3. m \in Nat /\ m \div n = q + 1 /\ m = n * (q + 1)
    BY <1>4, <2>1, <2>2, DivWhole
  <2>4. m <= total => m \div n <= total \div n
    BY <1>4, <2>3, DivOrder
  <2> QED
    BY <1>2, <1>4, <2>1, <2>3, <2>4
<1>6. Aggregated.price = q
  BY <1>1, <1>2, <1>3 DEF Aggregated
<1>7. \E i \in S : f[i] <= q
  <2>1. SUFFICES ASSUME \A i \in S : ~(f[i] <= q) PROVE FALSE
    OBVIOUS
  <2>2. PICK m : m = q + 1
    OBVIOUS
  <2>3. m \in Int /\ \A i \in S : f[i] \in Int /\ m <= f[i]
    BY <1>3, <1>5, <2>1, <2>2
  <2>4. m * n <= total
    BY <1>2, <1>3, <2>3, SumAtLeast
  <2>5. m * n = n * (q + 1) /\ m * n \in Nat
    BY <1>4, <1>5, <2>2
  <2> QED
    BY <1>4, <1>5, <2>4, <2>5
<1>8. \E i \in S : f[i] >= q
  <2>1. SUFFICES ASSUME \A i \in S : ~(f[i] >= q) PROVE FALSE
    OBVIOUS
  <2>2. PICK m : m = q - 1
    OBVIOUS
  <2>3. m \in Int /\ \A i \in S : f[i] \in Int /\ f[i] <= m
    BY <1>3, <1>5, <2>1, <2>2
  <2>4. total <= m * n
    BY <1>2, <1>3, <2>3, SumAtMost
  <2>5. m * n = n * q - n /\ n * q \in Nat /\ m * n \in Int
    BY <1>4, <1>5, <2>2
  <2>6. PICK w : w = n * q
    OBVIOUS
  <2> QED
    BY <1>4, <1>5, <2>4, <2>5, <2>6
<1> QED
  BY <1>2, <1>3, <1>6, <1>7, <1>8

LEMMA OracleTyped ==
  ASSUME OracleSound
  PROVE  OracleTypeOK
<1>1. \A i \in DOMAIN providerOrder : providerOrder[i] \in Accounts
  BY SeqFacts DEF OracleSound
<1>2. \A p \in Accounts : providers[p].heartbeat \in 0..now /\ prices[p].timestamp \in 0..now
  BY DEF OracleSound, ProviderRows, HostTypeOK
<1> QED
  BY <1>1, <1>2 DEF OracleSound, OracleTypeOK

LEMMA AnswersHold ==
  ASSUME OracleSound
  PROVE  AnswersAreFresh
<1> DEFINE trusted == {p \in Accounts : providers[p].authorized /\ prices[p].stored
                         /\ now - prices[p].timestamp <= providers[p].staleness}
<1>1. \A i \in Counted : providerOrder[i] \in trusted /\ IsActive(providerOrder[i])
  BY CountedFacts DEF FreshPrice
<1>2. \A p \in trusted : IsActive(p) => \E i \in Counted : providerOrder[i] = p
  BY CountedFacts DEF FreshPrice
<1>3. GetPrice \subseteq trusted
  BY <1>1 DEF GetPrice, Newest
<1>4. ASSUME NEW p \in trusted, IsActive(p) PROVE Cardinality(GetPrice) = 1
  <2>1. PICK i \in Counted : Newest = {i}
    BY <1>2, <1>4, NewestIsOne
  <2>2. GetPrice = {providerOrder[i]}
    BY <2>1 DEF GetPrice
  <2> QED
    BY <2>2, FS_Singleton
<1>5. ASSUME NEW p \in trusted, NEW q \in GetPrice, IsActive(p)
      PROVE  prices[p].timestamp <= prices[q].timestamp
  <2>1. PICK i \in Newest : q = providerOrder[i]
    BY DEF GetPrice
  <2>2. PICK j \in Counted : providerOrder[j] = p
    BY <1>2, <1>5
  <2>3. PriceOf(j).timestamp <= PriceOf(i).timestamp
    BY DEF Newest
  <2> QED
    BY <2>1, <2>2, <2>3 DEF PriceOf
<1>6. ASSUME Aggregated.ok
      PROVE  /\ \E p \in trusted : prices[p].price <= Aggregated.price
             /\ \E p \in trusted : prices[p].price >= Aggregated.price
             /\ Cardinality({prices[p].decimals : p \in {q \in trusted : IsActive(q)}}) = 1
  <2>1. Counted # {} /\ \A i, j \in Counted : PriceOf(i).decimals = PriceOf(j).decimals
    BY <1>6 DEF Aggregated
  <2>2. /\ \E i \in Counted : PriceOf(i).price <= Aggregated.price
        /\ \E i \in Counted : PriceOf(i).price >= Aggregated.price
    BY <2>1, MeanIsBetween
  <2>3. PICK c \in Counted : TRUE
    BY <2>1
  <2> DEFINE Units == {prices[p].decimals : p \in {q \in trusted : IsActive(q)}}
  <2>4. Units = {PriceOf(c).decimals}
    <3>1. PriceOf(c).decimals \in Units
      BY <1>1 DEF PriceOf
    <3>2. ASSUME NEW p \in trusted, IsActive(p) PROVE prices[p].decimals = PriceOf(c).decimals
      <4>1. PICK j \in Counted : providerOrder[j] = p
        BY <1>2, <3>2
      <4>2. prices[p].decimals = PriceOf(j).decimals
        BY <4>1 DEF PriceOf
      <4> QED
        BY <2>1, <4>2
    <3> QED
      BY <3>1, <3>2
  <2>5. Cardinality(Units) = 1
    BY <2>4, FS_Singleton
  <2> HIDE DEF trusted
  <2> QED
    BY <1>1, <2>2, <2>5 DEF PriceOf
<1>7. /\ GetPrice \subseteq trusted
      /\ (\E p \in trusted : IsActive(p)) => Cardinality(GetPrice) = 1
      /\ \A p \in trusted, q \in GetPrice : IsActive(p) => prices[p].timestamp <= prices[q].timestamp
      /\ Aggregated.ok =>
           /\ \E p \in trusted : prices[p].price <= Aggregated.price
           /\ \E p \in trusted : prices[p].price >= Aggregated.price
           /\ Cardinality({prices[p].decimals : p \in {q \in trusted : IsActive(q)}}) = 1
  <2> HIDE DEF trusted
  <2> QED
    BY <1>3, <1>4, <1>5, <1>6
<1> QED
  BY <1>7, Zenon DEF AnswersAreFresh

\* An answer of the oracle is one of prices that a provider trusted at that
\* moment gave no longer ago than its staleness, the newest of them, there is
\* one as soon as such a provider is alive, and the mean lies between them, in
\* their one unit (oracle/src/lib.rs, get_price, get_aggregated_price).
THEOREM FreshAnswers == OracleSpec => [](OracleTypeOK /\ AnswersAreFresh)
<1>1. OracleSound => OracleTypeOK
  BY OracleTyped
<1>2. OracleSound => AnswersAreFresh
  BY AnswersHold
<1> QED
  BY <1>1, <1>2, OracleIsSound, PTL

\* Registering adds a provider that is not trusted yet, behind the others.
LEMMA OrderGrows ==
  ASSUME OracleSound, [OracleNext]_oracleVars
  PROVE  /\ DOMAIN providerOrder \subseteq DOMAIN providerOrder'
         /\ \A i \in DOMAIN providerOrder : providerOrder'[i] = providerOrder[i]
         /\ \A i \in DOMAIN providerOrder' : i \notin DOMAIN providerOrder =>
              ~providers'[providerOrder'[i]].authorized
<1>1. CASE providerOrder' = providerOrder
  BY <1>1
<1>2. ASSUME NEW a \in Accounts, NEW p \in Accounts, NEW s \in Staleness, RegisterProvider(a, p, s)
      PROVE  /\ DOMAIN providerOrder \subseteq DOMAIN providerOrder'
             /\ \A i \in DOMAIN providerOrder : providerOrder'[i] = providerOrder[i]
             /\ \A i \in DOMAIN providerOrder' : i \notin DOMAIN providerOrder =>
                  ~providers'[providerOrder'[i]].authorized
  <2>1. /\ providerOrder' = Append(providerOrder, p)
        /\ providers' = [providers EXCEPT ![p] = [authorized |-> FALSE, heartbeat |-> now, staleness |-> s]]
        /\ providers \in [Accounts -> ProviderRows] /\ providerOrder \in Seq(Accounts)
    BY <1>2 DEF RegisterProvider, OracleSound
  <2>2. ~providers'[p].authorized
    BY <2>1
  <2> QED
    BY <2>1, <2>2, AppendedProvider
<1>3. providerOrder' = providerOrder
        \/ \E a, p \in Accounts : \E s \in Staleness : RegisterProvider(a, p, s)
  BY DEF OracleNext, oracleVars, Tick, InitializeOracle, AuthorizeProvider, RevokeProvider, Authorize,
         Heartbeat, SubmitPrice
<1> QED
  BY <1>1, <1>2, <1>3

\* Only a trusted provider's calls store prices.
LEMMA PricesOfTrusted ==
  ASSUME OracleSound, [OracleNext]_oracleVars, NEW p \in Accounts, ~providers[p].authorized
  PROVE  prices'[p] = prices[p]
<1>1. ASSUME NEW q \in Accounts, NEW data \in Prices, SubmitPrice(q, data)
      PROVE  prices'[p] = prices[p]
  <2>1. q # p
    BY <1>1 DEF SubmitPrice, ValidProvider
  <2> QED
    BY <1>1, <2>1 DEF SubmitPrice, OracleSound
<1>2. prices' = prices \/ \E q \in Accounts : \E data \in Prices : SubmitPrice(q, data)
  BY DEF OracleNext, oracleVars, Tick, InitializeOracle, AuthorizeProvider, RevokeProvider, Authorize,
         Heartbeat, RegisterProvider
<1> QED
  BY <1>1, <1>2

\* What a step says of a provider that is not authorized.
Silent(p) ==
  ~providers[p].authorized =>
    /\ prices'[p] = prices[p]
    /\ now' = now /\ [providers EXCEPT ![p] = providers'[p]] = providers'
       /\ ~providers'[p].authorized /\ prices' = prices
         => GetPrice' = GetPrice /\ Aggregated' = Aggregated

LEMMA RevokedSilent ==
  ASSUME OracleSound, [OracleNext]_oracleVars, NEW who \in Accounts
  PROVE  Silent(who)
<1>1. ASSUME OracleSound, [OracleNext]_oracleVars, NEW p \in Accounts, ~providers[p].authorized,
             now' = now, [providers EXCEPT ![p] = providers'[p]] = providers',
             ~providers'[p].authorized, prices' = prices
      PROVE  GetPrice' = GetPrice /\ Aggregated' = Aggregated
  <2>1. /\ DOMAIN providerOrder \subseteq DOMAIN providerOrder'
        /\ \A i \in DOMAIN providerOrder : providerOrder'[i] = providerOrder[i]
        /\ \A i \in DOMAIN providerOrder' : i \notin DOMAIN providerOrder =>
             ~providers'[providerOrder'[i]].authorized
    BY <1>1, OrderGrows
  <2>2. \A q \in Accounts : q # p => providers'[q] = providers[q]
    BY <1>1 DEF OracleSound
  <2>3. \A i \in DOMAIN providerOrder : providerOrder[i] \in Accounts
    BY <1>1, SeqFacts DEF OracleSound
  <2>4. ASSUME NEW i \in DOMAIN providerOrder
        PROVE  i \in Counted' <=> i \in Counted
    <3>1. PICK q : q = providerOrder[i] /\ q = providerOrder'[i]
      BY <2>1
    <3>2. q \in Accounts /\ i \in DOMAIN providerOrder'
      BY <2>1, <2>3, <3>1
    <3>3. Registered(q) /\ Registered(q)'
      BY <3>1, <3>2 DEF Registered
    <3>4. i \in Counted <=> providers[q].authorized /\ IsActive(q) /\ FreshPrice(q)
      BY <3>1, <3>3 DEF Counted, ValidProvider
    <3>5. i \in Counted' <=> providers'[q].authorized /\ IsActive(q)' /\ FreshPrice(q)'
      BY <3>1, <3>2, <3>3 DEF Counted, ValidProvider
    <3>6. CASE q = p
      BY <1>1, <3>4, <3>5, <3>6
    <3>7. CASE q # p
      <4>1. providers'[q] = providers[q]
        BY <2>2, <3>2, <3>7
      <4> QED
        BY <1>1, <3>4, <3>5, <4>1 DEF IsActive, FreshPrice
    <3> QED
      BY <3>6, <3>7
  <2>5. Counted' = Counted
    <3>1. Counted \subseteq DOMAIN providerOrder
      BY DEF Counted
    <3>2. Counted' \subseteq DOMAIN providerOrder
      <4>1. \A i \in Counted' : i \in DOMAIN providerOrder' /\ providers'[providerOrder'[i]].authorized
        BY DEF Counted, ValidProvider
      <4> QED
        BY <2>1, <4>1
    <3> QED
      BY <2>4, <3>1, <3>2
  <2>6. \A i \in Counted : i \in DOMAIN providerOrder /\ providerOrder'[i] = providerOrder[i]
    BY <2>1 DEF Counted
  <2>7. \A i \in Counted : PriceOf(i)' = PriceOf(i)
    BY <1>1, <2>6 DEF PriceOf
  <2>8. Newest' = Newest
    BY <2>5, <2>7 DEF Newest
  <2>9. GetPrice' = GetPrice
    <3>1. Newest \subseteq Counted
      BY DEF Newest
    <3> QED
      BY <2>6, <2>8, <3>1 DEF GetPrice
  <2>10. [i \in Counted |-> PriceOf(i).price]' = [i \in Counted |-> PriceOf(i).price]
    BY <2>5, <2>7
  <2>11. (\A i, j \in Counted : PriceOf(i).decimals = PriceOf(j).decimals)'
           <=> (\A i, j \in Counted : PriceOf(i).decimals = PriceOf(j).decimals)
    BY <2>5, <2>7
  <2>12. Aggregated' = Aggregated
    BY <2>5, <2>10, <2>11, Zenon DEF Aggregated
  <2> QED
    BY <2>9, <2>12
<1> QED
  BY <1>1, PricesOfTrusted DEF Silent

\* A revocation silences a provider at once: no price of it is stored any more
\* and, while the clock stands still, no answer changes by anything it does,
\* its heartbeats and the prices it stored before included (validate_provider).
THEOREM RevokedStaySilent == OracleSpec => RevokedIsSilent
<1>1. OracleSound /\ [OracleNext]_oracleVars =>
        [\A p \in Accounts : ~providers[p].authorized =>
           /\ prices'[p] = prices[p]
           /\ now' = now /\ [providers EXCEPT ![p] = providers'[p]] = providers'
              /\ ~providers'[p].authorized /\ prices' = prices
                => GetPrice' = GetPrice /\ Aggregated' = Aggregated]_oracleVars
  BY RevokedSilent, Zenon DEF Silent
<1> QED
  BY <1>1, OracleIsSound, PTL DEF OracleSpec, RevokedIsSilent
===============================================================================
