------------------------------- MODULE FxSwap -------------------------------
(***************************************************************************)
(* The swap pools (contracts/fx-swap/src/lib.rs under src/apps/contracts): *)
(* one constant-product pool for every pair of assets, all of them paid    *)
(* out of the one balance the contract has of an asset.                    *)
(***************************************************************************)
EXTENDS Soroban, Sequences, FiniteSetsExt

CONSTANTS
  SwapAt,           \* the address of the contract
  AssetOrder,          \* a sequence of the assets, in the order of their addresses
  SwapAmounts,         \* amounts deposited, redeemed and swapped
  MINIMUM_LIQUIDITY,   \* 1000 in the code
  FEE_BPS,             \* 30 in the code
  FEE_DENOMINATOR,     \* 10 000 in the code
  MaxReserve           \* bound: what a reserve may reach

ASSUME FxSwapAssumption ==
  /\ MINIMUM_LIQUIDITY \in Nat \ {0}
  /\ FEE_DENOMINATOR \in Nat \ {0} /\ FEE_BPS \in 0..FEE_DENOMINATOR
  /\ SwapAt \in Contracts /\ SwapAmounts \subseteq Nat
  /\ AssetOrder \in Seq(Assets)
  /\ \A i, j \in DOMAIN AssetOrder : AssetOrder[i] = AssetOrder[j] => i = j

VARIABLES
  swapReady,           \* Admin is stored
  pools,               \* Pool of a canonical pair
  lpBalance            \* LpBalance(pool, provider); the contract's own is locked

swapVars == <<hostVars, swapReady, pools, lpBalance>>

\* canonical_pair
Pairs == {<<AssetOrder[i], AssetOrder[j]>> : i, j \in DOMAIN AssetOrder}
Canonical == {p \in Pairs : \E i, j \in DOMAIN AssetOrder :
                              i < j /\ p = <<AssetOrder[i], AssetOrder[j]>>}

Providers == Accounts \cup {SwapAt}

NoPool == [exists |-> FALSE, reserve |-> <<0, 0>>, lpSupply |-> 0]

\* sqrt, by Newton's iteration from the value itself.
Sqrt(v) ==
  LET newton[x \in 1..v] == LET y == (x + v \div x) \div 2 IN IF y < x THEN newton[y] ELSE x
  IN IF v <= 0 THEN 0 ELSE newton[v]

\* compute_amount_out
AmountOut(amountIn, reserveIn, reserveOut) ==
  LET withFee == amountIn * (FEE_DENOMINATOR - FEE_BPS) IN
  (reserveOut * withFee) \div (reserveIn * FEE_DENOMINATOR + withFee)

\* Two transfers of one call.
TransferBoth(pair, from, to, amounts) ==
  /\ \A i \in {1, 2} : amounts[i] >= 0 /\ amounts[i] <= balance[pair[i]][from]
  /\ balance' = [balance EXCEPT ![pair[1]] = Moved(@, from, to, amounts[1]),
                                ![pair[2]] = Moved(@, from, to, amounts[2])]

InitializeSwap ==
  /\ ~swapReady
  /\ swapReady' = TRUE
  /\ UNCHANGED <<hostVars, pools, lpBalance>>

\* set_liquidity_pools, by the admin.
CreatePool(pair) ==
  /\ swapReady
  /\ ~pools[pair].exists
  /\ pools' = [pools EXCEPT ![pair].exists = TRUE]
  /\ UNCHANGED <<hostVars, swapReady, lpBalance>>

\* The tokens a deposit is worth: the smaller of its two shares.
Shares(pool, amounts) ==
  LET share(i) == (amounts[i] * pool.lpSupply) \div pool.reserve[i] IN
  IF share(1) < share(2) THEN share(1) ELSE share(2)

AddLiquidity(lp, pair, amounts) ==
  LET pool == pools[pair]
      root == Sqrt(amounts[1] * amounts[2])
      first == pool.lpSupply = 0
      tokens == IF first THEN root - MINIMUM_LIQUIDITY ELSE Shares(pool, amounts)
      locked == IF first THEN MINIMUM_LIQUIDITY ELSE 0 IN
  /\ pool.exists
  /\ \A i \in {1, 2} : amounts[i] > 0 /\ pool.reserve[i] + amounts[i] <= MaxReserve
  /\ IF first THEN tokens >= 0 ELSE tokens > 0
  /\ TransferBoth(pair, lp, SwapAt, amounts)
  /\ pools' = [pools EXCEPT ![pair].lpSupply = @ + tokens + locked,
                            ![pair].reserve = <<@[1] + amounts[1], @[2] + amounts[2]>>]
  /\ lpBalance' = [lpBalance EXCEPT ![pair][lp] = @ + tokens, ![pair][SwapAt] = @ + locked]
  /\ UNCHANGED <<now, swapReady>>

\* Mutant: the payout is rounded up.
RedeemedUp(reserve, tokens, lpSupply) == (reserve * tokens + lpSupply - 1) \div lpSupply

Redeemed(reserve, tokens, lpSupply) == (reserve * tokens) \div lpSupply

RemoveLiquidity(lp, pair, tokens) ==
  LET pool == pools[pair]
      out(i) == Redeemed(pool.reserve[i], tokens, pool.lpSupply) IN
  /\ pool.exists
  /\ tokens > 0 /\ tokens <= lpBalance[pair][lp]
  /\ TransferBoth(pair, SwapAt, lp, <<out(1), out(2)>>)
  /\ pools' = [pools EXCEPT ![pair].lpSupply = @ - tokens,
                            ![pair].reserve = <<@[1] - out(1), @[2] - out(2)>>]
  /\ lpBalance' = [lpBalance EXCEPT ![pair][lp] = @ - tokens]
  /\ UNCHANGED <<now, swapReady>>

\* The reserves after a swap that takes in asset i of the pair.
Swapped(reserve, i, amountIn, amountOut) ==
  [reserve EXCEPT ![i] = @ + amountIn, ![3 - i] = @ - amountOut]

\* The smallest amount the user accepts only decides whether the call returns.
SwapAssets(user, pair, i, amountIn) ==
  LET reserve == pools[pair].reserve
      amountOut == AmountOut(amountIn, reserve[i], reserve[3 - i]) IN
  /\ pools[pair].exists
  /\ amountIn > 0 /\ reserve[i] + amountIn <= MaxReserve
  /\ reserve[1] > 0 /\ reserve[2] > 0
  /\ amountIn <= balance[pair[i]][user] /\ amountOut <= balance[pair[3 - i]][SwapAt]
  /\ balance' = [balance EXCEPT ![pair[i]] = Moved(@, user, SwapAt, amountIn),
                                ![pair[3 - i]] = Moved(@, SwapAt, user, amountOut)]
  /\ pools' = [pools EXCEPT ![pair].reserve = Swapped(@, i, amountIn, amountOut)]
  /\ UNCHANGED <<now, swapReady, lpBalance>>

SwapStart ==
  /\ swapReady = FALSE
  /\ pools = [pair \in Canonical |-> NoPool]
  /\ lpBalance = [pair \in Canonical |-> [a \in Providers |-> 0]]

SwapInit == HostInit /\ SwapStart

SwapNext ==
  \/ InitializeSwap
  \/ \E pair \in Canonical :
       \/ CreatePool(pair)
       \/ \E a \in Accounts, amount \in SwapAmounts :
            \/ RemoveLiquidity(a, pair, amount)
            \/ \E other \in SwapAmounts : AddLiquidity(a, pair, <<amount, other>>)
            \/ \E i \in {1, 2} : SwapAssets(a, pair, i, amount)

SwapSpec == SwapInit /\ [][SwapNext]_swapVars

-----------------------------------------------------------------------------
(* Properties. *)

SwapTypeOK ==
  /\ HostTypeOK
  /\ swapReady \in BOOLEAN
  /\ \A pair \in Canonical : pools[pair].lpSupply \in Nat
  /\ lpBalance \in [Canonical -> [Providers -> Nat]]

\* What the contract holds of an asset is the sum of the reserves of the pools
\* that trade it.
ReservesAreHeld ==
  \A t \in Assets :
    balance[t][SwapAt] =
      SumFunctionOnSet([p \in Canonical \X {1, 2} |-> pools[p[1]].reserve[p[2]]],
                       {p \in Canonical \X {1, 2} : p[1][p[2]] = t})

\* Liquidity tokens are issued for what is deposited, and the locked minimum
\* keeps a pool that was funded from being emptied.
LiquidityAddsUp ==
  \A pair \in Canonical :
    LET pool == pools[pair] IN
    /\ pool.lpSupply = SumFunctionOnSet(lpBalance[pair], Providers)
    /\ pool.lpSupply > 0 => pool.lpSupply >= MINIMUM_LIQUIDITY /\ pool.reserve[1] * pool.reserve[2] > 0

\* The share of the pool that a liquidity token stands for never shrinks,
\* measured by the product of the reserves: neither rounding nor the order of
\* deposits, redemptions and swaps takes from those who stay.
ShareKeepsItsWorth ==
  [][\A pair \in Canonical :
       LET p == pools[pair]
           q == pools'[pair] IN
       p.lpSupply > 0 =>
         q.reserve[1] * q.reserve[2] * p.lpSupply * p.lpSupply
           >= p.reserve[1] * p.reserve[2] * q.lpSupply * q.lpSupply]_swapVars
=============================================================================
