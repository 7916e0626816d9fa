------------------------------- MODULE Oracle -------------------------------
(***************************************************************************)
(* The price oracle (contracts/oracle/src/lib.rs under src/apps/contracts):*)
(* providers, registered and authorised by an admin, submit prices of a    *)
(* pair; a price is answered from those that are alive and fresh.  One     *)
(* pair of assets, in canonical order, stands for all of them.             *)
(***************************************************************************)
EXTENDS Soroban, Sequences, FiniteSetsExt

CONSTANTS
  Staleness,         \* max_staleness_seconds of registrations
  Prices,            \* prices submitted: [price, decimals]
  OracleAdmin

ASSUME OracleAssumption ==
  /\ Staleness \subseteq Nat
  /\ \A data \in Prices : data.price \in Int

VARIABLES
  oracleReady,       \* Admin is stored
  providerOrder,     \* Providers, in the order of registration
  providers,         \* Provider(address): [authorized, heartbeat, staleness]
  prices             \* Price(pair, provider): [stored, price, decimals, timestamp]

oracleVars == <<hostVars, oracleReady, providerOrder, providers, prices>>

Registered(p) == \E i \in DOMAIN providerOrder : providerOrder[i] = p

\* is_active
IsActive(p) == now - providers[p].heartbeat <= providers[p].staleness

\* validate_provider
ValidProvider(p) == Registered(p) /\ providers[p].authorized /\ IsActive(p)

\* Mutant: how old the price is does not matter.
AnyPrice(p) == prices[p].stored

\* ensure_fresh
FreshPrice(p) == prices[p].stored /\ now - prices[p].timestamp <= providers[p].staleness

\* The places, in the order providers are read, of those whose price counts now.
Counted == {i \in DOMAIN providerOrder : ValidProvider(providerOrder[i]) /\ FreshPrice(providerOrder[i])}

PriceOf(i) == prices[providerOrder[i]]

\* get_price: the newest; of several, the provider registered first.
Newest ==
  {i \in Counted : \A j \in Counted :
     /\ PriceOf(j).timestamp <= PriceOf(i).timestamp
     /\ j < i => PriceOf(j).timestamp < PriceOf(i).timestamp}

\* The provider whose price is answered, none for PriceNotFound.
GetPrice == {providerOrder[i] : i \in Newest}

\* get_aggregated_price: the mean, if the decimals agree.
Aggregated ==
  LET agree == \A i, j \in Counted : PriceOf(i).decimals = PriceOf(j).decimals
      total == SumFunctionOnSet([i \in Counted |-> PriceOf(i).price], Counted) IN
  [ok |-> Counted # {} /\ agree,
   price |-> IF Counted = {} THEN 0 ELSE total \div Cardinality(Counted)]

InitializeOracle ==
  /\ ~oracleReady
  /\ oracleReady' = TRUE
  /\ UNCHANGED <<hostVars, providerOrder, providers, prices>>

RegisterProvider(caller, p, staleness) ==
  /\ oracleReady /\ caller = OracleAdmin
  /\ ~Registered(p)
  /\ providerOrder' = Append(providerOrder, p)
  /\ providers' = [providers EXCEPT ![p] =
       [authorized |-> FALSE, heartbeat |-> now, staleness |-> staleness]]
  /\ UNCHANGED <<hostVars, oracleReady, prices>>

Authorize(caller, p, authorized) ==
  /\ caller = OracleAdmin
  /\ Registered(p)
  /\ providers' = [providers EXCEPT ![p].authorized = authorized]
  /\ UNCHANGED <<hostVars, oracleReady, providerOrder, prices>>

\* authorize_provider and revoke_provider; neither touches stored prices.
AuthorizeProvider(caller, p) == Authorize(caller, p, TRUE)
RevokeProvider(caller, p) == Authorize(caller, p, FALSE)

SubmitPrice(p, data) ==
  /\ ValidProvider(p)
  /\ data.price > 0
  /\ prices' = [prices EXCEPT ![p] =
       [stored |-> TRUE, price |-> data.price, decimals |-> data.decimals, timestamp |-> now]]
  /\ UNCHANGED <<hostVars, oracleReady, providerOrder, providers>>

\* Accepted of a revoked provider too.
Heartbeat(p) ==
  /\ Registered(p)
  /\ providers' = [providers EXCEPT ![p].heartbeat = now]
  /\ UNCHANGED <<hostVars, oracleReady, providerOrder, prices>>

OracleStart ==
  /\ oracleReady = FALSE
  /\ providerOrder = <<>>
  /\ providers = [p \in Accounts |-> [authorized |-> FALSE, heartbeat |-> 0, staleness |-> 0]]
  /\ prices = [p \in Accounts |-> [stored |-> FALSE, price |-> 0, decimals |-> 0, timestamp |-> 0]]

OracleInit == HostInit /\ OracleStart

OracleNext ==
  \/ Tick /\ UNCHANGED <<oracleReady, providerOrder, providers, prices>>
  \/ InitializeOracle
  \/ \E a, p \in Accounts :
       \/ AuthorizeProvider(a, p) \/ RevokeProvider(a, p)
       \/ \E s \in Staleness : RegisterProvider(a, p, s)
  \/ \E p \in Accounts : Heartbeat(p) \/ (\E data \in Prices : SubmitPrice(p, data))

OracleSpec == OracleInit /\ [][OracleNext]_oracleVars

-----------------------------------------------------------------------------
(* Properties. *)

OracleTypeOK ==
  /\ HostTypeOK
  /\ oracleReady \in BOOLEAN
  /\ \A i \in DOMAIN providerOrder : providerOrder[i] \in Accounts
  /\ \A p \in Accounts : providers[p].heartbeat \in 0..now /\ prices[p].timestamp \in 0..now

\* An answer is one of prices that a provider trusted now gave no longer ago than
\* its staleness, there is one as soon as such a provider is alive, and the mean
\* lies between them, in their unit.
AnswersAreFresh ==
  LET trusted == {p \in Accounts : providers[p].authorized /\ prices[p].stored
                    /\ now - prices[p].timestamp <= providers[p].staleness} IN
  /\ GetPrice \subseteq trusted
  /\ (\E p \in trusted : IsActive(p)) => Cardinality(GetPrice) = 1
  /\ \A p \in trusted, q \in GetPrice : IsActive(p) => prices[p].timestamp <= prices[q].timestamp
  /\ Aggregated.ok =>
       /\ \E p \in trusted : prices[p].price <= Aggregated.price
       /\ \E p \in trusted : prices[p].price >= Aggregated.price
       /\ Cardinality({prices[p].decimals : p \in {q \in trusted : IsActive(q)}}) = 1

\* A revocation silences a provider at once: no price of it is stored and, while
\* the clock stands still, no answer changes by anything it does.
RevokedIsSilent ==
  [][\A p \in Accounts : ~providers[p].authorized =>
       /\ prices'[p] = prices[p]
       /\ now' = now /\ [providers EXCEPT ![p] = providers'[p]] = providers'
          /\ ~providers'[p].authorized /\ prices' = prices
            => GetPrice' = GetPrice /\ Aggregated' = Aggregated]_oracleVars
=============================================================================
