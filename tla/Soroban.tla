------------------------------ MODULE Soroban ------------------------------
(***************************************************************************)
(* What the contracts under src/apps/contracts rely on of the Soroban host *)
(* (external): a transaction is one atomic step that either does all of    *)
(* its writes or none, the ledger has a time that never goes back, an      *)
(* address that a contract asks to authorise did so, and assets are held   *)
(* by a token contract that refuses to overdraw.                           *)
(*                                                                         *)
(* A caller whose arguments a contract refuses leaves no trace, so every   *)
(* action of the contract modules is a call that returns without an error. *)
(***************************************************************************)
EXTENDS Integers, FiniteSets

CONSTANTS
  Accounts,    \* addresses of users
  Assets,      \* token contracts the contracts are used with
  Contracts,   \* addresses of deployed contracts
  Funds,       \* what every account holds of every asset at the start
  MaxTime      \* bound: the ledger's clock stops here

ASSUME SorobanAssumption ==
  /\ Accounts \cap Contracts = {} /\ IsFiniteSet(Accounts)
  /\ Funds \in Nat
  /\ MaxTime \in Nat

VARIABLES
  now,         \* env.ledger().timestamp(), or its sequence number
  balance      \* balance[asset][address], in the token contract of the asset

hostVars == <<now, balance>>

Addresses == Accounts \cup Contracts

FirstBalance ==
  [t \in Assets |-> [a \in Addresses |-> IF a \in Accounts THEN Funds ELSE 0]]

HostInit == now = 0 /\ balance = FirstBalance

\* The balances of one asset after a transfer.
Moved(held, from, to, amount) ==
  [a \in Addresses |->
     held[a] - (IF a = from THEN amount ELSE 0) + (IF a = to THEN amount ELSE 0)]

\* TokenClient::transfer.  It panics, and the call with it, on an overdraft.
Transfer(asset, from, to, amount) ==
  /\ amount >= 0
  /\ amount <= balance[asset][from]
  /\ balance' = [balance EXCEPT ![asset] = Moved(@, from, to, amount)]

\* Ledgers close.
Tick ==
  /\ now < MaxTime
  /\ now' = now + 1
  /\ UNCHANGED balance

HostTypeOK ==
  /\ now \in 0..MaxTime
  /\ balance \in [Assets -> [Addresses -> Nat]]
=============================================================================
