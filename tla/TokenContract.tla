--------------------------- MODULE TokenContract ---------------------------
(***************************************************************************)
(* The tokenised asset (contracts/token/src/lib.rs under                   *)
(* src/apps/contracts): balances, a total supply and allowances that       *)
(* expire at a ledger.                                                     *)
(***************************************************************************)
EXTENDS Soroban, FiniteSetsExt

CONSTANTS
  TokenAmounts,      \* amounts minted, moved and approved
  InitialSupply,     \* total_supply that initialize is called with
  Issuer,            \* the address that initialize is called with
  Expirations,       \* expiration_ledger of approvals; 0 never expires
  MaxSupply          \* bound: what is minted

\* Every call refuses an amount that is not positive; an approval may be of 0.
ASSUME TokenAssumption ==
  /\ TokenAmounts \subseteq Nat \ {0} /\ InitialSupply \in Nat /\ Issuer \in Accounts
  /\ Expirations \subseteq Nat

VARIABLES
  tokenReady,        \* Admin is stored
  supply,            \* TotalSupply
  held,              \* Balance(address)
  allowance,         \* Allowance(owner, spender): amount 0 when there is none
  drawn              \* history: what was granted to a spender last, and drawn since

tokenVars == <<hostVars, tokenReady, supply, held, allowance, drawn>>

NoAllowance == [amount |-> 0, expires |-> 0]

InitializeToken ==
  /\ ~tokenReady
  /\ tokenReady' = TRUE
  /\ supply' = InitialSupply
  /\ held' = [held EXCEPT ![Issuer] = InitialSupply]
  /\ UNCHANGED <<hostVars, allowance, drawn>>

Mint(caller, to, amount) ==
  /\ tokenReady /\ caller = Issuer
  /\ supply + amount <= MaxSupply
  /\ held' = [held EXCEPT ![to] = @ + amount]
  /\ supply' = supply + amount
  /\ UNCHANGED <<hostVars, tokenReady, allowance, drawn>>

\* burn by the holder, burn_from by the issuer.
Burn(caller, from, amount) ==
  /\ caller = from \/ (tokenReady /\ caller = Issuer)
  /\ held[from] >= amount
  /\ held' = [held EXCEPT ![from] = @ - amount]
  /\ supply' = supply - amount
  /\ UNCHANGED <<hostVars, tokenReady, allowance, drawn>>

\* The sender's balance is stored before the receiver's is read.
MoveTokens(from, to, amount) ==
  /\ held[from] >= amount
  /\ held' = [[held EXCEPT ![from] = @ - amount] EXCEPT ![to] = @ + amount]

TransferTokens(from, to, amount) ==
  /\ MoveTokens(from, to, amount)
  /\ UNCHANGED <<hostVars, tokenReady, supply, allowance, drawn>>

ApproveSpender(owner, spender, amount, expires) ==
  /\ allowance' = [allowance EXCEPT ![owner][spender] =
       IF amount = 0 THEN NoAllowance ELSE [amount |-> amount, expires |-> expires]]
  /\ drawn' = [drawn EXCEPT ![owner][spender] = [granted |-> amount, used |-> 0]]
  /\ UNCHANGED <<hostVars, tokenReady, supply, held>>

Expired(a) == a.expires > 0 /\ now >= a.expires

Deducted(a, amount) == IF a.amount = amount THEN NoAllowance ELSE [a EXCEPT !.amount = @ - amount]

TransferFrom(spender, from, to, amount) ==
  LET a == allowance[from][spender] IN
  /\ ~Expired(a) /\ a.amount >= amount
  /\ allowance' = [allowance EXCEPT ![from][spender] = Deducted(a, amount)]
  /\ drawn' = [drawn EXCEPT ![from][spender].used = @ + amount]
  /\ MoveTokens(from, to, amount)
  /\ UNCHANGED <<hostVars, tokenReady, supply>>

TokenStart ==
  /\ tokenReady = FALSE /\ supply = 0
  /\ held = [a \in Accounts |-> 0]
  /\ allowance = [a \in Accounts |-> [b \in Accounts |-> NoAllowance]]
  /\ drawn = [a \in Accounts |-> [b \in Accounts |-> [granted |-> 0, used |-> 0]]]

TokenInit == HostInit /\ TokenStart

TokenNext ==
  \/ Tick /\ UNCHANGED <<tokenReady, supply, held, allowance, drawn>>
  \/ InitializeToken
  \/ \E a, b \in Accounts, amount \in TokenAmounts :
       \/ Mint(a, b, amount) \/ Burn(a, b, amount) \/ TransferTokens(a, b, amount)
       \/ \E c \in Accounts : TransferFrom(a, b, c, amount)
  \/ \E a \in Accounts, amount \in TokenAmounts \cup {0}, e \in Expirations :
       \E b \in Accounts \ {a} : ApproveSpender(a, b, amount, e)

TokenSpec == TokenInit /\ [][TokenNext]_tokenVars

-----------------------------------------------------------------------------
(* Properties. *)

TokenTypeOK ==
  /\ HostTypeOK
  /\ tokenReady \in BOOLEAN
  /\ held \in [Accounts -> Nat]
  /\ \A a, b \in Accounts : allowance[a][b].amount \in Nat

\* The total supply is what the holders hold, transfers to oneself included.
SupplyIsHeld == supply = SumFunctionOnSet(held, Accounts)

\* However many transfers a spender makes, together they move no more than the
\* owner granted last, and what is left of the grant is the allowance.
GrantNotExceeded ==
  \A a, b \in Accounts :
    drawn[a][b].granted = drawn[a][b].used + allowance[a][b].amount
=============================================================================
