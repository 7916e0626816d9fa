------------------------------ MODULE Multisig ------------------------------
(***************************************************************************)
(* The N-of-M wallet (src/apps/contracts/contracts/multisig/src/lib.rs):   *)
(* signers propose transfers out of the contract's own balance, approve    *)
(* them, and anybody executes one that enough current signers approved.    *)
(***************************************************************************)
EXTENDS Soroban, Sequences

CONSTANTS
  MultisigAt,        \* the address of the contract
  MultisigAssets,    \* assets the wallet is used for
  MultisigAmounts,   \* amounts signers propose
  MaxTransactions    \* bound: transactions proposed

ASSUME MultisigAssumption ==
  MultisigAt \in Contracts /\ MultisigAssets \subseteq Assets /\ MultisigAmounts \subseteq Int

VARIABLES
  signers,           \* {} before initialize
  threshold,
  transactions       \* transactions[tx_id]

multisigVars == <<hostVars, signers, threshold, transactions>>

\* Enough current signers authorise the call together; other callers and
\* repeated ones do not count.
SignedByThreshold ==
  signers # {} /\ \E callers \in SUBSET signers : Cardinality(callers) >= threshold

InitializeMultisig(first, needed) ==
  /\ signers = {}
  /\ needed # 0 /\ needed <= Cardinality(first)
  /\ signers' = first /\ threshold' = needed
  /\ UNCHANGED <<hostVars, transactions>>

CreateTransaction(creator, destination, asset, amount) ==
  /\ Len(transactions) < MaxTransactions
  /\ creator \in signers
  /\ amount > 0
  /\ transactions' = Append(transactions,
       [destination |-> destination, asset |-> asset, amount |-> amount,
        approvals |-> {}, executed |-> FALSE])
  /\ UNCHANGED <<hostVars, signers, threshold>>

Approve(signer, id) ==
  /\ signer \in signers
  /\ ~transactions[id].executed
  /\ signer \notin transactions[id].approvals
  /\ transactions' = [transactions EXCEPT ![id].approvals = @ \cup {signer}]
  /\ UNCHANGED <<hostVars, signers, threshold>>

Approvals(id) == transactions[id].approvals \cap signers

\* Mutant: the approvals of removed signers still count.
ExecuteStale(id) ==
  /\ ~transactions[id].executed
  /\ signers # {} /\ Cardinality(transactions[id].approvals) >= threshold
  /\ transactions' = [transactions EXCEPT ![id].executed = TRUE]
  /\ Transfer(transactions[id].asset, MultisigAt, transactions[id].destination,
              transactions[id].amount)
  /\ UNCHANGED <<now, signers, threshold>>

Execute(id) ==
  /\ ~transactions[id].executed
  /\ signers # {} /\ Cardinality(Approvals(id)) >= threshold
  /\ transactions' = [transactions EXCEPT ![id].executed = TRUE]
  /\ Transfer(transactions[id].asset, MultisigAt, transactions[id].destination,
              transactions[id].amount)
  /\ UNCHANGED <<now, signers, threshold>>

AddSigner(signer) ==
  /\ SignedByThreshold
  /\ signer \notin signers
  /\ signers' = signers \cup {signer}
  /\ UNCHANGED <<hostVars, threshold, transactions>>

\* Mutant: the threshold is not looked at.
RemoveAnySigner(signer) ==
  /\ SignedByThreshold
  /\ signer \in signers
  /\ signers' = signers \ {signer}
  /\ UNCHANGED <<hostVars, threshold, transactions>>

RemoveSigner(signer) ==
  /\ SignedByThreshold
  /\ signer \in signers
  /\ Cardinality(signers) - 1 >= threshold
  /\ signers' = signers \ {signer}
  /\ UNCHANGED <<hostVars, threshold, transactions>>

ChangeThreshold(needed) ==
  /\ SignedByThreshold
  /\ needed # 0 /\ needed <= Cardinality(signers)
  /\ threshold' = needed
  /\ UNCHANGED <<hostVars, signers, transactions>>

\* Anybody funds the wallet with an ordinary transfer.
FundWallet(from, asset, amount) ==
  /\ Transfer(asset, from, MultisigAt, amount)
  /\ UNCHANGED <<now, signers, threshold, transactions>>

MultisigStart == signers = {} /\ threshold = 0 /\ transactions = <<>>
MultisigInit == HostInit /\ MultisigStart

MultisigNext ==
  \/ \E first \in SUBSET Accounts, needed \in 0..Cardinality(Accounts) :
       InitializeMultisig(first, needed)
  \/ \E needed \in 0..Cardinality(Accounts) : ChangeThreshold(needed)
  \/ \E a \in Accounts : AddSigner(a) \/ RemoveSigner(a)
  \/ \E a \in Accounts, asset \in MultisigAssets, amount \in MultisigAmounts :
       \/ FundWallet(a, asset, amount)
       \/ \E destination \in Accounts : CreateTransaction(a, destination, asset, amount)
  \/ \E id \in DOMAIN transactions :
       \/ Execute(id)
       \/ \E a \in Accounts : Approve(a, id)

MultisigSpec == MultisigInit /\ [][MultisigNext]_multisigVars

-----------------------------------------------------------------------------
(* Properties. *)

MultisigTypeOK ==
  /\ HostTypeOK
  /\ signers \subseteq Accounts
  /\ threshold \in 0..Cardinality(Accounts)
  /\ \A id \in DOMAIN transactions :
       /\ transactions[id].approvals \subseteq Accounts
       /\ transactions[id].executed \in BOOLEAN

\* However signers and threshold are changed, one after the other, the wallet
\* can still be used: its signers can reach its threshold, and nobody alone
\* can do without approvals.
ThresholdReachable ==
  signers # {} => threshold \in 1..Cardinality(signers)

\* Money leaves only for a transaction that is executed in that step, for the
\* first time, to its destination, and with the approval of as many of the
\* people who are signers now as the threshold of now asks for.  Approvals
\* are given earlier, under other signers and another threshold.
QuorumMovesFunds ==
  [][\A t \in Assets : balance'[t][MultisigAt] < balance[t][MultisigAt] =>
       \E id \in DOMAIN transactions :
         LET tx == transactions[id] IN
         /\ ~tx.executed /\ transactions'[id].executed
         /\ balance'[t] = Moved(balance[t], MultisigAt, tx.destination, tx.amount)
         /\ \E quorum \in SUBSET (tx.approvals \cap signers) : Cardinality(quorum) = threshold
    ]_multisigVars
=============================================================================
