-------------------------- MODULE PayrollContract --------------------------
(***************************************************************************)
(* Batch distribution on chain (contracts/payroll/src/lib.rs under         *)
(* src/apps/contracts): a creator lists recipients, somebody funds the     *)
(* total, and anybody distributes it.                                      *)
(***************************************************************************)
EXTENDS Soroban, Sequences, FiniteSetsExt

CONSTANTS
  PayrollAt,        \* the address of the contract
  Wages,            \* amounts a creator lists
  MaxRecipients,    \* recipients per batch (200 in the code)
  MaxBatches        \* bound: batches created

ASSUME PayrollContractAssumption == PayrollAt \in Contracts /\ Wages \subseteq Int

VARIABLES
  payrollReady,     \* initialize was called
  batches           \* batches[batch_id]

payrollContractVars == <<hostVars, payrollReady, batches>>

BatchStates == {"Open", "Funded", "Distributed", "Cancelled"}
InState(id, status) == id \in DOMAIN batches /\ batches[id].status = status

\* What a list of recipients pays to one address, and in all.
Dues(recipients) == [i \in DOMAIN recipients |-> recipients[i].amount]
PaysTo(recipients, a) ==
  SumFunctionOnSet(Dues(recipients), {i \in DOMAIN recipients : recipients[i].address = a})
Total(recipients) == SumFunctionOnSet(Dues(recipients), DOMAIN recipients)

InitializePayroll ==
  /\ ~payrollReady
  /\ payrollReady' = TRUE
  /\ UNCHANGED <<hostVars, batches>>

CreateBatch(creator, asset) ==
  /\ payrollReady
  /\ Len(batches) < MaxBatches
  /\ batches' = Append(batches, [creator |-> creator, asset |-> asset,
                                 recipients |-> <<>>, total |-> 0, status |-> "Open"])
  /\ UNCHANGED <<hostVars, payrollReady>>

\* Mutant: recipients are added whatever was done with the batch.
AddRecipientLate(id, recipient, amount) ==
  /\ id \in DOMAIN batches
  /\ amount > 0
  /\ Len(batches[id].recipients) < MaxRecipients
  /\ batches' = [batches EXCEPT
       ![id].recipients = Append(@, [address |-> recipient, amount |-> amount]),
       ![id].total = @ + amount]
  /\ UNCHANGED <<hostVars, payrollReady>>

AddRecipient(id, recipient, amount) ==
  /\ InState(id, "Open")
  /\ amount > 0
  /\ Len(batches[id].recipients) < MaxRecipients
  /\ batches' = [batches EXCEPT
       ![id].recipients = Append(@, [address |-> recipient, amount |-> amount]),
       ![id].total = @ + amount]
  /\ UNCHANGED <<hostVars, payrollReady>>

FundBatch(id, funder) ==
  /\ InState(id, "Open")
  /\ batches[id].total > 0
  /\ Transfer(batches[id].asset, funder, PayrollAt, batches[id].total)
  /\ batches' = [batches EXCEPT ![id].status = "Funded"]
  /\ UNCHANGED <<now, payrollReady>>

\* One transfer per recipient; if one is refused, none of them happened.
Distribute(id) ==
  /\ InState(id, "Funded")
  /\ LET b == batches[id] IN
       /\ Total(b.recipients) <= balance[b.asset][PayrollAt]
       /\ balance' = [balance EXCEPT ![b.asset] =
            [a \in Addresses |-> @[a] + PaysTo(b.recipients, a)
                                 - (IF a = PayrollAt THEN Total(b.recipients) ELSE 0)]]
  /\ batches' = [batches EXCEPT ![id].status = "Distributed"]
  /\ UNCHANGED <<now, payrollReady>>

CancelBatch(id) ==
  /\ InState(id, "Open")
  /\ batches' = [batches EXCEPT ![id].status = "Cancelled"]
  /\ UNCHANGED <<hostVars, payrollReady>>

PayrollContractStart == payrollReady = FALSE /\ batches = <<>>
PayrollContractInit == HostInit /\ PayrollContractStart

PayrollContractNext ==
  \/ InitializePayroll
  \/ \E a \in Accounts, asset \in Assets : CreateBatch(a, asset)
  \/ \E id \in DOMAIN batches :
       \/ Distribute(id) \/ CancelBatch(id)
       \/ \E a \in Accounts : FundBatch(id, a)
       \/ \E a \in Accounts, amount \in Wages : AddRecipient(id, a, amount)

PayrollContractSpec ==
  PayrollContractInit /\ [][PayrollContractNext]_payrollContractVars

-----------------------------------------------------------------------------
(* Properties. *)

PayrollContractTypeOK ==
  /\ HostTypeOK
  /\ payrollReady \in BOOLEAN
  /\ \A id \in DOMAIN batches :
       batches[id].status \in BatchStates /\ batches[id].creator \in Accounts

\* The recorded total of a batch is funded once and recipients are listed
\* separately; what the contract holds of an asset is what the listed
\* recipients of funded batches are still owed, so that no distribution can
\* fall short or use up the money of another batch.
BatchesCovered ==
  \A t \in Assets :
    balance[t][PayrollAt] =
      SumFunctionOnSet([id \in DOMAIN batches |-> Total(batches[id].recipients)],
        {id \in DOMAIN batches : batches[id].asset = t /\ InState(id, "Funded")})

\* Recipients are paid what was listed when the batch was funded: no recipient
\* is added, and nobody's share changes, once money is in.
FundedListIsFinal ==
  [][\A id \in DOMAIN batches : batches[id].status \in {"Funded", "Distributed"} =>
       /\ batches'[id].recipients = batches[id].recipients
       /\ batches[id].status = "Funded" /\ batches'[id].status # "Funded" =>
            \A a \in Accounts : balance'[batches[id].asset][a] =
              balance[batches[id].asset][a] + PaysTo(batches[id].recipients, a)
    ]_payrollContractVars
=============================================================================
