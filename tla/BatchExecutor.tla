--------------------------- MODULE BatchExecutor ---------------------------
(***************************************************************************)
(* The batch executor (contracts/batch-executor/src/lib.rs under           *)
(* src/apps/contracts): a stored list of calls to other contracts that     *)
(* succeeds as a whole or leaves no trace.  rollback_batch only takes a    *)
(* batch that is Partial, and no call makes one so: it never returns.      *)
(***************************************************************************)
EXTENDS Soroban, Sequences, FiniteSetsExt

CONSTANTS
  ExecutorAt,       \* the address of the contract
  Targets,         \* contracts that are called (external)
  Operations,      \* operation lists: sequences of targets, or of ExecutorAt
  MaxBatchOps      \* bound: batches created

ASSUME BatchAssumption == Operations \subseteq Seq(Targets \cup {ExecutorAt})

VARIABLES
  batchOps,        \* Batch(id): [ops, status]
  calls,           \* calls[target]: calls whose effects the ledger keeps
  failing          \* the targets whose calls fail now

batchVars == <<hostVars, batchOps, calls, failing>>

CreateOperations(ops) ==
  /\ Len(batchOps) < MaxBatchOps
  /\ ops # <<>>
  /\ batchOps' = Append(batchOps, [ops |-> ops, status |-> "Pending"])
  /\ UNCHANGED <<hostVars, calls, failing>>

Times(target, ops) == Cardinality({i \in DOMAIN ops : ops[i] = target})

\* Every call of the list returned.  A call of the executor itself finds the
\* batch Executing, or is refused by the host, and fails.
AllReturn(ops) == \A i \in DOMAIN ops : ops[i] # ExecutorAt /\ ops[i] \notin failing

\* The calls whose effects stay when the list runs.
Effects(ops) == [t \in Targets |-> IF t \in failing THEN 0 ELSE Times(t, ops)]

\* A failing call makes the whole invocation fail, which the host undoes: the
\* batch is Pending again and may be executed later.
ExecuteBatch(id) ==
  /\ batchOps[id].status = "Pending"
  /\ AllReturn(batchOps[id].ops)
  /\ calls' = [t \in Targets |-> calls[t] + Effects(batchOps[id].ops)[t]]
  /\ batchOps' = [batchOps EXCEPT ![id].status = "Completed"]
  /\ UNCHANGED <<hostVars, failing>>

CancelOperations(id) ==
  /\ batchOps[id].status = "Pending"
  /\ batchOps' = [batchOps EXCEPT ![id].status = "Failed"]
  /\ UNCHANGED <<hostVars, calls, failing>>

\* The targets change between calls of the executor.
TargetChanges(target) ==
  /\ failing' = IF target \in failing THEN failing \ {target} ELSE failing \cup {target}
  /\ UNCHANGED <<hostVars, batchOps, calls>>

BatchStart ==
  /\ batchOps = <<>>
  /\ calls = [t \in Targets |-> 0]
  /\ failing = {}

BatchInit == HostInit /\ BatchStart

BatchNext ==
  \/ \E ops \in Operations : CreateOperations(ops)
  \/ \E id \in DOMAIN batchOps : ExecuteBatch(id) \/ CancelOperations(id)
  \/ \E t \in Targets : TargetChanges(t)

BatchSpec == BatchInit /\ [][BatchNext]_batchVars

-----------------------------------------------------------------------------
(* Properties. *)

\* All or nothing: the calls whose effects are there are those of the completed
\* batches, each of them once, however often an execution failed before.
BatchAllOrNothing ==
  \A t \in Targets :
    calls[t] = SumFunctionOnSet([id \in DOMAIN batchOps |-> Times(t, batchOps[id].ops)],
                                {id \in DOMAIN batchOps : batchOps[id].status = "Completed"})
=============================================================================
