------------------------------ MODULE Upgrade ------------------------------
(***************************************************************************)
(* The upgrade helpers that the contracts share                            *)
(* (crates/shared/src/lib.rs under src/apps/contracts): an admin proposes  *)
(* new code, it is scheduled, executed once its delay has passed, and may  *)
(* be rolled back.  The helpers are called by a contract that gates        *)
(* schedule, execute and cancel as it likes; here anybody may.             *)
(***************************************************************************)
EXTENDS Soroban, Sequences

CONSTANTS
  Wasms,             \* code that may be proposed, and
  FirstWasm,         \*   the code deployed first
  UpgradeDelays,     \* delay_ledgers of proposals
  UpgradeAdmin,
  MaxUpgrades,       \* bound: proposals made
  MaxPatches         \* bound: roll-backs of one version

\* "none" stands for no previous code.
ASSUME UpgradeAssumption == "none" \notin Wasms /\ UpgradeDelays \subseteq Nat

VARIABLES
  upgrades,          \* Proposal(id): [wasm, scheduledAt, status]
  wasm,              \* the code that runs
  previousWasm,      \* PreviousWasmHash: "none" before the first upgrade
  version            \* Version: [major, patch, hash]; hash is 0 before the first

upgradeVars == <<hostVars, upgrades, wasm, previousWasm, version>>

ProposeUpgrade(caller, code, delay) ==
  /\ caller = UpgradeAdmin
  /\ Len(upgrades) < MaxUpgrades
  /\ upgrades' = Append(upgrades,
       [wasm |-> code, scheduledAt |-> now + delay, status |-> "Pending"])
  /\ UNCHANGED <<hostVars, wasm, previousWasm, version>>

SetUpgrade(id, status) == upgrades' = [upgrades EXCEPT ![id].status = status]

ScheduleUpgrade(id) ==
  /\ upgrades[id].status = "Pending"
  /\ SetUpgrade(id, "Scheduled")
  /\ UNCHANGED <<hostVars, wasm, previousWasm, version>>

\* What is kept as the previous code is the hash of the stored version, and
\* that is a hash of zeroes until the first upgrade.
ExecuteUpgrade(id) ==
  /\ upgrades[id].status = "Scheduled"
  /\ now >= upgrades[id].scheduledAt
  /\ previousWasm' = version.hash
  /\ wasm' = upgrades[id].wasm
  /\ version' = [major |-> version.major + 1, patch |-> 0, hash |-> upgrades[id].wasm]
  /\ SetUpgrade(id, "Executed")
  /\ UNCHANGED hostVars

CancelUpgrade(id) ==
  /\ upgrades[id].status # "Executed"
  /\ SetUpgrade(id, "Cancelled")
  /\ UNCHANGED <<hostVars, wasm, previousWasm, version>>

\* The host refuses a hash that no code was uploaded for, the zero hash too.
RollbackUpgrade(caller) ==
  /\ caller = UpgradeAdmin
  /\ version.patch < MaxPatches
  /\ previousWasm \in Wasms
  /\ wasm' = previousWasm
  /\ version' = [version EXCEPT !.patch = @ + 1, !.hash = previousWasm]
  /\ UNCHANGED <<hostVars, upgrades, previousWasm>>

UpgradeStart ==
  /\ upgrades = <<>>
  /\ wasm = FirstWasm
  /\ previousWasm = "none"
  /\ version = [major |-> 1, patch |-> 0, hash |-> "zero"]

UpgradeInit == HostInit /\ UpgradeStart

UpgradeNext ==
  \/ Tick /\ UNCHANGED <<upgrades, wasm, previousWasm, version>>
  \/ \E a \in Accounts :
       \/ RollbackUpgrade(a)
       \/ \E code \in Wasms, delay \in UpgradeDelays : ProposeUpgrade(a, code, delay)
  \/ \E id \in DOMAIN upgrades : ScheduleUpgrade(id) \/ ExecuteUpgrade(id) \/ CancelUpgrade(id)

UpgradeSpec == UpgradeInit /\ [][UpgradeNext]_upgradeVars

-----------------------------------------------------------------------------
(* Properties. *)

\* New code runs only when one proposal for it, scheduled and not cancelled, has
\* waited for its own delay; a roll-back never brings in code that did
\* not run before.
CodeWaitsItsDelay ==
  [][wasm' # wasm =>
       \/ wasm' = previousWasm
       \/ \E id \in DOMAIN upgrades :
            /\ upgrades[id].status = "Scheduled" /\ upgrades[id].scheduledAt <= now
            /\ upgrades'[id].status = "Executed" /\ upgrades[id].wasm = wasm']_upgradeVars

\* After any sequence of upgrades and roll-backs the stored version names the
\* code that runs; only the first deployment has no hash.
VersionNamesCode ==
  version.hash = IF version.major = 1 THEN "zero" ELSE wasm
=============================================================================
