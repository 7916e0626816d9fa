------------------------------- MODULE Bridge -------------------------------
(***************************************************************************)
(* The bridge contract (contracts/bridge/src/lib.rs under                  *)
(* src/apps/contracts): any asset the caller names is locked and, on a     *)
(* proof by the signers, handed to the issuer of its wrapped form; tokens  *)
(* the admin paired with an asset are deposited and, on a proof, that      *)
(* asset is unlocked from the pool.  Deployed over a version 1 contract it *)
(* migrates that one's requests first, in batches.                         *)
(***************************************************************************)
EXTENDS Soroban, Sequences, FiniteSetsExt

CONSTANTS
  BridgeAt,         \* the address of the contract
  AssetPairs,          \* bound: the pairs <<token, asset>> the admin sets
  NoAsset,             \* of a token that is paired with none
  BridgeAmounts,       \* amounts locked and burned
  BridgeFees,          \* fees the admin sets, in MAX_BRIDGE_FEE_BPS parts
  MAX_BRIDGE_FEE_BPS,
  DEFAULT_BRIDGE_FEE,
  SignerKeys,          \* keys that may become signers
  BridgeAdmin,
  LegacyRequests,      \* request sequences a version 1 contract may hold
  MIGRATION_BATCH_SIZE,
  MaxRequests          \* bound: requests made

ASSUME BridgeAssumption ==
  /\ MAX_BRIDGE_FEE_BPS \in Nat \ {0} /\ DEFAULT_BRIDGE_FEE \in 0..MAX_BRIDGE_FEE_BPS
  /\ MIGRATION_BATCH_SIZE \in Nat \ {0}
  /\ AssetPairs \subseteq Assets \X Assets
  /\ BridgeAt \in Contracts /\ NoAsset \notin Assets /\ IsFiniteSet(SignerKeys)
  /\ BridgeAmounts \subseteq Nat /\ BridgeFees \subseteq Nat
  \* The old layout has no recipient to unlock to, so none of its burns was unlocked.
  /\ LegacyRequests \subseteq Seq([layout : {"old"}, asset : Assets, to : {BridgeAt}, amount : Nat \ {0},
                                  status : {"Locked", "Burned", "Minted"}, signed : {{}}])

VARIABLES
  storageVersion,      \* "none" before initialize, "old" (no StorageVersion), "2", "3"
  migrationCursor,     \* MigrationCursor
  bridgeFee,
  bridgeSigners,       \* Signers: no duplicates, so a set
  signerThreshold,
  feesCollected,       \* FeesCollected(asset)
  requests,            \* BridgeRequest(id): [layout, asset, amount, to, status], and in `signed',
                       \* which no code reads, the signers whose proof it was paid for
  assetPair            \* AssetPair(token)

configVars == <<bridgeFee, bridgeSigners, signerThreshold, assetPair>>
bridgeVars == <<hostVars, storageVersion, migrationCursor, configVars, feesCollected, requests>>

Current == storageVersion = "3"

\* A proof is the sequence of the keys its blocks recover to with this very message.
Signed(proof) == {proof[i] : i \in DOMAIN proof} \cap bridgeSigners

\* verify_proof: as many blocks as are needed and no more than there are signers,
\* and enough signers among them, each counted once.
Proves(proof) ==
  /\ Len(proof) >= signerThreshold /\ Len(proof) <= Cardinality(bridgeSigners)
  /\ Cardinality(Signed(proof)) >= signerThreshold

Amounts(asset, statuses) ==
  SumFunctionOnSet([id \in DOMAIN requests |-> requests[id].amount],
                   {id \in DOMAIN requests : requests[id].asset = asset /\ requests[id].status \in statuses})

FeeOf(amount) == (amount * bridgeFee) \div MAX_BRIDGE_FEE_BPS

InitializeBridge ==
  /\ storageVersion = "none"
  /\ storageVersion' = "3"
  /\ bridgeFee' = DEFAULT_BRIDGE_FEE
  /\ bridgeSigners' = {} /\ signerThreshold' = 2
  /\ UNCHANGED <<hostVars, migrationCursor, feesCollected, requests, assetPair>>

AddRequest(request) ==
  /\ Len(requests) < MaxRequests
  /\ requests' = Append(requests, request)

LockAsset(caller, asset, amount) ==
  LET fee == FeeOf(amount) IN
  /\ Current
  /\ amount > 0 /\ amount - fee > 0
  /\ Transfer(asset, caller, BridgeAt, amount)
  /\ feesCollected' = [feesCollected EXCEPT ![asset] = @ + fee]
  /\ AddRequest([layout |-> "3", asset |-> asset, to |-> caller, amount |-> amount - fee,
                 status |-> "Locked", signed |-> {}])
  /\ UNCHANGED <<now, storageVersion, migrationCursor, configVars>>

Settle(id, status, proof) ==
  requests' = [requests EXCEPT ![id].status = status, ![id].signed = Signed(proof)]

\* Mutant: the status is not stored.
MintAgain(id, proof, issuer) ==
  /\ Current
  /\ requests[id].status = "Locked"
  /\ Proves(proof)
  /\ Transfer(requests[id].asset, BridgeAt, issuer, requests[id].amount)
  /\ UNCHANGED <<now, storageVersion, migrationCursor, configVars, feesCollected, requests>>

\* The issuer is named by the caller, and in the message that is signed.
MintWrapped(id, proof, issuer) ==
  /\ Current
  /\ requests[id].status = "Locked"
  /\ Proves(proof)
  /\ Settle(id, "Minted", proof)
  /\ Transfer(requests[id].asset, BridgeAt, issuer, requests[id].amount)
  /\ UNCHANGED <<now, storageVersion, migrationCursor, configVars, feesCollected>>

BurnWrapped(caller, token, recipient, amount) ==
  /\ Current
  /\ amount > 0
  /\ assetPair[token] # NoAsset
  /\ Transfer(token, caller, BridgeAt, amount)
  /\ AddRequest([layout |-> "3", asset |-> assetPair[token], to |-> recipient, amount |-> amount,
                 status |-> "Burned", signed |-> {}])
  /\ UNCHANGED <<now, storageVersion, migrationCursor, configVars, feesCollected>>

UnlockAsset(id, proof) ==
  LET asset == requests[id].asset IN
  /\ Current
  /\ requests[id].status = "Burned"
  /\ requests[id].to # BridgeAt           \* unlock_recipient is stored
  /\ Proves(proof)
  /\ balance[asset][BridgeAt] - feesCollected[asset] >= requests[id].amount
  /\ Settle(id, "Unlocked", proof)
  /\ Transfer(asset, BridgeAt, requests[id].to, requests[id].amount)
  /\ UNCHANGED <<now, storageVersion, migrationCursor, configVars, feesCollected>>

WithdrawFees(caller, asset, to, amount) ==
  /\ Current /\ caller = BridgeAdmin
  /\ amount > 0 /\ amount <= feesCollected[asset]
  /\ feesCollected' = [feesCollected EXCEPT ![asset] = @ - amount]
  /\ Transfer(asset, BridgeAt, to, amount)
  /\ UNCHANGED <<now, storageVersion, migrationCursor, configVars, requests>>

\* A pair may be set again, and to any asset.
SetAssetPair(caller, token, asset) ==
  /\ Current /\ caller = BridgeAdmin
  /\ assetPair' = [assetPair EXCEPT ![token] = asset]
  /\ UNCHANGED <<hostVars, storageVersion, migrationCursor, bridgeFee, bridgeSigners,
                 signerThreshold, feesCollected, requests>>

SetBridgeFee(caller, fee) ==
  /\ Current /\ caller = BridgeAdmin
  /\ fee <= MAX_BRIDGE_FEE_BPS
  /\ bridgeFee' = fee
  /\ UNCHANGED <<hostVars, storageVersion, migrationCursor, bridgeSigners, signerThreshold,
                 feesCollected, requests, assetPair>>

SetSigners(caller, keys, threshold) ==
  /\ Current /\ caller = BridgeAdmin
  /\ keys # {} /\ threshold # 0 /\ threshold <= Cardinality(keys)
  /\ bridgeSigners' = keys /\ signerThreshold' = threshold
  /\ UNCHANGED <<hostVars, storageVersion, migrationCursor, bridgeFee, feesCollected, requests,
                 assetPair>>

\* A stored request in the layout of this version.
Migrated(request) == [request EXCEPT !.layout = "3"]

BatchEnd == IF migrationCursor + MIGRATION_BATCH_SIZE < Len(requests) + 1
            THEN migrationCursor + MIGRATION_BATCH_SIZE ELSE Len(requests) + 1

\* Mutant: the batch that stops at the last request is taken for the last.
LastBatchEarly == BatchEnd >= Len(requests)

LastBatch == BatchEnd >= Len(requests) + 1

\* Version 2 lacks only configuration; an old contract's requests are rewritten
\* from the cursor on, and the version is stored with the last batch.
MigrateStorage(caller) ==
  /\ caller = BridgeAdmin
  /\ \/ /\ storageVersion = "2"
        /\ storageVersion' = "3"
        /\ bridgeSigners' = {} /\ signerThreshold' = 2
        /\ UNCHANGED <<migrationCursor, requests>>
     \/ /\ storageVersion = "old"
        /\ requests' = [id \in DOMAIN requests |->
             IF id >= migrationCursor /\ id < BatchEnd THEN Migrated(requests[id]) ELSE requests[id]]
        /\ IF LastBatch
           THEN /\ bridgeSigners' = {} /\ signerThreshold' = 2
                /\ storageVersion' = "3" /\ migrationCursor' = 1
           ELSE /\ migrationCursor' = BatchEnd
                /\ UNCHANGED <<storageVersion, bridgeSigners, signerThreshold>>
  /\ UNCHANGED <<hostVars, bridgeFee, feesCollected, assetPair>>

NothingConfigured ==
  /\ migrationCursor = 1
  /\ bridgeSigners = {} /\ signerThreshold = 2
  /\ assetPair = [t \in Assets |-> NoAsset]
  /\ feesCollected = [t \in Assets |-> 0]

NewBridge ==
  /\ NothingConfigured
  /\ storageVersion = "none" /\ bridgeFee = 0 /\ requests = <<>>

\* A contract of an earlier version whose code was upgraded.
OldBridge ==
  /\ NothingConfigured
  /\ bridgeFee = DEFAULT_BRIDGE_FEE
  /\ \/ storageVersion = "old" /\ requests \in LegacyRequests
     \/ storageVersion = "2" /\ requests = <<>>

BridgeInit ==
  /\ now = 0
  /\ NewBridge \/ OldBridge
  /\ balance = [t \in Assets |-> [FirstBalance[t] EXCEPT ![BridgeAt] = Amounts(t, {"Locked"})]]

BridgeNext ==
  \/ InitializeBridge
  \/ \E a \in Accounts :
       \/ MigrateStorage(a)
       \/ \E pair \in AssetPairs : SetAssetPair(a, pair[1], pair[2])
       \/ \E asset \in Assets, amount \in BridgeAmounts :
            \/ LockAsset(a, asset, amount)
            \/ \E to \in Accounts : BurnWrapped(a, asset, to, amount) \/ WithdrawFees(a, asset, to, amount)
       \/ \E fee \in BridgeFees : SetBridgeFee(a, fee)
       \/ \E keys \in SUBSET SignerKeys, threshold \in 0..Cardinality(SignerKeys) :
            SetSigners(a, keys, threshold)
  \/ \E id \in DOMAIN requests, n \in 0..Cardinality(SignerKeys) : \E proof \in [1..n -> SignerKeys] :
       \/ UnlockAsset(id, proof)
       \/ \E issuer \in Accounts : MintWrapped(id, proof, issuer)

BridgeSpec == BridgeInit /\ [][BridgeNext]_bridgeVars

-----------------------------------------------------------------------------
(* Properties. *)

BridgeTypeOK ==
  /\ HostTypeOK
  /\ storageVersion \in {"none", "old", "2", "3"}
  /\ migrationCursor \in Nat \ {0}
  /\ bridgeSigners \subseteq SignerKeys
  /\ feesCollected \in [Assets -> Nat]
  /\ assetPair \in [Assets -> Assets \cup {NoAsset}]
  /\ \A id \in DOMAIN requests : requests[id].amount \in Nat \ {0}

\* Of every asset, what is in the pool and what was unlocked from it cover the
\* locked deposits not handed out yet and the fees: tokens deposited by burns
\* add to the pool, and nothing but an unlock draws on what is locked.
PoolAddsUp ==
  \A t \in Assets :
    balance[t][BridgeAt] + Amounts(t, {"Unlocked"}) >= Amounts(t, {"Locked"}) + feesCollected[t]

\* An asset, locked or deposited, leaves the bridge either as a fee or for one
\* request of that asset, once and for its amount, and then with a proof in which
\* as many of the signers registered now signed as are needed now.
PaidOncePerProof ==
  [][\A t \in Assets : LET paid == balance[t][BridgeAt] - balance'[t][BridgeAt] IN
       paid > 0 =>
         \/ feesCollected'[t] = feesCollected[t] - paid /\ UNCHANGED requests
         \/ /\ UNCHANGED feesCollected
            /\ \E id \in DOMAIN requests :
                 /\ requests[id].asset = t /\ paid = requests[id].amount
                 /\ <<requests[id].status, requests'[id].status>>
                      \in {<<"Locked", "Minted">>, <<"Burned", "Unlocked">>}
                 /\ Cardinality(requests'[id].signed \cap bridgeSigners) >= signerThreshold
                 /\ \A other \in DOMAIN requests \ {id} : requests'[other] = requests[other]
    ]_bridgeVars

\* Once the version is stored every request has the layout this version reads,
\* whatever the batches: migration leaves none behind.
MigratedWhole == Current => \A id \in DOMAIN requests : requests[id].layout = "3"
=============================================================================
