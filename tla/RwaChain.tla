------------------------------- MODULE RwaChain -------------------------------
(***************************************************************************)
(* The two pallets of the RWA parachain: rwa-registry, which knows whether *)
(* an asset is locked and whether it is sold, and rwa-marketplace, which   *)
(* lists assets, sells them privately, lets the buyer redeem them with a   *)
(* ProofHub nullifier, and, in a lane of its own that touches neither the  *)
(* listing nor the registry, records purchases announced by the hub.       *)
(*                                                                         *)
(* Names, prices, contacts and the other fields that are only stored or    *)
(* emitted are left out.  The hash of an rwa_id and a blinding is          *)
(* injective: an ownership commitment IS that pair, or Unopenable, which   *)
(* also stands for a commitment made to an rwa_id whose last 28 bytes are  *)
(* not zero, since xcm_record_purchase keeps the first four only.          *)
(***************************************************************************)
EXTENDS Integers, FiniteSets, Destination

CONSTANTS
    MaxAssetId,         \* u32::MAX
    GenesisAssets,      \* number of assets in the genesis config, all locked
    ProofHubSovereign,  \* Sibling(2000)
    OwnerBlindings,
    EntryHashes,        \* blake2_256 of an output commitment on the hub
    CompanyInfos

AssetIds == 0..MaxAssetId

ASSUME RwaAssumption ==
    /\ MaxAssetId \in Nat
    /\ GenesisAssets \in 0..MaxAssetId
    /\ ProofHubSovereign \in Callers
    /\ Unopenable \notin AssetIds \X OwnerBlindings
    /\ None \notin EntryHashes

OwnershipCommitment == (AssetIds \X OwnerBlindings) \cup {Unopenable}

RWAAsset == [is_locked : BOOLEAN, is_sold : BOOLEAN]

\* ListingStatus::SoldPublicly exists in the code but nothing produces it.
ListingStatus == {"Active", "SoldPrivately", "Cancelled", "Redeemed"}

Listing == [status : ListingStatus, entry_commitment_hash : EntryHashes \cup {None}]

RedemptionClaim == [asset_id : AssetIds, redeemer : Callers]

ProofHubPurchaseRecord ==
    [asset_id : AssetIds, nullifier : Nullifiers, ownership_commitment : OwnershipCommitment]

\* An absent value is no record.
ASSUME AbsentAssumption ==
    None \notin RWAAsset \cup Listing \cup RedemptionClaim \cup ProofHubPurchaseRecord

VARIABLES
    Assets, NextAssetId, Company,                           \* rwa-registry
    Listings, RedemptionClaims, NullifierUsed,              \* rwa-marketplace
    ProofHubPurchases, OwnershipRedeemed,
    releases  \* history: tx_id -> number of OwnershipRedeemed events

registryVars == <<Assets, NextAssetId, Company>>
saleVars     == <<Listings, RedemptionClaims, NullifierUsed>>
purchaseVars == <<ProofHubPurchases, OwnershipRedeemed, releases>>
rwaVars      == <<registryVars, saleVars, purchaseVars>>

RwaInit ==
    /\ Assets = [a \in AssetIds |-> IF a < GenesisAssets
                                    THEN [is_locked |-> TRUE, is_sold |-> FALSE]
                                    ELSE None]
    /\ NextAssetId = GenesisAssets
    /\ Company \in CompanyInfos \cup {None}
    /\ Listings = [a \in AssetIds |-> None]
    /\ RedemptionClaims = [n \in Nullifiers |-> None]
    /\ NullifierUsed = {}
    /\ ProofHubPurchases = [t \in TxIds |-> None]
    /\ OwnershipRedeemed = {}
    /\ releases = [t \in TxIds |-> 0]

-------------------------------------------------------------------------------
(***************************************************************************)
(* rwa-registry (admin calls and the helpers the marketplace uses)         *)
(***************************************************************************)
\* Fault: the next id wraps around.
register_asset_Wraps ==
    /\ Assets' = [Assets EXCEPT ![NextAssetId] = [is_locked |-> FALSE, is_sold |-> FALSE]]
    /\ NextAssetId' = (NextAssetId + 1) % (MaxAssetId + 1)
    /\ UNCHANGED <<Company, saleVars, purchaseVars>>

\* saturating_add: at u32::MAX the next id stays, and is then overwritten.
register_asset ==
    /\ Assets' = [Assets EXCEPT ![NextAssetId] = [is_locked |-> FALSE, is_sold |-> FALSE]]
    /\ NextAssetId' = IF NextAssetId = MaxAssetId THEN MaxAssetId ELSE NextAssetId + 1
    /\ UNCHANGED <<Company, saleVars, purchaseVars>>

lock_for_sale(a) ==
    /\ Assets[a] # None
    /\ ~Assets[a].is_locked
    /\ Assets' = [Assets EXCEPT ![a].is_locked = TRUE]
    /\ UNCHANGED <<NextAssetId, Company, saleVars, purchaseVars>>

internal_mark_sold(a) ==
    /\ Assets[a] # None
    /\ ~Assets[a].is_sold
    /\ Assets' = [Assets EXCEPT ![a].is_sold = TRUE]

mark_sold(a) ==
    /\ internal_mark_sold(a)
    /\ UNCHANGED <<NextAssetId, Company, saleVars, purchaseVars>>

release_after_redemption(a) ==
    /\ Assets[a] # None
    /\ Assets[a].is_locked
    /\ Assets' = [Assets EXCEPT ![a].is_locked = FALSE]
    /\ UNCHANGED <<NextAssetId, Company, saleVars, purchaseVars>>

set_company_info(info) ==
    /\ Company' = info
    /\ UNCHANGED <<Assets, NextAssetId, saleVars, purchaseVars>>

\* Fault: a sold asset that was locked again counts as available.
is_available_for_sale_Resale(a) == Assets[a] # None /\ Assets[a].is_locked

is_available_for_sale(a) ==
    Assets[a] # None /\ Assets[a].is_locked /\ ~Assets[a].is_sold

\* Unlike release_after_redemption, whatever the lock is.
internal_release(a) ==
    /\ Assets[a] # None
    /\ Assets' = [Assets EXCEPT ![a].is_locked = FALSE]

-------------------------------------------------------------------------------
(***************************************************************************)
(* rwa-marketplace: listings                                               *)
(***************************************************************************)
\* Admin; a listing that is already there is overwritten.
list_asset(a) ==
    /\ is_available_for_sale(a)
    /\ Listings' = [Listings EXCEPT ![a] =
                      [status |-> "Active", entry_commitment_hash |-> None]]
    /\ UNCHANGED <<registryVars, RedemptionClaims, NullifierUsed, purchaseVars>>

HasStatus(a, status) == Listings[a] # None /\ Listings[a].status = status

\* Admin
cancel_listing(a) ==
    /\ HasStatus(a, "Active")
    /\ Listings' = [Listings EXCEPT ![a].status = "Cancelled"]
    /\ internal_release(a)
    /\ UNCHANGED <<NextAssetId, Company, RedemptionClaims, NullifierUsed, purchaseVars>>

buy_privately(a, hash) ==
    /\ HasStatus(a, "Active")
    /\ is_available_for_sale(a)
    /\ Listings' = [Listings EXCEPT ![a] =
                      [status |-> "SoldPrivately", entry_commitment_hash |-> hash]]
    /\ internal_mark_sold(a)
    /\ UNCHANGED <<NextAssetId, Company, RedemptionClaims, NullifierUsed, purchaseVars>>

\* Fault: the status is left at SoldPrivately.
redeem_asset_Repeatable(a, nullifier, redeemer) ==
    /\ nullifier \notin NullifierUsed
    /\ HasStatus(a, "SoldPrivately")
    /\ NullifierUsed' = NullifierUsed \cup {nullifier}
    /\ RedemptionClaims' = [RedemptionClaims EXCEPT ![nullifier] =
                              [asset_id |-> a, redeemer |-> redeemer]]
    /\ internal_release(a)
    /\ UNCHANGED <<Listings, NextAssetId, Company, purchaseVars>>

redeem_asset(a, nullifier, redeemer) ==
    /\ nullifier \notin NullifierUsed
    /\ HasStatus(a, "SoldPrivately")
    /\ NullifierUsed' = NullifierUsed \cup {nullifier}
    /\ RedemptionClaims' = [RedemptionClaims EXCEPT ![nullifier] =
                              [asset_id |-> a, redeemer |-> redeemer]]
    /\ Listings' = [Listings EXCEPT ![a].status = "Redeemed"]
    /\ internal_release(a)
    /\ UNCHANGED <<NextAssetId, Company, purchaseVars>>

-------------------------------------------------------------------------------
(***************************************************************************)
(* rwa-marketplace: purchases announced by the hub                         *)
(***************************************************************************)
compute_ownership_commitment(asset_id, blinding) == <<asset_id, blinding>>

\* Fault: a record is written over an earlier one with the same tx_id.
PurchaseOk_Overwrite(caller, tx_id) == caller = ProofHubSovereign

PurchaseOk(caller, tx_id) ==
    /\ caller = ProofHubSovereign
    /\ ProofHubPurchases[tx_id] = None

xcm_record_purchase(caller, asset_id, nullifier, tx_id, commitment) ==
    /\ PurchaseOk(caller, tx_id)
    /\ ProofHubPurchases' = [ProofHubPurchases EXCEPT ![tx_id] =
         [asset_id |-> asset_id, nullifier |-> nullifier,
          ownership_commitment |-> commitment]]
    /\ UNCHANGED <<registryVars, saleVars, OwnershipRedeemed, releases>>

OwnerOpens(record, blinding) ==
    record.ownership_commitment = compute_ownership_commitment(record.asset_id, blinding)

redeem_rwa_ownership(tx_id, blinding) ==
    /\ ProofHubPurchases[tx_id] # None
    /\ tx_id \notin OwnershipRedeemed
    /\ OwnerOpens(ProofHubPurchases[tx_id], blinding)
    /\ OwnershipRedeemed' = OwnershipRedeemed \cup {tx_id}
    /\ releases' = [releases EXCEPT ![tx_id] = @ + 1]
    /\ UNCHANGED <<registryVars, saleVars, ProofHubPurchases>>

-------------------------------------------------------------------------------
Registry ==
    \/ register_asset
    \/ \E a \in AssetIds : lock_for_sale(a) \/ mark_sold(a) \/ release_after_redemption(a)
    \/ \E info \in CompanyInfos : set_company_info(info)

Sales ==
    \E a \in AssetIds :
        \/ list_asset(a)
        \/ cancel_listing(a)
        \/ \E hash \in EntryHashes : buy_privately(a, hash)
        \/ \E nullifier \in Nullifiers, redeemer \in Callers :
             redeem_asset(a, nullifier, redeemer)

Purchases ==
    \/ \E caller \in Callers, asset_id \in AssetIds, nullifier \in Nullifiers,
          tx_id \in TxIds, commitment \in OwnershipCommitment :
            xcm_record_purchase(caller, asset_id, nullifier, tx_id, commitment)
    \/ \E tx_id \in TxIds, blinding \in OwnerBlindings : redeem_rwa_ownership(tx_id, blinding)

RwaNext == Registry \/ Sales \/ Purchases

RwaSpec == RwaInit /\ [][RwaNext]_rwaVars

-------------------------------------------------------------------------------
(***************************************************************************)
(* Properties.  The last id is left out of those about one asset: once     *)
(* NextAssetId saturates, register_asset replaces the asset stored there.  *)
(***************************************************************************)
Stable == 0..(MaxAssetId - 1)

Claims(a) ==
    {n \in Nullifiers : RedemptionClaims[n] # None /\ RedemptionClaims[n].asset_id = a}

\* An asset is claimed at most once, whatever the admin locks, releases,
\* lists, cancels or marks in between: it is claimed by exactly one
\* nullifier once its listing says Redeemed and by none before, and a
\* listing that says it was sold privately is on a sold asset.
OneClaimPerAsset ==
    \A a \in Stable :
        /\ Cardinality(Claims(a)) = (IF HasStatus(a, "Redeemed") THEN 1 ELSE 0)
        /\ HasStatus(a, "SoldPrivately") \/ HasStatus(a, "Redeemed") => Assets[a].is_sold

\* A sale is final: no registration replaces an asset below the last id, a
\* sold asset stays sold, a private sale can only be
\* redeemed, and a redeemed listing is never reopened (list_asset,
\* cancel_listing, buy_privately, redeem_asset and the registry's calls).
SaleFinal ==
    [][\A a \in Stable :
         /\ Assets[a] # None /\ Assets[a].is_sold => Assets'[a].is_sold
         /\ HasStatus(a, "SoldPrivately") =>
              Listings'[a].entry_commitment_hash = Listings[a].entry_commitment_hash
                /\ Listings'[a].status \in {"SoldPrivately", "Redeemed"}
         /\ HasStatus(a, "Redeemed") => Listings'[a] = Listings[a]]_rwaVars

\* A purchase announced by the hub is released at most once, and only
\* against the commitment it was first recorded with (xcm_record_purchase,
\* redeem_rwa_ownership).
ReleasedOnce ==
    [][\A t \in TxIds :
         /\ ProofHubPurchases[t] # None => ProofHubPurchases'[t] = ProofHubPurchases[t]
         /\ releases'[t] <= 1]_rwaVars
===============================================================================
