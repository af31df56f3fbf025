-------------------------- MODULE Destinations_proofs --------------------------
(***************************************************************************)
(* Proofs about the two destinations: the access-keys pallet of AuthGate,  *)
(* and the registry and the marketplace of the RWA chain, for every set of *)
(* callers, apps, tx_ids, nullifiers and blindings, and every number of    *)
(* asset ids and genesis assets.                                           *)
(***************************************************************************)
EXTENDS AuthGate, RwaChain, FiniteSetTheorems, TLAPS

(***************************************************************************)
(* AuthGate                                                                *)
(***************************************************************************)

\* The types of the storage items the properties are about.
GateType ==
    /\ AccessGrants \in [TxIds -> AccessGrant \cup {None}]
    /\ KeyUsed \subseteq TxIds
    /\ sessions \in [TxIds -> Nat]

\* SessionOnce with the types it rests on is inductive as it stands: the
\* grant's own flag tells use_access_key what KeyUsed tells it.
GateInv == GateType /\ SessionOnce

-------------------------------------------------------------------------------
\* The initial state satisfies the invariant: no grant, no key used.
LEMMA GateInitInv == GateInit => GateInv
  BY DEF GateInit, GateInv, GateType, SessionOnce

\* Admin calls touch nothing but the registry of apps.
LEMMA AdminInv == GateInv /\ Admin => GateInv'
  BY DEF GateInv, GateType, SessionOnce, Admin, list_access_slot,
         update_access_slot, Opens

\* A grant is recorded only where there is none: tx_id has not been used.
LEMMA RecordInv == GateInv /\ Record => GateInv'
<1> SUFFICES ASSUME GateInv,
                    NEW caller \in Callers, NEW app_id \in AppIds,
                    NEW nullifier \in Nullifiers, NEW tx_id \in TxIds,
                    NEW akc \in KeyCommitments,
                    xcm_record_access_grant(caller, app_id, nullifier, tx_id, akc)
             PROVE  GateInv'
  BY DEF Record
<1> DEFINE grant == [app_id |-> app_id, nullifier |-> nullifier,
                     access_key_commitment |-> akc, used |-> FALSE]
<1>1. grant \in AccessGrant /\ grant # None /\ ~grant.used
  <2>1. grant \in AccessGrant
    BY DEF AccessGrant
  <2>2. ~grant.used
    OBVIOUS
  <2> HIDE DEF grant
  <2> QED BY <2>1, <2>2, NoneAssumption
<1>2. AccessGrants[tx_id] = None /\ tx_id \notin KeyUsed
  BY DEF xcm_record_access_grant, RecordOk, GateInv, SessionOnce
<1>3. /\ AccessGrants' = [AccessGrants EXCEPT ![tx_id] = grant]
      /\ UNCHANGED <<KeyUsed, sessions>>
  BY DEF xcm_record_access_grant
<1>4. GateType'
  BY <1>1, <1>3 DEF GateInv, GateType
<1> HIDE DEF grant
<1>5. SessionOnce'
  <2> SUFFICES ASSUME NEW t \in TxIds
               PROVE  /\ sessions'[t] = (IF t \in KeyUsed' THEN 1 ELSE 0)
                      /\ t \in KeyUsed' <=> (AccessGrants'[t] # None /\ AccessGrants'[t].used)
                      /\ t \in KeyUsed' => \E b \in KeyBlindings : Opens(AccessGrants'[t], b)
    BY DEF SessionOnce, Opens
  <2>1. CASE t = tx_id
    BY <1>1, <1>2, <1>3, <2>1 DEF GateInv, GateType, SessionOnce
  <2>2. CASE t # tx_id
    BY <1>3, <2>2 DEF GateInv, GateType, SessionOnce
  <2> QED BY <2>1, <2>2
<1> QED BY <1>4, <1>5 DEF GateInv

\* What a use does to the grant it names: only its flag changes, and the
\* result is a grant again.
LEMMA UsedGrant ==
    ASSUME GateInv, NEW tx_id \in TxIds, NEW blinding \in KeyBlindings,
           use_access_key(tx_id, blinding)
    PROVE  /\ AccessGrants[tx_id] \in AccessGrant
           /\ AccessGrants'[tx_id] \in AccessGrant
           /\ AccessGrants'[tx_id] # None
           /\ AccessGrants'[tx_id].used
           /\ Opens(AccessGrants'[tx_id], blinding)
           /\ [AccessGrants'[tx_id] EXCEPT !.used = AccessGrants[tx_id].used]
                = AccessGrants[tx_id]
           /\ \A t \in TxIds : t # tx_id => AccessGrants'[t] = AccessGrants[t]
<1>1. AccessGrants[tx_id] \in AccessGrant /\ Opens(AccessGrants[tx_id], blinding)
  BY DEF use_access_key, GateInv, GateType
<1>2. AccessGrants'[tx_id] = [AccessGrants[tx_id] EXCEPT !.used = TRUE]
  BY DEF use_access_key, GateInv, GateType
<1>3. AccessGrants'[tx_id] \in AccessGrant /\ AccessGrants'[tx_id].used
  BY <1>1, <1>2 DEF AccessGrant
<1>4. /\ AccessGrants'[tx_id].app_id = AccessGrants[tx_id].app_id
      /\ AccessGrants'[tx_id].access_key_commitment
           = AccessGrants[tx_id].access_key_commitment
  BY <1>1, <1>2 DEF AccessGrant
<1>5. [AccessGrants'[tx_id] EXCEPT !.used = AccessGrants[tx_id].used]
        = AccessGrants[tx_id]
  BY <1>1, <1>2 DEF AccessGrant
<1>6. \A t \in TxIds : t # tx_id => AccessGrants'[t] = AccessGrants[t]
  BY DEF use_access_key, GateInv, GateType
<1> QED BY <1>1, <1>3, <1>4, <1>5, <1>6, NoneAssumption DEF Opens

\* A use marks the key in both places and opens one session.
LEMMA UseInv == GateInv /\ Use => GateInv'
<1> SUFFICES ASSUME GateInv, NEW tx_id \in TxIds, NEW blinding \in KeyBlindings,
                    use_access_key(tx_id, blinding)
             PROVE  GateInv'
  BY DEF Use
<1>1. /\ AccessGrants'[tx_id] \in AccessGrant
      /\ AccessGrants'[tx_id] # None
      /\ AccessGrants'[tx_id].used
      /\ Opens(AccessGrants'[tx_id], blinding)
      /\ \A t \in TxIds : t # tx_id => AccessGrants'[t] = AccessGrants[t]
  BY UsedGrant
<1>2. /\ tx_id \notin KeyUsed
      /\ KeyUsed' = KeyUsed \cup {tx_id}
      /\ AccessGrants' = [AccessGrants EXCEPT ![tx_id].used = TRUE]
      /\ sessions' = [sessions EXCEPT ![tx_id] = @ + 1]
  BY DEF use_access_key
<1>3. sessions[tx_id] = 0 /\ sessions'[tx_id] = 1
  BY <1>2 DEF GateInv, GateType, SessionOnce
<1>4. GateType'
  <2>1. AccessGrants' \in [TxIds -> AccessGrant \cup {None}]
    BY <1>1, <1>2 DEF GateInv, GateType
  <2>2. KeyUsed' \subseteq TxIds /\ sessions' \in [TxIds -> Nat]
    BY <1>2 DEF GateInv, GateType
  <2> QED BY <2>1, <2>2 DEF GateType
<1>5. SessionOnce'
  <2> SUFFICES ASSUME NEW t \in TxIds
               PROVE  /\ sessions'[t] = (IF t \in KeyUsed' THEN 1 ELSE 0)
                      /\ t \in KeyUsed' <=> (AccessGrants'[t] # None /\ AccessGrants'[t].used)
                      /\ t \in KeyUsed' => \E b \in KeyBlindings : Opens(AccessGrants'[t], b)
    BY DEF SessionOnce, Opens
  <2>1. CASE t = tx_id
    BY <1>1, <1>2, <1>3, <2>1
  <2>2. CASE t # tx_id
    <3>1. /\ AccessGrants'[t] = AccessGrants[t]
          /\ sessions'[t] = sessions[t]
          /\ t \in KeyUsed' <=> t \in KeyUsed
      BY <1>1, <1>2, <2>2 DEF GateInv, GateType
    <3> QED BY <3>1 DEF GateInv, SessionOnce
  <2> QED BY <2>1, <2>2
<1> QED BY <1>4, <1>5 DEF GateInv

\* Every step preserves the invariant.
LEMMA GateNextInv == GateInv /\ [GateNext]_gateVars => GateInv'
<1>1. CASE UNCHANGED gateVars
  BY <1>1 DEF GateInv, GateType, SessionOnce, Opens, gateVars
<1> QED BY <1>1, AdminInv, RecordInv, UseInv DEF GateNext

\* The inductive invariant holds of every behaviour.
THEOREM GateInvCorrect == GateSpec => []GateInv
  BY GateInitInv, GateNextInv, PTL DEF GateSpec

\* Whoever calls use_access_key and however often, a grant opens one session,
\* with an opening of its own commitment.
THEOREM SessionOnceCorrect == GateSpec => []SessionOnce
<1>1. GateInv => SessionOnce
  BY DEF GateInv
<1> QED BY <1>1, GateInvCorrect, PTL

\* What a single step may do to a recorded grant.
LEMMA GrantKept ==
    ASSUME GateInv, [GateNext]_gateVars,
           NEW t \in TxIds, AccessGrants[t] # None
    PROVE  /\ AccessGrants'[t] # None
           /\ AccessGrants[t].used => AccessGrants'[t].used
           /\ [AccessGrants'[t] EXCEPT !.used = AccessGrants[t].used] = AccessGrants[t]
<1>1. AccessGrants[t] \in AccessGrant
  BY DEF GateInv, GateType
<1>2. [AccessGrants[t] EXCEPT !.used = AccessGrants[t].used] = AccessGrants[t]
  BY <1>1 DEF AccessGrant
<1>3. CASE AccessGrants'[t] = AccessGrants[t]
  BY <1>2, <1>3
<1>4. CASE Record
  <2>1. PICK tx_id \in TxIds : /\ AccessGrants[tx_id] = None
                               /\ \E g : AccessGrants' = [AccessGrants EXCEPT ![tx_id] = g]
    BY <1>4 DEF Record, xcm_record_access_grant, RecordOk
  <2>2. tx_id # t
    BY <2>1
  <2>3. AccessGrants'[t] = AccessGrants[t]
    BY <2>1, <2>2 DEF GateInv, GateType
  <2> QED BY <1>3, <2>3
<1>5. CASE Use
  <2>1. PICK tx_id \in TxIds, blinding \in KeyBlindings : use_access_key(tx_id, blinding)
    BY <1>5 DEF Use
  <2>2. CASE tx_id = t
    BY <2>1, <2>2, UsedGrant
  <2>3. CASE tx_id # t
    <3>1. AccessGrants'[t] = AccessGrants[t]
      BY <2>1, <2>3, UsedGrant
    <3> QED BY <1>3, <3>1
  <2> QED BY <2>2, <2>3
<1>6. CASE Admin \/ UNCHANGED gateVars
  <2>1. AccessGrants' = AccessGrants
    BY <1>6 DEF Admin, list_access_slot, update_access_slot, gateVars
  <2> QED BY <1>3, <2>1
<1> QED BY <1>4, <1>5, <1>6 DEF GateNext

\* No later call changes a recorded grant but for its flag, once.
THEOREM GrantsFinalCorrect == GateSpec => GrantsFinal
<1>1. GateInv /\ [GateNext]_gateVars =>
        [\A t \in TxIds : AccessGrants[t] # None =>
           /\ AccessGrants'[t] # None
           /\ AccessGrants[t].used => AccessGrants'[t].used
           /\ [AccessGrants'[t] EXCEPT !.used = AccessGrants[t].used] = AccessGrants[t]
        ]_gateVars
  BY GrantKept
<1> QED BY <1>1, GateInvCorrect, PTL DEF GateSpec, GrantsFinal
-------------------------------------------------------------------------------
(***************************************************************************)
(* The RWA chain: the invariant, in four parts                             *)
(***************************************************************************)

\* The registry: below the last id exactly the ids already given out are in
\* use, so register_asset cannot replace any of them.
RegistryOK ==
    /\ Assets \in [AssetIds -> RWAAsset \cup {None}]
    /\ NextAssetId \in AssetIds
    /\ \A a \in Stable : Assets[a] # None <=> a < NextAssetId

IsSold(a) == Assets[a] # None /\ Assets[a].is_sold

\* The marketplace agrees with the registry on what is sold.
ListingsOK ==
    /\ Listings \in [AssetIds -> Listing \cup {None}]
    /\ \A a \in Stable :
         HasStatus(a, "SoldPrivately") \/ HasStatus(a, "Redeemed") => IsSold(a)

\* Claims are filed under used nullifiers, one for each redeemed listing.
ClaimsOK ==
    /\ RedemptionClaims \in [Nullifiers -> RedemptionClaim \cup {None}]
    /\ \A n \in Nullifiers \ NullifierUsed : RedemptionClaims[n] = None
    /\ \A a \in Stable :
         IF HasStatus(a, "Redeemed") THEN \E n \in Nullifiers : Claims(a) = {n}
                                     ELSE Claims(a) = {}

\* The hub's purchases: a release is counted where it is marked.
PurchasesOK ==
    /\ ProofHubPurchases \in [TxIds -> ProofHubPurchaseRecord \cup {None}]
    /\ OwnershipRedeemed \subseteq TxIds
    /\ releases = [t \in TxIds |-> IF t \in OwnershipRedeemed THEN 1 ELSE 0]

RwaInv == RegistryOK /\ ListingsOK /\ ClaimsOK /\ PurchasesOK

-------------------------------------------------------------------------------
(***************************************************************************)
(* The registry                                                            *)
(***************************************************************************)

\* What a step may do to the assets below the last id.
AssetsKept == RegistryOK' /\ \A a \in Stable : IsSold(a) => IsSold(a)'

\* Leaving the registry alone keeps it.
LEMMA RegistryStutter ==
    ASSUME RegistryOK, UNCHANGED <<Assets, NextAssetId>>
    PROVE  AssetsKept
  BY DEF RegistryOK, AssetsKept, IsSold

\* Rewriting an asset that exists, without taking its sale back, keeps it.
LEMMA AssetUpdate ==
    ASSUME RegistryOK, NEW a \in AssetIds, NEW asset \in RWAAsset,
           Assets[a] # None, Assets[a].is_sold => asset.is_sold,
           Assets' = [Assets EXCEPT ![a] = asset], NextAssetId' = NextAssetId
    PROVE  AssetsKept
<1>1. asset # None
  BY AbsentAssumption
<1>2. Stable \subseteq AssetIds
  BY RwaAssumption DEF Stable, AssetIds
<1>3. RegistryOK'
  <2>1. Assets' \in [AssetIds -> RWAAsset \cup {None}]
    BY DEF RegistryOK
  <2>2. \A b \in Stable : Assets'[b] # None <=> Assets[b] # None
    BY <1>1, <1>2 DEF RegistryOK
  <2> QED BY <2>1, <2>2 DEF RegistryOK
<1>4. ASSUME NEW b \in Stable, IsSold(b) PROVE IsSold(b)'
  <2>1. CASE b = a
    BY <1>1, <1>4, <2>1 DEF IsSold, RegistryOK
  <2>2. CASE b # a
    BY <1>2, <1>4, <2>2 DEF IsSold, RegistryOK
  <2> QED BY <2>1, <2>2
<1> QED BY <1>3, <1>4 DEF AssetsKept

\* A stored asset is a pair of flags, and setting one leaves the other.
LEMMA AssetFlags ==
    ASSUME RegistryOK, NEW a \in AssetIds, Assets[a] # None
    PROVE  /\ Assets[a] \in RWAAsset
           /\ \A f \in BOOLEAN :
                /\ [Assets[a] EXCEPT !.is_locked = f] \in RWAAsset
                /\ [Assets[a] EXCEPT !.is_locked = f].is_sold = Assets[a].is_sold
           /\ [Assets[a] EXCEPT !.is_sold = TRUE] \in RWAAsset
           /\ [Assets[a] EXCEPT !.is_sold = TRUE].is_sold
<1>1. Assets[a] \in RWAAsset
  BY DEF RegistryOK
<1> QED BY <1>1 DEF RWAAsset

\* lock_for_sale, release_after_redemption and internal_release.
LEMMA SetLock ==
    ASSUME RegistryOK, NEW a \in AssetIds, NEW f \in BOOLEAN, Assets[a] # None,
           Assets' = [Assets EXCEPT ![a].is_locked = f], NextAssetId' = NextAssetId
    PROVE  AssetsKept
<1> DEFINE asset == [Assets[a] EXCEPT !.is_locked = f]
<1>1. asset \in RWAAsset /\ asset.is_sold = Assets[a].is_sold
  BY AssetFlags
<1>2. Assets' = [Assets EXCEPT ![a] = asset]
  BY DEF RegistryOK
<1> HIDE DEF asset
<1> QED BY <1>1, <1>2, AssetUpdate

\* mark_sold and buy_privately.
LEMMA SetSold ==
    ASSUME RegistryOK, NEW a \in AssetIds, internal_mark_sold(a), NextAssetId' = NextAssetId
    PROVE  AssetsKept /\ IsSold(a)'
<1> DEFINE asset == [Assets[a] EXCEPT !.is_sold = TRUE]
<1>1. asset \in RWAAsset /\ asset.is_sold
  BY AssetFlags DEF internal_mark_sold
<1>2. Assets' = [Assets EXCEPT ![a] = asset]
  BY DEF RegistryOK, internal_mark_sold
<1> HIDE DEF asset
<1>3. AssetsKept
  BY <1>1, <1>2, AssetUpdate DEF internal_mark_sold
<1>4. Assets'[a] = asset /\ asset # None
  BY <1>1, <1>2, AbsentAssumption DEF RegistryOK
<1> QED BY <1>1, <1>3, <1>4 DEF IsSold

\* A registration takes an id not in use or, at the last id, touches no
\* stable asset.
LEMMA RegisterKeeps ==
    ASSUME RegistryOK, register_asset
    PROVE  AssetsKept
<1> DEFINE asset == [is_locked |-> FALSE, is_sold |-> FALSE]
<1>1. asset \in RWAAsset
  BY DEF RWAAsset
<1>2. /\ Assets' = [Assets EXCEPT ![NextAssetId] = asset]
      /\ NextAssetId' = IF NextAssetId = MaxAssetId THEN MaxAssetId ELSE NextAssetId + 1
  BY DEF register_asset
<1> HIDE DEF asset
<1>3. asset # None
  BY <1>1, AbsentAssumption
<1>4. /\ MaxAssetId \in Nat /\ NextAssetId \in 0..MaxAssetId
      /\ Stable = 0..(MaxAssetId - 1) /\ AssetIds = 0..MaxAssetId
  BY RwaAssumption DEF RegistryOK, Stable, AssetIds
<1>5. \A a \in Stable : a \in AssetIds /\ (a # NextAssetId => Assets'[a] = Assets[a])
  BY <1>2, <1>4 DEF RegistryOK
<1>6. Assets'[NextAssetId] = asset
  BY <1>2 DEF RegistryOK
<1>7. RegistryOK'
  <2>1. Assets' \in [AssetIds -> RWAAsset \cup {None}]
    BY <1>1, <1>2 DEF RegistryOK
  <2>2. NextAssetId' \in AssetIds
    BY <1>2, <1>4
  <2>3. ASSUME NEW a \in Stable PROVE Assets'[a] # None <=> a < NextAssetId'
    <3>1. CASE a = NextAssetId
      BY <1>2, <1>3, <1>4, <1>6, <3>1
    <3>2. CASE a # NextAssetId
      <4>1. Assets'[a] # None <=> a < NextAssetId
        BY <1>5, <3>2 DEF RegistryOK
      <4> QED BY <1>2, <1>4, <3>2, <4>1
    <3> QED BY <3>1, <3>2
  <2> QED BY <2>1, <2>2, <2>3 DEF RegistryOK
<1>8. ASSUME NEW a \in Stable, IsSold(a) PROVE IsSold(a)'
  <2>1. a # NextAssetId
    BY <1>4, <1>8 DEF IsSold, RegistryOK
  <2> QED BY <1>5, <1>8, <2>1 DEF IsSold
<1> QED BY <1>7, <1>8 DEF AssetsKept

\* Every step keeps the registry, and never takes a sale back.
LEMMA NextAssets ==
    ASSUME RwaInv, [RwaNext]_rwaVars
    PROVE  AssetsKept
<1> USE DEF RwaInv
<1>1. CASE register_asset
  BY <1>1, RegisterKeeps
<1>2. ASSUME NEW a \in AssetIds, lock_for_sale(a) PROVE AssetsKept
  BY <1>2, SetLock DEF lock_for_sale
<1>3. ASSUME NEW a \in AssetIds, mark_sold(a) PROVE AssetsKept
  BY <1>3, SetSold DEF mark_sold
<1>4. ASSUME NEW a \in AssetIds, release_after_redemption(a) PROVE AssetsKept
  BY <1>4, SetLock DEF release_after_redemption
<1>5. ASSUME NEW a \in AssetIds, cancel_listing(a) PROVE AssetsKept
  BY <1>5, SetLock DEF cancel_listing, internal_release
<1>6. ASSUME NEW a \in AssetIds, NEW hash, buy_privately(a, hash) PROVE AssetsKept
  BY <1>6, SetSold DEF buy_privately
<1>7. ASSUME NEW a \in AssetIds, NEW n, NEW r, redeem_asset(a, n, r) PROVE AssetsKept
  BY <1>7, SetLock DEF redeem_asset, internal_release
<1>8. CASE \/ \E info \in CompanyInfos : set_company_info(info)
           \/ \E a \in AssetIds : list_asset(a)
           \/ Purchases
           \/ UNCHANGED rwaVars
  <2>1. UNCHANGED <<Assets, NextAssetId>>
    BY <1>8 DEF set_company_info, list_asset, Purchases, xcm_record_purchase,
                redeem_rwa_ownership, rwaVars, registryVars
  <2> QED BY <2>1, RegistryStutter
<1> QED BY <1>1, <1>2, <1>3, <1>4, <1>5, <1>6, <1>7, <1>8
        DEF RwaNext, Registry, Sales

-------------------------------------------------------------------------------
(***************************************************************************)
(* The marketplace                                                         *)
(***************************************************************************)

\* What a step may do to the listing of a stable asset: nothing, or a new
\* listing where nothing was sold, or the one way on from a private sale.
ListingStep(a) ==
    \/ Listings'[a] = Listings[a]
    \/ /\ ~HasStatus(a, "SoldPrivately") /\ ~HasStatus(a, "Redeemed")
       /\ Listings'[a] \in Listing
       /\ Listings'[a].status # "Redeemed"
       /\ Listings'[a].status = "SoldPrivately" => IsSold(a)'
    \/ /\ HasStatus(a, "SoldPrivately")
       /\ Listings'[a] = [Listings[a] EXCEPT !.status = "Redeemed"]

\* Writing one listing is a step of that listing only.
LEMMA ListingUpdate ==
    ASSUME ListingsOK, NEW a \in AssetIds, NEW listing \in Listing,
           Listings' = [Listings EXCEPT ![a] = listing],
           a \in Stable => ListingStep(a)
    PROVE  /\ Listings' \in [AssetIds -> Listing \cup {None}]
           /\ \A b \in Stable : ListingStep(b)
<1>1. \A b \in Stable : b # a => Listings'[b] = Listings[b]
  BY RwaAssumption DEF ListingsOK, Stable, AssetIds
<1>2. \A b \in Stable : ListingStep(b)
  BY <1>1 DEF ListingStep
<1> QED BY <1>2 DEF ListingsOK

\* An asset that is available was not sold, so its listing may be rewritten.
LEMMA ListStep ==
    ASSUME RwaInv, NEW a \in AssetIds, list_asset(a)
    PROVE  /\ Listings' \in [AssetIds -> Listing \cup {None}]
           /\ \A b \in Stable : ListingStep(b)
<1> DEFINE listing == [status |-> "Active", entry_commitment_hash |-> None]
<1>1. listing \in Listing /\ listing.status = "Active"
  BY DEF Listing, ListingStatus
<1>2. Listings' = [Listings EXCEPT ![a] = listing]
  BY DEF list_asset
<1> HIDE DEF listing
<1>3. ~IsSold(a)
  BY DEF list_asset, is_available_for_sale, IsSold
<1>4. a \in Stable => ListingStep(a)
  BY <1>1, <1>2, <1>3 DEF RwaInv, ListingsOK, ListingStep
<1> QED BY <1>1, <1>2, <1>4, ListingUpdate DEF RwaInv

\* Only an active listing can be cancelled.
LEMMA CancelStep ==
    ASSUME RwaInv, NEW a \in AssetIds, cancel_listing(a)
    PROVE  /\ Listings' \in [AssetIds -> Listing \cup {None}]
           /\ \A b \in Stable : ListingStep(b)
<1> DEFINE listing == [Listings[a] EXCEPT !.status = "Cancelled"]
<1>1. Listings[a] \in Listing /\ Listings[a].status = "Active"
  BY DEF cancel_listing, HasStatus, RwaInv, ListingsOK
<1>2. listing \in Listing /\ listing.status = "Cancelled"
  BY <1>1 DEF Listing, ListingStatus
<1>3. Listings' = [Listings EXCEPT ![a] = listing]
  BY DEF cancel_listing, RwaInv, ListingsOK
<1> HIDE DEF listing
<1>4. a \in Stable => ListingStep(a)
  BY <1>1, <1>2, <1>3 DEF RwaInv, ListingsOK, ListingStep, HasStatus
<1> QED BY <1>2, <1>3, <1>4, ListingUpdate DEF RwaInv

\* A private sale marks the asset as sold in the same step.
LEMMA BuyStep ==
    ASSUME RwaInv, NEW a \in AssetIds, NEW hash \in EntryHashes, buy_privately(a, hash)
    PROVE  /\ Listings' \in [AssetIds -> Listing \cup {None}]
           /\ \A b \in Stable : ListingStep(b)
<1> DEFINE listing == [status |-> "SoldPrivately", entry_commitment_hash |-> hash]
<1>1. listing \in Listing /\ listing.status = "SoldPrivately"
  BY DEF Listing, ListingStatus
<1>2. Listings' = [Listings EXCEPT ![a] = listing]
  BY DEF buy_privately
<1> HIDE DEF listing
<1>3. Listings[a].status = "Active"
  BY DEF buy_privately, HasStatus
<1>4. IsSold(a)'
  BY SetSold DEF RwaInv, buy_privately
<1>5. a \in Stable => ListingStep(a)
  BY <1>1, <1>2, <1>3, <1>4 DEF RwaInv, ListingsOK, ListingStep, HasStatus
<1> QED BY <1>1, <1>2, <1>5, ListingUpdate DEF RwaInv

\* A redemption ends a private sale.
LEMMA RedeemStep ==
    ASSUME RwaInv, NEW a \in AssetIds, NEW n, NEW r, redeem_asset(a, n, r)
    PROVE  /\ Listings' \in [AssetIds -> Listing \cup {None}]
           /\ \A b \in Stable : ListingStep(b)
<1> DEFINE listing == [Listings[a] EXCEPT !.status = "Redeemed"]
<1>1. Listings[a] \in Listing /\ HasStatus(a, "SoldPrivately")
  BY DEF redeem_asset, HasStatus, RwaInv, ListingsOK
<1>2. listing \in Listing
  BY <1>1 DEF Listing, ListingStatus
<1>3. Listings' = [Listings EXCEPT ![a] = listing]
  BY DEF redeem_asset, RwaInv, ListingsOK
<1>4. Listings'[a] = listing
  BY <1>3 DEF RwaInv, ListingsOK
<1>5. a \in Stable => ListingStep(a)
  BY <1>1, <1>4 DEF ListingStep
<1> HIDE DEF listing
<1> QED BY <1>2, <1>3, <1>5, ListingUpdate DEF RwaInv

\* Every step keeps the listings typed and takes one of the permitted ways.
LEMMA NextListings ==
    ASSUME RwaInv, [RwaNext]_rwaVars
    PROVE  /\ Listings' \in [AssetIds -> Listing \cup {None}]
           /\ \A b \in Stable : ListingStep(b)
<1>1. CASE Sales
  BY <1>1, ListStep, CancelStep, BuyStep, RedeemStep DEF Sales
<1>2. CASE Registry \/ Purchases \/ UNCHANGED rwaVars
  <2>1. Listings' = Listings
    BY <1>2 DEF Registry, register_asset, lock_for_sale, mark_sold,
                release_after_redemption, set_company_info, Purchases,
                xcm_record_purchase, redeem_rwa_ownership, rwaVars, saleVars
  <2> QED BY <2>1 DEF ListingStep, RwaInv, ListingsOK
<1> QED BY <1>1, <1>2 DEF RwaNext

\* Where a step of a listing leads to.
LEMMA ListingEffect ==
    ASSUME ListingsOK, NEW a \in Stable, ListingStep(a)
    PROVE  /\ HasStatus(a, "SoldPrivately") =>
                /\ Listings'[a].entry_commitment_hash = Listings[a].entry_commitment_hash
                /\ Listings'[a].status \in {"SoldPrivately", "Redeemed"}
           /\ HasStatus(a, "Redeemed") => Listings'[a] = Listings[a]
           /\ HasStatus(a, "Redeemed")' =>
                HasStatus(a, "Redeemed") \/ HasStatus(a, "SoldPrivately")
           /\ HasStatus(a, "SoldPrivately")' => HasStatus(a, "SoldPrivately") \/ IsSold(a)'
<1>1. CASE Listings'[a] = Listings[a]
  BY <1>1 DEF HasStatus
<1>2. CASE /\ ~HasStatus(a, "SoldPrivately") /\ ~HasStatus(a, "Redeemed")
           /\ Listings'[a].status # "Redeemed"
           /\ Listings'[a].status = "SoldPrivately" => IsSold(a)'
  BY <1>2 DEF HasStatus
<1>3. CASE /\ HasStatus(a, "SoldPrivately")
           /\ Listings'[a] = [Listings[a] EXCEPT !.status = "Redeemed"]
  <2>1. Listings[a] \in Listing /\ Listings[a].status = "SoldPrivately"
    BY <1>3, RwaAssumption DEF HasStatus, ListingsOK, Stable, AssetIds
  <2>2. /\ Listings'[a].status = "Redeemed"
        /\ Listings'[a].entry_commitment_hash = Listings[a].entry_commitment_hash
    BY <1>3, <2>1 DEF Listing
  <2> QED BY <1>3, <2>1, <2>2 DEF HasStatus
<1> QED BY <1>1, <1>2, <1>3 DEF ListingStep

\* The marketplace goes on agreeing with the registry.
LEMMA NextListingsOK ==
    ASSUME RwaInv, [RwaNext]_rwaVars
    PROVE  ListingsOK'
<1>1. /\ Listings' \in [AssetIds -> Listing \cup {None}]
      /\ \A b \in Stable : ListingStep(b)
  BY NextListings
<1>2. \A a \in Stable : IsSold(a) => IsSold(a)'
  BY NextAssets DEF AssetsKept
<1>3. ASSUME NEW a \in Stable, HasStatus(a, "SoldPrivately")' \/ HasStatus(a, "Redeemed")'
      PROVE  IsSold(a)'
  <2>1. HasStatus(a, "SoldPrivately") \/ HasStatus(a, "Redeemed") \/ IsSold(a)'
    BY <1>1, <1>3, ListingEffect DEF RwaInv
  <2> QED BY <1>2, <2>1 DEF RwaInv, ListingsOK
<1> QED BY <1>1, <1>3 DEF ListingsOK

-------------------------------------------------------------------------------
(***************************************************************************)
(* Claims                                                                  *)
(***************************************************************************)
ClaimVars == <<RedemptionClaims, NullifierUsed>>

\* Only a redemption makes a listing say Redeemed, and nothing takes it back.
LEMMA RedeemedKept ==
    ASSUME RwaInv, NEW a \in AssetIds,
           \/ list_asset(a)
           \/ cancel_listing(a)
           \/ \E hash \in EntryHashes : buy_privately(a, hash)
    PROVE  \A b \in Stable : HasStatus(b, "Redeemed")' <=> HasStatus(b, "Redeemed")
<1> SUFFICES ASSUME NEW b \in Stable
             PROVE  HasStatus(b, "Redeemed")' <=> HasStatus(b, "Redeemed")
  OBVIOUS
<1>1. b \in AssetIds /\ Listings \in [AssetIds -> Listing \cup {None}]
  BY RwaAssumption DEF Stable, AssetIds, RwaInv, ListingsOK
<1>2. CASE b # a
  <2>1. Listings'[b] = Listings[b]
    BY <1>1, <1>2 DEF list_asset, cancel_listing, buy_privately
  <2> QED BY <2>1 DEF HasStatus
<1>3. CASE b = a
  <2>1. ~HasStatus(a, "Redeemed")
    BY <1>3 DEF list_asset, cancel_listing, buy_privately, is_available_for_sale,
                HasStatus, IsSold, RwaInv, ListingsOK
  <2>2. CASE list_asset(a) \/ \E hash \in EntryHashes : buy_privately(a, hash)
    <3>1. Listings'[a].status # "Redeemed"
      BY <1>1, <2>2 DEF list_asset, buy_privately
    <3> QED BY <1>3, <2>1, <3>1 DEF HasStatus
  <2>3. CASE cancel_listing(a)
    <3>1. Listings[a] \in Listing
      BY <1>1, <2>3 DEF cancel_listing, HasStatus
    <3>2. Listings'[a] = [Listings[a] EXCEPT !.status = "Cancelled"]
      BY <1>1, <2>3 DEF cancel_listing
    <3>3. Listings'[a].status = "Cancelled"
      BY <3>1, <3>2 DEF Listing
    <3> QED BY <1>3, <2>1, <3>3 DEF HasStatus
  <2> QED BY <2>2, <2>3
<1> QED BY <1>2, <1>3

\* While claims and redeemed listings stay, so does their correspondence.
LEMMA ClaimsStutter ==
    ASSUME ClaimsOK, UNCHANGED ClaimVars,
           \A b \in Stable : HasStatus(b, "Redeemed")' <=> HasStatus(b, "Redeemed")
    PROVE  ClaimsOK'
<1>1. \A b \in Stable : Claims(b)' = Claims(b)
  BY DEF Claims, ClaimVars
<1> QED BY <1>1 DEF ClaimsOK, ClaimVars

\* A redemption files the first and only claim on its asset.
LEMMA RedeemClaims ==
    ASSUME RwaInv, NEW a \in AssetIds, NEW n \in Nullifiers, NEW r \in Callers,
           redeem_asset(a, n, r)
    PROVE  ClaimsOK'
<1> DEFINE claim == [asset_id |-> a, redeemer |-> r]
<1>1. claim \in RedemptionClaim /\ claim.asset_id = a
  BY DEF RedemptionClaim
<1>2. /\ RedemptionClaims' = [RedemptionClaims EXCEPT ![n] = claim]
      /\ NullifierUsed' = NullifierUsed \cup {n}
      /\ n \notin NullifierUsed
      /\ HasStatus(a, "SoldPrivately")
  BY DEF redeem_asset
<1> HIDE DEF claim
<1>3. claim # None
  BY <1>1, AbsentAssumption
<1>4. RedemptionClaims[n] = None /\ RedemptionClaims \in [Nullifiers -> RedemptionClaim \cup {None}]
  BY <1>2 DEF RwaInv, ClaimsOK
<1>5. /\ RedemptionClaims'[n] = claim
      /\ \A m \in Nullifiers : m # n => RedemptionClaims'[m] = RedemptionClaims[m]
  BY <1>2, <1>4
<1>6. RedemptionClaims' \in [Nullifiers -> RedemptionClaim \cup {None}]
  BY <1>1, <1>2, <1>4
<1>7. \A m \in Nullifiers \ NullifierUsed' : RedemptionClaims'[m] = None
  BY <1>2, <1>5 DEF RwaInv, ClaimsOK
<1>8. ASSUME NEW b \in Stable
      PROVE  IF HasStatus(b, "Redeemed")' THEN \E m \in Nullifiers : Claims(b)' = {m}
                                          ELSE Claims(b)' = {}
  <2>1. Listings \in [AssetIds -> Listing \cup {None}] /\ b \in AssetIds
    BY RwaAssumption DEF RwaInv, ListingsOK, Stable, AssetIds
  <2>2. CASE b = a
    <3>1. Claims(a) = {}
      BY <1>2, <2>2 DEF RwaInv, ClaimsOK, HasStatus
    <3>2. Claims(a)' = {n}
      BY <1>1, <1>3, <1>5, <3>1 DEF Claims
    <3>3. Listings[a] \in Listing
      BY <1>2, <2>1 DEF HasStatus
    <3>4. Listings'[a] = [Listings[a] EXCEPT !.status = "Redeemed"]
      BY <2>1 DEF redeem_asset
    <3>5. Listings'[a] \in Listing /\ Listings'[a].status = "Redeemed"
      BY <3>3, <3>4 DEF Listing, ListingStatus
    <3>6. HasStatus(a, "Redeemed")'
      BY <3>5, AbsentAssumption DEF HasStatus
    <3> QED BY <2>2, <3>2, <3>6
  <2>3. CASE b # a
    <3>1. Claims(b)' = Claims(b)
      BY <1>1, <1>4, <1>5, <2>3 DEF Claims
    <3>2. Listings'[b] = Listings[b]
      BY <2>1, <2>3 DEF redeem_asset
    <3>3. HasStatus(b, "Redeemed")' <=> HasStatus(b, "Redeemed")
      BY <3>2 DEF HasStatus
    <3> QED BY <3>1, <3>3 DEF RwaInv, ClaimsOK
  <2> QED BY <2>2, <2>3
<1> QED BY <1>6, <1>7, <1>8 DEF ClaimsOK

\* Every step keeps claims and redeemed listings in step.
LEMMA NextClaims ==
    ASSUME RwaInv, [RwaNext]_rwaVars
    PROVE  ClaimsOK'
<1>1. ASSUME NEW a \in AssetIds,
             \/ list_asset(a)
             \/ cancel_listing(a)
             \/ \E hash \in EntryHashes : buy_privately(a, hash)
      PROVE  ClaimsOK'
  <2>1. UNCHANGED ClaimVars
    BY <1>1 DEF list_asset, cancel_listing, buy_privately, ClaimVars
  <2> QED BY <1>1, <2>1, RedeemedKept, ClaimsStutter DEF RwaInv
<1>2. CASE Registry \/ Purchases \/ UNCHANGED rwaVars
  <2>1. UNCHANGED <<ClaimVars, Listings>>
    BY <1>2 DEF Registry, register_asset, lock_for_sale, mark_sold,
                release_after_redemption, set_company_info, Purchases,
                xcm_record_purchase, redeem_rwa_ownership, rwaVars, saleVars, ClaimVars
  <2>2. \A b \in Stable : HasStatus(b, "Redeemed")' <=> HasStatus(b, "Redeemed")
    BY <2>1 DEF HasStatus
  <2> QED BY <2>1, <2>2, ClaimsStutter DEF RwaInv
<1> QED BY <1>1, <1>2, RedeemClaims DEF RwaNext, Sales

-------------------------------------------------------------------------------
(***************************************************************************)
(* Purchases announced by the hub                                          *)
(***************************************************************************)

\* What a step may do to the recorded purchases.
PurchasesKept ==
    /\ PurchasesOK'
    /\ \A t \in TxIds : ProofHubPurchases[t] # None =>
         ProofHubPurchases'[t] = ProofHubPurchases[t]

\* A purchase is recorded only under a free tx_id.
LEMMA RecordKeeps ==
    ASSUME PurchasesOK, NEW caller, NEW asset_id \in AssetIds, NEW nullifier \in Nullifiers,
           NEW tx_id \in TxIds, NEW commitment \in OwnershipCommitment,
           xcm_record_purchase(caller, asset_id, nullifier, tx_id, commitment)
    PROVE  PurchasesKept
<1> DEFINE record == [asset_id |-> asset_id, nullifier |-> nullifier,
                      ownership_commitment |-> commitment]
<1>1. record \in ProofHubPurchaseRecord
  BY DEF ProofHubPurchaseRecord
<1>2. /\ ProofHubPurchases' = [ProofHubPurchases EXCEPT ![tx_id] = record]
      /\ ProofHubPurchases[tx_id] = None
      /\ UNCHANGED <<OwnershipRedeemed, releases>>
  BY DEF xcm_record_purchase, PurchaseOk
<1> HIDE DEF record
<1> QED BY <1>1, <1>2 DEF PurchasesOK, PurchasesKept

\* A release is marked in the step that makes it.
LEMMA ReleaseKeeps ==
    ASSUME PurchasesOK, NEW tx_id \in TxIds, NEW blinding,
           redeem_rwa_ownership(tx_id, blinding)
    PROVE  PurchasesKept
<1>1. /\ OwnershipRedeemed' = OwnershipRedeemed \cup {tx_id} /\ tx_id \notin OwnershipRedeemed
      /\ releases' = [releases EXCEPT ![tx_id] = @ + 1]
      /\ ProofHubPurchases' = ProofHubPurchases
  BY DEF redeem_rwa_ownership
<1>2. releases' = [t \in TxIds |-> IF t \in OwnershipRedeemed' THEN 1 ELSE 0]
  BY <1>1 DEF PurchasesOK
<1> QED BY <1>1, <1>2 DEF PurchasesOK, PurchasesKept

\* Every step keeps the recorded purchases.
LEMMA NextPurchases ==
    ASSUME RwaInv, [RwaNext]_rwaVars
    PROVE  PurchasesKept
<1>1. CASE Purchases
  BY <1>1, RecordKeeps, ReleaseKeeps DEF RwaInv, Purchases
<1>2. CASE Registry \/ Sales \/ UNCHANGED rwaVars
  <2>1. UNCHANGED purchaseVars
    BY <1>2 DEF Registry, register_asset, lock_for_sale, mark_sold,
                release_after_redemption, set_company_info, Sales, list_asset,
                cancel_listing, buy_privately, redeem_asset, rwaVars
  <2> QED BY <2>1 DEF RwaInv, PurchasesOK, PurchasesKept, purchaseVars
<1> QED BY <1>1, <1>2 DEF RwaNext

-------------------------------------------------------------------------------
(***************************************************************************)
(* The properties                                                          *)
(***************************************************************************)

\* At genesis nothing is listed, claimed or recorded.
LEMMA RwaInitInv == RwaInit => RwaInv
<1> SUFFICES ASSUME RwaInit PROVE RwaInv
  OBVIOUS
<1>1. RegistryOK
  <2>1. [is_locked |-> TRUE, is_sold |-> FALSE] \in RWAAsset
    BY DEF RWAAsset
  <2>2. [is_locked |-> TRUE, is_sold |-> FALSE] # None
    BY <2>1, AbsentAssumption
  <2> QED BY <2>1, <2>2, RwaAssumption DEF RwaInit, RegistryOK, AssetIds, Stable
<1>2. ListingsOK
  BY RwaAssumption DEF RwaInit, ListingsOK, HasStatus, Stable, AssetIds
<1>3. ClaimsOK
  <2>1. \A a \in Stable : Claims(a) = {} /\ ~HasStatus(a, "Redeemed")
    BY RwaAssumption DEF RwaInit, Claims, HasStatus, Stable, AssetIds
  <2> QED BY <2>1 DEF RwaInit, ClaimsOK
<1>4. PurchasesOK
  BY DEF RwaInit, PurchasesOK
<1> QED BY <1>1, <1>2, <1>3, <1>4 DEF RwaInv

\* Every step preserves the invariant.
LEMMA RwaNextInv == RwaInv /\ [RwaNext]_rwaVars => RwaInv'
<1> SUFFICES ASSUME RwaInv, [RwaNext]_rwaVars PROVE RwaInv'
  OBVIOUS
<1>1. RegistryOK'
  BY NextAssets DEF AssetsKept
<1>2. ListingsOK'
  BY NextListingsOK
<1>3. ClaimsOK'
  BY NextClaims
<1>4. PurchasesOK'
  BY NextPurchases DEF PurchasesKept
<1> QED BY <1>1, <1>2, <1>3, <1>4 DEF RwaInv

\* The inductive invariant holds of every behaviour.
THEOREM RwaInvCorrect == RwaSpec => []RwaInv
  BY RwaInitInv, RwaNextInv, PTL DEF RwaSpec

\* However the admin locks, lists, cancels and marks, an asset below the
\* last id is claimed once, when its listing says Redeemed, and not before.
THEOREM OneClaimCorrect == RwaSpec => []OneClaimPerAsset
<1>1. RwaInv => OneClaimPerAsset
  <2> SUFFICES ASSUME RwaInv, NEW a \in Stable
               PROVE  /\ Cardinality(Claims(a)) = (IF HasStatus(a, "Redeemed") THEN 1 ELSE 0)
                      /\ HasStatus(a, "SoldPrivately") \/ HasStatus(a, "Redeemed")
                           => Assets[a].is_sold
    BY DEF OneClaimPerAsset
  <2>1. CASE HasStatus(a, "Redeemed")
    <3>1. PICK n \in Nullifiers : Claims(a) = {n}
      BY <2>1 DEF RwaInv, ClaimsOK
    <3>2. Cardinality({n}) = 1
      BY FS_Singleton
    <3> QED BY <2>1, <3>1, <3>2 DEF RwaInv, ListingsOK, IsSold
  <2>2. CASE ~HasStatus(a, "Redeemed")
    <3>1. Claims(a) = {}
      BY <2>2 DEF RwaInv, ClaimsOK
    <3>2. Cardinality({}) = 0
      BY FS_EmptySet
    <3> QED BY <2>2, <3>1, <3>2 DEF RwaInv, ListingsOK, IsSold
  <2> QED BY <2>1, <2>2
<1> QED BY <1>1, RwaInvCorrect, PTL

\* No sequence of calls takes a sale or a redemption back.
THEOREM SaleFinalCorrect == RwaSpec => SaleFinal
<1>1. ASSUME RwaInv, [RwaNext]_rwaVars, NEW a \in Stable
      PROVE  /\ Assets[a] # None /\ Assets[a].is_sold => Assets'[a].is_sold
             /\ HasStatus(a, "SoldPrivately") =>
                  Listings'[a].entry_commitment_hash = Listings[a].entry_commitment_hash
                    /\ Listings'[a].status \in {"SoldPrivately", "Redeemed"}
             /\ HasStatus(a, "Redeemed") => Listings'[a] = Listings[a]
  <2>1. IsSold(a) => IsSold(a)'
    BY <1>1, NextAssets DEF AssetsKept
  <2>2. ListingStep(a)
    BY <1>1, NextListings
  <2> QED BY <1>1, <2>1, <2>2, ListingEffect DEF RwaInv, IsSold
<1>2. RwaInv /\ [RwaNext]_rwaVars =>
        [\A a \in Stable :
           /\ Assets[a] # None /\ Assets[a].is_sold => Assets'[a].is_sold
           /\ HasStatus(a, "SoldPrivately") =>
                Listings'[a].entry_commitment_hash = Listings[a].entry_commitment_hash
                  /\ Listings'[a].status \in {"SoldPrivately", "Redeemed"}
           /\ HasStatus(a, "Redeemed") => Listings'[a] = Listings[a]]_rwaVars
  BY <1>1
<1> QED BY <1>2, RwaInvCorrect, PTL DEF RwaSpec, SaleFinal

\* A purchase announced by the hub keeps its first record and is released at
\* most once.
THEOREM ReleasedOnceCorrect == RwaSpec => ReleasedOnce
<1>1. ASSUME RwaInv, [RwaNext]_rwaVars, NEW t \in TxIds
      PROVE  /\ ProofHubPurchases[t] # None => ProofHubPurchases'[t] = ProofHubPurchases[t]
             /\ releases'[t] <= 1
  <2>1. PurchasesKept
    BY <1>1, NextPurchases
  <2>2. releases'[t] \in {0, 1}
    BY <2>1 DEF PurchasesKept, PurchasesOK
  <2> QED BY <2>1, <2>2 DEF PurchasesKept
<1>2. RwaInv /\ [RwaNext]_rwaVars =>
        [\A t \in TxIds :
           /\ ProofHubPurchases[t] # None => ProofHubPurchases'[t] = ProofHubPurchases[t]
           /\ releases'[t] <= 1]_rwaVars
  BY <1>1
<1> QED BY <1>2, RwaInvCorrect, PTL DEF RwaSpec, ReleasedOnce
===============================================================================
