--------------------------- MODULE ProofHubV1_proofs ---------------------------
(***************************************************************************)
(* Proofs about the legacy lane, for every set of tags and legacy notes,   *)
(* every commitment and tx_id a caller may reuse, and every bound on the   *)
(* leaves.                                                                 *)
(***************************************************************************)
EXTENDS ProofHubV1, PoolFacts, TLAPS

\* The notes as do_insert_note finds and leaves them.  As long as every
\* indexed note is counted the places are those of a vector; once the vector
\* started again from nothing the count stays behind for ever.
Entries(s) == {c \in NoteCommitments : s.index[c] # None}

PlacesOf(s) ==
    /\ \A c \in Entries(s) : s.index[c] < s.count
    /\ \A c, d \in Entries(s) : s.index[c] = s.index[d] => c = d

NotesOK(s) ==
    /\ s.tags \in [Tags -> NoteCommitments \cup {None}]
    /\ s.index \in [NoteCommitments -> Nat \cup {None}]
    /\ s.count \in Nat
    /\ IsFiniteSet(Entries(s))
    /\ \/ s.count < Cardinality(Entries(s))
       \/ s.count = Cardinality(Entries(s)) /\ PlacesOf(s)

SpendsOK == SpendTagUsed \subseteq Tags /\ uses \in [Tags -> Nat] /\ TagSpentOnce

V1Inv ==
    /\ NotesOK(Notes) /\ LeafCount <= MaxLegacyLeaves
    /\ SpendsOK
    /\ ResoldOnce

-------------------------------------------------------------------------------
(***************************************************************************)
(* Notes                                                                   *)
(***************************************************************************)

\* An insertion gives a new commitment the next place and leaves all others
\* where they are, whatever tag it is registered under.
LEMMA InsertOK ==
    ASSUME NEW s, NotesOK(s), NEW c \in NoteCommitments, NEW tag \in Tags
    PROVE  NotesOK(do_insert_note(s, c, tag))
<1> DEFINE r == do_insert_note(s, c, tag)
<1>1. CASE s.index[c] # None
  BY <1>1 DEF do_insert_note
<1>2. CASE s.index[c] = None
  <2>1. /\ r.tags = [s.tags EXCEPT ![tag] = c]
        /\ r.index = [s.index EXCEPT ![c] = s.count]
        /\ r.count = s.count + 1
    BY <1>2 DEF do_insert_note
  <2>2. /\ s.tags \in [Tags -> NoteCommitments \cup {None}]
        /\ s.index \in [NoteCommitments -> Nat \cup {None}]
        /\ s.count \in Nat /\ IsFiniteSet(Entries(s))
    BY DEF NotesOK
  <2> HIDE DEF r
  <2>3. Entries(r) = Entries(s) \cup {c} /\ c \notin Entries(s)
    BY <1>2, <2>1, <2>2, LegacyNoneAssumption DEF Entries
  <2>4. /\ IsFiniteSet(Entries(r))
        /\ Cardinality(Entries(r)) = Cardinality(Entries(s)) + 1
        /\ Cardinality(Entries(s)) \in Nat
    BY <2>2, <2>3, FS_AddElement, FS_CardinalityType
  <2>5. PlacesOf(s) => PlacesOf(r)
    <3> SUFFICES ASSUME PlacesOf(s) PROVE PlacesOf(r)
      OBVIOUS
    <3>1. \A e \in Entries(s) : /\ r.index[e] = s.index[e] /\ s.index[e] \in Nat
                                /\ s.index[e] < s.count
      BY <2>1, <2>2, <2>3 DEF Entries, PlacesOf
    <3>2. r.index[c] = s.count
      BY <2>1, <2>2
    <3>3. \A d, e \in Entries(s) : s.index[d] = s.index[e] => d = e
      BY DEF PlacesOf
    <3> QED BY <2>1, <2>2, <2>3, <3>1, <3>2, <3>3 DEF PlacesOf
  <2>6. r.tags \in [Tags -> NoteCommitments \cup {None}]
    BY <2>1, <2>2
  <2>7. r.index \in [NoteCommitments -> Nat \cup {None}] /\ r.count \in Nat
    BY <2>1, <2>2
  <2>8. \/ r.count < Cardinality(Entries(r))
        \/ r.count = Cardinality(Entries(r)) /\ PlacesOf(r)
    BY <2>1, <2>2, <2>4, <2>5 DEF NotesOK
  <2> QED BY <2>4, <2>6, <2>7, <2>8 DEF NotesOK, r
<1> QED BY <1>1, <1>2

\* Storing the leaves: within the bound nothing is lost, above it the vector
\* is replaced by an empty one.
LEMMA CommitOK ==
    ASSUME NEW s, NotesOK(s), commit_merkle(s)
    PROVE  NotesOK(Notes)' /\ LeafCount' <= MaxLegacyLeaves
<1>1. /\ Notes'.tags = s.tags /\ Notes'.index = s.index
      /\ Notes'.count = (IF s.count > MaxLegacyLeaves THEN 0 ELSE s.count)
      /\ LeafCount' = Notes'.count
  BY DEF commit_merkle, Notes
<1>2. Entries(Notes)' = Entries(s) /\ (Notes'.count = s.count => (PlacesOf(Notes)' <=> PlacesOf(s)))
  BY <1>1 DEF Entries, PlacesOf
<1>3. /\ s.count \in Nat /\ MaxLegacyLeaves \in Nat
      /\ IsFiniteSet(Entries(s)) /\ Cardinality(Entries(s)) \in Nat
      /\ s.count <= Cardinality(Entries(s))
  BY LegacyAssumption, FS_CardinalityType DEF NotesOK
<1>4. Notes'.count \in Nat /\ LeafCount' <= MaxLegacyLeaves
  BY <1>1, <1>3
<1>5. \/ Notes'.count < Cardinality(Entries(s))
      \/ Notes'.count = Cardinality(Entries(s)) /\ PlacesOf(Notes)'
  <2>1. CASE s.count > MaxLegacyLeaves
    BY <1>1, <1>3, <2>1
  <2>2. CASE ~ (s.count > MaxLegacyLeaves)
    BY <1>1, <1>2, <2>2 DEF NotesOK
  <2> QED BY <2>1, <2>2
<1> QED BY <1>1, <1>2, <1>3, <1>4, <1>5 DEF NotesOK

LEMMA NotesKept ==
    ASSUME NotesOK(Notes), LeafCount <= MaxLegacyLeaves, UNCHANGED noteVars
    PROVE  NotesOK(Notes)' /\ LeafCount' <= MaxLegacyLeaves
<1>1. Notes' = Notes /\ LeafCount' = LeafCount
  BY DEF Notes, noteVars
<1> QED BY <1>1 DEF NotesOK, Entries, PlacesOf

\* LegacyIndex numbers the legacy notes from 0.
LEMMA LegacyNumbered ==
    /\ IsFiniteSet(DOMAIN Legacy) /\ Cardinality(DOMAIN Legacy) \in Nat
    /\ LegacyIndex \in [DOMAIN Legacy -> 0..(Cardinality(DOMAIN Legacy) - 1)]
    /\ \A s, t \in DOMAIN Legacy : LegacyIndex[s] = LegacyIndex[t] => s = t
<1> DEFINE D == DOMAIN Legacy
           n == Cardinality(D)
<1>1. IsFiniteSet(D) /\ n \in Nat
  BY LegacyAssumption, FS_Subset, FS_CardinalityType
<1>2. PICK b : b \in Bijection(1..n, D)
  BY <1>1, FS_CardinalityType DEF ExistsBijection
<1>3. \A t \in D : \E i \in 1..n : b[i] = t
  BY <1>2 DEF Bijection, Surjection
<1>4. b \in [1..n -> D]
  BY <1>2 DEF Bijection, Injection
<1> HIDE DEF D, n
<1> DEFINE at(t) == CHOOSE i \in 1..n : b[i] = t
           f == [t \in D |-> at(t) - 1]
<1>5. \A t \in D : at(t) \in 1..n /\ b[at(t)] = t
  BY <1>3
<1> HIDE DEF at
<1>6. f \in [D -> 0..(n - 1)]
  BY <1>1, <1>5
<1>7. \A s, t \in D : f[s] = f[t] => s = t
  <2> SUFFICES ASSUME NEW s \in D, NEW t \in D, f[s] = f[t] PROVE s = t
    OBVIOUS
  <2>1. at(s) - 1 = at(t) - 1
    OBVIOUS
  <2>2. at(s) \in Int /\ at(t) \in Int
    BY <1>1, <1>5
  <2>3. at(s) = at(t)
    BY <2>1, <2>2
  <2> QED BY <1>5, <2>3
<1>8. \E g \in [D -> 0..(n - 1)] : \A s, t \in D : g[s] = g[t] => s = t
  BY <1>6, <1>7
<1> QED BY <1>1, <1>8 DEF LegacyIndex, D, n

LEMMA NotesInit == V1Init => NotesOK(Notes) /\ LeafCount <= MaxLegacyLeaves
<1> SUFFICES ASSUME V1Init PROVE NotesOK(Notes) /\ LeafCount <= MaxLegacyLeaves
  OBVIOUS
<1> DEFINE D == DOMAIN Legacy
           n == Cardinality(D)
           E == {Legacy[t] : t \in D}
           tagOf(c) == CHOOSE t \in D : Legacy[t] = c
<1>1. /\ n \in Nat /\ n <= MaxLegacyLeaves /\ MaxLegacyLeaves \in Nat
      /\ D \subseteq Tags /\ Legacy \in [D -> NoteCommitments]
      /\ \A s, t \in D : Legacy[s] = Legacy[t] => s = t
  BY LegacyAssumption, LegacyNumbered
<1>2. /\ LegacyIndex \in [D -> 0..(n - 1)]
      /\ \A s, t \in D : LegacyIndex[s] = LegacyIndex[t] => s = t
  BY LegacyNumbered
<1>3. \A c \in E : tagOf(c) \in D /\ Legacy[tagOf(c)] = c
  OBVIOUS
<1>4. /\ Notes.tags = [t \in Tags |-> IF t \in D THEN Legacy[t] ELSE None]
      /\ Notes.index = [c \in NoteCommitments |->
                          IF c \in E THEN LegacyIndex[tagOf(c)] ELSE None]
      /\ Notes.count = n /\ LeafCount = n
  <2>1. \A c \in NoteCommitments : c \in E <=> \E t \in DOMAIN Legacy : Legacy[t] = c
    OBVIOUS
  <2> QED BY <2>1 DEF V1Init, Notes
<1> HIDE DEF D, n, E, tagOf
<1>5. E \subseteq NoteCommitments
  BY <1>1 DEF E
<1>6. \A c \in E : Notes.index[c] = LegacyIndex[tagOf(c)] /\ Notes.index[c] \in 0..(n - 1)
  BY <1>2, <1>3, <1>4, <1>5
<1>7. Entries(Notes) = E
  <2>1. \A c \in E : Notes.index[c] # None
    BY <1>1, <1>6, LegacyNoneAssumption
  <2>2. \A c \in NoteCommitments \ E : Notes.index[c] = None
    BY <1>4
  <2> QED BY <1>5, <2>1, <2>2 DEF Entries
<1>8. IsFiniteSet(E) /\ Cardinality(E) = n
  <2>1. Legacy \in [D -> E] /\ \A c \in E : \E t \in D : Legacy[t] = c
    BY <1>1 DEF E
  <2>3. Legacy \in Injection(D, E)
    BY <1>1, <2>1 DEF Injection, IsInjective
  <2>4. Legacy \in Surjection(D, E)
    BY <2>1 DEF Surjection
  <2>2. IsFiniteSet(D)
    BY LegacyNumbered DEF D
  <2> QED BY <2>2, <2>3, <2>4, FS_Bijection DEF ExistsBijection, Bijection, n
<1>9. PlacesOf(Notes)
  <2>1. \A c \in E : Notes.index[c] < Notes.count
    BY <1>1, <1>4, <1>6
  <2>2. ASSUME NEW c \in E, NEW d \in E, Notes.index[c] = Notes.index[d] PROVE c = d
    <3>1. tagOf(c) = tagOf(d)
      BY <1>2, <1>3, <1>6, <2>2
    <3> QED BY <1>3, <3>1
  <2> QED BY <1>7, <2>1, <2>2 DEF PlacesOf
<1>10. Notes.tags \in [Tags -> NoteCommitments \cup {None}]
  BY <1>1, <1>4
<1>11. Notes.index \in [NoteCommitments -> Nat \cup {None}]
  <2>1. \A c \in NoteCommitments : Notes.index[c] \in Nat \cup {None}
    <3> SUFFICES ASSUME NEW c \in NoteCommitments PROVE Notes.index[c] \in Nat \cup {None}
      OBVIOUS
    <3>1. CASE c \in E
      <4>1. Notes.index[c] \in 0..(n - 1)
        BY <1>6, <3>1
      <4> QED BY <1>1, <4>1
    <3>2. CASE c \notin E
      BY <1>4, <3>2
    <3> QED BY <3>1, <3>2
  <2> QED BY <1>4, <2>1
<1> QED BY <1>1, <1>4, <1>7, <1>8, <1>9, <1>10, <1>11 DEF NotesOK

-------------------------------------------------------------------------------
(***************************************************************************)
(* The calls                                                               *)
(***************************************************************************)

\* The guard the four spending calls share (SpendTagUsed).
LEMMA SpendStep ==
    ASSUME SpendsOK, NEW tag \in Tags, SpendTag(tag)
    PROVE  SpendsOK'
<1>1. /\ SpendTagUsed \subseteq Tags /\ uses \in [Tags -> Nat]
      /\ \A t \in Tags : uses[t] = (IF t \in SpendTagUsed THEN 1 ELSE 0)
  BY DEF SpendsOK, TagSpentOnce
<1>2. /\ tag \notin SpendTagUsed /\ SpendTagUsed' = SpendTagUsed \cup {tag}
      /\ uses' = [uses EXCEPT ![tag] = @ + 1]
  BY DEF SpendTag
<1>3. SpendTagUsed' \subseteq Tags /\ uses' \in [Tags -> Nat]
  BY <1>1, <1>2
<1>4. \A t \in Tags : uses'[t] = (IF t \in SpendTagUsed' THEN 1 ELSE 0)
  BY <1>1, <1>2
<1> QED BY <1>3, <1>4 DEF SpendsOK, TagSpentOnce

\* A program that is not a transfer leaves the resales as they are.
LEMMA OtherProgram ==
    ASSUME NEW call \in {EncodePurchase, EncodeGrant}, NEW by, NEW tx_id,
           sent' = sent \cup {[call |-> call, by |-> by, old |-> None, new |-> tx_id]}
    PROVE  Transfers' = Transfers
<1>1. call # EncodeTransfer
  BY DEF EncodePurchase, EncodeGrant, EncodeTransfer, Call
<1> QED BY <1>1 DEF Transfers

LEMMA ResalesKept ==
    ASSUME ResoldOnce, Transfers' = Transfers, OwnershipUsed' = OwnershipUsed
    PROVE  ResoldOnce'
BY DEF ResoldOnce

\* What purchase_rwa and purchase_access do to the notes and the tags.
LEMMA BuyStep ==
    ASSUME V1Inv, NEW tag \in Tags, NEW nullifier, NEW price, NEW change \in Changes,
           Buy(tag, nullifier, price, change)
    PROVE  /\ NotesOK(Notes)' /\ LeafCount' <= MaxLegacyLeaves
           /\ SpendsOK' /\ OwnershipUsed' = OwnershipUsed
<1>1. NotesOK(Notes) /\ LeafCount <= MaxLegacyLeaves /\ SpendsOK
  BY DEF V1Inv
<1>2. SpendsOK' /\ OwnershipUsed' = OwnershipUsed
  BY <1>1, SpendStep DEF Buy
<1>3. CASE UNCHANGED noteVars
  BY <1>1, <1>2, <1>3, NotesKept
<1>4. CASE /\ change.tag # None /\ change.commitment # None
           /\ commit_merkle(do_insert_note(Notes, change.commitment, change.tag))
  <2>1. change.tag \in Tags /\ change.commitment \in NoteCommitments
    BY <1>4 DEF Changes, NoChange
  <2>2. NotesOK(do_insert_note(Notes, change.commitment, change.tag))
    BY <1>1, <2>1, InsertOK
  <2> QED BY <1>2, <1>4, <2>2, CommitOK
<1> QED BY <1>3, <1>4 DEF Buy

LEMMA PurchaseRwaInv == V1Inv /\ PurchaseRwa => V1Inv' /\ Transfers' = Transfers
<1> SUFFICES ASSUME V1Inv, NEW tag \in Held, NEW nullifier \in Nullifiers, NEW rwa_id \in RwaIds,
                    NEW change \in Changes, NEW tx_id \in TxIds, NEW oc \in OwnershipCommitment,
                    purchase_rwa(tag, nullifier, rwa_id, tx_id, oc, change)
             PROVE  V1Inv' /\ Transfers' = Transfers
  BY DEF PurchaseRwa
<1>1. tag \in Tags /\ Buy(tag, nullifier, RwaPrices[rwa_id], change)
  BY DEF Held, purchase_rwa
<1>2. Transfers' = Transfers
  BY OtherProgram DEF purchase_rwa
<1>3. ResoldOnce
  BY DEF V1Inv
<1> QED BY <1>1, <1>2, <1>3, BuyStep, ResalesKept DEF V1Inv

LEMMA PurchaseAccessInv == V1Inv /\ PurchaseAccess => V1Inv' /\ Transfers' = Transfers
<1> SUFFICES ASSUME V1Inv, NEW tag \in Held, NEW nullifier \in Nullifiers, NEW app_id \in AppIds,
                    NEW change \in Changes, NEW tx_id \in TxIds,
                    purchase_access(tag, nullifier, app_id, tx_id, change)
             PROVE  V1Inv' /\ Transfers' = Transfers
  BY DEF PurchaseAccess
<1>1. tag \in Tags /\ Buy(tag, nullifier, AccessKeyConfigs[app_id].price, change)
  BY DEF Held, purchase_access
<1>2. Transfers' = Transfers
  BY OtherProgram DEF purchase_access
<1>3. ResoldOnce
  BY DEF V1Inv
<1> QED BY <1>1, <1>2, <1>3, BuyStep, ResalesKept DEF V1Inv

LEMMA WithdrawInv == V1Inv /\ Withdraw => V1Inv' /\ Transfers' = Transfers
<1> SUFFICES ASSUME V1Inv, NEW tag \in Held, NEW destination \in Accounts,
                    NEW value, NEW blinding,
                    withdraw_private(tag, value, blinding, destination)
             PROVE  V1Inv' /\ Transfers' = Transfers
  BY DEF Withdraw
<1>1. tag \in Tags /\ SpendTag(tag)
  BY DEF Held, withdraw_private
<1>2. UNCHANGED noteVars /\ sent' = sent /\ OwnershipUsed' = OwnershipUsed
  BY DEF withdraw_private
<1>3. Transfers' = Transfers
  BY <1>2 DEF Transfers
<1>4. NotesOK(Notes) /\ LeafCount <= MaxLegacyLeaves /\ SpendsOK /\ ResoldOnce
  BY DEF V1Inv
<1> QED BY <1>1, <1>2, <1>3, <1>4, SpendStep, NotesKept, ResalesKept DEF V1Inv

LEMMA SetConfigInv == V1Inv /\ (SetPrice \/ SetConfig) => V1Inv' /\ Transfers' = Transfers
<1> SUFFICES ASSUME V1Inv, SetPrice \/ SetConfig PROVE V1Inv' /\ Transfers' = Transfers
  OBVIOUS
<1>1. UNCHANGED noteVars /\ UNCHANGED <<SpendTagUsed, uses, sent, OwnershipUsed>>
  BY DEF SetPrice, SetConfig, set_price, set_config
<1>2. Transfers' = Transfers
  BY <1>1 DEF Transfers
<1>3. NotesOK(Notes) /\ LeafCount <= MaxLegacyLeaves /\ SpendsOK /\ ResoldOnce
  BY DEF V1Inv
<1>4. SpendsOK'
  BY <1>1, <1>3 DEF SpendsOK, TagSpentOnce
<1> QED BY <1>1, <1>2, <1>3, <1>4, NotesKept, ResalesKept DEF V1Inv

\* The notes after a resale: the seller's payment, then the buyer's change.
Resold(buyer, price, payment, payTag, change) ==
    LET paid == do_insert_note(Notes, payment, payTag)
    IN  IF buyer[1] > price THEN do_insert_note(paid, change.commitment, change.tag) ELSE paid

LEMMA ResoldOK ==
    ASSUME NotesOK(Notes), NEW buyer, NEW price, NEW payment \in NoteCommitments,
           NEW payTag \in Tags, NEW change,
           buyer[1] > price => change.commitment \in NoteCommitments /\ change.tag \in Tags
    PROVE  NotesOK(Resold(buyer, price, payment, payTag, change))
<1>1. NotesOK(do_insert_note(Notes, payment, payTag))
  BY InsertOK
<1> QED BY <1>1, InsertOK DEF Resold

\* The change of a resale, when there is one, is a note: the pallet asks for
\* both of its parts.
LEMMA ResaleChange ==
    ASSUME V1Inv, NEW buyerTag \in Held, NEW payment \in NoteCommitments,
           NEW change \in IF SpendTagCommitments[buyerTag][1] = payment[1] THEN {NoChange}
                          ELSE [commitment : NoteCommitments, tag : Tags]
    PROVE  /\ SpendTagCommitments[buyerTag] \in NoteCommitments
           /\ SpendTagCommitments[buyerTag][1] > payment[1] =>
                change.commitment \in NoteCommitments /\ change.tag \in Tags
<1>1. SpendTagCommitments[buyerTag] \in NoteCommitments
  BY DEF V1Inv, NotesOK, Notes, Held
<1>2. SpendTagCommitments[buyerTag][1] \in Nat /\ payment[1] \in Nat
  BY <1>1, LegacyAssumption DEF NoteCommitments
<1> QED BY <1>1, <1>2

LEMMA RelistInv == V1Inv /\ Relist => V1Inv'
<1> SUFFICES ASSUME V1Inv,
                    NEW old_tx_id \in Owned, NEW buyerTag \in Held,
                    NEW payment \in NoteCommitments,
                    NEW change \in IF SpendTagCommitments[buyerTag][1] = payment[1]
                                   THEN {NoChange}
                                   ELSE [commitment : NoteCommitments, tag : Tags],
                    NEW payTag \in Tags, NEW new_tx_id \in TxIds, NEW newOc, NEW oc,
                    relist_private(old_tx_id, oc, buyerTag, SpendTagCommitments[buyerTag],
                                   payment[1], payment, payTag, change, newOc, new_tx_id)
             PROVE  V1Inv'
  BY DEF Relist
<1> DEFINE buyer == SpendTagCommitments[buyerTag]
           m == [call |-> EncodeTransfer, by |-> buyerTag, old |-> old_tx_id, new |-> new_tx_id]
<1>1. NotesOK(Notes) /\ SpendsOK /\ ResoldOnce
  BY DEF V1Inv
<1>2. /\ buyerTag \in Tags /\ SpendTag(buyerTag)
      /\ commit_merkle(Resold(buyer, payment[1], payment, payTag, change))
      /\ old_tx_id \notin OwnershipUsed /\ OwnershipUsed' = OwnershipUsed \cup {old_tx_id}
      /\ sent' = sent \cup {m}
  BY DEF relist_private, ConsumeOwnership, Held, Resold
<1>3. NotesOK(Notes)' /\ LeafCount' <= MaxLegacyLeaves
  <2>1. NotesOK(Resold(buyer, payment[1], payment, payTag, change))
    BY <1>1, ResaleChange, ResoldOK
  <2> QED BY <1>2, <2>1, CommitOK
<1>4. SpendsOK'
  BY <1>1, <1>2, SpendStep
<1>5. ResoldOnce'
  <2>1. Transfers' = Transfers \cup {m} /\ m.old = old_tx_id
    BY <1>2 DEF Transfers
  <2>2. \A o \in Transfers : o.old # old_tx_id
    BY <1>1, <1>2 DEF ResoldOnce
  <2> QED BY <1>1, <1>2, <2>1, <2>2 DEF ResoldOnce
<1> QED BY <1>3, <1>4, <1>5 DEF V1Inv

-------------------------------------------------------------------------------
(***************************************************************************)
(* The invariant and its consequences                                      *)
(***************************************************************************)

LEMMA V1InitInv == V1Init => V1Inv
<1> SUFFICES ASSUME V1Init PROVE V1Inv
  OBVIOUS
<1>1. SpendsOK
  BY DEF V1Init, SpendsOK, TagSpentOnce
<1>2. ResoldOnce
  BY DEF V1Init, ResoldOnce, Transfers
<1> QED BY <1>1, <1>2, NotesInit DEF V1Inv

LEMMA V1NextInv == V1Inv /\ [V1Next]_v1vars => V1Inv'
<1> SUFFICES ASSUME V1Inv, [V1Next]_v1vars PROVE V1Inv'
  OBVIOUS
<1>1. CASE PurchaseRwa
  BY <1>1, PurchaseRwaInv
<1>2. CASE PurchaseAccess
  BY <1>2, PurchaseAccessInv
<1>3. CASE Withdraw
  BY <1>3, WithdrawInv
<1>4. CASE Relist
  BY <1>4, RelistInv
<1>5. CASE SetPrice \/ SetConfig
  BY <1>5, SetConfigInv
<1>6. CASE UNCHANGED v1vars
  <2>1. UNCHANGED noteVars /\ UNCHANGED <<SpendTagUsed, uses, sent, OwnershipUsed>>
    BY <1>6 DEF v1vars
  <2>2. NotesOK(Notes) /\ LeafCount <= MaxLegacyLeaves /\ SpendsOK /\ ResoldOnce
    BY DEF V1Inv
  <2>3. SpendsOK' /\ ResoldOnce'
    BY <2>1, <2>2 DEF SpendsOK, TagSpentOnce, ResoldOnce, Transfers
  <2> QED BY <2>1, <2>2, <2>3, NotesKept DEF V1Inv
<1> QED BY <1>1, <1>2, <1>3, <1>4, <1>5, <1>6 DEF V1Next

\* The inductive invariant of the legacy lane: the tags and the index of
\* the leaves as do_insert_note and commit_merkle leave them, with the spent
\* tags and the resales.
THEOREM V1InvCorrect == V1Spec => []V1Inv
BY V1InitInv, V1NextInv, PTL DEF V1Spec

\* No tag is spent twice by the four calls that can spend it, however often
\* a payment or a change note is registered under it (SpendTagUsed).
THEOREM TagSpentOnceCorrect == V1Spec => []TagSpentOnce
<1>1. V1Inv => TagSpentOnce
  BY DEF V1Inv, SpendsOK
<1> QED BY <1>1, V1InvCorrect, PTL

\* No tx_id is resold twice, also when it is given a new commitment after
\* the resale (relist_private, OwnershipUsed).
THEOREM ResoldOnceCorrect == V1Spec => []ResoldOnce
<1>1. V1Inv => ResoldOnce
  BY DEF V1Inv
<1> QED BY <1>1, V1InvCorrect, PTL

\* For every bound on the leaves the stored vector respects it, and until it
\* was replaced by an empty one every indexed note has a place of its own
\* (do_insert_note, commit_merkle).
THEOREM LegacyPlacesCorrect == V1Spec => []LegacyPlaces
<1>1. V1Inv => LegacyPlaces
  <2> SUFFICES ASSUME V1Inv PROVE LegacyPlaces
    OBVIOUS
  <2>1. Entries(Notes) = Indexed /\ Notes.count = LeafCount /\ Notes.index = CommitmentIndex
    BY DEF Entries, Indexed, Notes
  <2>2. NotesOK(Notes) /\ LeafCount <= MaxLegacyLeaves
    BY DEF V1Inv
  <2>3. LeafCount \in Nat /\ Cardinality(Indexed) \in Nat
    BY <2>1, <2>2, FS_CardinalityType DEF NotesOK
  <2>4. LeafCount >= Cardinality(Indexed) => PlacesOf(Notes)
    BY <2>1, <2>2, <2>3 DEF NotesOK
  <2> QED BY <2>1, <2>2, <2>4 DEF LegacyPlaces, PlacesOf
<1> QED BY <1>1, V1InvCorrect, PTL

-------------------------------------------------------------------------------
(***************************************************************************)
(* What the notes may claim                                                *)
(***************************************************************************)

Claims(tags, used) ==
    [t \in Tags |-> IF t \notin used /\ tags[t] # None THEN tags[t][1] ELSE 0]

LEMMA ClaimsAre ==
    ASSUME NEW tags \in [Tags -> NoteCommitments \cup {None}], NEW used
    PROVE  /\ Claims(tags, used) \in [Tags -> Nat]
           /\ SumFunction(Claims(tags, used)) \in Nat
<1>1. \A c \in NoteCommitments : c[1] \in Nat
  BY LegacyAssumption DEF NoteCommitments
<1>2. Claims(tags, used) \in [Tags -> Nat]
  BY <1>1 DEF Claims
<1>3. DOMAIN Claims(tags, used) = Tags /\ \A t \in Tags : Claims(tags, used)[t] \in Nat
  BY <1>2
<1>4. IsFiniteSet(Tags)
  BY LegacyAssumption
<1> QED BY <1>2, <1>3, <1>4, SumType DEF SumFunction

\* A spent tag takes its note's value with it.
LEMMA SpentClaim ==
    ASSUME NEW tags \in [Tags -> NoteCommitments \cup {None}], NEW used,
           NEW x \in Tags \ used, tags[x] # None
    PROVE  SumFunction(Claims(tags, used \cup {x})) + tags[x][1]
             <= SumFunction(Claims(tags, used))
<1> DEFINE f == Claims(tags, used)
           g == Claims(tags, used \cup {x})
<1>1. f \in [Tags -> Nat] /\ g \in [Tags -> Nat]
  BY ClaimsAre
<1>2. \A y \in Tags \ {x} : g[y] = f[y]
  BY DEF Claims
<1>3. g[x] = 0 /\ f[x] = tags[x][1]
  BY DEF Claims
<1>4. IsFiniteSet(Tags)
  BY LegacyAssumption
<1> HIDE DEF f, g
<1>5. tags[x][1] \in Nat /\ g[x] + tags[x][1] <= f[x]
  BY <1>1, <1>3
<1>6. SumFunction(g) + tags[x][1] <= SumFunction(f)
  BY <1>1, <1>2, <1>4, <1>5, SumLower
<1> QED BY <1>6 DEF f, g

\* An insertion adds at most the value of the note, whether the commitment
\* is new, the tag is spent, or the tag held another note.
LEMMA InsertedClaim ==
    ASSUME NEW s, NotesOK(s), NEW used, NEW c \in NoteCommitments, NEW x \in Tags
    PROVE  SumFunction(Claims(do_insert_note(s, c, x).tags, used))
             <= SumFunction(Claims(s.tags, used)) + c[1]
<1> DEFINE f == Claims(s.tags, used)
           g == Claims(do_insert_note(s, c, x).tags, used)
<1>1. /\ s.tags \in [Tags -> NoteCommitments \cup {None}]
      /\ do_insert_note(s, c, x).tags \in [Tags -> NoteCommitments \cup {None}]
  BY InsertOK DEF NotesOK
<1>2. f \in [Tags -> Nat] /\ g \in [Tags -> Nat] /\ c[1] \in Nat
  BY <1>1, ClaimsAre, LegacyAssumption DEF NoteCommitments
<1>3. IsFiniteSet(Tags)
  BY LegacyAssumption
<1>4. \/ do_insert_note(s, c, x).tags = s.tags
      \/ do_insert_note(s, c, x).tags = [s.tags EXCEPT ![x] = c]
  BY DEF do_insert_note
<1>5. \A y \in Tags \ {x} : g[y] = f[y]
  BY <1>1, <1>4 DEF Claims
<1>6. g[x] \in {f[x], c[1], 0}
  BY <1>1, <1>4 DEF Claims
<1> HIDE DEF f, g
<1>7. g[x] <= f[x] + c[1]
  BY <1>2, <1>6
<1>8. SumFunction(g) <= SumFunction(f) + c[1]
  BY <1>2, <1>3, <1>5, <1>7, SumRaise
<1> QED BY <1>8 DEF f, g

LEMMA WorthIs == Worth = Claims(SpendTagCommitments, SpendTagUsed)
BY DEF Worth, Claims, Held

\* A resale replaces the buyer's note by a payment and a change that are
\* together worth no more (relist_private).
LEMMA RelistWorth == V1Inv /\ Relist => SumFunction(Worth') <= SumFunction(Worth)
<1> SUFFICES ASSUME V1Inv,
                    NEW old_tx_id \in Owned, NEW buyerTag \in Held,
                    NEW payment \in NoteCommitments,
                    NEW change \in IF SpendTagCommitments[buyerTag][1] = payment[1]
                                   THEN {NoChange}
                                   ELSE [commitment : NoteCommitments, tag : Tags],
                    NEW payTag \in Tags, NEW new_tx_id \in TxIds, NEW newOc, NEW oc,
                    relist_private(old_tx_id, oc, buyerTag, SpendTagCommitments[buyerTag],
                                   payment[1], payment, payTag, change, newOc, new_tx_id)
             PROVE  SumFunction(Worth') <= SumFunction(Worth)
  BY DEF Relist
<1> DEFINE buyer == SpendTagCommitments[buyerTag]
           used  == SpendTagUsed \cup {buyerTag}
           paid  == do_insert_note(Notes, payment, payTag)
           S0 == SumFunction(Claims(SpendTagCommitments, SpendTagUsed))
           S1 == SumFunction(Claims(SpendTagCommitments, used))
           S2 == SumFunction(Claims(paid.tags, used))
           S3 == SumFunction(Claims(SpendTagCommitments', used))
<1>1. /\ NotesOK(Notes) /\ Notes.tags = SpendTagCommitments
      /\ SpendTagCommitments \in [Tags -> NoteCommitments \cup {None}]
      /\ buyerTag \in Tags \ SpendTagUsed /\ buyer # None
  BY DEF V1Inv, NotesOK, Notes, Held
<1>2. /\ buyer \in NoteCommitments
      /\ buyer[1] > payment[1] => change.commitment \in NoteCommitments /\ change.tag \in Tags
  BY ResaleChange
<1>3. buyer[1] \in Nat /\ payment[1] \in Nat
  BY <1>2, LegacyAssumption DEF NoteCommitments
<1>4. /\ SpendTagUsed' = used
      /\ SpendTagCommitments' =
           (IF buyer[1] > payment[1] THEN do_insert_note(paid, change.commitment, change.tag).tags
            ELSE paid.tags)
      /\ buyer[1] >= payment[1]
      /\ buyer[1] > payment[1] => change.commitment[1] = buyer[1] - payment[1]
  BY DEF relist_private, SpendTag, commit_merkle, ChangeOk
<1>5. NotesOK(paid)
  BY <1>1, InsertOK
<1>6. /\ paid.tags \in [Tags -> NoteCommitments \cup {None}]
      /\ SpendTagCommitments' \in [Tags -> NoteCommitments \cup {None}]
  BY <1>2, <1>4, <1>5, InsertOK DEF NotesOK
<1>7. S0 \in Nat /\ S1 \in Nat /\ S2 \in Nat /\ S3 \in Nat
  BY <1>1, <1>6, ClaimsAre
<1>8. S1 + buyer[1] <= S0
  BY <1>1, SpentClaim
<1>9. S2 <= S1 + payment[1]
  BY <1>1, InsertedClaim
<1>10. S3 <= S2 + (buyer[1] - payment[1])
  <2>1. CASE buyer[1] > payment[1]
    BY <1>2, <1>4, <1>5, <2>1, InsertedClaim
  <2>2. CASE ~ (buyer[1] > payment[1])
    <3>1. S3 = S2 /\ buyer[1] - payment[1] = 0
      BY <1>3, <1>4, <2>2
    <3> QED BY <1>7, <3>1
  <2> QED BY <2>1, <2>2
<1>11. SumFunction(Worth) = S0 /\ SumFunction(Worth') = S3
  <2>1. Worth' = Claims(SpendTagCommitments', SpendTagUsed')
    BY DEF Worth, Claims, Held
  <2> QED BY <1>4, <2>1, WorthIs
<1> HIDE DEF S0, S1, S2, S3, buyer, used, paid
<1> QED BY <1>3, <1>7, <1>8, <1>9, <1>10, <1>11

\* No resale creates value, also when a tag is reused or the change is
\* already in the tree (relist_private).
THEOREM RelistConservesCorrect == V1Spec => RelistConserves
<1>1. V1Inv /\ [V1Next]_v1vars =>
        [Transfers' # Transfers => SumFunction(Worth') <= SumFunction(Worth)]_v1vars
  <2> SUFFICES ASSUME V1Inv, V1Next, Transfers' # Transfers
               PROVE  SumFunction(Worth') <= SumFunction(Worth)
    OBVIOUS
  <2>1. Relist
    BY PurchaseRwaInv, PurchaseAccessInv, WithdrawInv, SetConfigInv DEF V1Next
  <2> QED BY <2>1, RelistWorth
<1> QED BY <1>1, V1InvCorrect, PTL DEF V1Spec, RelistConserves
===============================================================================
