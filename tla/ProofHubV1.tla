------------------------------ MODULE ProofHubV1 ------------------------------
(***************************************************************************)
(* The legacy lane of proofhub/pallets/proofs.  deposit_public always      *)
(* returns LegacyDisabled, so the notes that exist are those deposited     *)
(* before Phase 9 (Legacy) and those made from them; purchase_rwa,         *)
(* purchase_access, withdraw_private and relist_private still spend them.  *)
(*                                                                         *)
(* A BLAKE3 commitment is the pair <<value, blinding>> it hides.  A        *)
(* Poseidon rp_commitment is the value it hides: no check compares its     *)
(* blinding with anything.  An ownership commitment is the pair            *)
(* <<rwa_id, blinding>>.  A spend tag is a key: whoever calls with a tag   *)
(* holds its ML-DSA key.  The roots of the legacy tree and the map         *)
(* SpendTagChangeRpCommitments are left out, as no call reads them; the    *)
(* leaves are kept as their number.                                        *)
(***************************************************************************)
EXTENDS Integers, Sequences, FiniteSets, Currency, XcmDispatch

CONSTANTS
    Accounts, Pool, Endowment,
    Tags,           \* spend tags
    NoteBlindings,
    Amounts,        \* u64 note values
    Legacy,         \* spend tag -> commitment of a note deposited before Phase 9
    Prices, RwaIds, AppIds, TxIds, Nullifiers,
    OwnerBlindings,
    None,
    MaxLegacyLeaves \* bound of Leaves (1048576 in the code)

NoteCommitments == Amounts \X NoteBlindings

OwnershipCommitment == RwaIds \X OwnerBlindings

AppConfig == [price : Prices, payment_account : Accounts]

ASSUME LegacyAssumption ==
    /\ Pool \in Accounts
    /\ Endowment \in [Accounts -> Nat]
    /\ Amounts \subseteq Nat /\ Prices \subseteq Nat
    /\ IsFiniteSet(Tags)
    /\ DOMAIN Legacy \subseteq Tags
    /\ Legacy \in [DOMAIN Legacy -> NoteCommitments]
    /\ \A s, t \in DOMAIN Legacy : Legacy[s] = Legacy[t] => s = t
    /\ MaxLegacyLeaves \in Nat
    /\ Cardinality(DOMAIN Legacy) <= MaxLegacyLeaves

\* An absent value is neither a commitment, nor an index, nor a tag.
ASSUME LegacyNoneAssumption == None \notin NoteCommitments /\ None \notin Nat /\ None \notin Tags

VARIABLES
    balance, burnt,
    NullifierUsed,
    SpendTagCommitments,    \* tag -> commitment or None
    SpendTagRpCommitments,  \* tag -> value or None
    SpendTagUsed,
    CommitmentIndex,        \* commitment -> index or None
    LeafCount,              \* length of Leaves
    RwaPrices, AccessKeyConfigs,
    OwnershipCommitments,   \* tx_id -> ownership commitment or None
    OwnershipUsed,
    sent,                   \* XCM programs handed to the router
    uses                    \* history: tag -> number of spends

noteVars   == <<SpendTagCommitments, CommitmentIndex, LeafCount>>
configVars == <<RwaPrices, AccessKeyConfigs>>
v1vars     == <<balance, burnt, NullifierUsed, noteVars, SpendTagRpCommitments, SpendTagUsed,
                configVars, OwnershipCommitments, OwnershipUsed, sent, uses>>

LegacyIndex == CHOOSE f \in [DOMAIN Legacy -> 0..(Cardinality(DOMAIN Legacy) - 1)] :
                 \A s, t \in DOMAIN Legacy : f[s] = f[t] => s = t

V1Init ==
    /\ balance = Endowment
    /\ burnt = 0
    /\ NullifierUsed = {}
    /\ SpendTagCommitments = [t \in Tags |-> IF t \in DOMAIN Legacy THEN Legacy[t] ELSE None]
    /\ SpendTagRpCommitments = [t \in Tags |-> IF t \in DOMAIN Legacy THEN Legacy[t][1] ELSE None]
    /\ SpendTagUsed = {}
    /\ CommitmentIndex = [c \in NoteCommitments |->
         IF \E t \in DOMAIN Legacy : Legacy[t] = c
         THEN LegacyIndex[CHOOSE t \in DOMAIN Legacy : Legacy[t] = c] ELSE None]
    /\ LeafCount = Cardinality(DOMAIN Legacy)
    /\ RwaPrices = [r \in RwaIds |-> 0]
    /\ AccessKeyConfigs = [a \in AppIds |-> None]
    /\ OwnershipCommitments = [t \in TxIds |-> None]
    /\ OwnershipUsed = {}
    /\ sent = {}
    /\ uses = [t \in Tags |-> 0]

-------------------------------------------------------------------------------
(***************************************************************************)
(* Notes                                                                   *)
(***************************************************************************)
Notes == [tags |-> SpendTagCommitments, index |-> CommitmentIndex, count |-> LeafCount]

\* Fault: the index written is one too high.
do_insert_note_OffByOne(s, commitment, tag) ==
    IF s.index[commitment] # None THEN s
    ELSE [tags  |-> [s.tags EXCEPT ![tag] = commitment],
          index |-> [s.index EXCEPT ![commitment] = s.count + 1],
          count |-> s.count + 1]

\* A commitment that is already indexed is not inserted, and its tag not
\* registered; a tag that is already registered is overwritten.
do_insert_note(s, commitment, tag) ==
    IF s.index[commitment] # None THEN s
    ELSE [tags  |-> [s.tags EXCEPT ![tag] = commitment],
          index |-> [s.index EXCEPT ![commitment] = s.count],
          count |-> s.count + 1]

\* BoundedVec::try_from(..).unwrap_or_default(): one leaf too many and the
\* stored vector starts again from nothing.
commit_merkle(s) ==
    /\ SpendTagCommitments' = s.tags
    /\ CommitmentIndex' = s.index
    /\ LeafCount' = IF s.count > MaxLegacyLeaves THEN 0 ELSE s.count

verify_commitment(value, blinding, commitment) == commitment = <<value, blinding>>

\* PurchaseAir checks that v >= price.  Its comments promise as much for the
\* change, but the bridge row switches every constraint off, and the row
\* after it fixes only the first column: the value under the change
\* commitment is free, so any commitment with a known opening will do.
verify_purchase_proof(rp, price) == rp >= price

\* Fault: the tag is not marked.
SpendTag_Unmarked(tag) ==
    /\ SpendTagCommitments[tag] # None
    /\ tag \notin SpendTagUsed
    /\ uses' = [uses EXCEPT ![tag] = @ + 1]
    /\ UNCHANGED SpendTagUsed

SpendTag(tag) ==
    /\ SpendTagCommitments[tag] # None
    /\ tag \notin SpendTagUsed
    /\ SpendTagUsed' = SpendTagUsed \cup {tag}
    /\ uses' = [uses EXCEPT ![tag] = @ + 1]

PayFromPool(to, amount) ==
    /\ TransferOk(balance, Pool, to, amount, FALSE)
    /\ balance' = Transfer(balance, Pool, to, amount)
    /\ burnt' = burnt + Dust(balance, Pool, to, amount)

RecordOwnership(tx_id, oc) ==
    OwnershipCommitments' = [OwnershipCommitments EXCEPT ![tx_id] = oc]

-------------------------------------------------------------------------------
(***************************************************************************)
(* Dispatchables                                                           *)
(***************************************************************************)
\* What purchase_rwa and purchase_access share.  `change` is a pair of an
\* optional commitment and an optional tag: a tag must have an
\* rp_commitment, which the proof then names, and both together insert a
\* note.  Nothing is compared with what the purchase leaves over.
Buy(tag, nullifier, price, change) ==
    /\ nullifier \notin NullifierUsed
    /\ SpendTag(tag)
    /\ price > 0
    /\ change.tag # None => SpendTagRpCommitments[change.tag] # None
    /\ SpendTagRpCommitments[tag] # None
    /\ verify_purchase_proof(SpendTagRpCommitments[tag], price)
    /\ NullifierUsed' = NullifierUsed \cup {nullifier}
    /\ IF change.tag # None /\ change.commitment # None
       THEN LET s == do_insert_note(Notes, change.commitment, change.tag) IN
            IF s = Notes THEN UNCHANGED noteVars ELSE commit_merkle(s)
       ELSE UNCHANGED noteVars
    /\ UNCHANGED <<SpendTagRpCommitments, configVars, OwnershipUsed>>

purchase_rwa(tag, nullifier, rwa_id, tx_id, oc, change) ==
    /\ Buy(tag, nullifier, RwaPrices[rwa_id], change)
    /\ RecordOwnership(tx_id, oc)
    /\ sent' = sent \cup {[call |-> EncodePurchase, by |-> tag, old |-> None, new |-> tx_id]}
    /\ UNCHANGED <<balance, burnt>>

purchase_access(tag, nullifier, app_id, tx_id, change) ==
    /\ AccessKeyConfigs[app_id] # None
    /\ Buy(tag, nullifier, AccessKeyConfigs[app_id].price, change)
    /\ PayFromPool(AccessKeyConfigs[app_id].payment_account, AccessKeyConfigs[app_id].price)
    /\ sent' = sent \cup {[call |-> EncodeGrant, by |-> tag, old |-> None, new |-> tx_id]}
    /\ UNCHANGED OwnershipCommitments

withdraw_private(tag, value, blinding, destination) ==
    /\ SpendTag(tag)
    /\ verify_commitment(value, blinding, SpendTagCommitments[tag])
    /\ PayFromPool(destination, value)
    /\ UNCHANGED <<NullifierUsed, noteVars, SpendTagRpCommitments, configVars,
                   OwnershipCommitments, OwnershipUsed, sent>>

\* Fault: the change is not compared with what is left of the buyer's note.
ChangeOk_Any(buyer, price, change) ==
    buyer[1] > price => change.tag # None /\ change.commitment # None

\* With money left over, the change must be what is left.
ChangeOk(buyer, price, change) ==
    buyer[1] > price =>
        /\ change.tag # None /\ change.commitment # None
        /\ change.commitment[1] = buyer[1] - price

\* Fault: the sold ownership is not consumed.
ConsumeOwnership_Unmarked(tx_id, oc) ==
    /\ OwnershipCommitments[tx_id] = oc
    /\ tx_id \notin OwnershipUsed
    /\ UNCHANGED OwnershipUsed

\* The seller shows the commitment stored under tx_id.
ConsumeOwnership(tx_id, oc) ==
    /\ OwnershipCommitments[tx_id] = oc
    /\ tx_id \notin OwnershipUsed
    /\ OwnershipUsed' = OwnershipUsed \cup {tx_id}

relist_private(old_tx_id, oc, buyerTag, buyer, price, payment, payTag, change, newOc, new_tx_id) ==
    /\ ConsumeOwnership(old_tx_id, oc)
    /\ SpendTag(buyerTag)
    /\ verify_commitment(buyer[1], buyer[2], SpendTagCommitments[buyerTag])
    /\ buyer[1] >= price
    /\ ChangeOk(buyer, price, change)
    /\ payment[1] = price
    /\ CommitmentIndex[payment] = None
    /\ LET paid == do_insert_note(Notes, payment, payTag)
       IN  commit_merkle(IF buyer[1] > price
                         THEN do_insert_note(paid, change.commitment, change.tag) ELSE paid)
    /\ RecordOwnership(new_tx_id, newOc)
    /\ sent' = sent \cup {[call |-> EncodeTransfer, by |-> buyerTag, old |-> old_tx_id,
                           new |-> new_tx_id]}
    /\ UNCHANGED <<balance, burnt, NullifierUsed, SpendTagRpCommitments, configVars>>

\* Root origin.
set_price(rwa_id, price) ==
    /\ RwaPrices' = [RwaPrices EXCEPT ![rwa_id] = price]
    /\ UNCHANGED <<balance, burnt, NullifierUsed, noteVars, SpendTagRpCommitments, SpendTagUsed,
                   AccessKeyConfigs, OwnershipCommitments, OwnershipUsed, sent, uses>>

set_config(app_id, cfg) ==
    /\ AccessKeyConfigs' = [AccessKeyConfigs EXCEPT ![app_id] = cfg]
    /\ UNCHANGED <<balance, burnt, NullifierUsed, noteVars, SpendTagRpCommitments, SpendTagUsed,
                   RwaPrices, OwnershipCommitments, OwnershipUsed, sent, uses>>

-------------------------------------------------------------------------------
\* Inputs that a call's first checks refuse are not enumerated.
Held    == {t \in Tags \ SpendTagUsed : SpendTagCommitments[t] # None}
Owned   == {t \in TxIds \ OwnershipUsed : OwnershipCommitments[t] # None}
Indexed == {c \in NoteCommitments : CommitmentIndex[c] # None}

NoChange == [commitment |-> None, tag |-> None]
Changes  == [commitment : NoteCommitments \cup {None},
             tag : {t \in Tags : SpendTagRpCommitments[t] # None}] \cup {NoChange}

PurchaseRwa ==
    \E tag \in Held, nullifier \in Nullifiers \ NullifierUsed, rwa_id \in RwaIds :
    \E change \in Changes, tx_id \in TxIds, oc \in OwnershipCommitment :
        purchase_rwa(tag, nullifier, rwa_id, tx_id, oc, change)

PurchaseAccess ==
    \E tag \in Held, nullifier \in Nullifiers \ NullifierUsed, app_id \in AppIds :
    \E change \in Changes, tx_id \in TxIds :
        purchase_access(tag, nullifier, app_id, tx_id, change)

Withdraw ==
    \E tag \in Held, destination \in Accounts :
        withdraw_private(tag, SpendTagCommitments[tag][1], SpendTagCommitments[tag][2],
                         destination)

Relist ==
    \E old_tx_id \in Owned, buyerTag \in Held, payment \in NoteCommitments \ Indexed :
    \E change \in IF SpendTagCommitments[buyerTag][1] = payment[1] THEN {NoChange}
                  ELSE [commitment : NoteCommitments, tag : Tags] :
    \E paymentTag \in Tags, new_tx_id \in TxIds, newOc \in OwnershipCommitment :
        relist_private(old_tx_id, OwnershipCommitments[old_tx_id], buyerTag,
                       SpendTagCommitments[buyerTag], payment[1], payment, paymentTag,
                       change, newOc, new_tx_id)

SetPrice  == \E rwa_id \in RwaIds, price \in Prices : set_price(rwa_id, price)
SetConfig == \E app_id \in AppIds, cfg \in AppConfig : set_config(app_id, cfg)

V1Next == PurchaseRwa \/ PurchaseAccess \/ Withdraw \/ Relist \/ SetPrice \/ SetConfig

V1Spec == V1Init /\ [][V1Next]_v1vars

-------------------------------------------------------------------------------
(***************************************************************************)
(* Properties                                                              *)
(***************************************************************************)

\* "A spend_tag can only be used once, regardless of the nullifier": the
\* four spending calls share one guard, and a later payment or change note
\* registered under a spent tag does not reopen it.
TagSpentOnce ==
    \A t \in Tags : uses[t] = (IF t \in SpendTagUsed THEN 1 ELSE 0)

Transfers == {m \in sent : m.call = EncodeTransfer}

\* An ownership is resold at most once: "once a tx_id is relisted, the
\* original ownership_commitment is consumed and cannot be used again",
\* also when the same tx_id is given a new commitment afterwards.
ResoldOnce ==
    /\ \A m1, m2 \in Transfers : m1.old = m2.old => m1 = m2
    /\ \A m \in Transfers : m.old \in OwnershipUsed

\* What the note registered under each tag may still claim.
Worth == [t \in Tags |-> IF t \in Held THEN SpendTagCommitments[t][1] ELSE 0]

\* A resale never creates value: what the reseller's payment and the
\* buyer's change may claim together is at most what the buyer's note
\* could, also when a tag is reused or the change is already in the tree.
RelistConserves ==
    [][Transfers' # Transfers => SumFunction(Worth') <= SumFunction(Worth)]_v1vars

\* The vector of leaves stays within its bound, and until it overflows,
\* and is then replaced by an empty one, each note has a place of its own
\* in it.
LegacyPlaces ==
    /\ LeafCount <= MaxLegacyLeaves
    /\ LeafCount >= Cardinality(Indexed) =>
        \A c, d \in Indexed : /\ CommitmentIndex[c] < LeafCount
                              /\ CommitmentIndex[c] = CommitmentIndex[d] => c = d

\* "Send XCM to RWA chain to transfer an ownership record from old_tx_id to
\* new_tx_id": the program names a call the RWA chain has (send_transfer).
TransferExecutable == \A m \in Transfers : Decodes(m.call, RwaCalls)
===============================================================================
