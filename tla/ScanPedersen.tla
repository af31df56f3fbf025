----------------------------- MODULE ScanPedersen -----------------------------
(***************************************************************************)
(* The Pedersen lane of the ScanProof chain's pallet,                      *)
(* scanproof/pallets/proofs: notes v*G + b*H, named openly by their        *)
(* commitment, enter with deposit_public, are split and joined with        *)
(* submit_proof, pay for assets and access with purchase_rwa and           *)
(* purchase_access, and leave with withdraw_private.                       *)
(*                                                                         *)
(* All calls but the deposit are unsigned.  Before an unsigned call runs,  *)
(* also inside a block, FRAME calls validate_unsigned (pre_dispatch), so   *)
(* its checks are guards of the call as much as those of the dispatchable; *)
(* that the nullifiers of a transfer differ is checked nowhere else.       *)
(*                                                                         *)
(* Abstractions of the data (all of the control is kept):                  *)
(*   - a commitment is its opening [v, b]; v is a scalar, written as an    *)
(*     integer: sums of the values of a model stay far below the order of  *)
(*     the group, so that they do not wrap;                                *)
(*   - leaves are never removed, so a root is named by the number of       *)
(*     leaves it commits to; 0 is the root of the empty tree;              *)
(*   - a proof is its witness.                                             *)
(*                                                                         *)
(* The pallet does not check all of the form the documentation gives a     *)
(* call: that the nullifier is derive_nullifier of the note's blinding     *)
(* (lib.rs:914), that the amount a deposit pays, which it reads behind the *)
(* range proof, is the value of the note, and that the change of a         *)
(* purchase commits to a 64-bit value.  The calls below take whatever the  *)
(* pallet takes; the history variable `documented` says whether every call *)
(* so far had the documented form, and the properties about value are      *)
(* stated for the behaviours in which it is true.                          *)
(***************************************************************************)
EXTENDS Integers, Sequences, FiniteSetsExt, Currency

CONSTANTS
    Accounts,       \* AccountIds of the chain
    Pool,           \* T::PoolAccount
    Endowment,      \* balances at genesis
    Blindings,      \* note blindings
    Nullifiers,     \* 32-byte nullifiers a caller may name
    derive_nullifier, \* the documented nullifier of a blinding
    Values,         \* scalars a commitment may open to
    Amounts,        \* those of them that are u64 values
    Prices,         \* u64 prices the root origin may set, 0 to de-list
    RwaIds, AppIds,
    None,           \* absent value
    MaxInputs,      \* inputs of a transfer this model considers
    MaxOutputs,     \* T::MaxOutputs
    MaxLeaves,      \* capacity of Leaves (2^20 in the code)
    RootWindow      \* length of RecentRoots (64 in the code)

ASSUME ScanPedersenAssumption ==
    /\ Pool \in Accounts
    /\ Endowment \in [Accounts -> Nat]
    /\ \A a \in Accounts : Endowment[a] = 0 \/ ExistentialDeposit <= Endowment[a]
    /\ Values \subseteq Int
    /\ Amounts \subseteq Values \cap Nat
    /\ Prices \subseteq Nat
    /\ 0 \in Prices
    /\ derive_nullifier \in [Blindings -> Nullifiers]
    /\ IsFiniteSet(Nullifiers)
    /\ IsFiniteSet(Values)
    /\ {MaxInputs, MaxOutputs, MaxLeaves, RootWindow} \subseteq Nat \ {0}

Notes == [v : Values, b : Blindings]

AppConfig == [price : Prices, payment_account : Accounts]

VARIABLES
    balance,         \* the currency
    NullifierUsed,   \* nullifiers mapped to true
    Leaves,          \* Vec of leaf hashes
    CommitmentIndex, \* commitment -> index
    CurrentRoot,     \* also stored as MerkleRoot
    RecentRoots,
    RootLeafCount,   \* root -> leaves it commits to
    RwaPrices, AccessKeyConfigs,
    sent,            \* XCM programs handed to the router
    burnt,           \* history: dust lost by the pool account
    spends,          \* history: nullifier -> inputs spent against it
    documented       \* history: every call had the documented form

treeVars   == <<Leaves, CommitmentIndex, CurrentRoot, RecentRoots, RootLeafCount>>
configVars == <<RwaPrices, AccessKeyConfigs>>
vars == <<balance, NullifierUsed, treeVars, configVars, sent, burnt, spends, documented>>

\* The nullifier a wallet gives a note.
Nullifier(note) == derive_nullifier[note.b]

SetOf(notes) == {notes[i] : i \in 1..Len(notes)}

Distinct(notes) == Cardinality(SetOf(notes)) = Len(notes)

Total(notes) == SumFunction([i \in 1..Len(notes) |-> notes[i].v])

-------------------------------------------------------------------------------
(***************************************************************************)
(* The tree                                                                *)
(***************************************************************************)
compute_merkle_root(leaves) == Len(leaves)

anchored(root) ==
    root = CurrentRoot \/ \E i \in 1..Len(RecentRoots) : RecentRoots[i] = root

\* Fault: the window is shifted by two.
PushRoot_Two(window, root) ==
    Append(IF Len(window) >= RootWindow THEN SubSeq(window, 3, Len(window)) ELSE window, root)

\* Unlike the v2 lane of ProofHub, the root of the empty tree is pushed too.
PushRoot(window, root) ==
    Append(IF Len(window) >= RootWindow THEN Tail(window) ELSE window, root)

TreeWrite(notes) ==
    /\ Leaves' = Leaves \o notes
    /\ CommitmentIndex' = [n \in DOMAIN CommitmentIndex \cup SetOf(notes) |->
            IF n \in SetOf(notes)
            THEN Len(Leaves) + (CHOOSE i \in 1..Len(notes) : notes[i] = n) - 1
            ELSE CommitmentIndex[n]]
    /\ CurrentRoot' = compute_merkle_root(Leaves')
    /\ RootLeafCount' = [RootLeafCount EXCEPT ![CurrentRoot'] = Len(Leaves')]
    /\ RecentRoots' = PushRoot(RecentRoots, CurrentRoot)

\* Faults: an output may repeat another or a note of the tree; the room is
\* checked for one output only.
Insert_Repeated(notes) == Len(Leaves) + Len(notes) <= MaxLeaves /\ TreeWrite(notes)

Insert_OneFits(notes) ==
    /\ Distinct(notes)
    /\ SetOf(notes) \cap DOMAIN CommitmentIndex = {}
    /\ Len(Leaves) < MaxLeaves
    /\ TreeWrite(notes)

\* New commitments take the next indices; one root is computed for all.
Insert(notes) ==
    /\ Distinct(notes)
    /\ SetOf(notes) \cap DOMAIN CommitmentIndex = {}
    /\ Len(Leaves) + Len(notes) <= MaxLeaves
    /\ TreeWrite(notes)

\* Membership as submit_proof establishes it, by a path to the root or by
\* the index and the count recorded for the root.
MemberUnder(note, root) ==
    note \in DOMAIN CommitmentIndex /\ CommitmentIndex[note] < RootLeafCount[root]

-------------------------------------------------------------------------------
(***************************************************************************)
(* Calls                                                                   *)
(***************************************************************************)
\* Fault: the nullifiers of a transfer may repeat one another.
validate_unsigned_Repeats(nullifiers) == SetOf(nullifiers) \cap NullifierUsed = {}

\* The part of validate_unsigned that the calls do not all repeat.  It says
\* nothing of the inputs: a transfer may name one commitment twice.
validate_unsigned(nullifiers) ==
    /\ SetOf(nullifiers) \cap NullifierUsed = {}
    /\ Distinct(nullifiers)

CountSpends(nullifiers) ==
    spends' = [n \in Nullifiers |->
        spends[n] + Cardinality({i \in 1..Len(nullifiers) : nullifiers[i] = n})]

\* Fault: the nullifiers are not stored.
Strike_Lost(nullifiers) == CountSpends(nullifiers) /\ UNCHANGED NullifierUsed

Strike(nullifiers) ==
    /\ NullifierUsed' = NullifierUsed \cup SetOf(nullifiers)
    /\ CountSpends(nullifiers)

\* The range proof of 64 bits for each commitment.
verify_range_proof(notes) == \A i \in 1..Len(notes) : notes[i].v \in Amounts

\* The opening proof for a price: of the note, or of its difference to the
\* change, which pedersen_subtract computes.
Opens(note, change, price) ==
    note.v = price + (IF change = None THEN 0 ELSE change.v)

InsertChange(change) ==
    IF change = None THEN UNCHANGED treeVars ELSE Insert(<<change>>)

PayFromPool(to, amount) ==
    /\ TransferOk(balance, Pool, to, amount, FALSE)
    /\ balance' = Transfer(balance, Pool, to, amount)
    /\ burnt' = burnt + Dust(balance, Pool, to, amount)

\* The form the documentation gives the spending of one note.
DocumentedSpend(note, nullifier, change) ==
    nullifier = Nullifier(note) /\ (change # None => change.v \in Amounts)

deposit_public(who, note, amount) ==
    /\ verify_range_proof(<<note>>)
    /\ TransferOk(balance, who, Pool, amount, TRUE)
    /\ balance' = Transfer(balance, who, Pool, amount)
    /\ Insert(<<note>>)
    /\ documented' = (documented /\ amount = note.v)
    /\ UNCHANGED <<NullifierUsed, configVars, sent, burnt, spends>>

\* After validate_unsigned, with a nullifier for every input.  A range proof
\* of no commitment is refused, so there is an output.  The new root the
\* caller may announce is either absent or the right one.
submit_proof(ins, nullifiers, outs, anchor) ==
    /\ anchored(anchor)
    /\ Len(outs) \in 1..MaxOutputs
    /\ verify_range_proof(outs)
    /\ Total(ins) = Total(outs)
    /\ \A i \in 1..Len(ins) : MemberUnder(ins[i], anchor)
    /\ Strike(nullifiers)
    /\ Insert(outs)
    /\ documented' = (documented /\ \A i \in 1..Len(ins) : nullifiers[i] = Nullifier(ins[i]))
    /\ UNCHANGED <<balance, configVars, sent, burnt>>

purchase_rwa(note, nullifier, rwa_id, change) ==
    /\ validate_unsigned(<<nullifier>>)
    /\ note \in DOMAIN CommitmentIndex
    /\ RwaPrices[rwa_id] > 0
    /\ Opens(note, change, RwaPrices[rwa_id])
    /\ Strike(<<nullifier>>)
    /\ InsertChange(change)
    /\ sent' = sent \cup {[dest |-> "rwa", id |-> rwa_id, nullifier |-> nullifier]}
    /\ documented' = (documented /\ DocumentedSpend(note, nullifier, change))
    /\ UNCHANGED <<balance, configVars, burnt>>

purchase_access(note, nullifier, app_id, change) ==
    /\ validate_unsigned(<<nullifier>>)
    /\ note \in DOMAIN CommitmentIndex
    /\ AccessKeyConfigs[app_id] # None
    /\ LET cfg == AccessKeyConfigs[app_id] IN
         /\ cfg.price > 0
         /\ Opens(note, change, cfg.price)
         /\ PayFromPool(cfg.payment_account, cfg.price)
    /\ Strike(<<nullifier>>)
    /\ InsertChange(change)
    /\ sent' = sent \cup {[dest |-> "authgate", id |-> app_id, nullifier |-> nullifier]}
    /\ documented' = (documented /\ DocumentedSpend(note, nullifier, change))
    /\ UNCHANGED configVars

\* The value the call names, a u64, is the one the note opens to.
withdraw_private(note, nullifier, destination) ==
    /\ validate_unsigned(<<nullifier>>)
    /\ note \in DOMAIN CommitmentIndex
    /\ note.v \in Amounts
    /\ PayFromPool(destination, note.v)
    /\ Strike(<<nullifier>>)
    /\ documented' = (documented /\ DocumentedSpend(note, nullifier, None))
    /\ UNCHANGED <<treeVars, configVars, sent>>

\* Root origin.
set_rwa_price(rwa_id, price) ==
    /\ RwaPrices' = [RwaPrices EXCEPT ![rwa_id] = price]
    /\ UNCHANGED <<balance, NullifierUsed, treeVars, AccessKeyConfigs, sent, burnt, spends,
                   documented>>

set_access_config(app_id, cfg) ==
    /\ AccessKeyConfigs' = [AccessKeyConfigs EXCEPT ![app_id] = cfg]
    /\ UNCHANGED <<balance, NullifierUsed, treeVars, RwaPrices, sent, burnt, spends,
                   documented>>

-------------------------------------------------------------------------------
Init ==
    /\ balance = Endowment
    /\ NullifierUsed = {}
    /\ Leaves = << >>
    /\ CommitmentIndex = [n \in {} |-> 0]
    /\ CurrentRoot = 0
    /\ RecentRoots = << >>
    /\ RootLeafCount = [root \in 0..MaxLeaves |-> 0]
    /\ RwaPrices = [r \in RwaIds |-> 0]
    /\ AccessKeyConfigs = [a \in AppIds |-> None]
    /\ sent = {}
    /\ burnt = 0
    /\ spends = [n \in Nullifiers |-> 0]
    /\ documented = TRUE

Tuples(S, lens) == UNION {[1..k -> S] : k \in lens}

Deposit ==
    \E who \in Accounts \ {Pool}, note \in Notes, amount \in Amounts :
        deposit_public(who, note, amount)

Submit ==
    \E ins \in Tuples(DOMAIN CommitmentIndex, 0..MaxInputs), anchor \in 0..Len(Leaves) :
    \E nullifiers \in Tuples(Nullifiers, {Len(ins)}) :
        /\ validate_unsigned(nullifiers)
        /\ \E outs \in Tuples(Notes, 1..MaxOutputs) : submit_proof(ins, nullifiers, outs, anchor)

PurchaseRwa ==
    \E note \in DOMAIN CommitmentIndex, nullifier \in Nullifiers, rwa_id \in RwaIds :
    \E change \in Notes \cup {None} : purchase_rwa(note, nullifier, rwa_id, change)

PurchaseAccess ==
    \E note \in DOMAIN CommitmentIndex, nullifier \in Nullifiers, app_id \in AppIds :
    \E change \in Notes \cup {None} : purchase_access(note, nullifier, app_id, change)

Withdraw ==
    \E note \in DOMAIN CommitmentIndex, nullifier \in Nullifiers, to \in Accounts :
        withdraw_private(note, nullifier, to)

SetRwaPrice == \E rwa_id \in RwaIds, price \in Prices : set_rwa_price(rwa_id, price)

SetAccessConfig ==
    \E app_id \in AppIds, cfg \in AppConfig : set_access_config(app_id, cfg)

Next ==
    \/ Deposit
    \/ Submit
    \/ PurchaseRwa
    \/ PurchaseAccess
    \/ Withdraw
    \/ SetRwaPrice
    \/ SetAccessConfig

Spec == Init /\ [][Next]_vars

\* A withdrawal has no expiry (longevity u64::MAX) and names no root: once
\* submitted it waits in the pool until a block takes it.
WithdrawOwn(b) ==
    \E note \in {n \in DOMAIN CommitmentIndex : n.b = b}, to \in Accounts \ {Pool} :
        withdraw_private(note, Nullifier(note), to)

FairSpec == Spec /\ \A b \in Blindings : WF_vars(WithdrawOwn(b))

-------------------------------------------------------------------------------
(***************************************************************************)
(* Properties                                                              *)
(***************************************************************************)

\* The two ways submit_proof establishes membership agree: by a path, for
\* which the leaf must be one of those the root was computed from, and by
\* the index recorded for the commitment with the count recorded for the
\* root, also when one call inserts several leaves under one root, and the
\* leaves stay within the tree.
LanesOfMembershipAgree ==
    /\ Len(Leaves) <= MaxLeaves
    /\ Cardinality(DOMAIN CommitmentIndex) = Len(Leaves)
    /\ \A note \in DOMAIN CommitmentIndex : Leaves[CommitmentIndex[note] + 1] = note
    /\ \A root \in {r \in 0..Len(Leaves) : anchored(r)} : \A note \in DOMAIN CommitmentIndex :
         MemberUnder(note, root) <=> \E i \in 1..root : Leaves[i] = note

\* The current root commits to every leaf, and the window holds the last
\* RootWindow roots before it in the order they were in force: a transfer
\* proved against one of them stays acceptable until that many further
\* calls have inserted notes.
WindowOrdered ==
    /\ CurrentRoot = Len(Leaves) /\ Len(RecentRoots) <= RootWindow
    /\ \A i, j \in 1..Len(RecentRoots) : i < j => RecentRoots[i] < RecentRoots[j]
    /\ \A i \in 1..Len(RecentRoots) : RecentRoots[i] < CurrentRoot
    /\ Len(RecentRoots) < RootWindow =>
         \A r \in 1..Len(Leaves) : RootLeafCount[r] > 0 => anchored(r)
    /\ Leaves # << >> /\ Len(RecentRoots) < RootWindow => anchored(0)

\* Whatever nullifiers callers choose, and in whichever of the four calls,
\* a nullifier that was used was used for one input, and at most one
\* message names it: two spends against one nullifier exclude one another,
\* also as two inputs of one transfer.
NullifierSpentOnce ==
    /\ \A n \in Nullifiers : spends[n] = IF n \in NullifierUsed THEN 1 ELSE 0
    /\ \A m \in sent : m.nullifier \in NullifierUsed
    /\ \A m1, m2 \in sent : m1.nullifier = m2.nullifier => m1 = m2

\* The most that can still be taken out against an unused nullifier: notes
\* that share it can be spent only once between them.
NoteClaim(nullifier) ==
    IF nullifier \in NullifierUsed THEN 0
    ELSE Max({n.v : n \in {m \in DOMAIN CommitmentIndex : Nullifier(m) = nullifier}} \cup {0})

\* As long as the calls have the documented form, the pool account backs
\* every note that can still be spent, up to the dust burnt when it was
\* reaped; a transfer creates no value, although the pallet sees neither
\* the values it joins nor those it makes.
NotesBacked ==
    documented =>
        SumFunction([n \in Nullifiers |-> NoteClaim(n)]) <= balance[Pool] + burnt

Promise == INSTANCE ShieldedPool
    WITH Values <- Amounts, Tags <- Nullifiers, Owners <- Blindings,
         issued <- {[v |-> n.v, b |-> Nullifier(n), pk |-> n.b] : n \in DOMAIN CommitmentIndex},
         struck <- NullifierUsed,
         vault  <- balance[Pool] + burnt

\* As long as the calls have the documented form, the Pedersen lane
\* implements the abstract shielded pool: what a call strikes it replaces
\* by notes or payments of the same total value, also when a transfer joins
\* several notes or names notes of one nullifier.
RefinesShieldedPool ==
    /\ Promise!PoolInit
    /\ [][documented' => [Promise!PoolNext]_(Promise!poolVars)]_vars

\* As long as the calls have the documented form, a holder who wants a note
\* out gets it out, whatever is deposited, transferred or bought meanwhile
\* and whether or not the tree is full, unless the pool account was reaped
\* and its remainder burnt.
NoteExits ==
    \A b \in Blindings :
        (\E n \in DOMAIN CommitmentIndex : n.b = b)
            ~> (derive_nullifier[b] \in NullifierUsed \/ burnt > 0 \/ ~documented)
===============================================================================
