------------------------------ MODULE ProofHubV2 ------------------------------
(***************************************************************************)
(* The v2 ("zk-membership") lane of the Quantum chain's pallet,            *)
(* proofhub/pallets/proofs: value enters the pool account with deposit_v2  *)
(* as a note, a leaf of an append-only Merkle tree, and leaves it with     *)
(* purchase_rwa_v2, purchase_access_v2 or withdraw_v2, each of which       *)
(* proves membership of the spent note under a recent root and publishes   *)
(* the note's nullifier.                                                   *)
(*                                                                         *)
(* Abstractions of the data (all of the control is kept):                  *)
(*   - a leaf is the note it commits to: NoteHash(v, b, pkd) is taken as   *)
(*     injective, so a leaf IS the record [v, b, pk];                      *)
(*   - nullifier_hash reads the blinding alone (verifier lib.rs:663), so   *)
(*     two notes with one blinding share a nullifier: Nullifier(n) = n.b;  *)
(*   - the tree only grows and holds no leaf twice, so a root is named by  *)
(*     the number of leaves it commits to; 0 stands for a root that        *)
(*     commits to none: the storage default [0u8; 32] before the first     *)
(*     insertion, and Z[20], which Frontier::root returns once the tree is *)
(*     full (module MerkleFrontier shows it does, and only then);          *)
(*   - a STARK proof is its witness: verify_spend_v2 accepts exactly when  *)
(*     the witness satisfies the circuit's relation.                       *)
(*                                                                         *)
(* A dispatchable that returns Err is rolled back by FRAME, so an action   *)
(* is enabled only when the call succeeds, whatever was written before the *)
(* failing check.                                                          *)
(***************************************************************************)
EXTENDS Integers, Sequences, FiniteSetsExt, Currency

CONSTANTS
    Accounts,       \* AccountIds of the chain
    Pool,           \* T::PoolAccount
    Endowment,      \* balances at genesis
    Blindings,      \* note blindings, hence nullifiers
    Keys,           \* ML-DSA-44 public keys
    Amounts,        \* u64 values a note may have
    Prices,         \* u64 prices the root origin may set, 0 to de-list
    RwaIds, AppIds, TxIds, Commitments,
    None,           \* absent value of an OptionQuery storage map
    MaxLeaves,      \* capacity of the tree (2^20 in the code)
    RootWindow      \* length of RecentRootsV2 (64 in the code)

ASSUME ProofHubAssumption ==
    /\ Pool \in Accounts
    /\ Endowment \in [Accounts -> Nat]
    /\ \A a \in Accounts : Endowment[a] = 0 \/ ExistentialDeposit <= Endowment[a]
    /\ Amounts \subseteq Nat
    /\ IsFiniteSet(Blindings)  \* [u8; 32]
    /\ IsFiniteSet(Amounts)    \* u64
    /\ Prices \subseteq Nat
    /\ 0 \in Amounts \cap Prices
    /\ None \notin Commitments
    /\ MaxLeaves \in Nat \ {0}
    /\ RootWindow \in Nat \ {0}

Notes == [v : Amounts, b : Blindings, pk : Keys]

AppConfig == [price : Prices, payment_account : Accounts]

VARIABLES
    balance,              \* the currency
    NullifierUsed,        \* nullifiers mapped to true
    LeafIndexV2,          \* leaf -> index
    LeafCountV2,
    CurrentRootV2,
    RecentRootsV2,
    RwaPrices,
    AccessKeyConfigs,
    OwnershipCommitments, \* tx_id -> commitment or None
    sent,                 \* XCM programs handed to the router
    released,             \* history: value each nullifier has paid for
    burnt                 \* history: dust lost by the pool account

treeVars   == <<LeafIndexV2, LeafCountV2, CurrentRootV2, RecentRootsV2>>
configVars == <<RwaPrices, AccessKeyConfigs>>
vars == <<balance, NullifierUsed, treeVars, configVars,
          OwnershipCommitments, sent, released, burnt>>

-------------------------------------------------------------------------------
(***************************************************************************)
(* Proof verification                                                      *)
(***************************************************************************)
Nullifier(note) == note.b

\* Fault: the change value is not tied to the note's value.
verify_spend_v2_Unbalanced(w, root, nullifier, pk, price, changeValue) ==
    /\ w \in DOMAIN LeafIndexV2
    /\ LeafIndexV2[w] < root
    /\ w.pk = pk
    /\ nullifier = Nullifier(w)
    /\ price <= w.v

\* The relation SpendAir proves for the witness w: w is one of the leaves
\* under `root`, it carries the signer's key, its blinding yields the
\* nullifier, and value is conserved.  Both values are range checked to 64
\* bits, so the subtraction does not wrap.
verify_spend_v2(w, root, nullifier, pk, price, changeValue) ==
    /\ w \in DOMAIN LeafIndexV2
    /\ LeafIndexV2[w] < root
    /\ w.pk = pk
    /\ nullifier = Nullifier(w)
    /\ w.v = price + changeValue

-------------------------------------------------------------------------------
(***************************************************************************)
(* The incremental tree                                                    *)
(***************************************************************************)
\* Fault: the current root is forgotten, only the window is searched.
v2_root_anchored_WindowOnly(root) ==
    \E i \in 1..Len(RecentRootsV2) : RecentRootsV2[i] = root

v2_root_anchored(root) ==
    \/ root = CurrentRootV2
    \/ \E i \in 1..Len(RecentRootsV2) : RecentRootsV2[i] = root

\* Fault: a full window is not shifted, so the push is silently lost.
PushRoot_Frozen(window, root) ==
    IF Len(window) >= RootWindow THEN window ELSE Append(window, root)

\* Fault: a root enters the window one insertion late.
PushRoot_Late(window, root) ==
    Append(IF Len(window) >= RootWindow THEN Tail(window) ELSE window, root - 1)

PushRoot(window, root) ==
    Append(IF Len(window) >= RootWindow THEN Tail(window) ELSE window, root)

\* The root the frontier yields for a tree of n > 0 leaves.
RootAfter(n) == IF n = MaxLeaves THEN 0 ELSE n

TreeWrite(leaf) ==
    /\ LeafIndexV2' = [l \in DOMAIN LeafIndexV2 \cup {leaf} |->
                         IF l = leaf THEN LeafCountV2 ELSE LeafIndexV2[l]]
    /\ LeafCountV2' = LeafCountV2 + 1
    /\ CurrentRootV2' = RootAfter(LeafCountV2 + 1)
    /\ RecentRootsV2' = IF LeafCountV2 > 0
                        THEN PushRoot(RecentRootsV2, CurrentRootV2)
                        ELSE RecentRootsV2

\* Faults: the DuplicateLeaf check, or the capacity check, is missing.
v2_insert_Duplicate(leaf) == LeafCountV2 < MaxLeaves /\ TreeWrite(leaf)

v2_insert_Unbounded(leaf) ==
    /\ leaf \notin DOMAIN LeafIndexV2
    /\ LeafCountV2 <= MaxLeaves
    /\ TreeWrite(leaf)

v2_insert(leaf) ==
    /\ leaf \notin DOMAIN LeafIndexV2
    /\ LeafCountV2 < MaxLeaves
    /\ TreeWrite(leaf)

-------------------------------------------------------------------------------
(***************************************************************************)
(* Dispatchables                                                           *)
(***************************************************************************)
Pay(from, to, amount, keepAlive) ==
    /\ TransferOk(balance, from, to, amount, keepAlive)
    /\ balance' = Transfer(balance, from, to, amount)

PayFromPool(to, amount) ==
    /\ Pay(Pool, to, amount, FALSE)
    /\ burnt' = burnt + Dust(balance, Pool, to, amount)

\* Faults: the nullifier is not checked, or not marked.
Spend_Unchecked(w, root, pk, price, changeValue) ==
    /\ v2_root_anchored(root)
    /\ verify_spend_v2(w, root, Nullifier(w), pk, price, changeValue)
    /\ NullifierUsed' = NullifierUsed \cup {Nullifier(w)}
    /\ released' = [released EXCEPT ![Nullifier(w)] = @ + price]

Spend_Unmarked(w, root, pk, price, changeValue) ==
    /\ Nullifier(w) \notin NullifierUsed
    /\ v2_root_anchored(root)
    /\ verify_spend_v2(w, root, Nullifier(w), pk, price, changeValue)
    /\ released' = [released EXCEPT ![Nullifier(w)] = @ + price]
    /\ UNCHANGED NullifierUsed

\* The checks every v2 spend makes, in the order it makes them, and the
\* nullifier it marks.
Spend(w, root, pk, price, changeValue) ==
    /\ Nullifier(w) \notin NullifierUsed
    /\ v2_root_anchored(root)
    /\ verify_spend_v2(w, root, Nullifier(w), pk, price, changeValue)
    /\ NullifierUsed' = NullifierUsed \cup {Nullifier(w)}
    /\ released' = [released EXCEPT ![Nullifier(w)] = @ + price]

\* Signed by `who`; the deposit proof ties the note's value to the amount.
deposit_v2(who, note) ==
    /\ Pay(who, Pool, note.v, TRUE)
    /\ v2_insert(note)
    /\ UNCHANGED <<NullifierUsed, configVars, OwnershipCommitments, sent,
                   released, burnt>>

purchase_rwa_v2(w, root, pk, rwa_id, tx_id, oc, change) ==
    /\ RwaPrices[rwa_id] > 0
    /\ Spend(w, root, pk, RwaPrices[rwa_id], change.v)
    /\ v2_insert(change)
    /\ OwnershipCommitments' = [OwnershipCommitments EXCEPT ![tx_id] = oc]
    /\ sent' = sent \cup {[dest |-> "rwa", id |-> rwa_id, commitment |-> oc,
                           nullifier |-> Nullifier(w), tx_id |-> tx_id]}
    /\ UNCHANGED <<balance, configVars, burnt>>

purchase_access_v2(w, root, pk, app_id, tx_id, akc, change) ==
    /\ AccessKeyConfigs[app_id] # None
    /\ LET cfg == AccessKeyConfigs[app_id] IN
         /\ cfg.price > 0
         /\ Spend(w, root, pk, cfg.price, change.v)
         /\ v2_insert(change)
         /\ PayFromPool(cfg.payment_account, cfg.price)
    /\ sent' = sent \cup {[dest |-> "authgate", id |-> app_id, commitment |-> akc,
                           nullifier |-> Nullifier(w), tx_id |-> tx_id]}
    /\ UNCHANGED <<configVars, OwnershipCommitments>>

\* The change of a withdrawal is the canonical zero note, never inserted.
withdraw_v2(w, root, pk, amount, destination) ==
    /\ Spend(w, root, pk, amount, 0)
    /\ PayFromPool(destination, amount)
    /\ UNCHANGED <<treeVars, configVars, OwnershipCommitments, sent>>

\* Root origin.
set_rwa_price(rwa_id, price) ==
    /\ RwaPrices' = [RwaPrices EXCEPT ![rwa_id] = price]
    /\ UNCHANGED <<balance, NullifierUsed, treeVars, AccessKeyConfigs,
                   OwnershipCommitments, sent, released, burnt>>

set_access_config(app_id, cfg) ==
    /\ AccessKeyConfigs' = [AccessKeyConfigs EXCEPT ![app_id] = cfg]
    /\ UNCHANGED <<balance, NullifierUsed, treeVars, RwaPrices,
                   OwnershipCommitments, sent, released, burnt>>

-------------------------------------------------------------------------------
Init ==
    /\ balance = Endowment
    /\ NullifierUsed = {}
    /\ LeafIndexV2 = [l \in {} |-> 0]
    /\ LeafCountV2 = 0
    /\ CurrentRootV2 = 0
    /\ RecentRootsV2 = << >>
    /\ RwaPrices = [r \in RwaIds |-> 0]
    /\ AccessKeyConfigs = [a \in AppIds |-> None]
    /\ OwnershipCommitments = [t \in TxIds |-> None]
    /\ sent = {}
    /\ released = [b \in Blindings |-> 0]
    /\ burnt = 0

Deposit == \E who \in Accounts \ {Pool}, note \in Notes : deposit_v2(who, note)

PurchaseRwa ==
    \E w \in DOMAIN LeafIndexV2, root \in 0..LeafCountV2, pk \in Keys :
    \E rwa_id \in RwaIds, tx_id \in TxIds, oc \in Commitments, change \in Notes :
        purchase_rwa_v2(w, root, pk, rwa_id, tx_id, oc, change)

PurchaseAccess ==
    \E w \in DOMAIN LeafIndexV2, root \in 0..LeafCountV2, pk \in Keys :
    \E app_id \in AppIds, tx_id \in TxIds, akc \in Commitments, change \in Notes :
        purchase_access_v2(w, root, pk, app_id, tx_id, akc, change)

Withdraw ==
    \E w \in DOMAIN LeafIndexV2, root \in 0..LeafCountV2, pk \in Keys :
    \E amount \in Amounts, destination \in Accounts :
        withdraw_v2(w, root, pk, amount, destination)

SetRwaPrice == \E rwa_id \in RwaIds, price \in Prices : set_rwa_price(rwa_id, price)

SetAccessConfig ==
    \E app_id \in AppIds, cfg \in AppConfig : set_access_config(app_id, cfg)

Next ==
    \/ Deposit
    \/ PurchaseRwa
    \/ PurchaseAccess
    \/ Withdraw
    \/ SetRwaPrice
    \/ SetAccessConfig

Spec == Init /\ [][Next]_vars

-------------------------------------------------------------------------------
(***************************************************************************)
(* Properties                                                              *)
(***************************************************************************)

\* Every storage item keeps the type its declaration gives it (lib.rs
\* 277-395).
TypeOK ==
    /\ balance \in [Accounts -> Nat]
    /\ NullifierUsed \subseteq Blindings
    /\ DOMAIN LeafIndexV2 \subseteq Notes
    /\ LeafIndexV2 \in [DOMAIN LeafIndexV2 -> Nat]
    /\ LeafCountV2 \in 0..MaxLeaves
    /\ CurrentRootV2 \in Nat
    /\ RecentRootsV2 \in Seq(Nat)
    /\ RwaPrices \in [RwaIds -> Prices]
    /\ AccessKeyConfigs \in [AppIds -> AppConfig \cup {None}]
    /\ OwnershipCommitments \in [TxIds -> Commitments \cup {None}]
    /\ sent \subseteq [dest : {"rwa", "authgate"}, id : RwaIds \cup AppIds,
                       commitment : Commitments, nullifier : Blindings, tx_id : TxIds]
    /\ released \in [Blindings -> Nat]
    /\ burnt \in Nat

\* The leaf index, the leaf count and the current root describe one tree:
\* the indices are exactly 0 .. count-1, each held by one leaf, and until
\* the tree is full the root in force commits to all of them (v2_insert).
TreeConsistent ==
    /\ CurrentRootV2 = RootAfter(LeafCountV2)
    /\ \A l \in DOMAIN LeafIndexV2 : LeafIndexV2[l] < LeafCountV2
    /\ \A l1, l2 \in DOMAIN LeafIndexV2 : LeafIndexV2[l1] = LeafIndexV2[l2] => l1 = l2
    /\ \A i \in 0..(LeafCountV2 - 1) : \E l \in DOMAIN LeafIndexV2 : LeafIndexV2[l] = i

\* A root stays acceptable for exactly RootWindow insertions after it was
\* superseded, neither one fewer nor one more; a root that commits to no
\* leaf is acceptable only while the tree is empty or full (v2_insert,
\* v2_root_anchored).
WindowExact ==
    /\ v2_root_anchored(0) <=> LeafCountV2 \in {0, MaxLeaves}
    /\ \A root \in 1..LeafCountV2 :
         v2_root_anchored(root) <=> root # MaxLeaves /\ root >= LeafCountV2 - RootWindow

\* What a nullifier has paid for in total never exceeds the value of one
\* note that was inserted under it, however the three spending calls are
\* interleaved and whichever of the recent roots they name.
SpentOnce ==
    \A b \in Blindings : released[b] > 0 =>
        /\ b \in NullifierUsed
        /\ \E n \in DOMAIN LeafIndexV2 : n.b = b /\ released[b] <= n.v

\* The two settlement lanes share the nullifier set: a nullifier reaches
\* another chain in at most one message, and only after it has been marked
\* used and its price paid.
OneDispatchPerNote ==
    /\ \A m \in sent : m.nullifier \in NullifierUsed /\ released[m.nullifier] > 0
    /\ \A m1, m2 \in sent : m1.nullifier = m2.nullifier => m1 = m2

Covered(n) == \E root \in 0..LeafCountV2 : v2_root_anchored(root) /\ LeafIndexV2[n] < root

\* The exit is never closed to a note: however many insertions have pushed
\* its own root out of the window, an acceptable root covers it, also when
\* the tree is full and no further root will ever come.  The one exception
\* is the leaf that fills the tree, which no root ever covers.
ExitOpen ==
    \A n \in DOMAIN LeafIndexV2 : Covered(n) <=> LeafIndexV2[n] < MaxLeaves - 1

\* The most the holder of an unspent nullifier can still take out: notes
\* that share a blinding can be spent only once between them.
Claim(b) ==
    IF b \in NullifierUsed THEN 0
    ELSE Max({n.v : n \in {m \in DOMAIN LeafIndexV2 : Nullifier(m) = b}} \cup {0})

\* The pool account backs every claim that is still open, up to the dust
\* burnt when it was reaped: deposits are paid in before the leaf exists,
\* a purchase keeps or forwards its price, a withdrawal pays out no more
\* than its note (deposit_v2, purchase_*_v2, withdraw_v2).
Solvent == SumFunction([b \in Blindings |-> Claim(b)]) <= balance[Pool] + burnt

\* A step never takes a nullifier back, never moves a leaf and never drops
\* a note: what a wallet proved against a root stays provable.
AppendOnly ==
    [][/\ NullifierUsed \subseteq NullifierUsed'
       /\ DOMAIN LeafIndexV2 \subseteq DOMAIN LeafIndexV2'
       /\ \A n \in DOMAIN LeafIndexV2 : LeafIndexV2'[n] = LeafIndexV2[n]]_vars

Promise == INSTANCE ShieldedPool
    WITH Values <- Amounts, Tags <- Blindings, Owners <- Keys,
         issued <- DOMAIN LeafIndexV2,
         struck <- NullifierUsed,
         vault  <- balance[Pool] + burnt

\* The pallet implements the abstract shielded pool: every dispatchable is
\* one step of it or leaves it unchanged (set_rwa_price, set_access_config).
RefinesShieldedPool == Promise!PoolSpec
===============================================================================
