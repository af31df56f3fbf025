-------------------------- MODULE HubSystem_proofs ---------------------------
(***************************************************************************)
(* Proofs about the v2 lane, alone and in its two surroundings.            *)
(*                                                                         *)
(* Alone it keeps its type invariant and its safety properties, and it is  *)
(* the abstract pool, for every number of accounts, notes and keys, every  *)
(* capacity of the tree and every length of the window.  Before a call     *)
(* runs it waits in the transaction pool: a step of the pool is a step of  *)
(* the lane or leaves its state alone, for every size of the pool.  After  *)
(* it ran, the program it sent is on the way to another chain: every key   *)
(* on AuthGate was paid for on the hub, and every program is in exactly    *)
(* one of the places it can be, for every set of notes, apps, assets and   *)
(* tx_ids.                                                                 *)
(***************************************************************************)
EXTENDS TxPool, Settlement, PoolFacts, TLAPS

-------------------------------------------------------------------------------
(***************************************************************************)
(* The currency                                                            *)
(***************************************************************************)
Vault == balance[Pool] + burnt

\* A payment out of the pool keeps the balances and the history of burnt
\* dust well typed, and takes the amount from the vault, dust included, or
\* nothing at all when the transfer is a no-op (PayFromPool).
LEMMA PoolPayment ==
    ASSUME balance \in [Accounts -> Nat], burnt \in Nat,
           NEW to \in Accounts, NEW amount \in Nat, PayFromPool(to, amount)
    PROVE  /\ balance' \in [Accounts -> Nat] /\ burnt' \in Nat
           /\ Vault' \in {Vault, Vault - amount}
<1>1. /\ TransferOk(balance, Pool, to, amount, FALSE)
      /\ balance' = Transfer(balance, Pool, to, amount)
      /\ burnt' = burnt + Dust(balance, Pool, to, amount)
      /\ Pool \in Accounts
  BY ProofHubAssumption DEF PayFromPool, Pay
<1>2. /\ Transfer(balance, Pool, to, amount) \in [Accounts -> Nat]
      /\ Dust(balance, Pool, to, amount) \in Nat
  BY <1>1, TransferType
<1>3. Transfer(balance, Pool, to, amount)[Pool] + (burnt + Dust(balance, Pool, to, amount))
        \in {balance[Pool] + burnt, balance[Pool] + burnt - amount}
  BY <1>1, PaymentOut
<1>4. QED
  BY <1>1, <1>2, <1>3 DEF Vault

-------------------------------------------------------------------------------
(***************************************************************************)
(* The tree: v2_insert                                                     *)
(***************************************************************************)
TreeType ==
    /\ DOMAIN LeafIndexV2 \subseteq Notes
    /\ LeafIndexV2 \in [DOMAIN LeafIndexV2 -> Nat]
    /\ LeafCountV2 \in 0..MaxLeaves
    /\ CurrentRootV2 \in Nat
    /\ RecentRootsV2 \in Seq(Nat)

\* The window holds the roots that precede the current one, without a gap,
\* oldest first: the strengthening that makes WindowExact inductive.
WindowShape ==
    /\ Len(RecentRootsV2) <= RootWindow
    /\ LeafCountV2 = 0 => Len(RecentRootsV2) = 0
    /\ LeafCountV2 > 0 =>
         /\ Len(RecentRootsV2) <= LeafCountV2 - 1
         /\ Len(RecentRootsV2) < RootWindow => Len(RecentRootsV2) = LeafCountV2 - 1
    /\ \A i \in 1..Len(RecentRootsV2) :
         RecentRootsV2[i] = LeafCountV2 - 1 - Len(RecentRootsV2) + i

TreeOK == TreeType /\ TreeConsistent /\ WindowShape

\* Inserting a leaf keeps the tree's type.
LEMMA InsertType ==
    ASSUME TreeType, NEW leaf \in Notes, v2_insert(leaf)
    PROVE  TreeType'
<1> USE ProofHubAssumption DEF TreeType, v2_insert, TreeWrite, RootAfter
<1>1. DOMAIN LeafIndexV2' = DOMAIN LeafIndexV2 \cup {leaf}
  OBVIOUS
<1>2. LeafIndexV2' \in [DOMAIN LeafIndexV2' -> Nat]
  <2>1. \A l \in DOMAIN LeafIndexV2 : LeafIndexV2[l] \in Nat
    OBVIOUS
  <2>2. LeafCountV2 \in Nat
    OBVIOUS
  <2>3. QED
    BY <1>1, <2>1, <2>2
<1>3. RecentRootsV2' \in Seq(Nat)
  BY DEF PushRoot
<1>4. QED
  BY <1>1, <1>2, <1>3

\* Inserting a leaf keeps the index a bijection onto 0 .. count-1 and makes
\* the current root cover the new leaf.
LEMMA InsertTree ==
    ASSUME TreeType, TreeConsistent, NEW leaf \in Notes, v2_insert(leaf)
    PROVE  TreeConsistent'
<1> USE DEF TreeType, TreeConsistent, v2_insert, TreeWrite
<1>1. DOMAIN LeafIndexV2' = DOMAIN LeafIndexV2 \cup {leaf}
  OBVIOUS
<1>2. LeafIndexV2'[leaf] = LeafCountV2
  OBVIOUS
<1>3. \A l \in DOMAIN LeafIndexV2 :
        LeafIndexV2'[l] = LeafIndexV2[l] /\ LeafIndexV2[l] \in Nat
                                         /\ LeafIndexV2[l] < LeafCountV2
  OBVIOUS
<1>4. CurrentRootV2' = RootAfter(LeafCountV2')
  OBVIOUS
<1>5. \A l \in DOMAIN LeafIndexV2' : LeafIndexV2'[l] < LeafCountV2'
  BY <1>1, <1>2, <1>3
<1>6. \A l1, l2 \in DOMAIN LeafIndexV2' :
        LeafIndexV2'[l1] = LeafIndexV2'[l2] => l1 = l2
  BY <1>1, <1>2, <1>3
<1>7. \A i \in 0..(LeafCountV2' - 1) :
        \E l \in DOMAIN LeafIndexV2' : LeafIndexV2'[l] = i
  <2> SUFFICES ASSUME NEW i \in 0..(LeafCountV2' - 1)
               PROVE  \E l \in DOMAIN LeafIndexV2' : LeafIndexV2'[l] = i
    OBVIOUS
  <2>1. CASE i = LeafCountV2
    BY <2>1, <1>1, <1>2
  <2>2. CASE i # LeafCountV2
    <3>1. i \in 0..(LeafCountV2 - 1)
      BY <2>2
    <3>2. PICK l \in DOMAIN LeafIndexV2 : LeafIndexV2[l] = i
      BY <3>1
    <3>3. QED
      BY <3>2, <1>1, <1>3
  <2>3. QED
    BY <2>1, <2>2
<1>8. QED
  BY <1>4, <1>5, <1>6, <1>7

\* Pushing the superseded root, and dropping the oldest one when the window
\* is full, keeps the window gap free.
LEMMA InsertWindow ==
    ASSUME TreeType, TreeConsistent, WindowShape, NEW leaf \in Notes, v2_insert(leaf)
    PROVE  WindowShape'
<1> USE ProofHubAssumption DEF TreeType, TreeConsistent, v2_insert, TreeWrite
<1>0. /\ RootWindow \in Nat \ {0} /\ LeafCountV2 \in Nat /\ LeafCountV2' = LeafCountV2 + 1
      /\ CurrentRootV2 = LeafCountV2
  BY DEF RootAfter
<1>1. CASE LeafCountV2 = 0
  BY <1>0, <1>1 DEF WindowShape
<1>2. CASE LeafCountV2 > 0 /\ Len(RecentRootsV2) < RootWindow
  <2>1. RecentRootsV2' = Append(RecentRootsV2, LeafCountV2)
    BY <1>0, <1>2 DEF PushRoot
  <2>2. /\ Len(RecentRootsV2') = Len(RecentRootsV2) + 1
        /\ \A i \in 1..Len(RecentRootsV2) : RecentRootsV2'[i] = RecentRootsV2[i]
        /\ RecentRootsV2'[Len(RecentRootsV2) + 1] = LeafCountV2
    BY <2>1
  <2> DEFINE n == Len(RecentRootsV2)
  <2>3. n \in Nat /\ n < RootWindow /\ n = LeafCountV2 - 1
    BY <1>0, <1>2 DEF WindowShape
  <2>4. \A i \in 1..(n + 1) : RecentRootsV2'[i] = i
    <3> SUFFICES ASSUME NEW i \in 1..(n + 1)
                 PROVE  RecentRootsV2'[i] = i
      OBVIOUS
    <3>1. CASE i = n + 1
      BY <2>2, <2>3, <3>1, <1>0
    <3>2. CASE i \in 1..n
      <4>1. RecentRootsV2'[i] = RecentRootsV2[i]
        BY <2>2, <3>2
      <4>2. RecentRootsV2[i] = LeafCountV2 - 1 - n + i
        BY <3>2 DEF WindowShape
      <4> HIDE DEF n, TreeType, TreeConsistent, v2_insert, TreeWrite
      <4>3. QED
        BY <1>0, <2>3, <3>2, <4>1, <4>2
    <3>3. QED
      BY <2>3, <3>1, <3>2
  <2>5. Len(RecentRootsV2') = n + 1
    BY <2>2
  <2> HIDE DEF n, TreeType, TreeConsistent, v2_insert, TreeWrite
  <2>6. QED
    BY <1>0, <2>3, <2>4, <2>5 DEF WindowShape
<1>3. CASE LeafCountV2 > 0 /\ Len(RecentRootsV2) >= RootWindow
  <2>1. RecentRootsV2' = Append(Tail(RecentRootsV2), LeafCountV2)
    BY <1>0, <1>3 DEF PushRoot
  <2>2. Len(RecentRootsV2) \in Nat /\ Len(RecentRootsV2) = RootWindow
    BY <1>0, <1>3 DEF WindowShape
  <2>3. /\ Len(RecentRootsV2') = RootWindow
        /\ \A i \in 1..(RootWindow - 1) : RecentRootsV2'[i] = RecentRootsV2[i + 1]
        /\ RecentRootsV2'[RootWindow] = LeafCountV2
    <3>1. RecentRootsV2 # << >>
      BY <1>0, <2>2
    <3>2. /\ Tail(RecentRootsV2) \in Seq(Nat)
          /\ Len(Tail(RecentRootsV2)) = RootWindow - 1
          /\ \A i \in 1..(RootWindow - 1) : Tail(RecentRootsV2)[i] = RecentRootsV2[i + 1]
      BY <1>0, <2>2, <3>1
    <3> DEFINE t == Tail(RecentRootsV2)
    <3>3. /\ t \in Seq(Nat) /\ Len(t) = RootWindow - 1
          /\ LeafCountV2 \in Nat /\ RecentRootsV2' = Append(t, LeafCountV2)
      BY <1>0, <2>1, <3>2
    <3> HIDE DEF t, TreeType, TreeConsistent, v2_insert, TreeWrite
    <3>4. /\ Len(Append(t, LeafCountV2)) = Len(t) + 1
          /\ \A i \in 1..Len(t) : Append(t, LeafCountV2)[i] = t[i]
          /\ Append(t, LeafCountV2)[Len(t) + 1] = LeafCountV2
      BY <3>3
    <3>5. \A i \in 1..(RootWindow - 1) : t[i] = RecentRootsV2[i + 1]
      BY <3>2 DEF t
    <3>6. QED
      BY <1>0, <3>3, <3>4, <3>5
  <2>4. LeafCountV2 - 1 >= RootWindow
    BY <1>0, <1>3, <2>2 DEF WindowShape
  <2>5. \A i \in 1..RootWindow : RecentRootsV2[i] = LeafCountV2 - 1 - RootWindow + i
    BY <2>2 DEF WindowShape
  <2>6. \A i \in 1..RootWindow : RecentRootsV2'[i] = LeafCountV2 - RootWindow + i
    <3> SUFFICES ASSUME NEW i \in 1..RootWindow
                 PROVE  RecentRootsV2'[i] = LeafCountV2 - RootWindow + i
      OBVIOUS
    <3>1. CASE i = RootWindow
      BY <1>0, <2>3, <3>1
    <3>2. CASE i \in 1..(RootWindow - 1)
      <4>1. i + 1 \in 1..RootWindow
        BY <1>0, <3>2
      <4>2. RecentRootsV2[i + 1] = LeafCountV2 - 1 - RootWindow + (i + 1)
        BY <2>5, <4>1
      <4> HIDE DEF TreeType, TreeConsistent, v2_insert, TreeWrite
      <4>3. RecentRootsV2'[i] = RecentRootsV2[i + 1]
        BY <2>3, <3>2
      <4>4. QED
        BY <1>0, <3>2, <4>2, <4>3
    <3>3. QED
      BY <1>0, <3>1, <3>2
  <2> HIDE DEF TreeType, TreeConsistent, v2_insert, TreeWrite
  <2>7. QED
    BY <1>0, <2>3, <2>4, <2>6 DEF WindowShape
<1>4. QED
  <2>1. Len(RecentRootsV2) \in Nat
    OBVIOUS
  <2>2. QED
    BY <1>0, <1>1, <1>2, <1>3, <2>1

-------------------------------------------------------------------------------
(***************************************************************************)
(* Spending                                                                *)
(***************************************************************************)

\* A spend strikes a fresh nullifier, for which nothing had been released,
\* and releases at most the value of the spent note (Spend).
LEMMA SpendStep ==
    ASSUME TypeOK, SpentOnce,
           NEW w, NEW root, NEW pk, NEW price \in Nat, NEW changeValue \in Nat,
           Spend(w, root, pk, price, changeValue),
           DOMAIN LeafIndexV2 \subseteq DOMAIN LeafIndexV2'
    PROVE  /\ w \in DOMAIN LeafIndexV2 /\ w \in Notes /\ w.v = price + changeValue
           /\ w.b \in Blindings \ NullifierUsed
           /\ NullifierUsed' = NullifierUsed \cup {w.b}
           /\ released' \in [Blindings -> Nat]
           /\ released'[w.b] = price
           /\ \A b \in Blindings \ {w.b} : released'[b] = released[b]
           /\ SpentOnce'
<1>1. /\ w \in DOMAIN LeafIndexV2 /\ w \in Notes /\ w.v = price + changeValue
      /\ w.b \notin NullifierUsed
      /\ NullifierUsed' = NullifierUsed \cup {w.b}
      /\ released' = [released EXCEPT ![w.b] = @ + price]
  BY DEF Spend, verify_spend_v2, Nullifier, TypeOK
<1>2. w.b \in Blindings
  BY <1>1 DEF Notes
<1>3. released \in [Blindings -> Nat]
  BY DEF TypeOK
<1>4. released[w.b] = 0
  BY <1>1, <1>2, <1>3 DEF SpentOnce
<1>5. /\ released' \in [Blindings -> Nat]
      /\ released'[w.b] = price
      /\ \A b \in Blindings \ {w.b} : released'[b] = released[b]
  BY <1>1, <1>2, <1>3, <1>4
<1>6. SpentOnce'
  <2> SUFFICES ASSUME NEW b \in Blindings, released'[b] > 0
               PROVE  /\ b \in NullifierUsed'
                      /\ \E n \in DOMAIN LeafIndexV2' : n.b = b /\ released'[b] <= n.v
    BY DEF SpentOnce
  <2>1. CASE b = w.b
    <3>1. released'[b] <= w.v
      BY <1>1, <1>5, <2>1
    <3>2. QED
      BY <1>1, <2>1, <3>1
  <2>2. CASE b # w.b
    <3>1. PICK n \in DOMAIN LeafIndexV2 : n.b = b /\ released[b] <= n.v
      BY <1>5, <2>2 DEF SpentOnce
    <3>2. b \in NullifierUsed
      BY <1>5, <2>2 DEF SpentOnce
    <3>3. QED
      BY <1>1, <1>5, <2>2, <3>1, <3>2
  <2>3. QED
    BY <2>1, <2>2
<1>7. QED
  BY <1>1, <1>2, <1>5, <1>6

\* The one message a purchase sends carries the nullifier it has just
\* struck and paid for (purchase_rwa_v2, purchase_access_v2).
LEMMA DispatchStep ==
    ASSUME TypeOK, OneDispatchPerNote,
           NEW b \in Blindings \ NullifierUsed,
           NEW m, m.nullifier = b,
           NullifierUsed' = NullifierUsed \cup {b},
           released' \in [Blindings -> Nat], released'[b] > 0,
           \A c \in Blindings \ {b} : released'[c] = released[c],
           sent' = sent \cup {m}
    PROVE  OneDispatchPerNote'
<1>1. \A o \in sent : o.nullifier \in NullifierUsed /\ released[o.nullifier] > 0
  BY DEF OneDispatchPerNote
<1>2. \A o \in sent : o.nullifier # b /\ o.nullifier \in Blindings
  BY <1>1 DEF TypeOK
<1>3. \A o \in sent' : o.nullifier \in NullifierUsed' /\ released'[o.nullifier] > 0
  BY <1>1, <1>2
<1>4. \A m1, m2 \in sent' : m1.nullifier = m2.nullifier => m1 = m2
  BY <1>2 DEF OneDispatchPerNote
<1>5. QED
  BY <1>3, <1>4 DEF OneDispatchPerNote

-------------------------------------------------------------------------------
(***************************************************************************)
(* The inductive invariant                                                 *)
(***************************************************************************)
RestType ==
    /\ balance \in [Accounts -> Nat]
    /\ NullifierUsed \subseteq Blindings
    /\ RwaPrices \in [RwaIds -> Prices]
    /\ AccessKeyConfigs \in [AppIds -> AppConfig \cup {None}]
    /\ OwnershipCommitments \in [TxIds -> Commitments \cup {None}]
    /\ sent \subseteq [dest : {"rwa", "authgate"}, id : RwaIds \cup AppIds,
                       commitment : Commitments, nullifier : Blindings, tx_id : TxIds]
    /\ released \in [Blindings -> Nat]
    /\ burnt \in Nat

\* The type invariant is the tree's part and the rest.
LEMMA TypeSplit == TypeOK <=> TreeType /\ RestType
BY DEF TypeOK, TreeType, RestType

\* The inductive invariant: the checked properties, with the window's exact
\* content in place of what it accepts.
IInv == TypeOK /\ TreeConsistent /\ WindowShape /\ SpentOnce /\ OneDispatchPerNote

\* One insertion keeps everything the invariant says about the tree.
LEMMA InsertStep ==
    ASSUME IInv, NEW leaf \in Notes, v2_insert(leaf)
    PROVE  /\ TreeType' /\ TreeConsistent' /\ WindowShape'
           /\ DOMAIN LeafIndexV2' = DOMAIN LeafIndexV2 \cup {leaf}
<1>1. TreeType
  BY TypeSplit DEF IInv
<1>2. DOMAIN LeafIndexV2' = DOMAIN LeafIndexV2 \cup {leaf}
  BY DEF v2_insert, TreeWrite
<1>3. QED
  BY <1>1, <1>2, InsertType, InsertTree, InsertWindow DEF IInv

\* Neither a deposit, ...
LEMMA DepositInv ==
    ASSUME IInv, NEW who \in Accounts \ {Pool}, NEW note \in Notes, deposit_v2(who, note)
    PROVE  IInv'
<1>1. /\ TreeType' /\ TreeConsistent' /\ WindowShape'
      /\ DOMAIN LeafIndexV2' = DOMAIN LeafIndexV2 \cup {note}
  BY InsertStep DEF deposit_v2
<1>2. RestType'
  <2>1. note.v \in Nat /\ Pool \in Accounts /\ balance \in [Accounts -> Nat]
    BY ProofHubAssumption DEF Notes, IInv, TypeOK
  <2>2. balance' \in [Accounts -> Nat]
    BY <2>1, TransferType DEF deposit_v2, Pay
  <2>3. RestType
    BY TypeSplit DEF IInv
  <2>4. QED
    BY <2>2, <2>3 DEF RestType, deposit_v2, configVars
<1>3. SpentOnce' /\ OneDispatchPerNote'
  BY <1>1 DEF IInv, SpentOnce, OneDispatchPerNote, deposit_v2
<1>4. QED
  BY <1>1, <1>2, <1>3, TypeSplit, PTL DEF IInv

\* ... nor an RWA purchase, ...
LEMMA PurchaseRwaInv ==
    ASSUME IInv, NEW w, NEW root, NEW pk, NEW rwa_id \in RwaIds, NEW tx_id \in TxIds,
           NEW oc \in Commitments, NEW change \in Notes,
           purchase_rwa_v2(w, root, pk, rwa_id, tx_id, oc, change)
    PROVE  IInv'
<1> DEFINE price == RwaPrices[rwa_id]
           m == [dest |-> "rwa", id |-> rwa_id, commitment |-> oc,
                 nullifier |-> w.b, tx_id |-> tx_id]
<1>1. price \in Nat /\ price > 0 /\ change.v \in Nat
  BY ProofHubAssumption DEF purchase_rwa_v2, IInv, TypeOK, Notes
<1>2. /\ TreeType' /\ TreeConsistent' /\ WindowShape'
      /\ DOMAIN LeafIndexV2' = DOMAIN LeafIndexV2 \cup {change}
  BY InsertStep DEF purchase_rwa_v2
<1>3. Spend(w, root, pk, price, change.v)
  BY DEF purchase_rwa_v2
<1> HIDE DEF price
<1>4. /\ w.b \in Blindings \ NullifierUsed
      /\ NullifierUsed' = NullifierUsed \cup {w.b}
      /\ released' \in [Blindings -> Nat]
      /\ released'[w.b] = price
      /\ \A b \in Blindings \ {w.b} : released'[b] = released[b]
      /\ SpentOnce'
  BY <1>1, <1>2, <1>3, SpendStep DEF IInv
<1>5. sent' = sent \cup {m}
  BY DEF purchase_rwa_v2, Nullifier
<1>6. OneDispatchPerNote'
  <2>1. m.nullifier = w.b
    OBVIOUS
  <2> HIDE DEF m
  <2>2. QED
    BY <1>1, <1>4, <1>5, <2>1, DispatchStep DEF IInv
<1>7. RestType'
  <2>1. RestType
    BY TypeSplit DEF IInv
  <2>2. m \in [dest : {"rwa", "authgate"}, id : RwaIds \cup AppIds,
               commitment : Commitments, nullifier : Blindings, tx_id : TxIds]
    BY <1>4
  <2> HIDE DEF m
  <2>3. QED
    BY <1>4, <1>5, <2>1, <2>2 DEF RestType, purchase_rwa_v2, configVars
<1>8. QED
  BY <1>2, <1>4, <1>6, <1>7, TypeSplit, PTL DEF IInv

\* ... nor an access purchase, ...
LEMMA PurchaseAccessInv ==
    ASSUME IInv, NEW w, NEW root, NEW pk, NEW app_id \in AppIds, NEW tx_id \in TxIds,
           NEW akc \in Commitments, NEW change \in Notes,
           purchase_access_v2(w, root, pk, app_id, tx_id, akc, change)
    PROVE  IInv'
<1> DEFINE cfg == AccessKeyConfigs[app_id]
           price == cfg.price
           dest == cfg.payment_account
           m == [dest |-> "authgate", id |-> app_id, commitment |-> akc,
                 nullifier |-> w.b, tx_id |-> tx_id]
<1>1. price \in Nat /\ price > 0 /\ change.v \in Nat /\ dest \in Accounts
  <2>1. cfg \in AppConfig
    BY DEF purchase_access_v2, IInv, TypeOK
  <2>2. QED
    BY <2>1, ProofHubAssumption DEF purchase_access_v2, AppConfig, Notes
<1>2. /\ TreeType' /\ TreeConsistent' /\ WindowShape'
      /\ DOMAIN LeafIndexV2' = DOMAIN LeafIndexV2 \cup {change}
  BY InsertStep DEF purchase_access_v2
<1>3. Spend(w, root, pk, price, change.v) /\ PayFromPool(dest, price)
  BY DEF purchase_access_v2
<1>4. sent' = sent \cup {m}
  BY DEF purchase_access_v2, Nullifier
<1> HIDE DEF cfg, price, dest
<1>5. /\ w.b \in Blindings \ NullifierUsed
      /\ NullifierUsed' = NullifierUsed \cup {w.b}
      /\ released' \in [Blindings -> Nat]
      /\ released'[w.b] = price
      /\ \A b \in Blindings \ {w.b} : released'[b] = released[b]
      /\ SpentOnce'
  BY <1>1, <1>2, <1>3, SpendStep DEF IInv
<1>6. OneDispatchPerNote'
  <2>1. m.nullifier = w.b
    OBVIOUS
  <2> HIDE DEF m
  <2>2. QED
    BY <1>1, <1>4, <1>5, <2>1, DispatchStep DEF IInv
<1>7. RestType'
  <2>1. RestType
    BY TypeSplit DEF IInv
  <2>2. m \in [dest : {"rwa", "authgate"}, id : RwaIds \cup AppIds,
               commitment : Commitments, nullifier : Blindings, tx_id : TxIds]
    BY <1>5
  <2> HIDE DEF m
  <2>3. balance' \in [Accounts -> Nat] /\ burnt' \in Nat
    BY <1>1, <1>3, <2>1, PoolPayment DEF RestType
  <2>4. QED
    BY <1>4, <1>5, <2>1, <2>2, <2>3 DEF RestType, purchase_access_v2, configVars
<1>8. QED
  BY <1>2, <1>5, <1>6, <1>7, TypeSplit, PTL DEF IInv

\* ... nor a withdrawal breaks the invariant.
LEMMA WithdrawInv ==
    ASSUME IInv, NEW w, NEW root, NEW pk, NEW amount \in Amounts,
           NEW destination \in Accounts, withdraw_v2(w, root, pk, amount, destination)
    PROVE  IInv'
<1>1. amount \in Nat
  BY ProofHubAssumption
<1>2. TreeType' /\ TreeConsistent' /\ WindowShape' /\ LeafIndexV2' = LeafIndexV2
  BY TypeSplit DEF withdraw_v2, treeVars, IInv, TreeType, TreeConsistent, WindowShape
<1>3. Spend(w, root, pk, amount, 0)
  BY DEF withdraw_v2
<1>4. /\ w.b \in Blindings \ NullifierUsed
      /\ NullifierUsed' = NullifierUsed \cup {w.b}
      /\ released' \in [Blindings -> Nat]
      /\ \A b \in Blindings \ {w.b} : released'[b] = released[b]
      /\ SpentOnce'
  BY <1>1, <1>2, <1>3, SpendStep DEF IInv
<1>5. OneDispatchPerNote'
  <2>1. sent' = sent
    BY DEF withdraw_v2
  <2>2. \A o \in sent : o.nullifier \in NullifierUsed /\ o.nullifier # w.b
                                                      /\ o.nullifier \in Blindings
    BY <1>4 DEF IInv, OneDispatchPerNote, TypeOK
  <2>3. QED
    BY <1>4, <2>1, <2>2 DEF IInv, OneDispatchPerNote
<1>6. RestType'
  <2>1. RestType
    BY TypeSplit DEF IInv
  <2>2. balance' \in [Accounts -> Nat] /\ burnt' \in Nat
    BY <1>1, <2>1, PoolPayment DEF withdraw_v2, RestType
  <2>3. QED
    BY <1>4, <2>1, <2>2 DEF RestType, withdraw_v2, configVars
<1>7. QED
  BY <1>2, <1>4, <1>5, <1>6, TypeSplit, PTL DEF IInv

\* Every step keeps the inductive invariant.
LEMMA NextInv == IInv /\ [Next]_vars => IInv'
<1> SUFFICES ASSUME IInv, [Next]_vars PROVE IInv'
  OBVIOUS
<1>1. CASE Deposit
  BY <1>1, DepositInv DEF Deposit
<1>2. CASE PurchaseRwa
  BY <1>2, PurchaseRwaInv DEF PurchaseRwa
<1>3. CASE PurchaseAccess
  BY <1>3, PurchaseAccessInv DEF PurchaseAccess
<1>4. CASE Withdraw
  BY <1>4, WithdrawInv DEF Withdraw
<1>5. CASE SetRwaPrice
  BY <1>5 DEF SetRwaPrice, set_rwa_price, treeVars, IInv, TypeOK, TreeConsistent,
              WindowShape, SpentOnce, OneDispatchPerNote
<1>6. CASE SetAccessConfig
  BY <1>6 DEF SetAccessConfig, set_access_config, treeVars, IInv, TypeOK,
              TreeConsistent, WindowShape, SpentOnce, OneDispatchPerNote
<1>7. CASE UNCHANGED vars
  BY <1>7 DEF vars, treeVars, configVars, IInv, TypeOK, TreeConsistent, WindowShape,
              SpentOnce, OneDispatchPerNote
<1>8. QED
  BY <1>1, <1>2, <1>3, <1>4, <1>5, <1>6, <1>7 DEF Next

\* The genesis state satisfies it: no leaf, no spend, nothing sent.
LEMMA InitInv == Init => IInv
<1> SUFFICES ASSUME Init PROVE IInv
  OBVIOUS
<1>1. TypeOK
  BY ProofHubAssumption DEF Init, TypeOK
<1>2. TreeConsistent /\ WindowShape
  BY ProofHubAssumption DEF Init, TreeConsistent, WindowShape, RootAfter
<1>3. SpentOnce /\ OneDispatchPerNote
  BY DEF Init, SpentOnce, OneDispatchPerNote
<1>4. QED
  BY <1>1, <1>2, <1>3 DEF IInv

\* It holds in every reachable state.
THEOREM InvCorrect == Spec => []IInv
BY InitInv, NextInv, PTL DEF Spec

-------------------------------------------------------------------------------
(***************************************************************************)
(* The properties                                                          *)
(***************************************************************************)

\* The storage of the v2 lane is well typed in every reachable state.
THEOREM TypeCorrect == Spec => []TypeOK
BY InvCorrect, PTL DEF IInv

\* Leaf index, leaf count and current root always describe one tree.
THEOREM TreeCorrect == Spec => []TreeConsistent
BY InvCorrect, PTL DEF IInv

\* The shape of the window says exactly which roots are anchored.
LEMMA ShapeExact == IInv => WindowExact
<1> SUFFICES ASSUME IInv PROVE WindowExact
  OBVIOUS
<1> DEFINE n == Len(RecentRootsV2)
<1>1. /\ RootWindow \in Nat \ {0} /\ MaxLeaves \in Nat \ {0}
      /\ LeafCountV2 \in 0..MaxLeaves /\ n \in Nat
      /\ CurrentRootV2 = RootAfter(LeafCountV2)
  BY ProofHubAssumption DEF IInv, TypeOK, TreeConsistent
<1>2. /\ n <= RootWindow
      /\ LeafCountV2 = 0 => n = 0
      /\ LeafCountV2 > 0 => n <= LeafCountV2 - 1
      /\ LeafCountV2 > 0 => (n < RootWindow => n = LeafCountV2 - 1)
      /\ \A i \in 1..n : RecentRootsV2[i] = LeafCountV2 - 1 - n + i
  BY DEF IInv, WindowShape
<1>3. ASSUME NEW root
      PROVE  v2_root_anchored(root)
               <=> root = RootAfter(LeafCountV2) \/ \E i \in 1..n : RecentRootsV2[i] = root
  BY <1>1 DEF v2_root_anchored
<1> HIDE DEF n
<1>4. ASSUME NEW root \in 0..LeafCountV2
      PROVE  (\E i \in 1..n : RecentRootsV2[i] = root)
                <=> LeafCountV2 > 0 /\ root >= LeafCountV2 - n /\ root <= LeafCountV2 - 1
  <2>1. ASSUME NEW i \in 1..n, RecentRootsV2[i] = root
        PROVE  LeafCountV2 > 0 /\ root >= LeafCountV2 - n /\ root <= LeafCountV2 - 1
    BY <1>1, <1>2, <2>1
  <2>2. ASSUME root >= LeafCountV2 - n, root <= LeafCountV2 - 1
        PROVE  \E i \in 1..n : RecentRootsV2[i] = root
    <3>1. root - (LeafCountV2 - 1 - n) \in 1..n
      BY <1>1, <2>2
    <3>2. RecentRootsV2[root - (LeafCountV2 - 1 - n)] = root
      BY <1>1, <1>2, <3>1
    <3>3. QED
      BY <3>1, <3>2
  <2>3. QED
    BY <2>1, <2>2
<1>5. v2_root_anchored(0) <=> LeafCountV2 \in {0, MaxLeaves}
  <2>1. 0 \in 0..LeafCountV2
    BY <1>1
  <2>2. (\E i \in 1..n : RecentRootsV2[i] = 0) <=> FALSE
    BY <1>1, <1>2, <1>4, <2>1
  <2>3. 0 = RootAfter(LeafCountV2) <=> LeafCountV2 \in {0, MaxLeaves}
    BY <1>1 DEF RootAfter
  <2>4. QED
    BY <1>3, <2>2, <2>3
<1>6. ASSUME NEW root \in 1..LeafCountV2
      PROVE  v2_root_anchored(root)
               <=> root # MaxLeaves /\ root >= LeafCountV2 - RootWindow
  <2>1. root \in 0..LeafCountV2 /\ LeafCountV2 > 0
    BY <1>1
  <2>2. root = RootAfter(LeafCountV2) <=> root = LeafCountV2 /\ root # MaxLeaves
    BY <1>1, <2>1 DEF RootAfter
  <2>3. v2_root_anchored(root)
          <=> \/ root = LeafCountV2 /\ root # MaxLeaves
              \/ root >= LeafCountV2 - n /\ root <= LeafCountV2 - 1
    BY <1>3, <1>4, <2>1, <2>2
  <2>4. QED
    BY <1>1, <1>2, <2>1, <2>3
<1>7. QED
  BY <1>5, <1>6 DEF WindowExact

\* A superseded root is accepted for exactly RootWindow further insertions,
\* for every window length and tree capacity.
THEOREM WindowCorrect == Spec => []WindowExact
BY InvCorrect, ShapeExact, PTL

\* Which roots are anchored says which leaves are covered.
LEMMA CoverExact == IInv => ExitOpen
<1> SUFFICES ASSUME IInv, NEW n \in DOMAIN LeafIndexV2
             PROVE  Covered(n) <=> LeafIndexV2[n] < MaxLeaves - 1
  BY DEF ExitOpen
<1> DEFINE i == LeafIndexV2[n]
<1>1. /\ RootWindow \in Nat \ {0} /\ MaxLeaves \in Nat \ {0}
      /\ LeafCountV2 \in 0..MaxLeaves /\ i \in Nat /\ i < LeafCountV2
  BY ProofHubAssumption DEF IInv, TypeOK, TreeConsistent
<1>2. \A root \in 1..LeafCountV2 :
         v2_root_anchored(root) <=> root # MaxLeaves /\ root >= LeafCountV2 - RootWindow
  BY ShapeExact DEF WindowExact
<1> HIDE DEF i
<1>3. Covered(n) <=> \E root \in 1..LeafCountV2 : v2_root_anchored(root) /\ i < root
  BY <1>1 DEF Covered, i
<1>4. CASE LeafCountV2 < MaxLeaves
  <2>1. LeafCountV2 \in 1..LeafCountV2 /\ v2_root_anchored(LeafCountV2)
    BY <1>1, <1>2, <1>4
  <2>2. QED
    BY <1>1, <1>3, <1>4, <2>1 DEF i
<1>5. CASE LeafCountV2 = MaxLeaves
  <2>1. ASSUME i < MaxLeaves - 1 PROVE Covered(n)
    <3>1. /\ MaxLeaves - 1 \in 1..LeafCountV2
          /\ MaxLeaves - 1 # MaxLeaves /\ MaxLeaves - 1 >= LeafCountV2 - RootWindow
      BY <1>1, <1>5, <2>1
    <3>2. v2_root_anchored(MaxLeaves - 1)
      BY <1>2, <3>1
    <3>3. QED
      BY <1>3, <2>1, <3>1, <3>2
  <2>2. ASSUME Covered(n) PROVE i < MaxLeaves - 1
    <3>1. PICK root \in 1..LeafCountV2 : v2_root_anchored(root) /\ i < root
      BY <1>3, <2>2
    <3>2. root # MaxLeaves
      BY <1>2, <3>1
    <3>3. QED
      BY <1>1, <1>5, <3>1, <3>2
  <2>3. QED
    BY <2>1, <2>2 DEF i
<1>6. QED
  BY <1>1, <1>4, <1>5

\* Every leaf but the one that fills the tree stays provable for ever.
THEOREM ExitCorrect == Spec => []ExitOpen
BY InvCorrect, CoverExact, PTL

\* No nullifier ever pays for more than one note inserted under it.
THEOREM SpentOnceCorrect == Spec => []SpentOnce
BY InvCorrect, PTL DEF IInv

\* No nullifier reaches another chain twice or unpaid.
THEOREM DispatchCorrect == Spec => []OneDispatchPerNote
BY InvCorrect, PTL DEF IInv

-------------------------------------------------------------------------------
(***************************************************************************)
(* What a step may never do                                                *)
(***************************************************************************)
Grows ==
    /\ NullifierUsed \subseteq NullifierUsed'
    /\ DOMAIN LeafIndexV2 \subseteq DOMAIN LeafIndexV2'
    /\ \A n \in DOMAIN LeafIndexV2 : LeafIndexV2'[n] = LeafIndexV2[n]

\* Each action only adds nullifiers and leaves.
LEMMA NextGrows == IInv /\ [Next]_vars => Grows
<1> SUFFICES ASSUME IInv, [Next]_vars PROVE Grows
  OBVIOUS
<1>1. ASSUME NEW leaf \in Notes, v2_insert(leaf), NullifierUsed \subseteq NullifierUsed'
      PROVE  Grows
  <2>1. leaf \notin DOMAIN LeafIndexV2
    BY <1>1 DEF v2_insert, TreeWrite
  <2>2. LeafIndexV2' = [l \in DOMAIN LeafIndexV2 \cup {leaf} |->
                          IF l = leaf THEN LeafCountV2 ELSE LeafIndexV2[l]]
    BY <1>1 DEF v2_insert, TreeWrite
  <2>3. QED
    BY <1>1, <2>1, <2>2 DEF Grows
<1>2. CASE Deposit
  BY <1>1, <1>2 DEF Deposit, deposit_v2
<1>3. CASE PurchaseRwa
  BY <1>1, <1>3 DEF PurchaseRwa, purchase_rwa_v2, Spend
<1>4. CASE PurchaseAccess
  BY <1>1, <1>4 DEF PurchaseAccess, purchase_access_v2, Spend
<1>5. CASE Withdraw
  BY <1>5 DEF Withdraw, withdraw_v2, Spend, treeVars, Grows
<1>6. CASE SetRwaPrice \/ SetAccessConfig \/ UNCHANGED vars
  BY <1>6 DEF SetRwaPrice, set_rwa_price, SetAccessConfig, set_access_config,
              vars, treeVars, Grows
<1>7. QED
  BY <1>2, <1>3, <1>4, <1>5, <1>6 DEF Next

\* Nullifiers are never taken back and leaves never move.
THEOREM AppendOnlyCorrect == Spec => AppendOnly
<1>1. IInv /\ [Next]_vars =>
        [/\ NullifierUsed \subseteq NullifierUsed'
         /\ DOMAIN LeafIndexV2 \subseteq DOMAIN LeafIndexV2'
         /\ \A n \in DOMAIN LeafIndexV2 : LeafIndexV2'[n] = LeafIndexV2[n]]_vars
  BY NextGrows DEF Grows
<1>2. QED
  BY <1>1, InvCorrect, PTL DEF Spec, AppendOnly

-------------------------------------------------------------------------------
(***************************************************************************)
(* The pool is solvent                                                     *)
(***************************************************************************)
\* A deposit adds exactly the note's value to the vault.
LEMMA DepositVault ==
    ASSUME IInv, NEW who \in Accounts \ {Pool}, NEW note \in Notes, deposit_v2(who, note)
    PROVE  Vault' = Vault + note.v
<1>1. /\ balance \in [Accounts -> Nat] /\ burnt \in Nat /\ burnt' = burnt
      /\ note.v \in Nat /\ Pool \in Accounts /\ who # Pool
      /\ TransferOk(balance, who, Pool, note.v, TRUE)
      /\ balance' = Transfer(balance, who, Pool, note.v)
  BY ProofHubAssumption DEF IInv, TypeOK, Notes, deposit_v2, Pay
<1>2. balance'[Pool] = balance[Pool] + note.v
  BY <1>1, PaymentIn
<1>3. balance[Pool] \in Nat
  BY <1>1
<1>4. QED
  BY <1>1, <1>2, <1>3 DEF Vault

Worth ==
    [b \in Blindings |-> {n.v : n \in {m \in DOMAIN LeafIndexV2 : Nullifier(m) = b}}]

\* There are finitely many values, so the claims of module PoolFacts are
\* those of the notes.
LEMMA WorthType ==
    ASSUME IInv
    PROVE  /\ Worth \in Worths(Blindings)
           /\ Solvent <=> SumFunction(OpenClaims(Worth, NullifierUsed)) <= Vault
<1>1. \A b \in Blindings : Worth[b] \subseteq Amounts
  BY DEF Worth, IInv, TypeOK, Notes
<1>2. \A b \in Blindings : Worth[b] \subseteq Nat /\ IsFiniteSet(Worth[b])
  BY <1>1, FS_Subset, ProofHubAssumption
<1>3. Worth \in Worths(Blindings)
  BY <1>2 DEF Worth, Worths
<1>4. [b \in Blindings |-> Claim(b)] = OpenClaims(Worth, NullifierUsed)
  BY DEF Claim, OpenClaims, Worth
<1>5. QED
  BY <1>3, <1>4 DEF Solvent, Vault

\* A note that is inserted adds its value under its own nullifier
\* (v2_insert).
LEMMA WorthIssued ==
    ASSUME IInv, IInv', NEW note \in Notes,
           DOMAIN LeafIndexV2' = DOMAIN LeafIndexV2 \cup {note}
    PROVE  /\ note.b \in Blindings /\ note.v \in Nat
           /\ \A spent : SumFunction(OpenClaims(Worth', spent))
                           <= SumFunction(OpenClaims(Worth, spent)) + note.v
<1>1. note.b \in Blindings /\ note.v \in Nat /\ IsFiniteSet(Blindings)
  BY ProofHubAssumption DEF Notes
<1>2. Worth \in Worths(Blindings) /\ Worth' \in Worths(Blindings)
  <2>1. (IInv => Worth \in Worths(Blindings))'
    BY WorthType, PTL
  <2>2. QED
    BY <2>1, WorthType
<1>3. /\ \A b \in Blindings \ {note.b} : Worth'[b] = Worth[b]
      /\ Worth'[note.b] \subseteq Worth[note.b] \cup {note.v}
  BY <1>1 DEF Worth, Nullifier
<1>4. Worth' \in [Blindings -> SUBSET Nat]
  BY <1>2 DEF Worths
<1>5. QED
  BY <1>1, <1>2, <1>3, <1>4, ClaimsRaised

\* Every step keeps the pool solvent: a deposit is paid in, and a spend
\* closes a claim of at least what it pays out and what its change opens.
LEMMA NextSolvent == IInv /\ IInv' /\ Solvent /\ [Next]_vars => Solvent'
<1> SUFFICES ASSUME IInv, IInv', Solvent, [Next]_vars PROVE Solvent'
  OBVIOUS
<1> DEFINE S(worth, spent) == SumFunction(OpenClaims(worth, spent))
<1>1. /\ Worth \in Worths(Blindings) /\ Worth' \in Worths(Blindings)
      /\ S(Worth, NullifierUsed) <= Vault
      /\ Solvent' <=> S(Worth', NullifierUsed') <= Vault'
  <2>1. (IInv => /\ Worth \in Worths(Blindings)
                 /\ Solvent <=> SumFunction(OpenClaims(Worth, NullifierUsed)) <= Vault)'
    BY WorthType, PTL
  <2>2. QED
    BY <2>1, WorthType
<1>2. \A spent : S(Worth, spent) \in Nat /\ S(Worth', spent) \in Nat
  BY <1>1, ClaimsType, ProofHubAssumption
<1>3. /\ balance \in [Accounts -> Nat] /\ burnt \in Nat /\ Vault \in Nat /\ Vault' \in Nat
  BY ProofHubAssumption DEF IInv, TypeOK, Vault
<1>4. CASE Deposit
  <2>1. PICK who \in Accounts \ {Pool}, note \in Notes : deposit_v2(who, note)
    BY <1>4 DEF Deposit
  <2>2. Vault' = Vault + note.v
    BY <2>1, DepositVault
  <2>3. DOMAIN LeafIndexV2' = DOMAIN LeafIndexV2 \cup {note} /\ NullifierUsed' = NullifierUsed
    BY <2>1 DEF deposit_v2, v2_insert, TreeWrite
  <2>4. note.v \in Nat /\ S(Worth', NullifierUsed) <= S(Worth, NullifierUsed) + note.v
    BY <2>3, WorthIssued
  <2> HIDE DEF S
  <2>5. QED
    BY <1>1, <1>2, <1>3, <2>2, <2>3, <2>4
<1>5. ASSUME NEW w \in DOMAIN LeafIndexV2, w.b \notin NullifierUsed,
             NullifierUsed' = NullifierUsed \cup {w.b}
      PROVE  w.v \in Nat /\ S(Worth, NullifierUsed') + w.v <= S(Worth, NullifierUsed)
  <2>1. /\ w.b \in Blindings \ NullifierUsed /\ w.v \in Nat /\ w.v \in Worth[w.b]
    BY <1>5, ProofHubAssumption DEF IInv, TypeOK, Notes, Worth, Nullifier
  <2>2. QED
    BY <1>1, <1>5, <2>1, ClaimsSpent, ProofHubAssumption
<1>6. ASSUME NEW w \in DOMAIN LeafIndexV2, w.b \notin NullifierUsed,
             NullifierUsed' = NullifierUsed \cup {w.b},
             NEW change \in Notes, DOMAIN LeafIndexV2' = DOMAIN LeafIndexV2 \cup {change},
             NEW price \in Nat, w.v = price + change.v, Vault' \in {Vault, Vault - price}
      PROVE  Solvent'
  <2>1. w.v \in Nat /\ S(Worth, NullifierUsed') + w.v <= S(Worth, NullifierUsed)
    BY <1>5, <1>6
  <2>2. change.v \in Nat /\ S(Worth', NullifierUsed') <= S(Worth, NullifierUsed') + change.v
    BY <1>6, WorthIssued
  <2> HIDE DEF S
  <2>3. QED
    BY <1>1, <1>2, <1>3, <1>6, <2>1, <2>2
<1>7. CASE PurchaseRwa
  <2>1. PICK w \in DOMAIN LeafIndexV2, root \in 0..LeafCountV2, pk \in Keys,
             rwa_id \in RwaIds, tx_id \in TxIds, oc \in Commitments,
             change \in Notes : purchase_rwa_v2(w, root, pk, rwa_id, tx_id, oc, change)
    BY <1>7 DEF PurchaseRwa
  <2>2. /\ RwaPrices[rwa_id] \in Nat
        /\ w.b \notin NullifierUsed /\ NullifierUsed' = NullifierUsed \cup {w.b}
        /\ w.v = RwaPrices[rwa_id] + change.v
        /\ DOMAIN LeafIndexV2' = DOMAIN LeafIndexV2 \cup {change}
        /\ Vault' = Vault
    BY <2>1, ProofHubAssumption
    DEF purchase_rwa_v2, Spend, verify_spend_v2, Nullifier, v2_insert, TreeWrite,
        IInv, TypeOK, Notes, Vault
  <2>3. QED
    BY <1>6, <2>1, <2>2
<1>8. CASE PurchaseAccess
  <2>1. PICK w \in DOMAIN LeafIndexV2, root \in 0..LeafCountV2, pk \in Keys,
             app_id \in AppIds, tx_id \in TxIds, akc \in Commitments,
             change \in Notes : purchase_access_v2(w, root, pk, app_id, tx_id, akc, change)
    BY <1>8 DEF PurchaseAccess
  <2> DEFINE cfg == AccessKeyConfigs[app_id]
  <2>2. cfg.price \in Nat /\ cfg.payment_account \in Accounts
    <3>1. cfg \in AppConfig
      BY <2>1 DEF purchase_access_v2, IInv, TypeOK
    <3>2. QED
      BY <2>1, <3>1, ProofHubAssumption DEF AppConfig
  <2>3. /\ w.b \notin NullifierUsed /\ NullifierUsed' = NullifierUsed \cup {w.b}
        /\ w.v = cfg.price + change.v
        /\ DOMAIN LeafIndexV2' = DOMAIN LeafIndexV2 \cup {change}
        /\ PayFromPool(cfg.payment_account, cfg.price)
    BY <2>1 DEF purchase_access_v2, Spend, verify_spend_v2, Nullifier, v2_insert, TreeWrite
  <2> HIDE DEF cfg
  <2>4. Vault' \in {Vault, Vault - cfg.price}
    BY <1>3, <2>2, <2>3, PoolPayment
  <2>5. QED
    BY <1>6, <2>1, <2>2, <2>3, <2>4
<1>9. CASE Withdraw
  <2>1. PICK w \in DOMAIN LeafIndexV2, root \in 0..LeafCountV2, pk \in Keys,
             amount \in Amounts, destination \in Accounts :
             withdraw_v2(w, root, pk, amount, destination)
    BY <1>9 DEF Withdraw
  <2>2. /\ amount \in Nat /\ w.v = amount + 0
        /\ w.b \notin NullifierUsed /\ NullifierUsed' = NullifierUsed \cup {w.b}
        /\ LeafIndexV2' = LeafIndexV2
        /\ PayFromPool(destination, amount)
    BY <2>1, ProofHubAssumption
    DEF withdraw_v2, Spend, verify_spend_v2, Nullifier, treeVars
  <2>3. Vault' \in {Vault, Vault - amount} /\ Worth' = Worth
    BY <1>3, <2>1, <2>2, PoolPayment DEF Worth, Nullifier
  <2>4. w.v \in Nat /\ S(Worth, NullifierUsed') + w.v <= S(Worth, NullifierUsed)
    BY <1>5, <2>1, <2>2
  <2> HIDE DEF S
  <2>5. QED
    BY <1>1, <1>2, <1>3, <2>2, <2>3, <2>4
<1>10. CASE SetRwaPrice \/ SetAccessConfig \/ UNCHANGED vars
  <2>1. /\ LeafIndexV2' = LeafIndexV2 /\ NullifierUsed' = NullifierUsed
        /\ balance' = balance /\ burnt' = burnt
    BY <1>10 DEF SetRwaPrice, set_rwa_price, SetAccessConfig, set_access_config,
                 vars, treeVars
  <2>2. QED
    BY <2>1 DEF Solvent, Claim
<1>11. QED
  BY <1>4, <1>7, <1>8, <1>9, <1>10 DEF Next

\* The pool account always backs every note that can still be spent, for
\* every number of notes and every sequence of calls.
THEOREM SolventCorrect == Spec => []Solvent
<1>1. Init => Solvent
  <2> SUFFICES ASSUME Init PROVE Solvent
    OBVIOUS
  <2>1. IInv /\ Vault \in Nat
    BY InitInv, ProofHubAssumption DEF IInv, TypeOK, Vault
  <2>2. Worth = [b \in Blindings |-> {}]
    BY DEF Init, Worth
  <2>3. SumFunction(OpenClaims(Worth, NullifierUsed)) = 0
    BY <2>2, NoClaims, ProofHubAssumption
  <2>4. QED
    BY <2>1, <2>3, WorthType
<1>2. QED
  BY <1>1, NextSolvent, InvCorrect, PTL DEF Spec

\* Whoever holds a note that was not spent can take it out at once: some
\* root in the window has it, the proof it needs exists, and the pool
\* account can pay.  Left out are the note that fills the tree, a pool that
\* was reaped, and an account the payment is too small to create.
ExitFunded ==
    \A n \in DOMAIN LeafIndexV2, to \in Accounts :
        /\ Nullifier(n) \notin NullifierUsed
        /\ LeafIndexV2[n] < MaxLeaves - 1
        /\ burnt = 0
        /\ balance[to] > 0 \/ n.v >= ExistentialDeposit
        => /\ \E root \in 0..LeafCountV2 :
                /\ v2_root_anchored(root)
                /\ verify_spend_v2(n, root, Nullifier(n), n.pk, n.v, 0)
           /\ TransferOk(balance, Pool, to, n.v, FALSE)

\* No check of withdraw_v2 stands in the way of an unspent note.
THEOREM ExitFundedCorrect == Spec => []ExitFunded
<1>1. ASSUME IInv, Solvent, NEW n \in DOMAIN LeafIndexV2, NEW to \in Accounts,
             Nullifier(n) \notin NullifierUsed, LeafIndexV2[n] < MaxLeaves - 1, burnt = 0,
             balance[to] > 0 \/ n.v >= ExistentialDeposit
      PROVE  /\ \E root \in 0..LeafCountV2 :
                  /\ v2_root_anchored(root)
                  /\ verify_spend_v2(n, root, Nullifier(n), n.pk, n.v, 0)
             /\ TransferOk(balance, Pool, to, n.v, FALSE)
  <2>1. /\ n.b \in Blindings \ NullifierUsed /\ n.v \in Nat /\ n.v \in Worth[n.b]
        /\ balance \in [Accounts -> Nat] /\ Pool \in Accounts
    BY <1>1, ProofHubAssumption DEF IInv, TypeOK, Notes, Worth, Nullifier
  <2>2. PICK root \in 0..LeafCountV2 : v2_root_anchored(root) /\ LeafIndexV2[n] < root
    BY <1>1, CoverExact DEF ExitOpen, Covered
  <2>3. verify_spend_v2(n, root, Nullifier(n), n.pk, n.v, 0)
    BY <2>1, <2>2 DEF verify_spend_v2
  <2>4. /\ Worth \in Worths(Blindings)
        /\ SumFunction(OpenClaims(Worth, NullifierUsed)) <= Vault
    BY <1>1, WorthType
  <2>5. n.v <= SumFunction(OpenClaims(Worth, NullifierUsed))
        /\ SumFunction(OpenClaims(Worth, NullifierUsed)) \in Nat
    BY <2>1, <2>4, ClaimCovered, ClaimsType, ProofHubAssumption
  <2>6. n.v <= balance[Pool]
    BY <1>1, <2>1, <2>4, <2>5 DEF Vault
  <2>7. TransferOk(balance, Pool, to, n.v, FALSE)
    BY <1>1, <2>1, <2>6 DEF TransferOk
  <2>8. QED
    BY <2>2, <2>3, <2>7
<1>2. IInv /\ Solvent => ExitFunded
  BY <1>1 DEF ExitFunded
<1>3. QED
  BY <1>2, InvCorrect, SolventCorrect, PTL

-------------------------------------------------------------------------------
(***************************************************************************)
(* The pallet implements the abstract shielded pool                        *)
(***************************************************************************)
\* The struck note, for the abstract pool.
LEMMA SpendStrike ==
    ASSUME IInv, NEW w, NEW root, NEW pk, NEW price \in Nat, NEW changeValue \in Nat,
           Spend(w, root, pk, price, changeValue)
    PROVE  /\ Promise!Strike(w) /\ w \in Notes
           /\ w.v \in Nat /\ w.v = price + changeValue
BY ProofHubAssumption
DEF IInv, TypeOK, Spend, verify_spend_v2, Nullifier, Notes, Promise!Strike

\* Every step of the pallet is a step of the abstract pool or a stutter.
LEMMA NextRefines == IInv /\ [Next]_vars => [Promise!PoolNext]_(Promise!poolVars)
<1> SUFFICES ASSUME IInv, [Next]_vars
             PROVE  Promise!PoolNext \/ UNCHANGED Promise!poolVars
  OBVIOUS
<1> USE DEF Promise!Note, Notes
<1>0. balance \in [Accounts -> Nat] /\ burnt \in Nat /\ Amounts \subseteq Nat
      /\ Vault \in Nat
  BY ProofHubAssumption DEF IInv, TypeOK, Vault
<1>1. CASE Deposit
  <2>1. PICK who \in Accounts \ {Pool}, note \in Notes : deposit_v2(who, note)
    BY <1>1 DEF Deposit
  <2>2. Vault' = Vault + note.v
    BY <2>1, DepositVault
  <2>3. Promise!Issue(note)
    BY <2>1, <2>2 DEF deposit_v2, v2_insert, TreeWrite, Promise!Issue, Vault
  <2>4. QED
    BY <2>3 DEF Promise!PoolNext
<1>2. CASE PurchaseRwa
  <2>1. PICK w \in DOMAIN LeafIndexV2, root \in 0..LeafCountV2, pk \in Keys,
             rwa_id \in RwaIds, tx_id \in TxIds, oc \in Commitments,
             change \in Notes : purchase_rwa_v2(w, root, pk, rwa_id, tx_id, oc, change)
    BY <1>2 DEF PurchaseRwa
  <2>2. RwaPrices[rwa_id] \in Nat /\ RwaPrices[rwa_id] > 0 /\ change.v \in Nat
    BY <2>1, ProofHubAssumption DEF purchase_rwa_v2, IInv, TypeOK
  <2>3. /\ Promise!Strike(w) /\ w \in Notes
        /\ w.v \in Nat /\ w.v = RwaPrices[rwa_id] + change.v
    BY <2>1, <2>2, SpendStrike DEF purchase_rwa_v2
  <2>4. change.v < w.v
    BY <2>2, <2>3
  <2>5. Vault' = Vault
    BY <2>1 DEF purchase_rwa_v2, Vault
  <2>6. change \notin DOMAIN LeafIndexV2
        /\ DOMAIN LeafIndexV2' = DOMAIN LeafIndexV2 \cup {change}
    BY <2>1 DEF purchase_rwa_v2, v2_insert, TreeWrite
  <2>7. Promise!Purchase(w, change)
    BY <2>3, <2>4, <2>5, <2>6 DEF Promise!Purchase, Vault
  <2>8. QED
    BY <2>1, <2>3, <2>7 DEF Promise!PoolNext
<1>3. CASE PurchaseAccess
  <2>1. PICK w \in DOMAIN LeafIndexV2, root \in 0..LeafCountV2, pk \in Keys,
             app_id \in AppIds, tx_id \in TxIds, akc \in Commitments,
             change \in Notes : purchase_access_v2(w, root, pk, app_id, tx_id, akc, change)
    BY <1>3 DEF PurchaseAccess
  <2> DEFINE cfg == AccessKeyConfigs[app_id]
  <2>2. cfg.price \in Nat /\ cfg.price > 0 /\ change.v \in Nat
        /\ cfg.payment_account \in Accounts
    <3>1. cfg \in AppConfig
      BY <2>1 DEF purchase_access_v2, IInv, TypeOK
    <3>2. QED
      BY <2>1, <3>1, ProofHubAssumption DEF purchase_access_v2, AppConfig
  <2>3. /\ Promise!Strike(w) /\ w \in Notes
        /\ w.v \in Nat /\ w.v = cfg.price + change.v
    BY <2>1, <2>2, SpendStrike DEF purchase_access_v2
  <2>4. change.v < w.v /\ w.v - change.v = cfg.price
    BY <2>2, <2>3
  <2>5. Vault' \in {Vault, Vault - cfg.price}
    BY <1>0, <2>1, <2>2, PoolPayment DEF purchase_access_v2
  <2>6. change \notin DOMAIN LeafIndexV2
        /\ DOMAIN LeafIndexV2' = DOMAIN LeafIndexV2 \cup {change}
    BY <2>1 DEF purchase_access_v2, v2_insert, TreeWrite
  <2>7. Promise!Purchase(w, change)
    BY <2>3, <2>4, <2>5, <2>6 DEF Promise!Purchase, Vault
  <2>8. QED
    BY <2>1, <2>3, <2>7 DEF Promise!PoolNext
<1>4. CASE Withdraw
  <2>1. PICK w \in DOMAIN LeafIndexV2, root \in 0..LeafCountV2, pk \in Keys,
             amount \in Amounts, destination \in Accounts :
             withdraw_v2(w, root, pk, amount, destination)
    BY <1>4 DEF Withdraw
  <2>2. amount \in Nat
    BY <1>0
  <2>3. Promise!Strike(w) /\ w \in Notes /\ w.v \in Nat /\ w.v = amount + 0
    BY <2>1, <2>2, SpendStrike DEF withdraw_v2
  <2>4. Vault' \in {Vault, Vault - w.v}
    BY <1>0, <2>1, <2>2, <2>3, PoolPayment DEF withdraw_v2
  <2>5. Promise!Redeem(w)
    BY <2>1, <2>3, <2>4 DEF Promise!Redeem, withdraw_v2, treeVars, Vault
  <2>6. QED
    BY <2>3, <2>5 DEF Promise!PoolNext
<1>5. CASE SetRwaPrice \/ SetAccessConfig \/ UNCHANGED vars
  BY <1>5 DEF SetRwaPrice, set_rwa_price, SetAccessConfig, set_access_config,
              vars, treeVars, Promise!poolVars
<1>6. QED
  BY <1>1, <1>2, <1>3, <1>4, <1>5 DEF Next

\* Every behaviour of the pallet is a behaviour of the abstract pool, for
\* every value of the constants.
THEOREM Refinement == Spec => RefinesShieldedPool
<1>1. Init => Promise!PoolInit
  BY InitInv, ProofHubAssumption DEF Init, Promise!PoolInit, IInv, TypeOK
<1>2. QED
  BY <1>1, NextRefines, InvCorrect, PTL DEF Spec, RefinesShieldedPool, Promise!PoolSpec

-------------------------------------------------------------------------------
(* Before: the transaction pool *)

\* What the lane has to know of a pending call to run it: its arguments are
\* of the types the dispatchable declares and its root is one the tree had.
CallOK(tx) ==
    /\ tx.root \in 1..LeafCountV2
    /\ tx.w \in DOMAIN LeafIndexV2
    /\ tx.tx_id \in TxIds
    /\ tx.call = "purchase_rwa_v2" => tx.to \in RwaIds /\ tx.change \in Notes
    /\ tx.call = "purchase_access_v2" => tx.to \in AppIds /\ tx.change \in Notes
    /\ tx.call = "withdraw_v2" => tx.to \in Accounts /\ tx.price \in Amounts

PoolInv == IInv /\ \A tx \in pending : CallOK(tx)

-------------------------------------------------------------------------------
\* No step of the lane takes a leaf back, so a root it ever had stays one.
LEMMA NextCounts == IInv /\ [Next]_vars => LeafCountV2 <= LeafCountV2'
<1> SUFFICES ASSUME IInv, [Next]_vars PROVE LeafCountV2 <= LeafCountV2'
  OBVIOUS
<1>1. LeafCountV2 \in Nat
  BY ProofHubAssumption DEF IInv, TypeOK
<1>2. ASSUME LeafCountV2' = LeafCountV2 + 1 PROVE LeafCountV2 <= LeafCountV2'
  BY <1>1, <1>2
<1>3. CASE Deposit
  BY <1>2, <1>3 DEF Deposit, deposit_v2, v2_insert, TreeWrite
<1>4. CASE PurchaseRwa
  BY <1>2, <1>4 DEF PurchaseRwa, purchase_rwa_v2, v2_insert, TreeWrite
<1>5. CASE PurchaseAccess
  BY <1>2, <1>5 DEF PurchaseAccess, purchase_access_v2, v2_insert, TreeWrite
<1>6. CASE Withdraw \/ SetRwaPrice \/ SetAccessConfig \/ UNCHANGED vars
  <2>1. LeafCountV2' = LeafCountV2
    BY <1>6 DEF Withdraw, withdraw_v2, SetRwaPrice, set_rwa_price, SetAccessConfig,
                set_access_config, vars, treeVars
  <2> QED BY <1>1, <2>1
<1> QED BY <1>3, <1>4, <1>5, <1>6 DEF Next

\* A call the lane knows stays one, whatever step the lane takes.
LEMMA CallKept ==
    ASSUME IInv, [Next]_vars, NEW tx, CallOK(tx)
    PROVE  CallOK(tx)'
<1>1. LeafCountV2 <= LeafCountV2' /\ LeafCountV2 \in Nat /\ LeafCountV2' \in Nat
  <2>1. IInv'
    BY NextInv
  <2>2. LeafCountV2 \in Nat
    BY ProofHubAssumption DEF IInv, TypeOK
  <2>3. LeafCountV2' \in Nat
    BY <2>1, ProofHubAssumption DEF IInv, TypeOK
  <2> QED BY <2>2, <2>3, NextCounts
<1>2. DOMAIN LeafIndexV2 \subseteq DOMAIN LeafIndexV2'
  BY NextGrows DEF Grows
<1> QED BY <1>1, <1>2 DEF CallOK

\* A call that is included is one of the lane's own actions.
LEMMA DispatchIsNext ==
    ASSUME IInv, NEW tx, CallOK(tx), Dispatch(tx)
    PROVE  Next
<1>1. /\ tx.root \in 0..LeafCountV2 /\ tx.w.pk \in Keys /\ tx.w \in DOMAIN LeafIndexV2
      /\ tx.tx_id \in TxIds
  BY ProofHubAssumption DEF CallOK, IInv, TypeOK, Notes
<1>2. CASE tx.call = "purchase_rwa_v2"
  <2>1. /\ tx.to \in RwaIds /\ tx.change \in Notes
        /\ \E oc \in Commitments :
             purchase_rwa_v2(tx.w, tx.root, tx.w.pk, tx.to, tx.tx_id, oc, tx.change)
    BY <1>2 DEF CallOK, Dispatch
  <2>2. PurchaseRwa
    BY <1>1, <2>1 DEF PurchaseRwa
  <2> QED BY <2>2 DEF Next
<1>3. CASE tx.call = "purchase_access_v2"
  <2>1. /\ tx.to \in AppIds /\ tx.change \in Notes
        /\ \E akc \in Commitments :
             purchase_access_v2(tx.w, tx.root, tx.w.pk, tx.to, tx.tx_id, akc, tx.change)
    BY <1>3 DEF CallOK, Dispatch
  <2>2. PurchaseAccess
    BY <1>1, <2>1 DEF PurchaseAccess
  <2> QED BY <2>2 DEF Next
<1>4. CASE tx.call = "withdraw_v2"
  <2>1. /\ tx.to \in Accounts /\ tx.price \in Amounts
        /\ withdraw_v2(tx.w, tx.root, tx.w.pk, tx.price, tx.to)
    BY <1>4 DEF CallOK, Dispatch
  <2>2. Withdraw
    BY <1>1, <2>1 DEF Withdraw
  <2> QED BY <2>2 DEF Next
<1> QED BY <1>2, <1>3, <1>4 DEF Dispatch

\* Every step of the pool is a step of the lane or leaves it alone, and
\* only a submission adds a call.
LEMMA PoolStep ==
    ASSUME PoolInv, [TxPoolNext]_poolVars
    PROVE  /\ [Next]_vars
           /\ \A tx \in pending' : tx \in pending \/ CallOK(tx)
<1>1. CASE Signed /\ UNCHANGED pending
  BY <1>1 DEF Signed, Next
<1>2. CASE SubmitPurchase
  <2>1. PICK w \in DOMAIN LeafIndexV2 : \E tx \in Spends(w) : Submit(tx)
    BY <1>2 DEF SubmitPurchase
  <2>2. PICK tx \in Spends(w) : Submit(tx)
    BY <2>1
  <2>3. CallOK(tx)
    BY <2>2 DEF Spends, CallOK
  <2> QED BY <2>2, <2>3 DEF Submit
<1>3. CASE \E b \in Blindings : SubmitWithdraw(b)
  <2>0. PICK b \in Blindings : SubmitWithdraw(b)
    BY <1>3
  <2>1. PICK w \in Leaves(b) : \E tx \in Withdrawals(w) : Submit(tx)
    BY <2>0 DEF SubmitWithdraw
  <2>2. PICK tx \in Withdrawals(w) : Submit(tx)
    BY <2>1
  <2>3. w \in DOMAIN LeafIndexV2 /\ w.v \in Amounts
    BY <2>1 DEF Leaves, PoolInv, IInv, TypeOK, Notes
  <2>4. CallOK(tx)
    BY <2>2, <2>3 DEF Withdrawals, CallOK
  <2> QED BY <2>2, <2>4 DEF Submit
<1>4. CASE \E tx \in pending : Leave(tx)
  <2>1. PICK tx \in pending : Leave(tx)
    BY <1>4
  <2>2. pending' = pending \ {tx} /\ (Dispatch(tx) \/ UNCHANGED vars)
    BY <2>1 DEF Leave, Include, Drop, Expire
  <2>3. Dispatch(tx) => Next
    BY DispatchIsNext DEF PoolInv
  <2> QED BY <2>2, <2>3
<1>5. CASE UNCHANGED poolVars
  BY <1>5 DEF poolVars
<1> QED BY <1>1, <1>2, <1>3, <1>4, <1>5 DEF TxPoolNext

\* Every step preserves the invariant.
LEMMA PoolNextInv == PoolInv /\ [TxPoolNext]_poolVars => PoolInv'
<1> SUFFICES ASSUME PoolInv, [TxPoolNext]_poolVars PROVE PoolInv'
  OBVIOUS
<1>1. [Next]_vars /\ \A tx \in pending' : tx \in pending \/ CallOK(tx)
  BY PoolStep
<1>2. IInv'
  BY <1>1, NextInv DEF PoolInv
<1>3. ASSUME NEW tx \in pending' PROVE CallOK(tx)'
  <2>1. CallOK(tx)
    BY <1>1 DEF PoolInv
  <2> QED BY <1>1, <2>1, CallKept DEF PoolInv
<1> QED BY <1>2, <1>3 DEF PoolInv

\* The inductive invariant holds of every behaviour of the pool.
THEOREM PoolInvCorrect == TxPoolSpec => []PoolInv
<1>1. PoolInit => PoolInv
  BY InitInv DEF PoolInit, PoolInv
<1> QED BY <1>1, PoolNextInv, PTL DEF TxPoolSpec

\* Whatever the pool admits, drops or includes, the chain behaves as the v2
\* lane does: every property of the lane holds behind validate_unsigned.
THEOREM PoolImplementsLane == TxPoolSpec => Spec
<1>1. PoolInit => Init
  BY DEF PoolInit
<1>2. PoolInv /\ [TxPoolNext]_poolVars => [Next]_vars
  BY PoolStep
<1> QED BY <1>1, <1>2, PoolInvCorrect, PTL DEF TxPoolSpec, Spec

\* What is struck stays struck, and a root that has left the window lies
\* even further behind after any step.
LEMMA StaleStep ==
    ASSUME PoolInv, [TxPoolNext]_poolVars, NEW tx \in pending, ~validate_unsigned(tx)
    PROVE  ~validate_unsigned(tx)'
<1>1. [Next]_vars /\ IInv /\ IInv' /\ tx.root \in 1..LeafCountV2
  BY PoolStep, PoolNextInv DEF PoolInv, CallOK
<1>2. CASE Nullifier(tx.w) \in NullifierUsed
  BY <1>1, <1>2, NextGrows DEF Grows, validate_unsigned, Nullifier
<1>3. CASE ~v2_root_anchored(tx.root)
  <2>1. /\ LeafCountV2 <= LeafCountV2' /\ LeafCountV2 \in Nat /\ LeafCountV2' \in Nat
        /\ MaxLeaves \in Nat /\ RootWindow \in Nat
    <3>1. LeafCountV2 \in Nat /\ MaxLeaves \in Nat /\ RootWindow \in Nat
      BY <1>1, ProofHubAssumption DEF IInv, TypeOK
    <3>2. LeafCountV2' \in Nat
      BY <1>1, ProofHubAssumption DEF IInv, TypeOK
    <3> QED BY <1>1, <3>1, <3>2, NextCounts
  <2>2. tx.root = MaxLeaves \/ ~(tx.root >= LeafCountV2 - RootWindow)
    BY <1>1, <1>3, ShapeExact DEF WindowExact
  <2>3. tx.root \in 1..LeafCountV2'
    BY <1>1, <2>1
  <2>5. WindowExact'
    BY <1>1, ShapeExact, PTL
  <2>6. v2_root_anchored(tx.root)'
          => tx.root # MaxLeaves /\ tx.root >= LeafCountV2' - RootWindow
    BY <2>3, <2>5 DEF WindowExact
  <2>7. ~v2_root_anchored(tx.root)'
    BY <1>1, <2>1, <2>2, <2>6
  <2> QED BY <2>7 DEF validate_unsigned
<1> QED BY <1>2, <1>3 DEF validate_unsigned

\* A pool that drops what validate_unsigned refuses loses nothing, for every
\* window length: what is stale never becomes valid again.
THEOREM StaleForEverCorrect == TxPoolSpec => StaleForEver
<1>1. PoolInv /\ [TxPoolNext]_poolVars =>
        [\A tx \in pending : ~validate_unsigned(tx) => ~validate_unsigned(tx)']_poolVars
  BY StaleStep
<1> QED BY <1>1, PoolInvCorrect, PTL DEF TxPoolSpec, StaleForEver
-------------------------------------------------------------------------------
(* After: delivery on the other chains *)

Dests == {"rwa", "authgate"}

\* The records the destinations make of a program; `used` is the one field
\* that changes afterwards.
GrantOf(m, used) ==
    [app_id |-> m.id, nullifier |-> m.nullifier,
     access_key_commitment |-> m.commitment, used |-> used]

PurchaseOf(m) ==
    [asset_id |-> AssetOf[m.id], nullifier |-> m.nullifier,
     ownership_commitment |-> m.commitment]

\* A program names an entry of the lane it is for.
SentOK ==
    \A m \in sent : IF m.dest = "authgate" THEN m.id \in AppIds ELSE m.id \in RwaIds

\* A queue holds programs the hub sent to that destination, none twice.
QueuesOK ==
    /\ xcm \in [Dests -> Seq(sent)]
    /\ \A d \in Dests : \A i \in 1..Len(xcm[d]) : xcm[d][i].dest = d
    /\ \A d \in Dests : \A i, j \in 1..Len(xcm[d]) : xcm[d][i] = xcm[d][j] => i = j

\* What the destinations have recorded, they were told by the hub.
GrantsOK ==
    /\ AccessGrants = [t \in TxIds |-> AccessGrants[t]]
    /\ \A t \in TxIds : AccessGrants[t] # None =>
         \E m \in sent : /\ m.dest = "authgate" /\ m.tx_id = t
                         /\ \E used \in BOOLEAN : AccessGrants[t] = GrantOf(m, used)

RecordsOK ==
    /\ ProofHubPurchases = [t \in TxIds |-> ProofHubPurchases[t]]
    /\ \A t \in TxIds : ProofHubPurchases[t] # None =>
         \E m \in sent : /\ m.dest = "rwa" /\ m.tx_id = t
                         /\ ProofHubPurchases[t] = PurchaseOf(m)

Done(m) == IF m.dest = "authgate" THEN Granted(m) ELSE Recorded(m)

\* Exactly one of the four places.
Placed(m) ==
    /\ InFlight(m) \/ m \in dropped \/ m \in refused \/ Done(m)
    /\ InFlight(m) => m \notin dropped /\ m \notin refused /\ ~ Done(m)
    /\ m \in dropped => m \notin refused /\ ~ Done(m)
    /\ m \in refused => ~ Done(m)

PlacesOK ==
    /\ dropped \subseteq sent
    /\ refused \subseteq sent
    /\ \A m \in sent : Placed(m)

SettleInv == IInv /\ SentOK /\ QueuesOK /\ GrantsOK /\ RecordsOK /\ PlacesOK

-------------------------------------------------------------------------------
(***************************************************************************)
(* Queues                                                                  *)
(***************************************************************************)

\* Serving a queue takes its head out of flight and leaves every other
\* program where it is (Receive).
LEMMA ReceiveStep ==
    ASSUME QueuesOK, NEW d \in Dests, NEW m, Receive(d, m)
    PROVE  /\ m \in sent /\ m.dest = d
           /\ InFlight(m) /\ ~ InFlight(m)'
           /\ \A o \in sent : o # m /\ o.dest \in Dests => (InFlight(o)' <=> InFlight(o))
           /\ QueuesOK'
<1> DEFINE q == xcm[d]
           n == Len(q)
<1>1. /\ q \in Seq(sent) /\ q # << >> /\ m = Head(q)
      /\ xcm' = [xcm EXCEPT ![d] = Tail(q)]
      /\ sent' = sent
  BY DEF Receive, QueuesOK, vars
<1>2. n \in Nat /\ n > 0 /\ m = q[1] /\ m \in sent
  BY <1>1
<1>3. /\ \A i \in 1..n : q[i].dest = d
      /\ \A i, j \in 1..n : q[i] = q[j] => i = j
  BY DEF QueuesOK
<1>4. /\ Tail(q) \in Seq(sent) /\ Len(Tail(q)) = n - 1
      /\ \A i \in 1..(n - 1) : Tail(q)[i] = q[i + 1]
  BY <1>1
<1>5. /\ xcm'[d] = Tail(q) /\ \A e \in Dests \ {d} : xcm'[e] = xcm[e]
      /\ xcm' \in [Dests -> Seq(sent)]
  BY <1>1, <1>4 DEF QueuesOK
<1> DEFINE t == Tail(q)
<1>6. \A i \in 1..(n - 1) : t[i] = q[i + 1]
  BY <1>4
<1> HIDE DEF q, n, t
<1>7. m.dest = d
  BY <1>2, <1>3
<1>8. Len(xcm[d]) = n /\ Len(xcm'[d]) = n - 1
  BY <1>4, <1>5 DEF q, n, t
<1>9. \A i \in 1..n : xcm[d][i] = q[i]
  BY DEF q
<1>10. \A i \in 1..(n - 1) : xcm'[d][i] = q[i + 1] /\ i + 1 \in 1..n
  <2>1. xcm'[d] = t
    BY <1>5 DEF t
  <2>2. \A i \in 1..(n - 1) : i + 1 \in 1..n
    BY <1>2
  <2> QED BY <1>6, <2>1, <2>2
<1>11. InFlight(m)
  BY <1>2, <1>7, <1>8, <1>9 DEF InFlight
<1>12. ~ InFlight(m)'
  <2> SUFFICES ASSUME NEW i \in 1..(n - 1), xcm'[d][i] = m PROVE FALSE
    BY <1>7, <1>8 DEF InFlight
  <2>1. q[i + 1] = q[1] /\ i + 1 \in 1..n /\ 1 \in 1..n /\ i \in Int /\ i >= 1
    BY <1>2, <1>10
  <2>2. i + 1 = 1
    BY <1>3, <2>1
  <2> QED BY <2>1, <2>2
<1>13. ASSUME NEW o \in sent, o # m, o.dest \in Dests PROVE InFlight(o)' <=> InFlight(o)
  <2>1. CASE o.dest # d
    BY <1>5, <1>13, <2>1 DEF InFlight
  <2>2. CASE o.dest = d
    <3>1. ASSUME NEW i \in 1..(n - 1), xcm'[d][i] = o PROVE \E j \in 1..n : xcm[d][j] = o
      BY <1>9, <1>10, <3>1
    <3>2. ASSUME NEW j \in 1..n, xcm[d][j] = o PROVE \E i \in 1..(n - 1) : xcm'[d][i] = o
      <4>1. q[j] = o /\ j # 1
        BY <1>2, <1>9, <1>13, <3>2
      <4>2. j - 1 \in 1..(n - 1) /\ (j - 1) + 1 = j
        BY <1>2, <4>1
      <4>3. xcm'[d][j - 1] = q[(j - 1) + 1]
        BY <1>10, <4>2
      <4>4. xcm'[d][j - 1] = o
        BY <4>1, <4>2, <4>3
      <4> QED BY <4>2, <4>4
    <3> QED BY <1>8, <2>2, <3>1, <3>2 DEF InFlight
  <2> QED BY <2>1, <2>2
<1>14. QueuesOK'
  <2>1. \A e \in Dests : \A i \in 1..Len(xcm'[e]) : xcm'[e][i].dest = e
    <3>1. \A i \in 1..(n - 1) : xcm'[d][i].dest = d
      BY <1>3, <1>10
    <3> SUFFICES ASSUME NEW e \in Dests PROVE \A i \in 1..Len(xcm'[e]) : xcm'[e][i].dest = e
      OBVIOUS
    <3>2. CASE e = d
      BY <1>8, <3>1, <3>2
    <3>3. CASE e # d
      <4>1. xcm'[e] = xcm[e]
        BY <1>5, <3>3
      <4> QED BY <4>1 DEF QueuesOK
    <3> QED BY <3>2, <3>3
  <2>2. \A e \in Dests : \A i, j \in 1..Len(xcm'[e]) : xcm'[e][i] = xcm'[e][j] => i = j
    <3>1. ASSUME NEW i \in 1..(n - 1), NEW j \in 1..(n - 1), xcm'[d][i] = xcm'[d][j]
          PROVE  i = j
      <4>1. i + 1 = j + 1
        BY <1>3, <1>10, <3>1
      <4> QED BY <4>1
    <3> SUFFICES ASSUME NEW e \in Dests
                 PROVE  \A i, j \in 1..Len(xcm'[e]) : xcm'[e][i] = xcm'[e][j] => i = j
      OBVIOUS
    <3>2. CASE e = d
      BY <1>8, <3>1, <3>2
    <3>3. CASE e # d
      <4>1. xcm'[e] = xcm[e]
        BY <1>5, <3>3
      <4> QED BY <4>1 DEF QueuesOK
    <3> QED BY <3>2, <3>3
  <2>3. xcm' \in [Dests -> Seq(sent')]
    BY <1>1, <1>5
  <2> QED BY <2>1, <2>2, <2>3 DEF QueuesOK
<1> QED BY <1>2, <1>7, <1>11, <1>12, <1>13, <1>14

\* A program that is sent is in flight or dropped, and none of the others
\* moves (Send).
LEMMA SendStep ==
    ASSUME QueuesOK, dropped \subseteq sent, NEW m, m \notin sent, m.dest \in Dests,
           sent' = sent \cup {m}, Send(m)
    PROVE  /\ QueuesOK' /\ dropped' \subseteq sent'
           /\ \A o \in sent : o.dest \in Dests =>
                /\ InFlight(o)' <=> InFlight(o)
                /\ o \in dropped' <=> o \in dropped
           /\ ~ InFlight(m) /\ m \notin dropped
           /\ \/ InFlight(m)' /\ m \notin dropped'
              \/ ~ InFlight(m)' /\ m \in dropped'
<1> DEFINE d == m.dest
           q == xcm[d]
           n == Len(q)
<1>1. q \in Seq(sent) /\ n \in Nat /\ d \in Dests
  BY DEF QueuesOK
<1>2. \A i \in 1..n : q[i] \in sent /\ q[i] # m
  BY <1>1
<1>3. ~ InFlight(m) /\ m \notin dropped
  BY <1>2 DEF InFlight
<1>4. \A e \in Dests : xcm[e] \in Seq(sent')
  BY DEF QueuesOK
<1>5. CASE xcm' = [xcm EXCEPT ![d] = Append(q, m)] /\ dropped' = dropped
  <2>1. /\ Append(q, m) \in Seq(sent') /\ Len(Append(q, m)) = n + 1
        /\ \A i \in 1..n : Append(q, m)[i] = q[i]
        /\ Append(q, m)[n + 1] = m
    BY <1>1, <1>4
  <2>2. /\ xcm'[d] = Append(q, m) /\ \A e \in Dests \ {d} : xcm'[e] = xcm[e]
        /\ xcm' \in [Dests -> Seq(sent')]
    BY <1>1, <1>4, <1>5, <2>1 DEF QueuesOK
  <2>3. /\ \A i \in 1..n : q[i].dest = d
        /\ \A i, j \in 1..n : q[i] = q[j] => i = j
    BY <1>1 DEF QueuesOK
  <2> DEFINE r == xcm'[d]
  <2>4. /\ Len(r) = n + 1 /\ r[n + 1] = m
        /\ \A i \in 1..n : r[i] = q[i]
    BY <2>1, <2>2
  <2>5. n = Len(xcm[d]) /\ q = xcm[d] /\ d = m.dest
    OBVIOUS
  <2> HIDE DEF d, q, n, r
  <2>6. \A i \in 1..(n + 1) : i \in 1..n \/ i = n + 1
    BY <1>1
  <2>7. InFlight(m)' /\ m \notin dropped'
    BY <1>1, <1>3, <1>5, <2>4, <2>5 DEF InFlight, r
  <2>8. ASSUME NEW o \in sent, o.dest \in Dests PROVE InFlight(o)' <=> InFlight(o)
    <3>1. CASE o.dest # d
      BY <2>2, <2>8, <3>1 DEF InFlight
    <3>2. CASE o.dest = d
      <4>1. (\E i \in 1..(n + 1) : r[i] = o) <=> (\E i \in 1..n : q[i] = o)
        BY <1>1, <2>4, <2>6
      <4> QED BY <2>4, <2>5, <3>2, <4>1 DEF InFlight, r
    <3> QED BY <3>1, <3>2
  <2>9. \A e \in Dests : \A i \in 1..Len(xcm'[e]) : xcm'[e][i].dest = e
    <3>1. \A i \in 1..(n + 1) : r[i].dest = d
      BY <2>3, <2>4, <2>5, <2>6
    <3> SUFFICES ASSUME NEW e \in Dests PROVE \A i \in 1..Len(xcm'[e]) : xcm'[e][i].dest = e
      OBVIOUS
    <3>2. CASE e = d
      BY <2>4, <3>1, <3>2 DEF r
    <3>3. CASE e # d
      <4>1. xcm'[e] = xcm[e]
        BY <2>2, <3>3
      <4> QED BY <4>1 DEF QueuesOK
    <3> QED BY <3>2, <3>3
  <2>10. \A e \in Dests : \A i, j \in 1..Len(xcm'[e]) : xcm'[e][i] = xcm'[e][j] => i = j
    <3>1. \A i, j \in 1..(n + 1) : r[i] = r[j] => i = j
      BY <1>2, <2>3, <2>4, <2>6
    <3> SUFFICES ASSUME NEW e \in Dests
                 PROVE  \A i, j \in 1..Len(xcm'[e]) : xcm'[e][i] = xcm'[e][j] => i = j
      OBVIOUS
    <3>2. CASE e = d
      BY <2>4, <3>1, <3>2 DEF r
    <3>3. CASE e # d
      <4>1. xcm'[e] = xcm[e]
        BY <2>2, <3>3
      <4> QED BY <4>1 DEF QueuesOK
    <3> QED BY <3>2, <3>3
  <2> QED BY <1>3, <1>5, <2>2, <2>7, <2>8, <2>9, <2>10 DEF QueuesOK
<1>6. CASE xcm' = xcm /\ dropped' = dropped \cup {m}
  <2>1. QueuesOK'
    BY <1>4, <1>6 DEF QueuesOK
  <2>2. \A o \in sent : (InFlight(o)' <=> InFlight(o)) /\ (o \in dropped' <=> o \in dropped)
    BY <1>6 DEF InFlight
  <2>3. ~ InFlight(m)' /\ m \in dropped' /\ dropped' \subseteq sent'
    BY <1>3, <1>6 DEF InFlight
  <2> QED BY <1>3, <2>1, <2>2, <2>3
<1> QED BY <1>5, <1>6 DEF Send

-------------------------------------------------------------------------------
(***************************************************************************)
(* The hub                                                                 *)
(***************************************************************************)
Typed(m) ==
    /\ m.dest \in Dests
    /\ IF m.dest = "authgate" THEN m.id \in AppIds ELSE m.id \in RwaIds

\* A call of the hub sends at most one program, for a nullifier that no
\* earlier one carries (purchase_rwa_v2, purchase_access_v2).
LEMMA HubSends ==
    ASSUME IInv, Next
    PROVE  \/ sent' = sent
           \/ \E m : /\ m \notin sent /\ sent' = sent \cup {m} /\ Typed(m)
                    /\ \A o \in sent : o.nullifier # m.nullifier
<1>1. ASSUME NEW w, w.b \notin NullifierUsed, NEW m, m.nullifier = w.b
      PROVE  m \notin sent /\ \A o \in sent : o.nullifier # m.nullifier
  BY <1>1 DEF IInv, OneDispatchPerNote
<1>2. CASE PurchaseRwa
  <2>1. PICK w \in DOMAIN LeafIndexV2, root \in 0..LeafCountV2, pk \in Keys,
             rwa_id \in RwaIds, tx_id \in TxIds, oc \in Commitments,
             change \in Notes : purchase_rwa_v2(w, root, pk, rwa_id, tx_id, oc, change)
    BY <1>2 DEF PurchaseRwa
  <2> DEFINE m == [dest |-> "rwa", id |-> rwa_id, commitment |-> oc,
                   nullifier |-> w.b, tx_id |-> tx_id]
  <2>2. sent' = sent \cup {m} /\ w.b \notin NullifierUsed
    BY <2>1 DEF purchase_rwa_v2, Spend, Nullifier
  <2>3. m.nullifier = w.b /\ Typed(m)
    BY DEF Typed, Dests
  <2> HIDE DEF m
  <2> QED BY <1>1, <2>2, <2>3
<1>3. CASE PurchaseAccess
  <2>1. PICK w \in DOMAIN LeafIndexV2, root \in 0..LeafCountV2, pk \in Keys,
             app_id \in AppIds, tx_id \in TxIds, akc \in Commitments,
             change \in Notes : purchase_access_v2(w, root, pk, app_id, tx_id, akc, change)
    BY <1>3 DEF PurchaseAccess
  <2> DEFINE m == [dest |-> "authgate", id |-> app_id, commitment |-> akc,
                   nullifier |-> w.b, tx_id |-> tx_id]
  <2>2. sent' = sent \cup {m} /\ w.b \notin NullifierUsed
    BY <2>1 DEF purchase_access_v2, Spend, Nullifier
  <2>3. m.nullifier = w.b /\ Typed(m)
    BY DEF Typed, Dests
  <2> HIDE DEF m
  <2> QED BY <1>1, <2>2, <2>3
<1>4. CASE Deposit \/ Withdraw \/ SetRwaPrice \/ SetAccessConfig
  BY <1>4 DEF Deposit, deposit_v2, Withdraw, withdraw_v2, SetRwaPrice, set_rwa_price,
              SetAccessConfig, set_access_config
<1> QED BY <1>2, <1>3, <1>4 DEF Next

\* A step of the hub and nothing else leaves every program where it is, but
\* for the one it sends.
LEMMA HubInv == SettleInv /\ Hub => SettleInv'
<1> SUFFICES ASSUME SettleInv, Hub PROVE SettleInv'
  OBVIOUS
<1>1. IInv'
  BY NextInv DEF SettleInv, Hub
<1>2. /\ AccessGrants' = AccessGrants /\ ProofHubPurchases' = ProofHubPurchases
      /\ refused' = refused
  BY DEF Hub, gateState, rwaState
<1>3. CASE sent' = sent
  <2>1. xcm' = xcm /\ dropped' = dropped
    BY <1>3 DEF Hub
  <2> QED BY <1>1, <1>2, <1>3, <2>1
      DEF SettleInv, SentOK, QueuesOK, GrantsOK, RecordsOK, PlacesOK, Placed, Done,
          InFlight, Granted, Recorded
<1>4. CASE sent' # sent
  <2>1. PICK m : /\ m \notin sent /\ sent' = sent \cup {m} /\ Typed(m)
                 /\ \A o \in sent : o.nullifier # m.nullifier
    BY <1>4, HubSends DEF SettleInv, Hub
  <2>2. Send(m)
    BY <1>4, <2>1 DEF Hub
  <2>3. \A o \in sent : o.dest \in Dests
    BY DEF SettleInv, IInv, TypeOK, Dests
  <2>4. /\ QueuesOK' /\ dropped' \subseteq sent'
        /\ \A o \in sent : InFlight(o)' <=> InFlight(o)
        /\ \A o \in sent : o \in dropped' <=> o \in dropped
        /\ \/ InFlight(m)' /\ m \notin dropped'
           \/ ~ InFlight(m)' /\ m \in dropped'
    BY <2>1, <2>2, <2>3, SendStep DEF SettleInv, PlacesOK, Typed
  <2>5. SentOK'
    BY <2>1 DEF SettleInv, SentOK, Typed
  <2>6. GrantsOK' /\ RecordsOK'
    BY <1>2, <2>1 DEF SettleInv, GrantsOK, RecordsOK
  <2>7. ~ Done(m) /\ m \notin refused
    <3>1. ~ Granted(m)
      <4> SUFFICES ASSUME Granted(m), m.tx_id \in TxIds PROVE FALSE
        BY <1>1, <2>1 DEF IInv, TypeOK
      <4>1. PICK o \in sent, used \in BOOLEAN : AccessGrants[m.tx_id] = GrantOf(o, used)
        BY DEF SettleInv, GrantsOK, Granted
      <4>2. AccessGrants[m.tx_id].nullifier = o.nullifier
        BY <4>1 DEF GrantOf
      <4> QED BY <2>1, <4>2 DEF Granted
    <3>2. ~ Recorded(m)
      <4> SUFFICES ASSUME Recorded(m), m.tx_id \in TxIds PROVE FALSE
        BY <1>1, <2>1 DEF IInv, TypeOK
      <4>1. PICK o \in sent : ProofHubPurchases[m.tx_id] = PurchaseOf(o)
        BY DEF SettleInv, RecordsOK, Recorded
      <4>2. ProofHubPurchases[m.tx_id].nullifier = o.nullifier
        BY <4>1 DEF PurchaseOf
      <4> QED BY <2>1, <4>2 DEF Recorded
    <3> QED BY <2>1, <3>1, <3>2 DEF Done, SettleInv, PlacesOK
  <2>8. \A o : Done(o)' <=> Done(o)
    BY <1>2 DEF Done, Granted, Recorded
  <2>9. \A o \in sent' : Placed(o)'
    <3>1. ASSUME NEW o \in sent PROVE Placed(o)'
      <4>1. Placed(o)
        BY DEF SettleInv, PlacesOK
      <4> QED BY <1>2, <2>4, <2>8, <4>1 DEF Placed
    <3>2. Placed(m)'
      BY <1>2, <2>4, <2>7, <2>8 DEF Placed
    <3> QED BY <2>1, <3>1, <3>2
  <2>10. PlacesOK'
    BY <1>2, <2>1, <2>4, <2>9 DEF SettleInv, PlacesOK
  <2> QED BY <1>1, <2>4, <2>5, <2>6, <2>10 DEF SettleInv
<1> QED BY <1>3, <1>4

-------------------------------------------------------------------------------
(***************************************************************************)
(* The destinations                                                        *)
(***************************************************************************)

\* What the hub sent to a destination makes a record there.
LEMMA RecordsPresent ==
    ASSUME IInv, SentOK, NEW m \in sent
    PROVE  /\ m.dest = "authgate" => \A used \in BOOLEAN : GrantOf(m, used) # None
           /\ m.dest = "rwa" => PurchaseOf(m) # None
           /\ m.tx_id \in TxIds /\ m.dest \in Dests
<1>1. /\ m.commitment \in Commitments /\ m.nullifier \in Blindings
      /\ m.tx_id \in TxIds /\ m.dest \in Dests
  BY DEF IInv, TypeOK, Dests
<1>2. ASSUME m.dest = "authgate", NEW used \in BOOLEAN PROVE GrantOf(m, used) # None
  <2>1. m.id \in AppIds
    BY <1>2 DEF SentOK
  <2>2. GrantOf(m, used) \in [app_id : AppIds, nullifier : Blindings,
                             access_key_commitment : Commitments, used : BOOLEAN]
    BY <1>1, <2>1 DEF GrantOf
  <2> QED BY <2>2, SettlementAssumption
<1>3. ASSUME m.dest = "rwa" PROVE PurchaseOf(m) # None
  <2>1. m.id \in RwaIds
    BY <1>3 DEF SentOK
  <2>2. PurchaseOf(m) \in [asset_id : {AssetOf[r] : r \in RwaIds}, nullifier : Blindings,
                          ownership_commitment : Commitments]
    BY <1>1, <2>1 DEF PurchaseOf
  <2> QED BY <2>2, SettlementAssumption
<1> QED BY <1>1, <1>2, <1>3

\* A served program moves from its queue to the place its destination puts
\* it, and no other program moves.
LEMMA ServedInv ==
    ASSUME SettleInv, NEW d \in Dests, NEW m, Receive(d, m), GrantsOK', RecordsOK',
           refused' = refused \/ refused' = refused \cup {m},
           m \in refused' <=> ~ Done(m)',
           \A o \in sent : o # m => (Done(o)' <=> Done(o))
    PROVE  SettleInv'
<1>1. /\ m \in sent /\ m.dest = d /\ InFlight(m) /\ ~ InFlight(m)'
      /\ \A o \in sent : o # m => (InFlight(o)' <=> InFlight(o))
      /\ QueuesOK'
  BY ReceiveStep DEF SettleInv, IInv, TypeOK, Dests
<1>2. UNCHANGED vars /\ sent' = sent /\ dropped' = dropped
  BY DEF Receive, vars
<1>3. IInv'
  BY <1>2, NextInv DEF SettleInv
<1>4. SentOK'
  BY <1>2 DEF SettleInv, SentOK
<1>5. \A o \in sent : Placed(o)'
  <2>1. Placed(m)'
    BY <1>1, <1>2 DEF SettleInv, PlacesOK, Placed
  <2>2. ASSUME NEW o \in sent, o # m PROVE Placed(o)'
    <3>1. Placed(o)
      BY DEF SettleInv, PlacesOK
    <3>2. o \in refused' <=> o \in refused
      BY <2>2
    <3> QED BY <1>1, <1>2, <2>2, <3>1, <3>2 DEF Placed
  <2> QED BY <2>1, <2>2
<1>6. PlacesOK'
  BY <1>1, <1>2, <1>5 DEF SettleInv, PlacesOK
<1> QED BY <1>1, <1>3, <1>4, <1>6 DEF SettleInv

\* A grant is recorded under a tx_id that had none: the program it answers
\* is done, and no other one is (xcm_record_access_grant).
LEMMA GateExecutesInv == SettleInv /\ GateExecutes => SettleInv'
<1> SUFFICES ASSUME SettleInv, NEW m \in sent, Receive("authgate", m), GateAccepts(m),
                    Gate!xcm_record_access_grant(HubSovereign, m.id, m.nullifier,
                                                 m.tx_id, m.commitment),
                    UNCHANGED <<refused, rwaState>>
             PROVE  SettleInv'
  BY DEF GateExecutes
<1>1. /\ AccessGrants[m.tx_id] = None
      /\ AccessGrants' = [AccessGrants EXCEPT ![m.tx_id] = GrantOf(m, FALSE)]
      /\ refused' = refused /\ ProofHubPurchases' = ProofHubPurchases
      /\ sent' = sent
  BY DEF Gate!xcm_record_access_grant, Gate!RecordOk, GrantOf, rwaState, Receive, vars
<1>2. m.dest = "authgate" /\ InFlight(m)
  BY ReceiveStep DEF SettleInv, Dests
<1>3. GrantOf(m, FALSE) # None /\ m.tx_id \in TxIds
  BY <1>2, RecordsPresent DEF SettleInv
<1>4. /\ AccessGrants'[m.tx_id] = GrantOf(m, FALSE)
      /\ \A t \in TxIds \ {m.tx_id} : AccessGrants'[t] = AccessGrants[t]
      /\ AccessGrants' = [t \in TxIds |-> AccessGrants'[t]]
  BY <1>1, <1>3 DEF SettleInv, GrantsOK
<1>5. GrantsOK' /\ RecordsOK'
  <2>1. RecordsOK'
    BY <1>1 DEF SettleInv, RecordsOK
  <2>2. ASSUME NEW t \in TxIds, AccessGrants'[t] # None
        PROVE  \E o \in sent : /\ o.dest = "authgate" /\ o.tx_id = t
                              /\ \E used \in BOOLEAN : AccessGrants'[t] = GrantOf(o, used)
    <3>1. CASE t = m.tx_id
      <4>1. AccessGrants'[t] = GrantOf(m, FALSE) /\ FALSE \in BOOLEAN
        BY <1>4, <3>1
      <4> QED BY <1>2, <3>1, <4>1
    <3>2. CASE t # m.tx_id
      <4>1. AccessGrants'[t] = AccessGrants[t]
        BY <1>4, <3>2
      <4> QED BY <2>2, <4>1 DEF SettleInv, GrantsOK
    <3> QED BY <3>1, <3>2
  <2>3. GrantsOK'
    BY <1>1, <1>4, <2>2 DEF GrantsOK
  <2> QED BY <2>1, <2>3
<1>6. Granted(m)'
  BY <1>3, <1>4 DEF Granted, GrantOf
<1>7. ASSUME NEW o \in sent, o # m PROVE Done(o)' <=> Done(o)
  <2>1. Recorded(o)' <=> Recorded(o)
    BY <1>1 DEF Recorded
  <2>2. CASE o.tx_id # m.tx_id
    <3>1. AccessGrants'[o.tx_id] = AccessGrants[o.tx_id]
      BY <1>4, <2>2 DEF SettleInv, IInv, TypeOK
    <3> QED BY <2>1, <3>1 DEF Done, Granted
  <2>3. CASE o.tx_id = m.tx_id
    <3>1. ~ Granted(o)
      BY <1>1, <2>3 DEF Granted
    <3>2. ~ Granted(o)'
      <4>1. Granted(o)' => o.nullifier = m.nullifier
        BY <1>4, <2>3 DEF Granted, GrantOf
      <4> QED BY <1>7, <4>1 DEF SettleInv, IInv, OneDispatchPerNote
    <3> QED BY <2>1, <3>1, <3>2 DEF Done
  <2> QED BY <2>2, <2>3
<1>8. m \notin refused' /\ Done(m)'
  BY <1>1, <1>2, <1>6 DEF Done, SettleInv, PlacesOK, Placed
<1> QED BY <1>1, <1>5, <1>7, <1>8, ServedInv DEF Dests

\* A program its destination discards is recorded nowhere.
LEMMA RefusedInv ==
    ASSUME SettleInv, NEW d \in Dests, NEW m, Receive(d, m), Refuse(m)
    PROVE  SettleInv'
<1>1. /\ AccessGrants' = AccessGrants /\ ProofHubPurchases' = ProofHubPurchases
      /\ refused' = refused \cup {m} /\ sent' = sent
  BY DEF Refuse, gateState, rwaState, Receive, vars
<1>2. m \in sent /\ InFlight(m)
  BY ReceiveStep DEF SettleInv
<1>3. GrantsOK' /\ RecordsOK'
  BY <1>1 DEF SettleInv, GrantsOK, RecordsOK
<1>4. \A o : Done(o)' <=> Done(o)
  BY <1>1 DEF Done, Granted, Recorded
<1>5. ~ Done(m)
  BY <1>2 DEF SettleInv, PlacesOK, Placed
<1> QED BY <1>1, <1>3, <1>4, <1>5, ServedInv

\* The RWA chain records the purchase under a tx_id that had none, or
\* discards it (xcm_record_purchase).
LEMMA RwaDeliversInv == SettleInv /\ RwaDelivers => SettleInv'
<1> SUFFICES ASSUME SettleInv, NEW m \in sent, Receive("rwa", m),
                    IF RwaAccepts(m)
                    THEN /\ Rwa!xcm_record_purchase(HubSovereign, AssetOf[m.id],
                                                   m.nullifier, m.tx_id, m.commitment)
                         /\ UNCHANGED <<refused, gateState>>
                    ELSE Refuse(m)
             PROVE  SettleInv'
  BY DEF RwaDelivers
<1>1. CASE ~ RwaAccepts(m)
  BY <1>1, RefusedInv DEF Dests
<1>2. CASE RwaAccepts(m)
  <2>1. /\ ProofHubPurchases[m.tx_id] = None
        /\ ProofHubPurchases' = [ProofHubPurchases EXCEPT ![m.tx_id] = PurchaseOf(m)]
        /\ refused' = refused /\ AccessGrants' = AccessGrants
        /\ sent' = sent
    BY <1>2 DEF Rwa!xcm_record_purchase, Rwa!PurchaseOk, PurchaseOf, gateState,
                Receive, vars
  <2>2. m.dest = "rwa" /\ InFlight(m)
    BY ReceiveStep DEF SettleInv, Dests
  <2>3. PurchaseOf(m) # None /\ m.tx_id \in TxIds
    BY <2>2, RecordsPresent DEF SettleInv
  <2>4. /\ ProofHubPurchases'[m.tx_id] = PurchaseOf(m)
        /\ \A t \in TxIds \ {m.tx_id} : ProofHubPurchases'[t] = ProofHubPurchases[t]
        /\ ProofHubPurchases' = [t \in TxIds |-> ProofHubPurchases'[t]]
    BY <2>1, <2>3 DEF SettleInv, RecordsOK
  <2>5. GrantsOK' /\ RecordsOK'
    BY <2>1, <2>2, <2>4 DEF SettleInv, GrantsOK, RecordsOK
  <2>6. Recorded(m)'
    BY <2>3, <2>4 DEF Recorded, PurchaseOf
  <2>7. ASSUME NEW o \in sent, o # m PROVE Done(o)' <=> Done(o)
    <3>1. Granted(o)' <=> Granted(o)
      BY <2>1 DEF Granted
    <3>2. CASE o.tx_id # m.tx_id
      <4>1. ProofHubPurchases'[o.tx_id] = ProofHubPurchases[o.tx_id]
        BY <2>4, <3>2 DEF SettleInv, IInv, TypeOK
      <4> QED BY <3>1, <4>1 DEF Done, Recorded
    <3>3. CASE o.tx_id = m.tx_id
      <4>1. ~ Recorded(o)
        BY <2>1, <3>3 DEF Recorded
      <4>2. ~ Recorded(o)'
        <5>1. Recorded(o)' => o.nullifier = m.nullifier
          BY <2>4, <3>3 DEF Recorded, PurchaseOf
        <5> QED BY <2>7, <5>1 DEF SettleInv, IInv, OneDispatchPerNote
      <4> QED BY <3>1, <4>1, <4>2 DEF Done
    <3> QED BY <3>2, <3>3
  <2>8. m \notin refused' /\ Done(m)'
    BY <2>1, <2>2, <2>6 DEF Done, SettleInv, PlacesOK, Placed
  <2> QED BY <2>1, <2>5, <2>7, <2>8, ServedInv DEF Dests
<1> QED BY <1>1, <1>2

\* A used grant is still the grant of its message (use_access_key).
LEMMA UsedIsGrant ==
    ASSUME SettleInv, NEW m \in sent, m.dest = "authgate", NEW used \in BOOLEAN
    PROVE  [GrantOf(m, used) EXCEPT !.used = TRUE] = GrantOf(m, TRUE)
<1> DEFINE Grants == [app_id : AppIds, nullifier : Blindings,
                      access_key_commitment : Commitments, used : BOOLEAN]
           g == GrantOf(m, used)
           h == [g EXCEPT !.used = TRUE]
<1>1. m.id \in AppIds /\ m.nullifier \in Blindings /\ m.commitment \in Commitments
  BY DEF SettleInv, SentOK, IInv, TypeOK
<1>2. g \in Grants
  BY <1>1 DEF GrantOf
<1>3. h \in Grants
  BY <1>2
<1>4. /\ h.app_id = g.app_id /\ h.nullifier = g.nullifier
      /\ h.access_key_commitment = g.access_key_commitment /\ h.used = TRUE
  BY <1>2
<1>5. /\ g.app_id = m.id /\ g.nullifier = m.nullifier
      /\ g.access_key_commitment = m.commitment
  BY DEF GrantOf
<1>6. h = [app_id |-> h.app_id, nullifier |-> h.nullifier,
           access_key_commitment |-> h.access_key_commitment, used |-> h.used]
  <2> HIDE DEF h
  <2> QED BY <1>3
<1> QED BY <1>4, <1>5, <1>6 DEF GrantOf

\* A use of a key changes a grant's flag and nothing a program is found by
\* (use_access_key; list_access_slot and update_access_slot change no grant).
LEMMA GateLocalInv == SettleInv /\ GateLocal => SettleInv'
<1> SUFFICES ASSUME SettleInv, GateLocal PROVE SettleInv'
  OBVIOUS
<1>1. /\ UNCHANGED vars /\ sent' = sent /\ xcm' = xcm /\ dropped' = dropped
      /\ refused' = refused /\ ProofHubPurchases' = ProofHubPurchases
  BY DEF GateLocal, rwaState, vars
<1>2. IInv'
  BY <1>1, NextInv DEF SettleInv
<1>3. GrantsOK' /\ \A o \in sent : Granted(o)' <=> Granted(o)
  <2>1. CASE AccessGrants' = AccessGrants
    BY <1>1, <2>1 DEF SettleInv, GrantsOK, Granted
  <2>2. CASE Gate!Use
    <3>1. PICK tx_id \in TxIds, blinding \in KeyBlindings :
               Gate!use_access_key(tx_id, blinding)
      BY <2>2 DEF Gate!Use
    <3>2. /\ AccessGrants[tx_id] # None
          /\ AccessGrants' = [AccessGrants EXCEPT ![tx_id].used = TRUE]
      BY <3>1 DEF Gate!use_access_key
    <3>3. PICK m \in sent, used \in BOOLEAN :
               /\ m.dest = "authgate" /\ m.tx_id = tx_id
               /\ AccessGrants[tx_id] = GrantOf(m, used)
      BY <3>2 DEF SettleInv, GrantsOK
    <3>4. [GrantOf(m, used) EXCEPT !.used = TRUE] = GrantOf(m, TRUE)
      BY <3>3, UsedIsGrant
    <3>5. /\ AccessGrants'[tx_id] = GrantOf(m, TRUE)
          /\ \A t \in TxIds \ {tx_id} : AccessGrants'[t] = AccessGrants[t]
          /\ AccessGrants' = [t \in TxIds |-> AccessGrants'[t]]
      BY <3>2, <3>3, <3>4 DEF SettleInv, GrantsOK
    <3>6. GrantOf(m, TRUE) # None
      BY <3>3, RecordsPresent DEF SettleInv
    <3>7. GrantsOK'
      <4>1. ASSUME NEW t \in TxIds, AccessGrants'[t] # None
            PROVE  \E o \in sent : /\ o.dest = "authgate" /\ o.tx_id = t
                                  /\ \E u \in BOOLEAN : AccessGrants'[t] = GrantOf(o, u)
        <5>1. CASE t = tx_id
          <6>1. AccessGrants'[t] = GrantOf(m, TRUE) /\ TRUE \in BOOLEAN
            BY <3>5, <5>1
          <6> QED BY <3>3, <5>1, <6>1
        <5>2. CASE t # tx_id
          <6>1. AccessGrants'[t] = AccessGrants[t]
            BY <3>5, <5>2
          <6> QED BY <4>1, <6>1 DEF SettleInv, GrantsOK
        <5> QED BY <5>1, <5>2
      <4> QED BY <1>1, <3>5, <4>1 DEF GrantsOK
    <3>8. ASSUME NEW o \in sent PROVE Granted(o)' <=> Granted(o)
      <4>1. CASE o.tx_id # tx_id
        BY <3>5, <4>1 DEF Granted, SettleInv, IInv, TypeOK
      <4>2. CASE o.tx_id = tx_id
        BY <3>2, <3>3, <3>5, <3>6, <4>2 DEF Granted, GrantOf
      <4> QED BY <4>1, <4>2
    <3> QED BY <3>7, <3>8
  <2> QED BY <2>1, <2>2 DEF GateLocal, Gate!Admin, Gate!list_access_slot, Gate!update_access_slot
<1>4. \A o \in sent : Placed(o)' <=> Placed(o)
  BY <1>1, <1>3 DEF Placed, Done, InFlight, Recorded
<1> QED BY <1>1, <1>2, <1>3, <1>4
    DEF SettleInv, SentOK, QueuesOK, RecordsOK, PlacesOK
-------------------------------------------------------------------------------
(***************************************************************************)
(* The specification                                                       *)
(***************************************************************************)
LEMMA SettleInitInv == SettleInit => SettleInv
<1> SUFFICES ASSUME SettleInit PROVE SettleInv
  OBVIOUS
<1>1. IInv
  BY InitInv DEF SettleInit
<1>2. sent = {} /\ dropped = {} /\ refused = {}
  BY DEF SettleInit, Init
<1>3. SentOK /\ PlacesOK
  BY <1>2 DEF SentOK, PlacesOK
<1>4. QueuesOK
  <2>1. xcm \in [Dests -> Seq(sent)] /\ \A d \in Dests : Len(xcm[d]) = 0
    BY DEF SettleInit, Dests
  <2> QED BY <2>1 DEF QueuesOK
<1>5. GrantsOK /\ RecordsOK
  BY DEF SettleInit, Gate!GateInit, GrantsOK, RecordsOK
<1> QED BY <1>1, <1>3, <1>4, <1>5 DEF SettleInv

LEMMA SettleNextInv == SettleInv /\ [SettleNext]_settleVars => SettleInv'
<1> SUFFICES ASSUME SettleInv, [SettleNext]_settleVars PROVE SettleInv'
  OBVIOUS
<1>1. CASE Hub
  BY <1>1, HubInv
<1>2. CASE GateExecutes
  BY <1>2, GateExecutesInv
<1>3. CASE GateRefuses
  BY <1>3, RefusedInv DEF GateRefuses, Dests
<1>4. CASE RwaDelivers
  BY <1>4, RwaDeliversInv
<1>5. CASE GateLocal
  BY <1>5, GateLocalInv
<1>6. CASE UNCHANGED settleVars
  <2>1. /\ UNCHANGED vars /\ sent' = sent /\ xcm' = xcm /\ dropped' = dropped
        /\ refused' = refused /\ ProofHubPurchases' = ProofHubPurchases
        /\ AccessGrants' = AccessGrants
    BY <1>6 DEF settleVars, vars, gateState, rwaState
  <2>2. IInv'
    BY <2>1, NextInv DEF SettleInv
  <2> QED BY <2>1, <2>2
      DEF SettleInv, SentOK, QueuesOK, GrantsOK, RecordsOK, PlacesOK, Placed, Done,
          InFlight, Granted, Recorded
<1> QED BY <1>1, <1>2, <1>3, <1>4, <1>5, <1>6 DEF SettleNext

\* Whatever the channels, the queues and the destinations do, the invariant
\* of the composition holds: what a destination has recorded it was told by
\* the hub, and every program the hub sent is in one place.
THEOREM SettleInvCorrect == SettleSpec => []SettleInv
<1>1. SettleInit => SettleInv
  BY SettleInitInv
<1>2. SettleInv /\ [SettleNext]_settleVars => SettleInv'
  BY SettleNextInv
<1> QED BY <1>1, <1>2, PTL DEF SettleSpec

\* Every key on AuthGate was paid for on the hub, once
\* (xcm_record_access_grant after purchase_access_v2).
LEMMA PaidByInv == SettleInv => KeysPaid
<1> SUFFICES ASSUME SettleInv, NEW t \in TxIds, AccessGrants[t] # None
             PROVE  /\ \E m \in sent : m.dest = "authgate" /\ m.tx_id = t /\ Granted(m)
                    /\ AccessGrants[t].nullifier \in NullifierUsed
                    /\ released[AccessGrants[t].nullifier] > 0
                    /\ \A u \in TxIds \ {t} : AccessGrants[u] # None =>
                         AccessGrants[u].nullifier # AccessGrants[t].nullifier
  BY DEF KeysPaid
<1>1. ASSUME NEW u \in TxIds, AccessGrants[u] # None
      PROVE  \E m \in sent : /\ m.dest = "authgate" /\ m.tx_id = u /\ Granted(m)
                             /\ AccessGrants[u].nullifier = m.nullifier
  <2>1. PICK m \in sent, used \in BOOLEAN :
             /\ m.dest = "authgate" /\ m.tx_id = u
             /\ AccessGrants[u] = GrantOf(m, used)
    BY <1>1 DEF SettleInv, GrantsOK
  <2>2. /\ GrantOf(m, used).app_id = m.id
        /\ GrantOf(m, used).nullifier = m.nullifier
        /\ GrantOf(m, used).access_key_commitment = m.commitment
    BY DEF GrantOf
  <2>3. Granted(m)
    BY <1>1, <2>1, <2>2 DEF Granted
  <2> QED BY <2>1, <2>2, <2>3
<1>2. PICK m \in sent : /\ m.dest = "authgate" /\ m.tx_id = t /\ Granted(m)
                        /\ AccessGrants[t].nullifier = m.nullifier
  BY <1>1
<1>3. m.nullifier \in NullifierUsed /\ released[m.nullifier] > 0
  BY DEF SettleInv, IInv, OneDispatchPerNote
<1>4. ASSUME NEW u \in TxIds \ {t}, AccessGrants[u] # None
      PROVE  AccessGrants[u].nullifier # AccessGrants[t].nullifier
  <2>1. PICK o \in sent : o.tx_id = u /\ AccessGrants[u].nullifier = o.nullifier
    BY <1>1, <1>4
  <2>2. o.nullifier = m.nullifier => o = m
    BY DEF SettleInv, IInv, OneDispatchPerNote
  <2> QED BY <1>2, <1>4, <2>1, <2>2
<1> QED BY <1>2, <1>3, <1>4

\* Every key on AuthGate was paid for on the hub by a purchase of its own.
THEOREM KeysPaidCorrect == SettleSpec => []KeysPaid
  BY SettleInvCorrect, PaidByInv, PTL

\* Of four labelled facts of which one and no other holds, one is true.
LEMMA OneOfFour ==
    ASSUME NEW w, NEW x, NEW y, NEW z,
           w[2] \/ x[2] \/ y[2] \/ z[2],
           w[2] => ~ x[2] /\ ~ y[2] /\ ~ z[2], x[2] => ~ y[2] /\ ~ z[2], y[2] => ~ z[2]
    PROVE  Cardinality({p \in {w, x, y, z} : p[2]}) = 1
<1> DEFINE Holding == {p \in {w, x, y, z} : p[2]}
<1>1. Holding = {w} \/ Holding = {x} \/ Holding = {y} \/ Holding = {z}
  BY Zenon
<1>2. \A p : Cardinality({p}) = 1
  BY FS_Singleton
<1> HIDE DEF Holding
<1>3. Cardinality(Holding) = 1
  BY <1>1, <1>2
<1> QED BY <1>3 DEF Holding

LEMMA PlacedAccounted == SettleInv => Accounted
<1> SUFFICES ASSUME SettleInv, NEW m \in sent
             PROVE  Cardinality({p \in {<<"flight", InFlight(m)>>, <<"dropped", m \in dropped>>,
                        <<"refused", m \in refused>>,
                        <<"done", IF m.dest = "authgate" THEN Granted(m) ELSE Recorded(m)>>}
                        : p[2]}) = 1
  BY DEF Accounted
<1> DEFINE done == IF m.dest = "authgate" THEN Granted(m) ELSE Recorded(m)
<1>1. /\ InFlight(m) \in BOOLEAN /\ (m \in dropped) \in BOOLEAN
      /\ (m \in refused) \in BOOLEAN /\ done \in BOOLEAN
  BY DEF InFlight, Granted, Recorded
<1>2. /\ InFlight(m) \/ m \in dropped \/ m \in refused \/ done
      /\ InFlight(m) => m \notin dropped /\ m \notin refused /\ ~ done
      /\ m \in dropped => m \notin refused /\ ~ done
      /\ m \in refused => ~ done
  BY DEF SettleInv, PlacesOK, Placed, Done
<1> HIDE DEF done
<1> DEFINE w == <<"flight", InFlight(m)>>
           x == <<"dropped", m \in dropped>>
           y == <<"refused", m \in refused>>
           z == <<"done", done>>
<1>3. /\ w[2] = InFlight(m) /\ x[2] = (m \in dropped)
      /\ y[2] = (m \in refused) /\ z[2] = done
  OBVIOUS
<1> HIDE DEF w, x, y, z
<1>4. /\ w[2] \/ x[2] \/ y[2] \/ z[2]
      /\ w[2] => ~ x[2] /\ ~ y[2] /\ ~ z[2]
      /\ x[2] => ~ y[2] /\ ~ z[2]
      /\ y[2] => ~ z[2]
  BY <1>1, <1>2, <1>3, Zenon
<1>5. Cardinality({p \in {w, x, y, z} : p[2]}) = 1
  BY <1>4, OneOfFour
<1> QED BY <1>5 DEF w, x, y, z, done

\* No settlement vanishes or is counted twice: a program the hub paid for is
\* in flight, not taken by the router, discarded by its destination, or
\* recorded there, and never in two of these places.
THEOREM AccountedCorrect == SettleSpec => []Accounted
  BY SettleInvCorrect, PlacedAccounted, PTL

\* What happens beyond the hub never reaches it: seen from the hub the
\* composition is the hub, so all that is proved of its lane (InvCorrect,
\* SolventCorrect and the rest) holds of the composition.
THEOREM HubUndisturbed == SettleSpec => Spec
<1>1. SettleInit => Init
  BY DEF SettleInit
<1>2. [SettleNext]_settleVars => [Next]_vars
  BY DEF SettleNext, Hub, GateExecutes, GateRefuses, RwaDelivers, GateLocal, Receive,
         settleVars
<1> QED BY <1>1, <1>2, PTL DEF SettleSpec, Spec

\* Seen from AuthGate the hub is one of the callers: it executes a program the
\* queue delivers, refuses it, or does something AuthGate does not notice, so
\* what is proved of the pallet by itself (SessionOnce, GrantsFinal) holds of
\* it in the composition.  The hypothesis names the commitments of the hub as
\* the pallet does: as what opens them, or as one that nothing opens.
THEOREM GateUndisturbed ==
    ASSUME Commitments \subseteq Gate!KeyCommitments
    PROVE  SettleSpec => Gate!GateSpec
<1>1. SettleInit => Gate!GateInit
  BY DEF SettleInit
<1>2. SettleInv /\ [SettleNext]_settleVars => [Gate!GateNext]_(Gate!gateVars)
  <2> SUFFICES ASSUME SettleInv, SettleNext \/ UNCHANGED settleVars
               PROVE  Gate!GateNext \/ UNCHANGED Gate!gateVars
    OBVIOUS
  <2>1. CASE Hub \/ RwaDelivers \/ GateRefuses \/ UNCHANGED settleVars
    BY <2>1 DEF Hub, RwaDelivers, GateRefuses, Refuse, Rwa!xcm_record_purchase, gateState,
                settleVars, Gate!gateVars
  <2>2. CASE GateExecutes
    <3>1. PICK m \in sent :
            /\ Receive("authgate", m)
            /\ Gate!xcm_record_access_grant(HubSovereign, m.id, m.nullifier, m.tx_id,
                                            m.commitment)
      BY <2>2 DEF GateExecutes
    <3>2. m.dest = "authgate"
      BY <3>1, ReceiveStep DEF SettleInv, Dests
    <3>3. m.id \in AppIds /\ m.nullifier \in Blindings /\ m.tx_id \in TxIds
          /\ m.commitment \in Gate!KeyCommitments
      BY <3>2 DEF SettleInv, SentOK, IInv, TypeOK
    <3> QED BY <3>1, <3>3 DEF Gate!GateNext, Gate!Record
  <2>3. CASE GateLocal
    BY <2>3 DEF GateLocal, Gate!GateNext
  <2> QED BY <2>1, <2>2, <2>3 DEF SettleNext
<1> QED BY <1>1, <1>2, SettleInvCorrect, PTL DEF SettleSpec, Gate!GateSpec

-------------------------------------------------------------------------------
(***************************************************************************)
(* From the note on the hub to the session on AuthGate                     *)
(***************************************************************************)
SessionsOK ==
    /\ KeyUsed \subseteq TxIds
    /\ sessions \in [TxIds -> Nat]
    /\ Gate!SessionOnce

\* Sessions, keys and grants are written by AuthGate alone: a grant that is
\* recorded has not been used, and a use marks it and opens one session.
LEMMA SessionsNextInv == SettleInv /\ SessionsOK /\ [SettleNext]_settleVars => SessionsOK'
<1> SUFFICES ASSUME SettleInv, SessionsOK, SettleNext \/ UNCHANGED settleVars
             PROVE  SessionsOK'
  OBVIOUS
<1>1. ASSUME UNCHANGED <<AccessGrants, KeyUsed, sessions>> PROVE SessionsOK'
  BY <1>1 DEF SessionsOK, Gate!SessionOnce, Gate!Opens
<1>2. CASE Hub \/ RwaDelivers \/ GateRefuses \/ UNCHANGED settleVars
  BY <1>1, <1>2 DEF Hub, RwaDelivers, GateRefuses, Refuse, Rwa!xcm_record_purchase, gateState,
                    settleVars
<1>3. CASE GateExecutes
  <2>1. PICK m \in sent :
          /\ Receive("authgate", m)
          /\ Gate!xcm_record_access_grant(HubSovereign, m.id, m.nullifier, m.tx_id,
                                          m.commitment)
    BY <1>3 DEF GateExecutes
  <2>2. m.tx_id \in TxIds
    BY <2>1, ReceiveStep, RecordsPresent DEF SettleInv, Dests
  <2>3. /\ AccessGrants[m.tx_id] = None
        /\ AccessGrants' = [AccessGrants EXCEPT ![m.tx_id] = GrantOf(m, FALSE)]
        /\ KeyUsed' = KeyUsed /\ sessions' = sessions
    BY <2>1 DEF Gate!xcm_record_access_grant, Gate!RecordOk, GrantOf
  <2>4. /\ ~ AccessGrants'[m.tx_id].used
        /\ \A t \in TxIds \ {m.tx_id} : AccessGrants'[t] = AccessGrants[t]
    BY <2>2, <2>3 DEF SettleInv, GrantsOK, GrantOf
  <2>5. m.tx_id \notin KeyUsed
    BY <2>2, <2>3 DEF SessionsOK, Gate!SessionOnce
  <2>6. ASSUME NEW t \in TxIds
        PROVE  /\ t \in KeyUsed' <=> (AccessGrants'[t] # None /\ AccessGrants'[t].used)
               /\ t \in KeyUsed' => \E b \in KeyBlindings : Gate!Opens(AccessGrants'[t], b)
    <3>1. CASE t = m.tx_id
      BY <2>3, <2>4, <2>5, <3>1
    <3>2. CASE t # m.tx_id
      BY <2>3, <2>4, <3>2 DEF SessionsOK, Gate!SessionOnce
    <3> QED BY <3>1, <3>2
  <2> QED BY <2>3, <2>6 DEF SessionsOK, Gate!SessionOnce, Gate!Opens
<1>4. CASE GateLocal
  <2>1. CASE Gate!Admin
    BY <1>1, <2>1 DEF Gate!Admin, Gate!list_access_slot, Gate!update_access_slot
  <2>2. CASE Gate!Use
    <3>1. PICK tx_id \in TxIds, blinding \in KeyBlindings :
               Gate!use_access_key(tx_id, blinding)
      BY <2>2 DEF Gate!Use
    <3>2. /\ tx_id \notin KeyUsed /\ AccessGrants[tx_id] # None
          /\ Gate!Opens(AccessGrants[tx_id], blinding)
          /\ AccessGrants' = [AccessGrants EXCEPT ![tx_id].used = TRUE]
          /\ KeyUsed' = KeyUsed \cup {tx_id}
          /\ sessions' = [sessions EXCEPT ![tx_id] = @ + 1]
      BY <3>1 DEF Gate!use_access_key
    <3>3. PICK m \in sent, used \in BOOLEAN :
               /\ m.dest = "authgate" /\ m.tx_id = tx_id
               /\ AccessGrants[tx_id] = GrantOf(m, used)
      BY <3>2 DEF SettleInv, GrantsOK
    <3>4. /\ AccessGrants'[tx_id].used
          /\ AccessGrants'[tx_id].app_id = AccessGrants[tx_id].app_id
          /\ AccessGrants'[tx_id].access_key_commitment
               = AccessGrants[tx_id].access_key_commitment
          /\ \A t \in TxIds \ {tx_id} : AccessGrants'[t] = AccessGrants[t]
      BY <3>2, <3>3 DEF SettleInv, GrantsOK, GrantOf
    <3>5. AccessGrants'[tx_id] # None
      <4>1. AccessGrants'[tx_id] = GrantOf(m, TRUE)
        BY <3>2, <3>3, UsedIsGrant DEF SettleInv, GrantsOK
      <4> QED BY <3>3, <4>1, RecordsPresent DEF SettleInv
    <3>6. sessions[tx_id] = 0 /\ sessions \in [TxIds -> Nat]
      BY <3>2 DEF SessionsOK, Gate!SessionOnce
    <3>7. ASSUME NEW t \in TxIds
          PROVE  /\ sessions'[t] = (IF t \in KeyUsed' THEN 1 ELSE 0)
                 /\ t \in KeyUsed' <=> (AccessGrants'[t] # None /\ AccessGrants'[t].used)
                 /\ t \in KeyUsed' => \E b \in KeyBlindings : Gate!Opens(AccessGrants'[t], b)
      <4>1. CASE t = tx_id
        BY <3>2, <3>4, <3>5, <3>6, <4>1 DEF Gate!Opens
      <4>2. CASE t # tx_id
        <5>1. /\ AccessGrants'[t] = AccessGrants[t] /\ sessions'[t] = sessions[t]
              /\ t \in KeyUsed' <=> t \in KeyUsed
          BY <3>2, <3>4, <3>6, <4>2
        <5> QED BY <5>1 DEF SessionsOK, Gate!SessionOnce
      <4> QED BY <4>1, <4>2
    <3>8. KeyUsed' \subseteq TxIds /\ sessions' \in [TxIds -> Nat]
      BY <3>2, <3>6 DEF SessionsOK
    <3> QED BY <3>7, <3>8 DEF SessionsOK, Gate!SessionOnce, Gate!Opens
  <2> QED BY <1>4, <2>1, <2>2 DEF GateLocal
<1> QED BY <1>2, <1>3, <1>4 DEF SettleNext

\* Whoever has been let in by AuthGate holds a key that was paid for on the
\* hub: the session is the only one of its tx_id, the purchase that named it
\* struck a note and released value, that note bought nothing else, and the
\* commitment it carried was opened for its own app.
SessionsPaid ==
    \A t \in TxIds : sessions[t] > 0 =>
        /\ sessions[t] = 1
        /\ \E m \in sent :
             /\ m.dest = "authgate" /\ m.tx_id = t
             /\ m.nullifier \in NullifierUsed /\ released[m.nullifier] > 0
             /\ \A o \in sent : o.nullifier = m.nullifier => o = m
             /\ \E b \in KeyBlindings :
                  m.commitment = Gate!compute_access_key_commitment(m.id, b)

\* A session on one chain is backed by a spent note on the other.
THEOREM SessionsPaidCorrect == SettleSpec => []SessionsPaid
<1>1. SettleInit => SessionsOK
  BY DEF SettleInit, Gate!GateInit, SessionsOK, Gate!SessionOnce
<1>2. SettleInv /\ SessionsOK => SessionsPaid
  <2> SUFFICES ASSUME SettleInv, SessionsOK, NEW t \in TxIds, sessions[t] > 0
               PROVE  /\ sessions[t] = 1
                      /\ \E m \in sent :
                           /\ m.dest = "authgate" /\ m.tx_id = t
                           /\ m.nullifier \in NullifierUsed /\ released[m.nullifier] > 0
                           /\ \A o \in sent : o.nullifier = m.nullifier => o = m
                           /\ \E b \in KeyBlindings :
                                m.commitment = Gate!compute_access_key_commitment(m.id, b)
    BY DEF SessionsPaid
  <2>1. /\ t \in KeyUsed /\ sessions[t] = 1 /\ AccessGrants[t] # None
        /\ \E b \in KeyBlindings : Gate!Opens(AccessGrants[t], b)
    BY DEF SessionsOK, Gate!SessionOnce
  <2>2. PICK m \in sent, used \in BOOLEAN :
             m.dest = "authgate" /\ m.tx_id = t /\ AccessGrants[t] = GrantOf(m, used)
    BY <2>1 DEF SettleInv, GrantsOK
  <2>3. \E b \in KeyBlindings : m.commitment = Gate!compute_access_key_commitment(m.id, b)
    BY <2>1, <2>2 DEF Gate!Opens, GrantOf
  <2>4. /\ m.nullifier \in NullifierUsed /\ released[m.nullifier] > 0
        /\ \A o \in sent : o.nullifier = m.nullifier => o = m
    BY DEF SettleInv, IInv, OneDispatchPerNote
  <2> QED BY <2>1, <2>2, <2>3, <2>4
<1> QED BY <1>1, <1>2, SessionsNextInv, SettleInvCorrect, PTL DEF SettleSpec
===============================================================================
