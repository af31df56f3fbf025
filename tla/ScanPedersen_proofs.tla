-------------------------- MODULE ScanPedersen_proofs --------------------------
(***************************************************************************)
(* Proofs about ScanProof's Pedersen lane, for every number of accounts    *)
(* and notes, every capacity of the tree, every length of the window and   *)
(* every number of notes a transfer joins or makes.                        *)
(***************************************************************************)
EXTENDS ScanPedersen, PoolFacts, SequenceTheorems, TLAPS

-------------------------------------------------------------------------------
(***************************************************************************)
(* The tree                                                                *)
(***************************************************************************)
TreeType ==
    /\ Leaves \in Seq(Notes) /\ Len(Leaves) <= MaxLeaves
    /\ DOMAIN CommitmentIndex \subseteq Notes
    /\ RootLeafCount \in [0..MaxLeaves -> Nat]
    /\ RecentRoots \in Seq(0..MaxLeaves)

\* Leaves and CommitmentIndex are inverse to one another.
IndexExact ==
    /\ \A note \in DOMAIN CommitmentIndex :
         /\ CommitmentIndex[note] \in 0..(Len(Leaves) - 1)
         /\ Leaves[CommitmentIndex[note] + 1] = note
    /\ \A i \in 1..Len(Leaves) :
         Leaves[i] \in DOMAIN CommitmentIndex /\ CommitmentIndex[Leaves[i]] = i - 1

\* A root is recorded, if it is, with the number of leaves it commits to;
\* the roots that can be used are.
CountsExact ==
    /\ \A r \in 0..MaxLeaves : RootLeafCount[r] \in {0, r}
    /\ \A r \in 0..MaxLeaves : r > Len(Leaves) => RootLeafCount[r] = 0
    /\ RootLeafCount[Len(Leaves)] = Len(Leaves)
    /\ \A i \in 1..Len(RecentRoots) : RootLeafCount[RecentRoots[i]] = RecentRoots[i]

TreeOK == TreeType /\ IndexExact /\ CountsExact /\ WindowOrdered

\* Notes, or nullifiers, that are as many as their positions all differ.
LEMMA DistinctNotes ==
    ASSUME NEW S, NEW notes \in Seq(S), Distinct(notes)
    PROVE  \A i, j \in 1..Len(notes) : notes[i] = notes[j] => i = j
<1> DEFINE n == Len(notes)
<1>1. n \in Nat /\ notes \in [1..n -> S]
  BY LenProperties
<1>2. notes \in Surjection(1..n, SetOf(notes))
  BY <1>1 DEF Surjection, SetOf
<1>3. IsFiniteSet(1..n) /\ Cardinality(1..n) = n
  BY <1>1, FS_Interval
<1>4. Cardinality(1..n) = Cardinality(SetOf(notes))
  BY <1>3 DEF Distinct
<1>5. notes \in Injection(1..n, SetOf(notes))
  BY <1>2, <1>3, <1>4, FS_SurjSameCardinalityImpliesInj
<1> QED BY <1>1, <1>5 DEF Injection, IsInjective

\* What an insertion does to leaves and indices.
LEMMA InsertEffect ==
    ASSUME TreeOK, NEW notes \in Seq(Notes), Insert(notes)
    PROVE  /\ Len(notes) \in Nat /\ Len(Leaves) \in Nat
           /\ Leaves' \in Seq(Notes)
           /\ Len(Leaves') = Len(Leaves) + Len(notes) /\ Len(Leaves') <= MaxLeaves
           /\ \A i \in 1..Len(Leaves) : Leaves'[i] = Leaves[i]
           /\ \A i \in 1..Len(notes) : Leaves'[Len(Leaves) + i] = notes[i]
           /\ DOMAIN CommitmentIndex' = DOMAIN CommitmentIndex \cup SetOf(notes)
           /\ SetOf(notes) \cap DOMAIN CommitmentIndex = {}
           /\ SetOf(notes) \subseteq Notes
           /\ \A note \in DOMAIN CommitmentIndex :
                CommitmentIndex'[note] = CommitmentIndex[note]
           /\ \A i \in 1..Len(notes) :
                notes[i] \in SetOf(notes)
                /\ CommitmentIndex'[notes[i]] = Len(Leaves) + i - 1
<1>1. Leaves \in Seq(Notes) /\ Len(Leaves) \in Nat /\ Len(notes) \in Nat
  BY DEF TreeOK, TreeType
<1>2. /\ Leaves' = Leaves \o notes
      /\ Len(Leaves) + Len(notes) <= MaxLeaves
      /\ SetOf(notes) \cap DOMAIN CommitmentIndex = {}
      /\ CommitmentIndex' = [n \in DOMAIN CommitmentIndex \cup SetOf(notes) |->
            IF n \in SetOf(notes)
            THEN Len(Leaves) + (CHOOSE i \in 1..Len(notes) : notes[i] = n) - 1
            ELSE CommitmentIndex[n]]
  BY DEF Insert, TreeWrite
<1>3. /\ Leaves' \in Seq(Notes) /\ Len(Leaves') = Len(Leaves) + Len(notes)
      /\ \A i \in 1..(Len(Leaves) + Len(notes)) :
           Leaves'[i] = IF i <= Len(Leaves) THEN Leaves[i] ELSE notes[i - Len(Leaves)]
  BY <1>1, <1>2, ConcatProperties
<1>4. \A i \in 1..Len(Leaves) : Leaves'[i] = Leaves[i]
  BY <1>1, <1>3
<1>5. ASSUME NEW i \in 1..Len(notes) PROVE Leaves'[Len(Leaves) + i] = notes[i]
  <2>1. /\ Len(Leaves) + i \in 1..(Len(Leaves) + Len(notes))
        /\ ~ (Len(Leaves) + i <= Len(Leaves)) /\ (Len(Leaves) + i) - Len(Leaves) = i
    BY <1>1
  <2> QED BY <1>3, <2>1
<1>6. SetOf(notes) \subseteq Notes /\ \A i \in 1..Len(notes) : notes[i] \in SetOf(notes)
  <2>1. \A i \in 1..Len(notes) : notes[i] \in Notes
    BY ElementOfSeq
  <2> QED BY <2>1 DEF SetOf
<1>7. ASSUME NEW i \in 1..Len(notes)
      PROVE  CommitmentIndex'[notes[i]] = Len(Leaves) + i - 1
  <2> DEFINE j == CHOOSE k \in 1..Len(notes) : notes[k] = notes[i]
  <2>1. j \in 1..Len(notes) /\ notes[j] = notes[i]
    OBVIOUS
  <2>2. j = i
    BY <2>1, DistinctNotes DEF Insert
  <2>3. CommitmentIndex'[notes[i]] = Len(Leaves) + j - 1
    BY <1>2, <1>6
  <2> HIDE DEF j
  <2> QED BY <2>2, <2>3
<1>8. /\ DOMAIN CommitmentIndex' = DOMAIN CommitmentIndex \cup SetOf(notes)
      /\ \A note \in DOMAIN CommitmentIndex : CommitmentIndex'[note] = CommitmentIndex[note]
  BY <1>2
<1> QED BY <1>1, <1>2, <1>3, <1>4, <1>5, <1>6, <1>7, <1>8

\* A new root for the window (PushRoot): the oldest goes when the window is
\* full, and the order of those that stay is kept.
LEMMA PushCases ==
    ASSUME NEW window \in Seq(0..MaxLeaves), NEW root \in 0..MaxLeaves
    PROVE  /\ Len(window) >= RootWindow =>
                /\ PushRoot(window, root) \in Seq(0..MaxLeaves)
                /\ Len(PushRoot(window, root)) = Len(window)
                /\ PushRoot(window, root)[Len(window)] = root
                /\ \A i \in 1..(Len(window) - 1) :
                     PushRoot(window, root)[i] = window[i + 1]
           /\ ~ (Len(window) >= RootWindow) =>
                /\ PushRoot(window, root) \in Seq(0..MaxLeaves)
                /\ Len(PushRoot(window, root)) = Len(window) + 1
                /\ PushRoot(window, root)[Len(window) + 1] = root
                /\ \A i \in 1..Len(window) : PushRoot(window, root)[i] = window[i]
<1> DEFINE R == 0..MaxLeaves
<1>1. /\ RootWindow \in Nat \ {0} /\ Len(window) \in Nat
      /\ window \in Seq(R) /\ root \in R
  BY ScanPedersenAssumption
<1> HIDE DEF R
<1>2. ASSUME Len(window) >= RootWindow
      PROVE  /\ PushRoot(window, root) \in Seq(R)
             /\ Len(PushRoot(window, root)) = Len(window)
             /\ PushRoot(window, root)[Len(window)] = root
             /\ \A i \in 1..(Len(window) - 1) : PushRoot(window, root)[i] = window[i + 1]
  <2> DEFINE t == Tail(window)
  <2>1. window # << >>
    BY <1>1, <1>2
  <2>2. /\ t \in Seq(R) /\ Len(t) = Len(window) - 1
        /\ \A i \in 1..(Len(window) - 1) : t[i] = window[i + 1]
    BY <1>1, <2>1, HeadTailProperties
  <2>3. PushRoot(window, root) = Append(t, root)
    BY <1>2 DEF PushRoot
  <2> HIDE DEF t
  <2>4. /\ Append(t, root) \in Seq(R) /\ Len(Append(t, root)) = Len(t) + 1
        /\ \A i \in 1..Len(t) : Append(t, root)[i] = t[i]
        /\ Append(t, root)[Len(t) + 1] = root
    BY <1>1, <2>2, AppendProperties
  <2> QED BY <1>1, <2>2, <2>3, <2>4
<1>3. ASSUME ~ (Len(window) >= RootWindow)
      PROVE  /\ PushRoot(window, root) \in Seq(R)
             /\ Len(PushRoot(window, root)) = Len(window) + 1
             /\ PushRoot(window, root)[Len(window) + 1] = root
             /\ \A i \in 1..Len(window) : PushRoot(window, root)[i] = window[i]
  <2>1. PushRoot(window, root) = Append(window, root)
    BY <1>3 DEF PushRoot
  <2> QED BY <1>1, <2>1, AppendProperties
<1> QED BY <1>2, <1>3 DEF R

\* Inserting notes keeps leaves and indices inverse to one another.
LEMMA InsertIndex ==
    ASSUME TreeOK, NEW notes \in Seq(Notes), Insert(notes)
    PROVE  IndexExact'
<1> DEFINE len == Len(Leaves)
           k   == Len(notes)
<1>1. /\ k \in Nat /\ len \in Nat /\ Len(Leaves') = len + k
      /\ \A i \in 1..len : Leaves'[i] = Leaves[i]
      /\ \A i \in 1..k : Leaves'[len + i] = notes[i]
      /\ DOMAIN CommitmentIndex' = DOMAIN CommitmentIndex \cup SetOf(notes)
      /\ SetOf(notes) \cap DOMAIN CommitmentIndex = {}
      /\ \A note \in DOMAIN CommitmentIndex : CommitmentIndex'[note] = CommitmentIndex[note]
      /\ \A i \in 1..k : /\ notes[i] \in SetOf(notes)
                         /\ CommitmentIndex'[notes[i]] = len + i - 1
  BY InsertEffect
<1>2. /\ \A note \in DOMAIN CommitmentIndex : /\ CommitmentIndex[note] \in 0..(len - 1)
                                              /\ Leaves[CommitmentIndex[note] + 1] = note
      /\ \A i \in 1..len : /\ Leaves[i] \in DOMAIN CommitmentIndex
                           /\ CommitmentIndex[Leaves[i]] = i - 1
  BY DEF TreeOK, IndexExact
<1>3. \A note \in SetOf(notes) : \E i \in 1..k : note = notes[i]
  BY DEF SetOf
<1> HIDE DEF len, k
<1>4. ASSUME NEW note \in DOMAIN CommitmentIndex'
      PROVE  /\ CommitmentIndex'[note] \in 0..(len + k - 1)
             /\ Leaves'[CommitmentIndex'[note] + 1] = note
  <2>1. CASE note \in DOMAIN CommitmentIndex
    <3>1. CommitmentIndex'[note] = CommitmentIndex[note]
          /\ CommitmentIndex[note] + 1 \in 1..len
      BY <1>1, <1>2, <2>1
    <3>2. CommitmentIndex[note] \in 0..(len + k - 1)
      BY <1>1, <1>2, <2>1
    <3>3. Leaves'[CommitmentIndex[note] + 1] = note
      BY <1>1, <1>2, <2>1, <3>1
    <3> QED BY <3>1, <3>2, <3>3
  <2>2. CASE note \in SetOf(notes)
    <3>1. PICK i \in 1..k : note = notes[i]
      BY <1>3, <2>2
    <3>2. CommitmentIndex'[note] = len + i - 1 /\ (len + i - 1) + 1 = len + i
          /\ Leaves'[len + i] = note
      BY <1>1, <3>1
    <3>3. len + i - 1 \in 0..(len + k - 1)
      BY <1>1
    <3>4. Leaves'[(len + i - 1) + 1] = note
      BY <3>2
    <3> QED BY <3>2, <3>3, <3>4
  <2> QED BY <1>1, <2>1, <2>2
<1>5. ASSUME NEW i \in 1..(len + k)
      PROVE  Leaves'[i] \in DOMAIN CommitmentIndex' /\ CommitmentIndex'[Leaves'[i]] = i - 1
  <2>1. CASE i \in 1..len
    BY <1>1, <1>2, <2>1
  <2>2. CASE i \notin 1..len
    <3>1. i - len \in 1..k /\ len + (i - len) = i
      BY <1>1, <2>2
    <3>2. Leaves'[i] = notes[i - len]
          /\ CommitmentIndex'[notes[i - len]] = len + (i - len) - 1
          /\ notes[i - len] \in SetOf(notes)
      BY <1>1, <3>1
    <3> QED BY <1>1, <3>1, <3>2
  <2> QED BY <2>1, <2>2
<1> QED BY <1>1, <1>4, <1>5 DEF IndexExact

\* Inserting notes puts their root in force and the old one in the window.
LEMMA InsertRoots ==
    ASSUME TreeOK, NEW notes \in Seq(Notes), notes # << >>, Insert(notes)
    PROVE  /\ RootLeafCount' \in [0..MaxLeaves -> Nat]
           /\ RecentRoots' \in Seq(0..MaxLeaves)
           /\ CountsExact' /\ WindowOrdered'
<1> DEFINE len == Len(Leaves)
           new == Len(Leaves')
           w   == RecentRoots
           p   == PushRoot(w, len)
           shift == IF Len(w) >= RootWindow THEN 1 ELSE 0
<1>1. /\ len \in Nat /\ new \in Nat /\ len < new /\ new <= MaxLeaves /\ MaxLeaves \in Nat
      /\ len \in 0..MaxLeaves /\ new \in 0..MaxLeaves /\ RootWindow \in Nat \ {0}
  <2>1. /\ Len(notes) \in Nat /\ len \in Nat /\ new = len + Len(notes) /\ new <= MaxLeaves
    BY InsertEffect
  <2>2. Len(notes) # 0
    BY LenProperties
  <2> QED BY <2>1, <2>2, ScanPedersenAssumption
<1>2. /\ w \in Seq(0..MaxLeaves) /\ Len(w) \in Nat /\ Len(w) <= RootWindow
      /\ CurrentRoot = len
      /\ \A i, j \in 1..Len(w) : i < j => w[i] < w[j]
      /\ \A i \in 1..Len(w) : w[i] < len /\ w[i] \in 0..MaxLeaves
      /\ Len(w) < RootWindow => \A r \in 1..len : RootLeafCount[r] > 0 => anchored(r)
      /\ len # 0 /\ Len(w) < RootWindow => anchored(0)
  <2>1. \A i \in 1..Len(w) : w[i] \in 0..MaxLeaves
    BY ElementOfSeq DEF TreeOK, TreeType
  <2>2. len # 0 => Leaves # << >>
    OBVIOUS
  <2> QED BY <2>1, <2>2 DEF TreeOK, TreeType, WindowOrdered
<1>3. /\ CurrentRoot' = new
      /\ RootLeafCount' = [RootLeafCount EXCEPT ![new] = new]
      /\ RecentRoots' = p
  BY <1>2 DEF Insert, TreeWrite, compute_merkle_root
<1>4. /\ p \in Seq(0..MaxLeaves)
      /\ Len(p) = Len(w) + 1 - shift /\ Len(p) <= RootWindow
      /\ Len(p) \in Nat \ {0} /\ p[Len(p)] = len
      /\ \A i \in 1..(Len(p) - 1) : i + shift \in 1..Len(w) /\ p[i] = w[i + shift]
  <2> HIDE DEF len, w
  <2>1. w \in Seq(0..MaxLeaves) /\ len \in 0..MaxLeaves
    BY <1>1, <1>2
  <2>2. CASE Len(w) >= RootWindow
    <3>1. shift = 1 /\ Len(w) = RootWindow
      BY <1>1, <1>2, <2>2
    <3> HIDE DEF p, shift
    <3>2. /\ p \in Seq(0..MaxLeaves) /\ Len(p) = Len(w) /\ p[Len(w)] = len
          /\ \A i \in 1..(Len(w) - 1) : p[i] = w[i + 1]
      BY <2>1, <2>2, PushCases DEF p
    <3>3. \A i \in 1..(Len(w) - 1) : i + 1 \in 1..Len(w) /\ i + shift = i + 1
      BY <1>2, <3>1
    <3>4. \A i \in 1..(Len(p) - 1) : i + shift \in 1..Len(w) /\ p[i] = w[i + shift]
      BY <3>2, <3>3
    <3> QED BY <1>1, <1>2, <3>1, <3>2, <3>4
  <2>3. CASE ~ (Len(w) >= RootWindow)
    <3>1. shift = 0
      BY <2>3
    <3> HIDE DEF p, shift
    <3>2. /\ p \in Seq(0..MaxLeaves) /\ Len(p) = Len(w) + 1 /\ p[Len(w) + 1] = len
          /\ \A i \in 1..Len(w) : p[i] = w[i]
      BY <2>1, <2>3, PushCases DEF p
    <3> QED BY <1>1, <1>2, <2>3, <3>1, <3>2
  <2> QED BY <2>2, <2>3
<1>5. shift \in {0, 1} /\ (Len(p) < RootWindow => shift = 0 /\ Len(w) < RootWindow)
  BY <1>1, <1>2, <1>4
<1>6. /\ RootLeafCount \in [0..MaxLeaves -> Nat]
      /\ \A r \in 0..MaxLeaves : RootLeafCount[r] \in {0, r}
      /\ \A r \in 0..MaxLeaves : r > len => RootLeafCount[r] = 0
      /\ RootLeafCount[len] = len
      /\ \A i \in 1..Len(w) : RootLeafCount[w[i]] = w[i]
  BY DEF TreeOK, TreeType, CountsExact
<1>7. CurrentRoot' = Len(Leaves)' /\ Leaves' # << >>
  <2>1. Leaves' = << >> => new = 0
    OBVIOUS
  <2> QED BY <1>1, <1>3, <2>1
<1>8. \A r : anchored(r)' <=> (r = new \/ \E i \in 1..Len(p) : p[i] = r)
  BY <1>3 DEF anchored
<1>9. \A r : anchored(r) <=> (r = len \/ \E i \in 1..Len(w) : w[i] = r)
  BY <1>2 DEF anchored
<1> HIDE DEF len, new, w, p, shift
<1>10. RootLeafCount' \in [0..MaxLeaves -> Nat]
       /\ RootLeafCount'[new] = new
       /\ \A r \in 0..MaxLeaves : r # new => RootLeafCount'[r] = RootLeafCount[r]
  BY <1>1, <1>3, <1>6
<1>11. \A i \in 1..Len(p) :
         /\ p[i] < new /\ p[i] \in 0..MaxLeaves /\ RootLeafCount[p[i]] = p[i]
         /\ i # Len(p) => p[i] < len
  <2> SUFFICES ASSUME NEW i \in 1..Len(p)
               PROVE  /\ p[i] < new /\ p[i] \in 0..MaxLeaves /\ RootLeafCount[p[i]] = p[i]
                      /\ i # Len(p) => p[i] < len
    OBVIOUS
  <2>1. CASE i = Len(p)
    BY <1>1, <1>4, <1>6, <2>1
  <2>2. CASE i # Len(p)
    <3>1. i \in 1..(Len(p) - 1)
      BY <1>4, <2>2
    <3>2. i + shift \in 1..Len(w) /\ p[i] = w[i + shift]
      BY <1>4, <3>1
    <3> QED BY <1>1, <1>2, <1>6, <3>2
  <2> QED BY <2>1, <2>2
<1>12. \A i \in 1..Len(p) : RootLeafCount'[p[i]] = p[i]
  BY <1>1, <1>10, <1>11
<1>13. CountsExact'
  <2>1. \A r \in 0..MaxLeaves : RootLeafCount'[r] \in {0, r}
    BY <1>6, <1>10
  <2>2. \A r \in 0..MaxLeaves : r > new => RootLeafCount'[r] = 0
    BY <1>1, <1>6, <1>10
  <2> QED BY <1>3, <1>10, <1>12, <2>1, <2>2 DEF CountsExact, new
<1>14. \A i, j \in 1..Len(p) : i < j => p[i] < p[j]
  <2> SUFFICES ASSUME NEW i \in 1..Len(p), NEW j \in 1..Len(p), i < j PROVE p[i] < p[j]
    OBVIOUS
  <2>1. i \in 1..(Len(p) - 1) /\ i # Len(p)
    BY <1>4
  <2>2. CASE j = Len(p)
    BY <1>4, <1>11, <2>1, <2>2
  <2>3. CASE j # Len(p)
    <3>1. j \in 1..(Len(p) - 1)
      BY <1>4, <2>3
    <3>2. /\ i + shift \in 1..Len(w) /\ p[i] = w[i + shift]
          /\ j + shift \in 1..Len(w) /\ p[j] = w[j + shift]
      BY <1>4, <2>1, <3>1
    <3>3. i + shift < j + shift
      BY <1>5
    <3> QED BY <1>2, <3>2, <3>3
  <2> QED BY <2>2, <2>3
<1>15. ASSUME Len(p) < RootWindow, NEW r, anchored(r) PROVE anchored(r)'
  <2>1. shift = 0 /\ Len(p) = Len(w) + 1
    BY <1>2, <1>4, <1>5, <1>15
  <2>2. CASE r = len
    BY <1>4, <1>8, <2>2
  <2>3. CASE \E i \in 1..Len(w) : w[i] = r
    <3>1. PICK i \in 1..Len(w) : w[i] = r
      BY <2>3
    <3>2. i \in 1..(Len(p) - 1) /\ i + shift = i /\ i \in 1..Len(p)
      BY <1>2, <1>4, <2>1
    <3>3. p[i] = r
      BY <1>4, <3>1, <3>2
    <3> QED BY <1>8, <3>2, <3>3
  <2> QED BY <1>9, <1>15, <2>2, <2>3
<1>16. ASSUME Len(p) < RootWindow, NEW r \in 1..new, RootLeafCount'[r] > 0
       PROVE  anchored(r)'
  <2>1. CASE r = new
    BY <1>8, <2>1
  <2>2. CASE r # new
    <3>1. r \in 0..MaxLeaves /\ RootLeafCount[r] > 0
      BY <1>1, <1>10, <1>16, <2>2
    <3>2. r \in 1..len
      BY <1>1, <1>6, <3>1
    <3>3. anchored(r)
      BY <1>2, <1>5, <1>16, <3>1, <3>2
    <3> QED BY <1>15, <1>16, <3>3
  <2> QED BY <2>1, <2>2
<1>17. ASSUME Len(p) < RootWindow PROVE anchored(0)'
  <2>1. CASE len = 0
    BY <1>9, <1>15, <1>17, <2>1
  <2>2. CASE len # 0
    <3>1. anchored(0)
      BY <1>2, <1>5, <1>17, <2>2
    <3> QED BY <1>15, <1>17, <3>1
  <2> QED BY <2>1, <2>2
<1>18. WindowOrdered'
  <2>1. CurrentRoot' = Len(Leaves)' /\ Len(RecentRoots)' <= RootWindow
    BY <1>3, <1>4, <1>7
  <2>2. \A i \in 1..Len(RecentRoots') : RecentRoots'[i] < CurrentRoot'
    BY <1>3, <1>11
  <2>3. Len(RecentRoots') < RootWindow =>
          \A r \in 1..Len(Leaves') : RootLeafCount'[r] > 0 => anchored(r)'
    BY <1>3, <1>16 DEF new
  <2>4. \A i, j \in 1..Len(RecentRoots') : i < j => RecentRoots'[i] < RecentRoots'[j]
    BY <1>3, <1>14
  <2>5. Leaves' # << >> /\ Len(RecentRoots') < RootWindow => anchored(0)'
    BY <1>3, <1>17
  <2> QED BY <2>1, <2>2, <2>3, <2>4, <2>5 DEF WindowOrdered
<1> QED BY <1>3, <1>4, <1>10, <1>13, <1>18

\* Inserting notes keeps the tree.
LEMMA InsertTree ==
    ASSUME TreeOK, NEW notes \in Seq(Notes), notes # << >>, Insert(notes)
    PROVE  /\ TreeOK'
           /\ DOMAIN CommitmentIndex' = DOMAIN CommitmentIndex \cup SetOf(notes)
<1>1. /\ Leaves' \in Seq(Notes) /\ Len(Leaves') <= MaxLeaves
      /\ DOMAIN CommitmentIndex' = DOMAIN CommitmentIndex \cup SetOf(notes)
      /\ DOMAIN CommitmentIndex' \subseteq Notes
  BY InsertEffect DEF TreeOK, TreeType
<1>2. TreeType'
  BY <1>1, InsertRoots DEF TreeType
<1> QED BY <1>1, <1>2, InsertIndex, InsertRoots DEF TreeOK

\* The number of notes is the number of leaves, and the two ways a transfer
\* establishes membership agree.
LEMMA TreeMembership == TreeOK => LanesOfMembershipAgree
<1> SUFFICES ASSUME TreeOK PROVE LanesOfMembershipAgree
  OBVIOUS
<1> DEFINE len == Len(Leaves)
<1>1. /\ Leaves \in Seq(Notes) /\ len \in Nat /\ len <= MaxLeaves /\ MaxLeaves \in Nat
      /\ Leaves \in [1..len -> Notes]
  BY LenProperties, ScanPedersenAssumption DEF TreeOK, TreeType
<1>2. /\ \A note \in DOMAIN CommitmentIndex : /\ CommitmentIndex[note] \in 0..(len - 1)
                                              /\ Leaves[CommitmentIndex[note] + 1] = note
      /\ \A i \in 1..len : /\ Leaves[i] \in DOMAIN CommitmentIndex
                           /\ CommitmentIndex[Leaves[i]] = i - 1
  BY DEF TreeOK, IndexExact
<1> HIDE DEF len
<1>3. Cardinality(DOMAIN CommitmentIndex) = len
  <2>1. Leaves \in [1..len -> DOMAIN CommitmentIndex]
    BY <1>1, <1>2
  <2>2. \A note \in DOMAIN CommitmentIndex : \E i \in 1..len : Leaves[i] = note
    <3> SUFFICES ASSUME NEW note \in DOMAIN CommitmentIndex
                 PROVE  \E i \in 1..len : Leaves[i] = note
      OBVIOUS
    <3>1. CommitmentIndex[note] + 1 \in 1..len
      BY <1>1, <1>2
    <3> QED BY <1>2, <3>1
  <2>3. \A i, j \in 1..len : Leaves[i] = Leaves[j] => i = j
    <3> SUFFICES ASSUME NEW i \in 1..len, NEW j \in 1..len, Leaves[i] = Leaves[j]
                 PROVE  i = j
      OBVIOUS
    <3>1. i - 1 = j - 1
      BY <1>2
    <3> QED BY <1>1, <3>1
  <2>4. Leaves \in Bijection(1..len, DOMAIN CommitmentIndex)
    BY <2>1, <2>2, <2>3 DEF Bijection, Injection, Surjection, IsInjective
  <2> QED BY <1>1, <2>4, FS_CountingElements DEF ExistsBijection
<1>4. ASSUME NEW root \in 0..len, anchored(root), NEW note \in DOMAIN CommitmentIndex
      PROVE  MemberUnder(note, root) <=> \E i \in 1..root : Leaves[i] = note
  <2>1. RootLeafCount[root] = root
    BY <1>4 DEF anchored, TreeOK, CountsExact, WindowOrdered
  <2>2. ASSUME CommitmentIndex[note] < root PROVE \E i \in 1..root : Leaves[i] = note
    <3>1. CommitmentIndex[note] + 1 \in 1..root
      BY <1>1, <1>2, <2>2
    <3> QED BY <1>2, <3>1
  <2>3. ASSUME NEW i \in 1..root, Leaves[i] = note PROVE CommitmentIndex[note] < root
    <3>1. i \in 1..len
      BY <1>1
    <3>2. CommitmentIndex[note] = i - 1
      BY <1>2, <2>3, <3>1
    <3> QED BY <3>2
  <2> QED BY <2>1, <2>2, <2>3 DEF MemberUnder
<1> QED BY <1>1, <1>2, <1>3, <1>4 DEF LanesOfMembershipAgree, len
-------------------------------------------------------------------------------
(***************************************************************************)
(* What the calls do                                                       *)
(***************************************************************************)
VaultType == balance \in [Accounts -> Nat] /\ burnt \in Nat

ConfigOK ==
    /\ RwaPrices \in [RwaIds -> Prices]
    /\ AccessKeyConfigs \in [AppIds -> AppConfig \cup {None}]

\* What validate_unsigned relies on: the nullifiers counted are those used.
SpendsOK ==
    /\ NullifierUsed \subseteq Nullifiers
    /\ spends \in [Nullifiers -> Nat]
    /\ NullifierSpentOnce

\* While the calls have the documented form, every note opens to a u64.
ValuesOK ==
    /\ documented \in BOOLEAN
    /\ documented => \A n \in DOMAIN CommitmentIndex : n.v \in Amounts

PedInv == TreeOK /\ VaultType /\ ConfigOK /\ SpendsOK /\ ValuesOK

\* Notes that open to a u64.
RangedNotes == {n \in Notes : n.v \in Amounts}

\* What the pool account has taken in and not paid out, the dust it lost
\* included.
Vault == balance[Pool] + burnt

\* A payment out of the pool takes its amount out of the vault, or nothing
\* when it is made to the pool itself (PayFromPool).
LEMMA PoolPayment ==
    ASSUME VaultType, NEW to \in Accounts, NEW amount \in Nat, PayFromPool(to, amount)
    PROVE  VaultType' /\ Vault' \in {Vault, Vault - amount}
<1> DEFINE d == Dust(balance, Pool, to, amount)
<1>1. /\ Pool \in Accounts /\ TransferOk(balance, Pool, to, amount, FALSE)
      /\ balance' = Transfer(balance, Pool, to, amount) /\ burnt' = burnt + d
  BY ScanPedersenAssumption DEF PayFromPool
<1>2. Transfer(balance, Pool, to, amount) \in [Accounts -> Nat] /\ d \in Nat
  BY <1>1, TransferType DEF VaultType
<1>3. Transfer(balance, Pool, to, amount)[Pool] + (burnt + d)
        \in {balance[Pool] + burnt, balance[Pool] + burnt - amount}
  BY <1>1, PaymentOut DEF VaultType
<1>4. balance[Pool] \in Nat /\ burnt \in Nat
  BY <1>1 DEF VaultType
<1> HIDE DEF d
<1>5. VaultType'
  BY <1>1, <1>2, <1>4 DEF VaultType
<1>6. Vault' \in {Vault, Vault - amount}
  BY <1>1, <1>2, <1>3, <1>4 DEF Vault
<1> QED BY <1>5, <1>6

\* A deposit adds exactly what it pays to the vault (deposit_public).
LEMMA DepositVault ==
    ASSUME VaultType, NEW who \in Accounts \ {Pool}, NEW note, NEW amount \in Amounts,
           deposit_public(who, note, amount)
    PROVE  VaultType' /\ Vault' = Vault + amount
<1>1. /\ amount \in Nat /\ Pool \in Accounts /\ burnt' = burnt
      /\ TransferOk(balance, who, Pool, amount, TRUE)
      /\ balance' = Transfer(balance, who, Pool, amount)
  BY ScanPedersenAssumption DEF deposit_public
<1>2. Transfer(balance, who, Pool, amount) \in [Accounts -> Nat]
  BY <1>1, TransferType DEF VaultType
<1>3. Transfer(balance, who, Pool, amount)[Pool] = balance[Pool] + amount
  BY <1>1, PaymentIn DEF VaultType
<1>4. balance[Pool] \in Nat /\ burnt \in Nat
  BY <1>1 DEF VaultType
<1> QED BY <1>1, <1>2, <1>3, <1>4 DEF VaultType, Vault

\* The tuples of notes a transfer names are sequences of notes.
LEMMA TupleType ==
    ASSUME NEW S, NEW lens \in SUBSET Nat, NEW notes \in Tuples(S, lens)
    PROVE  /\ notes \in Seq(S) /\ Len(notes) \in lens
           /\ notes \in [1..Len(notes) -> S]
<1>1. PICK k \in lens : notes \in [1..k -> S]
  BY DEF Tuples
<1>2. notes \in Seq(S)
  BY <1>1, SeqDef
<1>3. Len(notes) = k
  BY <1>1, <1>2, LenProperties
<1> QED BY <1>1, <1>2, <1>3

LEMMA SingleTuple ==
    ASSUME NEW S, NEW x \in S
    PROVE  /\ <<x>> \in Seq(S) /\ <<x>> # << >> /\ Len(<<x>>) = 1 /\ <<x>>[1] = x
           /\ SetOf(<<x>>) = {x}
  BY DEF SetOf

\* Nullifiers that pass validate_unsigned and are struck are each counted
\* once, and a message that names one of them is the first that does.
LEMMA StrikeOnce ==
    ASSUME SpendsOK, NEW nullifiers \in Seq(Nullifiers),
           validate_unsigned(nullifiers), Strike(nullifiers),
           \/ sent' = sent
           \/ \E m : m.nullifier \in SetOf(nullifiers) /\ sent' = sent \cup {m}
    PROVE  SpendsOK'
<1> DEFINE I == 1..Len(nullifiers)
           at(n) == {i \in I : nullifiers[i] = n}
<1>1. \A i, j \in I : nullifiers[i] = nullifiers[j] => i = j
  BY DistinctNotes DEF validate_unsigned
<1>2. /\ NullifierUsed' = NullifierUsed \cup SetOf(nullifiers)
      /\ SetOf(nullifiers) \cap NullifierUsed = {}
      /\ SetOf(nullifiers) = {nullifiers[i] : i \in I}
      /\ spends' = [n \in Nullifiers |-> spends[n] + Cardinality(at(n))]
  BY DEF validate_unsigned, Strike, CountSpends, SetOf
<1>3. SetOf(nullifiers) \subseteq Nullifiers
  BY <1>2, ElementOfSeq
<1>4. ASSUME NEW n \in Nullifiers
      PROVE  Cardinality(at(n)) = IF n \in SetOf(nullifiers) THEN 1 ELSE 0
  <2>1. CASE n \in SetOf(nullifiers)
    <3>1. PICK i \in I : nullifiers[i] = n
      BY <1>2, <2>1
    <3>2. at(n) = {i}
      BY <1>1, <3>1
    <3> HIDE DEF at
    <3> QED BY <2>1, <3>2, FS_Singleton
  <2>2. CASE n \notin SetOf(nullifiers)
    <3>1. at(n) = {}
      BY <1>2, <2>2
    <3> HIDE DEF at
    <3> QED BY <2>2, <3>1, FS_EmptySet
  <2> QED BY <2>1, <2>2
<1>5. \A n \in Nullifiers :
        /\ spends[n] = IF n \in NullifierUsed THEN 1 ELSE 0
        /\ spends'[n] = spends[n] + Cardinality(at(n))
  BY <1>2 DEF SpendsOK, NullifierSpentOnce
<1> HIDE DEF at, I
<1>6. \A n \in Nullifiers : spends'[n] = IF n \in NullifierUsed' THEN 1 ELSE 0
  BY <1>2, <1>4, <1>5
<1>7. spends' \in [Nullifiers -> Nat]
  <2>1. DOMAIN spends' = Nullifiers /\ spends' = [n \in Nullifiers |-> spends'[n]]
    BY <1>2
  <2>2. \A n \in Nullifiers : spends'[n] \in Nat
    BY <1>6
  <2> QED BY <2>1, <2>2
<1>8. /\ \A m \in sent' : m.nullifier \in NullifierUsed'
      /\ \A m1, m2 \in sent' : m1.nullifier = m2.nullifier => m1 = m2
  BY <1>2 DEF SpendsOK, NullifierSpentOnce
<1> QED BY <1>2, <1>3, <1>6, <1>7, <1>8 DEF SpendsOK, NullifierSpentOnce

\* Nothing changes of what NullifierSpentOnce is about.
LEMMA SpendsStutter ==
    SpendsOK /\ UNCHANGED <<NullifierUsed, spends, sent>> => SpendsOK'
  BY DEF SpendsOK, NullifierSpentOnce

\* The effect of a documented call that spends one note, whichever of the
\* three it is: the price is paid out or kept, and what is left of the note
\* is the change, if any.
Spend(note, price, change) ==
    /\ Nullifier(note) \notin NullifierUsed
    /\ NullifierUsed' = NullifierUsed \cup {Nullifier(note)}
    /\ Vault' \in {Vault, Vault - price}
    /\ IF change = None
       THEN note.v = price /\ DOMAIN CommitmentIndex' = DOMAIN CommitmentIndex
       ELSE /\ change \in RangedNotes \ DOMAIN CommitmentIndex /\ price > 0
            /\ note.v = price + change.v
            /\ DOMAIN CommitmentIndex' = DOMAIN CommitmentIndex \cup {change}

SomeSpend ==
    \E note \in DOMAIN CommitmentIndex, price \in Nat, change \in Notes \cup {None} :
        Spend(note, price, change)

\* The effect of a documented transfer.
Moves(ins, outs) ==
    /\ \A i \in 1..Len(ins) : Nullifier(ins[i]) \notin NullifierUsed
    /\ \A i, j \in 1..Len(ins) : Nullifier(ins[i]) = Nullifier(ins[j]) => i = j
    /\ NullifierUsed' = NullifierUsed \cup {Nullifier(ins[i]) : i \in 1..Len(ins)}
    /\ Distinct(outs) /\ SetOf(outs) \cap DOMAIN CommitmentIndex = {}
    /\ DOMAIN CommitmentIndex' = DOMAIN CommitmentIndex \cup SetOf(outs)
    /\ Total(ins) = Total(outs)
    /\ Vault' = Vault

SomeMove ==
    \E ins \in Seq(DOMAIN CommitmentIndex), outs \in Seq(RangedNotes) : Moves(ins, outs)

SomeDeposit ==
    \E note \in RangedNotes \ DOMAIN CommitmentIndex :
        /\ DOMAIN CommitmentIndex' = DOMAIN CommitmentIndex \cup {note}
        /\ Vault' = Vault + note.v
        /\ NullifierUsed' = NullifierUsed

\* Inserting one note.
LEMMA InsertOne ==
    ASSUME TreeOK, NEW note \in Notes, Insert(<<note>>)
    PROVE  /\ TreeOK' /\ note \notin DOMAIN CommitmentIndex
           /\ DOMAIN CommitmentIndex' = DOMAIN CommitmentIndex \cup {note}
<1>1. <<note>> \in Seq(Notes) /\ <<note>> # << >> /\ SetOf(<<note>>) = {note}
  BY DEF SetOf
<1>2. SetOf(<<note>>) \cap DOMAIN CommitmentIndex = {}
  BY DEF Insert
<1> QED BY <1>1, <1>2, InsertTree

LEMMA TreeStutter == TreeOK /\ UNCHANGED treeVars => TreeOK'
<1> SUFFICES ASSUME TreeOK, UNCHANGED treeVars PROVE TreeOK'
  OBVIOUS
<1>1. /\ Leaves' = Leaves /\ CommitmentIndex' = CommitmentIndex
      /\ CurrentRoot' = CurrentRoot /\ RecentRoots' = RecentRoots
      /\ RootLeafCount' = RootLeafCount
  BY DEF treeVars
<1>2. TreeType' /\ IndexExact' /\ CountsExact'
  BY <1>1 DEF TreeOK, TreeType, IndexExact, CountsExact
<1>3. WindowOrdered'
  BY <1>1 DEF TreeOK, WindowOrdered, anchored
<1> QED BY <1>2, <1>3 DEF TreeOK

\* Inserting the change of a purchase, if there is any.
LEMMA ChangeTree ==
    ASSUME TreeOK, NEW change \in Notes \cup {None}, InsertChange(change)
    PROVE  /\ TreeOK'
           /\ change = None => DOMAIN CommitmentIndex' = DOMAIN CommitmentIndex
           /\ change # None =>
                /\ change \in Notes \ DOMAIN CommitmentIndex
                /\ DOMAIN CommitmentIndex' = DOMAIN CommitmentIndex \cup {change}
<1>1. CASE change = None
  <2>1. UNCHANGED treeVars
    BY <1>1 DEF InsertChange
  <2> QED BY <1>1, <2>1, TreeStutter DEF treeVars
<1>2. CASE change # None
  <2>1. change \in Notes /\ Insert(<<change>>)
    BY <1>2 DEF InsertChange
  <2> QED BY <1>2, <2>1, InsertOne
<1> QED BY <1>1, <1>2

\* A documented purchase spends its note, whatever becomes of the price.
LEMMA PurchaseSpends ==
    ASSUME TreeOK, NEW note \in DOMAIN CommitmentIndex, NEW nullifier \in Nullifiers,
           NEW price \in Nat, NEW change \in Notes \cup {None}, price > 0,
           validate_unsigned(<<nullifier>>), Strike(<<nullifier>>),
           Opens(note, change, price), InsertChange(change),
           Vault' \in {Vault, Vault - price},
           DocumentedSpend(note, nullifier, change)
    PROVE  SomeSpend
<1>1. /\ nullifier = Nullifier(note) /\ nullifier \notin NullifierUsed
      /\ NullifierUsed' = NullifierUsed \cup {nullifier}
  BY SingleTuple DEF DocumentedSpend, validate_unsigned, Strike
<1>2. CASE change = None
  <2>1. note.v = price + 0 /\ DOMAIN CommitmentIndex' = DOMAIN CommitmentIndex
    BY <1>2, ChangeTree DEF Opens
  <2>2. note.v = price
    BY <2>1
  <2>3. Spend(note, price, change)
    BY <1>1, <1>2, <2>1, <2>2 DEF Spend
  <2> QED BY <2>3 DEF SomeSpend
<1>3. CASE change # None
  <2>1. change \in RangedNotes \ DOMAIN CommitmentIndex
    BY <1>3, ChangeTree DEF DocumentedSpend, RangedNotes
  <2>2. Spend(note, price, change)
    BY <1>1, <1>3, <2>1, ChangeTree DEF Spend, Opens
  <2> QED BY <2>2 DEF SomeSpend
<1> QED BY <1>2, <1>3

\* What a documented step does to notes, nullifiers and the currency: a
\* deposit, a transfer, the spending of one note, or nothing.
Effect ==
    \/ SomeDeposit \/ SomeMove \/ SomeSpend
    \/ UNCHANGED <<CommitmentIndex, NullifierUsed, balance, burnt>>

LEMMA NextEffect ==
    ASSUME PedInv, [Next]_vars
    PROVE  /\ TreeOK' /\ VaultType' /\ SpendsOK' /\ documented' \in BOOLEAN
           /\ documented' => documented /\ Effect
<1>1. /\ TreeOK /\ VaultType /\ SpendsOK /\ documented \in BOOLEAN
      /\ DOMAIN CommitmentIndex \subseteq Notes
      /\ Prices \subseteq Nat /\ Amounts \subseteq Nat
  BY ScanPedersenAssumption DEF PedInv, TreeOK, TreeType, ValuesOK
<1>2. ASSUME UNCHANGED <<balance, burnt>> PROVE VaultType' /\ Vault' = Vault
  BY <1>1, <1>2 DEF VaultType, Vault
<1>3. CASE Deposit
  <2>1. PICK who \in Accounts \ {Pool}, note \in Notes, amount \in Amounts :
             deposit_public(who, note, amount)
    BY <1>3 DEF Deposit
  <2>2. VaultType' /\ Vault' = Vault + amount
    BY <1>1, <2>1, DepositVault
  <2>3. /\ verify_range_proof(<<note>>) /\ Insert(<<note>>)
        /\ UNCHANGED <<NullifierUsed, spends, sent>>
        /\ documented' = (documented /\ amount = note.v)
    BY <2>1 DEF deposit_public
  <2>4. /\ TreeOK' /\ note \notin DOMAIN CommitmentIndex
        /\ DOMAIN CommitmentIndex' = DOMAIN CommitmentIndex \cup {note}
    BY <1>1, <2>3, InsertOne
  <2>5. note \in RangedNotes
    BY <2>3, SingleTuple DEF verify_range_proof, RangedNotes
  <2>6. SpendsOK'
    BY <1>1, <2>3, SpendsStutter
  <2> QED BY <1>1, <2>2, <2>3, <2>4, <2>5, <2>6 DEF SomeDeposit, Effect
<1>4. CASE Submit
  <2>1. PICK ins \in Tuples(DOMAIN CommitmentIndex, 0..MaxInputs), anchor \in 0..Len(Leaves) :
             \E nullifiers \in Tuples(Nullifiers, {Len(ins)}) :
                /\ validate_unsigned(nullifiers)
                /\ \E outs \in Tuples(Notes, 1..MaxOutputs) :
                        submit_proof(ins, nullifiers, outs, anchor)
    BY <1>4 DEF Submit
  <2>2. PICK nullifiers \in Tuples(Nullifiers, {Len(ins)}) :
                /\ validate_unsigned(nullifiers)
                /\ \E outs \in Tuples(Notes, 1..MaxOutputs) :
                        submit_proof(ins, nullifiers, outs, anchor)
    BY <2>1
  <2>3. PICK outs \in Tuples(Notes, 1..MaxOutputs) : submit_proof(ins, nullifiers, outs, anchor)
    BY <2>2
  <2>4. MaxInputs \in Nat /\ MaxOutputs \in Nat
    BY ScanPedersenAssumption
  <2>5. ins \in Seq(DOMAIN CommitmentIndex) /\ Len(ins) \in Nat
    BY <2>4, TupleType
  <2>6. nullifiers \in Seq(Nullifiers) /\ Len(nullifiers) = Len(ins)
    BY <2>5, TupleType
  <2>7. outs \in Seq(Notes) /\ Len(outs) \in 1..MaxOutputs
    BY <2>4, TupleType
  <2>8. outs # << >>
    BY <2>7
  <2>9. /\ Strike(nullifiers) /\ Insert(outs) /\ verify_range_proof(outs)
        /\ Total(ins) = Total(outs) /\ UNCHANGED <<balance, burnt>> /\ sent' = sent
        /\ documented' = (documented /\ \A i \in 1..Len(ins) : nullifiers[i] = Nullifier(ins[i]))
    BY <2>3 DEF submit_proof
  <2>10. TreeOK' /\ DOMAIN CommitmentIndex' = DOMAIN CommitmentIndex \cup SetOf(outs)
    BY <1>1, <2>7, <2>8, <2>9, InsertTree
  <2>11. SpendsOK'
    BY <1>1, <2>2, <2>6, <2>9, StrikeOnce
  <2>12. ASSUME documented' PROVE SomeMove
    <3>1. \A i \in 1..Len(ins) : nullifiers[i] = Nullifier(ins[i])
      BY <2>9, <2>12
    <3>2. \A i, j \in 1..Len(nullifiers) : nullifiers[i] = nullifiers[j] => i = j
      BY <2>2, <2>6, DistinctNotes DEF validate_unsigned
    <3>3. SetOf(nullifiers) = {Nullifier(ins[i]) : i \in 1..Len(ins)}
      BY <2>6, <3>1 DEF SetOf
    <3>4. /\ \A i \in 1..Len(ins) : Nullifier(ins[i]) \notin NullifierUsed
          /\ \A i, j \in 1..Len(ins) : Nullifier(ins[i]) = Nullifier(ins[j]) => i = j
          /\ NullifierUsed' = NullifierUsed \cup {Nullifier(ins[i]) : i \in 1..Len(ins)}
      BY <2>2, <2>6, <2>9, <3>1, <3>2, <3>3 DEF validate_unsigned, Strike
    <3>5. outs \in Seq(RangedNotes)
      <4>1. outs \in [1..Len(outs) -> Notes]
        BY <2>7, LenProperties
      <4>2. \A i \in 1..Len(outs) : outs[i] \in RangedNotes
        BY <2>9, <4>1 DEF verify_range_proof, RangedNotes
      <4>3. outs \in [1..Len(outs) -> RangedNotes]
        BY <4>1, <4>2
      <4> QED BY <2>7, <4>3, SeqDef
    <3>6. Moves(ins, outs)
      BY <1>2, <2>9, <2>10, <3>4 DEF Moves, Insert
    <3> QED BY <2>5, <3>5, <3>6 DEF SomeMove
  <2> QED BY <1>1, <1>2, <2>9, <2>10, <2>11, <2>12 DEF Effect
<1>5. CASE PurchaseRwa
  <2>1. PICK note \in DOMAIN CommitmentIndex, nullifier \in Nullifiers, rwa_id \in RwaIds :
             \E change \in Notes \cup {None} : purchase_rwa(note, nullifier, rwa_id, change)
    BY <1>5 DEF PurchaseRwa
  <2>2. PICK change \in Notes \cup {None} : purchase_rwa(note, nullifier, rwa_id, change)
    BY <2>1
  <2>3. RwaPrices[rwa_id] \in Nat /\ RwaPrices[rwa_id] > 0
    BY <1>1, <2>2 DEF PedInv, ConfigOK, purchase_rwa
  <2>4. VaultType' /\ Vault' = Vault
    BY <1>2, <2>2 DEF purchase_rwa
  <2>5. /\ validate_unsigned(<<nullifier>>) /\ Strike(<<nullifier>>)
        /\ Opens(note, change, RwaPrices[rwa_id]) /\ InsertChange(change)
        /\ documented' = (documented /\ DocumentedSpend(note, nullifier, change))
        /\ sent' = sent \cup {[dest |-> "rwa", id |-> rwa_id, nullifier |-> nullifier]}
    BY <2>2 DEF purchase_rwa
  <2>6. TreeOK' /\ SpendsOK'
    <3>1. [dest |-> "rwa", id |-> rwa_id, nullifier |-> nullifier].nullifier
            \in SetOf(<<nullifier>>)
      BY SingleTuple
    <3> QED BY <1>1, <2>5, <3>1, StrikeOnce, SingleTuple, ChangeTree
  <2>7. documented' => SomeSpend
    BY <1>1, <2>3, <2>4, <2>5, PurchaseSpends
  <2> QED BY <1>1, <2>4, <2>5, <2>6, <2>7 DEF Effect
<1>6. CASE PurchaseAccess
  <2>1. PICK note \in DOMAIN CommitmentIndex, nullifier \in Nullifiers, app_id \in AppIds :
             \E change \in Notes \cup {None} : purchase_access(note, nullifier, app_id, change)
    BY <1>6 DEF PurchaseAccess
  <2>2. PICK change \in Notes \cup {None} : purchase_access(note, nullifier, app_id, change)
    BY <2>1
  <2> DEFINE cfg == AccessKeyConfigs[app_id]
  <2>3. /\ cfg # None /\ cfg.price > 0 /\ Opens(note, change, cfg.price)
        /\ PayFromPool(cfg.payment_account, cfg.price)
        /\ validate_unsigned(<<nullifier>>) /\ Strike(<<nullifier>>) /\ InsertChange(change)
        /\ documented' = (documented /\ DocumentedSpend(note, nullifier, change))
        /\ sent' = sent \cup {[dest |-> "authgate", id |-> app_id, nullifier |-> nullifier]}
    BY <2>2 DEF purchase_access
  <2>4. cfg \in AppConfig
    BY <2>3 DEF PedInv, ConfigOK
  <2> HIDE DEF cfg
  <2>5. cfg.price \in Nat /\ cfg.payment_account \in Accounts
    BY <1>1, <2>4 DEF AppConfig
  <2>6. VaultType' /\ Vault' \in {Vault, Vault - cfg.price}
    BY <1>1, <2>3, <2>5, PoolPayment
  <2>7. TreeOK' /\ SpendsOK'
    <3>1. [dest |-> "authgate", id |-> app_id, nullifier |-> nullifier].nullifier
            \in SetOf(<<nullifier>>)
      BY SingleTuple
    <3> QED BY <1>1, <2>3, <3>1, StrikeOnce, SingleTuple, ChangeTree
  <2>8. documented' => SomeSpend
    BY <1>1, <2>3, <2>5, <2>6, PurchaseSpends
  <2> QED BY <1>1, <2>3, <2>6, <2>7, <2>8 DEF Effect
<1>7. CASE Withdraw
  <2>1. PICK note \in DOMAIN CommitmentIndex, nullifier \in Nullifiers, to \in Accounts :
             withdraw_private(note, nullifier, to)
    BY <1>7 DEF Withdraw
  <2>2. /\ note.v \in Nat /\ PayFromPool(to, note.v) /\ UNCHANGED treeVars /\ sent' = sent
        /\ validate_unsigned(<<nullifier>>) /\ Strike(<<nullifier>>)
        /\ documented' = (documented /\ DocumentedSpend(note, nullifier, None))
    BY <1>1, <2>1 DEF withdraw_private
  <2>3. VaultType' /\ Vault' \in {Vault, Vault - note.v}
    BY <1>1, <2>2, PoolPayment
  <2>4. TreeOK' /\ SpendsOK'
    BY <1>1, <2>2, StrikeOnce, SingleTuple, TreeStutter
  <2>5. documented' => Spend(note, note.v, None)
    BY <2>2, <2>3, SingleTuple DEF Spend, treeVars, DocumentedSpend, validate_unsigned, Strike
  <2> QED BY <1>1, <2>2, <2>3, <2>4, <2>5 DEF SomeSpend, Effect
<1>8. CASE SetRwaPrice \/ SetAccessConfig \/ UNCHANGED vars
  <2>1. UNCHANGED <<treeVars, NullifierUsed, balance, burnt, spends, sent, documented>>
    BY <1>8 DEF SetRwaPrice, set_rwa_price, SetAccessConfig, set_access_config, vars
  <2> QED BY <1>1, <1>2, <2>1, TreeStutter, SpendsStutter DEF treeVars, Effect
<1> QED BY <1>3, <1>4, <1>5, <1>6, <1>7, <1>8 DEF Next

\* The notes of the tree stay those that open to a u64.
LEMMA NextValues == PedInv /\ [Next]_vars => ValuesOK'
<1> SUFFICES ASSUME PedInv, [Next]_vars PROVE ValuesOK'
  OBVIOUS
<1>1. documented' \in BOOLEAN /\ (documented' => documented /\ Effect)
  BY NextEffect
<1>2. ASSUME documented' PROVE \A n \in DOMAIN CommitmentIndex' : n.v \in Amounts
  <2>1. \A n \in DOMAIN CommitmentIndex : n.v \in Amounts
    BY <1>1, <1>2 DEF PedInv, ValuesOK
  <2>2. CASE SomeMove
    <3>1. PICK ins \in Seq(DOMAIN CommitmentIndex), outs \in Seq(RangedNotes) : Moves(ins, outs)
      BY <2>2 DEF SomeMove
    <3>2. \A i \in 1..Len(outs) : outs[i] \in RangedNotes
      BY ElementOfSeq
    <3> QED BY <2>1, <3>1, <3>2 DEF Moves, SetOf, RangedNotes
  <2>3. CASE SomeDeposit \/ SomeSpend \/ UNCHANGED CommitmentIndex
    BY <2>1, <2>3 DEF SomeDeposit, SomeSpend, Spend, RangedNotes
  <2> QED BY <1>1, <1>2, <2>2, <2>3 DEF Effect
<1> QED BY <1>1, <1>2 DEF ValuesOK

\* Prices and configurations are what the root origin set (set_rwa_price,
\* set_access_config).
LEMMA NextConfig == ConfigOK /\ [Next]_vars => ConfigOK'
<1> SUFFICES ASSUME ConfigOK, [Next]_vars PROVE ConfigOK'
  OBVIOUS
<1>1. CASE SetRwaPrice
  BY <1>1 DEF SetRwaPrice, set_rwa_price, ConfigOK
<1>2. CASE SetAccessConfig
  BY <1>2 DEF SetAccessConfig, set_access_config, ConfigOK
<1>3. CASE UNCHANGED configVars
  BY <1>3 DEF configVars, ConfigOK
<1>4. CASE Deposit \/ Submit \/ PurchaseRwa \/ PurchaseAccess \/ Withdraw
  BY <1>3, <1>4 DEF Deposit, deposit_public, Submit, submit_proof, PurchaseRwa,
     purchase_rwa, PurchaseAccess, purchase_access, Withdraw, withdraw_private
<1> QED BY <1>1, <1>2, <1>3, <1>4 DEF Next, vars

\* At genesis the tree is empty and its root is in force.
LEMMA PedInitInv == Init => PedInv
<1> SUFFICES ASSUME Init PROVE PedInv
  OBVIOUS
<1> USE DEF Init
<1>1. TreeType /\ IndexExact
  BY ScanPedersenAssumption DEF TreeType, IndexExact
<1>2. CountsExact /\ WindowOrdered
  BY ScanPedersenAssumption DEF CountsExact, WindowOrdered
<1>3. VaultType /\ ConfigOK /\ SpendsOK /\ ValuesOK
  BY ScanPedersenAssumption DEF VaultType, ConfigOK, SpendsOK, NullifierSpentOnce, ValuesOK
<1> QED BY <1>1, <1>2, <1>3 DEF PedInv, TreeOK

\* The inductive invariant holds of every behaviour.
THEOREM PedInvCorrect == Spec => []PedInv
<1>1. PedInv /\ [Next]_vars => PedInv'
  BY NextEffect, NextConfig, NextValues DEF PedInv
<1> QED BY <1>1, PedInitInv, PTL DEF Spec

\* However many notes one call inserts, both ways of showing that a note is
\* under a root answer alike.
THEOREM LanesCorrect == Spec => []LanesOfMembershipAgree
<1>1. PedInv => LanesOfMembershipAgree
  BY TreeMembership DEF PedInv
<1> QED BY <1>1, PedInvCorrect, PTL

\* For every length of the window it holds the last roots in the order they
\* were in force.
THEOREM WindowCorrect == Spec => []WindowOrdered
<1>1. PedInv => WindowOrdered
  BY DEF PedInv, TreeOK
<1> QED BY <1>1, PedInvCorrect, PTL

\* However callers choose nullifiers and however many inputs a transfer
\* names, a nullifier is spent once and one message names it.
THEOREM NullifierSpentOnceCorrect == Spec => []NullifierSpentOnce
<1>1. PedInv => NullifierSpentOnce
  BY DEF PedInv, SpendsOK
<1> QED BY <1>1, PedInvCorrect, PTL

-------------------------------------------------------------------------------
(***************************************************************************)
(* The Pedersen lane is solvent                                            *)
(***************************************************************************)
Worth ==
    [k \in Nullifiers |-> {n.v : n \in {m \in DOMAIN CommitmentIndex : Nullifier(m) = k}}]

\* The nullifier of a note is one of the nullifiers.
LEMMA NullifierType ==
    /\ \A n \in Notes : Nullifier(n) \in Nullifiers /\ n.b \in Blindings /\ n.v \in Int
    /\ \A n \in RangedNotes : n \in Notes /\ n.v \in Amounts /\ n.v \in Nat
  BY ScanPedersenAssumption DEF Notes, Nullifier, RangedNotes

\* There are finitely many values, so the claims of module PoolFacts are
\* those of the notes.
LEMMA WorthType ==
    ASSUME PedInv, documented
    PROVE  /\ Worth \in Worths(Nullifiers)
           /\ NotesBacked <=> SumFunction(OpenClaims(Worth, NullifierUsed)) <= Vault
<1>1. \A k \in Nullifiers : Worth[k] \subseteq Amounts
  BY DEF Worth, PedInv, ValuesOK
<1>2. \A k \in Nullifiers : Worth[k] \subseteq Nat /\ IsFiniteSet(Worth[k])
  BY <1>1, FS_Subset, ScanPedersenAssumption
<1>3. Worth \in Worths(Nullifiers)
  BY <1>2 DEF Worth, Worths
<1>4. [k \in Nullifiers |-> NoteClaim(k)] = OpenClaims(Worth, NullifierUsed)
  BY DEF NoteClaim, OpenClaims, Worth
<1> QED BY <1>3, <1>4 DEF NotesBacked, Vault

LEMMA WorthTypeNext ==
    ASSUME PedInv', documented'
    PROVE  /\ Worth' \in Worths(Nullifiers)
           /\ NotesBacked' <=> SumFunction(OpenClaims(Worth', NullifierUsed')) <= Vault'
<1>1. (PedInv /\ documented =>
         /\ Worth \in Worths(Nullifiers)
         /\ NotesBacked <=> SumFunction(OpenClaims(Worth, NullifierUsed)) <= Vault)'
  BY WorthType, PTL
<1> QED BY <1>1

\* Tags and values of a tuple of notes.
TagsOf(notes) == [i \in 1..Len(notes) |-> Nullifier(notes[i])]

ValuesOf(notes) == [i \in 1..Len(notes) |-> notes[i].v]

LEMMA TotalType ==
    ASSUME NEW S \in SUBSET RangedNotes, NEW notes \in Seq(S)
    PROVE  /\ IsFiniteSet(1..Len(notes))
           /\ \A i \in 1..Len(notes) :
                /\ notes[i] \in S /\ notes[i].v \in Nat
                /\ TagsOf(notes)[i] = Nullifier(notes[i]) /\ ValuesOf(notes)[i] = notes[i].v
                /\ Nullifier(notes[i]) \in Nullifiers
           /\ Total(notes) = SumFunctionOnSet(ValuesOf(notes), 1..Len(notes))
           /\ Total(notes) \in Nat
<1>1. IsFiniteSet(1..Len(notes))
  BY LenProperties, FS_Interval
<1>2. \A i \in 1..Len(notes) : notes[i] \in S
  BY ElementOfSeq
<1>3. \A i \in 1..Len(notes) : Nullifier(notes[i]) \in Nullifiers /\ notes[i].v \in Nat
  BY <1>2, NullifierType
<1>4. \A i \in 1..Len(notes) :
        TagsOf(notes)[i] = Nullifier(notes[i]) /\ ValuesOf(notes)[i] = notes[i].v
  BY DEF TagsOf, ValuesOf
<1>5. Total(notes) = SumFunctionOnSet(ValuesOf(notes), 1..Len(notes))
  BY DEF Total, SumFunction, ValuesOf
<1>6. SumFunctionOnSet(ValuesOf(notes), 1..Len(notes)) \in Nat
  BY <1>1, <1>3, <1>4, SumType
<1> QED BY <1>1, <1>2, <1>3, <1>4, <1>5, <1>6

\* While the calls have the documented form the tree holds ranged notes.
LEMMA RangedTree ==
    ASSUME PedInv, documented PROVE DOMAIN CommitmentIndex \subseteq RangedNotes
  BY DEF PedInv, TreeOK, TreeType, ValuesOK, RangedNotes

\* A note that is issued adds its value under its own nullifier.
LEMMA WorthIssued ==
    ASSUME PedInv, documented, PedInv', documented', NEW note \in RangedNotes,
           DOMAIN CommitmentIndex' = DOMAIN CommitmentIndex \cup {note}
    PROVE  /\ note.v \in Nat
           /\ \A spent : SumFunction(OpenClaims(Worth', spent))
                           <= SumFunction(OpenClaims(Worth, spent)) + note.v
<1>1. Nullifier(note) \in Nullifiers /\ note.v \in Nat /\ IsFiniteSet(Nullifiers)
  BY NullifierType, ScanPedersenAssumption
<1>2. Worth \in Worths(Nullifiers) /\ Worth' \in Worths(Nullifiers)
  BY WorthType, WorthTypeNext
<1>3. /\ \A k \in Nullifiers \ {Nullifier(note)} : Worth'[k] = Worth[k]
      /\ Worth'[Nullifier(note)] \subseteq Worth[Nullifier(note)] \cup {note.v}
  BY <1>1 DEF Worth
<1>4. Worth' \in [Nullifiers -> SUBSET Nat]
  BY <1>2 DEF Worths
<1> QED BY <1>1, <1>2, <1>3, <1>4, ClaimsRaised

\* A transfer opens claims of no more than it closes.
LEMMA MoveBacked ==
    ASSUME PedInv, documented, PedInv', documented',
           NEW ins \in Seq(DOMAIN CommitmentIndex), NEW outs \in Seq(RangedNotes),
           Moves(ins, outs)
    PROVE  SumFunction(OpenClaims(Worth', NullifierUsed'))
             <= SumFunction(OpenClaims(Worth, NullifierUsed))
<1> DEFINE I == 1..Len(ins)
           J == 1..Len(outs)
           S(worth, spent) == SumFunction(OpenClaims(worth, spent))
<1>1. /\ Worth \in Worths(Nullifiers) /\ Worth' \in Worths(Nullifiers)
      /\ IsFiniteSet(Nullifiers) /\ DOMAIN CommitmentIndex \subseteq RangedNotes
  BY WorthType, WorthTypeNext, RangedTree, ScanPedersenAssumption
<1>2. S(Worth, NullifierUsed') + Total(ins) <= S(Worth, NullifierUsed)
  <2> DEFINE tag == TagsOf(ins)
             val == ValuesOf(ins)
  <2>1. /\ IsFiniteSet(I) /\ Total(ins) = SumFunctionOnSet(val, I)
        /\ \A i \in I : /\ ins[i] \in DOMAIN CommitmentIndex
                        /\ tag[i] = Nullifier(ins[i]) /\ val[i] = ins[i].v
                        /\ Nullifier(ins[i]) \in Nullifiers
    BY <1>1, TotalType
  <2>2. /\ \A i \in I : Nullifier(ins[i]) \notin NullifierUsed
        /\ \A i, j \in I : Nullifier(ins[i]) = Nullifier(ins[j]) => i = j
        /\ NullifierUsed' = NullifierUsed \cup {Nullifier(ins[i]) : i \in I}
    BY DEF Moves
  <2>3. \A i \in I : val[i] \in Worth[tag[i]]
    BY <2>1 DEF Worth
  <2> HIDE DEF tag, val, I
  <2>4. /\ \A i \in I : tag[i] \in Nullifiers \ NullifierUsed /\ val[i] \in Worth[tag[i]]
        /\ \A i, j \in I : tag[i] = tag[j] => i = j
        /\ NullifierUsed' = NullifierUsed \cup {tag[i] : i \in I}
    BY <2>1, <2>2, <2>3
  <2> QED BY <1>1, <2>1, <2>4, ClaimsSpentAll
<1>3. S(Worth', NullifierUsed') <= S(Worth, NullifierUsed') + Total(outs)
  <2> DEFINE tag == TagsOf(outs)
             val == ValuesOf(outs)
  <2>1. /\ IsFiniteSet(J) /\ Total(outs) = SumFunctionOnSet(val, J)
        /\ \A i \in J : /\ tag[i] = Nullifier(outs[i]) /\ val[i] = outs[i].v
                        /\ Nullifier(outs[i]) \in Nullifiers /\ outs[i].v \in Nat
    BY TotalType
  <2>2. /\ DOMAIN CommitmentIndex' = DOMAIN CommitmentIndex \cup SetOf(outs)
        /\ SetOf(outs) = {outs[i] : i \in J}
    BY DEF Moves, SetOf
  <2> HIDE DEF tag, val, J
  <2>3. Adds(Worth, Worth', tag, val, J)
    BY <2>1, <2>2 DEF Worth, Adds
  <2>4. Worth' \in [Nullifiers -> SUBSET Nat]
    BY <1>1 DEF Worths
  <2>5. \A i \in J : tag[i] \in Nullifiers /\ val[i] \in Nat
    BY <2>1
  <2>6. SumFunction(OpenClaims(Worth', NullifierUsed'))
          <= SumFunction(OpenClaims(Worth, NullifierUsed')) + SumFunctionOnSet(val, J)
    BY <1>1, <2>1, <2>3, <2>4, <2>5, ClaimsRaisedAll
  <2> QED BY <2>1, <2>6
<1>4. Total(ins) \in Nat /\ Total(ins) = Total(outs)
  BY <1>1, TotalType DEF Moves
<1>5. \A spent : S(Worth, spent) \in Nat /\ S(Worth', spent) \in Nat
  BY <1>1, ClaimsType
<1> HIDE DEF S
<1>6. S(Worth', NullifierUsed') <= S(Worth, NullifierUsed)
  BY <1>2, <1>3, <1>4, <1>5
<1> QED BY <1>6 DEF S

\* Every documented step keeps the notes backed: a deposit is paid in, and
\* what is spent closes a claim of at least what it pays out and what it
\* opens.
LEMMA NextBacked == PedInv /\ PedInv' /\ NotesBacked /\ [Next]_vars => NotesBacked'
<1> SUFFICES ASSUME PedInv, PedInv', NotesBacked, [Next]_vars, documented' PROVE NotesBacked'
  BY DEF NotesBacked
<1> DEFINE S(worth, spent) == SumFunction(OpenClaims(worth, spent))
<1>1. documented /\ Effect
  BY NextEffect
<1>2. /\ Worth \in Worths(Nullifiers) /\ Worth' \in Worths(Nullifiers)
      /\ S(Worth, NullifierUsed) <= Vault
      /\ NotesBacked' <=> S(Worth', NullifierUsed') <= Vault'
  BY <1>1, WorthType, WorthTypeNext
<1>3. /\ \A spent : S(Worth, spent) \in Nat /\ S(Worth', spent) \in Nat
      /\ Vault \in Nat /\ Vault' \in Nat
  <2>1. \A spent : S(Worth, spent) \in Nat /\ S(Worth', spent) \in Nat
    BY <1>2, ClaimsType, ScanPedersenAssumption
  <2>2. Vault \in Nat /\ Vault' \in Nat
    BY ScanPedersenAssumption DEF Vault, PedInv, VaultType
  <2> QED BY <2>1, <2>2
<1>4. CASE SomeDeposit
  <2>1. PICK note \in RangedNotes : /\ DOMAIN CommitmentIndex' = DOMAIN CommitmentIndex \cup {note}
                                    /\ Vault' = Vault + note.v
                                    /\ NullifierUsed' = NullifierUsed
    BY <1>4 DEF SomeDeposit
  <2>2. note.v \in Nat /\ S(Worth', NullifierUsed) <= S(Worth, NullifierUsed) + note.v
    BY <1>1, <2>1, WorthIssued
  <2> HIDE DEF S
  <2> QED BY <1>2, <1>3, <2>1, <2>2
<1>5. CASE SomeMove
  <2>1. PICK ins \in Seq(DOMAIN CommitmentIndex), outs \in Seq(RangedNotes) : Moves(ins, outs)
    BY <1>5 DEF SomeMove
  <2>2. S(Worth', NullifierUsed') <= S(Worth, NullifierUsed) /\ Vault' = Vault
    BY <1>1, <2>1, MoveBacked DEF Moves
  <2> HIDE DEF S
  <2> QED BY <1>2, <1>3, <2>2
<1>6. CASE SomeSpend
  <2>1. PICK note \in DOMAIN CommitmentIndex, price \in Nat, change \in Notes \cup {None} :
             Spend(note, price, change)
    BY <1>6 DEF SomeSpend
  <2>2. /\ Nullifier(note) \in Nullifiers \ NullifierUsed /\ note.v \in Nat
        /\ note.v \in Worth[Nullifier(note)]
        /\ NullifierUsed' = NullifierUsed \cup {Nullifier(note)}
    BY <1>1, <2>1, RangedTree, NullifierType DEF Spend, Worth
  <2>3. S(Worth, NullifierUsed') + note.v <= S(Worth, NullifierUsed)
    BY <1>2, <2>2, ClaimsSpent, ScanPedersenAssumption
  <2>4. Vault' \in {Vault, Vault - price}
    BY <2>1 DEF Spend
  <2>5. CASE change = None
    <3>1. note.v = price /\ Worth' = Worth
      BY <2>1, <2>5 DEF Spend, Worth
    <3> HIDE DEF S
    <3> QED BY <1>2, <1>3, <2>2, <2>3, <2>4, <3>1
  <2>6. CASE change # None
    <3>1. /\ change \in RangedNotes /\ note.v = price + change.v
          /\ DOMAIN CommitmentIndex' = DOMAIN CommitmentIndex \cup {change}
      BY <2>1, <2>6 DEF Spend
    <3>2. /\ change.v \in Nat
          /\ S(Worth', NullifierUsed') <= S(Worth, NullifierUsed') + change.v
      BY <1>1, <3>1, WorthIssued
    <3> HIDE DEF S
    <3> QED BY <1>2, <1>3, <2>2, <2>3, <2>4, <3>1, <3>2
  <2> QED BY <2>5, <2>6
<1>7. CASE UNCHANGED <<CommitmentIndex, NullifierUsed, balance, burnt>>
  <2>1. Worth' = Worth /\ NullifierUsed' = NullifierUsed /\ Vault' = Vault
    BY <1>7 DEF Worth, Vault
  <2> QED BY <1>2, <2>1
<1> QED BY <1>1, <1>4, <1>5, <1>6, <1>7 DEF Effect

\* As long as the calls have the documented form, the pool account backs
\* every note that can still be spent, however many notes a transfer joins
\* and makes.
THEOREM NotesBackedCorrect == Spec => []NotesBacked
<1>1. Init => NotesBacked
  <2> SUFFICES ASSUME Init PROVE NotesBacked
    OBVIOUS
  <2>1. PedInv /\ documented
    BY PedInitInv DEF Init
  <2>2. Worth = [k \in Nullifiers |-> {}]
    BY DEF Init, Worth
  <2>3. SumFunction(OpenClaims(Worth, NullifierUsed)) = 0
    BY <2>2, NoClaims, ScanPedersenAssumption
  <2>4. Vault \in Nat
    BY <2>1, ScanPedersenAssumption DEF PedInv, VaultType, Vault
  <2> QED BY <2>1, <2>3, <2>4, WorthType
<1> QED BY <1>1, NextBacked, PedInvCorrect, PTL DEF Spec

\* As long as the calls have the documented form, whoever holds a note whose
\* nullifier was not used can take it out at once: the pallet knows its
\* commitment, the value fits the call, and the pool account can pay.  Left
\* out are a pool that was reaped and an account the payment is too small
\* to create.
ExitFunded ==
    documented =>
        \A note \in DOMAIN CommitmentIndex, to \in Accounts :
            /\ Nullifier(note) \notin NullifierUsed
            /\ burnt = 0
            /\ balance[to] > 0 \/ note.v >= ExistentialDeposit
            => /\ validate_unsigned(<<Nullifier(note)>>)
               /\ note.v \in Amounts
               /\ TransferOk(balance, Pool, to, note.v, FALSE)

\* No check of withdraw_private stands in the way of an unspent note.
THEOREM ExitFundedCorrect == Spec => []ExitFunded
<1>1. ASSUME PedInv, NotesBacked, documented,
             NEW note \in DOMAIN CommitmentIndex, NEW to \in Accounts,
             Nullifier(note) \notin NullifierUsed, burnt = 0,
             balance[to] > 0 \/ note.v >= ExistentialDeposit
      PROVE  /\ validate_unsigned(<<Nullifier(note)>>) /\ note.v \in Amounts
             /\ TransferOk(balance, Pool, to, note.v, FALSE)
  <2>1. /\ Nullifier(note) \in Nullifiers \ NullifierUsed
        /\ note.v \in Amounts /\ note.v \in Nat /\ note.v \in Worth[Nullifier(note)]
        /\ balance \in [Accounts -> Nat] /\ Pool \in Accounts
    BY <1>1, RangedTree, NullifierType, ScanPedersenAssumption DEF PedInv, VaultType, Worth
  <2>2. validate_unsigned(<<Nullifier(note)>>)
    <3>1. /\ SetOf(<<Nullifier(note)>>) = {Nullifier(note)}
          /\ Len(<<Nullifier(note)>>) = 1
      BY <2>1, SingleTuple
    <3> QED BY <1>1, <3>1, FS_Singleton DEF validate_unsigned, Distinct
  <2>3. /\ Worth \in Worths(Nullifiers)
        /\ SumFunction(OpenClaims(Worth, NullifierUsed)) <= Vault
    BY <1>1, WorthType
  <2>4. /\ note.v <= SumFunction(OpenClaims(Worth, NullifierUsed))
        /\ SumFunction(OpenClaims(Worth, NullifierUsed)) \in Nat
    BY <2>1, <2>3, ClaimCovered, ClaimsType, ScanPedersenAssumption
  <2>5. note.v <= balance[Pool]
    BY <1>1, <2>1, <2>3, <2>4 DEF Vault
  <2>6. TransferOk(balance, Pool, to, note.v, FALSE)
    BY <1>1, <2>1, <2>5 DEF TransferOk
  <2> QED BY <2>1, <2>2, <2>6
<1>2. PedInv /\ NotesBacked => ExitFunded
  BY <1>1 DEF ExitFunded
<1> QED BY <1>2, PedInvCorrect, NotesBackedCorrect, PTL

-------------------------------------------------------------------------------
(***************************************************************************)
(* The Pedersen lane implements the abstract shielded pool                 *)
(***************************************************************************)
NoteOf(n) == [v |-> n.v, b |-> Nullifier(n), pk |-> n.b]

Issued == {NoteOf(n) : n \in DOMAIN CommitmentIndex}

Image(notes) == {NoteOf(notes[i]) : i \in 1..Len(notes)}

\* Different notes are different notes of the abstract pool.
LEMMA NoteOfNote ==
    /\ \A n \in RangedNotes : /\ NoteOf(n) \in Promise!Note
                              /\ NoteOf(n).v = n.v /\ NoteOf(n).b = Nullifier(n)
    /\ \A n1, n2 \in RangedNotes : NoteOf(n1) = NoteOf(n2) => n1 = n2
<1>1. \A n \in RangedNotes : /\ NoteOf(n) \in Promise!Note /\ NoteOf(n).pk = n.b
                             /\ NoteOf(n).v = n.v /\ NoteOf(n).b = Nullifier(n)
  BY NullifierType DEF NoteOf, Promise!Note
<1>2. ASSUME NEW n1 \in RangedNotes, NEW n2 \in RangedNotes, NoteOf(n1) = NoteOf(n2)
      PROVE  n1 = n2
  <2>1. n1.v = n2.v /\ n1.b = n2.b
    BY <1>1, <1>2
  <2> QED BY <2>1 DEF Notes, RangedNotes
<1> QED BY <1>1, <1>2

\* Notes that differ are worth together, as a set, what they are worth as
\* a tuple.
LEMMA ImageValue ==
    ASSUME NEW notes \in Seq(RangedNotes),
           \A i, j \in 1..Len(notes) : notes[i] = notes[j] => i = j
    PROVE  Promise!ValueOf(Image(notes)) = Total(notes)
<1> DEFINE I == 1..Len(notes)
           p == [i \in I |-> NoteOf(notes[i])]
           h == ValuesOf(notes)
           g == [n \in Image(notes) |-> n.v]
<1>1. /\ IsFiniteSet(I) /\ Total(notes) = SumFunctionOnSet(h, I)
      /\ \A i \in I : notes[i] \in RangedNotes /\ h[i] = notes[i].v /\ notes[i].v \in Nat
  BY TotalType
<1>2. /\ \A i \in I : p[i] = NoteOf(notes[i])
      /\ Image(notes) = {p[i] : i \in I}
  BY DEF Image
<1>3. \A i \in I : p[i] \in Image(notes)
  BY <1>2
<1>4. \A i \in I : g[p[i]] = h[i] /\ h[i] \in Int
  <2>1. \A i \in I : p[i].v = h[i] /\ h[i] \in Int
    BY <1>1, <1>2, NoteOfNote
  <2> HIDE DEF p, h, I
  <2> QED BY <1>3, <2>1
<1>5. \A i, j \in I : p[i] = p[j] => i = j
  BY <1>1, <1>2, NoteOfNote
<1>6. Promise!ValueOf(Image(notes)) = SumFunctionOnSet(g, Image(notes))
  <2>1. DOMAIN g = Image(notes)
    OBVIOUS
  <2> HIDE DEF g
  <2> QED BY <2>1 DEF Promise!ValueOf, Promise!SumFunction, Promise!SumFunctionOnSet,
         Promise!FoldFunctionOnSet, Promise!MapThenFoldSet, SumFunctionOnSet,
         FoldFunctionOnSet, MapThenFoldSet, g
<1> HIDE DEF I, p, h, g
<1>7. SumFunctionOnSet(g, {p[i] : i \in I}) = SumFunctionOnSet(h, I)
  BY <1>1, <1>4, <1>5, SumReindex
<1> QED BY <1>1, <1>2, <1>6, <1>7

\* A documented transfer is a transfer of the abstract pool.
LEMMA MoveTransfers ==
    ASSUME PedInv, documented, NEW ins \in Seq(DOMAIN CommitmentIndex),
           NEW outs \in Seq(RangedNotes), Moves(ins, outs)
    PROVE  \E from \in SUBSET Issued : Promise!Transfer(from, Issued' \ Issued)
<1>1. /\ DOMAIN CommitmentIndex \subseteq RangedNotes
      /\ DOMAIN CommitmentIndex' = DOMAIN CommitmentIndex \cup SetOf(outs)
      /\ SetOf(outs) \cap DOMAIN CommitmentIndex = {}
      /\ Distinct(outs) /\ Total(ins) = Total(outs) /\ Vault' = Vault
  BY RangedTree DEF Moves
<1>2. /\ \A i \in 1..Len(ins) : Nullifier(ins[i]) \notin NullifierUsed
      /\ \A i, j \in 1..Len(ins) : Nullifier(ins[i]) = Nullifier(ins[j]) => i = j
      /\ NullifierUsed' = NullifierUsed \cup {Nullifier(ins[i]) : i \in 1..Len(ins)}
  BY DEF Moves
<1>3. /\ \A i \in 1..Len(ins) : ins[i] \in DOMAIN CommitmentIndex
      /\ \A i \in 1..Len(outs) : outs[i] \in RangedNotes
      /\ ins \in Seq(RangedNotes)
  BY <1>1, ElementOfSeq, SeqMonotonic
<1>4. Image(ins) \subseteq Issued
  BY <1>3 DEF Image, Issued
<1>5. Issued' \ Issued = Image(outs)
  <2>1. SetOf(outs) = {outs[i] : i \in 1..Len(outs)}
    BY DEF SetOf
  <2>2. Issued' = Issued \cup Image(outs)
    BY <1>1, <2>1 DEF Issued, Image
  <2>3. Issued \cap Image(outs) = {}
    BY <1>1, <1>3, <2>1, NoteOfNote DEF Issued, Image
  <2> QED BY <2>2, <2>3
<1>6. Issued' = Issued \cup (Issued' \ Issued)
  BY <1>1 DEF Issued
<1>7. Promise!ValueOf(Image(ins)) = Promise!ValueOf(Image(outs))
  <2>1. \A i, j \in 1..Len(ins) : ins[i] = ins[j] => i = j
    BY <1>2
  <2>2. \A i, j \in 1..Len(outs) : outs[i] = outs[j] => i = j
    BY <1>1, DistinctNotes
  <2> QED BY <1>1, <1>3, <2>1, <2>2, ImageValue
<1>8. \A i \in 1..Len(ins) : NoteOf(ins[i]).b = Nullifier(ins[i])
  BY <1>1, <1>3, NoteOfNote
<1>9. /\ \A n \in Image(ins) : n.b \notin NullifierUsed
      /\ \A n1, n2 \in Image(ins) : n1.b = n2.b => n1 = n2
      /\ NullifierUsed' = NullifierUsed \cup {n.b : n \in Image(ins)}
  BY <1>2, <1>8 DEF Image
<1>10. Image(outs) \subseteq Promise!Note \ Issued
  <2>1. Image(outs) \subseteq Promise!Note
    BY <1>3, NoteOfNote DEF Image
  <2> QED BY <1>5, <2>1
<1>11. Promise!Transfer(Image(ins), Issued' \ Issued)
  BY <1>1, <1>5, <1>6, <1>7, <1>9, <1>10 DEF Promise!Transfer, Issued, NoteOf, Vault
<1> QED BY <1>4, <1>11

\* Every documented step of the lane is one of the abstract pool or leaves
\* it alone.
LEMMA NextPool ==
    PedInv /\ [Next]_vars => (documented' => [Promise!PoolNext]_(Promise!poolVars))
<1> SUFFICES ASSUME PedInv, [Next]_vars, documented'
             PROVE  Promise!PoolNext \/ UNCHANGED Promise!poolVars
  OBVIOUS
<1>1. /\ documented /\ Effect /\ DOMAIN CommitmentIndex \subseteq RangedNotes
      /\ \A n \in RangedNotes : /\ NoteOf(n) \in Promise!Note
                                /\ NoteOf(n).v = n.v /\ NoteOf(n).b = Nullifier(n)
  BY NextEffect, RangedTree, NoteOfNote
<1>2. Vault \in Nat /\ \A n \in RangedNotes : n.v \in Nat
  <2>1. Vault \in Nat
    BY ScanPedersenAssumption DEF PedInv, VaultType, Vault
  <2> QED BY <2>1, NullifierType
<1>3. ASSUME NEW n \in RangedNotes \ DOMAIN CommitmentIndex PROVE NoteOf(n) \notin Issued
  BY <1>1, NoteOfNote DEF Issued
<1>4. ASSUME NEW n, DOMAIN CommitmentIndex' = DOMAIN CommitmentIndex \cup {n}
      PROVE  Issued' = Issued \cup {NoteOf(n)}
  BY <1>4 DEF Issued
<1>5. CASE SomeDeposit
  <2>1. PICK note \in RangedNotes \ DOMAIN CommitmentIndex :
             /\ DOMAIN CommitmentIndex' = DOMAIN CommitmentIndex \cup {note}
             /\ Vault' = Vault + note.v
             /\ NullifierUsed' = NullifierUsed
    BY <1>5 DEF SomeDeposit
  <2>2. NoteOf(note) \notin Issued /\ Issued' = Issued \cup {NoteOf(note)}
    BY <1>3, <1>4, <2>1
  <2>3. Promise!Issue(NoteOf(note))
    BY <1>1, <2>1, <2>2 DEF Promise!Issue, Issued, NoteOf, Vault
  <2> QED BY <1>1, <2>3 DEF Promise!PoolNext
<1>6. CASE SomeMove
  <2>1. PICK ins \in Seq(DOMAIN CommitmentIndex), outs \in Seq(RangedNotes) : Moves(ins, outs)
    BY <1>6 DEF SomeMove
  <2>2. \E from \in SUBSET Issued : Promise!Transfer(from, Issued' \ Issued)
    BY <1>1, <2>1, MoveTransfers
  <2> QED BY <2>2 DEF Promise!PoolNext, Issued, NoteOf
<1>7. CASE SomeSpend
  <2>1. PICK note \in DOMAIN CommitmentIndex, price \in Nat, change \in Notes \cup {None} :
             Spend(note, price, change)
    BY <1>7 DEF SomeSpend
  <2>2. /\ note \in RangedNotes /\ NoteOf(note) \in Issued
        /\ NoteOf(note).b \notin NullifierUsed
        /\ NullifierUsed' = NullifierUsed \cup {NoteOf(note).b}
        /\ Vault' \in {Vault, Vault - price}
    BY <1>1, <2>1 DEF Spend, Issued
  <2>3. Promise!Strike(NoteOf(note))
    BY <2>2 DEF Promise!Strike, Issued, NoteOf
  <2>4. CASE change = None
    <3>1. NoteOf(note).v = price /\ Issued' = Issued
      BY <1>1, <2>1, <2>2, <2>4 DEF Spend, Issued
    <3>2. Promise!Redeem(NoteOf(note))
      BY <2>2, <2>3, <3>1 DEF Promise!Redeem, Issued, NoteOf, Vault
    <3> QED BY <1>1, <2>2, <3>2 DEF Promise!PoolNext
  <2>5. CASE change # None
    <3>1. /\ change \in RangedNotes \ DOMAIN CommitmentIndex /\ price > 0
          /\ note.v = price + change.v
          /\ DOMAIN CommitmentIndex' = DOMAIN CommitmentIndex \cup {change}
      BY <2>1, <2>5 DEF Spend
    <3>2. NoteOf(change) \notin Issued /\ Issued' = Issued \cup {NoteOf(change)}
      BY <1>3, <1>4, <3>1
    <3>3. /\ NoteOf(change).v < NoteOf(note).v
          /\ NoteOf(note).v - NoteOf(change).v = price
      BY <1>1, <1>2, <2>2, <3>1
    <3>4. Vault' \in {Vault, Vault - (NoteOf(note).v - NoteOf(change).v)}
      BY <2>2, <3>3
    <3>5. Promise!Purchase(NoteOf(note), NoteOf(change))
      BY <2>3, <3>2, <3>3, <3>4 DEF Promise!Purchase, Issued, NoteOf, Vault
    <3> QED BY <1>1, <2>2, <3>1, <3>5 DEF Promise!PoolNext
  <2> QED BY <2>4, <2>5
<1>8. CASE UNCHANGED <<CommitmentIndex, NullifierUsed, balance, burnt>>
  BY <1>8 DEF Promise!poolVars
<1> QED BY <1>1, <1>5, <1>6, <1>7, <1>8 DEF Effect

\* As long as the calls have the documented form, a behaviour of the lane is
\* one of the abstract pool: a transfer strikes notes that differ and makes
\* notes of the same total value, and nothing else joins or makes notes.
THEOREM PedersenRefinement == Spec => RefinesShieldedPool
<1>1. Init => Promise!PoolInit
  BY PedInitInv, ScanPedersenAssumption DEF Init, Promise!PoolInit, PedInv, VaultType
<1> QED BY <1>1, NextPool, PedInvCorrect, PTL DEF Spec, RefinesShieldedPool
===============================================================================
