-------------------------- MODULE SpendCircuit_proofs --------------------------
(***************************************************************************)
(* Proofs about the circuits of the v2 lane, for every number of rounds,   *)
(* every depth of the tree and every field that leaves room for the        *)
(* difference of two values: an accepted table proves the relation the     *)
(* chain takes it for, in the integers, and the wallet's table is accepted.*)
(***************************************************************************)
EXTENDS SpendCircuit, WellFoundedInduction, NaturalsInduction, SequenceTheorems, TLAPS

Levels == 0..(LEVELS - 1)

\* The constants of the schedule are numbers.
LEMMA CircuitTypes ==
    /\ Half \in Nat /\ Half > 0
    /\ LEVELS \in Nat /\ LEVELS > 0
    /\ BLOCK \in Nat /\ BLOCK = 2 * Half /\ BLOCK > Half /\ BLOCK >= 2 /\ BLOCK > 0
    /\ m_rst \in Nat /\ m_rst = Half - 1 /\ m_chk2 \in Nat /\ m_chk2 = BLOCK - 1
BY CircuitAssumption DEF BLOCK, m_rst, m_chk2

-------------------------------------------------------------------------------
(***************************************************************************)
(* Induction, and the functions defined by recursion                       *)
(***************************************************************************)
\* What holds of 0 and is handed on holds of every number up to n.
LEMMA Upwards ==
    ASSUME NEW n \in Nat, NEW S, 0 \in S, \A d \in 0..(n - 1) : d \in S => d + 1 \in S
    PROVE  \A d \in 0..n : d \in S
<1> DEFINE Bad == {d \in 0..n : d \notin S}
<1> SUFFICES ASSUME Bad # {} PROVE FALSE
  OBVIOUS
<1>1. Bad \subseteq Nat
  OBVIOUS
<1>2. PICK d \in Bad : \A e \in Bad : ~ (<<e, d>> \in OpToRel(<, Nat))
  BY <1>1, NatLessThanWellFounded, WFMin
<1>3. d \in 0..n /\ d \notin S /\ d # 0
  OBVIOUS
<1>4. d - 1 \in 0..(n - 1) /\ (d - 1) + 1 = d /\ d - 1 \in 0..n /\ d - 1 < d
  BY <1>3
<1>5. \A e \in Bad : ~ (e < d)
  BY <1>1, <1>2 DEF OpToRel
<1> QED BY <1>3, <1>4, <1>5

\* The function Pow2 satisfies its defining equation.
LEMMA Pow2Equation ==
    /\ Pow2[0] = 1
    /\ \A d \in 0..Half : Pow2[d + 1] = 2 * Pow2[d]
<1> DEFINE top == Half + 1
           Eq(it, n) == it = [d \in 0..n |-> IF d = 0 THEN 1 ELSE 2 * it[d - 1]]
           S == {n \in 0..top : \E it : Eq(it, n)}
<1>0. top \in Nat /\ top - 1 = Half /\ 0 \in 0..top
  BY CircuitTypes
<1>1. 0 \in S
  <2>1. Eq([d \in 0..0 |-> 1], 0)
    OBVIOUS
  <2> QED BY <2>1, <1>0
<1>2. ASSUME NEW n \in 0..(top - 1), n \in S PROVE n + 1 \in S
  <2>1. PICK it : Eq(it, n)
    BY <1>2
  <2> DEFINE up == [d \in 0..(n + 1) |-> IF d = n + 1 THEN 2 * it[n] ELSE it[d]]
  <2>2. ASSUME NEW d \in 0..(n + 1) PROVE up[d] = IF d = 0 THEN 1 ELSE 2 * up[d - 1]
    <3>1. CASE d = n + 1
      BY <3>1
    <3>2. CASE d # n + 1
      <4>1. d \in 0..n /\ it[d] = IF d = 0 THEN 1 ELSE 2 * it[d - 1]
        BY <2>1, <3>2
      <4>2. d # 0 => d - 1 \in 0..(n + 1) /\ d - 1 # n + 1
        BY <3>2
      <4> QED BY <3>2, <4>1, <4>2
    <3> QED BY <3>1, <3>2
  <2>3. Eq(up, n + 1)
    BY <2>2
  <2>4. n + 1 \in 0..top
    BY <1>0
  <2> QED BY <2>3, <2>4
<1>3. top \in S
  <2> HIDE DEF S, top
  <2> QED BY <1>0, <1>1, <1>2, Upwards
<1>4. PICK it : Eq(it, top)
  BY <1>3
<1>5. Pow2 = [d \in 0..top |-> IF d = 0 THEN 1 ELSE 2 * Pow2[d - 1]]
  BY <1>4 DEF Pow2
<1>6. \A d \in 0..Half : d + 1 \in 0..top /\ d + 1 # 0 /\ (d + 1) - 1 = d
  BY CircuitTypes
<1> QED BY <1>0, <1>5, <1>6

\* Its values are positive and do not exceed the last one a value may reach.
LEMMA Pow2Type ==
    \A n \in 0..(Half + 1) :
        Pow2[n] \in Nat /\ Pow2[n] > 0 /\ (n <= Half => Pow2[n] <= Pow2[Half])
<1> DEFINE top == Half + 1
           S == {n \in 0..top : Pow2[n] \in Nat /\ Pow2[n] > 0}
           D == {n \in 0..Half : Pow2[Half - n] <= Pow2[Half]}
<1>1. \A n \in 0..top : n \in S
  <2>1. 0 \in S
    BY Pow2Equation, CircuitTypes
  <2>2. ASSUME NEW n \in 0..(top - 1), n \in S PROVE n + 1 \in S
    BY <2>2, Pow2Equation, CircuitTypes
  <2>3. top \in Nat
    BY CircuitTypes
  <2> HIDE DEF S, top
  <2> QED BY <2>1, <2>2, <2>3, Upwards
<1>2. \A n \in 0..Half : n \in D
  <2>1. 0 \in D
    BY <1>1, CircuitTypes
  <2>2. ASSUME NEW n \in 0..(Half - 1), n \in D PROVE n + 1 \in D
    <3>1. Half - (n + 1) \in 0..Half /\ (Half - (n + 1)) + 1 = Half - n /\ n + 1 \in 0..Half
      BY CircuitTypes
    <3>2. Pow2[Half - n] = 2 * Pow2[Half - (n + 1)]
      BY <3>1, Pow2Equation
    <3>3. Pow2[Half - (n + 1)] \in Nat /\ Pow2[Half] \in Nat /\ Pow2[Half - n] <= Pow2[Half]
      BY <1>1, <2>2, <3>1, CircuitTypes
    <3>4. Pow2[Half - (n + 1)] <= Pow2[Half]
      BY <3>2, <3>3
    <3> QED BY <3>1, <3>4
  <2> HIDE DEF D
  <2> QED BY <2>1, <2>2, Upwards, CircuitTypes
<1>3. ASSUME NEW n \in 0..(Half + 1), n <= Half PROVE Pow2[n] <= Pow2[Half]
  <2>1. Half - n \in 0..Half /\ Half - (Half - n) = n
    BY <1>3, CircuitTypes
  <2> QED BY <1>2, <2>1
<1> QED BY <1>1, <1>3

\* The field has room for the difference of two values.
LEMMA Room ==
    /\ Modulus \in Nat /\ Pow2[Half] \in Nat /\ Pow2[Half] > 0
    /\ Modulus > 2 * Pow2[Half]
BY CircuitAssumption, CircuitTypes, Pow2Equation, Pow2Type

-------------------------------------------------------------------------------
(***************************************************************************)
(* The hashes, written out: where a permutation started and that it ran    *)
(* all its rounds                                                          *)
(***************************************************************************)
Permuted(from) == [from |-> from, k |-> Half]

\* A permutation runs all its rounds on the lanes it started from.
LEMMA Permutation ==
    ASSUME NEW X
    PROVE  poseidon_perm([from |-> X, k |-> 0]) = Permuted(X)
<1> DEFINE st == [from |-> X, k |-> 0]
           at(r) == [from |-> X, k |-> r]
           Eq(it) == it = [r \in 0..Half |-> IF r = 0 THEN st ELSE Round(it[r - 1], r - 1)]
           F == CHOOSE it : Eq(it)
           it0 == [r \in 0..Half |-> at(r)]
<1>0. Half \in Nat
  BY CircuitTypes
<1>1. Eq(it0)
  <2>1. ASSUME NEW r \in 0..Half PROVE it0[r] = IF r = 0 THEN st ELSE Round(it0[r - 1], r - 1)
    <3>1. CASE r = 0
      BY <3>1
    <3>2. CASE r # 0
      <4>1. r - 1 \in 0..Half /\ (r - 1) + 1 = r /\ it0[r - 1] = at(r - 1)
        BY <3>2, <1>0
      <4>2. Round(at(r - 1), r - 1) = at(r)
        BY <4>1 DEF Round
      <4> QED BY <3>2, <4>1, <4>2
    <3> QED BY <3>1, <3>2
  <2> QED BY <2>1
<1>2. Eq(F)
  BY <1>1
<1>3. poseidon_perm(st) = F[Half]
  BY DEF poseidon_perm
<1> DEFINE S == {r \in 0..Half : F[r] = at(r)}
<1>4. 0 \in S
  <2>1. 0 \in 0..Half
    BY <1>0
  <2>2. F[0] = st
    BY <1>2, <2>1
  <2> QED BY <2>1, <2>2
<1>5. ASSUME NEW r \in 0..(Half - 1), r \in S PROVE r + 1 \in S
  <2>1. r + 1 \in 0..Half /\ (r + 1) - 1 = r /\ r + 1 # 0
    BY <1>0
  <2>2. F[r + 1] = Round(F[r], r)
    BY <1>2, <2>1
  <2>3. F[r] = at(r)
    BY <1>5
  <2>4. Round(at(r), r) = at(r + 1)
    BY DEF Round
  <2> QED BY <2>1, <2>2, <2>3, <2>4
<1>6. Half \in S
  <2> HIDE DEF S
  <2>1. \A r \in 0..Half : r \in S
    BY <1>0, <1>4, <1>5, Upwards
  <2>2. Half \in 0..Half
    BY <1>0
  <2> QED BY <2>1, <2>2
<1> QED BY <1>3, <1>6 DEF Permuted

\* nullifier_hash, note_hash and merkle_hash2 as terms.
LEMMA Nullifier ==
    ASSUME NEW b
    PROVE  nullifier_hash(b) = Permuted(<<"nullifier", Lo(b), Hi(b), Zero>>)
BY Permutation DEF nullifier_hash, Start

LEMMA NoteHash ==
    ASSUME NEW v, NEW b, NEW pkd
    PROVE  note_hash(v, b, pkd) =
             Permuted(<<"absorb", Permuted(<<"note", v, Lo(b), Hi(b)>>), Lo(pkd), Hi(pkd)>>)
BY Permutation DEF note_hash, Start, Absorb

LEMMA MerkleHash ==
    ASSUME NEW left, NEW right
    PROVE  merkle_hash2(left, right) =
             Permuted(<<"absorb", Permuted(<<"merkle", Lo(left), Hi(left), Lo(right)>>),
                        Hi(right), Zero>>)
BY Permutation DEF merkle_hash2, Start, Absorb

-------------------------------------------------------------------------------
(***************************************************************************)
(* Paths                                                                   *)
(***************************************************************************)
\* The node above `node` on the side the bit names, next to `sibling`.
Parent(node, bit, sibling) ==
    IF bit = 1 THEN merkle_hash2(sibling, node) ELSE merkle_hash2(node, sibling)

\* path_nodes satisfies its defining equation: each node is the parent of the
\* one before it.
LEMMA PathEquation ==
    ASSUME NEW leaf, NEW index, NEW siblings
    PROVE  /\ path_nodes(leaf, index, siblings)[0] = leaf
           /\ \A d \in Levels :
                path_nodes(leaf, index, siblings)[d + 1] =
                  Parent(path_nodes(leaf, index, siblings)[d], index[d], siblings[d])
<1> DEFINE Up(x, d) == IF index[d] = 1 THEN merkle_hash2(siblings[d], x)
                                       ELSE merkle_hash2(x, siblings[d])
           Eq(it, n) == it = [d \in 0..n |-> IF d = 0 THEN leaf ELSE Up(it[d - 1], d - 1)]
           F == CHOOSE it : Eq(it, LEVELS)
           S == {n \in 0..LEVELS : \E it : Eq(it, n)}
<1>0. path_nodes(leaf, index, siblings) = F
  BY DEF path_nodes
<1>00. \A x : \A d \in Levels : Up(x, d) = Parent(x, index[d], siblings[d])
  BY DEF Parent
<1> HIDE DEF Up
<1>1. 0 \in S
  <2>1. Eq([d \in 0..0 |-> leaf], 0)
    OBVIOUS
  <2>2. \E it : Eq(it, 0)
    BY <2>1
  <2>3. 0 \in 0..LEVELS
    BY CircuitTypes
  <2> QED BY <2>2, <2>3
<1>2. ASSUME NEW n \in 0..(LEVELS - 1), n \in S PROVE n + 1 \in S
  <2>1. PICK it : Eq(it, n)
    BY <1>2
  <2> DEFINE up == [d \in 0..(n + 1) |-> IF d = n + 1 THEN Up(it[n], n) ELSE it[d]]
  <2>2. ASSUME NEW d \in 0..(n + 1)
        PROVE  up[d] = IF d = 0 THEN leaf ELSE Up(up[d - 1], d - 1)
    <3>1. CASE d = n + 1
      BY <3>1
    <3>2. CASE d # n + 1
      <4>1. d \in 0..n /\ it[d] = IF d = 0 THEN leaf ELSE Up(it[d - 1], d - 1)
        BY <2>1, <3>2
      <4>2. d # 0 => d - 1 \in 0..(n + 1) /\ d - 1 # n + 1
        BY <3>2
      <4> QED BY <3>2, <4>1, <4>2
    <3> QED BY <3>1, <3>2
  <2>3. Eq(up, n + 1)
    BY <2>2
  <2>4. n + 1 \in 0..LEVELS
    BY CircuitTypes
  <2> QED BY <2>3, <2>4
<1>3. LEVELS \in S
  <2> HIDE DEF S
  <2>1. LEVELS \in Nat /\ LEVELS \in 0..LEVELS
    BY CircuitTypes
  <2> QED BY <1>1, <1>2, <2>1, Upwards
<1>4. Eq(F, LEVELS)
  BY <1>3
<1>5. 0 \in 0..LEVELS /\ \A d \in Levels : d + 1 \in 0..LEVELS /\ d + 1 # 0 /\ (d + 1) - 1 = d
  BY CircuitTypes DEF Levels
<1>6. F[0] = leaf /\ \A d \in Levels : F[d + 1] = Up(F[d], d)
  <2> HIDE DEF F
  <2> QED BY <1>4, <1>5
<1> HIDE DEF F
<1> QED BY <1>0, <1>00, <1>6

\* The digests that may stand on level d of a path from the leaf.
Nodes(leaf, d) ==
    (IF d = 0 THEN {leaf} ELSE {}) \cup {path_nodes(leaf, i, p)[d] : i \in Indices, p \in Paths}

\* A path can be continued with any bit and any sibling: the entries of a
\* level are not read below it.
LEMMA PathGrows ==
    ASSUME NEW leaf, NEW d \in Levels, NEW node \in Nodes(leaf, d),
           NEW bit \in {0, 1}, NEW sibling \in Siblings
    PROVE  Parent(node, bit, sibling) \in Nodes(leaf, d + 1)
<1>1. PICK i \in Indices, p \in Paths : node = path_nodes(leaf, i, p)[d]
  <2>1. CASE d = 0 /\ node = leaf
    <3>1. [e \in Levels |-> 0] \in Indices /\ [e \in Levels |-> sibling] \in Paths
      BY DEF Indices, Paths, Levels
    <3>2. PICK i \in Indices, p \in Paths : TRUE
      BY <3>1
    <3>3. path_nodes(leaf, i, p)[0] = leaf
      BY PathEquation
    <3> QED BY <2>1, <3>2, <3>3
  <2>2. CASE ~ (d = 0 /\ node = leaf)
    BY <2>2 DEF Nodes
  <2> QED BY <2>1, <2>2
<1>2. PICK i2 \in Indices, p2 \in Paths :
        /\ i2[d] = bit /\ p2[d] = sibling
        /\ \A e \in Levels : e # d => i2[e] = i[e] /\ p2[e] = p[e]
  <2>1. [i EXCEPT ![d] = bit] \in Indices /\ [p EXCEPT ![d] = sibling] \in Paths
    BY DEF Indices, Paths, Levels
  <2>2. /\ [i EXCEPT ![d] = bit][d] = bit /\ [p EXCEPT ![d] = sibling][d] = sibling
        /\ \A e \in Levels : e # d => /\ [i EXCEPT ![d] = bit][e] = i[e]
                                    /\ [p EXCEPT ![d] = sibling][e] = p[e]
    BY DEF Indices, Paths, Levels
  <2> QED BY <2>1, <2>2
<1> DEFINE f == path_nodes(leaf, i, p)
           g == path_nodes(leaf, i2, p2)
           S == {e \in 0..d : f[e] = g[e]}
<1>a. f[0] = leaf /\ \A e \in Levels : f[e + 1] = Parent(f[e], i[e], p[e])
  BY PathEquation
<1>b. g[0] = leaf /\ \A e \in Levels : g[e + 1] = Parent(g[e], i2[e], p2[e])
  BY PathEquation
<1>c. node = f[d] /\ g[d + 1] \in Nodes(leaf, d + 1)
  BY <1>1 DEF Nodes
<1> HIDE DEF f, g
<1>3. 0 \in S
  BY <1>a, <1>b DEF Levels
<1>4. ASSUME NEW e \in 0..(d - 1), e \in S PROVE e + 1 \in S
  <2>1. e \in Levels /\ e # d /\ e + 1 \in 0..d
    BY CircuitTypes DEF Levels
  <2>2. i2[e] = i[e] /\ p2[e] = p[e]
    BY <1>2, <2>1
  <2>3. f[e + 1] = Parent(f[e], i[e], p[e]) /\ g[e + 1] = Parent(g[e], i2[e], p2[e])
    BY <1>a, <1>b, <2>1
  <2>4. f[e] = g[e]
    BY <1>4
  <2> QED BY <2>1, <2>2, <2>3, <2>4
<1>5. f[d] = g[d]
  <2> HIDE DEF S
  <2>1. d \in Nat /\ d \in 0..d
    BY DEF Levels
  <2>2. d \in S
    BY <1>3, <1>4, <2>1, Upwards
  <2> QED BY <2>2 DEF S
<1> QED BY <1>2, <1>5, <1>b, <1>c

-------------------------------------------------------------------------------
(***************************************************************************)
(* Rows: the step in a block, and where each mask is switched on           *)
(***************************************************************************)
\* Numbers n * j + s with s below n are ordered by j, then by s ...
LEMMA Lexicographic ==
    ASSUME NEW n \in Nat, n > 0, NEW j \in Nat, NEW k \in Nat,
           NEW s \in 0..(n - 1), NEW t \in 0..(n - 1)
    PROVE  /\ n * j + s = n * k + t <=> j = k /\ s = t
           /\ n * j + s < n * k + t <=> j < k \/ (j = k /\ s < t)
<1>1. ASSUME NEW a \in Nat, NEW b \in Nat, a < b, NEW x \in 0..(n - 1), NEW y \in 0..(n - 1)
      PROVE  n * a + x < n * b + y
  <2>1. PICK e \in Nat : b = a + 1 + e
    <3>1. b - a - 1 \in Nat /\ b = a + 1 + (b - a - 1)
      BY <1>1
    <3> QED BY <3>1
  <2>2. n * b = n * a + n + n * e /\ n * e \in Nat /\ n * a \in Nat
    BY <2>1
  <2> QED BY <2>2
<1>2. CASE j < k
  <2>1. n * j + s < n * k + t
    BY <1>1, <1>2
  <2>2. n * j \in Nat /\ n * k \in Nat
    OBVIOUS
  <2> QED BY <1>2, <2>1, <2>2
<1>3. CASE k < j
  <2>1. n * k + t < n * j + s
    BY <1>1, <1>3
  <2>2. n * j \in Nat /\ n * k \in Nat
    OBVIOUS
  <2> QED BY <1>3, <2>1, <2>2
<1>4. CASE j = k
  <2>2. n * j \in Nat
    OBVIOUS
  <2> QED BY <1>4, <2>2
<1> QED BY <1>2, <1>3, <1>4

\* ... and j and s are their quotient and remainder.
LEMMA Division ==
    ASSUME NEW n \in Nat, n > 0, NEW j \in Nat, NEW s \in 0..(n - 1)
    PROVE  (n * j + s) % n = s /\ (n * j + s) \div n = j
<1> DEFINE r == n * j + s
<1>1. r \in Nat
  OBVIOUS
<1>2. r = n * (r \div n) + (r % n) /\ r % n \in 0..(n - 1) /\ r \div n \in Nat
  <2> HIDE DEF r
  <2> QED BY <1>1
<1>3. n * j + s = n * (r \div n) + (r % n)
  BY <1>2
<1> DEFINE q == r \div n
           m == r % n
<1>4. q \in Nat /\ m \in 0..(n - 1) /\ n * j + s = n * q + m
  BY <1>2, <1>3
<1>5. q = j /\ m = s
  <2> HIDE DEF r, q, m
  <2> QED BY <1>4, Lexicographic
<1> QED BY <1>5

\* The link and the absorption of a level.
LinkBlock(d)   == 3 + 2 * d
AbsorbBlock(d) == 4 + 2 * d

\* The row after s steps of block j: which masks are on, and nothing else.
LEMMA Schedule ==
    ASSUME NEW j \in Nat, NEW s \in 0..(BLOCK - 1), NEW r, r = BLOCK * j + s
    PROVE  /\ r \in Nat /\ r % BLOCK = s /\ r \div BLOCK = j
           /\ r = 0 <=> j = 0 /\ s = 0
           /\ m_rnd(r) <=> s \in 1..Half
           /\ m_frz(r) <=> (j = 0 /\ s = 0) \/ s > Half
           /\ r = STEP_LNOTE <=> j = 1 /\ s = 0
           /\ r = STEP_ANOTE <=> j = 2 /\ s = 0
           /\ \A d \in 0..LEVELS : r = STEP_MRK(d) <=> j = LinkBlock(d) /\ s = 0
           /\ r \in m_mrk  <=> s = 0 /\ \E d \in Levels : j = LinkBlock(d)
           /\ r \in m_amrk <=> s = 0 /\ \E d \in Levels : j = AbsorbBlock(d)
           /\ r = STEP_LCHG <=> j = LinkBlock(LEVELS) /\ s = 0
           /\ r = STEP_ACHG <=> j = AbsorbBlock(LEVELS) /\ s = 0
           /\ r < BLOCK <=> j = 0
           /\ \A k \in Nat : r < BLOCK * k <=> j < k
<1>0. BLOCK \in Nat /\ BLOCK > 0 /\ LEVELS \in Nat /\ LEVELS > 0
  BY CircuitTypes
<1>1. \A k \in Nat : /\ r = BLOCK * k + 0 <=> j = k /\ s = 0
                     /\ r < BLOCK * k + 0 <=> j < k
  BY <1>0, Lexicographic
<1>2. \A k \in Nat : BLOCK * k \in Nat /\ BLOCK * k + 0 = BLOCK * k
  BY <1>0
<1>3. \A k \in Nat : (r = BLOCK * k <=> j = k /\ s = 0) /\ (r < BLOCK * k <=> j < k)
  BY <1>1, <1>2
<1>4. r \in Nat /\ r % BLOCK = s /\ r \div BLOCK = j
  BY <1>0, <1>2, Division
<1>5. BLOCK * 0 = 0 /\ BLOCK * 1 = BLOCK /\ BLOCK * 2 = 2 * BLOCK
  BY <1>0
<1>6. \A d \in 0..LEVELS :
        /\ LinkBlock(d) \in Nat /\ AbsorbBlock(d) \in Nat
        /\ STEP_MRK(d) = BLOCK * LinkBlock(d) /\ STEP_MRK(d) + BLOCK = BLOCK * AbsorbBlock(d)
  <2> SUFFICES ASSUME NEW d \in 0..LEVELS
               PROVE  /\ LinkBlock(d) \in Nat /\ AbsorbBlock(d) \in Nat
                      /\ STEP_MRK(d) = BLOCK * LinkBlock(d)
                      /\ STEP_MRK(d) + BLOCK = BLOCK * AbsorbBlock(d)
    OBVIOUS
  <2>1. BLOCK * (3 + 2 * d) = 3 * BLOCK + 2 * BLOCK * d /\ d \in Nat
    BY <1>0
  <2>2. BLOCK * (4 + 2 * d) = 3 * BLOCK + 2 * BLOCK * d + BLOCK
    BY <1>0
  <2> QED BY <2>1, <2>2 DEF LinkBlock, AbsorbBlock, STEP_MRK
<1>7. LEVELS \in 0..LEVELS /\ \A d \in Levels : d \in 0..LEVELS
  BY <1>0 DEF Levels
<1>8. \A d \in 0..LEVELS : /\ r = STEP_MRK(d) <=> j = LinkBlock(d) /\ s = 0
                           /\ r = STEP_MRK(d) + BLOCK <=> j = AbsorbBlock(d) /\ s = 0
  BY <1>3, <1>6
<1>9. r \in m_mrk <=> s = 0 /\ \E d \in Levels : j = LinkBlock(d)
  BY <1>7, <1>8 DEF m_mrk, Levels
<1>10. r \in m_amrk <=> s = 0 /\ \E d \in Levels : j = AbsorbBlock(d)
  <2>1. r \in m_amrk <=> \E d \in Levels : r = STEP_MRK(d) + BLOCK
    BY DEF m_amrk, m_mrk, Levels
  <2> QED BY <2>1, <1>7, <1>8
<1>11. r = STEP_LCHG <=> j = LinkBlock(LEVELS) /\ s = 0
  BY <1>7, <1>8 DEF STEP_LCHG
<1>12. r = STEP_ACHG <=> j = AbsorbBlock(LEVELS) /\ s = 0
  BY <1>7, <1>8 DEF STEP_ACHG, STEP_LCHG
<1>13. /\ r = STEP_LNOTE <=> j = 1 /\ s = 0
       /\ r = STEP_ANOTE <=> j = 2 /\ s = 0
       /\ r = 0 <=> j = 0 /\ s = 0
       /\ r < BLOCK <=> j = 0
  BY <1>3, <1>5 DEF STEP_LNOTE, STEP_ANOTE
<1>14. (m_rnd(r) <=> s \in 1..Half) /\ (m_frz(r) <=> (j = 0 /\ s = 0) \/ s > Half)
  BY <1>4, <1>13 DEF m_rnd, m_frz
<1> QED BY <1>3, <1>4, <1>8, <1>9, <1>10, <1>11, <1>12, <1>13, <1>14

\* The rows that show a digest: after the last round of the first block, of
\* the last absorption in the tree, and of the last block (spend), and of the
\* second block (deposit).
LEMMA Outputs ==
    /\ ROW_NF_OUT = BLOCK * 0 + Half + 1
    /\ ROW_LEAF = BLOCK * 1 + Half + 1
    /\ ROW_ROOT = BLOCK * (2 + 2 * LEVELS) + Half + 1
    /\ ROW_CLEAF = BLOCK * (4 + 2 * LEVELS) + Half + 1
    /\ AbsorbBlock(LEVELS) = 4 + 2 * LEVELS
<1>0. BLOCK \in Nat /\ BLOCK > 0 /\ LEVELS \in Nat /\ Half \in 0..(BLOCK - 1) /\ Half \in Nat
  BY CircuitTypes
<1>1. ROW_NF_OUT = BLOCK * 0 + Half + 1 /\ ROW_LEAF = BLOCK * 1 + Half + 1
  BY <1>0 DEF ROW_NF_OUT, ROW_LEAF
<1>2. ROW_ROOT = BLOCK * (2 + 2 * LEVELS) + Half + 1
  <2> DEFINE x == BLOCK * LEVELS
  <2>1. x \in Nat /\ 2 * BLOCK * LEVELS = 2 * x
    BY <1>0
  <2>2. BLOCK * (2 + 2 * LEVELS) = 2 * BLOCK + 2 * x
    BY <1>0
  <2>3. STEP_LCHG = 3 * BLOCK + 2 * x
    BY <2>1 DEF STEP_LCHG, STEP_MRK
  <2>4. ROW_ROOT = STEP_LCHG - BLOCK + Half + 1
    BY DEF ROW_ROOT
  <2> HIDE DEF x
  <2> QED BY <1>0, <2>1, <2>2, <2>3, <2>4
<1>3. ROW_CLEAF = BLOCK * (4 + 2 * LEVELS) + Half + 1
  <2>1. BLOCK * (4 + 2 * LEVELS) = 3 * BLOCK + 2 * BLOCK * LEVELS + BLOCK
    BY <1>0
  <2> QED BY <2>1 DEF ROW_CLEAF, STEP_ACHG, STEP_LCHG, STEP_MRK
<1>4. AbsorbBlock(LEVELS) = 4 + 2 * LEVELS
  BY <1>0 DEF AbsorbBlock
<1> QED BY <1>1, <1>2, <1>3, <1>4

\* The same from the block of a row and the step in it.
LEMMA Windows ==
    ASSUME NEW j \in Nat, NEW t \in 0..(BLOCK - 1), NEW r, r = BLOCK * j + t + 1
    PROVE  /\ r = ROW_NF_OUT <=> j = 0 /\ t = Half
           /\ r = ROW_ROOT   <=> j = 2 + 2 * LEVELS /\ t = Half
           /\ r = ROW_CLEAF  <=> j = AbsorbBlock(LEVELS) /\ t = Half
           /\ r = ROW_LEAF   <=> j = 1 /\ t = Half
           /\ \A k \in Nat : r < BLOCK * k + BLOCK => j <= k
           /\ \A k \in Nat : r = BLOCK * k + BLOCK => j = k /\ t = BLOCK - 1
<1>0. BLOCK \in Nat /\ BLOCK > 0 /\ LEVELS \in Nat /\ Half \in 0..(BLOCK - 1) /\ Half \in Nat
  BY CircuitTypes
<1>1. \A k \in Nat : BLOCK * k \in Nat
  BY <1>0
<1>2. \A k \in Nat : \A x \in 0..(BLOCK - 1) :
        /\ BLOCK * j + t = BLOCK * k + x <=> j = k /\ t = x
        /\ BLOCK * j + t < BLOCK * k + x <=> j < k \/ (j = k /\ t < x)
  BY <1>0, Lexicographic
<1>3. \A k \in Nat : \A x \in 0..(BLOCK - 1) :
        /\ r = BLOCK * k + x + 1 <=> j = k /\ t = x
        /\ r < BLOCK * k + x + 1 <=> j < k \/ (j = k /\ t < x)
  BY <1>0, <1>1, <1>2
<1>4. /\ ROW_NF_OUT = BLOCK * 0 + Half + 1 /\ ROW_LEAF = BLOCK * 1 + Half + 1
      /\ ROW_ROOT = BLOCK * (2 + 2 * LEVELS) + Half + 1
      /\ ROW_CLEAF = BLOCK * (4 + 2 * LEVELS) + Half + 1
  BY Outputs
<1>7. ASSUME NEW k \in Nat
      PROVE  (r < BLOCK * k + BLOCK => j <= k) /\ (r = BLOCK * k + BLOCK => j = k /\ t = BLOCK - 1)
  <2>1. BLOCK * k + BLOCK = BLOCK * k + (BLOCK - 1) + 1 /\ BLOCK - 1 \in 0..(BLOCK - 1)
    BY <1>0, <1>1
  <2> QED BY <2>1, <1>3
<1>8. 0 \in Nat /\ 1 \in Nat /\ 2 + 2 * LEVELS \in Nat /\ 4 + 2 * LEVELS \in Nat
  BY <1>0
<1> QED BY <1>0, <1>3, <1>4, <1>7, <1>8, Outputs

-------------------------------------------------------------------------------
(***************************************************************************)
(* The inductive invariant                                                 *)
(***************************************************************************)
Cells == {"state", "bit", "acc", "pow", "b", "v", "cv", "aux", "r_hi"}

\* The digest the block of this row ends in, and the one the next block ends
\* in when it absorbs x and y into that.
Ended(cell)         == Permuted(cell.state.from)
Absorbed(st, x, y)  == Permuted(<<"absorb", st, x, y>>)

Leaf(cell, p)         == note_hash(cell.v, cell.b, p.pkd)
ChangeLeaves(cell, p) == {note_hash(cell.cv, cb, p.change_pkd) : cb \in Blindings \cup {Zero}}

\* What a block works on: the nullifier, the note in two halves, level after
\* level of the path, and the note of the change in two halves.
Works(cell, p, j) ==
    /\ j = 0 => Ended(cell) = nullifier_hash(cell.b)
    /\ j = 1 => Absorbed(Ended(cell), Lo(p.pkd), Hi(p.pkd)) = Leaf(cell, p)
    /\ \A d \in 0..LEVELS : j = 2 + 2 * d => Ended(cell) \in Nodes(Leaf(cell, p), d)
    /\ \A d \in Levels : j = LinkBlock(d) =>
         Absorbed(Ended(cell), cell.r_hi, Zero) \in Nodes(Leaf(cell, p), d + 1)
    /\ j = LinkBlock(LEVELS) =>
         Absorbed(Ended(cell), Lo(p.change_pkd), Hi(p.change_pkd)) \in ChangeLeaves(cell, p)
    /\ j = AbsorbBlock(LEVELS) => Ended(cell) \in ChangeLeaves(cell, p)

\* The digests shown so far.
Past(n, j, t) == j > n \/ (j = n /\ t >= Half)

Shown(cell, p, j, t, o) ==
    IF ~ Past(0, j, t) THEN o = << >>
    ELSE IF ~ Past(2 + 2 * LEVELS, j, t) THEN o = <<nullifier_hash(cell.b)>>
    ELSE \E root \in Nodes(Leaf(cell, p), LEVELS) :
           IF ~ Past(AbsorbBlock(LEVELS), j, t) THEN o = <<nullifier_hash(cell.b), root>>
           ELSE \E leaf \in ChangeLeaves(cell, p) : o = <<nullifier_hash(cell.b), root, leaf>>

\* The rounds run after t rows of a block.
Rounds(t) == IF t < Half THEN t ELSE Half

Permuting(cell, t) == cell.state = [from |-> cell.state.from, k |-> Rounds(t)]

SpendAt(cell, p, o, r, j, t) ==
    /\ r = BLOCK * j + t + 1
    /\ Permuting(cell, t) /\ Works(cell, p, j) /\ Shown(cell, p, j, t, o)

Progress(cell, p, o, r) ==
    IF r = 0 THEN cell.state = Start("nullifier", Lo(cell.b), Hi(cell.b), Zero) /\ o = << >>
    ELSE \E j \in 0..AbsorbBlock(LEVELS), t \in 0..(BLOCK - 1) : SpendAt(cell, p, o, r, j, t)

\* The sum of the bits read so far, and which sums have been checked.
Ranged(cell, r) ==
    /\ cell.bit \in {0, 1}
    /\ r <= m_rst => cell.pow = Pow2[r] /\ cell.acc \in 0..(Pow2[r] - 1)
    /\ r \in (m_rst + 1)..m_chk2 =>
         cell.pow = Pow2[r - Half] /\ cell.acc \in 0..(Pow2[r - Half] - 1)
    /\ r > m_rst  => cell.v \in U64
    /\ r > m_chk2 => cell.cv \in U64

Inputs == [price : U64, mode : {0, 1}, pkd : Keys, change_pkd : Keys \cup {Zero}]

SpendInv ==
    /\ DOMAIN c = Cells /\ pi \in Inputs
    /\ c.v \in Field /\ c.cv \in Field /\ Conserved(c.v, c.cv, pi)
    /\ Ranged(c, row)
    /\ Progress(c, pi, out, row)

DepositAt(b, r, j, t) ==
    LET leaf == note_hash(pi.amount, b, c.pkd) IN
    /\ r = BLOCK * j + t + 1 /\ Permuting(c, t)
    /\ j = 0 => Absorbed(Ended(c), Lo(c.pkd), Hi(c.pkd)) = leaf
    /\ j = 1 => Ended(c) = leaf
    /\ out = IF Past(1, j, t) THEN <<leaf>> ELSE << >>

DepositInv ==
    /\ DOMAIN c = {"state", "pkd"} /\ c.pkd \in Keys
    /\ \E b \in Blindings :
         IF row = 0 THEN c.state = Start("note", pi.amount, Lo(b), Hi(b)) /\ out = << >>
         ELSE \E j \in 0..1, t \in 0..(BLOCK - 1) : DepositAt(b, row, j, t)

IInv ==
    /\ air \in {"spend", "deposit"} /\ row \in 0..EndOf(air)
    /\ air = "spend" => SpendInv
    /\ air = "deposit" => DepositInv

-------------------------------------------------------------------------------
(***************************************************************************)
(* One row of SpendAir                                                     *)
(***************************************************************************)
\* The cells of a row that may follow `cell`, one by one.
LEMMA RowCells ==
    ASSUME NEW cell, DOMAIN cell = Cells, NEW r, NEW p, NEW next \in SpendRows(cell, r, p)
    PROVE  /\ DOMAIN next = Cells /\ SumsOk(cell, r)
           /\ next.v = cell.v /\ next.cv = cell.cv /\ next.b = cell.b
           /\ next.acc = Acc(cell, r) /\ next.pow = Pow(cell, r)
           /\ next.bit \in Bits(cell, r) /\ next.aux \in Aux(cell, r)
           /\ next.r_hi \in RightHalves(cell, next.bit, next.aux, r)
           /\ next.state = NextState(cell, next.bit, next.aux, r, p)
<1> DEFINE F(bit, aux, r_hi) ==
             [cell EXCEPT !.state = NextState(cell, bit, aux, r, p),
                          !.bit = bit, !.aux = aux, !.r_hi = r_hi,
                          !.acc = Acc(cell, r), !.pow = Pow(cell, r)]
<1>0. SumsOk(cell, r)
  BY DEF SpendRows
<1>a. PICK bit \in Bits(cell, r), aux \in Aux(cell, r) : next \in RowsHolding(cell, r, p, bit, aux)
  BY <1>0 DEF SpendRows
<1>1. \E r_hi \in RightHalves(cell, bit, aux, r) : next = F(bit, aux, r_hi)
  BY <1>a DEF RowsHolding
<1>2. PICK r_hi \in RightHalves(cell, bit, aux, r) :
        next = F(bit, aux, r_hi)
  BY <1>1
<1>3. /\ DOMAIN next = Cells
      /\ next.v = cell.v /\ next.cv = cell.cv /\ next.b = cell.b
      /\ next.acc = Acc(cell, r) /\ next.pow = Pow(cell, r)
      /\ next.bit = bit /\ next.aux = aux /\ next.r_hi = r_hi
      /\ next.state = NextState(cell, bit, aux, r, p)
  BY <1>2 DEF Cells
<1> QED BY <1>0, <1>2, <1>3

\* Within a block the state runs its rounds and then rests.
LEMMA WithinBlock ==
    ASSUME NEW cell, NEW r, NEW p, NEW bit, NEW aux, NEW j \in Nat, NEW t \in 0..(BLOCK - 1),
           r = BLOCK * j + t + 1, t # BLOCK - 1, Permuting(cell, t)
    PROVE  LET st == NextState(cell, bit, aux, r, p) IN
           st.from = cell.state.from /\ st = [from |-> st.from, k |-> Rounds(t + 1)]
<1> DEFINE X == cell.state.from
<1>0. Half \in Nat /\ Half < BLOCK /\ BLOCK \in Nat /\ BLOCK * j \in Nat
  BY CircuitTypes
<1>1. t + 1 \in 0..(BLOCK - 1) /\ r = BLOCK * j + (t + 1)
  BY <1>0
<1>2. /\ r % BLOCK = t + 1
      /\ m_rnd(r) <=> t + 1 \in 1..Half
      /\ m_frz(r) <=> t + 1 > Half
  BY <1>1, Schedule
<1>a. /\ r # STEP_LNOTE /\ r # STEP_ANOTE /\ r # STEP_LCHG /\ r # STEP_ACHG
      /\ r \notin m_mrk /\ r \notin m_amrk
  BY <1>1, Schedule
<1>3. cell.state = [from |-> X, k |-> Rounds(t)]
  BY DEF Permuting
<1>4. CASE t < Half
  <2>1. m_rnd(r) /\ ~ m_frz(r) /\ (t + 1) - 1 = t
    BY <1>0, <1>2, <1>4
  <2>2. NextState(cell, bit, aux, r, p) = Round(cell.state, t)
    BY <1>2, <1>a, <2>1 DEF NextState
  <2>3. Rounds(t) = t /\ Rounds(t + 1) = t + 1
    BY <1>0, <1>4 DEF Rounds
  <2>4. Round(cell.state, t) = [from |-> X, k |-> t + 1]
    BY <1>3, <2>3 DEF Round
  <2> HIDE DEF X
  <2> QED BY <2>2, <2>3, <2>4 DEF X
<1>5. CASE ~ (t < Half)
  <2>1. ~ m_rnd(r) /\ m_frz(r)
    BY <1>0, <1>2, <1>5
  <2>2. NextState(cell, bit, aux, r, p) = cell.state
    BY <1>a, <2>1 DEF NextState
  <2>3. Rounds(t) = Half /\ Rounds(t + 1) = Half
    BY <1>0, <1>5 DEF Rounds
  <2> QED BY <1>3, <2>2, <2>3
<1> QED BY <1>4, <1>5

\* What a block starts from.
LEMMA BlockStarts ==
    ASSUME NEW cell, NEW r, NEW p, NEW bit, NEW aux,
           NEW n \in 1..AbsorbBlock(LEVELS), r = BLOCK * n
    PROVE  LET st == NextState(cell, bit, aux, r, p) IN
           /\ n = 1 => st = Start("note", cell.v, Lo(cell.b), Hi(cell.b))
           /\ n = 2 => st = Absorb(cell.state, Lo(p.pkd), Hi(p.pkd))
           /\ \A d \in Levels : n = LinkBlock(d) =>
                st = MerkleLink(cell, bit, aux) /\ r \in m_mrk
           /\ \A d \in Levels : n = AbsorbBlock(d) => st = Absorb(cell.state, cell.r_hi, Zero)
           /\ n = LinkBlock(LEVELS) =>
                st = Start("note", cell.cv, Lo(aux), Hi(aux)) /\ r = STEP_LCHG
           /\ n = AbsorbBlock(LEVELS) =>
                st = Absorb(cell.state, Lo(p.change_pkd), Hi(p.change_pkd))
           /\ r \in m_mrk => \E d \in Levels : n = LinkBlock(d)
           /\ r = STEP_LCHG => n = LinkBlock(LEVELS)
           /\ r # 0
<1> DEFINE st == NextState(cell, bit, aux, r, p)
<1>0. /\ LEVELS \in Nat /\ LEVELS > 0 /\ n \in Nat /\ n >= 1 /\ 0 \in 0..(BLOCK - 1)
      /\ \A d \in Levels : d \in Nat /\ d < LEVELS
  BY CircuitTypes DEF AbsorbBlock, Levels
<1>1. r = BLOCK * n + 0
  <2>1. BLOCK * n \in Nat
    BY CircuitTypes, <1>0
  <2> QED BY <2>1
<1>2. /\ r # 0 /\ ~ m_rnd(r) /\ ~ m_frz(r)
      /\ r = STEP_LNOTE <=> n = 1
      /\ r = STEP_ANOTE <=> n = 2
      /\ r \in m_mrk  <=> \E d \in Levels : n = LinkBlock(d)
      /\ r \in m_amrk <=> \E d \in Levels : n = AbsorbBlock(d)
      /\ r = STEP_LCHG <=> n = LinkBlock(LEVELS)
      /\ r = STEP_ACHG <=> n = AbsorbBlock(LEVELS)
  <2>1. /\ r = 0 <=> n = 0 /\ 0 = 0
        /\ m_rnd(r) <=> 0 \in 1..Half
        /\ m_frz(r) <=> (n = 0 /\ 0 = 0) \/ 0 > Half
        /\ r = STEP_LNOTE <=> n = 1 /\ 0 = 0
        /\ r = STEP_ANOTE <=> n = 2 /\ 0 = 0
        /\ r \in m_mrk  <=> 0 = 0 /\ \E d \in Levels : n = LinkBlock(d)
        /\ r \in m_amrk <=> 0 = 0 /\ \E d \in Levels : n = AbsorbBlock(d)
        /\ r = STEP_LCHG <=> n = LinkBlock(LEVELS) /\ 0 = 0
        /\ r = STEP_ACHG <=> n = AbsorbBlock(LEVELS) /\ 0 = 0
    BY <1>0, <1>1, Schedule
  <2>2. 0 \notin 1..Half /\ ~ (0 > Half) /\ n # 0
    BY <1>0, CircuitTypes
  <2> QED BY <2>1, <2>2
<1>3. ASSUME n = 1 PROVE st = Start("note", cell.v, Lo(cell.b), Hi(cell.b))
  <2>1. /\ r # STEP_ANOTE /\ r \notin m_mrk /\ r \notin m_amrk
        /\ r # STEP_LCHG /\ r # STEP_ACHG /\ r = STEP_LNOTE
    BY <1>0, <1>2, <1>3 DEF LinkBlock, AbsorbBlock
  <2> QED BY <1>2, <2>1 DEF NextState
<1>4. ASSUME n = 2 PROVE st = Absorb(cell.state, Lo(p.pkd), Hi(p.pkd))
  <2>1. /\ r # STEP_LNOTE /\ r \notin m_mrk /\ r \notin m_amrk
        /\ r # STEP_LCHG /\ r # STEP_ACHG /\ r = STEP_ANOTE
    BY <1>0, <1>2, <1>4 DEF LinkBlock, AbsorbBlock
  <2> QED BY <1>2, <2>1 DEF NextState
<1>5. ASSUME NEW d \in Levels, n = LinkBlock(d) PROVE st = MerkleLink(cell, bit, aux) /\ r \in m_mrk
  <2>1. /\ r # STEP_LNOTE /\ r # STEP_ANOTE /\ r \notin m_amrk
        /\ r # STEP_LCHG /\ r # STEP_ACHG /\ r \in m_mrk
    BY <1>0, <1>2, <1>5 DEF LinkBlock, AbsorbBlock
  <2> QED BY <1>2, <2>1 DEF NextState
<1>6. ASSUME NEW d \in Levels, n = AbsorbBlock(d) PROVE st = Absorb(cell.state, cell.r_hi, Zero)
  <2>1. /\ r # STEP_LNOTE /\ r # STEP_ANOTE /\ r \notin m_mrk
        /\ r # STEP_LCHG /\ r # STEP_ACHG /\ r \in m_amrk
    BY <1>0, <1>2, <1>6 DEF LinkBlock, AbsorbBlock
  <2> QED BY <1>2, <2>1 DEF NextState
<1>7. ASSUME n = LinkBlock(LEVELS) PROVE st = Start("note", cell.cv, Lo(aux), Hi(aux)) /\ r = STEP_LCHG
  <2>1. /\ r # STEP_LNOTE /\ r # STEP_ANOTE /\ r \notin m_mrk
        /\ r \notin m_amrk /\ r # STEP_ACHG /\ r = STEP_LCHG
    BY <1>0, <1>2, <1>7 DEF LinkBlock, AbsorbBlock
  <2> QED BY <1>2, <2>1 DEF NextState
<1>8. ASSUME n = AbsorbBlock(LEVELS) PROVE st = Absorb(cell.state, Lo(p.change_pkd), Hi(p.change_pkd))
  <2>1. /\ r # STEP_LNOTE /\ r # STEP_ANOTE /\ r \notin m_mrk
        /\ r \notin m_amrk /\ r # STEP_LCHG /\ r = STEP_ACHG
    BY <1>0, <1>2, <1>8 DEF LinkBlock, AbsorbBlock
  <2> QED BY <1>2, <2>1 DEF NextState
<1> HIDE DEF st
<1>9. /\ n = 1 => st = Start("note", cell.v, Lo(cell.b), Hi(cell.b))
      /\ n = 2 => st = Absorb(cell.state, Lo(p.pkd), Hi(p.pkd))
      /\ \A d \in Levels : n = LinkBlock(d) => st = MerkleLink(cell, bit, aux) /\ r \in m_mrk
      /\ \A d \in Levels : n = AbsorbBlock(d) => st = Absorb(cell.state, cell.r_hi, Zero)
      /\ n = LinkBlock(LEVELS) => st = Start("note", cell.cv, Lo(aux), Hi(aux)) /\ r = STEP_LCHG
      /\ n = AbsorbBlock(LEVELS) => st = Absorb(cell.state, Lo(p.change_pkd), Hi(p.change_pkd))
  BY <1>3, <1>4, <1>5, <1>6, <1>7, <1>8
<1> QED BY <1>2, <1>9 DEF st

\* Every block after the first is of one of these kinds.
LEMMA BlockKinds ==
    ASSUME NEW n \in 1..AbsorbBlock(LEVELS)
    PROVE  \/ n = 1 \/ n = 2 \/ n = LinkBlock(LEVELS) \/ n = AbsorbBlock(LEVELS)
           \/ \E d \in Levels : n = LinkBlock(d)
           \/ \E d \in Levels : n = AbsorbBlock(d)
<1>0. LEVELS \in Nat /\ n \in Nat /\ n >= 1 /\ n <= 4 + 2 * LEVELS
  BY CircuitTypes DEF AbsorbBlock
<1> SUFFICES ASSUME n > 2, n # LinkBlock(LEVELS), n # AbsorbBlock(LEVELS)
             PROVE  \E d \in Levels : n = LinkBlock(d) \/ n = AbsorbBlock(d)
  BY <1>0
<1>1. PICK d \in Nat : n = 3 + 2 * d \/ n = 4 + 2 * d
  <2>1. CASE n % 2 = 1
    <3>1. (n - 3) \div 2 \in Nat /\ n = 3 + 2 * ((n - 3) \div 2)
      BY <1>0, <2>1
    <3> QED BY <3>1
  <2>2. CASE n % 2 = 0
    <3>1. (n - 4) \div 2 \in Nat /\ n = 4 + 2 * ((n - 4) \div 2)
      BY <1>0, <2>2
    <3> QED BY <3>1
  <2> QED BY <1>0, <2>1, <2>2
<1>2. d < LEVELS
  BY <1>0, <1>1 DEF LinkBlock, AbsorbBlock
<1> QED BY <1>0, <1>1, <1>2 DEF LinkBlock, AbsorbBlock, Levels

\* What a block ends in is what the next one starts from: the work goes on.
LEMMA NextBlock ==
    ASSUME NEW cell, DOMAIN cell = Cells, NEW p, NEW r, NEW n \in 1..AbsorbBlock(LEVELS),
           r = BLOCK * n, NEW next \in SpendRows(cell, r, p),
           cell.state = Ended(cell), Works(cell, p, n - 1)
    PROVE  next.state = [from |-> next.state.from, k |-> 0] /\ Works(next, p, n)
<1> DEFINE bit == next.bit
           aux == next.aux
           X == next.state.from
           Start0 == [from |-> X, k |-> 0]
           leaf == Leaf(cell, p)
           changes == ChangeLeaves(cell, p)
<1>0. /\ LEVELS \in Nat /\ LEVELS > 0 /\ n \in Nat /\ n >= 1
      /\ \A d \in Levels : d \in Nat /\ d < LEVELS /\ d \in 0..LEVELS /\ d + 1 \in 0..LEVELS
  BY CircuitTypes DEF AbsorbBlock, Levels
<1>1. /\ next.v = cell.v /\ next.cv = cell.cv /\ next.b = cell.b
      /\ next.state = NextState(cell, bit, aux, r, p)
      /\ bit \in Bits(cell, r) /\ aux \in Aux(cell, r)
      /\ next.r_hi \in RightHalves(cell, bit, aux, r)
  BY RowCells
<1>2. /\ n = 1 => next.state = Start("note", cell.v, Lo(cell.b), Hi(cell.b))
      /\ n = 2 => next.state = Absorb(cell.state, Lo(p.pkd), Hi(p.pkd))
      /\ \A d \in Levels : n = LinkBlock(d) =>
           next.state = MerkleLink(cell, bit, aux) /\ r \in m_mrk
      /\ \A d \in Levels : n = AbsorbBlock(d) => next.state = Absorb(cell.state, cell.r_hi, Zero)
      /\ n = LinkBlock(LEVELS) =>
           next.state = Start("note", cell.cv, Lo(aux), Hi(aux)) /\ r = STEP_LCHG
      /\ n = AbsorbBlock(LEVELS) =>
           next.state = Absorb(cell.state, Lo(p.change_pkd), Hi(p.change_pkd))
      /\ r \in m_mrk => \E d \in Levels : n = LinkBlock(d)
      /\ r = STEP_LCHG => n = LinkBlock(LEVELS)
  BY <1>1, BlockStarts
<1>3. Leaf(next, p) = leaf /\ ChangeLeaves(next, p) = changes
  BY <1>1 DEF Leaf, ChangeLeaves
<1>4. Ended(next) = Permuted(next.state.from)
  BY DEF Ended
<1>5. /\ (n - 1) = 0 => Ended(cell) = nullifier_hash(cell.b)
      /\ (n - 1) = 1 => Absorbed(Ended(cell), Lo(p.pkd), Hi(p.pkd)) = leaf
      /\ \A d \in 0..LEVELS : (n - 1) = 2 + 2 * d => Ended(cell) \in Nodes(leaf, d)
      /\ \A d \in Levels : (n - 1) = LinkBlock(d) =>
           Absorbed(Ended(cell), cell.r_hi, Zero) \in Nodes(leaf, d + 1)
      /\ (n - 1) = LinkBlock(LEVELS) =>
           Absorbed(Ended(cell), Lo(p.change_pkd), Hi(p.change_pkd)) \in changes
  BY DEF Works
<1> HIDE DEF bit, aux, leaf, changes
<1>6. \A st, x, y : Absorb(st, x, y) = [from |-> <<"absorb", st, x, y>>, k |-> 0]
  BY DEF Absorb
<1>7. CASE n = 1
  <2>1. next.state = [from |-> <<"note", cell.v, Lo(cell.b), Hi(cell.b)>>, k |-> 0]
    BY <1>2, <1>7 DEF Start
  <2>2. Absorbed(Ended(next), Lo(p.pkd), Hi(p.pkd)) = leaf
    BY <1>4, <2>1, NoteHash DEF Absorbed, Leaf, leaf
  <2>3. Works(next, p, n)
    BY <1>0, <1>3, <1>7, <2>2 DEF Works, LinkBlock, AbsorbBlock
  <2> QED BY <2>1, <2>3
<1>8. CASE n = 2
  <2>1. next.state = [from |-> <<"absorb", Ended(cell), Lo(p.pkd), Hi(p.pkd)>>, k |-> 0]
    BY <1>2, <1>6, <1>8
  <2>2. Ended(next) = leaf
    BY <1>4, <1>5, <1>8, <2>1 DEF Absorbed
  <2>3. leaf \in Nodes(leaf, 0)
    BY DEF Nodes
  <2>4. Works(next, p, n)
    BY <1>0, <1>3, <1>8, <2>2, <2>3 DEF Works, LinkBlock, AbsorbBlock
  <2> QED BY <2>1, <2>4
<1>9. ASSUME NEW d \in Levels, n = LinkBlock(d)
      PROVE  next.state = [from |-> X, k |-> 0] /\ Works(next, p, n)
  <2>1. next.state = MerkleLink(cell, bit, aux) /\ r \in m_mrk
    BY <1>2, <1>9
  <2>2. n - 1 = 2 + 2 * d
    BY <1>0, <1>9 DEF LinkBlock
  <2>3. Ended(cell) \in Nodes(leaf, d)
    BY <1>0, <1>5, <2>2
  <2>4. bit \in {0, 1} /\ aux \in Siblings /\ next.r_hi = RightHalf(cell, bit, aux)
    <3>1. r # STEP_LCHG
      BY <1>0, <1>2, <1>9 DEF LinkBlock
    <3>2. bit \in {0, 1}
      BY <1>1, <2>1 DEF Bits, m_bitfrz
    <3>3. aux \in Siblings
      BY <1>1, <2>1, <3>1 DEF Aux, m_auxfrz
    <3>4. next.r_hi = RightHalf(cell, bit, aux)
      BY <1>1, <2>1 DEF RightHalves
    <3> QED BY <3>2, <3>3, <3>4
  <2>5. Parent(Ended(cell), bit, aux) \in Nodes(leaf, d + 1)
    BY <2>3, <2>4, PathGrows
  <2>6. /\ next.state = [from |-> X, k |-> 0]
        /\ Absorbed(Ended(next), next.r_hi, Zero) = Parent(Ended(cell), bit, aux)
    <3>1. CASE bit = 1
      <4>1. next.state = [from |-> <<"merkle", Lo(aux), Hi(aux), Lo(Ended(cell))>>, k |-> 0]
        BY <2>1, <3>1 DEF MerkleLink, Start
      <4>2. next.r_hi = Hi(Ended(cell))
        BY <2>4, <3>1 DEF RightHalf
      <4>3. Absorbed(Ended(next), next.r_hi, Zero) = merkle_hash2(aux, Ended(cell))
        BY <1>4, <4>1, <4>2, MerkleHash DEF Absorbed
      <4> QED BY <3>1, <4>1, <4>3 DEF Parent
    <3>2. CASE bit # 1
      <4>1. next.state =
              [from |-> <<"merkle", Lo(Ended(cell)), Hi(Ended(cell)), Lo(aux)>>, k |-> 0]
        BY <2>1, <3>2 DEF MerkleLink, Start
      <4>2. next.r_hi = Hi(aux)
        BY <2>4, <3>2 DEF RightHalf
      <4>3. Absorbed(Ended(next), next.r_hi, Zero) = merkle_hash2(Ended(cell), aux)
        BY <1>4, <4>1, <4>2, MerkleHash DEF Absorbed
      <4> QED BY <3>2, <4>1, <4>3 DEF Parent
    <3> QED BY <3>1, <3>2
  <2>7. \A e \in Levels : n = LinkBlock(e) => e = d
    BY <1>0, <1>9 DEF LinkBlock
  <2>8. Works(next, p, n)
    BY <1>0, <1>3, <1>9, <2>5, <2>6, <2>7 DEF Works, LinkBlock, AbsorbBlock
  <2> QED BY <2>6, <2>8
<1>10. ASSUME NEW d \in Levels, n = AbsorbBlock(d)
       PROVE  next.state = [from |-> X, k |-> 0] /\ Works(next, p, n)
  <2>1. next.state = [from |-> <<"absorb", Ended(cell), cell.r_hi, Zero>>, k |-> 0]
    BY <1>2, <1>6, <1>10
  <2>2. n - 1 = LinkBlock(d)
    BY <1>0, <1>10 DEF LinkBlock, AbsorbBlock
  <2>3. Ended(next) \in Nodes(leaf, d + 1)
    BY <1>4, <1>5, <2>1, <2>2 DEF Absorbed
  <2>4. \A e \in 0..LEVELS : n = 2 + 2 * e => e = d + 1
    BY <1>0, <1>10 DEF AbsorbBlock
  <2>5. Works(next, p, n)
    BY <1>0, <1>3, <1>10, <2>3, <2>4 DEF Works, LinkBlock, AbsorbBlock
  <2> QED BY <2>1, <2>5
<1>11. CASE n = LinkBlock(LEVELS)
  <2>1. next.state = [from |-> <<"note", cell.cv, Lo(aux), Hi(aux)>>, k |-> 0] /\ r = STEP_LCHG
    BY <1>2, <1>11 DEF Start
  <2>2. r \notin m_mrk
    BY <1>0, <1>2, <1>11 DEF LinkBlock
  <2>3. aux \in Blindings \cup {Zero}
    BY <1>1, <2>1, <2>2 DEF Aux, m_auxfrz
  <2>4. Absorbed(Ended(next), Lo(p.change_pkd), Hi(p.change_pkd))
          = note_hash(cell.cv, aux, p.change_pkd)
    BY <1>4, <2>1, NoteHash DEF Absorbed
  <2>5. note_hash(cell.cv, aux, p.change_pkd) \in changes
    BY <2>3 DEF changes, ChangeLeaves
  <2>6. Works(next, p, n)
    BY <1>0, <1>3, <1>11, <2>4, <2>5 DEF Works, LinkBlock, AbsorbBlock
  <2> QED BY <2>1, <2>6
<1>12. CASE n = AbsorbBlock(LEVELS)
  <2>1. next.state =
          [from |-> <<"absorb", Ended(cell), Lo(p.change_pkd), Hi(p.change_pkd)>>, k |-> 0]
    BY <1>2, <1>6, <1>12
  <2>2. n - 1 = LinkBlock(LEVELS)
    BY <1>0, <1>12 DEF LinkBlock, AbsorbBlock
  <2>3. Ended(next) \in changes
    BY <1>4, <1>5, <2>1, <2>2 DEF Absorbed
  <2>4. Works(next, p, n)
    BY <1>0, <1>3, <1>12, <2>3 DEF Works, LinkBlock, AbsorbBlock
  <2> QED BY <2>1, <2>4
<1> QED BY <1>7, <1>8, <1>9, <1>10, <1>11, <1>12, BlockKinds

\* Between the starts of two blocks the work stays the same.
LEMMA SameBlock ==
    ASSUME NEW cell, DOMAIN cell = Cells, NEW p, NEW r, NEW j \in Nat, NEW t \in 0..(BLOCK - 1),
           r = BLOCK * j + t + 1, t # BLOCK - 1, NEW next \in SpendRows(cell, r, p),
           Permuting(cell, t), Works(cell, p, j)
    PROVE  Permuting(next, t + 1) /\ Works(next, p, j)
<1> DEFINE st == NextState(cell, next.bit, next.aux, r, p)
<1>1. /\ next.v = cell.v /\ next.cv = cell.cv /\ next.b = cell.b /\ next.state = st
      /\ next.r_hi \in RightHalves(cell, next.bit, next.aux, r)
  BY RowCells
<1>2. st.from = cell.state.from /\ st = [from |-> st.from, k |-> Rounds(t + 1)]
  BY WithinBlock
<1>3. r \notin m_mrk
  <2>1. t + 1 \in 0..(BLOCK - 1) /\ t + 1 # 0 /\ r = BLOCK * j + (t + 1)
    <3>1. BLOCK \in Nat /\ BLOCK * j \in Nat
      BY CircuitTypes
    <3> QED BY <3>1
  <2> QED BY <2>1, Schedule
<1>4. next.r_hi = cell.r_hi
  BY <1>1, <1>3 DEF RightHalves, m_rhifrz
<1> HIDE DEF st
<1>5. Ended(next) = Ended(cell) /\ Permuting(next, t + 1)
  BY <1>1, <1>2 DEF Ended, Permuting
<1>6. Leaf(next, p) = Leaf(cell, p) /\ ChangeLeaves(next, p) = ChangeLeaves(cell, p)
  BY <1>1 DEF Leaf, ChangeLeaves
<1>7. Works(next, p, j)
  BY <1>1, <1>4, <1>5, <1>6 DEF Works
<1> QED BY <1>5, <1>7

\* The digests shown are tuples of length one, two and three.
LEMMA Appended ==
    /\ \A a, x : <<a>> \o <<x>> = <<a, x>>
    /\ \A a, b, x : <<a, b>> \o <<x>> = <<a, b, x>>
<1>1. ASSUME NEW a, NEW x PROVE <<a>> \o <<x>> = <<a, x>>
  <2> DEFINE S == {a, x}
             l == <<a>> \o <<x>>
             r == <<a, x>>
  <2>1. l \in Seq(S) /\ Len(l) = 2 /\ l[1] = a /\ l[2] = x
    OBVIOUS
  <2>2. r \in Seq(S) /\ Len(r) = 2 /\ r[1] = a /\ r[2] = x
    OBVIOUS
  <2>3. \A i \in 1..2 : i = 1 \/ i = 2
    OBVIOUS
  <2> HIDE DEF l, r
  <2>4. \A i \in 1..2 : l[i] = r[i]
    BY <2>1, <2>2, <2>3
  <2> QED BY <2>1, <2>2, <2>4, SeqEqual DEF l, r
<1>2. ASSUME NEW a, NEW b, NEW x PROVE <<a, b>> \o <<x>> = <<a, b, x>>
  <2> DEFINE S == {a, b, x}
             l == <<a, b>> \o <<x>>
             r == <<a, b, x>>
  <2>1. l \in Seq(S) /\ Len(l) = 3 /\ l[1] = a /\ l[2] = b /\ l[3] = x
    OBVIOUS
  <2>2. r \in Seq(S) /\ Len(r) = 3 /\ r[1] = a /\ r[2] = b /\ r[3] = x
    OBVIOUS
  <2>3. \A i \in 1..3 : i = 1 \/ i = 2 \/ i = 3
    OBVIOUS
  <2> HIDE DEF l, r
  <2>4. \A i \in 1..3 : l[i] = r[i]
    BY <2>1, <2>2, <2>3
  <2> QED BY <2>1, <2>2, <2>4, SeqEqual DEF l, r
<1> QED BY <1>1, <1>2

\* A digest is shown when the last round of its block has run.
LEMMA ShownStep ==
    ASSUME NEW cell, NEW next, NEW p, NEW o, NEW j \in Nat, NEW t \in Nat, NEW j2 \in Nat, NEW t2 \in Nat,
           next.v = cell.v, next.cv = cell.cv, next.b = cell.b,
           \A n \in Nat : Past(n, j2, t2) <=> (Past(n, j, t) \/ (j2 = n /\ t2 = Half)),
           \A n \in Nat : j2 = n /\ t2 = Half => ~ Past(n, j, t),
           Shown(cell, p, j, t, o), Permuting(next, t2), Works(next, p, j2)
    PROVE  Shown(next, p, j2, t2,
                 IF t2 = Half /\ j2 \in {0, 2 + 2 * LEVELS, AbsorbBlock(LEVELS)}
                 THEN o \o <<next.state>> ELSE o)
<1> DEFINE M == 2 + 2 * LEVELS
           N == AbsorbBlock(LEVELS)
           nf == nullifier_hash(cell.b)
           roots == Nodes(Leaf(cell, p), LEVELS)
           leaves == ChangeLeaves(cell, p)
<1>0. /\ M \in Nat /\ N \in Nat /\ N = M + 2 /\ M > 0 /\ Half \in Nat /\ Half > 0
      /\ 0 \in Nat /\ LEVELS \in Nat /\ LEVELS \in 0..LEVELS
  BY CircuitTypes DEF AbsorbBlock
<1>1. nullifier_hash(next.b) = nf /\ Leaf(next, p) = Leaf(cell, p) /\ ChangeLeaves(next, p) = leaves
  BY DEF Leaf, ChangeLeaves
<1>2. t2 = Half => next.state = Ended(next)
  BY <1>0 DEF Permuting, Ended, Permuted, Rounds
<1>3. /\ j2 = 0 => Ended(next) = nf
      /\ j2 = M => Ended(next) \in roots
      /\ j2 = N => Ended(next) \in leaves
  BY <1>0, <1>1 DEF Works
<1>4. /\ Past(N, j, t) => Past(M, j, t)
      /\ Past(M, j, t) => Past(0, j, t)
  BY <1>0 DEF Past
<1>5. /\ Past(0, j2, t2) <=> (Past(0, j, t) \/ (j2 = 0 /\ t2 = Half))
      /\ Past(M, j2, t2) <=> (Past(M, j, t) \/ (j2 = M /\ t2 = Half))
      /\ Past(N, j2, t2) <=> (Past(N, j, t) \/ (j2 = N /\ t2 = Half))
      /\ j2 = 0 /\ t2 = Half => ~ Past(0, j, t)
      /\ j2 = M /\ t2 = Half => ~ Past(M, j, t)
      /\ j2 = N /\ t2 = Half => ~ Past(N, j, t)
  BY <1>0
<1>6. /\ Past(N, j2, t2) => Past(M, j2, t2)
      /\ Past(M, j2, t2) => Past(0, j2, t2)
  BY <1>0 DEF Past
<1>7. IF ~ Past(0, j, t) THEN o = << >>
      ELSE IF ~ Past(M, j, t) THEN o = <<nf>>
      ELSE \E root \in roots : IF ~ Past(N, j, t) THEN o = <<nf, root>>
                               ELSE \E leaf \in leaves : o = <<nf, root, leaf>>
  BY DEF Shown
<1> DEFINE o2 == IF t2 = Half /\ j2 \in {0, M, N} THEN o \o <<next.state>> ELSE o
<1>8. IF ~ Past(0, j2, t2) THEN o2 = << >>
      ELSE IF ~ Past(M, j2, t2) THEN o2 = <<nf>>
      ELSE \E root \in roots : IF ~ Past(N, j2, t2) THEN o2 = <<nf, root>>
                               ELSE \E leaf \in leaves : o2 = <<nf, root, leaf>>
  <2> HIDE DEF M, N, nf, roots, leaves
  <2>1. CASE t2 = Half /\ j2 = 0
    <3>1. o = << >>
      BY <1>5, <1>7, <2>1
    <3>2. o2 = <<nf>>
      BY <1>2, <1>3, <2>1, <3>1
    <3>3. Past(0, j2, t2) /\ ~ Past(M, j2, t2)
      BY <1>0, <1>4, <1>5, <2>1
    <3> HIDE DEF o2
    <3> QED BY <3>2, <3>3
  <2>2. CASE t2 = Half /\ j2 = M
    <3>a. Past(0, j, t) /\ ~ Past(M, j, t)
      BY <1>0, <1>5, <1>6, <2>2
    <3>1. o = <<nf>>
      BY <1>7, <3>a
    <3>2. o2 = <<nf, Ended(next)>>
      <4>1. o2 = <<nf>> \o <<Ended(next)>>
        BY <1>2, <2>2, <3>1
      <4> HIDE DEF o2
      <4> QED BY <4>1, Appended
    <3>3. Past(0, j2, t2) /\ Past(M, j2, t2) /\ ~ Past(N, j2, t2)
      BY <1>0, <1>4, <1>5, <2>2, <3>a
    <3> HIDE DEF o2
    <3> QED BY <1>3, <2>2, <3>2, <3>3
  <2>3. CASE t2 = Half /\ j2 = N
    <3>a. Past(0, j, t) /\ Past(M, j, t) /\ ~ Past(N, j, t)
      BY <1>0, <1>5, <1>6, <2>3
    <3>1. PICK root \in roots : o = <<nf, root>>
      BY <1>7, <3>a
    <3>2. o2 = <<nf, root, Ended(next)>>
      <4>1. o2 = <<nf, root>> \o <<Ended(next)>>
        BY <1>2, <2>3, <3>1
      <4> HIDE DEF o2
      <4> QED BY <4>1, Appended
    <3>3. Past(0, j2, t2) /\ Past(M, j2, t2) /\ Past(N, j2, t2)
      BY <1>5, <2>3, <3>a
    <3> HIDE DEF o2
    <3> QED BY <1>3, <2>3, <3>2, <3>3
  <2>4. CASE ~ (t2 = Half /\ j2 \in {0, M, N})
    <3>1. o2 = o
      BY <2>4
    <3>2. /\ Past(0, j2, t2) <=> Past(0, j, t)
          /\ Past(M, j2, t2) <=> Past(M, j, t)
          /\ Past(N, j2, t2) <=> Past(N, j, t)
      BY <1>5, <2>4
    <3> HIDE DEF o2
    <3> QED BY <1>7, <3>1, <3>2
  <2> QED BY <2>1, <2>2, <2>3, <2>4
<1> QED BY <1>1, <1>8 DEF Shown

\* Every row continues the work.
LEMMA ProgressStep ==
    ASSUME NEW cell, DOMAIN cell = Cells, NEW p, NEW o, NEW r \in Nat, r < EndOf("spend"),
           NEW next \in SpendRows(cell, r, p), Progress(cell, p, o, r)
    PROVE  Progress(next, p,
                    IF r + 1 \in {ROW_NF_OUT, ROW_ROOT, ROW_CLEAF} THEN o \o <<next.state>> ELSE o,
                    r + 1)
<1> DEFINE N == AbsorbBlock(LEVELS)
           M == 2 + 2 * LEVELS
           o2 == IF r + 1 \in {ROW_NF_OUT, ROW_ROOT, ROW_CLEAF} THEN o \o <<next.state>> ELSE o
<1>0. /\ N \in Nat /\ M \in Nat /\ M \in 0..N /\ BLOCK \in Nat /\ BLOCK > 0 /\ LEVELS \in Nat
      /\ Half \in Nat /\ Half > 0 /\ Half < BLOCK /\ Half <= BLOCK - 1 /\ 0 \in 0..(BLOCK - 1)
      /\ EndOf("spend") = BLOCK * N + BLOCK
      /\ \A j \in Nat : BLOCK * j \in Nat /\ BLOCK * (j + 1) = BLOCK * j + BLOCK
  <2>1. BLOCK * (2 * LEVELS + 5) = BLOCK * (4 + 2 * LEVELS) + BLOCK
    BY CircuitTypes
  <2> QED BY <2>1, CircuitTypes DEF EndOf, ACTIVE_BLOCKS, AbsorbBlock
<1>1. next.v = cell.v /\ next.cv = cell.cv /\ next.b = cell.b
  BY RowCells
<1> SUFFICES Progress(next, p, o2, r + 1)
  OBVIOUS
\* The position of the next row.
<1>2. ASSUME NEW j \in 0..N, NEW t \in 0..(BLOCK - 1), NEW j2 \in 0..N, NEW t2 \in 0..(BLOCK - 1),
             r + 1 = BLOCK * j2 + t2 + 1,
             \A n \in Nat : Past(n, j2, t2) <=> (Past(n, j, t) \/ (j2 = n /\ t2 = Half)),
             \A n \in Nat : j2 = n /\ t2 = Half => ~ Past(n, j, t),
             Shown(cell, p, j, t, o), Permuting(next, t2), Works(next, p, j2)
      PROVE  Progress(next, p, o2, r + 1)
  <2>1. j2 \in Nat /\ t2 \in Nat /\ j \in Nat /\ t \in Nat
    BY <1>0
  <2>2. /\ r + 1 = ROW_NF_OUT <=> j2 = 0 /\ t2 = Half
        /\ r + 1 = ROW_ROOT   <=> j2 = 2 + 2 * LEVELS /\ t2 = Half
        /\ r + 1 = ROW_CLEAF  <=> j2 = AbsorbBlock(LEVELS) /\ t2 = Half
    BY <1>2, <2>1, Windows
  <2>3. o2 = IF t2 = Half /\ j2 \in {0, 2 + 2 * LEVELS, AbsorbBlock(LEVELS)}
             THEN o \o <<next.state>> ELSE o
    BY <2>2
  <2>4. Shown(next, p, j2, t2, o2)
    <3> HIDE DEF o2
    <3> QED BY <1>1, <1>2, <2>1, <2>3, ShownStep
  <2>5. SpendAt(next, p, o2, r + 1, j2, t2)
    BY <1>2, <2>4 DEF SpendAt
  <2>6. r + 1 # 0
    OBVIOUS
  <2> HIDE DEF o2, N
  <2> QED BY <2>5, <2>6 DEF Progress, N
<1>3. CASE r = 0
  <2>1. cell.state = [from |-> <<"nullifier", Lo(cell.b), Hi(cell.b), Zero>>, k |-> 0] /\ o = << >>
    BY <1>3 DEF Progress, Start
  <2>2. next.state = cell.state
    <3>1. r = BLOCK * 0 + 0
      BY <1>0, <1>3
    <3>2. /\ ~ m_rnd(r) /\ m_frz(r) /\ r # STEP_LNOTE /\ r # STEP_ANOTE /\ r \notin m_mrk
          /\ r \notin m_amrk /\ r # STEP_LCHG /\ r # STEP_ACHG
      <4>a. PICK z \in Nat : z = 0
        OBVIOUS
      <4>0. r = BLOCK * z + 0 /\ 0 \in 0..(BLOCK - 1)
        BY <1>0, <3>1, <4>a
      <4>1. /\ m_rnd(r) <=> 0 \in 1..Half
            /\ m_frz(r) <=> (z = 0 /\ 0 = 0) \/ 0 > Half
            /\ r = STEP_LNOTE <=> z = 1 /\ 0 = 0
            /\ r = STEP_ANOTE <=> z = 2 /\ 0 = 0
            /\ r \in m_mrk  <=> 0 = 0 /\ \E d \in Levels : z = LinkBlock(d)
            /\ r \in m_amrk <=> 0 = 0 /\ \E d \in Levels : z = AbsorbBlock(d)
            /\ r = STEP_LCHG <=> z = LinkBlock(LEVELS) /\ 0 = 0
            /\ r = STEP_ACHG <=> z = AbsorbBlock(LEVELS) /\ 0 = 0
        BY <4>0, Schedule
      <4>2. /\ \A d \in Levels : z # LinkBlock(d) /\ z # AbsorbBlock(d)
            /\ z # LinkBlock(LEVELS) /\ z # AbsorbBlock(LEVELS)
        BY <1>0, <4>a DEF LinkBlock, AbsorbBlock, Levels
      <4>3. 0 \notin 1..Half /\ z = 0
        BY <1>0, <4>a
      <4> QED BY <4>1, <4>2, <4>3
    <3>3. next.state = NextState(cell, next.bit, next.aux, r, p)
      BY RowCells
    <3> QED BY <3>2, <3>3 DEF NextState
  <2>3. Permuting(next, 0)
    BY <1>0, <2>1, <2>2 DEF Permuting, Rounds
  <2>4. Works(next, p, 0)
    <3>1. Ended(next) = nullifier_hash(next.b)
      BY <1>1, <2>1, <2>2, Nullifier DEF Ended
    <3>2. /\ \A d \in 0..LEVELS : 0 # 2 + 2 * d
          /\ \A d \in Levels : 0 # LinkBlock(d)
          /\ 0 # 1 /\ 0 # LinkBlock(LEVELS) /\ 0 # AbsorbBlock(LEVELS)
      BY <1>0 DEF LinkBlock, AbsorbBlock, Levels
    <3> QED BY <3>1, <3>2 DEF Works
  <2>5. \A n \in Nat : ~ Past(n, 0, 0)
    BY <1>0 DEF Past
  <2>6. Shown(cell, p, 0, 0, o)
    BY <2>1, <2>5 DEF Shown
  <2>7. r + 1 = BLOCK * 0 + 0 + 1 /\ 0 \in 0..N
    BY <1>0, <1>3
  <2>8. 0 # Half
    BY <1>0
  <2> HIDE DEF o2, N
  <2> QED BY <1>0, <1>2, <2>3, <2>4, <2>5, <2>6, <2>7, <2>8
<1>4. CASE r # 0
  <2>1. PICK j \in 0..N, t \in 0..(BLOCK - 1) : SpendAt(cell, p, o, r, j, t)
    BY <1>4 DEF Progress
  <2>2. /\ r = BLOCK * j + t + 1 /\ j \in Nat /\ Permuting(cell, t) /\ Works(cell, p, j)
        /\ Shown(cell, p, j, t, o)
    BY <1>0, <2>1 DEF SpendAt
  <2>3. CASE t # BLOCK - 1
    <3>1. t + 1 \in 0..(BLOCK - 1) /\ r + 1 = BLOCK * j + (t + 1) + 1
      BY <1>0, <2>2, <2>3
    <3>2. Permuting(next, t + 1) /\ Works(next, p, j)
      BY <2>2, <2>3, SameBlock
    <3>3. \A n \in Nat : Past(n, j, t + 1) <=> (Past(n, j, t) \/ (j = n /\ t + 1 = Half))
      BY <1>0, <2>2 DEF Past
    <3>4. \A n \in Nat : j = n /\ t + 1 = Half => ~ Past(n, j, t)
      BY <1>0, <2>2 DEF Past
    <3> HIDE DEF o2, N
    <3> QED BY <1>2, <2>2, <3>1, <3>2, <3>3, <3>4
  <2>4. CASE t = BLOCK - 1
    <3>0. j + 1 \in 1..N /\ j + 1 \in 0..N /\ r = BLOCK * (j + 1) /\ (j + 1) - 1 = j
      <4>1. j # N
        BY <1>0, <2>2, <2>4
      <4>2. r = BLOCK * (j + 1)
        BY <1>0, <2>2, <2>4
      <4> QED BY <1>0, <2>2, <4>1, <4>2
    <3>1. 0 \in 0..(BLOCK - 1) /\ r + 1 = BLOCK * (j + 1) + 0 + 1
      BY <1>0, <3>0
    <3>2. cell.state = Ended(cell)
      <4>1. Rounds(t) = Half
        BY <1>0, <2>4 DEF Rounds
      <4> QED BY <2>2, <4>1 DEF Permuting, Ended, Permuted
    <3>3. next.state = [from |-> next.state.from, k |-> 0] /\ Works(next, p, j + 1)
      BY <2>2, <3>0, <3>2, NextBlock
    <3>4. Permuting(next, 0)
      BY <1>0, <3>3 DEF Permuting, Rounds
    <3>5. \A n \in Nat : Past(n, j + 1, 0) <=> (Past(n, j, t) \/ (j + 1 = n /\ 0 = Half))
      BY <1>0, <2>2, <2>4 DEF Past
    <3>6. \A n \in Nat : ~ (j + 1 = n /\ 0 = Half)
      BY <1>0
    <3> HIDE DEF o2, N
    <3> QED BY <1>2, <2>2, <3>0, <3>1, <3>3, <3>4, <3>5, <3>6
  <2> QED BY <2>3, <2>4
<1> QED BY <1>3, <1>4

-------------------------------------------------------------------------------
(***************************************************************************)
(* The sum of the bits                                                     *)
(***************************************************************************)
\* The accumulator stays below its power of two, and both below the modulus:
\* no sum wraps.
LEMMA SumStep ==
    ASSUME NEW n \in 0..(Half - 1), NEW cell, cell.bit \in {0, 1},
           cell.pow = Pow2[n], cell.acc \in 0..(Pow2[n] - 1)
    PROVE  /\ Sum(cell) = cell.acc + cell.bit * Pow2[n]
           /\ Sum(cell) \in 0..(Pow2[n + 1] - 1) /\ Sum(cell) \in U64
           /\ (2 * cell.pow) % Modulus = Pow2[n + 1]
<1> DEFINE P == Pow2[n]
           Q == Pow2[n + 1]
           T == Pow2[Half]
           x == cell.acc + cell.bit * P
<1>1. P \in Nat /\ P > 0 /\ Q = 2 * P /\ Q <= T /\ T \in Nat /\ Q \in Nat
  <2>1. n \in 0..Half /\ n + 1 \in 0..(Half + 1) /\ n + 1 <= Half /\ n \in 0..(Half + 1)
    BY CircuitTypes
  <2> QED BY <2>1, Pow2Equation, Pow2Type, Room
<1>2. Modulus \in Nat /\ Modulus > 2 * T
  BY Room
<1>3. cell.bit * P \in {0, P}
  <2> HIDE DEF P
  <2> QED BY <1>1
<1>4. x \in Nat /\ x <= Q - 1
  <2>1. cell.acc \in 0..(P - 1)
    OBVIOUS
  <2> HIDE DEF P, Q
  <2> QED BY <1>1, <1>3, <2>1
<1>5. Sum(cell) = x % Modulus
  BY DEF Sum
<1>6. x % Modulus = x /\ (2 * P) % Modulus = 2 * P
  <2> HIDE DEF P, Q, T, x
  <2> QED BY <1>1, <1>2, <1>4
<1>7. U64 = 0..(T - 1)
  BY DEF U64
<1> HIDE DEF P, Q, T, x
<1>8. x \in 0..(Q - 1) /\ x \in 0..(T - 1) /\ 2 * P = Q
  BY <1>1, <1>4
<1> QED BY <1>5, <1>6, <1>7, <1>8 DEF P, Q, x

\* A row adds its bit to the sum, and the last of each range checks it.
LEMMA RangeStep ==
    ASSUME NEW cell, DOMAIN cell = Cells, NEW p, NEW r \in Nat,
           NEW next \in SpendRows(cell, r, p), Ranged(cell, r)
    PROVE  Ranged(next, r + 1)
<1>0. /\ Half \in Nat /\ Half > 0 /\ BLOCK = 2 * Half /\ m_rst = Half - 1 /\ m_chk2 = BLOCK - 1
      /\ m_rst \in Nat /\ m_chk2 \in Nat
  BY CircuitTypes
<1>1. /\ next.v = cell.v /\ next.cv = cell.cv /\ SumsOk(cell, r)
      /\ next.acc = Acc(cell, r) /\ next.pow = Pow(cell, r) /\ next.bit \in Bits(cell, r)
  BY RowCells
<1>2. /\ cell.bit \in {0, 1}
      /\ r <= m_rst => cell.pow = Pow2[r] /\ cell.acc \in 0..(Pow2[r] - 1)
      /\ r \in (m_rst + 1)..m_chk2 =>
           cell.pow = Pow2[r - Half] /\ cell.acc \in 0..(Pow2[r - Half] - 1)
      /\ r > m_rst  => cell.v \in U64
      /\ r > m_chk2 => cell.cv \in U64
  BY DEF Ranged
<1>3. next.bit \in {0, 1}
  BY <1>1, <1>2 DEF Bits
<1>4. CASE r < m_rst
  <2>1. r \in 0..(Half - 1) /\ r # m_rst /\ r < m_chk2 /\ r <= m_rst /\ r + 1 <= m_rst
    BY <1>0, <1>4
  <2>2. next.acc = Sum(cell) /\ next.pow = (2 * cell.pow) % Modulus
    BY <1>1, <2>1 DEF Acc, Pow
  <2>3. next.pow = Pow2[r + 1] /\ next.acc \in 0..(Pow2[r + 1] - 1)
    BY <1>2, <2>1, <2>2, SumStep
  <2>4. ~ (r + 1 > m_rst) /\ ~ (r + 1 > m_chk2) /\ r + 1 \notin (m_rst + 1)..m_chk2
    BY <1>0, <2>1
  <2> QED BY <1>3, <2>3, <2>4 DEF Ranged
<1>5. CASE r = m_rst
  <2>1. r \in 0..(Half - 1) /\ r <= m_rst /\ (r + 1) - Half = 0 /\ r + 1 \in (m_rst + 1)..m_chk2
    BY <1>0, <1>5
  <2>2. next.acc = 0 /\ next.pow = 1 /\ Sum(cell) = cell.v
    BY <1>1, <1>5 DEF Acc, Pow, SumsOk
  <2>3. next.v \in U64
    BY <1>1, <1>2, <2>1, <2>2, SumStep
  <2>4. next.pow = Pow2[(r + 1) - Half] /\ next.acc \in 0..(Pow2[(r + 1) - Half] - 1)
    BY <2>1, <2>2, Pow2Equation
  <2>5. ~ (r + 1 <= m_rst) /\ ~ (r + 1 > m_chk2)
    BY <1>0, <2>1
  <2> QED BY <1>3, <2>3, <2>4, <2>5 DEF Ranged
<1>6. CASE r > m_rst /\ r <= m_chk2
  <2>1. r - Half \in 0..(Half - 1) /\ r \in (m_rst + 1)..m_chk2 /\ (r - Half) + 1 = (r + 1) - Half
    BY <1>0, <1>6
  <2>2. cell.pow = Pow2[r - Half] /\ cell.acc \in 0..(Pow2[r - Half] - 1) /\ next.v \in U64
    BY <1>1, <1>2, <1>6, <2>1
  <2>3. /\ Sum(cell) \in 0..(Pow2[(r + 1) - Half] - 1) /\ Sum(cell) \in U64
        /\ (2 * cell.pow) % Modulus = Pow2[(r + 1) - Half]
    BY <1>2, <2>1, <2>2, SumStep
  <2>4. ~ (r + 1 <= m_rst) /\ r # m_rst
    BY <1>0, <1>6
  <2>5. CASE r < m_chk2
    <3>1. next.acc = Sum(cell) /\ next.pow = (2 * cell.pow) % Modulus
      BY <1>1, <2>4, <2>5 DEF Acc, Pow
    <3>2. ~ (r + 1 > m_chk2)
      BY <1>0, <2>5
    <3> QED BY <1>3, <2>2, <2>3, <2>4, <3>1, <3>2 DEF Ranged
  <2>6. CASE r = m_chk2
    <3>1. next.cv \in U64
      BY <1>1, <2>3, <2>6 DEF SumsOk
    <3>2. r + 1 \notin (m_rst + 1)..m_chk2
      BY <1>0, <2>6
    <3> QED BY <1>3, <2>2, <2>4, <3>1, <3>2 DEF Ranged
  <2> QED BY <1>0, <1>6, <2>5, <2>6
<1>7. CASE r > m_chk2
  <2>1. /\ ~ (r + 1 <= m_rst) /\ r + 1 \notin (m_rst + 1)..m_chk2 /\ r > m_rst
    BY <1>0, <1>7
  <2>2. next.v \in U64 /\ next.cv \in U64
    BY <1>1, <1>2, <1>7, <2>1
  <2> QED BY <1>3, <2>1, <2>2 DEF Ranged
<1> QED BY <1>0, <1>4, <1>5, <1>6, <1>7

-------------------------------------------------------------------------------
(***************************************************************************)
(* The invariant is inductive                                              *)
(***************************************************************************)
\* The first row, whichever the prover starts from.
LEMMA InitInv == Init => IInv
<1>0. /\ EndOf("spend") \in Nat /\ EndOf("deposit") \in Nat /\ m_rst \in Nat /\ m_chk2 \in Nat
      /\ m_rst < m_chk2
  BY CircuitTypes DEF EndOf, ACTIVE_BLOCKS
<1>1. ASSUME SpendInit, row = 0, out = << >> PROVE IInv
  <2>1. air = "spend" /\ row \in 0..EndOf(air)
    BY <1>0, <1>1 DEF SpendInit
  <2>2. pi \in Inputs
    BY <1>1 DEF SpendInit, Inputs
  <2>3. PICK v \in Field, cv \in Field, b \in Blindings, bit \in {0, 1} :
          Conserved(v, cv, pi) /\ c = FirstRow(v, b, cv, bit)
    BY <1>1 DEF SpendInit
  <2>4. /\ DOMAIN c = Cells /\ c.v = v /\ c.cv = cv /\ c.b = b /\ c.bit = bit
        /\ c.acc = 0 /\ c.pow = 1 /\ c.state = Start("nullifier", Lo(b), Hi(b), Zero)
    BY <2>3 DEF FirstRow, Cells
  <2>5. Ranged(c, row)
    <3>1. ~ (row > m_rst) /\ ~ (row > m_chk2) /\ row \notin (m_rst + 1)..m_chk2
      BY <1>0, <1>1
    <3>2. c.pow = Pow2[row] /\ c.acc \in 0..(Pow2[row] - 1)
      BY <1>1, <2>4, Pow2Equation
    <3> QED BY <2>4, <3>1, <3>2 DEF Ranged
  <2>6. Progress(c, pi, out, row)
    BY <1>1, <2>4 DEF Progress
  <2> QED BY <2>1, <2>2, <2>3, <2>4, <2>5, <2>6 DEF IInv, SpendInv
<1>2. ASSUME DepositInit, row = 0, out = << >> PROVE IInv
  <2>1. air = "deposit" /\ row \in 0..EndOf(air)
    BY <1>0, <1>2 DEF DepositInit
  <2>2. PICK b \in Blindings, pkd \in Keys :
          c = [state |-> Start("note", pi.amount, Lo(b), Hi(b)), pkd |-> pkd]
    BY <1>2 DEF DepositInit
  <2>3. DepositInv
    BY <1>2, <2>2 DEF DepositInv
  <2> QED BY <2>1, <2>3 DEF IInv
<1> QED BY <1>1, <1>2 DEF Init

\* Every row of SpendAir: its work, its digests and its bits.
LEMMA SpendPreserves == IInv /\ SpendRow => IInv'
<1> SUFFICES ASSUME IInv, SpendRow PROVE IInv'
  OBVIOUS
<1>1. /\ air = "spend" /\ SpendInv /\ row \in Nat /\ row < EndOf("spend")
      /\ EndOf("spend") \in Nat
  BY CircuitTypes DEF IInv, SpendRow, EndOf, ACTIVE_BLOCKS
<1>2. /\ c' \in SpendRows(c, row, pi) /\ row' = row + 1 /\ air' = air /\ pi' = pi
      /\ out' = IF row' \in {ROW_NF_OUT, ROW_ROOT, ROW_CLEAF} THEN out \o <<c'.state>> ELSE out
  BY <1>1 DEF SpendRow, Proceed, Asserted
<1>3. DOMAIN c = Cells /\ pi \in Inputs /\ Ranged(c, row) /\ Progress(c, pi, out, row)
  BY <1>1 DEF SpendInv
<1>4. DOMAIN c' = Cells /\ c'.v = c.v /\ c'.cv = c.cv /\ c'.b = c.b
  BY <1>2, <1>3, RowCells
<1>5. Ranged(c', row + 1)
  BY <1>1, <1>2, <1>3, RangeStep
<1>6. Progress(c', pi, out', row + 1)
  BY <1>1, <1>2, <1>3, ProgressStep
<1>7. SpendInv'
  <2>1. Ranged(c, row)'
    BY <1>2, <1>5
  <2>2. Progress(c, pi, out, row)'
    BY <1>2, <1>6
  <2> QED BY <1>1, <1>2, <1>3, <1>4, <2>1, <2>2 DEF SpendInv
<1>8. row' \in 0..EndOf(air')
  BY <1>1, <1>2
<1> QED BY <1>1, <1>2, <1>7, <1>8 DEF IInv

\* Every row of DepositV2Air.
LEMMA DepositPreserves == IInv /\ DepositRow => IInv'
<1> SUFFICES ASSUME IInv, DepositRow PROVE IInv'
  OBVIOUS
<1>0. /\ BLOCK \in Nat /\ BLOCK > 0 /\ Half \in Nat /\ Half > 0 /\ Half < BLOCK
      /\ EndOf("deposit") = 2 * BLOCK /\ BLOCK * 0 = 0 /\ BLOCK * 1 = BLOCK
      /\ 0 \in 0..(BLOCK - 1)
  BY CircuitTypes DEF EndOf
<1>1. air = "deposit" /\ DepositInv /\ row \in Nat /\ row < 2 * BLOCK
  BY <1>0 DEF IInv, DepositRow
<1>2. /\ c' \in DepositRows(c, row) /\ row' = row + 1 /\ air' = air /\ pi' = pi
      /\ out' = IF row' = ROW_LEAF THEN out \o <<c'.state>> ELSE out
  BY <1>1 DEF DepositRow, Proceed, Asserted
<1>3. DOMAIN c = {"state", "pkd"} /\ c.pkd \in Keys
  BY <1>1 DEF DepositInv
<1> DEFINE st == CASE m_rnd(row) -> Round(c.state, (row % BLOCK) - 1)
                   [] m_frz(row) -> c.state
                   [] row = BLOCK -> Absorb(c.state, Lo(c.pkd), Hi(c.pkd))
<1>4. c' = [c EXCEPT !.state = st]
  BY <1>2 DEF DepositRows
<1>5. DOMAIN c' = {"state", "pkd"} /\ c'.pkd = c.pkd /\ c'.state = st
  <2> HIDE DEF st
  <2> QED BY <1>3, <1>4
<1>6. PICK b \in Blindings :
        IF row = 0 THEN c.state = Start("note", pi.amount, Lo(b), Hi(b)) /\ out = << >>
        ELSE \E j \in 0..1, t \in 0..(BLOCK - 1) : DepositAt(b, row, j, t)
  BY <1>1 DEF DepositInv
<1> DEFINE leaf == note_hash(pi.amount, b, c.pkd)
\* As in SpendAir: the state of a block, what it works on, what was shown.
<1>7. SUFFICES \E j \in 0..1, t \in 0..(BLOCK - 1) :
        /\ row + 1 = BLOCK * j + t + 1 /\ c'.state = [from |-> c'.state.from, k |-> Rounds(t)]
        /\ j = 0 => Absorbed(Permuted(c'.state.from), Lo(c.pkd), Hi(c.pkd)) = leaf
        /\ j = 1 => Permuted(c'.state.from) = leaf
        /\ out' = IF Past(1, j, t) THEN <<leaf>> ELSE << >>
  <2>1. row' # 0 /\ row' \in 0..EndOf(air')
    BY <1>0, <1>1, <1>2
  <2>2. PICK j \in 0..1, t \in 0..(BLOCK - 1) :
        /\ row + 1 = BLOCK * j + t + 1 /\ c'.state = [from |-> c'.state.from, k |-> Rounds(t)]
        /\ j = 0 => Absorbed(Permuted(c'.state.from), Lo(c.pkd), Hi(c.pkd)) = leaf
        /\ j = 1 => Permuted(c'.state.from) = leaf
        /\ out' = IF Past(1, j, t) THEN <<leaf>> ELSE << >>
    BY <1>7
  <2>3. DepositAt(b, row, j, t)'
    <3> HIDE DEF st
    <3> QED BY <1>2, <1>5, <2>2 DEF DepositAt, Permuting, Ended, Absorbed
  <2>4. DepositInv'
    <3> HIDE DEF st
    <3> QED BY <1>3, <1>5, <2>1, <2>3 DEF DepositInv
  <2> QED BY <1>1, <1>2, <2>1, <2>4 DEF IInv
<1>8. ASSUME NEW z \in {0, 1}, NEW s \in 0..(BLOCK - 1), row = BLOCK * z + s
      PROVE  /\ row % BLOCK = s /\ (m_rnd(row) <=> s \in 1..Half)
             /\ m_frz(row) <=> (z = 0 /\ s = 0) \/ s > Half
             /\ row = BLOCK <=> z = 1 /\ s = 0
  <2>1. /\ row % BLOCK = s /\ (m_rnd(row) <=> s \in 1..Half)
        /\ m_frz(row) <=> (z = 0 /\ s = 0) \/ s > Half
        /\ row = STEP_LNOTE <=> z = 1 /\ s = 0
    BY <1>8, Schedule
  <2> QED BY <2>1 DEF STEP_LNOTE
<1>9. ASSUME NEW z \in {0, 1}, NEW t \in 0..(BLOCK - 1), row + 1 = BLOCK * z + t + 1
      PROVE  row' = ROW_LEAF <=> z = 1 /\ t = Half
  BY <1>2, <1>9, Windows
<1>10. CASE row = 0
  <2>1. c.state = [from |-> <<"note", pi.amount, Lo(b), Hi(b)>>, k |-> 0] /\ out = << >>
    BY <1>6, <1>10 DEF Start
  <2>2. PICK z \in {0, 1} : z = 0
    OBVIOUS
  <2>3. row = BLOCK * z + 0 /\ row + 1 = BLOCK * z + 0 + 1
    BY <1>0, <1>10, <2>2
  <2>4. ~ m_rnd(row) /\ m_frz(row) /\ row # BLOCK
    <3>1. /\ m_rnd(row) <=> 0 \in 1..Half
          /\ m_frz(row) <=> (z = 0 /\ 0 = 0) \/ 0 > Half
          /\ row = BLOCK <=> z = 1 /\ 0 = 0
      BY <1>0, <1>8, <2>3
    <3> QED BY <1>0, <2>2, <3>1
  <2>5. c'.state = c.state
    BY <1>5, <2>4
  <2>6. row' # ROW_LEAF
    BY <1>0, <1>9, <2>2, <2>3
  <2>7. out' = << >>
    BY <1>2, <2>1, <2>6
  <2>8. Absorbed(Permuted(c'.state.from), Lo(c.pkd), Hi(c.pkd)) = leaf
    BY <2>1, <2>5, NoteHash DEF Absorbed
  <2>9. Rounds(0) = 0 /\ ~ Past(1, 0, 0)
    BY <1>0 DEF Rounds, Past
  <2>10. c'.state = [from |-> c'.state.from, k |-> 0]
    BY <2>1, <2>5
  <2>11. 0 \in 0..1 /\ row + 1 = BLOCK * 0 + 0 + 1
    BY <1>0, <1>10
  <2> HIDE DEF st, leaf
  <2> QED BY <1>0, <2>7, <2>8, <2>9, <2>10, <2>11
<1>11. CASE row # 0
  <2>1. PICK j \in 0..1, t \in 0..(BLOCK - 1) : DepositAt(b, row, j, t)
    BY <1>6, <1>11
  <2>2. /\ row = BLOCK * j + t + 1 /\ c.state = [from |-> c.state.from, k |-> Rounds(t)]
        /\ j = 0 => Absorbed(Permuted(c.state.from), Lo(c.pkd), Hi(c.pkd)) = leaf
        /\ j = 1 => Permuted(c.state.from) = leaf
        /\ out = IF Past(1, j, t) THEN <<leaf>> ELSE << >>
    BY <2>1 DEF DepositAt, Permuting, Ended
  <2>3. j \in {0, 1} /\ BLOCK * j \in Nat
    BY <1>0
  <2> HIDE DEF leaf
  <2>4. CASE t # BLOCK - 1
    <3>1. t + 1 \in 0..(BLOCK - 1) /\ row = BLOCK * j + (t + 1) /\ row + 1 = BLOCK * j + (t + 1) + 1
      BY <1>0, <2>2, <2>3, <2>4
    <3>2. /\ row % BLOCK = t + 1 /\ (m_rnd(row) <=> t + 1 \in 1..Half)
          /\ m_frz(row) <=> t + 1 > Half
          /\ row # BLOCK
      <4>1. /\ row % BLOCK = t + 1 /\ (m_rnd(row) <=> t + 1 \in 1..Half)
            /\ m_frz(row) <=> (j = 0 /\ t + 1 = 0) \/ t + 1 > Half
            /\ row = BLOCK <=> j = 1 /\ t + 1 = 0
        BY <1>8, <2>3, <3>1
      <4>2. t + 1 # 0
        OBVIOUS
      <4> QED BY <4>1, <4>2
    <3>3. c'.state = [from |-> c.state.from, k |-> Rounds(t + 1)]
      <4>1. CASE t < Half
        <5>1. m_rnd(row) /\ ~ m_frz(row) /\ (t + 1) - 1 = t /\ Rounds(t) = t /\ Rounds(t + 1) = t + 1
          BY <1>0, <3>2, <4>1 DEF Rounds
        <5>2. c'.state = Round(c.state, t)
          BY <1>5, <3>2, <5>1
        <5> HIDE DEF st
        <5> QED BY <2>2, <5>1, <5>2 DEF Round
      <4>2. CASE ~ (t < Half)
        <5>1. ~ m_rnd(row) /\ m_frz(row) /\ Rounds(t) = Half /\ Rounds(t + 1) = Half
          BY <1>0, <3>2, <4>2 DEF Rounds
        <5>2. c'.state = c.state
          BY <1>5, <3>2, <5>1
        <5> HIDE DEF st
        <5> QED BY <2>2, <5>1, <5>2
      <4> QED BY <4>1, <4>2
    <3>4. row' = ROW_LEAF <=> j = 1 /\ t + 1 = Half
      BY <1>9, <2>3, <3>1
    <3>5. Past(1, j, t + 1) <=> Past(1, j, t) \/ (j = 1 /\ t + 1 = Half)
      BY <1>0, <2>3 DEF Past
    <3>6. j = 1 /\ t + 1 = Half => ~ Past(1, j, t) /\ c'.state = Permuted(c.state.from)
      BY <1>0, <2>3, <3>3 DEF Past, Permuted, Rounds
    <3>7. out' = IF Past(1, j, t + 1) THEN <<leaf>> ELSE << >>
      <4>1. CASE j = 1 /\ t + 1 = Half
        <5>1. out = << >> /\ c'.state = leaf
          BY <2>2, <3>6, <4>1
        <5>2. out' = <<leaf>>
          BY <1>2, <3>4, <4>1, <5>1
        <5> QED BY <3>5, <4>1, <5>2
      <4>2. CASE ~ (j = 1 /\ t + 1 = Half)
        BY <1>2, <2>2, <3>4, <3>5, <4>2
      <4> QED BY <4>1, <4>2
    <3>8. c'.state.from = c.state.from
      BY <3>3
    <3>9. /\ row + 1 = BLOCK * j + (t + 1) + 1
          /\ c'.state = [from |-> c'.state.from, k |-> Rounds(t + 1)]
          /\ j = 0 => Absorbed(Permuted(c'.state.from), Lo(c.pkd), Hi(c.pkd)) = leaf
          /\ j = 1 => Permuted(c'.state.from) = leaf
          /\ out' = IF Past(1, j, t + 1) THEN <<leaf>> ELSE << >>
      <4> HIDE DEF st
      <4> QED BY <2>2, <3>1, <3>3, <3>7, <3>8
    <3> HIDE DEF st
    <3> QED BY <3>1, <3>9
  <2>5. CASE t = BLOCK - 1
    <3>1. j = 0 /\ row = BLOCK
      BY <1>0, <1>1, <2>2, <2>3, <2>5
    <3>2. PICK z \in {0, 1} : z = 1
      OBVIOUS
    <3>3. row = BLOCK * z + 0 /\ row + 1 = BLOCK * z + 0 + 1
      BY <1>0, <3>1, <3>2
    <3>4. ~ m_rnd(row) /\ ~ m_frz(row)
      <4>1. /\ m_rnd(row) <=> 0 \in 1..Half
            /\ m_frz(row) <=> (z = 0 /\ 0 = 0) \/ 0 > Half
        BY <1>0, <1>8, <3>3
      <4> QED BY <1>0, <3>2, <4>1
    <3>5. c.state = Permuted(c.state.from)
      BY <1>0, <2>2, <2>5 DEF Permuted, Rounds
    <3>6. c'.state = [from |-> <<"absorb", Permuted(c.state.from), Lo(c.pkd), Hi(c.pkd)>>, k |-> 0]
      <4>1. c'.state = Absorb(c.state, Lo(c.pkd), Hi(c.pkd))
        BY <1>5, <3>1, <3>4
      <4> QED BY <3>5, <4>1 DEF Absorb
    <3>7. Permuted(c'.state.from) = leaf
      BY <2>2, <3>1, <3>6 DEF Absorbed
    <3>8. row' # ROW_LEAF
      BY <1>0, <1>9, <3>2, <3>3
    <3>9. out' = << >> /\ ~ Past(1, 1, 0) /\ Rounds(0) = 0
      BY <1>0, <1>2, <2>2, <3>1, <3>8 DEF Past, Rounds
    <3>10. 1 \in 0..1 /\ 1 # 0 /\ row + 1 = BLOCK * 1 + 0 + 1
      BY <1>0, <3>1
    <3>11. c'.state = [from |-> c'.state.from, k |-> Rounds(0)]
      BY <3>6, <3>9
    <3> HIDE DEF st
    <3> QED BY <1>0, <3>7, <3>9, <3>10, <3>11
  <2> QED BY <2>4, <2>5
<1> QED BY <1>10, <1>11

\* The rows of both circuits: what a block works on, which digests have been
\* shown, which bits have been added up, and that the equation holds modulo
\* the order of the field.
THEOREM InvCorrect == Spec => []IInv
<1>1. IInv /\ UNCHANGED vars => IInv'
  <2> SUFFICES ASSUME IInv, UNCHANGED vars PROVE IInv'
    OBVIOUS
  <2>1. air' = air /\ pi' = pi /\ row' = row /\ c' = c /\ out' = out
    BY DEF vars
  <2>2. air = "spend" => SpendInv'
    <3> SUFFICES ASSUME SpendInv PROVE SpendInv'
      BY DEF IInv
    <3>1. Ranged(c, row)' /\ Progress(c, pi, out, row)'
      BY <2>1 DEF SpendInv
    <3> QED BY <2>1, <3>1 DEF SpendInv
  <2>3. air = "deposit" => DepositInv'
    BY <2>1 DEF IInv, DepositInv, DepositAt, Permuting, Ended
  <2>4. row' \in 0..EndOf(air')
    BY <2>1 DEF IInv
  <2> QED BY <2>1, <2>2, <2>3, <2>4 DEF IInv
<1>2. IInv /\ [Next]_vars => IInv'
  BY <1>1, SpendPreserves, DepositPreserves DEF Next
<1> QED BY <1>2, InitInv, PTL DEF Spec

\* A table the verifier accepts proves the relation the chain takes it for.
LEMMA InvBinds == IInv => ProofsBind
<1> SUFFICES ASSUME IInv, Done PROVE ProofsBind
  BY DEF ProofsBind
<1>0. /\ BLOCK \in Nat /\ BLOCK > 0 /\ Half \in Nat /\ Half < BLOCK /\ LEVELS \in Nat /\ LEVELS > 0
      /\ AbsorbBlock(LEVELS) \in Nat /\ AbsorbBlock(LEVELS) = 2 + 2 * LEVELS + 2
      /\ EndOf("deposit") = BLOCK * 1 + BLOCK
      /\ EndOf("spend") = BLOCK * AbsorbBlock(LEVELS) + BLOCK
      /\ BLOCK * AbsorbBlock(LEVELS) \in Nat
  <2>1. BLOCK * (2 * LEVELS + 5) = BLOCK * (4 + 2 * LEVELS) + BLOCK
    BY CircuitTypes
  <2> QED BY <2>1, CircuitTypes DEF EndOf, ACTIVE_BLOCKS, AbsorbBlock
<1>1. ASSUME air = "spend"
      PROVE  /\ out[1] = nullifier_hash(c.b)
             /\ \E index \in Indices, siblings \in Paths :
                  out[2] = root_from_path(note_hash(c.v, c.b, pi.pkd), index, siblings)
             /\ \E cb \in Blindings \cup {Zero} :
                  out[3] = note_hash(c.cv, cb, pi.change_pkd)
  <2>1. row = BLOCK * AbsorbBlock(LEVELS) + BLOCK /\ row # 0
    BY <1>0, <1>1 DEF Done
  <2>2. PICK j \in 0..AbsorbBlock(LEVELS), t \in 0..(BLOCK - 1) : SpendAt(c, pi, out, row, j, t)
    BY <1>1, <2>1 DEF IInv, SpendInv, Progress
  <2>3. row = BLOCK * j + t + 1 /\ j \in Nat /\ Shown(c, pi, j, t, out)
    BY <1>0, <2>2 DEF SpendAt
  <2>4. j = AbsorbBlock(LEVELS) /\ t = BLOCK - 1
    BY <1>0, <2>1, <2>3, Windows
  <2>5. Past(0, j, t) /\ Past(2 + 2 * LEVELS, j, t) /\ Past(AbsorbBlock(LEVELS), j, t)
    BY <1>0, <2>4 DEF Past
  <2>6. PICK root \in Nodes(Leaf(c, pi), LEVELS), leaf \in ChangeLeaves(c, pi) :
          out = <<nullifier_hash(c.b), root, leaf>>
    BY <2>3, <2>5 DEF Shown
  <2>7. out[1] = nullifier_hash(c.b) /\ out[2] = root /\ out[3] = leaf
    BY <2>6
  <2>8. \E index \in Indices, siblings \in Paths :
          root = root_from_path(note_hash(c.v, c.b, pi.pkd), index, siblings)
    BY <1>0 DEF Nodes, Leaf, root_from_path
  <2> QED BY <2>7, <2>8 DEF ChangeLeaves
<1>2. ASSUME air = "deposit"
      PROVE  \E b \in Blindings, pkd \in Keys : out[1] = note_hash(pi.amount, b, pkd)
  <2>1. row = BLOCK * 1 + BLOCK /\ row # 0
    BY <1>0, <1>2 DEF Done
  <2>2. PICK b \in Blindings : \E j \in 0..1, t \in 0..(BLOCK - 1) : DepositAt(b, row, j, t)
    BY <1>2, <2>1 DEF IInv, DepositInv
  <2>3. PICK j \in 0..1, t \in 0..(BLOCK - 1) : DepositAt(b, row, j, t)
    BY <2>2
  <2>4. /\ row = BLOCK * j + t + 1 /\ j \in Nat
        /\ out = IF Past(1, j, t) THEN <<note_hash(pi.amount, b, c.pkd)>> ELSE << >>
    BY <2>3 DEF DepositAt
  <2>5. j = 1 /\ t = BLOCK - 1
    BY <1>0, <2>1, <2>4, Windows
  <2>6. out = <<note_hash(pi.amount, b, c.pkd)>>
    BY <1>0, <2>4, <2>5 DEF Past
  <2>7. c.pkd \in Keys /\ out[1] = note_hash(pi.amount, b, c.pkd)
    BY <1>2, <2>6 DEF IInv, DepositInv
  <2> QED BY <2>7
<1> QED BY <1>1, <1>2 DEF ProofsBind

\* Nullifier, leaf, root, value and change of an accepted proof belong to one
\* note with the signer's key, for every number of rounds and every depth.
THEOREM ProofsBindCorrect == Spec => []ProofsBind
BY InvCorrect, InvBinds, PTL

\* The equation between the values, taken modulo the order of the field,
\* holds in the integers when all three are below 2^Half.
LEMMA NoWrap ==
    ASSUME NEW v \in U64, NEW cv \in U64, NEW price \in U64, NEW mode \in {0, 1},
           (v - mode * cv - price) % Modulus = 0, mode = 0 => cv = 0
    PROVE  v = price + cv
<1> DEFINE T == Pow2[Half]
           x == v - mode * cv - price
<1>1. v \in 0..(T - 1) /\ cv \in 0..(T - 1) /\ price \in 0..(T - 1)
  BY DEF U64
<1>2. T \in Nat /\ T > 0 /\ Modulus \in Nat /\ Modulus > 2 * T
  BY Room
<1>3. mode * cv = cv
  BY <1>1
<1>4. x = v - cv - price /\ x % Modulus = 0
  BY <1>3
<1> HIDE DEF T, x
<1>5. x \in Int /\ x < Modulus /\ -x < Modulus
  BY <1>1, <1>2, <1>4
<1>6. x = 0
  BY <1>2, <1>4, <1>5
<1> QED BY <1>1, <1>4, <1>6

\* In the last row both values have been checked, so the equation is exact.
LEMMA InvExact == IInv => ValueExact
<1> SUFFICES ASSUME IInv, Done, air = "spend" PROVE c.v \in U64 /\ c.cv \in U64 /\ c.v = pi.price + c.cv
  BY DEF ValueExact
<1>1. row > m_chk2 /\ row > m_rst
  <2>1. BLOCK * (2 * LEVELS + 5) = BLOCK * (4 + 2 * LEVELS) + BLOCK /\ BLOCK * (4 + 2 * LEVELS) \in Nat
    BY CircuitTypes
  <2>2. row = BLOCK * (4 + 2 * LEVELS) + BLOCK
    BY <2>1 DEF Done, EndOf, ACTIVE_BLOCKS
  <2> QED BY <2>1, <2>2, CircuitTypes
<1>2. c.v \in U64 /\ c.cv \in U64
  BY <1>1 DEF IInv, SpendInv, Ranged
<1>3. /\ (c.v - pi.mode * c.cv - pi.price) % Modulus = 0 /\ (pi.mode = 0 => c.cv = 0)
      /\ pi.mode \in {0, 1} /\ pi.price \in U64
  BY DEF IInv, SpendInv, Conserved, Inputs
<1> QED BY <1>2, <1>3, NoWrap

\* No note is worth more or less than what was paid and what is left, for
\* every field that leaves room for the difference of two values.
THEOREM ValueExactCorrect == Spec => []ValueExact
BY InvCorrect, InvExact, PTL

-------------------------------------------------------------------------------
(***************************************************************************)
(* The wallet's table                                                      *)
(***************************************************************************)
Last == EndOf("spend")

\* The last active row is the end of the last block.
LEMMA LastType == Last \in Nat /\ Last > 0 /\ Last = BLOCK * (AbsorbBlock(LEVELS) + 1)
<1>1. Last = BLOCK * (2 * LEVELS + 5) /\ 2 * LEVELS + 5 \in Nat
  BY CircuitTypes DEF Last, EndOf, ACTIVE_BLOCKS
<1>2. AbsorbBlock(LEVELS) + 1 = 2 * LEVELS + 5
  BY CircuitTypes DEF AbsorbBlock
<1>3. BLOCK * (2 * LEVELS + 5) = BLOCK * (2 * LEVELS) + 5 * BLOCK /\ BLOCK * (2 * LEVELS) \in Nat
  BY CircuitTypes
<1> QED BY <1>1, <1>2, <1>3, CircuitTypes

\* build_spend_trace satisfies its defining equation.
LEMMA TraceEquation ==
    ASSUME NEW w
    PROVE  LET T == build_spend_trace(w) IN
           /\ T[0] = FirstRow(w.v, w.b, w.cv, TraceBit(w, 0))
           /\ \A r \in 0..(Last - 1) :
                T[r + 1] = [T[r] EXCEPT !.state = TraceState(w, T[r], r + 1),
                                        !.bit = TraceBit(w, r + 1), !.aux = TraceAux(w, r + 1),
                                        !.r_hi = TraceRightHalf(w, T[r], r + 1),
                                        !.acc = TraceSum(w, r + 1), !.pow = TracePow(r + 1)]
<1> DEFINE first == FirstRow(w.v, w.b, w.cv, TraceBit(w, 0))
           Up(x, r) == [x EXCEPT !.state = TraceState(w, x, r),
                                 !.bit = TraceBit(w, r), !.aux = TraceAux(w, r),
                                 !.r_hi = TraceRightHalf(w, x, r),
                                 !.acc = TraceSum(w, r), !.pow = TracePow(r)]
           Eq(it, n) == it = [r \in 0..n |-> IF r = 0 THEN first ELSE Up(it[r - 1], r)]
           F == CHOOSE it : Eq(it, Last)
           S == {n \in 0..Last : \E it : Eq(it, n)}
<1>0. build_spend_trace(w) = F
  BY DEF build_spend_trace, Last
<1>00. Last \in Nat /\ 0 \in 0..Last /\ Last \in 0..Last
  BY LastType
<1>000. \A x, r : Up(x, r) = [x EXCEPT !.state = TraceState(w, x, r),
                                 !.bit = TraceBit(w, r), !.aux = TraceAux(w, r),
                                 !.r_hi = TraceRightHalf(w, x, r),
                                 !.acc = TraceSum(w, r), !.pow = TracePow(r)]
  OBVIOUS
<1> HIDE DEF Up, first
<1>1. 0 \in S
  <2>1. Eq([r \in 0..0 |-> first], 0)
    OBVIOUS
  <2>2. \E it : Eq(it, 0)
    BY <2>1
  <2> QED BY <1>00, <2>2
<1>2. ASSUME NEW n \in 0..(Last - 1), n \in S PROVE n + 1 \in S
  <2>1. PICK it : Eq(it, n)
    BY <1>2
  <2> DEFINE up == [r \in 0..(n + 1) |-> IF r = n + 1 THEN Up(it[n], r) ELSE it[r]]
  <2>2. ASSUME NEW r \in 0..(n + 1) PROVE up[r] = IF r = 0 THEN first ELSE Up(up[r - 1], r)
    <3>1. CASE r = n + 1
      <4>1. r - 1 = n /\ n \in 0..(n + 1) /\ n # n + 1 /\ r # 0
        BY <3>1
      <4> QED BY <3>1, <4>1
    <3>2. CASE r # n + 1
      <4>1. r \in 0..n /\ it[r] = IF r = 0 THEN first ELSE Up(it[r - 1], r)
        BY <2>1, <3>2
      <4>2. r # 0 => r - 1 \in 0..(n + 1) /\ r - 1 # n + 1
        BY <3>2
      <4> QED BY <3>2, <4>1, <4>2
    <3> QED BY <3>1, <3>2
  <2>3. Eq(up, n + 1)
    BY <2>2
  <2>4. n + 1 \in 0..Last
    BY <1>00
  <2> QED BY <2>3, <2>4
<1>3. Last \in S
  <2> HIDE DEF S
  <2> QED BY <1>00, <1>1, <1>2, Upwards
<1>4. Eq(F, Last)
  BY <1>3
<1>5. \A r \in 0..(Last - 1) : r + 1 \in 0..Last /\ r + 1 # 0 /\ (r + 1) - 1 = r
  BY <1>00
<1>6. F[0] = first /\ \A r \in 0..(Last - 1) : F[r + 1] = Up(F[r], r + 1)
  <2> HIDE DEF F
  <2> QED BY <1>00, <1>4, <1>5
<1> HIDE DEF F
<1> QED BY <1>0, <1>000, <1>6 DEF first

\* The cells of a row that do not depend on the row before it.
LEMMA TraceCells ==
    ASSUME NEW w, w.v \in U64
    PROVE  LET T == build_spend_trace(w) IN
           /\ \A r \in 0..Last :
                /\ DOMAIN T[r] = Cells
                /\ T[r].v = w.v /\ T[r].cv = w.cv /\ T[r].b = w.b
                /\ T[r].bit = TraceBit(w, r) /\ T[r].aux = TraceAux(w, r)
                /\ T[r].acc = TraceSum(w, r) /\ T[r].pow = TracePow(r)
           /\ T[0].state = Start("nullifier", Lo(w.b), Hi(w.b), Zero)
           /\ \A r \in 0..(Last - 1) :
                /\ T[r + 1].state = TraceState(w, T[r], r + 1)
                /\ T[r + 1].r_hi = TraceRightHalf(w, T[r], r + 1)
<1> DEFINE T == build_spend_trace(w)
           Good(r) == /\ DOMAIN T[r] = Cells
                      /\ T[r].v = w.v /\ T[r].cv = w.cv /\ T[r].b = w.b
                      /\ T[r].bit = TraceBit(w, r) /\ T[r].aux = TraceAux(w, r)
                      /\ T[r].acc = TraceSum(w, r) /\ T[r].pow = TracePow(r)
           S == {r \in 0..Last : Good(r)}
<1>1. T[0] = FirstRow(w.v, w.b, w.cv, TraceBit(w, 0))
  BY TraceEquation
<1>2. \A r \in 0..(Last - 1) :
        T[r + 1] = [T[r] EXCEPT !.state = TraceState(w, T[r], r + 1),
                                !.bit = TraceBit(w, r + 1), !.aux = TraceAux(w, r + 1),
                                !.r_hi = TraceRightHalf(w, T[r], r + 1),
                                !.acc = TraceSum(w, r + 1), !.pow = TracePow(r + 1)]
  BY TraceEquation
<1> HIDE DEF T
<1>3. 0 \in S /\ T[0].state = Start("nullifier", Lo(w.b), Hi(w.b), Zero)
  <2>1. /\ DOMAIN T[0] = Cells
        /\ T[0].v = w.v /\ T[0].cv = w.cv /\ T[0].b = w.b /\ T[0].bit = TraceBit(w, 0)
        /\ T[0].aux = Zero /\ T[0].acc = 0 /\ T[0].pow = 1
        /\ T[0].state = Start("nullifier", Lo(w.b), Hi(w.b), Zero)
    BY <1>1 DEF FirstRow, Cells
  <2>2. TraceAux(w, 0) = Zero
    <3>1. ~ InTree(0) /\ ~ (0 > STEP_LCHG)
      <4>1. STEP_MRK(0) \in Nat /\ STEP_LCHG \in Nat
        BY CircuitTypes DEF STEP_MRK, STEP_LCHG
      <4> QED BY <4>1 DEF InTree
    <3> QED BY <3>1 DEF TraceAux
  <2>3. TraceSum(w, 0) = 0 /\ TracePow(0) = 1
    <3>1. w.v \in Nat
      BY Room DEF U64
    <3>2. w.v % 1 = 0 /\ 0 < Half
      BY <3>1, CircuitTypes
    <3> QED BY <3>2, Pow2Equation DEF TraceSum, TracePow
  <2> QED BY <2>1, <2>2, <2>3, LastType
<1>4. ASSUME NEW r \in 0..(Last - 1), r \in S
      PROVE  /\ r + 1 \in S
             /\ T[r + 1].state = TraceState(w, T[r], r + 1)
             /\ T[r + 1].r_hi = TraceRightHalf(w, T[r], r + 1)
  <2>1. Good(r) /\ r + 1 \in 0..Last
    BY <1>4, LastType
  <2>2. /\ Good(r + 1)
        /\ T[r + 1].state = TraceState(w, T[r], r + 1)
        /\ T[r + 1].r_hi = TraceRightHalf(w, T[r], r + 1)
    BY <1>2, <2>1 DEF Cells
  <2> QED BY <2>1, <2>2
<1>5. \A r \in 0..Last : r \in S
  <2> HIDE DEF S
  <2> QED BY <1>3, <1>4, LastType, Upwards
<1>6. \A r \in 0..(Last - 1) : r \in 0..Last
  BY LastType
<1> QED BY <1>3, <1>4, <1>5, <1>6 DEF T

\* The low bits of a number, with one more bit.
LEMMA OneMoreBit ==
    ASSUME NEW x \in U64, NEW n \in 0..(Half - 1)
    PROVE  /\ x % Pow2[n] \in 0..(Pow2[n] - 1) /\ BitOf(x, n) \in {0, 1}
           /\ (x % Pow2[n]) + BitOf(x, n) * Pow2[n] = x % Pow2[n + 1]
           /\ x % Pow2[Half] = x
<1> DEFINE P == Pow2[n]
           q == x \div P
           m == x % P
           h == q \div 2
           b == q % 2
<1>1. P \in Nat /\ P > 0 /\ Pow2[n + 1] = 2 * P /\ x \in Nat
  BY CircuitTypes, Pow2Equation, Pow2Type, Room DEF U64
<1>2. q \in Nat /\ m \in 0..(P - 1) /\ x = P * q + m
  <2> HIDE DEF P
  <2> QED BY <1>1
<1>3. h \in Nat /\ b \in {0, 1} /\ q = 2 * h + b
  <2> HIDE DEF q
  <2> QED BY <1>2
<1>4. BitOf(x, n) = b
  BY DEF BitOf
<1>5. x % (2 * P) = b * P + m
  <2> HIDE DEF P, q, m, h, b
  <2>1. P * q = (2 * P) * h + b * P
    <3>1. CASE b = 0
      BY <1>1, <1>3, <3>1
    <3>2. CASE b = 1
      BY <1>1, <1>3, <3>2
    <3> QED BY <1>3, <3>1, <3>2
  <2>2. b * P + m \in 0..(2 * P - 1)
    BY <1>1, <1>2, <1>3
  <2>3. x = (2 * P) * h + (b * P + m)
    <3>1. (2 * P) * h \in Nat /\ b * P \in Nat
      BY <1>1, <1>3
    <3> QED BY <1>2, <2>1, <3>1
  <2>4. 2 * P \in Nat /\ 2 * P > 0
    BY <1>1
  <2> DEFINE nn == 2 * P
             ss == b * P + m
  <2>5. nn \in Nat /\ nn > 0 /\ ss \in 0..(nn - 1) /\ x = nn * h + ss
    BY <2>2, <2>3, <2>4
  <2> HIDE DEF nn, ss
  <2>6. x % nn = ss
    BY <1>3, <2>5, Division
  <2> QED BY <2>6 DEF nn, ss
<1>6. x % Pow2[Half] = x
  BY Room DEF U64
<1>7. b * P = BitOf(x, n) * Pow2[n]
  BY <1>4
<1> HIDE DEF P, q, m, h, b
<1>8. m + b * P = b * P + m
  BY <1>1, <1>2, <1>3
<1> QED BY <1>1, <1>2, <1>3, <1>4, <1>5, <1>6, <1>8 DEF P, m

\* The rows of a level of the tree.
LEMMA TreeRows ==
    /\ \A d \in Levels : \A u \in 1..(2 * BLOCK) :
         InTree(STEP_MRK(d) + u) /\ LevelOf(STEP_MRK(d) + u) = d
    /\ \A r \in Nat : InTree(r) => \E d \in Levels, u \in 1..(2 * BLOCK) : r = STEP_MRK(d) + u
    /\ \A d \in Levels : STEP_MRK(d) \in Nat
    /\ STEP_LCHG \in Nat /\ STEP_MRK(0) = 3 * BLOCK
<1> DEFINE n == 2 * BLOCK
<1>0. n \in Nat /\ n > 0 /\ BLOCK \in Nat /\ LEVELS \in Nat /\ LEVELS > 0
  BY CircuitTypes
<1>1. \A d \in 0..LEVELS : n * d \in Nat /\ STEP_MRK(d) = 3 * BLOCK + n * d
  <2> SUFFICES ASSUME NEW d \in 0..LEVELS PROVE n * d \in Nat /\ STEP_MRK(d) = 3 * BLOCK + n * d
    OBVIOUS
  <2>1. 2 * BLOCK * d = n * d /\ n * d \in Nat
    BY <1>0
  <2> HIDE DEF n
  <2> QED BY <1>0, <2>1 DEF STEP_MRK
<1>2. STEP_MRK(0) = 3 * BLOCK /\ STEP_LCHG = 3 * BLOCK + n * LEVELS /\ n * LEVELS \in Nat
  <2>1. STEP_MRK(0) = 3 * BLOCK + n * 0 /\ STEP_LCHG = 3 * BLOCK + n * LEVELS /\ n * LEVELS \in Nat
    BY <1>0, <1>1 DEF STEP_LCHG
  <2>2. n * 0 = 0
    BY <1>0
  <2> HIDE DEF n
  <2> QED BY <1>0, <2>1, <2>2
<1>3. ASSUME NEW d \in Levels, NEW u \in 1..n
      PROVE  InTree(STEP_MRK(d) + u) /\ LevelOf(STEP_MRK(d) + u) = d
  <2>1. d \in Nat /\ d \in 0..LEVELS /\ d < LEVELS /\ u - 1 \in 0..(n - 1)
    BY <1>0 DEF Levels
  <2>2. STEP_MRK(d) = 3 * BLOCK + n * d /\ n * d \in Nat
    BY <1>1, <2>1
  <2>3. n * d + (u - 1) < n * LEVELS + 0
    BY <1>0, <2>1, Lexicographic
  <2>4. (n * d + (u - 1)) \div n = d
    BY <1>0, <2>1, Division
  <2>5. (STEP_MRK(d) + u) - 1 - STEP_MRK(0) = n * d + (u - 1)
    <3> HIDE DEF n
    <3> QED BY <1>0, <1>2, <2>2
  <2>6. LevelOf(STEP_MRK(d) + u) = d
    BY <2>4, <2>5 DEF LevelOf
  <2>7. STEP_MRK(d) + u \in (STEP_MRK(0) + 1)..STEP_LCHG
    <3> HIDE DEF n
    <3> QED BY <1>0, <1>2, <2>2, <2>3
  <2> QED BY <2>6, <2>7 DEF InTree
<1>4. ASSUME NEW r \in Nat, InTree(r) PROVE \E d \in Levels, u \in 1..n : r = STEP_MRK(d) + u
  <2> DEFINE x == r - 1 - 3 * BLOCK
             d == x \div n
             m == x % n
  <2>1. x \in Nat /\ x < n * LEVELS
    <3> HIDE DEF n
    <3> QED BY <1>0, <1>2, <1>4 DEF InTree
  <2>2. d \in Nat /\ m \in 0..(n - 1) /\ x = n * d + m
    <3> HIDE DEF x, n
    <3> QED BY <1>0, <2>1
  <2>3. d < LEVELS
    <3> HIDE DEF x, d, m
    <3>1. n * d + m < n * LEVELS + 0 /\ 0 \in 0..(n - 1)
      BY <1>0, <1>2, <2>1, <2>2
    <3> QED BY <1>0, <2>2, <3>1, Lexicographic
  <2> HIDE DEF d, m
  <2>4. d \in Levels /\ d \in 0..LEVELS /\ m + 1 \in 1..n
    BY <1>0, <2>2, <2>3 DEF Levels
  <2>5. STEP_MRK(d) = 3 * BLOCK + n * d /\ n * d \in Nat
    BY <1>1, <2>4
  <2>6. r = STEP_MRK(d) + (m + 1)
    <3> HIDE DEF n
    <3> QED BY <1>0, <2>2, <2>5
  <2> QED BY <2>4, <2>6
<1>5. \A d \in Levels : STEP_MRK(d) \in Nat
  <2> HIDE DEF n
  <2> QED BY <1>0, <1>1 DEF Levels
<1>6. STEP_LCHG \in Nat
  <2> HIDE DEF n
  <2> QED BY <1>0, <1>2
<1> QED BY <1>2, <1>3, <1>4, <1>5, <1>6

\* A witness of the right types for the public inputs p.
Fits(w, p) ==
    /\ w.v \in U64 /\ w.cv \in U64
    /\ w.index \in Indices /\ w.siblings \in Paths /\ w.cb \in Blindings \cup {Zero}
    /\ p.pkd = w.pkd /\ p.change_pkd = w.cpkd

\* Row r of its table, as far as it does not depend on the rows before.
Honest(w, cell, r) ==
    /\ DOMAIN cell = Cells
    /\ cell.v = w.v /\ cell.cv = w.cv /\ cell.b = w.b
    /\ cell.bit = TraceBit(w, r) /\ cell.aux = TraceAux(w, r)
    /\ cell.acc = TraceSum(w, r) /\ cell.pow = TracePow(r)

\* The rows of a level hold its bit and its sibling.
LEMMA TreeCells ==
    ASSUME NEW w, NEW d \in Levels, NEW u \in 1..(2 * BLOCK)
    PROVE  /\ TraceBit(w, STEP_MRK(d) + u) = w.index[d]
           /\ TraceAux(w, STEP_MRK(d) + u) = w.siblings[d]
<1>1. InTree(STEP_MRK(d) + u) /\ LevelOf(STEP_MRK(d) + u) = d
  BY TreeRows
<1>2. ~ (STEP_MRK(d) + u < BLOCK)
  <2> DEFINE x == STEP_MRK(d) + u
  <2>1. x \in (3 * BLOCK + 1)..STEP_LCHG
    BY <1>1, TreeRows DEF InTree
  <2> HIDE DEF x
  <2>2. ~ (x < BLOCK)
    BY <2>1, CircuitTypes
  <2> QED BY <2>2 DEF x
<1> QED BY <1>1, <1>2 DEF TraceBit, TraceAux

\* A row in the tree that is no link is in the same level as the row after it.
LEMMA SameLevel ==
    ASSUME NEW r \in Nat, InTree(r + 1)
    PROVE  \E d \in Levels, u \in 1..(2 * BLOCK) :
             /\ r + 1 = STEP_MRK(d) + u
             /\ r \in m_mrk <=> u = 1
             /\ r \notin m_mrk => u - 1 \in 1..(2 * BLOCK) /\ r = STEP_MRK(d) + (u - 1)
<1>0. BLOCK \in Nat /\ BLOCK > 0 /\ LEVELS \in Nat
  BY CircuitTypes
<1>1. PICK d \in Levels, u \in 1..(2 * BLOCK) : r + 1 = STEP_MRK(d) + u
  BY TreeRows
<1>2. STEP_MRK(d) \in Nat /\ r = STEP_MRK(d) + (u - 1)
  BY <1>0, <1>1, TreeRows
<1>3. CASE u = 1
  <2>1. r = STEP_MRK(d)
    BY <1>2, <1>3
  <2>2. r \in m_mrk
    BY <2>1 DEF m_mrk, Levels
  <2> QED BY <1>1, <1>3, <2>2
<1>4. CASE u # 1
  <2>1. u - 1 \in 1..(2 * BLOCK)
    BY <1>0, <1>4
  <2>2. r \notin m_mrk
    <3> SUFFICES ASSUME r \in m_mrk PROVE FALSE
      OBVIOUS
    <3>1. PICK e \in Levels : r = STEP_MRK(e)
      BY DEF m_mrk, Levels
    <3>2. r + 1 = STEP_MRK(e) + 1 /\ 1 \in 1..(2 * BLOCK)
      BY <1>0, <3>1, TreeRows
    <3>3. LevelOf(r + 1) = d /\ LevelOf(r + 1) = e
      BY <1>1, <3>2, TreeRows
    <3>4. STEP_MRK(d) = STEP_MRK(e)
      BY <3>3
    <3> QED BY <1>0, <1>2, <1>4, <3>1, <3>4
  <2> QED BY <1>1, <1>2, <1>4, <2>1, <2>2
<1> QED BY <1>3, <1>4

\* The wallet's bit cells are bits ...
LEMMA BitType ==
    ASSUME NEW w, w.v \in U64, w.cv \in U64, w.index \in Indices, NEW r \in Nat
    PROVE  TraceBit(w, r) \in {0, 1}
<1>0. Half \in Nat /\ Half > 0 /\ BLOCK = 2 * Half
  BY CircuitTypes
<1>1. CASE r < Half
  <2>1. r \in 0..(Half - 1) /\ r < BLOCK
    BY <1>0, <1>1
  <2> QED BY <1>1, <2>1, OneMoreBit DEF TraceBit
<1>2. CASE r < BLOCK /\ ~ (r < Half)
  <2>1. r - Half \in 0..(Half - 1)
    BY <1>0, <1>2
  <2> QED BY <1>2, <2>1, OneMoreBit DEF TraceBit
<1>3. CASE ~ (r < BLOCK) /\ InTree(r)
  <2>1. PICK d \in Levels, u \in 1..(2 * BLOCK) : r = STEP_MRK(d) + u
    BY <1>3, TreeRows
  <2>2. w.index[d] \in {0, 1}
    BY DEF Indices, Levels
  <2> QED BY <2>1, <2>2, TreeCells
<1>4. CASE ~ (r < BLOCK) /\ ~ InTree(r)
  BY <1>4 DEF TraceBit
<1> QED BY <1>0, <1>1, <1>2, <1>3, <1>4

\* ... the bit of the next row is one the constraints allow ...
LEMMA HonestBit ==
    ASSUME NEW w, NEW p, Fits(w, p), NEW r \in Nat, NEW cell, Honest(w, cell, r)
    PROVE  TraceBit(w, r + 1) \in Bits(cell, r)
<1>0. /\ BLOCK \in Nat /\ BLOCK > 0 /\ m_chk2 = BLOCK - 1
      /\ STEP_MRK(0) = 3 * BLOCK /\ STEP_LCHG \in Nat /\ cell.bit = TraceBit(w, r)
  BY CircuitTypes, TreeRows DEF Honest
<1>1. CASE m_bitfrz(r)
  <2>1. InTree(r + 1) /\ r \notin m_mrk
    BY <1>0, <1>1 DEF m_bitfrz, InTree
  <2>2. PICK d \in Levels, u \in 1..(2 * BLOCK) :
          r + 1 = STEP_MRK(d) + u /\ u - 1 \in 1..(2 * BLOCK) /\ r = STEP_MRK(d) + (u - 1)
    BY <2>1, SameLevel
  <2>3. TraceBit(w, r + 1) = w.index[d] /\ TraceBit(w, r) = w.index[d]
    BY <2>2, TreeCells
  <2> QED BY <1>0, <1>1, <2>3 DEF Bits
<1>2. CASE ~ m_bitfrz(r) /\ (r < m_chk2 \/ r \in m_mrk)
  <2>1. TraceBit(w, r + 1) \in {0, 1}
    BY BitType DEF Fits
  <2> QED BY <1>2, <2>1 DEF Bits
<1>3. CASE ~ m_bitfrz(r) /\ ~ (r < m_chk2) /\ r \notin m_mrk
  <2>1. ~ InTree(r + 1) /\ ~ (r + 1 < BLOCK)
    BY <1>0, <1>3 DEF m_bitfrz, InTree
  <2> QED BY <1>3, <2>1 DEF Bits, TraceBit
<1> QED BY <1>1, <1>2, <1>3

\* ... so are its sibling and its blinding of the change ...
LEMMA HonestAux ==
    ASSUME NEW w, NEW p, Fits(w, p), NEW r \in Nat, NEW cell, Honest(w, cell, r)
    PROVE  /\ TraceAux(w, r + 1) \in Aux(cell, r)
           /\ r = STEP_LCHG => TraceAux(w, r + 1) = w.cb
<1>0. /\ BLOCK \in Nat /\ BLOCK > 0 /\ STEP_MRK(0) = 3 * BLOCK /\ STEP_LCHG \in Nat
      /\ cell.aux = TraceAux(w, r) /\ STEP_MRK(0) <= STEP_LCHG
  <2>1. STEP_MRK(0) <= STEP_LCHG
    <3>1. 0 \in Levels /\ 1 \in 1..(2 * BLOCK)
      BY CircuitTypes DEF Levels
    <3>2. InTree(STEP_MRK(0) + 1)
      BY <3>1, TreeRows
    <3> QED BY <3>2, TreeRows, CircuitTypes DEF InTree
  <2> QED BY <2>1, CircuitTypes, TreeRows DEF Honest
<1>1. CASE r = STEP_LCHG
  <2>1. ~ InTree(r + 1) /\ r + 1 > STEP_LCHG /\ ~ m_auxfrz(r)
    BY <1>0, <1>1 DEF InTree, m_auxfrz
  <2>2. TraceAux(w, r + 1) = w.cb
    BY <2>1 DEF TraceAux
  <2> QED BY <1>1, <2>1, <2>2 DEF Aux, Fits
<1>2. CASE r # STEP_LCHG /\ r \in m_mrk
  <2>1. PICK d \in Levels : r = STEP_MRK(d)
    BY <1>2 DEF m_mrk, Levels
  <2>2. 1 \in 1..(2 * BLOCK) /\ r + 1 = STEP_MRK(d) + 1
    BY <1>0, <2>1
  <2>3. TraceAux(w, r + 1) = w.siblings[d]
    BY <2>2, TreeCells
  <2>4. w.siblings[d] \in Siblings
    BY DEF Fits, Paths, Levels
  <2> QED BY <1>2, <2>3, <2>4 DEF Aux, m_auxfrz
<1>3. CASE r # STEP_LCHG /\ r \notin m_mrk
  <2>1. m_auxfrz(r)
    BY <1>3 DEF m_auxfrz
  <2>2. TraceAux(w, r + 1) = TraceAux(w, r)
    <3>1. CASE InTree(r + 1)
      <4>1. PICK d \in Levels, u \in 1..(2 * BLOCK) :
              r + 1 = STEP_MRK(d) + u /\ u - 1 \in 1..(2 * BLOCK) /\ r = STEP_MRK(d) + (u - 1)
        BY <1>3, <3>1, SameLevel
      <4> QED BY <4>1, TreeCells
    <3>2. CASE ~ InTree(r + 1)
      <4>1. ~ InTree(r) /\ (r > STEP_LCHG <=> r + 1 > STEP_LCHG)
        BY <1>0, <1>3, <3>2 DEF InTree
      <4> QED BY <3>2, <4>1 DEF TraceAux
    <3> QED BY <3>1, <3>2
  <2> QED BY <1>0, <1>3, <2>1, <2>2 DEF Aux
<1> QED BY <1>1, <1>2, <1>3

\* ... and the half of the right child it carries.
LEMMA HonestHalf ==
    ASSUME NEW w, NEW r \in Nat, NEW cell
    PROVE  TraceRightHalf(w, cell, r + 1) \in RightHalves(cell, TraceBit(w, r + 1), TraceAux(w, r + 1), r)
<1>0. (r + 1) - 1 = r
  OBVIOUS
<1>1. CASE r \in m_mrk
  <2>1. PICK d \in Levels : r = STEP_MRK(d)
    BY <1>1 DEF m_mrk, Levels
  <2>2. 1 \in 1..(2 * BLOCK) /\ r + 1 = STEP_MRK(d) + 1
    BY CircuitTypes, <2>1
  <2>3. InTree(r + 1)
    BY <2>2, TreeRows
  <2>4. TraceAux(w, r + 1) = w.siblings[LevelOf(r + 1)]
    BY <2>3 DEF TraceAux
  <2> QED BY <1>0, <1>1, <2>3, <2>4 DEF TraceRightHalf, RightHalves, RightHalf
<1>2. CASE r \notin m_mrk
  BY <1>0, <1>2 DEF TraceRightHalf, RightHalves, m_rhifrz
<1> QED BY <1>1, <1>2

\* The wallet's sums are those of the bits, and the checks accept them.
LEMMA HonestSum ==
    ASSUME NEW w, NEW p, Fits(w, p), NEW r \in Nat, NEW cell, Honest(w, cell, r)
    PROVE  /\ SumsOk(cell, r)
           /\ TraceSum(w, r + 1) = Acc(cell, r) /\ TracePow(r + 1) = Pow(cell, r)
<1>0. /\ Half \in Nat /\ Half > 0 /\ BLOCK = 2 * Half /\ m_rst = Half - 1 /\ m_chk2 = BLOCK - 1
      /\ w.v \in U64 /\ w.cv \in U64 /\ w.v \in Nat /\ w.cv \in Nat
      /\ cell.v = w.v /\ cell.cv = w.cv /\ cell.bit = TraceBit(w, r)
      /\ cell.acc = TraceSum(w, r) /\ cell.pow = TracePow(r)
  BY CircuitTypes, Room DEF Honest, Fits, U64
\* A row that adds bit number n of x.
<1>1. ASSUME NEW x \in U64, NEW n \in 0..(Half - 1), cell.bit = BitOf(x, n),
             cell.acc = x % Pow2[n], cell.pow = Pow2[n]
      PROVE  /\ Sum(cell) = x % Pow2[n + 1] /\ (2 * cell.pow) % Modulus = Pow2[n + 1]
             /\ n = Half - 1 => Sum(cell) = x
  <2>1. cell.bit \in {0, 1} /\ cell.acc \in 0..(Pow2[n] - 1)
    BY <1>1, OneMoreBit
  <2>2. /\ Sum(cell) = cell.acc + cell.bit * Pow2[n]
        /\ (2 * cell.pow) % Modulus = Pow2[n + 1]
    BY <1>1, <2>1, SumStep
  <2>3. /\ (x % Pow2[n]) + BitOf(x, n) * Pow2[n] = x % Pow2[n + 1]
        /\ x % Pow2[Half] = x
    BY OneMoreBit
  <2>4. Sum(cell) = x % Pow2[n + 1]
    BY <1>1, <2>2, <2>3
  <2>5. n = Half - 1 => n + 1 = Half
    BY <1>0
  <2> QED BY <2>2, <2>3, <2>4, <2>5
<1>2. CASE r < Half
  <2>2. r \in 0..(Half - 1) /\ r < BLOCK /\ (r < m_chk2 \/ r = m_rst)
    BY <1>0, <1>2
  <2>3. cell.bit = BitOf(w.v, r) /\ cell.acc = w.v % Pow2[r] /\ cell.pow = Pow2[r]
    BY <1>0, <1>2, <2>2 DEF TraceBit, TraceSum, TracePow
  <2>4. /\ Sum(cell) = w.v % Pow2[r + 1] /\ (2 * cell.pow) % Modulus = Pow2[r + 1]
        /\ r = Half - 1 => Sum(cell) = w.v
    BY <1>0, <1>1, <2>2, <2>3
  <2>5. CASE r = m_rst
    <3>1. ~ (r + 1 < Half) /\ r + 1 < BLOCK /\ (r + 1) - Half = 0 /\ r # m_chk2 /\ r = Half - 1
      BY <1>0, <2>5
    <3>2. TraceSum(w, r + 1) = w.cv % Pow2[0] /\ TracePow(r + 1) = Pow2[0]
      BY <3>1 DEF TraceSum, TracePow
    <3>3. w.cv % 1 = 0
      BY <1>0
    <3> QED BY <1>0, <2>4, <2>5, <3>1, <3>2, <3>3, Pow2Equation DEF SumsOk, Acc, Pow
  <2>6. CASE r # m_rst
    <3>1. r + 1 < Half /\ r < m_chk2 /\ r # m_chk2
      BY <1>0, <1>2, <2>6
    <3> QED BY <2>4, <2>6, <3>1 DEF SumsOk, Acc, Pow, TraceSum, TracePow
  <2> QED BY <2>5, <2>6
<1>3. CASE ~ (r < Half) /\ r < BLOCK
  <2> DEFINE n == r - Half
  <2>1. n \in 0..(Half - 1) /\ n + 1 = (r + 1) - Half /\ r # m_rst /\ ~ (r + 1 < Half)
    BY <1>0, <1>3
  <2>2. cell.bit = BitOf(w.cv, n) /\ cell.acc = w.cv % Pow2[n] /\ cell.pow = Pow2[n]
    BY <1>0, <1>3 DEF TraceBit, TraceSum, TracePow
  <2>3. /\ Sum(cell) = w.cv % Pow2[n + 1] /\ (2 * cell.pow) % Modulus = Pow2[n + 1]
        /\ n = Half - 1 => Sum(cell) = w.cv
    BY <1>0, <1>1, <2>1, <2>2
  <2>4. CASE r = m_chk2
    <3>1. n = Half - 1 /\ ~ (r + 1 < BLOCK) /\ ~ (r < m_chk2) /\ r # m_rst
      BY <1>0, <2>1, <2>4
    <3>2. TraceSum(w, r + 1) = w.cv % Pow2[n] /\ TracePow(r + 1) = Pow2[n]
      BY <2>1, <2>4, <3>1 DEF TraceSum, TracePow
    <3> HIDE DEF n
    <3> QED BY <1>0, <2>2, <2>3, <2>4, <3>1, <3>2 DEF SumsOk, Acc, Pow
  <2>5. CASE r # m_chk2
    <3>1. r < m_chk2 /\ r + 1 < BLOCK
      BY <1>0, <1>3, <2>5
    <3>2. TraceSum(w, r + 1) = w.cv % Pow2[n + 1] /\ TracePow(r + 1) = Pow2[n + 1]
      BY <2>1, <3>1 DEF TraceSum, TracePow
    <3> HIDE DEF n
    <3> QED BY <2>1, <2>3, <2>5, <3>1, <3>2 DEF SumsOk, Acc, Pow
  <2> QED BY <2>4, <2>5
<1>4. CASE ~ (r < BLOCK)
  <2>1. /\ ~ (r < Half) /\ ~ (r + 1 < Half) /\ ~ (r + 1 < BLOCK) /\ r # m_rst /\ r # m_chk2
        /\ ~ (r < m_chk2)
    BY <1>0, <1>4
  <2> QED BY <1>0, <1>4, <2>1 DEF SumsOk, Acc, Pow, TraceSum, TracePow
<1> QED BY <1>0, <1>2, <1>3, <1>4

\* Within a block, and in row 0, the next state is a round or the same state.
LEMMA MidBlock ==
    ASSUME NEW cell, NEW r, NEW p, NEW bit, NEW aux, NEW j \in Nat, NEW s \in 0..(BLOCK - 1),
           r = BLOCK * j + s, s # 0 \/ j = 0
    PROVE  NextState(cell, bit, aux, r, p) =
             IF s \in 1..Half THEN Round(cell.state, s - 1) ELSE cell.state
<1>0. Half \in Nat /\ LEVELS \in Nat /\ \A d \in Levels : d \in Nat
  BY CircuitTypes DEF Levels
<1>1. /\ r % BLOCK = s
      /\ m_rnd(r) <=> s \in 1..Half
      /\ m_frz(r) <=> (j = 0 /\ s = 0) \/ s > Half
      /\ r = STEP_LNOTE <=> j = 1 /\ s = 0
      /\ r = STEP_ANOTE <=> j = 2 /\ s = 0
      /\ r \in m_mrk  <=> s = 0 /\ \E d \in Levels : j = LinkBlock(d)
      /\ r \in m_amrk <=> s = 0 /\ \E d \in Levels : j = AbsorbBlock(d)
      /\ r = STEP_LCHG <=> j = LinkBlock(LEVELS) /\ s = 0
      /\ r = STEP_ACHG <=> j = AbsorbBlock(LEVELS) /\ s = 0
  BY Schedule
<1>2. /\ \A d \in Levels : LinkBlock(d) # 0 /\ AbsorbBlock(d) # 0
      /\ LinkBlock(LEVELS) # 0 /\ AbsorbBlock(LEVELS) # 0
  BY <1>0 DEF LinkBlock, AbsorbBlock
<1>3. /\ r # STEP_LNOTE /\ r # STEP_ANOTE /\ r # STEP_LCHG /\ r # STEP_ACHG
      /\ r \notin m_mrk /\ r \notin m_amrk
  BY <1>1, <1>2
<1>4. CASE s \in 1..Half
  <2>1. m_rnd(r) /\ ~ m_frz(r)
    BY <1>0, <1>1, <1>4
  <2> QED BY <1>1, <1>3, <1>4, <2>1 DEF NextState
<1>5. CASE s \notin 1..Half
  <2>1. ~ m_rnd(r) /\ m_frz(r)
    BY <1>0, <1>1, <1>5
  <2> QED BY <1>3, <1>5, <2>1 DEF NextState
<1> QED BY <1>4, <1>5

\* The wallet starts and continues every block the way the masks demand.
LEMMA HonestState ==
    ASSUME NEW w, NEW p, Fits(w, p), NEW r \in 0..(Last - 1), NEW cell, Honest(w, cell, r)
    PROVE  TraceState(w, cell, r + 1) =
             NextState(cell, TraceBit(w, r + 1), TraceAux(w, r + 1), r, p)
<1> DEFINE j == r \div BLOCK
           s == r % BLOCK
           bit == TraceBit(w, r + 1)
           aux == TraceAux(w, r + 1)
           N == AbsorbBlock(LEVELS)
<1>0. /\ BLOCK \in Nat /\ BLOCK > 0 /\ BLOCK >= 2 /\ Half \in Nat /\ LEVELS \in Nat /\ LEVELS > 0
      /\ r \in Nat /\ r < Last /\ N \in Nat /\ Last = BLOCK * (N + 1)
      /\ \A d \in Levels : d \in Nat /\ d < LEVELS
      /\ cell.v = w.v /\ cell.cv = w.cv /\ cell.b = w.b
      /\ p.pkd = w.pkd /\ p.change_pkd = w.cpkd
  BY CircuitTypes, LastType DEF Honest, Fits, AbsorbBlock, Levels
<1>1. j \in Nat /\ s \in 0..(BLOCK - 1) /\ r = BLOCK * j + s /\ (r + 1) - 1 = r
  <2> HIDE DEF N
  <2> QED BY <1>0
<1> HIDE DEF j
<1>2. j <= N
  <2>1. r < BLOCK * (N + 1) /\ N + 1 \in Nat
    BY <1>0
  <2> HIDE DEF N, s
  <2>2. j < N + 1
    BY <1>1, <2>1, Schedule
  <2> QED BY <1>0, <1>1, <2>2
<1>3. CASE s # 0 \/ j = 0
  <2>1. ~ (s = 0 /\ r + 1 > 1)
    <3> HIDE DEF s
    <3>1. j = 0 => BLOCK * j = 0
      BY <1>0
    <3> QED BY <1>0, <1>1, <1>3, <3>1
  <2>2. TraceState(w, cell, r + 1) = IF s \in 1..Half THEN Round(cell.state, s - 1) ELSE cell.state
    BY <1>1, <2>1 DEF TraceState
  <2> HIDE DEF s, bit, aux
  <2>3. NextState(cell, bit, aux, r, p) =
          IF s \in 1..Half THEN Round(cell.state, s - 1) ELSE cell.state
    BY <1>1, <1>3, MidBlock
  <2> QED BY <2>2, <2>3 DEF bit, aux
<1>4. CASE s = 0 /\ j # 0
  <2>0. j \in 1..N /\ r = BLOCK * j /\ r + 1 > 1
    <3> HIDE DEF s, N
    <3>1. BLOCK * j \in Nat /\ BLOCK * j > 0
      BY <1>0, <1>1, <1>4
    <3> QED BY <1>0, <1>1, <1>2, <1>4, <3>1
  <2>1. (r + 1) \div BLOCK = j
    <3>1. 1 \in 0..(BLOCK - 1) /\ r + 1 = BLOCK * j + 1
      BY <1>0, <2>0
    <3> QED BY <1>0, <1>1, <3>1, Division
  <2>2. TraceState(w, cell, r + 1) = BlockStart(w, cell, j)
    BY <1>1, <1>4, <2>0, <2>1 DEF TraceState
  <2> DEFINE st == NextState(cell, bit, aux, r, p)
             last == 2 * LEVELS + 3
  <2>3. /\ j = 1 => st = Start("note", cell.v, Lo(cell.b), Hi(cell.b))
        /\ j = 2 => st = Absorb(cell.state, Lo(p.pkd), Hi(p.pkd))
        /\ \A d \in Levels : j = LinkBlock(d) => st = MerkleLink(cell, bit, aux)
        /\ \A d \in Levels : j = AbsorbBlock(d) => st = Absorb(cell.state, cell.r_hi, Zero)
        /\ j = LinkBlock(LEVELS) =>
             st = Start("note", cell.cv, Lo(aux), Hi(aux)) /\ r = STEP_LCHG
        /\ j = AbsorbBlock(LEVELS) => st = Absorb(cell.state, Lo(p.change_pkd), Hi(p.change_pkd))
    <3> HIDE DEF bit, aux
    <3> QED BY <2>0, BlockStarts
  <2> HIDE DEF st, s
  <2>4. CASE j = 1
    <3>1. j # 2 /\ j \notin 3..(last - 1) /\ j # last /\ j # last + 1
      BY <1>0, <2>4
    <3>2. BlockStart(w, cell, j) = Start("note", w.v, Lo(w.b), Hi(w.b))
      BY <2>4, <3>1 DEF BlockStart
    <3> QED BY <1>0, <2>2, <2>3, <2>4, <3>2 DEF st
  <2>5. CASE j = 2
    <3>1. j # 1 /\ j \notin 3..(last - 1) /\ j # last /\ j # last + 1
      BY <1>0, <2>5
    <3>2. BlockStart(w, cell, j) = Absorb(cell.state, Lo(w.pkd), Hi(w.pkd))
      BY <2>5, <3>1 DEF BlockStart
    <3> QED BY <1>0, <2>2, <2>3, <2>5, <3>2 DEF st
  <2>6. ASSUME NEW d \in Levels, j = LinkBlock(d) PROVE BlockStart(w, cell, j) = st
    <3>1. /\ j # 1 /\ j # 2 /\ j \in 3..(last - 1) /\ j # last /\ j # last + 1
          /\ j % 2 = 1 /\ j % 2 # 0 /\ (j - 3) \div 2 = d
      BY <1>0, <2>6 DEF LinkBlock
    <3>2. BlockStart(w, cell, j) =
            IF w.index[d] = 1
            THEN Start("merkle", Lo(w.siblings[d]), Hi(w.siblings[d]), Lo(cell.state))
            ELSE Start("merkle", Lo(cell.state), Hi(cell.state), Lo(w.siblings[d]))
      BY <3>1 DEF BlockStart
    <3>3. r = STEP_MRK(d)
      <4>1. 0 \in 0..(BLOCK - 1) /\ r = BLOCK * j + 0 /\ d \in 0..LEVELS
        BY <1>0, <1>1, <2>0
      <4> QED BY <1>1, <2>6, <4>1, Schedule
    <3>4. bit = w.index[d] /\ aux = w.siblings[d]
      <4>1. 1 \in 1..(2 * BLOCK) /\ r + 1 = STEP_MRK(d) + 1
        BY <1>0, <3>3
      <4> QED BY <4>1, TreeCells
    <3> HIDE DEF bit, aux
    <3> QED BY <2>3, <2>6, <3>2, <3>4 DEF MerkleLink
  <2>7. ASSUME NEW d \in Levels, j = AbsorbBlock(d) PROVE BlockStart(w, cell, j) = st
    <3>1. /\ j # 1 /\ j # 2 /\ j \in 3..(last - 1) /\ j # last /\ j # last + 1
          /\ j % 2 # 1 /\ j % 2 = 0
      BY <1>0, <2>7 DEF AbsorbBlock
    <3>2. BlockStart(w, cell, j) = Absorb(cell.state, cell.r_hi, Zero)
      BY <3>1 DEF BlockStart
    <3> QED BY <2>3, <2>7, <3>2
  <2>8. ASSUME j = LinkBlock(LEVELS) PROVE BlockStart(w, cell, j) = st
    <3>1. j # 1 /\ j # 2 /\ j \notin 3..(last - 1) /\ j = last /\ j # last + 1
      BY <1>0, <2>8 DEF LinkBlock
    <3>2. BlockStart(w, cell, j) = Start("note", w.cv, Lo(w.cb), Hi(w.cb))
      BY <3>1 DEF BlockStart
    <3>3. aux = w.cb
      BY <1>0, <2>3, <2>8, HonestAux
    <3> HIDE DEF aux, st
    <3> QED BY <1>0, <2>3, <2>8, <3>2, <3>3
  <2>9. ASSUME j = AbsorbBlock(LEVELS) PROVE BlockStart(w, cell, j) = st
    <3>1. j # 1 /\ j # 2 /\ j \notin 3..(last - 1) /\ j # last /\ j = last + 1
      BY <1>0, <2>9 DEF AbsorbBlock
    <3>2. BlockStart(w, cell, j) = Absorb(cell.state, Lo(w.cpkd), Hi(w.cpkd))
      BY <3>1 DEF BlockStart
    <3> HIDE DEF st
    <3> QED BY <1>0, <2>3, <2>9, <3>2
  <2>10. BlockStart(w, cell, j) = st
    BY <2>0, <2>2, <2>4, <2>5, <2>6, <2>7, <2>8, <2>9, BlockKinds DEF st
  <2>11. TraceState(w, cell, r + 1) = st
    BY <2>2, <2>10
  <2> QED BY <2>11 DEF st, bit, aux
<1> QED BY <1>3, <1>4

\* Every row of the table may follow the row before it.
LEMMA HonestRows ==
    ASSUME NEW w, NEW p, Fits(w, p), NEW r \in 0..(Last - 1)
    PROVE  LET T == build_spend_trace(w) IN
           /\ Honest(w, T[r], r) /\ Honest(w, T[r + 1], r + 1)
           /\ T[r + 1] \in SpendRows(T[r], r, p)
<1> DEFINE T == build_spend_trace(w)
<1>0. r \in Nat /\ r \in 0..Last /\ r + 1 \in 0..Last /\ w.v \in U64
  BY LastType DEF Fits
<1>1. Honest(w, T[r], r) /\ Honest(w, T[r + 1], r + 1)
  BY <1>0, TraceCells DEF Honest
<1>2. T[r + 1] = [T[r] EXCEPT !.state = TraceState(w, T[r], r + 1),
                              !.bit = TraceBit(w, r + 1), !.aux = TraceAux(w, r + 1),
                              !.r_hi = TraceRightHalf(w, T[r], r + 1),
                              !.acc = TraceSum(w, r + 1), !.pow = TracePow(r + 1)]
  BY TraceEquation
<1> DEFINE bit == TraceBit(w, r + 1)
           aux == TraceAux(w, r + 1)
           half == TraceRightHalf(w, T[r], r + 1)
           cell == T[r]
           next == T[r + 1]
<1>3. next = [cell EXCEPT !.state = NextState(cell, bit, aux, r, p),
                          !.bit = bit, !.aux = aux, !.r_hi = half,
                          !.acc = Acc(cell, r), !.pow = Pow(cell, r)]
  <2>1. TraceState(w, T[r], r + 1) = NextState(T[r], bit, aux, r, p)
    <3> HIDE DEF T
    <3> QED BY <1>1, HonestState
  <2>2. TraceSum(w, r + 1) = Acc(T[r], r) /\ TracePow(r + 1) = Pow(T[r], r)
    <3> HIDE DEF T
    <3> QED BY <1>0, <1>1, HonestSum
  <2> HIDE DEF T
  <2> QED BY <1>2, <2>1, <2>2
<1>4. /\ SumsOk(cell, r) /\ bit \in Bits(cell, r) /\ aux \in Aux(cell, r)
      /\ half \in RightHalves(cell, bit, aux, r)
  <2> HIDE DEF T
  <2> QED BY <1>0, <1>1, HonestSum, HonestBit, HonestAux, HonestHalf
<1> HIDE DEF T, bit, aux, half, cell, next
<1>5. next \in RowsHolding(cell, r, p, bit, aux)
  BY <1>3, <1>4 DEF RowsHolding
<1>6. next \in SpendRows(cell, r, p)
  BY <1>4, <1>5 DEF SpendRows
<1> QED BY <1>1, <1>6 DEF T, cell, next

-------------------------------------------------------------------------------
(***************************************************************************)
(* What the wallet's table shows                                           *)
(***************************************************************************)
\* The permutation of block j of the table T starts from the lanes X.
Begins(T, j, X) == T[BLOCK * j + 1].state = [from |-> X, k |-> 0]

\* A block runs one permutation, and carries the half of the right child.
LEMMA BlockRows ==
    ASSUME NEW w, NEW p, Fits(w, p), NEW T, T = build_spend_trace(w),
           NEW j \in 0..AbsorbBlock(LEVELS), NEW X, Begins(T, j, X)
    PROVE  \A t \in 0..(BLOCK - 1) :
             /\ T[BLOCK * j + t + 1].state = [from |-> X, k |-> Rounds(t)]
             /\ T[BLOCK * j + t + 1].r_hi = T[BLOCK * j + 1].r_hi
<1> DEFINE Row(t) == T[BLOCK * j + t + 1]
           Good(t) == /\ Row(t).state = [from |-> X, k |-> Rounds(t)]
                      /\ Row(t).r_hi = T[BLOCK * j + 1].r_hi
           S == {t \in 0..(BLOCK - 1) : Good(t)}
<1>0. /\ BLOCK \in Nat /\ BLOCK > 0 /\ BLOCK - 1 \in Nat /\ Half \in Nat /\ Half > 0
      /\ j \in Nat /\ BLOCK * j \in Nat /\ j <= AbsorbBlock(LEVELS) /\ AbsorbBlock(LEVELS) \in Nat
      /\ BLOCK * j + 0 + 1 = BLOCK * j + 1 /\ 0 \in 0..(BLOCK - 1)
  BY CircuitTypes DEF AbsorbBlock
<1>1. 0 \in S
  <2>1. Rounds(0) = 0
    BY <1>0 DEF Rounds
  <2> QED BY <1>0, <2>1 DEF Begins
<1>2. ASSUME NEW t \in 0..((BLOCK - 1) - 1), t \in S PROVE t + 1 \in S
  <2> DEFINE r == BLOCK * j + t + 1
  <2>1. /\ t \in 0..(BLOCK - 1) /\ t # BLOCK - 1 /\ t + 1 \in 0..(BLOCK - 1) /\ t + 1 # 0
        /\ r + 1 = BLOCK * j + (t + 1) + 1 /\ r = BLOCK * j + (t + 1)
    BY <1>0, <1>2
  <2>2. r \in 0..(Last - 1)
    <3>1. r \in Nat /\ r < BLOCK * (j + 1)
      BY <1>0, <2>1
    <3>2. BLOCK * (j + 1) <= BLOCK * (AbsorbBlock(LEVELS) + 1)
      <4> DEFINE N == AbsorbBlock(LEVELS)
      <4> HIDE DEF N
      <4>1. N \in Nat /\ N - j \in Nat /\ BLOCK * (N - j) \in Nat
        BY <1>0 DEF N
      <4>2. BLOCK * (N + 1) = BLOCK * (j + 1) + BLOCK * (N - j) /\ BLOCK * (j + 1) \in Nat
        BY <1>0, <4>1
      <4>3. BLOCK * (j + 1) <= BLOCK * (N + 1)
        BY <4>1, <4>2
      <4> QED BY <4>3 DEF N
    <3>3. BLOCK * (j + 1) \in Nat
      BY <1>0
    <3> HIDE DEF r
    <3> QED BY <3>1, <3>2, <3>3, LastType
  <2>3. r \notin m_mrk
    BY <2>1, Schedule
  <2>4. Good(t)
    BY <1>2
  <2> HIDE DEF r
  <2>5. DOMAIN T[r] = Cells /\ T[r + 1] \in SpendRows(T[r], r, p)
    BY <2>2, HonestRows DEF Honest
  <2> DEFINE st == NextState(T[r], T[r + 1].bit, T[r + 1].aux, r, p)
  <2>6. /\ T[r + 1].state = st
        /\ T[r + 1].r_hi \in RightHalves(T[r], T[r + 1].bit, T[r + 1].aux, r)
    BY <2>5, RowCells
  <2>7. T[r].state = [from |-> X, k |-> Rounds(t)] /\ T[r].r_hi = T[BLOCK * j + 1].r_hi
    BY <2>4 DEF r
  <2>8. Permuting(T[r], t) /\ T[r].state.from = X
    BY <2>7 DEF Permuting
  <2>9. st.from = T[r].state.from /\ st = [from |-> st.from, k |-> Rounds(t + 1)]
    <3>1. r = BLOCK * j + t + 1
      BY DEF r
    <3> QED BY <1>0, <2>1, <2>8, <3>1, WithinBlock
  <2> HIDE DEF st
  <2>10. T[r + 1].r_hi = T[r].r_hi
    BY <2>3, <2>6 DEF RightHalves, m_rhifrz
  <2>11. T[r + 1].state = [from |-> X, k |-> Rounds(t + 1)]
    BY <2>6, <2>8, <2>9
  <2>12. Row(t + 1) = T[r + 1]
    BY <2>1
  <2> QED BY <2>1, <2>7, <2>10, <2>11, <2>12
<1> HIDE DEF S
<1>3. \A t \in 0..(BLOCK - 1) : t \in S
  BY <1>0, <1>1, <1>2, Upwards
<1> QED BY <1>3 DEF S

\* Where a block ends, and where it shows the digest.
LEMMA BlockEnds ==
    ASSUME NEW w, NEW p, Fits(w, p), NEW T, T = build_spend_trace(w),
           NEW j \in 0..AbsorbBlock(LEVELS), NEW X, Begins(T, j, X)
    PROVE  /\ T[BLOCK * (j + 1)].state = Permuted(X)
           /\ T[BLOCK * j + Half + 1].state = Permuted(X)
           /\ T[BLOCK * (j + 1)].r_hi = T[BLOCK * j + 1].r_hi
<1>0. /\ BLOCK \in Nat /\ BLOCK > 0 /\ Half \in 0..(BLOCK - 1) /\ BLOCK - 1 \in 0..(BLOCK - 1)
      /\ j \in Nat /\ BLOCK * (j + 1) = BLOCK * j + (BLOCK - 1) + 1 /\ BLOCK - 1 >= Half
  BY CircuitTypes
<1>1. Rounds(BLOCK - 1) = Half /\ Rounds(Half) = Half
  BY <1>0 DEF Rounds
<1> QED BY <1>0, <1>1, BlockRows DEF Permuted

\* Block n takes up node and sibling on the side the bit names, and carries
\* the half of the right child that does not enter yet.
BeginsLink(T, n, node, bit, sibling) ==
    IF bit = 1 THEN /\ Begins(T, n, <<"merkle", Lo(sibling), Hi(sibling), Lo(node)>>)
                    /\ T[BLOCK * n + 1].r_hi = Hi(node)
               ELSE /\ Begins(T, n, <<"merkle", Lo(node), Hi(node), Lo(sibling)>>)
                    /\ T[BLOCK * n + 1].r_hi = Hi(sibling)

\* How the next block begins, from the digest of this one.
LEMMA BlockBegins ==
    ASSUME NEW w, NEW p, Fits(w, p), NEW T, T = build_spend_trace(w),
           NEW n \in 1..AbsorbBlock(LEVELS), NEW X, Begins(T, n - 1, X)
    PROVE  LET D == Permuted(X) IN
           /\ n = 1 => Begins(T, n, <<"note", w.v, Lo(w.b), Hi(w.b)>>)
           /\ n = 2 => Begins(T, n, <<"absorb", D, Lo(w.pkd), Hi(w.pkd)>>)
           /\ \A d \in Levels : n = LinkBlock(d) =>
                BeginsLink(T, n, D, w.index[d], w.siblings[d])
           /\ \A d \in Levels : n = AbsorbBlock(d) =>
                Begins(T, n, <<"absorb", D, T[BLOCK * (n - 1) + 1].r_hi, Zero>>)
           /\ n = LinkBlock(LEVELS) => Begins(T, n, <<"note", w.cv, Lo(w.cb), Hi(w.cb)>>)
           /\ n = AbsorbBlock(LEVELS) => Begins(T, n, <<"absorb", D, Lo(w.cpkd), Hi(w.cpkd)>>)
<1> DEFINE D == Permuted(X)
           r == BLOCK * n
           cell == T[r]
           next == T[r + 1]
           st == NextState(cell, next.bit, next.aux, r, p)
<1>0. /\ BLOCK \in Nat /\ BLOCK > 0 /\ n \in Nat /\ n - 1 \in 0..AbsorbBlock(LEVELS)
      /\ (n - 1) + 1 = n /\ r \in Nat /\ n <= AbsorbBlock(LEVELS)
      /\ AbsorbBlock(LEVELS) \in Nat
      /\ p.pkd = w.pkd /\ p.change_pkd = w.cpkd
  BY CircuitTypes DEF AbsorbBlock, Fits
<1>1. cell.state = D /\ cell.r_hi = T[BLOCK * (n - 1) + 1].r_hi
  <2>1. /\ T[BLOCK * ((n - 1) + 1)].state = Permuted(X)
        /\ T[BLOCK * ((n - 1) + 1)].r_hi = T[BLOCK * (n - 1) + 1].r_hi
    BY <1>0, BlockEnds
  <2> QED BY <1>0, <2>1
<1>2. r \in 0..(Last - 1)
  <2> DEFINE N == AbsorbBlock(LEVELS)
  <2>1. N \in Nat /\ N - n \in Nat /\ BLOCK * (N - n) \in Nat
    BY <1>0
  <2> HIDE DEF N
  <2>2. BLOCK * (N + 1) = BLOCK * n + BLOCK * (N - n) + BLOCK
    BY <1>0, <2>1
  <2>3. Last = BLOCK * (N + 1)
    BY LastType DEF N
  <2> QED BY <1>0, <2>1, <2>2, <2>3
<1> HIDE DEF r
<1>3. /\ DOMAIN cell = Cells /\ next \in SpendRows(cell, r, p)
      /\ cell.v = w.v /\ cell.cv = w.cv /\ cell.b = w.b
      /\ next.aux = TraceAux(w, r + 1) /\ next.bit = TraceBit(w, r + 1)
  BY <1>2, HonestRows DEF Honest
<1>4. next.state = st /\ next.r_hi \in RightHalves(cell, next.bit, next.aux, r)
  BY <1>3, RowCells
<1>5. /\ n = 1 => st = Start("note", cell.v, Lo(cell.b), Hi(cell.b))
      /\ n = 2 => st = Absorb(cell.state, Lo(p.pkd), Hi(p.pkd))
      /\ \A d \in Levels : n = LinkBlock(d) =>
           st = MerkleLink(cell, next.bit, next.aux) /\ r \in m_mrk
      /\ \A d \in Levels : n = AbsorbBlock(d) => st = Absorb(cell.state, cell.r_hi, Zero)
      /\ n = LinkBlock(LEVELS) =>
           st = Start("note", cell.cv, Lo(next.aux), Hi(next.aux)) /\ r = STEP_LCHG
      /\ n = AbsorbBlock(LEVELS) =>
           st = Absorb(cell.state, Lo(p.change_pkd), Hi(p.change_pkd))
  <2>1. r = BLOCK * n
    BY DEF r
  <2> DEFINE bit == next.bit
             aux == next.aux
  <2>2. st = NextState(cell, bit, aux, r, p)
    OBVIOUS
  <2> HIDE DEF cell, bit, aux, st
  <2>3. /\ n = 1 => st = Start("note", cell.v, Lo(cell.b), Hi(cell.b))
        /\ n = 2 => st = Absorb(cell.state, Lo(p.pkd), Hi(p.pkd))
        /\ \A d \in Levels : n = LinkBlock(d) => st = MerkleLink(cell, bit, aux) /\ r \in m_mrk
        /\ \A d \in Levels : n = AbsorbBlock(d) => st = Absorb(cell.state, cell.r_hi, Zero)
        /\ n = LinkBlock(LEVELS) => st = Start("note", cell.cv, Lo(aux), Hi(aux)) /\ r = STEP_LCHG
        /\ n = AbsorbBlock(LEVELS) =>
             st = Absorb(cell.state, Lo(p.change_pkd), Hi(p.change_pkd))
    BY <2>1, <2>2, BlockStarts
  <2> QED BY <2>3 DEF bit, aux
<1>6. \A Y : Begins(T, n, Y) <=> next.state = [from |-> Y, k |-> 0]
  BY DEF Begins, r
<1>7. next = T[BLOCK * n + 1]
  BY DEF r
<1> HIDE DEF D, cell, next, st
<1>8. ASSUME NEW d \in Levels, n = LinkBlock(d)
      PROVE  BeginsLink(T, n, D, w.index[d], w.siblings[d])
  <2>1. st = MerkleLink(cell, next.bit, next.aux) /\ r \in m_mrk
    BY <1>5, <1>8
  <2>2. next.r_hi = RightHalf(cell, next.bit, next.aux)
    BY <1>4, <2>1 DEF RightHalves
  <2>3. next.bit = w.index[d] /\ next.aux = w.siblings[d]
    <3>1. r = STEP_MRK(d)
      <4> HIDE DEF st, next, cell
      <4>1. 0 \in 0..(BLOCK - 1) /\ r = BLOCK * n + 0 /\ d \in 0..LEVELS
        BY <1>0, CircuitTypes DEF r, Levels
      <4> QED BY <1>0, <1>8, <4>1, Schedule
    <3>2. 1 \in 1..(2 * BLOCK) /\ r + 1 = STEP_MRK(d) + 1
      BY <1>0, <3>1
    <3> QED BY <1>3, <3>2, TreeCells
  <2> QED BY <1>1, <1>4, <1>6, <1>7, <2>1, <2>2, <2>3
       DEF BeginsLink, MerkleLink, RightHalf, Start
<1>9. n = LinkBlock(LEVELS) => Begins(T, n, <<"note", w.cv, Lo(w.cb), Hi(w.cb)>>)
  <2> SUFFICES ASSUME n = LinkBlock(LEVELS) PROVE Begins(T, n, <<"note", w.cv, Lo(w.cb), Hi(w.cb)>>)
    OBVIOUS
  <2>1. st = Start("note", cell.cv, Lo(next.aux), Hi(next.aux)) /\ r = STEP_LCHG
    BY <1>5
  <2>2. next.aux = w.cb
    <3>1. Honest(w, T[r], r) /\ r \in Nat
      BY <1>0, <1>2, HonestRows
    <3> QED BY <1>3, <2>1, <3>1, HonestAux
  <2> QED BY <1>3, <1>4, <1>6, <2>1, <2>2 DEF Start
<1>10. /\ n = 1 => Begins(T, n, <<"note", w.v, Lo(w.b), Hi(w.b)>>)
       /\ n = 2 => Begins(T, n, <<"absorb", D, Lo(w.pkd), Hi(w.pkd)>>)
       /\ n = AbsorbBlock(LEVELS) => Begins(T, n, <<"absorb", D, Lo(w.cpkd), Hi(w.cpkd)>>)
  BY <1>0, <1>1, <1>3, <1>4, <1>5, <1>6 DEF Start, Absorb
<1>11. \A d \in Levels : n = AbsorbBlock(d) =>
         Begins(T, n, <<"absorb", D, T[BLOCK * (n - 1) + 1].r_hi, Zero>>)
  BY <1>1, <1>4, <1>5, <1>6 DEF Absorb
<1> QED BY <1>8, <1>9, <1>10, <1>11 DEF D

\* Block j of the table T ends in the digest D.
Shows(T, j, D) == \E X : Begins(T, j, X) /\ D = Permuted(X)

\* The first three blocks: the nullifier, and the note in two halves.
LEMMA NoteBlocks ==
    ASSUME NEW w, NEW p, Fits(w, p), NEW T, T = build_spend_trace(w)
    PROVE  Shows(T, 0, nullifier_hash(w.b)) /\ Shows(T, 2, note_hash(w.v, w.b, w.pkd))
<1> DEFINE X == <<"nullifier", Lo(w.b), Hi(w.b), Zero>>
           Y == <<"note", w.v, Lo(w.b), Hi(w.b)>>
           Z == <<"absorb", Permuted(Y), Lo(w.pkd), Hi(w.pkd)>>
<1>0. /\ BLOCK \in Nat /\ BLOCK > 0 /\ 0 \in 0..(BLOCK - 1)
      /\ 1 \in 1..AbsorbBlock(LEVELS) /\ 2 \in 1..AbsorbBlock(LEVELS)
      /\ 0 \in 0..(Last - 1) /\ BLOCK * 0 + 1 = 0 + 1
  BY CircuitTypes, LastType DEF AbsorbBlock
<1>1. Begins(T, 0, X)
  <2>1. T[0].state = [from |-> X, k |-> 0] /\ DOMAIN T[0] = Cells
    BY <1>0, LastType, TraceCells DEF Fits, Start
  <2>2. T[0 + 1] \in SpendRows(T[0], 0, p)
    BY <1>0, HonestRows
  <2>3. T[0 + 1].state = NextState(T[0], T[0 + 1].bit, T[0 + 1].aux, 0, p)
    BY <2>1, <2>2, RowCells
  <2>4. ~ m_rnd(0) /\ m_frz(0)
    <3>1. 0 % BLOCK = 0
      BY <1>0
    <3> QED BY <3>1, CircuitTypes DEF m_rnd, m_frz
  <2>5. /\ 0 # STEP_LNOTE /\ 0 # STEP_ANOTE /\ 0 \notin m_mrk /\ 0 \notin m_amrk
        /\ 0 # STEP_LCHG /\ 0 # STEP_ACHG
    <3>1. PICK z \in Nat : z = 0
      OBVIOUS
    <3>2. z \in 0..(BLOCK - 1) /\ z = BLOCK * 0 + z /\ 0 \in Nat
      BY <1>0, <3>1
    <3>3. /\ z = STEP_LNOTE <=> 0 = 1 /\ z = 0
          /\ z = STEP_ANOTE <=> 0 = 2 /\ z = 0
          /\ z \in m_mrk  <=> z = 0 /\ \E d \in Levels : 0 = LinkBlock(d)
          /\ z \in m_amrk <=> z = 0 /\ \E d \in Levels : 0 = AbsorbBlock(d)
          /\ z = STEP_LCHG <=> 0 = LinkBlock(LEVELS) /\ z = 0
          /\ z = STEP_ACHG <=> 0 = AbsorbBlock(LEVELS) /\ z = 0
      BY <3>2, Schedule
    <3>4. /\ \A d \in Levels : 0 # LinkBlock(d) /\ 0 # AbsorbBlock(d)
          /\ 0 # LinkBlock(LEVELS) /\ 0 # AbsorbBlock(LEVELS)
      BY CircuitTypes DEF LinkBlock, AbsorbBlock, Levels
    <3> QED BY <3>1, <3>3, <3>4
  <2>6. T[0 + 1].state = T[0].state
    BY <2>3, <2>4, <2>5 DEF NextState
  <2> QED BY <1>0, <2>1, <2>6 DEF Begins
<1>2. Begins(T, 1, Y)
  <2>1. 1 - 1 = 0
    OBVIOUS
  <2> HIDE DEF X
  <2>2. Begins(T, 1 - 1, X)
    BY <1>1, <2>1
  <2> QED BY <1>0, <2>2, BlockBegins
<1>3. Begins(T, 2, Z)
  <2>1. 2 - 1 = 1 /\ 2 # 1
    OBVIOUS
  <2> HIDE DEF Y
  <2>2. Begins(T, 2 - 1, Y)
    BY <1>2, <2>1
  <2> QED BY <1>0, <2>2, BlockBegins
<1>4. nullifier_hash(w.b) = Permuted(X) /\ note_hash(w.v, w.b, w.pkd) = Permuted(Z)
  BY Nullifier, NoteHash
<1> HIDE DEF X, Z
<1> QED BY <1>1, <1>3, <1>4 DEF Shows

\* Two blocks of a level turn a node into its parent.
LEMMA LevelBlocks ==
    ASSUME NEW w, NEW p, Fits(w, p), NEW T, T = build_spend_trace(w),
           NEW d \in Levels, NEW node, Shows(T, 2 + 2 * d, node)
    PROVE  Shows(T, 2 + 2 * (d + 1), Parent(node, w.index[d], w.siblings[d]))
<1> DEFINE n == LinkBlock(d)
           m == AbsorbBlock(d)
           sibling == w.siblings[d]
<1>0. /\ n \in 1..AbsorbBlock(LEVELS) /\ n - 1 = 2 + 2 * d
      /\ m \in 1..AbsorbBlock(LEVELS) /\ m - 1 = n /\ m = 2 + 2 * (d + 1)
  BY CircuitTypes DEF Levels, LinkBlock, AbsorbBlock
<1> HIDE DEF n, m, sibling
<1>1. PICK X : Begins(T, n - 1, X) /\ node = Permuted(X)
  BY <1>0 DEF Shows
<1>2. BeginsLink(T, n, node, w.index[d], sibling)
  <2>1. BeginsLink(T, n, Permuted(X), w.index[d], w.siblings[d])
    BY <1>0, <1>1, BlockBegins DEF n
  <2> QED BY <1>1, <2>1 DEF sibling
<1>3. ASSUME NEW Y, Begins(T, n, Y)
      PROVE  Shows(T, m, Permuted(<<"absorb", Permuted(Y), T[BLOCK * n + 1].r_hi, Zero>>))
  <2> DEFINE Z == <<"absorb", Permuted(Y), T[BLOCK * n + 1].r_hi, Zero>>
  <2>1. Begins(T, m - 1, Y)
    BY <1>0, <1>3
  <2>2. Begins(T, m, <<"absorb", Permuted(Y), T[BLOCK * (m - 1) + 1].r_hi, Zero>>)
    BY <1>0, <2>1, BlockBegins DEF m
  <2>3. Begins(T, m, Z)
    BY <1>0, <2>2
  <2> HIDE DEF Z
  <2>4. Shows(T, m, Permuted(Z))
    BY <2>3 DEF Shows
  <2> QED BY <2>4 DEF Z
<1>4. CASE w.index[d] = 1
  <2>1. Parent(node, w.index[d], sibling) =
          Permuted(<<"absorb", Permuted(<<"merkle", Lo(sibling), Hi(sibling), Lo(node)>>),
                     Hi(node), Zero>>)
    BY <1>4, MerkleHash DEF Parent
  <2>2. Shows(T, m, Parent(node, w.index[d], sibling))
    BY <1>2, <1>3, <1>4, <2>1 DEF BeginsLink
  <2> QED BY <1>0, <2>2 DEF sibling
<1>5. CASE w.index[d] # 1
  <2>1. Parent(node, w.index[d], sibling) =
          Permuted(<<"absorb", Permuted(<<"merkle", Lo(node), Hi(node), Lo(sibling)>>),
                     Hi(sibling), Zero>>)
    BY <1>5, MerkleHash DEF Parent
  <2>2. Shows(T, m, Parent(node, w.index[d], sibling))
    BY <1>2, <1>3, <1>5, <2>1 DEF BeginsLink
  <2> QED BY <1>0, <2>2 DEF sibling
<1> QED BY <1>4, <1>5

\* The blocks of the tree climb the path of the witness.
LEMMA TreeBlocks ==
    ASSUME NEW w, NEW p, Fits(w, p), NEW T, T = build_spend_trace(w)
    PROVE  Shows(T, 2 + 2 * LEVELS,
                 root_from_path(note_hash(w.v, w.b, w.pkd), w.index, w.siblings))
<1> DEFINE node(d) == path_nodes(note_hash(w.v, w.b, w.pkd), w.index, w.siblings)[d]
           S == {d \in 0..LEVELS : Shows(T, 2 + 2 * d, node(d))}
<1>0. LEVELS \in Nat /\ 2 + 2 * 0 = 2 /\ 0 \in 0..LEVELS /\ LEVELS \in 0..LEVELS
  BY CircuitTypes
<1>1. 0 \in S
  <2>1. node(0) = note_hash(w.v, w.b, w.pkd)
    BY PathEquation
  <2> QED BY <1>0, <2>1, NoteBlocks
<1>2. ASSUME NEW d \in 0..(LEVELS - 1), d \in S PROVE d + 1 \in S
  <2>1. d \in Levels /\ d + 1 \in 0..LEVELS
    BY <1>0 DEF Levels
  <2>2. node(d + 1) = Parent(node(d), w.index[d], w.siblings[d])
    BY <2>1, PathEquation
  <2>3. Shows(T, 2 + 2 * d, node(d))
    BY <1>2
  <2>4. Shows(T, 2 + 2 * (d + 1), node(d + 1))
    <3> HIDE DEF node
    <3> QED BY <2>1, <2>2, <2>3, LevelBlocks
  <2> QED BY <2>1, <2>4
<1> HIDE DEF S
<1>3. LEVELS \in S
  BY <1>0, <1>1, <1>2, Upwards
<1>4. Shows(T, 2 + 2 * LEVELS, node(LEVELS))
  BY <1>3 DEF S
<1> QED BY <1>4 DEF root_from_path

\* The last two blocks: the note of the change.
LEMMA ChangeBlocks ==
    ASSUME NEW w, NEW p, Fits(w, p), NEW T, T = build_spend_trace(w)
    PROVE  Shows(T, AbsorbBlock(LEVELS), note_hash(w.cv, w.cb, w.cpkd))
<1> DEFINE n == LinkBlock(LEVELS)
           m == AbsorbBlock(LEVELS)
           Y == <<"note", w.cv, Lo(w.cb), Hi(w.cb)>>
           Z == <<"absorb", Permuted(Y), Lo(w.cpkd), Hi(w.cpkd)>>
           root == root_from_path(note_hash(w.v, w.b, w.pkd), w.index, w.siblings)
<1>0. n \in 1..m /\ n - 1 = 2 + 2 * LEVELS /\ m \in 1..m /\ m - 1 = n
  BY CircuitTypes DEF LinkBlock, AbsorbBlock
<1> HIDE DEF n, m, root
<1>1. Shows(T, n - 1, root)
  BY <1>0, TreeBlocks DEF root
<1>2. PICK X : Begins(T, n - 1, X)
  BY <1>1 DEF Shows
<1>3. Begins(T, n, Y)
  BY <1>0, <1>2, BlockBegins DEF n, m
<1>4. Begins(T, m, Z)
  <2> HIDE DEF Y
  <2>1. Begins(T, m - 1, Y)
    BY <1>0, <1>3
  <2> QED BY <1>0, <2>1, BlockBegins DEF m
<1>5. note_hash(w.cv, w.cb, w.cpkd) = Permuted(Z)
  BY NoteHash
<1> HIDE DEF Z
<1>6. Shows(T, m, note_hash(w.cv, w.cb, w.cpkd))
  BY <1>4, <1>5 DEF Shows
<1> QED BY <1>6 DEF m

\* A block shows its digest in the row after its last round.
LEMMA ShownAt ==
    ASSUME NEW w, NEW p, Fits(w, p), NEW T, T = build_spend_trace(w),
           NEW j \in 0..AbsorbBlock(LEVELS), NEW D, Shows(T, j, D)
    PROVE  T[BLOCK * j + Half + 1].state = D
BY BlockEnds DEF Shows

\* The wallet is never refused: its table meets the constraints of every row
\* and shows the nullifier, the root and the leaf of the change.
LEMMA TableAccepted ==
    ASSUME NEW w, NEW p, Fits(w, p)
    PROVE  LET T == build_spend_trace(w) IN
           /\ \A r \in 0..(EndOf("spend") - 1) : T[r + 1] \in SpendRows(T[r], r, p)
           /\ T[ROW_NF_OUT].state = nullifier_hash(w.b)
           /\ T[ROW_ROOT].state = root_from_path(note_hash(w.v, w.b, w.pkd), w.index, w.siblings)
           /\ T[ROW_CLEAF].state = note_hash(w.cv, w.cb, w.cpkd)
<1> DEFINE T == build_spend_trace(w)
<1> HIDE DEF T
<1>0. /\ 0 \in 0..AbsorbBlock(LEVELS) /\ 2 + 2 * LEVELS \in 0..AbsorbBlock(LEVELS)
      /\ AbsorbBlock(LEVELS) \in 0..AbsorbBlock(LEVELS) /\ T = build_spend_trace(w)
  BY CircuitTypes DEF AbsorbBlock, T
<1>1. \A r \in 0..(EndOf("spend") - 1) : T[r + 1] \in SpendRows(T[r], r, p)
  BY <1>0, HonestRows DEF Last
<1>2. /\ ROW_NF_OUT = BLOCK * 0 + Half + 1
      /\ ROW_ROOT = BLOCK * (2 + 2 * LEVELS) + Half + 1
      /\ ROW_CLEAF = BLOCK * AbsorbBlock(LEVELS) + Half + 1
  BY <1>0, Outputs
<1>3. T[BLOCK * 0 + Half + 1].state = nullifier_hash(w.b)
  BY <1>0, NoteBlocks, ShownAt
<1>4. T[BLOCK * (2 + 2 * LEVELS) + Half + 1].state =
        root_from_path(note_hash(w.v, w.b, w.pkd), w.index, w.siblings)
  BY <1>0, TreeBlocks, ShownAt
<1>5. T[BLOCK * AbsorbBlock(LEVELS) + Half + 1].state = note_hash(w.cv, w.cb, w.cpkd)
  BY <1>0, ChangeBlocks, ShownAt
<1> QED BY <1>1, <1>2, <1>3, <1>4, <1>5 DEF T

\* Whichever first row of SpendAir has values that satisfy the relation, the
\* table of build_spend_trace for its witnesses is accepted, for every depth of
\* the tree, index and value.  It is a fact about tables: no invariant is used.
THEOREM HonestAcceptedCorrect == Spec => []HonestAccepted
<1>1. HonestAccepted
  <2> SUFFICES ASSUME row = 0, air = "spend", c.v \in U64, c.cv \in U64,
                      c.v = pi.price + c.cv, NEW w \in Witnesses
               PROVE  LET T == build_spend_trace(w) IN
                      /\ \A r \in 0..(EndOf(air) - 1) : T[r + 1] \in SpendRows(T[r], r, pi)
                      /\ T[ROW_NF_OUT].state = nullifier_hash(w.b)
                      /\ T[ROW_ROOT].state =
                           root_from_path(note_hash(w.v, w.b, w.pkd), w.index, w.siblings)
                      /\ T[ROW_CLEAF].state = note_hash(w.cv, w.cb, w.cpkd)
    BY DEF HonestAccepted
  <2>1. Fits(w, pi)
    BY DEF Witnesses, Fits
  <2> QED BY <2>1, TableAccepted
<1> QED BY <1>1, PTL
===============================================================================
