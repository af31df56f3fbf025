------------------------ MODULE MerkleFrontier_proofs ------------------------
(***************************************************************************)
(* Proofs about the incremental Merkle tree, for every depth and every     *)
(* sequence of leaves: the frontier folds to the root of the tree rebuilt  *)
(* from scratch, a path verifies for exactly the leaf at its index, and a  *)
(* root determines the number of leaves below it.                          *)
(***************************************************************************)
EXTENDS MerkleFrontier, WellFoundedInduction, NaturalsInduction, TLAPS

\* The levels, and those that have a level above.
Rungs == 0..(Depth - 1)

LEMMA DepthType ==
    /\ Depth \in Nat /\ Depth > 0
    /\ 0 \in 0..Depth /\ Depth \in 0..Depth
    /\ \A d \in Rungs : d \in Nat /\ d \in 0..Depth /\ d + 1 \in 0..Depth /\ d < Depth
    /\ \A d \in 0..Depth : d \in Nat /\ (d = 0 \/ d - 1 \in Rungs) /\ (d = Depth \/ d \in Rungs)
BY FrontierAssumption DEF Rungs

-------------------------------------------------------------------------------
(***************************************************************************)
(* Going up and down the levels                                            *)
(***************************************************************************)
\* What holds at the leaves and is handed upwards holds at every level; ...
LEMMA Upwards ==
    ASSUME NEW n \in Nat, NEW S, 0 \in S, \A d \in 0..(n - 1) : d \in S => d + 1 \in S
    PROVE  \A d \in 0..n : d \in S
<1> DEFINE Bad == {d \in 0..n : d \notin S}
<1> SUFFICES ASSUME Bad # {} PROVE FALSE
  OBVIOUS
<1>1. Bad \subseteq Nat
  OBVIOUS
<1>2. PICK d \in Bad : \A e \in Bad : ~ (<<e, d>> \in OpToRel(<, Nat))
  BY <1>1, NatLessThanWellFounded, WFMin
<1>3. d \in 0..n /\ d \notin S /\ d # 0
  OBVIOUS
<1>4. d - 1 \in 0..(n - 1) /\ (d - 1) + 1 = d /\ d - 1 \in 0..n /\ d - 1 < d
  BY <1>3
<1>5. \A e \in Bad : ~ (e < d)
  BY <1>1, <1>2 DEF OpToRel
<1> QED BY <1>3, <1>4, <1>5

\* ... what holds at the root and is handed downwards does so, too.
LEMMA Downwards ==
    ASSUME NEW n \in Nat, NEW S, n \in S, \A d \in 0..(n - 1) : d + 1 \in S => d \in S
    PROVE  \A d \in 0..n : d \in S
<1> DEFINE T == {d \in 0..n : n - d \in S}
<1>1. 0 \in T
  OBVIOUS
<1>2. ASSUME NEW d \in 0..(n - 1), d \in T PROVE d + 1 \in T
  <2>1. n - (d + 1) \in 0..(n - 1) /\ (n - (d + 1)) + 1 = n - d /\ d + 1 \in 0..n
    OBVIOUS
  <2> QED BY <1>2, <2>1
<1>3. \A d \in 0..n : d \in T
  BY <1>1, <1>2, Upwards
<1>4. ASSUME NEW d \in 0..n PROVE d \in S
  <2>1. n - d \in 0..n /\ n - (n - d) = d
    OBVIOUS
  <2> QED BY <1>3, <2>1
<1> QED BY <1>4

-------------------------------------------------------------------------------
(***************************************************************************)
(* The recursive functions of the model satisfy their equations            *)
(***************************************************************************)
LEMMA Pow2Equation ==
    /\ Pow2[0] = 1
    /\ \A d \in Rungs : Pow2[d + 1] = 2 * Pow2[d]
<1> DEFINE Eq(it, n) == it = [d \in 0..n |-> IF d = 0 THEN 1 ELSE 2 * it[d - 1]]
           S == {n \in 0..Depth : \E it : Eq(it, n)}
<1>1. 0 \in S
  <2>1. Eq([d \in 0..0 |-> 1], 0)
    OBVIOUS
  <2> QED BY <2>1, DepthType
<1>2. ASSUME NEW n \in 0..(Depth - 1), n \in S PROVE n + 1 \in S
  <2>1. PICK it : Eq(it, n)
    BY <1>2
  <2> DEFINE up == [d \in 0..(n + 1) |-> IF d = n + 1 THEN 2 * it[n] ELSE it[d]]
  <2>2. ASSUME NEW d \in 0..(n + 1) PROVE up[d] = IF d = 0 THEN 1 ELSE 2 * up[d - 1]
    <3>1. CASE d = n + 1
      BY <3>1
    <3>2. CASE d # n + 1
      <4>1. d \in 0..n /\ it[d] = IF d = 0 THEN 1 ELSE 2 * it[d - 1]
        BY <2>1, <3>2
      <4>2. d # 0 => d - 1 \in 0..(n + 1) /\ d - 1 # n + 1
        BY <3>2
      <4> QED BY <3>2, <4>1, <4>2
    <3> QED BY <3>1, <3>2
  <2>3. Eq(up, n + 1)
    BY <2>2
  <2> QED BY <1>2, <2>3, DepthType DEF Rungs
<1>3. Depth \in S
  BY <1>1, <1>2, Upwards, DepthType
<1>4. PICK it : Eq(it, Depth)
  BY <1>3
<1>5. Pow2 = [d \in 0..Depth |-> IF d = 0 THEN 1 ELSE 2 * Pow2[d - 1]]
  BY <1>4 DEF Pow2
<1>6. \A d \in Rungs : d + 1 \in 0..Depth /\ d + 1 # 0 /\ (d + 1) - 1 = d
  BY DepthType
<1> QED BY <1>5, <1>6, DepthType

LEMMA ZeroEquation ==
    /\ zero_subtrees[0] = Zero
    /\ \A d \in Rungs : zero_subtrees[d + 1] = merkle_hash2(zero_subtrees[d], zero_subtrees[d])
<1> DEFINE Eq(it, n) == it = [d \in 0..n |-> IF d = 0 THEN Zero ELSE merkle_hash2(it[d - 1], it[d - 1])]
           S == {n \in 0..Depth : \E it : Eq(it, n)}
<1>1. 0 \in S
  <2>1. Eq([d \in 0..0 |-> Zero], 0)
    OBVIOUS
  <2> QED BY <2>1, DepthType
<1>2. ASSUME NEW n \in 0..(Depth - 1), n \in S PROVE n + 1 \in S
  <2>1. PICK it : Eq(it, n)
    BY <1>2
  <2> DEFINE up == [d \in 0..(n + 1) |-> IF d = n + 1 THEN merkle_hash2(it[n], it[n]) ELSE it[d]]
  <2>2. ASSUME NEW d \in 0..(n + 1)
        PROVE  up[d] = IF d = 0 THEN Zero ELSE merkle_hash2(up[d - 1], up[d - 1])
    <3>1. CASE d = n + 1
      BY <3>1
    <3>2. CASE d # n + 1
      <4>1. d \in 0..n /\ it[d] = IF d = 0 THEN Zero ELSE merkle_hash2(it[d - 1], it[d - 1])
        BY <2>1, <3>2
      <4>2. d # 0 => d - 1 \in 0..(n + 1) /\ d - 1 # n + 1
        BY <3>2
      <4> QED BY <3>2, <4>1, <4>2
    <3> QED BY <3>1, <3>2
  <2>3. Eq(up, n + 1)
    BY <2>2
  <2> QED BY <1>2, <2>3, DepthType DEF Rungs
<1>3. Depth \in S
  BY <1>1, <1>2, Upwards, DepthType
<1>4. PICK it : Eq(it, Depth)
  BY <1>3
<1>5. zero_subtrees =
        [d \in 0..Depth |-> IF d = 0 THEN Zero
                            ELSE merkle_hash2(zero_subtrees[d - 1], zero_subtrees[d - 1])]
  BY <1>4 DEF zero_subtrees
<1>6. \A d \in Rungs : d + 1 \in 0..Depth /\ d + 1 # 0 /\ (d + 1) - 1 = d
  BY DepthType
<1> QED BY <1>5, <1>6, DepthType

LEMMA ShiftedEquation ==
    ASSUME NEW idx
    PROVE  /\ Shifted(idx)[0] = idx
           /\ \A d \in Rungs : Shifted(idx)[d + 1] = Shifted(idx)[d] \div 2
<1> DEFINE Eq(it, n) == it = [d \in 0..n |-> IF d = 0 THEN idx ELSE it[d - 1] \div 2]
           S == {n \in 0..Depth : \E it : Eq(it, n)}
<1>1. 0 \in S
  <2>1. Eq([d \in 0..0 |-> idx], 0)
    OBVIOUS
  <2> QED BY <2>1, DepthType
<1>2. ASSUME NEW n \in 0..(Depth - 1), n \in S PROVE n + 1 \in S
  <2>1. PICK it : Eq(it, n)
    BY <1>2
  <2> DEFINE up == [d \in 0..(n + 1) |-> IF d = n + 1 THEN it[n] \div 2 ELSE it[d]]
  <2>2. ASSUME NEW d \in 0..(n + 1) PROVE up[d] = IF d = 0 THEN idx ELSE up[d - 1] \div 2
    <3>1. CASE d = n + 1
      BY <3>1
    <3>2. CASE d # n + 1
      <4>1. d \in 0..n /\ it[d] = IF d = 0 THEN idx ELSE it[d - 1] \div 2
        BY <2>1, <3>2
      <4>2. d # 0 => d - 1 \in 0..(n + 1) /\ d - 1 # n + 1
        BY <3>2
      <4> QED BY <3>2, <4>1, <4>2
    <3> QED BY <3>1, <3>2
  <2>3. Eq(up, n + 1)
    BY <2>2
  <2> QED BY <1>2, <2>3, DepthType DEF Rungs
<1>3. Depth \in S
  BY <1>1, <1>2, Upwards, DepthType
<1>4. PICK it : Eq(it, Depth)
  BY <1>3
<1>5. Eq(Shifted(idx), Depth)
  BY <1>4 DEF Shifted
<1> QED BY <1>5, DepthType

LEMMA FoldEquation ==
    ASSUME NEW leaf, NEW idx, NEW other
    PROVE  /\ Fold(leaf, idx, other)[0] = leaf
           /\ \A d \in Rungs : Fold(leaf, idx, other)[d + 1] = IF Bit(idx, d) = 1 THEN merkle_hash2(other[d], Fold(leaf, idx, other)[d]) ELSE merkle_hash2(Fold(leaf, idx, other)[d], other[d])
<1> DEFINE Up(x, d) == IF Bit(idx, d) = 1 THEN merkle_hash2(other[d], x) ELSE merkle_hash2(x, other[d])
           Eq(it, n) == it = [d \in 0..n |-> IF d = 0 THEN leaf ELSE Up(it[d - 1], d - 1)]
           S == {n \in 0..Depth : \E it : Eq(it, n)}
<1>0. Fold(leaf, idx, other) = CHOOSE it : Eq(it, Depth)
  BY DEF Fold
<1> HIDE DEF Up
<1>1. 0 \in S
  <2>1. Eq([d \in 0..0 |-> leaf], 0)
    OBVIOUS
  <2> QED BY <2>1, DepthType
<1>2. ASSUME NEW n \in 0..(Depth - 1), n \in S PROVE n + 1 \in S
  <2>1. PICK it : Eq(it, n)
    BY <1>2
  <2> DEFINE up == [d \in 0..(n + 1) |-> IF d = n + 1 THEN Up(it[n], n) ELSE it[d]]
  <2>2. ASSUME NEW d \in 0..(n + 1)
        PROVE  up[d] = IF d = 0 THEN leaf ELSE Up(up[d - 1], d - 1)
    <3>1. CASE d = n + 1
      <4>1. d - 1 = n /\ n \in 0..(n + 1) /\ n # n + 1 /\ d # 0
        BY <3>1
      <4> QED BY <3>1, <4>1
    <3>2. CASE d # n + 1
      <4>1. d \in 0..n /\ it[d] = IF d = 0 THEN leaf ELSE Up(it[d - 1], d - 1)
        BY <2>1, <3>2
      <4>2. d # 0 => d - 1 \in 0..(n + 1) /\ d - 1 # n + 1
        BY <3>2
      <4> QED BY <3>2, <4>1, <4>2
    <3> QED BY <3>1, <3>2
  <2>3. Eq(up, n + 1)
    BY <2>2
  <2> QED BY <1>2, <2>3, DepthType DEF Rungs
<1>3. Depth \in S
  BY <1>1, <1>2, Upwards, DepthType
<1>4. Eq(Fold(leaf, idx, other), Depth)
  BY <1>0, <1>3
<1>5. Fold(leaf, idx, other)[0] = leaf
  BY <1>4, DepthType
<1>6. ASSUME NEW d \in Rungs PROVE Fold(leaf, idx, other)[d + 1] = Up(Fold(leaf, idx, other)[d], d)
  <2>1. d + 1 \in 0..Depth /\ d + 1 # 0 /\ (d + 1) - 1 = d
    BY DepthType
  <2> QED BY <1>4, <2>1
<1> QED BY <1>5, <1>6 DEF Up

LEMMA LevelsEquation ==
    ASSUME NEW ls
    PROVE  /\ Levels(ls)[0] = ls
           /\ \A d \in Rungs : Levels(ls)[d + 1] = Above(Levels(ls)[d], d)
<1> DEFINE Up(x, d) == Above(x, d)
           Eq(it, n) == it = [d \in 0..n |-> IF d = 0 THEN ls ELSE Up(it[d - 1], d - 1)]
           S == {n \in 0..Depth : \E it : Eq(it, n)}
<1>0. Levels(ls) = CHOOSE it : Eq(it, Depth)
  BY DEF Levels
<1> HIDE DEF Up
<1>1. 0 \in S
  <2>1. Eq([d \in 0..0 |-> ls], 0)
    OBVIOUS
  <2> QED BY <2>1, DepthType
<1>2. ASSUME NEW n \in 0..(Depth - 1), n \in S PROVE n + 1 \in S
  <2>1. PICK it : Eq(it, n)
    BY <1>2
  <2> DEFINE up == [d \in 0..(n + 1) |-> IF d = n + 1 THEN Up(it[n], n) ELSE it[d]]
  <2>2. ASSUME NEW d \in 0..(n + 1)
        PROVE  up[d] = IF d = 0 THEN ls ELSE Up(up[d - 1], d - 1)
    <3>1. CASE d = n + 1
      <4>1. d - 1 = n /\ n \in 0..(n + 1) /\ n # n + 1 /\ d # 0
        BY <3>1
      <4> QED BY <3>1, <4>1
    <3>2. CASE d # n + 1
      <4>1. d \in 0..n /\ it[d] = IF d = 0 THEN ls ELSE Up(it[d - 1], d - 1)
        BY <2>1, <3>2
      <4>2. d # 0 => d - 1 \in 0..(n + 1) /\ d - 1 # n + 1
        BY <3>2
      <4> QED BY <3>2, <4>1, <4>2
    <3> QED BY <3>1, <3>2
  <2>3. Eq(up, n + 1)
    BY <2>2
  <2> QED BY <1>2, <2>3, DepthType DEF Rungs
<1>3. Depth \in S
  BY <1>1, <1>2, Upwards, DepthType
<1>4. Eq(Levels(ls), Depth)
  BY <1>0, <1>3
<1>5. Levels(ls)[0] = ls
  BY <1>4, DepthType
<1>6. ASSUME NEW d \in Rungs PROVE Levels(ls)[d + 1] = Up(Levels(ls)[d], d)
  <2>1. d + 1 \in 0..Depth /\ d + 1 # 0 /\ (d + 1) - 1 = d
    BY DepthType
  <2> QED BY <1>4, <2>1
<1> QED BY <1>5, <1>6 DEF Up

-------------------------------------------------------------------------------
(***************************************************************************)
(* Indices                                                                 *)
(***************************************************************************)
\* The powers are positive and the index is a natural number at every level,
\* its lowest bit 0 or 1.
LEMMA Pow2Type == \A d \in 0..Depth : Pow2[d] \in Nat /\ Pow2[d] > 0
<1> DEFINE S == {d \in 0..Depth : Pow2[d] \in Nat /\ Pow2[d] > 0}
<1>1. 0 \in S
  BY Pow2Equation, DepthType
<1>2. ASSUME NEW d \in 0..(Depth - 1), d \in S PROVE d + 1 \in S
  BY <1>2, Pow2Equation, DepthType DEF Rungs
<1>3. \A d \in 0..Depth : d \in S
  BY <1>1, <1>2, Upwards, DepthType
<1> QED BY <1>3

LEMMA ShiftedType ==
    ASSUME NEW n \in Nat
    PROVE  /\ \A d \in 0..Depth : Shifted(n)[d] \in Nat
           /\ \A d \in Rungs : Bit(n, d) \in {0, 1}
<1> DEFINE S == {d \in 0..Depth : Shifted(n)[d] \in Nat}
<1>1. 0 \in S
  BY ShiftedEquation, DepthType
<1>2. ASSUME NEW d \in 0..(Depth - 1), d \in S PROVE d + 1 \in S
  <2>1. Shifted(n)[d + 1] = Shifted(n)[d] \div 2 /\ d + 1 \in 0..Depth
    BY ShiftedEquation, DepthType DEF Rungs
  <2> QED BY <1>2, <2>1
<1>3. \A d \in 0..Depth : d \in S
  BY <1>1, <1>2, Upwards, DepthType
<1> QED BY <1>3, DepthType DEF Bit

\* What the bit says of the index at this level and the next.
LEMMA ShiftedStep ==
    ASSUME NEW n \in Nat, NEW d \in Rungs
    PROVE  /\ Shifted(n)[d] \in Nat /\ Shifted(n)[d + 1] \in Nat
           /\ Bit(n, d) = 1 => Shifted(n)[d] = 2 * Shifted(n)[d + 1] + 1
           /\ Bit(n, d) # 1 => Shifted(n)[d] = 2 * Shifted(n)[d + 1] /\ Bit(n, d) = 0
<1>1. /\ Shifted(n)[d] \in Nat /\ Shifted(n)[d + 1] \in Nat
      /\ Shifted(n)[d + 1] = Shifted(n)[d] \div 2
      /\ Bit(n, d) = Shifted(n)[d] % 2
  BY ShiftedType, ShiftedEquation, DepthType DEF Bit
<1>2. ASSUME NEW a \in Nat
      PROVE  \/ a % 2 = 1 /\ a = 2 * (a \div 2) + 1
             \/ a % 2 = 0 /\ a = 2 * (a \div 2)
  OBVIOUS
<1> QED BY <1>1, <1>2

\* An index of the tree is 0 at the root, ...
LEMMA ShiftedRoot ==
    ASSUME NEW n \in Nat, n < Capacity
    PROVE  Shifted(n)[Depth] = 0
<1> DEFINE S == {d \in 0..Depth : Shifted(n)[d] < Pow2[Depth - d]}
<1>1. 0 \in S
  BY ShiftedEquation, DepthType DEF Capacity
<1>2. ASSUME NEW d \in 0..(Depth - 1), d \in S PROVE d + 1 \in S
  <2>1. Depth - (d + 1) \in Rungs /\ (Depth - (d + 1)) + 1 = Depth - d /\ d \in Rungs
    BY DepthType DEF Rungs
  <2>2. Pow2[Depth - d] = 2 * Pow2[Depth - (d + 1)] /\ Pow2[Depth - (d + 1)] \in Nat
    BY <2>1, Pow2Equation, Pow2Type, DepthType
  <2>3. Shifted(n)[d] = 2 * Shifted(n)[d + 1] + 1 \/ Shifted(n)[d] = 2 * Shifted(n)[d + 1]
    BY <2>1, ShiftedStep
  <2>4. Shifted(n)[d + 1] \in Nat /\ Shifted(n)[d] < Pow2[Depth - d] /\ d + 1 \in 0..Depth
    BY <1>2, <2>1, ShiftedStep, DepthType
  <2> QED BY <2>2, <2>3, <2>4
<1>3. Depth \in S
  BY <1>1, <1>2, Upwards, DepthType
<1>4. Shifted(n)[Depth] < Pow2[Depth - Depth] /\ Depth - Depth = 0
  BY <1>3, DepthType
<1> QED BY <1>4, Pow2Equation, ShiftedType, DepthType

\* ... and the count of a full tree has no bit below its highest.
LEMMA ShiftedFull == \A d \in Rungs : Bit(Capacity, d) = 0
<1> DEFINE S == {d \in 0..Depth : Shifted(Capacity)[d] = Pow2[Depth - d]}
<1>1. 0 \in S
  BY ShiftedEquation, DepthType DEF Capacity
<1>2. ASSUME NEW d \in Rungs, d \in S PROVE Bit(Capacity, d) = 0 /\ d + 1 \in S
  <2>1. Depth - (d + 1) \in Rungs /\ (Depth - (d + 1)) + 1 = Depth - d
    BY DepthType DEF Rungs
  <2>2. Pow2[Depth - d] = 2 * Pow2[Depth - (d + 1)] /\ Pow2[Depth - (d + 1)] \in Nat
    BY <2>1, Pow2Equation, Pow2Type, DepthType
  <2>3. Shifted(Capacity)[d] = 2 * Pow2[Depth - (d + 1)]
    BY <1>2, <2>2
  <2>4. /\ Shifted(Capacity)[d + 1] = Shifted(Capacity)[d] \div 2
        /\ Bit(Capacity, d) = Shifted(Capacity)[d] % 2
    BY ShiftedEquation DEF Bit
  <2>5. Shifted(Capacity)[d + 1] = Pow2[Depth - (d + 1)] /\ Bit(Capacity, d) = 0
    BY <2>2, <2>3, <2>4
  <2> QED BY <2>5, DepthType
<1>3. \A d \in 0..Depth : d \in S
  BY <1>1, <1>2, Upwards, DepthType DEF Rungs
<1> QED BY <1>2, <1>3, DepthType

-------------------------------------------------------------------------------
(***************************************************************************)
(* The tree built from scratch                                             *)
(***************************************************************************)
\* A function on 1..n is a sequence of length n.
LEMMA TableLength ==
    ASSUME NEW n \in Nat, NEW s, s = [i \in 1..n |-> s[i]]
    PROVE  Len(s) = n /\ (s = << >> <=> n = 0)
<1>1. s \in Seq({s[i] : i \in 1..n})
  OBVIOUS
<1>2. Len(s) \in Nat /\ DOMAIN s = 1..Len(s) /\ DOMAIN s = 1..n
  BY <1>1
<1>3. Len(s) = n
  BY <1>2
<1> QED BY <1>1, <1>3

\* A level of k nodes is below one of half as many, rounded up, and of one
\* at least.
LEMMA AboveShape ==
    ASSUME NEW level, NEW k \in Nat, Len(level) = k, NEW d \in Rungs
    PROVE  /\ Len(Above(level, d)) \in Nat /\ Len(Above(level, d)) > 0
           /\ Len(Above(level, d)) = (IF k = 0 THEN 1 ELSE (k + 1) \div 2)
           /\ k = 0 => Above(level, d)[1] = zero_subtrees[d + 1]
           /\ \A i \in 1..((k + 1) \div 2) :
                Above(level, d)[i] =
                  merkle_hash2(level[2 * i - 1], IF 2 * i <= k THEN level[2 * i]
                                                 ELSE zero_subtrees[d])
<1> DEFINE pairs == [i \in 1..((k + 1) \div 2) |->
                       merkle_hash2(level[2 * i - 1], IF 2 * i <= k THEN level[2 * i]
                                                      ELSE zero_subtrees[d])]
<1>1. Above(level, d) = IF pairs = << >> THEN <<zero_subtrees[d + 1]>> ELSE pairs
  BY DEF Above
<1>2. (k + 1) \div 2 \in Nat /\ ((k + 1) \div 2 = 0 <=> k = 0)
  OBVIOUS
<1>3. pairs = [i \in 1..((k + 1) \div 2) |-> pairs[i]]
  OBVIOUS
<1>4. \A i \in 1..((k + 1) \div 2) :
        pairs[i] = merkle_hash2(level[2 * i - 1], IF 2 * i <= k THEN level[2 * i]
                                                  ELSE zero_subtrees[d])
  OBVIOUS
<1> HIDE DEF pairs
<1>5. Len(pairs) = (k + 1) \div 2 /\ (pairs = << >> <=> k = 0)
  BY <1>2, <1>3, TableLength
<1>6. CASE k = 0
  BY <1>1, <1>5, <1>6
<1>7. CASE k # 0
  BY <1>1, <1>2, <1>4, <1>5, <1>7
<1> QED BY <1>6, <1>7

\* Every level has a length, and those above the leaves a first node.
LEMMA LevelLength ==
    ASSUME NEW ls, Len(ls) \in Nat
    PROVE  /\ \A d \in 0..Depth : Len(Levels(ls)[d]) \in Nat
           /\ Len(Levels(ls)[Depth]) > 0
<1> DEFINE S == {d \in 0..Depth : Len(Levels(ls)[d]) \in Nat}
<1>1. 0 \in S
  BY LevelsEquation, DepthType
<1>2. ASSUME NEW d \in Rungs, d \in S
      PROVE  d + 1 \in S /\ Len(Levels(ls)[d + 1]) > 0
  <2>1. Levels(ls)[d + 1] = Above(Levels(ls)[d], d) /\ Len(Levels(ls)[d]) \in Nat
    BY <1>2, LevelsEquation
  <2> DEFINE level == Levels(ls)[d]
             k == Len(level)
  <2>2. k \in Nat /\ Len(level) = k /\ Levels(ls)[d + 1] = Above(level, d)
    BY <2>1
  <2> HIDE DEF level, k
  <2>3. Len(Above(level, d)) \in Nat /\ Len(Above(level, d)) > 0
    BY <2>2, AboveShape
  <2> QED BY <2>2, <2>3, DepthType
<1>3. \A d \in 0..Depth : d \in S
  BY <1>1, <1>2, Upwards, DepthType DEF Rungs
<1>4. Depth - 1 \in Rungs /\ (Depth - 1) + 1 = Depth
  BY DepthType DEF Rungs
<1>5. Len(Levels(ls)[Depth]) > 0
  BY <1>2, <1>3, <1>4, DepthType
<1> QED BY <1>3, <1>5

\* Padded with empty subtrees a level is infinite: its leaves are those of
\* the sequence and Zero, ...
LEMMA NodeLeaf ==
    ASSUME NEW ls, NEW i \in Nat
    PROVE  NodeAt(ls, 0, i) = IF i < Len(ls) THEN ls[i + 1] ELSE Zero
BY LevelsEquation, ZeroEquation DEF NodeAt

\* ... every other node is the hash of its two children, ...
LEMMA NodePair ==
    ASSUME NEW ls, Len(ls) \in Nat, NEW d \in Rungs, NEW i \in Nat
    PROVE  NodeAt(ls, d + 1, i) =
             merkle_hash2(NodeAt(ls, d, 2 * i), NodeAt(ls, d, 2 * i + 1))
<1> DEFINE level == Levels(ls)[d]
           k == Len(level)
           above == Levels(ls)[d + 1]
<1>1. k \in Nat /\ Len(level) = k /\ above = Above(level, d)
  BY LevelLength, LevelsEquation, DepthType
<1>2. /\ NodeAt(ls, d + 1, i) = IF i < Len(above) THEN above[i + 1] ELSE zero_subtrees[d + 1]
      /\ NodeAt(ls, d, 2 * i) = IF 2 * i < k THEN level[2 * i + 1] ELSE zero_subtrees[d]
      /\ NodeAt(ls, d, 2 * i + 1) =
           IF 2 * i + 1 < k THEN level[(2 * i + 1) + 1] ELSE zero_subtrees[d]
  BY DEF NodeAt
<1>3. zero_subtrees[d + 1] = merkle_hash2(zero_subtrees[d], zero_subtrees[d])
  BY ZeroEquation
<1> HIDE DEF level, k, above
<1>4. /\ Len(above) = (IF k = 0 THEN 1 ELSE (k + 1) \div 2)
      /\ k = 0 => above[1] = zero_subtrees[d + 1]
      /\ \A j \in 1..((k + 1) \div 2) :
           above[j] = merkle_hash2(level[2 * j - 1], IF 2 * j <= k THEN level[2 * j]
                                                     ELSE zero_subtrees[d])
  BY <1>1, AboveShape
<1>5. CASE 2 * i < k
  <2>1. i + 1 \in 1..((k + 1) \div 2) /\ i < (k + 1) \div 2 /\ k # 0
    BY <1>1, <1>5
  <2>2. /\ 2 * (i + 1) - 1 = 2 * i + 1 /\ 2 * (i + 1) = (2 * i + 1) + 1
        /\ 2 * (i + 1) <= k <=> 2 * i + 1 < k
    BY <1>1
  <2>3. above[i + 1] = merkle_hash2(level[2 * i + 1], IF 2 * i + 1 < k THEN level[(2 * i + 1) + 1]
                                                      ELSE zero_subtrees[d])
    BY <1>4, <2>1, <2>2
  <2> QED BY <1>2, <1>4, <1>5, <2>1, <2>3
<1>6. CASE ~ (2 * i < k)
  <2>1. ~ (2 * i + 1 < k)
    BY <1>1, <1>6
  <2>2. NodeAt(ls, d + 1, i) = zero_subtrees[d + 1]
    <3>1. CASE k = 0
      <4>1. i = 0 \/ ~ (i < Len(above))
        BY <1>4, <3>1
      <4> QED BY <1>2, <1>4, <3>1, <4>1
    <3>2. CASE k # 0
      <4>1. ~ (i < Len(above))
        BY <1>1, <1>4, <1>6, <3>2
      <4> QED BY <1>2, <4>1
    <3> QED BY <3>1, <3>2
  <2> QED BY <1>2, <1>3, <1>6, <2>1, <2>2
<1> QED BY <1>5, <1>6

\* ... and the root is the one the reference computes.
LEMMA NodeRoot ==
    ASSUME NEW ls, Len(ls) \in Nat
    PROVE  NodeAt(ls, Depth, 0) = reference_root(ls)
BY LevelLength DEF NodeAt, reference_root

-------------------------------------------------------------------------------
(***************************************************************************)
(* The frontier                                                            *)
(***************************************************************************)
\* Beyond the place of the next leaf every subtree is empty; ...
LEMMA NodeBeyond ==
    ASSUME NEW ls, NEW n \in Nat, Len(ls) = n
    PROVE  \A d \in 0..Depth : \A i \in Nat :
             i > Shifted(n)[d] => NodeAt(ls, d, i) = zero_subtrees[d]
<1> DEFINE Empty(d) == \A i \in Nat : i > Shifted(n)[d] => NodeAt(ls, d, i) = zero_subtrees[d]
           S == {d \in 0..Depth : Empty(d)}
<1>1. 0 \in S
  <2>1. Empty(0)
    BY NodeLeaf, ShiftedEquation, ZeroEquation
  <2> QED BY <2>1, DepthType
<1>2. ASSUME NEW d \in Rungs, Empty(d) PROVE Empty(d + 1)
  <2> SUFFICES ASSUME NEW i \in Nat, i > Shifted(n)[d + 1]
               PROVE  NodeAt(ls, d + 1, i) = zero_subtrees[d + 1]
    OBVIOUS
  <2> DEFINE h == Shifted(n)[d]
             up == Shifted(n)[d + 1]
  <2>0. h \in Nat /\ up \in Nat /\ (h = 2 * up \/ h = 2 * up + 1) /\ i > up
    BY ShiftedStep
  <2>1. 2 * i > h /\ 2 * i + 1 > h /\ 2 * i \in Nat /\ 2 * i + 1 \in Nat
    <3> HIDE DEF h, up
    <3> QED BY <2>0
  <2>2. NodeAt(ls, d, 2 * i) = zero_subtrees[d] /\ NodeAt(ls, d, 2 * i + 1) = zero_subtrees[d]
    BY <1>2, <2>1
  <2> QED BY <2>2, NodePair, ZeroEquation
<1> HIDE DEF Empty
<1>3. \A d \in 0..Depth : d \in S
  BY <1>1, <1>2, Upwards, DepthType DEF Rungs
<1> QED BY <1>3 DEF Empty

\* ... and a subtree that is complete does not change when leaves follow.
LEMMA NodeKept ==
    ASSUME NEW ls, NEW n \in Nat, Len(ls) = n, NEW ms, Len(ms) \in Nat, n <= Len(ms),
           \A i \in 1..n : ms[i] = ls[i]
    PROVE  \A d \in 0..Depth : \A i \in Nat :
             i < Shifted(n)[d] => NodeAt(ms, d, i) = NodeAt(ls, d, i)
<1> DEFINE Kept(d) == \A i \in Nat : i < Shifted(n)[d] => NodeAt(ms, d, i) = NodeAt(ls, d, i)
           S == {d \in 0..Depth : Kept(d)}
<1>1. 0 \in S
  <2> SUFFICES ASSUME NEW i \in Nat, i < Shifted(n)[0] PROVE NodeAt(ms, 0, i) = NodeAt(ls, 0, i)
    BY DepthType
  <2>1. i < n /\ i < Len(ms) /\ i + 1 \in 1..n
    BY ShiftedEquation
  <2> QED BY <2>1, NodeLeaf
<1>2. ASSUME NEW d \in Rungs, Kept(d) PROVE Kept(d + 1)
  <2> SUFFICES ASSUME NEW i \in Nat, i < Shifted(n)[d + 1]
               PROVE  NodeAt(ms, d + 1, i) = NodeAt(ls, d + 1, i)
    OBVIOUS
  <2> DEFINE h == Shifted(n)[d]
             up == Shifted(n)[d + 1]
  <2>0. h \in Nat /\ up \in Nat /\ (h = 2 * up \/ h = 2 * up + 1) /\ i < up
    BY ShiftedStep
  <2>1. 2 * i < h /\ 2 * i + 1 < h /\ 2 * i \in Nat /\ 2 * i + 1 \in Nat
    <3> HIDE DEF h, up
    <3> QED BY <2>0
  <2>2. /\ NodeAt(ms, d, 2 * i) = NodeAt(ls, d, 2 * i)
        /\ NodeAt(ms, d, 2 * i + 1) = NodeAt(ls, d, 2 * i + 1)
    BY <1>2, <2>1
  <2>3. /\ NodeAt(ms, d + 1, i) = merkle_hash2(NodeAt(ms, d, 2 * i), NodeAt(ms, d, 2 * i + 1))
        /\ NodeAt(ls, d + 1, i) = merkle_hash2(NodeAt(ls, d, 2 * i), NodeAt(ls, d, 2 * i + 1))
    BY NodePair
  <2> QED BY <2>2, <2>3
<1> HIDE DEF Kept
<1>3. \A d \in 0..Depth : d \in S
  BY <1>1, <1>2, Upwards, DepthType DEF Rungs
<1> QED BY <1>3 DEF Kept

\* What the code keeps: where the count has a bit, the node stored at that
\* level is the complete subtree that ends before the next leaf.  Elsewhere
\* the stored node is stale and means nothing.
Pending(ls, nds) ==
    \A d \in Rungs : Bit(Len(ls), d) = 1 => nds[d] = NodeAt(ls, d, Shifted(Len(ls))[d] - 1)

\* That is enough to fold the root of the whole tree (Frontier::root).
LEMMA RootIsReference ==
    ASSUME NEW ls, NEW n \in Nat, Len(ls) = n, n < Capacity, NEW nds, Pending(ls, nds)
    PROVE  Root(nds, n) = reference_root(ls)
<1> DEFINE other == [d \in Rungs |-> IF Bit(n, d) = 1 THEN nds[d] ELSE zero_subtrees[d]]
           node == Fold(Zero, n, other)
           S == {d \in 0..Depth : node[d] = NodeAt(ls, d, Shifted(n)[d])}
<1>1. Root(nds, n) = node[Depth]
  BY DEF Root, Rungs
<1>2. node[0] = Zero
  BY FoldEquation
<1>3. \A d \in Rungs : node[d + 1] = IF Bit(n, d) = 1 THEN merkle_hash2(nds[d], node[d])
                                     ELSE merkle_hash2(node[d], zero_subtrees[d])
  BY FoldEquation
<1> HIDE DEF node
<1>4. 0 \in S
  BY <1>2, NodeLeaf, ShiftedEquation, DepthType
<1>5. ASSUME NEW d \in Rungs, d \in S PROVE d + 1 \in S
  <2> DEFINE h == Shifted(n)[d]
             up == Shifted(n)[d + 1]
  <2>1. /\ h \in Nat /\ up \in Nat /\ node[d] = NodeAt(ls, d, h)
        /\ Bit(n, d) = 1 => h = 2 * up + 1 /\ h - 1 = 2 * up
        /\ Bit(n, d) # 1 => h = 2 * up
    BY <1>5, ShiftedStep
  <2>2. NodeAt(ls, d + 1, up) = merkle_hash2(NodeAt(ls, d, 2 * up), NodeAt(ls, d, 2 * up + 1))
    BY <2>1, NodePair
  <2>3. Bit(n, d) = 1 => nds[d] = NodeAt(ls, d, h - 1)
    BY DEF Pending
  <2>4. NodeAt(ls, d, h + 1) = zero_subtrees[d]
    BY <2>1, NodeBeyond, DepthType
  <2> HIDE DEF h
  <2>5. CASE Bit(n, d) = 1
    BY <1>3, <2>1, <2>2, <2>3, <2>5, DepthType
  <2>6. CASE Bit(n, d) # 1
    BY <1>3, <2>1, <2>2, <2>4, <2>6, DepthType
  <2> QED BY <2>5, <2>6
<1>6. Depth \in S
  BY <1>4, <1>5, Upwards, DepthType DEF Rungs
<1>7. node[Depth] = NodeAt(ls, Depth, 0)
  BY <1>6, ShiftedRoot
<1> QED BY <1>1, <1>7, NodeRoot

\* Of a full tree no bit is set, so its root is that of the empty tree.
LEMMA RootOfFull ==
    ASSUME NEW nds
    PROVE  Root(nds, Capacity) = zero_subtrees[Depth]
<1> DEFINE other == [d \in Rungs |-> IF Bit(Capacity, d) = 1 THEN nds[d] ELSE zero_subtrees[d]]
           node == Fold(Zero, Capacity, other)
           S == {d \in 0..Depth : node[d] = zero_subtrees[d]}
<1>1. Root(nds, Capacity) = node[Depth]
  BY DEF Root, Rungs
<1>2. 0 \in S
  BY FoldEquation, ZeroEquation, DepthType
<1>3. ASSUME NEW d \in Rungs, d \in S PROVE d + 1 \in S
  <2>1. node[d + 1] = merkle_hash2(node[d], zero_subtrees[d])
    BY FoldEquation, ShiftedFull
  <2> QED BY <1>3, <2>1, ZeroEquation, DepthType
<1>4. Depth \in S
  BY <1>2, <1>3, Upwards, DepthType DEF Rungs
<1> QED BY <1>1, <1>4

\* Counting one leaf more: the bits below level f were set and are cleared,
\* that of f is set, the others stay.
LEMMA Carry ==
    ASSUME NEW n \in Nat, NEW f \in 0..Depth, \A d \in Rungs : d < f => Bit(n, d) = 1,
           f \in Rungs => Bit(n, f) = 0
    PROVE  /\ \A d \in 0..f : Shifted(n + 1)[d] = Shifted(n)[d] + 1
           /\ \A d \in Rungs : d > f => Shifted(n + 1)[d] = Shifted(n)[d]
           /\ \A d \in Rungs : d < f => Bit(n + 1, d) = 0
<1>1. \A d \in 0..f : d \in 0..Depth
  BY DepthType
<1>2. \A d \in 0..(f - 1) : d \in Rungs /\ d < f /\ Bit(n, d) = 1
  BY DepthType DEF Rungs
<1>3. \A d \in 0..f : Shifted(n + 1)[d] = Shifted(n)[d] + 1
  <2> DEFINE S == {d \in 0..f : Shifted(n + 1)[d] = Shifted(n)[d] + 1}
  <2>1. 0 \in S
    BY ShiftedEquation, DepthType
  <2>2. ASSUME NEW d \in 0..(f - 1), d \in S PROVE d + 1 \in S
    <3>1. Shifted(n)[d] = 2 * Shifted(n)[d + 1] + 1 /\ Shifted(n)[d + 1] \in Nat
      BY <1>2, ShiftedStep
    <3>2. Shifted(n + 1)[d] = 2 * (Shifted(n)[d + 1] + 1)
      BY <2>2, <3>1
    <3>3. Shifted(n + 1)[d + 1] = Shifted(n + 1)[d] \div 2
      BY <1>2, ShiftedEquation
    <3>4. Shifted(n + 1)[d + 1] = Shifted(n)[d + 1] + 1
      BY <3>1, <3>2, <3>3
    <3> QED BY <3>4, DepthType
  <2>3. \A d \in 0..f : d \in S
    BY <2>1, <2>2, Upwards, DepthType
  <2> QED BY <2>3
<1>4. \A d \in Rungs : d < f => Bit(n + 1, d) = 0
  <2> SUFFICES ASSUME NEW d \in Rungs, d < f PROVE Bit(n + 1, d) = 0
    OBVIOUS
  <2>1. Shifted(n)[d] = 2 * Shifted(n)[d + 1] + 1 /\ Shifted(n)[d + 1] \in Nat
    BY ShiftedStep
  <2>2. Shifted(n + 1)[d] = 2 * (Shifted(n)[d + 1] + 1)
    BY <1>3, <2>1, DepthType
  <2> QED BY <2>1, <2>2 DEF Bit
<1>5. \A d \in Rungs : d > f => Shifted(n + 1)[d] = Shifted(n)[d]
  <2> DEFINE S == {d \in 0..Depth : d > f => Shifted(n + 1)[d] = Shifted(n)[d]}
  <2>1. 0 \in S
    BY DepthType
  <2>2. ASSUME NEW d \in Rungs, d \in S, d + 1 > f
        PROVE  Shifted(n + 1)[d + 1] = Shifted(n)[d + 1]
    <3>1. /\ Shifted(n + 1)[d + 1] = Shifted(n + 1)[d] \div 2
          /\ Shifted(n)[d + 1] = Shifted(n)[d] \div 2
      BY ShiftedEquation
    <3>2. CASE d > f
      BY <2>2, <3>1, <3>2
    <3>3. CASE d = f
      <4>0. d \in 0..f
        BY <3>3, DepthType
      <4>1. Bit(n, d) # 1
        BY <3>3
      <4>2. Shifted(n)[d] = 2 * Shifted(n)[d + 1] /\ Shifted(n)[d + 1] \in Nat
        BY <4>1, ShiftedStep
      <4>3. Shifted(n + 1)[d] = 2 * Shifted(n)[d + 1] + 1
        BY <1>3, <4>0, <4>2
      <4>4. (2 * Shifted(n)[d + 1] + 1) \div 2 = Shifted(n)[d + 1]
        BY <4>2
      <4> QED BY <3>1, <4>3, <4>4
    <3> QED BY <2>2, <3>2, <3>3, DepthType
  <2>3. \A d \in 0..(Depth - 1) : d \in S => d + 1 \in S
    BY <2>2, DepthType DEF Rungs
  <2>4. \A d \in 0..Depth : d \in S
    BY <2>1, <2>3, Upwards, DepthType
  <2> QED BY <2>4, DepthType
<1> QED BY <1>3, <1>4, <1>5

\* The node carried upwards is the subtree that ends with the new leaf.
LEMMA ClimbNode ==
    ASSUME NEW ls \in Seq(Leaves), NEW leaf \in Leaves, NEW nds, Pending(ls, nds),
           NEW f \in 0..Depth, \A d \in Rungs : d < f => Bit(Len(ls), d) = 1
    PROVE  \A d \in 0..f :
             Fold(leaf, Len(ls), nds)[d] = NodeAt(Append(ls, leaf), d, Shifted(Len(ls))[d])
<1> DEFINE n == Len(ls)
           ms == Append(ls, leaf)
           node == Fold(leaf, n, nds)
           S == {d \in 0..f : node[d] = NodeAt(ms, d, Shifted(n)[d])}
<1>0. /\ n \in Nat /\ Len(ls) = n /\ Len(ms) = n + 1 /\ Len(ms) \in Nat /\ ms[n + 1] = leaf
      /\ \A i \in 1..n : ms[i] = ls[i]
  OBVIOUS
<1>1. node[0] = leaf
  BY FoldEquation
<1>2. \A d \in Rungs : Bit(n, d) = 1 => node[d + 1] = merkle_hash2(nds[d], node[d])
  BY FoldEquation
<1> HIDE DEF n, ms, node
<1>3. 0 \in S
  BY <1>0, <1>1, NodeLeaf, ShiftedEquation, DepthType
<1>4. ASSUME NEW d \in 0..(f - 1), d \in S PROVE d + 1 \in S
  <2> DEFINE h == Shifted(n)[d]
             up == Shifted(n)[d + 1]
  <2>1. d \in Rungs /\ Bit(n, d) = 1 /\ d \in 0..Depth /\ d + 1 \in 0..f
    BY DepthType DEF Rungs, n
  <2>2. h \in Nat /\ up \in Nat /\ h = 2 * up + 1 /\ h - 1 = 2 * up
    BY <1>0, <2>1, ShiftedStep
  <2>3. NodeAt(ms, d + 1, up) = merkle_hash2(NodeAt(ms, d, 2 * up), NodeAt(ms, d, 2 * up + 1))
    BY <1>0, <2>1, <2>2, NodePair
  <2>4. nds[d] = NodeAt(ls, d, h - 1)
    BY <1>0, <2>1 DEF Pending
  <2>5. NodeAt(ms, d, 2 * up) = NodeAt(ls, d, 2 * up)
    BY <1>0, <2>1, <2>2, NodeKept
  <2>6. node[d + 1] = merkle_hash2(nds[d], node[d]) /\ node[d] = NodeAt(ms, d, h)
    BY <1>2, <1>4, <2>1
  <2> QED BY <2>1, <2>2, <2>3, <2>4, <2>5, <2>6
<1>5. \A d \in 0..f : d \in S
  BY <1>3, <1>4, Upwards, DepthType
<1> QED BY <1>5 DEF n, ms, node

\* An insertion keeps the frontier right, whichever carry it causes
\* (Frontier::insert).
LEMMA InsertPending ==
    ASSUME NEW ls \in Seq(Leaves), NEW leaf \in Leaves,
           NEW nds, nds = [d \in Rungs |-> nds[d]], Pending(ls, nds)
    PROVE  /\ Pending(Append(ls, leaf), Insert(nds, Len(ls), leaf))
           /\ DOMAIN Insert(nds, Len(ls), leaf) = Rungs
           /\ Insert(nds, Len(ls), leaf) = [d \in Rungs |-> Insert(nds, Len(ls), leaf)[d]]
<1> DEFINE n == Len(ls)
           ms == Append(ls, leaf)
           free == {d \in Rungs : Bit(n, d) = 0}
           new == Insert(nds, n, leaf)
<1>0. /\ n \in Nat /\ Len(ls) = n /\ Len(ms) = n + 1 /\ Len(ms) \in Nat
      /\ \A i \in 1..n : ms[i] = ls[i]
  OBVIOUS
<1>1. \A d \in Rungs : Bit(n, d) = 0 \/ Bit(n, d) = 1
  BY <1>0, ShiftedType
<1>2. CASE free = {}
  <2>1. new = nds
    BY <1>2 DEF Insert, Rungs
  <2>2. \A d \in Rungs : Bit(n + 1, d) = 0
    <3>1. \A d \in Rungs : d < Depth => Bit(n, d) = 1
      BY <1>1, <1>2
    <3>2. Depth \notin Rungs
      BY DepthType
    <3> HIDE DEF n
    <3> QED BY <1>0, <3>1, <3>2, Carry, DepthType
  <2> QED BY <1>0, <2>1, <2>2 DEF Pending
<1>3. CASE free # {}
  <2> DEFINE f == Min(free)
  <2>1. f \in free /\ \A d \in free : f <= d
    <3>1. free \subseteq Nat
      BY DepthType
    <3>2. \E d \in free : \A e \in free : d <= e
      <4>1. PICK d \in free : \A e \in free : ~ (<<e, d>> \in OpToRel(<, Nat))
        BY <1>3, <3>1, NatLessThanWellFounded, WFMin
      <4>2. \A e \in free : ~ (e < d)
        BY <3>1, <4>1 DEF OpToRel
      <4> QED BY <3>1, <4>2
    <3> HIDE DEF free
    <3> QED BY <3>2 DEF Min
  <2>2. new = [nds EXCEPT ![f] = Fold(leaf, n, nds)[f]]
    BY <1>3 DEF Insert, Rungs
  <2>3. /\ f \in Rungs /\ f \in 0..Depth /\ Bit(n, f) = 0
        /\ \A d \in Rungs : d < f => Bit(n, d) = 1
    <3> HIDE DEF f
    <3>1. f \in Rungs /\ f \in 0..Depth /\ Bit(n, f) = 0 /\ f \in Nat
      BY <2>1, DepthType
    <3>2. ASSUME NEW d \in Rungs, d < f PROVE Bit(n, d) = 1
      <4>1. d \notin free
        BY <2>1, <3>1, <3>2, DepthType
      <4> QED BY <1>1, <4>1
    <3> QED BY <3>1, <3>2
  <2> HIDE DEF f
  <2>4. new[f] = NodeAt(ms, f, Shifted(n)[f])
    <3>1. f \in 0..f
      BY <2>3, DepthType
    <3> QED BY <2>2, <2>3, <3>1, ClimbNode
  <2>5. /\ \A d \in 0..f : Shifted(n + 1)[d] = Shifted(n)[d] + 1
        /\ \A d \in Rungs : d > f => Shifted(n + 1)[d] = Shifted(n)[d]
        /\ \A d \in Rungs : d < f => Bit(n + 1, d) = 0
    <3> HIDE DEF n
    <3> QED BY <1>0, <2>3, Carry
  <2>6. ASSUME NEW d \in Rungs, Bit(n + 1, d) = 1
        PROVE  new[d] = NodeAt(ms, d, Shifted(n + 1)[d] - 1)
    <3>1. CASE d = f
      <4>1. Shifted(n + 1)[d] - 1 = Shifted(n)[d]
        <5>1. d \in 0..f /\ Shifted(n)[d] \in Nat
          <6>1. f \in Nat /\ d \in 0..Depth
            BY <2>3, DepthType
          <6>2. d \in 0..f
            BY <3>1, <6>1
          <6>3. Shifted(n)[d] \in Nat
            <7> HIDE DEF n
            <7> QED BY <1>0, <6>1, ShiftedType
          <6> QED BY <6>2, <6>3
        <5>2. Shifted(n + 1)[d] = Shifted(n)[d] + 1
          BY <2>5, <5>1
        <5> QED BY <5>1, <5>2
      <4> QED BY <2>4, <3>1, <4>1
    <3>2. CASE d > f
      <4>1. Shifted(n + 1)[d] = Shifted(n)[d] /\ Bit(n, d) = 1
        BY <2>5, <2>6, <3>2 DEF Bit
      <4>2. new[d] = nds[d] /\ nds[d] = NodeAt(ls, d, Shifted(n)[d] - 1)
        BY <2>2, <2>3, <3>2, <4>1, DepthType DEF Pending
      <4>3. Shifted(n)[d] \in Nat /\ Shifted(n)[d] > 0
        BY <1>0, <4>1, ShiftedStep
      <4>4. NodeAt(ms, d, Shifted(n)[d] - 1) = NodeAt(ls, d, Shifted(n)[d] - 1)
        <5> HIDE DEF n, ms
        <5>1. \A i \in Nat : i < Shifted(n)[d] => NodeAt(ms, d, i) = NodeAt(ls, d, i)
          <6>1. n <= Len(ms) /\ d \in 0..Depth
            BY <1>0, DepthType
          <6> QED BY <1>0, <6>1, NodeKept
        <5>2. Shifted(n)[d] - 1 \in Nat /\ Shifted(n)[d] - 1 < Shifted(n)[d]
          BY <4>3
        <5> QED BY <5>1, <5>2
      <4> QED BY <4>1, <4>2, <4>4
    <3>3. CASE d < f
      BY <2>5, <2>6, <3>3
    <3> QED BY <2>3, <3>1, <3>2, <3>3, DepthType
  <2>7. new = [d \in Rungs |-> new[d]] /\ DOMAIN new = Rungs
    BY <2>2
  <2> QED BY <1>0, <2>6, <2>7 DEF Pending
<1> QED BY <1>2, <1>3

-------------------------------------------------------------------------------
(***************************************************************************)
(* Paths and roots                                                         *)
(***************************************************************************)
LEMMA HashInjective ==
    ASSUME NEW a, NEW b, NEW x, NEW y, merkle_hash2(a, b) = merkle_hash2(x, y)
    PROVE  a = x /\ b = y
BY DEF merkle_hash2

\* With the siblings of an index a path leads to the root for the leaf at
\* that index, Zero where there is none, and for nothing else.
LEMMA PathLeaf ==
    ASSUME NEW ls, Len(ls) \in Nat, NEW index \in Nat, index < Capacity, NEW leaf
    PROVE  verify_merkle_path(leaf, index, Siblings(ls, index), reference_root(ls))
             <=> leaf = NodeAt(ls, 0, index)
<1> DEFINE sib == Siblings(ls, index)
           node == Fold(leaf, index, sib)
           S == {d \in 0..Depth : node[d] = NodeAt(ls, d, Shifted(index)[d])}
<1>1. node[0] = leaf
  BY FoldEquation
<1>2. \A d \in Rungs : node[d + 1] = IF Bit(index, d) = 1 THEN merkle_hash2(sib[d], node[d])
                                     ELSE merkle_hash2(node[d], sib[d])
  BY FoldEquation
<1>3. \A d \in Rungs : sib[d] = NodeAt(ls, d, IF Bit(index, d) = 0 THEN Shifted(index)[d] + 1
                                              ELSE Shifted(index)[d] - 1)
  BY DEF Siblings, Rungs, Bit
<1>4. verify_merkle_path(leaf, index, sib, reference_root(ls)) <=> node[Depth] = reference_root(ls)
  BY DEF verify_merkle_path
<1> HIDE DEF node, sib
<1>5. ASSUME NEW d \in Rungs PROVE d \in S <=> d + 1 \in S
  <2> DEFINE h == Shifted(index)[d]
             up == Shifted(index)[d + 1]
  <2>1. /\ h \in Nat /\ up \in Nat /\ d \in 0..Depth /\ d + 1 \in 0..Depth
        /\ Bit(index, d) = 1 => h = 2 * up + 1 /\ h - 1 = 2 * up
        /\ Bit(index, d) # 1 => h = 2 * up /\ Bit(index, d) = 0
    <3>1. /\ h \in Nat /\ up \in Nat
          /\ Bit(index, d) = 1 => h = 2 * up + 1
          /\ Bit(index, d) # 1 => h = 2 * up /\ Bit(index, d) = 0
      BY ShiftedStep
    <3> HIDE DEF h, up
    <3> QED BY <3>1, DepthType
  <2>2. NodeAt(ls, d + 1, up) = merkle_hash2(NodeAt(ls, d, 2 * up), NodeAt(ls, d, 2 * up + 1))
    BY <2>1, NodePair
  <2>3. /\ d \in S <=> node[d] = NodeAt(ls, d, h)
        /\ d + 1 \in S <=> node[d + 1] = NodeAt(ls, d + 1, up)
    BY <2>1
  <2> HIDE DEF S
  <2>4. CASE Bit(index, d) = 1
    <3>1. /\ h = 2 * up + 1 /\ sib[d] = NodeAt(ls, d, 2 * up)
          /\ node[d + 1] = merkle_hash2(sib[d], node[d])
      BY <1>2, <1>3, <2>1, <2>4
    <3> HIDE DEF h, up
    <3> QED BY <2>2, <2>3, <3>1, HashInjective
  <2>5. CASE Bit(index, d) # 1
    <3>1. /\ h = 2 * up /\ sib[d] = NodeAt(ls, d, 2 * up + 1)
          /\ node[d + 1] = merkle_hash2(node[d], sib[d])
      BY <1>2, <1>3, <2>1, <2>5
    <3> HIDE DEF h, up
    <3> QED BY <2>2, <2>3, <3>1, HashInjective
  <2> QED BY <2>4, <2>5
<1>6. 0 \in S <=> leaf = NodeAt(ls, 0, index)
  BY <1>1, ShiftedEquation, DepthType
<1>7. Depth \in S <=> node[Depth] = reference_root(ls)
  BY ShiftedRoot, NodeRoot, DepthType
<1> HIDE DEF S
<1>8. 0 \in S => Depth \in S
  BY <1>5, Upwards, DepthType DEF Rungs
<1>9. Depth \in S => 0 \in S
  BY <1>5, Downwards, DepthType DEF Rungs
<1> QED BY <1>4, <1>6, <1>7, <1>8, <1>9 DEF sib

\* Trees with the same root have the same leaves, the empty places included.
LEMMA SameLeaves ==
    ASSUME NEW ls, Len(ls) \in Nat, NEW ms, Len(ms) \in Nat,
           reference_root(ls) = reference_root(ms), NEW i \in Nat, i < Capacity
    PROVE  NodeAt(ls, 0, i) = NodeAt(ms, 0, i)
<1> DEFINE S == {d \in 0..Depth : NodeAt(ls, d, Shifted(i)[d]) = NodeAt(ms, d, Shifted(i)[d])}
<1>1. Depth \in S
  BY ShiftedRoot, NodeRoot, DepthType
<1>2. ASSUME NEW d \in Rungs, d + 1 \in S PROVE d \in S
  <2> DEFINE h == Shifted(i)[d]
             up == Shifted(i)[d + 1]
  <2>1. h \in Nat /\ up \in Nat /\ (h = 2 * up \/ h = 2 * up + 1)
    BY ShiftedStep
  <2>2. /\ NodeAt(ls, d + 1, up) = merkle_hash2(NodeAt(ls, d, 2 * up), NodeAt(ls, d, 2 * up + 1))
        /\ NodeAt(ms, d + 1, up) = merkle_hash2(NodeAt(ms, d, 2 * up), NodeAt(ms, d, 2 * up + 1))
    BY <2>1, NodePair
  <2>3. NodeAt(ls, d + 1, up) = NodeAt(ms, d + 1, up)
    BY <1>2
  <2>4. /\ NodeAt(ls, d, 2 * up) = NodeAt(ms, d, 2 * up)
        /\ NodeAt(ls, d, 2 * up + 1) = NodeAt(ms, d, 2 * up + 1)
    BY <2>2, <2>3, HashInjective
  <2> QED BY <2>1, <2>4, DepthType
<1>3. 0 \in S
  BY <1>1, <1>2, Downwards, DepthType DEF Rungs
<1> QED BY <1>3, ShiftedEquation

\* The tree without leaves is the empty subtree.
LEMMA EmptyRoot ==
    ASSUME NEW ls, Len(ls) = 0
    PROVE  reference_root(ls) = zero_subtrees[Depth]
<1> DEFINE Empty(d) == \A i \in Nat : NodeAt(ls, d, i) = zero_subtrees[d]
           S == {d \in 0..Depth : Empty(d)}
<1>1. 0 \in S
  BY NodeLeaf, ZeroEquation, DepthType
<1>2. ASSUME NEW d \in Rungs, Empty(d) PROVE Empty(d + 1)
  <2> SUFFICES ASSUME NEW i \in Nat PROVE NodeAt(ls, d + 1, i) = zero_subtrees[d + 1]
    OBVIOUS
  <2>1. NodeAt(ls, d, 2 * i) = zero_subtrees[d] /\ NodeAt(ls, d, 2 * i + 1) = zero_subtrees[d]
    BY <1>2
  <2>2. NodeAt(ls, d + 1, i) = merkle_hash2(NodeAt(ls, d, 2 * i), NodeAt(ls, d, 2 * i + 1))
    BY NodePair
  <2> QED BY <2>1, <2>2, ZeroEquation
<1> HIDE DEF Empty
<1>3. \A d \in 0..Depth : d \in S
  BY <1>1, <1>2, Upwards, DepthType DEF Rungs
<1> QED BY <1>3, NodeRoot, DepthType DEF Empty

\* The first i leaves.
Prefix(ls, i) == SubSeq(ls, 1, i)

LEMMA PrefixFacts ==
    ASSUME NEW ls \in Seq(Leaves), NEW i \in 0..Len(ls)
    PROVE  /\ Len(Prefix(ls, i)) = i
           /\ \A j \in 1..i : Prefix(ls, i)[j] = ls[j] /\ ls[j] \in Leaves
           /\ \A leaf \in Leaves : Prefix(Append(ls, leaf), i) = Prefix(ls, i)
<1>1. Len(Prefix(ls, i)) = i /\ Prefix(ls, i) = [j \in 1..i |-> ls[j]]
  BY DEF Prefix
<1>2. \A j \in 1..i : ls[j] \in Leaves
  OBVIOUS
<1>3. ASSUME NEW leaf \in Leaves PROVE Prefix(Append(ls, leaf), i) = Prefix(ls, i)
  <2>1. Append(ls, leaf) \in Seq(Leaves) /\ Len(Append(ls, leaf)) = Len(ls) + 1
    OBVIOUS
  <2>2. Prefix(Append(ls, leaf), i) = [j \in 1..i |-> Append(ls, leaf)[j]]
    BY <2>1 DEF Prefix
  <2>3. \A j \in 1..i : Append(ls, leaf)[j] = ls[j]
    OBVIOUS
  <2> QED BY <1>1, <2>2, <2>3
<1> QED BY <1>1, <1>2, <1>3

LEMMA WholePrefix ==
    ASSUME NEW ls \in Seq(Leaves)
    PROVE  Prefix(ls, Len(ls)) = ls
BY DEF Prefix

\* Different numbers of leaves have different roots: where the shorter tree
\* is empty, the longer one has a leaf.
LEMMA CountsDiffer ==
    ASSUME NEW ls \in Seq(Leaves), NEW i \in 0..Len(ls), NEW j \in 0..Len(ls),
           i < j, j < Capacity
    PROVE  reference_root(Prefix(ls, i)) # reference_root(Prefix(ls, j))
<1> SUFFICES ASSUME reference_root(Prefix(ls, i)) = reference_root(Prefix(ls, j)) PROVE FALSE
  OBVIOUS
<1>1. Len(Prefix(ls, i)) = i /\ Len(Prefix(ls, j)) = j /\ i \in Nat /\ j \in Nat
  BY PrefixFacts
<1>2. Capacity \in Nat
  BY Pow2Type, DepthType DEF Capacity
<1>3. NodeAt(Prefix(ls, i), 0, i) = NodeAt(Prefix(ls, j), 0, i)
  BY <1>1, <1>2, SameLeaves
<1>4. NodeAt(Prefix(ls, i), 0, i) = Zero
  BY <1>1, NodeLeaf
<1>5. i + 1 \in 1..j
  BY <1>1
<1>6. Prefix(ls, j)[i + 1] \in Leaves
  BY <1>5, PrefixFacts
<1>7. NodeAt(Prefix(ls, j), 0, i) = Prefix(ls, j)[i + 1]
  BY <1>1, NodeLeaf
<1> QED BY <1>3, <1>4, <1>6, <1>7, FrontierAssumption

-------------------------------------------------------------------------------
(***************************************************************************)
(* The invariant                                                           *)
(***************************************************************************)
\* The root after i insertions.
RootAfter(ls, i) ==
    IF i = Capacity THEN zero_subtrees[Depth] ELSE reference_root(Prefix(ls, i))

CountOK == leaves \in Seq(Leaves) /\ leaf_count = Len(leaves) /\ leaf_count <= Capacity

NodesOK == nodes = [d \in Rungs |-> nodes[d]] /\ Pending(leaves, nodes)

RootsOK ==
    /\ roots = [i \in 1..(leaf_count + 1) |-> RootAfter(leaves, i - 1)]
    /\ root = RootAfter(leaves, leaf_count)

TreeInv == CountOK /\ NodesOK /\ RootsOK

LEMMA CapacityType == Capacity \in Nat /\ Capacity > 0
BY Pow2Type, DepthType DEF Capacity

\* A table that is appended to is a longer table.
LEMMA AppendTable ==
    ASSUME NEW n \in Nat, NEW s, s = [i \in 1..n |-> s[i]], NEW e
    PROVE  Append(s, e) = [i \in 1..(n + 1) |-> IF i = n + 1 THEN e ELSE s[i]]
<1>1. s \in Seq({s[i] : i \in 1..n} \cup {e}) /\ Len(s) = n
  <2>1. s \in [1..n -> {s[i] : i \in 1..n} \cup {e}]
    OBVIOUS
  <2>2. Len(s) = n
    BY TableLength
  <2> QED BY <2>1, <2>2
<1> QED BY <1>1

LEMMA TreeInit == Init => TreeInv
<1> SUFFICES ASSUME Init PROVE TreeInv
  OBVIOUS
<1>1. CountOK
  BY CapacityType DEF Init, CountOK
<1>2. NodesOK
  <2>1. \A d \in 0..Depth : Shifted(0)[d] = 0
    <3> DEFINE S == {d \in 0..Depth : Shifted(0)[d] = 0}
    <3>1. 0 \in S
      BY ShiftedEquation, DepthType
    <3>2. ASSUME NEW d \in Rungs, d \in S PROVE d + 1 \in S
      BY <3>2, ShiftedEquation, DepthType
    <3>3. \A d \in 0..Depth : d \in S
      BY <3>1, <3>2, Upwards, DepthType DEF Rungs
    <3> QED BY <3>3
  <2>2. \A d \in Rungs : Bit(0, d) = 0
    BY <2>1, DepthType DEF Bit
  <2>3. leaves = << >> /\ Len(leaves) = 0
    BY DEF Init
  <2>4. nodes = [d \in Rungs |-> nodes[d]]
    BY DEF Init, Rungs
  <2> QED BY <2>2, <2>3, <2>4 DEF NodesOK, Pending
<1>3. RootsOK
  <2>1. leaves \in Seq(Leaves) /\ Len(leaves) = 0 /\ leaf_count = 0
    BY DEF Init
  <2>4. reference_root(leaves) = zero_subtrees[Depth]
    BY <2>1, EmptyRoot
  <2>5. RootAfter(leaves, 0) = zero_subtrees[Depth]
    <3>1. Prefix(leaves, 0) = leaves
      BY <2>1, WholePrefix
    <3>2. Capacity # 0
      BY CapacityType
    <3> QED BY <2>4, <3>1, <3>2 DEF RootAfter
  <2>6. roots = [i \in 1..1 |-> zero_subtrees[Depth]] /\ root = zero_subtrees[Depth]
    BY DEF Init
  <2> QED BY <2>1, <2>5, <2>6 DEF RootsOK
<1> QED BY <1>1, <1>2, <1>3 DEF TreeInv

\* An insertion stores where the next carry will look for it, and folds the
\* root of the tree it leaves (v2_insert_leaf).
LEMMA InsertInv ==
    ASSUME TreeInv, NEW leaf \in Leaves, v2_insert_leaf(leaf)
    PROVE  TreeInv'
<1> DEFINE n == Len(leaves)
           ms == Append(leaves, leaf)
<1>1. /\ leaves \in Seq(Leaves) /\ n \in Nat /\ leaf_count = n /\ n < Capacity
      /\ leaves' = ms /\ leaf_count' = n + 1
      /\ nodes' = Insert(nodes, n, leaf)
      /\ root' = Root(nodes', n + 1)
      /\ roots' = Append(roots, root')
  BY DEF TreeInv, CountOK, v2_insert_leaf
<1>2. ms \in Seq(Leaves) /\ Len(ms) = n + 1 /\ n + 1 <= Capacity
  BY <1>1, CapacityType
<1>3. CountOK'
  BY <1>1, <1>2 DEF CountOK
<1>4. /\ Pending(ms, nodes')
      /\ nodes' = [d \in Rungs |-> nodes'[d]]
  BY <1>1, InsertPending DEF TreeInv, NodesOK
<1>5. NodesOK'
  BY <1>1, <1>4 DEF NodesOK
<1>6. root' = RootAfter(ms, n + 1)
  <2>1. CASE n + 1 = Capacity
    BY <1>1, <2>1, RootOfFull DEF RootAfter
  <2>2. CASE n + 1 # Capacity
    <3>1. n + 1 \in Nat /\ n + 1 < Capacity
      BY <1>1, <1>2, <2>2, CapacityType
    <3>2. root' = reference_root(ms)
      BY <1>1, <1>2, <1>4, <3>1, RootIsReference
    <3>3. Prefix(ms, n + 1) = ms
      BY <1>2, WholePrefix
    <3> QED BY <2>2, <3>2, <3>3 DEF RootAfter
  <2> QED BY <2>1, <2>2
<1>7. ASSUME NEW i \in 0..n PROVE RootAfter(ms, i) = RootAfter(leaves, i)
  BY <1>1, PrefixFacts DEF RootAfter
<1>8. roots' = [i \in 1..(n + 2) |-> RootAfter(ms, i - 1)]
  <2>1. roots = [i \in 1..(n + 1) |-> RootAfter(leaves, i - 1)]
    BY <1>1 DEF TreeInv, RootsOK
  <2>2. roots' = [i \in 1..((n + 1) + 1) |-> IF i = (n + 1) + 1 THEN root' ELSE roots[i]]
    <3>1. roots = [i \in 1..(n + 1) |-> roots[i]] /\ n + 1 \in Nat
      BY <1>1, <2>1
    <3> QED BY <1>1, <3>1, AppendTable
  <2>3. ASSUME NEW i \in 1..(n + 2) PROVE roots'[i] = RootAfter(ms, i - 1)
    <3>1. CASE i = n + 2
      BY <1>1, <1>6, <2>2, <3>1
    <3>2. CASE i # n + 2
      <4>1. i \in 1..(n + 1) /\ i - 1 \in 0..n
        BY <1>1, <3>2
      <4>2. roots'[i] = roots[i] /\ roots[i] = RootAfter(leaves, i - 1)
        BY <1>1, <2>1, <2>2, <4>1
      <4> QED BY <1>7, <4>1, <4>2
    <3> QED BY <3>1, <3>2
  <2>4. (n + 1) + 1 = n + 2
    BY <1>1
  <2> QED BY <2>2, <2>3, <2>4
<1>9. RootsOK'
  <2>1. (n + 1) + 1 = n + 2
    BY <1>1
  <2> QED BY <1>1, <1>6, <1>8, <2>1 DEF RootsOK
<1> QED BY <1>3, <1>5, <1>9 DEF TreeInv

LEMMA NextInv == TreeInv /\ [Next]_vars => TreeInv'
<1> SUFFICES ASSUME TreeInv, [Next]_vars PROVE TreeInv'
  OBVIOUS
<1>1. CASE Next
  BY <1>1, InsertInv DEF Next
<1>2. CASE UNCHANGED vars
  BY <1>2 DEF vars, TreeInv, CountOK, NodesOK, RootsOK
<1> QED BY <1>1, <1>2

\* Nodes, count, root and the roots before it describe one tree, at all
\* times and for every depth.
THEOREM TreeInvCorrect == Spec => []TreeInv
BY TreeInit, NextInv, PTL DEF Spec

-------------------------------------------------------------------------------
(***************************************************************************)
(* The properties                                                          *)
(***************************************************************************)
\* Below capacity the root is the reference's.
LEMMA RootReference ==
    ASSUME TreeInv, leaf_count < Capacity
    PROVE  root = reference_root(leaves) /\ leaves \in Seq(Leaves) /\ Len(leaves) \in Nat
<1>1. /\ leaves \in Seq(Leaves) /\ leaf_count = Len(leaves) /\ Len(leaves) \in Nat
      /\ root = RootAfter(leaves, leaf_count)
  BY DEF TreeInv, CountOK, RootsOK
<1>2. Prefix(leaves, Len(leaves)) = leaves
  BY <1>1, WholePrefix
<1>3. leaf_count # Capacity
  BY <1>1, CapacityType
<1> QED BY <1>1, <1>2, <1>3 DEF RootAfter

\* As long as one place is free, the frontier folds to the root of the tree
\* rebuilt from all leaves: for every depth and every number of leaves what
\* the test frontier_matches_reference_many asserts of the first 37.
THEOREM FrontierCorrect == Spec => []FrontierMatchesReference
<1>1. TreeInv => FrontierMatchesReference
  BY RootReference DEF FrontierMatchesReference
<1> QED BY <1>1, TreeInvCorrect, PTL

\* A path verifies against the current root for exactly one leaf, the one
\* stored at its index (verify_merkle_path).
THEOREM PathsCorrect == Spec => []PathsExact
<1>1. TreeInv => PathsExact
  <2> SUFFICES ASSUME TreeInv, leaf_count < Capacity,
                      NEW leaf \in Leaves, NEW index \in 0..(Capacity - 1)
               PROVE  verify_merkle_path(leaf, index, Siblings(leaves, index), root)
                        <=> index < leaf_count /\ leaves[index + 1] = leaf
    BY DEF PathsExact
  <2>1. /\ root = reference_root(leaves) /\ leaves \in Seq(Leaves) /\ Len(leaves) \in Nat
        /\ leaf_count = Len(leaves)
    BY RootReference DEF TreeInv, CountOK
  <2>2. index \in Nat /\ index < Capacity
    BY CapacityType
  <2>3. verify_merkle_path(leaf, index, Siblings(leaves, index), root)
          <=> leaf = NodeAt(leaves, 0, index)
    BY <2>1, <2>2, PathLeaf
  <2>4. NodeAt(leaves, 0, index) = IF index < Len(leaves) THEN leaves[index + 1] ELSE Zero
    BY <2>2, NodeLeaf
  <2>5. leaf # Zero
    BY FrontierAssumption
  <2> QED BY <2>1, <2>3, <2>4, <2>5
<1> QED BY <1>1, TreeInvCorrect, PTL

\* A root determines the number of leaves below it, except that the full
\* tree has the root of the empty one: what allows ProofHubV2 to name a root
\* by a count, for every depth.
THEOREM RootNamesCountCorrect == Spec => []RootNamesCount
<1>1. TreeInv => RootNamesCount
  <2> SUFFICES ASSUME TreeInv, NEW i \in 0..leaf_count, NEW j \in 0..leaf_count
               PROVE  roots[i + 1] = roots[j + 1] <=> (i % Capacity) = (j % Capacity)
    BY DEF RootNamesCount
  <2> DEFINE cap == Capacity
             R(k) == RootAfter(leaves, k)
  <2>1. /\ leaves \in Seq(Leaves) /\ leaf_count = Len(leaves) /\ leaf_count \in Nat
        /\ leaf_count <= cap /\ cap \in Nat /\ cap > 0
    BY CapacityType DEF TreeInv, CountOK
  <2>2. roots[i + 1] = R(i) /\ roots[j + 1] = R(j)
    <3>1. /\ i + 1 \in 1..(leaf_count + 1) /\ (i + 1) - 1 = i
          /\ j + 1 \in 1..(leaf_count + 1) /\ (j + 1) - 1 = j
      BY <2>1
    <3>2. roots = [k \in 1..(leaf_count + 1) |-> RootAfter(leaves, k - 1)]
      BY DEF TreeInv, RootsOK
    <3> QED BY <3>1, <3>2
  <2>3. R(cap) = R(0)
    <3>1. Len(Prefix(leaves, 0)) = 0
      BY <2>1, PrefixFacts
    <3>2. reference_root(Prefix(leaves, 0)) = zero_subtrees[Depth]
      BY <3>1, EmptyRoot
    <3>3. 0 # cap
      BY <2>1
    <3> QED BY <3>2, <3>3 DEF RootAfter
  <2>4. ASSUME NEW k \in 0..leaf_count, NEW l \in 0..leaf_count, k < l, l < cap
        PROVE  R(k) # R(l)
    <3>1. k # cap /\ l # cap
      BY <2>1, <2>4
    <3>2. reference_root(Prefix(leaves, k)) # reference_root(Prefix(leaves, l))
      BY <2>1, <2>4, CountsDiffer
    <3> QED BY <3>1, <3>2 DEF RootAfter
  <2>5. ASSUME NEW k \in 0..leaf_count PROVE k % cap = IF k = cap THEN 0 ELSE k
    <3>1. k \in 0..cap
      BY <2>1
    <3> HIDE DEF cap
    <3> QED BY <2>1, <3>1
  <2> QED BY <2>1, <2>2, <2>3, <2>4, <2>5
<1> QED BY <1>1, TreeInvCorrect, PTL
===============================================================================
