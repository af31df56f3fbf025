------------------------------- MODULE PoolFacts -------------------------------
(***************************************************************************)
(* Facts the proofs about all the shielded pools share: what a sum over a  *)
(* finite set is worth when the function summed changes, and what a        *)
(* transfer of the currency does to the pool account.                      *)
(*                                                                         *)
(* SumFunctionOnSet is a recursive function chosen to satisfy its          *)
(* defining equation, so the first lemmas show that such a function        *)
(* exists.  There is no induction principle to cite: each argument by      *)
(* induction takes a smallest counterexample instead, which theorem WFMin  *)
(* provides for the numbers and for the subsets of a finite set.           *)
(***************************************************************************)
EXTENDS Currency, FiniteSetsExt, FiniteSetTheorems, TLAPS

-------------------------------------------------------------------------------
(***************************************************************************)
(* Smallest elements                                                       *)
(***************************************************************************)

\* A nonempty set of natural numbers has a least member.
LEMMA LeastNumber ==
    ASSUME NEW T, T \subseteq Nat, T # {}
    PROVE  \E n \in T : \A m \in T : n <= m
<1>1. PICK n \in T : \A m \in T : ~ (<<m, n>> \in OpToRel(<, Nat))
  BY NatLessThanWellFounded, WFMin
<1>2. \A m \in T : ~ (m < n)
  BY <1>1 DEF OpToRel
<1> QED BY <1>2

\* A nonempty family of subsets of a finite set has a member none of whose
\* strict subsets is in the family.
LEMMA LeastSubset ==
    ASSUME NEW S, IsFiniteSet(S), NEW T, T \subseteq SUBSET S, T # {}
    PROVE  \E s \in T : \A r \in T : r \subseteq s => r = s
<1>1. IsWellFoundedOn(StrictSubsetOrdering(S), SUBSET S)
  BY FS_StrictSubsetOrderingWellFounded, FS_FiniteSubsetsOfFinite
<1>2. PICK s \in T : \A r \in T : ~ (<<r, s>> \in StrictSubsetOrdering(S))
  BY <1>1, WFMin
<1>3. ASSUME NEW r \in T, r \subseteq s, r # s PROVE FALSE
  <2>1. <<r, s>> \in (SUBSET S) \X (SUBSET S)
    OBVIOUS
  <2> QED BY <1>2, <1>3, <2>1 DEF StrictSubsetOrdering
<1> QED BY <1>3

\* A nonempty finite set of natural numbers has a greatest member.
LEMMA GreatestNumber ==
    ASSUME NEW S, IsFiniteSet(S)
    PROVE  S \subseteq Nat /\ S # {} => \E n \in S : \A m \in S : m <= n
<1> DEFINE Top(s) == \E n \in s : \A m \in s : m <= n
           Bad    == {s \in SUBSET S : s \subseteq Nat /\ s # {} /\ ~ Top(s)}
<1>1. Bad \subseteq SUBSET S
  OBVIOUS
<1>2. Bad # {} => \E s \in Bad : \A r \in Bad : r \subseteq s => r = s
  <2> HIDE DEF Bad
  <2> QED BY <1>1, LeastSubset
<1>3. \A s \in SUBSET S : s \in Bad <=> s \subseteq Nat /\ s # {} /\ ~ Top(s)
  OBVIOUS
<1>4. Bad = {}
  <2> HIDE DEF Bad
  <2> SUFFICES ASSUME Bad # {} PROVE FALSE
    OBVIOUS
  <2>1. PICK s \in Bad : \A r \in Bad : r \subseteq s => r = s
    BY <1>2
  <2>2. PICK c \in s : c \in Nat
    BY <1>1, <1>3, <2>1
  <2> DEFINE t == s \ {c}
  <2>3. CASE t = {}
    <3>1. \A m \in s : m = c
      BY <2>3
    <3>2. Top(s)
      BY <2>2, <3>1
    <3> QED BY <1>1, <1>3, <2>1, <3>2
  <2>4. CASE t # {}
    <3>1. t \in SUBSET S /\ t \notin Bad /\ t \subseteq Nat
      BY <1>1, <1>3, <2>1, <2>2
    <3>2. PICK n \in t : \A m \in t : m <= n
      BY <1>3, <2>4, <3>1
    <3>3. n \in Nat /\ n \in s /\ \A m \in s : m \in Nat /\ (m = c \/ m <= n)
      BY <1>1, <1>3, <2>1, <3>2
    <3>4. CASE c <= n
      <4>1. \A m \in s : m <= n
        BY <3>3, <3>4
      <4> QED BY <1>1, <1>3, <2>1, <3>3, <4>1
    <3>5. CASE n <= c
      <4>1. \A m \in s : m <= c
        BY <2>2, <3>3, <3>5
      <4> QED BY <1>1, <1>3, <2>1, <2>2, <4>1
    <3> QED BY <2>2, <3>3, <3>4, <3>5
  <2> QED BY <2>3, <2>4
<1> QED BY <1>3, <1>4

\* The greatest of a set of values, 0 when there is none: what the model
\* counts for a group of claims of which one can be made.
LEMMA MaxZero ==
    ASSUME NEW S, S \subseteq Nat, IsFiniteSet(S)
    PROVE  /\ Max(S \cup {0}) \in Nat
           /\ Max(S \cup {0}) \in S \cup {0}
           /\ \A s \in S : s <= Max(S \cup {0})
<1> DEFINE T == S \cup {0}
<1>1. T \subseteq Nat /\ IsFiniteSet(T) /\ T # {}
  BY FS_AddElement
<1> HIDE DEF T
<1>2. PICK n \in T : \A m \in T : m <= n
  BY <1>1, GreatestNumber
<1>3. \A m \in T : n >= m
  BY <1>1, <1>2
<1>4. Max(T) \in T /\ \A m \in T : Max(T) >= m
  BY <1>3 DEF Max
<1>5. Max(T) \in Nat /\ \A m \in T : m <= Max(T)
  BY <1>1, <1>4
<1> QED BY <1>4, <1>5 DEF T

\* One more value raises the greatest by at most itself.
LEMMA MaxRaise ==
    ASSUME NEW S, S \subseteq Nat, IsFiniteSet(S),
           NEW v \in Nat, NEW T, T \subseteq S \cup {v}
    PROVE  /\ Max(T \cup {0}) \in Nat
           /\ Max(T \cup {0}) <= Max(S \cup {0}) + v
<1>1. T \subseteq Nat /\ IsFiniteSet(T)
  <2>1. IsFiniteSet(S \cup {v})
    BY FS_AddElement
  <2> QED BY <2>1, FS_Subset
<1>2. /\ Max(T \cup {0}) \in Nat /\ Max(T \cup {0}) \in T \cup {0}
      /\ Max(S \cup {0}) \in Nat /\ \A s \in S : s <= Max(S \cup {0})
  BY <1>1, MaxZero
<1> QED BY <1>2

-------------------------------------------------------------------------------
(***************************************************************************)
(* Sums                                                                    *)
(***************************************************************************)

\* The element a fold takes first, and the equation that defines the partial
\* sums of f over the sets of a family closed under taking it away.
First(s) == CHOOSE x \in s : TRUE

PartialSums(f, D, it) ==
    it = [s \in D |-> IF s = {} THEN 0 ELSE f[First(s)] + it[s \ {First(s)}]]

\* The partial sums over the sets of at most n elements exist, for all n.
LEMMA PartialSumsExist ==
    ASSUME NEW f, NEW S, IsFiniteSet(S)
    PROVE  \E it : PartialSums(f, SUBSET S, it)
<1> DEFINE Level(n) == {s \in SUBSET S : Cardinality(s) <= n}
           Bad == {n \in Nat : ~ \E it : PartialSums(f, Level(n), it)}
<1>1. \A s \in SUBSET S : IsFiniteSet(s) /\ Cardinality(s) \in Nat
                            /\ Cardinality(s) <= Cardinality(S)
  BY FS_Subset, FS_CardinalityType
<1>2. \A s \in SUBSET S : s # {} => /\ First(s) \in s
                                    /\ s \ {First(s)} \in SUBSET S
                                    /\ Cardinality(s \ {First(s)}) = Cardinality(s) - 1
  BY <1>1, FS_RemoveElement DEF First
<1>3. 0 \notin Bad
  <2>1. \A s \in Level(0) : s = {}
    BY <1>1, FS_EmptySet
  <2> DEFINE it == [s \in Level(0) |-> 0]
  <2>2. PartialSums(f, Level(0), it)
    BY <2>1 DEF PartialSums
  <2> QED BY <2>2
<1>4. ASSUME NEW n \in Nat, n \notin Bad PROVE n + 1 \notin Bad
  <2>1. PICK it : PartialSums(f, Level(n), it)
    BY <1>4
  <2> DEFINE next == [s \in Level(n + 1) |->
                        IF s = {} THEN 0 ELSE f[First(s)] + it[s \ {First(s)}]]
  <2>2. Level(n) \subseteq Level(n + 1)
    BY <1>1
  <2>3. \A s \in Level(n) : next[s] = it[s]
    BY <2>1, <2>2 DEF PartialSums
  <2>4. \A s \in Level(n + 1) : s # {} => s \ {First(s)} \in Level(n)
    BY <1>1, <1>2
  <2> HIDE DEF Level
  <2>5. \A s \in Level(n + 1) :
          next[s] = IF s = {} THEN 0 ELSE f[First(s)] + next[s \ {First(s)}]
    BY <2>3, <2>4
  <2>6. PartialSums(f, Level(n + 1), next)
    <3>1. next = [s \in Level(n + 1) |-> next[s]]
      OBVIOUS
    <3> QED BY <2>5, <3>1 DEF PartialSums
  <2> QED BY <2>6
<1>5. Bad = {}
  <2>1. Bad \subseteq Nat
    OBVIOUS
  <2> HIDE DEF Bad
  <2> SUFFICES ASSUME Bad # {} PROVE FALSE
    OBVIOUS
  <2>2. PICK n \in Bad : \A m \in Bad : n <= m
    BY <2>1, LeastNumber
  <2>3. n \in Nat /\ n # 0
    BY <1>3, <2>1, <2>2
  <2>4. n - 1 \in Nat /\ n - 1 \notin Bad
    BY <2>1, <2>2, <2>3
  <2>5. (n - 1) + 1 \notin Bad
    BY <1>4, <2>4
  <2> QED BY <2>2, <2>3, <2>5
<1>6. Level(Cardinality(S)) = SUBSET S
  BY <1>1
<1>7. Cardinality(S) \in Nat
  BY FS_CardinalityType
<1> QED BY <1>5, <1>6, <1>7

\* The equation the sum over each subset of S satisfies.
LEMMA SumEquation ==
    ASSUME NEW f, NEW S, IsFiniteSet(S)
    PROVE  \E it : PartialSums(f, SUBSET S, it) /\ SumFunctionOnSet(f, S) = it[S]
<1> DEFINE it == CHOOSE it : PartialSums(f, SUBSET S, it)
<1>1. PartialSums(f, SUBSET S, it)
  BY PartialSumsExist
<1>2. SumFunctionOnSet(f, S) = it[S]
  BY DEF SumFunctionOnSet, FoldFunctionOnSet, MapThenFoldSet, PartialSums, First
<1> QED BY <1>1, <1>2

\* A sum of natural numbers is a natural number.
LEMMA SumType ==
    ASSUME NEW f, NEW S, IsFiniteSet(S), \A x \in S : f[x] \in Nat
    PROVE  SumFunctionOnSet(f, S) \in Nat
<1>1. PICK it : PartialSums(f, SUBSET S, it) /\ SumFunctionOnSet(f, S) = it[S]
  BY SumEquation
<1> DEFINE Bad == {s \in SUBSET S : it[s] \notin Nat}
<1>2. Bad = {}
  <2>0. /\ Bad \subseteq SUBSET S
        /\ \A s \in SUBSET S : s \in Bad <=> ~ (it[s] \in Nat)
    OBVIOUS
  <2> HIDE DEF Bad
  <2> SUFFICES ASSUME Bad # {} PROVE FALSE
    OBVIOUS
  <2>1. PICK s \in Bad : \A r \in Bad : r \subseteq s => r = s
    BY <2>0, LeastSubset
  <2>2. CASE s = {}
    <3>1. it[{}] = 0
      BY <1>1 DEF PartialSums
    <3> QED BY <2>0, <2>1, <2>2, <3>1
  <2>3. CASE s # {}
    <3>1. First(s) \in s
      BY <2>0, <2>1, <2>3 DEF First
    <3>2. it[s \ {First(s)}] \in Nat
      BY <2>0, <2>1, <3>1
    <3>3. it[s] = f[First(s)] + it[s \ {First(s)}]
      BY <1>1, <2>0, <2>1, <2>3 DEF PartialSums
    <3>4. f[First(s)] \in Nat
      BY <2>0, <3>1
    <3>5. it[s] \in Nat
      BY <3>2, <3>3, <3>4
    <3> QED BY <2>0, <2>1, <3>5
  <2> QED BY <2>2, <2>3
<1>3. S \notin Bad
  BY <1>2
<1> QED BY <1>1, <1>3

\* Changing the function at one element changes the sum by as much.
LEMMA SumUpdate ==
    ASSUME NEW S, IsFiniteSet(S), NEW f, NEW g,
           \A y \in S : f[y] \in Int /\ g[y] \in Int,
           NEW x \in S, \A y \in S \ {x} : g[y] = f[y]
    PROVE  /\ SumFunctionOnSet(f, S) \in Int
           /\ SumFunctionOnSet(g, S) = SumFunctionOnSet(f, S) - f[x] + g[x]
<1>1. PICK F : PartialSums(f, SUBSET S, F) /\ SumFunctionOnSet(f, S) = F[S]
  BY SumEquation
<1>2. PICK G : PartialSums(g, SUBSET S, G) /\ SumFunctionOnSet(g, S) = G[S]
  BY SumEquation
<1> DEFINE Delta(s) == IF x \in s THEN g[x] - f[x] ELSE 0
           Good(s)  == F[s] \in Int /\ G[s] = F[s] + Delta(s)
           Bad      == {s \in SUBSET S : ~ Good(s)}
<1>3. Bad = {}
  <2>0. /\ Bad \subseteq SUBSET S
        /\ \A s \in SUBSET S : s \in Bad <=> ~ (Good(s))
    OBVIOUS
  <2> HIDE DEF Bad
  <2> SUFFICES ASSUME Bad # {} PROVE FALSE
    OBVIOUS
  <2>1. PICK s \in Bad : \A r \in Bad : r \subseteq s => r = s
    BY <2>0, LeastSubset
  <2>2. CASE s = {}
    <3>1. F[{}] = 0 /\ G[{}] = 0
      BY <1>1, <1>2 DEF PartialSums
    <3> QED BY <2>0, <2>1, <2>2, <3>1
  <2>3. CASE s # {}
    <3> DEFINE c == First(s)
               t == s \ {c}
    <3>1. c \in s /\ c \in S
      BY <2>0, <2>1, <2>3 DEF First
    <3>2. Good(t)
      BY <2>0, <2>1, <3>1
    <3>3. F[s] = f[c] + F[t] /\ G[s] = g[c] + G[t]
      BY <1>1, <1>2, <2>0, <2>1, <2>3 DEF PartialSums
    <3>4. x \in t <=> x \in s /\ c # x
      OBVIOUS
    <3>5. c # x => f[c] = g[c]
      BY <3>1
    <3>6. f[c] \in Int /\ g[c] \in Int /\ f[x] \in Int /\ g[x] \in Int
      BY <3>1
    <3> HIDE DEF c, t
    <3>7. Good(s)
      BY <3>1, <3>2, <3>3, <3>4, <3>5, <3>6
    <3> QED BY <2>0, <2>1, <3>7
  <2> QED BY <2>2, <2>3
<1>4. S \notin Bad
  BY <1>3
<1>5. f[x] \in Int /\ g[x] \in Int
  OBVIOUS
<1> QED BY <1>1, <1>2, <1>4, <1>5

\* Raising one summand by at most v raises the sum by at most v; ...
LEMMA SumRaise ==
    ASSUME NEW S, IsFiniteSet(S), NEW f \in [S -> Nat], NEW g \in [S -> Nat],
           NEW x \in S, \A y \in S \ {x} : g[y] = f[y],
           NEW v \in Nat, g[x] <= f[x] + v
    PROVE  SumFunction(g) <= SumFunction(f) + v
<1>1. \A y \in S : f[y] \in Int /\ g[y] \in Int
  OBVIOUS
<1>2. /\ SumFunctionOnSet(f, S) \in Int
      /\ SumFunctionOnSet(g, S) = SumFunctionOnSet(f, S) - f[x] + g[x]
  BY <1>1, SumUpdate
<1>3. SumFunction(f) = SumFunctionOnSet(f, S) /\ SumFunction(g) = SumFunctionOnSet(g, S)
  BY DEF SumFunction
<1>4. f[x] \in Int /\ g[x] \in Int
  BY <1>1
<1> QED BY <1>2, <1>3, <1>4

\* ... lowering one by at least v lowers the sum by at least v.
LEMMA SumLower ==
    ASSUME NEW S, IsFiniteSet(S), NEW f \in [S -> Nat], NEW g \in [S -> Nat],
           NEW x \in S, \A y \in S \ {x} : g[y] = f[y],
           NEW v \in Nat, g[x] + v <= f[x]
    PROVE  SumFunction(g) + v <= SumFunction(f)
<1>1. \A y \in S : f[y] \in Int /\ g[y] \in Int
  OBVIOUS
<1>2. /\ SumFunctionOnSet(f, S) \in Int
      /\ SumFunctionOnSet(g, S) = SumFunctionOnSet(f, S) - f[x] + g[x]
  BY <1>1, SumUpdate
<1>3. SumFunction(f) = SumFunctionOnSet(f, S) /\ SumFunction(g) = SumFunctionOnSet(g, S)
  BY DEF SumFunction
<1>4. f[x] \in Int /\ g[x] \in Int
  BY <1>1
<1> QED BY <1>2, <1>3, <1>4

\* A sum of zeros is zero.
LEMMA SumZero ==
    ASSUME NEW f, NEW S, IsFiniteSet(S), \A x \in S : f[x] = 0
    PROVE  SumFunctionOnSet(f, S) = 0
<1>1. PICK it : PartialSums(f, SUBSET S, it) /\ SumFunctionOnSet(f, S) = it[S]
  BY SumEquation
<1> DEFINE Bad == {s \in SUBSET S : it[s] # 0}
<1>2. Bad = {}
  <2>0. /\ Bad \subseteq SUBSET S
        /\ \A s \in SUBSET S : s \in Bad <=> ~ (it[s] = 0)
    OBVIOUS
  <2> HIDE DEF Bad
  <2> SUFFICES ASSUME Bad # {} PROVE FALSE
    OBVIOUS
  <2>1. PICK s \in Bad : \A r \in Bad : r \subseteq s => r = s
    BY <2>0, LeastSubset
  <2>2. CASE s = {}
    <3>1. it[{}] = 0
      BY <1>1 DEF PartialSums
    <3> QED BY <2>0, <2>1, <2>2, <3>1
  <2>3. CASE s # {}
    <3>1. First(s) \in s
      BY <2>0, <2>1, <2>3 DEF First
    <3>2. it[s \ {First(s)}] = 0
      BY <2>0, <2>1, <3>1
    <3>3. it[s] = f[First(s)] + it[s \ {First(s)}]
      BY <1>1, <2>0, <2>1, <2>3 DEF PartialSums
    <3> QED BY <2>0, <2>1, <3>1, <3>2, <3>3
  <2> QED BY <2>2, <2>3
<1>3. S \notin Bad
  BY <1>2
<1> QED BY <1>1, <1>3

\* The partial sums over the subsets of S contain the sum over each of them.
LEMMA SumAgree ==
    ASSUME NEW f, NEW S, IsFiniteSet(S), NEW it, PartialSums(f, SUBSET S, it),
           NEW R \in SUBSET S
    PROVE  SumFunctionOnSet(f, R) = it[R]
<1>0. IsFiniteSet(R)
  BY FS_Subset
<1>1. PICK own : PartialSums(f, SUBSET R, own) /\ SumFunctionOnSet(f, R) = own[R]
  BY <1>0, SumEquation
<1> DEFINE Bad == {s \in SUBSET R : own[s] # it[s]}
<1>2. Bad = {}
  <2>0. /\ Bad \subseteq SUBSET R
        /\ \A s \in SUBSET R : s \in Bad <=> ~ (own[s] = it[s])
    OBVIOUS
  <2> HIDE DEF Bad
  <2> SUFFICES ASSUME Bad # {} PROVE FALSE
    OBVIOUS
  <2>1. PICK s \in Bad : \A r \in Bad : r \subseteq s => r = s
    BY <1>0, <2>0, LeastSubset
  <2>2. CASE s = {}
    <3>1. own[{}] = 0 /\ it[{}] = 0
      BY <1>1 DEF PartialSums
    <3> QED BY <2>0, <2>1, <2>2, <3>1
  <2>3. CASE s # {}
    <3> DEFINE t == s \ {First(s)}
    <3>1. First(s) \in s /\ s \in SUBSET R /\ s \in SUBSET S
      BY <2>0, <2>1, <2>3 DEF First
    <3>2. t \in SUBSET R /\ t \notin Bad
      BY <2>1, <3>1
    <3>3. own[t] = it[t]
      BY <2>0, <3>2
    <3>4. own[s] = f[First(s)] + own[t] /\ it[s] = f[First(s)] + it[t]
      BY <1>1, <2>3, <3>1 DEF PartialSums
    <3> QED BY <2>0, <2>1, <3>1, <3>3, <3>4
  <2> QED BY <2>2, <2>3
<1> QED BY <1>1, <1>2

\* Any element of a set may be taken out of the sum over it.
LEMMA SumSplit ==
    ASSUME NEW f, NEW S, IsFiniteSet(S), \A y \in S : f[y] \in Int, NEW x \in S
    PROVE  /\ SumFunctionOnSet(f, S) = f[x] + SumFunctionOnSet(f, S \ {x})
           /\ SumFunctionOnSet(f, S \ {x}) \in Int
<1>1. PICK it : PartialSums(f, SUBSET S, it) /\ SumFunctionOnSet(f, S) = it[S]
  BY SumEquation
<1> DEFINE Good(s) == it[s] \in Int /\ \A y \in s : it[s] = f[y] + it[s \ {y}]
           Bad == {s \in SUBSET S : ~ Good(s)}
<1>2. Bad = {}
  <2>0. /\ Bad \subseteq SUBSET S
        /\ \A s \in SUBSET S : s \in Bad <=> ~ Good(s)
    OBVIOUS
  <2> HIDE DEF Bad
  <2> SUFFICES ASSUME Bad # {} PROVE FALSE
    OBVIOUS
  <2>1. PICK s \in Bad : \A r \in Bad : r \subseteq s => r = s
    BY <2>0, LeastSubset
  <2>2. CASE s = {}
    <3>1. it[{}] = 0
      BY <1>1 DEF PartialSums
    <3> QED BY <2>0, <2>1, <2>2, <3>1
  <2>3. CASE s # {}
    <3> DEFINE c == First(s)
    <3>1. c \in s /\ s \in SUBSET S
      BY <2>0, <2>1, <2>3 DEF First
    <3>2. ASSUME NEW r \in SUBSET s, r # s PROVE Good(r)
      BY <2>0, <2>1, <3>1, <3>2
    <3>3. it[s] = f[c] + it[s \ {c}]
      BY <1>1, <2>3, <3>1 DEF PartialSums
    <3> HIDE DEF c
    <3>4. Good(s \ {c})
      BY <3>1, <3>2
    <3>5. ASSUME NEW y \in s, y # c PROVE it[s] = f[y] + it[s \ {y}]
      <4>1. /\ s \ {y} \in SUBSET s /\ s \ {y} # s /\ c \in s \ {y}
            /\ (s \ {y}) \ {c} = (s \ {c}) \ {y}
            /\ (s \ {c}) \ {y} \in SUBSET s /\ (s \ {c}) \ {y} # s /\ y \in s \ {c}
        BY <3>1, <3>5
      <4>2. Good(s \ {y}) /\ Good((s \ {c}) \ {y})
        BY <3>2, <4>1
      <4>3. /\ it[s \ {y}] = f[c] + it[(s \ {c}) \ {y}]
            /\ it[s \ {c}] = f[y] + it[(s \ {c}) \ {y}]
            /\ it[(s \ {c}) \ {y}] \in Int
        BY <3>4, <4>1, <4>2
      <4>4. f[c] \in Int /\ f[y] \in Int
        BY <3>1
      <4> QED BY <3>3, <4>3, <4>4
    <3>6. it[s] \in Int
      BY <3>1, <3>3, <3>4
    <3>7. Good(s)
      BY <3>3, <3>5, <3>6
    <3> QED BY <2>0, <2>1, <3>7
  <2> QED BY <2>2, <2>3
<1>3. Good(S) /\ Good(S \ {x})
  BY <1>2
<1>4. SumFunctionOnSet(f, S \ {x}) = it[S \ {x}]
  BY <1>1, SumAgree
<1> QED BY <1>1, <1>3, <1>4

\* A sum does not depend on the names of its summands.
LEMMA SumReindex ==
    ASSUME NEW I, IsFiniteSet(I), NEW h, NEW g, NEW p,
           \A i \in I : h[i] \in Int /\ g[p[i]] = h[i],
           \A i, j \in I : p[i] = p[j] => i = j
    PROVE  SumFunctionOnSet(g, {p[i] : i \in I}) = SumFunctionOnSet(h, I)
<1> DEFINE Img(K)  == {p[i] : i \in K}
           Good(K) == /\ IsFiniteSet(Img(K))
                      /\ SumFunctionOnSet(g, Img(K)) = SumFunctionOnSet(h, K)
           Bad     == {K \in SUBSET I : ~ Good(K)}
<1>1. Bad = {}
  <2>0. /\ Bad \subseteq SUBSET I
        /\ \A K \in SUBSET I : K \in Bad <=> ~ Good(K)
    OBVIOUS
  <2> HIDE DEF Bad
  <2> SUFFICES ASSUME Bad # {} PROVE FALSE
    OBVIOUS
  <2>1. PICK K \in Bad : \A r \in Bad : r \subseteq K => r = K
    BY <2>0, LeastSubset
  <2>2. CASE K = {}
    <3>1. Img(K) = {}
      BY <2>2
    <3>2. SumFunctionOnSet(g, {}) = 0 /\ SumFunctionOnSet(h, {}) = 0
      BY FS_EmptySet, SumZero
    <3>3. Good(K)
      BY <2>2, <3>1, <3>2, FS_EmptySet
    <3> QED BY <2>0, <2>1, <3>3
  <2>3. CASE K # {}
    <3>1. PICK k : k \in K
      BY <2>3
    <3>2. K \in SUBSET I /\ IsFiniteSet(K)
      BY <2>0, <2>1, FS_Subset
    <3>3. Good(K \ {k})
      BY <2>0, <2>1, <3>1, <3>2
    <3>4. Img(K) \ {p[k]} = Img(K \ {k}) /\ p[k] \in Img(K)
      BY <3>1, <3>2
    <3>5. IsFiniteSet(Img(K)) /\ \A y \in Img(K) : g[y] \in Int
      <4>1. Img(K) = Img(K \ {k}) \cup {p[k]} /\ IsFiniteSet(Img(K \ {k}))
        BY <3>1, <3>3
      <4>2. IsFiniteSet(Img(K))
        <5> HIDE DEF Img
        <5> QED BY <4>1, FS_AddElement
      <4>3. \A y \in Img(K) : g[y] \in Int
        BY <3>2
      <4> QED BY <4>2, <4>3
    <3>6. SumFunctionOnSet(h, K) = h[k] + SumFunctionOnSet(h, K \ {k})
      BY <3>1, <3>2, SumSplit
    <3> DEFINE img == Img(K)
    <3>7. SumFunctionOnSet(g, img) = g[p[k]] + SumFunctionOnSet(g, img \ {p[k]})
      <4> HIDE DEF img
      <4> QED BY <3>4, <3>5, SumSplit DEF img
    <3>8. g[p[k]] = h[k]
      BY <3>1, <3>2
    <3>9. Good(K)
      BY <3>3, <3>4, <3>5, <3>6, <3>7, <3>8
    <3> QED BY <2>0, <2>1, <3>9
  <2> QED BY <2>2, <2>3
<1>2. Good(I)
  BY <1>1
<1> QED BY <1>2

-------------------------------------------------------------------------------
(***************************************************************************)
(* The currency                                                            *)
(***************************************************************************)

\* A transfer that pallet_balances accepts keeps every balance a natural
\* number and burns a natural number.
LEMMA TransferType ==
    ASSUME NEW A, NEW bal \in [A -> Nat], NEW from \in A, NEW to \in A,
           NEW amount \in Nat, NEW keepAlive \in BOOLEAN,
           TransferOk(bal, from, to, amount, keepAlive)
    PROVE  /\ Transfer(bal, from, to, amount) \in [A -> Nat]
           /\ Dust(bal, from, to, amount) \in Nat
<1> USE ExistentialDepositAssumption DEF TransferOk, Transfer, Dust, NoOp
<1>1. CASE amount = 0 \/ from = to
  BY <1>1
<1>2. CASE ~(amount = 0 \/ from = to)
  <2>1. bal[from] \in Nat /\ bal[to] \in Nat /\ amount <= bal[from]
    BY <1>2
  <2> DEFINE rest == bal[from] - amount - Dust(bal, from, to, amount)
  <2>2. Dust(bal, from, to, amount) \in Nat /\ rest \in Nat
    BY <1>2, <2>1
  <2>3. Transfer(bal, from, to, amount)
          = [bal EXCEPT ![from] = rest, ![to] = bal[to] + amount]
    BY <1>2, <2>1
  <2> QED BY <2>1, <2>2, <2>3
<1> QED BY <1>1, <1>2

\* Paying out of an account takes the amount from it, counting the dust as
\* still there, or nothing at all when the transfer is a no-op.
LEMMA PaymentOut ==
    ASSUME NEW A, NEW bal \in [A -> Nat], NEW pool \in A, NEW to \in A,
           NEW amount \in Nat, NEW lost \in Nat,
           TransferOk(bal, pool, to, amount, FALSE)
    PROVE  Transfer(bal, pool, to, amount)[pool] + (lost + Dust(bal, pool, to, amount))
             \in {bal[pool] + lost, bal[pool] + lost - amount}
<1> DEFINE d == Dust(bal, pool, to, amount)
<1>1. bal[pool] \in Nat /\ d \in Nat
  BY TransferType
<1>2. CASE NoOp(pool, to, amount)
  BY <1>1, <1>2 DEF Transfer, Dust
<1>3. CASE ~NoOp(pool, to, amount)
  <2> HIDE DEF d
  <2>1. Transfer(bal, pool, to, amount)
          = [bal EXCEPT ![pool] = @ - amount - d, ![to] = @ + amount]
    BY <1>3 DEF Transfer, d
  <2>2. Transfer(bal, pool, to, amount)[pool] = bal[pool] - amount - d
    BY <1>1, <1>3, <2>1 DEF NoOp
  <2>3. Transfer(bal, pool, to, amount)[pool] + (lost + d) = bal[pool] + lost - amount
    BY <1>1, <2>2
  <2> QED BY <2>3 DEF d
<1> QED BY <1>2, <1>3

\* Paying into an account from another one adds exactly the amount.
LEMMA PaymentIn ==
    ASSUME NEW A, NEW bal \in [A -> Nat], NEW pool \in A, NEW from \in A \ {pool},
           NEW amount \in Nat
    PROVE  Transfer(bal, from, pool, amount)[pool] = bal[pool] + amount
<1>1. bal[pool] \in Nat
  OBVIOUS
<1>2. CASE NoOp(from, pool, amount)
  BY <1>1, <1>2 DEF NoOp, Transfer
<1>3. CASE ~NoOp(from, pool, amount)
  BY <1>3 DEF NoOp, Transfer
<1> QED BY <1>2, <1>3

-------------------------------------------------------------------------------
(***************************************************************************)
(* Claims                                                                  *)
(***************************************************************************)

\* What the holders of notes can still take out, by the tag a spend strikes:
\* nothing under a tag that is spent, and under any other no more than the
\* greatest of its notes, since one of them can be spent.  worth[t] holds
\* the values of the notes under t.
OpenClaims(worth, spent) ==
    [t \in DOMAIN worth |-> IF t \in spent THEN 0 ELSE Max(worth[t] \cup {0})]

Worths(T) == {w \in [T -> SUBSET Nat] : \A t \in T : IsFiniteSet(w[t])}

\* Claims are natural numbers, and no note that can be spent is worth more
\* than its claim.
LEMMA ClaimsType ==
    ASSUME NEW T, IsFiniteSet(T), NEW worth \in Worths(T), NEW spent
    PROVE  /\ OpenClaims(worth, spent) \in [T -> Nat]
           /\ SumFunction(OpenClaims(worth, spent)) \in Nat
           /\ \A t \in T \ spent : \A v \in worth[t] : v <= OpenClaims(worth, spent)[t]
<1>1. DOMAIN worth = T /\ \A t \in T : worth[t] \subseteq Nat /\ IsFiniteSet(worth[t])
  BY DEF Worths
<1>2. \A t \in T : /\ Max(worth[t] \cup {0}) \in Nat
                   /\ \A v \in worth[t] : v <= Max(worth[t] \cup {0})
  BY <1>1, MaxZero
<1>3. OpenClaims(worth, spent) \in [T -> Nat]
  BY <1>1, <1>2 DEF OpenClaims
<1>4. \A t \in T \ spent : OpenClaims(worth, spent)[t] = Max(worth[t] \cup {0})
  BY <1>1 DEF OpenClaims
<1>5. SumFunction(OpenClaims(worth, spent)) \in Nat
  <2>1. SumFunctionOnSet(OpenClaims(worth, spent), T) \in Nat
    BY <1>3, SumType
  <2> QED BY <1>3, <2>1 DEF SumFunction
<1> QED BY <1>2, <1>3, <1>4, <1>5

\* A new note raises the claims together by at most its value.
LEMMA ClaimsRaised ==
    ASSUME NEW T, IsFiniteSet(T), NEW worth \in Worths(T), NEW spent,
           NEW x \in T, NEW v \in Nat, NEW more \in [T -> SUBSET Nat],
           \A t \in T \ {x} : more[t] = worth[t],
           more[x] \subseteq worth[x] \cup {v}
    PROVE  /\ more \in Worths(T)
           /\ SumFunction(OpenClaims(more, spent)) <= SumFunction(OpenClaims(worth, spent)) + v
<1>1. DOMAIN worth = T /\ DOMAIN more = T
      /\ \A t \in T : worth[t] \subseteq Nat /\ IsFiniteSet(worth[t])
  BY DEF Worths
<1>2. IsFiniteSet(more[x])
  BY <1>1, FS_AddElement, FS_Subset
<1>3. more \in Worths(T)
  BY <1>1, <1>2 DEF Worths
<1>4. /\ OpenClaims(worth, spent) \in [T -> Nat]
      /\ OpenClaims(more, spent) \in [T -> Nat]
  BY <1>3, ClaimsType
<1>5. \A t \in T \ {x} : OpenClaims(more, spent)[t] = OpenClaims(worth, spent)[t]
  BY <1>1 DEF OpenClaims
<1>6. OpenClaims(more, spent)[x] <= OpenClaims(worth, spent)[x] + v
  <2>1. Max(more[x] \cup {0}) <= Max(worth[x] \cup {0}) + v
    BY <1>1, MaxRaise
  <2>2. /\ OpenClaims(more, spent)[x] = IF x \in spent THEN 0 ELSE Max(more[x] \cup {0})
        /\ OpenClaims(worth, spent)[x] = IF x \in spent THEN 0 ELSE Max(worth[x] \cup {0})
    BY <1>1 DEF OpenClaims
  <2> QED BY <2>1, <2>2
<1>7. SumFunction(OpenClaims(more, spent)) <= SumFunction(OpenClaims(worth, spent)) + v
  BY <1>4, <1>5, <1>6, SumRaise
<1> QED BY <1>3, <1>7

\* Spending a note lowers the claims together by at least its value.
LEMMA ClaimsSpent ==
    ASSUME NEW T, IsFiniteSet(T), NEW worth \in Worths(T), NEW spent,
           NEW x \in T \ spent, NEW v \in worth[x]
    PROVE  SumFunction(OpenClaims(worth, spent \cup {x})) + v
             <= SumFunction(OpenClaims(worth, spent))
<1>1. DOMAIN worth = T /\ v \in Nat
  BY DEF Worths
<1>2. /\ OpenClaims(worth, spent) \in [T -> Nat]
      /\ OpenClaims(worth, spent \cup {x}) \in [T -> Nat]
      /\ v <= OpenClaims(worth, spent)[x]
  BY ClaimsType
<1>3. /\ OpenClaims(worth, spent \cup {x})[x] = 0
      /\ \A t \in T \ {x} : OpenClaims(worth, spent \cup {x})[t] = OpenClaims(worth, spent)[t]
  BY <1>1 DEF OpenClaims
<1>4. OpenClaims(worth, spent \cup {x})[x] + v <= OpenClaims(worth, spent)[x]
  BY <1>1, <1>2, <1>3
<1> QED BY <1>1, <1>2, <1>3, <1>4, SumLower

\* What covers the claims together covers each of them.
LEMMA ClaimCovered ==
    ASSUME NEW T, IsFiniteSet(T), NEW worth \in Worths(T), NEW spent,
           NEW x \in T \ spent, NEW v \in worth[x]
    PROVE  v \in Nat /\ v <= SumFunction(OpenClaims(worth, spent))
<1>1. v \in Nat
  BY DEF Worths
<1>2. /\ SumFunction(OpenClaims(worth, spent)) \in Nat
      /\ SumFunction(OpenClaims(worth, spent \cup {x})) \in Nat
  BY ClaimsType
<1>3. SumFunction(OpenClaims(worth, spent \cup {x})) + v <= SumFunction(OpenClaims(worth, spent))
  BY ClaimsSpent
<1> QED BY <1>1, <1>2, <1>3

\* Spending several notes under different tags at once lowers the claims
\* together by at least what the notes are worth together.
LEMMA ClaimsSpentAll ==
    ASSUME NEW T, IsFiniteSet(T), NEW worth \in Worths(T), NEW spent,
           NEW I, IsFiniteSet(I), NEW tag, NEW val,
           \A i \in I : tag[i] \in T \ spent /\ val[i] \in worth[tag[i]],
           \A i, j \in I : tag[i] = tag[j] => i = j
    PROVE  SumFunction(OpenClaims(worth, spent \cup {tag[i] : i \in I}))
             + SumFunctionOnSet(val, I) <= SumFunction(OpenClaims(worth, spent))
<1> DEFINE S(K)    == SumFunction(OpenClaims(worth, spent \cup {tag[i] : i \in K}))
           Good(K) == S(K) + SumFunctionOnSet(val, K) <= SumFunction(OpenClaims(worth, spent))
           Bad     == {K \in SUBSET I : ~ Good(K)}
<1>1. Bad = {}
  <2>0. /\ Bad \subseteq SUBSET I
        /\ \A K \in SUBSET I : K \in Bad <=> ~ Good(K)
    OBVIOUS
  <2> HIDE DEF Bad
  <2> SUFFICES ASSUME Bad # {} PROVE FALSE
    OBVIOUS
  <2>1. PICK K \in Bad : \A r \in Bad : r \subseteq K => r = K
    BY <2>0, LeastSubset
  <2>2. CASE K = {}
    <3>1. spent \cup {tag[i] : i \in K} = spent
      BY <2>2
    <3>2. SumFunctionOnSet(val, K) = 0
      BY <2>2, FS_EmptySet, SumZero
    <3>3. SumFunction(OpenClaims(worth, spent)) \in Nat
      BY ClaimsType
    <3> QED BY <2>0, <2>1, <3>1, <3>2, <3>3
  <2>3. CASE K # {}
    <3>1. PICK k : k \in K
      BY <2>3
    <3> DEFINE L    == K \ {k}
               used == spent \cup {tag[i] : i \in L}
    <3>2. K \in SUBSET I /\ IsFiniteSet(K) /\ k \in I /\ L \in SUBSET I
      BY <2>0, <2>1, <3>1, FS_Subset
    <3>3. Good(L)
      BY <2>0, <2>1, <3>1, <3>2
    <3>4. /\ spent \cup {tag[i] : i \in K} = used \cup {tag[k]}
          /\ tag[k] \in T \ used /\ val[k] \in worth[tag[k]]
      BY <3>1, <3>2
    <3>5. SumFunctionOnSet(val, K) = val[k] + SumFunctionOnSet(val, L)
          /\ SumFunctionOnSet(val, L) \in Int /\ val[k] \in Int
      <4>1. \A i \in K : val[i] \in Int
        BY <3>2 DEF Worths
      <4>2. /\ SumFunctionOnSet(val, K) = val[k] + SumFunctionOnSet(val, K \ {k})
            /\ SumFunctionOnSet(val, K \ {k}) \in Int
        BY <3>1, <3>2, <4>1, SumSplit
      <4> QED BY <3>1, <4>1, <4>2
    <3>6. S(L) = SumFunction(OpenClaims(worth, used))
      OBVIOUS
    <3>7. S(K) = SumFunction(OpenClaims(worth, used \cup {tag[k]}))
      BY <3>4
    <3> HIDE DEF used
    <3>8. SumFunction(OpenClaims(worth, used \cup {tag[k]})) + val[k]
            <= SumFunction(OpenClaims(worth, used))
      BY <3>4, ClaimsSpent
    <3>9. /\ SumFunction(OpenClaims(worth, used \cup {tag[k]})) \in Nat
          /\ SumFunction(OpenClaims(worth, used)) \in Nat
          /\ SumFunction(OpenClaims(worth, spent)) \in Nat
      BY ClaimsType
    <3> HIDE DEF S, L
    <3>10. Good(K)
      BY <3>3, <3>5, <3>6, <3>7, <3>8, <3>9
    <3> QED BY <2>0, <2>1, <3>10
  <2> QED BY <2>2, <2>3
<1>2. Good(I)
  BY <1>1
<1> QED BY <1>2

\* more holds, besides what is in worth, the values val under the tags tag.
Adds(worth, more, tag, val, I) ==
    \A t \in DOMAIN worth : more[t] = worth[t] \cup {val[i] : i \in {j \in I : tag[j] = t}}

\* Several new notes raise the claims together by at most what they are
\* worth together, also when some of them share a tag.
LEMMA ClaimsRaisedAll ==
    ASSUME NEW T, IsFiniteSet(T), NEW worth \in Worths(T), NEW spent,
           NEW I, IsFiniteSet(I), NEW tag, NEW val,
           \A i \in I : tag[i] \in T /\ val[i] \in Nat,
           NEW more \in [T -> SUBSET Nat], Adds(worth, more, tag, val, I)
    PROVE  SumFunction(OpenClaims(more, spent))
             <= SumFunction(OpenClaims(worth, spent)) + SumFunctionOnSet(val, I)
<1> DEFINE M(K)    == [t \in T |-> worth[t] \cup {val[i] : i \in {j \in K : tag[j] = t}}]
           S(K)    == SumFunction(OpenClaims(M(K), spent))
           Good(K) == /\ M(K) \in Worths(T)
                      /\ S(K) <= SumFunction(OpenClaims(worth, spent))
                                   + SumFunctionOnSet(val, K)
           Bad     == {K \in SUBSET I : ~ Good(K)}
<1>1. Bad = {}
  <2>0. /\ Bad \subseteq SUBSET I
        /\ \A K \in SUBSET I : K \in Bad <=> ~ Good(K)
    OBVIOUS
  <2> HIDE DEF Bad
  <2> SUFFICES ASSUME Bad # {} PROVE FALSE
    OBVIOUS
  <2>1. PICK K \in Bad : \A r \in Bad : r \subseteq K => r = K
    BY <2>0, LeastSubset
  <2>2. CASE K = {}
    <3>1. M(K) = worth
      BY <2>2 DEF Worths
    <3>2. SumFunctionOnSet(val, K) = 0
      BY <2>2, FS_EmptySet, SumZero
    <3>3. SumFunction(OpenClaims(worth, spent)) \in Nat
      BY ClaimsType
    <3> HIDE DEF M
    <3> QED BY <2>0, <2>1, <3>1, <3>2, <3>3
  <2>3. CASE K # {}
    <3>1. PICK k : k \in K
      BY <2>3
    <3> DEFINE L  == K \ {k}
               MK == M(K)
               ML == M(L)
    <3>2. K \in SUBSET I /\ IsFiniteSet(K) /\ k \in I /\ L \in SUBSET I
      BY <2>0, <2>1, <3>1, FS_Subset
    <3>3. Good(L)
      BY <2>0, <2>1, <3>1, <3>2
    <3>4. /\ MK \in [T -> SUBSET Nat]
          /\ \A t \in T \ {tag[k]} : MK[t] = ML[t]
          /\ MK[tag[k]] \subseteq ML[tag[k]] \cup {val[k]}
          /\ tag[k] \in T /\ val[k] \in Nat
      <4>1. MK \in [T -> SUBSET Nat]
        BY <3>2 DEF Worths
      <4>2. tag[k] \in T /\ val[k] \in Nat
        BY <3>2
      <4>3. \A t \in T \ {tag[k]} : MK[t] = ML[t]
        OBVIOUS
      <4>4. MK[tag[k]] \subseteq ML[tag[k]] \cup {val[k]}
        BY <4>2
      <4> QED BY <4>1, <4>2, <4>3, <4>4
    <3>5. SumFunctionOnSet(val, K) = val[k] + SumFunctionOnSet(val, L)
          /\ SumFunctionOnSet(val, L) \in Int
      <4>1. \A i \in K : val[i] \in Int
        BY <3>2
      <4> QED BY <3>1, <3>2, <4>1, SumSplit
    <3>6. ML \in Worths(T) /\ S(L) = SumFunction(OpenClaims(ML, spent))
          /\ S(K) = SumFunction(OpenClaims(MK, spent))
      BY <3>3
    <3> HIDE DEF MK, ML
    <3>7. /\ MK \in Worths(T)
          /\ SumFunction(OpenClaims(MK, spent)) <= SumFunction(OpenClaims(ML, spent)) + val[k]
      BY <3>4, <3>6, ClaimsRaised
    <3>8. /\ SumFunction(OpenClaims(MK, spent)) \in Nat
          /\ SumFunction(OpenClaims(ML, spent)) \in Nat
          /\ SumFunction(OpenClaims(worth, spent)) \in Nat
      BY <3>6, <3>7, ClaimsType
    <3>9. S(K) <= SumFunction(OpenClaims(worth, spent)) + SumFunctionOnSet(val, K)
      <4>1. S(L) <= SumFunction(OpenClaims(worth, spent)) + SumFunctionOnSet(val, L)
        BY <3>3
      <4> HIDE DEF S, L
      <4> QED BY <3>4, <3>5, <3>6, <3>7, <3>8, <4>1
    <3>10. Good(K)
      BY <3>7, <3>9 DEF MK
    <3> QED BY <2>0, <2>1, <3>10
  <2> QED BY <2>2, <2>3
<1>2. Good(I)
  BY <1>1
<1>3. more = M(I)
  <2>1. \A t \in T : more[t] = M(I)[t]
    BY DEF Worths, Adds
  <2> QED BY <2>1
<1> QED BY <1>2, <1>3

\* Where there is no note there is no claim.
LEMMA NoClaims ==
    ASSUME NEW T, IsFiniteSet(T), NEW spent
    PROVE  /\ [t \in T |-> {}] \in Worths(T)
           /\ SumFunction(OpenClaims([t \in T |-> {}], spent)) = 0
<1> DEFINE none == [t \in T |-> {}]
           claims == OpenClaims(none, spent)
<1>1. Max({0}) = 0
  BY DEF Max
<1>2. DOMAIN claims = T /\ \A t \in T : claims[t] = 0
  BY <1>1 DEF OpenClaims
<1>3. none \in Worths(T)
  BY FS_EmptySet DEF Worths
<1> HIDE DEF claims
<1>4. SumFunction(claims) = 0
  BY <1>2, SumZero DEF SumFunction
<1> QED BY <1>3, <1>4 DEF claims
===============================================================================
