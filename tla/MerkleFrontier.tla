---------------------------- MODULE MerkleFrontier ----------------------------
(***************************************************************************)
(* The incremental Merkle tree behind LeafIndexV2 and CurrentRootV2        *)
(* (proofhub/verifier, mod v2): a frontier with one pending left node per  *)
(* level, the root folded from it and the empty subtrees, the reference    *)
(* root the tests compare it with, and the verification of a path.         *)
(*                                                                         *)
(* merkle_hash2 is taken as collision free: a node IS the pair of its      *)
(* children.  The depth, 20 in the code, is a parameter.                   *)
(***************************************************************************)
EXTENDS Integers, Sequences, FiniteSetsExt

CONSTANTS
    Depth,   \* MERKLE_DEPTH
    Leaves,  \* note hashes, none of which is Zero
    Zero     \* Z[0] = [0u8; 32]

ASSUME FrontierAssumption == Depth \in Nat \ {0} /\ Zero \notin Leaves

VARIABLES
    nodes,       \* Frontier::nodes (FrontierNodesV2)
    leaf_count,  \* Frontier::leaf_count (LeafCountV2)
    root,        \* what the last v2_insert_leaf returned (CurrentRootV2)
    leaves,      \* history: the leaves, in order
    roots        \* history: the root after 0, 1, 2, ... insertions

vars == <<nodes, leaf_count, root, leaves, roots>>

\* 1 << d
Pow2[d \in 0..Depth] == IF d = 0 THEN 1 ELSE 2 * Pow2[d - 1]

Capacity == Pow2[Depth]

\* `idx` at level d of the loops, each of which ends with idx >>= 1.
Shifted(idx) ==
    LET at[d \in 0..Depth] == IF d = 0 THEN idx ELSE at[d - 1] \div 2
    IN at

Bit(idx, d) == Shifted(idx)[d] % 2

merkle_hash2(left, right) == <<left, right>>

zero_subtrees[d \in 0..Depth] ==
    IF d = 0 THEN Zero ELSE merkle_hash2(zero_subtrees[d - 1], zero_subtrees[d - 1])

-------------------------------------------------------------------------------
\* The loop that insert, root and verify_merkle_path share: the node carried
\* upwards is the right child where the bit of `idx` is 1 and the left one
\* where it is 0, and other[d] is its sibling at level d.
Fold(leaf, idx, other) ==
    LET node[d \in 0..Depth] ==
          IF d = 0 THEN leaf
          ELSE IF Bit(idx, d - 1) = 1 THEN merkle_hash2(other[d - 1], node[d - 1])
               ELSE merkle_hash2(node[d - 1], other[d - 1])
    IN node

\* Frontier::insert on the nodes: climb while the bits of the count are 1
\* and store at the first 0.  When all bits are 1 the loop runs out and
\* nothing is stored.
Insert(pending, count, leaf) ==
    LET free == {d \in 0..(Depth - 1) : Bit(count, d) = 0} IN
    IF free = {} THEN pending
    ELSE [pending EXCEPT ![Min(free)] = Fold(leaf, count, pending)[Min(free)]]

\* Fault: a stored node is used although the count says it was merged upwards.
Root_Stale(pending, count) ==
    Fold(Zero, count, [d \in 0..(Depth - 1) |->
        IF pending[d] # Zero THEN pending[d] ELSE zero_subtrees[d]])[Depth]

\* Frontier::root: the completed left subtree where there is one, the empty
\* subtree on the right elsewhere.
Root(pending, count) ==
    Fold(Zero, count, [d \in 0..(Depth - 1) |->
        IF Bit(count, d) = 1 THEN pending[d] ELSE zero_subtrees[d]])[Depth]

\* One level of the tree from the one below: neighbours are paired, the last
\* of an odd number with an empty subtree.
Above(level, d) ==
    LET pairs == [i \in 1..((Len(level) + 1) \div 2) |->
                    merkle_hash2(level[2 * i - 1], IF 2 * i <= Len(level) THEN level[2 * i]
                                                   ELSE zero_subtrees[d])]
    IN IF pairs = << >> THEN <<zero_subtrees[d + 1]>> ELSE pairs

\* The levels of the tree built from scratch.
Levels(ls) ==
    LET level[d \in 0..Depth] == IF d = 0 THEN ls ELSE Above(level[d - 1], d - 1)
    IN level

reference_root(ls) == Levels(ls)[Depth][1]

\* Node i (0-based) of a level, which is padded with empty subtrees.
NodeAt(ls, d, i) ==
    IF i < Len(Levels(ls)[d]) THEN Levels(ls)[d][i + 1] ELSE zero_subtrees[d]

\* The siblings on the way from leaf `index` (0-based), as a wallet extracts
\* them.
Siblings(ls, index) ==
    [d \in 0..(Depth - 1) |->
        LET at == Shifted(index)[d]
        IN NodeAt(ls, d, IF at % 2 = 0 THEN at + 1 ELSE at - 1)]

\* Fault: the index is ignored, every node is a left child.
verify_merkle_path_Left(leaf, index, siblings, r) == Fold(leaf, 0, siblings)[Depth] = r

verify_merkle_path(leaf, index, siblings, r) == Fold(leaf, index, siblings)[Depth] = r

-------------------------------------------------------------------------------
Init ==
    /\ nodes = [d \in 0..(Depth - 1) |-> Zero]
    /\ leaf_count = 0
    /\ leaves = << >>
    /\ root = zero_subtrees[Depth]
    /\ roots = <<zero_subtrees[Depth]>>

\* Fault: the root is folded for the count before the insertion.
v2_insert_leaf_Early(leaf) ==
    /\ leaf_count < Capacity
    /\ nodes' = Insert(nodes, leaf_count, leaf)
    /\ leaf_count' = leaf_count + 1
    /\ root' = Root(nodes', leaf_count)
    /\ leaves' = Append(leaves, leaf)
    /\ roots' = Append(roots, root')

\* ProofVerify::v2_insert_leaf: insert, then fold the root; Err when full.
v2_insert_leaf(leaf) ==
    /\ leaf_count < Capacity
    /\ nodes' = Insert(nodes, leaf_count, leaf)
    /\ leaf_count' = leaf_count + 1
    /\ root' = Root(nodes', leaf_count')
    /\ leaves' = Append(leaves, leaf)
    /\ roots' = Append(roots, root')

Next == \E leaf \in Leaves : v2_insert_leaf(leaf)

Spec == Init /\ [][Next]_vars

-------------------------------------------------------------------------------
\* As long as one place is free, the root folded from the frontier is the
\* root of the tree rebuilt from all leaves, whatever the carries on the
\* way were: the assertion of the test frontier_matches_reference_many,
\* which stops at 37 leaves (Frontier::insert, Frontier::root).
FrontierMatchesReference == leaf_count < Capacity => root = reference_root(leaves)

\* A path verifies against the current root for exactly one leaf: the one
\* stored at that index.  Neither another leaf nor a place that is still
\* empty verifies (verify_merkle_path, and the membership part of SpendAir).
PathsExact ==
    leaf_count < Capacity =>
        \A leaf \in Leaves, index \in 0..(Capacity - 1) :
            verify_merkle_path(leaf, index, Siblings(leaves, index), root)
                <=> index < leaf_count /\ leaves[index + 1] = leaf

\* A root determines the number of leaves below it, and the full tree falls
\* back to the root of the empty one: the two facts by which ProofHubV2
\* names a root by a count, 0 when it commits to nothing.
RootNamesCount ==
    \A i, j \in 0..leaf_count :
        roots[i + 1] = roots[j + 1] <=> (i % Capacity) = (j % Capacity)
===============================================================================
