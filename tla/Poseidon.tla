------------------------------- MODULE Poseidon -------------------------------
(***************************************************************************)
(* The hashes of the v2 lane, proofhub/verifier: sponges over one          *)
(* permutation of four lanes.  A state is a term: the four lanes a         *)
(* permutation started from and the number of rounds run since, so two     *)
(* states are equal exactly when they came about in the same way.  What is *)
(* taken on trust is thus that the permutation has no collisions; what is  *)
(* kept is which value enters which lane, and in which round.              *)
(*                                                                         *)
(* 32 bytes occupy two lanes, Lo and Hi.  The digest of a state is its     *)
(* lanes 1 and 2; it is named by the state.                                *)
(***************************************************************************)
EXTENDS Integers

CONSTANTS
    Half,    \* rounds of the permutation, and bits of a value (64)
    Zero     \* the element 0, and 32 zero bytes

Lo(bytes) == <<"lo", bytes>>
Hi(bytes) == <<"hi", bytes>>

Start(iv, x, y, z) == [from |-> <<iv, x, y, z>>, k |-> 0]

\* One round with the round constants number r: any but the next ones lead
\* to a state no hash has.
Round(state, r) ==
    IF r = state.k THEN [state EXCEPT !.k = r + 1]
                   ELSE [from |-> <<"off", state, r>>, k |-> 0]

\* Adds x and y to lanes 1 and 2.
Absorb(state, x, y) == [from |-> <<"absorb", state, x, y>>, k |-> 0]

poseidon_perm(state) ==
    LET after[r \in 0..Half] == IF r = 0 THEN state ELSE Round(after[r - 1], r - 1)
    IN after[Half]

nullifier_hash(b) == poseidon_perm(Start("nullifier", Lo(b), Hi(b), Zero))

note_hash(v, b, pkd) ==
    poseidon_perm(Absorb(poseidon_perm(Start("note", v, Lo(b), Hi(b))), Lo(pkd), Hi(pkd)))

merkle_hash2(left, right) ==
    poseidon_perm(Absorb(poseidon_perm(Start("merkle", Lo(left), Hi(left), Lo(right))),
                         Hi(right), Zero))
===============================================================================
