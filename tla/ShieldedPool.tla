----------------------------- MODULE ShieldedPool -----------------------------
(***************************************************************************)
(* What a shielded pool promises, whatever tree, window, proof system or   *)
(* call it is built from: notes are issued against value paid into a       *)
(* vault, a tag (nullifier) is struck at most once, striking it consumes a *)
(* note issued under that tag, and the value that leaves the vault at that *)
(* moment together with the new notes is the value of the notes consumed.  *)
(***************************************************************************)
EXTENDS Integers, FiniteSetsExt

CONSTANTS Values, Tags, Owners

Note == [v : Values, b : Tags, pk : Owners]

VARIABLES
    issued,  \* notes ever issued
    struck,  \* tags already struck
    vault    \* value paid in and not paid out

poolVars == <<issued, struck, vault>>

PoolInit == issued = {} /\ struck = {} /\ vault \in Nat

\* A note is issued against its value, or against nothing when the payer is
\* not charged for a note of value 0.
Issue(n) ==
    /\ n \notin issued
    /\ issued' = issued \cup {n}
    /\ vault' = vault + n.v
    /\ UNCHANGED struck

Strike(n) ==
    /\ n \in issued
    /\ n.b \notin struck
    /\ struck' = struck \cup {n.b}

\* Part of a note is spent; the price leaves the vault or is kept in it.
Purchase(n, change) ==
    /\ Strike(n)
    /\ change \notin issued
    /\ change.v < n.v
    /\ issued' = issued \cup {change}
    /\ vault' \in {vault, vault - (n.v - change.v)}

\* A whole note is taken out, or given back to the vault.
Redeem(n) ==
    /\ Strike(n)
    /\ vault' \in {vault, vault - n.v}
    /\ UNCHANGED issued

\* Whole notes become new notes of the same total value inside the pool.
ValueOf(notes) == SumFunction([n \in notes |-> n.v])

Transfer(ins, outs) ==
    /\ \A n \in ins : n.b \notin struck
    /\ \A n1, n2 \in ins : n1.b = n2.b => n1 = n2
    /\ outs \subseteq Note \ issued
    /\ ValueOf(ins) = ValueOf(outs)
    /\ issued' = issued \cup outs
    /\ struck' = struck \cup {n.b : n \in ins}
    /\ UNCHANGED vault

PoolNext ==
    \/ \E n \in Note : Issue(n) \/ Redeem(n)
    \/ \E n, change \in Note : Purchase(n, change)
    \/ \E ins \in SUBSET issued : Transfer(ins, issued' \ issued)

PoolSpec == PoolInit /\ [][PoolNext]_poolVars
===============================================================================
