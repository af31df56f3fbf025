----------------------------- MODULE SpendCircuit -----------------------------
(***************************************************************************)
(* The two STARK circuits of the v2 lane, proofhub/verifier: SpendAir      *)
(* (module spend_v2) and DepositV2Air (module deposit_v2), row by row.     *)
(*                                                                         *)
(* The verifier accepts a proof when some table satisfies the constraints: *)
(* each one relates a row to the next, and the periodic masks say in which *)
(* rows it applies.  The circuit is therefore a machine whose state is a   *)
(* row; Next lets the prover choose every cell the constraints leave open, *)
(* and a behaviour that reaches the last active row is a table the verifier*)
(* accepts.  What the chain relies on is that all of them prove the        *)
(* relation it took as the guard of its calls (verify_spend_v2 in module   *)
(* ProofHubV2), and what the wallet relies on is that the table            *)
(* build_spend_trace fills in is one of them.                              *)
(*                                                                         *)
(* Abstractions of the data: the permutation is a term (module Poseidon);  *)
(* the field is the integers modulo a small Modulus that, like 2^128 to a  *)
(* 64-bit value, leaves room for a difference of two values; a cell no     *)
(* constraint reads is fixed to what the wallet puts there.                *)
(***************************************************************************)
EXTENDS Poseidon, Sequences

CONSTANTS
    LEVELS,       \* depth of the tree (20)
    Modulus,      \* of the field
    Blindings, Keys,
    Siblings      \* digests a prover may put on a path

\* 2^n, up to what two values can add up to.
Pow2[n \in 0..(Half + 1)] == IF n = 0 THEN 1 ELSE 2 * Pow2[n - 1]

ASSUME CircuitAssumption ==
    /\ Half \in Nat \ {0}
    /\ LEVELS \in Nat \ {0}
    /\ Modulus \in Nat /\ Modulus > Pow2[Half + 1]

Field  == 0..(Modulus - 1)
U64    == 0..(Pow2[Half] - 1)

BLOCK         == 2 * Half
STEP_LNOTE    == BLOCK
STEP_ANOTE    == 2 * BLOCK
STEP_MRK(d)   == 3 * BLOCK + 2 * BLOCK * d
STEP_LCHG     == STEP_MRK(LEVELS)
STEP_ACHG     == STEP_LCHG + BLOCK
ROW_NF_OUT    == Half + 1
ROW_ROOT      == STEP_LCHG - BLOCK + Half + 1
ROW_CLEAF     == STEP_ACHG + Half + 1
ROW_LEAF      == BLOCK + Half + 1
ACTIVE_BLOCKS == 2 * LEVELS + 5
EndOf(air)    == BLOCK * (IF air = "spend" THEN ACTIVE_BLOCKS ELSE 2)

VARIABLES
    air,    \* "spend" or "deposit"
    pi,     \* public inputs the constraints read
    row,
    c,      \* the cells of the row
    out     \* digests at the rows where a public input is asserted

vars == <<air, pi, row, c, out>>

-------------------------------------------------------------------------------
(***************************************************************************)
(* Masks: the rows r whose constraint on (r, r + 1) is switched on         *)
(***************************************************************************)
m_rnd(r) == r % BLOCK \in 1..Half
m_frz(r) == r = 0 \/ r % BLOCK > Half
m_mrk    == {STEP_MRK(d) : d \in 0..(LEVELS - 1)}
m_amrk   == {s + BLOCK : s \in m_mrk}
m_rst    == Half - 1
m_chk2   == BLOCK - 1

\* Fault: the bit is held across the levels too.
m_bitfrz_Links(r) == r \in (STEP_MRK(0) + 1)..(STEP_LCHG - 1)

m_bitfrz(r) == r \in STEP_MRK(0)..(STEP_LCHG - 1) /\ r \notin m_mrk
m_auxfrz(r) == r \notin m_mrk \cup {STEP_LCHG}

\* Fault: the carry is loose between a link and the absorption.
m_rhifrz_Level(r) == r \notin m_mrk /\ r - 1 \notin m_mrk

m_rhifrz(r) == r \notin m_mrk

-------------------------------------------------------------------------------
(***************************************************************************)
(* SpendAir.  A row: the state, an index or value bit, the range           *)
(* accumulator and its power of two, the blinding, both values, the sibling*)
(* (later the change blinding) and the carried half of the right child.    *)
(***************************************************************************)
\* The next row takes the bit and the sibling first: the link reads both
\* from there.
RightHalf(cell, bit, aux) == IF bit = 1 THEN Hi(cell.state) ELSE Hi(aux)

MerkleLink(cell, bit, aux) ==
    IF bit = 1 THEN Start("merkle", Lo(aux), Hi(aux), Lo(cell.state))
               ELSE Start("merkle", Lo(cell.state), Hi(cell.state), Lo(aux))

NextState(cell, bit, aux, r, p) ==
    CASE m_rnd(r)        -> Round(cell.state, (r % BLOCK) - 1)
      [] m_frz(r)        -> cell.state
      [] r = STEP_LNOTE  -> Start("note", cell.v, Lo(cell.b), Hi(cell.b))
      [] r = STEP_ANOTE  -> Absorb(cell.state, Lo(p.pkd), Hi(p.pkd))
      [] r \in m_mrk     -> MerkleLink(cell, bit, aux)
      [] r \in m_amrk    -> Absorb(cell.state, cell.r_hi, Zero)
      [] r = STEP_LCHG   -> Start("note", cell.cv, Lo(aux), Hi(aux))
      [] r = STEP_ACHG   -> Absorb(cell.state, Lo(p.change_pkd), Hi(p.change_pkd))

\* Bits are read in the range rows and, in the tree, at the links.
Bits(cell, r) ==
    IF m_bitfrz(r) THEN {cell.bit}
    ELSE IF r < m_chk2 \/ r \in m_mrk THEN {0, 1} ELSE {0}

Aux(cell, r) ==
    IF m_auxfrz(r) THEN {cell.aux}
    ELSE IF r = STEP_LCHG THEN Blindings \cup {Zero} ELSE Siblings

RightHalves(cell, bit, aux, r) ==
    IF r \in m_mrk THEN {RightHalf(cell, bit, aux)}
    ELSE IF m_rhifrz(r) THEN {cell.r_hi} ELSE {Hi(x) : x \in Siblings}

Sum(cell) == (cell.acc + cell.bit * cell.pow) % Modulus

\* Fault: the change is not range checked.
SumsOk_ValueOnly(cell, r) == r = m_rst => Sum(cell) = cell.v

SumsOk(cell, r) ==
    /\ r = m_rst  => Sum(cell) = cell.v
    /\ r = m_chk2 => Sum(cell) = cell.cv

Acc(cell, r) ==
    IF r = m_rst THEN 0 ELSE IF r < m_chk2 THEN Sum(cell) ELSE cell.acc

Pow(cell, r) ==
    IF r = m_rst THEN 1 ELSE IF r < m_chk2 THEN (2 * cell.pow) % Modulus ELSE cell.pow

\* evaluate_transition: the rows that may follow `cell` in row r, given the
\* bit and the sibling they hold, ...
RowsHolding(cell, r, p, bit, aux) ==
    {[cell EXCEPT !.state = NextState(cell, bit, aux, r, p),
                  !.bit = bit, !.aux = aux, !.r_hi = r_hi,
                  !.acc = Acc(cell, r), !.pow = Pow(cell, r)] :
        r_hi \in RightHalves(cell, bit, aux, r)}

\* ... and whatever they hold.
SpendRows(cell, r, p) ==
    IF SumsOk(cell, r)
    THEN UNION {RowsHolding(cell, r, p, bit, aux) : bit \in Bits(cell, r), aux \in Aux(cell, r)}
    ELSE {}

\* r16 and r17, which hold in every row.
Conserved(v, cv, p) ==
    /\ (v - p.mode * cv - p.price) % Modulus = 0
    /\ p.mode = 0 => cv = 0

FirstRow(v, b, cv, bit) ==
    [state |-> Start("nullifier", Lo(b), Hi(b), Zero), bit |-> bit, acc |-> 0, pow |-> 1,
     b |-> b, v |-> v, cv |-> cv, aux |-> Zero, r_hi |-> Zero]

\* Withdrawals name the canonical leaf of a zero note as their change.
zero_change_leaf == note_hash(0, Zero, Zero)

-------------------------------------------------------------------------------
(***************************************************************************)
(* DepositV2Air: a row is the state and the key digest it will absorb.     *)
(***************************************************************************)
DepositRows(cell, r) ==
    {[cell EXCEPT !.state = CASE m_rnd(r) -> Round(@, (r % BLOCK) - 1)
                              [] m_frz(r) -> @
                              [] r = BLOCK -> Absorb(@, Lo(cell.pkd), Hi(cell.pkd))]}

-------------------------------------------------------------------------------
SpendInit ==
    /\ air = "spend"
    /\ \E price \in U64, mode \in {0, 1}, pkd \in Keys, change_pkd \in Keys \cup {Zero} :
         /\ mode = 0 <=> change_pkd = Zero
         /\ pi = [price |-> price, mode |-> mode, pkd |-> pkd, change_pkd |-> change_pkd]
    /\ \E v \in Field, cv \in Field, b \in Blindings, bit \in {0, 1} :
         Conserved(v, cv, pi) /\ c = FirstRow(v, b, cv, bit)

DepositInit ==
    /\ air = "deposit"
    /\ \E amount \in U64 : pi = [amount |-> amount]
    /\ \E b \in Blindings, pkd \in Keys :
         c = [state |-> Start("note", pi.amount, Lo(b), Hi(b)), pkd |-> pkd]

Init == (SpendInit \/ DepositInit) /\ row = 0 /\ out = << >>

\* A digest that a public input is asserted to equal.
Asserted(r) ==
    r \in (IF air = "spend" THEN {ROW_NF_OUT, ROW_ROOT, ROW_CLEAF} ELSE {ROW_LEAF})

Proceed ==
    /\ row' = row + 1
    /\ out' = IF Asserted(row') THEN out \o <<c'.state>> ELSE out
    /\ UNCHANGED <<air, pi>>

SpendRow ==
    /\ air = "spend" /\ row < EndOf(air)
    /\ c' \in SpendRows(c, row, pi)
    /\ row + 1 = ROW_CLEAF /\ pi.mode = 0 => c'.state = zero_change_leaf
    /\ Proceed

DepositRow ==
    /\ air = "deposit" /\ row < EndOf(air)
    /\ c' \in DepositRows(c, row)
    /\ Proceed

Next == SpendRow \/ DepositRow

Spec == Init /\ [][Next]_vars

-------------------------------------------------------------------------------
(***************************************************************************)
(* The table the wallet fills in for a witness w                           *)
(***************************************************************************)
\* The index is the vector of its bits, which is all that is read of it.
BitOf(x, i) == (x \div Pow2[i]) % 2

\* The Merkle level whose rows hold row r, if it is in the tree.
InTree(r) == r \in (STEP_MRK(0) + 1)..STEP_LCHG
LevelOf(r) == (r - 1 - STEP_MRK(0)) \div (2 * BLOCK)

TraceBit(w, r) ==
    IF r < BLOCK THEN IF r < Half THEN BitOf(w.v, r) ELSE BitOf(w.cv, r - Half)
    ELSE IF InTree(r) THEN w.index[LevelOf(r)] ELSE 0

TraceAux(w, r) ==
    IF InTree(r) THEN w.siblings[LevelOf(r)] ELSE IF r > STEP_LCHG THEN w.cb ELSE Zero

\* What a block starts from, given the last state of the block before it.
BlockStart(w, prev, j) ==
    LET d == (j - 3) \div 2
        last == 2 * LEVELS + 3
        onRight == w.index[d] = 1
        sibling == w.siblings[d]
    IN CASE j = 1 -> Start("note", w.v, Lo(w.b), Hi(w.b))
         [] j = 2 -> Absorb(prev.state, Lo(w.pkd), Hi(w.pkd))
         [] j \in 3..(last - 1) /\ j % 2 = 1 ->
              IF onRight THEN Start("merkle", Lo(sibling), Hi(sibling), Lo(prev.state))
                         ELSE Start("merkle", Lo(prev.state), Hi(prev.state), Lo(sibling))
         [] j \in 3..(last - 1) /\ j % 2 = 0 -> Absorb(prev.state, prev.r_hi, Zero)
         [] j = last     -> Start("note", w.cv, Lo(w.cb), Hi(w.cb))
         [] j = last + 1 -> Absorb(prev.state, Lo(w.cpkd), Hi(w.cpkd))

TraceState(w, prev, r) ==
    LET s == (r - 1) % BLOCK IN
    IF s = 0 /\ r > 1 THEN BlockStart(w, prev, r \div BLOCK)
    ELSE IF s \in 1..Half THEN Round(prev.state, s - 1)
    ELSE prev.state

TraceRightHalf(w, prev, r) ==
    IF InTree(r) /\ r - 1 \in m_mrk
    THEN IF TraceBit(w, r) = 1 THEN Hi(prev.state) ELSE Hi(w.siblings[LevelOf(r)])
    ELSE prev.r_hi

TraceSum(w, r) ==
    IF r < Half THEN w.v % Pow2[r]
                ELSE w.cv % Pow2[(IF r < BLOCK THEN r ELSE m_chk2) - Half]

TracePow(r) ==
    IF r < Half THEN Pow2[r] ELSE Pow2[(IF r < BLOCK THEN r ELSE m_chk2) - Half]

build_spend_trace(w) ==
    LET rows[r \in 0..EndOf("spend")] ==
          IF r = 0 THEN FirstRow(w.v, w.b, w.cv, TraceBit(w, 0))
          ELSE LET prev == rows[r - 1] IN
               [prev EXCEPT !.state = TraceState(w, prev, r),
                            !.bit = TraceBit(w, r), !.aux = TraceAux(w, r),
                            !.r_hi = TraceRightHalf(w, prev, r),
                            !.acc = TraceSum(w, r), !.pow = TracePow(r)]
    IN rows

\* The nodes on the path from a leaf to the root, level by level.
path_nodes(leaf, index, siblings) ==
    LET node[d \in 0..LEVELS] ==
          IF d = 0 THEN leaf
          ELSE IF index[d - 1] = 1 THEN merkle_hash2(siblings[d - 1], node[d - 1])
                                   ELSE merkle_hash2(node[d - 1], siblings[d - 1])
    IN node

root_from_path(leaf, index, siblings) == path_nodes(leaf, index, siblings)[LEVELS]

-------------------------------------------------------------------------------
(***************************************************************************)
(* Properties                                                              *)
(***************************************************************************)
Paths   == [0..(LEVELS - 1) -> Siblings]
Indices == [0..(LEVELS - 1) -> {0, 1}]
Done    == row = EndOf(air)

\* Every table the verifier accepts proves what the chain takes it for
\* (verify_spend_v2, verify_deposit_v2): the nullifier, the leaf under the
\* root and the conserved value belong to one note with the signer's key,
\* and the leaf that is inserted holds exactly the change, or the deposit.
\* The value, the blinding, the right child and the sibling are read
\* hundreds of rows after they were fixed.
ProofsBind ==
    /\ Done /\ air = "spend" =>
         /\ out[1] = nullifier_hash(c.b)
         /\ \E index \in Indices, siblings \in Paths :
              out[2] = root_from_path(note_hash(c.v, c.b, pi.pkd), index, siblings)
         /\ \E cb \in Blindings \cup {Zero} :
              out[3] = note_hash(c.cv, cb, pi.change_pkd)
    /\ Done /\ air = "deposit" =>
         \E b \in Blindings, pkd \in Keys : out[1] = note_hash(pi.amount, b, pkd)

\* The equation between the values holds in the integers, not merely modulo
\* the field's order: both sides were decomposed into 64 bits (r5 to r7,
\* r16, r17 and the reset of the accumulator between the two).
ValueExact ==
    Done /\ air = "spend" =>
        /\ c.v \in U64 /\ c.cv \in U64
        /\ c.v = pi.price + c.cv

\* A witness with this row's values, if they satisfy the relation.
Witnesses ==
    {[v |-> c.v, b |-> c.b, pkd |-> pi.pkd, index |-> i, siblings |-> s,
      cv |-> c.cv, cb |-> cb, cpkd |-> pi.change_pkd] :
        i \in Indices, s \in Paths,
        cb \in IF pi.mode = 0 THEN {Zero} ELSE Blindings}

\* The wallet is never refused: for each witness that satisfies the relation
\* the table of build_spend_trace meets every constraint, whichever bits the
\* index and the values have, and shows the public inputs prove_spend names.
HonestAccepted ==
    row = 0 /\ air = "spend" /\ c.v \in U64 /\ c.cv \in U64 /\ c.v = pi.price + c.cv =>
        \A w \in Witnesses :
            LET T == build_spend_trace(w) IN
            /\ \A r \in 0..(EndOf(air) - 1) : T[r + 1] \in SpendRows(T[r], r, pi)
            /\ T[ROW_NF_OUT].state = nullifier_hash(w.b)
            /\ T[ROW_ROOT].state = root_from_path(note_hash(w.v, w.b, w.pkd), w.index, w.siblings)
            /\ T[ROW_CLEAF].state = note_hash(w.cv, w.cb, w.cpkd)
===============================================================================
