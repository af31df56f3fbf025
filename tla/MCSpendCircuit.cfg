CONSTANTS
    Half = 2
    Zero = Zero
    LEVELS = 2
    Modulus = 11
    Blindings = {b1, b2}
    Keys = {k1, k2}
    Siblings = {s1, s2}
SPECIFICATION Spec
INVARIANTS
    ProofsBind
    ValueExact
    HonestAccepted
CHECK_DEADLOCK FALSE
