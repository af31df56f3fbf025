CONSTANTS
    Callers = {hub, scan, eve}
    Sovereigns = {hub, scan}
    AppIds = {a1, a2}
    TxIds = {t1, t2}
    Nullifiers = {n1, n2}
    KeyBlindings = {k1, k2}
    Slots = {p1}
    Unopenable = Unopenable
    None = None
SPECIFICATION GateSpec
INVARIANTS
    SessionOnce
PROPERTIES
    GrantsFinal
