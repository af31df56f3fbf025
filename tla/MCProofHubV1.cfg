CONSTANTS
    pool = pool
    alice = alice
    s1 = s1
    s2 = s2
    n1 = n1
    n2 = n2
    Accounts = {pool, alice}
    Pool = pool
    Endowment <- MCEndowment
    ExistentialDeposit = 1
    Tags = {s1, s2, s3, s4}
    NoteBlindings = {n1, n2, n3}
    Amounts = {1, 2}
    Legacy <- MCLegacy
    Prices = {0, 1}
    RwaIds = {r1}
    AppIds = {a1}
    TxIds = {t1, t2}
    Nullifiers = {u1, u2}
    OwnerBlindings = {o1}
    None = None
    MaxLegacyLeaves = 3
SPECIFICATION V1Spec
INVARIANTS
    TagSpentOnce
    ResoldOnce
    LegacyPlaces
PROPERTIES
    RelistConserves
