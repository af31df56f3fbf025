CONSTANTS
    pool = pool
    alice = alice
    Accounts = {pool, alice}
    Pool = pool
    Endowment <- MCEndowment
    ExistentialDeposit = 2
    Blindings = {b1, b2, b3}
    Keys = {k1}
    Amounts = {0, 1, 2, 3}
    Prices = {0, 1, 2}
    RwaIds = {r1}
    AppIds = {a1}
    TxIds = {t1}
    Commitments = {c1}
    None = None
    MaxLeaves = 4
    RootWindow = 2
SPECIFICATION Spec
INVARIANTS
    TypeOK
    TreeConsistent
    WindowExact
    SpentOnce
    OneDispatchPerNote
    ExitOpen
    Solvent
PROPERTIES
    RefinesShieldedPool
