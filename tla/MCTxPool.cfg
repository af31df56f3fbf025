CONSTANTS
    pool = pool
    alice = alice
    Accounts = {pool, alice}
    Pool = pool
    Endowment <- MCEndowment
    ExistentialDeposit = 1
    Blindings = {b1, b2}
    Keys = {k1}
    Amounts = {0, 1}
    Prices = {0, 1}
    RwaIds = {r1}
    AppIds = {a1}
    TxIds = {t1}
    Commitments = {c1}
    None = None
    MaxLeaves = 3
    RootWindow = 1
    MaxPending = 2
SPECIFICATION FairTxPoolSpec
PROPERTIES
    StaleForEver
    WithdrawalServed
