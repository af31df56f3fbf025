CONSTANTS
    pool = pool
    alice = alice
    r1 = r1
    a1 = a1
    k1 = k1
    Accounts = {pool, alice}
    Pool = pool
    Endowment <- MCEndowment
    ExistentialDeposit = 1
    Blindings = {b1, b2}
    Keys = {p1}
    Amounts = {0, 1}
    Prices = {0, 1}
    RwaIds = {r1}
    AppIds = {a1}
    TxIds = {t1, t2}
    Commitments <- MCCommitments
    None = None
    MaxLeaves = 4
    RootWindow = 1
    MayClose = {"rwa", "authgate"}
    AssetOf <- MCAssetOf
    MaxAssetId = 0
    HubSovereign = hub
    KeyBlindings = {k1}
    OwnerBlindings = {k1}
    Unopenable = Unopenable
SPECIFICATION SettleSpec
INVARIANTS
    KeysPaid
    Accounted
PROPERTIES
    GrantSettles
