CONSTANTS
    pool = pool
    alice = alice
    s1 = s1
    s2 = s2
    Accounts = {pool, alice}
    Pool = pool
    Endowment <- MCEndowment
    ExistentialDeposit = 2
    Serials = {s1, s2}
    SerialBytes <- MCSerialBytes
    Blindings = {r1}
    Opaque = {o1}
    Values <- MCValues
    Amounts = {1, 3}
    Prices = {0, 3}
    AppConfigs <- MCAppConfigs
    RwaIds = {rwa1}
    AppIds = {app1}
    None = None
    GroupCapacity = 2
    MaxPending = 2
    MaxStray = 1
    MaxCoins = 3
SPECIFICATION FairSpec
INVARIANTS
    LocationsExact
    CoinSpentOnce
    CoinsBacked
PROPERTIES
    FullGroupsFixed
    RefinesShieldedPool
    CoinExits
