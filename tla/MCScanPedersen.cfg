CONSTANTS
    pool = pool
    alice = alice
    b1 = b1
    b2 = b2
    n1 = n1
    n2 = n2
    Accounts = {pool, alice}
    Pool = pool
    Endowment <- MCEndowment
    ExistentialDeposit = 1
    Blindings = {b1, b2}
    Nullifiers = {n1, n2}
    derive_nullifier <- MCDeriveNullifier
    Values <- MCValues
    Amounts = {1, 2}
    Prices = {0, 1, 2}
    RwaIds = {rwa1}
    AppIds = {app1}
    None = None
    MaxInputs = 2
    MaxOutputs = 2
    MaxLeaves = 3
    RootWindow = 2
SPECIFICATION FairSpec
INVARIANTS
    LanesOfMembershipAgree
    
    NullifierSpentOnce
    NotesBacked
PROPERTIES
    RefinesShieldedPool
    NoteExits
