CONSTANTS
    MaxAssetId = 1
    GenesisAssets = 1
    Callers = {hub, bob}
    ProofHubSovereign = hub
    TxIds = {t1}
    Nullifiers = {n1, n2}
    OwnerBlindings = {k1}
    Unopenable = Unopenable
    EntryHashes = {h1}
    CompanyInfos = {i1}
    None = None
SPECIFICATION RwaSpec
INVARIANTS
    OneClaimPerAsset
PROPERTIES
    SaleFinal
    ReleasedOnce
