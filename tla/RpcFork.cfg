SPECIFICATION FairSpec
CONSTANTS
    c1 = c1  c2 = c2
    A = A  B = B  V = V  S = S
    NoLink = NoLink  EpochLink = EpochLink  ZeroHash = ZeroHash
    None = None  Null = Null  Malformed = Malformed  BadPoint = BadPoint  SplitText = SplitText
    Account = {A, B, V, S}
    GenesisAccount = A
    V2EpochSigner = V
    V2Links = {EpochLink}
    MaxAmount = 4
    MaxWork = 3
    blake2b_work <- MCWork
    Torsion = 2
    SmallKey <- MCSmallKey
    KeylessR <- MCKeylessR
    challenge <- MCChallenge
    Nonce = {0, 1, 2}
    Genesis <- MCGenesis
    Published <- ForkPublished
    Request <- ForkRequests
    Caller = {c1, c2}
    Faults = {"error"}
    Lie = {}
INVARIANTS
    TypeOK
    OneForkReported
PROPERTIES
    EveryCallEnds
