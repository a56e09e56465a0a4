SPECIFICATION Spec
CONSTANTS
    LastVersion = 3
    Supported = {1}
    None = None
    n = n
    c = c
    us = us
    K = K
    Wide = wide
    ByteBits = 3
    CharBits = 2
    PadBytes = 1
    KeyBytes = 2
    ChecksumBytes = 1
    NanoPrefix <- NPrefix
    CamoPrefix <- CPrefix
    SampleChars = 2
    checksum <- WalletChecksum
    Order = 13
    Cofactor = 2
    Point <- WalletPoint
    SmallOrder <- WalletSmall
    compress <- WalletCompress
    Alias <- WalletAlias
    Account <- WalletBytes
    GenesisAccount <- Genesis
    V2EpochSigner <- V2Signer
    ZeroHash = zero
    V2Links <- V2
    MaxAmount = 1
    MaxWork = 2
    blake2b_work <- WalletWork
    Torsion = 2
    SmallKey <- WalletSmallKey
    KeylessR <- WalletR
    challenge <- WalletChallenge
    SeedHash <- WalletSeeds
    NanoText <- WalletNano
    CamoText <- WalletCamo
    Frontier = frontier
    SomeLink = other
    Difficulty = 2
    Nonce <- WalletNonces
    MaxEdits = 1
    MaxSigned = 1
INVARIANTS
    TypeOK
    TextMeansOneAccount
    PanicsAreKnown
    ValidMeansApproved
    WorkSurvivesEdits
    ReadBackIsSame
    OwnerCanSign
    EpochRules
