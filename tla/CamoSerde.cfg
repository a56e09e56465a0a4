SPECIFICATION Spec
CONSTANTS
    LastVersion = 8
    Supported <- MCSupported
    None = None
    Seed = {seed}
    Index = {0, 1}
    Toggled <- MCFirst
    Elsewhere <- MCOnlySecond
    Serde = TRUE
    Payer = {payer}
    Frontier = {f1, f2}
    MaxPayments = 2
INVARIANTS
    TypeOK
    OneValuePerOrigin
    PaymentFound
    OneTimeAccounts
CHECK_DEADLOCK FALSE
