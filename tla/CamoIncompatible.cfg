SPECIFICATION Spec
CONSTANTS
    LastVersion = 8
    Supported <- MCSupported
    None = None
    Seed = {seed}
    Index = {0}
    Toggled <- MCBoth
    Elsewhere <- MCAnyOfBoth
    Serde = TRUE
    Payer = {payer}
    Frontier = {f1, f2}
    MaxPayments = 1
INVARIANTS
    NeverPanics
CHECK_DEADLOCK FALSE
