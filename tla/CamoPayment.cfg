SPECIFICATION FairSpec
CONSTANTS
    LastVersion = 8
    Supported <- MCFirst
    None = None
    PayerSeed = payer
    Sender = 0
    Notifier = {0, 1}
    d1 = d1
    d2 = d2
    Device = {d1, d2}
    RecipientSeed = seed
    Recipient = {0, 1}
    Versions <- MCFirst
    RepresentativeKey = representative_key
    Plan <- MCPlan
    Room <- MCRoom
    MaxRestarts = 1
INVARIANTS
    TypeOK
    AccountsUsedOnce
PROPERTIES
    ImplementsService
    EveryPaymentReceived
CHECK_DEADLOCK FALSE
