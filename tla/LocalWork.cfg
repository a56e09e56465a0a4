SPECIFICATION FairSpec
CONSTANTS
    Base = 3
    NonceBytes = 2
    HashBytes = 1
    Goods <- MCGoods
INVARIANTS
    TypeOK
    LocalWorkIsValid
    SearchInv
PROPERTIES
    WorkIsFound
CHECK_DEADLOCK FALSE
