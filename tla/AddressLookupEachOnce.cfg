SPECIFICATION Spec
CONSTANTS
    bn1a = bn1a
    bn1b = bn1b
    NoPostcode = NoPostcode
    Postcodes = {bn1a, bn1b}
    Pages <- MCPages
    LoopLimit = 3
    MaxTaps = 2
INVARIANT
    EachTransactionOnce
CHECK_DEADLOCK FALSE
