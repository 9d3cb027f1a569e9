SPECIFICATION FairSpec
CONSTANTS
    bn1a = bn1a
    bn1b = bn1b
    NoPostcode = NoPostcode
    Postcodes = {bn1a, bn1b}
    Pages <- MCPages
    LoopLimit = 3
    MaxTaps = 2
INVARIANTS
    TypeOK
    ListComplete
    TwoLookupsPerTap
PROPERTIES
    ListLatestWins
    LookupsAdvance
    TapSettles
    LookupsEnd
\* All taps are made and settled, and all lookups have ended.
CHECK_DEADLOCK FALSE
