SPECIFICATION FairSpec
CONSTANTS
    Workers = {w1, w2}
    Radii <- MCRadii
    NoRadius = NoRadius
    MaxRequests = 2
INVARIANTS
    TypeOK
    OneReply
    SheetWhereUnitPostcodes
PROPERTY
    AnsweredUnlessStuck
