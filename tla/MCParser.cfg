SPECIFICATION FairSpec
CONSTANTS
    U8 = 10
    U16 = 10
    U32 = 10
    Contents <- MCContents
    Damage <- MCDamage
INVARIANTS
    ReadsBack
    ParsedIsFaithful
PROPERTY
    ParseEnds
CHECK_DEADLOCK FALSE
