CONSTANTS
    Contents <- MCContents
    Damage <- MCDamage
    Args <- MCArgs
    Hash <- MCHash
    B = 2
    W = 2
SPECIFICATION FairSpec
INVARIANTS
    IntactIsRead
    ReadIsThere
    PrintsTruth
    CutoffsBoundAnswers
PROPERTY
    AnswersOrExits
CHECK_DEADLOCK FALSE
