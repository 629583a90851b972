CONSTANTS
    p1 = p1
    Proc = {p1}
    Me = p1
    NoProc = NoProc
    f1 = f1
    f2 = f2
    Filename = {f1, f2}
    s1 = s1
    SCT = {s1}
    revoked = revoked
    changing = changing
    unenrolled = unenrolled
    bare = bare
    Leaf = {revoked, changing, unenrolled, bare}
    Scts <- MCScts
    Defects <- MCDefects
    Answer <- MCAnswer
    Index <- MCIndex
    Requests <- MCRequests
    MaxGen = 3
    Atomic = TRUE
    h1 = h1
    h2 = h2
    Handle = {h1, h2}
    Nil = Nil
    maxIndexReopens = 1
    CustomIndex = FALSE
SPECIFICATION VerifierFairSpec
INVARIANTS
    DecisionBacked
    FailsOpenOnlyInTrouble
    ReturnsClean
PROPERTY
    CallbackReturns
CHECK_DEADLOCK FALSE
