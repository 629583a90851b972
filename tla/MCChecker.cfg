CONSTANTS
    p1 = p1
    p2 = p2
    Proc = {p1, p2}
    NoProc = NoProc
    f1 = f1
    f2 = f2
    Filename = {f1, f2}
    s1 = s1
    SCT = {s1}
    l1 = l1
    l2 = l2
    l3 = l3
    Leaf = {l1}
    Scts <- MCScts
    Defects <- MCDefects
    Answer <- MCAnswer
    Index <- MCIndex
    MaxGen = 4
    Atomic = TRUE
    h1 = h1
    h2 = h2
    h3 = h3
    h4 = h4
    Handle = {h1, h2, h3, h4}
    Nil = Nil
    maxIndexReopens = 2
    CustomIndex = FALSE
SPECIFICATION Spec
SYMMETRY Symmetry
INVARIANTS
    TypeOK
    IndexHeldOpen
    NoReaderLeak
    MissingNeedsChurn
PROPERTIES
    ImplementsService
    ReopenMovesForward
    CloseIsFinal
