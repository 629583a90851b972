CONSTANTS
    p1 = p1
    Proc = {p1}
    NoProc = NoProc
    f1 = f1
    f2 = f2
    Filename = {f1, f2}
    s1 = s1
    s2 = s2
    SCT = {s1, s2}
    Leaf <- MCLeaf
    Scts <- MCScts
    Defects <- MCDefects
    Answer <- MCAnswer
    Index <- MCIndex
    MaxGen = 2
    Atomic = TRUE
    h1 = h1
    h2 = h2
    h3 = h3
    Handle = {h1, h2, h3}
    Nil = Nil
    maxIndexReopens = 2
    CustomIndex = FALSE
SPECIFICATION OpensSpec
SYMMETRY Symmetry
INVARIANT
    OpenedOncePerCheck
