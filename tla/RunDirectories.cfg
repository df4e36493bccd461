SPECIFICATION FairSpec
CONSTANTS
    A = A
    B = B
    s1 = s1
    dotdot = dotdot
    r1 = r1
    r2 = r2
    Run = {r1, r2}
    Root = {A, B}
    Stamp = {s1}
    MaxRunAttempts = 2
    NoId = NoId
    NoRoot = NoRoot
    Working = Working
    BadId = {dotdot}
    Option <- MCOption
    ExistingRoot = {B}
    Serial = TRUE
CHECK_DEADLOCK FALSE
INVARIANTS TypeOK Exclusive SingleAuthor NoShells
PROPERTIES ResultsSurvive NewEnds
