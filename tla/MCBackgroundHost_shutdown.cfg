CONSTANTS
    r1 = r1
    c1 = c1
    w1 = w1
    w2 = w2
    NoTurn = NoTurn
    Turns = {r1, c1}
    Parent <- Family
    Workspace <- OneWorkspace
    Concurrency = 2
    MaxSeq = 3
    MaxReplies = 1
    MaxControls = 0
    MaxMishaps = 1
    Crashes = FALSE
    Shutdowns = TRUE
    Failures = FALSE
    Observations = FALSE
SPECIFICATION Spec
INVARIANT WakeupsAreReconstructed
CHECK_DEADLOCK FALSE
