CONSTANTS
    r1 = r1
    c1 = c1
    w1 = w1
    w2 = w2
    NoTurn = NoTurn
    Turns = {r1, c1}
    Parent <- Family
    Workspace <- OneWorkspace
    Concurrency = 2
    MaxSeq = 2
    MaxReplies = 2
    MaxControls = 1
    MaxMishaps = 1
    Crashes = TRUE
    Shutdowns = TRUE
    Failures = TRUE
    Observations = TRUE
SPECIFICATION Spec
INVARIANTS TypeOK RejectedNeverRuns RepliesAuthoriseOnce
CHECK_DEADLOCK FALSE
CONSTRAINT ChildAlone
