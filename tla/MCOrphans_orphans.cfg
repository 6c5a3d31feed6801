CONSTANTS
    r1 = r1
    c1 = c1
    w1 = w1
    w2 = w2
    NoTurn = NoTurn
    Turns = {r1, c1}
    Parent <- Family
    Workspace <- TwoWorkspaces
    Concurrency = 2
    MaxSeq = 3
    MaxReplies = 0
    MaxControls = 1
    MaxMishaps = 1
    Crashes = TRUE
    Shutdowns = FALSE
    Failures = FALSE
    Observations = FALSE
    Commands = {"c"}
    Workers = {"w1", "w2"}
SPECIFICATION OrphansSpec
CHECK_DEADLOCK FALSE
PROPERTIES NothingSleeps CancelStops JobsKeepPromise WaitsEnd
