SPECIFICATION CompactionSpec
CONSTANTS
    Compactions = {1}
    Nodes = {1}
    MaxRequests = 3
    MaxRepeats = 0
    MaxMessages = 2
    Losses = FALSE
CHECK_DEADLOCK FALSE
INVARIANTS
    NothingHeldAtEnd
