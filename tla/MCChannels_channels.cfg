SPECIFICATION FairSpec
CONSTANTS
    Facts = {"news", "other"}
    NewsWorthy = {"news", "other"}
    AboutTurn <- OneTurn
    Queries = {"q"}
    NoQuery = "none"
    Senders = {"host", "sdk"}
    NoSender = "nobody"
    Host = "host"
    MaxAttempts = 2
    Heads = {1, 2}
    Checks = {1, 2}
    Runs = {1, 2, 3, 4}
    RunHead <- RunsOn
    RunCheck <- RunsOf
    Reviews = {1, 2}
    Reviewer <- OneReviewer
    MaxPolls = 1
    MaxTurns = 1
    Publications = {"pr"}
    Executors = {"e1", "e2"}
    Scenarios <- Lane
CHECK_DEADLOCK FALSE
INVARIANTS
    ChannelsTypeOK
    StatusIsTruth
    PassIsEarned
PROPERTIES
    RowsKeepPromise
    RowsSettle
    PollKeepsNews
    FeedbackIsFollowed
    PublicationsKeepPromise
