SPECIFICATION FairSpec
CONSTANTS
    c1 = c1
    c2 = c2
    f1 = f1
    f2 = f2
    h1 = h1
    h2 = h2
    Unset = Unset
    None = None
    Default = Default
    Taskings <- MCTaskings
    Answers <- MCAnswers
    Calls = {c1, c2}
    Feeds = {f1, f2}
    Requests <- MCRequests
    NumSignatures = {0, 3}
    Configs <- MCConfigs
    FeedShard <- MCFeedShard
    JobShard <- MCJobShard
    WorkerCounts = {1, 2}
    MaxReconfigs = 1
INVARIANTS EnoughSignatures NamesAnsweredFeeds OneSnapshot
PROPERTIES HeldUpForEver EveryCallEnds
CHECK_DEADLOCK FALSE
