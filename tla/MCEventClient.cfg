SPECIFICATION FairSpec
CONSTANTS
    c1 = c1
    c2 = c2
    d1 = d1
    d2 = d2
    Forever = Forever
    NoChannel = NoChannel
    Channels = {c1, c2}
    Discriminators = {d1, d2}
    Logs <- MCLogs
    Capacity <- MCCapacity
    RetryLimits = {0, 1, 3}
    MaxLines = 5
    MaxFailures = 6
INVARIANTS NothingSkipped GivesUp DelayFollowsFailures
PROPERTIES Resubscribes AllServed
CHECK_DEADLOCK FALSE
