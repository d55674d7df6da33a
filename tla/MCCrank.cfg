\* Three feeds in one crank, whose callers pop any row while a turner pops
\* the head; a feed may start late, and each may lack another record.
CONSTANTS
    f1 = f1
    f2 = f2
    f3 = f3
    c1 = c1
    Feeds = {f1, f2, f3}
    Cranks = {c1}
    LeastDelay = 1
    Delays = {1}
    JitterModulus = 1
    StartTimes = {0, 2}
    DisableChoices = {FALSE}
    Refusals = {"QueueNotFound", "PermissionDenied"}
    MayLack <- OneOfEach
    Reconfigured = {}
    OpenedDirectly = {f1}
    MaxTime = 2
    PopIdxs = {0, 1, 2}
SPECIFICATION FairSpec
PROPERTIES ImplementsSchedule DueRowsAreTurned
CHECK_DEADLOCK FALSE
