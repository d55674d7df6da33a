\* One feed whose authority may move it between two cranks.
CONSTANTS
    f1 = f1
    c1 = c1
    c2 = c2
    Feeds = {f1}
    Cranks = {c1, c2}
    LeastDelay = 2
    Delays = {1, 2, 3}
    JitterModulus = 2
    StartTimes = {0, 2}
    DisableChoices = {FALSE, TRUE}
    Refusals = {"QueueNotFound", "QueueNotReady", "LeaseInsufficientCoin", "PermissionDenied"}
    MayLack <- ItsPermission
    Reconfigured = {f1}
    OpenedDirectly = {f1}
    MaxTime = 5
SPECIFICATION Spec
INVARIANTS OneRowPerFeed CountedOrEvicted
PROPERTIES RoundsSpaced LeavesForCause
