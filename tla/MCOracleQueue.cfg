\* Two queues between which two oracles move, one of which keeps sending
\* heartbeats while the other may fall silent.
SPECIFICATION FairSpec
CONSTANTS
    q1 = q1
    q2 = q2
    o1 = o1
    o2 = o2
    a1 = a1
    None = None
    Queues = {q1, q2}
    Oracles = {o1, o2}
    Authorities = {a1}
    ExpirationPeriod = 1
    BatchSizes = {1, 2}
    Movers = {o1, o2}
    Faithful = {o1}
INVARIANTS RowsMatchCounter CursorsInBounds AssignedOnce
PROPERTIES BootsOnlyExpired SilentAreBooted
