SPECIFICATION Spec
CONSTANTS
    o1 = o1
    o2 = o2
    o3 = o3
    Oracles = {o1, o2, o3}
    Results <- MCResults
    MAX_RESULTS = 3
    MaxU128 = 24
    Stalenesses = {0, 1}
    SampleSizes = {2}
    MaxTime = 2
SYMMETRY Symmetry
INVARIANTS ValidAreNewest UpdatesAcceptedUnlessSpread
PROPERTIES MaxTimestampNeverBack ResultIsMedian MeanWithinRange
