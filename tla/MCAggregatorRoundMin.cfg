CONSTANTS
    o1 = o1
    NoAnswer = NoAnswer
    Oracles = {o1}
    Values = {2, 6}
    Configs <- OneOfOne
    ForceReportPeriod = 1
    MaxRelayed = 2
    MaxId = 3
    MaxTime = 3
SPECIFICATION RoundSpec
INVARIANT MinIsMinimum
