CONSTANTS
    o1 = o1
    o2 = o2
    o3 = o3
    NoAnswer = NoAnswer
    Oracles = {o1, o2, o3}
    Values = {2, 6}
    Configs <- TwoOrThree
    ForceReportPeriod = 1
    MaxRelayed = 2
    MaxId = 2
    MaxTime = 2
SPECIFICATION RoundSpec
SYMMETRY Symmetry
INVARIANTS AnswersCounted LatestIsMedian
PROPERTIES LatestNeverOlder AnswersStay ConfirmedByEnough
