CONSTANTS
    o1 = o1
    o2 = o2
    NoAnswer = NoAnswer
    Oracles = {o1, o2}
    Values = {2, 4}
    Configs <- TwoOracles
    ForceReportPeriod = 1
    MaxRelayed = 0
    MaxId = 2
    MaxTime = 3
    Reward = 1
    OpenRoundReward = 1
    SaveReward = 2
    SaveConfirmationReward = 1
    SlashingPenalty = 1
    SlashingEnabled = TRUE
    VarianceTolerance = 0
    LoadAmounts = {3}
    MaxFunded = 12
SPECIFICATION Spec
SYMMETRY Symmetry
INVARIANTS CoinsConserved LoneAnswerPaid
PROPERTIES PaidInOrder FinedForCause
