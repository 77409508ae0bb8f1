SPECIFICATION Spec
CONSTANTS
    NoLink = NoLink
    Descriptions <- AllDescriptions
    Ranks <- AllRanks
CHECK_DEADLOCK FALSE
INVARIANTS
    LevelIsLongestPath
    LostOnlyBehindTaps
    CalculatorsGetTheirInputs
