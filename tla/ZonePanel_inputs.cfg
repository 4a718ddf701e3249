CONSTANTS
    Followed <- AllInputs
    NearZones <- OwnAndNext
    BuzzSeconds = 2
    MaxActs = 3
    MaxRestarts = 1
SPECIFICATION Spec
INVARIANTS ReportsAsChosen LampsTell BuzzerAnswers
