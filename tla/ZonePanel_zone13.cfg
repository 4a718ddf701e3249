CONSTANTS
    Followed <- InputsOfZone13
    NearZones <- OwnAndNext
    BuzzSeconds = 2
    MaxActs = 3
    MaxRestarts = 1
SPECIFICATION Spec
INVARIANTS OfferedTypesAreReported
