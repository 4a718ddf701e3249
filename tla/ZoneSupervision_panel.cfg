CONSTANTS
    bas = bas
    mains1 = mains1
    mains2 = mains2
    siren = siren
    power1 = power1
    power2 = power2
    BAS = BAS
    IAS = IAS
    Zones <- ThreeZones
    PowerZones <- TwoDevices
    Lines <- ThreeLines
    ZoneOf <- Wires
    KindOf <- Kinds3
    Positions = 2
    PositionOf <- Places
    Types <- TwoTypes
    Silent <- OnlyIAS
    Probed <- NoneProbed
    DefaultType <- AllBAS
    FirstSettings <- AllOn
    MaxKeys = 3
    MaxRestarts = 1
SPECIFICATION FairSpec
INVARIANTS BurstTruthful AlarmsFollowInputs ResetIsWhole
PROPERTIES AlarmTakesEffect
