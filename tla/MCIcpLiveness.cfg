SPECIFICATION FairSpec
CONSTANTS
    i1 = i1
    i2 = i2
    i3 = i3
    e1 = e1
    NoInstance = NoInstance
    NoEntry = NoEntry
    AdapterIds = {"a", "b", "c"}
    Instances <- MCInstances
    EquipmentIds <- MCEquipment
    IdOf <- MCIdOf
    Mapping <- MCMapping
    Kind <- MCKind
INVARIANTS
    ConnectedExclusive
PROPERTIES
    KeepsLastKnown
    FaultVisible
    ConnectedIsCached
