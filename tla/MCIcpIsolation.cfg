SPECIFICATION Spec
CONSTANTS
    i1 = i1
    i2 = i2
    i3 = i3
    e1 = e1
    e2 = e2
    NoInstance = NoInstance
    NoEntry = NoEntry
    AdapterIds = {"a", "b"}
    Instances <- MCInstances
    EquipmentIds <- MCEquipment
    IdOf <- MCIdOf
    Mapping <- MCMapping
    Kind <- MCKind
INVARIANTS
    FlagsAgree
    ListedExclusive
    VisitIsOwned
    FreshIsComplete
    StaleNotConnected
    VisitedIsCurrent
PROPERTIES
    NeverStolen
