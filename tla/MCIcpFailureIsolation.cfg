SPECIFICATION Spec
CONSTANTS
    i1 = i1
    i2 = i2
    e1 = e1
    e2 = e2
    NoInstance = NoInstance
    NoEntry = NoEntry
    AdapterIds = {"a", "b"}
    Instances <- MCInstances
    EquipmentIds <- MCEquipment
    IdOf <- MCIdOf
    Mapping <- MCMapping
    Kind <- MCKind
INVARIANTS
    FailureIsolated
