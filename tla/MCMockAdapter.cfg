SPECIFICATION Spec
CONSTANTS
    d1 = d1
    d2 = d2
    p = p
    v1 = v1
    v2 = v2
    NoPoint = NoPoint
    Devices <- MCDevices
    Points <- MCPoints
    Values <- MCValues
    Configurable <- MCConfigurable
INVARIANTS
    ShownIsSource
PROPERTIES
    UnitsAreKept
    ImplementsContract
