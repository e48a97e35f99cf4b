CONSTANTS
    Families = {"modbus"}
    Owner = owner
    Clients = {client}
    Units = {"u0", "u1", "u2"}
    DefaultUnit = "u0"
    Addresses = {"a1"}
    Readings <- TwoUnitReadings
    States <- NoStates
    Commands <- TwoUnitCommands
    Writable <- TwoUnitWritable
    Formats <- TwoUnitFormats
    Changing = {0, 2}
    Default = blank
    Fields = 1
    Numbers = {0, 2}
    WordMax = 1
    DintHalf = 2
    RealLimit = 2
    RealSpacings = {1, 2}
    TextLimit = 10
    TextSpacings = {1}
SPECIFICATION Spec
PROPERTY WritesAreMapped
