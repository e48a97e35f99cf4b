CONSTANTS
    Families <- AllFamilies
    Owner = owner
    Clients = {client}
    Units = {"u0", "u1"}
    DefaultUnit = "u0"
    Addresses = {"a1", "a2"}
    Readings <- OneUnitReadings
    States <- OneUnitStates
    Commands <- OneUnitCommands
    Writable <- OneUnitWritable
    Formats <- OneUnitFormats
    Changing = {0, 2}
    Default = blank
    Fields = 2
    Numbers <- SomeNumbers
    WordMax = 1
    DintHalf = 2
    RealLimit = 2
    RealSpacings = {1, 2}
    TextLimit = 5
    TextSpacings = {1, 10}
SPECIFICATION Spec
INVARIANTS TypeOK SessionMatchesState
PROPERTIES CompleteIsRead WritesAreMapped AcknowledgedIsDone ImplementsContract
