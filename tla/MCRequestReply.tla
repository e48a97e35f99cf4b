--------------------------- MODULE MCRequestReply ---------------------------
(* Instances of RequestReplyAdapter: the readings p1, a state, and p2, a      *)
(* number, of one unit, with commands to both; two units for MCModbusUnits.   *)
(* The set-points are -1/2, 0 and 1: lround() has a tie, a register clips     *)
(* -1/2, and a text of one digit has no room for it.                          *)
EXTENDS RequestReplyAdapter

p1 == <<"u1", "a1">>
p2 == <<"u1", "a2">>

OneUnitReadings == <<p1, p2>>
OneUnitStates   == {<<1, 1>>}
OneUnitCommands == {<<p1, "start">>, <<p1, "set">>, <<p2, "set">>}
OneUnitWritable == {p2}

\* p1 and the rest of the device.
Mixed(state, number) == [p \in Places |-> IF p[2] = "a1" THEN state ELSE number]
AllFormats     == [opcua      |-> Mixed("bit", "double"),
                   modbus     |-> Mixed("bit", "word"),
                   rest       |-> Mixed("text", "text"),
                   ethernetip |-> Mixed("real", "dint")]
OneUnitFormats == [f \in Families |-> AllFormats[f]]

TwoUnitReadings == <<p1>>
TwoUnitCommands == {<<<<"u2", "a1">>, "set">>}
TwoUnitWritable == {<<"u2", "a1">>}
TwoUnitFormats  == [modbus |-> Mixed("word", "word")]

AllFamilies == {"opcua", "modbus", "rest", "ethernetip"}
NoStates    == {}
SomeNumbers == {-1, 0, 2}
=============================================================================
