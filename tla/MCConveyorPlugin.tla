--------------------------- MODULE MCConveyorPlugin ---------------------------
(* Instances of ConveyorPlugin for TLC.                                       *)
EXTENDS ConveyorPlugin

CONSTANT NotANumber

\* A negative speed, none, one that is not the default, and NaN.
AskedSpeeds == {-1, 0, 1, NotANumber}
==============================================================================
