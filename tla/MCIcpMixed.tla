------------------------------ MODULE MCIcpMixed ------------------------------
(* An MQTT adapter beside a PROFINET scaffold and a mock, all after the same *)
(* equipment: equipment kept through a reconnect, equipment listed while     *)
(* Disconnected.                                                             *)
EXTENDS IcpRuntime, TLC

CONSTANTS i1, i2, i3, e1

MCInstances == {i1, i2, i3}
MCEquipment == {e1}
MCIdOf    == (i1 :> "a") @@ (i2 :> "b") @@ (i3 :> "c")
MCMapping == [i \in MCInstances |-> MCEquipment]
MCKind    == (i1 :> "mqtt") @@ (i2 :> "fieldbus") @@ (i3 :> "mock")
=============================================================================
