------------------------------ MODULE MCIcpPair ------------------------------
(* A request/reply adapter and an MQTT adapter that share one of two           *)
(* equipment ids: the smallest system with a collision.                      *)
EXTENDS IcpRuntime, TLC

CONSTANTS i1, i2, e1, e2

MCInstances == {i1, i2}
MCEquipment == {e1, e2}
MCIdOf    == (i1 :> "a") @@ (i2 :> "b")
MCMapping == (i1 :> {e1, e2}) @@ (i2 :> {e2})
MCKind    == (i1 :> "reqrep") @@ (i2 :> "mqtt")
=============================================================================
