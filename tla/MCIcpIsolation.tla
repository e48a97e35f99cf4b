--------------------------- MODULE MCIcpIsolation ---------------------------
(* Three adapters that compete for two equipment ids, two of them under the *)
(* same adapter id (an adapter that is removed and replaced).               *)
EXTENDS IcpRuntime, TLC

CONSTANTS i1, i2, i3, e1, e2

MCInstances == {i1, i2, i3}
MCEquipment == {e1, e2}
MCIdOf    == (i1 :> "a") @@ (i2 :> "b") @@ (i3 :> "a")
MCMapping == (i1 :> {e1, e2}) @@ (i2 :> {e2}) @@ (i3 :> {e2})
MCKind    == (i1 :> "reqrep") @@ (i2 :> "mock") @@ (i3 :> "reqrep")
=============================================================================
