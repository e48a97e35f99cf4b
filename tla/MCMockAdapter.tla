---------------------------- MODULE MCMockAdapter ----------------------------
(* Two devices with one telemetry point: one that can only be started and set, *)
(* and one that can be started and stopped.                                    *)
EXTENDS MockAdapter, TLC

CONSTANTS d1, d2, p, v1, v2

MCDevices == {d1, d2}
MCPoints  == {p}
MCValues  == {v1, v2}
MCConfigurable == (d1 :> {"start", p}) @@ (d2 :> {"start", "stop"})
==============================================================================
