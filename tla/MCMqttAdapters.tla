--------------------------- MODULE MCMqttAdapters ---------------------------
(* Adapters that share one client id at one broker, one of them with a      *)
(* configuration that connect() rejects; or one adapter with its queue.     *)
EXTENDS MqttAdapters, TLC

CONSTANTS a1, a2, a3, c1, t1, t2

MCThree == {a1, a2, a3}
MCTwo   == {a1, a2}
MCOne   == {a1}
MCSameKey == [a \in Adapters |-> "broker/line"]
MCSymmetry == Permutations(MCTwo)
MCNobody  == {}
MCClient  == {c1}
MCOneTopic  == {t1}
MCTwoTopics == {t1, t2}
=============================================================================
