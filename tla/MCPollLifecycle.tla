--------------------------- MODULE MCPollLifecycle ---------------------------
(* Two controlling threads, two clients of the manager, two intervals. *)
EXTENDS PollLifecycle
CONSTANTS c1, c2, k1, k2, short, long
MCControllers == {c1, c2}
MCClients == {k1, k2}
MCIntervals == {short, long}
===============================================================================
