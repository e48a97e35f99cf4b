--------------------------- MODULE AdapterContract ---------------------------
(***************************************************************************)
(* What IndustrialAdapter promises to the ICP runtime about one adapter    *)
(* that is polled: how its connection state moves, that equipment is there *)
(* from the first connection to disconnect(), where the values of that     *)
(* equipment come from, and in what state a poll() may leave them.  In     *)
(* return its user connects, polls and disconnects it one call at a time;  *)
(* only commands run beside a poll().                                      *)
(***************************************************************************)

CONSTANT BoundShows     \* the data of equipment that connect() has just bound

VARIABLES
    conn,       \* connectionState()
    bound,      \* BoundEquipment objects exist
    data,       \* "never" read; "torn": some of it read, or half way through a
                \* reading; "complete": each equipment read in full
    polling     \* poll() has begun to read and not returned

vars == <<conn, bound, data, polling>>

ConnStates == {"Disconnected", "Connected", "Faulted"}

Init == conn = "Disconnected" /\ bound = FALSE /\ data = "never" /\ polling = FALSE

\* connect() returns true: new equipment, if any is mapped, and nothing of the
\* values before.
Connect == /\ ~polling
           /\ conn # "Connected"
           /\ conn' = "Connected"
           /\ bound' \in BOOLEAN
           /\ data' = IF bound' THEN BoundShows ELSE "never"
           /\ UNCHANGED polling

\* connect() returns false: the last-known equipment and values remain.
ConnectFails == /\ ~polling
                /\ conn # "Connected"
                /\ conn' = "Faulted"
                /\ UNCHANGED <<bound, data, polling>>

Disconnect == /\ ~polling
              /\ conn' = "Disconnected" /\ bound' = FALSE /\ data' = "never"
              /\ UNCHANGED polling

\* A command fails, perhaps while poll() reads: nothing but the state changes.
Fault == /\ conn = "Connected"
         /\ conn' = "Faulted"
         /\ UNCHANGED <<bound, data, polling>>

\* poll() begins on a Connected adapter only, and may have set some values ...
BeginPoll == /\ ~polling
             /\ conn = "Connected" /\ bound
             /\ polling' = TRUE
             /\ data' \in {data, "torn"}
             /\ UNCHANGED <<conn, bound>>

\* ... until it has read them all (a command may have put it in Faulted) ...
PollReads == /\ polling
             /\ polling' = FALSE
             /\ data' = "complete"
             /\ UNCHANGED <<conn, bound>>

\* ... or gives up, perhaps at equipment that an earlier poll() has read, which
\* leaves the adapter in Faulted.
PollFails == /\ polling
             /\ polling' = FALSE
             /\ conn' = "Faulted"
             /\ data' \in {data, "torn", "complete"}
             /\ UNCHANGED bound

Next == \/ Connect \/ ConnectFails \/ Disconnect \/ Fault
        \/ BeginPoll \/ PollReads \/ PollFails

Spec == Init /\ [][Next]_vars
==============================================================================
