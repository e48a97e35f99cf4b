----------------------- MODULE AdapterContract_proofs -----------------------
(***************************************************************************)
(* What a user of any adapter may conclude from the contract alone.        *)
(***************************************************************************)
EXTENDS AdapterContract, TLAPS

\* A new connection shows nothing half read: BoundEquipment is built whole.
BoundWhole == BoundShows \in {"never", "complete"}

\* Values half read are seen only during a poll() or on a Faulted adapter.
TornIsFaulted == ~polling /\ data = "torn" => conn = "Faulted"

\* A Disconnected adapter has no equipment, and values come with equipment.
ValuesHaveEquipment == /\ conn = "Disconnected" => ~bound
                       /\ ~bound => data = "never"

ContractInv ==
    /\ conn \in ConnStates
    /\ bound \in BOOLEAN /\ polling \in BOOLEAN
    /\ data \in {"never", "torn", "complete"}
    /\ ValuesHaveEquipment
    /\ TornIsFaulted
    /\ polling => bound

\* Once values have been read they are lost only with the equipment they belong
\* to, in connect() and disconnect().
ValuesStay == [][data # "never" /\ data' = "never"
                    => ~polling /\ conn' \in {"Connected", "Disconnected"}]_vars

LEMMA ContractInductive ==
    ASSUME BoundWhole, ContractInv, [Next]_vars
    PROVE  ContractInv'
<1> USE DEF ContractInv, ValuesHaveEquipment, TornIsFaulted, ConnStates
<1>1. CASE Connect
    BY <1>1 DEF Connect, BoundWhole
<1>2. CASE ConnectFails \/ Disconnect \/ Fault
  <2>1. CASE ConnectFails BY <2>1 DEF ConnectFails
  <2>2. CASE Disconnect BY <2>2 DEF Disconnect
  <2>3. CASE Fault BY <2>3 DEF Fault
  <2> QED BY <1>2, <2>1, <2>2, <2>3
<1>3. CASE BeginPoll \/ PollReads \/ PollFails
  <2>1. CASE BeginPoll BY <2>1 DEF BeginPoll
  <2>2. CASE PollReads BY <2>2 DEF PollReads
  <2>3. CASE PollFails BY <2>3 DEF PollFails
  <2> QED BY <1>3, <2>1, <2>2, <2>3
<1>4. CASE UNCHANGED vars
    BY <1>4 DEF vars
<1> QED BY <1>1, <1>2, <1>3, <1>4 DEF Next

LEMMA ContractInvariant == ASSUME BoundWhole PROVE Spec => []ContractInv
<1>1. Init => ContractInv
    BY DEF Init, ContractInv, ConnStates, ValuesHaveEquipment, TornIsFaulted
<1> QED BY <1>1, ContractInductive, PTL DEF Spec

\* Whoever keeps to the contract never shows half-read values on an adapter that
\* says Connected between two polls: what AdapterManager reads after poll() it may
\* call fresh if connectionState() is still Connected.
THEOREM TornValuesAreFaulted == ASSUME BoundWhole PROVE Spec => []TornIsFaulted
<1>1. ContractInv => TornIsFaulted
    BY DEF ContractInv
<1> QED BY <1>1, ContractInvariant, PTL

\* Equipment and its values are there from connect() to disconnect().
THEOREM ValuesComeWithEquipment == ASSUME BoundWhole PROVE Spec => []ValuesHaveEquipment
<1>1. ContractInv => ValuesHaveEquipment
    BY DEF ContractInv
<1> QED BY <1>1, ContractInvariant, PTL

\* A fault, a failed poll() and a failed connect() cost no value.
THEOREM ValuesStayThroughFaults == Spec => ValuesStay
<1>1. [Next]_vars => [data # "never" /\ data' = "never"
                         => ~polling /\ conn' \in {"Connected", "Disconnected"}]_vars
    BY DEF Next, Connect, ConnectFails, Disconnect, Fault, BeginPoll, PollReads, PollFails, vars
<1> QED BY <1>1, PTL DEF Spec, ValuesStay
=============================================================================
