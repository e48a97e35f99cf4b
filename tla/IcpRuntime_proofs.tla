-------------------------- MODULE IcpRuntime_proofs --------------------------
(***************************************************************************)
(* Proofs about IcpRuntime, for every set of instances, every assignment   *)
(* of ids, mappings and adapter kinds.                                     *)
(***************************************************************************)
EXTENDS IcpRuntime, TLAPS

-------------------------------------------------------------------------------
(* Type correctness.                                                       *)

LEMMA SnapshotTypes ==
    ASSUME NEW s \in Snapshots
    PROVE  /\ [s EXCEPT !.comm = "Faulted", !.stale = TRUE] \in Snapshots
           /\ s.owner \in AdapterIds
  BY DEF Snapshots, ConnStates

LEMMA DisconnectTypes ==
    ASSUME TypeOK, NEW S \in SUBSET Instances, DisconnectEach(S)
    PROVE  /\ conn' \in [Instances -> ConnStates]
           /\ bound' \subseteq Instances
           /\ data' \in [Instances -> [EquipmentIds -> DataStates]]
  BY DEF TypeOK, DisconnectEach, ConnStates, DataStates, NoData

LEMMA BindTypes ==
    ASSUME TypeOK, NEW i \in Instances, Bind(i)
    PROVE  /\ bound' \subseteq Instances
           /\ data' \in [Instances -> [EquipmentIds -> DataStates]]
  BY DEF TypeOK, Bind, BoundData, DataStates, NoData

LEMMA ReturnTypes ==
    ASSUME TypeOK, ReturnFromVisit \/ ReturnFromUpdate
    PROVE  /\ phase' \in Phases
           /\ cur' \in Instances \cup {NoInstance}
           /\ sawFault' \in BOOLEAN
           /\ stale' \in BOOLEAN
  BY DEF TypeOK, ReturnFromVisit, ReturnFromUpdate, Phases

\* Inside a visit the poller has an adapter in its hands.
VisitHasAdapter == phase \notin {"idle", "next"} => cur \in Instances

LEMMA TypeInit == Init => TypeOK /\ VisitHasAdapter
<1> SUFFICES ASSUME Init PROVE TypeOK /\ VisitHasAdapter
  OBVIOUS
<1>1. data \in [Instances -> [EquipmentIds -> DataStates]]
  <2>1. NoData \in [EquipmentIds -> DataStates]
    BY DEF NoData, DataStates
  <2> QED BY <2>1 DEF Init
<1>2. conn \in [Instances -> ConnStates]
  BY DEF Init, ConnStates
<1>3. cache \in [EquipmentIds -> Snapshots \cup {NoEntry}]
  BY DEF Init
<1> QED BY <1>1, <1>2, <1>3 DEF Init, TypeOK, VisitHasAdapter, Phases

LEMMA TypeStep ==
    ASSUME TypeOK, VisitHasAdapter, [Next]_vars
    PROVE  TypeOK' /\ VisitHasAdapter'
<1> USE DEF VisitHasAdapter
<1>1. ASSUME NEW i \in Instances, AddAdapter(i)
      PROVE  TypeOK' /\ VisitHasAdapter'
  BY <1>1 DEF AddAdapter, TypeOK, adapter, poller
<1>2. ASSUME NEW i \in Instances, RemoveAdapter(i)
      PROVE  TypeOK' /\ VisitHasAdapter'
  BY <1>2 DEF RemoveAdapter, TypeOK, adapter, poller
<1>3. ASSUME NEW i \in Instances, ConnectOk(i)
      PROVE  TypeOK' /\ VisitHasAdapter'
  <2>1. CASE Collides(i)
    BY <1>3, <2>1, DisconnectTypes DEF ConnectOk, TypeOK, manager, poller
  <2>2. CASE ~Collides(i)
    BY <1>3, <2>2, BindTypes DEF ConnectOk, TypeOK, manager, poller, ConnStates
  <2> QED BY <2>1, <2>2
<1>4. ASSUME NEW i \in Instances, ConnectFails(i)
      PROVE  TypeOK' /\ VisitHasAdapter'
  BY <1>4 DEF ConnectFails, TypeOK, manager, poller, ConnStates
<1>5. ASSUME NEW i \in Instances, SubscribeFails(i)
      PROVE  TypeOK' /\ VisitHasAdapter'
  BY <1>5, BindTypes DEF SubscribeFails, TypeOK, manager, poller, ConnStates
<1>6. ASSUME NEW i \in Instances, DisconnectAdapter(i)
      PROVE  TypeOK' /\ VisitHasAdapter'
  BY <1>6, DisconnectTypes DEF DisconnectAdapter, TypeOK, manager, poller
<1>7. ASSUME NEW i \in Instances, ClearCommunicationFailure(i)
      PROVE  TypeOK' /\ VisitHasAdapter'
  BY <1>7, DisconnectTypes DEF ClearCommunicationFailure, TypeOK, manager, poller
<1>8. ASSUME DisconnectAll
      PROVE  TypeOK' /\ VisitHasAdapter'
  BY <1>8, DisconnectTypes DEF DisconnectAll, TypeOK, manager, poller
<1>9. ASSUME NEW i \in Instances, FinishRemove(i)
      PROVE  TypeOK' /\ VisitHasAdapter'
  BY <1>9, DisconnectTypes DEF FinishRemove, TypeOK, poller
<1>10. ASSUME NEW i \in Instances, CommunicationFailure(i)
      PROVE  TypeOK' /\ VisitHasAdapter'
  BY <1>10 DEF CommunicationFailure, TypeOK, manager, poller, ConnStates
<1>11. ASSUME ClearCache
      PROVE  TypeOK' /\ VisitHasAdapter'
  BY <1>11 DEF ClearCache, TypeOK, manager, adapter, poller
<1>12. ASSUME BeginPass \/ EndPass
      PROVE  TypeOK' /\ VisitHasAdapter'
  BY <1>12 DEF BeginPass, EndPass, TypeOK, manager, adapter, Phases
<1>13. ASSUME NEW i \in Instances,
              VisitDisconnected(i) \/ VisitConnected(i) \/ VisitFaulted(i)
      PROVE  TypeOK' /\ VisitHasAdapter'
  <2>1. CASE VisitDisconnected(i)
    BY <2>1 DEF VisitDisconnected, WithoutOwner, TypeOK, manager, adapter
  <2>2. CASE VisitConnected(i)
    BY <2>2 DEF VisitConnected, TypeOK, manager, adapter, Phases
  <2>3. CASE VisitFaulted(i)
    BY <2>3 DEF VisitFaulted, TypeOK, manager, adapter, Phases
  <2> QED BY <1>13, <2>1, <2>2, <2>3
<1>14. ASSUME PollFaulted \/ PollReadsAll \/ PollFails \/ PollDrains
      PROVE  TypeOK' /\ VisitHasAdapter'
  <2>1. CASE PollFaulted
    BY <2>1 DEF PollFaulted, TypeOK, manager, adapter, Phases
  <2>2. CASE PollReadsAll
    BY <2>2 DEF PollReadsAll, TypeOK, manager, Phases, DataStates
  <2>3. CASE PollFails
    BY <2>3 DEF PollFails, TypeOK, manager, Phases, DataStates, ConnStates
  <2>4. CASE PollDrains
    BY <2>4 DEF PollDrains, TypeOK, manager, Phases, DataStates, ConnStates
  <2> QED BY <1>14, <2>1, <2>2, <2>3, <2>4
<1>15. ASSUME BeginUpdate
      PROVE  TypeOK' /\ VisitHasAdapter'
  <2>1. Listed(cur) \subseteq EquipmentIds
    BY <1>15, MappingAssumption DEF BeginUpdate, Listed
  <2>2. cache' \in [EquipmentIds -> Snapshots \cup {NoEntry}]
    BY <1>15 DEF BeginUpdate, Pruned, TypeOK
  <2>3. CASE ReturnFromUpdate
    BY <1>15, <2>1, <2>2, <2>3, ReturnTypes
    DEF BeginUpdate, ToCopy, ReturnFromUpdate, ReturnFromVisit, TypeOK, manager, adapter
  <2>4. CASE phase' = "copy" /\ stale' = IsStale(cur) /\ UNCHANGED <<cur, sawFault>>
    BY <1>15, <2>1, <2>2, <2>4
    DEF BeginUpdate, ToCopy, TypeOK, manager, adapter, Phases, IsStale
  <2> QED BY <1>15, <2>3, <2>4 DEF BeginUpdate
<1>16. ASSUME NEW e \in EquipmentIds, CopyEquipment(e)
      PROVE  TypeOK' /\ VisitHasAdapter'
  <2>1. Snapshot(e) \in Snapshots
    BY <1>16, IdOfAssumption DEF CopyEquipment, Snapshot, Snapshots, TypeOK
  <2>2. CASE ReturnFromUpdate
    BY <1>16, <2>1, <2>2, ReturnTypes
    DEF CopyEquipment, ReturnFromUpdate, ReturnFromVisit, TypeOK, manager, adapter
  <2>3. CASE UNCHANGED <<phase, cur, sawFault, stale>>
    BY <1>16, <2>1, <2>3 DEF CopyEquipment, TypeOK, manager, adapter
  <2> QED BY <1>16, <2>2, <2>3 DEF CopyEquipment
<1>17. ASSUME MarkFaulted
      PROVE  TypeOK' /\ VisitHasAdapter'
  <2>1. cache' \in [EquipmentIds -> Snapshots \cup {NoEntry}]
    BY <1>17, SnapshotTypes DEF MarkFaulted, MarkedFaulted, OwnedBy, TypeOK
  <2> QED
    BY <1>17, <2>1, ReturnTypes DEF MarkFaulted, ReturnFromVisit, TypeOK, manager, adapter
<1>18. CASE UNCHANGED vars
  BY <1>18 DEF TypeOK, vars
<1> QED
  BY <1>1, <1>2, <1>3, <1>4, <1>5, <1>6, <1>7, <1>8, <1>9, <1>10, <1>11, <1>12,
     <1>13, <1>14, <1>15, <1>16, <1>17, <1>18
  DEF Next, Manage, Client, PollStep

\* Every variable keeps its type: in particular every cached snapshot is a whole
\* record with an adapter id of the deployment, and the poller inside a visit has
\* an adapter.
THEOREM TypeCorrect == Spec => []TypeOK
<1>1. TypeOK /\ VisitHasAdapter /\ [Next]_vars => (TypeOK /\ VisitHasAdapter)'
  BY TypeStep
<1> QED BY TypeInit, <1>1, PTL DEF Spec

-------------------------------------------------------------------------------
(* The poller never holds an adapter that a removal could destroy: removal *)
(* needs the mutex the pass holds.                                         *)

OwnershipInv == registered \cap doomed = {} /\ VisitIsOwned

LEMMA OwnershipStep ==
    ASSUME TypeOK, OwnershipInv, [Next]_vars
    PROVE  OwnershipInv'
<1> USE DEF OwnershipInv, VisitIsOwned
<1>1. ASSUME NEW i \in Instances,
             \/ AddAdapter(i) \/ RemoveAdapter(i) \/ ConnectOk(i) \/ ConnectFails(i)
             \/ SubscribeFails(i) \/ DisconnectAdapter(i)
             \/ ClearCommunicationFailure(i)
      PROVE  OwnershipInv'
  BY <1>1
  DEF AddAdapter, RemoveAdapter, ConnectOk, ConnectFails, SubscribeFails,
      DisconnectAdapter, ClearCommunicationFailure, MutexFree, manager, poller
<1>2. ASSUME DisconnectAll \/ ClearCache
      PROVE  OwnershipInv'
  BY <1>2 DEF DisconnectAll, ClearCache, manager, poller
<1>3. ASSUME NEW i \in Instances, FinishRemove(i) \/ CommunicationFailure(i)
      PROVE  OwnershipInv'
  BY <1>3 DEF FinishRemove, CommunicationFailure, manager, poller
<1>4. ASSUME BeginPass \/ EndPass
      PROVE  OwnershipInv'
  BY <1>4 DEF BeginPass, EndPass, manager
<1>5. ASSUME NEW i \in Instances,
             VisitDisconnected(i) \/ VisitConnected(i) \/ VisitFaulted(i)
      PROVE  OwnershipInv'
  BY <1>5 DEF VisitDisconnected, VisitConnected, VisitFaulted, manager
<1>6. ASSUME PollFaulted \/ PollReadsAll \/ PollFails \/ PollDrains
      PROVE  OwnershipInv'
  BY <1>6 DEF PollFaulted, PollReadsAll, PollFails, PollDrains, manager
<1>7. ASSUME BeginUpdate \/ MarkFaulted
      PROVE  OwnershipInv'
  BY <1>7 DEF BeginUpdate, MarkFaulted, ReturnFromUpdate, ReturnFromVisit, manager
<1>8. ASSUME NEW e \in EquipmentIds, CopyEquipment(e)
      PROVE  OwnershipInv'
  BY <1>8 DEF CopyEquipment, ReturnFromUpdate, ReturnFromVisit, manager
<1>9. CASE UNCHANGED vars
  BY <1>9 DEF vars
<1> QED
  BY <1>1, <1>2, <1>3, <1>4, <1>5, <1>6, <1>7, <1>8, <1>9
  DEF Next, Manage, Client, PollStep

LEMMA Owned == Spec => []OwnershipInv
<1>1. Init => OwnershipInv
  BY DEF Init, OwnershipInv, VisitIsOwned
<1>2. TypeOK /\ OwnershipInv /\ [Next]_vars => OwnershipInv'
  BY OwnershipStep
<1> QED BY <1>1, <1>2, TypeCorrect, PTL DEF Spec

\* The adapter under the poller's hands, and those it will still visit, stay
\* owned by the manager: removeAdapter cannot interleave with a pass.
THEOREM VisitedAdaptersAreOwned == Spec => []VisitIsOwned
<1>1. OwnershipInv => VisitIsOwned
  BY DEF OwnershipInv
<1> QED BY <1>1, Owned, PTL

-------------------------------------------------------------------------------
(* No two Connected adapters serve one equipment id.  The invariant that   *)
(* makes it inductive: an instance that the manager neither owns nor is    *)
(* about to destroy is Disconnected, so that adding it exposes nothing.    *)

ConnectionInv ==
    /\ \A i \in Instances : i \notin registered \cup doomed => conn[i] = "Disconnected"
    /\ ConnectedExclusive

\* A step that connects no adapter, binds nothing new to a Connected one and
\* registers only Disconnected ones creates no conflict.
NoNewExposure ==
    /\ \A i \in Instances :
          conn'[i] = "Connected" =>
              /\ conn[i] = "Connected"
              /\ i \in bound' => i \in bound
    /\ \A i \in registered' : i \in registered \/ conn[i] # "Connected"

LEMMA NoNewExposureKeeps ==
    ASSUME TypeOK, TypeOK', ConnectedExclusive, NoNewExposure
    PROVE  ConnectedExclusive'
  BY DEF TypeOK, ConnectedExclusive, NoNewExposure, Listed

LEMMA DisconnectKeeps ==
    ASSUME TypeOK, TypeOK', ConnectionInv, NEW S \in SUBSET Instances,
           DisconnectEach(S), registered' \subseteq registered,
           registered \cup doomed \subseteq registered' \cup doomed' \cup S
    PROVE  ConnectionInv'
<1>1. NoNewExposure
  BY DEF NoNewExposure, DisconnectEach, TypeOK
<1>2. \A i \in Instances : i \notin registered' \cup doomed' => conn'[i] = "Disconnected"
  BY DEF ConnectionInv, DisconnectEach, TypeOK
<1> QED BY <1>1, <1>2, NoNewExposureKeeps DEF ConnectionInv

LEMMA ConnectionStep ==
    ASSUME TypeOK, TypeOK', ConnectionInv, [Next]_vars
    PROVE  ConnectionInv'
<1>1. ASSUME NEW i \in Instances, AddAdapter(i) \/ RemoveAdapter(i)
      PROVE  ConnectionInv'
  <2>1. NoNewExposure
    BY <1>1 DEF AddAdapter, RemoveAdapter, NoNewExposure, ConnectionInv, adapter
  <2> QED
    BY <1>1, <2>1, NoNewExposureKeeps DEF AddAdapter, RemoveAdapter, ConnectionInv, adapter
<1>2. ASSUME NEW i \in Instances, ConnectOk(i)
      PROVE  ConnectionInv'
  <2>1. CASE Collides(i)
    BY <1>2, <2>1, DisconnectKeeps DEF ConnectOk, manager
  <2>2. CASE ~Collides(i)
    <3>1. /\ conn' = [conn EXCEPT ![i] = "Connected"]
          /\ bound' = bound \cup {i}
          /\ registered' = registered /\ doomed' = doomed
          /\ i \in registered
      BY <1>2, <2>2 DEF ConnectOk, Bind, manager
    <3>2. \A j \in registered : j # i => Mapping[i] \cap Listed(j) = {}
      BY <2>2 DEF Collides
    <3>3. \A j \in registered : j # i => Listed(j)' = Listed(j)
      BY <3>1 DEF Listed, TypeOK
    <3>4. Listed(i)' \subseteq Mapping[i]
      BY DEF Listed
    <3>5. ConnectedExclusive'
      BY <3>1, <3>2, <3>3, <3>4 DEF ConnectedExclusive, ConnectionInv, TypeOK
    <3> QED BY <3>1, <3>5 DEF ConnectionInv, TypeOK
  <2> QED BY <2>1, <2>2
<1>3. ASSUME NEW i \in Instances, ConnectFails(i) \/ SubscribeFails(i)
      PROVE  ConnectionInv'
  <2>1. NoNewExposure
    BY <1>3 DEF ConnectFails, SubscribeFails, Bind, NoNewExposure, TypeOK, manager
  <2> QED
    BY <1>3, <2>1, NoNewExposureKeeps
    DEF ConnectFails, SubscribeFails, ConnectionInv, TypeOK, manager
<1>4. ASSUME NEW i \in Instances,
             DisconnectAdapter(i) \/ ClearCommunicationFailure(i) \/ FinishRemove(i)
      PROVE  ConnectionInv'
  BY <1>4, DisconnectKeeps
  DEF DisconnectAdapter, ClearCommunicationFailure, FinishRemove, manager
<1>5. ASSUME DisconnectAll
      PROVE  ConnectionInv'
  BY <1>5, DisconnectKeeps DEF DisconnectAll, manager, TypeOK
<1>6. ASSUME NEW i \in Instances, CommunicationFailure(i)
      PROVE  ConnectionInv'
  <2>1. NoNewExposure
    BY <1>6 DEF CommunicationFailure, NoNewExposure, TypeOK, manager
  <2> QED
    BY <1>6, <2>1, NoNewExposureKeeps DEF CommunicationFailure, ConnectionInv, TypeOK, manager
<1>7. ASSUME PollFails \/ PollDrains
      PROVE  ConnectionInv'
  <2>1. PICK s \in {"Connected", "Faulted"} : conn' = [conn EXCEPT ![cur] = s]
    BY <1>7 DEF PollFails, PollDrains
  <2>2. conn[cur] = "Connected" /\ UNCHANGED <<registered, doomed, bound>>
    BY <1>7 DEF PollFails, PollDrains, manager
  <2>3. NoNewExposure
    BY <2>1, <2>2 DEF NoNewExposure, TypeOK
  <2> QED BY <2>1, <2>2, <2>3, NoNewExposureKeeps DEF ConnectionInv, TypeOK
<1>8. CASE UNCHANGED <<registered, doomed, conn, bound>>
  BY <1>8 DEF ConnectionInv, ConnectedExclusive, Listed
<1>9. ASSUME NEW i \in Instances,
             VisitDisconnected(i) \/ VisitConnected(i) \/ VisitFaulted(i)
      PROVE  ConnectionInv'
  BY <1>8, <1>9 DEF VisitDisconnected, VisitConnected, VisitFaulted, manager, adapter
<1>10. ASSUME \/ ClearCache \/ BeginPass \/ EndPass \/ PollFaulted \/ PollReadsAll
              \/ BeginUpdate \/ MarkFaulted \/ UNCHANGED vars
       PROVE  ConnectionInv'
  BY <1>8, <1>10
  DEF ClearCache, BeginPass, EndPass, PollFaulted, PollReadsAll, BeginUpdate,
      MarkFaulted, vars, manager, adapter
<1>11. ASSUME NEW e \in EquipmentIds, CopyEquipment(e)
       PROVE  ConnectionInv'
  BY <1>8, <1>11 DEF CopyEquipment, manager, adapter
<1> QED
  BY <1>1, <1>2, <1>3, <1>4, <1>5, <1>6, <1>7, <1>9, <1>10, <1>11
  DEF Next, Manage, Client, PollStep

\* Two Connected adapters never expose the same equipment id, for any number of
\* adapters of any kind and any overlap of their mappings.
THEOREM ConnectedAdaptersAreExclusive == Spec => []ConnectedExclusive
<1>1. Init => ConnectionInv
  BY DEF Init, ConnectionInv, ConnectedExclusive
<1>2. TypeOK /\ TypeOK' /\ ConnectionInv /\ [Next]_vars => ConnectionInv'
  BY ConnectionStep
<1>3. ConnectionInv => ConnectedExclusive
  BY DEF ConnectionInv
<1> QED BY <1>1, <1>2, <1>3, TypeCorrect, PTL DEF Spec

-------------------------------------------------------------------------------
(* What reaches the cache as fresh is a full reading.  A snapshot is built *)
(* over several steps, so the invariant says at each of them what the      *)
(* poller may still write; clients fault the adapter in between.           *)

\* e's value is a full reading, or of an adapter that is not read in full.
Whole(e) == data[cur][e] = "complete" \/ ~Polled(cur)

FreshInv ==
    /\ FreshIsComplete
    /\ StaleNotConnected
    /\ phase = "refresh" /\ conn[cur] = "Connected" =>
          ~sawFault /\ \A e \in Listed(cur) : Whole(e)
    /\ phase = "poll" => ~sawFault
    /\ phase = "copy" /\ ~stale => \A e \in left : Whole(e)
    /\ phase = "copy" /\ stale => conn[cur] # "Connected"

\* Steps outside the copy and mark loops: the cache only loses entries, and the
\* visit goes on over the same adapter, which did not become Connected.
LEMMA FewerEntriesStayFresh ==
    ASSUME FreshIsComplete, StaleNotConnected,
           \A e \in EquipmentIds : cache'[e] \in {cache[e], NoEntry}
    PROVE  FreshIsComplete' /\ StaleNotConnected'
  BY DEF FreshIsComplete, StaleNotConnected, Polled

LEMMA IdleStaysFresh ==
    ASSUME FreshInv, phase' \in {"idle", "next"},
           \A e \in EquipmentIds : cache'[e] \in {cache[e], NoEntry}
    PROVE  FreshInv'
  BY FewerEntriesStayFresh DEF FreshInv

LEMMA FreshStep ==
    ASSUME TypeOK, TypeOK', OwnershipInv, FreshInv, [Next]_vars
    PROVE  FreshInv'
<1> USE DEF OwnershipInv, VisitIsOwned
<1>1. ASSUME NEW i \in Instances,
             \/ AddAdapter(i) \/ RemoveAdapter(i) \/ ConnectOk(i) \/ ConnectFails(i)
             \/ SubscribeFails(i) \/ DisconnectAdapter(i)
             \/ ClearCommunicationFailure(i)
      PROVE  FreshInv'
  BY <1>1, IdleStaysFresh
  DEF AddAdapter, RemoveAdapter, ConnectOk, ConnectFails, SubscribeFails,
      DisconnectAdapter, ClearCommunicationFailure, MutexFree, poller
<1>2. ASSUME DisconnectAll
      PROVE  FreshInv'
  BY <1>2, IdleStaysFresh DEF DisconnectAll, MutexFree, poller
<1>3. ASSUME NEW i \in Instances, FinishRemove(i)
      PROVE  FreshInv'
  <2>1. FreshIsComplete' /\ StaleNotConnected'
    BY <1>3, FewerEntriesStayFresh DEF FinishRemove, FreshInv
  <2>2. CASE phase \in {"idle", "next"}
    BY <1>3, <2>2, IdleStaysFresh DEF FinishRemove, poller
  <2>3. CASE phase \notin {"idle", "next"}
    <3>1. cur # i /\ cur \in Instances
      BY <1>3, <2>3 DEF FinishRemove, TypeOK
    <3>2. /\ conn'[cur] = conn[cur] /\ data'[cur] = data[cur]
          /\ cur \in bound' <=> cur \in bound
      BY <1>3, <3>1 DEF FinishRemove, DisconnectEach
    <3>3. UNCHANGED poller
      BY <1>3 DEF FinishRemove
    <3> QED BY <2>1, <3>2, <3>3 DEF poller, FreshInv, Whole, Listed, Polled
  <2> QED BY <2>2, <2>3
<1>4. ASSUME NEW i \in Instances, CommunicationFailure(i)
      PROVE  FreshInv'
  <2>1. FreshIsComplete' /\ StaleNotConnected'
    BY <1>4, FewerEntriesStayFresh DEF CommunicationFailure, FreshInv
  <2>2. \A j \in Instances : conn'[j] = "Connected" => conn[j] = "Connected"
    BY <1>4 DEF CommunicationFailure, TypeOK
  <2>3. phase \notin {"idle", "next"} => cur \in Instances
    BY DEF TypeOK
  <2> QED
    BY <1>4, <2>1, <2>2, <2>3
    DEF CommunicationFailure, FreshInv, Whole, Listed, Polled, poller
<1>5. ASSUME ClearCache
      PROVE  FreshInv'
  <2>1. FreshIsComplete' /\ StaleNotConnected'
    BY <1>5, FewerEntriesStayFresh DEF ClearCache, FreshInv
  <2> QED
    BY <1>5, <2>1 DEF ClearCache, FreshInv, Whole, Listed, Polled, poller, adapter
<1>6. ASSUME BeginPass \/ EndPass
      PROVE  FreshInv'
  BY <1>6, IdleStaysFresh DEF BeginPass, EndPass
<1>7. ASSUME NEW i \in Instances, VisitDisconnected(i)
      PROVE  FreshInv'
  BY <1>7, IdleStaysFresh DEF VisitDisconnected, WithoutOwner
<1>8. ASSUME NEW i \in Instances, VisitConnected(i) \/ VisitFaulted(i)
      PROVE  FreshInv'
  <2>1. FreshIsComplete' /\ StaleNotConnected'
    BY <1>8, FewerEntriesStayFresh DEF VisitConnected, VisitFaulted, FreshInv
  <2> QED BY <1>8, <2>1 DEF VisitConnected, VisitFaulted, FreshInv, adapter
<1>9. ASSUME PollFaulted \/ PollReadsAll \/ PollFails \/ PollDrains
      PROVE  FreshInv'
  <2>1. FreshIsComplete' /\ StaleNotConnected'
    BY <1>9, FewerEntriesStayFresh
    DEF PollFaulted, PollReadsAll, PollFails, PollDrains, FreshInv
  <2>2. phase = "poll" /\ phase' = "refresh" /\ UNCHANGED <<cur, sawFault>>
    BY <1>9 DEF PollFaulted, PollReadsAll, PollFails, PollDrains
  <2>3. cur \in Instances
    BY <2>2 DEF TypeOK
  <2>4. conn'[cur] = "Connected" => \A e \in Listed(cur)' : Whole(e)'
    <3>1. CASE PollFaulted
      BY <3>1 DEF PollFaulted, adapter
    <3>2. CASE PollReadsAll
      <4>1. Listed(cur)' \subseteq Mapping[cur] /\ Mapping[cur] \subseteq EquipmentIds
        BY <2>2, <2>3, MappingAssumption DEF Listed
      <4>2. \A e \in Mapping[cur] : data'[cur][e] = "complete"
        BY <2>3, <3>2, <4>1 DEF PollReadsAll, TypeOK
      <4> QED BY <2>2, <4>1, <4>2 DEF Whole
    <3>3. CASE PollFails
      BY <2>3, <3>3 DEF PollFails, TypeOK
    <3>4. CASE PollDrains
      BY <2>2, <3>4 DEF PollDrains, Whole, Polled
    <3> QED BY <1>9, <3>1, <3>2, <3>3, <3>4
  <2> QED BY <2>1, <2>2, <2>4 DEF FreshInv
<1>10. ASSUME BeginUpdate
       PROVE  FreshInv'
  <2>1. FreshIsComplete' /\ StaleNotConnected'
    BY <1>10, FewerEntriesStayFresh DEF BeginUpdate, Pruned, FreshInv
  <2>2. CASE ReturnFromUpdate
    BY <1>10, <2>1, <2>2 DEF ReturnFromUpdate, ReturnFromVisit, FreshInv
  <2>3. CASE phase' = "copy" /\ stale' = IsStale(cur) /\ UNCHANGED <<cur, sawFault>>
    BY <1>10, <2>1, <2>3
    DEF BeginUpdate, ToCopy, IsStale, FreshInv, Whole, Polled, adapter
  <2> QED BY <1>10, <2>2, <2>3 DEF BeginUpdate
<1>11. ASSUME NEW e \in EquipmentIds, CopyEquipment(e)
       PROVE  FreshInv'
  <2>1. cur \in Instances /\ e \in left /\ phase = "copy"
    BY <1>11 DEF CopyEquipment, TypeOK
  <2>2. cache' = [cache EXCEPT ![e] = Snapshot(e)]
    BY <1>11 DEF CopyEquipment
  <2>3. FreshIsComplete'
    <3> SUFFICES ASSUME NEW d \in EquipmentIds, cache'[d] # NoEntry, ~cache'[d].stale
                 PROVE  \/ cache'[d].data = "complete"
                        \/ \E i \in Instances : IdOf[i] = cache'[d].owner /\ ~Polled(i)
      BY DEF FreshIsComplete, Polled
    <3>1. CASE d = e
      <4>1. cache'[d] = Snapshot(e)
        BY <2>2, <3>1 DEF TypeOK
      <4>2. ~stale
        BY <4>1 DEF Snapshot
      <4>3. Whole(e)
        BY <2>1, <4>2 DEF FreshInv
      <4> QED BY <2>1, <4>1, <4>3 DEF Snapshot, Whole
    <3>2. CASE d # e
      BY <2>2, <3>2 DEF FreshInv, FreshIsComplete, TypeOK
    <3> QED BY <3>1, <3>2
  <2>4. StaleNotConnected'
    BY <2>1, <2>2 DEF StaleNotConnected, FreshInv, Snapshot, TypeOK
  <2>5. CASE ReturnFromUpdate
    BY <2>3, <2>4, <2>5 DEF ReturnFromUpdate, ReturnFromVisit, FreshInv
  <2>6. CASE UNCHANGED <<phase, cur, sawFault, stale>>
    BY <1>11, <2>1, <2>3, <2>4, <2>6
    DEF CopyEquipment, FreshInv, Whole, Polled, adapter
  <2> QED BY <1>11, <2>5, <2>6 DEF CopyEquipment
<1>12. ASSUME MarkFaulted
       PROVE  FreshInv'
  <2>0. \A e \in EquipmentIds :
           cache'[e] = cache[e] \/ (cache'[e].stale = TRUE /\ cache'[e].comm = "Faulted")
    <3> SUFFICES ASSUME NEW e \in EquipmentIds, OwnedBy(e, IdOf[cur])
                 PROVE  cache'[e].stale = TRUE /\ cache'[e].comm = "Faulted"
      BY <1>12 DEF MarkFaulted, MarkedFaulted
    <3>1. cache'[e] = [cache[e] EXCEPT !.comm = "Faulted", !.stale = TRUE]
      BY <1>12 DEF MarkFaulted, MarkedFaulted
    <3>2. cache[e] \in Snapshots
      BY DEF OwnedBy, TypeOK
    <3> QED BY <3>1, <3>2 DEF Snapshots
  <2>1. FreshIsComplete'
    BY <2>0 DEF FreshInv, FreshIsComplete, Polled
  <2>2. StaleNotConnected'
    BY <2>0 DEF FreshInv, StaleNotConnected
  <2> QED BY <1>12, <2>1, <2>2 DEF MarkFaulted, ReturnFromVisit, FreshInv
<1>13. CASE UNCHANGED vars
  BY <1>13
  DEF vars, FreshInv, FreshIsComplete, StaleNotConnected, Whole, Listed, Polled
<1> QED
  BY <1>1, <1>2, <1>3, <1>4, <1>5, <1>6, <1>7, <1>8, <1>9, <1>10, <1>11, <1>12, <1>13
  DEF Next, Manage, Client, PollStep

LEMMA FreshAlways == Spec => []FreshInv
<1>1. Init => FreshInv
  BY DEF Init, FreshInv, FreshIsComplete, StaleNotConnected
<1>2. TypeOK /\ TypeOK' /\ OwnershipInv /\ FreshInv /\ [Next]_vars => FreshInv'
  BY FreshStep
<1> QED BY <1>1, <1>2, TypeCorrect, Owned, PTL DEF Spec

\* A snapshot that is not marked stale holds a full reading of its equipment,
\* whatever fails between reading the adapter's state and copying its values.
THEOREM FreshSnapshotsAreComplete == Spec => []FreshIsComplete
<1>1. FreshInv => FreshIsComplete
  BY DEF FreshInv
<1> QED BY <1>1, FreshAlways, PTL

\* A snapshot marked stale never shows its adapter as Connected.
THEOREM StaleSnapshotsAreNotConnected == Spec => []StaleNotConnected
<1>1. FreshInv => StaleNotConnected
  BY DEF FreshInv
<1> QED BY <1>1, FreshAlways, PTL

-------------------------------------------------------------------------------
(* One flag for the equipment of one adapter: during a copy the entries still  *)
(* to be written may carry an older one, the others the flag of this visit.    *)

FlagsInv ==
    /\ \A e, f \in EquipmentIds :
          /\ cache[e] # NoEntry /\ cache[f] # NoEntry
          /\ cache[e].owner = cache[f].owner
          => \/ cache[e].stale = cache[f].stale
             \/ phase = "copy" /\ cache[e].owner = IdOf[cur]
    /\ phase = "copy" => \A e \in EquipmentIds :
                            OwnedBy(e, IdOf[cur]) => e \in left \/ cache[e].stale = stale

LEMMA FewerEntriesAgree ==
    ASSUME FlagsInv, phase # "copy", phase' # "copy",
           \A e \in EquipmentIds : cache'[e] \in {cache[e], NoEntry}
    PROVE  FlagsInv'
  BY DEF FlagsInv

LEMMA FlagsStep == ASSUME TypeOK, FlagsInv, [Next]_vars PROVE FlagsInv'
<1>1. CASE Manage \/ (\E i \in Instances : FinishRemove(i) \/ CommunicationFailure(i))
  <2>1. UNCHANGED <<cache, phase, cur, stale, left>>
    BY <1>1
    DEF Manage, AddAdapter, RemoveAdapter, ConnectOk, ConnectFails, SubscribeFails,
        DisconnectAdapter, ClearCommunicationFailure, DisconnectAll, FinishRemove,
        CommunicationFailure, poller
  <2> QED BY <2>1 DEF FlagsInv, OwnedBy
<1>2. CASE ClearCache \/ BeginPass \/ EndPass \/ PollFaulted \/ PollReadsAll
             \/ PollFails \/ PollDrains
             \/ \E i \in Instances :
                   VisitDisconnected(i) \/ VisitConnected(i) \/ VisitFaulted(i)
  <2>1. phase # "copy" /\ phase' # "copy"
    BY <1>2
    DEF ClearCache, BeginPass, EndPass, PollFaulted, PollReadsAll, PollFails, PollDrains,
        VisitDisconnected, VisitConnected, VisitFaulted, poller
  <2>2. \A e \in EquipmentIds : cache'[e] \in {cache[e], NoEntry}
    BY <1>2
    DEF ClearCache, BeginPass, EndPass, PollFaulted, PollReadsAll, PollFails, PollDrains,
        VisitDisconnected, VisitConnected, VisitFaulted, WithoutOwner
  <2> QED BY <2>1, <2>2, FewerEntriesAgree
<1>3. CASE BeginUpdate
  <2>1. /\ phase = "refresh"
        /\ \A e \in EquipmentIds :
              /\ cache'[e] \in {cache[e], NoEntry}
              /\ cache'[e] # NoEntry /\ cache'[e].owner = IdOf[cur] => e \in left'
    BY <1>3 DEF BeginUpdate, Pruned, OwnedBy, ToCopy
  <2>2. CASE ToCopy(cur) = {}
    <3>1. phase' # "copy"
      BY <1>3, <2>2 DEF BeginUpdate, ReturnFromUpdate, ReturnFromVisit
    <3> QED BY <2>1, <3>1, FewerEntriesAgree
  <2>3. CASE ToCopy(cur) # {}
    <3>1. phase' = "copy" /\ cur' = cur
      BY <1>3, <2>3 DEF BeginUpdate
    <3> QED BY <2>1, <3>1 DEF FlagsInv, OwnedBy
  <2> QED BY <2>2, <2>3
<1>4. ASSUME NEW d \in EquipmentIds, CopyEquipment(d)
      PROVE  FlagsInv'
  <2>1. /\ phase = "copy" /\ left' = left \ {d}
        /\ cache'[d].owner = IdOf[cur] /\ cache'[d].stale = stale
        /\ \A e \in EquipmentIds \ {d} : cache'[e] = cache[e]
    BY <1>4 DEF CopyEquipment, Snapshot, TypeOK
  <2>2. \A e \in EquipmentIds :
           cache'[e] # NoEntry /\ cache'[e].owner = IdOf[cur]
               => e \in left' \/ cache'[e].stale = stale
    BY <2>1 DEF FlagsInv, OwnedBy
  <2>3. \A e, f \in EquipmentIds :
           /\ cache'[e] # NoEntry /\ cache'[f] # NoEntry
           /\ cache'[e].owner = cache'[f].owner /\ cache'[e].owner # IdOf[cur]
           => cache'[e].stale = cache'[f].stale
    BY <2>1 DEF FlagsInv
  <2>4. CASE left = {d}
    <3>1. phase' # "copy" /\ left' = {}
      BY <1>4, <2>1, <2>4 DEF CopyEquipment, ReturnFromUpdate, ReturnFromVisit
    <3> QED BY <2>2, <2>3, <3>1 DEF FlagsInv
  <2>5. CASE left # {d}
    <3>1. phase' = phase /\ cur' = cur /\ stale' = stale
      BY <1>4, <2>5 DEF CopyEquipment
    <3>2. \A e \in EquipmentIds : OwnedBy(e, IdOf[cur])' => e \in left' \/ cache'[e].stale = stale
      BY <2>2, <3>1 DEF OwnedBy
    <3> QED BY <2>1, <2>3, <3>1, <3>2 DEF FlagsInv
  <2> QED BY <2>4, <2>5
<1>5. CASE MarkFaulted
  <2>1. phase = "mark" /\ phase' # "copy"
    BY <1>5 DEF MarkFaulted, ReturnFromVisit
  <2>2. \A e \in EquipmentIds :
           IF cache[e] # NoEntry /\ cache[e].owner = IdOf[cur]
           THEN cache'[e].owner = IdOf[cur] /\ cache'[e].stale = TRUE
           ELSE cache'[e] = cache[e]
    BY <1>5 DEF MarkFaulted, MarkedFaulted, OwnedBy, TypeOK, Snapshots
  <2> QED BY <2>1, <2>2 DEF FlagsInv
<1>6. CASE UNCHANGED vars
  BY <1>6 DEF vars, FlagsInv, OwnedBy
<1> QED BY <1>1, <1>2, <1>3, <1>4, <1>5, <1>6 DEF Next, Client, PollStep

\* Readers of the cache find the equipment of one adapter id all fresh or all stale,
\* for every deployment: updateFromAdapter reads the flag once for all of it, and
\* marking, pruning and removing leave no part of the entries behind.
THEOREM FlagsAlwaysAgree == Spec => []FlagsAgree
<1>1. Init => FlagsInv
  BY DEF Init, FlagsInv
<1>2. TypeOK /\ FlagsInv /\ [Next]_vars => FlagsInv'
  BY FlagsStep
<1>3. FlagsInv => FlagsAgree
  BY DEF FlagsInv, FlagsAgree
<1> QED BY <1>1, <1>2, <1>3, TypeCorrect, PTL DEF Spec

-------------------------------------------------------------------------------
(* Where an MQTT or fieldbus adapter shares its equipment with no adapter  *)
(* of another id, not even a Faulted adapter lists an equipment id beside  *)
(* another one, and then no snapshot is overwritten by another adapter's.  *)
(* (Neither holds otherwise: the connect() of MQTT binds before it fails,  *)
(* and a scaffold lists what it is configured with.)  The invariant: a     *)
(* Disconnected adapter has nothing bound, so that it may turn Faulted.    *)

\* Request/reply adapters and mocks may compete for equipment, and an adapter be
\* replaced by one of the same id.
Apart == \A i, j \in Instances :
            ~Polled(i) /\ IdOf[i] # IdOf[j] => Mapping[i] \cap Mapping[j] = {}

UniqueIds == \A i, j \in registered : i # j => IdOf[i] # IdOf[j]

PolledExclusive ==
    \A i, j \in registered : i # j /\ Polled(i) /\ Polled(j) => Listed(i) \cap Listed(j) = {}

ListingInv ==
    /\ UniqueIds
    /\ \A i \in Instances : i \notin registered \cup doomed => conn[i] = "Disconnected"
    /\ \A i \in bound : Polled(i) => conn[i] # "Disconnected"
    /\ PolledExclusive
    /\ phase = "copy" => left \subseteq Listed(cur)

LEMMA ListingExcludes ==
    ASSUME Apart, TypeOK, ListingInv
    PROVE  ListedExclusive
<1> SUFFICES ASSUME NEW i \in registered, NEW j \in registered, i # j
             PROVE  Listed(i) \cap Listed(j) = {}
  BY DEF ListedExclusive
<1>1. i \in Instances /\ j \in Instances /\ IdOf[i] # IdOf[j]
  BY DEF TypeOK, ListingInv, UniqueIds
<1>2. Listed(i) \subseteq Mapping[i] /\ Listed(j) \subseteq Mapping[j]
  BY DEF Listed
<1>3. CASE Polled(i) /\ Polled(j)
  BY <1>3 DEF ListingInv, PolledExclusive
<1>4. CASE ~Polled(i) \/ ~Polled(j)
  BY <1>1, <1>2, <1>4 DEF Apart
<1> QED BY <1>3, <1>4

\* A step after which every such adapter lists at most what it listed before.
NoNewListing ==
    /\ \A i \in Instances : Polled(i) => Listed(i)' \subseteq Listed(i)
    /\ \A i \in registered' : Polled(i) => i \in registered \/ Listed(i) = {}

LEMMA NoNewListingKeeps ==
    ASSUME TypeOK, TypeOK', PolledExclusive, NoNewListing
    PROVE  PolledExclusive'
  BY DEF TypeOK, PolledExclusive, NoNewListing

LEMMA DisconnectKeepsListing ==
    ASSUME TypeOK, TypeOK', ListingInv, NEW S \in SUBSET Instances,
           DisconnectEach(S), registered' \subseteq registered,
           registered \cup doomed \subseteq registered' \cup doomed' \cup S,
           UNCHANGED <<phase, cur, left>>, phase = "copy" => cur \notin S /\ cur \in Instances
    PROVE  ListingInv'
<1>1. bound' = bound \ {i \in S : Kind[i] # "fieldbus"}
  BY DEF DisconnectEach
<1>2. conn' = [i \in Instances |-> IF i \in S THEN "Disconnected" ELSE conn[i]]
  BY DEF DisconnectEach
<1>3. \A i \in Instances : Listed(i)' \subseteq Listed(i)
  BY <1>1, <1>2 DEF Listed
<1>4. PolledExclusive'
  BY <1>3, NoNewListingKeeps DEF NoNewListing, ListingInv, TypeOK
<1>5. phase = "copy" => Listed(cur)' = Listed(cur)
  BY <1>1, <1>2 DEF Listed
<1> QED BY <1>1, <1>2, <1>4, <1>5 DEF ListingInv, UniqueIds, Polled, TypeOK

LEMMA ListingStep ==
    ASSUME TypeOK, TypeOK', OwnershipInv, ListingInv, [Next]_vars
    PROVE  ListingInv'
<1> USE DEF OwnershipInv, VisitIsOwned
<1>1. ASSUME NEW i \in Instances, AddAdapter(i) \/ RemoveAdapter(i)
      PROVE  ListingInv'
  <2>1. UNCHANGED <<conn, bound, phase, cur, left>>
    BY <1>1 DEF AddAdapter, RemoveAdapter, adapter, poller
  <2>2. NoNewListing
    BY <1>1, <2>1
    DEF AddAdapter, RemoveAdapter, NoNewListing, Listed, ListingInv
  <2> QED
    BY <1>1, <2>1, <2>2, NoNewListingKeeps
    DEF AddAdapter, RemoveAdapter, ListingInv, UniqueIds, Listed
<1>2. ASSUME NEW i \in Instances, ConnectOk(i)
      PROVE  ListingInv'
  <2>1. CASE Collides(i)
    BY <1>2, <2>1, DisconnectKeepsListing DEF ConnectOk, MutexFree, manager, poller
  <2>2. CASE ~Collides(i)
    <3>1. /\ conn' = [conn EXCEPT ![i] = "Connected"]
          /\ bound' = bound \cup {i}
          /\ registered' = registered /\ doomed' = doomed
          /\ i \in registered
          /\ phase' = "idle"
      BY <1>2, <2>2 DEF ConnectOk, Bind, MutexFree, manager, poller
    <3>2. \A j \in registered : j # i => Mapping[i] \cap Listed(j) = {}
      BY <2>2 DEF Collides
    <3>3. \A j \in registered : j # i => Listed(j)' = Listed(j)
      BY <3>1 DEF Listed, TypeOK
    <3>4. Listed(i)' \subseteq Mapping[i]
      BY DEF Listed
    <3>5. PolledExclusive'
      <4>1. \A j, k \in registered : j # k /\ Polled(j) /\ Polled(k)
                => Listed(j) \cap Listed(k) = {}
        BY DEF ListingInv, PolledExclusive
      <4>2. \A j, k \in registered : j # k /\ Polled(j) /\ Polled(k)
                => Listed(j)' \cap Listed(k)' = {}
        BY <3>2, <3>3, <3>4, <4>1
      <4> QED BY <3>1, <4>2 DEF PolledExclusive
    <3> QED BY <3>1, <3>5 DEF ListingInv, UniqueIds, TypeOK
  <2> QED BY <2>1, <2>2
<1>3. ASSUME NEW i \in Instances, ConnectFails(i)
      PROVE  ListingInv'
  <2>1. /\ conn' = [conn EXCEPT ![i] = "Faulted"] /\ phase' = "idle"
        /\ UNCHANGED <<registered, doomed, bound>> /\ i \in registered
    BY <1>3 DEF ConnectFails, MutexFree, manager, poller
  <2>2. NoNewListing
    BY <2>1 DEF NoNewListing, Listed, ListingInv, Polled, TypeOK
  <2> QED BY <2>1, <2>2, NoNewListingKeeps DEF ListingInv, UniqueIds, TypeOK
<1>4. ASSUME NEW i \in Instances, SubscribeFails(i)
      PROVE  ListingInv'
  <2>1. /\ ~Polled(i) /\ bound' = bound \cup {i} /\ phase' = "idle"
        /\ conn' = [conn EXCEPT ![i] = "Faulted"]
        /\ UNCHANGED <<registered, doomed>> /\ i \in registered
    BY <1>4 DEF SubscribeFails, Bind, Polled, MutexFree, manager, poller
  <2>2. NoNewListing
    BY <2>1 DEF NoNewListing, Listed, TypeOK
  <2> QED BY <2>1, <2>2, NoNewListingKeeps DEF ListingInv, UniqueIds, TypeOK
<1>5. ASSUME NEW i \in Instances,
             DisconnectAdapter(i) \/ ClearCommunicationFailure(i)
      PROVE  ListingInv'
  BY <1>5, DisconnectKeepsListing
  DEF DisconnectAdapter, ClearCommunicationFailure, MutexFree, manager, poller
<1>6. ASSUME DisconnectAll
      PROVE  ListingInv'
  BY <1>6, DisconnectKeepsListing DEF DisconnectAll, MutexFree, manager, poller, TypeOK
<1>7. ASSUME NEW i \in Instances, FinishRemove(i)
      PROVE  ListingInv'
  BY <1>7, DisconnectKeepsListing DEF FinishRemove, poller, TypeOK
<1>8. ASSUME NEW i \in Instances, CommunicationFailure(i)
      PROVE  ListingInv'
  <2>1. /\ conn' = [conn EXCEPT ![i] = "Faulted"] /\ conn[i] = "Connected"
        /\ UNCHANGED <<registered, doomed, bound, phase, cur, left>>
    BY <1>8 DEF CommunicationFailure, manager, poller
  <2>2. \A j \in Instances : Listed(j)' = Listed(j)
    BY <2>1 DEF Listed, TypeOK
  <2>3. NoNewListing
    BY <2>1, <2>2 DEF NoNewListing, TypeOK
  <2> QED BY <2>1, <2>2, <2>3, NoNewListingKeeps DEF ListingInv, UniqueIds, TypeOK
<1>9. ASSUME PollFails \/ PollDrains
      PROVE  ListingInv'
  <2>1. PICK s \in {"Connected", "Faulted"} : conn' = [conn EXCEPT ![cur] = s]
    BY <1>9 DEF PollFails, PollDrains
  <2>2. /\ conn[cur] = "Connected" /\ phase' = "refresh"
        /\ UNCHANGED <<registered, doomed, bound>>
    BY <1>9 DEF PollFails, PollDrains, manager
  <2>3. NoNewListing
    BY <2>1, <2>2 DEF NoNewListing, Listed, TypeOK
  <2> QED BY <2>1, <2>2, <2>3, NoNewListingKeeps DEF ListingInv, UniqueIds, TypeOK
<1>10. CASE /\ UNCHANGED <<registered, doomed, conn, bound>>
            /\ phase' = "copy" => left' \subseteq Listed(cur)'
  BY <1>10 DEF ListingInv, UniqueIds, PolledExclusive, Listed
<1>11. ASSUME NEW i \in Instances,
              VisitDisconnected(i) \/ VisitConnected(i) \/ VisitFaulted(i)
       PROVE  ListingInv'
  BY <1>10, <1>11 DEF VisitDisconnected, VisitConnected, VisitFaulted, manager, adapter
<1>12. ASSUME \/ ClearCache \/ BeginPass \/ EndPass \/ PollFaulted \/ PollReadsAll
              \/ MarkFaulted \/ UNCHANGED vars
       PROVE  ListingInv'
  BY <1>10, <1>12
  DEF ClearCache, BeginPass, EndPass, PollFaulted, PollReadsAll, MarkFaulted,
      ReturnFromVisit, ListingInv, Listed, vars, manager, adapter, poller
<1>13. ASSUME BeginUpdate
       PROVE  ListingInv'
  BY <1>10, <1>13
  DEF BeginUpdate, ToCopy, ReturnFromUpdate, ReturnFromVisit, Listed, manager, adapter
<1>14. ASSUME NEW e \in EquipmentIds, CopyEquipment(e)
       PROVE  ListingInv'
  BY <1>10, <1>14
  DEF CopyEquipment, ReturnFromUpdate, ReturnFromVisit, ListingInv, Listed,
      manager, adapter
<1> QED
  BY <1>1, <1>2, <1>3, <1>4, <1>5, <1>6, <1>7, <1>8, <1>9, <1>11, <1>12, <1>13, <1>14
  DEF Next, Manage, Client, PollStep

LEMMA ListingAlways == Spec => []ListingInv
<1>1. Init => ListingInv
  BY DEF Init, ListingInv, UniqueIds, PolledExclusive, Listed, Polled
<1>2. TypeOK /\ TypeOK' /\ OwnershipInv /\ ListingInv /\ [Next]_vars => ListingInv'
  BY ListingStep
<1> QED BY <1>1, <1>2, TypeCorrect, Owned, PTL DEF Spec

\* An equipment id is listed by at most one registered adapter, Connected or
\* Faulted, as long as no MQTT or fieldbus adapter is configured with another's.
THEOREM ListingsAreExclusive == ASSUME Apart PROVE Spec => []ListedExclusive
<1>1. TypeOK /\ ListingInv => ListedExclusive
  BY ListingExcludes
<1> QED BY <1>1, ListingAlways, TypeCorrect, PTL

\* Then no poll pass replaces an adapter's snapshot by another adapter's while the
\* first still lists the equipment.
THEOREM SnapshotsAreNotStolen == ASSUME Apart PROVE Spec => NeverStolen
<1> DEFINE Kept == \A e \in EquipmentIds :
               cache[e] # NoEntry /\ cache'[e] # NoEntry /\ cache'[e].owner # cache[e].owner
                   => \A i \in registered : IdOf[i] = cache[e].owner => e \notin Listed(i)
<1>1. ASSUME TypeOK, OwnershipInv, ListingInv, [Next]_vars
      PROVE  [Kept]_vars
  <2>1. CASE \A e \in EquipmentIds : cache'[e] = NoEntry \/ cache'[e].owner = cache[e].owner
    BY <2>1
  <2>2. ASSUME NEW e \in EquipmentIds, CopyEquipment(e)
        PROVE  Kept
    <3>1. /\ cache' = [cache EXCEPT ![e] = Snapshot(e)]
          /\ cur \in registered /\ e \in Listed(cur)
      BY <1>1, <2>2 DEF CopyEquipment, ListingInv, OwnershipInv, VisitIsOwned
    <3>2. \A d \in EquipmentIds : d # e => cache'[d] = cache[d]
      BY <1>1, <3>1 DEF TypeOK
    <3>3. cache'[e].owner = IdOf[cur]
      BY <1>1, <3>1 DEF Snapshot, TypeOK
    <3>4. \A i \in registered : i # cur => e \notin Listed(i)
      BY <1>1, <3>1, ListingExcludes DEF ListedExclusive
    <3> QED BY <3>2, <3>3, <3>4
  <2>3. CASE MarkFaulted
    BY <1>1, <2>1, <2>3 DEF MarkFaulted, MarkedFaulted, OwnedBy, TypeOK, Snapshots
  <2>4. CASE \E i \in Instances : VisitDisconnected(i)
    BY <2>1, <2>4 DEF VisitDisconnected, WithoutOwner
  <2>5. CASE BeginUpdate \/ ClearCache
    BY <2>1, <2>5 DEF BeginUpdate, Pruned, ClearCache
  <2>6. CASE UNCHANGED cache
    BY <2>6
  <2>7. CASE Manage
    BY <2>6, <2>7
    DEF Manage, AddAdapter, RemoveAdapter, ConnectOk, ConnectFails, SubscribeFails,
        DisconnectAdapter, ClearCommunicationFailure, DisconnectAll
  <2>8. CASE \E i \in Instances :
               FinishRemove(i) \/ CommunicationFailure(i) \/ VisitConnected(i) \/ VisitFaulted(i)
    BY <2>6, <2>8 DEF FinishRemove, CommunicationFailure, VisitConnected, VisitFaulted
  <2>9. CASE BeginPass \/ EndPass \/ PollFaulted \/ PollReadsAll \/ PollFails \/ PollDrains
    BY <2>6, <2>9 DEF BeginPass, EndPass, PollFaulted, PollReadsAll, PollFails, PollDrains
  <2> QED
    BY <1>1, <2>2, <2>3, <2>4, <2>5, <2>7, <2>8, <2>9 DEF Next, Client, PollStep
<1> QED BY <1>1, TypeCorrect, Owned, ListingAlways, PTL DEF Spec, NeverStolen, Kept

-------------------------------------------------------------------------------
(* What a pass has visited stays current until the pass ends.  The danger  *)
(* is again in the visit under way; the invariant describes how far it is. *)

IsCurrent(i, e) ==
    cache[e] = [owner |-> IdOf[i], comm |-> "Connected", stale |-> FALSE, data |-> data[i][e]]

VisitDone(i) ==
    /\ conn[i] = "Connected" => \A e \in Listed(i) : cache[e] # NoEntry => IsCurrent(i, e)
    /\ conn[i] = "Disconnected" => \A e \in EquipmentIds : ~OwnedBy(e, IdOf[i])

\* The visit knows the adapter as Connected as long as it is, and nothing of it is
\* cached but what has been copied.
VisitUnderWay ==
    /\ conn[cur] = "Connected" => phase # "mark" /\ ~sawFault
    /\ conn[cur] # "Disconnected"
    /\ phase = "copy" /\ conn[cur] = "Connected" =>
          /\ ~stale
          /\ \A e \in Listed(cur) \ left : cache[e] # NoEntry => IsCurrent(cur, e)

CurrentInv ==
    /\ phase \in {"idle", "next"} => cur = NoInstance
    /\ phase # "idle" => \A i \in registered \ todo : i # cur => VisitDone(i)
    /\ phase \notin {"idle", "next"} => VisitUnderWay

\* A step that changes neither an adapter nor its entries leaves it done, and so
\* does dropping any of its entries.
LEMMA DoneStaysDone ==
    ASSUME TypeOK, NEW i \in Instances, VisitDone(i),
           \A e \in EquipmentIds : cache'[e] \in {cache[e], NoEntry},
           data'[i] = data[i], conn'[i] \in {conn[i], "Faulted"}, Listed(i)' = Listed(i)
    PROVE  VisitDone(i)'
<1>1. Listed(i) \subseteq EquipmentIds
  BY MappingAssumption DEF Listed
<1> QED BY <1>1 DEF VisitDone, IsCurrent, OwnedBy

LEMMA CurrentWhenIdle ==
    ASSUME CurrentInv, UNCHANGED <<registered, phase, cur>>, phase = "idle"
    PROVE  CurrentInv'
  BY DEF CurrentInv

LEMMA CurrentStep ==
    ASSUME Apart, TypeOK, TypeOK', OwnershipInv, ListingInv, CurrentInv, [Next]_vars
    PROVE  CurrentInv'
<1> USE DEF OwnershipInv, VisitIsOwned
<1> USE NoneAssumption
<1>1. ASSUME NEW i \in Instances, AddAdapter(i) \/ RemoveAdapter(i)
      PROVE  CurrentInv'
  BY <1>1 DEF AddAdapter, RemoveAdapter, MutexFree, poller, CurrentInv
<1>2. ASSUME \/ \E i \in Instances :
                   \/ ConnectOk(i) \/ ConnectFails(i) \/ SubscribeFails(i)
                   \/ DisconnectAdapter(i) \/ ClearCommunicationFailure(i)
             \/ DisconnectAll
      PROVE  CurrentInv'
  BY <1>2, CurrentWhenIdle
  DEF ConnectOk, ConnectFails, SubscribeFails, DisconnectAdapter, DisconnectAll,
      ClearCommunicationFailure, MutexFree, manager, poller
<1>3. ASSUME NEW d \in Instances, FinishRemove(d) \/ CommunicationFailure(d)
      PROVE  CurrentInv'
  <2>1. UNCHANGED <<registered, cache, phase, todo, cur, sawFault, stale, left>>
    BY <1>3 DEF FinishRemove, CommunicationFailure, manager, poller
  <2>2. \A i \in registered : /\ data'[i] = data[i] /\ conn'[i] \in {conn[i], "Faulted"}
                              /\ conn'[i] = "Connected" => conn[i] = "Connected"
                              /\ Listed(i)' = Listed(i)
    BY <1>3 DEF FinishRemove, CommunicationFailure, DisconnectEach, Listed, TypeOK
  <2>3. phase # "idle" => \A i \in registered \ todo : i # cur => VisitDone(i)'
    BY <2>1, <2>2, DoneStaysDone DEF CurrentInv, TypeOK
  <2>4. phase \notin {"idle", "next"} => VisitUnderWay'
    BY <2>1, <2>2 DEF CurrentInv, VisitUnderWay, IsCurrent, TypeOK
  <2> QED BY <2>1, <2>3, <2>4 DEF CurrentInv
<1>4. ASSUME ClearCache
      PROVE  CurrentInv'
  <2>1. UNCHANGED <<registered, conn, bound, data, phase, todo, cur, sawFault, stale, left>>
    BY <1>4 DEF ClearCache, manager, adapter, poller
  <2>2. \A i \in Instances : VisitDone(i) => VisitDone(i)'
    BY <1>4, <2>1, DoneStaysDone DEF ClearCache, Listed
  <2>3. phase \notin {"idle", "next"} => VisitUnderWay'
    BY <1>4, <2>1 DEF ClearCache, CurrentInv, VisitUnderWay
  <2> QED BY <2>1, <2>2, <2>3 DEF CurrentInv, TypeOK
<1>5. ASSUME BeginPass \/ EndPass
      PROVE  CurrentInv'
  BY <1>5 DEF BeginPass, EndPass, manager, CurrentInv
<1>6. ASSUME NEW d \in Instances, VisitDisconnected(d)
      PROVE  CurrentInv'
  <2>1. /\ UNCHANGED <<registered, conn, bound, data, phase, cur>> /\ phase = "next"
        /\ todo' = todo \ {d} /\ cache' = WithoutOwner(IdOf[d])
    BY <1>6 DEF VisitDisconnected, manager, adapter
  <2>2. \A i \in Instances : VisitDone(i) => VisitDone(i)'
    BY <2>1, DoneStaysDone DEF WithoutOwner, Listed
  <2>3. VisitDone(d)'
    BY <1>6, <2>1 DEF VisitDisconnected, WithoutOwner, VisitDone, OwnedBy
  <2> QED BY <2>1, <2>2, <2>3 DEF CurrentInv, TypeOK
<1>7. ASSUME NEW d \in Instances, VisitConnected(d) \/ VisitFaulted(d)
      PROVE  CurrentInv'
  <2>1. /\ UNCHANGED <<registered, conn, bound, data, cache>> /\ phase = "next"
        /\ todo' = todo \ {d} /\ cur' = d /\ phase' \in {"poll", "refresh", "mark"}
    BY <1>7 DEF VisitConnected, VisitFaulted, manager, adapter
  <2>2. \A i \in Instances : VisitDone(i)' = VisitDone(i)
    BY <2>1 DEF VisitDone, IsCurrent, OwnedBy, Listed
  <2>3. VisitUnderWay'
    BY <1>7, <2>1 DEF VisitConnected, VisitFaulted, VisitUnderWay
  <2> QED BY <2>1, <2>2, <2>3 DEF CurrentInv, TypeOK
<1>8. ASSUME PollFaulted \/ PollReadsAll \/ PollFails \/ PollDrains
      PROVE  CurrentInv'
  <2>1. /\ UNCHANGED <<registered, bound, cache, todo, cur, sawFault, stale, left>>
        /\ phase = "poll" /\ phase' = "refresh" /\ cur \in Instances
    BY <1>8 DEF PollFaulted, PollReadsAll, PollFails, PollDrains, manager, adapter, TypeOK
  <2>2. /\ \A i \in Instances : i # cur => data'[i] = data[i] /\ conn'[i] = conn[i]
        /\ conn'[cur] \in {conn[cur], "Faulted"}
    BY <1>8, <2>1 DEF PollFaulted, PollReadsAll, PollFails, PollDrains, adapter, TypeOK
  <2>3. \A i \in Instances : i # cur /\ VisitDone(i) => VisitDone(i)'
    BY <2>1, <2>2, DoneStaysDone DEF Listed
  <2>4. VisitUnderWay'
    BY <2>1, <2>2 DEF CurrentInv, VisitUnderWay
  <2> QED BY <2>1, <2>3, <2>4 DEF CurrentInv, TypeOK
<1>9. ASSUME BeginUpdate
      PROVE  CurrentInv'
  <2>1. /\ UNCHANGED <<registered, conn, bound, data, todo>>
        /\ phase = "refresh" /\ cur \in registered /\ cache' = Pruned(cur)
    BY <1>9 DEF BeginUpdate, manager, adapter
  <2>2. \A i \in Instances : VisitDone(i) => VisitDone(i)'
    BY <2>1, DoneStaysDone DEF Pruned, Listed
  <2>3. CASE ToCopy(cur) # {}
    <3>1. phase' = "copy" /\ stale' = IsStale(cur) /\ left' = Listed(cur)
          /\ UNCHANGED <<cur, sawFault>>
      BY <1>9, <2>3 DEF BeginUpdate, ToCopy
    <3>2. VisitUnderWay'
      BY <2>1, <3>1 DEF CurrentInv, VisitUnderWay, IsStale, Listed
    <3> QED BY <2>1, <2>2, <3>1, <3>2 DEF CurrentInv, TypeOK
  <2>4. CASE ToCopy(cur) = {} /\ sawFault
    <3>1. phase' = "mark" /\ UNCHANGED <<cur, sawFault>>
      BY <1>9, <2>4 DEF BeginUpdate, ReturnFromUpdate
    <3>2. VisitUnderWay'
      BY <2>1, <2>4, <3>1 DEF CurrentInv, VisitUnderWay
    <3> QED BY <2>1, <2>2, <3>1, <3>2 DEF CurrentInv, TypeOK
  <2>5. CASE ToCopy(cur) = {} /\ ~sawFault
    <3>1. phase' = "next" /\ cur' = NoInstance
      BY <1>9, <2>5 DEF BeginUpdate, ReturnFromUpdate, ReturnFromVisit
    <3>2. VisitDone(cur)
      BY <2>1, <2>5 DEF CurrentInv, VisitUnderWay, VisitDone, ToCopy
    <3>3. cur \in Instances
      BY <2>1 DEF TypeOK
    <3> QED BY <2>1, <2>2, <3>1, <3>2, <3>3 DEF CurrentInv, TypeOK
  <2> QED BY <2>3, <2>4, <2>5
<1>10. ASSUME NEW e \in EquipmentIds, CopyEquipment(e)
       PROVE  CurrentInv'
  <2>1. /\ UNCHANGED <<registered, conn, bound, data, todo>>
        /\ phase = "copy" /\ cur \in registered /\ e \in Listed(cur) /\ e \in left
        /\ cache' = [cache EXCEPT ![e] = Snapshot(e)] /\ left' = left \ {e}
    BY <1>10 DEF CopyEquipment, ListingInv, manager, adapter
  <2>2. /\ cache'[e] = Snapshot(e)
        /\ \A d \in EquipmentIds : d # e => cache'[d] = cache[d]
    BY <2>1 DEF TypeOK
  <2>3. \A i \in registered \ todo : i # cur => VisitDone(i)'
    <3> TAKE i \in registered \ todo
    <3> SUFFICES ASSUME i # cur PROVE VisitDone(i)'
      OBVIOUS
    <3>1. VisitDone(i) /\ e \notin Listed(i) /\ IdOf[i] # IdOf[cur]
      BY <2>1, ListingExcludes DEF CurrentInv, ListingInv, UniqueIds, ListedExclusive
    <3>2. Listed(i) \subseteq EquipmentIds
      BY MappingAssumption DEF Listed, TypeOK
    <3>3. conn'[i] = "Connected" =>
             \A d \in Listed(i)' : cache'[d] # NoEntry => IsCurrent(i, d)'
      BY <2>1, <2>2, <3>1, <3>2 DEF VisitDone, IsCurrent, Listed
    <3>4. conn'[i] = "Disconnected" => \A d \in EquipmentIds : ~OwnedBy(d, IdOf[i])'
      BY <2>1, <2>2, <3>1 DEF VisitDone, OwnedBy, Snapshot
    <3> QED BY <3>3, <3>4 DEF VisitDone
  <2>4. conn[cur] = "Connected" =>
           \A d \in Listed(cur) \ left' : cache'[d] # NoEntry =>
              cache'[d] = [owner |-> IdOf[cur], comm |-> "Connected", stale |-> FALSE,
                           data |-> data[cur][d]]
    <3> SUFFICES ASSUME conn[cur] = "Connected", NEW d \in Listed(cur) \ left', cache'[d] # NoEntry
                 PROVE  cache'[d] = [owner |-> IdOf[cur], comm |-> "Connected", stale |-> FALSE,
                                     data |-> data[cur][d]]
      OBVIOUS
    <3>1. d \in EquipmentIds
      BY <2>1, MappingAssumption DEF Listed, TypeOK
    <3>2. VisitUnderWay
      BY <2>1 DEF CurrentInv
    <3>3. CASE d = e
      BY <2>1, <2>2, <3>2, <3>3 DEF VisitUnderWay, Snapshot, TypeOK
    <3>4. CASE d # e
      BY <2>1, <2>2, <3>1, <3>2, <3>4 DEF VisitUnderWay, IsCurrent
    <3> QED BY <3>3, <3>4
  <2>5. CASE UNCHANGED <<phase, cur, sawFault, stale>>
    <3>1. VisitUnderWay'
      BY <2>1, <2>4, <2>5 DEF CurrentInv, VisitUnderWay, IsCurrent, Listed
    <3> QED BY <2>1, <2>3, <2>5, <3>1 DEF CurrentInv
  <2>6. CASE left = {e} /\ sawFault
    <3>1. phase' = "mark" /\ UNCHANGED <<cur, sawFault>>
      BY <1>10, <2>6 DEF CopyEquipment, ReturnFromUpdate
    <3>2. VisitUnderWay'
      BY <2>1, <2>6, <3>1 DEF CurrentInv, VisitUnderWay
    <3> QED BY <2>1, <2>3, <3>1, <3>2 DEF CurrentInv
  <2>7. CASE left = {e} /\ ~sawFault
    <3>1. phase' = "next" /\ cur' = NoInstance
      BY <1>10, <2>7 DEF CopyEquipment, ReturnFromUpdate, ReturnFromVisit
    <3>2. conn[cur] # "Disconnected"
      BY <2>1 DEF CurrentInv, VisitUnderWay
    <3>3. \A i \in registered \ todo : i = cur => VisitDone(i)'
      BY <2>1, <2>4, <2>7, <3>2 DEF VisitDone, IsCurrent, Listed
    <3> QED BY <2>1, <2>3, <3>1, <3>3 DEF CurrentInv
  <2> QED BY <1>10, <2>5, <2>6, <2>7 DEF CopyEquipment
<1>11. ASSUME MarkFaulted
       PROVE  CurrentInv'
  <2>1. /\ UNCHANGED <<registered, conn, bound, data, todo>>
        /\ phase = "mark" /\ cur \in registered /\ cache' = MarkedFaulted(IdOf[cur])
        /\ phase' = "next" /\ cur' = NoInstance
    BY <1>11 DEF MarkFaulted, ReturnFromVisit, manager, adapter
  <2>2. \A i \in registered \ todo : i # cur => VisitDone(i)'
    <3> TAKE i \in registered \ todo
    <3> SUFFICES ASSUME i # cur PROVE VisitDone(i)'
      OBVIOUS
    <3>1. VisitDone(i) /\ IdOf[i] # IdOf[cur]
      BY <2>1 DEF CurrentInv, ListingInv, UniqueIds
    <3>2. Listed(i) \subseteq EquipmentIds
      BY MappingAssumption DEF Listed, TypeOK
    <3>3. \A d \in EquipmentIds : ~OwnedBy(d, IdOf[cur]) => cache'[d] = cache[d]
      BY <2>1 DEF MarkedFaulted
    <3>4. \A d \in EquipmentIds : OwnedBy(d, IdOf[cur]) =>
             cache[d] # NoEntry /\ cache[d].owner = IdOf[cur] /\ cache'[d].owner = IdOf[cur]
      BY <2>1 DEF MarkedFaulted, OwnedBy, TypeOK, Snapshots
    <3>5. conn'[i] = "Connected" =>
             \A d \in Listed(i)' : cache'[d] # NoEntry => IsCurrent(i, d)'
      BY <2>1, <3>1, <3>2, <3>3, <3>4 DEF VisitDone, IsCurrent, Listed
    <3>6. conn'[i] = "Disconnected" => \A d \in EquipmentIds : ~OwnedBy(d, IdOf[i])'
      BY <2>1, <3>1, <3>3, <3>4 DEF VisitDone, OwnedBy
    <3> QED BY <3>5, <3>6 DEF VisitDone
  <2>3. conn[cur] = "Faulted"
    BY <2>1 DEF CurrentInv, VisitUnderWay, TypeOK, ConnStates
  <2>4. \A i \in registered \ todo : conn[i] = "Faulted" => VisitDone(i)'
    BY <2>1 DEF VisitDone
  <2> QED BY <2>1, <2>2, <2>3, <2>4 DEF CurrentInv
<1>12. CASE UNCHANGED vars
  BY <1>12 DEF vars, CurrentInv, VisitDone, VisitUnderWay, IsCurrent, OwnedBy, Listed
<1> QED
  BY <1>1, <1>2, <1>3, <1>4, <1>5, <1>6, <1>7, <1>8, <1>9, <1>10, <1>11, <1>12
  DEF Next, Manage, Client, PollStep

\* Then, too, what a pass has shown of an adapter is what the adapter holds until the
\* pass ends, whoever is visited after it.
THEOREM VisitedAdaptersAreCurrent == ASSUME Apart PROVE Spec => []VisitedIsCurrent
<1>1. Init => CurrentInv
  BY DEF Init, CurrentInv
<1>2. TypeOK /\ TypeOK' /\ OwnershipInv /\ ListingInv /\ CurrentInv /\ [Next]_vars => CurrentInv'
  BY CurrentStep
<1>3. TypeOK /\ CurrentInv => VisitedIsCurrent
  BY NoneAssumption DEF CurrentInv, VisitedIsCurrent, VisitDone, IsCurrent, TypeOK
<1> QED BY <1>1, <1>2, <1>3, TypeCorrect, Owned, ListingAlways, PTL DEF Spec

-------------------------------------------------------------------------------
(* Adapters whose equipment outlives a fault.                              *)

\* Only request/reply adapters bind anew when they reconnect: of the others a fault
\* costs no equipment and no value that was ever received.
THEOREM LastKnownIsKept == Spec => KeepsLastKnown
<1> DEFINE Kept == \A i \in Instances :
               Kind[i] # "reqrep" /\ conn[i] = "Faulted" /\ conn'[i] # "Disconnected" =>
                   \A e \in Listed(i) :
                       /\ e \in Listed(i)'
                       /\ data[i][e] # "never" => data'[i][e] # "never"
<1>1. ASSUME TypeOK, [Next]_vars
      PROVE  [Kept]_vars
  <2> SUFFICES ASSUME NEW i \in Instances, Kind[i] # "reqrep",
                      conn[i] = "Faulted", conn'[i] # "Disconnected"
               PROVE  (i \in bound => i \in bound') /\ (i \in bound => data'[i] = data[i])
    BY DEF Listed
  <2>1. ASSUME NEW S \in SUBSET Instances, DisconnectEach(S)
        PROVE  i \in bound => i \in bound' /\ data'[i] = data[i]
    BY <1>1, <2>1 DEF DisconnectEach, TypeOK
  <2>2. ASSUME NEW j \in Instances, ConnectOk(j) \/ SubscribeFails(j)
        PROVE  i \in bound => i \in bound' /\ data'[i] = data[i]
    <3>1. CASE DisconnectEach({j})
      BY <2>1, <3>1
    <3>2. CASE Bind(j) /\ j # i
      BY <1>1, <3>2 DEF Bind, TypeOK
    <3>3. CASE Bind(j) /\ j = i
      <4>1. Kind[i] = "mqtt"
        BY <2>2, <3>3 DEF ConnectOk, SubscribeFails
      <4> QED BY <1>1, <3>3, <4>1 DEF Bind, Rebinds, TypeOK
    <3> QED BY <2>2, <3>1, <3>2, <3>3 DEF ConnectOk, SubscribeFails
  <2>3. ASSUME \/ \E j \in Instances : \/ DisconnectAdapter(j) \/ FinishRemove(j)
                                        \/ ClearCommunicationFailure(j)
               \/ DisconnectAll
        PROVE  i \in bound => i \in bound' /\ data'[i] = data[i]
    BY <1>1, <2>1, <2>3
    DEF DisconnectAdapter, FinishRemove, ClearCommunicationFailure, DisconnectAll, TypeOK
  <2>4. CASE PollReadsAll \/ PollFails \/ PollDrains
    <3>1. cur # i /\ bound' = bound
      BY <2>4 DEF PollReadsAll, PollFails, PollDrains
    <3> QED BY <1>1, <2>4, <3>1 DEF PollReadsAll, PollFails, PollDrains, TypeOK
  <2>5. CASE UNCHANGED <<bound, data>>
    BY <2>5
  <2>6. ASSUME NEW j \in Instances,
               \/ AddAdapter(j) \/ RemoveAdapter(j) \/ ConnectFails(j)
               \/ CommunicationFailure(j)
               \/ VisitDisconnected(j) \/ VisitConnected(j) \/ VisitFaulted(j)
        PROVE  UNCHANGED <<bound, data>>
    BY <2>6 DEF AddAdapter, RemoveAdapter, ConnectFails, CommunicationFailure,
        VisitDisconnected, VisitConnected, VisitFaulted, adapter
  <2>7. ASSUME NEW e \in EquipmentIds, CopyEquipment(e)
        PROVE  UNCHANGED <<bound, data>>
    BY <2>7 DEF CopyEquipment, adapter
  <2>8. ASSUME ClearCache \/ BeginPass \/ EndPass \/ PollFaulted \/ BeginUpdate \/ MarkFaulted
        PROVE  UNCHANGED <<bound, data>>
    BY <2>8 DEF ClearCache, BeginPass, EndPass, PollFaulted, BeginUpdate, MarkFaulted, adapter
  <2>9. CASE UNCHANGED vars
    BY <2>9 DEF vars
  <2> QED
    BY <1>1, <2>2, <2>3, <2>4, <2>5, <2>6, <2>7, <2>8, <2>9 DEF Next, Manage, Client, PollStep
<1> QED BY <1>1, TypeCorrect, PTL DEF Spec, KeepsLastKnown, Kept

-------------------------------------------------------------------------------
(* A pass comes to its end.                                                *)

\* Where a pass is, counted from its end.
Rank == [idle |-> 0, next |-> 1, mark |-> 2, copy |-> 3, refresh |-> 4, poll |-> 5]

Shrinks(S, T) == T \subseteq S /\ T # S

\* Every step of a pass has fewer adapters to visit, or is further in the visit, or
\* has less equipment to copy; and whatever others do meanwhile gives it no more to
\* do.  (So a pass is over after at most |registered| * (|EquipmentIds| + 4) + 1
\* steps of its own.)
PassAdvances ==
    [][phase # "idle" =>
         \/ UNCHANGED poller
         \/ Shrinks(todo, todo')
         \/ todo' = todo /\ Rank[phase'] < Rank[phase]
         \/ UNCHANGED <<todo, phase>> /\ Shrinks(left, left')]_vars

\* A poll pass comes to its end whatever faults, commands and readers of the cache do
\* meanwhile (pollAdapterLocked, forEachAdapter).
THEOREM PassesAdvance == Spec => PassAdvances
<1> DEFINE Advances == \/ UNCHANGED poller
                       \/ Shrinks(todo, todo')
                       \/ todo' = todo /\ Rank[phase'] < Rank[phase]
                       \/ UNCHANGED <<todo, phase>> /\ Shrinks(left, left')
<1>1. ASSUME TypeOK, [Next]_vars, phase # "idle"
      PROVE  Advances \/ UNCHANGED vars
  <2>1. CASE Manage
    BY <1>1, <2>1
    DEF Manage, AddAdapter, RemoveAdapter, ConnectOk, ConnectFails, SubscribeFails,
        DisconnectAdapter, ClearCommunicationFailure, DisconnectAll, MutexFree
  <2>2. CASE ClearCache \/ \E i \in Instances : FinishRemove(i) \/ CommunicationFailure(i)
    BY <2>2 DEF ClearCache, FinishRemove, CommunicationFailure
  <2>3. ASSUME NEW i \in Instances,
               VisitDisconnected(i) \/ VisitConnected(i) \/ VisitFaulted(i)
        PROVE  Shrinks(todo, todo')
    BY <2>3 DEF VisitDisconnected, VisitConnected, VisitFaulted, Shrinks
  <2>4. CASE PollFaulted \/ PollReadsAll \/ PollFails \/ PollDrains
    BY <2>4 DEF PollFaulted, PollReadsAll, PollFails, PollDrains, Rank
  <2>5. CASE BeginUpdate
    BY <2>5 DEF BeginUpdate, ReturnFromUpdate, ReturnFromVisit, Rank
  <2>6. ASSUME NEW e \in EquipmentIds, CopyEquipment(e)
        PROVE  Advances
    BY <2>6 DEF CopyEquipment, ReturnFromUpdate, ReturnFromVisit, Rank, Shrinks
  <2>7. CASE MarkFaulted \/ EndPass
    BY <2>7 DEF MarkFaulted, EndPass, ReturnFromVisit, Rank
  <2>8. ~BeginPass
    BY <1>1 DEF BeginPass
  <2> QED BY <1>1, <2>1, <2>2, <2>3, <2>4, <2>5, <2>6, <2>7, <2>8 DEF Next, Client, PollStep
<1> QED BY <1>1, TypeCorrect, PTL DEF Spec, PassAdvances, Advances

\* While the copy loop runs it has equipment to copy, and only equipment that the
\* adapter still lists: of the loops of a pass it is the one that could come to a
\* stop with nothing to do, or copy what has been destroyed.
CopyHasWork == phase = "copy" => left # {} /\ left \subseteq Listed(cur)

\* updateFromAdapter copies only equipment that is there, and returns with the last.
THEOREM CopiesHaveWork == Spec => []CopyHasWork
<1> DEFINE HasWork == phase = "copy" => left # {}
<1>1. Init => HasWork
  BY DEF Init
<1>2. ASSUME HasWork, [Next]_vars
      PROVE  HasWork'
  <2>1. CASE UNCHANGED poller
    BY <1>2, <2>1 DEF poller
  <2>2. CASE Manage \/ ClearCache \/ \E i \in Instances : FinishRemove(i) \/ CommunicationFailure(i)
    BY <2>1, <2>2
    DEF Manage, AddAdapter, RemoveAdapter, ConnectOk, ConnectFails, SubscribeFails,
        DisconnectAdapter, ClearCommunicationFailure, DisconnectAll, ClearCache,
        FinishRemove, CommunicationFailure
  <2>3. ASSUME NEW i \in Instances,
               VisitDisconnected(i) \/ VisitConnected(i) \/ VisitFaulted(i)
        PROVE  HasWork'
    BY <2>3 DEF VisitDisconnected, VisitConnected, VisitFaulted
  <2>4. CASE PollFaulted \/ PollReadsAll \/ PollFails \/ PollDrains
    BY <2>4 DEF PollFaulted, PollReadsAll, PollFails, PollDrains
  <2>5. CASE BeginUpdate
    BY <2>5 DEF BeginUpdate, ReturnFromUpdate, ReturnFromVisit
  <2>6. ASSUME NEW e \in EquipmentIds, CopyEquipment(e)
        PROVE  HasWork'
    BY <2>6 DEF CopyEquipment, ReturnFromUpdate, ReturnFromVisit
  <2>7. CASE MarkFaulted \/ BeginPass \/ EndPass
    BY <2>7 DEF MarkFaulted, BeginPass, EndPass, ReturnFromVisit
  <2>8. CASE UNCHANGED vars
    BY <2>1, <2>8 DEF vars, poller
  <2> QED
    BY <1>2, <2>2, <2>3, <2>4, <2>5, <2>6, <2>7, <2>8 DEF Next, Client, PollStep
<1>3. HasWork /\ ListingInv => CopyHasWork
  BY DEF CopyHasWork, ListingInv
<1> QED BY <1>1, <1>2, <1>3, ListingAlways, PTL DEF Spec

-------------------------------------------------------------------------------
(* What the entries of the cache stand for.                                *)

Configured(a, e) == \E i \in Instances : IdOf[i] = a /\ e \in Mapping[i]

\* Every snapshot is under an equipment id that the adapter it names is configured
\* with.
CachedIsMapped ==
    \A e \in EquipmentIds : cache[e] # NoEntry => Configured(cache[e].owner, e)

\* A snapshot is written or marked only while its adapter is registered; an adapter
\* that is removed is heard of no more.
WrittenByRegistered ==
    [][\A e \in EquipmentIds :
          cache'[e] \notin {cache[e], NoEntry} =>
              \E i \in registered : IdOf[i] = cache'[e].owner]_vars

\* How a step changes the cache: it drops entries, or the visit under way copies
\* equipment of its adapter or marks its entries.
LEMMA CacheChanges ==
    ASSUME TypeOK, OwnershipInv, ListingInv, [Next]_vars, NEW e \in EquipmentIds,
           cache'[e] \notin {cache[e], NoEntry}
    PROVE  /\ cur \in registered /\ cache'[e].owner = IdOf[cur]
           /\ e \in Mapping[cur] \/ (cache[e] # NoEntry /\ cache[e].owner = IdOf[cur])
<1> USE DEF OwnershipInv, VisitIsOwned
<1>1. ASSUME NEW d \in EquipmentIds, CopyEquipment(d)
      PROVE  /\ cur \in registered /\ cache'[e].owner = IdOf[cur]
             /\ e \in Mapping[cur]
  <2>1. d = e /\ cache'[e] = Snapshot(e) /\ cur \in registered /\ e \in Listed(cur)
    BY <1>1 DEF CopyEquipment, ListingInv, TypeOK
  <2> QED BY <2>1 DEF Snapshot, Listed
<1>2. ASSUME MarkFaulted
      PROVE  /\ cur \in registered /\ cache'[e].owner = IdOf[cur]
             /\ cache[e] # NoEntry /\ cache[e].owner = IdOf[cur]
  <2>1. /\ cur \in registered /\ OwnedBy(e, IdOf[cur])
        /\ cache'[e] = [cache[e] EXCEPT !.comm = "Faulted", !.stale = TRUE]
    BY <1>2 DEF MarkFaulted, MarkedFaulted
  <2>2. cache[e] \in Snapshots
    BY <2>1 DEF OwnedBy, TypeOK
  <2> QED BY <2>1, <2>2 DEF OwnedBy, Snapshots
<1>3. ~\E i \in Instances : VisitDisconnected(i)
  BY DEF VisitDisconnected, WithoutOwner
<1>4. ~BeginUpdate /\ ~ClearCache
  BY DEF BeginUpdate, Pruned, ClearCache
<1>5. cache' # cache
  OBVIOUS
<1>6. ~Manage
  BY <1>5
  DEF Manage, AddAdapter, RemoveAdapter, ConnectOk, ConnectFails, SubscribeFails,
      DisconnectAdapter, ClearCommunicationFailure, DisconnectAll
<1>7. ~\E i \in Instances :
          FinishRemove(i) \/ CommunicationFailure(i) \/ VisitConnected(i) \/ VisitFaulted(i)
  BY <1>5 DEF FinishRemove, CommunicationFailure, VisitConnected, VisitFaulted
<1>8. ~(BeginPass \/ EndPass \/ PollFaulted \/ PollReadsAll \/ PollFails \/ PollDrains)
  BY <1>5 DEF BeginPass, EndPass, PollFaulted, PollReadsAll, PollFails, PollDrains
<1>9. ~UNCHANGED vars
  BY <1>5 DEF vars
<1> QED BY <1>1, <1>2, <1>3, <1>4, <1>6, <1>7, <1>8, <1>9 DEF Next, Client, PollStep

\* The cache names no adapter for equipment that none of its id is configured with,
\* also after replacements and removals (updateFromAdapter, removeAdapterEquipment).
THEOREM CachedEquipmentIsMapped == Spec => []CachedIsMapped
<1>1. Init => CachedIsMapped
  BY DEF Init, CachedIsMapped
<1>2. ASSUME TypeOK, OwnershipInv, ListingInv, CachedIsMapped, [Next]_vars
      PROVE  CachedIsMapped'
  <2> SUFFICES ASSUME NEW e \in EquipmentIds, cache'[e] # NoEntry
               PROVE  Configured(cache'[e].owner, e)
    BY DEF CachedIsMapped, Configured
  <2>1. CASE cache'[e] = cache[e]
    BY <1>2, <2>1 DEF CachedIsMapped
  <2>2. CASE cache'[e] # cache[e]
    <3>1. /\ cur \in Instances /\ cache'[e].owner = IdOf[cur]
          /\ e \in Mapping[cur] \/ (cache[e] # NoEntry /\ cache[e].owner = IdOf[cur])
      BY <1>2, <2>2, CacheChanges DEF TypeOK
    <3> QED BY <1>2, <3>1 DEF CachedIsMapped, Configured
  <2> QED BY <2>1, <2>2
<1> QED BY <1>1, <1>2, TypeCorrect, Owned, ListingAlways, PTL DEF Spec

\* An adapter that is being removed writes and marks no snapshot any more
\* (removeAdapter takes the mutex that a pass holds).
THEOREM SnapshotsAreWrittenByRegistered == Spec => WrittenByRegistered
<1> DEFINE ByRegistered == \A e \in EquipmentIds :
               cache'[e] \notin {cache[e], NoEntry} =>
                   \E i \in registered : IdOf[i] = cache'[e].owner
<1>1. ASSUME TypeOK, OwnershipInv, ListingInv, [Next]_vars
      PROVE  ByRegistered
  BY <1>1, CacheChanges
<1> QED
  BY <1>1, TypeCorrect, Owned, ListingAlways, PTL DEF Spec, WrittenByRegistered, ByRegistered

-------------------------------------------------------------------------------
(* The runtime and the adapter contract.  The adapters are separate        *)
(* modules, which rely on their user to connect, poll and disconnect one   *)
(* call at a time; here is that user.                                      *)

HasEquipment(i) == i \in bound /\ Mapping[i] # {}

\* What the values of an adapter's equipment amount to.
DataOf(i) == IF \A e \in Mapping[i] : data[i][e] = "never" THEN "never"
             ELSE IF \A e \in Mapping[i] : data[i][e] = "complete" THEN "complete"
             ELSE "torn"

UnderPoll(i) == phase = "poll" /\ cur = i /\ HasEquipment(i)

ShownOf(i) == IF Kind[i] = "mock" THEN "complete" ELSE "never"

Contract(i) == INSTANCE AdapterContract
                  WITH conn <- conn[i], bound <- HasEquipment(i), data <- DataOf(i),
                       polling <- UnderPoll(i), BoundShows <- ShownOf(i)

\* A Connected adapter that is polled has its equipment bound, and the adapter that
\* the pass polls is not disconnected before the poll is over.
BoundInv ==
    /\ \A i \in Instances : Polled(i) /\ conn[i] = "Connected" => i \in bound
    /\ \A i \in Instances : Polled(i) /\ i \in bound => conn[i] # "Disconnected"
    /\ phase = "poll" => conn[cur] # "Disconnected"
    /\ phase = "poll" /\ Polled(cur) => cur \in bound

LEMMA BoundDisconnect ==
    ASSUME TypeOK, BoundInv, NEW S \in SUBSET Instances, DisconnectEach(S),
           phase' = phase, cur' = cur, phase = "poll" => cur \in Instances \ S
    PROVE  BoundInv'
  BY DEF TypeOK, BoundInv, DisconnectEach, Polled

LEMMA BoundStep ==
    ASSUME TypeOK, OwnershipInv, BoundInv, [Next]_vars
    PROVE  BoundInv'
<1> USE DEF OwnershipInv, VisitIsOwned
<1>1. CASE Manage
  <2>1. MutexFree /\ UNCHANGED poller
    BY <1>1 DEF Manage, AddAdapter, RemoveAdapter, ConnectOk, ConnectFails, SubscribeFails,
                DisconnectAdapter, ClearCommunicationFailure, DisconnectAll
  <2>2. ASSUME NEW S \in SUBSET Instances, DisconnectEach(S)
        PROVE  BoundInv'
    BY <2>1, <2>2, BoundDisconnect DEF MutexFree, poller
  <2>3. ASSUME NEW i \in Instances, Bind(i), conn' = [conn EXCEPT ![i] = "Connected"]
        PROVE  BoundInv'
    BY <2>1, <2>3 DEF Bind, BoundInv, TypeOK, MutexFree, poller
  <2>4. ASSUME NEW i \in Instances, AddAdapter(i) \/ RemoveAdapter(i) \/ ConnectFails(i)
        PROVE  BoundInv'
    BY <2>1, <2>4
    DEF AddAdapter, RemoveAdapter, ConnectFails, adapter, BoundInv, TypeOK, MutexFree, poller
  <2>5. ASSUME NEW i \in Instances, SubscribeFails(i)
        PROVE  BoundInv'
    BY <2>1, <2>5 DEF SubscribeFails, Bind, BoundInv, Polled, TypeOK, MutexFree, poller
  <2>6. ASSUME NEW i \in Instances, ConnectOk(i)
        PROVE  BoundInv'
    BY <2>2, <2>3, <2>6 DEF ConnectOk
  <2>7. ASSUME \/ DisconnectAll
               \/ \E i \in Instances : DisconnectAdapter(i) \/ ClearCommunicationFailure(i)
        PROVE  BoundInv'
    BY <2>2, <2>7 DEF DisconnectAdapter, ClearCommunicationFailure, DisconnectAll, TypeOK
  <2> QED BY <1>1, <2>4, <2>5, <2>6, <2>7 DEF Manage
<1>2. ASSUME NEW i \in Instances, FinishRemove(i)
      PROVE  BoundInv'
  BY <1>2, BoundDisconnect DEF FinishRemove, poller, TypeOK
<1>3. ASSUME NEW i \in Instances, CommunicationFailure(i)
      PROVE  BoundInv'
  BY <1>3 DEF CommunicationFailure, BoundInv, TypeOK, poller
<1>4. ASSUME NEW i \in Instances, VisitConnected(i)
      PROVE  BoundInv'
  BY <1>4 DEF VisitConnected, BoundInv, adapter
<1>5. CASE PollFaulted \/ PollReadsAll \/ PollFails \/ PollDrains
  <2>1. phase' = "refresh" /\ UNCHANGED bound /\ cur \in Instances
    BY <1>5 DEF PollFaulted, PollReadsAll, PollFails, PollDrains, adapter, TypeOK
  <2>2. \A i \in Instances : conn'[i] = conn[i] \/ (conn[i] = "Connected" /\ conn'[i] = "Faulted")
    BY <1>5, <2>1 DEF PollFaulted, PollReadsAll, PollFails, PollDrains, adapter, TypeOK
  <2> QED BY <2>1, <2>2 DEF BoundInv
<1>6. ASSUME UNCHANGED <<conn, bound>>, phase' # "poll" \/ UNCHANGED <<phase, cur>>
      PROVE  BoundInv'
  BY <1>6 DEF BoundInv
<1>7. ASSUME NEW i \in Instances, VisitDisconnected(i) \/ VisitFaulted(i)
      PROVE  BoundInv'
  BY <1>6, <1>7 DEF VisitDisconnected, VisitFaulted, adapter
<1>8. ASSUME \/ ClearCache \/ BeginPass \/ EndPass \/ MarkFaulted \/ BeginUpdate
             \/ \E e \in EquipmentIds : CopyEquipment(e)
             \/ UNCHANGED vars
      PROVE  BoundInv'
  BY <1>6, <1>8
  DEF ClearCache, BeginPass, EndPass, MarkFaulted, BeginUpdate, CopyEquipment,
      ReturnFromUpdate, ReturnFromVisit, adapter, poller, vars
<1> QED
  BY <1>1, <1>2, <1>3, <1>4, <1>5, <1>7, <1>8 DEF Next, Client, PollStep

\* What the contract can see of adapter i.
ContractKept(i) == UNCHANGED <<conn[i], HasEquipment(i), DataOf(i), UnderPoll(i)>>

LEMMA KeptWhenUnchanged ==
    ASSUME NEW i \in Instances, conn'[i] = conn[i], data'[i] = data[i],
           i \in bound' <=> i \in bound,
           (phase' = "poll" /\ cur' = i) <=> (phase = "poll" /\ cur = i)
    PROVE  ContractKept(i)
  BY DEF ContractKept, HasEquipment, DataOf, UnderPoll

\* An adapter is disconnected between polls.
LEMMA DisconnectIsContract ==
    ASSUME TypeOK, NEW i \in Instances, Polled(i), NEW S \in SUBSET Instances, DisconnectEach(S),
           UNCHANGED poller, i \in S => ~UnderPoll(i)
    PROVE  Contract(i)!Disconnect \/ ContractKept(i)
<1>1. CASE i \in S
  <2>1. conn'[i] = "Disconnected" /\ i \notin bound' /\ data'[i] = NoData
    BY <1>1 DEF DisconnectEach, Polled
  <2>2. DataOf(i)' = "never"
    BY <2>1, MappingAssumption DEF DataOf, NoData
  <2> QED BY <1>1, <2>1, <2>2 DEF Contract!Disconnect, HasEquipment, UnderPoll, poller
<1>2. CASE i \notin S
  BY <1>2, KeptWhenUnchanged DEF DisconnectEach, poller
<1> QED BY <1>1, <1>2

LEMMA ConnectIsContract ==
    ASSUME TypeOK, NEW i \in Instances, Polled(i), NEW j \in Instances, Bind(j),
           conn' = [conn EXCEPT ![j] = "Connected"], conn[j] # "Connected",
           phase = "idle", UNCHANGED poller
    PROVE  Contract(i)!Connect \/ ContractKept(i)
<1>1. CASE i = j
  <2>1. conn'[i] = "Connected" /\ i \in bound' /\ data'[i] = BoundData(i)
    BY <1>1 DEF Bind, Rebinds, Polled, TypeOK
  <2>2. DataOf(i)' = IF HasEquipment(i)' THEN ShownOf(i) ELSE "never"
    <3>1. Mapping[i] \subseteq EquipmentIds
      BY MappingAssumption
    <3>2. CASE Kind[i] = "mock"
      BY <2>1, <3>1, <3>2 DEF DataOf, HasEquipment, ShownOf, BoundData
    <3>3. CASE Kind[i] # "mock"
      BY <2>1, <3>1, <3>3 DEF DataOf, HasEquipment, ShownOf, BoundData, NoData
    <3> QED BY <3>2, <3>3
  <2> QED BY <1>1, <2>1, <2>2 DEF Contract!Connect, HasEquipment, UnderPoll, poller
<1>2. CASE i # j
  BY <1>2, KeptWhenUnchanged DEF Bind, TypeOK, poller
<1> QED BY <1>1, <1>2

\* The mutex keeps every operation of the manager out of a pass.
LEMMA ManageIsContract ==
    ASSUME TypeOK, NEW i \in Instances, Polled(i), Manage
    PROVE  Contract(i)!Next \/ ContractKept(i)
<1>1. phase = "idle" /\ UNCHANGED poller /\ ~UnderPoll(i)
  BY DEF Manage, AddAdapter, RemoveAdapter, ConnectOk, ConnectFails, SubscribeFails,
         DisconnectAdapter, ClearCommunicationFailure, DisconnectAll, MutexFree, UnderPoll
<1>2. ASSUME NEW S \in SUBSET Instances, DisconnectEach(S)
      PROVE  Contract(i)!Next \/ ContractKept(i)
  BY <1>1, <1>2, DisconnectIsContract DEF Contract!Next
<1>3. ASSUME NEW j \in Instances, ConnectOk(j)
      PROVE  Contract(i)!Next \/ ContractKept(i)
  <2>1. CASE Bind(j) /\ conn' = [conn EXCEPT ![j] = "Connected"]
    BY <1>1, <1>3, <2>1, ConnectIsContract DEF ConnectOk, Contract!Next
  <2> QED BY <1>2, <1>3, <2>1 DEF ConnectOk
<1>4. ASSUME NEW j \in Instances, AddAdapter(j) \/ RemoveAdapter(j)
      PROVE  ContractKept(i)
  BY <1>1, <1>4, KeptWhenUnchanged DEF AddAdapter, RemoveAdapter, adapter, poller
<1>5. ASSUME NEW j \in Instances, ConnectFails(j)
      PROVE  Contract(i)!Next \/ ContractKept(i)
  <2>1. CASE i = j
    <3>1. conn'[i] = "Faulted" /\ UNCHANGED <<HasEquipment(i), DataOf(i), UnderPoll(i)>>
      BY <1>1, <1>5, <2>1
      DEF ConnectFails, TypeOK, HasEquipment, DataOf, UnderPoll, poller
    <3> QED BY <1>1, <1>5, <2>1, <3>1 DEF ConnectFails, Contract!ConnectFails, Contract!Next
  <2>2. CASE i # j
    BY <1>1, <1>5, <2>2, KeptWhenUnchanged DEF ConnectFails, TypeOK, poller
  <2> QED BY <2>1, <2>2
<1>6. ASSUME NEW j \in Instances, SubscribeFails(j)
      PROVE  ContractKept(i)
  <2>1. i # j
    BY <1>6 DEF SubscribeFails, Polled
  <2> QED BY <1>1, <1>6, <2>1, KeptWhenUnchanged DEF SubscribeFails, Bind, TypeOK, poller
<1>7. ASSUME \/ DisconnectAll
             \/ \E j \in Instances : DisconnectAdapter(j) \/ ClearCommunicationFailure(j)
      PROVE  Contract(i)!Next \/ ContractKept(i)
  BY <1>2, <1>7 DEF DisconnectAdapter, ClearCommunicationFailure, DisconnectAll, TypeOK
<1> QED BY <1>3, <1>4, <1>5, <1>6, <1>7 DEF Manage

\* The poll of a pass: it begins with the visit to a Connected adapter.
LEMMA PollIsContract ==
    ASSUME TypeOK, OwnershipInv, BoundInv, NEW i \in Instances, Polled(i),
           \/ \E j \in Instances : VisitConnected(j)
           \/ PollFaulted \/ PollReadsAll \/ PollFails \/ PollDrains
    PROVE  Contract(i)!Next \/ ContractKept(i)
<1> USE DEF OwnershipInv, VisitIsOwned
<1>1. ASSUME NEW j \in Instances, VisitConnected(j)
      PROVE  Contract(i)!Next \/ ContractKept(i)
  <2>1. CASE i = j /\ Mapping[i] # {}
    <3>1. /\ conn[i] = "Connected" /\ i \in bound
          /\ phase = "next" /\ phase' = "poll" /\ cur' = i
          /\ UNCHANGED <<conn, bound, data>>
      BY <1>1, <2>1 DEF VisitConnected, BoundInv, adapter
    <3>2. UNCHANGED <<HasEquipment(i), DataOf(i)>>
      BY <3>1 DEF HasEquipment, DataOf
    <3> QED BY <2>1, <3>1, <3>2 DEF Contract!BeginPoll, Contract!Next, UnderPoll, HasEquipment
  <2>2. CASE i # j \/ Mapping[i] = {}
    BY <1>1, <2>2 DEF VisitConnected, adapter, ContractKept, HasEquipment, DataOf, UnderPoll
  <2> QED BY <2>1, <2>2
<1>2. ASSUME PollFaulted \/ PollReadsAll \/ PollFails \/ PollDrains
      PROVE  Contract(i)!Next \/ ContractKept(i)
  <2>1. /\ phase = "poll" /\ phase' = "refresh" /\ cur' = cur /\ bound' = bound
        /\ cur \in Instances /\ conn[cur] # "Disconnected"
    <3>1. phase = "poll" /\ phase' = "refresh" /\ cur' = cur /\ bound' = bound
      BY <1>2 DEF PollFaulted, PollReadsAll, PollFails, PollDrains, adapter
    <3>2. cur \in Instances
      BY <3>1 DEF TypeOK
    <3> QED BY <3>1, <3>2 DEF BoundInv
  <2>2. CASE cur # i
    BY <1>2, <2>1, <2>2, KeptWhenUnchanged
    DEF PollFaulted, PollReadsAll, PollFails, PollDrains, adapter, TypeOK
  <2>3. CASE cur = i
    <3>1. i \in bound
      BY <2>1, <2>3 DEF BoundInv
    <3>2. Mapping[i] \subseteq EquipmentIds
      BY MappingAssumption
    <3>3. CASE Mapping[i] = {}
      <4>1. DataOf(i) = "never" /\ DataOf(i)' = "never"
        BY <3>3 DEF DataOf
      <4>2. CASE conn'[i] = conn[i]
        BY <3>3, <4>1, <4>2 DEF ContractKept, HasEquipment, UnderPoll
      <4> QED
        BY <1>2, <2>3, <3>3, <4>2
        DEF PollFaulted, PollReadsAll, PollFails, PollDrains, adapter, Polled
    <3>4. CASE PollFaulted /\ Mapping[i] # {}
      <4>1. conn'[i] = "Faulted" /\ DataOf(i)' = DataOf(i)
        BY <2>1, <2>3, <3>4 DEF PollFaulted, adapter, DataOf, TypeOK, ConnStates
      <4> QED
        BY <2>1, <2>3, <3>1, <3>4, <4>1
        DEF Contract!PollFails, Contract!Next, HasEquipment, UnderPoll
    <3>5. CASE PollReadsAll /\ Mapping[i] # {}
      <4>1. conn'[i] = conn[i] /\ DataOf(i)' = "complete"
        BY <2>1, <2>3, <3>2, <3>5 DEF PollReadsAll, DataOf, TypeOK
      <4> QED
        BY <2>1, <2>3, <3>1, <3>5, <4>1
        DEF Contract!PollReads, Contract!Next, HasEquipment, UnderPoll
    <3>6. CASE PollFails /\ Mapping[i] # {}
      <4>1. conn'[i] = "Faulted"
        BY <2>1, <2>3, <3>6 DEF PollFails, TypeOK
      <4>2. DataOf(i)' \in {DataOf(i), "torn", "complete"}
        <5>1. PICK failed \in Mapping[cur], before \in SUBSET Mapping[cur], partly \in BOOLEAN :
                 data' = [data EXCEPT ![cur] =
                            [e \in EquipmentIds |->
                                IF e \in before THEN "complete"
                                ELSE IF e = failed /\ partly THEN "torn"
                                ELSE data[cur][e]]]
          BY <3>6, ZenonT(30) DEF PollFails
        <5>2. \A e \in Mapping[i] : data'[i][e] = IF e \in before THEN "complete"
                                                ELSE IF e = failed /\ partly THEN "torn"
                                                ELSE data[i][e]
          <6>1. data'[i] = [e \in EquipmentIds |->
                              IF e \in before THEN "complete"
                              ELSE IF e = failed /\ partly THEN "torn"
                              ELSE data[cur][e]]
            BY <2>3, <5>1 DEF TypeOK
          <6> QED BY <2>3, <3>2, <6>1
        <5>3. (\A e \in Mapping[i] : data'[i][e] = "never")
                 => \A e \in Mapping[i] : data[i][e] = "never"
          BY <5>2
        <5> QED BY <5>3 DEF DataOf
      <4> QED
        BY <2>1, <2>3, <3>1, <3>6, <4>1, <4>2
        DEF Contract!PollFails, Contract!Next, HasEquipment, UnderPoll
    <3> QED BY <1>2, <2>3, <3>3, <3>4, <3>5, <3>6 DEF PollDrains, Polled
  <2> QED BY <2>2, <2>3
<1> QED BY <1>1, <1>2

LEMMA ContractStep ==
    ASSUME TypeOK, OwnershipInv, BoundInv, [Next]_vars, NEW i \in Instances, Polled(i)
    PROVE  [Contract(i)!Next]_(Contract(i)!vars)
<1> SUFFICES Contract(i)!Next \/ ContractKept(i)
  BY DEF Contract!vars, ContractKept
<1> USE DEF OwnershipInv, VisitIsOwned
<1>1. CASE Manage
  BY <1>1, ManageIsContract
<1>2. ASSUME NEW j \in Instances, FinishRemove(j)
      PROVE  Contract(i)!Next \/ ContractKept(i)
  BY <1>2, DisconnectIsContract DEF FinishRemove, UnderPoll, Contract!Next
<1>3. ASSUME NEW j \in Instances, CommunicationFailure(j)
      PROVE  Contract(i)!Next \/ ContractKept(i)
  <2>1. CASE i = j
    <3>1. /\ conn[i] = "Connected" /\ conn'[i] = "Faulted"
          /\ UNCHANGED <<HasEquipment(i), DataOf(i), UnderPoll(i)>>
      BY <1>3, <2>1
      DEF CommunicationFailure, TypeOK, HasEquipment, DataOf, UnderPoll, poller
    <3> QED BY <3>1 DEF Contract!Fault, Contract!Next
  <2>2. CASE i # j
    BY <1>3, <2>2, KeptWhenUnchanged DEF CommunicationFailure, TypeOK, poller
  <2> QED BY <2>1, <2>2
<1>4. CASE \/ \E j \in Instances : VisitConnected(j)
           \/ PollFaulted \/ PollReadsAll \/ PollFails \/ PollDrains
  BY <1>4, PollIsContract
<1>5. ASSUME NEW j \in Instances, VisitDisconnected(j) \/ VisitFaulted(j)
      PROVE  ContractKept(i)
  BY <1>5, KeptWhenUnchanged DEF VisitDisconnected, VisitFaulted, adapter
<1>6. ASSUME NEW e \in EquipmentIds, CopyEquipment(e)
      PROVE  ContractKept(i)
  BY <1>6, KeptWhenUnchanged
  DEF CopyEquipment, ReturnFromUpdate, ReturnFromVisit, adapter
<1>7. ASSUME ClearCache \/ BeginPass \/ EndPass \/ MarkFaulted \/ BeginUpdate \/ UNCHANGED vars
      PROVE  ContractKept(i)
  BY <1>7, KeptWhenUnchanged
  DEF ClearCache, BeginPass, EndPass, MarkFaulted, BeginUpdate, ReturnFromUpdate,
      ReturnFromVisit, adapter, poller, vars
<1> QED BY <1>1, <1>2, <1>3, <1>4, <1>5, <1>6, <1>7 DEF Next, Client, PollStep

\* The runtime uses each request/reply adapter and each mock as the contract has it:
\* it never connects, disconnects or polls one that it is polling, whatever the
\* managing threads, the clients and removals do; and what it takes such an adapter
\* to do is what the contract promises.
THEOREM AdaptersAreUsedByContract ==
    ASSUME NEW i \in Instances, Polled(i)
    PROVE  Spec => Contract(i)!Spec
<1>1. Init => BoundInv
  BY DEF Init, BoundInv, Polled
<1>2. Init => Contract(i)!Init
  BY MappingAssumption DEF Init, Contract!Init, HasEquipment, DataOf, UnderPoll, NoData, Polled
<1>3. TypeOK /\ OwnershipInv /\ BoundInv /\ [Next]_vars => BoundInv'
  BY BoundStep
<1>4. TypeOK /\ OwnershipInv /\ BoundInv /\ [Next]_vars => [Contract(i)!Next]_(Contract(i)!vars)
  BY ContractStep
<1> QED BY <1>1, <1>2, <1>3, <1>4, TypeCorrect, Owned, PTL DEF Spec, Contract!Spec

===============================================================================
