------------------------------ MODULE IcpRuntime ------------------------------
(***************************************************************************)
(* The ICP runtime: the AdapterManager that owns the industrial adapters,  *)
(* the LiveStateCache that consumers read, and the poll pass that          *)
(* PollScheduler runs over the one to fill the other.                      *)
(*                                                                         *)
(* Three parties act.  Managing threads call add / remove / connect /      *)
(* disconnect, each under AdapterManager::mutex_.  The poller holds the    *)
(* same mutex for a whole pass (forEachAdapter).  Client threads execute   *)
(* commands on Equipment pointers WITHOUT the mutex; a failed write puts   *)
(* the adapter in Faulted at any moment, also in the middle of a pass.     *)
(*                                                                         *)
(* Process values are abstracted to where they come from (`data`):         *)
(*   "never"     as bound, no value was ever read;                         *)
(*   "torn"      some, not all, mapped points come from the last reading;  *)
(*   "complete"  every mapped point was read from the device.              *)
(***************************************************************************)
EXTENDS FiniteSets, Naturals

CONSTANTS
    Instances,      \* IndustrialAdapter objects the application creates
    AdapterIds,     \* the strings IndustrialAdapter::id() returns
    EquipmentIds,   \* the strings Equipment::id() returns
    IdOf,           \* the id of each instance
    Mapping,        \* the equipment ids each instance is configured with
    Kind,           \* the adapter family of each instance
    NoInstance,     \* the poller is visiting no adapter
    NoEntry         \* by_id_ has no snapshot under this key

\* "reqrep": OPC UA, Modbus TCP, REST, EtherNet/IP.  "fieldbus": the PROFINET
\* and PROFIBUS scaffolds, whose connect() always fails.
Kinds == {"reqrep", "mqtt", "mock", "fieldbus"}

ASSUME IdOfAssumption    == IdOf \in [Instances -> AdapterIds]
ASSUME MappingAssumption == Mapping \in [Instances -> SUBSET EquipmentIds]
ASSUME KindAssumption    == Kind \in [Instances -> Kinds]
ASSUME NoneAssumption    == NoInstance \notin Instances

VARIABLES
    registered,     \* the instances in AdapterManager::adapters_
    doomed,         \* erased from adapters_, not yet disconnected + destroyed
    conn,           \* connection_state_ of each instance
    bound,          \* the instances whose bound_ vector is populated
    data,           \* where the values held by each bound equipment come from
    cache,          \* LiveStateCache::by_id_
    phase,          \* where the poller is inside pollOnce; "idle" = mutex_ free
    todo,           \* adapters the pass has still to visit
    cur,            \* the adapter being visited
    sawFault,       \* pollAdapterLocked's `state` was Faulted, not Connected
    stale,          \* updateFromAdapter's local `stale`
    left            \* equipment updateFromAdapter has still to copy

manager == <<registered, doomed>>
adapter == <<conn, bound, data>>
poller  == <<phase, todo, cur, sawFault, stale, left>>
vars    == <<registered, doomed, conn, bound, data, cache,
             phase, todo, cur, sawFault, stale, left>>

ConnStates == {"Disconnected", "Connected", "Faulted"}
DataStates == {"never", "torn", "complete"}
Snapshots  == [owner : AdapterIds, comm : ConnStates, stale : BOOLEAN,
               data : DataStates]
Phases     == {"idle", "next", "poll", "refresh", "copy", "mark"}

NoData == [e \in EquipmentIds |-> "never"]

-------------------------------------------------------------------------------
(* The adapter contract, as every adapter class implements it.             *)

\* equipment(): bound_, empty while Disconnected; the fieldbus scaffolds bind
\* at construction and list their equipment in every state.
Listed(i) == IF i \in bound /\ (Kind[i] = "fieldbus" \/ conn[i] # "Disconnected")
             THEN Mapping[i] ELSE {}

\* (Bug: the reconnect of a Faulted MQTT adapter binds anew as the others do.)
RebindsAlways(i) == TRUE

\* MqttIndustrialAdapter::connect keeps the bound equipment of a Faulted
\* adapter; every other adapter binds anew.
Rebinds(i) == ~(Kind[i] = "mqtt" /\ i \in bound /\ conn[i] = "Faulted")

\* What a fresh BoundEquipment holds: the mock copies its source telemetry,
\* the others wait for the first poll.
BoundData(i) == IF Kind[i] = "mock"
                THEN [e \in EquipmentIds |->
                        IF e \in Mapping[i] THEN "complete" ELSE "never"]
                ELSE NoData

\* bindEquipment() of one adapter.
Bind(i) == /\ bound' = bound \cup {i}
           /\ data'  = IF Rebinds(i) THEN [data EXCEPT ![i] = BoundData(i)]
                                     ELSE data

\* disconnect() of the adapters in S.
DisconnectEach(S) ==
    LET cleared == {i \in S : Kind[i] # "fieldbus"}
    IN  /\ conn'  = [i \in Instances |->
                        IF i \in S THEN "Disconnected" ELSE conn[i]]
        /\ bound' = bound \ cleared
        /\ data'  = [i \in Instances |->
                        IF i \in cleared THEN NoData ELSE data[i]]

-------------------------------------------------------------------------------
(* AdapterManager: every operation needs mutex_, which a pass holds.       *)

\* (Bug: the pass runs on a copy of the adapter list, without the mutex.)
NoMutex == TRUE

MutexFree == phase = "idle"

\* addAdapter: ids are unique among the registered adapters.  The adapter is
\* handed over Disconnected; a doomed instance is a different object.
AddAdapter(i) ==
    /\ MutexFree
    /\ i \notin registered \cup doomed
    /\ \A j \in registered : IdOf[j] # IdOf[i]
    /\ registered' = registered \cup {i}
    /\ UNCHANGED <<doomed, adapter, cache, poller>>

\* removeAdapter, first half: erased under the mutex.
RemoveAdapter(i) ==
    /\ MutexFree
    /\ i \in registered
    /\ registered' = registered \ {i}
    /\ doomed' = doomed \cup {i}
    /\ UNCHANGED <<adapter, cache, poller>>

\* removeAdapter, second half: disconnected and destroyed without the mutex.
FinishRemove(i) ==
    /\ i \in doomed
    /\ doomed' = doomed \ {i}
    /\ DisconnectEach({i})
    /\ UNCHANGED <<registered, cache, poller>>

\* (Bug: connect() does not check for collisions.)
NoCheck(i) == FALSE

\* (Bug: only the adapters that are Connected are looked at.)
CollidesWithConnected(i) ==
    \E j \in registered \ {i} :
        conn[j] = "Connected" /\ Mapping[i] \cap Listed(j) # {}

\* checkEquipmentIdCollisions once connect() has bound i's whole mapping:
\* whatever the state of the other adapter, what it lists is in the way.
Collides(i) == \E j \in registered \ {i} : Mapping[i] \cap Listed(j) # {}

\* connectAdapter, connect() succeeded.
ConnectOk(i) ==
    /\ MutexFree
    /\ i \in registered
    /\ \/ Kind[i] \in {"reqrep", "mqtt"} /\ conn[i] # "Connected"
       \/ Kind[i] = "mock" /\ conn[i] = "Disconnected"
    /\ IF Collides(i)
       THEN DisconnectEach({i})
       ELSE Bind(i) /\ conn' = [conn EXCEPT ![i] = "Connected"]
    /\ UNCHANGED <<manager, cache, poller>>

\* connectAdapter, connect() failed before it bound anything: enterFault
\* keeps what an earlier connection bound.
ConnectFails(i) ==
    /\ MutexFree
    /\ i \in registered
    /\ Kind[i] # "mock"
    /\ conn[i] # "Connected"
    /\ conn' = [conn EXCEPT ![i] = "Faulted"]
    /\ UNCHANGED <<manager, bound, data, cache, poller>>

\* MqttIndustrialAdapter::connect binds before it subscribes.  When a
\* subscription fails the adapter is Faulted with its equipment bound, and
\* connectAdapter returns before the collision check.
SubscribeFails(i) ==
    /\ MutexFree
    /\ i \in registered
    /\ Kind[i] = "mqtt"
    /\ conn[i] # "Connected"
    /\ Bind(i)
    /\ conn' = [conn EXCEPT ![i] = "Faulted"]
    /\ UNCHANGED <<manager, cache, poller>>

\* disconnectAdapter.
DisconnectAdapter(i) ==
    /\ MutexFree
    /\ i \in registered
    /\ DisconnectEach({i})
    /\ UNCHANGED <<manager, cache, poller>>

\* disconnectAll, which the destructor also runs.
DisconnectAll ==
    /\ MutexFree
    /\ DisconnectEach(registered)
    /\ UNCHANGED <<manager, cache, poller>>

-------------------------------------------------------------------------------
(* Client threads, which hold no mutex of the manager.                     *)

\* Equipment::execute on a Connected adapter whose write fails, or the mock's
\* simulateCommunicationFailure: enterFault at any moment of a pass.
CommunicationFailure(i) ==
    /\ conn[i] = "Connected"
    /\ conn' = [conn EXCEPT ![i] = "Faulted"]
    /\ UNCHANGED <<manager, bound, data, cache, poller>>

\* The mock's clearCommunicationFailure.  It destroys the bound equipment, so
\* an application may call it only while no pass is running.
ClearCommunicationFailure(i) ==
    /\ MutexFree
    /\ i \in registered
    /\ Kind[i] = "mock"
    /\ conn[i] = "Faulted"
    /\ DisconnectEach({i})
    /\ UNCHANGED <<manager, cache, poller>>

\* LiveStateCache::clear: not while the cache mutex is held by the copy loop.
ClearCache ==
    /\ phase # "copy"
    /\ cache' = [e \in EquipmentIds |-> NoEntry]
    /\ UNCHANGED <<manager, adapter, poller>>

-------------------------------------------------------------------------------
(* PollScheduler::pollOnce: forEachAdapter holds mutex_ through the pass.  *)

BeginPass ==
    /\ phase = "idle"
    /\ phase' = "next"
    /\ todo' = registered
    /\ UNCHANGED <<manager, adapter, cache, cur, sawFault, stale, left>>

EndPass ==
    /\ phase = "next"
    /\ todo = {}
    /\ phase' = "idle"
    /\ UNCHANGED <<manager, adapter, cache, todo, cur, sawFault, stale, left>>

OwnedBy(e, a) == cache[e] # NoEntry /\ cache[e].owner = a

\* (Bug: a Disconnected adapter is skipped.)
DropNothing(a) == cache

\* removeAdapterEquipment.
WithoutOwner(a) ==
    [e \in EquipmentIds |-> IF OwnedBy(e, a) THEN NoEntry ELSE cache[e]]

\* pollAdapterLocked of the next adapter, in the map's unspecified order:
\* the state read here chooses the branch for the rest of the visit.
VisitDisconnected(i) ==
    /\ phase = "next"
    /\ i \in todo
    /\ conn[i] = "Disconnected"
    /\ todo' = todo \ {i}
    /\ cache' = WithoutOwner(IdOf[i])
    /\ UNCHANGED <<manager, adapter, phase, cur, sawFault, stale, left>>

VisitConnected(i) ==
    /\ phase = "next"
    /\ i \in todo
    /\ conn[i] = "Connected"
    /\ todo' = todo \ {i}
    /\ cur' = i
    /\ sawFault' = FALSE
    /\ phase' = "poll"
    /\ UNCHANGED <<manager, adapter, cache, stale, left>>

VisitFaulted(i) ==
    /\ phase = "next"
    /\ i \in todo
    /\ conn[i] = "Faulted"
    /\ todo' = todo \ {i}
    /\ cur' = i
    /\ sawFault' = TRUE
    /\ phase' = IF Listed(i) = {} THEN "mark" ELSE "refresh"
    /\ UNCHANGED <<manager, adapter, cache, stale, left>>

\* poll() of an adapter that a client has put in Faulted since the visit
\* began reads nothing.
PollFaulted ==
    /\ phase = "poll"
    /\ conn[cur] # "Connected"
    /\ phase' = "refresh"
    /\ UNCHANGED <<manager, adapter, cache, todo, cur, sawFault, stale, left>>

\* poll() of a request/reply adapter or of the mock: every bound equipment
\* is read in full.
PollReadsAll ==
    /\ phase = "poll"
    /\ conn[cur] = "Connected"
    /\ Kind[cur] # "mqtt"
    /\ data' = [data EXCEPT ![cur] =
                   [e \in EquipmentIds |->
                       IF e \in Mapping[cur] THEN "complete" ELSE "never"]]
    /\ phase' = "refresh"
    /\ UNCHANGED <<manager, conn, bound, cache, todo, cur, sawFault, stale, left>>

\* poll() of a request/reply adapter stops at the first equipment it cannot
\* read, some of whose points may have been set already.
PollFails ==
    /\ phase = "poll"
    /\ conn[cur] = "Connected"
    /\ Kind[cur] = "reqrep"
    /\ \E failed \in Mapping[cur], before \in SUBSET Mapping[cur], partly \in BOOLEAN :
          /\ failed \notin before
          /\ data' = [data EXCEPT ![cur] =
                         [e \in EquipmentIds |->
                             IF e \in before THEN "complete"
                             ELSE IF e = failed /\ partly THEN "torn"
                             ELSE data[cur][e]]]
    /\ conn' = [conn EXCEPT ![cur] = "Faulted"]
    /\ phase' = "refresh"
    /\ UNCHANGED <<manager, bound, cache, todo, cur, sawFault, stale, left>>

\* poll() of the MQTT adapter applies the messages that have arrived, for
\* some points of some equipment, and may then find the broker gone.
PollDrains ==
    /\ phase = "poll"
    /\ conn[cur] = "Connected"
    /\ Kind[cur] = "mqtt"
    /\ \E some \in SUBSET Mapping[cur], all \in SUBSET Mapping[cur] :
          data' = [data EXCEPT ![cur] =
                      [e \in EquipmentIds |->
                          IF e \in all THEN "complete"
                          ELSE IF e \in some /\ data[cur][e] = "never" THEN "torn"
                          ELSE data[cur][e]]]
    /\ \E after \in {"Connected", "Faulted"} : conn' = [conn EXCEPT ![cur] = after]
    /\ phase' = "refresh"
    /\ UNCHANGED <<manager, bound, cache, todo, cur, sawFault, stale, left>>

\* pollAdapterLocked returns to forEachAdapter; its locals go out of scope.
ReturnFromVisit ==
    /\ phase' = "next"
    /\ cur' = NoInstance
    /\ sawFault' = FALSE
    /\ stale' = FALSE

\* updateFromAdapter returns to pollAdapterLocked.
ReturnFromUpdate ==
    IF sawFault
    THEN phase' = "mark" /\ stale' = FALSE /\ UNCHANGED <<cur, sawFault>>
    ELSE ReturnFromVisit

\* (Bug: Faulted values count as current.)
OnlyDisconnectedIsStale(i) == conn[i] = "Disconnected"

\* updateFromAdapter up to the copy loop: `stale` is read before the cache
\* mutex is taken; entries the adapter no longer lists are pruned.
IsStale(i) == conn[i] # "Connected"

Pruned(i) == [e \in EquipmentIds |->
                 IF OwnedBy(e, IdOf[i]) /\ e \notin Listed(i) THEN NoEntry
                 ELSE cache[e]]

\* (Bug: only entries that exist are refreshed.)
ListedAndCached(i) == {e \in Listed(i) : cache[e] # NoEntry}

ToCopy(i) == Listed(i)

BeginUpdate ==
    /\ phase = "refresh"
    /\ cache' = Pruned(cur)
    /\ left' = ToCopy(cur)
    /\ IF ToCopy(cur) = {}
       THEN ReturnFromUpdate
       ELSE phase' = "copy" /\ stale' = IsStale(cur) /\ UNCHANGED <<cur, sawFault>>
    /\ UNCHANGED <<manager, adapter, todo>>

\* (Bug: the flag is read with each equipment, as the communication state is.)
FlagReadAgain(e) == [owner |-> IdOf[cur], comm |-> conn[cur],
                     stale |-> conn[cur] # "Connected", data |-> data[cur][e]]

\* makeSnapshot reads the communication state again for each equipment.
Snapshot(e) == [owner |-> IdOf[cur], comm |-> conn[cur], stale |-> stale,
                data |-> data[cur][e]]

CopyEquipment(e) ==
    /\ phase = "copy"
    /\ e \in left
    /\ cache' = [cache EXCEPT ![e] = Snapshot(e)]
    /\ left' = left \ {e}
    /\ IF left = {e} THEN ReturnFromUpdate
                     ELSE UNCHANGED <<phase, cur, sawFault, stale>>
    /\ UNCHANGED <<manager, adapter, todo>>

\* (Bug: entries are marked only when equipment is still listed.)
MarkNothing(a) == cache

\* (Bug: the stale flag is set, the communication state is not.)
MarkedStaleOnly(a) ==
    [e \in EquipmentIds |->
        IF OwnedBy(e, a) THEN [cache[e] EXCEPT !.stale = TRUE] ELSE cache[e]]

\* markAdapterCommunication(id, Faulted): process values are kept.
MarkedFaulted(a) ==
    [e \in EquipmentIds |->
        IF OwnedBy(e, a) THEN [cache[e] EXCEPT !.comm = "Faulted", !.stale = TRUE]
        ELSE cache[e]]

MarkFaulted ==
    /\ phase = "mark"
    /\ cache' = MarkedFaulted(IdOf[cur])
    /\ ReturnFromVisit
    /\ UNCHANGED <<manager, adapter, todo, left>>

-------------------------------------------------------------------------------
Init ==
    /\ registered = {}
    /\ doomed = {}
    /\ conn = [i \in Instances |-> "Disconnected"]
    /\ bound = {i \in Instances : Kind[i] = "fieldbus"}
    /\ data = [i \in Instances |-> NoData]
    /\ cache = [e \in EquipmentIds |-> NoEntry]
    /\ phase = "idle"
    /\ todo = {}
    /\ cur = NoInstance
    /\ sawFault = FALSE
    /\ stale = FALSE
    /\ left = {}

Manage ==
    \/ \E i \in Instances :
          \/ AddAdapter(i) \/ RemoveAdapter(i)
          \/ ConnectOk(i) \/ ConnectFails(i) \/ SubscribeFails(i)
          \/ DisconnectAdapter(i)
          \/ ClearCommunicationFailure(i)
    \/ DisconnectAll

Client == (\E i \in Instances : CommunicationFailure(i)) \/ ClearCache

PollStep ==
    \/ \E i \in Instances :
          VisitDisconnected(i) \/ VisitConnected(i) \/ VisitFaulted(i)
    \/ PollFaulted \/ PollReadsAll \/ PollFails \/ PollDrains
    \/ BeginUpdate \/ (\E e \in EquipmentIds : CopyEquipment(e))
    \/ MarkFaulted \/ EndPass

Next == Manage \/ (\E i \in Instances : FinishRemove(i)) \/ Client
        \/ BeginPass \/ PollStep

Spec == Init /\ [][Next]_vars

\* A pass runs to its end (every poll() is bounded by a timeout), a running
\* scheduler begins another one after each interval, a removal completes.
Fairness == /\ WF_vars(BeginPass)
            /\ WF_vars(PollStep)
            /\ \A i \in Instances : WF_vars(FinishRemove(i))

FairSpec == Spec /\ Fairness

-------------------------------------------------------------------------------
TypeOK ==
    /\ registered \subseteq Instances
    /\ doomed \subseteq Instances
    /\ conn \in [Instances -> ConnStates]
    /\ bound \subseteq Instances
    /\ data \in [Instances -> [EquipmentIds -> DataStates]]
    /\ cache \in [EquipmentIds -> Snapshots \cup {NoEntry}]
    /\ phase \in Phases
    /\ todo \subseteq Instances
    /\ cur \in Instances \cup {NoInstance}
    /\ sawFault \in BOOLEAN
    /\ stale \in BOOLEAN
    /\ left \subseteq EquipmentIds

\* An equipment id is served by at most one Connected adapter of the manager,
\* whatever order adapters were added, faulted and reconnected in: AdapterManager
\* checks collisions once, on connect(), and adapters reconnect independently.
ConnectedExclusive ==
    \A i, j \in registered :
        i # j /\ conn[i] = "Connected" /\ conn[j] = "Connected"
            => Listed(i) \cap Listed(j) = {}

\* No two registered adapters list the same equipment id, not even a Faulted
\* one beside a Connected one: equipmentById() and the cache keys are then
\* unambiguous.
ListedExclusive ==
    \A i, j \in registered : i # j => Listed(i) \cap Listed(j) = {}

\* The adapter a pass is visiting, and every adapter it will still visit, is
\* owned by the manager: no concurrent removal destroys it under the poller.
VisitIsOwned ==
    /\ phase \notin {"idle", "next"} => cur \in registered \ doomed
    /\ phase # "idle" => todo \subseteq registered \ doomed

Polled(i) == Kind[i] \in {"reqrep", "mock"}

\* A snapshot that is not stale holds a full reading: values left by a refresh
\* that failed half way, or the defaults of an equipment bound but never read,
\* reach consumers only marked stale.  (An MQTT value comes when it comes.)
FreshIsComplete ==
    \A e \in EquipmentIds :
        cache[e] # NoEntry /\ ~cache[e].stale =>
            \/ cache[e].data = "complete"
            \/ \E i \in Instances : IdOf[i] = cache[e].owner /\ ~Polled(i)

\* A stale snapshot never claims a Connected adapter, although the flag and the
\* state are read at two moments of updateFromAdapter.
StaleNotConnected ==
    \A e \in EquipmentIds :
        cache[e] # NoEntry /\ cache[e].stale => cache[e].comm # "Connected"

\* A reader of the cache (the copy loop holds the cache mutex, so it sees no state
\* in the middle of one) finds the equipment of one adapter id all fresh or all
\* stale: also when a client faults the adapter during the copy, and when a
\* successor under the same id has taken over entries of the adapter it replaces.
FlagsAgree ==
    phase # "copy" =>
        \A e, f \in EquipmentIds :
            /\ cache[e] # NoEntry /\ cache[f] # NoEntry
            /\ cache[e].owner = cache[f].owner
            => cache[e].stale = cache[f].stale

\* When a visit is over the cache agrees with the adapter for the rest of the
\* pass: a Connected adapter's equipment is cached as it is now, by this adapter
\* (unless a client cleared the cache), a Disconnected adapter owns no entry.
VisitedIsCurrent ==
    phase = "next" =>
        \A i \in registered \ todo :
            /\ conn[i] = "Connected" =>
                  \A e \in Listed(i) :
                      cache[e] # NoEntry =>
                          cache[e] = [owner |-> IdOf[i], comm |-> "Connected",
                                      stale |-> FALSE, data |-> data[i][e]]
            /\ conn[i] = "Disconnected" =>
                  \A e \in EquipmentIds : ~OwnedBy(e, IdOf[i])

\* A snapshot is not replaced by another adapter's while its own adapter still
\* lists the equipment: one adapter's trouble never shows under the id of
\* another's equipment.
NeverStolen ==
    [][\A e \in EquipmentIds :
          cache[e] # NoEntry /\ cache'[e] # NoEntry /\ cache'[e].owner # cache[e].owner
              => \A i \in registered : IdOf[i] = cache[e].owner => e \notin Listed(i)]_vars

\* An adapter that stays out of Disconnected after a fault keeps the equipment
\* it had bound and every value it had received, also through a reconnect (which
\* makes the equipment of request/reply adapters anew).
KeepsLastKnown ==
    [][\A i \in Instances :
          Kind[i] # "reqrep" /\ conn[i] = "Faulted" /\ conn'[i] # "Disconnected" =>
              \A e \in Listed(i) :
                  /\ e \in Listed(i)'
                  /\ data[i][e] # "never" => data'[i][e] # "never"]_vars

\* A consumer does not see a faulted or disconnected adapter's values as fresh
\* for ever: as long as the scheduler runs, a pass marks or drops them.
FaultVisible ==
    \A i \in Instances, e \in EquipmentIds :
        LET hidden == /\ i \in registered
                      /\ conn[i] # "Connected"
                      /\ OwnedBy(e, IdOf[i])
                      /\ ~cache[e].stale
        IN  hidden ~> ~hidden

\* The equipment of an adapter that stays Connected gets into the cache,
\* however often clients clear it.
ConnectedIsCached ==
    \A i \in Instances, e \in EquipmentIds :
        LET missing == /\ i \in registered
                       /\ conn[i] = "Connected"
                       /\ e \in Listed(i)
                       /\ cache[e] = NoEntry
        IN  missing ~> ~missing

\* What the documentation claims and the code does not keep.

\* LiveStateCache.hh: entries are dropped after a remove; so a completed pass
\* leaves no fresh snapshot of an adapter the manager no longer has.
RemovedIsSwept ==
    phase = "next" /\ todo = {} =>
        \A e \in EquipmentIds :
            cache[e] # NoEntry /\ ~cache[e].stale =>
                \E i \in registered : IdOf[i] = cache[e].owner

\* architecture.md: one adapter's failure must not fault unrelated ones; so once
\* visited, a Connected adapter's equipment is not shown as another adapter's.
FailureIsolated ==
    phase = "next" =>
        \A i \in registered \ todo, e \in EquipmentIds :
            conn[i] = "Connected" /\ e \in Listed(i) /\ cache[e] # NoEntry =>
                cache[e].owner = IdOf[i]

===============================================================================
