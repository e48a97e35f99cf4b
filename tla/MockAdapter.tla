----------------------------- MODULE MockAdapter -----------------------------
(***************************************************************************)
(* The mock adapter: devices configured at any time, GenericEquipment bound *)
(* to them on connect(), commands that write back into the device, and      *)
(* failures simulated by the test that owns it.                             *)
(*                                                                         *)
(* A bound equipment holds a raw pointer (config_) into the vector of       *)
(* devices, which addDevice() may move: `dangling` are the equipment whose  *)
(* pointer then points into freed memory.  Nothing in the class locks; its  *)
(* users call it from one thread, and no longer use the pointers they got   *)
(* from equipment() once it has been destroyed.                             *)
(***************************************************************************)
CONSTANTS
    Devices,        \* equipment ids
    Points,         \* names of telemetry points
    Configurable,   \* the capabilities a test may add to each device
    Values,
    NoPoint         \* telemetry_ has no point of this name

\* A point p as a command stands for "set_" + p.
Commands == {"start", "stop"} \cup Points

ASSUME ConfigurableAssumption == Configurable \in [Devices -> SUBSET Commands]
ASSUME NoPointAssumption ==
    NoPoint \notin [value : Values, unit : BOOLEAN]

VARIABLES
    devices,        \* devices_: the ids that are configured
    capabilities,   \* DeviceConfig::capabilities
    source,         \* DeviceConfig::sourceTelemetry
    conn, error,    \* connection_state_, and what last_error_ is about
    bound,          \* bound_
    shown,          \* the telemetry_ of each bound equipment
    offered,        \* its capabilities_
    running,        \* its operational_state_ is Running
    dangling,       \* bound equipment whose config_ was invalidated
    unseen          \* points set from outside since the equipment was filled

config == <<devices, capabilities, source>>
link   == <<conn, error>>
inner  == <<shown, offered, running>>
vars   == <<devices, capabilities, source, conn, error, bound, shown, offered,
            running, dangling, unseen>>

ConnStates == {"Disconnected", "Connected", "Faulted"}
Errors     == {"none", "given", "poll failed"}

\* A telemetry point; its unit is the one it was configured with, or empty.
Readings  == [value : Values, unit : BOOLEAN]
Telemetry == [Points -> Readings \cup {NoPoint}]
Empty     == [p \in Points |-> NoPoint]

-------------------------------------------------------------------------------
(* Configuration by the test.                                              *)

\* addDevice: an id that is known already is ignored.  push_back may move the
\* DeviceConfigs; whether it does is left open.
AddDevice(d) ==
    /\ d \notin devices
    /\ devices' = devices \cup {d}
    /\ dangling' \in {dangling, bound}
    /\ UNCHANGED <<capabilities, source, link, bound, inner, unseen>>

\* addCapability: equipment bound earlier has a copy of its own.
AddCapability(d, c) ==
    /\ d \in devices
    /\ c \in Configurable[d] \ capabilities[d]
    /\ capabilities' = [capabilities EXCEPT ![d] = @ \cup {c}]
    /\ UNCHANGED <<devices, source, link, bound, inner, dangling, unseen>>

SetSourceTelemetry(d, p, v) ==
    /\ d \in devices
    /\ source' = [source EXCEPT ![d][p] = [value |-> v, unit |-> TRUE]]
    /\ unseen' = IF d \in bound THEN unseen \cup {<<d, p>>} ELSE unseen
    /\ UNCHANGED <<devices, capabilities, link, bound, inner, dangling>>

-------------------------------------------------------------------------------
(* The connection.                                                         *)

\* bound_.clear(): the equipment is destroyed with all it holds.
Unbind ==
    /\ bound' = {}
    /\ shown' = [d \in Devices |-> Empty]
    /\ offered' = [d \in Devices |-> {}]
    /\ running' = {}
    /\ dangling' = {}
    /\ unseen' = {}

\* bindDevices: new equipment with a copy of the configuration, Stopped.
BindDevices ==
    /\ bound' = devices
    /\ shown' = source
    /\ offered' = capabilities
    /\ running' = {}
    /\ dangling' = {}
    /\ unseen' = {}

Connect ==
    /\ conn = "Disconnected"
    /\ BindDevices
    /\ conn' = "Connected"
    /\ error' = "none"
    /\ UNCHANGED config

ConnectRefused ==
    /\ conn = "Faulted"
    /\ error' = "given"
    /\ UNCHANGED <<config, conn, bound, inner, dangling, unseen>>

Disconnect ==
    /\ Unbind
    /\ conn' = "Disconnected"
    /\ error' = "none"
    /\ UNCHANGED config

\* (Bug: a failure destroys the equipment as disconnect() does.)
FailureUnbinds ==
    /\ Unbind
    /\ conn' = "Faulted"
    /\ error' \in {"none", "given"}
    /\ UNCHANGED config

\* The reason may be empty; nothing is destroyed.
SimulateCommunicationFailure ==
    /\ conn' = "Faulted"
    /\ error' \in {"none", "given"}
    /\ UNCHANGED <<config, bound, inner, dangling, unseen>>

ClearCommunicationFailure == conn = "Faulted" /\ Disconnect

-------------------------------------------------------------------------------
(* Reading and commanding.                                                 *)

\* What copySourceTelemetry() leaves in the equipment of d.
Filled(d) == [p \in Points |-> IF source[d][p] # NoPoint THEN source[d][p]
                                                         ELSE shown[d][p]]

\* poll(), Connected.  Reading through a dangling config_ is undefined: the
\* equipment ends up with anything.
Poll ==
    /\ conn = "Connected"
    /\ \E garbage \in [dangling -> Telemetry] :
          shown' = [d \in Devices |-> IF d \in dangling THEN garbage[d]
                                      ELSE IF d \in bound THEN Filled(d)
                                      ELSE shown[d]]
    /\ unseen' = {}
    /\ UNCHANGED <<config, link, bound, offered, running, dangling>>

PollFaulted ==
    /\ conn = "Faulted"
    /\ error = "none"
    /\ error' = "poll failed"
    /\ UNCHANGED <<config, conn, bound, inner, dangling, unseen>>

\* equipment() and equipmentById(): what a client can reach.
Exposed == IF conn = "Disconnected" THEN {} ELSE bound

\* execute() goes on: otherwise it is rejected and changes nothing.
Accepts(d, c) == d \in Exposed /\ conn = "Connected" /\ c \in offered[d]

\* (Bug: the command replaces the point, unit and all.)
UnitDropped(d, p, v) == [value |-> v, unit |-> FALSE]

\* The new point: its unit is looked up in what the equipment shows, and is
\* empty if it shows no such point.
Commanded(d, p, v) ==
    [value |-> v, unit |-> shown[d][p] # NoPoint /\ shown[d][p].unit]

\* (Bug: the value is shown and not written back.)
NotWrittenBack(d, p, v) == source

\* writeSourceTelemetry(), which finds the device by its id.
WrittenBack(d, p, v) == [source EXCEPT ![d][p] = Commanded(d, p, v)]

ExecuteSet(d, p, v) ==
    /\ Accepts(d, p)
    /\ shown' = [shown EXCEPT ![d][p] = Commanded(d, p, v)]
    /\ source' = WrittenBack(d, p, v)
    /\ unseen' = unseen \ {<<d, p>>}
    /\ UNCHANGED <<devices, capabilities, link, bound, offered, running, dangling>>

ExecuteStart(d) ==
    /\ Accepts(d, "start")
    /\ running' = running \cup {d}
    /\ UNCHANGED <<config, link, bound, shown, offered, dangling, unseen>>

ExecuteStop(d) ==
    /\ Accepts(d, "stop")
    /\ running' = running \ {d}
    /\ UNCHANGED <<config, link, bound, shown, offered, dangling, unseen>>

-------------------------------------------------------------------------------
Init ==
    /\ devices = {}
    /\ capabilities = [d \in Devices |-> {}]
    /\ source = [d \in Devices |-> Empty]
    /\ conn = "Disconnected" /\ error = "none"
    /\ bound = {}
    /\ shown = [d \in Devices |-> Empty]
    /\ offered = [d \in Devices |-> {}]
    /\ running = {} /\ dangling = {} /\ unseen = {}

Configure == \E d \in Devices :
    \/ AddDevice(d)
    \/ \E c \in Configurable[d] : AddCapability(d, c)
    \/ \E p \in Points, v \in Values : SetSourceTelemetry(d, p, v)

Execute == \E d \in Devices :
    \/ ExecuteStart(d) \/ ExecuteStop(d)
    \/ \E p \in Points, v \in Values : ExecuteSet(d, p, v)

Next == \/ Configure
        \/ Connect \/ ConnectRefused \/ Disconnect
        \/ SimulateCommunicationFailure \/ ClearCommunicationFailure
        \/ Poll \/ PollFaulted \/ Execute

Spec == Init /\ [][Next]_vars

-------------------------------------------------------------------------------
\* Types; and what belongs to bound equipment is gone when it is.
TypeOK ==
    /\ devices \subseteq Devices
    /\ capabilities \in [Devices -> SUBSET Commands]
    /\ source \in [Devices -> Telemetry]
    /\ conn \in ConnStates
    /\ error \in Errors
    /\ bound \subseteq devices
    /\ shown \in [Devices -> Telemetry]
    /\ offered \in [Devices -> SUBSET Commands]
    /\ running \subseteq bound
    /\ dangling \subseteq bound
    /\ unseen \subseteq bound \X Points

\* What an equipment shows is what its device holds, point by point, but for
\* points set from outside since the last poll: an accepted command is in both,
\* so that no poll and no reconnect takes it back.  (Equipment whose device has
\* been moved in memory is another matter.)
ShownIsSource ==
    \A d \in bound \ dangling, p \in Points :
        <<d, p>> \notin unseen => shown[d][p] = source[d][p]

HasUnit(point) == point # NoPoint /\ point.unit

\* A point once shown with its unit keeps it, in the equipment and in the device,
\* whatever commands set it: execute() takes the unit from the equipment and
\* writes it over the device's.  (A point the equipment does not show yet loses
\* its unit.)
UnitsAreKept ==
    [][\A d \in bound \ dangling, p \in Points :
          HasUnit(shown[d][p]) =>
              /\ HasUnit(source'[d][p])
              /\ d \in bound' => HasUnit(shown'[d][p])]_vars

\* What equipment shows is copied when it is bound, and again in a poll() that
\* nothing else happens in.
Data == IF bound = {} THEN "never" ELSE "complete"

Contract == INSTANCE AdapterContract
                WITH bound <- bound # {}, data <- Data, polling <- FALSE,
                     BoundShows <- "complete"

\* The tests of the runtime use the mock in place of a real adapter: whatever a
\* test does to it, its failures, reconnects and destroyed equipment are those
\* that IndustrialAdapter.hh lets a real one have.
ImplementsContract == Contract!Spec
===============================================================================
