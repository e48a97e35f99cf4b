# Formal model of virtual-factory

TLA+ modules, TLC configurations and TLAPS proofs about the C++ program in
`src/`: the equipment models and the simulated conveyor that uses one, the
industrial adapters that bind them to PLCs and brokers, and the ICP runtime
(`AdapterManager`, `LiveStateCache`, `PollScheduler`) that owns the adapters and
publishes their live state.

Check a run with `tlc -config <cfg> <module>`, a proof with `tlapm <module>`.
`PROJECT.json` maps every definition to the source lines it stands for.

## 1. Inventory

| Component | State it keeps | Operations | What makes it correct |
|---|---|---|---|
| **AdapterManager** `icp/src/AdapterManager.cc` | `adapters_` by id, one non-recursive `mutex_` | add, remove, connect (with the equipment-id collision check), disconnect, disconnectAll, lookups, forEachAdapter | one adapter per id; one serving adapter per equipment id; nobody removes an adapter under the poller |
| **LiveStateCache** `icp/src/LiveStateCache.cc` | `by_id_`: equipment id -> snapshot (owner, communication state, stale flag, telemetry), a mutex | updateFromAdapter, markAdapterCommunication, removeAdapterEquipment, clear, reads | values that are not current are marked stale; entries follow what the adapter lists; entries of one adapter do not appear as another's, and are all fresh or all stale |
| **PollScheduler** `icp/src/PollScheduler.cc` | `running_`, `thread_`, `interval_`, condition variable | start, stop, setInterval, pollOnce, the worker loop | one pass at a time; stop() leaves no thread; the worker keeps polling; faults reach the cache |
| **Adapter contract** `industrial/IndustrialAdapter.hh` | connection state (Disconnected, Connected, Faulted), bound equipment | connect, disconnect, poll, equipment, execute on equipment | a Faulted adapter keeps its last-known values; a failed operation ends in Faulted |
| **OPC UA, Modbus TCP, REST, EtherNet/IP** | session, bound equipment with telemetry | request/reply refresh of every point, command writes | all-or-fault refresh; a write reaches exactly the mapped point, with the number that was asked for |
| **MQTT** `MqttIndustrialAdapter.cc`, `mqtt_session.cc` | Paho client, queue filled by library callbacks, registry of client ids | connect + subscribe, drain on poll, publish on execute | no client id is used twice or leaked; a lost connection is noticed before the queue is looked at, and what is queued goes with the session; who is Connected is subscribed to everything, however late an earlier session's answers land |
| **Mock** | configured devices, bound copies | the same contract in memory, simulated failures | commands write back to the device |
| **PROFINET, PROFIBUS scaffolds** | bound equipment | connect always fails | never Connected |
| **AdapterFactory** | none | seven constructors | - |
| **Equipment models** `equipment/` | Conveyor: running, speed, fault; GenericEquipment: capabilities, telemetry, running, fault | execute (start, stop, set_speed or a capability), setters | no negative speed; a start always moves the belt, at the speed set before or at the default; commands need their capability |
| **Gazebo conveyor plugin** `gazebo/plugins/conveyor` | entities, the Conveyor, update count, the product's pose | Configure, PreUpdate, Start, Stop, SetSpeed | the belt obeys the last order, whoever gave it; the product that was found first moves with the belt, no other does |
| Build, documents, worlds, tests | - | - | not modelled |

### How the components interact

Managing threads call the `AdapterManager`, whose mutex every operation holds,
`connect()` and its timeouts included. The scheduler's worker holds the same
mutex for a **whole pass** over the adapters; in it, each adapter is polled and
its equipment copied into the `LiveStateCache`, which has a mutex of its own.
Client threads call `execute()` on `Equipment` pointers **without** the manager's
mutex: a write that fails puts the adapter in Faulted in the middle of a pass.
Consumers read the cache. The Gazebo plugin owns a `Conveyor` of its own and is
called by the simulation's thread; it does not use the runtime.

### Hard behaviours

- a fault between two reads of the connection state in one visit;
- a refresh that fails half way;
- adapters that reconnect in any order, with overlapping mappings;
- removal and replacement of an adapter whose snapshots are still cached;
- a notification lost between a predicate's test and the wait;
- start and stop overlapping from several threads;
- MQTT callbacks on library threads, late acknowledgements, a full queue;
- a double on its way into 16 or 32 bits, a float or six digits of text;
- the schedule of a simulation against calls from outside, and a product that
  leaves while it is the one the plugin knows.

`PROJECT.json` lists each at its line under `hazards`, with the properties that
would catch it.

## 2. The modules

| Module | Models | Extends / uses |
|---|---|---|
| `IcpRuntime` | AdapterManager, LiveStateCache and the poll pass over adapters of four kinds | - |
| `PollLifecycle` | the scheduler's thread, its wait, and the users of the manager's mutex | - |
| `MqttAdapters` | several MQTT adapters of one process, their Paho sessions and callbacks, the client id registry | - |
| `AdapterContract` | abstract: what an adapter that asks its device promises the runtime | - |
| `SetPoints` | what becomes of a command's parameter on its way to a device | - |
| `RequestReplyAdapter` | OPC UA, Modbus TCP, REST and EtherNet/IP with their sessions | `SetPoints`; `Contract == INSTANCE AdapterContract WITH data <- Data, polling <- InPoll` |
| `MockAdapter` | the mock with its devices, and `GenericEquipment` as it uses it | `Contract == INSTANCE AdapterContract WITH bound <- bound # {}, data <- Data` |
| `ConveyorPlugin` | the Gazebo plugin, its `Conveyor`, and the products of the world | - |
| `*_proofs` | the theorems about the module they extend | TLAPS |
| `MC*` | instances for TLC | the module they extend |

A property is stated in the module of the component it is about. Operators
marked "(Bug: ...)" are plausible mistakes in the definition that follows them;
`PROJECT.json` pairs each with a property that TLC finds violated when the
definition is replaced by it. They are used for nothing else.

### 2.1 IcpRuntime

`registered`, `conn`, `bound` and `cache` are `adapters_`, `connection_state_`,
`bound_` and `by_id_`. `doomed` are adapters that `removeAdapter()` has erased
under the mutex and not yet disconnected outside it. The poller's position
(`phase`, `todo`, `cur`) stands for the program counter of `pollAdapterLocked`
and `updateFromAdapter`, `sawFault` and `stale` for their locals: the connection
state is read three times in one visit (`VisitConnected`/`VisitFaulted`,
`BeginUpdate`, each `CopyEquipment`), and a client's failing `execute`
(`CommunicationFailure`) falls between any two of them. The manager's mutex is
`phase = "idle"`. Values are abstracted to where they come from: never read, torn
between two readings, or complete. `Kind` distinguishes what the runtime can
tell apart in adapters: request/reply adapters read everything in a poll and
bind anew on every connect; MQTT keeps its equipment on a reconnect and binds
before it subscribes; the mock's values are there when it is bound; the
fieldbus scaffolds are bound from construction and never connect.

### 2.2 PollLifecycle

`running`, `thread` and `interval` are the members of `PollScheduler`, `worker`
the position in `threadMain`, with the moment between testing the wait's
predicate and blocking ("falling") in which `stop()`'s notification is lost.
`call` is where each controlling thread is in `start()` or `stop()`; `holders`
and `asking` are the manager's mutex. `aborted` records what ends the program:
assigning to a joinable `std::thread`, joining twice. The code asks its callers
to take turns without saying so: `overlapped` is history, whether a call ever
began during another's, and what is promised only to callers that take turns
says `overlapped` in place of a bound on their number. Whichever way `stop()` finds
`running_`, it asks `joinable()` in a step of its own (`StopChecks`), so that an
overlapping call can join or create the thread before and after the question. What
a pass does is left to `IcpRuntime`.

### 2.3 MqttAdapters

Owner threads connect, poll and disconnect, one call at a time per adapter;
client threads publish; the library's receive thread runs `onConnect`,
`onMessage` and the others, one at a time. The teardown that `enterFault` and
`disconnect` share is four steps (close the session, test `active_client_id_`,
erase the claim under `gClientIdMutex`, clear `active_client_id_` and set the
state), because a client's and the owner's can interleave.

Every callback is two steps. In the first it is called: the broker has answered, or
the link is gone, or a message is there, and the unlocked test of `closing` is passed
(`calling`, `arriving`). In the second, under `Impl::mu`, it sets its flags
or queues its message (`OnConnect`, `OnOpSuccess`, `OnConnectionLost`,
`Enqueue`, ...). Their context is the adapter's `Impl`, not the Paho client, so the second
step can land in the session that replaced the first one's: then its flags are that
session's. An answer for which nobody waits sets a flag that the next wait resets
before it begins, so `ack` keeps only what a wait can see. Of a session,
`connecting`, `link`, `asked` and `granted` are the library's and the broker's side.

A message is a topic and a version. Versions number the **deliveries** of a topic to
an adapter: a message that the broker sends again, as it does with a retained one
after a reconnect, is a delivery of its own. `NoRegression` and `LatestWins` speak of
the order of deliveries; whether the broker's order is the publishers' is not the
program's doing. `arrived` and `newest` are history.

### 2.4 RequestReplyAdapter and AdapterContract

One skeleton for four classes, with `family` chosen in `Init`. What differs is
kept: a REST health request that fails leaves the handle; EtherNet/IP creates
its tags one by one and destroys those it has when one fails; Modbus keeps the
unit id in the session (`unit`, set by `prepare()`); EtherNet/IP keeps the value
to write in the tag (`buffer`); one REST reply carries several values, taken out
one by one, so a missing pointer leaves the document partly applied. `device` is
the other end, `held` remembers what it held since the poll began. A write can
be refused, be lost, or be done with its reply lost.

A command is a place with "set" (a set_* command, which writes its parameter) or
"start" (any other). What a "start" may carry is `Parameters`: TRUE, except that
REST puts the caller's parameter into the body of any command whose template has
room for it. `Formats` says what the device keeps at each place;
`Encoded` applies the conversion of `SetPoints` that belongs to it. On the way
back, `Shown` makes a Boolean of what is mapped to a state, and `VariantReads` is
the OPC UA variant that cannot become one. `TypeMismatch` is the server that
refuses a variant of another type than its node's. A REST write gives every
value of the document the number; what the server makes of a body is its own.

`AdapterContract` is the abstraction `IcpRuntime` makes of an adapter, as a
specification: the three states, when equipment exists, where its values come
from, and in what state a poll, which is two steps with commands failing in
between, may leave them. `ImplementsContract` says that each family refines it, with `Data` derived
from how far the last poll got, and that the mock does, with `Data` derived from
what is bound. They differ in what equipment shows that `connect()` has just
bound, nothing or a whole reading: `BoundShows`. MQTT does not implement the
contract and is not meant to: its equipment and values outlive a reconnect
(`KeepsLastKnown` in `IcpRuntime` is what it promises instead). The fieldbus
scaffolds never leave Disconnected and Faulted.

### 2.5 MockAdapter

`devices`, `capabilities` and `source` are the `DeviceConfig`s; `shown`, `offered`
and `running` the `GenericEquipment` inside each `BoundEquipment`, a copy made when
it is bound. A point is its value and whether it carries its unit, since
`execute()` rewrites both. `dangling` are the equipment whose `config_` pointer
an `addDevice()` may have invalidated: reading through it is undefined, so a poll
fills them with anything. `unseen` is history: the points a test has set since the
equipment was filled. Commands that are accepted without any effect
(`execute_recipe`) and those that are rejected change nothing and are no actions.

### 2.6 SetPoints

Pure operators: `Flag`, `Word`, `Dint`, `Real` and `Text` are what a coil, a
holding register, a DINT, a REAL and the text of a body make of a double. Numbers
are counted in halves, the coarsest grain on which `lround` has ties. `Word` clips
before it casts and `Dint` does not, as in the code; a float and a text keep as
many leading digits as they have room for and round the rest. The widths are
constants, so that runs can use one-bit registers and the proofs hold for 65535
and 2^31. There is no NaN (section 6).

### 2.7 ConveyorPlugin

`Update` is a whole `PreUpdate`: count, look for the product, schedule, move the
product, set the belt's velocity, in this order. `running` and `speed` are the
`Conveyor`'s, NaN included. Updates that are paused and calls to a plugin without
its belt link do nothing and are no steps. An update lasts one unit of time, so
`moved`, the displacement of every entity in the last update, is a speed. `order`
and `zeroed` are history: the last start or stop, and whether a speed of 0 has
been asked for since. `Enter` and `Leave` are the world's, whose entity ids are
not used again. The heartbeat message every 1000 updates is left out.

## 3. The runs

Each run takes less than two minutes with two workers.

| Run | Bounds | Shows |
|---|---|---|
| `icp_isolation` | three adapters, two of them under one id (a replacement), two equipment ids in conflict | no two registered adapters list one equipment id, a visited adapter is owned, fresh snapshots are complete readings, stale ones are never Connected, the entries of one adapter are all fresh or all stale, the visited part of the cache agrees with its adapter, no snapshot is stolen |
| `icp_liveness` | MQTT, PROFINET and mock, all after one equipment id | exclusiveness among the Connected although two of them list unchecked equipment; last-known values survive faults and reconnects; faults become visible; Connected equipment gets cached |
| `poll_lifecycle` | two controlling threads, two clients, two intervals | calls that take turns use the thread object correctly and leave no worker; stop() returns, polling goes on, a new interval takes effect; whatever overlaps, passes exclude each other and a stopped worker ends, unless the program has been terminated. Deadlock is not checked: after `std::terminate` nothing happens |
| `mqtt_ids` | three adapters with one client id, one with a rejected configuration, two topics | ids are exclusive, claims are released whichever step fails, an adapter's claim, session and state agree whenever nobody is at work on it, and a Connected adapter's session is subscribed to every topic although answers of an earlier one can land late. The two adapters with a sound configuration are symmetric; the run has no liveness property, for which that would be unsound |
| `mqtt_values` | one adapter, one topic, a client, queue of two, three versions | the queue keeps its limit, the newest message wins, values never go back, loss is noticed, calls return |
| `request_reply` | four families, two readings, two targets of which one is read-only on Modbus, one client, three commands, the numbers -1/2, 0 and 1, registers of one bit, documents of two fields | sessions match states, finished polls were read, writes reach their place, acknowledged ones are done as well as the place can hold the number, the contract is implemented |
| `mock_adapter` | two devices, one that can be started and set, one that can be started and stopped; one point, two values | equipment shows its source, units are kept, the contract is implemented |
| `conveyor` | three products, the schedule in updates 2 and 4, the speeds -1, 0, 1 and NaN | the belt moves exactly when it was last started and not set to 0 since; one product moves with it. Deadlock is not checked: a plugin without its belt link does nothing more |
| `icp_removed_swept` | a request/reply and an MQTT adapter that share one of two equipment ids | violated: snapshots of a removed adapter stay fresh and Connected |
| `icp_failure_isolated` | a request/reply and an MQTT adapter that share one of two equipment ids | violated: an MQTT adapter whose subscription fails overwrites another's snapshots |
| `mqtt_eviction` | three adapters, one client | violated: a late release erases another adapter's claim; two sessions share an id |
| `modbus_units` | one reading in unit 1, one command to unit 2 | violated: a poll between prepare() and the write sends the command to unit 1 |

Why the bounds are enough. Conflicts over an equipment id or a client id are
between two adapters; the third is the one that is replaced, refused, or that
profits from the other two's race. Two equipment ids allow partial overlap, and
one adapter with two is the least whose reading can be torn. A queue of two
distinguishes oldest from newest, and three versions overflow it. Two intervals
are the old and the new one. Two readings are the least poll that can stop half
way, two fields the least document. The mock's points and devices do not
influence each other; two devices are the least with different capabilities, and
the least whose vector can move. Clients are interchangeable; a second one
adds only what section 6 says. Two controllers are the least that overlap. The
numbers of `request_reply` are zero, one that every place can hold and one that
is rounded (-1/2 is a tie), clipped (it is negative) or, in a text of one digit,
cut; that the conversions are right for all numbers and widths is proved. A
schedule at 2 and 4 has an update before, between and after its steps, as 1000
and 5000 have; the product that is known, another that could be taken for it and
one that comes after both have left are three.

`MaxVersion` caps the deliveries of a topic to an adapter and `MaxEntities` the products
that enter the world; they are the only caps, all other state is finite as it is
(the plugin's count of updates stops mattering after the schedule's last). `LatestWins` is checked with one
topic: with two the code does not keep it (section 5); section 4 says what it keeps
with any number.

### Fairness

- `IcpRuntime`: a pass goes on (`PollStep`; every poll is bounded by a timeout), a
  running scheduler begins passes (`BeginPass`; `poll_lifecycle` shows it does),
  and a removal that has erased the adapter goes on to disconnect it. Nothing is
  asked of managing threads, clients or devices.
- `PollLifecycle`: threads that can run do; a holder releases the mutex; strong
  fairness for the worker's lock (the implementations of `std::mutex` do not
  starve a waiter, but the standard does not promise it: an assumption) and for
  the deadline of `wait_for`, which wake-ups do not postpone.
- `MqttAdapters`: calls go on since every wait has a deadline, the scheduler polls
  again, a callback that has begun ends. Nothing is asked of the broker, the
  network or the library's notifications.

## 4. What is proved

For every value of the constants that satisfies the modules' assumptions (ids
and mappings are functions, threads are different, limits positive).

**IcpRuntime_proofs.** `TypeCorrect`. `VisitedAdaptersAreOwned`: inductive with
"nobody is both registered and doomed" (`OwnershipInv`); removal needs the mutex.
`ConnectedAdaptersAreExclusive`: `ConnectionInv` adds that an adapter not in the
manager is Disconnected, which is why a new registration cannot break
exclusiveness; the collision check covers the one step that connects.
`FreshSnapshotsAreComplete` and `StaleSnapshotsAreNotConnected`: neither is
inductive, as they speak of the cache and the danger is in the visit under way.
`FreshInv` describes the visit: after a poll that left the adapter Connected,
every listed equipment is complete; while `copy` runs with `stale = FALSE`, all
that is left to copy is complete; with `stale = TRUE` the adapter is not
Connected. `FlagsAlwaysAgree` needs no condition either: by `FlagsInv` the entries of
one adapter id have one flag, except during a copy under that id, when those already
copied have the visit's and the others may have an older one.

`ListingsAreExclusive` and `SnapshotsAreNotStolen` hold if an MQTT or fieldbus
adapter is configured with no equipment of an adapter of another id (`Apart`): an
MQTT adapter lists equipment that `connect()` never checked
(`icp_failure_isolated`), a fieldbus scaffold lists its equipment always. Request/reply
adapters and mocks may compete for theirs. Under the same condition
`VisitedAdaptersAreCurrent`: in `CurrentInv` the ids of registered adapters differ,
every adapter this pass has left behind is done (if Connected, what is cached of it
is what it shows; if Disconnected, nothing of it is cached), and while the adapter
being visited stays Connected, the visit has not taken it for Faulted and every one
of its entries is still to be copied or current. `LastKnownIsKept` speaks of all
adapters but the request/reply ones, which bind anew on every connect.

Without a condition: `CachedEquipmentIsMapped` and `SnapshotsAreWrittenByRegistered`,
what remains true of the cache around removals although `icp_removed_swept` shows
that a snapshot can outlive its adapter: it names an adapter that was configured with
the equipment, and nobody writes it any more. `CopiesHaveWork`; and `PassesAdvance`,
the safety half of "every pass ends": a pass has fewer adapters to visit, is
further in its visit, or has less equipment to copy, and no other thread can give it
more to do.

`AdaptersAreUsedByContract` is the other side of `AdapterContract`. The adapters are
modelled on their own, with callers that take turns; in the runtime several managing
threads, the poller and removals call them. For each request/reply adapter and each
mock, the runtime implements the contract as seen through that adapter, from
`BoundInv` (a Connected adapter has its equipment, and the adapter that a pass polls
is not disconnected before the poll is over) and `OwnershipInv`.

**AdapterContract_proofs.** What a user of any adapter may conclude: half-read values
are seen only during a poll or on a Faulted adapter (`TornValuesAreFaulted`), and values
come and go with equipment and are lost in `connect()` and `disconnect()` only
(`ValuesComeWithEquipment`, `ValuesStayThroughFaults`). The first two assume that
equipment is built whole (`BoundWhole`: never read, or complete), as it is in both
refinements.

**PollLifecycle_proofs.** `TypeCorrect`; `PassesAreExclusive` for any number of
threads (with "no thread object, no worker", without which a second worker could
appear); `CallsInTurnNeverAbort` and `CallsInTurnLeaveNoWorker` for as long as
calls take turns, whichever threads make them, from `LifeInv`: `overlapped`, or at
most one thread is in a call, and `running_`, `thread_` and the worker are related
as that call's position says. The safety half of "stop() returns":
`StoppedWorkersWindDown` (once `running_` is cleared no notification, time-out,
spurious wake-up or new interval takes the worker further from its end, so it makes
at most one more pass) and `JoinsWaitForAWorker` (the thread that is joined exists,
and waits at most for a mutex that is free or with a client, never with itself).

**MqttAdapters_proofs.** `TypeCorrect`, with the queue within its limit, for any
threads. `ClientIdsAreUnique`, `ClaimsAreReleased` and `ClaimsFollowStates` for
behaviours, with any number of clients, in which tear-downs take turns
(`TearDownsInTurn`: a client's overlaps neither another one of the same adapter nor a
connect() of its owner). Without clients that is always so; `mqtt_eviction` is a
behaviour in which it is not. `ClaimInv` has three parts: an open session is under a
claim that has not begun to be released; claims and the adapters that remember
them correspond one to one; the position of a thread agrees with both.
`ConnectedAreSubscribed` holds in every behaviour, overlapping tear-downs included. The
danger is an acknowledgement that belongs to an earlier session. By `SubscribedInv` it
has landed before connect() subscribes, since the callback that ends the wait for the
connect comes after it on the same receive thread; after that, an acknowledgement
is on its way only when the one topic that was asked for has been granted.
`ValuesNeverRegress` for any number of clients: `OrderInv` says that what is
applied, queued, about to be queued and arrived of a topic is in order, even
across sessions, since a closed session's queue is emptied and versions arrive
in order; `BoundInv` that equipment is bound anew only when it was unbound.
`TheLatestWins` for any number of topics and clients, in behaviours in which a full
queue drops only messages that a later one of their topic follows
(`NewestSurvives`; with one topic it can do nothing else): so that drop is all that
can lose the newest. By `NewestInv` the newest message a session has queued of a
topic is the last of that topic in its queue, or else the queue has none of it and
the equipment shows it, except while disconnect() has destroyed the equipment and
not yet closed the session. `CallsAlwaysAdvance` is the safety half of
`CallsReturn`: a call gets to a later phase of connecting, draining and tearing down,
or has a topic less to subscribe to, or has drained another of at most `BatchLimit`
messages, and no other thread sets it back.

**RequestReplyAdapter_proofs.** `TypeCorrect`; `SessionsMatchStates` (with: between
open() and the last tag the adapter is not Connected); `ContractIsImplemented`, by
mapping every action to an action of the contract or a stutter, from
`ContractInv` (bound equipment under every Connected state, poll and reading; a
call under way implies the adapter is not Disconnected).

`WritesReachTheirPlace`, `AcknowledgedCommandsAreDone` and `FinishedPollsAreRead`
hold in behaviours in which exchanges that share a session do not mix: on Modbus no
two units are addressed at once (`UnitsApart`), on EtherNet/IP no command is written
twice at once (`TagsApart`; polls do not need it). They follow from `UnitInv` (an
exchange under way goes to its own unit), `BufferInv` (a tag about to be written
holds the caller's value) and `HeldInv` (what has been read in this poll is among
what the device has held). Nothing in the code enforces either, and `modbus_units` is
what happens without `UnitsApart`. Two theorems say which deployments are safe as they
are: `OneUnitStaysApart` (the equipment of an endpoint in one unit, or nobody who
commands beside the poller) and `OneClientKeepsTagsApart`. Any number of clients is
covered where the conditions hold. That what arrives is what was asked for
(`EncodedIsDelivered`) rests on `SetPoints_proofs`. `CallsAlwaysAdvance`: connect()
creates each tag once, a poll reads each place at most once, a command is prepared
and then written, and no other thread sets a call back.

**SetPoints_proofs.** `WordIsNearest` and `WordIsMonotonic`: a register gets the
word nearest to the set-point, and a larger set-point never a smaller word.
`DintIsExactInRange`: a DINT gets a whole set-point unchanged if and only if it can
hold it. `RealAndTextAreExact`: what has few enough digits arrives unchanged. For
all widths; what rounding does to the other digits is only modelled.

**MockAdapter_proofs.** `TypeCorrect`; `EquipmentShowsItsSource` and
`ShownUnitsAreKept`, from `UnseenHasUnit` (a point set from outside and not seen yet
has its unit in the device): without it a poll could be thought to bring a point
without unit into equipment that shows one. `MockImplementsContract`.

**ConveyorPlugin_proofs.** `TypeCorrect` (no speed is negative), `TheBeltObeysOrders`
and `TheProductFollowsTheBelt`, for every schedule and default speed. `OrderInv`
ties the history to the conveyor: it runs if and only if the last order was to
start, and a running belt has speed 0 if and only if 0 was asked for since; it is
needed because the belt's velocity is only set in the next update.

The type invariants of `IcpRuntime` and `MockAdapter` are proved and not among the
properties of the runs, whose invariants say more.

**Model-checked only.** Liveness (`FaultVisible`, `ConnectedIsCached`,
`StopReturns`, `KeepsPolling`, `IntervalTakesEffect`, `StoppedWorkerEnds`,
`LossIsNoticed`, `CallsReturn`), which the proof system cannot show under
fairness. What of it needs no fairness is proved: `PassesAdvance`,
`StoppedWorkersWindDown`, `JoinsWaitForAWorker` and both `CallsAlwaysAdvance` give the
measures that the fair steps run down. The proofs say nothing of what is enabled: that
the next step is possible is the deadlock check of the runs. The hypotheses
`TearDownsInTurn`, `NewestSurvives`, `UnitsApart` and `TagsApart` are met by the runs
`mqtt_ids`, `mqtt_values` and `request_reply` as these are configured.

## 5. Where the code and its documents disagree

Four disagreements are runs (section 3), quoted in `PROJECT.json` under
`findings`. Others were met and are not runs:

- `LiveStateCache.cc:45` and `:34` read the connection state separately: a client's
  failing command in between publishes a Faulted snapshot whose `stale` is false
  until the next pass; `LiveStateCache.hh:41` says stale is true when the adapter is
  not Connected.
- `ProfinetIndustrialAdapter.cc:185` lists equipment while Disconnected;
  `IndustrialAdapter.hh:59` says "Empty while Disconnected".
- `mqtt_session.cc:119` drops the oldest message of any topic: a burst on one topic
  can drop the only message of another; `:116` says newer publishes win.
- `MqttIndustrialAdapter.cc:589`: a client's late `enterFault` can clear
  `active_client_id_` of a claim made meanwhile; the id is then in use for the rest
  of the process.
- Two clients that execute the same EtherNet/IP command share the tag's buffer
  (`eip_session.cc:263`): the earlier command can be acknowledged without having
  been sent.
- `MockIndustrialAdapter.cc:130`: a device added while equipment is bound can move
  the vector that equipment points into; the next `poll()` reads freed memory, while
  `IndustrialAdapter.hh:63` says poll pulls the latest source values.
- `MockIndustrialAdapter.cc:71`: a point set in the source after the last poll loses
  its unit, in the source too, when a command sets it before the next one.
- `EtherNetIpIndustrialAdapter.cc:514` casts a set-point to 32 bits unclipped, so
  one beyond the range of a DINT wraps around and is answered "written"; the
  Modbus adapter clips.
- `RestIndustrialAdapter.cc:45` writes a number with six digits, while
  `RestIndustrialAdapter.hh:43` says `{{value}}` is "replaced by execute()'s
  double".
- `OpcUaIndustrialAdapter.cc:492` sends every set-point as a Double; a node of an
  integer type refuses it, and the adapter faults although the session is sound.
- `Conveyor.cc:97` refuses negative speeds and takes NaN.
- `ConveyorSystem.cc:147` looks for a product only until it has found one: when
  that one has been removed, its successor stays where it is on a running belt.

## 6. Assumptions of the models

- Adapters are handed to `addAdapter` Disconnected, as in the tests.
- `disconnect()`, and `connect()` of an adapter that binds anew, do not run while
  another thread executes on the equipment they destroy (its pointers are
  non-owning, `AdapterManager.hh:31`).
- In `IcpRuntime` a client's `execute` is one step, at the moment it fails; its
  inner steps are in `MqttAdapters` and `RequestReplyAdapter`.
- `clearCommunicationFailure` of the mock runs between passes, as in the tests.
- The mock is used by one thread at a time (nothing in it locks), and equipment it
  has destroyed is not used.
- Callbacks of the Paho library run on one thread, as its documentation says.
- MQTT client ids are configured ones; generated ones are fresh and cannot clash.
- Unsynchronised reads of `connection_state_`, `active_client_id_` and the Paho
  handle are undefined behaviour in C++; the models take them as reads of some
  value the variable had, in every order.
- The handles of open62541 and libcurl are used by one thread at a time, so on
  OPC UA and REST only the owner executes.
- One client at a time uses an EtherNet/IP tag: the run has one client, the proofs assume
  `TagsApart`.
- The parameter of a command is a number: with a NaN a register gets 65535, and
  `lround` of it, for a DINT, is unspecified.
- `Start`, `Stop` and `SetSpeed` of the plugin are called between two updates, on
  the simulation's thread: nothing in it locks.
- The world's products keep their name; one that leaves loses its pose.
- A Modbus reply to another thread's request is a failed read: libmodbus compares
  transaction ids.

## 7. Not modelled

- The parsing of payloads, JSON documents and variants beyond what a state or a
  number needs of them: data without control, and the tests cover it.
- Error texts, timestamps, logging, configuration structs. Time appears only as the
  fact that deadlines pass.
- `AdapterFactory`: seven constructors without state.
- libcurl, libmodbus, libplctag, open62541 and Paho, beyond what the sessions see of
  them. `HttpSession::request` resets its handle before every exchange, so no
  option of an earlier request is state.
- The races inside an object that the code shares between threads without a lock
  and the libraries forbid to share; section 6 says how they are taken.
- `Conveyor::setFault` and the conveyor's telemetry, which nothing calls.
- Build files, Gazebo models and worlds, documents and tests.
