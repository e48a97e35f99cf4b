---------------------------- MODULE ConveyorPlugin ----------------------------
(***************************************************************************)
(* ConveyorSystem, the Gazebo plugin of a conveyor, with the Conveyor it   *)
(* drives.  Each update of the simulation looks for the product until one  *)
(* is found, applies the development schedule, moves the product and sets  *)
(* the velocity of the belt.  Start, Stop and SetSpeed may be called       *)
(* between two updates; products enter and leave the world at any time.    *)
(*                                                                         *)
(* A plugin without a belt link has no Conveyor and ignores every call; a  *)
(* paused update does nothing.  Updates last one unit of time, so that the *)
(* displacement of an update is a speed.                                   *)
(***************************************************************************)
EXTENDS Integers

CONSTANTS
    Requests,       \* arguments of SetSpeed: numbers, and NaN
    NaN,
    DefaultSpeed,
    StartAt,        \* the updates in which the schedule starts and stops
    StopAt,
    MaxEntities     \* bound: how many products enter the world

None     == 0
Entities == 1 .. MaxEntities

ASSUME SpeedAssumption    == /\ Requests \subseteq Int \cup {NaN} /\ NaN \notin Int
                             /\ DefaultSpeed \in Nat \ {0}
ASSUME ScheduleAssumption == /\ StartAt \in Nat /\ StopAt \in Nat
                             /\ 0 < StartAt /\ StartAt < StopAt
ASSUME EntitiesAssumption == MaxEntities \in Nat

VARIABLES
    plugin,     \* Configure has not run, found no belt link, or found it
    updates,    \* updateCount_, which no longer matters beyond StopAt
    running,    \* the Conveyor's operational_state_ is Running
    speed,      \* and its speed_
    scene,      \* the entities named PRODUCT-001 in the world
    born,       \* how many there have been; an entity id is not used again
    product,    \* productEntity_
    velocity,   \* the linear velocity of the belt
    moved,      \* history: the displacement of each entity in the last update
    order,      \* history: the last of all starts and stops
    zeroed      \* history: SetSpeed has asked for 0 since

conveyor == <<running, speed, order, zeroed>>
world    == <<scene, born>>
motion   == <<product, velocity, moved>>
vars     == <<plugin, updates, conveyor, world, motion>>

Speeds == Nat \cup {NaN}

AtRest == [e \in Entities |-> 0]

-------------------------------------------------------------------------------
(* Conveyor                                                                *)

\* (Bug: a start keeps whatever speed there is.)
SpeedKept == speed

\* start: the default replaces a speed that would not move the belt.  A comparison
\* with NaN is false.
StartSpeed == IF speed # NaN /\ speed <= 0 THEN DefaultSpeed ELSE speed

Started == /\ running' = TRUE /\ speed' = StartSpeed
           /\ order' = "start" /\ zeroed' = FALSE

Stopped == /\ running' = FALSE /\ speed' = 0
           /\ order' = "stop" /\ zeroed' = FALSE

\* (Bug: the sign is not looked at.)
AcceptsAll(v) == TRUE

\* setSpeed
Accepts(v) == v # NaN => v >= 0

-------------------------------------------------------------------------------
(* ConveyorSystem                                                          *)

\* The model has a belt link or it does not.
Configure ==
    /\ plugin = "new"
    /\ plugin' \in {"ready", "beltless"}
    /\ UNCHANGED <<updates, conveyor, world, motion>>

Start ==
    /\ plugin = "ready"
    /\ Started
    /\ UNCHANGED <<plugin, updates, world, motion>>

Stop ==
    /\ plugin = "ready"
    /\ Stopped
    /\ UNCHANGED <<plugin, updates, world, motion>>

SetSpeed ==
    /\ plugin = "ready"
    /\ \E v \in Requests : Accepts(v) /\ speed' = v /\ zeroed' = (v = 0)
    /\ UNCHANGED <<plugin, updates, running, order, world, motion>>

Counted == IF updates > StopAt THEN updates ELSE updates + 1

\* Nothing is looked for once a product is known, whether or not it still exists.
Found == IF product = None /\ scene # {} THEN scene ELSE {product}

Scheduled == CASE Counted = StartAt -> Started
               [] Counted = StopAt  -> Stopped
               [] OTHER             -> UNCHANGED conveyor

\* (Bug: the product is moved before the schedule has been applied.)
MovedFirst == [e \in Entities |-> IF running /\ e = product' /\ e \in scene THEN speed ELSE 0]

\* Only the known product moves, if it still has a pose.
Moved == [e \in Entities |-> IF running' /\ e = product' /\ e \in scene THEN speed' ELSE 0]

Update ==
    /\ plugin = "ready"
    /\ updates' = Counted
    /\ product' \in Found
    /\ Scheduled
    /\ moved' = Moved
    /\ velocity' = IF running' THEN speed' ELSE 0
    /\ UNCHANGED <<plugin, world>>

-------------------------------------------------------------------------------
(* The world                                                               *)

Enter ==
    /\ born < MaxEntities
    /\ born' = born + 1
    /\ scene' = scene \cup {born + 1}
    /\ UNCHANGED <<plugin, updates, conveyor, motion>>

Leave ==
    /\ \E e \in scene : scene' = scene \ {e}
    /\ UNCHANGED <<plugin, updates, conveyor, born, motion>>

-------------------------------------------------------------------------------
Init ==
    /\ plugin = "new"
    /\ updates = 0
    /\ running = FALSE /\ speed = 0
    /\ order = "stop" /\ zeroed = FALSE
    /\ scene = {} /\ born = 0
    /\ product = None
    /\ velocity = 0
    /\ moved = AtRest

Next == Configure \/ Start \/ Stop \/ SetSpeed \/ Update \/ Enter \/ Leave

Spec == Init /\ [][Next]_vars

-------------------------------------------------------------------------------
(* Properties                                                              *)

\* Types; no speed is negative, whatever SetSpeed is asked for (setSpeed).
TypeOK ==
    /\ plugin \in {"new", "ready", "beltless"}
    /\ updates \in 0 .. StopAt + 1
    /\ running \in BOOLEAN /\ speed \in Speeds
    /\ order \in {"start", "stop"} /\ zeroed \in BOOLEAN
    /\ born \in 0 .. MaxEntities /\ scene \subseteq 1 .. born
    /\ product \in {None} \cup 1 .. born
    /\ velocity \in Speeds
    /\ moved \in [Entities -> Speeds]

\* After an update the belt moves exactly if the last order, from the schedule or
\* from outside, was to start and no speed of 0 has been asked for since; what was
\* set before or while the belt stood does not keep it from moving (execute).
BeltObeysOrders ==
    [][Update => (velocity' # 0 <=> order' = "start" /\ ~zeroed')]_vars

\* In an update one product moves, as far as the belt does in the same update: the
\* one found first, or one found now.  When that one has left, no other ever moves
\* (PreUpdate).
ProductFollowsBelt ==
    [][Update =>
         LET riding == {e \in scene : product \in {None, e}}
         IN  IF riding = {} THEN moved' = AtRest
             ELSE \E e \in riding : moved' = [AtRest EXCEPT ![e] = velocity']]_vars
==============================================================================
