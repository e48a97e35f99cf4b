------------------------ MODULE ConveyorPlugin_proofs ------------------------
(***************************************************************************)
(* Proofs about ConveyorPlugin, for all speeds, schedules and products.    *)
(***************************************************************************)
EXTENDS ConveyorPlugin, TLAPS

USE DEF None, Entities, Speeds

\* A start leaves a speed that moves the belt, NaN included.
LEMMA StartSpeedType == speed \in Speeds => StartSpeed \in Speeds /\ StartSpeed # 0
BY SpeedAssumption DEF StartSpeed

\* SetSpeed takes no negative number.
LEMMA AcceptedType == \A v \in Requests : Accepts(v) => v \in Speeds
BY SpeedAssumption DEF Accepts

\* The belt runs exactly if the last order was to start, and then stands still only
\* if it was asked to.
OrderInv ==
    /\ running <=> order = "start"
    /\ running => (speed = 0 <=> zeroed)

LEMMA InitOrder == Init => TypeOK /\ OrderInv
<1> SUFFICES ASSUME Init PROVE TypeOK /\ OrderInv
    OBVIOUS
<1>1. OrderInv
    BY DEF Init, OrderInv
<1>2. updates \in 0 .. StopAt + 1 /\ born \in 0 .. MaxEntities
    BY ScheduleAssumption, EntitiesAssumption DEF Init
<1>3. moved \in [Entities -> Speeds]
    BY DEF Init, AtRest
<1> QED BY <1>1, <1>2, <1>3 DEF Init, TypeOK

\* What a command or the schedule does to the conveyor.
LEMMA ConveyorStep ==
    ASSUME TypeOK, OrderInv, Started \/ Stopped \/ UNCHANGED conveyor
    PROVE  /\ running' \in BOOLEAN /\ speed' \in Speeds
           /\ order' \in {"start", "stop"} /\ zeroed' \in BOOLEAN
           /\ OrderInv'
<1>1. CASE Started
    BY <1>1, StartSpeedType DEF Started, TypeOK, OrderInv
<1>2. CASE Stopped
    BY <1>2 DEF Stopped, OrderInv
<1>3. CASE UNCHANGED conveyor
    BY <1>3 DEF conveyor, TypeOK, OrderInv
<1> QED BY <1>1, <1>2, <1>3

LEMMA UpdateStep ==
    ASSUME TypeOK, OrderInv, Update PROVE TypeOK' /\ OrderInv'
<1>1. /\ running' \in BOOLEAN /\ speed' \in Speeds
      /\ order' \in {"start", "stop"} /\ zeroed' \in BOOLEAN
      /\ OrderInv'
    BY ConveyorStep DEF Update, Scheduled
<1>2. updates' \in 0 .. StopAt + 1
    BY ScheduleAssumption DEF Update, Counted, TypeOK
<1>3. product' \in {None} \cup 1 .. born
    BY DEF Update, Found, TypeOK
<1>4. moved' \in [Entities -> Speeds] /\ velocity' \in Speeds
    BY <1>1 DEF Update, Moved
<1> QED BY <1>1, <1>2, <1>3, <1>4 DEF Update, TypeOK, world

LEMMA WorldStep ==
    ASSUME TypeOK, Enter \/ Leave PROVE TypeOK'
<1>1. CASE Enter
    BY <1>1, EntitiesAssumption DEF Enter, TypeOK, conveyor, motion
<1>2. CASE Leave
    BY <1>2 DEF Leave, TypeOK, conveyor, motion
<1> QED BY <1>1, <1>2

LEMMA InvStep == TypeOK /\ OrderInv /\ [Next]_vars => TypeOK' /\ OrderInv'
<1> SUFFICES ASSUME TypeOK, OrderInv, [Next]_vars PROVE TypeOK' /\ OrderInv'
    OBVIOUS
<1>1. CASE Configure
    BY <1>1 DEF Configure, TypeOK, OrderInv, conveyor, world, motion
<1>2. CASE Start \/ Stop
  <2>1. /\ running' \in BOOLEAN /\ speed' \in Speeds
        /\ order' \in {"start", "stop"} /\ zeroed' \in BOOLEAN
        /\ OrderInv'
      BY <1>2, ConveyorStep DEF Start, Stop
  <2> QED BY <1>2, <2>1 DEF Start, Stop, TypeOK, world, motion
<1>3. CASE SetSpeed
  <2>1. PICK v \in Requests : Accepts(v) /\ speed' = v /\ zeroed' = (v = 0)
      BY <1>3 DEF SetSpeed
  <2>2. speed' \in Speeds /\ zeroed' \in BOOLEAN
      BY <2>1, AcceptedType
  <2> QED BY <1>3, <2>1, <2>2 DEF SetSpeed, TypeOK, OrderInv, world, motion
<1>4. CASE Update
    BY <1>4, UpdateStep
<1>5. CASE Enter \/ Leave
  <2>1. TypeOK'
      BY <1>5, WorldStep
  <2> QED BY <1>5, <2>1 DEF Enter, Leave, OrderInv, conveyor
<1>6. CASE UNCHANGED vars
    BY <1>6 DEF vars, TypeOK, OrderInv, conveyor, world, motion
<1> QED BY <1>1, <1>2, <1>3, <1>4, <1>5, <1>6 DEF Next

LEMMA InvHolds == Spec => [](TypeOK /\ OrderInv)
BY InitOrder, InvStep, PTL DEF Spec

\* Types hold and no speed is ever negative.
THEOREM TypeCorrect == Spec => []TypeOK
BY InvHolds, PTL

\* For every schedule and all calls from outside, the belt moves exactly when the
\* last order was to start and no speed of 0 was asked for since.
THEOREM TheBeltObeysOrders == Spec => BeltObeysOrders
<1>1. TypeOK /\ OrderInv /\ OrderInv' /\ [Next]_vars =>
        [Update => (velocity' # 0 <=> order' = "start" /\ ~zeroed')]_vars
    BY DEF Update, OrderInv
<1> QED BY <1>1, InvHolds, PTL DEF Spec, BeltObeysOrders

LEMMA RidingStep ==
    ASSUME TypeOK, Update
    PROVE  LET riding == {e \in scene : product \in {None, e}}
           IN  IF riding = {} THEN moved' = AtRest
               ELSE \E e \in riding : moved' = [AtRest EXCEPT ![e] = velocity']
<1> DEFINE riding == {e \in scene : product \in {None, e}}
<1>1. moved' = [e \in Entities |-> IF e = product' /\ e \in scene THEN velocity' ELSE 0]
    BY DEF Update, Moved
<1>2. scene \subseteq Entities /\ None \notin scene
    BY EntitiesAssumption DEF TypeOK
<1>3. CASE product' \in scene
  <2>1. product' \in riding
      BY <1>2, <1>3 DEF Update, Found
  <2>2. moved' = [AtRest EXCEPT ![product'] = velocity']
      BY <1>1, <1>2, <1>3 DEF AtRest
  <2> QED BY <2>1, <2>2
<1>4. CASE product' \notin scene
  <2>1. riding = {}
      BY <1>2, <1>4 DEF Update, Found
  <2>2. moved' = AtRest
      BY <1>1, <1>4 DEF AtRest
  <2> QED BY <2>1, <2>2
<1> QED BY <1>3, <1>4

\* However products enter and leave, the one found first moves with the belt and
\* no other ever does.
THEOREM TheProductFollowsTheBelt == Spec => ProductFollowsBelt
<1>1. TypeOK /\ [Next]_vars =>
        [Update =>
           LET riding == {e \in scene : product \in {None, e}}
           IN  IF riding = {} THEN moved' = AtRest
               ELSE \E e \in riding : moved' = [AtRest EXCEPT ![e] = velocity']]_vars
    BY RidingStep
<1> QED BY <1>1, TypeCorrect, PTL DEF Spec, ProductFollowsBelt
==============================================================================
