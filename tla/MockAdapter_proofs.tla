-------------------------- MODULE MockAdapter_proofs --------------------------
(***************************************************************************)
(* What holds of the mock adapter for all devices, points and capabilities.*)
(***************************************************************************)
EXTENDS MockAdapter, TLAPS

LEMMA CommandedIsReading ==
    ASSUME TypeOK, NEW d \in Devices, NEW p \in Points, NEW v \in Values
    PROVE  Commanded(d, p, v) \in Readings
<1>1. shown[d][p] \in Readings \cup {NoPoint}
    BY DEF TypeOK, Telemetry
<1>2. (shown[d][p] # NoPoint /\ shown[d][p].unit) \in BOOLEAN
    OBVIOUS
<1> QED BY <1>2 DEF Commanded, Readings

LEMMA FilledIsTelemetry ==
    ASSUME TypeOK, NEW d \in Devices
    PROVE  Filled(d) \in Telemetry
BY DEF TypeOK, Filled, Telemetry

\* Every state of the mock is well typed, and nothing of an equipment survives
\* its destruction.
THEOREM TypeCorrect == Spec => []TypeOK
<1>1. Init => TypeOK
    BY DEF Init, TypeOK, Empty, Telemetry, ConnStates, Errors
<1>2. TypeOK /\ [Next]_vars => TypeOK'
  <2> SUFFICES ASSUME TypeOK, [Next]_vars PROVE TypeOK'
      OBVIOUS
  <2> USE DEF TypeOK, config, link, inner
  <2>1. ASSUME NEW d \in Devices, AddDevice(d) PROVE TypeOK'
      BY <2>1 DEF AddDevice
  <2>2. ASSUME NEW d \in Devices, NEW c \in Configurable[d], AddCapability(d, c)
        PROVE  TypeOK'
    <3>1. c \in Commands
        BY ConfigurableAssumption
    <3> QED BY <2>2, <3>1 DEF AddCapability
  <2>3. ASSUME NEW d \in Devices, NEW p \in Points, NEW v \in Values,
               SetSourceTelemetry(d, p, v)
        PROVE  TypeOK'
    <3>1. [value |-> v, unit |-> TRUE] \in Readings
        BY DEF Readings
    <3> QED BY <2>3, <3>1 DEF SetSourceTelemetry, Telemetry
  <2>4. CASE Connect
      BY <2>4 DEF Connect, BindDevices, ConnStates, Errors
  <2>5. CASE ConnectRefused \/ PollFaulted \/ SimulateCommunicationFailure
      BY <2>5 DEF ConnectRefused, PollFaulted, SimulateCommunicationFailure, ConnStates, Errors
  <2>6. CASE Disconnect \/ ClearCommunicationFailure
    <3>1. Empty \in Telemetry
        BY DEF Empty, Telemetry
    <3>2. Unbind /\ conn' = "Disconnected" /\ error' = "none" /\ UNCHANGED config
        BY <2>6 DEF Disconnect, ClearCommunicationFailure
    <3> QED BY <3>1, <3>2 DEF Unbind, ConnStates, Errors
  <2>7. CASE Poll
    <3>1. PICK garbage \in [dangling -> Telemetry] :
              shown' = [d \in Devices |-> IF d \in dangling THEN garbage[d]
                                          ELSE IF d \in bound THEN Filled(d)
                                          ELSE shown[d]]
        BY <2>7 DEF Poll
    <3>2. shown' \in [Devices -> Telemetry]
        BY <3>1, FilledIsTelemetry
    <3> QED BY <2>7, <3>2 DEF Poll
  <2>8. ASSUME NEW d \in Devices, NEW p \in Points, NEW v \in Values, ExecuteSet(d, p, v)
        PROVE  TypeOK'
    <3>1. Commanded(d, p, v) \in Readings
        BY CommandedIsReading
    <3> QED BY <2>8, <3>1 DEF ExecuteSet, WrittenBack, Telemetry
  <2>9. ASSUME NEW d \in Devices, ExecuteStart(d) \/ ExecuteStop(d) PROVE TypeOK'
      BY <2>9 DEF ExecuteStart, ExecuteStop, Accepts, Exposed
  <2> QED BY <2>1, <2>2, <2>3, <2>4, <2>5, <2>6, <2>7, <2>8, <2>9
          DEF Next, Configure, Execute, vars
<1> QED BY <1>1, <1>2, PTL DEF Spec

-------------------------------------------------------------------------------
(* Equipment and device agree                                              *)


\* A point set from outside has its unit in the device, until it is seen.
UnseenHasUnit == \A d \in bound, p \in Points :
                    <<d, p>> \in unseen => HasUnit(source[d][p])

LEMMA ConfiguredHasUnit ==
    ASSUME NEW v \in Values
    PROVE  HasUnit([value |-> v, unit |-> TRUE])
<1> DEFINE point == [value |-> v, unit |-> TRUE]
<1>1. point \in [value : Values, unit : BOOLEAN]
    OBVIOUS
<1>2. point.unit = TRUE
    OBVIOUS
<1> HIDE DEF point
<1>3. point # NoPoint
    BY <1>1, NoPointAssumption
<1>4. HasUnit(point)
    BY <1>2, <1>3 DEF HasUnit
<1> QED BY <1>4 DEF point

LEMMA SourceStep ==
    TypeOK /\ ShownIsSource /\ UnseenHasUnit /\ [Next]_vars => (ShownIsSource /\ UnseenHasUnit)'
<1> SUFFICES ASSUME TypeOK, ShownIsSource, UnseenHasUnit, [Next]_vars
             PROVE  ShownIsSource' /\ UnseenHasUnit'
    OBVIOUS
<1> USE DEF ShownIsSource, UnseenHasUnit, config, link, inner
<1>1. ASSUME NEW d \in Devices, AddDevice(d) PROVE ShownIsSource' /\ UnseenHasUnit'
    BY <1>1 DEF AddDevice, TypeOK
<1>2. ASSUME NEW d \in Devices, NEW p \in Points, NEW v \in Values,
             SetSourceTelemetry(d, p, v)
      PROVE  ShownIsSource' /\ UnseenHasUnit'
  <2>1. /\ bound' = bound /\ dangling' = dangling /\ shown' = shown
        /\ unseen' = IF d \in bound THEN unseen \cup {<<d, p>>} ELSE unseen
        /\ source' = [source EXCEPT ![d][p] = [value |-> v, unit |-> TRUE]]
      BY <1>2 DEF SetSourceTelemetry
  <2>2. source'[d][p] = [value |-> v, unit |-> TRUE]
      BY <2>1 DEF TypeOK, Telemetry
  <2>3. HasUnit(source'[d][p])
      BY <2>2, ConfiguredHasUnit
  <2>4. ASSUME NEW e \in bound, NEW q \in Points, <<e, q>> # <<d, p>>
        PROVE  source'[e][q] = source[e][q]
      BY <2>1, <2>4 DEF TypeOK, Telemetry
  <2>5. ShownIsSource'
    <3> SUFFICES ASSUME NEW e \in bound \ dangling, NEW q \in Points, <<e, q>> \notin unseen'
                 PROVE  shown'[e][q] = source'[e][q]
        BY <2>1
    <3>1. <<e, q>> # <<d, p>> /\ <<e, q>> \notin unseen
        BY <2>1
    <3> QED BY <2>1, <2>4, <3>1
  <2>6. UnseenHasUnit'
    <3> SUFFICES ASSUME NEW e \in bound, NEW q \in Points, <<e, q>> \in unseen'
                 PROVE  HasUnit(source'[e][q])
        BY <2>1
    <3>1. CASE <<e, q>> = <<d, p>>
        BY <2>3, <3>1
    <3>2. CASE <<e, q>> # <<d, p>>
      <4>1. <<e, q>> \in unseen
          BY <2>1, <3>2
      <4> QED BY <2>4, <3>2, <4>1
    <3> QED BY <3>1, <3>2
  <2> QED BY <2>5, <2>6
<1>3. CASE Connect \/ Disconnect \/ ClearCommunicationFailure
    BY <1>3 DEF Connect, BindDevices, Disconnect, ClearCommunicationFailure, Unbind
<1>4. CASE Poll
  <2>1. unseen' = {} /\ bound' = bound /\ dangling' = dangling /\ source' = source
      BY <1>4 DEF Poll
  <2> SUFFICES ASSUME NEW e \in bound \ dangling, NEW q \in Points
               PROVE  shown'[e][q] = source[e][q]
      BY <2>1
  <2>2. e \in Devices /\ shown'[e] = Filled(e)
      BY <1>4 DEF Poll, TypeOK
  <2>3. source[e][q] = NoPoint => shown[e][q] = NoPoint
      BY DEF HasUnit
  <2> QED BY <2>2, <2>3 DEF Filled
<1>5. ASSUME NEW d \in Devices, NEW p \in Points, NEW v \in Values, ExecuteSet(d, p, v)
      PROVE  ShownIsSource' /\ UnseenHasUnit'
  <2> DEFINE point == Commanded(d, p, v)
  <2>1. /\ shown' = [shown EXCEPT ![d][p] = point]
        /\ source' = [source EXCEPT ![d][p] = point]
        /\ unseen' = unseen \ {<<d, p>>} /\ bound' = bound /\ dangling' = dangling
      BY <1>5 DEF ExecuteSet, WrittenBack
  <2> HIDE DEF point
  <2>2. shown'[d][p] = point /\ source'[d][p] = point
      BY <2>1 DEF TypeOK, Telemetry
  <2>3. ASSUME NEW e \in bound, NEW q \in Points, <<e, q>> # <<d, p>>
        PROVE  shown'[e][q] = shown[e][q] /\ source'[e][q] = source[e][q]
      BY <2>1, <2>3 DEF TypeOK, Telemetry
  <2>4. ASSUME NEW e \in bound \ dangling, NEW q \in Points, <<e, q>> \notin unseen'
        PROVE  shown'[e][q] = source'[e][q]
    <3>1. CASE <<e, q>> = <<d, p>>
        BY <2>2, <3>1
    <3>2. CASE <<e, q>> # <<d, p>>
        BY <2>1, <2>3, <2>4, <3>2
    <3> QED BY <3>1, <3>2
  <2>5. ASSUME NEW e \in bound, NEW q \in Points, <<e, q>> \in unseen'
        PROVE  HasUnit(source'[e][q])
    <3>1. <<e, q>> # <<d, p>> /\ <<e, q>> \in unseen
        BY <2>1, <2>5
    <3> QED BY <2>3, <3>1
  <2> QED BY <2>1, <2>4, <2>5
<1>6. ASSUME \/ \E d \in Devices : \/ ExecuteStart(d) \/ ExecuteStop(d)
                                   \/ \E c \in Configurable[d] : AddCapability(d, c)
             \/ ConnectRefused \/ SimulateCommunicationFailure \/ PollFaulted
             \/ UNCHANGED vars
      PROVE  ShownIsSource' /\ UnseenHasUnit'
    BY <1>6 DEF ExecuteStart, ExecuteStop, AddCapability, ConnectRefused,
                SimulateCommunicationFailure, PollFaulted, vars
<1> QED BY <1>1, <1>2, <1>3, <1>4, <1>5, <1>6 DEF Next, Configure, Execute

LEMMA SourceInvariant == Spec => [](TypeOK /\ ShownIsSource /\ UnseenHasUnit)
<1>1. Init => ShownIsSource /\ UnseenHasUnit
    BY DEF Init, ShownIsSource, UnseenHasUnit
<1> QED BY <1>1, SourceStep, TypeCorrect, PTL DEF Spec

\* An accepted command is in the equipment and in the device, so polls and
\* reconnects never take it back.
THEOREM EquipmentShowsItsSource == Spec => []ShownIsSource
<1> QED BY SourceInvariant, PTL

LEMMA UnitStep ==
    ASSUME TypeOK, ShownIsSource, UnseenHasUnit, [Next]_vars,
           NEW d \in bound \ dangling, NEW p \in Points, HasUnit(shown[d][p])
    PROVE  HasUnit(source'[d][p]) /\ (d \in bound' => HasUnit(shown'[d][p]))
<1>1. d \in Devices /\ HasUnit(source[d][p])
  <2>1. CASE <<d, p>> \in unseen
      BY <2>1 DEF UnseenHasUnit, TypeOK
  <2>2. CASE <<d, p>> \notin unseen
      BY <2>2 DEF ShownIsSource, TypeOK
  <2> QED BY <2>1, <2>2
<1> USE DEF config, link, inner
<1>2. ASSUME NEW e \in Devices, NEW q \in Points, NEW v \in Values,
             SetSourceTelemetry(e, q, v)
      PROVE  HasUnit(source'[d][p]) /\ HasUnit(shown'[d][p])
  <2>1. source' = [source EXCEPT ![e][q] = [value |-> v, unit |-> TRUE]] /\ shown' = shown
      BY <1>2 DEF SetSourceTelemetry
  <2>2. \/ source'[d][p] = source[d][p]
        \/ source'[d][p] = [value |-> v, unit |-> TRUE]
      BY <1>1, <2>1 DEF TypeOK, Telemetry
  <2> QED BY <1>1, <2>1, <2>2, ConfiguredHasUnit
<1>3. CASE Connect
    BY <1>1, <1>3 DEF Connect, BindDevices
<1>4. CASE Disconnect \/ ClearCommunicationFailure
    BY <1>1, <1>4 DEF Disconnect, ClearCommunicationFailure, Unbind
<1>5. CASE Poll
  <2>1. source' = source /\ shown'[d] = Filled(d)
      BY <1>1, <1>5 DEF Poll
  <2> QED BY <1>1, <2>1 DEF Filled, HasUnit
<1>6. ASSUME NEW e \in Devices, NEW q \in Points, NEW v \in Values, ExecuteSet(e, q, v)
      PROVE  HasUnit(source'[d][p]) /\ HasUnit(shown'[d][p])
  <2> DEFINE point == Commanded(e, q, v)
  <2>1. /\ shown' = [shown EXCEPT ![e][q] = point]
        /\ source' = [source EXCEPT ![e][q] = point]
      BY <1>6 DEF ExecuteSet, WrittenBack
  <2>2. CASE <<e, q>> = <<d, p>>
    <3>1. point = [value |-> v, unit |-> TRUE]
        BY <2>2 DEF Commanded, HasUnit
    <3>2. HasUnit(point)
        BY <3>1, ConfiguredHasUnit
    <3> HIDE DEF point
    <3>3. shown'[d][p] = point /\ source'[d][p] = point
        BY <2>1, <2>2 DEF TypeOK, Telemetry
    <3> QED BY <3>2, <3>3
  <2>3. CASE <<e, q>> # <<d, p>>
    <3> HIDE DEF point
    <3>1. shown'[d][p] = shown[d][p] /\ source'[d][p] = source[d][p]
        BY <1>1, <2>1, <2>3 DEF TypeOK, Telemetry
    <3> QED BY <1>1, <3>1
  <2> QED BY <2>2, <2>3
<1>7. ASSUME \/ \E e \in Devices : \/ ExecuteStart(e) \/ ExecuteStop(e) \/ AddDevice(e)
                                   \/ \E c \in Configurable[e] : AddCapability(e, c)
             \/ ConnectRefused \/ SimulateCommunicationFailure \/ PollFaulted
             \/ UNCHANGED vars
      PROVE  HasUnit(source'[d][p]) /\ HasUnit(shown'[d][p])
    BY <1>1, <1>7 DEF ExecuteStart, ExecuteStop, AddCapability, AddDevice, ConnectRefused,
                SimulateCommunicationFailure, PollFaulted, vars
<1> QED BY <1>2, <1>3, <1>4, <1>5, <1>6, <1>7 DEF Next, Configure, Execute

\* Units that have been shown survive every command, poll and reconnect.
THEOREM ShownUnitsAreKept == Spec => UnitsAreKept
<1>1. TypeOK /\ ShownIsSource /\ UnseenHasUnit /\ [Next]_vars
        => [\A d \in bound \ dangling, p \in Points :
               HasUnit(shown[d][p]) =>
                  /\ HasUnit(source'[d][p])
                  /\ d \in bound' => HasUnit(shown'[d][p])]_vars
    BY UnitStep
<1> QED BY <1>1, SourceInvariant, PTL DEF Spec, UnitsAreKept

-------------------------------------------------------------------------------
(* The mock as an adapter                                                  *)

LEMMA ContractStep ==
    ASSUME TypeOK, [Next]_vars
    PROVE  [Contract!Next]_(Contract!vars)
<1> USE DEF Contract!Next, Contract!vars, Data
<1>1. ASSUME NEW d \in Devices,
             \/ AddDevice(d)
             \/ \E c \in Configurable[d] : AddCapability(d, c)
             \/ \E p \in Points, v \in Values :
                   SetSourceTelemetry(d, p, v) \/ ExecuteSet(d, p, v)
             \/ ExecuteStart(d) \/ ExecuteStop(d)
      PROVE  UNCHANGED Contract!vars
    BY <1>1 DEF AddDevice, AddCapability, SetSourceTelemetry, ExecuteSet, ExecuteStart,
                ExecuteStop, link
<1>2. CASE Connect
    BY <1>2 DEF Connect, Contract!Connect
<1>3. CASE Disconnect \/ ClearCommunicationFailure
    BY <1>3 DEF Disconnect, ClearCommunicationFailure, Unbind, Contract!Disconnect
<1>4. CASE SimulateCommunicationFailure
    BY <1>4 DEF SimulateCommunicationFailure, Contract!Fault, Contract!ConnectFails,
                TypeOK, ConnStates
<1>5. CASE ConnectRefused \/ PollFaulted \/ Poll
    BY <1>5 DEF ConnectRefused, PollFaulted, Poll, link
<1>6. CASE UNCHANGED vars
    BY <1>6 DEF vars
<1> QED BY <1>1, <1>2, <1>3, <1>4, <1>5, <1>6 DEF Next, Configure, Execute

\* The mock is an adapter in the sense of IndustrialAdapter.hh, for all devices and
\* points and whatever a test makes it do.
THEOREM MockImplementsContract == Spec => ImplementsContract
<1>1. Init => Contract!Init
    BY DEF Init, Contract!Init, Data
<1>2. TypeOK /\ [Next]_vars => [Contract!Next]_(Contract!vars)
    BY ContractStep
<1> QED BY <1>1, <1>2, TypeCorrect, PTL DEF Spec, Contract!Spec, ImplementsContract
===============================================================================
