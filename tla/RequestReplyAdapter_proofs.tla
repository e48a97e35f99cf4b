--------------------- MODULE RequestReplyAdapter_proofs ---------------------
(***************************************************************************)
(* Proofs about RequestReplyAdapter: types, the session, the refinement of *)
(* AdapterContract for every mapping; that reads and writes reach what     *)
(* they are mapped to while exchanges that share the session do not mix.   *)
(***************************************************************************)
EXTENDS RequestReplyAdapter, SetPoints_proofs, TLAPS

USE DEF ConnStates, Steps, Indices, FieldNames, Documents, Threads

\* Documents the device or an equipment can hold.
LEMMA DocumentTypes ==
    /\ Blank \in [Indices -> [FieldNames -> {Default} \cup Int]]
    /\ \A v \in Int : Document(v) \in Documents
    /\ NotHeld \in [Indices -> SUBSET Documents]
    /\ NoRequest \in [Threads -> SUBSET Requests]
    /\ Indices \subseteq Nat /\ Len(Readings) \in Nat
    /\ FieldNames \subseteq Nat /\ FieldsOf \subseteq FieldNames
    /\ \A i \in Indices : Readings[i] \in Places
    /\ Mapped \subseteq Keys
BY MappingAssumption, FieldsAssumption DEF Blank, Document, NotHeld, NoRequest, Mapped, FieldsOf

\* Every conversion gives a number.
LEMMA EncodedType == \A p \in Places, n \in Numbers : Encoded(p, n) \in Int
<1> SUFFICES ASSUME NEW p \in Places, NEW n \in Numbers PROVE Encoded(p, n) \in Int
    OBVIOUS
<1>1. n \in Int
    BY NumbersAssumption
<1>2. Flag(n) \in Int
    BY <1>1 DEF Flag, One
<1>3. Word(n) \in Int
    BY <1>1, ClippedIsWord, WidthsAssumption
<1>4. Dint(n) \in Int
    BY <1>1, DintIsInt
<1>5. Real(n) \in Int /\ Text(n) \in Int
    BY RealAndTextAreExact
<1> QED BY <1>1, <1>2, <1>3, <1>4, <1>5 DEF Encoded

\* An equipment makes a document of a document.
LEMMA ShownType ==
    \A i \in Indices, d \in Documents : Shown(i, d) \in [FieldNames -> {Default} \cup Int]
BY DEF Shown, Flag, One

\* The place of a command and what is to be written there.
LEMMA RequestTypes ==
    ASSUME NEW r \in Requests
    PROVE  /\ r.command \in Commands /\ Place(r) \in Places /\ Place(r) \in Targets
           /\ r.asked \in Numbers /\ Written(r) \in Int
<1>1. r.command \in Commands /\ r.asked \in Numbers
    BY DEF Requests
<1>2. Place(r) \in Places /\ Place(r) \in Targets
    BY <1>1, MappingAssumption DEF Place, Targets
<1> QED BY <1>1, <1>2, EncodedType DEF Written

\* The place an exchange reaches is one of the device's.
LEMMA ReachedType == TypeOK => \A p \in Places : Reached(p) \in Places
BY DEF TypeOK, Reached, Places

LEMMA UnitForType == TypeOK => \A p \in Places : UnitFor(p) \in Units
BY DEF TypeOK, UnitFor, Places

LEMMA DeviceTakesType ==
    ASSUME TypeOK, NEW p \in Places, NEW d \in Documents, DeviceTakes(p, d)
    PROVE  device' \in [Places -> Documents] /\ held' \in [Indices -> SUBSET Documents]
BY DEF TypeOK, DeviceTakes

LEMMA InitType == Init => TypeOK
<1> SUFFICES ASSUME Init PROVE TypeOK
    OBVIOUS
<1>1. device \in [Places -> Documents]
    BY DocumentTypes DEF Init
<1>2. unit \in Units
    BY MappingAssumption DEF Init
<1>3. image \in [Indices -> [FieldNames -> {Default} \cup Int]]
    BY DocumentTypes DEF Init
<1>4. next \in 0 .. Len(Readings) + 1
    BY DocumentTypes DEF Init
<1>5. pc \in [Threads -> Steps] /\ ~ pc[Owner] \in {"prepare", "read"}
    BY DEF Init
<1>6. request \in [Threads -> SUBSET Requests] /\ held \in [Indices -> SUBSET Documents]
    BY DocumentTypes DEF Init
<1>7. buffer \in [Commands -> Int] /\ tags \subseteq Keys
    BY DEF Init
<1> QED BY <1>1, <1>2, <1>3, <1>4, <1>5, <1>6, <1>7 DEF Init, TypeOK

LEMMA ConnectingType == TypeOK /\ Connecting => TypeOK'
<1> SUFFICES ASSUME TypeOK, Connecting PROVE TypeOK'
    OBVIOUS
<1> USE DocumentTypes DEF TypeOK, session, shown, process
<1>1. CASE ConnectFails
    BY <1>1 DEF ConnectFails, Alone, EnterFault
<1>2. CASE ConnectOk
    BY <1>2, MappingAssumption DEF ConnectOk, Alone, Bound
<1>3. CASE OpenSession
    BY <1>3 DEF OpenSession, Alone, Goto
<1>4. CASE CreateTag
    BY <1>4 DEF CreateTag
<1>5. CASE CreateTagFails
    BY <1>5 DEF CreateTagFails, TagsDestroyed, EnterFault, Goto
<1>6. CASE TagsCreated
    BY <1>6 DEF TagsCreated, Bound, Goto
<1>7. CASE Disconnect
  <2>1. pc' = pc /\ pc[Owner] = "idle"
      BY <1>7 DEF Disconnect, Alone
  <2>2. image' \in [Indices -> [FieldNames -> {Default} \cup Int]]
      BY <1>7 DEF Disconnect
  <2>3. next' \in 0 .. Len(Readings) + 1
      BY <1>7 DEF Disconnect
  <2> QED BY <1>7, <2>1, <2>2, <2>3 DEF Disconnect
<1> QED BY <1>1, <1>2, <1>3, <1>4, <1>5, <1>6, <1>7 DEF Connecting

LEMMA PollingType == TypeOK /\ Polling => TypeOK'
<1> SUFFICES ASSUME TypeOK, Polling PROVE TypeOK'
    OBVIOUS
<1>1. CASE BeginPoll
  <2>1. 1 \in Indices
      BY <1>1, MappingAssumption DEF BeginPoll
  <2>2. held' \in [Indices -> SUBSET Documents]
    <3>1. \A i \in Indices : device[Readings[i]] \in Documents
        BY DocumentTypes DEF TypeOK
    <3>2. held' = [i \in Indices |-> {device[Readings[i]]}]
        BY <1>1 DEF BeginPoll
    <3> QED BY <3>1, <3>2
  <2>3. next' \in 0 .. Len(Readings) + 1 /\ next' \in Indices
      BY <1>1, <2>1 DEF BeginPoll
  <2>4. pc' \in [Threads -> Steps] /\ device' = device /\ image' = image
      BY <1>1 DEF BeginPoll, TypeOK, Goto
  <2> QED BY <1>1, <2>2, <2>3, <2>4 DEF BeginPoll, TypeOK, session
<1>2. CASE PrepareRead
  <2>1. next \in Indices
      BY <1>2 DEF PrepareRead, TypeOK
  <2>2. unit' \in Units
      BY <1>2, <2>1, DocumentTypes, UnitForType DEF PrepareRead
  <2> QED BY <1>2, <2>1, <2>2 DEF PrepareRead, TypeOK, shown, process, Goto
<1>3. CASE ReadOk
  <2>1. next \in Indices
      BY <1>3 DEF ReadOk, TypeOK
  <2>2. device[Reached(Readings[next])] \in Documents
      BY <2>1, DocumentTypes, ReachedType DEF TypeOK
  <2>3. image' \in [Indices -> [FieldNames -> {Default} \cup Int]]
      BY <1>3, <2>1, <2>2, ShownType DEF ReadOk, TypeOK
  <2>4. /\ next' \in 0 .. Len(Readings) + 1
        /\ next # Len(Readings) => next' \in Indices
      BY <1>3, <2>1, DocumentTypes DEF ReadOk, TypeOK
  <2>5. CASE next = Len(Readings)
      BY <1>3, <2>3, <2>4, <2>5, DocumentTypes
         DEF ReadOk, Proceed, PollReturns, Goto, TypeOK, session
  <2>6. CASE next # Len(Readings)
      BY <1>3, <2>3, <2>4, <2>6, DocumentTypes
         DEF ReadOk, Proceed, PollReturns, Goto, TypeOK, session
  <2> QED BY <2>5, <2>6
<1>4. CASE ReadFails
  <2>1. next \in Indices
      BY <1>4 DEF ReadFails, TypeOK
  <2>2. PICK bad \in FieldsOf :
          image' = [image EXCEPT ![next] =
                      [f \in FieldNames |-> IF f < bad
                                            THEN Shown(next, device[Readings[next]])[f]
                                            ELSE image[next][f]]]
      BY <1>4 DEF ReadFails
  <2>3. device[Readings[next]] \in Documents
      BY <2>1, DocumentTypes DEF TypeOK
  <2>4. image' \in [Indices -> [FieldNames -> {Default} \cup Int]]
    <3>1. Shown(next, device[Readings[next]]) \in [FieldNames -> {Default} \cup Int]
        BY <2>1, <2>3, ShownType
    <3> QED BY <2>1, <2>2, <3>1 DEF TypeOK
  <2> QED BY <1>4, <2>4, DocumentTypes
          DEF ReadFails, StopReading, PollReturns, EnterFault, Goto, TypeOK, session
<1> QED BY <1>1, <1>2, <1>3, <1>4 DEF Polling

LEMMA ExecutingType ==
    ASSUME TypeOK, NEW th \in Threads, Executing(th) PROVE TypeOK'
<1>0. pc[Owner]' \in {"prepare", "read"} => next \in Indices
    BY ThreadsAssumption DEF Executing, BeginExecute, ExecuteReadOnly, PrepareWrite, WriteOk,
          WriteFails, ExecuteReturns, Goto, TypeOK
<1>1. CASE BeginExecute(th)
    BY <1>0, <1>1 DEF BeginExecute, TypeOK, Goto, session, shown, process
<1>2. CASE ExecuteReadOnly(th)
    BY <1>0, <1>2 DEF ExecuteReadOnly, TypeOK, EnterFault, session, shown, process
<1>3. CASE PrepareWrite(th)
  <2>1. PICK r \in request[th] : unit' = UnitFor(Place(r)) /\ SetBuffer(r)
      BY <1>3 DEF PrepareWrite
  <2>2. r \in Requests /\ r.command \in Commands /\ Place(r) \in Places /\ Written(r) \in Int
      BY <2>1, RequestTypes DEF TypeOK
  <2>3. unit' \in Units
      BY <2>1, <2>2, UnitForType
  <2>4. buffer' \in [Commands -> Int]
      BY <2>1, <2>2 DEF SetBuffer, TypeOK
  <2> QED BY <1>0, <1>3, <2>3, <2>4 DEF PrepareWrite, TypeOK, Goto, shown, process
<1>4. ASSUME NEW r \in request[th], Accepted(r)
      PROVE  device' \in [Places -> Documents] /\ held' \in [Indices -> SUBSET Documents]
  <2>1. r \in Requests /\ r.command \in Commands /\ Place(r) \in Places /\ Written(r) \in Int
      BY RequestTypes DEF TypeOK
  <2>2. Sent(r) \in Int
      BY <2>1 DEF Sent, TypeOK
  <2> QED BY <1>4, <2>1, <2>2, ReachedType, DocumentTypes, DeviceTakesType DEF Accepted
<1>5. CASE WriteOk(th)
  <2>1. device' \in [Places -> Documents] /\ held' \in [Indices -> SUBSET Documents]
      BY <1>4, <1>5 DEF WriteOk
  <2> QED BY <1>0, <1>5, <2>1 DEF WriteOk, ExecuteReturns, TypeOK, Goto, session, shown
<1>6. CASE WriteFails(th)
  <2>1. device' \in [Places -> Documents] /\ held' \in [Indices -> SUBSET Documents]
      BY <1>4, <1>6 DEF WriteFails, process, TypeOK
  <2> QED BY <1>0, <1>6, <2>1
          DEF WriteFails, ExecuteReturns, EnterFault, TypeOK, Goto, session, shown
<1> QED BY <1>1, <1>2, <1>3, <1>5, <1>6 DEF Executing

LEMMA DeviceChangesType == TypeOK /\ DeviceChanges => TypeOK'
<1> SUFFICES ASSUME TypeOK, DeviceChanges PROVE TypeOK'
    OBVIOUS
<1>1. PICK i \in Indices, f \in FieldsOf, n \in Numbers :
        DeviceTakes(Readings[i], [device[Readings[i]] EXCEPT ![f] = Encoded(Readings[i], n)])
    BY ChangesAssumption DEF DeviceChanges
<1>2. [device[Readings[i]] EXCEPT ![f] = Encoded(Readings[i], n)] \in Documents
  <2>1. Encoded(Readings[i], n) \in Int /\ device[Readings[i]] \in Documents
      BY DocumentTypes, EncodedType DEF TypeOK
  <2> QED BY <2>1
<1>3. device' \in [Places -> Documents] /\ held' \in [Indices -> SUBSET Documents]
    BY <1>1, <1>2, DocumentTypes, DeviceTakesType
<1> QED BY <1>3 DEF DeviceChanges, TypeOK, session, shown

LEMMA TypeCorrectStep == TypeOK /\ [Next]_vars => TypeOK'
<1>1. TypeOK /\ UNCHANGED vars => TypeOK'
    BY DEF TypeOK, vars, session, shown, process
<1> QED BY <1>1, ConnectingType, PollingType, ExecutingType, DeviceChangesType DEF Next

\* Every variable keeps its type, and poll() is always at a reading of the
\* mapping, for all mappings, families and numbers of clients.
THEOREM TypeCorrect == Spec => []TypeOK
BY InitType, TypeCorrectStep, PTL DEF Spec

-----------------------------------------------------------------------------
(* The session and its tags                                                *)

\* Only EtherNet/IP has a step of its own between open() and Connected.
TagsInv ==
    /\ SessionMatchesState
    /\ pc[Owner] = "tags" => open /\ conn # "Connected"
    /\ family # "ethernetip" => tags = {}

LEMMA TagsInductive == TypeOK /\ TagsInv /\ [Next]_vars => TagsInv'
<1> SUFFICES ASSUME TypeOK, TagsInv, [Next]_vars PROVE TagsInv'
    OBVIOUS
<1> USE DEF TagsInv, SessionMatchesState, Mapped, session, shown, process
<1>1. CASE ConnectFails
    BY <1>1 DEF ConnectFails, Alone, EnterFault
<1>2. CASE ConnectOk
    BY <1>2 DEF ConnectOk, Alone
<1>3. CASE OpenSession
    BY <1>3 DEF OpenSession
<1>4. CASE CreateTag
    BY <1>4 DEF CreateTag
<1>5. CASE CreateTagFails
    BY <1>5 DEF CreateTagFails, TagsDestroyed, EnterFault, Goto, TypeOK
<1>6. CASE TagsCreated
    BY <1>6 DEF TagsCreated, Goto, TypeOK
<1>7. CASE Disconnect
    BY <1>7 DEF Disconnect, Alone
<1>8. CASE Polling
    BY <1>8 DEF Polling, BeginPoll, PrepareRead, ReadOk, ReadFails, StopReading, Proceed,
                PollReturns, EnterFault, Goto, TypeOK
<1>9. ASSUME NEW th \in Threads, Executing(th) PROVE TagsInv'
    BY <1>9 DEF Executing, BeginExecute, ExecuteReadOnly, PrepareWrite, WriteOk, WriteFails,
                ExecuteReturns, EnterFault, Goto, TypeOK
<1>10. CASE DeviceChanges
    BY <1>10 DEF DeviceChanges
<1>11. CASE UNCHANGED vars
    BY <1>11 DEF vars
<1> QED BY <1>1, <1>2, <1>3, <1>4, <1>5, <1>6, <1>7, <1>8, <1>9, <1>10, <1>11
        DEF Next, Connecting

\* Tag handles live only inside an open session and a Connected adapter has all
\* of them, wherever connect() stops and whatever else goes on.
THEOREM SessionsMatchStates == Spec => []SessionMatchesState
<1>1. Init => TagsInv
    BY ThreadsAssumption DEF Init, TagsInv, SessionMatchesState, Threads
<1>2. TagsInv => SessionMatchesState
    BY DEF TagsInv
<1> QED BY <1>1, <1>2, TagsInductive, TypeCorrect, PTL DEF Spec

-----------------------------------------------------------------------------
(* The adapter contract                                                    *)

\* What the contract says of bound equipment holds of the adapter.
ContractInv ==
    /\ conn = "Connected" => bound
    /\ next # 0 => bound
    /\ pc[Owner] \in {"prepare", "read"} => bound
    /\ \A th \in Threads : pc[th] \in {"prepare", "read", "set", "write"} =>
                             conn # "Disconnected"

LEMMA ContractInductive == TypeOK /\ ContractInv /\ [Next]_vars => ContractInv'
<1> SUFFICES ASSUME TypeOK, ContractInv, [Next]_vars PROVE ContractInv'
    OBVIOUS
<1> USE DEF ContractInv, session, shown, process
<1>1. CASE Connecting
    BY <1>1 DEF Connecting, ConnectFails, ConnectOk, OpenSession, CreateTag, CreateTagFails,
                TagsCreated, Disconnect, Bound, Alone, EnterFault, Goto, TypeOK
<1>2. CASE Polling
    BY <1>2 DEF Polling, BeginPoll, PrepareRead, ReadOk, ReadFails, StopReading, Proceed,
                PollReturns, EnterFault, Goto, TypeOK
<1>3. ASSUME NEW th \in Threads, Executing(th) PROVE ContractInv'
    BY <1>3 DEF Executing, BeginExecute, ExecuteReadOnly, PrepareWrite, WriteOk, WriteFails,
                ExecuteReturns, EnterFault, Goto, TypeOK
<1>4. CASE DeviceChanges
    BY <1>4 DEF DeviceChanges
<1>5. CASE UNCHANGED vars
    BY <1>5 DEF vars
<1> QED BY <1>1, <1>2, <1>3, <1>4, <1>5 DEF Next

LEMMA ContractStep ==
    TypeOK /\ TagsInv /\ ContractInv /\ [Next]_vars => [Contract!Next]_(Contract!vars)
<1> SUFFICES ASSUME TypeOK, TagsInv, ContractInv, [Next]_vars
             PROVE  Contract!Next \/ UNCHANGED <<conn, bound, Data, InPoll>>
    BY DEF Contract!vars
<1> USE DEF session, shown, process
<1>1. ASSUME ConnectOk \/ TagsCreated PROVE Contract!Connect
  <2>1. ~InPoll /\ ~InPoll' /\ conn # "Connected"
      BY <1>1 DEF ConnectOk, TagsCreated, Alone, InPoll, TagsInv, Goto, TypeOK, Threads
  <2>2. conn' = "Connected" /\ bound' = TRUE /\ Data' = "never"
      BY <1>1 DEF ConnectOk, TagsCreated, Bound, Data
  <2> QED BY <2>1, <2>2 DEF Contract!Connect, InPoll
<1>2. ASSUME ConnectFails \/ CreateTagFails PROVE Contract!ConnectFails
  <2>1. ~InPoll /\ ~InPoll' /\ conn # "Connected"
      BY <1>2 DEF ConnectFails, CreateTagFails, Alone, InPoll, TagsInv, Goto, TypeOK, Threads
  <2>2. conn' = "Faulted" /\ UNCHANGED <<bound, Data>>
      BY <1>2 DEF ConnectFails, CreateTagFails, EnterFault, Data
  <2> QED BY <2>1, <2>2 DEF Contract!ConnectFails, InPoll
<1>3. ASSUME Disconnect PROVE Contract!Disconnect
    BY <1>3 DEF Disconnect, Alone, Contract!Disconnect, Data, InPoll
<1>4. ASSUME BeginPoll PROVE Contract!BeginPoll
  <2>1. 1 \in Indices
      BY <1>4, MappingAssumption DEF BeginPoll
  <2> QED BY <1>4, <2>1 DEF BeginPoll, Contract!BeginPoll, Data, InPoll, ContractInv, Goto, TypeOK
<1>5. ASSUME ReadOk PROVE Contract!PollReads \/ UNCHANGED <<conn, bound, Data, InPoll>>
  <2>1. /\ next \in Indices /\ next' = next + 1 /\ UNCHANGED <<conn, bound>>
        /\ InPoll
      BY <1>5 DEF ReadOk, TypeOK, InPoll
  <2>2. CASE next = Len(Readings)
    <3>1. ~InPoll' /\ Data' = "complete"
        BY <1>5, <2>1, <2>2, DocumentTypes
           DEF ReadOk, Proceed, PollReturns, Goto, TypeOK, InPoll, Data
    <3> QED BY <2>1, <3>1 DEF Contract!PollReads, InPoll
  <2>3. CASE next # Len(Readings)
    <3>1. InPoll' /\ next' \in Indices
        BY <1>5, <2>1, <2>3, DocumentTypes DEF ReadOk, Proceed, Goto, TypeOK, InPoll
    <3> QED BY <2>1, <3>1, DocumentTypes DEF Data, InPoll
  <2> QED BY <2>2, <2>3
<1>6. ASSUME ReadFails PROVE Contract!PollFails
    BY <1>6 DEF ReadFails, StopReading, PollReturns, EnterFault, Contract!PollFails, Data, InPoll,
                Goto, TypeOK
<1>7. ASSUME NEW th \in Threads, Executing(th)
      PROVE  Contract!Fault \/ UNCHANGED <<conn, bound, Data, InPoll>>
  <2>1. UNCHANGED <<bound, next>> /\ InPoll' = InPoll
      BY <1>7 DEF Executing, BeginExecute, ExecuteReadOnly, PrepareWrite, WriteOk, WriteFails,
                  ExecuteReturns, Goto, InPoll, TypeOK
  <2>2. conn' = conn \/ (conn' = "Faulted" /\ conn # "Disconnected")
      BY <1>7 DEF Executing, BeginExecute, ExecuteReadOnly, PrepareWrite, WriteOk, WriteFails,
                  EnterFault, ContractInv
  <2> QED BY <2>1, <2>2 DEF Contract!Fault, Data, TypeOK
<1>8. ASSUME OpenSession \/ CreateTag \/ PrepareRead \/ DeviceChanges \/ UNCHANGED vars
      PROVE  UNCHANGED <<conn, bound, Data, InPoll>>
    BY <1>8 DEF OpenSession, CreateTag, PrepareRead, DeviceChanges, vars, Data, InPoll, Alone,
                Goto, TypeOK
<1> QED BY <1>1, <1>2, <1>3, <1>4, <1>5, <1>6, <1>7, <1>8
        DEF Next, Connecting, Polling, Contract!Next

\* The four families implement the contract of IndustrialAdapter: what the ICP
\* runtime relies on holds for all mappings and any number of clients.
THEOREM ContractIsImplemented == Spec => ImplementsContract
<1>1. Init => ContractInv /\ TagsInv
    BY ThreadsAssumption DEF Init, ContractInv, TagsInv, SessionMatchesState
<1>2. Init => Contract!Init
    BY DEF Init, Contract!Init, Data, InPoll, Threads
<1> QED BY <1>1, <1>2, ContractStep, ContractInductive, TagsInductive, TypeCorrect, PTL
        DEF Spec, ImplementsContract, Contract!Spec

-----------------------------------------------------------------------------
(* Reads and writes reach what they are mapped to                          *)

\* Some thread has prepared an exchange with the unit and has no answer yet.
UnderWay(u) ==
    \/ pc[Owner] = "read" /\ Readings[next][1] = u
    \/ \E th \in Threads : pc[th] = "write" /\ \E r \in request[th] : Place(r)[1] = u

\* prepare() and the exchange that follows share the session without a lock around
\* the two: on Modbus, exchanges with two units must not be under way at once, ...
UnitsApart ==
    family = "modbus" => \A u, v \in Units : UnderWay(u) /\ UnderWay(v) => u = v

\* ... and on EtherNet/IP no two writes of one command, which share its tag.
TagsApart ==
    family = "ethernetip" =>
      \A th, other \in Threads :
         th # other /\ pc[th] = "write" /\ pc[other] = "write" =>
            \A r \in request[th], q \in request[other] : r.command # q.command

\* Deployments that cannot mix their exchanges: one unit behind a Modbus endpoint,
\* or no client that writes beside the poller; one client thread for EtherNet/IP.
SingleUnit == \E u \in Units : /\ \A p \in Targets : p[1] = u
                               /\ \A i \in Indices : Readings[i][1] = u

OneClient == \A c, d \in Clients : c = d

\* The owner is in connect(), in poll() or in execute(); a thread in execute()
\* has one request, and an exchange under way goes to the unit it is meant for.
ThreadInv ==
    /\ \A c \in Clients : pc[c] \in {"idle", "set", "write"}
    /\ \A th \in Threads : pc[th] \in {"set", "write"} =>
          /\ Executes(th)
          /\ \E r \in Requests : request[th] = {r}

UnitInv ==
    family = "modbus" =>
      /\ pc[Owner] = "read" => unit = Readings[next][1]
      /\ \A th \in Threads : pc[th] = "write" => \A r \in request[th] : unit = Place(r)[1]

BufferInv ==
    family = "ethernetip" =>
      \A th \in Threads : pc[th] = "write" => \A r \in request[th] : buffer[r.command] = Written(r)

LEMMA ThreadInductive == TypeOK /\ ThreadInv /\ [Next]_vars => ThreadInv'
<1> SUFFICES ASSUME TypeOK, ThreadInv, [Next]_vars PROVE ThreadInv'
    OBVIOUS
<1> USE ThreadsAssumption DEF ThreadInv, Executes, session, shown, process
<1>1. CASE Connecting
    BY <1>1 DEF Connecting, ConnectFails, ConnectOk, OpenSession, CreateTag, CreateTagFails,
                TagsCreated, Disconnect, Goto, TypeOK
<1>2. CASE Polling
  <2>1. \E step \in {"prepare", "read", "idle"} : pc' = [pc EXCEPT ![Owner] = step]
      BY <1>2 DEF Polling, BeginPoll, PrepareRead, ReadOk, ReadFails, StopReading, Proceed,
                  PollReturns, Goto
  <2>2. UNCHANGED <<family, request>>
      BY <1>2 DEF Polling, BeginPoll, PrepareRead, ReadOk, ReadFails
  <2>3. pc[Owner] \in {"idle", "prepare", "read"}
      BY <1>2 DEF Polling, BeginPoll, PrepareRead, ReadOk, ReadFails
  <2> QED BY <2>1, <2>2, <2>3 DEF TypeOK
<1>3. ASSUME NEW th \in Threads, Executing(th) PROVE ThreadInv'
  <2>1. CASE BeginExecute(th)
    <3>1. PICK r \in Requests : request' = [request EXCEPT ![th] = {r}]
        BY <2>1 DEF BeginExecute
    <3>2. pc' = [pc EXCEPT ![th] = "set"] /\ family' = family /\ Executes(th)
        BY <2>1 DEF BeginExecute, Goto
    <3>3. request'[th] = {r} /\ pc'[th] = "set"
        BY <3>1, <3>2 DEF TypeOK
    <3>4. \A t \in Threads \ {th} : request'[t] = request[t] /\ pc'[t] = pc[t]
        BY <3>1, <3>2 DEF TypeOK
    <3> QED BY <3>2, <3>3, <3>4
  <2>2. CASE ExecuteReadOnly(th)
      BY <2>2 DEF ExecuteReadOnly
  <2>3. CASE PrepareWrite(th)
      BY <2>3 DEF PrepareWrite, Goto, TypeOK
  <2>4. CASE WriteOk(th) \/ WriteFails(th)
    <3>1. /\ pc' = [pc EXCEPT ![th] = "idle"] /\ request' = [request EXCEPT ![th] = {}]
          /\ family' = family
        BY <2>4 DEF WriteOk, WriteFails, ExecuteReturns, Goto
    <3> QED BY <3>1 DEF TypeOK
  <2> QED BY <1>3, <2>1, <2>2, <2>3, <2>4 DEF Executing
<1>4. CASE DeviceChanges
    BY <1>4 DEF DeviceChanges
<1>5. CASE UNCHANGED vars
    BY <1>5 DEF vars
<1> QED BY <1>1, <1>2, <1>3, <1>4, <1>5 DEF Next

LEMMA UnitInductive ==
    TypeOK /\ UnitsApart' /\ ThreadInv /\ UnitInv /\ [Next]_vars => UnitInv'
<1> SUFFICES ASSUME TypeOK, UnitsApart', ThreadInv, UnitInv, [Next]_vars, family = "modbus",
                    family' = "modbus"
             PROVE  UnitInv'
  <2>1. [Next]_vars => family' = family
      BY DEF Next, Connecting, ConnectFails, ConnectOk, OpenSession, CreateTag, CreateTagFails,
             TagsCreated, Disconnect, Polling, BeginPoll, PrepareRead, ReadOk, ReadFails,
             Executing, BeginExecute, ExecuteReadOnly, PrepareWrite, WriteOk, WriteFails,
             DeviceChanges, vars
  <2> QED BY <2>1 DEF UnitInv
<1> USE ThreadsAssumption, DocumentTypes DEF session, shown, process
<1>0. \A th \in Threads : \A r \in request[th] : Place(r)[1] \in Units
    BY RequestTypes DEF TypeOK, Places
<1>a. \A i \in Indices : Readings[i][1] \in Units
    BY DEF Places
\* The unit that is addressed now is that of every exchange under way.
<1>b. ASSUME NEW u \in Units, unit' = u, UnderWay(u)', request' = request, next' = next,
             pc'[Owner] = "read" => next \in Indices
      PROVE  UnitInv'
  <2>1. ASSUME pc'[Owner] = "read"
        PROVE  u = Readings[next][1]
    <3>1. Readings[next][1] \in Units /\ UnderWay(Readings[next][1])'
        BY <1>a, <1>b, <2>1 DEF UnderWay
    <3> QED BY <1>b, <3>1 DEF UnitsApart
  <2>2. ASSUME NEW th \in Threads, pc'[th] = "write", NEW r \in request[th]
        PROVE  u = Place(r)[1]
    <3>1. Place(r)[1] \in Units /\ UnderWay(Place(r)[1])'
        BY <1>0, <1>b, <2>2 DEF UnderWay
    <3> QED BY <1>b, <3>1 DEF UnitsApart
  <2> QED BY <1>b, <2>1, <2>2 DEF UnitInv
<1> USE DEF UnitInv
<1>1. CASE Connecting
    BY <1>1 DEF Connecting, ConnectFails, ConnectOk, OpenSession, CreateTag, CreateTagFails,
                TagsCreated, Disconnect, Alone, Goto, TypeOK
<1>2. CASE PrepareRead
  <2>1. /\ next \in Indices /\ next' = next /\ request' = request
        /\ unit' = Readings[next][1] /\ pc'[Owner] = "read"
      BY <1>2 DEF PrepareRead, UnitFor, Goto, TypeOK
  <2>2. PICK u \in Units : u = Readings[next][1]
      BY <1>a, <2>1
  <2>3. UnderWay(u)'
      BY <2>1, <2>2 DEF UnderWay
  <2> QED BY <1>b, <2>1, <2>2, <2>3
<1>3. CASE BeginPoll \/ ReadOk \/ ReadFails
    BY <1>3 DEF BeginPoll, ReadOk, ReadFails, StopReading, Proceed, PollReturns, Goto, TypeOK
<1>4. ASSUME NEW th \in Threads, PrepareWrite(th) PROVE UnitInv'
  <2>1. PICK r \in request[th] : unit' = Place(r)[1]
      BY <1>4 DEF PrepareWrite, UnitFor
  <2>2. /\ request' = request /\ next' = next /\ pc'[th] = "write"
        /\ pc'[Owner] = "read" => next \in Indices
      BY <1>4 DEF PrepareWrite, Goto, TypeOK
  <2>3. PICK u \in Units : u = Place(r)[1]
      BY <1>0
  <2>4. UnderWay(u)'
      BY <2>1, <2>2, <2>3 DEF UnderWay
  <2> QED BY <1>b, <2>1, <2>2, <2>3, <2>4
<1>5. ASSUME NEW th \in Threads, BeginExecute(th) \/ ExecuteReadOnly(th) \/ WriteOk(th) \/ WriteFails(th)
      PROVE  UnitInv'
    BY <1>5 DEF BeginExecute, ExecuteReadOnly, WriteOk, WriteFails, ExecuteReturns, Goto, TypeOK
<1>6. CASE DeviceChanges
    BY <1>6 DEF DeviceChanges
<1>7. CASE UNCHANGED vars
    BY <1>7 DEF vars
<1> QED BY <1>1, <1>2, <1>3, <1>4, <1>5, <1>6, <1>7 DEF Next, Polling, Executing

\* The family, and with it what a command writes, never changes.
LEMMA FamilyIsFixed ==
    [Next]_vars => family' = family /\ \A r \in Requests : Written(r)' = Written(r)
<1>1. [Next]_vars => family' = family
    BY DEF Next, Connecting, ConnectFails, ConnectOk, OpenSession, CreateTag, CreateTagFails,
           TagsCreated, Disconnect, Polling, BeginPoll, PrepareRead, ReadOk, ReadFails,
           Executing, BeginExecute, ExecuteReadOnly, PrepareWrite, WriteOk, WriteFails,
           DeviceChanges, vars
<1>2. ASSUME family' = family, NEW r \in Requests PROVE Written(r)' = Written(r)
    BY <1>2 DEF Written, Encoded, FormatAt
<1> QED BY <1>1, <1>2

LEMMA BufferInductive ==
    TypeOK /\ TagsApart' /\ ThreadInv /\ BufferInv /\ [Next]_vars => BufferInv'
<1> SUFFICES ASSUME TagsApart', family' = family, TypeOK, ThreadInv, BufferInv, [Next]_vars, family = "ethernetip",
                    NEW t \in Threads, pc'[t] = "write", NEW r \in request'[t]
             PROVE  buffer'[r.command] = Written(r)
  <2>1. TypeOK /\ [Next]_vars => \A t \in Threads : \A r \in request'[t] : r \in Requests
      BY TypeCorrectStep DEF TypeOK
  <2>2. [Next]_vars => family' = family
      BY FamilyIsFixed
  <2> QED BY <2>1, <2>2 DEF BufferInv, Written, Encoded, FormatAt
<1> USE ThreadsAssumption DEF session, shown, process
<1>0. pc[t] = "write" /\ r \in request[t] => buffer[r.command] = Written(r)
    BY DEF BufferInv
<1>1. CASE Connecting
    BY <1>0, <1>1 DEF Connecting, ConnectFails, ConnectOk, OpenSession, CreateTag,
                      CreateTagFails, TagsCreated, Disconnect, Alone, Goto, TypeOK
<1>2. CASE Polling
    BY <1>0, <1>2 DEF Polling, BeginPoll, PrepareRead, ReadOk, ReadFails, StopReading, Proceed,
                      PollReturns, Goto, TypeOK
<1>3. ASSUME NEW th \in Threads, PrepareWrite(th) PROVE buffer'[r.command] = Written(r)
  <2>1. PICK q \in Requests : request[th] = {q}
      BY <1>3 DEF PrepareWrite, ThreadInv
  <2>2. buffer' = [buffer EXCEPT ![q.command] = Written(q)] /\ request' = request
      BY <1>3, <2>1 DEF PrepareWrite, SetBuffer
  <2>3. buffer'[q.command] = Written(q)
      BY <2>1, <2>2, RequestTypes DEF TypeOK
  <2>4. CASE t = th
      BY <2>1, <2>2, <2>3, <2>4
  <2>5. CASE t # th
    <3>1. pc[t] = "write" /\ pc'[th] = "write"
        BY <1>3, <2>5 DEF PrepareWrite, Goto, TypeOK
    <3>2. q.command # r.command
        BY <2>1, <2>2, <2>5, <3>1 DEF TagsApart
    <3> QED BY <1>0, <2>2, <3>1, <3>2, RequestTypes DEF TypeOK
  <2> QED BY <2>4, <2>5
<1>4. ASSUME NEW th \in Threads, BeginExecute(th) \/ ExecuteReadOnly(th) \/ WriteOk(th) \/ WriteFails(th)
      PROVE  buffer'[r.command] = Written(r)
    BY <1>0, <1>4 DEF BeginExecute, ExecuteReadOnly, WriteOk, WriteFails, ExecuteReturns, Goto, TypeOK
<1>5. CASE DeviceChanges
    BY <1>0, <1>5 DEF DeviceChanges
<1>6. CASE UNCHANGED vars
    BY <1>0, <1>6 DEF vars
<1> QED BY <1>1, <1>2, <1>3, <1>4, <1>5, <1>6 DEF Next, Executing

LEMMA UnitInvHolds == Spec /\ []UnitsApart => [](TypeOK /\ ThreadInv /\ UnitInv)
<1>1. Init => ThreadInv /\ UnitInv
    BY ThreadsAssumption DEF Init, ThreadInv, UnitInv
<1>2. TypeOK /\ UnitsApart' /\ ThreadInv /\ UnitInv /\ [Next]_vars => (ThreadInv /\ UnitInv)'
    BY ThreadInductive, UnitInductive
<1> QED BY <1>1, <1>2, TypeCorrect, PTL DEF Spec

WriteInv == ThreadInv /\ UnitInv /\ BufferInv

LEMMA WriteInvHolds == Spec /\ []UnitsApart /\ []TagsApart => [](TypeOK /\ WriteInv)
<1>1. Init => BufferInv
    BY ThreadsAssumption DEF Init, BufferInv
<1>2. TypeOK /\ TagsApart' /\ ThreadInv /\ BufferInv /\ [Next]_vars => BufferInv'
    BY BufferInductive
<1>3. WriteInv <=> ThreadInv /\ UnitInv /\ BufferInv
    BY DEF WriteInv
<1> QED BY <1>1, <1>2, <1>3, UnitInvHolds, PTL DEF Spec

\* One unit behind a Modbus endpoint, or no client that writes beside the poller,
\* keeps the units apart without a lock: of itself the adapter serves such a site.
THEOREM OneUnitStaysApart ==
    ASSUME SingleUnit \/ Clients = {} \/ "modbus" \notin Families
    PROVE  Spec => []UnitsApart
<1>1. Init => ThreadInv
    BY ThreadsAssumption DEF Init, ThreadInv
<1>2. TypeOK /\ ThreadInv => UnitsApart
  <2> SUFFICES ASSUME TypeOK, ThreadInv, family = "modbus",
                      NEW u \in Units, NEW v \in Units, UnderWay(u), UnderWay(v)
               PROVE  u = v
      BY DEF UnitsApart
  <2>1. "modbus" \in Families
      BY DEF TypeOK
  <2>2. CASE SingleUnit
    <3>1. PICK w \in Units : /\ \A p \in Targets : p[1] = w
                             /\ \A i \in Indices : Readings[i][1] = w
        BY <2>2 DEF SingleUnit
    <3>2. \A th \in Threads : \A r \in request[th] : Place(r)[1] = w
        BY <3>1, RequestTypes DEF TypeOK
    <3>3. pc[Owner] = "read" => Readings[next][1] = w
        BY <3>1 DEF TypeOK
    <3> QED BY <3>2, <3>3 DEF UnderWay
  <2>3. CASE Clients = {}
    <3>1. \A th \in Threads : pc[th] # "write"
        BY <2>3 DEF ThreadInv, Executes
    <3> QED BY <3>1 DEF UnderWay
  <2> QED BY <2>1, <2>2, <2>3
<1> QED BY <1>1, <1>2, ThreadInductive, TypeCorrect, PTL DEF Spec

\* One client thread never writes two commands at once.
THEOREM OneClientKeepsTagsApart ==
    ASSUME OneClient \/ "ethernetip" \notin Families
    PROVE  Spec => []TagsApart
<1>1. Init => ThreadInv
    BY ThreadsAssumption DEF Init, ThreadInv
<1>2. TypeOK /\ ThreadInv => TagsApart
    BY DEF TypeOK, ThreadInv, Executes, OneClient, TagsApart
<1> QED BY <1>1, <1>2, ThreadInductive, TypeCorrect, PTL DEF Spec

\* The device takes the value of the command at its place.
LEMMA AcceptedIsMapped ==
    ASSUME TypeOK, WriteInv, NEW th \in Threads, pc[th] = "write",
           NEW r \in request[th], Accepted(r)
    PROVE  device' = [device EXCEPT ![Place(r)] = Document(Written(r))]
<1>1. Place(r) \in Places
    BY RequestTypes DEF TypeOK
<1>2. Reached(Place(r)) = Place(r)
    BY <1>1 DEF WriteInv, UnitInv, Reached, Places
<1>3. Sent(r) = Written(r)
    BY DEF WriteInv, BufferInv, Sent
<1> QED BY <1>2, <1>3 DEF Accepted, DeviceTakes

\* Only the reply of a command moves a thread and changes the device at once.
LEMMA WriteStep ==
    ASSUME TypeOK, WriteInv, [Next]_vars, pc' # pc, device' # device
    PROVE  \E th \in Threads : \E r \in request[th] :
              device' = [device EXCEPT ![Place(r)] = Document(Written(r))] /\ pc[th] = "write"
<1>1. PICK th \in Threads : WriteOk(th) \/ WriteFails(th)
    BY DEF Next, Connecting, ConnectFails, ConnectOk, OpenSession, CreateTag, CreateTagFails,
           TagsCreated, Disconnect, Polling, BeginPoll, PrepareRead, ReadOk, ReadFails,
           Executing, BeginExecute, ExecuteReadOnly, PrepareWrite, DeviceChanges, process, vars
<1>2. PICK r \in request[th] : Accepted(r) /\ pc[th] = "write"
    BY <1>1 DEF WriteOk, WriteFails, process
<1> QED BY <1>2, AcceptedIsMapped

\* As long as exchanges that share the session do not mix, a command changes the
\* device at its mapped place, to its value, and nowhere else, also beside a poll and
\* beside the commands of other clients: the mix-up that modbus_units finds is the
\* only way to a wrong place.
THEOREM WritesReachTheirPlace ==
    Spec /\ []UnitsApart /\ []TagsApart => WritesAreMapped
<1>1. TypeOK /\ WriteInv /\ [Next]_vars =>
        [pc' # pc /\ device' # device =>
           \E th \in Threads : \E r \in request[th] :
              /\ pc[th] = "write"
              /\ device' = [device EXCEPT ![Place(r)] = Document(Written(r))]]_vars
    BY WriteStep
<1> QED BY <1>1, WriteInvHolds, PTL DEF Spec, WritesAreMapped

\* The step in which a command that leaves the adapter Connected returns.
LEMMA ReplyStep ==
    ASSUME TypeOK, WriteInv, [Next]_vars, NEW th \in Threads,
           pc[th] = "write", pc'[th] = "idle", conn' = "Connected", NEW r \in request[th]
    PROVE  device'[Place(r)] = Document(Written(r)) /\ ~TypeMismatch(r) /\ r \in Requests
<1>1. ~(Connecting \/ Polling \/ DeviceChanges \/ UNCHANGED vars)
    BY ThreadsAssumption
       DEF Connecting, ConnectFails, ConnectOk, OpenSession, CreateTag, CreateTagFails,
           TagsCreated, Disconnect, Polling, BeginPoll, PrepareRead, ReadOk, ReadFails,
           StopReading, Proceed, PollReturns, DeviceChanges, Goto, vars, TypeOK
<1>2. WriteOk(th)
    BY <1>1 DEF Next, Executing, BeginExecute, ExecuteReadOnly, PrepareWrite, WriteOk, WriteFails,
                ExecuteReturns, EnterFault, Goto, TypeOK
<1>3. request[th] = {r} /\ Accepted(r)
    BY <1>2 DEF WriteOk, WriteInv, ThreadInv
<1>4. device' = [device EXCEPT ![Place(r)] = Document(Written(r))]
    BY <1>2, <1>3, AcceptedIsMapped DEF WriteOk
<1>5. r \in Requests /\ Place(r) \in Places
    BY RequestTypes DEF TypeOK
<1> QED BY <1>3, <1>4, <1>5 DEF TypeOK, Accepted

\* What an accepted command leaves is what its place can make of its parameter.
LEMMA EncodedIsDelivered ==
    ASSUME NEW r \in Requests, ~TypeMismatch(r), NEW f \in FieldsOf
    PROVE  Delivered(Place(r), r.asked, Document(Written(r))[f])
<1> DEFINE n == r.asked
           p == Place(r)
<1>1. n \in Numbers /\ n \in Int
    BY RequestTypes, NumbersAssumption
<1>2. Document(Written(r))[f] = Encoded(p, n)
    BY DocumentTypes DEF Document, Written
<1>3. Flag(n) = 0 <=> n = 0
    BY <1>1 DEF Flag, One
<1>4. Word(n) \in Words /\ \A w \in Words : Dist(Word(n), n) <= Dist(w, n)
    BY <1>1, WordIsNearest
<1>5. DintHolds(n) => Dint(n) = n
    BY <1>1, DintIsExactInRange DEF DintHolds
<1>6. (RealHolds(n) => Real(n) = n) /\ (TextHolds(n) => Text(n) = n)
    BY <1>1, RealAndTextAreExact
<1> QED BY <1>2, <1>3, <1>4, <1>5, <1>6 DEF Delivered, Encoded

\* Then a command that is answered "written" has put its parameter into the
\* device as well as its place can hold it.
THEOREM AcknowledgedCommandsAreDone ==
    Spec /\ []UnitsApart /\ []TagsApart => AcknowledgedIsDone
<1>1. TypeOK /\ WriteInv /\ [Next]_vars =>
        [\A th \in Threads :
           pc[th] = "write" /\ pc'[th] = "idle" /\ conn' = "Connected" =>
              \A r \in request[th], f \in FieldsOf :
                 Delivered(Place(r), r.asked, device'[Place(r)][f])]_vars
    BY ReplyStep, EncodedIsDelivered
<1> QED BY <1>1, WriteInvHolds, PTL DEF Spec, AcknowledgedIsDone

-----------------------------------------------------------------------------
(* What a finished poll shows                                              *)

\* During a poll the document a place has now has been remembered, and what has
\* been read so far is among the remembered.
HeldInv ==
    /\ pc[Owner] \in {"prepare", "read"} =>
          /\ \A i \in Indices : device[Readings[i]] \in held[i]
          /\ \A i \in Indices : i < next => image[i] \in {Shown(i, d) : d \in held[i]}
    /\ pc[Owner] \notin {"prepare", "read"} => held = NotHeld

LEMMA HeldTakes ==
    ASSUME TypeOK, HeldInv, NEW p \in Places, NEW d \in Documents, DeviceTakes(p, d),
           UNCHANGED <<image, next>>, (pc'[Owner] \in {"prepare", "read"}) <=> (pc[Owner] \in {"prepare", "read"})
    PROVE  HeldInv'
<1>1. CASE pc[Owner] \in {"prepare", "read"}
  <2>1. \A i \in Indices : held[i] \subseteq held'[i]
      BY DEF DeviceTakes
  <2>2. \A i \in Indices : device'[Readings[i]] \in held'[i]
    <3> TAKE i \in Indices
    <3>1. held[i] # {} /\ device[Readings[i]] \in held[i]
        BY <1>1 DEF HeldInv
    <3>2. CASE Readings[i] = p
        BY <3>1, <3>2 DEF DeviceTakes, TypeOK
    <3>3. CASE Readings[i] # p
        BY <3>1, <3>3, <2>1, DocumentTypes DEF DeviceTakes, TypeOK
    <3> QED BY <3>2, <3>3
  <2>3. \A i \in Indices : i < next' => image'[i] \in {Shown(i, e) : e \in held'[i]}
      BY <1>1, <2>1 DEF HeldInv
  <2> QED BY <1>1, <2>2, <2>3 DEF HeldInv
<1>2. CASE pc[Owner] \notin {"prepare", "read"}
  <2>1. held' = NotHeld
      BY <1>2 DEF HeldInv, DeviceTakes, NotHeld
  <2> QED BY <1>2, <2>1 DEF HeldInv
<1> QED BY <1>1, <1>2

\* The value a reading takes is one the device has had since poll() began.
LEMMA ReadIsHeld ==
    ASSUME TypeOK, UnitInv, HeldInv, ReadOk
    PROVE  /\ next \in Indices
           /\ image' = [image EXCEPT ![next] = Shown(next, device[Readings[next]])]
           /\ \A i \in Indices : i <= next => image'[i] \in {Shown(i, d) : d \in held[i]}
<1>1. next \in Indices /\ Readings[next] \in Places
    BY DocumentTypes DEF ReadOk, TypeOK
<1>2. Reached(Readings[next]) = Readings[next]
    BY <1>1 DEF UnitInv, Reached, ReadOk, Places
<1>3. image' = [image EXCEPT ![next] = Shown(next, device[Readings[next]])]
    BY <1>2 DEF ReadOk
<1>4. \A i \in Indices : i <= next => image'[i] \in {Shown(i, d) : d \in held[i]}
  <2> TAKE i \in Indices
  <2>1. CASE i = next
      BY <1>1, <1>3, <2>1 DEF HeldInv, ReadOk, TypeOK
  <2>2. CASE i < next
      BY <1>1, <1>3, <2>2, DocumentTypes DEF HeldInv, ReadOk, TypeOK
  <2> QED BY <1>1, <2>1, <2>2, DocumentTypes
<1> QED BY <1>1, <1>3, <1>4

LEMMA HeldInductive ==
    TypeOK /\ UnitInv /\ ThreadInv /\ HeldInv /\ [Next]_vars => HeldInv'
<1> SUFFICES ASSUME TypeOK, UnitInv, ThreadInv, HeldInv, [Next]_vars PROVE HeldInv'
    OBVIOUS
<1> USE ThreadsAssumption DEF session, shown, process
<1>1. CASE Connecting
    BY <1>1 DEF Connecting, ConnectFails, ConnectOk, OpenSession, CreateTag, CreateTagFails,
                TagsCreated, Disconnect, Alone, Goto, TypeOK, HeldInv
<1>2. CASE BeginPoll
  <2>1. \A i \in Indices : device'[Readings[i]] \in held'[i]
      BY <1>2, DocumentTypes DEF BeginPoll
  <2>2. pc'[Owner] = "prepare" /\ next' = 1
      BY <1>2 DEF BeginPoll, Goto, TypeOK
  <2> QED BY <2>1, <2>2 DEF HeldInv
<1>3. CASE PrepareRead
    BY <1>3 DEF PrepareRead, Goto, TypeOK, HeldInv
<1>4. CASE ReadOk
  <2>1. CASE next = Len(Readings)
      BY <1>4, <2>1 DEF ReadOk, Proceed, PollReturns, Goto, TypeOK, HeldInv
  <2>2. CASE next # Len(Readings)
    <3>1. next \in Indices /\ next' = next + 1 /\ held' = held /\ device' = device
        BY <1>4, <2>2, ReadIsHeld DEF ReadOk, Proceed
    <3>2. \A i \in Indices : i < next' => image'[i] \in {Shown(i, d) : d \in held'[i]}
      <4>1. \A i \in Indices : i < next' => i <= next
          BY <3>1, DocumentTypes
      <4> QED BY <1>4, <3>1, <4>1, ReadIsHeld
    <3>3. \A i \in Indices : device'[Readings[i]] \in held'[i]
        BY <1>4, <3>1 DEF ReadOk, HeldInv
    <3>4. pc'[Owner] = "prepare"
        BY <1>4, <2>2 DEF ReadOk, Proceed, Goto, TypeOK
    <3> QED BY <3>2, <3>3, <3>4 DEF HeldInv
  <2> QED BY <2>1, <2>2
<1>5. CASE ReadFails
    BY <1>5 DEF ReadFails, StopReading, PollReturns, Goto, TypeOK, HeldInv
<1>6. ASSUME NEW th \in Threads, Executing(th) PROVE HeldInv'
  <2>1. (pc'[Owner] \in {"prepare", "read"}) <=> (pc[Owner] \in {"prepare", "read"})
      BY <1>6 DEF Executing, BeginExecute, ExecuteReadOnly, PrepareWrite, WriteOk, WriteFails,
                  ExecuteReturns, Goto, TypeOK
  <2>2. CASE UNCHANGED process
      BY <1>6, <2>1, <2>2 DEF Executing, BeginExecute, ExecuteReadOnly, PrepareWrite, WriteOk,
                              WriteFails, HeldInv
  <2>3. CASE ~UNCHANGED process
    <3>1. PICK r \in request[th] : Accepted(r)
        BY <1>6, <2>3 DEF Executing, BeginExecute, ExecuteReadOnly, PrepareWrite, WriteOk, WriteFails
    <3>2. r.command \in Commands /\ Place(r) \in Places /\ Written(r) \in Int
        BY <3>1, RequestTypes DEF TypeOK
    <3>3. Sent(r) \in Int
        BY <3>2 DEF Sent, TypeOK
    <3>4. UNCHANGED <<image, next>>
        BY <1>6 DEF Executing, BeginExecute, ExecuteReadOnly, PrepareWrite, WriteOk, WriteFails
    <3> QED BY <2>1, <3>1, <3>2, <3>3, <3>4, ReachedType, DocumentTypes, HeldTakes DEF Accepted
  <2> QED BY <2>2, <2>3
<1>7. CASE DeviceChanges
  <2>1. PICK i \in Indices, f \in FieldsOf, n \in Numbers :
          DeviceTakes(Readings[i], [device[Readings[i]] EXCEPT ![f] = Encoded(Readings[i], n)])
      BY <1>7, ChangesAssumption DEF DeviceChanges
  <2>2. [device[Readings[i]] EXCEPT ![f] = Encoded(Readings[i], n)] \in Documents
    <3>1. Encoded(Readings[i], n) \in Int /\ device[Readings[i]] \in Documents
        BY DocumentTypes, EncodedType DEF TypeOK
    <3> QED BY <3>1
  <2>4. Readings[i] \in Places
      BY DocumentTypes
  <2>3. UNCHANGED <<image, next, pc>>
      BY <1>7 DEF DeviceChanges
  <2> QED BY <2>1, <2>2, <2>3, <2>4, HeldTakes
<1>8. CASE UNCHANGED vars
    BY <1>8 DEF vars, HeldInv
<1> QED BY <1>1, <1>2, <1>3, <1>4, <1>5, <1>6, <1>7, <1>8 DEF Next, Polling

\* Only the last successful reading takes `next` past the mapping.
LEMMA CompleteStep ==
    ASSUME TypeOK, UnitInv, HeldInv, [Next]_vars, next' = Len(Readings) + 1, next # next'
    PROVE  \A i \in Indices : image'[i] \in {Shown(i, d) : d \in held[i]}
<1>1. \/ ReadOk
      \/ next' \in {0, 1, next}
    BY DEF Next, Connecting, ConnectFails, ConnectOk, OpenSession, CreateTag, CreateTagFails,
           TagsCreated, Disconnect, Bound, Polling, BeginPoll, PrepareRead, ReadFails,
           StopReading, Executing, BeginExecute, ExecuteReadOnly, PrepareWrite, WriteOk,
           WriteFails, DeviceChanges, shown, vars
<1>2. CASE ReadOk
  <2>1. \A i \in Indices : i <= next
      BY <1>2, DocumentTypes DEF ReadOk, TypeOK
  <2> QED BY <1>2, <2>1, ReadIsHeld
<1>3. CASE next' \in {0, 1, next}
  <2>1. next' = 1 /\ Len(Readings) = 0
      BY <1>3, DocumentTypes DEF TypeOK
  <2> QED BY <2>1
<1> QED BY <1>1, <1>2, <1>3

\* When poll() gets through, the equipment shows only values the device had
\* during that poll, whatever any number of clients wrote and the process changed
\* meanwhile, as long as they address one Modbus unit at a time.
THEOREM FinishedPollsAreRead == Spec /\ []UnitsApart => CompleteIsRead
<1>1. Init => HeldInv
    BY DEF Init, HeldInv
<1>2. TypeOK /\ ThreadInv /\ UnitInv /\ HeldInv /\ [Next]_vars => HeldInv'
    BY HeldInductive
<1>3. TypeOK /\ UnitInv /\ HeldInv /\ [Next]_vars =>
        [next' = Len(Readings) + 1 /\ next # next'
           => \A i \in Indices : image'[i] \in {Shown(i, d) : d \in held[i]}]_vars
    BY CompleteStep
<1> QED BY <1>1, <1>2, <1>3, UnitInvHolds, PTL DEF Spec, CompleteIsRead

-----------------------------------------------------------------------------
(* Calls come to an end                                                     *)

\* connect() creates a tag that was not there; poll() prepares, then reads, and goes
\* on to the next reading of the mapping; a command prepares, then writes.
Advances(th) ==
    \/ pc'[th] = "idle"
    \/ pc[th] = "set" /\ pc'[th] = "write"
    \/ pc[th] = "tags" /\ pc'[th] = "tags" /\ \E t \in Mapped \ tags : tags' = tags \cup {t}
    \/ pc[th] = "prepare" /\ pc'[th] = "read" /\ next' = next
    \/ pc[th] = "read" /\ pc'[th] = "prepare" /\ next' = next + 1 /\ next < Len(Readings)

Stands(th) ==
    /\ pc'[th] = pc[th]
    /\ pc[th] = "tags" => tags' = tags
    /\ pc[th] \in {"prepare", "read"} => next' = next

\* A call under way is never set back, by commands and faults beside it or by a
\* process that keeps changing: a poll() reads each place at most once, and connect()
\* creates each tag at most once.
CallsAdvance == [][\A th \in Threads : pc[th] # "idle" => Advances(th) \/ Stands(th)]_vars

\* An exchange of the owner moves the owner, and no other thread.
LEMMA OwnerAdvances ==
    ASSUME TypeOK, ThreadInv, Connecting \/ Polling, NEW th \in Threads, pc[th] # "idle"
    PROVE  Advances(th) \/ Stands(th)
<1> USE ThreadsAssumption, DocumentTypes DEF session, shown, process, Goto, TypeOK
<1>1. CASE th = Owner
  <2>1. CASE Connecting
      BY <1>1, <2>1 DEF Connecting, ConnectFails, ConnectOk, OpenSession, CreateTag,
            CreateTagFails, TagsCreated, Disconnect, Alone, Advances
  <2>2. CASE BeginPoll \/ PrepareRead \/ ReadFails
      BY <1>1, <2>2 DEF BeginPoll, PrepareRead, ReadFails, StopReading, PollReturns, Advances
  <2>3. CASE ReadOk
      BY <1>1, <2>3 DEF ReadOk, Proceed, PollReturns, Advances
  <2> QED BY <2>1, <2>2, <2>3 DEF Polling
<1>2. CASE th # Owner
  <2>1. pc[th] \in {"set", "write"}
      BY <1>2 DEF ThreadInv
  <2>2. pc'[th] = pc[th]
      BY <1>2 DEF Connecting, ConnectFails, ConnectOk, OpenSession, CreateTag, CreateTagFails,
            TagsCreated, Disconnect, Polling, BeginPoll, PrepareRead, ReadOk, ReadFails,
            StopReading, Proceed, PollReturns
  <2> QED BY <2>1, <2>2 DEF Stands
<1> QED BY <1>1, <1>2

LEMMA AdvanceStep ==
    ASSUME TypeOK, ThreadInv, [Next]_vars, NEW th \in Threads, pc[th] # "idle"
    PROVE  Advances(th) \/ Stands(th)
<1> USE DEF session, shown, process
<1>1. ASSUME NEW other \in Threads, Executing(other)
      PROVE  Advances(th) \/ Stands(th)
  <2>1. UNCHANGED <<next, tags>>
      BY <1>1 DEF Executing, BeginExecute, ExecuteReadOnly, PrepareWrite, WriteOk, WriteFails
  <2>2. CASE th = other
      BY <1>1, <2>1, <2>2 DEF Executing, BeginExecute, ExecuteReadOnly, PrepareWrite, WriteOk,
            WriteFails, ExecuteReturns, Goto, TypeOK, Advances, Stands
  <2>3. CASE th # other
    <3>1. pc'[th] = pc[th]
        BY <1>1, <2>3 DEF Executing, BeginExecute, ExecuteReadOnly, PrepareWrite, WriteOk,
              WriteFails, ExecuteReturns, Goto, TypeOK
    <3> QED BY <2>1, <3>1 DEF Stands
  <2> QED BY <2>2, <2>3
<1>2. CASE DeviceChanges \/ UNCHANGED vars
    BY <1>2 DEF DeviceChanges, vars, Stands
<1> QED BY <1>1, <1>2, OwnerAdvances DEF Next

\* Every step of a connect(), a poll() or a command brings it nearer to its return:
\* only the wait for an answer, which has a timeout, can hold it.
THEOREM CallsAlwaysAdvance == Spec => CallsAdvance
<1>1. Init => ThreadInv
    BY ThreadsAssumption DEF Init, ThreadInv
<1>2. TypeOK /\ ThreadInv /\ [Next]_vars
         => [\A th \in Threads : pc[th] # "idle" => Advances(th) \/ Stands(th)]_vars
    BY AdvanceStep
<1> QED BY <1>1, <1>2, ThreadInductive, TypeCorrect, PTL DEF Spec, CallsAdvance
=============================================================================
