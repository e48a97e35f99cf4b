------------------------- MODULE RequestReplyAdapter -------------------------
(***************************************************************************)
(* The adapters that ask a device for its values: OPC UA, Modbus TCP, REST *)
(* and EtherNet/IP.  They share their skeleton (connect, poll reading by   *)
(* reading, execute as one mapped write, enterFault) and differ in what a  *)
(* failed connect() leaves, in how much one reply carries, and in how much *)
(* of a request is held by the session rather than by the caller:          *)
(*   modbus      the unit id of the next exchange, set by prepare();       *)
(*   ethernetip  the value to write, in the buffer of the command's tag;    *)
(*   opcua, rest nothing that outlives a call.                             *)
(*                                                                         *)
(* The owner connects, polls and disconnects.  Clients execute commands    *)
(* beside it on Modbus and EtherNet/IP; the handles of open62541 and       *)
(* libcurl may not be shared by threads, there the owner executes them.    *)
(* connect() and disconnect() destroy the bound equipment, so no client    *)
(* may be executing on it then.                                            *)
(***************************************************************************)
EXTENDS SetPoints, Sequences

CONSTANTS
    Families,   \* the families examined, of which the adapter has one
    Owner, Clients,
    Units,      \* Modbus unit ids; a fresh context addresses DefaultUnit
    DefaultUnit,
    Addresses,  \* registers of a unit, nodes, paths or tags
    Readings,   \* the places poll() reads, in the order of the mapping
    States,     \* the readings that are a Running state or a fault, as
                \* <<reading, field>>; the others are telemetry
    Commands,   \* the commands, as <<place, "start" or "set">>: a set_* or another
    Writable,   \* the places that accept a write: coils and holding registers
    Formats,    \* what the device keeps at each place, by family
    Changing,   \* the numbers that the process takes on by itself
    Default,    \* what a fresh equipment shows
    Fields      \* values in one REST document, taken out in the order 1 .. Fields

Places  == Units \X Addresses
Targets == {c[1] : c \in Commands}

\* Coils, BOOLEAN nodes and BOOL tags are bits; nodes are DOUBLE or INT32 too.
FormatsOf == [modbus     |-> {"bit", "word"},
              ethernetip |-> {"bit", "dint", "real"},
              opcua      |-> {"bit", "double", "int32"},
              rest       |-> {"text"}]

ASSUME FamiliesAssumption == Families \subseteq {"opcua", "modbus", "rest", "ethernetip"}
ASSUME ThreadsAssumption  == Owner \notin Clients
ASSUME MappingAssumption  == /\ DefaultUnit \in Units
                             /\ Readings \in Seq(Places)
                             /\ Commands \subseteq Places \X {"start", "set"}
                             /\ Formats \in [Families -> [Places -> STRING]]
                             /\ \A f \in Families, p \in Places :
                                   Formats[f][p] \in FormatsOf[f]
ASSUME FieldsAssumption   == Fields \in Nat \ {0}
ASSUME ChangesAssumption  == Changing \subseteq Numbers

VARIABLES
    family,     \* which adapter class it is
    conn,       \* connection_state_
    open,       \* the session has a client, context or handle
    tags,       \* EipSession::tags_
    bound,      \* bound_ is not empty
    image,      \* the values of the equipment, by reading
    next,       \* the reading poll() is at, or stopped at; 0 before the first
    device,     \* the values of the device
    unit,       \* modbus_set_slave of the shared context
    buffer,     \* what plc_tag_set left in the tag of each command
    pc,         \* where each thread is
    request,    \* the commands threads execute, at most one each
    held        \* history: the documents each read place had since poll() began,
                \* none while nothing is polled

shown   == <<bound, image, next>>
session == <<open, tags, unit, buffer>>
process == <<device, held>>
vars    == <<family, conn, session, shown, process, pc, request>>

Threads    == {Owner} \cup Clients
ConnStates == {"Disconnected", "Connected", "Faulted"}
Steps      == {"idle", "tags", "prepare", "read", "set", "write"}
Indices    == 1 .. Len(Readings)
FieldNames == 1 .. Fields
Documents  == [FieldNames -> Int]
Requests   == [command : Commands, asked : Numbers]
Keys       == ({"read"} \X Indices) \cup ({"command"} \X Commands)

NoRequest == [th \in Threads |-> {}]
NotHeld   == [i \in Indices |-> {}]

Blank == [i \in Indices |-> [f \in FieldNames |-> Default]]

\* The tags createMappedTags creates; other sessions need nothing of the kind.
Mapped == IF family = "ethernetip" THEN Keys ELSE {}

\* What one reply carries: a REST document has several values.
FieldsOf == IF family = "rest" THEN FieldNames ELSE {1}

FormatAt(place) == Formats[family][place]

\* What a number becomes at a place that accepts it.
Encoded(place, n) ==
    CASE FormatAt(place) = "bit"  -> Flag(n)
      [] FormatAt(place) = "word" -> Word(n)
      [] FormatAt(place) = "dint" -> Dint(n)
      [] FormatAt(place) = "real" -> Real(n)
      [] FormatAt(place) = "text" -> Text(n)
      [] OTHER                    -> n

\* What an equipment makes of a document: a state is a Boolean.
Shown(i, document) ==
    [f \in FieldNames |-> IF <<i, f>> \in States THEN Flag(document[f]) ELSE document[f]]

\* A node's variant becomes a Boolean only if it is one, or an integer.
VariantReads(i) ==
    family = "opcua" /\ <<i, 1>> \in States => FormatAt(Readings[i]) # "double"

Goto(th, step) == pc' = [pc EXCEPT ![th] = step]

EnterFault == conn' = "Faulted"

-------------------------------------------------------------------------------
(* connect() and disconnect()                                              *)

\* The owner is free, and the commands of clients have returned.
Alone == pc[Owner] = "idle" /\ \A c \in Clients : pc[c] = "idle"

\* (Bug: a reconnect keeps the values of before the fault.)
Rebound == bound' = TRUE /\ UNCHANGED <<image, next>>

Bound == bound' = TRUE /\ image' = Blank /\ next' = 0

\* The server refuses or does not answer the connect, the health request or
\* the probe.  A failed health request leaves the handle of libcurl.
ConnectFails ==
    /\ Alone /\ conn # "Connected"
    /\ open' \in IF family = "rest" THEN BOOLEAN ELSE {FALSE}
    /\ tags' = {}
    /\ EnterFault
    /\ UNCHANGED <<family, unit, buffer, shown, process, pc, request>>

ConnectOk ==
    /\ Alone /\ conn # "Connected"
    /\ family # "ethernetip"
    /\ open' = TRUE
    /\ unit' = DefaultUnit
    /\ conn' = "Connected"
    /\ Bound
    /\ UNCHANGED <<family, tags, buffer, process, pc, request>>

\* EtherNet/IP opens without a message and creates the tags one by one.
OpenSession ==
    /\ Alone /\ conn # "Connected"
    /\ family = "ethernetip"
    /\ open' = TRUE
    /\ tags' = {}
    /\ Goto(Owner, "tags")
    /\ UNCHANGED <<family, conn, unit, buffer, shown, process, request>>

CreateTag ==
    /\ pc[Owner] = "tags"
    /\ \E t \in Mapped \ tags : tags' = tags \cup {t}
    /\ UNCHANGED <<family, conn, open, unit, buffer, shown, process, pc, request>>

\* (Bug: the tags created before the one that failed are left behind.)
NoneDestroyed == tags

TagsDestroyed == {}

CreateTagFails ==
    /\ pc[Owner] = "tags"
    /\ tags # Mapped
    /\ open' = FALSE
    /\ tags' = TagsDestroyed
    /\ EnterFault
    /\ Goto(Owner, "idle")
    /\ UNCHANGED <<family, unit, buffer, shown, process, request>>

TagsCreated ==
    /\ pc[Owner] = "tags"
    /\ tags = Mapped
    /\ conn' = "Connected"
    /\ Bound
    /\ Goto(Owner, "idle")
    /\ UNCHANGED <<family, session, process, request>>

Disconnect ==
    /\ Alone
    /\ bound' = FALSE /\ image' = Blank /\ next' = 0
    /\ open' = FALSE
    /\ tags' = {}
    /\ conn' = "Disconnected"
    /\ UNCHANGED <<family, unit, buffer, process, pc, request>>

-------------------------------------------------------------------------------
(* poll(): reading by reading, of all bound equipment.                     *)

BeginPoll ==
    /\ pc[Owner] = "idle"
    /\ conn = "Connected"
    /\ Readings # <<>>
    /\ next' = 1
    /\ held' = [i \in Indices |-> {device[Readings[i]]}]
    /\ Goto(Owner, "prepare")
    /\ UNCHANGED <<family, conn, session, bound, image, device, request>>

\* (Bug: the unit id is set when the session is opened, not for each exchange.)
UnitKept(place) == unit

\* The unit a thread asks for; only Modbus keeps it in the session.
UnitFor(place) == IF family = "modbus" THEN place[1] ELSE unit

PrepareRead ==
    /\ pc[Owner] = "prepare"
    /\ unit' = UnitFor(Readings[next])
    /\ Goto(Owner, "read")
    /\ UNCHANGED <<family, conn, open, tags, buffer, shown, process, request>>

\* The place an exchange reaches.
Reached(place) == IF family = "modbus" THEN <<unit, place[2]>> ELSE place

\* (Bug: the loop does not stop at the last reading.)
ProceedAlways(i) == Goto(Owner, "prepare") /\ UNCHANGED held

PollReturns == Goto(Owner, "idle") /\ held' = NotHeld

\* poll() returns, or goes on with the next reading.
Proceed(i) == IF i = Len(Readings) THEN PollReturns
              ELSE Goto(Owner, "prepare") /\ UNCHANGED held

ReadOk ==
    /\ pc[Owner] = "read"
    /\ VariantReads(next)
    /\ image' = [image EXCEPT ![next] = Shown(next, device[Reached(Readings[next])])]
    /\ next' = next + 1
    /\ Proceed(next)
    /\ UNCHANGED <<family, conn, session, bound, device, request>>

\* (Bug: a reading that fails is skipped.)
SkipReading == next' = next + 1 /\ Proceed(next) /\ UNCHANGED conn

StopReading == UNCHANGED next /\ PollReturns /\ EnterFault

\* No answer, a timeout, a bad reply, or (Modbus) the answer to the request of
\* another thread, which libmodbus recognises by its transaction id.  The values
\* of a REST document before the one that is missing or malformed are taken.
ReadFails ==
    /\ pc[Owner] = "read"
    /\ \E bad \in FieldsOf :
          image' = [image EXCEPT ![next] =
                      [f \in FieldNames |-> IF f < bad
                                            THEN Shown(next, device[Readings[next]])[f]
                                            ELSE image[next][f]]]
    /\ StopReading
    /\ UNCHANGED <<family, session, bound, device, request>>

-------------------------------------------------------------------------------
(* BoundEquipment::execute                                                 *)

Executes(th) == IF family \in {"modbus", "ethernetip"} THEN th \in Clients ELSE th = Owner

Place(r) == r.command[1]

\* What the parameter of a command may be, as far as it is sent: a command other
\* than set_* writes TRUE, but REST puts the caller's parameter into the body of
\* any command whose template has room for it (a body without is one of these).
Parameters(command) ==
    IF command[2] = "start" /\ family # "rest" THEN {One} ELSE Numbers

\* What a command is to leave at its place.
Written(r) == Encoded(Place(r), r.asked)

\* writeBoolean and writeDouble refuse discrete inputs and input registers.
ReadOnly(place) == family = "modbus" /\ place \notin Writable

BeginExecute(th) ==
    /\ pc[th] = "idle"
    /\ Executes(th)
    /\ conn = "Connected"
    /\ \E r \in Requests :
          /\ r.asked \in Parameters(r.command)
          /\ ~ReadOnly(Place(r))
          /\ request' = [request EXCEPT ![th] = {r}]
    /\ Goto(th, "set")
    /\ UNCHANGED <<family, conn, session, shown, process>>

\* A command mapped to a read-only table faults the adapter without a request.
ExecuteReadOnly(th) ==
    /\ pc[th] = "idle"
    /\ Executes(th)
    /\ conn = "Connected"
    /\ \E place \in Targets : ReadOnly(place)
    /\ EnterFault
    /\ UNCHANGED <<family, session, shown, process, pc, request>>

\* (Bug: the tag is written without its value being set.)
NotSet(r) == UNCHANGED buffer

\* plc_tag_set_*
SetBuffer(r) ==
    buffer' = IF family = "ethernetip" THEN [buffer EXCEPT ![r.command] = Written(r)]
              ELSE buffer

PrepareWrite(th) ==
    /\ pc[th] = "set"
    /\ \E r \in request[th] : unit' = UnitFor(Place(r)) /\ SetBuffer(r)
    /\ Goto(th, "write")
    /\ UNCHANGED <<family, conn, open, tags, shown, process, request>>

Sent(r) == IF family = "ethernetip" THEN buffer[r.command] ELSE Written(r)

\* An OPC UA server takes a variant of the node's own type only: a set-point is
\* sent as a Double, any other command as a Boolean.
TypeMismatch(r) ==
    family = "opcua" /\ FormatAt(Place(r)) # IF r.command[2] = "set" THEN "double" ELSE "bit"

\* The device takes a document; a poll that is under way may have read it.
DeviceTakes(place, document) ==
    /\ device' = [device EXCEPT ![place] = document]
    /\ held' = [i \in Indices |->
                  IF Readings[i] = place /\ held[i] # {}
                  THEN held[i] \cup {document} ELSE held[i]]

\* A document with the value v; only those of REST have more than one field.
Document(v) == [f \in FieldNames |-> IF f \in FieldsOf THEN v ELSE 0]

Accepted(r) == /\ ~TypeMismatch(r)
               /\ DeviceTakes(Reached(Place(r)), Document(Sent(r)))

ExecuteReturns(th) == Goto(th, "idle") /\ request' = [request EXCEPT ![th] = {}]

WriteOk(th) ==
    /\ pc[th] = "write"
    /\ \E r \in request[th] : Accepted(r)
    /\ ExecuteReturns(th)
    /\ UNCHANGED <<family, conn, session, shown>>

\* The reply says no, or is lost after the device has taken the value.
WriteFails(th) ==
    /\ pc[th] = "write"
    /\ \E r \in request[th] : Accepted(r) \/ UNCHANGED process
    /\ EnterFault
    /\ ExecuteReturns(th)
    /\ UNCHANGED <<family, session, shown>>

\* The process changes a value on its own.
DeviceChanges ==
    /\ \E i \in Indices, f \in FieldsOf, n \in Changing :
          DeviceTakes(Readings[i], [device[Readings[i]] EXCEPT ![f] = Encoded(Readings[i], n)])
    /\ UNCHANGED <<family, conn, session, shown, pc, request>>

-------------------------------------------------------------------------------
Init ==
    /\ family \in Families
    /\ conn = "Disconnected"
    /\ open = FALSE
    /\ tags = {}
    /\ bound = FALSE
    /\ image = Blank
    /\ next = 0
    /\ device = [p \in Places |-> Document(0)]
    /\ unit = DefaultUnit
    /\ buffer = [c \in Commands |-> 0]
    /\ pc = [th \in Threads |-> "idle"]
    /\ request = NoRequest
    /\ held = NotHeld

Connecting == \/ ConnectFails \/ ConnectOk \/ OpenSession \/ CreateTag
              \/ CreateTagFails \/ TagsCreated \/ Disconnect

Polling == BeginPoll \/ PrepareRead \/ ReadOk \/ ReadFails

Executing(th) == \/ BeginExecute(th) \/ ExecuteReadOnly(th)
                 \/ PrepareWrite(th) \/ WriteOk(th) \/ WriteFails(th)

Next == \/ Connecting
        \/ Polling
        \/ \E th \in Threads : Executing(th)
        \/ DeviceChanges

Spec == Init /\ [][Next]_vars

-------------------------------------------------------------------------------
(* Properties                                                              *)

\* Types; poll() is always at a reading of the mapping.
TypeOK ==
    /\ family \in Families
    /\ conn \in ConnStates
    /\ open \in BOOLEAN /\ bound \in BOOLEAN
    /\ tags \subseteq Keys
    /\ image \in [Indices -> [FieldNames -> {Default} \cup Int]]
    /\ next \in 0 .. Len(Readings) + 1
    /\ device \in [Places -> Documents]
    /\ unit \in Units
    /\ buffer \in [Commands -> Int]
    /\ pc \in [Threads -> Steps]
    /\ request \in [Threads -> SUBSET Requests]
    /\ held \in [Indices -> SUBSET Documents]
    /\ pc[Owner] \in {"prepare", "read"} => next \in Indices

\* A tag handle lives only inside an open session, also when its creation
\* stopped half way, and a Connected adapter has the handle of every reading
\* and every command (EipSession::close, createMappedTags).
SessionMatchesState ==
    /\ ~open => tags = {}
    /\ conn = "Connected" => open /\ tags = Mapped

\* When poll() gets through, everything the equipment then shows was true of the
\* device at some time during that poll, whatever commands and faults came in
\* between (refreshFromServer stops at the first reading that fails).
CompleteIsRead ==
    [][next' = Len(Readings) + 1 /\ next # next'
         => \A i \in Indices : image'[i] \in {Shown(i, d) : d \in held[i]}]_vars

\* A write changes the device at the place its command is mapped to, to what that
\* place makes of the command's parameter, and nowhere else (execute, prepare).
WritesAreMapped ==
    [][pc' # pc /\ device' # device =>
         \E th \in Threads : \E r \in request[th] :
            /\ pc[th] = "write"
            /\ device' = [device EXCEPT ![Place(r)] = Document(Written(r))]]_vars

\* What a place that was asked to become n may hold: n itself if it can hold it;
\* otherwise a bit tells zero from the rest and a register holds the nearest word.
\* (Nothing is said of a set-point beyond a DINT, which wraps around, and of the
\* digits that a REAL or the text of a body has no room for.)
Delivered(place, n, v) ==
    CASE FormatAt(place) = "bit"  -> v = 0 <=> n = 0
      [] FormatAt(place) = "word" -> v \in Words /\ \A w \in Words : Dist(v, n) <= Dist(w, n)
      [] FormatAt(place) = "dint" -> DintHolds(n) => v = n
      [] FormatAt(place) = "real" -> RealHolds(n) => v = n
      [] FormatAt(place) = "text" -> TextHolds(n) => v = n
      [] OTHER                    -> v = n

\* A command that leaves the adapter Connected, which is how "written" is answered,
\* has put its parameter into the device, as well as its place can hold it.
AcknowledgedIsDone ==
    [][\A th \in Threads :
         pc[th] = "write" /\ pc'[th] = "idle" /\ conn' = "Connected" =>
            \A r \in request[th], f \in FieldsOf :
               Delivered(Place(r), r.asked, device'[Place(r)][f])]_vars

\* Where the values of the equipment come from.
Data == IF next = 0 THEN "never" ELSE IF next \in Indices THEN "torn" ELSE "complete"

InPoll == pc[Owner] \in {"prepare", "read"}

Contract == INSTANCE AdapterContract
                WITH data <- Data, polling <- InPoll, BoundShows <- "never"

\* What IndustrialAdapter promises to the ICP runtime holds of the four
\* families: every step of theirs is a step of the contract or none.
ImplementsContract == Contract!Spec
==============================================================================
