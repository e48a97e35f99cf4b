----------------------------- MODULE MqttAdapters -----------------------------
(***************************************************************************)
(* MqttIndustrialAdapter and MqttSession: several adapters of one process, *)
(* each with a session of the Paho library, and the process-wide registry  *)
(* of MQTT client ids that keeps two of them from evicting each other at   *)
(* the broker.                                                             *)
(*                                                                         *)
(* Each adapter has an owner, the thread that connects, polls and          *)
(* disconnects it (one call at a time: the manager's mutex).  Client       *)
(* threads execute commands on its equipment without any lock, and when    *)
(* the publish fails they run enterFault beside the owner.                 *)
(*                                                                         *)
(* The library's receive thread runs one callback at a time, each in two   *)
(* steps: the library calls it, and it takes Impl::mu and sets the flags   *)
(* or queues the message.  In between the session may be closed and even   *)
(* replaced by the next one, whose flags a late callback then sets: the    *)
(* context of every callback is the Impl, not the session.                 *)
(*                                                                         *)
(* A thread that tears a session down, for enterFault or disconnect(),     *)
(* closes it, reads active_client_id_, erases the claim under              *)
(* gClientIdMutex, clears active_client_id_ and sets the state: steps that *)
(* other threads interleave with.  disconnect() destroys the equipment, so *)
(* callers must not be executing on it.                                    *)
(***************************************************************************)
EXTENDS Naturals, Sequences

CONSTANTS
    Adapters,       \* MqttIndustrialAdapter objects, and their owner threads
    Clients,        \* threads that execute commands
    KeyOf,          \* broker and client id of each adapter, as clientKey() joins them
    Valid,          \* adapters whose configuration connect() accepts
    Topics,         \* the topics each adapter's mapping subscribes to
    QueueLimit,     \* kMaxQueued
    BatchLimit,     \* kMaxMessagesPerPoll
    MaxVersion,     \* bound: deliveries of a topic; a message that the broker
                    \* delivers again, or retains, is a delivery of its own
    NoMessage       \* the receive thread is in no onMessage callback

ASSUME ClientsAssumption == Clients \cap Adapters = {}
ASSUME LimitsAssumption  == /\ QueueLimit \in Nat \ {0}
                            /\ BatchLimit \in Nat \ {0}
                            /\ MaxVersion \in Nat

VARIABLES
    conn,       \* connection_state_
    active,     \* adapters whose active_client_id_ is not empty
    claimed,    \* gClaimedClientKeys
    bound,      \* adapters whose bound_ is not empty
    value,      \* version of each topic last applied to the bound equipment
    session,    \* MqttSession::Impl
    pc,         \* where each thread is
    ending,     \* the state a thread that tears down will set
    at,         \* the adapter each client works on
    left,       \* topics connect() has still to subscribe to
    ack,        \* connect_done or op_done, whichever is waited for, and its result
    drained,    \* messages this poll() has applied
    calling,    \* the other callback of each session that has been called
    arriving,   \* the message whose onMessage has passed the test of `closing`
    arrived     \* history: deliveries handed to onMessage

registry  == <<active, claimed>>
equipment == <<bound, value>>
library   == <<calling, arriving, arrived>>
vars      == <<conn, active, claimed, bound, value, session, pc, ending, at,
               left, ack, drained, calling, arriving, arrived>>

Threads    == Adapters \cup Clients
ConnStates == {"Disconnected", "Connected", "Faulted"}
Steps      == {"idle", "claim", "open", "connack", "subscribe", "suback",
               "drain", "publish", "close", "release", "erase", "clear"}
Versions   == 0 .. MaxVersion
Messages   == [topic : Topics, version : Versions]

\* What a callback is about to tell.
Events == {"none", "connected", "refused", "acknowledged", "rejected", "lost"}

\* Impl: `handle` exists, the flags of the callbacks, the queue.  The library: the
\* connect has no answer yet, it says connected, the topics whose subscription has
\* no answer yet.  As history, the topics the broker has accepted in this session
\* and what was last queued of each topic.
Sessions == [open : BOOLEAN, connected : BOOLEAN, lost : BOOLEAN,
             connecting : BOOLEAN, link : BOOLEAN,
             asked : SUBSET Topics, granted : SUBSET Topics,
             queue : Seq(Messages), newest : [Topics -> Versions]]

\* close(): the handle is destroyed, flags and queue are reset.
Closed == [open |-> FALSE, connected |-> FALSE, lost |-> FALSE,
           connecting |-> FALSE, link |-> FALSE, asked |-> {}, granted |-> {},
           queue |-> <<>>, newest |-> [t \in Topics |-> 0]]

SetSession(a, s) == session' = [session EXCEPT ![a] = s]

Opened == [Closed EXCEPT !.open = TRUE, !.connecting = TRUE]

\* The adapter a thread works on.
Target(th) == IF th \in Clients THEN at[th] ELSE th

Key(th) == KeyOf[Target(th)]

\* enterFault() or disconnect() begins.
TearDown(th, state) == /\ pc' = [pc EXCEPT ![th] = "close"]
                       /\ ending' = [ending EXCEPT ![th] = state]

Continue(th, step) == pc' = [pc EXCEPT ![th] = step] /\ UNCHANGED ending

-------------------------------------------------------------------------------
(* connect()                                                               *)

BeginConnect(a) ==
    /\ pc[a] = "idle"
    /\ conn[a] # "Connected"
    /\ IF a \in Valid THEN Continue(a, "claim") ELSE TearDown(a, "Faulted")
    /\ UNCHANGED <<conn, registry, equipment, session, at, left, ack, drained, library>>

\* (Bug: ids are recorded, not checked.)
NeverInUse(a) == FALSE

InUse(a) == KeyOf[a] \in claimed

\* claimClientId, atomic under gClientIdMutex.
Claim(a) ==
    /\ pc[a] = "claim"
    /\ IF InUse(a)
       THEN TearDown(a, "Faulted") /\ UNCHANGED registry
       ELSE /\ claimed' = claimed \cup {KeyOf[a]}
            /\ active' = active \cup {a}
            /\ Continue(a, "open")
    /\ UNCHANGED <<conn, equipment, session, at, left, ack, drained, library>>

\* MqttSession::connect up to its wait; it closes what was open before.
Open(a) ==
    /\ pc[a] = "open"
    /\ SetSession(a, Opened)
    /\ ack' = [ack EXCEPT ![a] = "none"]
    /\ Continue(a, "connack")
    /\ UNCHANGED <<conn, registry, equipment, at, left, drained, library>>

\* The library refuses to create the client or to begin the connection.
OpenFails(a) ==
    /\ pc[a] = "open"
    /\ SetSession(a, Closed)
    /\ TearDown(a, "Faulted")
    /\ UNCHANGED <<conn, registry, equipment, at, left, ack, drained, library>>

\* The wait for onConnect succeeded.  Equipment of a Faulted adapter is kept.
ConnectReturns(a) ==
    /\ pc[a] = "connack"
    /\ ack[a] = "ok"
    /\ IF a \in bound /\ conn[a] = "Faulted"
       THEN UNCHANGED equipment
       ELSE /\ bound' = bound \cup {a}
            /\ value' = [value EXCEPT ![a] = [t \in Topics |-> 0]]
    /\ ack' = [ack EXCEPT ![a] = "none"]
    /\ Continue(a, "subscribe")
    /\ UNCHANGED <<conn, registry, session, at, left, drained, library>>

\* connect() returns, or enters the fault: its loop is over, and what the flags
\* hold is reset before they are waited for again.
EndConnect(a) == /\ left' = [left EXCEPT ![a] = Topics]
                 /\ ack' = [ack EXCEPT ![a] = "none"]

\* (Bug: wait() in place of wait_for() and wait_until().)
OnlyRefused(a) == ack[a] = "failed"

\* The peer refused, or the deadline passed without an answer.
Unanswered(a) == ack[a] # "ok"

\* MqttSession::connect gives up: it closes the session itself.
ConnectGivesUp(a) ==
    /\ pc[a] = "connack"
    /\ Unanswered(a)
    /\ SetSession(a, Closed)
    /\ EndConnect(a)
    /\ TearDown(a, "Faulted")
    /\ UNCHANGED <<conn, registry, equipment, at, drained, library>>

\* (Bug: op_done keeps the answer to the subscription before.)
AnswerKept(a) == ack[a]

\* op_done is reset before the request is sent.
AnswerReset(a) == "none"

Asked(s, t) == [s EXCEPT !.asked = @ \cup {t}]

\* MqttSession::subscribe of one topic, up to its wait.
Subscribe(a, t) ==
    /\ pc[a] = "subscribe"
    /\ t \in left[a]
    /\ session[a].link
    /\ left' = [left EXCEPT ![a] = @ \ {t}]
    /\ ack' = [ack EXCEPT ![a] = AnswerReset(a)]
    /\ SetSession(a, Asked(session[a], t))
    /\ Continue(a, "suback")
    /\ UNCHANGED <<conn, registry, equipment, at, drained, library>>

\* The request is refused: no link, or a client has closed the session.
SubscribeFails(a) ==
    /\ pc[a] = "subscribe"
    /\ left[a] # {}
    /\ ~session[a].link
    /\ EndConnect(a)
    /\ TearDown(a, "Faulted")
    /\ UNCHANGED <<conn, registry, equipment, session, at, drained, library>>

Subscribed(a) ==
    /\ pc[a] = "suback"
    /\ ack[a] = "ok"
    /\ Continue(a, "subscribe")
    /\ UNCHANGED <<conn, registry, equipment, session, at, left, ack, drained, library>>

SubscribeGivesUp(a) ==
    /\ pc[a] = "suback"
    /\ Unanswered(a)
    /\ EndConnect(a)
    /\ TearDown(a, "Faulted")
    /\ UNCHANGED <<conn, registry, equipment, session, at, drained, library>>

FinishConnect(a) ==
    /\ pc[a] = "subscribe"
    /\ left[a] = {}
    /\ conn' = [conn EXCEPT ![a] = "Connected"]
    /\ EndConnect(a)
    /\ Continue(a, "idle")
    /\ UNCHANGED <<registry, equipment, session, at, drained, library>>

-------------------------------------------------------------------------------
(* poll(): drain the queue, one receive() per message.                     *)

BeginPoll(a) ==
    /\ pc[a] = "idle"
    /\ conn[a] = "Connected"
    /\ Continue(a, "drain")
    /\ UNCHANGED <<conn, registry, equipment, session, at, left, ack, drained, library>>

\* poll() returns to idle, or enters the fault; its counter goes out of scope.
EndPoll(a) == drained' = [drained EXCEPT ![a] = 0]

\* (Bug: the library is not asked, only its callback is waited for.)
NotAsked(s) == TRUE

\* MQTTAsync_isConnected
LibraryUp(s) == s.link

\* receive() tests for a lost connection before it looks at the queue; what the
\* queue still holds is thrown away with the session.
Broken(s) == s.lost \/ (s.open /\ ~LibraryUp(s) /\ s.connected)

\* connected()
Up(s) == s.open /\ s.connected /\ ~s.lost /\ LibraryUp(s)

Lost(s) == [s EXCEPT !.connected = FALSE, !.lost = TRUE]

ReceiveError(a) ==
    /\ pc[a] = "drain"
    /\ Broken(session[a])
    /\ SetSession(a, Lost(session[a]))
    /\ EndPoll(a)
    /\ TearDown(a, "Faulted")
    /\ UNCHANGED <<conn, registry, equipment, at, left, ack, library>>

\* (Bug: the newest message is taken first.)
NewestFirst(q) == [message |-> q[Len(q)], rest |-> SubSeq(q, 1, Len(q) - 1)]

Take(q) == [message |-> Head(q), rest |-> Tail(q)]

Taken(s) == [s EXCEPT !.queue = Take(s.queue).rest]

ReceiveMessage(a) ==
    /\ pc[a] = "drain"
    /\ ~Broken(session[a])
    /\ session[a].queue # <<>>
    /\ SetSession(a, Taken(session[a]))
    /\ LET message == Take(session[a].queue).message
       IN  value' = [value EXCEPT ![a][message.topic] = message.version]
    /\ IF drained[a] + 1 = BatchLimit
       THEN EndPoll(a) /\ Continue(a, "idle")
       ELSE drained' = [drained EXCEPT ![a] = @ + 1] /\ Continue(a, "drain")
    /\ UNCHANGED <<conn, registry, bound, at, left, ack, library>>

\* Nothing came within the timeout: connected() is asked.
ReceiveNothing(a) ==
    /\ pc[a] = "drain"
    /\ ~Broken(session[a])
    /\ session[a].queue = <<>>
    /\ IF Up(session[a])
       THEN Continue(a, "idle")
       ELSE TearDown(a, "Faulted")
    /\ EndPoll(a)
    /\ UNCHANGED <<conn, registry, equipment, session, at, left, ack, library>>

-------------------------------------------------------------------------------
(* Client threads: BoundEquipment::execute.                                *)

BeginExecute(c, a) ==
    /\ pc[c] = "idle"
    /\ conn[a] = "Connected"
    /\ a \in bound
    /\ at' = [at EXCEPT ![c] = a]
    /\ Continue(c, "publish")
    /\ UNCHANGED <<conn, registry, equipment, session, left, ack, drained, library>>

Published(c) ==
    /\ pc[c] = "publish"
    /\ session[at[c]].link
    /\ Continue(c, "idle")
    /\ UNCHANGED <<conn, registry, equipment, session, at, left, ack, drained, library>>

\* Refused by the library, or not completed within its timeout.
PublishFails(c) ==
    /\ pc[c] = "publish"
    /\ TearDown(c, "Faulted")
    /\ UNCHANGED <<conn, registry, equipment, session, at, left, ack, drained, library>>

-------------------------------------------------------------------------------
(* disconnect() and enterFault()                                           *)

Disconnect(a) ==
    /\ pc[a] = "idle"
    /\ \A c \in Clients : pc[c] = "idle" \/ at[c] # a
    /\ bound' = bound \ {a}
    /\ value' = [value EXCEPT ![a] = [t \in Topics |-> 0]]
    /\ TearDown(a, "Disconnected")
    /\ UNCHANGED <<conn, registry, session, at, left, ack, drained, library>>

\* (Bug: the claim is given back before the session is closed.)
StillOpen(s) == s

AfterClose(s) == Closed

CloseSession(th) ==
    /\ pc[th] = "close"
    /\ SetSession(Target(th), AfterClose(session[Target(th)]))
    /\ Continue(th, "release")
    /\ UNCHANGED <<conn, registry, equipment, at, left, ack, drained, library>>

\* (Bug: the configured id is given back, whether this adapter holds it or not.)
AlwaysHolds(a) == TRUE

\* (Bug: a session that ends by itself does not give its id back.)
NeverHolds(a) == FALSE

HoldsId(a) == a \in active

\* releaseClientId reads active_client_id_ before it takes gClientIdMutex.
ReleaseReads(th) ==
    /\ pc[th] = "release"
    /\ Continue(th, IF HoldsId(Target(th)) THEN "erase" ELSE "clear")
    /\ UNCHANGED <<conn, registry, equipment, session, at, left, ack, drained, library>>

ReleaseErases(th) ==
    /\ pc[th] = "erase"
    /\ claimed' = claimed \ {Key(th)}
    /\ Continue(th, "clear")
    /\ UNCHANGED <<conn, active, equipment, session, at, left, ack, drained, library>>

EndTearDown(th) ==
    /\ pc[th] = "clear"
    /\ active' = active \ {Target(th)}
    /\ conn' = [conn EXCEPT ![Target(th)] = ending[th]]
    /\ pc' = [pc EXCEPT ![th] = "idle"]
    /\ ending' = [ending EXCEPT ![th] = "Faulted"]
    /\ UNCHANGED <<claimed, equipment, session, at, left, ack, drained, library>>

-------------------------------------------------------------------------------
(* The library and the broker.  One receive thread runs the callbacks.     *)

ReceiverIdle == arriving = NoMessage /\ \A a \in Adapters : calling[a] = "none"

Calls(a, event) == calling' = [calling EXCEPT ![a] = event] /\ UNCHANGED <<arriving, arrived>>

\* The broker accepts or refuses the connect, or the library gives up on it.
ConnAck(a) ==
    /\ ReceiverIdle
    /\ session[a].connecting
    /\ \E accepts \in BOOLEAN :
          /\ SetSession(a, [session[a] EXCEPT !.connecting = FALSE, !.link = accepts])
          /\ Calls(a, IF accepts THEN "connected" ELSE "refused")
    /\ UNCHANGED <<conn, registry, equipment, pc, ending, at, left, ack, drained>>

\* The broker accepts a subscription ...
SubAck(a, t) ==
    /\ ReceiverIdle
    /\ session[a].link
    /\ t \in session[a].asked
    /\ SetSession(a, [session[a] EXCEPT !.asked = @ \ {t}, !.granted = @ \cup {t}])
    /\ Calls(a, "acknowledged")
    /\ UNCHANGED <<conn, registry, equipment, pc, ending, at, left, ack, drained>>

\* ... or refuses it, or the link is gone before it has answered.
SubNack(a, t) ==
    /\ ReceiverIdle
    /\ t \in session[a].asked
    /\ SetSession(a, [session[a] EXCEPT !.asked = @ \ {t}])
    /\ Calls(a, "rejected")
    /\ UNCHANGED <<conn, registry, equipment, pc, ending, at, left, ack, drained>>

LinkDown(a) ==
    /\ session[a].link
    /\ SetSession(a, [session[a] EXCEPT !.link = FALSE])
    /\ UNCHANGED <<conn, registry, equipment, pc, ending, at, left, ack, drained, library>>

\* The library reports a lost connection; onConnectionLost tests `closing`.
ConnectionLost(a) ==
    /\ ReceiverIdle
    /\ session[a].open
    /\ session[a].connected
    /\ ~session[a].link
    /\ Calls(a, "lost")
    /\ UNCHANGED <<conn, registry, equipment, session, pc, ending, at, left, ack, drained>>

\* A callback sets the flag of connect() or of subscribe() whether or not anybody
\* waits for it; where nobody does, the next wait resets it before it begins.
Answers(a, wait, result) ==
    ack' = IF pc[a] = wait THEN [ack EXCEPT ![a] = result] ELSE ack

\* The rest of a callback, under Impl::mu: it returns to the receive thread.
Returns(a) ==
    /\ calling' = [calling EXCEPT ![a] = "none"]
    /\ UNCHANGED <<conn, registry, equipment, pc, ending, at, left, drained, arriving, arrived>>

AfterConnect(s) == [s EXCEPT !.connected = TRUE, !.lost = FALSE]

OnConnect(a) ==
    /\ calling[a] = "connected"
    /\ SetSession(a, AfterConnect(session[a]))
    /\ Answers(a, "connack", "ok")
    /\ Returns(a)

OnConnectFailure(a) ==
    /\ calling[a] = "refused"
    /\ SetSession(a, [session[a] EXCEPT !.connected = FALSE])
    /\ Answers(a, "connack", "failed")
    /\ Returns(a)

OnOpSuccess(a) ==
    /\ calling[a] = "acknowledged"
    /\ Answers(a, "suback", "ok")
    /\ Returns(a)
    /\ UNCHANGED session

OnOpFailure(a) ==
    /\ calling[a] = "rejected"
    /\ Answers(a, "suback", "failed")
    /\ Returns(a)
    /\ UNCHANGED session

OnConnectionLost(a) ==
    /\ calling[a] = "lost"
    /\ SetSession(a, Lost(session[a]))
    /\ Returns(a)
    /\ UNCHANGED ack

\* The next delivery of a topic reaches onMessage, which tests `closing`.
MessageArrives(a, t) ==
    /\ ReceiverIdle
    /\ session[a].link
    /\ t \in session[a].asked \cup session[a].granted
    /\ arrived[a][t] < MaxVersion
    /\ arrived' = [arrived EXCEPT ![a][t] = @ + 1]
    /\ arriving' = [to |-> a, message |-> [topic |-> t, version |-> arrived[a][t] + 1]]
    /\ UNCHANGED <<calling, conn, registry, equipment, session, pc, ending, at, left, ack, drained>>

\* (Bug: the bound is tested one too late.)
PushedOver(q, m) == Append(IF Len(q) > QueueLimit THEN Tail(q) ELSE q, m)

\* (Bug: a full queue refuses the new message.)
DropNewest(q, m) == IF Len(q) >= QueueLimit THEN q ELSE Append(q, m)

\* A full queue drops its oldest message, whatever its topic.
Pushed(q, m) == Append(IF Len(q) >= QueueLimit THEN Tail(q) ELSE q, m)

Queued(s, m) == [s EXCEPT !.queue = Pushed(s.queue, m),
                          !.newest = [s.newest EXCEPT ![m.topic] = m.version]]

\* onMessage takes Impl::mu; the session may have been closed meanwhile.
Enqueue ==
    /\ arriving # NoMessage
    /\ SetSession(arriving.to, Queued(session[arriving.to], arriving.message))
    /\ arriving' = NoMessage
    /\ UNCHANGED <<conn, registry, equipment, pc, ending, at, left, ack, drained, calling, arrived>>

-------------------------------------------------------------------------------
Init ==
    /\ conn = [a \in Adapters |-> "Disconnected"]
    /\ active = {}
    /\ claimed = {}
    /\ bound = {}
    /\ value = [a \in Adapters |-> [t \in Topics |-> 0]]
    /\ session = [a \in Adapters |-> Closed]
    /\ pc = [th \in Threads |-> "idle"]
    /\ ending = [th \in Threads |-> "Faulted"]
    /\ at \in [Clients -> Adapters]
    /\ left = [a \in Adapters |-> Topics]
    /\ ack = [a \in Adapters |-> "none"]
    /\ drained = [a \in Adapters |-> 0]
    /\ calling = [a \in Adapters |-> "none"]
    /\ arriving = NoMessage
    /\ arrived = [a \in Adapters |-> [t \in Topics |-> 0]]

\* A call of the owner, or of a client, goes on.
OwnerStep(a) ==
    \/ Claim(a) \/ Open(a) \/ OpenFails(a) \/ ConnectReturns(a) \/ ConnectGivesUp(a)
    \/ (\E t \in Topics : Subscribe(a, t)) \/ SubscribeFails(a)
    \/ Subscribed(a) \/ SubscribeGivesUp(a) \/ FinishConnect(a)
    \/ ReceiveError(a) \/ ReceiveMessage(a) \/ ReceiveNothing(a)

TearDownStep(th) ==
    CloseSession(th) \/ ReleaseReads(th) \/ ReleaseErases(th) \/ EndTearDown(th)

ClientStep(c) == (\E a \in Adapters : BeginExecute(c, a)) \/ Published(c) \/ PublishFails(c)

\* The library and the broker: an answer, a message, a loss.
LibraryStep(a) ==
    \/ ConnAck(a) \/ LinkDown(a) \/ ConnectionLost(a)
    \/ \E t \in Topics : SubAck(a, t) \/ SubNack(a, t) \/ MessageArrives(a, t)

\* A callback that has been called sets the flags or queues its message.
Callback ==
    \/ Enqueue
    \/ \E a \in Adapters :
          \/ OnConnect(a) \/ OnConnectFailure(a)
          \/ OnOpSuccess(a) \/ OnOpFailure(a) \/ OnConnectionLost(a)

Next ==
    \/ \E a \in Adapters : BeginConnect(a) \/ BeginPoll(a) \/ Disconnect(a) \/ OwnerStep(a)
    \/ \E c \in Clients : ClientStep(c)
    \/ \E th \in Threads : TearDownStep(th)
    \/ \E a \in Adapters : LibraryStep(a)
    \/ Callback

Spec == Init /\ [][Next]_vars

\* Calls go on: every wait has a deadline.  The scheduler polls again and again.
\* Nothing is asked of the broker or of the network.
Fairness ==
    /\ \A a \in Adapters : WF_vars(OwnerStep(a)) /\ WF_vars(BeginPoll(a))
    /\ \A th \in Threads : WF_vars(TearDownStep(th))
    /\ WF_vars(Callback)

FairSpec == Spec /\ Fairness

-------------------------------------------------------------------------------
TypeOK ==
    /\ conn \in [Adapters -> ConnStates]
    /\ active \subseteq Adapters
    /\ claimed \subseteq {KeyOf[a] : a \in Adapters}
    /\ bound \subseteq Adapters
    /\ value \in [Adapters -> [Topics -> Versions]]
    /\ session \in [Adapters -> Sessions]
    /\ pc \in [Threads -> Steps]
    /\ ending \in [Threads -> {"Disconnected", "Faulted"}]
    /\ at \in [Clients -> Adapters]
    /\ left \in [Adapters -> SUBSET Topics]
    /\ ack \in [Adapters -> {"none", "ok", "failed"}]
    /\ drained \in [Adapters -> 0 .. BatchLimit - 1]
    /\ \A a \in Adapters : Len(session[a].queue) <= QueueLimit
    /\ calling \in [Adapters -> Events]
    /\ arriving \in [to : Adapters, message : Messages] \cup {NoMessage}
    /\ arrived \in [Adapters -> [Topics -> Versions]]

\* ADR-038: MQTT client ids are unique per broker among the clients of this
\* process.  Two open sessions under one id would evict each other for ever.
UniqueClientIds ==
    \A a, b \in Adapters : a # b /\ session[a].open /\ session[b].open
                               => KeyOf[a] # KeyOf[b]

\* A claim belongs to an adapter that remembers it: otherwise nobody will ever
\* release it and no connect() under that id can succeed again.
NoClaimLeaks ==
    (\A th \in Threads : pc[th] = "idle") =>
        \A k \in claimed : \E a \in active : KeyOf[a] = k

\* A thread is inside enterFault() or disconnect().
TearingDown(th) == pc[th] \in {"close", "release", "erase", "clear"}

\* Between calls the claim and the session agree with the state: a Connected
\* adapter that nobody tears down holds the claim of the id it is connected under,
\* and one that is down holds neither session nor claim, whichever way its last
\* call or its link ended.
ClaimsMatchStates ==
    \A a \in Adapters :
        /\ pc[a] \in {"idle", "drain"} /\ conn[a] = "Connected"
              => \/ a \in active /\ KeyOf[a] \in claimed
                 \/ \E c \in Clients : at[c] = a /\ TearingDown(c)
        /\ pc[a] = "idle" /\ conn[a] # "Connected"
              => ~session[a].open /\ a \notin active

\* A Connected adapter whose session is open has the broker's word for every topic
\* of its mapping: connect() never takes the answer to one subscription for that to
\* another, nor a late answer of an earlier session for one of this, and a
\* subscription once accepted is only lost with the session.
ConnectedIsSubscribed ==
    \A a \in Adapters :
        conn[a] = "Connected" /\ session[a].open => session[a].granted = Topics

\* Values never go back, in the order of delivery, while the equipment stays bound: not by a
\* message of an earlier session that lands late, not by a full queue.
NoRegression ==
    [][\A a \in Adapters : a \in bound /\ a \in bound' =>
          \A t \in Topics : value'[a][t] >= value[a][t]]_vars

\* Newer publishes win: when the queue of an up session has been drained the
\* equipment shows the latest message of every topic.
LatestWins ==
    \A a \in Adapters, t \in Topics :
        LET s       == session[a]
            settled == /\ conn[a] = "Connected" /\ pc[a] = "idle"
                       /\ s.link /\ s.connected /\ s.queue = <<>>
        IN  settled /\ s.newest[t] # 0 => value[a][t] = s.newest[t]

\* A lost broker is noticed by polling, whether or not the library calls
\* onConnectionLost and whatever the queue still holds.
LossIsNoticed ==
    \A a \in Adapters :
        conn[a] = "Connected" /\ ~session[a].link
            ~> conn[a] # "Connected" \/ session[a].link

\* Every call of the owner returns: a silent broker cannot hold it.
CallsReturn == \A a \in Adapters : pc[a] # "idle" ~> pc[a] = "idle"
===============================================================================
