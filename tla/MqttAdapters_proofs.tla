-------------------------- MODULE MqttAdapters_proofs --------------------------
(***************************************************************************)
(* Proofs about MqttAdapters, for any number of adapters and topics, any   *)
(* assignment of client ids, any queue and batch limits.                   *)
(***************************************************************************)
EXTENDS MqttAdapters, TLAPS

-------------------------------------------------------------------------------
(* Type correctness.                                                       *)

LEMMA PushedType ==
    ASSUME NEW q \in Seq(Messages), NEW m \in Messages, Len(q) <= QueueLimit
    PROVE  Pushed(q, m) \in Seq(Messages) /\ Len(Pushed(q, m)) <= QueueLimit
<1>1. CASE Len(q) >= QueueLimit
  <2>1. q # <<>>
    BY <1>1, LimitsAssumption
  <2>2. Tail(q) \in Seq(Messages) /\ Len(Tail(q)) = Len(q) - 1
    BY <2>1
  <2> QED BY <1>1, <2>2, LimitsAssumption DEF Pushed
<1>2. CASE ~(Len(q) >= QueueLimit)
  BY <1>2, LimitsAssumption DEF Pushed
<1> QED BY <1>1, <1>2

\* A session whose queue respects the limit.
Bounded(s) == s \in Sessions /\ Len(s.queue) <= QueueLimit

LEMMA ClosedBounded == Bounded(Closed) /\ Bounded(Opened)
<1>1. [t \in Topics |-> 0] \in [Topics -> Versions]
  BY LimitsAssumption DEF Versions
<1> DEFINE none == [t \in Topics |-> 0]
<1>2. Closed = [open |-> FALSE, connected |-> FALSE, lost |-> FALSE,
                connecting |-> FALSE, link |-> FALSE, asked |-> {}, granted |-> {},
                queue |-> <<>>, newest |-> none]
  BY DEF Closed
<1>3. none \in [Topics -> Versions]
  BY <1>1
<1> HIDE DEF none
<1>4. Bounded(Closed)
  BY <1>2, <1>3, LimitsAssumption DEF Bounded, Sessions
<1> QED BY <1>4 DEF Bounded, Sessions, Opened

\* An update that leaves the handle, the queue and what was last queued.
Touched(s, u) == u \in Sessions /\ u.open = s.open /\ u.queue = s.queue /\ u.newest = s.newest

LEMMA FlagsTouched ==
    ASSUME NEW s \in Sessions
    PROVE  /\ Touched(s, s) /\ Touched(s, Lost(s)) /\ Touched(s, AfterConnect(s))
           /\ Touched(s, [s EXCEPT !.link = FALSE])
           /\ Touched(s, [s EXCEPT !.connected = FALSE])
           /\ \A b \in BOOLEAN : Touched(s, [s EXCEPT !.connecting = FALSE, !.link = b])
  BY DEF Touched, Sessions, Lost, AfterConnect

LEMMA TopicsTouched ==
    ASSUME NEW s \in Sessions, NEW t \in Topics
    PROVE  /\ Touched(s, Asked(s, t))
           /\ Touched(s, [s EXCEPT !.asked = @ \ {t}])
           /\ Touched(s, [s EXCEPT !.asked = @ \ {t}, !.granted = @ \cup {t}])
  BY DEF Touched, Sessions, Asked

LEMMA TouchedBounded ==
    ASSUME NEW s, NEW u, Bounded(s), Touched(s, u)
    PROVE  Bounded(u)
  BY DEF Bounded, Touched

LEMMA QueuedBounded ==
    ASSUME NEW s, Bounded(s), NEW m \in Messages
    PROVE  Bounded(Queued(s, m))
<1> DEFINE newest == [s.newest EXCEPT ![m.topic] = m.version]
<1>1. Pushed(s.queue, m) \in Seq(Messages) /\ Len(Pushed(s.queue, m)) <= QueueLimit
  BY PushedType DEF Bounded, Sessions
<1>2. newest \in [Topics -> Versions]
  BY DEF Bounded, Sessions, Messages
<1>3. Queued(s, m) = [s EXCEPT !.queue = Pushed(s.queue, m), !.newest = newest]
  BY DEF Queued
<1> HIDE DEF newest
<1> QED BY <1>1, <1>2, <1>3 DEF Bounded, Sessions

LEMMA TakenBounded ==
    ASSUME NEW s, Bounded(s), s.queue # <<>>
    PROVE  /\ Bounded(Taken(s))
           /\ Take(s.queue).message \in Messages
<1>1. s.queue \in Seq(Messages) /\ Len(s.queue) <= QueueLimit
  BY DEF Bounded, Sessions
<1>2. /\ Head(s.queue) \in Messages
      /\ Tail(s.queue) \in Seq(Messages)
      /\ Len(Tail(s.queue)) <= QueueLimit
  BY <1>1, LimitsAssumption
<1> QED BY <1>2 DEF Bounded, Sessions, Taken, Take

LEMMA SetSessionType ==
    ASSUME TypeOK, NEW a \in Adapters, NEW s, Bounded(s), SetSession(a, s)
    PROVE  /\ session' \in [Adapters -> Sessions]
           /\ \A b \in Adapters : Len(session'[b].queue) <= QueueLimit
  BY DEF TypeOK, SetSession, Bounded

\* A callback that takes Impl::mu, but onMessage.
Lands(a) ==
    \/ OnConnect(a) \/ OnConnectFailure(a)
    \/ OnOpSuccess(a) \/ OnOpFailure(a) \/ OnConnectionLost(a)

\* What the library and its callbacks leave alone.
LEMMA LibraryLeaves ==
    ASSUME TypeOK, NEW a \in Adapters, LibraryStep(a) \/ Lands(a)
    PROVE  /\ UNCHANGED <<conn, active, claimed, bound, value, pc, ending, at, left, drained>>
           /\ \E u : Touched(session[a], u) /\ SetSession(a, u)
           /\ \/ UNCHANGED <<arriving, arrived>>
              \/ (\E t \in Topics : MessageArrives(a, t)) /\ UNCHANGED session
<1> USE DEF registry, equipment, library
<1>1. /\ session[a] \in Sessions /\ session \in [Adapters -> Sessions]
      /\ session' = session => SetSession(a, session[a])
  BY DEF TypeOK, SetSession
<1>2. CASE ConnAck(a)
  <2>1. PICK b \in BOOLEAN :
            SetSession(a, [session[a] EXCEPT !.connecting = FALSE, !.link = b])
    BY <1>2 DEF ConnAck
  <2>2. Touched(session[a], [session[a] EXCEPT !.connecting = FALSE, !.link = b])
    BY <1>1, FlagsTouched
  <2> QED BY <1>2, <2>1, <2>2 DEF ConnAck, Calls
<1>3. ASSUME NEW t \in Topics, SubAck(a, t)
      PROVE  /\ UNCHANGED <<conn, active, claimed, bound, value, pc, ending, at, left, drained>>
             /\ \E u : Touched(session[a], u) /\ SetSession(a, u)
             /\ UNCHANGED <<arriving, arrived>>
  BY <1>1, <1>3, TopicsTouched DEF SubAck, Calls
<1>4. ASSUME NEW t \in Topics, SubNack(a, t)
      PROVE  /\ UNCHANGED <<conn, active, claimed, bound, value, pc, ending, at, left, drained>>
             /\ \E u : Touched(session[a], u) /\ SetSession(a, u)
             /\ UNCHANGED <<arriving, arrived>>
  BY <1>1, <1>4, TopicsTouched DEF SubNack, Calls
<1>5. CASE LinkDown(a)
  BY <1>1, <1>5, FlagsTouched DEF LinkDown
<1>6. CASE ConnectionLost(a)
  BY <1>1, <1>6, FlagsTouched DEF ConnectionLost, Calls
<1>7. ASSUME NEW t \in Topics, MessageArrives(a, t)
      PROVE  /\ UNCHANGED <<conn, active, claimed, bound, value, pc, ending, at, left, drained>>
             /\ \E u : Touched(session[a], u) /\ SetSession(a, u)
             /\ UNCHANGED session
  BY <1>1, <1>7, FlagsTouched DEF MessageArrives
<1>8. CASE OnConnect(a)
  BY <1>1, <1>8, FlagsTouched DEF OnConnect, Returns
<1>9. CASE OnConnectFailure(a)
  BY <1>1, <1>9, FlagsTouched DEF OnConnectFailure, Returns
<1>10. CASE OnOpSuccess(a) \/ OnOpFailure(a)
  BY <1>1, <1>10, FlagsTouched DEF OnOpSuccess, OnOpFailure, Returns
<1>11. CASE OnConnectionLost(a)
  BY <1>1, <1>11, FlagsTouched DEF OnConnectionLost, Returns
<1> QED
  BY <1>2, <1>3, <1>4, <1>5, <1>6, <1>7, <1>8, <1>9, <1>10, <1>11 DEF LibraryStep, Lands

\* The types of what they change.
LEMMA LibraryTypes ==
    ASSUME TypeOK, NEW a \in Adapters, LibraryStep(a) \/ Lands(a)
    PROVE  /\ ack' \in [Adapters -> {"none", "ok", "failed"}]
           /\ calling' \in [Adapters -> Events]
<1> USE DEF registry, equipment, library
<1>1. /\ ack \in [Adapters -> {"none", "ok", "failed"}]
      /\ calling \in [Adapters -> Events]
  BY DEF TypeOK
<1>2. CASE LibraryStep(a)
  <2>1. ack' = ack
    BY <1>2 DEF LibraryStep, ConnAck, SubAck, SubNack, LinkDown, ConnectionLost, MessageArrives
  <2>2. \E event \in Events : calling' = calling \/ calling' = [calling EXCEPT ![a] = event]
    BY <1>2
    DEF LibraryStep, ConnAck, SubAck, SubNack, LinkDown, ConnectionLost, MessageArrives,
        Calls, Events
  <2> QED BY <1>1, <2>1, <2>2
<1>3. CASE Lands(a)
  <2>1. \E result \in {"none", "ok", "failed"} :
           ack' = ack \/ ack' = [ack EXCEPT ![a] = result]
    BY <1>3
    DEF Lands, OnConnect, OnConnectFailure, OnOpSuccess, OnOpFailure, OnConnectionLost, Answers
  <2>2. calling' = [calling EXCEPT ![a] = "none"]
    BY <1>3
    DEF Lands, OnConnect, OnConnectFailure, OnOpSuccess, OnOpFailure, OnConnectionLost, Returns
  <2>3. "none" \in Events
    BY DEF Events
  <2> QED BY <1>1, <2>1, <2>2, <2>3
<1> QED BY <1>2, <1>3

LEMMA TargetType == ASSUME TypeOK, NEW th \in Threads PROVE Target(th) \in Adapters
  BY DEF TypeOK, Target, Threads

LEMMA MoveTypes ==
    ASSUME TypeOK, NEW th \in Threads,
           \/ \E step \in Steps : Continue(th, step)
           \/ TearDown(th, "Faulted")
           \/ TearDown(th, "Disconnected")
    PROVE  /\ pc' \in [Threads -> Steps]
           /\ ending' \in [Threads -> {"Disconnected", "Faulted"}]
<1>1. pc \in [Threads -> Steps] /\ ending \in [Threads -> {"Disconnected", "Faulted"}]
  BY DEF TypeOK
<1>2. CASE \E step \in Steps : Continue(th, step)
  BY <1>1, <1>2 DEF Continue
<1>3. ASSUME NEW state \in {"Disconnected", "Faulted"}, TearDown(th, state)
      PROVE  /\ pc' \in [Threads -> Steps]
             /\ ending' \in [Threads -> {"Disconnected", "Faulted"}]
  BY <1>1, <1>3 DEF TearDown, Steps
<1> QED BY <1>2, <1>3

LEMMA TypeInit == Init => TypeOK
<1> SUFFICES ASSUME Init PROVE TypeOK
  OBVIOUS
<1>1. [t \in Topics |-> 0] \in [Topics -> Versions]
  BY LimitsAssumption DEF Versions
<1>2. /\ session \in [Adapters -> Sessions]
      /\ \A a \in Adapters : Len(session[a].queue) <= QueueLimit
  BY ClosedBounded DEF Init, Bounded
<1>3. /\ value \in [Adapters -> [Topics -> Versions]]
      /\ arrived \in [Adapters -> [Topics -> Versions]]
  BY <1>1 DEF Init
<1>4. pc \in [Threads -> Steps] /\ ending \in [Threads -> {"Disconnected", "Faulted"}]
  BY DEF Init, Steps
<1>5. drained \in [Adapters -> 0 .. BatchLimit - 1]
  BY LimitsAssumption DEF Init
<1>6. calling \in [Adapters -> Events]
  BY DEF Init, Events
<1> QED BY <1>2, <1>3, <1>4, <1>5, <1>6 DEF Init, TypeOK, ConnStates

LEMMA TypeStep == TypeOK /\ [Next]_vars => TypeOK'
<1> SUFFICES ASSUME TypeOK, [Next]_vars PROVE TypeOK'
  OBVIOUS
<1> USE DEF registry, equipment, library
<1>a. \A a \in Adapters : a \in Threads
  BY DEF Threads
<1>b. \A a \in Adapters : Bounded(session[a])
  BY DEF TypeOK, Bounded
<1>1. ASSUME NEW a \in Adapters,
             BeginConnect(a) \/ BeginPoll(a) \/ Claim(a) \/ SubscribeFails(a)
               \/ Subscribed(a) \/ SubscribeGivesUp(a) \/ FinishConnect(a)
      PROVE  TypeOK'
  <2>1. /\ pc' \in [Threads -> Steps]
        /\ ending' \in [Threads -> {"Disconnected", "Faulted"}]
    <3>1. \/ \E step \in {"claim", "open", "subscribe", "drain", "idle"} : Continue(a, step)
          \/ TearDown(a, "Faulted")
      BY <1>1 DEF BeginConnect, BeginPoll, Claim, SubscribeFails, Subscribed,
                  SubscribeGivesUp, FinishConnect
    <3> QED BY <1>a, <3>1, MoveTypes DEF Steps
  <2>2. active' \subseteq Adapters /\ claimed' \subseteq {KeyOf[b] : b \in Adapters}
    <3>1. CASE Claim(a)
      BY <3>1 DEF Claim, TypeOK
    <3>2. CASE ~ Claim(a)
      BY <1>1, <3>2 DEF BeginConnect, BeginPoll, SubscribeFails, Subscribed,
                        SubscribeGivesUp, FinishConnect, TypeOK
    <3> QED BY <3>1, <3>2
  <2>3. conn' \in [Adapters -> ConnStates]
    <3>1. conn' = conn \/ conn' = [conn EXCEPT ![a] = "Connected"]
      BY <1>1 DEF BeginConnect, BeginPoll, Claim, SubscribeFails, Subscribed,
                  SubscribeGivesUp, FinishConnect
    <3>2. conn \in [Adapters -> ConnStates] /\ "Connected" \in ConnStates
      BY DEF TypeOK, ConnStates
    <3> QED BY <3>1, <3>2
  <2>4. /\ ack' \in [Adapters -> {"none", "ok", "failed"}]
        /\ left' \in [Adapters -> SUBSET Topics]
    <3>1. /\ ack \in [Adapters -> {"none", "ok", "failed"}]
          /\ left \in [Adapters -> SUBSET Topics]
      BY DEF TypeOK
    <3>2. EndConnect(a) \/ UNCHANGED <<left, ack>>
      BY <1>1 DEF BeginConnect, BeginPoll, Claim, SubscribeFails, Subscribed,
                  SubscribeGivesUp, FinishConnect
    <3> QED BY <3>1, <3>2 DEF EndConnect
  <2>5. UNCHANGED <<equipment, session, at, drained, library>>
    BY <1>1 DEF BeginConnect, BeginPoll, Claim, SubscribeFails, Subscribed,
                SubscribeGivesUp, FinishConnect
  <2> QED BY <2>1, <2>2, <2>3, <2>4, <2>5 DEF TypeOK
<1>2. ASSUME NEW a \in Adapters,
             Open(a) \/ OpenFails(a) \/ ConnectReturns(a) \/ ConnectGivesUp(a)
      PROVE  TypeOK'
  <2>1. /\ pc' \in [Threads -> Steps]
        /\ ending' \in [Threads -> {"Disconnected", "Faulted"}]
    BY <1>2, <1>a, MoveTypes DEF Open, OpenFails, ConnectReturns, ConnectGivesUp, Steps
  <2>2. /\ session' \in [Adapters -> Sessions]
        /\ \A b \in Adapters : Len(session'[b].queue) <= QueueLimit
    <3>1. CASE ConnectReturns(a)
      BY <3>1 DEF ConnectReturns, TypeOK
    <3>2. CASE Open(a) \/ OpenFails(a) \/ ConnectGivesUp(a)
      BY <3>2, ClosedBounded, SetSessionType DEF Open, OpenFails, ConnectGivesUp
    <3> QED BY <1>2, <3>1, <3>2
  <2>3. bound' \subseteq Adapters /\ value' \in [Adapters -> [Topics -> Versions]]
    <3>1. [t \in Topics |-> 0] \in [Topics -> Versions]
      BY LimitsAssumption DEF Versions
    <3> QED BY <1>2, <3>1
      DEF Open, OpenFails, ConnectReturns, ConnectGivesUp, TypeOK
  <2>4. /\ ack' \in [Adapters -> {"none", "ok", "failed"}]
        /\ left' \in [Adapters -> SUBSET Topics]
    <3>1. /\ ack \in [Adapters -> {"none", "ok", "failed"}]
          /\ left \in [Adapters -> SUBSET Topics]
      BY DEF TypeOK
    <3>2. ack' = ack \/ ack' = [ack EXCEPT ![a] = "none"]
      BY <1>2 DEF Open, OpenFails, ConnectReturns, ConnectGivesUp, EndConnect
    <3>3. left' = left \/ left' = [left EXCEPT ![a] = Topics]
      BY <1>2 DEF Open, OpenFails, ConnectReturns, ConnectGivesUp, EndConnect
    <3> QED BY <3>1, <3>2, <3>3
  <2> QED BY <1>2, <2>1, <2>2, <2>3, <2>4
    DEF Open, OpenFails, ConnectReturns, ConnectGivesUp, TypeOK
<1>3. ASSUME NEW a \in Adapters, NEW t \in Topics, Subscribe(a, t)
      PROVE  TypeOK'
  <2>1. /\ pc' \in [Threads -> Steps]
        /\ ending' \in [Threads -> {"Disconnected", "Faulted"}]
    BY <1>3, <1>a, MoveTypes DEF Subscribe, Steps
  <2>2. /\ ack' \in [Adapters -> {"none", "ok", "failed"}]
        /\ left' \in [Adapters -> SUBSET Topics]
    BY <1>3 DEF Subscribe, AnswerReset, TypeOK
  <2>3. Touched(session[a], Asked(session[a], t))
    BY <1>b, TopicsTouched DEF Bounded
  <2>4. /\ session' \in [Adapters -> Sessions]
        /\ \A b \in Adapters : Len(session'[b].queue) <= QueueLimit
    BY <1>3, <1>b, <2>3, TouchedBounded, SetSessionType DEF Subscribe
  <2> QED BY <1>3, <2>1, <2>2, <2>4 DEF Subscribe, TypeOK
<1>4. ASSUME NEW a \in Adapters, ReceiveError(a) \/ ReceiveNothing(a)
      PROVE  TypeOK'
  <2>1. /\ pc' \in [Threads -> Steps]
        /\ ending' \in [Threads -> {"Disconnected", "Faulted"}]
    BY <1>4, <1>a, MoveTypes DEF ReceiveError, ReceiveNothing, Steps
  <2>2. /\ session' \in [Adapters -> Sessions]
        /\ \A b \in Adapters : Len(session'[b].queue) <= QueueLimit
    <3>1. CASE ReceiveError(a)
      <4>1. Touched(session[a], Lost(session[a]))
        BY <1>b, FlagsTouched DEF Bounded
      <4> QED BY <3>1, <1>b, <4>1, TouchedBounded, SetSessionType DEF ReceiveError
    <3>2. CASE ReceiveNothing(a)
      BY <3>2 DEF ReceiveNothing, TypeOK
    <3> QED BY <1>4, <3>1, <3>2
  <2>3. drained' \in [Adapters -> 0 .. BatchLimit - 1]
    <3>1. drained' = [drained EXCEPT ![a] = 0]
      BY <1>4 DEF ReceiveError, ReceiveNothing, EndPoll
    <3>2. drained \in [Adapters -> 0 .. BatchLimit - 1]
      BY DEF TypeOK
    <3> QED BY <3>1, <3>2, LimitsAssumption
  <2> QED BY <1>4, <2>1, <2>2, <2>3
    DEF ReceiveError, ReceiveNothing, TypeOK
<1>5. ASSUME NEW a \in Adapters, ReceiveMessage(a)
      PROVE  TypeOK'
  <2>1. /\ pc' \in [Threads -> Steps]
        /\ ending' \in [Threads -> {"Disconnected", "Faulted"}]
    BY <1>5, <1>a, MoveTypes DEF ReceiveMessage, Steps
  <2> DEFINE m == Take(session[a].queue).message
  <2>2. Bounded(Taken(session[a])) /\ m \in Messages
    BY <1>5, <1>b, TakenBounded DEF ReceiveMessage
  <2>3. SetSession(a, Taken(session[a])) /\ value' = [value EXCEPT ![a][m.topic] = m.version]
    BY <1>5 DEF ReceiveMessage
  <2>5. /\ session' \in [Adapters -> Sessions]
        /\ \A b \in Adapters : Len(session'[b].queue) <= QueueLimit
    BY <2>2, <2>3, SetSessionType
  <2>6. value' \in [Adapters -> [Topics -> Versions]]
    BY <2>2, <2>3 DEF TypeOK, Messages
  <2>7. drained' \in [Adapters -> 0 .. BatchLimit - 1]
    <3>1. drained \in [Adapters -> 0 .. BatchLimit - 1]
      BY DEF TypeOK
    <3>2. CASE drained[a] + 1 = BatchLimit
      <4>1. drained' = [drained EXCEPT ![a] = 0]
        BY <1>5, <3>2 DEF ReceiveMessage, EndPoll
      <4> QED BY <3>1, <4>1, LimitsAssumption
    <3>3. CASE drained[a] + 1 # BatchLimit
      <4>1. drained' = [drained EXCEPT ![a] = drained[a] + 1]
        BY <1>5, <3>3 DEF ReceiveMessage
      <4>2. drained[a] \in Nat /\ drained[a] + 1 <= BatchLimit - 1
        BY <3>1, <3>3, LimitsAssumption
      <4> QED BY <3>1, <4>1, <4>2, LimitsAssumption
    <3> QED BY <3>2, <3>3
  <2> QED BY <1>5, <2>1, <2>5, <2>6, <2>7 DEF ReceiveMessage, TypeOK
<1>6. ASSUME NEW c \in Clients, ClientStep(c)
      PROVE  TypeOK'
  <2>1. c \in Threads
    BY DEF Threads
  <2>2. /\ pc' \in [Threads -> Steps]
        /\ ending' \in [Threads -> {"Disconnected", "Faulted"}]
    BY <1>6, <2>1, MoveTypes DEF ClientStep, BeginExecute, Published, PublishFails, Steps
  <2> QED BY <1>6, <2>2 DEF ClientStep, BeginExecute, Published, PublishFails, TypeOK
<1>7. ASSUME NEW a \in Adapters, Disconnect(a)
      PROVE  TypeOK'
  <2>1. /\ pc' \in [Threads -> Steps]
        /\ ending' \in [Threads -> {"Disconnected", "Faulted"}]
    BY <1>7, <1>a, MoveTypes DEF Disconnect
  <2> QED BY <1>7, <2>1, LimitsAssumption DEF Disconnect, TypeOK, Versions
<1>8. ASSUME NEW th \in Threads, TearDownStep(th)
      PROVE  TypeOK'
  <2>a. Target(th) \in Adapters
    BY TargetType
  <2>1. /\ pc' \in [Threads -> Steps]
        /\ ending' \in [Threads -> {"Disconnected", "Faulted"}]
    <3>1. CASE EndTearDown(th)
      BY <3>1 DEF EndTearDown, TypeOK, Steps
    <3>2. CASE CloseSession(th) \/ ReleaseReads(th) \/ ReleaseErases(th)
      BY <3>2, MoveTypes DEF CloseSession, ReleaseReads, ReleaseErases, Steps
    <3> QED BY <1>8, <3>1, <3>2 DEF TearDownStep
  <2>2. /\ session' \in [Adapters -> Sessions]
        /\ \A b \in Adapters : Len(session'[b].queue) <= QueueLimit
    <3>1. CASE CloseSession(th)
      BY <3>1, <2>a, ClosedBounded, SetSessionType DEF CloseSession, AfterClose
    <3>2. CASE ReleaseReads(th) \/ ReleaseErases(th) \/ EndTearDown(th)
      BY <3>2 DEF ReleaseReads, ReleaseErases, EndTearDown, TypeOK
    <3> QED BY <1>8, <3>1, <3>2 DEF TearDownStep
  <2>3. conn' \in [Adapters -> ConnStates]
    BY <1>8, <2>a
    DEF TearDownStep, CloseSession, ReleaseReads, ReleaseErases, EndTearDown, TypeOK, ConnStates
  <2> QED BY <1>8, <2>1, <2>2, <2>3
    DEF TearDownStep, CloseSession, ReleaseReads, ReleaseErases, EndTearDown, TypeOK
<1>9. ASSUME NEW a \in Adapters, LibraryStep(a) \/ Lands(a)
      PROVE  TypeOK'
  <2>1. PICK u : Touched(session[a], u) /\ SetSession(a, u)
    BY <1>9, LibraryLeaves
  <2>2. /\ session' \in [Adapters -> Sessions]
        /\ \A b \in Adapters : Len(session'[b].queue) <= QueueLimit
    BY <1>b, <2>1, TouchedBounded, SetSessionType
  <2>3. /\ arriving' \in [to : Adapters, message : Messages] \cup {NoMessage}
        /\ arrived' \in [Adapters -> [Topics -> Versions]]
    <3>1. CASE UNCHANGED <<arriving, arrived>>
      BY <3>1 DEF TypeOK
    <3>2. ASSUME NEW t \in Topics, MessageArrives(a, t)
          PROVE  /\ arriving' \in [to : Adapters, message : Messages] \cup {NoMessage}
                 /\ arrived' \in [Adapters -> [Topics -> Versions]]
      <4>1. arrived[a][t] + 1 \in Versions
        BY <3>2, LimitsAssumption DEF MessageArrives, TypeOK, Versions
      <4> QED BY <3>2, <4>1 DEF MessageArrives, TypeOK, Messages
    <3> QED BY <1>9, <3>1, <3>2, LibraryLeaves
  <2> QED BY <1>9, <2>2, <2>3, LibraryLeaves, LibraryTypes DEF TypeOK
<1>11. ASSUME Enqueue
       PROVE  TypeOK'
  <2>1. arriving.to \in Adapters /\ arriving.message \in Messages
    BY <1>11 DEF Enqueue, TypeOK
  <2>2. Bounded(Queued(session[arriving.to], arriving.message))
    BY <2>1, <1>b, QueuedBounded
  <2>7. /\ session' \in [Adapters -> Sessions]
        /\ \A b \in Adapters : Len(session'[b].queue) <= QueueLimit
    BY <1>11, <2>1, <2>2, SetSessionType DEF Enqueue
  <2> QED BY <1>11, <2>7 DEF Enqueue, TypeOK
<1>12. CASE UNCHANGED vars
  BY <1>12 DEF vars, TypeOK
<1> QED
  BY <1>1, <1>2, <1>3, <1>4, <1>5, <1>6, <1>7, <1>8, <1>9, <1>11, <1>12
  DEF Next, OwnerStep, Callback, Lands

\* Type correctness, with the bound kMaxQueued on every session's queue: also a
\* message that lands in the queue late respects it (MqttSession::Impl::onMessage).
THEOREM TypeCorrect == Spec => []TypeOK
<1>1. Init => TypeOK
  BY TypeInit
<1>2. TypeOK /\ [Next]_vars => TypeOK'
  BY TypeStep
<1> QED BY <1>1, <1>2, PTL DEF Spec

-------------------------------------------------------------------------------
(* Client ids.  Threads that tear the same adapter down at the same time, or a *)
(* client that tears down what the owner is connecting, break what follows     *)
(* (run mqtt_eviction): the code has no lock that prevents either.  As long as *)
(* it does not happen, the claims are sound, whatever else clients do.         *)

\* Tear-downs take turns: a client's overlaps neither another thread's of the same
\* adapter nor a connect() of its owner.
TearDownsInTurn ==
    \A c \in Clients :
        TearingDown(c) => /\ pc[at[c]] \in {"idle", "drain"}
                          /\ \A d \in Clients \ {c} : TearingDown(d) => at[d] # at[c]

\* An adapter whose claim is in the registry: "clear" follows the erasure.
Owns(a) == a \in active /\ \A th \in Threads : Target(th) = a => pc[th] # "clear"

\* The claim is taken before the session is opened and erased after it is
\* closed: that order, at every step of every call, is the invariant.
SessionsAreClaimed ==
    \A a \in Adapters :
        session[a].open => /\ a \in active
                           /\ \A th \in Threads :
                                 Target(th) = a => pc[th] \notin {"release", "erase", "clear"}

ClaimsAreExclusive ==
    /\ \A a \in Adapters : Owns(a) => KeyOf[a] \in claimed
    /\ \A a, b \in Adapters : a # b /\ Owns(a) /\ Owns(b) => KeyOf[a] # KeyOf[b]
    /\ \A k \in claimed : \E a \in Adapters : Owns(a) /\ KeyOf[a] = k

ConnectSteps == {"open", "connack", "subscribe", "suback"}

StepsAgree ==
    /\ \A a \in Adapters :
          /\ pc[a] = "claim" => a \notin active
          /\ pc[a] \in {"idle", "drain"} => (a \in active <=> conn[a] = "Connected")
          /\ pc[a] \in ConnectSteps => a \in active
    /\ \A th \in Threads : pc[th] = "erase" => Target(th) \in active

ClaimInv == SessionsAreClaimed /\ ClaimsAreExclusive /\ StepsAgree

LEMMA OpenKept ==
    ASSUME NEW s \in Sessions
    PROVE  /\ Lost(s).open = s.open
           /\ Taken(s).open = s.open
           /\ \A m : Queued(s, m).open = s.open
           /\ ~Closed.open
  BY DEF Sessions, Lost, Taken, Queued, Closed

LEMMA SetKeepsOpen ==
    ASSUME TypeOK, NEW a \in Adapters, NEW s, SetSession(a, s), s.open => session[a].open
    PROVE  \A b \in Adapters : session'[b].open => session[b].open
<1>1. session \in [Adapters -> Sessions]
  BY DEF TypeOK
<1> QED BY <1>1 DEF SetSession

\* The steps of any thread that opens no session and leaves the registry and the
\* states alone; a client may have turned to another adapter.
LEMMA QuietStep ==
    ASSUME TypeOK, ClaimInv, NEW th \in Threads, NEW step \in Steps,
           pc' = [pc EXCEPT ![th] = step],
           UNCHANGED <<active, claimed, conn>>,
           \A other \in Threads \ {th} : Target(other)' = Target(other),
           pc[th] # "clear", step # "claim",
           \A b \in Adapters : session'[b].open => session[b].open,
           step = "clear" => Target(th)' \notin active,
           step = "erase" => Target(th)' \in active,
           step \in {"release", "erase"} => ~session'[Target(th)'].open,
           th \in Adapters =>
              /\ step \in {"idle", "drain"} => (th \in active <=> conn[th] = "Connected")
              /\ step \in ConnectSteps => th \in active
    PROVE  ClaimInv'
<1>1. /\ pc'[th] = step
      /\ \A other \in Threads : other # th => pc'[other] = pc[other]
      /\ Adapters \subseteq Threads
  BY DEF TypeOK, Threads
<1>2. \A b \in Adapters : Owns(b)' <=> Owns(b)
  <2> SUFFICES ASSUME NEW b \in Adapters PROVE Owns(b)' <=> Owns(b)
    OBVIOUS
  <2>1. \A other \in Threads \ {th} :
           (Target(other)' = b => pc'[other] # "clear") <=> (Target(other) = b => pc[other] # "clear")
    BY <1>1
  <2>2. b \in active => (Target(th)' = b => pc'[th] # "clear") /\ (Target(th) = b => pc[th] # "clear")
    BY <1>1
  <2> QED BY <2>1, <2>2 DEF Owns
<1>3. SessionsAreClaimed'
  <2> SUFFICES ASSUME NEW b \in Adapters, session'[b].open
               PROVE  /\ b \in active'
                      /\ \A o \in Threads :
                            Target(o)' = b => pc'[o] \notin {"release", "erase", "clear"}
    BY DEF SessionsAreClaimed
  <2>1. /\ b \in active
        /\ \A o \in Threads : Target(o) = b => pc[o] \notin {"release", "erase", "clear"}
    BY DEF ClaimInv, SessionsAreClaimed
  <2>2. Target(th)' = b => pc'[th] \notin {"release", "erase", "clear"}
    BY <1>1, <2>1
  <2> QED BY <1>1, <2>1, <2>2
<1>4. ClaimsAreExclusive'
  BY <1>2 DEF ClaimInv, ClaimsAreExclusive
<1>5. StepsAgree'
  <2>1. \A o \in Threads : pc'[o] = "erase" => Target(o)' \in active'
    BY <1>1 DEF ClaimInv, StepsAgree
  <2> QED BY <1>1, <2>1 DEF ClaimInv, StepsAgree, ConnectSteps
<1> QED BY <1>3, <1>4, <1>5 DEF ClaimInv

LEMMA ClaimInit == Init => ClaimInv
  BY DEF Init, ClaimInv, SessionsAreClaimed, ClaimsAreExclusive, StepsAgree, Owns,
         Closed, ConnectSteps, Threads

\* While a thread tears an adapter down, its owner is where StepsAgree asks nothing,
\* or idle or in poll(), and no other thread tears it down.
LEMMA OneTearsDown ==
    ASSUME TypeOK, TearDownsInTurn, NEW th \in Threads, TearingDown(th)
    PROVE  /\ Target(th) \in Threads
           /\ th = Target(th) \/ pc[Target(th)] \in {"idle", "drain"}
           /\ \A o \in Threads \ {th} : Target(o) = Target(th) => ~TearingDown(o)
<1>1. /\ \A a \in Adapters : Target(a) = a /\ a \in Threads /\ a \notin Clients
      /\ \A c \in Clients : Target(c) = at[c] /\ at[c] \in Adapters
      /\ Threads = Adapters \cup Clients
  BY ClientsAssumption DEF TypeOK, Target, Threads
<1>2. \A c \in Clients : TearingDown(c) => ~TearingDown(at[c])
  BY DEF TearDownsInTurn, TearingDown
<1>3. \A c, d \in Clients : c # d /\ TearingDown(c) /\ TearingDown(d) => at[c] # at[d]
  BY DEF TearDownsInTurn
<1> QED BY <1>1, <1>2, <1>3 DEF TearDownsInTurn

LEMMA ClaimStep ==
    ASSUME TearDownsInTurn, TearDownsInTurn', TypeOK, ClaimInv, [Next]_vars
    PROVE  ClaimInv'
<1> USE DEF registry, equipment, library
<1>a. /\ \A a \in Adapters : Target(a) = a /\ Target(a)' = a /\ a \in Threads
      /\ \A a \in Adapters : session[a] \in Sessions
      /\ \A th \in Threads : Target(th) \in Adapters
      /\ pc \in [Threads -> Steps] /\ conn \in [Adapters -> ConnStates]
  BY ClientsAssumption, TargetType DEF Target, TypeOK, Threads
<1>b. at' = at => \A th \in Threads : Target(th)' = Target(th)
  BY DEF Target
<1>1. ASSUME NEW a \in Adapters, BeginConnect(a)
      PROVE  ClaimInv'
  <2>1. CASE a \in Valid
    <3>1. /\ pc[a] = "idle" /\ pc' = [pc EXCEPT ![a] = "claim"] /\ a \notin active
          /\ UNCHANGED <<active, claimed, conn, session, at>>
      BY <1>1, <2>1 DEF BeginConnect, Continue, ClaimInv, StepsAgree
    <3>2. \A th \in Threads : pc'[th] = IF th = a THEN "claim" ELSE pc[th]
      BY <1>a, <3>1
    <3>3. \A b \in Adapters : Owns(b)' <=> Owns(b)
      BY <1>a, <1>b, <3>1, <3>2 DEF Owns
    <3>4. SessionsAreClaimed'
      BY <1>a, <1>b, <3>1, <3>2 DEF ClaimInv, SessionsAreClaimed
    <3>5. ClaimsAreExclusive'
      BY <3>1, <3>3 DEF ClaimInv, ClaimsAreExclusive
    <3>6. StepsAgree'
      BY <1>a, <1>b, <3>1, <3>2 DEF ClaimInv, StepsAgree, ConnectSteps
    <3> QED BY <3>4, <3>5, <3>6 DEF ClaimInv
  <2>2. CASE a \notin Valid
    BY <1>1, <1>a, <1>b, <2>2, QuietStep DEF BeginConnect, TearDown, Steps, ConnectSteps
  <2> QED BY <2>1, <2>2
<1>2. ASSUME NEW a \in Adapters, Claim(a)
      PROVE  ClaimInv'
  <2>1. CASE InUse(a)
    BY <1>2, <1>a, <1>b, <2>1, QuietStep DEF Claim, TearDown, Steps, ConnectSteps
  <2>2. CASE ~InUse(a)
    <3>1. /\ pc[a] = "claim" /\ pc' = [pc EXCEPT ![a] = "open"]
          /\ claimed' = claimed \cup {KeyOf[a]}
          /\ active' = active \cup {a}
          /\ UNCHANGED <<conn, session, at>>
          /\ KeyOf[a] \notin claimed
          /\ a \notin active
      BY <1>2, <2>2 DEF Claim, InUse, Continue, ClaimInv, StepsAgree
    <3>2. \A th \in Threads : pc'[th] = IF th = a THEN "open" ELSE pc[th]
      BY <1>a, <3>1
    \* No client is at "clear" on a: its owner is connecting.
    <3>3. \A th \in Threads : Target(th) = a => pc[th] # "clear"
      BY <1>a, <3>1, OneTearsDown DEF TearingDown
    <3>4. \A b \in Adapters : Owns(b)' <=> Owns(b) \/ b = a
      BY <1>a, <1>b, <3>1, <3>2, <3>3 DEF Owns
    <3>5. SessionsAreClaimed'
      BY <1>a, <1>b, <3>1, <3>2 DEF ClaimInv, SessionsAreClaimed
    <3>6. ClaimsAreExclusive'
      BY <3>1, <3>4 DEF ClaimInv, ClaimsAreExclusive
    <3>7. StepsAgree'
      BY <1>a, <1>b, <3>1, <3>2 DEF ClaimInv, StepsAgree
    <3> QED BY <3>5, <3>6, <3>7 DEF ClaimInv
  <2> QED BY <2>1, <2>2
<1>3. ASSUME NEW a \in Adapters, Open(a)
      PROVE  ClaimInv'
  <2>1. /\ pc[a] = "open" /\ pc' = [pc EXCEPT ![a] = "connack"]
        /\ UNCHANGED <<conn, active, claimed, at>>
        /\ \A b \in Adapters : b # a => session'[b] = session[b]
        /\ a \in active
    BY <1>3 DEF Open, Continue, SetSession, TypeOK, ClaimInv, StepsAgree, ConnectSteps
  <2>2. \A th \in Threads : pc'[th] = IF th = a THEN "connack" ELSE pc[th]
    BY <1>a, <2>1
  <2>3. \A b \in Adapters : Owns(b)' <=> Owns(b)
    BY <1>a, <1>b, <2>1, <2>2 DEF Owns
  <2>4. \A th \in Threads : Target(th) = a => pc[th] \notin {"release", "erase", "clear"}
    BY <1>a, <2>1, OneTearsDown DEF TearingDown
  <2>5. SessionsAreClaimed'
    BY <1>a, <1>b, <2>1, <2>2, <2>4 DEF ClaimInv, SessionsAreClaimed
  <2>6. ClaimsAreExclusive'
    BY <2>1, <2>3 DEF ClaimInv, ClaimsAreExclusive
  <2>7. StepsAgree'
    BY <1>a, <1>b, <2>1, <2>2 DEF ClaimInv, StepsAgree
  <2> QED BY <2>5, <2>6, <2>7 DEF ClaimInv
<1>4. ASSUME NEW a \in Adapters, OpenFails(a) \/ ConnectGivesUp(a)
      PROVE  ClaimInv'
  <2>1. /\ pc[a] # "clear"
        /\ pc' = [pc EXCEPT ![a] = "close"]
        /\ UNCHANGED <<conn, active, claimed, at>>
        /\ SetSession(a, Closed)
    BY <1>4 DEF OpenFails, ConnectGivesUp, TearDown
  <2>2. \A b \in Adapters : session'[b].open => session[b].open
    BY <2>1, OpenKept, SetKeepsOpen, <1>a
  <2> QED BY <1>a, <1>b, <2>1, <2>2, QuietStep DEF Steps, ConnectSteps
<1>5. ASSUME NEW a \in Adapters,
             \/ ConnectReturns(a) \/ (\E t \in Topics : Subscribe(a, t))
             \/ SubscribeFails(a) \/ Subscribed(a) \/ SubscribeGivesUp(a)
      PROVE  ClaimInv'
  <2>1. \E step \in {"subscribe", "suback", "close"} :
            /\ pc' = [pc EXCEPT ![a] = step]
            /\ pc[a] \in {"connack", "subscribe", "suback"}
            /\ UNCHANGED <<conn, active, claimed, at>>
    BY <1>5 DEF ConnectReturns, Subscribe, SubscribeFails, Subscribed, SubscribeGivesUp,
                Continue, TearDown
  <2>2. a \in active
    BY <2>1 DEF ClaimInv, StepsAgree, ConnectSteps
  <2>3. \A b \in Adapters : session'[b].open => session[b].open
    <3>1. session' = session \/ \E t \in Topics : SetSession(a, Asked(session[a], t))
      BY <1>5 DEF ConnectReturns, Subscribe, SubscribeFails, Subscribed, SubscribeGivesUp
    <3>2. \A t \in Topics : Asked(session[a], t).open = session[a].open
      BY <1>a, TopicsTouched DEF Touched
    <3> QED BY <1>a, <3>1, <3>2, SetKeepsOpen
  <2> QED BY <1>a, <1>b, <2>1, <2>2, <2>3, QuietStep DEF Steps, ConnectSteps
<1>6. ASSUME NEW a \in Adapters, FinishConnect(a)
      PROVE  ClaimInv'
  <2>1. /\ pc[a] = "subscribe" /\ pc' = [pc EXCEPT ![a] = "idle"]
        /\ conn' = [conn EXCEPT ![a] = "Connected"]
        /\ UNCHANGED <<active, claimed, session, at>>
        /\ a \in active
    BY <1>6 DEF FinishConnect, Continue, ClaimInv, StepsAgree, ConnectSteps
  <2>2. /\ \A th \in Threads : pc'[th] = IF th = a THEN "idle" ELSE pc[th]
        /\ \A b \in Adapters : conn'[b] = IF b = a THEN "Connected" ELSE conn[b]
    BY <1>a, <2>1
  <2>3. \A b \in Adapters : Owns(b)' <=> Owns(b)
    BY <1>a, <1>b, <2>1, <2>2 DEF Owns
  <2>4. SessionsAreClaimed'
    BY <1>a, <1>b, <2>1, <2>2 DEF ClaimInv, SessionsAreClaimed
  <2>5. ClaimsAreExclusive'
    BY <2>1, <2>3 DEF ClaimInv, ClaimsAreExclusive
  <2>6. StepsAgree'
    BY <1>a, <1>b, <2>1, <2>2 DEF ClaimInv, StepsAgree, ConnectSteps
  <2> QED BY <2>4, <2>5, <2>6 DEF ClaimInv
<1>7. ASSUME NEW a \in Adapters, BeginPoll(a)
      PROVE  ClaimInv'
  <2>1. a \in active
    BY <1>7 DEF BeginPoll, ClaimInv, StepsAgree
  <2> QED BY <1>7, <1>a, <1>b, <2>1, QuietStep DEF BeginPoll, Continue, Steps, ConnectSteps
<1>8. ASSUME NEW a \in Adapters, ReceiveError(a) \/ ReceiveMessage(a) \/ ReceiveNothing(a)
      PROVE  ClaimInv'
  <2>1. \E step \in {"idle", "drain", "close"} :
            /\ pc' = [pc EXCEPT ![a] = step]
            /\ pc[a] = "drain"
            /\ UNCHANGED <<conn, active, claimed, at>>
    BY <1>8 DEF ReceiveError, ReceiveMessage, ReceiveNothing, Continue, TearDown
  <2>2. \A b \in Adapters : session'[b].open => session[b].open
    <3>1. \/ SetSession(a, Lost(session[a]))
          \/ SetSession(a, Taken(session[a]))
          \/ session' = session
      BY <1>8 DEF ReceiveError, ReceiveMessage, ReceiveNothing
    <3> QED BY <1>a, <3>1, OpenKept, SetKeepsOpen
  <2>3. a \in active <=> conn[a] = "Connected"
    BY <2>1 DEF ClaimInv, StepsAgree
  <2> QED BY <1>a, <1>b, <2>1, <2>2, <2>3, QuietStep DEF Steps, ConnectSteps
<1>9. ASSUME NEW a \in Adapters, Disconnect(a)
      PROVE  ClaimInv'
  BY <1>9, <1>a, <1>b, QuietStep DEF Disconnect, TearDown, Steps, ConnectSteps
<1>10. ASSUME NEW c \in Clients, ClientStep(c)
       PROVE  ClaimInv'
  <2>1. /\ c \in Threads /\ c \notin Adapters
        /\ \E step \in {"publish", "idle", "close"} : pc' = [pc EXCEPT ![c] = step]
        /\ pc[c] \in {"idle", "publish"}
        /\ UNCHANGED <<active, claimed, conn, session>>
    BY <1>10, ClientsAssumption
    DEF ClientStep, BeginExecute, Published, PublishFails, Continue, TearDown, Threads
  <2>2. \A other \in Threads \ {c} : Target(other)' = Target(other)
    BY <1>10, <1>b DEF ClientStep, BeginExecute, Published, PublishFails, Target, TypeOK
  <2> QED BY <2>1, <2>2, QuietStep DEF Steps
<1>11. ASSUME NEW th \in Threads, CloseSession(th)
       PROVE  ClaimInv'
  <2>1. /\ \A b \in Adapters : session'[b].open => session[b].open
        /\ ~session'[Target(th)].open
    BY <1>11, <1>a, OpenKept DEF CloseSession, AfterClose, SetSession, TypeOK
  <2>2. Target(th)' = Target(th)
    BY <1>11, <1>b DEF CloseSession
  <2> QED
    BY <1>11, <1>b, <2>1, <2>2, QuietStep DEF CloseSession, Continue, Steps, ConnectSteps
<1>12. ASSUME NEW th \in Threads, ReleaseReads(th)
       PROVE  ClaimInv'
  <2>1. ~session[Target(th)].open
    BY <1>12, <1>a DEF ReleaseReads, ClaimInv, SessionsAreClaimed
  <2>2. \E step \in {"erase", "clear"} :
            /\ pc' = [pc EXCEPT ![th] = step]
            /\ step = "erase" <=> Target(th) \in active
    BY <1>12 DEF ReleaseReads, HoldsId, Continue
  <2>3. pc[th] = "release" /\ UNCHANGED <<active, claimed, conn, session, at>>
    BY <1>12 DEF ReleaseReads
  <2> QED BY <1>b, <2>1, <2>2, <2>3, QuietStep DEF Steps, ConnectSteps
<1>13. ASSUME NEW th \in Threads, ReleaseErases(th)
       PROVE  ClaimInv'
  <2> DEFINE a == Target(th)
  <2>1. /\ pc[th] = "erase" /\ pc' = [pc EXCEPT ![th] = "clear"]
        /\ claimed' = claimed \ {KeyOf[a]}
        /\ UNCHANGED <<conn, active, session, at>>
        /\ a \in Adapters /\ a \in active
        /\ ~session[a].open
    BY <1>13, <1>a
    DEF ReleaseErases, Key, Continue, ClaimInv, StepsAgree, SessionsAreClaimed
  <2>2. \A o \in Threads : pc'[o] = IF o = th THEN "clear" ELSE pc[o]
    BY <1>a, <2>1
  <2>3. Owns(a)
    BY <2>1, OneTearsDown DEF Owns, TearingDown
  <2>4. \A b \in Adapters : Owns(b)' <=> Owns(b) /\ b # a
    BY <1>b, <2>1, <2>2 DEF Owns
  <2>5. ClaimsAreExclusive'
    BY <2>1, <2>3, <2>4 DEF ClaimInv, ClaimsAreExclusive
  <2>6. SessionsAreClaimed'
    BY <1>b, <2>1, <2>2 DEF ClaimInv, SessionsAreClaimed
  <2>7. StepsAgree'
    BY <1>a, <1>b, <2>1, <2>2 DEF ClaimInv, StepsAgree, ConnectSteps
  <2> QED BY <2>5, <2>6, <2>7 DEF ClaimInv
<1>14. ASSUME NEW th \in Threads, EndTearDown(th)
       PROVE  ClaimInv'
  <2> DEFINE a == Target(th)
  <2>1. /\ pc[th] = "clear"
        /\ pc' = [pc EXCEPT ![th] = "idle"]
        /\ conn' = [conn EXCEPT ![a] = ending[th]]
        /\ active' = active \ {a}
        /\ UNCHANGED <<claimed, session, at>>
        /\ ending[th] # "Connected"
        /\ a \in Adapters /\ ~session[a].open
    BY <1>14, <1>a DEF EndTearDown, TypeOK, ClaimInv, SessionsAreClaimed
  <2>2. /\ \A o \in Threads : pc'[o] = IF o = th THEN "idle" ELSE pc[o]
        /\ \A b \in Adapters : conn'[b] = IF b = a THEN ending[th] ELSE conn[b]
    BY <1>a, <2>1
  \* Nobody else tears a down, and its owner is not connecting.
  <2>3. /\ \A o \in Threads \ {th} : Target(o) = a => pc[o] # "erase"
        /\ pc'[a] \in {"idle", "drain"}
    BY <1>a, <2>1, <2>2, OneTearsDown DEF TearingDown
  <2>4. \A b \in Adapters : Owns(b)' <=> Owns(b)
    BY <1>b, <2>1, <2>2 DEF Owns
  <2>5. SessionsAreClaimed'
    BY <1>b, <2>1, <2>2 DEF ClaimInv, SessionsAreClaimed
  <2>6. ClaimsAreExclusive'
    BY <2>1, <2>4 DEF ClaimInv, ClaimsAreExclusive
  <2>7. StepsAgree'
    <3>1. \A o \in Threads : pc'[o] = "erase" => Target(o)' \in active'
      BY <1>b, <2>1, <2>2, <2>3 DEF ClaimInv, StepsAgree
    <3>2. \A b \in Adapters : b # a => \/ pc'[b] = pc[b]
                                       \/ b = th
      BY <1>a, <2>2
    <3>3. th \in Adapters => th = a
      BY <1>a
    <3> QED BY <2>1, <2>2, <2>3, <3>1, <3>2, <3>3 DEF ClaimInv, StepsAgree, ConnectSteps
  <2> QED BY <2>5, <2>6, <2>7 DEF ClaimInv
<1>15. ASSUME Enqueue \/ \E a \in Adapters : LibraryStep(a) \/ Lands(a)
       PROVE  ClaimInv'
  <2>1. UNCHANGED <<pc, active, claimed, conn, at>>
    BY <1>15, LibraryLeaves DEF Enqueue
  <2>2. \A b \in Adapters : session'[b].open => session[b].open
    <3>1. CASE Enqueue
      <4>1. /\ arriving.to \in Adapters
            /\ SetSession(arriving.to, Queued(session[arriving.to], arriving.message))
        BY <3>1 DEF Enqueue, TypeOK
      <4> QED BY <1>a, <4>1, OpenKept, SetKeepsOpen
    <3>2. CASE \E a \in Adapters : LibraryStep(a) \/ Lands(a)
      BY <3>2, LibraryLeaves, SetKeepsOpen DEF Touched
    <3> QED BY <1>15, <3>1, <3>2
  <2> QED BY <1>b, <2>1, <2>2
    DEF ClaimInv, SessionsAreClaimed, ClaimsAreExclusive, StepsAgree, Owns
<1>16. CASE UNCHANGED vars
  BY <1>b, <1>16 DEF vars, ClaimInv, SessionsAreClaimed, ClaimsAreExclusive, StepsAgree, Owns
<1> QED
  BY <1>1, <1>2, <1>3, <1>4, <1>5, <1>6, <1>7, <1>8, <1>9, <1>10, <1>11, <1>12,
     <1>13, <1>14, <1>15, <1>16
  DEF Next, OwnerStep, TearDownStep, Callback, Lands

LEMMA ClaimInvHolds == Spec /\ []TearDownsInTurn => [](TypeOK /\ ClaimInv)
<1>1. Init => TypeOK /\ ClaimInv
  BY TypeInit, ClaimInit
<1>2. TearDownsInTurn /\ TearDownsInTurn' /\ TypeOK /\ ClaimInv /\ [Next]_vars
         => TypeOK' /\ ClaimInv'
  BY TypeStep, ClaimStep
<1> QED BY <1>1, <1>2, PTL DEF Spec

\* MQTT client ids are unique per broker among the clients of the process, for any
\* number of adapters that share ids and any number of clients, as long as tear-downs
\* take turns (claimClientId, releaseClientId): the eviction that mqtt_eviction
\* finds needs two that overlap.
THEOREM ClientIdsAreUnique == Spec /\ []TearDownsInTurn => []UniqueClientIds
<1>1. TypeOK /\ ClaimInv => UniqueClientIds
  <2> SUFFICES ASSUME TypeOK, ClaimInv PROVE UniqueClientIds
    OBVIOUS
  <2>1. \A a \in Adapters : session[a].open => Owns(a)
    BY DEF ClaimInv, SessionsAreClaimed, Owns
  <2> QED BY <2>1 DEF ClaimInv, ClaimsAreExclusive, UniqueClientIds
<1> QED BY <1>1, ClaimInvHolds, PTL

\* As long as tear-downs take turns no claim outlives the adapter that made it
\* (releaseClientId).
THEOREM ClaimsAreReleased == Spec /\ []TearDownsInTurn => []NoClaimLeaks
<1>1. ClaimInv => NoClaimLeaks
  BY DEF ClaimInv, ClaimsAreExclusive, NoClaimLeaks, Owns
<1> QED BY <1>1, ClaimInvHolds, PTL

\* As long as tear-downs take turns a Connected adapter that nobody tears down holds
\* the claim of its id, and an adapter that is down holds neither a session nor a
\* claim (enterFault, disconnect).
THEOREM ClaimsFollowStates == Spec /\ []TearDownsInTurn => []ClaimsMatchStates
<1>1. TypeOK /\ ClaimInv => ClaimsMatchStates
  <2> SUFFICES ASSUME TypeOK, ClaimInv, NEW a \in Adapters
               PROVE  /\ pc[a] \in {"idle", "drain"} /\ conn[a] = "Connected"
                            => \/ a \in active /\ KeyOf[a] \in claimed
                               \/ \E c \in Clients : at[c] = a /\ TearingDown(c)
                      /\ pc[a] = "idle" /\ conn[a] # "Connected"
                            => ~session[a].open /\ a \notin active
    BY DEF ClaimsMatchStates
  <2>1. ASSUME pc[a] \in {"idle", "drain"}, conn[a] = "Connected",
               \A c \in Clients : at[c] = a => ~TearingDown(c)
        PROVE  a \in active /\ KeyOf[a] \in claimed
    <3>1. a \in active
      BY <2>1 DEF ClaimInv, StepsAgree
    <3>2. \A th \in Threads : Target(th) = a => pc[th] # "clear"
      BY <2>1 DEF Threads, Target, TearingDown
    <3> QED BY <3>1, <3>2 DEF Owns, ClaimInv, ClaimsAreExclusive
  <2>2. ASSUME pc[a] = "idle", conn[a] # "Connected"
        PROVE  ~session[a].open /\ a \notin active
    BY <2>2 DEF ClaimInv, StepsAgree, SessionsAreClaimed
  <2> QED BY <2>1, <2>2
<1> QED BY <1>1, ClaimInvHolds, PTL

-------------------------------------------------------------------------------
(* Order of values, with any number of client threads.                     *)

\* Equipment is bound anew only when there is none: a Faulted adapter keeps it,
\* and disconnect(), which no client may overlap, destroys it.
BoundInv ==
    /\ \A a \in Adapters :
          /\ a \in bound /\ pc[a] \in {"idle", "drain"} => conn[a] # "Disconnected"
          /\ a \in bound /\ pc[a] \in {"claim", "open", "connack"} => conn[a] = "Faulted"
          /\ ending[a] = "Disconnected" =>
                a \notin bound /\ pc[a] \in {"close", "release", "erase", "clear"}
    /\ \A c \in Clients : ending[c] = "Faulted"

LEMMA BoundInit == Init => BoundInv
  BY DEF Init, BoundInv, Threads

LEMMA BoundStep ==
    ASSUME TypeOK, BoundInv, [Next]_vars
    PROVE  BoundInv'
<1> USE DEF registry, equipment, library
<1>a. /\ Adapters \subseteq Threads /\ Clients \subseteq Threads
      /\ pc \in [Threads -> Steps]
      /\ ending \in [Threads -> {"Disconnected", "Faulted"}]
      /\ conn \in [Adapters -> ConnStates]
  BY DEF TypeOK, Threads
<1>b. \A c \in Clients : c \notin Adapters
  BY ClientsAssumption
<1>1. ASSUME NEW a \in Adapters, BeginConnect(a)
      PROVE  BoundInv'
  BY <1>1, <1>a, <1>b DEF BeginConnect, Continue, TearDown, BoundInv, ConnStates
<1>2. ASSUME NEW a \in Adapters, Claim(a) \/ OpenFails(a) \/ ConnectGivesUp(a)
      PROVE  BoundInv'
  BY <1>2, <1>a, <1>b DEF Claim, OpenFails, ConnectGivesUp, Continue, TearDown, BoundInv
<1>3. ASSUME NEW a \in Adapters, Open(a) \/ ConnectReturns(a)
      PROVE  BoundInv'
  BY <1>3, <1>a, <1>b DEF Open, ConnectReturns, Continue, BoundInv
<1>4. ASSUME NEW a \in Adapters,
             \/ (\E t \in Topics : Subscribe(a, t)) \/ SubscribeFails(a)
             \/ Subscribed(a) \/ SubscribeGivesUp(a) \/ FinishConnect(a)
      PROVE  BoundInv'
  BY <1>4, <1>a, <1>b
  DEF Subscribe, SubscribeFails, Subscribed, SubscribeGivesUp, FinishConnect, Continue,
      TearDown, BoundInv
<1>5. ASSUME NEW a \in Adapters, BeginPoll(a) \/ ReceiveError(a) \/ ReceiveNothing(a)
      PROVE  BoundInv'
  BY <1>5, <1>a, <1>b
  DEF BeginPoll, ReceiveError, ReceiveNothing, Continue, TearDown, BoundInv
<1>6. ASSUME NEW a \in Adapters, ReceiveMessage(a)
      PROVE  BoundInv'
  <2>1. \E step \in {"idle", "drain"} :
            pc' = [pc EXCEPT ![a] = step] /\ UNCHANGED <<conn, bound, ending>>
    BY <1>6 DEF ReceiveMessage, Continue
  <2>2. pc[a] = "drain"
    BY <1>6 DEF ReceiveMessage
  <2> QED BY <2>1, <2>2, <1>a, <1>b DEF BoundInv
<1>7. ASSUME NEW c \in Clients, ClientStep(c)
      PROVE  BoundInv'
  BY <1>7, <1>a, <1>b
  DEF ClientStep, BeginExecute, Published, PublishFails, Continue, TearDown, BoundInv
<1>8. ASSUME NEW a \in Adapters, Disconnect(a)
      PROVE  BoundInv'
  BY <1>8, <1>a, <1>b DEF Disconnect, TearDown, BoundInv
<1>9. ASSUME NEW th \in Threads, CloseSession(th) \/ ReleaseReads(th) \/ ReleaseErases(th)
      PROVE  BoundInv'
  BY <1>9, <1>a DEF CloseSession, ReleaseReads, ReleaseErases, Continue, BoundInv
<1>10. ASSUME NEW th \in Threads, EndTearDown(th)
       PROVE  BoundInv'
  <2>1. th \in Clients \/ th \in Adapters
    BY DEF Threads
  <2>2. CASE th \in Clients
    BY <1>10, <2>2, <1>a, <1>b DEF EndTearDown, BoundInv, Target
  <2>3. CASE th \in Adapters
    BY <1>10, <2>3, <1>a, <1>b DEF EndTearDown, BoundInv, Target
  <2> QED BY <2>1, <2>2, <2>3
<1>11. ASSUME Enqueue \/ \E a \in Adapters : LibraryStep(a) \/ Lands(a)
       PROVE  BoundInv'
  <2>1. UNCHANGED <<conn, bound, pc, ending>>
    BY <1>11, LibraryLeaves DEF Enqueue
  <2> QED BY <2>1 DEF BoundInv
<1>12. CASE UNCHANGED vars
  BY <1>12 DEF vars, BoundInv
<1> QED
  BY <1>1, <1>2, <1>3, <1>4, <1>5, <1>6, <1>7, <1>8, <1>9, <1>10, <1>11, <1>12
  DEF Next, OwnerStep, TearDownStep, Callback, Lands

\* Of one topic: `applied` is what the equipment shows, `came` what has arrived;
\* between them, in order, what waits in the queue.
Ordered(applied, came, q) ==
    /\ \A i \in 1 .. Len(q) : /\ applied[q[i].topic] <= q[i].version
                              /\ q[i].version <= came[q[i].topic]
    /\ \A i, j \in 1 .. Len(q) :
          i <= j /\ q[i].topic = q[j].topic => q[i].version <= q[j].version

\* What the receive thread is about to queue comes after all of it.
Fits(applied, came, q, m) ==
    /\ applied[m.topic] <= m.version
    /\ m.version <= came[m.topic]
    /\ \A i \in 1 .. Len(q) : q[i].topic = m.topic => q[i].version <= m.version

OrderOf(a) ==
    /\ Ordered(value[a], arrived[a], session[a].queue)
    /\ arriving # NoMessage /\ arriving.to = a =>
          Fits(value[a], arrived[a], session[a].queue, arriving.message)
    /\ \A t \in Topics : value[a][t] <= arrived[a][t]

OrderInv == \A a \in Adapters : OrderOf(a)

\* An emptied queue is in order.
LEMMA EmptyQueue ==
    ASSUME NEW applied, NEW came, NEW q, NEW m
    PROVE  /\ Ordered(applied, came, <<>>)
           /\ Fits(applied, came, q, m) => Fits(applied, came, <<>>, m)
<1>1. Len(<<>>) = 0
  OBVIOUS
<1>2. 1 .. Len(<<>>) = {}
  BY <1>1
<1> QED BY <1>2 DEF Ordered, Fits

LEMMA FieldsOfMessage == \A m \in Messages : m.topic \in Topics /\ m.version \in Nat
  BY LimitsAssumption DEF Messages, Versions

\* Older values and later arrivals keep the order.
LEMMA WiderOrder ==
    ASSUME NEW applied \in [Topics -> Nat], NEW came \in [Topics -> Nat],
           NEW lower \in [Topics -> Nat], NEW higher \in [Topics -> Nat],
           \A t \in Topics : lower[t] <= applied[t] /\ came[t] <= higher[t],
           NEW q \in Seq(Messages), NEW m \in Messages
    PROVE  /\ Ordered(applied, came, q) => Ordered(lower, higher, q)
           /\ Fits(applied, came, q, m) => Fits(lower, higher, q, m)
<1>1. /\ m.topic \in Topics /\ m.version \in Nat
      /\ \A i \in 1 .. Len(q) : q[i].topic \in Topics /\ q[i].version \in Nat
  <2>1. \A i \in 1 .. Len(q) : q[i] \in Messages
    OBVIOUS
  <2> QED BY <2>1, FieldsOfMessage
<1>2. ASSUME Ordered(applied, came, q)
      PROVE  Ordered(lower, higher, q)
  <2>1. ASSUME NEW i \in 1 .. Len(q)
        PROVE  lower[q[i].topic] <= q[i].version /\ q[i].version <= higher[q[i].topic]
    <3>1. /\ applied[q[i].topic] <= q[i].version /\ q[i].version <= came[q[i].topic]
          /\ q[i].topic \in Topics /\ q[i].version \in Nat
      BY <1>1, <1>2 DEF Ordered
    <3> DEFINE t == q[i].topic
    <3>2. /\ lower[t] \in Nat /\ applied[t] \in Nat /\ came[t] \in Nat /\ higher[t] \in Nat
          /\ lower[t] <= applied[t] /\ came[t] <= higher[t]
      BY <3>1
    <3> QED BY <3>1, <3>2
  <2> QED BY <1>2, <2>1 DEF Ordered
<1>3. ASSUME Fits(applied, came, q, m)
      PROVE  Fits(lower, higher, q, m)
  <2>1. applied[m.topic] <= m.version /\ m.version <= came[m.topic]
    BY <1>3 DEF Fits
  <2>2. lower[m.topic] <= m.version /\ m.version <= higher[m.topic]
    BY <1>1, <2>1
  <2> QED BY <1>3, <2>2 DEF Fits
<1> QED BY <1>2, <1>3

\* A message that is taken becomes the value, and the rest is still in order.
LEMMA TakeInOrder ==
    ASSUME NEW applied \in [Topics -> Nat], NEW came \in [Topics -> Nat],
           NEW q \in Seq(Messages), q # <<>>, NEW m \in Messages,
           Ordered(applied, came, q),
           NEW new, new = [applied EXCEPT ![Head(q).topic] = Head(q).version]
    PROVE  /\ applied[Head(q).topic] <= Head(q).version
           /\ Head(q).version <= came[Head(q).topic]
           /\ Ordered(new, came, Tail(q))
           /\ Fits(applied, came, q, m) => Fits(new, came, Tail(q), m)
<1> DEFINE h == Head(q)
           rest == Tail(q)
<1>1. /\ Len(q) \in Nat /\ Len(q) >= 1 /\ h = q[1]
      /\ Len(rest) = Len(q) - 1
      /\ \A i \in 1 .. Len(rest) : rest[i] = q[i + 1]
  OBVIOUS
<1>2. \A i \in 1 .. Len(q) : q[i].topic \in Topics /\ q[i].version \in Nat
  <2> TAKE i \in 1 .. Len(q)
  <2>1. q[i] \in Messages
    OBVIOUS
  <2> QED BY <2>1, FieldsOfMessage
<1>3. 1 \in 1 .. Len(q) /\ \A i \in 1 .. Len(rest) : i + 1 \in 1 .. Len(q) /\ 1 <= i + 1
  BY <1>1
<1>4. h.topic \in Topics /\ h.version \in Nat
  BY <1>1, <1>2, <1>3
<1>5. applied[h.topic] <= h.version /\ h.version <= came[h.topic]
  BY <1>1, <1>3 DEF Ordered
<1>6. /\ new[h.topic] = h.version
      /\ \A t \in Topics : t # h.topic => new[t] = applied[t]
  BY <1>4
<1> HIDE DEF h, rest
<1>7. ASSUME NEW i \in 1 .. Len(rest)
      PROVE  new[rest[i].topic] <= rest[i].version /\ rest[i].version <= came[rest[i].topic]
  <2>1. i + 1 \in 1 .. Len(q) /\ rest[i] = q[i + 1] /\ 1 <= i + 1
    BY <1>1, <1>3
  <2>2. /\ applied[rest[i].topic] <= rest[i].version
        /\ rest[i].version <= came[rest[i].topic]
        /\ h.topic = rest[i].topic => h.version <= rest[i].version
        /\ rest[i].topic \in Topics
    BY <1>1, <1>2, <1>3, <2>1 DEF Ordered
  <2> QED BY <1>6, <2>2
<1>8. ASSUME NEW i \in 1 .. Len(rest), NEW j \in 1 .. Len(rest), i <= j,
             rest[i].topic = rest[j].topic
      PROVE  rest[i].version <= rest[j].version
  <2>1. i + 1 <= j + 1
    BY <1>1, <1>8
  <2> QED BY <1>1, <1>3, <1>8, <2>1 DEF Ordered
<1>9. Ordered(new, came, rest)
  BY <1>7, <1>8 DEF Ordered
<1>10. ASSUME Fits(applied, came, q, m)
       PROVE  Fits(new, came, rest, m)
  <2>1. m.topic \in Topics
    BY DEF Messages
  <2>2. new[m.topic] <= m.version
    BY <1>1, <1>3, <1>6, <1>10, <2>1 DEF Fits
  <2>3. \A i \in 1 .. Len(rest) : rest[i].topic = m.topic => rest[i].version <= m.version
    BY <1>1, <1>3, <1>10 DEF Fits
  <2> QED BY <1>10, <2>2, <2>3 DEF Fits
<1> QED BY <1>5, <1>9, <1>10 DEF h, rest

\* What a full queue drops does not disturb the order of the rest.
LEMMA PushInOrder ==
    ASSUME NEW applied, NEW came, NEW q \in Seq(Messages), NEW m \in Messages,
           Ordered(applied, came, q), Fits(applied, came, q, m)
    PROVE  Ordered(applied, came, Pushed(q, m))
<1> DEFINE kept == IF Len(q) >= QueueLimit THEN Tail(q) ELSE q
<1>1. /\ kept \in Seq(Messages)
      /\ \E d \in {0, 1} : /\ Len(kept) = Len(q) - d
                           /\ \A i \in 1 .. Len(kept) : kept[i] = q[i + d]
  <2>1. CASE Len(q) >= QueueLimit
    <3>1. q # <<>>
      BY <2>1, LimitsAssumption
    <3>2. /\ Tail(q) \in Seq(Messages)
          /\ Len(Tail(q)) = Len(q) - 1
          /\ \A i \in 1 .. Len(Tail(q)) : Tail(q)[i] = q[i + 1]
      BY <3>1
    <3> QED BY <2>1, <3>2
  <2>2. CASE ~(Len(q) >= QueueLimit)
    <3>1. \A i \in 1 .. Len(q) : i + 0 = i
      OBVIOUS
    <3>2. Len(q) = Len(q) - 0
      OBVIOUS
    <3> QED BY <2>2, <3>1, <3>2
  <2> QED BY <2>1, <2>2
<1>2. Pushed(q, m) = Append(kept, m)
  BY DEF Pushed
<1> HIDE DEF kept
<1>3. PICK d \in {0, 1} : /\ Len(kept) = Len(q) - d
                          /\ \A i \in 1 .. Len(kept) : kept[i] = q[i + d]
  BY <1>1
<1>4. \A i \in 1 .. Len(kept) : i + d \in 1 .. Len(q)
  BY <1>1, <1>3
<1> DEFINE new == Append(kept, m)
<1>5. /\ Len(kept) \in Nat
      /\ Len(new) = Len(kept) + 1
      /\ \A i \in 1 .. Len(kept) : new[i] = kept[i]
      /\ new[Len(kept) + 1] = m
  BY <1>1
<1> HIDE DEF new
<1>6. \A i \in 1 .. Len(new) : i = Len(kept) + 1 \/ i \in 1 .. Len(kept)
  BY <1>5
<1>7. \A i \in 1 .. Len(kept) : new[i] = q[i + d]
  BY <1>3, <1>5
<1>8. ASSUME NEW i \in 1 .. Len(new)
      PROVE  applied[new[i].topic] <= new[i].version /\ new[i].version <= came[new[i].topic]
  <2>1. CASE i \in 1 .. Len(kept)
    BY <1>4, <1>7, <2>1 DEF Ordered
  <2>2. CASE i = Len(kept) + 1
    BY <1>5, <2>2 DEF Fits
  <2> QED BY <1>6, <2>1, <2>2
<1>9. ASSUME NEW i \in 1 .. Len(new), NEW j \in 1 .. Len(new), i <= j,
             new[i].topic = new[j].topic
      PROVE  new[i].version <= new[j].version
  <2>1. CASE j \in 1 .. Len(kept)
    <3>1. i \in 1 .. Len(kept) /\ i + d <= j + d
      BY <1>5, <1>9, <2>1
    <3> QED BY <1>4, <1>7, <1>9, <2>1, <3>1 DEF Ordered
  <2>2. CASE j = Len(kept) + 1 /\ i \in 1 .. Len(kept)
    BY <1>4, <1>5, <1>7, <1>9, <2>2 DEF Fits
  <2>3. CASE j = Len(kept) + 1 /\ i = Len(kept) + 1
    <3>1. new[i].version = m.version /\ new[j].version = m.version /\ m.version \in Nat
      BY <1>5, <2>3 DEF Messages, Versions
    <3> QED BY <3>1
  <2> QED BY <1>6, <2>1, <2>2, <2>3
<1> QED BY <1>2, <1>8, <1>9 DEF Ordered, new

\* The next message of a topic is newer than everything before it.
LEMMA NextFits ==
    ASSUME NEW applied \in [Topics -> Nat], NEW came \in [Topics -> Nat],
           \A t \in Topics : applied[t] <= came[t],
           NEW q \in Seq(Messages), Ordered(applied, came, q),
           NEW t \in Topics, NEW higher, higher = [came EXCEPT ![t] = @ + 1]
    PROVE  Fits(applied, higher, q, [topic |-> t, version |-> came[t] + 1])
<1>1. ASSUME NEW i \in 1 .. Len(q)
      PROVE  q[i].topic \in Topics /\ q[i].version \in Nat
  <2>1. q[i] \in Messages
    OBVIOUS
  <2> QED BY <2>1, FieldsOfMessage
<1>2. ASSUME NEW i \in 1 .. Len(q), q[i].topic = t
      PROVE  q[i].version <= came[t] + 1
  <2>1. q[i].version <= came[q[i].topic]
    BY DEF Ordered
  <2>2. q[i].version <= came[t] /\ q[i].version \in Nat
    BY <1>1, <1>2, <2>1
  <2>3. came[t] \in Nat
    OBVIOUS
  <2> QED BY <2>2, <2>3
<1>3. applied[t] <= came[t] + 1 /\ higher[t] = came[t] + 1 /\ came[t] + 1 <= higher[t]
  <2>1. applied[t] \in Nat /\ came[t] \in Nat /\ applied[t] <= came[t]
    OBVIOUS
  <2> QED BY <2>1
<1> QED BY <1>2, <1>3 DEF Fits

LEMMA OrderInit == Init => OrderInv
<1> SUFFICES ASSUME Init, NEW a \in Adapters PROVE OrderOf(a)
  BY DEF OrderInv
<1>1. session[a].queue = <<>> /\ arriving = NoMessage
  BY DEF Init, Closed
<1>2. \A t \in Topics : value[a][t] = 0 /\ arrived[a][t] = 0
  BY DEF Init
<1> QED BY <1>1, <1>2, EmptyQueue DEF OrderOf

\* What a step does to one adapter, in the cases that the actions come to.
LEMMA OrderKept ==
    ASSUME TypeOK, OrderInv, NEW a \in Adapters,
           session'[a].queue = session[a].queue \/ session'[a].queue = <<>>,
           value'[a] = value[a], arrived'[a] = arrived[a],
           arriving' = arriving \/ arriving' = NoMessage
    PROVE  OrderOf(a)'
  BY EmptyQueue, TypeOK DEF OrderInv, OrderOf

LEMMA OrderStep ==
    ASSUME TypeOK, BoundInv, OrderInv, [Next]_vars
    PROVE  /\ OrderInv'
           /\ \A a \in Adapters : a \in bound /\ a \in bound' =>
                 \A t \in Topics : value'[a][t] >= value[a][t]
<1> USE DEF registry, equipment, library
<1> DEFINE Monotone == \A a \in Adapters : a \in bound /\ a \in bound' =>
                          \A t \in Topics : value'[a][t] >= value[a][t]
<1>a. /\ session \in [Adapters -> Sessions]
      /\ value \in [Adapters -> [Topics -> Versions]]
      /\ arrived \in [Adapters -> [Topics -> Versions]]
      /\ arriving # NoMessage => arriving.to \in Adapters /\ arriving.message \in Messages
      /\ Versions \subseteq Nat
  BY LimitsAssumption DEF TypeOK, Versions
<1>0. \A a \in Adapters : /\ value[a] \in [Topics -> Nat]
                          /\ arrived[a] \in [Topics -> Nat]
                          /\ session[a] \in Sessions
                          /\ session[a].queue \in Seq(Messages)
  BY <1>a DEF Sessions
\* Queues that are kept or emptied.
<1>1. ASSUME \A a \in Adapters :
                session'[a].queue = session[a].queue \/ session'[a].queue = <<>>,
             UNCHANGED <<value, arriving, arrived>>
      PROVE  OrderInv' /\ Monotone
  <2>1. OrderInv'
    BY <1>1, OrderKept DEF OrderInv
  <2>2. \A a \in Adapters, t \in Topics : value[a][t] \in Nat
    BY <1>0
  <2>3. \A a \in Adapters, t \in Topics : value'[a][t] >= value[a][t]
    BY <1>1, <2>2
  <2> QED BY <2>1, <2>3
\* Values that are reset with the binding.
<1>2. ASSUME NEW a \in Adapters,
             value' = [value EXCEPT ![a] = [t \in Topics |-> 0]],
             UNCHANGED <<session, arriving, arrived>>,
             a \notin bound \/ a \notin bound',
             NEW b \in Adapters
      PROVE  /\ OrderOf(b)'
             /\ b \in bound /\ b \in bound' => \A t \in Topics : value'[b][t] >= value[b][t]
  <2>1. CASE b # a
    <3>1. value'[b] = value[b]
      BY <1>a, <1>2, <2>1
    <3>2. \A t \in Topics : value[b][t] \in Nat
      BY <1>0
    <3> QED BY <1>2, <3>1, <3>2, OrderKept
  <2>2. CASE b = a
    <3> DEFINE zero == [t \in Topics |-> 0]
    <3>1. value'[a] = zero
      BY <1>a, <1>2
    <3>2. zero \in [Topics -> Nat] /\ \A t \in Topics : zero[t] = 0
      OBVIOUS
    <3> HIDE DEF zero
    <3>3. \A t \in Topics : zero[t] <= value[a][t] /\ arrived[a][t] <= arrived[a][t]
      BY <1>0, <3>2
    <3>4. OrderOf(a)
      BY DEF OrderInv
    <3>5. \A t \in Topics : zero[t] <= arrived[a][t]
      BY <1>0, <3>2
    <3>6. Ordered(zero, arrived[a], session[a].queue)
      <4>1. CASE Messages = {}
        <5>1. \A i \in 1 .. Len(session[a].queue) : session[a].queue[i] \in Messages
          BY <1>0
        <5> QED BY <4>1, <5>1 DEF Ordered
      <4>2. CASE Messages # {}
        <5>1. PICK m \in Messages : TRUE
          BY <4>2
        <5>2. Ordered(value[a], arrived[a], session[a].queue)
          BY <3>4 DEF OrderOf
        <5> QED BY <1>0, <3>2, <3>3, <5>1, <5>2, WiderOrder
      <4> QED BY <4>1, <4>2
    <3>7. arriving # NoMessage /\ arriving.to = a =>
             Fits(zero, arrived[a], session[a].queue, arriving.message)
      <4> SUFFICES ASSUME arriving # NoMessage, arriving.to = a
                   PROVE  Fits(zero, arrived[a], session[a].queue, arriving.message)
        OBVIOUS
      <4>1. arriving.message \in Messages
        BY <1>a
      <4>2. Fits(value[a], arrived[a], session[a].queue, arriving.message)
        BY <3>4 DEF OrderOf
      <4>3. \A q \in Seq(Messages), m \in Messages :
                Fits(value[a], arrived[a], q, m) => Fits(zero, arrived[a], q, m)
        BY <1>0, <3>2, <3>3, WiderOrder
      <4> QED BY <1>0, <4>1, <4>2, <4>3
    <3>8. OrderOf(a)'
      BY <1>2, <3>1, <3>5, <3>6, <3>7 DEF OrderOf
    <3> QED BY <1>2, <2>2, <3>8
  <2> QED BY <2>1, <2>2
<1>3. ASSUME NEW a \in Adapters, ReceiveMessage(a), NEW b \in Adapters
      PROVE  /\ OrderOf(b)'
             /\ b \in bound /\ b \in bound' => \A t \in Topics : value'[b][t] >= value[b][t]
  <2> DEFINE q == session[a].queue
             new == [value[a] EXCEPT ![Head(q).topic] = Head(q).version]
  <2>1. /\ q # <<>>
        /\ value' = [value EXCEPT ![a] = new]
        /\ session' = [session EXCEPT ![a] = Taken(session[a])]
        /\ UNCHANGED <<arriving, arrived>>
    BY <1>a, <1>3 DEF ReceiveMessage, Take, SetSession
  <2>2. /\ b # a => session'[b] = session[b] /\ value'[b] = value[b]
        /\ session'[a].queue = Tail(q)
        /\ value'[a] = new
    BY <1>a, <2>1 DEF Taken, Take, Sessions
  <2>3. CASE b # a
    <3>1. \A t \in Topics : value[b][t] \in Nat
      BY <1>0
    <3> QED BY <2>1, <2>2, <2>3, <3>1, OrderKept
  <2>4. CASE b = a
    <3>1. OrderOf(a)
      BY DEF OrderInv
    <3>2. Head(q) \in Messages
      BY <1>0, <2>1
    <3>3. /\ value[a][Head(q).topic] <= Head(q).version
          /\ Head(q).version <= arrived[a][Head(q).topic]
          /\ Ordered(new, arrived[a], Tail(q))
          /\ \A m \in Messages : Fits(value[a], arrived[a], q, m)
                                    => Fits(new, arrived[a], Tail(q), m)
      BY <1>0, <2>1, <3>1, <3>2, TakeInOrder DEF OrderOf
    <3>4. Head(q).topic \in Topics /\ Head(q).version \in Nat
      BY <1>a, <3>2 DEF Messages
    <3>5. /\ new[Head(q).topic] = Head(q).version
          /\ \A t \in Topics : t # Head(q).topic => new[t] = value[a][t]
      BY <1>0, <3>4
    <3> HIDE DEF q, new
    <3>6. \A t \in Topics : new[t] >= value[a][t] /\ new[t] <= arrived[a][t]
      <4> SUFFICES ASSUME NEW t \in Topics
                   PROVE  new[t] >= value[a][t] /\ new[t] <= arrived[a][t]
        OBVIOUS
      <4>1. value[a][t] \in Nat /\ arrived[a][t] \in Nat /\ value[a][t] <= arrived[a][t]
        BY <1>0, <3>1 DEF OrderOf
      <4> QED BY <3>3, <3>4, <3>5, <4>1
    <3>7. OrderOf(a)'
      BY <1>a, <2>1, <2>2, <3>1, <3>3, <3>6 DEF OrderOf, q
    <3> QED BY <2>2, <2>4, <3>6, <3>7
  <2> QED BY <2>3, <2>4
<1>4. ASSUME NEW a \in Adapters, NEW t \in Topics, MessageArrives(a, t), NEW b \in Adapters
      PROVE  OrderOf(b)'
  <2> DEFINE higher == [arrived[a] EXCEPT ![t] = @ + 1]
             m == [topic |-> t, version |-> arrived[a][t] + 1]
  <2>1. /\ arriving = NoMessage
        /\ arriving' = [to |-> a, message |-> m]
        /\ arrived' = [arrived EXCEPT ![a] = higher]
        /\ UNCHANGED <<session, value, bound>>
    BY <1>a, <1>4 DEF MessageArrives, ReceiverIdle
  <2>2. arriving'.to = a /\ arriving'.message = m
    BY <2>1
  <2>3. arrived'[a] = higher /\ (b # a => arrived'[b] = arrived[b])
    BY <1>a, <2>1
  <2>4. OrderOf(a) /\ OrderOf(b)
    BY DEF OrderInv
  <2>5. CASE b # a
    BY <2>1, <2>2, <2>3, <2>4, <2>5 DEF OrderOf
  <2>6. CASE b = a
    <3>1. arrived[a][t] \in Nat /\ arrived[a] \in [Topics -> Nat]
      BY <1>0
    <3>2. /\ higher \in [Topics -> Nat]
          /\ \A u \in Topics : arrived[a][u] <= higher[u]
      BY <3>1
    <3>3. Fits(value[a], higher, session[a].queue, m)
      BY <1>0, <2>4, NextFits DEF OrderOf
    <3>4. arrived[a][t] < MaxVersion
      BY <1>4 DEF MessageArrives
    <3>5. m \in Messages
      BY <3>1, <3>4, LimitsAssumption DEF Messages, Versions
    <3> HIDE DEF higher, m
    <3>6. \A u \in Topics : value[a][u] <= value[a][u]
      BY <1>0
    <3>7. Ordered(value[a], higher, session[a].queue)
      BY <1>0, <2>4, <3>2, <3>5, <3>6, WiderOrder DEF OrderOf
    <3>8. \A u \in Topics : value[a][u] <= higher[u]
      <4> SUFFICES ASSUME NEW u \in Topics PROVE value[a][u] <= higher[u]
        OBVIOUS
      <4>1. /\ value[a][u] \in Nat /\ arrived[a][u] \in Nat /\ higher[u] \in Nat
            /\ value[a][u] <= arrived[a][u] /\ arrived[a][u] <= higher[u]
        BY <1>0, <2>4, <3>2 DEF OrderOf
      <4> QED BY <4>1
    <3> QED BY <2>1, <2>2, <2>3, <2>6, <3>3, <3>7, <3>8 DEF OrderOf
  <2> QED BY <2>5, <2>6
<1>5. ASSUME Enqueue, NEW b \in Adapters
      PROVE  OrderOf(b)'
  <2> DEFINE a == arriving.to
             m == arriving.message
  <2>1. /\ arriving # NoMessage /\ a \in Adapters /\ m \in Messages
        /\ session' = [session EXCEPT ![a] = Queued(session[a], m)]
        /\ arriving' = NoMessage
        /\ UNCHANGED <<value, arrived>>
    BY <1>a, <1>5 DEF Enqueue, SetSession
  <2>2. /\ session'[a].queue = Pushed(session[a].queue, m)
        /\ b # a => session'[b] = session[b]
    BY <1>a, <2>1 DEF Queued, Sessions
  <2>3. OrderOf(a) /\ OrderOf(b)
    BY <2>1 DEF OrderInv
  <2>4. CASE b # a
    BY <2>1, <2>2, <2>3, <2>4 DEF OrderOf
  <2>5. CASE b = a
    <3>1. Ordered(value[a], arrived[a], Pushed(session[a].queue, m))
      BY <1>0, <2>1, <2>3, PushInOrder DEF OrderOf
    <3> QED BY <2>1, <2>2, <2>3, <2>5, <3>1 DEF OrderOf
  <2> QED BY <2>4, <2>5
<1>6. ASSUME NEW a \in Adapters, ConnectReturns(a)
      PROVE  OrderInv' /\ Monotone
  <2>1. CASE a \in bound /\ conn[a] = "Faulted"
    BY <1>1, <1>6, <2>1 DEF ConnectReturns
  <2>2. CASE a \notin bound
    BY <1>2, <1>6, <2>2 DEF ConnectReturns, OrderInv
  <2> QED BY <1>6, <2>1, <2>2 DEF ConnectReturns, BoundInv
<1>7. ASSUME NEW a \in Adapters, Disconnect(a)
      PROVE  OrderInv' /\ Monotone
  BY <1>2, <1>7 DEF Disconnect, OrderInv
<1>8. ASSUME NEW a \in Adapters, NEW s \in Sessions,
             s.queue = session[a].queue \/ s.queue = <<>>,
             SetSession(a, s)
      PROVE  \A b \in Adapters :
                session'[b].queue = session[b].queue \/ session'[b].queue = <<>>
  BY <1>a, <1>8 DEF SetSession
<1>9. /\ Closed \in Sessions /\ Closed.queue = <<>>
      /\ Opened \in Sessions /\ Opened.queue = <<>>
  <2>1. Closed \in Sessions /\ Opened \in Sessions
    BY ClosedBounded DEF Bounded
  <2>2. Closed.queue = <<>>
    BY DEF Closed
  <2> QED BY <2>1, <2>2 DEF Opened, Sessions
<1>10. ASSUME NEW a \in Adapters,
              \/ SetSession(a, Closed) \/ SetSession(a, Opened)
              \/ \E u : Touched(session[a], u) /\ SetSession(a, u)
              \/ session' = session,
              UNCHANGED <<value, arriving, arrived>>
       PROVE  OrderInv' /\ Monotone
  <2>1. \A b \in Adapters :
            session'[b].queue = session[b].queue \/ session'[b].queue = <<>>
    BY <1>8, <1>9, <1>10 DEF Touched
  <2> QED BY <1>1, <1>10, <2>1
<1>11. ASSUME NEW a \in Adapters
       PROVE  /\ Touched(session[a], Lost(session[a]))
              /\ \A t \in Topics : Touched(session[a], Asked(session[a], t))
  BY <1>a, FlagsTouched, TopicsTouched
<1>12. ASSUME NEW a \in Adapters,
              \/ BeginConnect(a) \/ BeginPoll(a) \/ Claim(a) \/ Open(a) \/ OpenFails(a)
              \/ ConnectGivesUp(a) \/ (\E t \in Topics : Subscribe(a, t))
              \/ SubscribeFails(a) \/ Subscribed(a) \/ SubscribeGivesUp(a)
              \/ FinishConnect(a) \/ ReceiveError(a) \/ ReceiveNothing(a)
       PROVE  OrderInv' /\ Monotone
  BY <1>10, <1>11, <1>12
  DEF BeginConnect, BeginPoll, Claim, Open, OpenFails, ConnectGivesUp, Subscribe,
      SubscribeFails, Subscribed, SubscribeGivesUp, FinishConnect, ReceiveError,
      ReceiveNothing
<1>13. ASSUME NEW a \in Adapters, LibraryStep(a) \/ Lands(a), UNCHANGED <<arriving, arrived>>
       PROVE  OrderInv' /\ Monotone
  BY <1>10, <1>13, LibraryLeaves
<1>14. ASSUME NEW th \in Threads, TearDownStep(th)
       PROVE  OrderInv' /\ Monotone
  <2>1. Target(th) \in Adapters
    BY TargetType
  <2> QED BY <1>10, <1>14, <2>1
    DEF TearDownStep, CloseSession, AfterClose, ReleaseReads, ReleaseErases, EndTearDown
<1>15. ASSUME UNCHANGED <<session, value, arriving, arrived>>
       PROVE  OrderInv' /\ Monotone
  BY <1>1, <1>15
<1>16. ASSUME NEW c \in Clients, ClientStep(c)
       PROVE  OrderInv' /\ Monotone
  BY <1>15, <1>16 DEF ClientStep, BeginExecute, Published, PublishFails
<1>17. ASSUME UNCHANGED vars
       PROVE  OrderInv' /\ Monotone
  BY <1>15, <1>17 DEF vars
<1> HIDE DEF Monotone
<1>18. OrderInv' /\ Monotone
  <2>1. ASSUME NEW a \in Adapters, ReceiveMessage(a)
        PROVE  OrderInv' /\ Monotone
    BY <1>3, <2>1 DEF OrderInv, Monotone
  <2>2. ASSUME NEW a \in Adapters, NEW t \in Topics, MessageArrives(a, t)
        PROVE  OrderInv' /\ Monotone
    <3>1. \A b \in Adapters, u \in Topics : value'[b][u] >= value[b][u]
      BY <1>0, <2>2 DEF MessageArrives
    <3> QED BY <1>4, <2>2, <3>1 DEF OrderInv, Monotone
  <2>3. ASSUME Enqueue
        PROVE  OrderInv' /\ Monotone
    <3>1. \A b \in Adapters, u \in Topics : value'[b][u] >= value[b][u]
      BY <1>0, <2>3 DEF Enqueue
    <3> QED BY <1>5, <2>3, <3>1 DEF OrderInv, Monotone
  <2>4. ASSUME NEW a \in Adapters,
               BeginConnect(a) \/ BeginPoll(a) \/ Disconnect(a) \/ OwnerStep(a)
        PROVE  OrderInv' /\ Monotone
    BY <2>1, <2>4, <1>6, <1>7, <1>12 DEF OwnerStep
  <2>5. ASSUME NEW a \in Adapters, LibraryStep(a) \/ Lands(a)
        PROVE  OrderInv' /\ Monotone
    BY <2>2, <2>5, <1>13, LibraryLeaves
  <2>6. CASE \E c \in Clients : ClientStep(c)
    BY <2>6, <1>16
  <2>7. CASE \E th \in Threads : TearDownStep(th)
    BY <2>7, <1>14
  <2>8. CASE UNCHANGED vars
    BY <2>8, <1>17
  <2> QED BY <2>3, <2>4, <2>5, <2>6, <2>7, <2>8 DEF Next, Callback, Lands
<1> QED BY <1>18 DEF Monotone

\* Values never go back while the equipment stays bound, whatever sessions end
\* in between and however late a callback of a closed one queues its message
\* (MqttSession::Impl::onMessage, MqttIndustrialAdapter::poll).
THEOREM ValuesNeverRegress == Spec => NoRegression
<1> DEFINE Inv == TypeOK /\ BoundInv /\ OrderInv
<1>1. Init => Inv
  BY TypeInit, BoundInit, OrderInit
<1>2. Inv /\ [Next]_vars => Inv'
  BY TypeStep, BoundStep, OrderStep
<1>3. Inv /\ [Next]_vars =>
        [\A a \in Adapters : a \in bound /\ a \in bound' =>
            \A t \in Topics : value'[a][t] >= value[a][t]]_vars
  BY OrderStep
<1> QED BY <1>1, <1>2, <1>3, PTL DEF Spec, NoRegression

-------------------------------------------------------------------------------
(* The newest message of a topic wins, unless a full queue drops it: the   *)
(* oldest message of any topic goes, though another topic filled the queue. *)
(* What a session has queued last of a topic is the last of that topic in  *)
(* the queue, or what the equipment shows, but while disconnect() has      *)
(* destroyed the equipment and not yet closed the session.                 *)

LastOf(q, t, i) == q[i].topic = t /\ \A j \in i + 1 .. Len(q) : q[j].topic # t
NoneOf(q, t)    == \A j \in 1 .. Len(q) : q[j].topic # t

\* What a full queue drops is followed by a message of the same topic.
Overtaken(q, m) ==
    \/ m.topic = Head(q).topic
    \/ \E i \in 2 .. Len(q) : q[i].topic = Head(q).topic

NewestSurvives ==
    Enqueue => LET q == session[arriving.to].queue
               IN  Len(q) >= QueueLimit => Overtaken(q, arriving.message)

NewestOf(a) ==
    LET q == session[a].queue
    IN  \A t \in Topics : session[a].newest[t] # 0 =>
           \/ \E i \in 1 .. Len(q) : LastOf(q, t, i) /\ q[i].version = session[a].newest[t]
           \/ /\ NoneOf(q, t)
              /\ IF a \in bound THEN value[a][t] = session[a].newest[t] ELSE pc[a] = "close"

\* Who polls has equipment, and so has a Connected adapter until disconnect().
EquippedInv ==
    \A a \in Adapters :
        /\ pc[a] \in {"subscribe", "suback", "drain"} => a \in bound
        /\ conn[a] = "Connected" => a \in bound \/ ending[a] = "Disconnected"

NewestInv == EquippedInv /\ \A a \in Adapters : NewestOf(a)

\* A step that keeps bound, and moves no thread to where equipment is needed.
LEMMA EquippedStep ==
    ASSUME TypeOK, BoundInv, EquippedInv, [Next]_vars
    PROVE  EquippedInv'
<1> USE DEF registry, equipment, library
<1>a. /\ Adapters \subseteq Threads /\ Clients \subseteq Threads
      /\ pc \in [Threads -> Steps]
      /\ ending \in [Threads -> {"Disconnected", "Faulted"}]
      /\ conn \in [Adapters -> ConnStates]
      /\ \A c \in Clients : c \notin Adapters
  BY ClientsAssumption DEF TypeOK, Threads
<1>1. ASSUME NEW a \in Adapters, BeginConnect(a) \/ Claim(a) \/ Open(a) \/ OpenFails(a)
      PROVE  EquippedInv'
  BY <1>1, <1>a
  DEF BeginConnect, Claim, Open, OpenFails, Continue, TearDown, EquippedInv, BoundInv
<1>2. ASSUME NEW a \in Adapters, ConnectReturns(a) \/ ConnectGivesUp(a)
      PROVE  EquippedInv'
  BY <1>2, <1>a
  DEF ConnectReturns, ConnectGivesUp, Continue, TearDown, EquippedInv, BoundInv
<1>3. ASSUME NEW a \in Adapters,
             \/ (\E t \in Topics : Subscribe(a, t)) \/ SubscribeFails(a)
             \/ Subscribed(a) \/ SubscribeGivesUp(a) \/ FinishConnect(a)
      PROVE  EquippedInv'
  BY <1>3, <1>a
  DEF Subscribe, SubscribeFails, Subscribed, SubscribeGivesUp, FinishConnect, Continue,
      TearDown, EquippedInv, BoundInv
<1>4. ASSUME NEW a \in Adapters, BeginPoll(a) \/ ReceiveError(a) \/ ReceiveNothing(a)
      PROVE  EquippedInv'
  BY <1>4, <1>a
  DEF BeginPoll, ReceiveError, ReceiveNothing, Continue, TearDown, EquippedInv, BoundInv
<1>5. ASSUME NEW a \in Adapters, ReceiveMessage(a)
      PROVE  EquippedInv'
  <2>1. /\ \E step \in {"idle", "drain"} : pc' = [pc EXCEPT ![a] = step]
        /\ UNCHANGED <<conn, bound, ending>> /\ pc[a] = "drain"
    BY <1>5 DEF ReceiveMessage, Continue
  <2> QED BY <2>1, <1>a DEF EquippedInv
<1>6. ASSUME NEW c \in Clients, ClientStep(c)
      PROVE  EquippedInv'
  BY <1>6, <1>a
  DEF ClientStep, BeginExecute, Published, PublishFails, Continue, TearDown, EquippedInv
<1>7. ASSUME NEW a \in Adapters, Disconnect(a)
      PROVE  EquippedInv'
  BY <1>7, <1>a DEF Disconnect, TearDown, EquippedInv
<1>8. ASSUME NEW th \in Threads, CloseSession(th) \/ ReleaseReads(th) \/ ReleaseErases(th)
      PROVE  EquippedInv'
  BY <1>8, <1>a DEF CloseSession, ReleaseReads, ReleaseErases, Continue, EquippedInv
<1>9. ASSUME NEW th \in Threads, EndTearDown(th)
      PROVE  EquippedInv'
  <2>1. Target(th) \in Adapters /\ (th \in Adapters => Target(th) = th)
    BY <1>a, TargetType DEF Target
  <2>2. /\ conn'[Target(th)] # "Connected"
        /\ \A a \in Adapters : a # Target(th) => conn'[a] = conn[a] /\ ending'[a] = ending[a]
    BY <1>9, <1>a, <2>1 DEF EndTearDown
  <2>3. \A a \in Adapters : pc'[a] = pc[a] \/ pc'[a] = "idle"
    BY <1>9, <1>a DEF EndTearDown
  <2> QED BY <1>9, <2>2, <2>3 DEF EndTearDown, EquippedInv
<1>10. ASSUME Enqueue \/ \E a \in Adapters : LibraryStep(a) \/ Lands(a)
       PROVE  EquippedInv'
  <2>1. UNCHANGED <<conn, bound, pc, ending>>
    BY <1>10, LibraryLeaves DEF Enqueue
  <2> QED BY <2>1 DEF EquippedInv
<1>11. CASE UNCHANGED vars
  BY <1>11 DEF vars, EquippedInv
<1> QED
  BY <1>1, <1>2, <1>3, <1>4, <1>5, <1>6, <1>7, <1>8, <1>9, <1>10, <1>11
  DEF Next, OwnerStep, TearDownStep, Callback, Lands

\* The last message of a topic after the head of the queue is gone.
LEMMA LastOfTail ==
    ASSUME NEW q \in Seq(Messages), q # <<>>, NEW t \in Topics
    PROVE  /\ Tail(q) \in Seq(Messages)
           /\ NoneOf(q, t) => NoneOf(Tail(q), t) /\ Head(q).topic # t
           /\ LastOf(q, t, 1) => NoneOf(Tail(q), t) /\ Head(q) = q[1] /\ Head(q).topic = t
           /\ \A i \in 2 .. Len(q) : LastOf(q, t, i) =>
                 /\ i - 1 \in 1 .. Len(Tail(q)) /\ Tail(q)[i - 1] = q[i]
                 /\ LastOf(Tail(q), t, i - 1)
<1>1. /\ Len(q) \in Nat /\ Len(q) >= 1 /\ Head(q) = q[1]
      /\ Tail(q) \in Seq(Messages) /\ Len(Tail(q)) = Len(q) - 1
      /\ \A j \in 1 .. Len(q) - 1 : Tail(q)[j] = q[j + 1]
  OBVIOUS
<1>2. NoneOf(q, t) => NoneOf(Tail(q), t) /\ Head(q).topic # t
  BY <1>1 DEF NoneOf
<1>3. LastOf(q, t, 1) => NoneOf(Tail(q), t) /\ Head(q).topic = t
  BY <1>1 DEF NoneOf, LastOf
<1>4. ASSUME NEW i \in 2 .. Len(q), LastOf(q, t, i)
      PROVE  /\ i - 1 \in 1 .. Len(Tail(q)) /\ Tail(q)[i - 1] = q[i]
             /\ LastOf(Tail(q), t, i - 1)
  <2>1. i - 1 \in 1 .. Len(q) - 1 /\ (i - 1) + 1 = i
    BY <1>1
  <2>2. Tail(q)[i - 1] = q[i]
    BY <1>1, <2>1
  <2>3. ASSUME NEW j \in (i - 1) + 1 .. Len(Tail(q))
        PROVE  Tail(q)[j].topic # t
    <3>1. j \in 1 .. Len(q) - 1 /\ j + 1 \in i + 1 .. Len(q)
      BY <1>1, <2>1
    <3> QED BY <1>1, <1>4, <3>1 DEF LastOf
  <2> QED BY <1>1, <1>4, <2>1, <2>2, <2>3 DEF LastOf
<1> QED BY <1>1, <1>2, <1>3, <1>4

\* The last message of a topic after a message is appended.
LEMMA LastOfAppend ==
    ASSUME NEW q \in Seq(Messages), NEW m \in Messages, NEW t \in Topics
    PROVE  LET p == Append(q, m)
           IN  /\ t = m.topic =>
                     Len(p) \in 1 .. Len(p) /\ LastOf(p, t, Len(p)) /\ p[Len(p)] = m
               /\ t # m.topic /\ NoneOf(q, t) => NoneOf(p, t)
               /\ t # m.topic => \A i \in 1 .. Len(q) : LastOf(q, t, i) =>
                     i \in 1 .. Len(p) /\ LastOf(p, t, i) /\ p[i] = q[i]
<1> DEFINE p == Append(q, m)
<1>1. /\ Len(q) \in Nat /\ Len(p) = Len(q) + 1 /\ p[Len(p)] = m
      /\ \A j \in 1 .. Len(q) : p[j] = q[j]
      /\ \A j \in 1 .. Len(p) : j \in 1 .. Len(q) \/ j = Len(p)
  OBVIOUS
<1> HIDE DEF p
<1>2. t = m.topic => Len(p) \in 1 .. Len(p) /\ LastOf(p, t, Len(p)) /\ p[Len(p)] = m
  BY <1>1 DEF LastOf
<1>3. t # m.topic /\ NoneOf(q, t) => NoneOf(p, t)
  BY <1>1 DEF NoneOf
<1>4. ASSUME t # m.topic, NEW i \in 1 .. Len(q), LastOf(q, t, i)
      PROVE  i \in 1 .. Len(p) /\ LastOf(p, t, i) /\ p[i] = q[i]
  <2>1. ASSUME NEW j \in i + 1 .. Len(p)
        PROVE  p[j].topic # t
    <3>1. j \in i + 1 .. Len(q) \/ j = Len(p)
      BY <1>1
    <3>2. j \in i + 1 .. Len(q) => j \in 1 .. Len(q)
      BY <1>1
    <3> QED BY <1>1, <1>4, <3>1, <3>2 DEF LastOf
  <2> QED BY <1>1, <1>4, <2>1 DEF LastOf
<1> QED BY <1>2, <1>3, <1>4 DEF p

\* What was the last of its topic is so after the push, unless it was dropped.
LEMMA LastOfPushed ==
    ASSUME NEW q \in Seq(Messages), NEW m \in Messages, NEW t \in Topics,
           Len(q) >= QueueLimit => Overtaken(q, m)
    PROVE  LET p == Pushed(q, m)
           IN  /\ t = m.topic =>
                     \E i \in 1 .. Len(p) : LastOf(p, t, i) /\ p[i] = m
               /\ t # m.topic /\ NoneOf(q, t) => NoneOf(p, t)
               /\ t # m.topic => \A i \in 1 .. Len(q) : LastOf(q, t, i) =>
                     \E k \in 1 .. Len(p) : LastOf(p, t, k) /\ p[k] = q[i]
<1>1. CASE Len(q) >= QueueLimit
  <2>1. q # <<>> /\ Pushed(q, m) = Append(Tail(q), m)
    BY <1>1, LimitsAssumption DEF Pushed
  <2>2. Tail(q) \in Seq(Messages) /\ (NoneOf(q, t) => NoneOf(Tail(q), t))
    BY <2>1, LastOfTail
  <2>3. ASSUME t # m.topic, NEW i \in 1 .. Len(q), LastOf(q, t, i)
        PROVE  \E k \in 1 .. Len(Tail(q)) : LastOf(Tail(q), t, k) /\ Tail(q)[k] = q[i]
    <3>1. i # 1
      <4> SUFFICES ASSUME i = 1 PROVE FALSE
        OBVIOUS
      <4>1. Head(q).topic = t
        BY <2>1, <2>3, LastOfTail
      <4>2. \A j \in 2 .. Len(q) : q[j].topic # t
        BY <2>3 DEF LastOf
      <4> QED BY <1>1, <2>3, <4>1, <4>2 DEF Overtaken
    <3>2. i \in 2 .. Len(q)
      BY <3>1
    <3> QED BY <2>1, <2>3, <3>2, LastOfTail
  <2> DEFINE kept == Tail(q)
             p == Append(kept, m)
  <2>a. kept \in Seq(Messages) /\ kept = Tail(q)
    BY <2>2
  <2> HIDE DEF kept
  <2>4. /\ t = m.topic => Len(p) \in 1 .. Len(p) /\ LastOf(p, t, Len(p)) /\ p[Len(p)] = m
        /\ t # m.topic /\ NoneOf(kept, t) => NoneOf(p, t)
        /\ t # m.topic => \A i \in 1 .. Len(kept) : LastOf(kept, t, i) =>
              i \in 1 .. Len(p) /\ LastOf(p, t, i) /\ p[i] = kept[i]
    BY <2>a, LastOfAppend
  <2>5. Pushed(q, m) = p
    BY <2>1, <2>a
  <2> HIDE DEF p
  <2>6. t # m.topic => \A i \in 1 .. Len(q) : LastOf(q, t, i) =>
                          \E k \in 1 .. Len(p) : LastOf(p, t, k) /\ p[k] = q[i]
    BY <2>3, <2>4, <2>a
  <2>7. t = m.topic => \E i \in 1 .. Len(p) : LastOf(p, t, i) /\ p[i] = m
    BY <2>4
  <2>8. t # m.topic /\ NoneOf(q, t) => NoneOf(p, t)
    BY <2>2, <2>4, <2>a
  <2> QED BY <2>5, <2>6, <2>7, <2>8
<1>2. CASE ~(Len(q) >= QueueLimit)
  BY <1>2, LastOfAppend DEF Pushed
<1> QED BY <1>1, <1>2

\* Emptied sessions have nothing newest; others keep what is queued and shown.
LEMMA NewestKept ==
    ASSUME NEW a \in Adapters, NewestOf(a),
           \/ session'[a].queue = session[a].queue /\ session'[a].newest = session[a].newest
           \/ \A t \in Topics : session'[a].newest[t] = 0,
           value'[a] = value[a], a \in bound' <=> a \in bound,
           \/ a \in bound \/ pc[a] # "close" \/ pc'[a] = "close"
           \/ session'[a].newest # session[a].newest
    PROVE  NewestOf(a)'
  BY DEF NewestOf

LEMMA NewestStep ==
    ASSUME TypeOK, BoundInv, EquippedInv, \A a \in Adapters : NewestOf(a),
           [Next]_vars, Enqueue => NewestSurvives, NEW b \in Adapters
    PROVE  NewestOf(b)'
<1> USE DEF registry, equipment, library
<1>a. /\ session \in [Adapters -> Sessions]
      /\ value \in [Adapters -> [Topics -> Versions]]
      /\ pc \in [Threads -> Steps] /\ Adapters \subseteq Threads
      /\ session[b].queue \in Seq(Messages)
      /\ arriving # NoMessage => arriving.to \in Adapters /\ arriving.message \in Messages
  BY DEF TypeOK, Threads, Sessions
<1>b. NewestOf(b)
  OBVIOUS
<1>c. \A t \in Topics : Closed.newest[t] = 0 /\ Opened.newest[t] = 0
  BY DEF Closed, Opened
<1>1. ASSUME NEW a \in Adapters,
             \/ SetSession(a, Closed) \/ SetSession(a, Opened)
             \/ \E u : Touched(session[a], u) /\ SetSession(a, u)
             \/ session' = session
      PROVE  \/ session'[b].queue = session[b].queue /\ session'[b].newest = session[b].newest
             \/ \A t \in Topics : session'[b].newest[t] = 0
  <2>1. CASE SetSession(a, Closed) \/ SetSession(a, Opened)
    BY <1>a, <1>c, <2>1 DEF SetSession
  <2>2. ASSUME NEW u, Touched(session[a], u), SetSession(a, u)
        PROVE  session'[b].queue = session[b].queue /\ session'[b].newest = session[b].newest
    BY <1>a, <2>2 DEF SetSession, Touched
  <2> QED BY <1>1, <2>1, <2>2
\* Steps of owners that keep the equipment.
<1>2. ASSUME NEW a \in Adapters,
             \/ BeginConnect(a) \/ BeginPoll(a) \/ Claim(a) \/ Open(a) \/ OpenFails(a)
             \/ ConnectGivesUp(a) \/ (\E t \in Topics : Subscribe(a, t))
             \/ SubscribeFails(a) \/ Subscribed(a) \/ SubscribeGivesUp(a)
             \/ FinishConnect(a) \/ ReceiveError(a) \/ ReceiveNothing(a)
      PROVE  NewestOf(b)'
  <2>1. /\ UNCHANGED <<bound, value>>
        /\ pc[b] = "close" => pc'[b] = "close"
        /\ \/ SetSession(a, Closed) \/ SetSession(a, Opened)
           \/ SetSession(a, Lost(session[a])) \/ session' = session
           \/ \E t \in Topics : SetSession(a, Asked(session[a], t))
    BY <1>2, <1>a
    DEF BeginConnect, BeginPoll, Claim, Open, OpenFails, ConnectGivesUp, Subscribe,
        SubscribeFails, Subscribed, SubscribeGivesUp, FinishConnect, ReceiveError,
        ReceiveNothing, Continue, TearDown
  <2>2. /\ Touched(session[a], Lost(session[a]))
        /\ \A t \in Topics : Touched(session[a], Asked(session[a], t))
    BY <1>a, FlagsTouched, TopicsTouched
  <2> QED BY <1>1, <1>b, <2>1, <2>2, NewestKept
<1>3. ASSUME NEW a \in Adapters, ConnectReturns(a)
      PROVE  NewestOf(b)'
  <2>1. /\ UNCHANGED session /\ pc[a] = "connack" /\ pc' = [pc EXCEPT ![a] = "subscribe"]
    BY <1>3 DEF ConnectReturns, Continue
  <2>2. CASE b # a \/ UNCHANGED <<bound, value>>
    <3>1. value'[b] = value[b] /\ (b \in bound' <=> b \in bound)
      BY <1>3, <1>a, <2>2 DEF ConnectReturns
    <3>2. pc[b] = "close" => pc'[b] = "close"
      BY <1>a, <2>1
    <3> QED BY <1>b, <2>1, <3>1, <3>2, NewestKept
  <2>3. CASE b = a /\ a \notin bound
    BY <1>b, <2>1, <2>3 DEF NewestOf
  <2>4. CASE b = a /\ a \in bound /\ ~UNCHANGED <<bound, value>>
    BY <1>3, <2>4 DEF ConnectReturns, BoundInv
  <2> QED BY <2>2, <2>3, <2>4
<1>4. ASSUME NEW a \in Adapters, Disconnect(a)
      PROVE  NewestOf(b)'
  <2>1. UNCHANGED session /\ bound' = bound \ {a} /\ pc' = [pc EXCEPT ![a] = "close"]
        /\ value' = [value EXCEPT ![a] = [t \in Topics |-> 0]]
    BY <1>4 DEF Disconnect, TearDown
  <2>2. CASE b # a
    <3>1. value'[b] = value[b] /\ (b \in bound' <=> b \in bound) /\ pc'[b] = pc[b]
      BY <1>a, <2>1, <2>2
    <3> QED BY <1>b, <2>1, <3>1, NewestKept
  <2>3. CASE b = a
    <3>1. pc'[b] = "close" /\ b \notin bound'
      BY <1>a, <2>1, <2>3
    <3> QED BY <1>b, <2>1, <3>1 DEF NewestOf
  <2> QED BY <2>2, <2>3
<1>5. ASSUME NEW a \in Adapters, ReceiveMessage(a)
      PROVE  NewestOf(b)'
  <2> DEFINE q == session[a].queue
  <2>1. /\ q # <<>> /\ pc[a] = "drain" /\ UNCHANGED bound
        /\ value' = [value EXCEPT ![a] = [value[a] EXCEPT ![Head(q).topic] = Head(q).version]]
        /\ session' = [session EXCEPT ![a] = Taken(session[a])]
        /\ \E step \in Steps : pc' = [pc EXCEPT ![a] = step]
    BY <1>5, <1>a DEF ReceiveMessage, Take, SetSession, Continue, Steps
  <2>2. CASE b # a
    <3>1. value'[b] = value[b] /\ session'[b] = session[b] /\ pc'[b] = pc[b]
      BY <1>a, <2>1, <2>2
    <3> QED BY <1>b, <2>1, <3>1, NewestKept
  <2>3. CASE b = a
    <3>1. /\ session'[a].queue = Tail(q) /\ session'[a].newest = session[a].newest
          /\ a \in bound /\ a \in bound'
      BY <1>a, <2>1 DEF Taken, Take, Sessions, EquippedInv
    <3>2. Head(q) \in Messages /\ Head(q).topic \in Topics
      <4>1. Head(q) \in Messages
        BY <1>a, <2>1, <2>3
      <4> QED BY <4>1 DEF Messages
    <3>3. /\ value'[a][Head(q).topic] = Head(q).version
          /\ \A t \in Topics : t # Head(q).topic => value'[a][t] = value[a][t]
      BY <1>a, <2>1, <3>2
    <3> SUFFICES ASSUME NEW t \in Topics, session[a].newest[t] # 0
                 PROVE  \/ \E i \in 1 .. Len(Tail(q)) :
                              /\ LastOf(Tail(q), t, i)
                              /\ Tail(q)[i].version = session[a].newest[t]
                        \/ NoneOf(Tail(q), t) /\ value'[a][t] = session[a].newest[t]
      BY <2>3, <3>1 DEF NewestOf
    <3>4. q \in Seq(Messages) /\ Len(q) \in Nat
      BY <1>a, <2>3
    <3>5. CASE \E i \in 1 .. Len(q) : LastOf(q, t, i) /\ q[i].version = session[a].newest[t]
      <4>1. PICK i \in 1 .. Len(q) : LastOf(q, t, i) /\ q[i].version = session[a].newest[t]
        BY <3>5
      <4>2. CASE i = 1
        <5>1. NoneOf(Tail(q), t) /\ Head(q) = q[1] /\ Head(q).topic = t
          BY <2>1, <3>4, <4>1, <4>2, LastOfTail
        <5> QED BY <3>3, <4>1, <4>2, <5>1
      <4>3. CASE i # 1
        <5>1. i \in 2 .. Len(q)
          BY <3>4, <4>3
        <5>2. /\ i - 1 \in 1 .. Len(Tail(q)) /\ Tail(q)[i - 1] = q[i]
              /\ LastOf(Tail(q), t, i - 1)
          BY <2>1, <3>4, <4>1, <5>1, LastOfTail
        <5> QED BY <4>1, <5>2
      <4> QED BY <4>2, <4>3
    <3>6. CASE NoneOf(q, t) /\ value[a][t] = session[a].newest[t]
      <4>1. NoneOf(Tail(q), t) /\ Head(q).topic # t
        BY <2>1, <3>4, <3>6, LastOfTail
      <4> QED BY <3>3, <3>6, <4>1
    <3> QED BY <1>b, <2>3, <3>1, <3>5, <3>6 DEF NewestOf
  <2> QED BY <2>2, <2>3
<1>6. ASSUME Enqueue
      PROVE  NewestOf(b)'
  <2> DEFINE a == arriving.to
             m == arriving.message
  <2>1. /\ a \in Adapters /\ m \in Messages
        /\ session' = [session EXCEPT ![a] = Queued(session[a], m)]
        /\ UNCHANGED <<value, bound, pc>>
    BY <1>a, <1>6 DEF Enqueue, SetSession
  <2>2. CASE b # a
    <3>1. session'[b] = session[b]
      BY <1>a, <2>1, <2>2
    <3> QED BY <1>b, <2>1, <3>1, NewestKept
  <2>3. CASE b = a
    <3>1. /\ session'[a].queue = Pushed(session[a].queue, m)
          /\ m.topic \in Topics
          /\ session'[a].newest = [session[a].newest EXCEPT ![m.topic] = m.version]
          /\ session[a].newest \in [Topics -> Versions]
      BY <1>a, <2>1 DEF Queued, Sessions, Messages
    <3> DEFINE q == session[a].queue
               p == Pushed(q, m)
    <3>2. q \in Seq(Messages) /\ (Len(q) >= QueueLimit => Overtaken(q, m))
      BY <1>a, <1>6, <2>1, <2>3 DEF NewestSurvives
    <3> SUFFICES ASSUME NEW t \in Topics, session'[a].newest[t] # 0
                 PROVE  \/ \E i \in 1 .. Len(p) :
                              LastOf(p, t, i) /\ p[i].version = session'[a].newest[t]
                        \/ /\ NoneOf(p, t)
                           /\ IF a \in bound THEN value[a][t] = session'[a].newest[t]
                              ELSE pc[a] = "close"
      BY <2>1, <2>3, <3>1 DEF NewestOf
    <3>3. CASE t = m.topic
      <4>1. session'[a].newest[t] = m.version
        BY <3>1, <3>3
      <4>2. \E i \in 1 .. Len(p) : LastOf(p, t, i) /\ p[i] = m
        BY <2>1, <3>2, <3>3, LastOfPushed
      <4> QED BY <4>1, <4>2
    <3>4. CASE t # m.topic
      <4>1. session'[a].newest[t] = session[a].newest[t]
        BY <3>1, <3>4
      <4>2. /\ NoneOf(q, t) => NoneOf(p, t)
            /\ \A i \in 1 .. Len(q) : LastOf(q, t, i) =>
                  \E k \in 1 .. Len(p) : LastOf(p, t, k) /\ p[k] = q[i]
        BY <2>1, <3>2, <3>4, LastOfPushed
      <4>3. \/ \E i \in 1 .. Len(q) : LastOf(q, t, i) /\ q[i].version = session[a].newest[t]
            \/ /\ NoneOf(q, t)
               /\ IF a \in bound THEN value[a][t] = session[a].newest[t] ELSE pc[a] = "close"
        BY <1>b, <2>3, <4>1 DEF NewestOf
      <4> HIDE DEF p, q, a, m
      <4> QED BY <4>1, <4>2, <4>3
    <3> QED BY <3>3, <3>4
  <2> QED BY <2>2, <2>3
<1>7. ASSUME NEW a \in Adapters, LibraryStep(a) \/ Lands(a)
      PROVE  NewestOf(b)'
  <2>1. /\ UNCHANGED <<bound, value, pc>>
        /\ \E u : Touched(session[a], u) /\ SetSession(a, u)
    BY <1>7, LibraryLeaves
  <2> QED BY <1>1, <1>b, <2>1, NewestKept
<1>8. ASSUME NEW c \in Clients, ClientStep(c)
      PROVE  NewestOf(b)'
  <2>1. UNCHANGED <<bound, value, session>> /\ \E step \in Steps : pc' = [pc EXCEPT ![c] = step]
    BY <1>8 DEF ClientStep, BeginExecute, Published, PublishFails, Continue, TearDown, Steps
  <2>2. pc'[b] = pc[b]
    BY <1>a, <2>1, ClientsAssumption
  <2> QED BY <1>b, <2>1, <2>2, NewestKept
<1>9. ASSUME NEW th \in Threads, TearDownStep(th)
      PROVE  NewestOf(b)'
  <2>1. Target(th) \in Adapters /\ (th \in Adapters => Target(th) = th)
    BY TargetType, ClientsAssumption DEF Target
  <2>2. UNCHANGED <<bound, value>> /\ \E step \in Steps : pc' = [pc EXCEPT ![th] = step]
    BY <1>9 DEF TearDownStep, CloseSession, ReleaseReads, ReleaseErases, EndTearDown,
        Continue, Steps
  <2>3. CASE CloseSession(th) /\ Target(th) = b
    <3>1. \A t \in Topics : session'[b].newest[t] = 0
      BY <1>a, <1>c, <2>1, <2>3 DEF CloseSession, AfterClose, SetSession
    <3> QED BY <3>1 DEF NewestOf
  <2>4. CASE CloseSession(th) /\ Target(th) # b
    <3>1. session'[b] = session[b] /\ pc'[b] = pc[b]
      BY <1>a, <2>1, <2>2, <2>4 DEF CloseSession, SetSession
    <3> QED BY <1>b, <2>2, <3>1, NewestKept
  <2>5. CASE ~CloseSession(th)
    <3>1. session' = session /\ pc[th] # "close"
      BY <1>9, <2>5 DEF TearDownStep, ReleaseReads, ReleaseErases, EndTearDown
    <3>2. pc[b] = "close" => pc'[b] = "close"
      BY <1>a, <2>2, <3>1
    <3> QED BY <1>b, <2>2, <3>1, <3>2, NewestKept
  <2> QED BY <2>3, <2>4, <2>5
<1>10. CASE UNCHANGED vars
  BY <1>b, <1>10 DEF vars, NewestOf
<1> QED
  BY <1>2, <1>3, <1>4, <1>5, <1>6, <1>7, <1>8, <1>9, <1>10
  DEF Next, OwnerStep, Callback, Lands

\* The newest message of each topic wins whatever sessions ended and however late a
\* callback queued its message, as long as a full queue drops only what a later
\* message of its topic follows (onMessage, poll): that drop is all that can lose it.
THEOREM TheLatestWins == Spec /\ [][NewestSurvives]_vars => []LatestWins
<1> DEFINE Inv == TypeOK /\ BoundInv /\ NewestInv
<1>1. Init => Inv
  <2>1. Init => NewestInv
    BY DEF Init, NewestInv, EquippedInv, NewestOf, Closed, Threads
  <2> QED BY <2>1, TypeInit, BoundInit
<1>2. Inv /\ [Next]_vars /\ [NewestSurvives]_vars => Inv'
  <2> SUFFICES ASSUME Inv, [Next]_vars, [NewestSurvives]_vars PROVE Inv'
    OBVIOUS
  <2>1. TypeOK' /\ BoundInv' /\ EquippedInv'
    BY TypeStep, BoundStep, EquippedStep DEF NewestInv
  <2>2. Enqueue => NewestSurvives
    BY DEF Enqueue, vars
  <2> QED BY <2>1, <2>2, NewestStep DEF NewestInv
<1>3. Inv => LatestWins
  <2> SUFFICES ASSUME Inv, NEW a \in Adapters, NEW t \in Topics,
                      conn[a] = "Connected", pc[a] = "idle", session[a].queue = <<>>,
                      session[a].newest[t] # 0
               PROVE  value[a][t] = session[a].newest[t]
    BY DEF LatestWins
  <2>1. a \in bound
    BY DEF NewestInv, EquippedInv, BoundInv
  <2>2. ~\E i \in 1 .. Len(session[a].queue) : TRUE
    OBVIOUS
  <2> QED BY <2>1, <2>2 DEF NewestInv, NewestOf
<1> QED BY <1>1, <1>2, <1>3, PTL DEF Spec

-------------------------------------------------------------------------------
(* Subscriptions, with late answers: whichever session a callback was      *)
(* called for, it sets the flags that connect() waits for now.             *)

\* Of one adapter: no answer, and none that is on its way, can make connect() believe
\* what the broker has not said in this session.  An acknowledgement that is on its way
\* when a session is opened has landed before connect() subscribes: the callback that
\* ends the wait for the connect comes after it, on the same receive thread.
SubscribedOf(a) ==
    LET s == session[a]
    IN  /\ conn[a] = "Connected" =>
              pc[a] \in {"idle", "drain", "close", "release", "erase", "clear"}
        /\ pc[a] \notin {"subscribe", "suback"} => left[a] = Topics
        /\ s.open =>
              /\ conn[a] = "Connected" => s.granted = Topics
              /\ pc[a] = "connack" =>
                    s.asked = {} /\ (ack[a] = "ok" => calling[a] # "acknowledged")
              /\ pc[a] = "subscribe" =>
                    /\ s.asked = {} /\ calling[a] # "acknowledged"
                    /\ s.granted \cup left[a] = Topics
              /\ pc[a] = "suback" =>
                    /\ ack[a] = "ok" => calling[a] # "acknowledged"
                    /\ ack[a] = "ok" \/ calling[a] = "acknowledged" =>
                          s.asked = {} /\ s.granted \cup left[a] = Topics
                    /\ \A t \in s.asked :
                          s.asked = {t} /\ s.granted \cup left[a] \cup {t} = Topics

SubscribedInv == \A a \in Adapters : SubscribedOf(a)

\* A step of another adapter, of a client, or a tear-down that closes the session.
LEMMA SubscribedKept ==
    ASSUME NEW a \in Adapters, SubscribedOf(a),
           pc'[a] = pc[a], left'[a] = left[a], ack'[a] = ack[a], calling'[a] = calling[a],
           conn'[a] = conn[a] \/ conn'[a] # "Connected",
           session'[a] = session[a] \/ ~session'[a].open
    PROVE  SubscribedOf(a)'
  BY DEF SubscribedOf

LEMMA SubscribedInit == Init => SubscribedInv
<1> SUFFICES ASSUME Init, NEW a \in Adapters PROVE SubscribedOf(a)
  BY DEF SubscribedInv
<1>1. /\ conn[a] = "Disconnected" /\ pc[a] = "idle" /\ left[a] = Topics
      /\ ~session[a].open
  BY DEF Init, Closed, Threads
<1> QED BY <1>1 DEF SubscribedOf

LEMMA SubscribedStep ==
    ASSUME TypeOK, SubscribedInv, [Next]_vars
    PROVE  SubscribedInv'
<1> USE DEF registry, equipment, library
<1>a. /\ Adapters \subseteq Threads
      /\ pc \in [Threads -> Steps] /\ conn \in [Adapters -> ConnStates]
      /\ session \in [Adapters -> Sessions] /\ left \in [Adapters -> SUBSET Topics]
      /\ ack \in [Adapters -> {"none", "ok", "failed"}]
      /\ calling \in [Adapters -> Events]
      /\ \A a \in Adapters : a \notin Clients /\ Target(a) = a
  BY ClientsAssumption DEF TypeOK, Threads, Target
<1>b. \A a \in Adapters : /\ SubscribedOf(a)
                          /\ session[a] \in Sessions
                          /\ session[a].asked \subseteq Topics
                          /\ session[a].granted \subseteq Topics
  BY <1>a DEF SubscribedInv, Sessions
<1> SUFFICES ASSUME NEW b \in Adapters PROVE SubscribedOf(b)'
  BY DEF SubscribedInv
<1>1. ASSUME NEW a \in Adapters,
             \/ BeginConnect(a) \/ BeginPoll(a) \/ Disconnect(a) \/ Claim(a)
             \/ ReceiveError(a) \/ ReceiveMessage(a) \/ ReceiveNothing(a)
      PROVE  SubscribedOf(b)'
  <2>1. /\ UNCHANGED <<conn, left, ack, calling>>
        /\ pc[a] \in {"idle", "claim", "drain"}
        /\ \E step \in {"idle", "claim", "open", "drain", "close"} :
              /\ pc' = [pc EXCEPT ![a] = step]
              /\ step \in {"claim", "open"} => conn[a] # "Connected"
    <3>1. CASE BeginConnect(a) \/ BeginPoll(a) \/ Disconnect(a)
      BY <3>1 DEF BeginConnect, BeginPoll, Disconnect, Continue, TearDown
    <3>2. CASE Claim(a)
      <4>1. conn[a] # "Connected"
        BY <1>b, <3>2 DEF Claim, SubscribedOf
      <4> QED BY <3>2, <4>1 DEF Claim, Continue, TearDown
    <3>3. CASE ReceiveError(a) \/ ReceiveMessage(a) \/ ReceiveNothing(a)
      BY <3>3 DEF ReceiveError, ReceiveMessage, ReceiveNothing, Continue, TearDown
    <3> QED BY <1>1, <3>1, <3>2, <3>3
  <2>2. /\ session'[a].open = session[a].open /\ session'[a].granted = session[a].granted
        /\ b # a => session'[b] = session[b]
    <3>1. \/ session' = session
          \/ SetSession(a, Lost(session[a])) \/ SetSession(a, Taken(session[a]))
      BY <1>1 DEF BeginConnect, BeginPoll, Disconnect, Claim, ReceiveError, ReceiveMessage,
                  ReceiveNothing
    <3>2. \A s \in Sessions : /\ Lost(s).open = s.open /\ Lost(s).granted = s.granted
                              /\ Taken(s).open = s.open /\ Taken(s).granted = s.granted
      BY DEF Lost, Taken, Sessions
    <3> QED BY <1>a, <3>1, <3>2 DEF SetSession
  <2>3. CASE b # a
    BY <1>a, <1>b, <2>1, <2>2, <2>3, SubscribedKept
  <2>4. CASE b = a
    BY <1>a, <1>b, <2>1, <2>2, <2>4 DEF SubscribedOf
  <2> QED BY <2>3, <2>4
\* A step of connect() leaves every other adapter alone.
<1>2. ASSUME NEW a \in Adapters, b # a,
             \/ Open(a) \/ OpenFails(a) \/ ConnectReturns(a) \/ ConnectGivesUp(a)
             \/ (\E t \in Topics : Subscribe(a, t)) \/ SubscribeFails(a)
             \/ Subscribed(a) \/ SubscribeGivesUp(a) \/ FinishConnect(a)
      PROVE  SubscribedOf(b)'
  <2>1. /\ pc'[b] = pc[b] /\ left'[b] = left[b] /\ ack'[b] = ack[b]
        /\ calling'[b] = calling[b] /\ conn'[b] = conn[b] /\ session'[b] = session[b]
    <3>1. CASE Open(a) \/ OpenFails(a) \/ ConnectReturns(a) \/ ConnectGivesUp(a)
      BY <1>a, <1>2, <3>1
      DEF Open, OpenFails, ConnectReturns, ConnectGivesUp, Continue, TearDown, SetSession,
          EndConnect
    <3>2. CASE (\E t \in Topics : Subscribe(a, t)) \/ SubscribeFails(a)
      BY <1>a, <1>2, <3>2 DEF Subscribe, SubscribeFails, Continue, TearDown, SetSession, EndConnect
    <3>3. CASE Subscribed(a) \/ SubscribeGivesUp(a) \/ FinishConnect(a)
      BY <1>a, <1>2, <3>3
      DEF Subscribed, SubscribeGivesUp, FinishConnect, Continue, TearDown, EndConnect
    <3> QED BY <1>2, <3>1, <3>2, <3>3
  <2> QED BY <1>b, <2>1, SubscribedKept
<1>3. CASE Open(b)
  <2>1. /\ pc[b] = "open" /\ pc'[b] = "connack" /\ ack'[b] = "none"
        /\ session'[b] = Opened /\ UNCHANGED <<conn, left>>
    BY <1>a, <1>3 DEF Open, Continue, SetSession
  <2>2. Opened.asked = {}
    BY DEF Opened, Closed
  <2> QED BY <1>b, <2>1, <2>2 DEF SubscribedOf
<1>4. CASE OpenFails(b) \/ ConnectGivesUp(b)
  <2>1. /\ pc[b] \in {"open", "connack"} /\ pc'[b] = "close"
        /\ session'[b] = Closed /\ UNCHANGED conn
        /\ left'[b] = left[b] \/ left'[b] = Topics
    BY <1>a, <1>4 DEF OpenFails, ConnectGivesUp, TearDown, SetSession, EndConnect
  <2>2. ~Closed.open
    BY DEF Closed
  <2> QED BY <1>b, <2>1, <2>2 DEF SubscribedOf
<1>5. CASE ConnectReturns(b)
  <2>1. /\ pc[b] = "connack" /\ pc'[b] = "subscribe" /\ ack[b] = "ok"
        /\ UNCHANGED <<conn, left, session, calling>>
    BY <1>a, <1>5 DEF ConnectReturns, Continue
  <2>2. left[b] = Topics /\ conn[b] # "Connected"
    BY <1>b, <2>1 DEF SubscribedOf
  <2> QED BY <1>b, <2>1, <2>2 DEF SubscribedOf
<1>6. ASSUME NEW t \in Topics, Subscribe(b, t)
      PROVE  SubscribedOf(b)'
  <2>1. /\ pc[b] = "subscribe" /\ pc'[b] = "suback" /\ ack'[b] = "none"
        /\ t \in left[b] /\ left'[b] = left[b] \ {t}
        /\ session'[b] = Asked(session[b], t)
        /\ UNCHANGED <<conn, calling>>
    BY <1>a, <1>6 DEF Subscribe, Continue, SetSession, AnswerReset
  <2>2. /\ session'[b].open = session[b].open
        /\ session'[b].granted = session[b].granted
        /\ session'[b].asked = session[b].asked \cup {t}
    BY <1>b, <2>1 DEF Asked, Sessions
  <2>3. conn[b] # "Connected"
    BY <1>b, <2>1 DEF SubscribedOf
  <2>4. ASSUME session[b].open
        PROVE  /\ session'[b].asked = {t} /\ calling'[b] # "acknowledged"
               /\ session'[b].granted \cup left'[b] \cup {t} = Topics
    BY <1>b, <2>1, <2>2, <2>4 DEF SubscribedOf
  <2> QED BY <2>1, <2>2, <2>3, <2>4 DEF SubscribedOf
<1>7. CASE SubscribeFails(b) \/ SubscribeGivesUp(b)
  <2>1. /\ pc[b] \in {"subscribe", "suback"} /\ pc'[b] = "close" /\ left'[b] = Topics
        /\ UNCHANGED <<conn, session>>
    BY <1>a, <1>7 DEF SubscribeFails, SubscribeGivesUp, TearDown, EndConnect
  <2> QED BY <1>b, <2>1 DEF SubscribedOf
<1>8. CASE Subscribed(b)
  <2>1. /\ pc[b] = "suback" /\ pc'[b] = "subscribe" /\ ack[b] = "ok"
        /\ UNCHANGED <<conn, session, left, calling>>
    BY <1>a, <1>8 DEF Subscribed, Continue
  <2> QED BY <1>b, <2>1 DEF SubscribedOf
<1>9. CASE FinishConnect(b)
  <2>1. /\ pc[b] = "subscribe" /\ pc'[b] = "idle" /\ left[b] = {} /\ left'[b] = Topics
        /\ UNCHANGED session
    BY <1>a, <1>9 DEF FinishConnect, Continue, EndConnect
  <2>2. session[b].open => session[b].granted = Topics
    BY <1>b, <2>1 DEF SubscribedOf
  <2> QED BY <1>b, <2>1, <2>2 DEF SubscribedOf
<1>10. ASSUME NEW c \in Clients, ClientStep(c)
       PROVE  SubscribedOf(b)'
  <2>1. /\ UNCHANGED <<conn, session, left, ack, calling>>
        /\ \E step : pc' = [pc EXCEPT ![c] = step]
    BY <1>10 DEF ClientStep, BeginExecute, Published, PublishFails, Continue, TearDown
  <2> QED BY <1>a, <1>b, <2>1, SubscribedKept
<1>11. ASSUME NEW th \in Threads, TearDownStep(th)
       PROVE  SubscribedOf(b)'
  <2>1. /\ UNCHANGED <<left, ack, calling>>
        /\ pc[th] \in {"close", "release", "erase", "clear"}
        /\ \E step \in {"release", "erase", "clear", "idle"} : pc' = [pc EXCEPT ![th] = step]
    BY <1>11 DEF TearDownStep, CloseSession, ReleaseReads, ReleaseErases, EndTearDown, Continue
  <2>2. conn'[b] = conn[b] \/ conn'[b] # "Connected"
    <3>1. ending[th] # "Connected"
      BY DEF TypeOK
    <3> QED BY <1>a, <1>11, <3>1
      DEF TearDownStep, CloseSession, ReleaseReads, ReleaseErases, EndTearDown
  <2>3. session'[b] = session[b] \/ ~session'[b].open
    <3>1. ~Closed.open
      BY DEF Closed
    <3> QED BY <1>a, <1>11, <3>1
      DEF TearDownStep, CloseSession, AfterClose, SetSession, ReleaseReads, ReleaseErases,
          EndTearDown
  <2>4. CASE b # th
    BY <1>a, <1>b, <2>1, <2>2, <2>3, <2>4, SubscribedKept
  <2>5. CASE b = th
    BY <1>a, <1>b, <2>1, <2>2, <2>3, <2>5 DEF SubscribedOf
  <2> QED BY <2>4, <2>5
<1>12. ASSUME Enqueue
       PROVE  SubscribedOf(b)'
  <2>1. /\ UNCHANGED <<conn, pc, left, ack, calling>>
        /\ session'[b].open = session[b].open
        /\ session'[b].asked = session[b].asked
        /\ session'[b].granted = session[b].granted
    <3>1. /\ SetSession(arriving.to, Queued(session[arriving.to], arriving.message))
          /\ \A s \in Sessions : \A m : /\ Queued(s, m).open = s.open
                                         /\ Queued(s, m).asked = s.asked
                                         /\ Queued(s, m).granted = s.granted
      BY <1>12 DEF Enqueue, Queued, Sessions
    <3> QED BY <1>12, <1>a, <3>1 DEF Enqueue, SetSession
  <2> QED BY <1>b, <2>1 DEF SubscribedOf
<1>13. ASSUME NEW a \in Adapters, b # a, LibraryStep(a) \/ Lands(a)
       PROVE  SubscribedOf(b)'
  <2>1. ack'[b] = ack[b] /\ calling'[b] = calling[b]
    <3>1. CASE LibraryStep(a)
      BY <1>a, <1>13, <3>1
      DEF LibraryStep, ConnAck, SubAck, SubNack, LinkDown, ConnectionLost, MessageArrives, Calls
    <3>2. CASE Lands(a)
      BY <1>a, <1>13, <3>2
      DEF Lands, OnConnect, OnConnectFailure, OnOpSuccess, OnOpFailure, OnConnectionLost,
          Answers, Returns
    <3> QED BY <1>13, <3>1, <3>2
  <2>2. /\ UNCHANGED <<conn, pc, left>>
        /\ session'[b] = session[b]
    BY <1>a, <1>13, LibraryLeaves DEF SetSession
  <2> QED BY <1>b, <2>1, <2>2, SubscribedKept
\* Steps that leave the subscriptions alone, and send no acknowledgement.
<1>14. ASSUME LibraryStep(b) \/ Lands(b),
              session'[b].asked = session[b].asked,
              session'[b].granted = session[b].granted,
              calling'[b] = calling[b] \/ calling'[b] # "acknowledged",
              \/ ack'[b] = ack[b] \/ ack'[b] # "ok"
              \/ calling'[b] # "acknowledged" /\ pc[b] = "connack"
       PROVE  SubscribedOf(b)'
  <2>1. UNCHANGED <<conn, pc, left>> /\ session'[b].open = session[b].open
    BY <1>a, <1>14, LibraryLeaves DEF SetSession, Touched
  <2> QED BY <1>14, <1>b, <2>1 DEF SubscribedOf
<1>15. CASE ConnAck(b)
  <2>1. PICK accepts \in BOOLEAN :
           /\ SetSession(b, [session[b] EXCEPT !.connecting = FALSE, !.link = accepts])
           /\ Calls(b, IF accepts THEN "connected" ELSE "refused")
           /\ UNCHANGED ack
    BY <1>15 DEF ConnAck
  <2>2. /\ session'[b].asked = session[b].asked /\ session'[b].granted = session[b].granted
        /\ calling'[b] # "acknowledged"
    BY <1>a, <1>b, <2>1 DEF SetSession, Calls, Sessions
  <2>3. LibraryStep(b)
    BY <1>15 DEF LibraryStep
  <2> QED BY <1>14, <2>1, <2>2, <2>3
<1>16. CASE LinkDown(b) \/ ConnectionLost(b)
  <2>1. /\ session'[b].asked = session[b].asked /\ session'[b].granted = session[b].granted
        /\ calling'[b] = calling[b] \/ calling'[b] = "lost"
        /\ ack' = ack
    BY <1>a, <1>b, <1>16 DEF LinkDown, ConnectionLost, SetSession, Calls, Sessions
  <2> QED BY <1>14, <1>16, <2>1 DEF LibraryStep
<1>17. ASSUME NEW t \in Topics, MessageArrives(b, t)
       PROVE  SubscribedOf(b)'
  BY <1>14, <1>17 DEF MessageArrives, LibraryStep
<1>18. ASSUME NEW t \in Topics, SubAck(b, t)
       PROVE  SubscribedOf(b)'
  <2>1. /\ t \in session[b].asked
        /\ session'[b].open = session[b].open
        /\ session'[b].asked = session[b].asked \ {t}
        /\ session'[b].granted = session[b].granted \cup {t}
        /\ calling'[b] = "acknowledged"
        /\ UNCHANGED <<conn, pc, left, ack>>
    BY <1>a, <1>b, <1>18 DEF SubAck, SetSession, Calls, Sessions
  <2>2. ASSUME session[b].open, conn[b] = "Connected"
        PROVE  session'[b].granted = Topics
    BY <1>b, <2>1, <2>2 DEF SubscribedOf
  <2>3. ASSUME session[b].open
        PROVE  pc[b] \notin {"connack", "subscribe"}
    BY <1>b, <2>1, <2>3 DEF SubscribedOf
  <2>4. ASSUME session[b].open, pc[b] = "suback"
        PROVE  /\ ack[b] # "ok" /\ session'[b].asked = {}
               /\ session'[b].granted \cup left[b] = Topics
    <3>1. /\ ack[b] # "ok" /\ session[b].asked = {t}
          /\ session[b].granted \cup left[b] \cup {t} = Topics
      BY <1>b, <2>1, <2>4 DEF SubscribedOf
    <3> QED BY <2>1, <3>1
  <2> QED BY <1>b, <2>1, <2>2, <2>3, <2>4 DEF SubscribedOf
<1>19. ASSUME NEW t \in Topics, SubNack(b, t)
       PROVE  SubscribedOf(b)'
  <2>1. /\ t \in session[b].asked
        /\ session'[b].open = session[b].open
        /\ session'[b].asked = session[b].asked \ {t}
        /\ session'[b].granted = session[b].granted
        /\ calling'[b] = "rejected"
        /\ UNCHANGED <<conn, pc, left, ack>>
    BY <1>a, <1>b, <1>19 DEF SubNack, SetSession, Calls, Sessions
  <2>2. ASSUME session[b].open
        PROVE  /\ pc[b] \notin {"connack", "subscribe"}
               /\ pc[b] = "suback" => ack[b] # "ok" /\ session'[b].asked = {}
    BY <1>b, <2>1, <2>2 DEF SubscribedOf
  <2> QED BY <1>b, <2>1, <2>2 DEF SubscribedOf
<1>20. CASE OnConnect(b) \/ OnConnectFailure(b) \/ OnConnectionLost(b)
  <2>1. /\ session'[b].asked = session[b].asked /\ session'[b].granted = session[b].granted
        /\ calling'[b] = "none"
    <3>1. \A s \in Sessions :
             \A u \in {AfterConnect(s), Lost(s), [s EXCEPT !.connected = FALSE]} :
                u.asked = s.asked /\ u.granted = s.granted
      BY DEF AfterConnect, Lost, Sessions
    <3>2. PICK u \in {AfterConnect(session[b]), Lost(session[b]),
                      [session[b] EXCEPT !.connected = FALSE]} : SetSession(b, u)
      BY <1>20 DEF OnConnect, OnConnectFailure, OnConnectionLost
    <3>3. session'[b] = u
      BY <1>a, <3>2 DEF SetSession
    <3>4. calling'[b] = "none"
      BY <1>a, <1>20 DEF OnConnect, OnConnectFailure, OnConnectionLost, Returns
    <3> QED BY <1>b, <3>1, <3>3, <3>4
  <2>2. \/ ack'[b] = ack[b] \/ ack'[b] # "ok" \/ pc[b] = "connack"
    BY <1>a, <1>20 DEF OnConnect, OnConnectFailure, OnConnectionLost, Answers
  <2> QED BY <1>14, <1>20, <2>1, <2>2 DEF Lands
<1>21. CASE OnOpFailure(b)
  <2>1. /\ UNCHANGED session /\ calling'[b] = "none"
        /\ ack'[b] = ack[b] \/ ack'[b] = "failed"
    BY <1>a, <1>21 DEF OnOpFailure, Answers, Returns
  <2> QED BY <1>14, <1>21, <2>1 DEF Lands
<1>22. CASE OnOpSuccess(b)
  <2>1. /\ calling[b] = "acknowledged" /\ calling'[b] = "none"
        /\ UNCHANGED <<conn, pc, left, session>>
        /\ pc[b] # "suback" => ack'[b] = ack[b]
    BY <1>a, <1>22 DEF OnOpSuccess, Answers, Returns
  <2> QED BY <1>b, <2>1 DEF SubscribedOf
<1>23. CASE UNCHANGED vars
  BY <1>b, <1>23 DEF vars, SubscribedOf
<1>24. ASSUME NEW a \in Adapters, LibraryStep(a) \/ Lands(a)
       PROVE  SubscribedOf(b)'
  BY <1>24, <1>13, <1>15, <1>16, <1>17, <1>18, <1>19, <1>20, <1>21, <1>22
  DEF LibraryStep, Lands
<1>25. ASSUME NEW a \in Adapters, OwnerStep(a)
       PROVE  SubscribedOf(b)'
  BY <1>25, <1>1, <1>2, <1>3, <1>4, <1>5, <1>6, <1>7, <1>8, <1>9 DEF OwnerStep
<1> QED BY <1>1, <1>10, <1>11, <1>12, <1>23, <1>24, <1>25 DEF Next, Callback, Lands

\* A Connected adapter with an open session has the broker's word for every topic:
\* for any number of topics, however late the answers of earlier sessions land and
\* whatever clients tear down meanwhile (MqttSession::subscribe, onOpSuccess).
THEOREM ConnectedAreSubscribed == Spec => []ConnectedIsSubscribed
<1>1. TypeOK /\ SubscribedInv => ConnectedIsSubscribed
  BY DEF SubscribedInv, SubscribedOf, ConnectedIsSubscribed
<1>2. Init => TypeOK /\ SubscribedInv
  BY TypeInit, SubscribedInit
<1>3. TypeOK /\ SubscribedInv /\ [Next]_vars => TypeOK' /\ SubscribedInv'
  BY TypeStep, SubscribedStep
<1> QED BY <1>1, <1>2, <1>3, PTL DEF Spec

-------------------------------------------------------------------------------
(* What a call waits for: the part of CallsReturn that needs no fairness.  *)

\* The steps of connect(), of poll() and execute(), and of the tear-down that any of
\* them may end in, by how far they are from the return.
Phase ==
    [s \in Steps |->
        CASE s = "idle"                   -> 0
          [] s = "clear"                  -> 1
          [] s = "erase"                  -> 2
          [] s = "release"                -> 3
          [] s = "close"                  -> 4
          [] s \in {"drain", "publish"}   -> 5
          [] s \in {"subscribe", "suback"} -> 6
          [] s = "connack"                -> 7
          [] s = "open"                   -> 8
          [] s = "claim"                  -> 9]

\* A call gets to a later phase, has a topic less to subscribe to or the answer for
\* the one it asked for, or has taken another message of at most BatchLimit.
Advances(th) ==
    \/ Phase[pc'[th]] < Phase[pc[th]]
    \/ /\ pc[th] = "subscribe" /\ pc'[th] = "suback"
       /\ \E t \in left[th] : left'[th] = left[th] \ {t}
    \/ /\ pc[th] = "suback" /\ pc'[th] = "subscribe"
       /\ left'[th] = left[th]
    \/ /\ pc[th] = "drain" /\ pc'[th] = "drain"
       /\ drained'[th] = drained[th] + 1 /\ drained'[th] < BatchLimit

\* What a step of another thread, or of the library, leaves of a call.
Stands(th) ==
    /\ pc'[th] = pc[th]
    /\ th \in Adapters => left'[th] = left[th] /\ drained'[th] = drained[th]

\* A call under way is never set back: not by messages that go on arriving, by a
\* session that is lost and opened again, or by another thread's tear-down of the
\* session it works on.
CallsAdvance == [][\A th \in Threads : pc[th] # "idle" => Advances(th) \/ Stands(th)]_vars

LEMMA Phases ==
    /\ Phase["idle"] = 0 /\ Phase["clear"] = 1 /\ Phase["erase"] = 2
    /\ Phase["release"] = 3 /\ Phase["close"] = 4
    /\ Phase["drain"] = 5 /\ Phase["publish"] = 5
    /\ Phase["subscribe"] = 6 /\ Phase["suback"] = 6
    /\ Phase["connack"] = 7 /\ Phase["open"] = 8 /\ Phase["claim"] = 9
  BY DEF Phase, Steps

\* A step of one thread that moves that thread's pc, and of `left` its own part.
LEMMA OthersStand ==
    ASSUME TypeOK, NEW th \in Threads, NEW step, pc' = [pc EXCEPT ![th] = step],
           left' = left \/ left' = [left EXCEPT ![th] = Topics], UNCHANGED drained,
           NEW other \in Threads, other # th
    PROVE  Stands(other)
  BY DEF TypeOK, Stands

LEMMA AdvanceStep ==
    ASSUME TypeOK, [Next]_vars, NEW th \in Threads, pc[th] # "idle"
    PROVE  Advances(th) \/ Stands(th)
<1> USE DEF registry, equipment, library
<1>a. /\ Adapters \subseteq Threads /\ Clients \subseteq Threads
      /\ pc \in [Threads -> Steps]
      /\ left \in [Adapters -> SUBSET Topics]
      /\ drained \in [Adapters -> 0 .. BatchLimit - 1]
  BY DEF TypeOK, Threads
<1>1. ASSUME NEW a \in Threads, NEW from \in Steps, NEW to \in Steps,
             pc[a] = from, pc' = [pc EXCEPT ![a] = to],
             left' = left \/ left' = [left EXCEPT ![a] = Topics], UNCHANGED drained,
             \/ Phase[to] < Phase[from] \/ pc[a] = "idle"
             \/ from = "suback" /\ to = "subscribe" /\ a \in Adapters /\ left' = left
      PROVE  Advances(th) \/ Stands(th)
  <2>1. CASE th = a
    BY <1>1, <1>a, <2>1 DEF Advances
  <2>2. CASE th # a
    BY <1>1, <2>2, OthersStand
  <2> QED BY <2>1, <2>2
<1>2. ASSUME NEW a \in Adapters, BeginConnect(a) \/ BeginPoll(a) \/ Disconnect(a)
      PROVE  Advances(th) \/ Stands(th)
  <2>1. /\ pc[a] = "idle" /\ UNCHANGED <<left, drained>>
        /\ \E to \in Steps : pc' = [pc EXCEPT ![a] = to]
    BY <1>2 DEF BeginConnect, BeginPoll, Disconnect, Continue, TearDown, Steps
  <2> QED BY <1>1, <1>a, <2>1
<1>3. ASSUME NEW a \in Adapters,
             \/ Claim(a) \/ OpenFails(a) \/ ConnectReturns(a) \/ ConnectGivesUp(a)
             \/ SubscribeFails(a) \/ Subscribed(a) \/ SubscribeGivesUp(a)
             \/ FinishConnect(a)
      PROVE  Advances(th) \/ Stands(th)
  <2>1. /\ UNCHANGED drained
        /\ left' = left \/ left' = [left EXCEPT ![a] = Topics]
        /\ \E to \in Steps :
              /\ pc' = [pc EXCEPT ![a] = to]
              /\ \/ Phase[to] < Phase[pc[a]]
                 \/ pc[a] = "suback" /\ to = "subscribe" /\ left' = left
    <3>1. CASE Claim(a) \/ OpenFails(a)
      BY <3>1, Phases DEF Claim, OpenFails, Continue, TearDown, Steps
    <3>2. CASE ConnectReturns(a) \/ ConnectGivesUp(a)
      BY <3>2, Phases
      DEF ConnectReturns, ConnectGivesUp, EndConnect, Continue, TearDown, Steps
    <3>3. CASE SubscribeFails(a) \/ Subscribed(a)
      BY <3>3, Phases DEF SubscribeFails, Subscribed, EndConnect, Continue, TearDown, Steps
    <3>4. CASE SubscribeGivesUp(a) \/ FinishConnect(a)
      BY <3>4, Phases
      DEF SubscribeGivesUp, FinishConnect, EndConnect, Continue, TearDown, Steps
    <3> QED BY <1>3, <3>1, <3>2, <3>3, <3>4
  <2> QED BY <1>1, <1>a, <2>1
<1>4. ASSUME NEW a \in Adapters, Open(a)
      PROVE  Advances(th) \/ Stands(th)
  <2>1. /\ pc[a] = "open" /\ pc' = [pc EXCEPT ![a] = "connack"]
        /\ UNCHANGED <<left, drained>>
    BY <1>4 DEF Open, Continue
  <2> QED BY <1>a, <2>1, Phases DEF Advances, Stands
<1>5. ASSUME NEW a \in Adapters, NEW t \in Topics, Subscribe(a, t)
      PROVE  Advances(th) \/ Stands(th)
  <2>1. /\ pc[a] = "subscribe" /\ pc' = [pc EXCEPT ![a] = "suback"] /\ t \in left[a]
        /\ left' = [left EXCEPT ![a] = left[a] \ {t}] /\ drained' = drained
    BY <1>5 DEF Subscribe, Continue
  <2> QED BY <1>a, <2>1 DEF Advances, Stands
<1>6. ASSUME NEW a \in Adapters, ReceiveError(a) \/ ReceiveNothing(a)
      PROVE  Advances(th) \/ Stands(th)
  <2>1. /\ pc[a] = "drain" /\ UNCHANGED left /\ drained' = [drained EXCEPT ![a] = 0]
        /\ \E to \in {"idle", "close"} : pc' = [pc EXCEPT ![a] = to]
    BY <1>6 DEF ReceiveError, ReceiveNothing, Continue, TearDown, EndPoll
  <2> QED BY <1>a, <2>1, Phases DEF Advances, Stands
<1>7. ASSUME NEW a \in Adapters, ReceiveMessage(a)
      PROVE  Advances(th) \/ Stands(th)
  <2>1. CASE drained[a] + 1 = BatchLimit
    <3>1. /\ pc[a] = "drain" /\ UNCHANGED left /\ drained' = [drained EXCEPT ![a] = 0]
          /\ pc' = [pc EXCEPT ![a] = "idle"]
      BY <1>7, <2>1 DEF ReceiveMessage, Continue, EndPoll
    <3> QED BY <1>a, <3>1, Phases DEF Advances, Stands
  <2>2. CASE drained[a] + 1 # BatchLimit
    <3>1. /\ pc[a] = "drain" /\ UNCHANGED left
          /\ drained' = [drained EXCEPT ![a] = drained[a] + 1]
          /\ pc' = [pc EXCEPT ![a] = "drain"]
      BY <1>7, <2>2 DEF ReceiveMessage, Continue
    <3>2. drained[a] + 1 < BatchLimit
      BY <1>a, <2>2, LimitsAssumption
    <3> QED BY <1>a, <3>1, <3>2 DEF Advances, Stands
  <2> QED BY <2>1, <2>2
<1>8. ASSUME NEW c \in Clients, ClientStep(c)
      PROVE  Advances(th) \/ Stands(th)
  <2>1. /\ UNCHANGED <<left, drained>>
        /\ \E to \in Steps :
              /\ pc' = [pc EXCEPT ![c] = to]
              /\ pc[c] = "idle" \/ Phase[to] < Phase[pc[c]]
    BY <1>8, Phases
    DEF ClientStep, BeginExecute, Published, PublishFails, Continue, TearDown, Steps
  <2> QED BY <1>1, <1>a, <2>1
<1>9. ASSUME NEW other \in Threads, TearDownStep(other)
      PROVE  Advances(th) \/ Stands(th)
  <2>1. /\ UNCHANGED <<left, drained>>
        /\ \E to \in Steps :
              pc' = [pc EXCEPT ![other] = to] /\ Phase[to] < Phase[pc[other]]
    <3>1. CASE CloseSession(other) \/ ReleaseReads(other)
      BY <3>1, Phases DEF CloseSession, ReleaseReads, Continue, Steps
    <3>2. CASE ReleaseErases(other) \/ EndTearDown(other)
      BY <3>2, Phases DEF ReleaseErases, EndTearDown, Continue, Steps
    <3> QED BY <1>9, <3>1, <3>2 DEF TearDownStep
  <2> QED BY <1>1, <1>a, <2>1
<1>10. ASSUME NEW a \in Adapters, LibraryStep(a) \/ Lands(a)
       PROVE  Stands(th)
  BY <1>10, LibraryLeaves DEF Stands
<1>11. ASSUME Enqueue \/ UNCHANGED vars
       PROVE  Stands(th)
  <2>1. UNCHANGED <<pc, left, drained>>
    BY <1>11 DEF Enqueue, vars
  <2> QED BY <2>1 DEF Stands
<1> QED
  BY <1>2, <1>3, <1>4, <1>5, <1>6, <1>7, <1>8, <1>9, <1>10, <1>11
  DEF Next, OwnerStep, Callback, Lands

\* Every step of a connect(), a poll(), a disconnect() or a command brings it nearer
\* to its return, and no step of anybody else takes it further away: the wait of each
\* step is all that can hold it, and each wait has a deadline.
THEOREM CallsAlwaysAdvance == Spec => CallsAdvance
<1>1. Init => TypeOK
  BY TypeInit
<1>2. TypeOK /\ [Next]_vars
         => [\A th \in Threads : pc[th] # "idle" => Advances(th) \/ Stands(th)]_vars
  BY AdvanceStep
<1> QED BY <1>1, <1>2, TypeStep, PTL DEF Spec, CallsAdvance

===============================================================================
