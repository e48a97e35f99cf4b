------------------------- MODULE PollLifecycle_proofs -------------------------
(***************************************************************************)
(* Proofs about PollLifecycle: for any number of controlling threads,      *)
(* clients and intervals.                                                  *)
(***************************************************************************)
EXTENDS PollLifecycle, TLAPS

LEMMA NextCases ==
    ASSUME [Next]_vars
    PROVE  \/ \E c \in Controllers :
                \/ StartClaims(c) \/ StopClears(c) \/ StopNotRunning(c)
                \/ SetInterval(c)
                \/ CreateThread(c) \/ StopNotifies(c) \/ StopChecks(c) \/ Join(c)
           \/ TestRunning \/ EndPass \/ ReadInterval \/ TestPredicate
           \/ FallAsleep \/ BeginPass \/ Timeout \/ SpuriousWakeup
           \/ \E k \in Clients :
                ClientAsks(k) \/ ClientLocks(k) \/ ClientUnlocks(k)
           \/ UNCHANGED vars
  BY DEF Next, EnterCall, InCall, WorkerStep, WorkerLocks, WaitEnds, WakesEarly,
         ClientStep, Unlock

LEMMA TypeStep == ASSUME TypeOK, [Next]_vars PROVE TypeOK'
<1> USE DEF TypeOK, WorkerStates, Calls
<1>1. ASSUME NEW c \in Controllers,
             StartClaims(c) \/ StopClears(c) \/ StopNotRunning(c) \/ SetInterval(c)
      PROVE  TypeOK'
  BY <1>1
  DEF StartClaims, StopClears, StopNotRunning, CallBegins, SetInterval, ThenJoin,
      Notified, timing, mutex, fate
<1>2. ASSUME NEW c \in Controllers, CreateThread(c) \/ StopNotifies(c) \/ StopChecks(c) \/ Join(c)
      PROVE  TypeOK'
  BY <1>2
  DEF CreateThread, StopNotifies, StopChecks, Join, ThenJoin, Notified, timing, mutex, fate
<1>3. ASSUME \/ TestRunning \/ ReadInterval \/ TestPredicate \/ FallAsleep
             \/ Timeout \/ SpuriousWakeup
      PROVE  TypeOK'
  BY <1>3
  DEF TestRunning, ReadInterval, TestPredicate, FallAsleep, Timeout, SpuriousWakeup,
      AfterTest, AfterPredicate, IntervalNow, timing, mutex, fate
<1>4. ASSUME BeginPass \/ EndPass
      PROVE  TypeOK'
  BY <1>4 DEF BeginPass, EndPass, timing, fate
<1>5. ASSUME NEW k \in Clients, ClientAsks(k) \/ ClientLocks(k) \/ ClientUnlocks(k)
      PROVE  TypeOK'
  BY <1>5 DEF ClientAsks, ClientLocks, ClientUnlocks, timing, fate
<1>6. CASE UNCHANGED vars
  BY <1>6 DEF vars, timing, mutex, fate
<1> QED BY NextCases, <1>1, <1>2, <1>3, <1>4, <1>5, <1>6

\* Every variable keeps its type.
THEOREM TypeCorrect == Spec => []TypeOK
<1>1. Init => TypeOK
  BY DEF Init, TypeOK, WorkerStates, Calls
<1> QED BY <1>1, TypeStep, PTL DEF Spec

-------------------------------------------------------------------------------
(* Mutual exclusion of the passes.                                         *)

\* With several controllers a second worker is never created, the program having
\* been terminated first; so the worker is in a pass exactly when it holds the mutex.
ExclusiveInv == PassIsExclusive /\ (thread = "none" => worker = "none")

LEMMA ExclusiveStep ==
    ASSUME TypeOK, ExclusiveInv, [Next]_vars
    PROVE  ExclusiveInv'
<1> USE DEF ExclusiveInv, PassIsExclusive
<1>1. ASSUME NEW c \in Controllers,
             StartClaims(c) \/ StopClears(c) \/ StopNotRunning(c) \/ SetInterval(c)
      PROVE  ExclusiveInv'
  BY <1>1 DEF StartClaims, StopClears, StopNotRunning, SetInterval, Notified, mutex
<1>2. ASSUME NEW c \in Controllers, CreateThread(c) \/ StopNotifies(c) \/ StopChecks(c) \/ Join(c)
      PROVE  ExclusiveInv'
  BY <1>2 DEF CreateThread, StopNotifies, StopChecks, Join, Notified, mutex, TypeOK
<1>3. ASSUME \/ TestRunning \/ ReadInterval \/ TestPredicate \/ FallAsleep
             \/ Timeout \/ SpuriousWakeup
      PROVE  ExclusiveInv'
  BY <1>3
  DEF TestRunning, ReadInterval, TestPredicate, FallAsleep, Timeout, TimedOut,
      SpuriousWakeup, AfterTest, AfterPredicate, mutex
<1>4. ASSUME BeginPass \/ EndPass
      PROVE  ExclusiveInv'
  BY <1>4 DEF BeginPass, EndPass, MutexFree
<1>5. ASSUME NEW k \in Clients, ClientAsks(k) \/ ClientLocks(k) \/ ClientUnlocks(k)
      PROVE  ExclusiveInv'
  BY <1>5, WorkerAssumption DEF ClientAsks, ClientLocks, ClientUnlocks, MutexFree
<1>6. CASE UNCHANGED vars
  BY <1>6 DEF vars, mutex
<1> QED BY NextCases, <1>1, <1>2, <1>3, <1>4, <1>5, <1>6

\* A poll pass overlaps neither another pass nor a manager operation, however many
\* threads start and stop the scheduler or use the manager.
THEOREM PassesAreExclusive == Spec => []PassIsExclusive
<1>1. Init => ExclusiveInv
  BY DEF Init, ExclusiveInv, PassIsExclusive
<1>2. TypeOK /\ ExclusiveInv /\ [Next]_vars => ExclusiveInv'
  BY ExclusiveStep
<1>3. ExclusiveInv => PassIsExclusive
  BY DEF ExclusiveInv
<1> QED BY <1>1, <1>2, <1>3, TypeCorrect, PTL DEF Spec

-------------------------------------------------------------------------------
(* Calls of start() and stop() that take turns, whichever thread makes them. *)

\* Where the thread object is at each point of a call; between calls thread_ is
\* joinable exactly while the scheduler runs.
InTurn ==
    /\ ~aborted
    /\ thread = "none" <=> worker = "none"
    /\ worker = "exited" => ~running
    /\ \A c, d \in Controllers : call[c] # "out" /\ call[d] # "out" => c = d
    /\ \A c \in Controllers :
          /\ call[c] = "creating" => running /\ thread = "none"
          /\ call[c] \in {"notify", "check", "join"} => ~running
          /\ call[c] \in {"notify", "join"} => thread = "joinable"
    /\ (\A c \in Controllers : call[c] = "out") => (running <=> thread = "joinable")

LifeInv == overlapped \/ InTurn

LEMMA LifeStep ==
    ASSUME TypeOK, LifeInv, [Next]_vars
    PROVE  LifeInv'
<1> SUFFICES ASSUME ~overlapped'
             PROVE  InTurn'
  BY DEF LifeInv
<1>1. ~overlapped /\ InTurn
  <2>1. overlapped => overlapped'
    BY NextCases
    DEF StartClaims, StopClears, StopNotRunning, CallBegins, SetInterval, CreateThread,
        StopNotifies, StopChecks, Join, TestRunning, ReadInterval, TestPredicate, FallAsleep,
        Timeout, SpuriousWakeup, BeginPass, EndPass, ClientAsks, ClientLocks,
        ClientUnlocks, vars, fate
  <2> QED BY <2>1 DEF LifeInv
<1> USE <1>1 DEF InTurn, TypeOK, Calls
<1>2. ASSUME NEW c \in Controllers,
             StartClaims(c) \/ StopClears(c) \/ StopNotRunning(c)
      PROVE  InTurn'
  <2>1. \A d \in Controllers : call[d] = "out"
    BY <1>2 DEF StartClaims, StopClears, StopNotRunning, CallBegins
  <2>2. CASE StartClaims(c)
    BY <2>1, <2>2 DEF StartClaims
  <2>3. CASE StopClears(c)
    BY <2>1, <2>3 DEF StopClears
  <2>4. CASE StopNotRunning(c)
    BY <2>1, <2>4 DEF StopNotRunning
  <2> QED BY <1>2, <2>2, <2>3, <2>4
<1>3. ASSUME NEW c \in Controllers, SetInterval(c)
      PROVE  InTurn'
  BY <1>3 DEF SetInterval, Notified, fate
<1>4. ASSUME NEW c \in Controllers, CreateThread(c)
      PROVE  InTurn'
  BY <1>4 DEF CreateThread
<1>5. ASSUME NEW c \in Controllers, StopNotifies(c) \/ StopChecks(c)
      PROVE  InTurn'
  <2>1. CASE StopNotifies(c)
    BY <2>1 DEF StopNotifies, Notified, fate
  <2>2. CASE StopChecks(c)
    BY <2>2 DEF StopChecks, ThenJoin, fate
  <2> QED BY <1>5, <2>1, <2>2
<1>6. ASSUME NEW c \in Controllers, Join(c)
      PROVE  InTurn'
  BY <1>6 DEF Join
<1>7. ASSUME \/ TestRunning \/ ReadInterval \/ TestPredicate \/ FallAsleep
             \/ Timeout \/ SpuriousWakeup \/ BeginPass \/ EndPass
      PROVE  InTurn'
  BY <1>7
  DEF TestRunning, ReadInterval, TestPredicate, FallAsleep, Timeout, TimedOut,
      SpuriousWakeup, BeginPass, EndPass, AfterTest, AfterPredicate, fate
<1>8. ASSUME NEW k \in Clients, ClientAsks(k) \/ ClientLocks(k) \/ ClientUnlocks(k)
      PROVE  InTurn'
  BY <1>8 DEF ClientAsks, ClientLocks, ClientUnlocks, fate
<1>9. CASE UNCHANGED vars
  BY <1>9 DEF vars, fate
<1> QED BY NextCases, <1>2, <1>3, <1>4, <1>5, <1>6, <1>7, <1>8, <1>9

LEMMA LifeAlways == Spec => []LifeInv
<1>1. Init => LifeInv
  BY DEF Init, LifeInv, InTurn
<1>2. TypeOK /\ LifeInv /\ [Next]_vars => LifeInv'
  BY LifeStep
<1> QED BY <1>1, <1>2, TypeCorrect, PTL DEF Spec

\* As long as the calls of start() and stop() take turns, whichever threads make
\* them, thread_ is never overwritten while joinable and never joined twice.
THEOREM CallsInTurnNeverAbort == Spec => []NeverAborts
<1>1. LifeInv => NeverAborts
  BY DEF LifeInv, InTurn, NeverAborts
<1> QED BY <1>1, LifeAlways, PTL

\* Once a stop() that overlapped no call has returned the worker is gone, so that
\* the scheduler and what it polls may be destroyed.
THEOREM CallsInTurnLeaveNoWorker == Spec => []StoppedMeansGone
<1>1. TypeOK /\ LifeInv => StoppedMeansGone
  BY DEF LifeInv, InTurn, TypeOK, StoppedMeansGone
<1> QED BY <1>1, LifeAlways, TypeCorrect, PTL

-------------------------------------------------------------------------------
(* What a stop() waits for: the part of StopReturns that needs no fairness. *)

\* How far the worker is from its end once running_ is cleared: the rest of a pass
\* it was about to begin or of a wait it was about to enter, then the loop's test.
ToGo ==
    [w \in WorkerStates |->
        CASE w = "none"      -> 0
          [] w = "exited"    -> 1
          [] w = "test"      -> 2
          [] w = "predicate" -> 3
          [] w = "asleep"    -> 4
          [] w = "interval"  -> 4
          [] w = "falling"   -> 5
          [] w = "polling"   -> 5
          [] w = "lock"      -> 6]

\* While the scheduler is stopped the worker only comes nearer to its end, whatever
\* it does and whoever wakes it, so it finishes at most one more pass; unless an
\* overlapped start() that has not created its thread yet does so now.
StoppedWorkerWindsDown ==
    [][~running /\ worker' # worker
         => \/ ToGo[worker'] < ToGo[worker]
            \/ overlapped /\ \E c \in Controllers : call[c] = "creating"]_vars

\* A join() waits for a thread that exists and can go on: it has no lock to wait
\* for, or the mutex it waits for is free or in the hands of a client, never in its own.
JoinWaitsForAWorker ==
    \A c \in Controllers :
        call[c] = "join" /\ ~overlapped
            => /\ ~running /\ ~aborted
               /\ thread = "joinable" /\ worker # "none"
               /\ worker = "lock" => MutexFree \/ \E k \in Clients : holders = {k}

LEMMA WindsDownStep ==
    ASSUME TypeOK, LifeInv, ~running, [Next]_vars, worker' # worker
    PROVE  \/ ToGo[worker'] < ToGo[worker]
           \/ overlapped /\ \E c \in Controllers : call[c] = "creating"
<1> USE DEF ToGo, WorkerStates
<1>1. ASSUME NEW c \in Controllers, CreateThread(c)
      PROVE  overlapped /\ call[c] = "creating"
  BY <1>1 DEF CreateThread, LifeInv, InTurn
<1>2. ASSUME NEW c \in Controllers, StopNotifies(c) \/ SetInterval(c)
      PROVE  ToGo[worker'] < ToGo[worker]
  BY <1>2 DEF StopNotifies, SetInterval, Notified
<1>3. ASSUME NEW c \in Controllers, Join(c)
      PROVE  ToGo[worker'] < ToGo[worker]
  BY <1>3 DEF Join
<1>4. ASSUME \/ TestRunning \/ EndPass \/ ReadInterval \/ TestPredicate
             \/ FallAsleep \/ BeginPass \/ Timeout \/ SpuriousWakeup
      PROVE  ToGo[worker'] < ToGo[worker]
  BY <1>4
  DEF TestRunning, EndPass, ReadInterval, TestPredicate, FallAsleep, BeginPass,
      Timeout, TimedOut, SpuriousWakeup, AfterTest, AfterPredicate
<1>5. ASSUME \/ \E c \in Controllers :
                   \/ StartClaims(c) \/ StopClears(c) \/ StopNotRunning(c)
                   \/ StopChecks(c)
             \/ \E k \in Clients :
                   ClientAsks(k) \/ ClientLocks(k) \/ ClientUnlocks(k)
             \/ UNCHANGED vars
      PROVE  FALSE
  BY <1>5
  DEF StartClaims, StopClears, StopNotRunning, StopChecks, ClientAsks, ClientLocks,
      ClientUnlocks, vars
<1> QED BY NextCases, <1>1, <1>2, <1>3, <1>4, <1>5

\* Once stopped, the worker makes at most one more pass on its way to its end, and
\* no notification, time-out, spurious wake-up or new interval sends it back.
THEOREM StoppedWorkersWindDown == Spec => StoppedWorkerWindsDown
<1>1. ASSUME TypeOK, LifeInv, [Next]_vars
      PROVE  [~running /\ worker' # worker
                => \/ ToGo[worker'] < ToGo[worker]
                   \/ overlapped /\ \E c \in Controllers : call[c] = "creating"]_vars
  BY <1>1, WindsDownStep
<1> QED BY <1>1, TypeCorrect, LifeAlways, PTL DEF Spec, StoppedWorkerWindsDown

\* stop() never joins a thread that is not there and never waits for itself: the
\* worker it waits for can go on, or waits for a client of the manager.
THEOREM JoinsWaitForAWorker == Spec => []JoinWaitsForAWorker
<1>1. Init => ExclusiveInv
  BY DEF Init, ExclusiveInv, PassIsExclusive
<1>2. TypeOK /\ ExclusiveInv /\ [Next]_vars => ExclusiveInv'
  BY ExclusiveStep
<1>3. TypeOK /\ ExclusiveInv /\ LifeInv => JoinWaitsForAWorker
  <2> SUFFICES ASSUME TypeOK, ExclusiveInv, LifeInv, ~overlapped,
                      NEW c \in Controllers, call[c] = "join"
               PROVE  /\ ~running /\ ~aborted
                      /\ thread = "joinable" /\ worker # "none"
                      /\ worker = "lock" => MutexFree \/ \E k \in Clients : holders = {k}
    BY DEF JoinWaitsForAWorker
  <2>1. ~running /\ ~aborted /\ thread = "joinable" /\ worker # "none"
    BY DEF LifeInv, InTurn
  <2>2. ASSUME worker = "lock", ~MutexFree
        PROVE  \E k \in Clients : holders = {k}
    <3>1. PICK h \in holders : TRUE
      BY <2>2 DEF MutexFree
    <3>2. h \in Clients /\ holders = {h}
      BY <2>2, <3>1 DEF ExclusiveInv, PassIsExclusive, TypeOK
    <3> QED BY <3>2
  <2> QED BY <2>1, <2>2
<1> QED BY <1>1, <1>2, <1>3, TypeCorrect, LifeAlways, PTL DEF Spec

===============================================================================
