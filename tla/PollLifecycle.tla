---------------------------- MODULE PollLifecycle ----------------------------
(***************************************************************************)
(* The life of PollScheduler's worker thread: start() and stop() called by *)
(* controlling threads, the loop of threadMain, its wait on wake_cv_, and  *)
(* the other users of the AdapterManager mutex that a poll pass competes   *)
(* with.  What a pass does is the subject of IcpRuntime.                   *)
(*                                                                         *)
(* stop() notifies wake_cv_ without holding wake_mutex_, so its wake-up is *)
(* lost when the worker has tested the predicate and is about to block;    *)
(* the interval's timeout is then what ends the wait.                      *)
(***************************************************************************)
EXTENDS Naturals

CONSTANTS
    Controllers,    \* threads that call start(), stop() and setInterval()
    Clients,        \* threads that use the AdapterManager, or call pollOnce()
    Worker,         \* the scheduler's own thread, as a holder of the mutex
    Intervals       \* the values setInterval() is called with

ASSUME WorkerAssumption == Worker \notin Clients

VARIABLES
    running,    \* running_
    thread,     \* thread_: "none" or "joinable"
    worker,     \* where the worker thread is in threadMain
    interval,   \* interval_
    wait,       \* threadMain's local `wait`, the interval it sleeps for
    call,       \* where each controller is inside start() or stop()
    asking,     \* clients blocked on AdapterManager::mutex_
    holders,    \* who holds AdapterManager::mutex_
    aborted,    \* std::terminate: a misuse of std::thread was met
    overlapped  \* history: a call of start() or stop() began during another's

timing == <<interval, wait>>
mutex  == <<asking, holders>>
fate   == <<aborted, overlapped>>
vars   == <<running, thread, worker, timing, call, mutex, fate>>

\* "test" the loop condition, "lock" waiting for the manager's mutex, "polling"
\* inside the pass, "interval" about to read the interval, "predicate" about to
\* test the wait's predicate, "falling" tested but not blocked yet, "asleep" in
\* wait_for.
WorkerStates == {"none", "test", "lock", "polling", "interval", "predicate",
                 "falling", "asleep", "exited"}
\* "creating" the thread in start(); in stop() about to "notify", about to "check"
\* whether the thread is joinable, in "join".
Calls == {"out", "creating", "notify", "check", "join"}

TypeOK ==
    /\ running \in BOOLEAN
    /\ thread \in {"none", "joinable"}
    /\ worker \in WorkerStates
    /\ interval \in Intervals
    /\ wait \in Intervals
    /\ call \in [Controllers -> Calls]
    /\ asking \subseteq Clients
    /\ holders \subseteq Clients \cup {Worker}
    /\ aborted \in BOOLEAN
    /\ overlapped \in BOOLEAN

Init ==
    /\ running = FALSE
    /\ thread = "none"
    /\ worker = "none"
    /\ call = [c \in Controllers |-> "out"]
    /\ interval \in Intervals
    /\ wait = interval
    /\ asking = {}
    /\ holders = {}
    /\ aborted = FALSE
    /\ overlapped = FALSE

-------------------------------------------------------------------------------
(* start() *)

\* Only the calls in progress can tell: the code has no lock around a call.
CallBegins(c) ==
    overlapped' = (overlapped \/ \E d \in Controllers \ {c} : call[d] # "out")

\* A start() that finds running_ set returns at once, so only this one creates.
StartClaims(c) ==
    /\ call[c] = "out"
    /\ ~running
    /\ running' = TRUE
    /\ call' = [call EXCEPT ![c] = "creating"]
    /\ CallBegins(c)
    /\ UNCHANGED <<thread, worker, timing, mutex, aborted>>

\* Assigning over a joinable std::thread terminates the program.
CreateThread(c) ==
    /\ call[c] = "creating"
    /\ call' = [call EXCEPT ![c] = "out"]
    /\ IF thread = "joinable"
       THEN aborted' = TRUE /\ UNCHANGED <<thread, worker>>
       ELSE thread' = "joinable" /\ worker' = "test" /\ UNCHANGED aborted
    /\ UNCHANGED <<running, timing, mutex, overlapped>>

-------------------------------------------------------------------------------
(* stop(), which the destructor also runs *)

\* (Bug: stop() returns once the worker has been told to end.)
NoJoin == "out"

ThenJoin == IF thread = "joinable" THEN "join" ELSE "out"

StopClears(c) ==
    /\ call[c] = "out"
    /\ running
    /\ running' = FALSE
    /\ call' = [call EXCEPT ![c] = "notify"]
    /\ CallBegins(c)
    /\ UNCHANGED <<thread, worker, timing, mutex, aborted>>

\* Not running: there may be a thread to join that an overlapped start() left.
StopNotRunning(c) ==
    /\ call[c] = "out"
    /\ ~running
    /\ call' = [call EXCEPT ![c] = "check"]
    /\ CallBegins(c)
    /\ UNCHANGED <<running, thread, worker, timing, mutex, aborted>>

\* notify_all reaches the worker only if it is blocked.
Notified == IF worker = "asleep" THEN "predicate" ELSE worker

StopNotifies(c) ==
    /\ call[c] = "notify"
    /\ worker' = Notified
    /\ call' = [call EXCEPT ![c] = "check"]
    /\ UNCHANGED <<running, thread, timing, mutex, fate>>

\* Both ways through stop() ask thread_.joinable() before they join, in a step of
\* its own: an overlapping call may have joined or created the thread meanwhile.
StopChecks(c) ==
    /\ call[c] = "check"
    /\ call' = [call EXCEPT ![c] = ThenJoin]
    /\ UNCHANGED <<running, thread, worker, timing, mutex, fate>>

\* join() returns when the thread has ended; joining a thread that another
\* caller has joined meanwhile is an error.
Join(c) ==
    /\ call[c] = "join"
    /\ \/ /\ thread = "joinable"
          /\ worker = "exited"
          /\ thread' = "none"
          /\ worker' = "none"
          /\ UNCHANGED aborted
       \/ /\ thread = "none"
          /\ aborted' = TRUE
          /\ UNCHANGED <<thread, worker>>
    /\ call' = [call EXCEPT ![c] = "out"]
    /\ UNCHANGED <<running, timing, mutex, overlapped>>

\* setInterval() notifies too, but the predicate only asks for running_: the
\* worker goes back to sleep for the rest of the interval it had read.
SetInterval(c) ==
    /\ call[c] = "out"
    /\ interval' \in Intervals \ {interval}
    /\ worker' = Notified
    /\ UNCHANGED <<running, thread, wait, call, mutex, fate>>

-------------------------------------------------------------------------------
(* threadMain() *)

\* (Bug: the loop does not test running_.)
LoopForever == "lock"

AfterTest == IF running THEN "lock" ELSE "exited"

TestRunning ==
    /\ worker = "test"
    /\ worker' = AfterTest
    /\ UNCHANGED <<running, thread, timing, call, mutex, fate>>

\* (Bug: the pass does not take the manager's mutex.)
NoMutex == TRUE

MutexFree == holders = {}

BeginPass ==
    /\ worker = "lock"
    /\ MutexFree
    /\ worker' = "polling"
    /\ holders' = holders \cup {Worker}
    /\ UNCHANGED <<running, thread, timing, call, asking, fate>>

EndPass ==
    /\ worker = "polling"
    /\ worker' = "interval"
    /\ holders' = holders \ {Worker}
    /\ UNCHANGED <<running, thread, timing, call, asking, fate>>

\* (Bug: the interval is read once, when the thread starts.)
IntervalAtStart == wait

\* (Bug: the wait uses a variable that was never set.)
IntervalUnset == 0

IntervalNow == interval

ReadInterval ==
    /\ worker = "interval"
    /\ wait' = IntervalNow
    /\ worker' = "predicate"
    /\ UNCHANGED <<running, thread, interval, call, mutex, fate>>

AfterPredicate == IF running THEN "falling" ELSE "test"

TestPredicate ==
    /\ worker = "predicate"
    /\ worker' = AfterPredicate
    /\ UNCHANGED <<running, thread, timing, call, mutex, fate>>

\* wake_mutex_ is released; a notify sent before this step is lost.
FallAsleep ==
    /\ worker = "falling"
    /\ worker' = "asleep"
    /\ UNCHANGED <<running, thread, timing, call, mutex, fate>>

\* (Bug: wait() in place of wait_for().)
NoTimeout == FALSE

\* wait_for returns at its deadline whatever the predicate says.
TimedOut == worker = "asleep"

Timeout ==
    /\ TimedOut
    /\ worker' = "test"
    /\ UNCHANGED <<running, thread, timing, call, mutex, fate>>

SpuriousWakeup ==
    /\ worker = "asleep"
    /\ worker' = "predicate"
    /\ UNCHANGED <<running, thread, timing, call, mutex, fate>>

-------------------------------------------------------------------------------
(* Other threads: a manager operation or a synchronous pollOnce().         *)

ClientAsks(k) ==
    /\ k \notin asking \cup holders
    /\ asking' = asking \cup {k}
    /\ UNCHANGED <<running, thread, worker, timing, call, holders, fate>>

ClientLocks(k) ==
    /\ k \in asking
    /\ MutexFree
    /\ asking' = asking \ {k}
    /\ holders' = holders \cup {k}
    /\ UNCHANGED <<running, thread, worker, timing, call, fate>>

ClientUnlocks(k) ==
    /\ k \in holders
    /\ holders' = holders \ {k}
    /\ UNCHANGED <<running, thread, worker, timing, call, asking, fate>>

-------------------------------------------------------------------------------
(* Nothing happens after std::terminate. *)

WorkerStep == /\ ~aborted
              /\ \/ TestRunning \/ EndPass \/ ReadInterval
                 \/ TestPredicate \/ FallAsleep

WorkerLocks == ~aborted /\ BeginPass

WaitEnds == ~aborted /\ Timeout

WakesEarly == ~aborted /\ SpuriousWakeup

EnterCall(c) == /\ ~aborted
                /\ \/ StartClaims(c) \/ StopClears(c) \/ StopNotRunning(c)
                   \/ SetInterval(c)

InCall(c) == /\ ~aborted
             /\ \/ CreateThread(c) \/ StopNotifies(c) \/ StopChecks(c) \/ Join(c)

Unlock(k) == ~aborted /\ ClientUnlocks(k)

ClientStep(k) == ~aborted /\ (ClientAsks(k) \/ ClientLocks(k))

Next ==
    \/ \E c \in Controllers : EnterCall(c) \/ InCall(c)
    \/ WorkerStep \/ WorkerLocks \/ WaitEnds \/ WakesEarly
    \/ \E k \in Clients : ClientStep(k) \/ Unlock(k)

Spec == Init /\ [][Next]_vars

\* A thread that can run does.  The mutex is granted to a thread that keeps
\* asking; the deadline of a wait is absolute, so wake-ups do not postpone it.
Fairness ==
    /\ WF_vars(WorkerStep)
    /\ SF_vars(WorkerLocks)
    /\ SF_vars(WaitEnds)
    /\ \A c \in Controllers : WF_vars(InCall(c))
    /\ \A k \in Clients : WF_vars(Unlock(k))

FairSpec == Spec /\ Fairness

-------------------------------------------------------------------------------
\* start() and stop() never misuse thread_ as long as no call begins during
\* another: no thread object is overwritten while joinable, none is joined twice.
NeverAborts == aborted => overlapped

\* When no call is in progress and the scheduler is not running, the worker is
\* gone: the scheduler, the manager and the cache may be destroyed after stop().
\* A stop() that overlapped a start() may leave a thread that is about to end.
StoppedMeansGone ==
    ~running /\ (\A c \in Controllers : call[c] = "out")
        => \/ thread = "none" /\ worker = "none"
           \/ overlapped

\* A pass never overlaps another pass or a manager operation.
PassIsExclusive ==
    /\ worker = "polling" <=> Worker \in holders
    /\ \A h, k \in holders : h = k

\* stop() returns, although its notification may be lost and the worker may be
\* waiting for the manager's mutex or be in the middle of a pass.  (When calls
\* overlap, another thread may start the scheduler again under a stop() for ever.)
StopReturns ==
    \A c \in Controllers :
        call[c] \in {"notify", "check", "join"} ~> call[c] = "out" \/ overlapped

\* As long as the scheduler runs it keeps polling, whatever clients do with the
\* mutex and however often the interval is set.
KeepsPolling ==
    running ~> worker = "polling" \/ ~running \/ aborted

\* A new interval is used in the end, although setInterval() does not shorten
\* the wait in progress.
IntervalTakesEffect ==
    \A n \in Intervals :
        running /\ interval = n ~> wait = n \/ interval # n \/ ~running \/ aborted

\* However start() and stop() calls of several threads overlap, a worker does not
\* go on polling once the scheduler is stopped.
StoppedWorkerEnds ==
    ~running ~> running \/ aborted \/ worker \in {"none", "exited"}
===============================================================================
