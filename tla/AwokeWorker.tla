---------------------------- MODULE AwokeWorker ----------------------------
(***************************************************************************)
(* The worker of lib/libutil: one thread created by awoke_worker_create    *)
(* and driven by other threads (the controllers) through start, stop,      *)
(* suspend, resume and destroy.                                            *)
(*                                                                         *)
(* The worker and its controllers share the two flags _running and         *)
(* _force_stop, a mutex and a condition variable.  The steps are as fine   *)
(* as the shared accesses of the code: taking the mutex, writing a flag,   *)
(* signalling the condition and releasing the mutex are separate steps,    *)
(* because suspend, resume and worker_run read the flags WITHOUT the mutex *)
(* and may do so between any two of them.                                  *)
(***************************************************************************)
EXTENDS Naturals, FiniteSets

CONSTANTS
    Controllers,    \* threads that call the worker's interface
    NoThread,       \* "nobody": the value of a free mutex
    FeatureSets,    \* the feature masks a worker may be created with
    MaxCalls,       \* bound: interface calls made in one behaviour
    RefWrap         \* 0xfffffffe in the code: where the run counter wraps

Features == {"PERIODICITY", "SUSPEND", "PIPE_CHANNEL", "REFERENCE", "CUSTOM_DEFINE"}

\* The worker thread's name, next to the controllers, as an owner of the mutex.
Worker == "worker"

ASSUME ConstantsAssumption ==
    /\ Worker \notin Controllers
    /\ NoThread \notin Controllers \cup {Worker}
    /\ FeatureSets \subseteq SUBSET Features
    /\ MaxCalls \in Nat
    /\ RefWrap \in Nat \ {0}

VARIABLES
    life,        \* of the awoke_worker structure
    features,    \* its feature mask
    running,     \* wk->_running
    forceStop,   \* wk->_force_stop
    reference,   \* wk->_reference
    mutex,       \* holder of wk->mutex
    wpc,         \* where the worker thread is
    cop,         \* the operation each controller is in
    cpc,         \* and its point of that operation
    calls,       \* interface calls made so far
    started,     \* history: _running has been set TRUE at least once
    quietRuns,   \* history: handler runs begun since _running last became FALSE
    stopRuns     \* history: handler runs begun since _force_stop became TRUE

vars == <<life, features, running, forceStop, reference, mutex, wpc, cop, cpc, calls,
          started, quietRuns, stopRuns>>

flags == <<running, forceStop, started>>
history == <<quietRuns, stopRuns>>

Operations == {"start", "stop", "suspend", "resume"}
Points == {"check", "lock", "assign", "notify", "unlock"}

\* Points of worker_run (and of a custom thread function): "first" and "run"
\* are about to call the handler, "lock", "test", "wait", "relock" and
\* "unlock" are inside worker_should_suspend, "stopTest" is the loop condition.
WorkerPoints == {"absent", "first", "gate", "lock", "test", "wait", "relock",
                 "unlock", "run", "tick", "stopTest", "done"}

Lives == {"none", "failed", "crashed", "alive", "joining", "freed"}

\* History counters saturate: the properties only tell 0, 1, 2 and more apart.
Saturated(n) == IF n < 3 THEN n + 1 ELSE 3

TypeOK ==
    /\ life \in Lives
    /\ features \in SUBSET Features
    /\ running \in BOOLEAN
    /\ forceStop \in BOOLEAN
    /\ started \in BOOLEAN
    /\ reference \in 0 .. (RefWrap - 1)
    /\ mutex \in Controllers \cup {Worker, NoThread}
    /\ wpc \in WorkerPoints
    /\ cop \in [Controllers -> Operations \cup {"none"}]
    /\ cpc \in [Controllers -> Points \cup {"idle"}]
    /\ calls \in 0 .. MaxCalls
    /\ quietRuns \in 0 .. 3
    /\ stopRuns \in 0 .. 3

Init ==
    /\ life = "none"
    /\ features = {}
    /\ running = FALSE
    /\ forceStop = FALSE
    /\ started = FALSE
    /\ reference = 0
    /\ mutex = NoThread
    /\ wpc = "absent"
    /\ cop = [c \in Controllers |-> "none"]
    /\ cpc = [c \in Controllers |-> "idle"]
    /\ calls = 0
    /\ quietRuns = 0
    /\ stopRuns = 0

-----------------------------------------------------------------------------
(* awoke_worker_create *)

\* A custom thread function tests should_stop first and never runs the
\* worker_run prologue; worker_run of a non-periodic worker calls the handler
\* once before it enters the same loop as a periodic one.
FirstPoint(f) ==
    IF "CUSTOM_DEFINE" \in f THEN "stopTest"
    ELSE IF "PERIODICITY" \in f THEN "gate" ELSE "first"

Create(f) ==
    /\ life = "none"
    /\ life' = "alive"
    /\ features' = f
    /\ wpc' = FirstPoint(f)
    /\ UNCHANGED <<flags, history, reference, mutex, cop, cpc, calls>>

\* Every error exit frees the half-built worker and returns NULL.  When the
\* event loop of the pipe channel is what could not be allocated, worker_clean
\* hands the NULL loop to awoke_event_pipech_clean, which dereferences it.
CreateFails(f) ==
    /\ life = "none"
    /\ \/ life' = "failed"
       \/ "PIPE_CHANNEL" \in f /\ life' = "crashed"
    /\ UNCHANGED <<features, flags, history, reference, mutex, wpc, cop, cpc, calls>>

-----------------------------------------------------------------------------
(* Controllers *)

Goto(c, point) == cpc' = [cpc EXCEPT ![c] = point] /\ UNCHANGED cop

Return(c) ==
    /\ cpc' = [cpc EXCEPT ![c] = "idle"]
    /\ cop' = [cop EXCEPT ![c] = "none"]

\* Entry of an interface function: suspend and resume look at _running before
\* they take the mutex, start and stop take it at once.
Call(c, op) ==
    /\ life = "alive"
    /\ cpc[c] = "idle"
    /\ calls < MaxCalls
    /\ calls' = calls + 1
    /\ cop' = [cop EXCEPT ![c] = op]
    /\ cpc' = [cpc EXCEPT ![c] = IF op \in {"suspend", "resume"} THEN "check" ELSE "lock"]
    /\ UNCHANGED <<life, features, flags, history, reference, mutex, wpc>>

\* if (wk->_running) in suspend, if (!wk->_running) in resume: not locked.
Check(c) ==
    /\ cpc[c] = "check"
    /\ \/ (running <=> cop[c] = "suspend") /\ Goto(c, "lock")
       \/ ~(running <=> cop[c] = "suspend") /\ Return(c)
    /\ UNCHANGED <<life, features, flags, history, reference, mutex, wpc, calls>>

Lock(c) ==
    /\ cpc[c] = "lock"
    /\ mutex = NoThread
    /\ mutex' = c
    /\ Goto(c, "assign")
    /\ UNCHANGED <<life, features, flags, history, reference, wpc, calls>>

\* The flag the operation writes.  stop is the only one without a notify.
AssignRunning(c) ==
    /\ cpc[c] = "assign"
    /\ cop[c] # "stop"
    /\ running' = (cop[c] # "suspend")
    /\ started' = (started \/ running')
    /\ quietRuns' = IF running /\ ~running' THEN 0 ELSE quietRuns
    /\ Goto(c, "notify")
    /\ UNCHANGED <<life, features, forceStop, stopRuns, reference, mutex, wpc, calls>>

AssignStop(c) ==
    /\ cpc[c] = "assign"
    /\ cop[c] = "stop"
    /\ forceStop' = TRUE
    /\ Goto(c, "unlock")
    /\ UNCHANGED <<life, features, running, started, history, reference, mutex, wpc, calls>>

\* Mutant of Notify: the signal is forgotten.
NotifyForgotten(c) ==
    /\ cpc[c] = "notify"
    /\ Goto(c, "unlock")
    /\ UNCHANGED <<life, features, flags, history, reference, mutex, wpc, calls>>

\* pthread_cond_signal: a waiting worker has to take the mutex back.
Notify(c) ==
    /\ cpc[c] = "notify"
    /\ wpc' = IF wpc = "wait" THEN "relock" ELSE wpc
    /\ Goto(c, "unlock")
    /\ UNCHANGED <<life, features, flags, history, reference, mutex, calls>>

Unlock(c) ==
    /\ cpc[c] = "unlock"
    /\ mutex' = NoThread
    /\ Return(c)
    /\ UNCHANGED <<life, features, flags, history, reference, wpc, calls>>

\* awoke_worker_destroy.  The caller's part of the contract is that no other
\* thread is using the worker or will use it; nobody calls it twice.
Destroy ==
    /\ life = "alive"
    /\ \A c \in Controllers : cpc[c] = "idle"
    /\ life' = "joining"
    /\ UNCHANGED <<features, flags, history, reference, mutex, wpc, cop, cpc, calls>>

\* worker_join returns once the thread has ended; then everything is freed.
Join ==
    /\ life = "joining"
    /\ wpc = "done"
    /\ life' = "freed"
    /\ UNCHANGED <<features, flags, history, reference, mutex, wpc, cop, cpc, calls>>

-----------------------------------------------------------------------------
(* The worker thread *)

\* A handler run begins.  The history counters see it.
BeginRun ==
    /\ quietRuns' = IF running THEN quietRuns ELSE Saturated(quietRuns)
    /\ stopRuns' = IF forceStop THEN Saturated(stopRuns) ELSE stopRuns

\* worker_run prologue of a non-periodic worker: wk->handler(wk).
RunFirst ==
    /\ wpc = "first"
    /\ wpc' = "gate"
    /\ BeginRun
    /\ UNCHANGED <<life, features, flags, reference, mutex, cop, cpc, calls>>

\* Top of the loop: only a SUSPEND worker calls worker_should_suspend.
Gate ==
    /\ wpc = "gate"
    /\ wpc' = IF "SUSPEND" \in features THEN "lock" ELSE "run"
    /\ UNCHANGED <<life, features, flags, history, reference, mutex, cop, cpc, calls>>

\* Mutant of WLock: "if" instead of "while" around the condition wait.
WLockNoRetest ==
    /\ wpc \in {"lock", "relock"}
    /\ mutex = NoThread
    /\ mutex' = Worker
    /\ wpc' = IF wpc = "relock" THEN "unlock" ELSE "test"
    /\ UNCHANGED <<life, features, flags, history, reference, cop, cpc, calls>>

\* worker_should_suspend
WLock ==
    /\ wpc \in {"lock", "relock"}
    /\ mutex = NoThread
    /\ mutex' = Worker
    /\ wpc' = "test"
    /\ UNCHANGED <<life, features, flags, history, reference, cop, cpc, calls>>

\* while (!wk->_running) cond_wait: giving up the mutex and starting to wait
\* are one step of pthread_cond_wait.
WTest ==
    /\ wpc = "test"
    /\ IF running
       THEN wpc' = "unlock" /\ UNCHANGED mutex
       ELSE wpc' = "wait" /\ mutex' = NoThread
    /\ UNCHANGED <<life, features, flags, history, reference, cop, cpc, calls>>

\* pthread_cond_wait may return without a signal.
SpuriousWakeup ==
    /\ wpc = "wait"
    /\ wpc' = "relock"
    /\ UNCHANGED <<life, features, flags, history, reference, mutex, cop, cpc, calls>>

WUnlock ==
    /\ wpc = "unlock"
    /\ mutex' = NoThread
    /\ wpc' = "run"
    /\ UNCHANGED <<life, features, flags, history, reference, cop, cpc, calls>>

\* run_once: the handler is called (its error is only logged).
RunOnce ==
    /\ wpc = "run"
    /\ wpc' = "tick"
    /\ BeginRun
    /\ UNCHANGED <<life, features, flags, reference, mutex, cop, cpc, calls>>

\* worker_reference
NextReference(r) == IF r + 1 >= RefWrap THEN 0 ELSE r + 1

\* worker_reference, then the sleep of one tick.
Tick ==
    /\ wpc = "tick"
    /\ reference' = IF "REFERENCE" \in features /\ "CUSTOM_DEFINE" \notin features
                    THEN NextReference(reference)
                    ELSE reference
    /\ wpc' = "stopTest"
    /\ UNCHANGED <<life, features, flags, history, mutex, cop, cpc, calls>>

\* Mutant of StopTest: the flag is read once and never again.
StopTestStale ==
    /\ wpc = "stopTest"
    /\ wpc' = "gate"
    /\ UNCHANGED <<life, features, flags, history, reference, mutex, cop, cpc, calls>>

\* while (!worker_should_stop(wk)): not locked.
StopTest ==
    /\ wpc = "stopTest"
    /\ wpc' = IF forceStop THEN "done" ELSE "gate"
    /\ UNCHANGED <<life, features, flags, history, reference, mutex, cop, cpc, calls>>

-----------------------------------------------------------------------------

ControllerStep(c) ==
    \/ Check(c) \/ Lock(c) \/ AssignRunning(c) \/ AssignStop(c) \/ Notify(c) \/ Unlock(c)

WorkerStep ==
    \/ RunFirst \/ Gate \/ WLock \/ WTest \/ WUnlock \/ RunOnce \/ Tick \/ StopTest

Next ==
    \/ \E f \in FeatureSets : Create(f) \/ CreateFails(f)
    \/ \E c \in Controllers, op \in Operations : Call(c, op)
    \/ \E c \in Controllers : ControllerStep(c)
    \/ Destroy
    \/ Join
    \/ WorkerStep
    \/ SpuriousWakeup

Spec == Init /\ [][Next]_vars

\* The scheduler keeps running a thread that can run: a thread inside a call
\* finishes it, the worker thread advances, and a join whose thread has ended
\* returns.  Making a call, destroying and spurious wakeups are not promised.
Fairness ==
    /\ \A c \in Controllers : WF_vars(ControllerStep(c))
    /\ WF_vars(WorkerStep)
    /\ WF_vars(Join)

FairSpec == Spec /\ Fairness

-----------------------------------------------------------------------------
(* Properties *)

\* No lost wakeup: a worker asleep on the condition while _running is TRUE has
\* a notify still to come, from a thread between its assignment and its
\* worker_condition_notify (awoke_worker_start, awoke_worker_resume and the
\* test-and-wait loop of worker_should_suspend).
NoLostWakeup ==
    (wpc = "wait" /\ running) => \E c \in Controllers : cpc[c] = "notify"

\* The gate holds.  While _running is FALSE a SUSPEND worker begins at most the
\* one handler run it had already been let through for; a periodic or custom
\* worker that was never started begins none ("timer worker will not run
\* immediately at create time for safety").
QuietBound ==
    IF ~started /\ features \cap {"PERIODICITY", "CUSTOM_DEFINE"} # {} THEN 0 ELSE 1

SuspendBound ==
    ("SUSPEND" \in features /\ ~running) => quietRuns <= QuietBound

\* After awoke_worker_stop has set _force_stop the handler is called at most
\* once more; twice for a non-periodic worker caught before its first call,
\* because worker_run enters the do-while loop after the prologue call.
StopBound ==
    forceStop => stopRuns <= IF features \cap {"PERIODICITY", "CUSTOM_DEFINE"} # {}
                             THEN 1 ELSE 2

\* Stopping a worker that is let run ends its thread, so that the join of
\* awoke_worker_destroy returns: the loop of worker_run sees _force_stop.
StopEndsRunningWorker ==
    <>[](forceStop /\ (running \/ "SUSPEND" \notin features)) => <>(wpc = "done")

\* A worker that is left running and not stopped calls its handler forever:
\* no start or resume is lost, whatever the races with suspend.
RunningWorkerRuns ==
    <>[](life = "alive" /\ running /\ ~forceStop) => []<>(wpc = "run")

\* What the description of the timer worker's interface promises of
\* awoke_tmwkr_stop, "stop a timer worker" (awoke_worker.c:282): a thread that
\* was stopped comes to its end, so that awoke_tmwkr_clean can join it.
StopEndsWorker == forceStop ~> (wpc = "done")

=============================================================================
