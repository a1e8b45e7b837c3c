------------------------- MODULE AwokeWorkerProofs -------------------------
(***************************************************************************)
(* The safety properties of AwokeWorker, proved for any set of controllers *)
(* and any number of calls.  They are not inductive as they stand: what a  *)
(* worker may still do depends on the point it has reached, and the flag   *)
(* cannot change under a worker that holds the mutex.  IndInv says both.   *)
(***************************************************************************)
EXTENDS AwokeWorker, AwokeLock, TLAPS

\* Who holds the mutex can be read off the program points.
MutexInv ==
    /\ \A c \in Controllers : cpc[c] \in {"assign", "notify", "unlock"} <=> mutex = c
    /\ wpc \in {"test", "unlock"} <=> mutex = Worker

\* Nothing has happened before the worker exists, and nothing but the worker
\* thread moves once it is being joined.
LifeInv ==
    /\ life \in {"none", "failed", "crashed"} =>
          /\ ~running /\ ~forceStop /\ ~started
          /\ quietRuns = 0 /\ stopRuns = 0
          /\ wpc = "absent"
    /\ life # "alive" => \A c \in Controllers : cpc[c] = "idle"

\* Runs the worker will begin without testing _running again.
LetThrough == IF wpc \in {"first", "unlock", "run"} THEN 1 ELSE 0

SuspendInv ==
    /\ running => started
    /\ ("SUSPEND" \in features /\ wpc \in {"unlock", "run"}) => started
    /\ wpc = "unlock" => running
    /\ wpc = "first" => features \cap {"PERIODICITY", "CUSTOM_DEFINE"} = {}
    /\ ("SUSPEND" \in features /\ ~running) => quietRuns + LetThrough <= QuietBound

\* Runs the worker will begin without testing _force_stop again.
Committed ==
    IF wpc = "first" THEN 2
    ELSE IF wpc \in {"gate", "lock", "test", "wait", "relock", "unlock", "run"} THEN 1
    ELSE 0

StopAllowance ==
    IF features \cap {"PERIODICITY", "CUSTOM_DEFINE"} # {} THEN 1 ELSE 2

StopInv ==
    /\ ~forceStop => stopRuns = 0
    /\ forceStop => stopRuns + Committed <= StopAllowance

IndInv ==
    /\ TypeOK
    /\ MutexInv
    /\ LifeInv
    /\ NoLostWakeup
    /\ SuspendInv
    /\ StopInv

-----------------------------------------------------------------------------
(* The type invariant *)

\* What awoke_worker_create starts from is of the right type.
LEMMA InitType == Init => TypeOK
<1> SUFFICES ASSUME Init PROVE TypeOK
  OBVIOUS
<1>1. reference \in 0 .. (RefWrap - 1) /\ calls \in 0 .. MaxCalls
  BY ConstantsAssumption DEF Init
<1>2. quietRuns \in 0 .. 3 /\ stopRuns \in 0 .. 3
  BY DEF Init
<1> QED
  BY <1>1, <1>2 DEF Init, TypeOK, Lives, WorkerPoints

\* Every step keeps the variables in their types; one step per action.
LEMMA TypeStep == TypeOK /\ [Next]_vars => TypeOK'
<1> SUFFICES ASSUME TypeOK, [Next]_vars PROVE TypeOK'
  OBVIOUS
<1> USE ConstantsAssumption DEF TypeOK, Lives, Features, WorkerPoints, Operations,
        Points, flags, history
<1>1. ASSUME NEW f \in FeatureSets, Create(f) PROVE TypeOK'
  BY <1>1 DEF Create, FirstPoint
<1>2. ASSUME NEW f \in FeatureSets, CreateFails(f) PROVE TypeOK'
  BY <1>2 DEF CreateFails
<1>3. ASSUME NEW c \in Controllers, NEW op \in Operations, Call(c, op) PROVE TypeOK'
  BY <1>3 DEF Call
<1>4. ASSUME NEW c \in Controllers, Check(c) PROVE TypeOK'
  BY <1>4 DEF Check, Goto, Return
<1>5. ASSUME NEW c \in Controllers, Lock(c) PROVE TypeOK'
  BY <1>5 DEF Lock, Goto
<1>6. ASSUME NEW c \in Controllers, AssignRunning(c) PROVE TypeOK'
  BY <1>6 DEF AssignRunning, Goto
<1>7. ASSUME NEW c \in Controllers, AssignStop(c) PROVE TypeOK'
  BY <1>7 DEF AssignStop, Goto
<1>8. ASSUME NEW c \in Controllers, Notify(c) PROVE TypeOK'
  BY <1>8 DEF Notify, Goto
<1>9. ASSUME NEW c \in Controllers, Unlock(c) PROVE TypeOK'
  BY <1>9 DEF Unlock, Return
<1>10. CASE Destroy
  BY <1>10 DEF Destroy
<1>11. CASE Join
  BY <1>11 DEF Join
<1>12. CASE RunFirst
  BY <1>12 DEF RunFirst, BeginRun, Saturated
<1>13. CASE Gate
  BY <1>13 DEF Gate
<1>14. CASE WLock
  BY <1>14 DEF WLock
<1>15. CASE WTest
  BY <1>15 DEF WTest
<1>16. CASE WUnlock
  BY <1>16 DEF WUnlock
<1>17. CASE RunOnce
  BY <1>17 DEF RunOnce, BeginRun, Saturated
<1>18. CASE Tick
  BY <1>18 DEF Tick, NextReference
<1>19. CASE StopTest
  BY <1>19 DEF StopTest
<1>20. CASE SpuriousWakeup
  BY <1>20 DEF SpuriousWakeup
<1>21. CASE UNCHANGED vars
  BY <1>21 DEF vars
<1> QED
  BY <1>1, <1>2, <1>3, <1>4, <1>5, <1>6, <1>7, <1>8, <1>9, <1>10, <1>11, <1>12, <1>13, <1>14, <1>15, <1>16, <1>17, <1>18, <1>19, <1>20, <1>21
     DEF Next, ControllerStep, WorkerStep

\* TypeOK holds of every reachable state of the worker: in particular the run
\* counter of worker_reference stays below its wrap value.
THEOREM TypeCorrect == Spec => []TypeOK
  BY InitType, TypeStep, PTL DEF Spec

-----------------------------------------------------------------------------
(* The conjuncts of the inductive invariant, one lemma each *)

\* The program points tell who holds the mutex: lock and unlock are paired on
\* every path of the interface functions and of worker_should_suspend.
LEMMA MutexStep == TypeOK /\ LifeInv /\ MutexInv /\ [Next]_vars => MutexInv'
<1> SUFFICES ASSUME TypeOK, LifeInv, MutexInv, [Next]_vars PROVE MutexInv'
  OBVIOUS
<1> USE ConstantsAssumption DEF TypeOK, MutexInv, WorkerPoints, Operations, Points
<1>1. ASSUME NEW f \in FeatureSets, Create(f) \/ CreateFails(f) PROVE MutexInv'
  BY <1>1 DEF Create, CreateFails, FirstPoint, LifeInv
<1>2. ASSUME NEW c \in Controllers, NEW op \in Operations, Call(c, op) PROVE MutexInv'
  BY <1>2 DEF Call
<1>3. ASSUME NEW c \in Controllers, Check(c) \/ Lock(c) \/ Unlock(c) PROVE MutexInv'
  BY <1>3 DEF Check, Lock, Unlock, Goto, Return
<1>4. ASSUME NEW c \in Controllers, AssignRunning(c) \/ AssignStop(c) \/ Notify(c)
      PROVE MutexInv'
  BY <1>4 DEF AssignRunning, AssignStop, Notify, Goto
<1>5. CASE Destroy \/ Join
  BY <1>5 DEF Destroy, Join
<1>6. CASE WLock \/ WTest \/ WUnlock \/ SpuriousWakeup
  BY <1>6 DEF WLock, WTest, WUnlock, SpuriousWakeup
<1>7. CASE RunFirst \/ Gate \/ RunOnce \/ Tick \/ StopTest
  BY <1>7 DEF RunFirst, Gate, RunOnce, Tick, StopTest
<1>8. CASE UNCHANGED vars
  BY <1>8 DEF vars
<1> QED
  BY <1>1, <1>2, <1>3, <1>4, <1>5, <1>6, <1>7, <1>8 DEF Next, ControllerStep, WorkerStep

\* The flags, the thread and the calls follow the life of the structure: no
\* call is under way outside "alive", and a freed worker has no thread.
LEMMA LifeStep == TypeOK /\ LifeInv /\ [Next]_vars => LifeInv'
<1> SUFFICES ASSUME TypeOK, LifeInv, [Next]_vars PROVE LifeInv'
  OBVIOUS
<1> USE ConstantsAssumption DEF TypeOK, LifeInv, Lives, flags, history
<1>1. ASSUME NEW f \in FeatureSets, Create(f) \/ CreateFails(f)
      PROVE LifeInv'
  BY <1>1 DEF Create, CreateFails
<1>2. ASSUME NEW c \in Controllers, NEW op \in Operations, Call(c, op)
      PROVE LifeInv'
  BY <1>2 DEF Call
<1>3. ASSUME NEW c \in Controllers, Check(c) \/ Lock(c) \/ Unlock(c)
      PROVE LifeInv'
  BY <1>3 DEF Check, Lock, Unlock, Goto, Return
<1>4. ASSUME NEW c \in Controllers, AssignRunning(c) \/ AssignStop(c) \/ Notify(c)
      PROVE LifeInv'
  BY <1>4 DEF AssignRunning, AssignStop, Notify, Goto
<1>5. CASE Destroy \/ Join
  BY <1>5 DEF Destroy, Join
<1>6. CASE RunFirst \/ Gate \/ WLock \/ WTest
  BY <1>6 DEF RunFirst, Gate, WLock, WTest
<1>7. CASE WUnlock \/ RunOnce \/ Tick \/ StopTest \/ SpuriousWakeup
  BY <1>7 DEF WUnlock, RunOnce, Tick, StopTest, SpuriousWakeup
<1>8. CASE UNCHANGED vars
  BY <1>8 DEF vars
<1> QED
  BY <1>1, <1>2, <1>3, <1>4, <1>5, <1>6, <1>7, <1>8 DEF Next, ControllerStep, WorkerStep

\* A sleeping worker is either rightly asleep or about to be notified: only
\* WTest puts it to sleep, and only while _running is FALSE.
LEMMA WakeupStep == TypeOK /\ LifeInv /\ NoLostWakeup /\ [Next]_vars => NoLostWakeup'
<1> SUFFICES ASSUME TypeOK, LifeInv, NoLostWakeup, [Next]_vars PROVE NoLostWakeup'
  OBVIOUS
<1> USE ConstantsAssumption DEF TypeOK, NoLostWakeup, flags
<1>1. ASSUME NEW f \in FeatureSets, Create(f) \/ CreateFails(f)
      PROVE NoLostWakeup'
  BY <1>1 DEF Create, CreateFails, FirstPoint
<1>2. ASSUME NEW c \in Controllers, NEW op \in Operations, Call(c, op)
      PROVE NoLostWakeup'
  BY <1>2 DEF Call
<1>3. ASSUME NEW c \in Controllers, Check(c) \/ Lock(c) \/ Unlock(c)
      PROVE NoLostWakeup'
  BY <1>3 DEF Check, Lock, Unlock, Goto, Return
<1>4. ASSUME NEW c \in Controllers, AssignRunning(c) \/ AssignStop(c) \/ Notify(c)
      PROVE NoLostWakeup'
  BY <1>4 DEF AssignRunning, AssignStop, Notify, Goto
<1>5. CASE Destroy \/ Join
  BY <1>5 DEF Destroy, Join
<1>6. CASE RunFirst \/ Gate \/ WLock \/ WTest
  BY <1>6 DEF RunFirst, Gate, WLock, WTest
<1>7. CASE WUnlock \/ RunOnce \/ Tick \/ StopTest \/ SpuriousWakeup
  BY <1>7 DEF WUnlock, RunOnce, Tick, StopTest, SpuriousWakeup
<1>8. CASE UNCHANGED vars
  BY <1>8 DEF vars
<1> QED
  BY <1>1, <1>2, <1>3, <1>4, <1>5, <1>6, <1>7, <1>8 DEF Next, ControllerStep, WorkerStep

\* A worker past the gate was let through by _running = TRUE, and the flag
\* cannot be cleared while the worker holds the mutex.
LEMMA SuspendStep == TypeOK /\ MutexInv /\ LifeInv /\ SuspendInv /\ [Next]_vars => SuspendInv'
<1> SUFFICES ASSUME TypeOK, MutexInv, LifeInv, SuspendInv, [Next]_vars PROVE SuspendInv'
  OBVIOUS
<1> USE ConstantsAssumption DEF TypeOK, SuspendInv, LetThrough, QuietBound, WorkerPoints, Features, flags, history
<1>1. ASSUME NEW f \in FeatureSets, Create(f) \/ CreateFails(f)
      PROVE SuspendInv'
  BY <1>1 DEF Create, CreateFails, FirstPoint, LifeInv
<1>2. ASSUME NEW c \in Controllers, NEW op \in Operations, Call(c, op)
      PROVE SuspendInv'
  BY <1>2 DEF Call
<1>3. ASSUME NEW c \in Controllers, Check(c) \/ Lock(c) \/ Unlock(c)
      PROVE SuspendInv'
  BY <1>3 DEF Check, Lock, Unlock, Goto, Return
<1>4. ASSUME NEW c \in Controllers, AssignRunning(c)
      PROVE SuspendInv'
  BY <1>4 DEF AssignRunning, Goto, MutexInv, LifeInv, Worker
<1>5. ASSUME NEW c \in Controllers, AssignStop(c) \/ Notify(c)
      PROVE SuspendInv'
  BY <1>5 DEF AssignStop, Notify, Goto
<1>6. CASE Destroy \/ Join
  BY <1>6 DEF Destroy, Join
<1>7. CASE RunFirst \/ RunOnce
  BY <1>7 DEF RunFirst, RunOnce, BeginRun, Saturated
<1>8. CASE Gate \/ WLock \/ WTest \/ WUnlock
  BY <1>8 DEF Gate, WLock, WTest, WUnlock
<1>9. CASE Tick \/ StopTest \/ SpuriousWakeup
  BY <1>9 DEF Tick, StopTest, SpuriousWakeup
<1>10. CASE UNCHANGED vars
  BY <1>10 DEF vars
<1> QED
  BY <1>1, <1>2, <1>3, <1>4, <1>5, <1>6, <1>7, <1>8, <1>9, <1>10 DEF Next, ControllerStep, WorkerStep

\* Between two tests of _force_stop the worker begins one run, or two when it
\* is caught before the prologue call of worker_run.
LEMMA StopStep == TypeOK /\ LifeInv /\ SuspendInv /\ StopInv /\ [Next]_vars => StopInv'
<1> SUFFICES ASSUME TypeOK, LifeInv, SuspendInv, StopInv, [Next]_vars PROVE StopInv'
  OBVIOUS
<1> USE ConstantsAssumption DEF TypeOK, StopInv, Committed, StopAllowance, WorkerPoints, Features, flags, history
<1>1. ASSUME NEW f \in FeatureSets, Create(f) \/ CreateFails(f)
      PROVE StopInv'
  BY <1>1 DEF Create, CreateFails, FirstPoint, LifeInv
<1>2. ASSUME NEW c \in Controllers, NEW op \in Operations, Call(c, op)
      PROVE StopInv'
  BY <1>2 DEF Call
<1>3. ASSUME NEW c \in Controllers, Check(c) \/ Lock(c) \/ Unlock(c)
      PROVE StopInv'
  BY <1>3 DEF Check, Lock, Unlock, Goto, Return
<1>4. ASSUME NEW c \in Controllers, AssignRunning(c) \/ Notify(c)
      PROVE StopInv'
  BY <1>4 DEF AssignRunning, Notify, Goto
<1>5. ASSUME NEW c \in Controllers, AssignStop(c)
      PROVE StopInv'
  BY <1>5 DEF AssignStop, Goto, SuspendInv
<1>6. CASE Destroy \/ Join
  BY <1>6 DEF Destroy, Join
<1>7. CASE RunFirst \/ RunOnce
  BY <1>7 DEF RunFirst, RunOnce, BeginRun, Saturated, SuspendInv
<1>8. CASE Gate \/ WLock \/ WTest \/ WUnlock
  BY <1>8 DEF Gate, WLock, WTest, WUnlock
<1>9. CASE Tick \/ StopTest \/ SpuriousWakeup
  BY <1>9 DEF Tick, StopTest, SpuriousWakeup
<1>10. CASE UNCHANGED vars
  BY <1>10 DEF vars
<1> QED
  BY <1>1, <1>2, <1>3, <1>4, <1>5, <1>6, <1>7, <1>8, <1>9, <1>10 DEF Next, ControllerStep, WorkerStep

-----------------------------------------------------------------------------
(* The theorems *)

\* IndInv is an invariant of the worker.
THEOREM Invariance == Spec => []IndInv
<1>1. Init => IndInv
  <2> SUFFICES ASSUME Init PROVE IndInv
    OBVIOUS
  <2>1. TypeOK
    BY InitType
  <2>2. MutexInv
    BY ConstantsAssumption DEF Init, MutexInv
  <2>3. LifeInv /\ NoLostWakeup
    BY DEF Init, LifeInv, NoLostWakeup
  <2>4. SuspendInv /\ StopInv
    BY DEF Init, SuspendInv, LetThrough, QuietBound, StopInv, Committed, StopAllowance
  <2> QED
    BY <2>1, <2>2, <2>3, <2>4 DEF IndInv
<1>2. IndInv /\ [Next]_vars => IndInv'
  BY TypeStep, MutexStep, LifeStep, WakeupStep, SuspendStep, StopStep DEF IndInv
<1> QED
  BY <1>1, <1>2, PTL DEF Spec

\* No lost wakeup, for any number of controllers: whoever sets _running also
\* signals a worker that worker_should_suspend put to sleep.
THEOREM WakeupNeverLost == Spec => []NoLostWakeup
<1>1. IndInv => NoLostWakeup
  BY DEF IndInv
<1> QED
  BY <1>1, Invariance, PTL

\* The suspend gate holds: at most one handler run begins while _running is
\* FALSE, and none before the first start of a periodic worker.
THEOREM SuspendHolds == Spec => []SuspendBound
<1>1. IndInv => SuspendBound
  BY DEF IndInv, TypeOK, SuspendInv, LetThrough, SuspendBound, QuietBound
<1> QED
  BY <1>1, Invariance, PTL

\* After a stop at most one more handler run begins (two for a one-shot worker
\* stopped before its first run).
THEOREM StopHolds == Spec => []StopBound
<1>1. IndInv => StopBound
  BY DEF IndInv, TypeOK, StopInv, Committed, StopAllowance, StopBound
<1> QED
  BY <1>1, Invariance, PTL

-----------------------------------------------------------------------------
(* The lock of the same library: the other primitive its threads share *)

\* Outside its life nobody is inside a lock call.
LockLifeInv ==
    /\ lockLife # "alive" => \A t \in Threads : pc[t] = "idle"
    /\ lockLife \in {"none", "failed"} => value = 0 /\ ~locked

LockInv ==
    /\ LockTypeOK
    /\ LockLifeInv
    /\ LockConserved
    /\ NoPhantomLock

\* The structure before awoke_lock_create satisfies the invariant.
LEMMA LockInitially == LockInit => LockInv
<1> SUFFICES ASSUME LockInit PROVE LockInv
  OBVIOUS
<1>1. value \in 0 .. 1 /\ acquires \in 0 .. MaxAcquires
  BY LockAssumption DEF LockInit
<1>2. LockTypeOK
  BY <1>1 DEF LockInit, LockTypeOK, LockPoints
<1> QED
  BY <1>2 DEF LockInit, LockInv, LockLifeInv, LockConserved, NoPhantomLock

\* Every step of every thread preserves the invariant.
LEMMA LockStep == LockInv /\ [LockNext]_lockVars => LockInv'
<1> SUFFICES ASSUME LockInv, [LockNext]_lockVars PROVE LockInv'
  OBVIOUS
<1> USE LockAssumption DEF LockInv, LockTypeOK, LockPoints, LockLifeInv, LockConserved,
            Holding, NoPhantomLock, GoesTo
<1>1. ASSUME NEW type \in Types, awoke_lock_create(type) PROVE LockInv'
  BY <1>1 DEF awoke_lock_create
<1>2. ASSUME NEW t \in Threads, NEW point \in {"wait", "try", "timedWait"},
             Acquire(t, point)
      PROVE LockInv'
  BY <1>2 DEF Acquire
<1>3. ASSUME NEW t \in Threads, Try(t) \/ Timeout(t) PROVE LockInv'
  BY <1>3 DEF Try, Timeout
<1>4. ASSUME NEW t \in Threads, Take(t) PROVE LockInv'
  BY <1>4 DEF Take
<1>5. ASSUME NEW t \in Threads, Mark(t) PROVE LockInv'
  BY <1>5 DEF Mark
<1>6. ASSUME NEW t \in Threads, Release(t) PROVE LockInv'
  BY <1>6 DEF Release
<1>7. ASSUME NEW t \in Threads, Unmark(t) PROVE LockInv'
  BY <1>7 DEF Unmark
<1>8. ASSUME NEW t \in Threads, Clean(t) PROVE LockInv'
  BY <1>8 DEF Clean
<1>9. CASE UNCHANGED lockVars
  BY <1>9 DEF lockVars
<1> QED
  BY <1>1, <1>2, <1>3, <1>4, <1>5, <1>6, <1>7, <1>8, <1>9 DEF LockNext, Step

\* LockInv holds in every reachable state of the lock.
THEOREM LockInvariance == LockSpec => []LockInv
<1>1. LockInit => LockInv
  BY LockInitially
<1>2. LockInv /\ [LockNext]_lockVars => LockInv'
  BY LockStep
<1> QED
  BY <1>1, <1>2, PTL DEF LockSpec

\* The primitive stays binary, and every thread at a point of awoke_lock.c.
THEOREM LockTypeCorrect == LockSpec => []LockTypeOK
<1>1. LockInv => LockTypeOK
  BY DEF LockInv
<1> QED
  BY <1>1, LockInvariance, PTL

\* Mutual exclusion and no lost unlock, for every number of threads: the
\* primitive behind awoke_lock is free exactly when nobody holds it.
THEOREM LockIsConserved == LockSpec => []LockConserved
<1>1. LockInv => LockConserved
  BY DEF LockInv
<1> QED
  BY <1>1, LockInvariance, PTL

\* awoke_lock_acquire never refuses a lock that nobody uses, and
\* awoke_lock_clean never releases one.
THEOREM FlagIsNeverPhantom == LockSpec => []NoPhantomLock
<1>1. LockInv => NoPhantomLock
  BY DEF LockInv
<1> QED
  BY <1>1, LockInvariance, PTL

=============================================================================
