----------------------------- MODULE AwokeLock -----------------------------
(***************************************************************************)
(* The lock of lib/libutil: a POSIX semaphore or mutex behind a `locked'   *)
(* flag that is read and written outside the primitive.  Acquiring sets    *)
(* the flag AFTER the primitive was taken, releasing clears it AFTER the   *)
(* primitive was given back, so the flag and the primitive are two things. *)
(***************************************************************************)
EXTENDS Naturals, FiniteSets

CONSTANTS
    Threads,    \* the threads that use the lock
    Types,      \* the type bytes awoke_lock_create may be called with
    MaxAcquires \* bound: acquire calls made in one behaviour

ASSUME LockAssumption == MaxAcquires \in Nat

VARIABLES
    lockLife,   \* of the awoke_lock structure
    value,      \* of the primitive: 1 when it can be taken, 0 when it is held
    locked,     \* lock->locked
    pc,         \* where each thread is
    acquires    \* acquire calls made so far

lockVars == <<lockLife, value, locked, pc, acquires>>

\* "try" is the NOBLOCK test, "tryWait", "wait" and "timedWait" are inside the
\* primitive, "mark" has the primitive and has yet to set the flag, "unmark"
\* has given the primitive back and has yet to clear the flag.
LockPoints == {"idle", "try", "tryWait", "wait", "timedWait", "mark", "hold", "unmark"}

LockTypeOK ==
    /\ lockLife \in {"none", "failed", "alive", "freed"}
    /\ value \in 0 .. 1
    /\ locked \in BOOLEAN
    /\ pc \in [Threads -> LockPoints]
    /\ acquires \in 0 .. MaxAcquires

LockInit ==
    /\ lockLife = "none"
    /\ value = 0
    /\ locked = FALSE
    /\ pc = [t \in Threads |-> "idle"]
    /\ acquires = 0

GoesTo(t, point) == pc' = [pc EXCEPT ![t] = point]

-----------------------------------------------------------------------------

\* lock_table: the types that have an implementation.
lock_table == {"SEM", "MUX"}

\* awoke_lock_create: a type that is not in the table, or a failed allocation,
\* frees the structure again.
awoke_lock_create(type) ==
    /\ lockLife = "none"
    /\ \/ type \in lock_table /\ lockLife' = "alive" /\ value' = 1
       \/ lockLife' = "failed" /\ UNCHANGED value
    /\ UNCHANGED <<locked, pc, acquires>>

\* Entry of awoke_lock_acquire(BLOCK), awoke_lock_acquire(NOBLOCK) and
\* awoke_lock_acquire_timeout.
Acquire(t, point) ==
    /\ lockLife = "alive"
    /\ pc[t] = "idle"
    /\ acquires < MaxAcquires
    /\ acquires' = acquires + 1
    /\ GoesTo(t, point)
    /\ UNCHANGED <<lockLife, value, locked>>

\* if (lock->locked && flag == NOBLOCK) return et_locked.
Try(t) ==
    /\ pc[t] = "try"
    /\ GoesTo(t, IF locked THEN "idle" ELSE "tryWait")
    /\ UNCHANGED <<lockLife, value, locked, acquires>>

\* sem_wait, pthread_mutex_lock and the timed variants when they succeed.  The
\* blocking calls always do: sem_acquire does not look at the result of
\* sem_wait, whose one failure on a valid semaphore is EINTR, and no program
\* that uses the lock (benchmark, nbdev) installs a signal handler.
Take(t) ==
    /\ pc[t] \in {"wait", "tryWait", "timedWait"}
    /\ value > 0
    /\ value' = value - 1
    /\ GoesTo(t, "mark")
    /\ UNCHANGED <<lockLife, locked, acquires>>

\* Mutant of Timeout: the timeout of the primitive is taken for a success.
TimeoutIgnored(t) ==
    /\ pc[t] = "timedWait"
    /\ GoesTo(t, "mark")
    /\ UNCHANGED <<lockLife, value, locked, acquires>>

\* et_lock_timeout: the timed wait gives up, the flag is left alone.
Timeout(t) ==
    /\ pc[t] = "timedWait"
    /\ GoesTo(t, "idle")
    /\ UNCHANGED <<lockLife, value, locked, acquires>>

\* lock->locked = TRUE
Mark(t) ==
    /\ pc[t] = "mark"
    /\ locked' = TRUE
    /\ GoesTo(t, "hold")
    /\ UNCHANGED <<lockLife, value, acquires>>

\* awoke_lock_release: sem_post or pthread_mutex_unlock first ...
Release(t) ==
    /\ pc[t] = "hold"
    /\ value' = value + 1
    /\ GoesTo(t, "unmark")
    /\ UNCHANGED <<lockLife, locked, acquires>>

\* Mutant of Unmark: the flag is not cleared on the way out.
UnmarkDropped(t) ==
    /\ pc[t] = "unmark"
    /\ GoesTo(t, "idle")
    /\ UNCHANGED <<lockLife, value, locked, acquires>>

\* ... and lock->locked = FALSE afterwards.
Unmark(t) ==
    /\ pc[t] = "unmark"
    /\ locked' = FALSE
    /\ GoesTo(t, "idle")
    /\ UNCHANGED <<lockLife, value, acquires>>

\* awoke_lock_clean, called by a thread that knows that no other thread is
\* using the lock: a lock that is still held is released, then destroyed.
Clean(t) ==
    /\ lockLife = "alive"
    /\ pc[t] \in {"idle", "hold"}
    /\ \A u \in Threads \ {t} : pc[u] = "idle"
    /\ value' = IF locked THEN value + 1 ELSE value
    /\ lockLife' = "freed"
    /\ GoesTo(t, "idle")
    /\ UNCHANGED <<locked, acquires>>

-----------------------------------------------------------------------------

Step(t) ==
    \/ \E point \in {"wait", "try", "timedWait"} : Acquire(t, point)
    \/ Try(t) \/ Take(t) \/ Timeout(t) \/ Mark(t) \/ Release(t) \/ Unmark(t)
    \/ Clean(t)

LockNext ==
    \/ \E type \in Types : awoke_lock_create(type)
    \/ \E t \in Threads : Step(t)

LockSpec == LockInit /\ [][LockNext]_lockVars

-----------------------------------------------------------------------------
(* Properties *)

\* The threads between a successful wait and the release of the primitive.
Holding(t) == pc[t] \in {"mark", "hold"}

\* The primitive is neither lost nor doubled: it is free exactly when nobody
\* holds it, on every path through the timeouts, the refused NOBLOCK calls and
\* the releases, and at most one thread holds it.
LockConserved ==
    lockLife = "alive" =>
        /\ value = 1 <=> \A t \in Threads : ~Holding(t)
        /\ \A t, u \in Threads : Holding(t) /\ Holding(u) => t = u

\* locked = TRUE is never left behind: some thread holds the lock or is on its
\* way out of awoke_lock_release.  So et_locked is only returned while the lock
\* is in use, and awoke_lock_clean never posts a semaphore nobody holds.
NoPhantomLock ==
    (lockLife = "alive" /\ locked) => \E t \in Threads : pc[t] \in {"hold", "unmark"}

=============================================================================
