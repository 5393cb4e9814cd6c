------------------------------ MODULE UserMutex ------------------------------
(***************************************************************************)
(* nanos6_user_lock and nanos6_user_unlock (src/src/system/ompss/         *)
(* UserMutex.cpp) for tasks that share one user mutex and each lock and   *)
(* unlock it a bounded number of times.                                    *)
(*                                                                         *)
(* The handler starts as a null mutex_t; the first lockers allocate a      *)
(* UserMutex in the locked state and race to install it with a compare-   *)
(* and-swap.  A UserMutex is an atomic flag (tryLock is a compare-and-swap *)
(* of it) and a FIFO of blocked tasks under a spinlock: lockOrQueue either *)
(* takes the flag or queues the task, and dequeueOrUnlock either hands the *)
(* mutex to the first queued task, leaving the flag set, or clears the     *)
(* flag.  The class is not under src/; its operations are one atomic step  *)
(* each, as their lock makes them.                                         *)
(*                                                                         *)
(* A queued task blocks (TaskBlocking::taskBlocks) until the unlocker      *)
(* that dequeued it makes it runnable again.  That may happen before the  *)
(* task has blocked: the wake-up is then kept (woken) and the block        *)
(* returns at once.                                                        *)
(***************************************************************************)
EXTENDS Naturals, Sequences, FiniteSets

CONSTANTS
    Tasks,      \* tasks that use the mutex
    MaxRounds   \* lock/unlock pairs each task performs

ASSUME MaxRounds \in Nat \ {0}

NULL == "null"

VARIABLES
    ref,        \* the mutex_t the handler points to: NULL, or the task whose allocation won
    locked,     \* UserMutex::_userMutex
    queue,      \* UserMutex::_blockedTasks
    pc,         \* where each task is in nanos6_user_lock / nanos6_user_unlock
    woken,      \* the task's thread has been made runnable after being dequeued
    toWake,     \* the task an unlocker dequeued and must make runnable
    rounds      \* lock/unlock pairs completed

vars == <<ref, locked, queue, pc, woken, toWake, rounds>>

\* Between nanos6_user_lock and nanos6_user_unlock.
BlockedPhases == {"enterBlocking", "blocked", "exitBlocking"}

InQueue(t) == \E i \in DOMAIN queue : queue[i] = t

Init ==
    /\ ref = NULL
    /\ locked = FALSE
    /\ queue = <<>>
    /\ pc = [t \in Tasks |-> "idle"]
    /\ woken = [t \in Tasks |-> FALSE]
    /\ toWake = [t \in Tasks |-> NULL]
    /\ rounds = [t \in Tasks |-> 0]

\* Line 44: a null handler sends the task to allocate the mutex.
Lock(t) ==
    /\ pc[t] = "idle"
    /\ rounds[t] < MaxRounds
    /\ pc' = [pc EXCEPT ![t] = IF ref = NULL THEN "alloc" ELSE "try"]
    /\ UNCHANGED <<ref, locked, queue, woken, toWake, rounds>>

\* Variant: the new mutex is stored without a compare-and-swap.
AllocateWithoutCAS(t) ==
    /\ pc[t] = "alloc"
    /\ ref' = t
    /\ locked' = TRUE
    /\ pc' = [pc EXCEPT ![t] = "cs"]
    /\ UNCHANGED <<queue, woken, toWake, rounds>>

\* Lines 45-64: install a mutex allocated locked; the loser deletes its
\* own and goes on with the installed one.
Allocate(t) ==
    /\ pc[t] = "alloc"
    /\ IF ref = NULL
       THEN /\ ref' = t
            /\ locked' = TRUE
            /\ pc' = [pc EXCEPT ![t] = "cs"]
       ELSE /\ pc' = [pc EXCEPT ![t] = "try"]
            /\ UNCHANGED <<ref, locked>>
    /\ UNCHANGED <<queue, woken, toWake, rounds>>

\* Lines 71-74: the fast path, UserMutex::tryLock.
TryLock(t) ==
    /\ pc[t] = "try"
    /\ locked' = TRUE
    /\ pc' = [pc EXCEPT ![t] = IF locked THEN "queueing" ELSE "cs"]
    /\ UNCHANGED <<ref, queue, woken, toWake, rounds>>

\* Lines 77-81: UserMutex::lockOrQueue, under the mutex's spinlock.
LockOrQueue(t) ==
    /\ pc[t] = "queueing"
    /\ IF locked
       THEN /\ queue' = Append(queue, t)
            /\ pc' = [pc EXCEPT ![t] = "enterBlocking"]
       ELSE /\ pc' = [pc EXCEPT ![t] = "cs"]
            /\ UNCHANGED queue
    /\ locked' = TRUE
    /\ UNCHANGED <<ref, woken, toWake, rounds>>

\* Line 86: DataAccessRegistration::handleEnterBlocking.
HandleEnterBlocking(t) ==
    /\ pc[t] = "enterBlocking"
    /\ pc' = [pc EXCEPT ![t] = "blocked"]
    /\ UNCHANGED <<ref, locked, queue, woken, toWake, rounds>>

\* Line 87: TaskBlocking::taskBlocks returns once the thread is woken.
TaskBlocks(t) ==
    /\ pc[t] = "blocked"
    /\ woken[t]
    /\ pc' = [pc EXCEPT ![t] = "exitBlocking"]
    /\ woken' = [woken EXCEPT ![t] = FALSE]
    /\ UNCHANGED <<ref, locked, queue, toWake, rounds>>

\* Lines 89-98: handleExitBlocking; the task owns the mutex.
HandleExitBlocking(t) ==
    /\ pc[t] = "exitBlocking"
    /\ pc' = [pc EXCEPT ![t] = "cs"]
    /\ UNCHANGED <<ref, locked, queue, woken, toWake, rounds>>

\* Variant: the flag is cleared even when a task is handed the mutex.
DequeueAndUnlock(t) ==
    /\ pc[t] = "cs"
    /\ locked' = FALSE
    /\ IF queue = <<>>
       THEN /\ pc' = [pc EXCEPT ![t] = "idle"]
            /\ rounds' = [rounds EXCEPT ![t] = @ + 1]
            /\ UNCHANGED <<queue, toWake>>
       ELSE /\ queue' = Tail(queue)
            /\ toWake' = [toWake EXCEPT ![t] = Head(queue)]
            /\ pc' = [pc EXCEPT ![t] = "wake"]
            /\ UNCHANGED rounds
    /\ UNCHANGED <<ref, woken>>

\* Lines 102-120: nanos6_user_unlock, UserMutex::dequeueOrUnlock.
Unlock(t) ==
    /\ pc[t] = "cs"
    /\ IF queue = <<>>
       THEN /\ locked' = FALSE
            /\ pc' = [pc EXCEPT ![t] = "idle"]
            /\ rounds' = [rounds EXCEPT ![t] = @ + 1]
            /\ UNCHANGED <<queue, toWake>>
       ELSE /\ queue' = Tail(queue)
            /\ toWake' = [toWake EXCEPT ![t] = Head(queue)]
            /\ pc' = [pc EXCEPT ![t] = "wake"]
            /\ UNCHANGED <<locked, rounds>>
    /\ UNCHANGED <<ref, woken>>

\* Variant: a task that has not blocked yet is not woken.
WakeReleasedOnlyIfBlocked(t) ==
    /\ pc[t] = "wake"
    /\ woken' = [woken EXCEPT ![toWake[t]] = (pc[toWake[t]] = "blocked")]
    /\ toWake' = [toWake EXCEPT ![t] = NULL]
    /\ pc' = [pc EXCEPT ![t] = "idle"]
    /\ rounds' = [rounds EXCEPT ![t] = @ + 1]
    /\ UNCHANGED <<ref, locked, queue>>

\* Lines 121-149: the released task is made runnable: resumed on an idle
\* CPU, switched to in place of the unlocker (which is queued as ready),
\* or added to the scheduler.  Which one ThreadManagerPolicy picks changes
\* only who runs where, not the mutex.
WakeReleased(t) ==
    /\ pc[t] = "wake"
    /\ woken' = [woken EXCEPT ![toWake[t]] = TRUE]
    /\ toWake' = [toWake EXCEPT ![t] = NULL]
    /\ pc' = [pc EXCEPT ![t] = "idle"]
    /\ rounds' = [rounds EXCEPT ![t] = @ + 1]
    /\ UNCHANGED <<ref, locked, queue>>

\* Every task has done its rounds.
Terminated ==
    /\ \A t \in Tasks : pc[t] = "idle" /\ rounds[t] = MaxRounds
    /\ UNCHANGED vars

Next ==
    \/ \E t \in Tasks :
          \/ Lock(t) \/ Allocate(t) \/ TryLock(t) \/ LockOrQueue(t)
          \/ HandleEnterBlocking(t) \/ TaskBlocks(t) \/ HandleExitBlocking(t)
          \/ Unlock(t) \/ WakeReleased(t)
    \/ Terminated

\* Every thread keeps running its task: a task inside a call finishes its
\* steps, a task in the critical section unlocks, and a task with rounds
\* left locks again.  A blocked task runs only once woken.
Fairness ==
    \A t \in Tasks :
        /\ WF_vars(Lock(t)) /\ WF_vars(Allocate(t)) /\ WF_vars(TryLock(t))
        /\ WF_vars(LockOrQueue(t)) /\ WF_vars(HandleEnterBlocking(t))
        /\ WF_vars(TaskBlocks(t)) /\ WF_vars(HandleExitBlocking(t))
        /\ WF_vars(Unlock(t)) /\ WF_vars(WakeReleased(t))

Spec == Init /\ [][Next]_vars /\ Fairness

----------------------------------------------------------------------------
(* Who owns the mutex.  A task owns it in the critical section, and from   *)
(* the moment an unlocker has dequeued it, even before it has blocked.     *)

Owns(t) == pc[t] = "cs" \/ (pc[t] \in BlockedPhases /\ ~InQueue(t))

Waiting(t) == pc[t] \in {"alloc", "try", "queueing"} \/ (pc[t] \in BlockedPhases /\ InQueue(t))

\* The refinement mapping: each task's phase in UserLock.
Abstract == INSTANCE UserLock
                WITH phase <- [t \in Tasks |-> IF Owns(t) THEN "owns"
                                               ELSE IF Waiting(t) THEN "waiting" ELSE "out"]

----------------------------------------------------------------------------
(* Properties                                                              *)

\* Whatever the interleaving of allocating, barging, queueing and
\* unlocking tasks, nanos6_user_lock and nanos6_user_unlock behave as an
\* atomic mutex: a task enters the critical section only when nobody owns
\* it, and only an unlock passes ownership on.
ImplementsUserLock == Abstract!Spec

\* The flag is set exactly while some task owns the mutex, a queued task
\* is blocking, and a wake-up is pending only for a dequeued task that has
\* not yet passed taskBlocks (a stale one would let a later lock skip its
\* block).
LockStateConsistent ==
    /\ locked <=> \E t \in Tasks : Owns(t)
    /\ \A t \in Tasks : InQueue(t) => pc[t] \in BlockedPhases
    /\ \A t \in Tasks : woken[t] => pc[t] \in {"enterBlocking", "blocked"} /\ ~InQueue(t)

\* A task that calls nanos6_user_lock eventually owns the mutex, even when
\* its unlocker dequeues and wakes it before it has blocked.
NoStarvation == \A t \in Tasks : Waiting(t) ~> Owns(t)

=============================================================================
