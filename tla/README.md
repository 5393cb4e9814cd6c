# TLA+ models of the Nanos6 dependency engine

This directory holds TLA+ models of the Nanos6 task runtime under `src/`. The
models are checked with TLC. The main subject is the linear-regions dependency
engine (`src/dependencies/linear-regions-alternative/DataAccessRegistration.hpp`).
Around it, the models cover the task-finalization chain with taskwaits, the
external events API (`src/system/EventsAPI.cpp`), the finish and launch path
of a device polling service, the NUMA hierarchical scheduler
(`src/scheduling/schedulers/NUMAHierarchicalScheduler.cpp`) and the user
mutex (`src/system/ompss/UserMutex.cpp`).

## The system

A task declares typed data accesses (read, write, readwrite, concurrent,
reduction; each possibly weak) over byte regions. The engine turns them into a
happens-before order between tasks. Its parts are:

| Part | Code | What it does |
|---|---|---|
| Registration | `registerTaskDataAccess`, `upgradeAccess`, `createAccess`, `duplicateDataAccess` | Builds the task's access set. It fragments existing accesses along the new region, upgrades what it covers, creates accesses for the gaps, and counts the new bytes in the removal countdown. Combining concurrent or reduction accesses is fatal. |
| Linking | `registerTaskDataAccesses`, `linkTaskAccesses`, `replaceAndLink…`, `linkToNotCompletedOrWithoutSubaccessesPredecessors`, `foreachBottomMapMatchingAndMissingRegion`, `linkAndPropagateAfterFirstLinking` | Under two guard predecessors, it walks the parent's bottom map (the live subaccess regions of the parent's children). The new access is linked behind each previous access, or below the parent's own access, and the walk recurses into completed predecessors that have subaccesses. The new task then replaces them in the bottom map. |
| Propagation | `propagateSatisfiability`, `evaluateSatisfiability` | Passes read, write and topmost bits along `next` and `child` edges, fragmenting on the way. It decreases predecessor counts, which produces ready tasks, and removal countdowns, which produces removable tasks. |
| Finalization | `finalizeAccess`, `linkBottomMapAccessesToNext`, `unregisterTaskDataAccesses` | Marks the accesses of a finished task complete. It hands its bottom-map subaccesses over to its `next` task, then propagates. |
| Removal | `handleTaskRemoval`, `removeDataAccess`, `processRemovedRegionsFromBottomMap` | Deletes a removable task's accesses and erases their regions from the parent's bottom map and child pointers. |
| Task finalization | `TaskFinalization::disposeOrUnblockTask` | Disposes a finished task and walks up its ancestors while `unlinkFromParent` releases them. An ancestor that has not finished is in a taskwait that ends at this point: it goes back to the scheduler and the walk stops. |
| Taskwait | `handleEnterTaskwait`, `handleExitTaskwait` | On entry, the accesses' blocking count is dropped unless they are removable, then `markAsBlocked` drops the task's own. The task blocks unless that was its last count. On exit, both counts are taken back. |
| Events API | `nanos6_increase_current_task_event_counter`, `nanos6_decrease_task_event_counter` | A running task adds events to its release count. Any thread may fulfil one. Whichever of `markAsFinished` and the last fulfilment brings the count to zero unregisters the accesses and disposes the task. |
| User mutex | `nanos6_user_lock`, `nanos6_user_unlock` | Lazily allocates the `UserMutex` with a compare-and-swap on the handler. It then tries the lock, and otherwise queues the task and blocks it. Unlock hands the mutex to the first queued task, or clears the flag, and makes the released task runnable. |
| Device executor | `CUDAPollingService::finishTask`, `launchTask` | `markAsFinished`, unregister, `markAsReleased`, dispose; launching a ready task. |
| NUMA scheduler | `NUMAHierarchicalScheduler` | Keeps one ready queue per NUMA node and an atomic counter of ready tasks per node, with no lock shared between the two. A compute place takes work from its own node first, and otherwise steals from the node whose counter is highest. |

The parts interact through two counters of each task:
- the **predecessor count**, which gates scheduling;
- the **removal blocking count**, which gates disposal. It is made of the task's own count, one count while the removal countdown of its accesses is non-zero, and one per live child.

Every task has a spinlock on its `TaskDataAccesses`. Linking takes the
parent's lock and then the new task's. It enters each bottom-map subtask with
`tryLock`; when that fails, it drops the new task's lock, waits for the
subtask's, and takes its own again (lines 398-401). Finalization takes the
parent's lock and then the task's. `linkBottomMapAccessesToNext` then locks
subtasks with plain locks, and propagation locks each task it reaches while
it holds the previous one. Removal (`handleTaskRemoval`) takes the parent's
lock and then the task's. It deletes the task's accesses, and erases the
task from the parent's bottom map and from the `_child` of the parent's
accesses; the task is freed right after.

Each walk collects the tasks it made ready and the tasks it made removable in
`CPUDependencyData`. After the locks are dropped, the walk schedules the former
and disposes the latter.

## Modules

| Module | Models |
|---|---|
| `DataAccesses` | Stateless operators: the region algebra, the `DataAccess` record, fragmentation, `upgradeAccess`, registration and `evaluateSatisfiability`. A region is the set of its bytes. The bits of `DataAccess::_status` are record fields with the C++ names. |
| `AccessRegistration` | One task's registration phase. `RegisterTaskDataAccess(c)` is one `registerTaskDataAccess` call; `RegisterFatal(c)` is the `failIf` of `upgradeAccess`. The history `declared` is the reference that the properties compare against. |
| `DataAccessRegistration` | The engine with a task tree. Variables: `accesses`, `bottomMap`, `predecessors`, `removalCountdown`, `removalBlocking`, the task `state`, `spawned`, `removable`, and `faults` (violated `assert`s and memory errors seen so far), the release
count `releaseCount` with the events made and fulfilled, and `waited` (the
taskwaits entered). Each code walk is a recursive operator over a "world" record. The actions are listed below. |
| `MCAccessRegistration` | Three bytes, two reduction operations, up to three calls. |
| `MCNested`, `MCGroups`, `MCReaders`, `MCEvents`, `MCTaskwait` | Five task trees (see their header comments). `MCEvents` gives two tasks one event each, and puts taskwaits in A (after A1) and in the main task. `MCTaskwait` puts taskwaits in the main task, in a task with accesses between its two children, and in a task with no child. |
| `MCDeep` | A tree of three levels: A, A1 and A11 nest, B reads A's second byte, and C writes both bytes after them. It is the only tree in which a hand-off or a linking walk must pass through two finished levels. |
| `TaskOrder` | The abstract engine: each task is unborn, created, running, ended or released. A running parent creates its children in program order. A created task starts once every task it must wait for is released. Ending may release the task at once, or leave it ended until its last event. |
| `UserLock` | The abstract mutex: each task is out, waiting or owning, and at most one task owns. Release either frees the lock or hands it to a waiting task. |
| `UserMutex` | `nanos6_user_lock` and `nanos6_user_unlock` step by step. Variables: the handler `ref`, the flag `locked`, the FIFO `queue`, each task's `pc`, the wake-up token `woken`, the task an unlocker must wake (`toWake`), and the `rounds` done. The `UserMutex` class is not under `src/`; each of its operations is one atomic step. |
| `MCUserMutex` | Three tasks, each locking and unlocking twice. |
| `DataAccessSequence` | `getEffectivePrevious` of the discrete dependency implementation (`src/dependencies/discrete/DataAccessSequenceImplementation.hpp`). The state is a nesting of accesses (`super`: the access whose subsequence holds each one), the call's target and its result. `Climb` is the loop of the code as a recursive operator. `LogicalPrevious` is an independent reference defined from the preorder of the nesting. |
| `MCDataAccessSequence` | All 120 nestings of five accesses, with every target. |
| `NUMAScheduler` | The NUMA scheduler. Variables: the counters `readyTasks` and `enabledCPUs`, the node queues, the enabled CPUs, and where each thread is inside its call (`pc`, `target`, `held`, `tstate`). Each atomic counter update is one step, and so is each node-scheduler call (it takes its own lock). Each scan over all counters is also one step. `addReadyTask` and `taskGetsUnblocked` are two steps each: count, then queue. `getReadyTask` takes up to four steps: check its own counter, take, scan for a victim, then uncount. |
| `AccessLocks` | The spinlocks of linking, finalization, propagation and removal. Each task is a thread: it links its children in order, finalizes itself, and removes its accesses once its children are removed (`removed`). `owner` is each lock's holder. `bm`, `child`, `next`, `complete` and `sat` are the bottom maps and access fields that the walks read and write, one address per region. `ctl[t]` is thread t's program counter with its walk state: the subtasks entered (`stk`), the lock awaited (`want`) and the propagation frames (`prop`). Every lock, `tryLock` and unlock is a step of its own. `actor` records which thread took the last step. The module also maps its state onto `TaskOrder` (`LockPhase`). A task runs once its `sat` bits are all set, and is released once it enters finalization. `MustWait` is `MustPrecede`, the overlapping pairs in preorder other than ancestor and descendant. TLC would recompute that relation at each use, so the MC module passes it in as the constant `Precedes`, and an `ASSUME` checks that the two are equal. |
| `MCAccessLocks` | M creates Q and then N; Q creates X, and X creates Y. Q, X and N access addresses 1 and 2, and Y accesses address 1. |
| `MCNUMAScheduler` | Two nodes with one CPU each, two tasks. |

Actions of `DataAccessRegistration`:
- `Spawn(p)` is task creation plus `registerTaskDataAccesses`: register, the guard of +2 predecessors, `linkTaskAccesses`, then −2.
- `Start(t)` is `getReadyTask` and `launchTask`.
- `Finish(t)` is the end of the body. `markAsFinished` drops one from the release count. If that reaches zero, `ReleaseTask` runs `unregisterTaskDataAccesses`, `processSatisfiedOriginators` and `markAsReleased`. Otherwise the task waits for its events (`waitingEvents`).
- `IncreaseEventCounter(t)` and `DecreaseEventCounter(t)` are the events API. The decrease that reaches zero runs `ReleaseTask` with a null compute place.
- `EnterTaskwait(t)` and `ExitTaskwait(t)` are the taskwait handlers together with `markAsBlocked` and `markAsUnblocked`. Between them the task is `taskwait` (blocked) or `resumable` (unblocked, or it never blocked).
- `DisposeOrUnblock(t)` is `processRemovableTasks` and `disposeOrUnblockTask` for one removable task, including the unblock of an ancestor in a taskwait.
- `Terminated` is the end of the program.

`Finish` and `DisposeOrUnblock` are separate steps because the code drops the
engine locks before it disposes the removable tasks, so other steps may run in
between. Iteration over a region container (`processIntersecting` and its
variants) visits start addresses in address order (`ForEach`). A walk that
dereferences a disposed task's structures adds "use after free" to `faults`.
Each code `assert` on state the model keeps is a `Check` that adds a named
fault, the assumption of `propagateSatisfiability` at lines 635-638
included. The one at lines 645-646 (topmost implies read and write
satisfied) is checked by `AssertionsHold` on every access in every state. Asserts on the container iterators and on instrumentation
ids have no counterpart in the model.

The Task counters (`markAsBlocked`, `markAsReleased`, the release count),
`TaskDataAccesses::isRemovable`, `Task::getParent`, the region algebra and
the region container are not under `src/`. They are modelled from `spec.md` and marked as
such in `PROJECT.json`.

## Runs

| Run | Shows |
|---|---|
| `reg` | Every sequence of up to three calls over three bytes gives accesses that are disjoint, cover the footprint, never straddle a declared boundary, and carry the combined type and weakness. The countdown equals the footprint size. The process aborts exactly on malformed combinations. |
| `nested` | A tree with a fragmented read, parental links, a partial bottom-map replacement, the bottom-map hand-off and the recursion of the linking walk. |
| `groups` | Concurrent and reduction groups under a weak parent access, followed by a reader. |
| `readers` | Expected violation: a writer followed by two readers. With the spec's `satisfied()`, the second reader waits for the first (see Findings). |
| `events` | Tasks whose event is fulfilled before or after their body returns release their accesses exactly once, only when every event is done, and are all disposed. A and the main task wait for their children in taskwaits. When A1's event is fulfilled last, from a foreign thread, its dispose chain unblocks A; A resumes only after A1 is disposed (`TaskwaitWaitsForChildren`). |
| `events_null_cp` | Expected violation: the last event of a task with accesses, fulfilled after its body has returned, unregisters and disposes the task with a null compute place (see Findings). |
| `taskwait` | Taskwaits end only once every child created before them is disposed. The blocking count stays exact through the taskwait, and no task stays blocked. |
| `numa` | The NUMA scheduler with adders, unblockers, stealing CPUs and CPUs being disabled and enabled. |
| `sequence` | On every nesting of five accesses, `getEffectivePrevious` returns the access logically just before the target (`EffectivePreviousIsLogicalPrevious`). It climbs out of as many nested sequences as needed and never returns the enclosing access. |
| `locks` | While M links N behind the finished Q, whose child X and grandchild Y still run, the walk, the finalizations of Q, X and Y and their propagations into N never wait in a cycle. No thread locks a task that has been removed, even when Q, X and Y are removed before M links N. Every structure is written only by the thread holding its lock, and every thread ends. The locked walks implement `TaskOrder`. |
| `deep` | In the three-level tree, C starts only after A, A1 and A11 have all entered finalization. This holds even when A's hand-off to C must walk through A1's completed access into A1's bottom map. |
| `mutex` | Three tasks race to allocate the mutex, barge and queue. They implement the atomic `UserLock` and are never starved, even when a task is woken before it has blocked. |

The engine runs check the following properties:
- `ImplementsTaskOrder` (`nested`, `groups`, `events`, `deep`): `DataAccessRegistration` refines `TaskOrder`. The mapping `TaskPhase` sends pending and ready tasks to created, and running tasks and tasks in a taskwait to running. A task whose body has returned maps to released when its release count is zero, and to ended before that. `MustWait` is `OrderedDependences`: the earlier task conflicts with the later one, or has a weak access over data the later one uses strongly. Every engine step is a `TaskOrder` step or leaves the phases unchanged. It says that two tasks that must be ordered never run out of program order: the later one starts only after the earlier one has finished and fulfilled all its events. Program order is the preorder of the tree. It also says that tasks are created in program order and that no task goes back in its lifecycle. In `deep`, the mutant `LinkSubaccessToNextShallow` always stops at the finished child's access. It lets C start while A11 still runs, and it passes in every two-level tree.
- `PredecessorAccounting`: the predecessor count equals the number of strong unsatisfied fragments, and a task is pending exactly when that count is non-zero.
- `RemovalAccounting`: the countdown equals the bytes that are not yet topmost plus the ticket, and the blocking count follows its definition. A task in a taskwait lends its own count and its accesses' count. A task is removable exactly when that count is zero, and a task in a taskwait is resumed exactly when it is.
- `TaskwaitWaitsForChildren` (`taskwait`, `events`): a task resumes from a taskwait only when every child it created before it has been disposed.
- `BottomMapConsistent`: entries are disjoint and name live children, and a task's own entries are exactly its pieces that have subaccesses.
- `NoUseAfterFree` (`nested`): no walk touches a disposed task.
- `AssertionsHold`: no code assertion is violated, no task is made ready twice, and no task is made removable twice.
- `EveryTaskDisposed`: every task except the main one is eventually disposed.
- `NoFalseDependency` (`groups`, `readers`): a task is pending only while some earlier task it must wait for has not finished. A weak access of the earlier task counts here, because it completes only when that task finishes.

The `numa` run checks:
- `ReadyCountTracksQueue`: a node's counter equals the tasks in its queue, plus the tasks counted there and not yet queued, plus the tasks taken from it and not yet uncounted.
- `EveryTaskRuns`: every task eventually runs to its end, including one queued on a node whose CPU has been disabled since.

The `mutex` run checks:
- `LockStateConsistent`: the flag is set exactly when some task owns the mutex, and queued tasks are between blocking and exit. A wake-up token is held only by a task that has been dequeued and has not yet passed its block.
- `ImplementsUserLock`: `UserMutex` refines `UserLock`. Under the refinement mapping, a task owns the lock when it is in its critical section, or when it was dequeued and is still leaving the block. It waits while it allocates, tries, queues or stays queued. It is out otherwise.
- `NoStarvation`: a waiting task eventually owns the mutex.

The `locks` run checks:
- `NoCircularWait`: no set of threads waits in a cycle, and no thread waits on a lock it holds itself. The mutant that waits for the subtask without dropping the new task's lock closes a cycle at once. A plain lock in place of the fallback closes the cycle that the code comment at line 1088 describes: M holds M and N and waits for Q, while X's finalizer holds Q, X and Y and waits for N, to propagate from Y.
- `NoLockOfRemovedTask`: no thread holds or waits for the lock of a task whose accesses `handleTaskRemoval` has deleted. When M links N after Q is removed, the walk must not find Q in M's bottom map. The mutant that skips `processRemovedRegionsFromBottomMap` makes N's walk `tryLock` the freed Q.
- `AccessesTouchedUnderLock`: a task's accesses, links and bottom map change only in a step of the thread holding its lock. In the `tryLock` gap, the finalizers propagate into N's linked accesses, and the walk writes N's next access only after it holds N's lock again.
- `EveryThreadFinishes`: every task body, including the linking of its children and its own finalization, runs to its end.
- `ImplementsTaskOrder`: `AccessLocks` refines `TaskOrder` through `LockPhase`. N starts only after Q, X and Y have entered finalization, on both addresses, whichever of the walks sets N's bits. The mutant `SatisfiabilityIgnoringComplete` copies the predecessor's bits without checking its `complete` flag. It lets N run while X still runs.

Every property has a mutant in `PROJECT.json`: a plausible defect in the code
that TLC catches with that property.

## Bounds

- Two bytes are enough for every case of the walks. A fragment is a strict subregion, so a partially covered bottom-map entry appears, and one byte can be shared while the other is not.
- Seven tasks give two levels of nesting, siblings that both overlap a parent access, and a successor of a finished parent whose children still run. Together these cover the hand-off and the recursion.
- `MCDeep` adds the third level, which the walk-through of `linkBottomMapAccessesToNext` (lines 818-843) needs. Beyond three levels, more tasks only multiply the interleavings. It has 175 states.
- `MCEvents` gives an event to a parent and to its child, so that both the body's end and the external fulfilment can be the last release, at two nesting levels, with a successor that waits for both. Its taskwaits let the external fulfilment of A1's event be the step that unblocks A.
- `MCTaskwait` takes each branch of the taskwait code once. One task is removable and drops only its own count. One is not removable and drops both counts. One has no child left and does not block. The main task's taskwait waits for two children that run concurrently.
- Three registration calls over three bytes give every way for a new region to cover, split or extend earlier ones.
- NUMA uses two nodes with one CPU each. A CPU can therefore be the only one of its node, and stealing happens in both directions.
  - Two tasks, each blocking at most once (`MaxBlocks = 1`), make a counter reach two and let an unblocked task return to another node.
  - Two enable/disable calls (`MaxToggles = 2`) let a node lose its CPU and get it back.
  - Three tasks gave no new interleaving, and took minutes to check.

- Five accesses nest up to five levels deep, and give a target at the top of three nested sequences with an earlier access at each level. Four would leave a single level of choice above the deepest climb.
- `MCAccessLocks` has three nesting levels below the main task, with a finished task (Q) between the new task and the running ones. The linking walk therefore recurses, and a `tryLock` on a subtask can fail while that subtask's finalizer propagates into the new task. With two addresses, N is linked behind X on one address while X still blocks the other; that is what the cycle needs. Removal lets M link N after Q, X and Y are gone. The run has 24,695 states and takes about 20 seconds.
- The mutex uses three tasks and two rounds each. That is the smallest instance in which a task can be queued behind another queued task, and in which a released task can lock again and barge ahead of the queue.

## Fairness

The model assumes the following, and the code justifies each:
- an idle worker takes every ready task (`Start` is weakly fair);
- a task's body runs to its end, creating its children (`Spawn` and `Finish`);
- the thread that collected a removable task disposes of it (`DisposeOrUnblock`);
- an event that is outstanding is eventually fulfilled (the program's contract with the events API);
- a task that reaches a taskwait enters it, and a resumed task leaves it.

In the mutex model every step of a task is weakly fair: the thread of a task keeps running. A wake-up that arrives before the block is kept as a token (`woken`), as `TaskBlocking` does. Without the token, a task woken early would block forever.

In the NUMA model, the following steps are weakly fair:
- a thread inside `addReadyTask` or `taskGetsUnblocked` finishes its call;
- an enabled CPU with nothing to run keeps calling `getReadyTask` (the idle loop of a worker);
- a running task reaches its end or its next block.

Enabling and disabling CPUs is up to the caller and is not fair. The environment keeps at least one CPU enabled, as the callers of `disableComputePlace` are expected to; a CPU is disabled only when it is idle.

Weak fairness of `Spawn`, `Finish`, `DecreaseEventCounter` and `DisposeOrUnblock` is written out by its
definition: eventually-always the guard implies infinitely-often the step. The
step is named by the variable that only it changes that way. This is the same
condition as `WF_vars`, but TLC does not have to evaluate `ENABLED` on the
recursive walks.

In the lock model a task's removal is a step of its own thread, taken once its children's threads have ended. In the code it runs on whichever thread makes the task removable, which holds no lock at that point, so the locks taken are the same. Every thread step is strongly fair (`SF_vars(Step(t))`). A waiting thread spins, and retries for as long as the lock is held. The `TaskDataAccesses` spinlock is not under `src/`; the model assumes it serves waiters in order, as a ticket lock does. Every other step is always enabled, so for those steps strong fairness is the same as weak fairness.

## Findings

`events_null_cp` (code bug): `nanos6_decrease_task_event_counter` (`EventsAPI.cpp:66`) passes a null compute place to `unregisterTaskDataAccesses` and `disposeOrUnblockTask`. The comment at line 55 says this is on purpose. `unregisterTaskDataAccesses` calls `computePlace->getDependencyData()` (line 1268) whenever the task has accesses. `handleTaskRemoval` asserts the compute place is not null (line 1378) and dereferences it. The last event of a task with accesses, fulfilled after the body returned, therefore dereferences a null pointer.

`readers`: the spec defines `satisfied()` as `read_satisfied ∧ write_satisfied` for every access type. `DataAccess` is not under `src/`, so the model follows the spec. `evaluateSatisfiability` (line 537) passes the read bit from a READ access that has not completed, but never its write bit. With the spec's definition, the second of two readers behind a writer therefore stays pending until the first reader finishes. That contradicts the spec's "released the moment its inputs are satisfied", and leaves the read-pass case without effect on scheduling. With `satisfied()` for a READ access defined as its read bit alone, `NoFalseDependency` holds in `MCNested` as well.

## Not modelled

- Inside the engine, `handleEnterBlocking` and `handleExitBlocking` (lines 1318-1339) are not modelled. A task blocked on a user mutex keeps its children and accesses, so they change nothing the properties observe. The mutex itself is modelled in `UserMutex`. The wait clause and the release directive are not modelled either.
- In `DataAccessRegistration` each walk is one atomic step. The lock protocol is modelled apart, in `AccessLocks`. It abstracts the counters and the topmost bits, and drives removal by the children's end rather than the removal countdown. Fragmentation of the parent's access in `processRemovedRegionsFromBottomMap` does not arise with one address per region.
- Which wake-up path `ThreadManagerPolicy` picks for a released mutex owner is not modelled. All three make the task runnable.
- The shutdown sequence of the worker threads (`WorkerThreadBase::shutdownSequence`) depends on `ThreadManager::getIdleThread`, thread resume and join, and the per-CPU `CPUThreadingModelData`. None of these is under `src/` or described in `spec.md`.
- The discrete multidimensional registration (`MultidimensionalAPI.hpp`) only forwards one region to the `nanos6_register_*_depinfo` call that matches the type and weakness. Its start and size come from `getStartOffset` and `getDiscreteSize` in `MultidimensionalAPITraversal.hpp`, which is neither under `src/` nor described in `spec.md`, so there is no state to model.
- The graph instrumentation (`src/instrument/graph/SortAccessGroups.cpp`) uses fields such as `_firstGroupAccess`, `_liveFragments` and `_accessIdToAccessMap`. The `InstrumentGraph.hpp` under `src/` does not declare them, and `spec.md` leaves instrumentation out.
- The idle protocol between a CPU and `addReadyTask` (`cpuBecomesIdle`, `getIdleCPU`) is not modelled. Those functions are not under `src/`, so the model keeps idle CPUs polling. A lost wake-up there is listed as an open hazard.
- The priority scheduler (`PriorityScheduler.hpp` only declares it), `CPUManager` (getters), taskloop creation (copying of bounds) and the worker threads; see `components` in `PROJECT.json`.

## Plan for later work

1. Model the CPU idle and resume protocol if `CPUManager`'s idle functions become available. That would settle the open lost-wake-up hazard at `NUMAHierarchicalScheduler.cpp:127`.
