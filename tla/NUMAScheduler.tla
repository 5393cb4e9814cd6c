---------------------------- MODULE NUMAScheduler ----------------------------
(***************************************************************************)
(* NUMAHierarchicalScheduler (src/src/scheduling/schedulers/              *)
(* NUMAHierarchicalScheduler.cpp): one ready queue per NUMA node, behind   *)
(* a per-node counter of ready tasks (_readyTasks) that the scheduler      *)
(* keeps next to the queue without a common lock.  Threads add ready and   *)
(* unblocked tasks, compute places take them (from their own node, or by   *)
(* stealing from the node whose counter is highest), and compute places   *)
(* are enabled and disabled.                                               *)
(*                                                                         *)
(* Every access to one counter is an atomic read-modify-write; a node      *)
(* scheduler call is atomic (it takes its own lock).  A loop that reads    *)
(* the counters of all nodes (the least-loaded and most-loaded searches)   *)
(* is one step.  Nodes are the indices 0 .. NodeCount-1, scanned upwards.  *)
(***************************************************************************)
EXTENDS Integers, FiniteSets

CONSTANTS
    NodeCount,     \* HardwareInfo::getMemoryNodeCount()
    CPUs,          \* compute places
    NodeOf,        \* CPU::_NUMANodeId
    Tasks,         \* tasks that become ready
    MaxBlocks,     \* bound on the times one task blocks and is unblocked
    MaxToggles     \* bound on the enable/disable calls

Nodes == 0 .. NodeCount - 1

ASSUME NodeOf \in [CPUs -> Nodes]

None == -1

VARIABLES
    readyTasks,    \* _readyTasks[node]
    enabledCPUs,   \* _enabledCPUs[node]
    queue,         \* the tasks queued in _NUMANodeScheduler[node]
    enabled,       \* the CPUs that are enabled
    pc,            \* where each CPU is in getReadyTask
    target,        \* node the CPU takes from (own node or steal victim)
    held,          \* task the CPU runs, or took and has not counted yet
    tstate,        \* where each task is
    tnode,         \* node the thread adding the task has chosen
    blocks,        \* times each task has blocked
    toggles        \* enable/disable calls made

vars == <<readyTasks, enabledCPUs, queue, enabled, pc, target, held,
          tstate, tnode, blocks, toggles>>

NoTask == "none"

Init ==
    /\ readyTasks = [n \in Nodes |-> 0]
    /\ enabledCPUs = [n \in Nodes |-> Cardinality({c \in CPUs : NodeOf[c] = n})]
    /\ queue = [n \in Nodes |-> {}]
    /\ enabled = CPUs
    /\ pc = [c \in CPUs |-> "idle"]
    /\ target = [c \in CPUs |-> None]
    /\ held = [c \in CPUs |-> NoTask]
    /\ tstate = [t \in Tasks |-> "new"]
    /\ tnode = [t \in Tasks |-> None]
    /\ blocks = [t \in Tasks |-> 0]
    /\ toggles = 0

----------------------------------------------------------------------------
(* The two scans over the counters.                                        *)

\* addReadyTask: the first node of least load among the nodes with an
\* enabled CPU.
LeastLoaded ==
    LET cand == {n \in Nodes : enabledCPUs[n] > 0}
        best == {n \in cand : \A m \in cand :
                    readyTasks[n] < readyTasks[m]
                    \/ (readyTasks[n] = readyTasks[m] /\ n <= m)}
    IN  CHOOSE n \in best : TRUE

\* getReadyTask: starting from the own node, the first node whose counter
\* is strictly above the highest seen so far.
MostLoaded(own) ==
    LET top == {n \in Nodes : \A m \in Nodes : readyTasks[n] >= readyTasks[m]}
    IN  IF own \in top THEN own ELSE CHOOSE n \in top : \A m \in top : n <= m

----------------------------------------------------------------------------
(* Threads that make a task ready.                                         *)

\* addReadyTask: pick the least-loaded node and count the task in it
\* (lines 50-67).  Some CPU is always enabled, so assert(min_idx != -1)
\* holds.
AddReadyTask(t) ==
    /\ tstate[t] = "new"
    /\ readyTasks' = [readyTasks EXCEPT ![LeastLoaded] = @ + 1]
    /\ tnode' = [tnode EXCEPT ![t] = LeastLoaded]
    /\ tstate' = [tstate EXCEPT ![t] = "adding"]
    /\ UNCHANGED <<enabledCPUs, queue, enabled, pc, target, held, blocks, toggles>>

\* addReadyTask: hand the task to the node's scheduler (line 68).
AddReadyTaskQueue(t) ==
    /\ tstate[t] = "adding"
    /\ queue' = [queue EXCEPT ![tnode[t]] = @ \cup {t}]
    /\ tstate' = [tstate EXCEPT ![t] = "queued"]
    /\ UNCHANGED <<readyTasks, enabledCPUs, enabled, pc, target, held, tnode,
                   blocks, toggles>>

\* taskGetsUnblocked: count the task in the node of the CPU its thread
\* last ran on (lines 87-90) ...
TaskGetsUnblocked(t) ==
    /\ tstate[t] = "blocked"
    /\ readyTasks' = [readyTasks EXCEPT ![tnode[t]] = @ + 1]
    /\ tstate' = [tstate EXCEPT ![t] = "unblocking"]
    /\ UNCHANGED <<enabledCPUs, queue, enabled, pc, target, held, tnode,
                   blocks, toggles>>

\* ... and hand it to that node's scheduler (line 91).
TaskGetsUnblockedQueue(t) ==
    /\ tstate[t] = "unblocking"
    /\ queue' = [queue EXCEPT ![tnode[t]] = @ \cup {t}]
    /\ tstate' = [tstate EXCEPT ![t] = "queued"]
    /\ UNCHANGED <<readyTasks, enabledCPUs, enabled, pc, target, held, tnode,
                   blocks, toggles>>

----------------------------------------------------------------------------
(* getReadyTask, by an enabled compute place with nothing to run.          *)

\* Variant: a CPU whose own node has nothing counted never steals.
GetReadyTaskWithoutSteal(c) ==
    /\ c \in enabled
    /\ pc[c] = "idle"
    /\ readyTasks[NodeOf[c]] > 0
    /\ pc' = [pc EXCEPT ![c] = "own"]
    /\ target' = [target EXCEPT ![c] = NodeOf[c]]
    /\ UNCHANGED <<readyTasks, enabledCPUs, queue, enabled, held, tstate, tnode,
                   blocks, toggles>>

\* Line 100: look at the own node's counter.
GetReadyTask(c) ==
    /\ c \in enabled
    /\ pc[c] = "idle"
    /\ IF readyTasks[NodeOf[c]] > 0
       THEN /\ pc' = [pc EXCEPT ![c] = "own"]
            /\ target' = [target EXCEPT ![c] = NodeOf[c]]
       ELSE /\ pc' = [pc EXCEPT ![c] = "steal"]
            /\ UNCHANGED target
    /\ UNCHANGED <<readyTasks, enabledCPUs, queue, enabled, held, tstate, tnode,
                   blocks, toggles>>

\* Lines 101 and 120: ask the target node's scheduler for a task.  From
\* the own node, none found goes on to the steal; from the victim, none
\* found returns nullptr.
TakeFromNode(c) ==
    /\ pc[c] \in {"own", "take"}
    /\ IF queue[target[c]] # {}
       THEN \E t \in queue[target[c]] :
               /\ queue' = [queue EXCEPT ![target[c]] = @ \ {t}]
               /\ held' = [held EXCEPT ![c] = t]
               /\ tstate' = [tstate EXCEPT ![t] = "taken"]
               /\ pc' = [pc EXCEPT ![c] = "dec"]
       ELSE /\ pc' = [pc EXCEPT ![c] = IF pc[c] = "own" THEN "steal" ELSE "idle"]
            /\ UNCHANGED <<queue, held, tstate>>
    /\ UNCHANGED <<readyTasks, enabledCPUs, enabled, target, tnode, blocks,
                   toggles>>

\* Lines 110-118: choose the most loaded node as the victim.
StealScan(c) ==
    /\ pc[c] = "steal"
    /\ target' = [target EXCEPT ![c] = MostLoaded(NodeOf[c])]
    /\ pc' = [pc EXCEPT ![c] = "take"]
    /\ UNCHANGED <<readyTasks, enabledCPUs, queue, enabled, held, tstate, tnode,
                   blocks, toggles>>

\* Variant: a stolen task uncounted from the thief's own node.
CountTakenFromOwnNode(c) ==
    /\ pc[c] = "dec"
    /\ readyTasks' = [readyTasks EXCEPT ![NodeOf[c]] = @ - 1]
    /\ pc' = [pc EXCEPT ![c] = "run"]
    /\ UNCHANGED <<enabledCPUs, queue, enabled, target, held, tstate, tnode,
                   blocks, toggles>>

\* Lines 104 and 122: uncount the task taken from the target node.
CountTaken(c) ==
    /\ pc[c] = "dec"
    /\ readyTasks' = [readyTasks EXCEPT ![target[c]] = @ - 1]
    /\ pc' = [pc EXCEPT ![c] = "run"]
    /\ UNCHANGED <<enabledCPUs, queue, enabled, target, held, tstate, tnode,
                   blocks, toggles>>

\* The task runs on the CPU, and ends or blocks (at most MaxBlocks times).
RunTask(c) ==
    /\ pc[c] = "run"
    /\ \/ /\ tstate' = [tstate EXCEPT ![held[c]] = "done"]
          /\ UNCHANGED <<tnode, blocks>>
       \/ /\ blocks[held[c]] < MaxBlocks
          /\ tstate' = [tstate EXCEPT ![held[c]] = "blocked"]
          /\ tnode' = [tnode EXCEPT ![held[c]] = NodeOf[c]]
          /\ blocks' = [blocks EXCEPT ![held[c]] = @ + 1]
    /\ held' = [held EXCEPT ![c] = NoTask]
    /\ pc' = [pc EXCEPT ![c] = "idle"]
    /\ UNCHANGED <<readyTasks, enabledCPUs, queue, enabled, target, toggles>>

----------------------------------------------------------------------------
(* Enabling and disabling compute places.  The caller keeps at least one   *)
(* CPU of the process enabled, and disables an idle CPU; the enabled CPUs  *)
(* of the node are then at least one, as line 159 asserts.                 *)

\* disableComputePlace (lines 155-167).
DisableComputePlace(c) ==
    /\ c \in enabled
    /\ pc[c] = "idle"
    /\ Cardinality(enabled) > 1
    /\ toggles < MaxToggles
    /\ enabledCPUs' = [enabledCPUs EXCEPT ![NodeOf[c]] = @ - 1]
    /\ enabled' = enabled \ {c}
    /\ toggles' = toggles + 1
    /\ UNCHANGED <<readyTasks, queue, pc, target, held, tstate, tnode, blocks>>

\* enableComputePlace (lines 169-175).
EnableComputePlace(c) ==
    /\ c \notin enabled
    /\ toggles < MaxToggles
    /\ enabledCPUs' = [enabledCPUs EXCEPT ![NodeOf[c]] = @ + 1]
    /\ enabled' = enabled \cup {c}
    /\ toggles' = toggles + 1
    /\ UNCHANGED <<readyTasks, queue, pc, target, held, tstate, tnode, blocks>>

\* Every task has run to its end.
Terminated ==
    /\ \A t \in Tasks : tstate[t] = "done"
    /\ UNCHANGED vars

Next ==
    \/ \E t \in Tasks : AddReadyTask(t)
    \/ \E t \in Tasks : AddReadyTaskQueue(t)
    \/ \E t \in Tasks : TaskGetsUnblocked(t)
    \/ \E t \in Tasks : TaskGetsUnblockedQueue(t)
    \/ \E c \in CPUs : GetReadyTask(c)
    \/ \E c \in CPUs : TakeFromNode(c)
    \/ \E c \in CPUs : StealScan(c)
    \/ \E c \in CPUs : CountTaken(c)
    \/ \E c \in CPUs : RunTask(c)
    \/ \E c \in CPUs : DisableComputePlace(c)
    \/ \E c \in CPUs : EnableComputePlace(c)
    \/ Terminated

\* A thread inside addReadyTask or taskGetsUnblocked finishes the call; an
\* enabled CPU with nothing to run keeps calling getReadyTask, and a
\* task runs to its end or to its next block.  Enabling and disabling
\* are up to the caller: no fairness.
Fairness ==
    /\ \A t \in Tasks :
          /\ WF_vars(AddReadyTask(t)) /\ WF_vars(AddReadyTaskQueue(t))
          /\ WF_vars(TaskGetsUnblocked(t)) /\ WF_vars(TaskGetsUnblockedQueue(t))
    /\ \A c \in CPUs :
          /\ WF_vars(GetReadyTask(c)) /\ WF_vars(TakeFromNode(c))
          /\ WF_vars(StealScan(c)) /\ WF_vars(CountTaken(c)) /\ WF_vars(RunTask(c))

Spec == Init /\ [][Next]_vars /\ Fairness

----------------------------------------------------------------------------
(* Properties                                                              *)

TypeOK ==
    /\ readyTasks \in [Nodes -> Nat]
    /\ enabledCPUs \in [Nodes -> Nat]
    /\ queue \in [Nodes -> SUBSET Tasks]
    /\ enabled \subseteq CPUs
    /\ pc \in [CPUs -> {"idle", "own", "steal", "take", "dec", "run"}]
    /\ target \in [CPUs -> Nodes \cup {None}]
    /\ held \in [CPUs -> Tasks \cup {NoTask}]
    /\ tstate \in [Tasks -> {"new", "adding", "blocked", "unblocking",
                             "queued", "taken", "done"}]
    /\ tnode \in [Tasks -> Nodes \cup {None}]
    /\ blocks \in [Tasks -> 0 .. MaxBlocks]
    /\ toggles \in 0 .. MaxToggles

\* Whatever the interleaving of adders, unblockers and stealing CPUs, the
\* ready counter of a node is the number of tasks in its queue, plus the
\* tasks a thread has counted in it and not yet queued, plus the tasks a
\* CPU has taken from it and not yet uncounted: never below the queue,
\* never negative.
ReadyCountTracksQueue ==
    \A n \in Nodes :
        readyTasks[n] =
            Cardinality(queue[n])
            + Cardinality({t \in Tasks : tstate[t] \in {"adding", "unblocking"}
                                         /\ tnode[t] = n})
            + Cardinality({c \in CPUs : pc[c] \in {"dec"} /\ target[c] = n})

\* Every task made ready is eventually run to its end, even when it was
\* queued on a node whose CPUs have all been disabled since.
EveryTaskRuns == \A t \in Tasks : <>(tstate[t] = "done")

====
