----------------------- MODULE DataAccessRegistration -----------------------
(***************************************************************************)
(* The linear-regions dependency engine                                    *)
(* (src/src/dependencies/linear-regions-alternative/DataAccessRegistration *)
(* .hpp) driven by the task lifecycle: a running task spawns its children  *)
(* in program order (registerTaskDataAccesses and linkTaskAccesses), a     *)
(* ready task starts, a finished task unregisters its accesses            *)
(* (finalizeAccess, propagateSatisfiability, linkBottomMapAccessesToNext)  *)
(* and a removable task is disposed together with the ancestors it        *)
(* releases (TaskFinalization::disposeOrUnblockTask, handleTaskRemoval).   *)
(*                                                                         *)
(* Every engine entry point runs under the parent's and the task's        *)
(* spinlocks and is one atomic step here.  The recursive walks of the     *)
(* engine are recursive operators over a record W, the "world" they       *)
(* update: the per-task access sets and bottom maps, the counters, the    *)
(* satisfied originators and removable tasks the walk collects in         *)
(* CPUDependencyData, the tasks whose structures it dereferences, and the *)
(* code assertions it violates.                                            *)
(***************************************************************************)
EXTENDS DataAccesses, Sequences, SequencesExt

CONSTANTS
    Tasks,     \* the tasks of the program, Root included
    Root,      \* the main task: never finishes, has no accesses
    ChildSeq,  \* ChildSeq[t]: the children t creates, in program order
    Decls,     \* Decls[t]: the registration calls of t's register_depinfo
    Events,    \* Events[t]: the events t's body adds to its event counter
    TaskwaitAfter  \* TaskwaitAfter[t]: after how many children t's body waits

None == "none"

\* Task::getParent()
ParentOf(t) ==
    IF \E p \in Tasks : \E i \in DOMAIN ChildSeq[p] : ChildSeq[p][i] = t
    THEN CHOOSE p \in Tasks : \E i \in DOMAIN ChildSeq[p] : ChildSeq[p][i] = t
    ELSE None

Children(t) == {ChildSeq[t][i] : i \in DOMAIN ChildSeq[t]}

VARIABLES
    accesses,           \* TaskDataAccesses::_accesses of every task
    bottomMap,          \* TaskDataAccesses::_subaccessBottomMap
    predecessors,       \* Task predecessor count
    removalCountdown,   \* TaskDataAccesses::_removalCountdown
    removalBlocking,    \* Task removal blocking count
    state,              \* where the task is in its lifecycle
    spawned,            \* number of children created so far
    removable,          \* tasks handed to disposeOrUnblockTask, not yet run
    faults,             \* code assertions and memory errors hit so far
    releaseCount,       \* Task release countdown: 1 + outstanding events
    eventsMade,         \* events the task's body has added so far
    eventsDone,         \* events fulfilled so far (nanos6_decrease_...)
    waited              \* the TaskwaitAfter points t has entered so far

engineVars == <<accesses, bottomMap, predecessors, removalCountdown,
                removalBlocking, faults>>

vars == <<accesses, bottomMap, predecessors, removalCountdown,
          removalBlocking, state, spawned, removable, faults,
          releaseCount, eventsMade, eventsDone, waited>>

\* "waitingEvents": the body has returned (hasFinished) but markAsFinished
\* found events outstanding, so the accesses are not yet released.
\* "taskwait": blocked in a taskwait; "resumable": the taskwait is over
\* (or never blocked) and the task is back in the scheduler.
States == {"unborn", "pending", "ready", "running", "waitingEvents",
           "taskwait", "resumable", "finished", "disposed"}

----------------------------------------------------------------------------
(* The world a walk updates, and the small steps every walk shares.        *)

World == [ acc |-> accesses, bm |-> bottomMap, pred |-> predecessors,
           rc |-> removalCountdown, rb |-> removalBlocking,
           sat |-> {}, rem |-> {}, touched |-> {}, faults |-> {},
           disposed |-> {}, unblocked |-> {} ]

\* A violated assert() of the code.
Check(W, cond, tag) == IF cond THEN W ELSE [W EXCEPT !.faults = @ \cup {tag}]

\* The walk dereferences the task's TaskDataAccesses.
Touch(W, t) == [W EXCEPT !.touched = @ \cup {t}]

SetAccess(W, t, old, new) == [W EXCEPT !.acc[t] = (@ \ {old}) \cup {new}]

\* The piece of an access inside q, once fragmented.
Piece(a, q) == WithRegion(a, a.region \cap q)

\* Variant: duplicates never counted as predecessors.
FragmentAccessNotBlocking(W, t, a, q) == [W EXCEPT !.acc[t] = FragmentIn(@, a, q)]

\* fragmentAccess(access, q, structures, considerTaskBlocking = true)
FragmentAccess(W, t, a, q) ==
    [W EXCEPT !.acc[t] = FragmentIn(@, a, q),
              !.pred[t] = @ + BlockingDuplicates(a, q)]

\* Variant: the zero test made on the count before the decrement.
DecreasePredecessorsTestingOld(W, t) ==
    LET W1 == [W EXCEPT !.pred[t] = @ - 1]
    IN  IF W.pred[t] = 0
        THEN [Check(W1, t \notin W.sat, "ready twice") EXCEPT !.sat = @ \cup {t}]
        ELSE W1

\* Task::decreasePredecessors; a zero count pushes a satisfied originator.
DecreasePredecessors(W, t) ==
    LET W1 == [W EXCEPT !.pred[t] = @ - 1]
    IN  IF W1.pred[t] = 0
        THEN [Check(W1, t \notin W.sat, "ready twice") EXCEPT !.sat = @ \cup {t}]
        ELSE W1

\* Task::decreaseRemovalBlockingCount; a zero count pushes a removable task.
DecreaseRemovalBlocking(W, t) ==
    LET W1 == [W EXCEPT !.rb[t] = @ - 1]
    IN  IF W1.rb[t] = 0
        THEN [Check(W1, t \notin W.rem, "removable twice") EXCEPT !.rem = @ \cup {t}]
        ELSE W1

\* Variant: one byte released per access instead of its size.
ReleaseOneByte(W, t, n) ==
    LET W1 == [W EXCEPT !.rc[t] = @ - 1]
    IN  IF W1.rc[t] = 0 THEN DecreaseRemovalBlocking(W1, t) ELSE W1

\* decreaseRemovalCount(bytes), then the task's blocking count at zero.
ReleaseBytes(W, t, n) ==
    LET W1 == [W EXCEPT !.rc[t] = @ - n]
    IN  IF W1.rc[t] = 0 THEN DecreaseRemovalBlocking(W1, t) ELSE W1

\* processIntersecting and friends: visit keys (start addresses) in
\* address order, the lowest first.
ForEach(W, xs, Op(_, _)) ==
    MapThenFoldSet(LAMBDA x, V : Op(V, x), W, LAMBDA x : x, LAMBDA s : Max(s), xs)

Starts(S) == {Min(a.region) : a \in S}

----------------------------------------------------------------------------
(* propagateSatisfiability                                                 *)

RECURSIVE Propagate(_, _, _, _, _, _)

\* The processIntersecting body for the access of nextTask at address x.
PropagateTo(W, task, a, region, nextTask, parental, x) ==
    LET n  == AccessAt(W.acc[nextTask], x)
        e  == EvaluateSatisfiability(a, n, parental)
        rd == e.read /\ ~n.readSatisfied
        wr == e.write /\ ~n.writeSatisfied
        tp == e.topmost
    IN  IF ~rd /\ ~wr /\ ~tp THEN W
        ELSE
        LET q  == region \cap n.region
            \* with the assumption checked at lines 635-638
            W1 == FragmentAccess(Check(W, ~(tp /\ n.topmostSatisfied)
                                          /\ ~(n.complete /\ n.hasSubaccesses /\ n.next # None),
                                       "propagation assumption"),
                                 nextTask, n, q)
            m  == [Piece(n, q) EXCEPT !.readSatisfied    = rd \/ n.readSatisfied,
                                      !.writeSatisfied   = wr \/ n.writeSatisfied,
                                      !.topmostSatisfied = tp]
            W2 == SetAccess(W1, nextTask, Piece(n, q), m)
            W3 == IF m.hasSubaccesses
                  THEN Propagate(W2, nextTask, m, m.region, m.child, TRUE)
                  ELSE W2
            W4 == IF tp THEN ReleaseBytes(W3, nextTask, Size(m.region)) ELSE W3
            W5 == IF ~Satisfied(n) /\ Satisfied(m) /\ ~m.weak
                  THEN DecreasePredecessors(W4, nextTask) ELSE W4
        IN  IF m.next # None
            THEN Propagate(W5, nextTask, m, m.region, m.next, FALSE)
            ELSE W5

Propagate(W, task, a, region, nextTask, parental) ==
    ForEach(Touch(W, nextTask),
            Starts(Intersecting(W.acc[nextTask], region)),
            LAMBDA V, x : PropagateTo(V, task, a, region, nextTask, parental, x))

----------------------------------------------------------------------------
(* linkTaskAccesses and the walk of linkToNotCompletedOrWithoutSubaccesses *)
(* Predecessors over a parent's bottom map.                                *)

\* propagateSatisfiabilityAfterFirstLinking: the counters it decreases
\* report no zero (registration still holds its two predecessors).
PropagateAfterFirstLinking(W, prev, next, n, parental) ==
    LET e  == EvaluateSatisfiability(prev, n, parental)
        m  == [n EXCEPT !.readSatisfied    = e.read,
                        !.writeSatisfied   = e.write,
                        !.topmostSatisfied = e.topmost]
        W1 == SetAccess(W, next, n, m)
        W2 == IF Satisfied(m) /\ ~m.weak THEN [W1 EXCEPT !.pred[next] = @ - 1] ELSE W1
    IN  IF e.topmost THEN [W2 EXCEPT !.rc[next] = @ - Size(m.region)] ELSE W2

\* Variant: a sibling's previous access stays in the bottom map.
LinkKeepingSiblingInBottomMap(W, prevTask, prev, rtp, next) ==
    LET parental == prevTask = ParentOf(next)
        W1 == FragmentAccess(W, prevTask, prev, rtp)
        p  == Piece(prev, rtp)
        n  == AccessAt(W1.acc[next], Min(rtp))
        W2 == FragmentAccess(W1, next, n, rtp)
        p2 == IF parental THEN [p EXCEPT !.child = next, !.hasSubaccesses = TRUE]
              ELSE [p EXCEPT !.next = next]
    IN  PropagateAfterFirstLinking(SetAccess(W2, prevTask, p, p2), p2, next, Piece(n, rtp), parental)

\* linkAndPropagateAfterFirstLinking: fragment both ends to the region and
\* install a child edge (parental) or a next edge.
LinkAndPropagate(W, prevTask, prev, rtp, next) ==
    LET parental == prevTask = ParentOf(next)
        sibling  == ParentOf(prevTask) = ParentOf(next)
        W0 == Check(W, (prev.inBottomMap /\ prev.next = None) \/ parental,
                    "previous not in the bottom map")
        W1 == FragmentAccess(W0, prevTask, prev, rtp)
        p  == Piece(prev, rtp)
        n  == AccessAt(W1.acc[next], Min(rtp))
        W2 == FragmentAccess(Check(W1, n.next = None, "next already linked"), next, n, rtp)
        p2 == IF parental
              THEN [p EXCEPT !.child = next, !.hasSubaccesses = TRUE]
              ELSE [p EXCEPT !.next = next,
                             !.inBottomMap = IF sibling THEN FALSE ELSE p.inBottomMap]
    IN  PropagateAfterFirstLinking(SetAccess(W2, prevTask, p, p2), p2, next, Piece(n, rtp), parental)

\* Variant: a weak local access also drops a predecessor.
LinkMissingWeakToo(W, task, parental, g) ==
    LET n  == AccessAt(W.acc[task], Min(g))
        W1 == FragmentAccess(W, task, n, g)
        m  == [Piece(n, g) EXCEPT !.readSatisfied = TRUE, !.writeSatisfied = TRUE,
                                  !.topmostSatisfied = TRUE]
        W2 == [SetAccess(W1, task, Piece(n, g), m) EXCEPT !.pred[task] = @ - 1]
    IN  [W2 EXCEPT !.rc[task] = @ - Size(m.region)]

\* The missing processor: a gap in the parent's accesses is local to the
\* task and satisfied at once.
LinkMissing(W, task, parental, g) ==
    LET n  == AccessAt(W.acc[task], Min(g))
        W1 == FragmentAccess(Check(W, parental, "missing region of a non-parent"), task, n, g)
        m  == [Piece(n, g) EXCEPT !.readSatisfied = TRUE, !.writeSatisfied = TRUE,
                                  !.topmostSatisfied = TRUE]
        W2 == SetAccess(W1, task, Piece(n, g), m)
        W3 == IF ~m.weak THEN [W2 EXCEPT !.pred[task] = @ - 1] ELSE W2
    IN  [W3 EXCEPT !.rc[task] = @ - Size(m.region)]

\* Variant: the whole entry erased, not only its piece in the region.
EraseWholeBottomMapEntry(W, parent, e, region) == [W EXCEPT !.bm[parent] = @ \ {e}]

\* fragmentBottomMapEntry(entry, region) and erase the piece inside region.
EraseBottomMapEntry(W, parent, e, region) ==
    [W EXCEPT !.bm[parent] =
        (@ \ {e}) \cup {[e EXCEPT !.region = r] : r \in {r \in Pieces(e.region, region) : r \cap region = {}}}]

RECURSIVE LinkToPredecessors(_, _, _, _)

\* The matching processor, for the access of prevTask at address x.
LinkMatching(W, task, region, parent, prevTask, x) ==
    LET prev == AccessAt(W.acc[prevTask], x)
        rtp  == region \cap prev.region
    IN  IF prevTask # ParentOf(task) /\ prev.hasSubaccesses /\ prev.complete
        THEN IF prevTask = parent
             \* the walk would restart on the same parent and region
             THEN Check(W, FALSE, "unbounded recursion")
             ELSE LET W1 == LinkToPredecessors(W, task, rtp, prevTask)
                  IN  IF parent = ParentOf(task)
                      THEN SetAccess(FragmentAccess(W1, prevTask, prev, rtp), prevTask,
                                     Piece(prev, rtp), [Piece(prev, rtp) EXCEPT !.inBottomMap = FALSE])
                      ELSE W1
        ELSE LinkAndPropagate(W, prevTask, prev, rtp, task)

\* A bottom-map entry over the region: the subtask's accesses in it.
LinkHit(W, task, region, parent, e) ==
    LET sub == e.task
        W1  == ForEach(Touch(W, sub), Starts(Intersecting(W.acc[sub], region \cap e.region)),
                       LAMBDA V, x :
                           LET prev == AccessAt(V.acc[sub], x)
                           IN  LinkMatching(Check(V, prev.next = None /\ prev.inBottomMap,
                                                  "bottom-map access already linked"),
                                            task, region, parent, sub, x))
    IN  IF parent = ParentOf(task) THEN EraseBottomMapEntry(W1, parent, e, region) ELSE W1

\* A gap of the bottom map: the parent's own accesses in it, and the bytes
\* the parent has no access for.
LinkGap(W, task, region, parent, g) ==
    LET own     == Intersecting(W.acc[parent], g)
        missing == Components(g \ UNION {a.region : a \in own})
    IN  ForEach(W, Starts(own) \cup {Min(m) : m \in missing},
                LAMBDA V, x :
                    IF \E m \in missing : x \in m
                    THEN LinkMissing(V, task, parent = ParentOf(task),
                                     CHOOSE m \in missing : x \in m)
                    ELSE LinkMatching(V, task, region, parent, parent, x))

\* foreachBottomMapMatchingAndMissingRegion over the parent's bottom map.
LinkToPredecessors(W, task, region, parent) ==
    LET hits == {e \in W.bm[parent] : e.region \cap region # {}}
        gaps == Components(region \ UNION {e.region : e \in hits})
    IN  ForEach(Touch(W, parent),
                {Min(e.region \cap region) : e \in hits} \cup {Min(g) : g \in gaps},
                LAMBDA V, x :
                    IF \E g \in gaps : x \in g
                    THEN LinkGap(V, task, region, parent, CHOOSE g \in gaps : x \in g)
                    ELSE LinkHit(V, task, region, parent,
                                 CHOOSE e \in hits : x \in e.region))

\* replaceAndLinkToNotCompletedOrWithoutSubaccessPredecessors, for the
\* access of the task at address x.
ReplaceAndLink(W, task, x) ==
    LET a  == AccessAt(W.acc[task], x)
        a1 == [a EXCEPT !.inBottomMap = TRUE]
        W1 == SetAccess(W, task, a, a1)
        W2 == IF ~a1.weak THEN [W1 EXCEPT !.pred[task] = @ + 1] ELSE W1
        W3 == LinkToPredecessors(W2, task, a1.region, ParentOf(task))
    IN  [W3 EXCEPT !.bm[ParentOf(task)] = @ \cup {[region |-> a1.region, task |-> task]}]

\* Variant: no removal ticket for the unregistration.
LinkTaskAccessesWithoutTicket(W, task) ==
    IF W.acc[task] = {} THEN W
    ELSE ForEach(W, Starts(W.acc[task]), LAMBDA V, x : ReplaceAndLink(V, task, x))

\* linkTaskAccesses: the removal ticket, then every registered access.
LinkTaskAccesses(W, task) ==
    IF W.acc[task] = {} THEN W
    ELSE ForEach([W EXCEPT !.rc[task] = @ + 1], Starts(W.acc[task]),
                 LAMBDA V, x : ReplaceAndLink(V, task, x))

----------------------------------------------------------------------------
(* unregisterTaskDataAccesses: finalizeAccess and the hand-off of the      *)
(* bottom map to the next task.                                            *)

RECURSIVE LinkBottomMapToNext(_, _, _, _)

\* Variant: a subaccess complete with subaccesses is linked to, not walked
\* through.
LinkSubaccessToNextShallow(W, sub, subregion, next, x) ==
    LET s   == AccessAt(W.acc[sub], x)
        rtp == subregion \cap s.region
        W0  == Check(W, s.next = None /\ s.inBottomMap, "bottom-map access already linked")
        W1  == FragmentAccess(W0, sub, s, rtp)
        p   == [Piece(s, rtp) EXCEPT !.next = next]
    IN  Propagate(SetAccess(W1, sub, Piece(s, rtp), p), sub, p, p.region, next, FALSE)

\* The body for the subtask access at address x of a bottom-map entry.
LinkSubaccessToNext(W, sub, subregion, next, x) ==
    LET s   == AccessAt(W.acc[sub], x)
        rtp == subregion \cap s.region
        W0  == Check(W, s.next = None /\ s.inBottomMap, "bottom-map access already linked")
    IN  IF ~s.hasSubaccesses \/ ~s.complete
        THEN LET W1 == FragmentAccess(W0, sub, s, rtp)
                 p  == [Piece(s, rtp) EXCEPT !.next = next]
             IN  Propagate(SetAccess(W1, sub, Piece(s, rtp), p), sub, p, p.region, next, FALSE)
        ELSE LinkBottomMapToNext(W0, sub, rtp, next)

\* linkBottomMapAccessesToNext
LinkBottomMapToNext(W, task, region, next) ==
    LET hits == {e \in W.bm[task] : e.region \cap region # {}}
    IN  ForEach(W, {Min(e.region \cap region) : e \in hits},
                LAMBDA V, x :
                    LET e   == CHOOSE e \in hits : x \in e.region
                        sub == e.task
                    IN  ForEach(Touch(V, sub), Starts(Intersecting(V.acc[sub], region \cap e.region)),
                                LAMBDA U, y : LinkSubaccessToNext(U, sub, region \cap e.region, next, y)))

\* Variant: no hand-off of the bottom map to the next task.
FinalizeWithoutHandoff(W, task, x) ==
    LET a  == AccessAt(W.acc[task], x)
        a1 == [a EXCEPT !.complete = TRUE]
        W1 == SetAccess(W, task, a, a1)
    IN  IF a.complete THEN W
        ELSE IF a1.next # None /\ (a1.readSatisfied \/ a1.writeSatisfied)
             THEN Propagate(W1, task, a1, a1.region, a1.next, FALSE)
             ELSE W1

\* finalizeAccess, for the access of the finished task at address x.
FinalizeAccess(W, task, x) ==
    LET a       == AccessAt(W.acc[task], x)
        a1      == [a EXCEPT !.complete = TRUE]
        handoff == a1.hasSubaccesses /\ a1.next # None
        W1      == IF handoff
                   THEN LinkBottomMapToNext(SetAccess(W, task, a, a1), task, a1.region, a1.next)
                   ELSE SetAccess(W, task, a, a1)
        a2      == IF handoff THEN [a1 EXCEPT !.next = None] ELSE a1
        W2      == SetAccess(W1, task, a1, a2)
    IN  IF a.complete THEN W
        ELSE IF a2.next # None /\ (a2.readSatisfied \/ a2.writeSatisfied)
             THEN Propagate(W2, task, a2, a2.region, a2.next, FALSE)
             ELSE W2

\* Variant: the ticket of linkTaskAccesses is never given back.
UnregisterKeepingTicket(W, task) ==
    IF W.acc[task] = {} THEN W
    ELSE ForEach(Touch(W, ParentOf(task)), Starts(W.acc[task]),
                 LAMBDA V, x : FinalizeAccess(V, task, x))

\* Variant: the blocking count dropped whatever the countdown.
UnregisterAlwaysUnblocking(W, task) ==
    IF W.acc[task] = {} THEN W
    ELSE LET W1 == ForEach(Touch(W, ParentOf(task)), Starts(W.acc[task]),
                           LAMBDA V, x : FinalizeAccess(V, task, x))
         IN  [W1 EXCEPT !.rc[task] = @ - 1, !.rb[task] = @ - 1]

\* unregisterTaskDataAccesses: finalize every access, then give back the
\* ticket of linkTaskAccesses (the blocking count's zero is not acted on).
UnregisterTaskDataAccesses(W, task) ==
    IF W.acc[task] = {} THEN W
    ELSE LET W1 == ForEach(Touch(W, ParentOf(task)), Starts(W.acc[task]),
                           LAMBDA V, x : FinalizeAccess(V, task, x))
             W2 == [W1 EXCEPT !.rc[task] = @ - 1]
         IN  IF W2.rc[task] = 0 THEN [W2 EXCEPT !.rb[task] = @ - 1] ELSE W2

----------------------------------------------------------------------------
(* handleTaskRemoval and disposeOrUnblockTask                              *)

\* Variant: the parent's pieces keep their subaccesses flag.
RemoveRegionKeepingSubaccesses(W, task, parent, r) ==
    LET W1 == ForEach(W, Starts(Intersecting(W.acc[parent], r)),
                      LAMBDA V, x :
                          LET pa == AccessAt(V.acc[parent], x)
                          IN  SetAccess(FragmentAccess(V, parent, pa, r), parent, Piece(pa, r),
                                        [Piece(pa, r) EXCEPT !.child = None]))
        hits == {e \in W1.bm[parent] : e.region \cap r # {}}
    IN  [W1 EXCEPT !.bm[parent] =
            (@ \ hits) \cup UNION {{[e EXCEPT !.region = q] :
                                      q \in {q \in Pieces(e.region, r) : q \cap r = {}}} : e \in hits}]

\* processRemovedRegionsFromBottomMap for one coalesced region r.
RemoveRegionFromParent(W, task, parent, r) ==
    LET W1 == ForEach(W, Starts(Intersecting(W.acc[parent], r)),
                      LAMBDA V, x :
                          LET pa == AccessAt(V.acc[parent], x)
                              V1 == FragmentAccess(Check(V, pa.child # None /\ pa.hasSubaccesses,
                                                         "parent access without child"),
                                                   parent, pa, r)
                          IN  SetAccess(V1, parent, Piece(pa, r),
                                        [Piece(pa, r) EXCEPT !.child = None, !.hasSubaccesses = FALSE]))
        hits == {e \in W1.bm[parent] : e.region \cap r # {}}
        W2 == Check(W1, \A e \in hits : e.task = task, "bottom-map entry of another task")
    IN  [W2 EXCEPT !.bm[parent] =
            (@ \ hits) \cup UNION {{[e EXCEPT !.region = q] :
                                      q \in {q \in Pieces(e.region, r) : q \cap r = {}}} : e \in hits}]

\* handleTaskRemoval: removeDataAccess on every access, coalescing the
\* regions that were in the parent's bottom map, then the parent's update.
HandleTaskRemoval(W, task) ==
    LET W0      == Check(W, W.rc[task] = 0 /\ W.bm[task] = {}, "removal of a non-removable task")
        removed == Components(UNION {a.region : a \in {b \in W.acc[task] : b.inBottomMap}})
        W1      == Check(W0, \A a \in W.acc[task] : a.complete /\ Satisfied(a),
                         "removal of an unsatisfied access")
    IN  IF W.acc[task] = {} THEN W0
        ELSE ForEach([Touch(W1, ParentOf(task)) EXCEPT !.acc[task] = {}],
                     {Min(r) : r \in removed},
                     LAMBDA V, x : RemoveRegionFromParent(V, task, ParentOf(task),
                                                          CHOOSE r \in removed : x \in r))

RECURSIVE DisposeChainEarly(_, _, _)

\* Variant: the chain goes on with a parent that still has one count.
DisposeChainEarly(W, task, finished) ==
    IF task \in finished
    THEN LET p  == ParentOf(task)
             W1 == [HandleTaskRemoval(Touch(W, task), task) EXCEPT !.rb[p] = @ - 1,
                                                                   !.disposed = @ \cup {task}]
         IN  IF W1.rb[p] <= 1 THEN DisposeChainEarly(W1, p, finished) ELSE W1
    ELSE W

RECURSIVE DisposeChain(_, _, _)

\* disposeOrUnblockTask: dispose a finished task, unlink it from its parent
\* (Task::unlinkFromParent) and go on with the parent while that releases
\* it.  `finished' is the set of tasks whose hasFinished() holds.
DisposeChain(W, task, finished) ==
    IF task \in finished
    THEN LET p  == ParentOf(task)
             W1 == [HandleTaskRemoval(Touch(W, task), task) EXCEPT !.rb[p] = @ - 1,
                                                      !.disposed = @ \cup {task}]
         IN  IF W1.rb[p] = 0 THEN DisposeChain(W1, p, finished) ELSE W1
    \* an ancestor in a taskwait that finishes at this point goes back to
    \* the scheduler (addReadyTask) and the chain stops
    ELSE [W EXCEPT !.unblocked = @ \cup {task}]

----------------------------------------------------------------------------
(* The task lifecycle around the engine.                                   *)

\* register_depinfo: the task's registerTaskDataAccess calls in order.
RECURSIVE RegisterAll(_)
RegisterAll(calls) ==
    IF calls = <<>> THEN [acc |-> {}, bytes |-> 0]
    ELSE LET R == RegisterAll(Front(calls))
             c == Last(calls)
         IN  [acc |-> Register(R.acc, c), bytes |-> R.bytes + RegisteredBytes(R.acc, c)]

Disposed == {t \in Tasks : state[t] = "disposed"}

\* Install the world a step computed; a walk that dereferences a disposed
\* task, readies a task that is not waiting, or hands on a removable task
\* twice is recorded as a fault.
Commit(W) ==
    /\ accesses' = W.acc
    /\ bottomMap' = W.bm
    /\ predecessors' = W.pred
    /\ removalCountdown' = W.rc
    /\ removalBlocking' = W.rb
    /\ faults' = faults \cup W.faults
                 \cup (IF W.touched \cap Disposed # {} THEN {"use after free"} ELSE {})
                 \cup (IF \E t \in W.sat : state[t] # "pending" THEN {"ready twice"} ELSE {})
                 \cup (IF W.rem \cap (removable \cup Disposed) # {}
                       THEN {"removable twice"} ELSE {})
                 \cup (IF \E t \in W.unblocked : state[t] # "taskwait"
                       THEN {"unblock outside a taskwait"} ELSE {})

Init ==
    /\ accesses = [t \in Tasks |-> {}]
    /\ bottomMap = [t \in Tasks |-> {}]
    /\ predecessors = [t \in Tasks |-> 0]
    /\ removalCountdown = [t \in Tasks |-> 0]
    /\ removalBlocking = [t \in Tasks |-> IF t = Root THEN 1 ELSE 0]
    /\ state = [t \in Tasks |-> IF t = Root THEN "running" ELSE "unborn"]
    /\ spawned = [t \in Tasks |-> 0]
    /\ removable = {}
    /\ faults = {}
    /\ releaseCount = [t \in Tasks |-> 1]
    /\ eventsMade = [t \in Tasks |-> 0]
    /\ eventsDone = [t \in Tasks |-> 0]
    /\ waited = [t \in Tasks |-> {}]

\* A running task creates its next child: the task starts with one
\* blocking count of its own and adds one to its parent's (addChild);
\* registerTaskDataAccesses registers its accesses, adds a blocking count
\* and two guard predecessors, links, and drops the guard.
Spawn(p) ==
    /\ state[p] = "running"
    /\ spawned[p] < Len(ChildSeq[p])
    /\ spawned[p] \notin TaskwaitAfter[p] \ waited[p]
    /\ LET c  == ChildSeq[p][spawned[p] + 1]
           R  == RegisterAll(Decls[c])
           W0 == [World EXCEPT !.acc[c]  = R.acc,
                               !.rc[c]   = R.bytes,
                               !.rb[c]   = IF R.acc = {} THEN 1 ELSE 2,
                               !.rb[p]   = @ + 1,
                               !.pred[c] = IF R.acc = {} THEN 0 ELSE 2]
       IN  \E W \in {IF R.acc = {} THEN W0
                     ELSE [LinkTaskAccesses(W0, c) EXCEPT !.pred[c] = @ - 2]} :
               /\ Commit(W)
               /\ state' = [state EXCEPT ![c] = IF W.pred[c] = 0 THEN "ready" ELSE "pending"]
    /\ spawned' = [spawned EXCEPT ![p] = @ + 1]
    /\ UNCHANGED <<removable, releaseCount, eventsMade, eventsDone, waited>>

\* Scheduler::getReadyTask hands the task to a compute place, which runs it.
Start(t) ==
    /\ state[t] = "ready"
    /\ state' = [state EXCEPT ![t] = "running"]
    /\ UNCHANGED <<engineVars, spawned, removable, releaseCount, eventsMade, eventsDone, waited>>

\* Variant: the own blocking count is not dropped (no markAsReleased).
ReleaseTaskWithoutMarkAsReleased(t, nullCP) ==
    \E W \in {UnregisterTaskDataAccesses(World, t)} :
        /\ Commit(W)
        /\ state' = [s \in Tasks |-> IF s = t THEN "finished"
                                     ELSE IF s \in W.sat THEN "ready" ELSE state[s]]
        /\ removable' = removable \cup W.rem

\* The release count reached zero: unregisterTaskDataAccesses, the
\* satisfied originators become ready, and markAsReleased drops the task's
\* own blocking count; a released task goes to disposeOrUnblockTask.  With
\* a null compute place (nullCP), unregistering a task that has accesses
\* dereferences it, and handleTaskRemoval asserts it is not null.
ReleaseTask(t, nullCP) ==
    \E W \in {[UnregisterTaskDataAccesses(World, t) EXCEPT !.rb[t] = @ - 1]} :
        LET released == IF W.rb[t] = 0 THEN {t} ELSE {}
            nullUse  == nullCP /\ (accesses[t] # {} \/ released # {})
        IN  /\ Commit([W EXCEPT !.faults = @ \cup (IF t \in W.rem \cap released
                                                   THEN {"removable twice"} ELSE {})
                                              \cup (IF nullUse THEN {"null compute place"}
                                                   ELSE {})])
            /\ state' = [s \in Tasks |-> IF s = t THEN "finished"
                                         ELSE IF s \in W.sat THEN "ready" ELSE state[s]]
            /\ removable' = removable \cup W.rem \cup released

\* Variant: the accesses are released whatever markAsFinished returns.
FinishIgnoringEvents(t) ==
    /\ t # Root
    /\ state[t] = "running"
    /\ spawned[t] = Len(ChildSeq[t])
    /\ waited[t] = TaskwaitAfter[t]
    /\ releaseCount' = [releaseCount EXCEPT ![t] = @ - 1]
    /\ ReleaseTask(t, FALSE)
    /\ UNCHANGED <<spawned, eventsMade, eventsDone, waited>>

\* The task body returns (after creating all its children): markAsFinished
\* drops one from the release count, and only the call that reaches zero
\* releases the task; otherwise an event still outstanding will.
Finish(t) ==
    /\ t # Root
    /\ state[t] = "running"
    /\ spawned[t] = Len(ChildSeq[t])
    /\ waited[t] = TaskwaitAfter[t]
    /\ releaseCount' = [releaseCount EXCEPT ![t] = @ - 1]
    /\ IF releaseCount[t] = 1
       THEN ReleaseTask(t, FALSE)
       ELSE /\ state' = [state EXCEPT ![t] = "waitingEvents"]
            /\ UNCHANGED <<engineVars, removable>>
    /\ UNCHANGED <<spawned, eventsMade, eventsDone, waited>>

\* nanos6_increase_current_task_event_counter: the running task adds an
\* event to its own release count.
IncreaseEventCounter(t) ==
    /\ state[t] = "running"
    /\ eventsMade[t] < Events[t]
    /\ releaseCount' = [releaseCount EXCEPT ![t] = @ + 1]
    /\ eventsMade' = [eventsMade EXCEPT ![t] = @ + 1]
    /\ UNCHANGED <<engineVars, state, spawned, removable, eventsDone, waited>>

\* Variant: the zero of decreaseReleaseCount is ignored.
DecreaseEventCounterIgnoringZero(t) ==
    /\ eventsDone[t] < eventsMade[t]
    /\ releaseCount' = [releaseCount EXCEPT ![t] = @ - 1]
    /\ eventsDone' = [eventsDone EXCEPT ![t] = @ + 1]
    /\ UNCHANGED <<engineVars, state, removable, spawned, eventsMade, waited>>

\* nanos6_decrease_task_event_counter, from any thread: the call that
\* brings the release count to zero unregisters the accesses and disposes
\* the task, if markAsReleased lets it, with a null compute place.
DecreaseEventCounter(t) ==
    /\ eventsDone[t] < eventsMade[t]
    /\ releaseCount' = [releaseCount EXCEPT ![t] = @ - 1]
    /\ eventsDone' = [eventsDone EXCEPT ![t] = @ + 1]
    /\ IF releaseCount[t] = 1
       THEN ReleaseTask(t, TRUE)
       ELSE UNCHANGED <<engineVars, state, removable>>
    /\ UNCHANGED <<spawned, eventsMade, waited>>

\* processRemovableTasks / markAsReleased: disposeOrUnblockTask.
DisposeOrUnblock(t) ==
    /\ t \in removable
    /\ \E W \in {DisposeChain(World, t, {s \in Tasks : state[s] \in {"waitingEvents", "finished"}})} :
           /\ Commit(W)
           /\ state' = [s \in Tasks |-> IF s \in W.disposed THEN "disposed"
                                        ELSE IF s \in W.unblocked THEN "resumable"
                                        ELSE state[s]]
    /\ removable' = removable \ {t}
    /\ UNCHANGED <<spawned, releaseCount, eventsMade, eventsDone, waited>>

\* TaskDataAccesses::isRemovable: no byte or ticket left in the countdown.
IsRemovable(t) == removalCountdown[t] = 0

\* Variant: the accesses' blocking count dropped even when removable.
EnterTaskwaitIgnoringRemovable(t) ==
    /\ state[t] = "running"
    /\ spawned[t] \in TaskwaitAfter[t] \ waited[t]
    /\ LET rb == removalBlocking[t] - 2
       IN  /\ removalBlocking' = [removalBlocking EXCEPT ![t] = rb]
           /\ state' = [state EXCEPT ![t] = IF rb = 0 THEN "resumable" ELSE "taskwait"]
    /\ waited' = [waited EXCEPT ![t] = @ \cup {spawned[t]}]
    /\ UNCHANGED <<accesses, bottomMap, predecessors, removalCountdown, faults,
                   spawned, removable, releaseCount, eventsMade, eventsDone>>

\* Variant: the task blocks whatever markAsBlocked returns.
EnterTaskwaitAlwaysBlocking(t) ==
    /\ state[t] = "running"
    /\ spawned[t] \in TaskwaitAfter[t] \ waited[t]
    /\ removalBlocking' = [removalBlocking EXCEPT
                              ![t] = @ - (IF IsRemovable(t) THEN 0 ELSE 1) - 1]
    /\ state' = [state EXCEPT ![t] = "taskwait"]
    /\ waited' = [waited EXCEPT ![t] = @ \cup {spawned[t]}]
    /\ UNCHANGED <<accesses, bottomMap, predecessors, removalCountdown, faults,
                   spawned, removable, releaseCount, eventsMade, eventsDone>>

\* A taskwait after the children created so far: handleEnterTaskwait drops
\* the accesses' blocking count unless they are removable, and
\* markAsBlocked drops the task's own; the task blocks unless that was the
\* last count, and the disposal of its last child unblocks it.
EnterTaskwait(t) ==
    /\ state[t] = "running"
    /\ spawned[t] \in TaskwaitAfter[t] \ waited[t]
    /\ LET rb == removalBlocking[t] - (IF IsRemovable(t) THEN 0 ELSE 1) - 1
       IN  /\ removalBlocking' = [removalBlocking EXCEPT ![t] = rb]
           /\ state' = [state EXCEPT ![t] = IF rb = 0 THEN "resumable" ELSE "taskwait"]
    /\ waited' = [waited EXCEPT ![t] = @ \cup {spawned[t]}]
    /\ UNCHANGED <<accesses, bottomMap, predecessors, removalCountdown, faults,
                   spawned, removable, releaseCount, eventsMade, eventsDone>>

\* Variant: markAsUnblocked does not take the own count back.
ExitTaskwaitWithoutMarkAsUnblocked(t) ==
    /\ state[t] = "resumable"
    /\ removalBlocking' = [removalBlocking EXCEPT
                              ![t] = @ + (IF IsRemovable(t) THEN 0 ELSE 1)]
    /\ faults' = faults \cup (IF bottomMap[t] # {} THEN {"taskwait with live children"}
                              ELSE {})
    /\ state' = [state EXCEPT ![t] = "running"]
    /\ UNCHANGED <<accesses, bottomMap, predecessors, removalCountdown, spawned,
                   removable, releaseCount, eventsMade, eventsDone, waited>>

\* The task resumes after its taskwait: handleExitTaskwait asserts that no
\* child is left in the bottom map and takes the accesses' blocking count
\* back unless they are removable, and markAsUnblocked takes its own.
ExitTaskwait(t) ==
    /\ state[t] = "resumable"
    /\ removalBlocking' = [removalBlocking EXCEPT
                              ![t] = @ + (IF IsRemovable(t) THEN 0 ELSE 1) + 1]
    /\ faults' = faults \cup (IF bottomMap[t] # {} THEN {"taskwait with live children"}
                              ELSE {})
    /\ state' = [state EXCEPT ![t] = "running"]
    /\ UNCHANGED <<accesses, bottomMap, predecessors, removalCountdown, spawned,
                   removable, releaseCount, eventsMade, eventsDone, waited>>

\* The program is over: every task but the main one has been disposed.
Terminated ==
    /\ spawned[Root] = Len(ChildSeq[Root])
    /\ state[Root] = "running"
    /\ waited[Root] = TaskwaitAfter[Root]
    /\ \A t \in Tasks \ {Root} : state[t] = "disposed"
    /\ UNCHANGED vars

Next ==
    \/ \E p \in Tasks : Spawn(p)
    \/ \E t \in Tasks : Start(t)
    \/ \E t \in Tasks : Finish(t)
    \/ \E t \in Tasks : IncreaseEventCounter(t)
    \/ \E t \in Tasks : DecreaseEventCounter(t)
    \/ \E t \in Tasks : DisposeOrUnblock(t)
    \/ \E t \in Tasks : EnterTaskwait(t)
    \/ \E t \in Tasks : ExitTaskwait(t)
    \/ Terminated

\* Idle workers take every ready task, a running task's body runs to its
\* end, and the thread that collects a removable task disposes of it.
\* Each action can take its step whenever its guard holds, so its weak
\* fairness is stated by definition, WF_vars(A) as <>[]Guard => []<>Step,
\* with the guard for ENABLED A and the step by the variable it alone
\* changes that way.
SpawnEnabled(p)   == state[p] = "running" /\ spawned[p] < Len(ChildSeq[p])
FinishEnabled(t)  == t # Root /\ state[t] = "running" /\ spawned[t] = Len(ChildSeq[t])

Fairness ==
    \A t \in Tasks :
        /\ <>[]SpawnEnabled(t) => []<><<spawned'[t] = spawned[t] + 1>>_vars
        /\ WF_vars(Start(t))
        /\ <>[]FinishEnabled(t) => []<><<state'[t] \in {"waitingEvents", "finished"}>>_vars
        /\ <>[](eventsDone[t] < eventsMade[t]) => []<><<eventsDone'[t] = eventsDone[t] + 1>>_vars
        /\ <>[](t \in removable) => []<><<t \notin removable'>>_vars
        /\ WF_vars(EnterTaskwait(t))
        /\ WF_vars(ExitTaskwait(t))

Spec == Init /\ [][Next]_vars /\ Fairness

----------------------------------------------------------------------------
(* Reference: the sequential program.  Run one task at a time, children    *)
(* where they are created, and the tasks run in preorder of the task tree. *)

RECURSIVE Preorder(_)
Preorder(t) ==
    <<t>> \o FlattenSeq([i \in DOMAIN ChildSeq[t] |-> Preorder(ChildSeq[t][i])])

ProgramOrder == Preorder(Root)

Position(t) == CHOOSE i \in DOMAIN ProgramOrder : ProgramOrder[i] = t

RECURSIVE IsAncestor(_, _)
IsAncestor(a, t) == ParentOf(t) # None /\ (ParentOf(t) = a \/ IsAncestor(a, ParentOf(t)))

\* The accesses a task registers.
Declared(t) == RegisterAll(Decls[t]).acc

\* A later task u must wait for an earlier task t when they touch a byte
\* that u declares strong, not both reading and not in one group.  A weak
\* access of t still orders u: it completes only when t finishes.
Orders(t, u) ==
    \E a \in Declared(t), b \in Declared(u) :
        /\ ~b.weak
        /\ a.region \cap b.region # {}
        /\ ~(a.type = READ /\ b.type = READ)
        /\ ~SameGroup(a, b)

\* The pairs <<t, u>> where u must wait for t in the program.
OrderedDependences ==
    {p \in (Tasks \ {Root}) \X (Tasks \ {Root}) :
        /\ Position(p[1]) < Position(p[2])
        /\ ~IsAncestor(p[1], p[2])
        /\ Orders(p[1], p[2])}

Live    == {"pending", "ready", "running", "waitingEvents", "taskwait", "resumable",
            "finished"}

\* The task is between handleEnterTaskwait and handleExitTaskwait.
InTaskwait(t) == state[t] \in {"taskwait", "resumable"}

\* The children t has created so far.
SpawnedChildren(t) == {ChildSeq[t][i] : i \in 1..spawned[t]}

\* The task's body has finished and every event it added is fulfilled.
Released(t) == state[t] \in {"finished", "disposed"} /\ releaseCount[t] = 0

----------------------------------------------------------------------------
(* Properties                                                              *)

AccessRecords ==
    [type : AccessTypes, weak : BOOLEAN, region : SUBSET Nat,
     reductionInfo : Nat, readSatisfied : BOOLEAN, writeSatisfied : BOOLEAN,
     topmostSatisfied : BOOLEAN, complete : BOOLEAN, hasSubaccesses : BOOLEAN,
     inBottomMap : BOOLEAN, next : Tasks \cup {None}, child : Tasks \cup {None}]

TypeOK ==
    /\ \A t \in Tasks : accesses[t] \subseteq AccessRecords
    /\ \A t \in Tasks : \A e \in bottomMap[t] : e.task \in Tasks /\ IsRegion(e.region)
    /\ predecessors \in [Tasks -> Nat]
    /\ removalCountdown \in [Tasks -> Nat]
    /\ removalBlocking \in [Tasks -> Nat]
    /\ state \in [Tasks -> States]
    /\ spawned \in [Tasks -> Nat]
    /\ removable \subseteq Tasks
    /\ releaseCount \in [Tasks -> Nat]
    /\ eventsMade \in [Tasks -> Nat]
    /\ eventsDone \in [Tasks -> Nat]
    /\ waited \in [Tasks -> SUBSET Nat]

\* The engine orders no more than the program does: a task is pending
\* (predecessor count above zero after linkTaskAccesses) only while some
\* earlier task it must wait for has not finished.  A read after a read,
\* a member of the same concurrent or reduction group, or the untouched
\* fragment of a predecessor's access never holds a task back.
NoFalseDependency ==
    \A t \in Tasks \ {Root} : state[t] = "pending" =>
        \E p \in OrderedDependences :
            p[2] = t /\ ~Released(p[1])

\* The predecessor count of every live task equals the number of its
\* strong accesses that are not yet satisfied, however they have been
\* fragmented (duplicateDataAccess adds one per duplicate), and the task
\* waits for its dependencies exactly while that count is not zero.
PredecessorAccounting ==
    \A t \in Tasks \ {Root} : state[t] \in Live =>
        /\ predecessors[t] = Cardinality({a \in accesses[t] : ~a.weak /\ ~Satisfied(a)})
        /\ (state[t] = "pending") <=> predecessors[t] > 0

\* The removal countdown counts every byte not yet topmost-satisfied plus
\* the unregistration ticket; the removal blocking count is one for the
\* unreleased task, one while its accesses are not removable, and one per
\* child not yet disposed, where a task in a taskwait lends its own and
\* its accesses' counts; a task is handed to disposeOrUnblockTask exactly
\* when that count is zero, and a task in a taskwait is resumed exactly
\* when it is.
RemovalAccounting ==
    \A t \in Tasks : state[t] \in Live =>
        /\ removalCountdown[t] =
               Size(UNION {a.region : a \in {b \in accesses[t] : ~b.topmostSatisfied}})
               + (IF accesses[t] # {} /\ state[t] # "finished" THEN 1 ELSE 0)
        /\ removalBlocking[t] =
               Cardinality({c \in Children(t) : state[c] \in Live})
               + (IF state[t] # "finished" /\ ~InTaskwait(t) THEN 1 ELSE 0)
               + (IF accesses[t] # {} /\ removalCountdown[t] > 0 /\ ~InTaskwait(t)
                  THEN 1 ELSE 0)
        /\ (t \in removable) <=> removalBlocking[t] = 0 /\ ~InTaskwait(t)
        /\ InTaskwait(t) => (state[t] = "resumable" <=> removalBlocking[t] = 0)

\* A taskwait ends only after every child created before it has been
\* disposed, however the children's finalization (their dispose chains,
\* event fulfilment, unregistration) interleaves with handleEnterTaskwait
\* and markAsBlocked: the task is resumed by the disposal of its last
\* child, or does not block when none is left.
TaskwaitWaitsForChildren ==
    \A t \in Tasks : state[t] = "resumable" =>
        \A c \in SpawnedChildren(t) : state[c] = "disposed"

\* The entries of a task's subaccess bottom map are disjoint and name live
\* children, and inside the task's own accesses they cover exactly the
\* pieces that have subaccesses (else a later link walks an uncovered gap
\* of a completed access and the recursion of linkToNotCompleted...
\* Predecessors does not end).
BottomMapConsistent ==
    \A t \in Tasks : state[t] \in Live =>
        /\ \A e, f \in bottomMap[t] : e # f => e.region \cap f.region = {}
        /\ \A e \in bottomMap[t] : e.task \in Children(t) /\ state[e.task] \in Live
        /\ t # Root =>
              UNION {e.region : e \in bottomMap[t]} \cap UNION {a.region : a \in accesses[t]}
                  = UNION {a.region : a \in {b \in accesses[t] : b.hasSubaccesses}}

\* No walk of the engine (propagation along next and child edges, the
\* bottom-map walks of linking and finalization, the parent update of
\* handleTaskRemoval, the dispose chain) dereferences a disposed task.
NoUseAfterFree == "use after free" \notin faults

\* No assert() of DataAccessRegistration.hpp or TaskFinalization fails,
\* a task is pushed to the satisfied originators only while it waits for
\* its dependencies, and to the removable tasks only once.  The assumption
\* of propagateSatisfiability at lines 645-646, that an access topmost
\* satisfied is read and write satisfied, is checked on every access.
AssertionsHold ==
    /\ faults \subseteq {"use after free"}
    /\ \A t \in Tasks : \A a \in accesses[t] :
           a.topmostSatisfied => a.readSatisfied /\ a.writeSatisfied

\* The engine's task states seen through the abstract TaskOrder: a task
\* waiting for its dependencies or for a CPU is created, one in a taskwait
\* is still running, one whose body has returned is released once its
\* release count is zero and has ended until then.
TaskPhase ==
    [t \in Tasks |->
        CASE state[t] = "unborn"                              -> "unborn"
          [] state[t] \in {"pending", "ready"}                 -> "created"
          [] state[t] \in {"running", "taskwait", "resumable"} -> "running"
          [] OTHER -> IF Released(t) THEN "released" ELSE "ended"]

Order == INSTANCE TaskOrder WITH phase <- TaskPhase, MustWait <- OrderedDependences

\* The engine implements TaskOrder: every step of it (creation with
\* linking, start, finish, event fulfilment, taskwait, disposal) is a
\* step of TaskOrder or leaves the task phases unchanged.  Children are
\* created in program order by their running parent, a task starts only
\* after every earlier task it must wait for is released (one that
\* conflicts with it, or whose weak access covers data it uses strongly),
\* and no task ever goes back in its lifecycle.
ImplementsTaskOrder == Order!Spec

\* Every task that is created is eventually disposed.
EveryTaskDisposed == <>(\A t \in Tasks \ {Root} : state[t] = "disposed")

=============================================================================
