----------------------------- MODULE AccessLocks -----------------------------
(***************************************************************************)
(* The spinlocks of the linear-regions dependency engine                  *)
(* (src/src/dependencies/linear-regions-alternative/                       *)
(* DataAccessRegistration.hpp): which TaskDataAccesses locks the linking  *)
(* of a new task (linkTaskAccesses) and the finalization of a finished    *)
(* task (unregisterTaskDataAccesses) and its removal (handleTaskRemoval)   *)
(* take, in which order, and what they write while holding them.          *)
(*                                                                         *)
(* Every task is a thread: its body links its children in program order  *)
(* (registerTaskDataAccesses) and, unless it is the root, finalizes its   *)
(* own accesses when it ends and removes them once its children are      *)
(* removed (disposeOrUnblockTask, run by whichever thread makes the task  *)
(* removable, holds no lock when it calls handleTaskRemoval).  A thread starts once it is linked and all  *)
(* its accesses are satisfied.  Each region is one address; an access is *)
(* strong and its read and write satisfiability are one bit.  Every lock  *)
(* acquisition, tryLock and unlock is a step of its own, so the walks of  *)
(* several threads interleave at every point where the code can be       *)
(* preempted between two locks.  Counters, topmost bits and the removal   *)
(* counts are left to DataAccessRegistration.                              *)
(***************************************************************************)
EXTENDS Naturals, Sequences, SequencesExt, FiniteSets

CONSTANTS
    Tasks,      \* the tasks; each one runs its body on a thread of its own
    Root,       \* the main task, running from the start, without accesses
    ChildSeq,   \* ChildSeq[t]: the children t creates, in program order
    Acc,        \* Acc[t]: the addresses t accesses
    NoOne,      \* no task: an unowned lock, an empty pointer
    Precedes    \* the relation MustPrecede below, given as a value

Parent == [c \in Tasks \ {Root} |-> CHOOSE p \in Tasks : \E i \in DOMAIN ChildSeq[p] : ChildSeq[p][i] = c]

Regions == UNION {Acc[t] : t \in Tasks}

\* A thread's body: link each child, then (not the root) finalize and
\* remove itself.
Prog(t) ==
    [i \in DOMAIN ChildSeq[t] |-> [kind |-> "link", task |-> ChildSeq[t][i]]]
    \o (IF t = Root THEN <<>>
        ELSE <<[kind |-> "fin", task |-> t], [kind |-> "rem", task |-> t]>>)

VARIABLES
    owner,     \* owner[x]: the thread holding x's TaskDataAccesses::_lock
    bm,        \* bm[x][r]: the child of x in x's _subaccessBottomMap at r
    child,     \* child[x][r]: _child of x's access at r (hasSubaccesses)
    next,      \* next[x][r]: _next of x's access at r
    complete,  \* complete[x][r]: x's access at r is complete
    sat,       \* sat[x][r]: x's access at r is read and write satisfied
    linked,    \* the tasks whose linkTaskAccesses has returned
    removed,   \* the tasks whose accesses handleTaskRemoval has deleted
    ctl,       \* ctl[t]: thread t's program counter, program and walk state
    actor      \* the thread that took the last step

vars == <<owner, bm, child, next, complete, sat, linked, removed, ctl, actor>>

None == [r \in Regions |-> NoOne]

Init ==
    /\ owner = [x \in Tasks |-> NoOne]
    /\ bm = [x \in Tasks |-> None]
    /\ child = [x \in Tasks |-> None]
    /\ next = [x \in Tasks |-> None]
    /\ complete = [x \in Tasks |-> [r \in Regions |-> FALSE]]
    /\ sat = [x \in Tasks |-> [r \in Regions |-> FALSE]]
    /\ linked = {}
    /\ removed = {}
    /\ ctl = [t \in Tasks |-> [pc |-> "idle", ops |-> Prog(t), regs |-> <<>>,
                               stk |-> <<>>, want |-> NoOne, src |-> NoOne,
                               par |-> FALSE, prop |-> <<>>, ret |-> "idle"]]
    /\ actor = NoOne

----------------------------------------------------------------------------
(* Helpers over thread t's current operation                               *)

Op(t)   == Head(ctl[t].ops)
Tsk(t)  == Op(t).task
Par(t)  == Parent[Tsk(t)]
Reg(t)  == Head(ctl[t].regs)
Free(x) == owner[x] = NoOne

\* The structure whose bottom map the walk is at: the parent, or the finished
\* task for linkBottomMapAccessesToNext, below them the last subtask entered.
Base(t) ==
    IF ctl[t].stk # <<>> THEN Last(ctl[t].stk)
    ELSE IF Op(t).kind = "link" THEN Par(t) ELSE Tsk(t)

\* A complete access with subaccesses is walked through, not linked to.
Through(x, r) == complete[x][r] /\ child[x][r] # NoOne

Set(f, x, r, v) == [f EXCEPT ![x][r] = v]

Go(t, pc)        == ctl' = [ctl EXCEPT ![t].pc = pc]
Acquire(t, x)    == Free(x) /\ owner' = [owner EXCEPT ![x] = t]
Release(t, xs)   == owner' = [x \in Tasks |-> IF x \in xs THEN NoOne ELSE owner[x]]
Acting(t)        == actor' = t

Ready(t) == t = Root \/ (t \in linked /\ \A r \in Acc[t] : sat[t][r])

\* A finished task becomes removable when its children have been removed.
Removable(t) == \A c \in ToSet(ChildSeq[t]) : ctl[c].ops = <<>>

----------------------------------------------------------------------------
(* Thread steps                                                            *)

\* The body reaches its next operation; with no accesses both
\* linkTaskAccesses (line 1046), unregisterTaskDataAccesses (line 1264) and
\* handleTaskRemoval (line 1387) return at once.
Begin(t) ==
    /\ ctl[t].pc = "idle"
    /\ ctl[t].ops # <<>>
    /\ ctl[t].ops # Prog(t) \/ Ready(t)
    /\ Op(t).kind = "rem" => Removable(t)
    /\ IF Acc[Tsk(t)] = {}
       THEN /\ ctl' = [ctl EXCEPT ![t].ops = Tail(@)]
            /\ linked' = IF Op(t).kind = "link" THEN linked \cup {Tsk(t)} ELSE linked
       ELSE /\ ctl' = [ctl EXCEPT ![t].pc = "lock_parent",
                                   ![t].regs = SetToSortSeq(Acc[Tsk(t)], <)]
            /\ UNCHANGED linked
    /\ Acting(t)
    /\ UNCHANGED <<owner, bm, child, next, complete, sat, removed>>

\* parentGuard, then guard (lines 1081-1082, 1284-1285 and 1405-1406).
LockParent(t) ==
    /\ ctl[t].pc = "lock_parent"
    /\ Acquire(t, Par(t))
    /\ Go(t, "lock_self")
    /\ Acting(t)
    /\ UNCHANGED <<bm, child, next, complete, sat, linked, removed>>

LockSelf(t) ==
    /\ ctl[t].pc = "lock_self"
    /\ Acquire(t, Tsk(t))
    /\ Go(t, CASE Op(t).kind = "link" -> "link_visit"
                [] Op(t).kind = "fin"  -> "fin_access"
                [] Op(t).kind = "rem"  -> "rem_access")
    /\ Acting(t)
    /\ UNCHANGED <<bm, child, next, complete, sat, linked, removed>>

\* Variant: a write access is satisfied as soon as its predecessor is.
SatisfiabilityIgnoringComplete(x, r, parental) == sat[x][r]

\* evaluateSatisfiability (lines 514-560) for write accesses.
Satisfiability(x, r, parental) == sat[x][r] /\ (complete[x][r] \/ parental)

\* linkAndPropagateAfterFirstLinking (lines 701-769) for the new task n
\* behind x at r: x's _child (parental) or _next becomes n, and
\* propagateSatisfiabilityAfterFirstLinking writes n's access.
LinkBehind(x, n, r) ==
    LET parental == x = Parent[n]
    IN  /\ child' = IF parental THEN Set(child, x, r, n) ELSE child
        /\ next' = IF parental THEN next ELSE Set(next, x, r, n)
        /\ sat' = Set(sat, n, r, Satisfiability(x, r, parental))

\* Variant: waits for the subtask still holding the new task's lock.
LinkVisitWithoutUnlock(t) ==
    /\ ctl[t].pc = "link_visit"
    /\ IF ctl[t].regs = <<>>
       THEN /\ Release(t, {Tsk(t), Par(t)})
            /\ linked' = linked \cup {Tsk(t)}
            /\ ctl' = [ctl EXCEPT ![t].pc = "idle", ![t].ops = Tail(@)]
            /\ UNCHANGED <<child, next, sat>>
       ELSE LET r == Reg(t)
                e == bm[Base(t)][r]
            IN  \/ /\ e # NoOne
                   /\ Acquire(t, e)
                   /\ ctl' = [ctl EXCEPT ![t].pc = "link_match", ![t].stk = Append(@, e)]
                   /\ UNCHANGED <<child, next, sat>>
                \/ /\ e # NoOne
                   /\ ~Free(e)
                   /\ ctl' = [ctl EXCEPT ![t].pc = "link_wait_sub", ![t].want = e]
                   /\ UNCHANGED <<owner, child, next, sat>>
                \/ /\ e = NoOne
                   /\ IF r \in Acc[Base(t)]
                      THEN LinkBehind(Base(t), Tsk(t), r)
                      ELSE /\ sat' = Set(sat, Tsk(t), r, TRUE)
                           /\ UNCHANGED <<child, next>>
                   /\ Go(t, "link_unwind")
                   /\ UNCHANGED owner
            /\ UNCHANGED linked
    /\ Acting(t)
    /\ UNCHANGED <<bm, complete, removed>>

\* processAll over the new task's accesses (line 1094): the next address is
\* walked from the parent's bottom map.  The bottom-map entry is entered
\* with tryLock (line 398); when it fails the walk drops the new task's lock
\* and waits for the subtask's.  An address missing from the bottom map is
\* linked to the parent's access (no bottom-map entry, lines 938-943) or,
\* missing there too, is local and satisfied (lines 988-1031).  With every address done, the
\* lock guards go out of scope.
LinkVisit(t) ==
    /\ ctl[t].pc = "link_visit"
    /\ IF ctl[t].regs = <<>>
       THEN /\ Release(t, {Tsk(t), Par(t)})
            /\ linked' = linked \cup {Tsk(t)}
            /\ ctl' = [ctl EXCEPT ![t].pc = "idle", ![t].ops = Tail(@)]
            /\ UNCHANGED <<child, next, sat>>
       ELSE LET r == Reg(t)
                e == bm[Base(t)][r]
            IN  \/ /\ e # NoOne
                   /\ Acquire(t, e)
                   /\ ctl' = [ctl EXCEPT ![t].pc = "link_match", ![t].stk = Append(@, e)]
                   /\ UNCHANGED <<child, next, sat>>
                \/ /\ e # NoOne
                   /\ ~Free(e)
                   /\ Release(t, {Tsk(t)})
                   /\ ctl' = [ctl EXCEPT ![t].pc = "link_wait_sub", ![t].want = e]
                   /\ UNCHANGED <<child, next, sat>>
                \/ /\ e = NoOne
                   /\ IF r \in Acc[Base(t)]
                      THEN LinkBehind(Base(t), Tsk(t), r)
                      ELSE /\ sat' = Set(sat, Tsk(t), r, TRUE)
                           /\ UNCHANGED <<child, next>>
                   /\ Go(t, "link_unwind")
                   /\ UNCHANGED owner
            /\ UNCHANGED linked
    /\ Acting(t)
    /\ UNCHANGED <<bm, complete, removed>>

\* Variant: goes on after the wait without retaking the new task's lock.
LinkWaitSubWithoutRelock(t) ==
    /\ ctl[t].pc = "link_wait_sub"
    /\ Acquire(t, ctl[t].want)
    /\ ctl' = [ctl EXCEPT ![t].pc = "link_match", ![t].stk = Append(@, ctl[t].want)]
    /\ Acting(t)
    /\ UNCHANGED <<bm, child, next, complete, sat, linked, removed>>

\* Line 400: wait for the subtask's lock with the new task's released.
LinkWaitSub(t) ==
    /\ ctl[t].pc = "link_wait_sub"
    /\ Acquire(t, ctl[t].want)
    /\ Go(t, "link_relock")
    /\ Acting(t)
    /\ UNCHANGED <<bm, child, next, complete, sat, linked, removed>>

\* Line 401: retake the new task's lock, then go on as after the tryLock.
LinkRelock(t) ==
    /\ ctl[t].pc = "link_relock"
    /\ Acquire(t, Tsk(t))
    /\ ctl' = [ctl EXCEPT ![t].pc = "link_match", ![t].stk = Append(@, ctl[t].want)]
    /\ Acting(t)
    /\ UNCHANGED <<bm, child, next, complete, sat, linked, removed>>

\* The subtask's access at the address (lines 406-416, 911-990): walked
\* through, with its lock kept, when complete with subaccesses (line 953);
\* otherwise the new task is linked behind it.
LinkMatch(t) ==
    /\ ctl[t].pc = "link_match"
    /\ LET e == Last(ctl[t].stk)
           r == Reg(t)
       IN  IF Through(e, r)
           THEN /\ Go(t, "link_visit")
                /\ UNCHANGED <<child, next, sat>>
           ELSE /\ LinkBehind(e, Tsk(t), r)
                /\ Go(t, "link_unwind")
    /\ Acting(t)
    /\ UNCHANGED <<owner, bm, complete, linked, removed>>

\* Back out of the walk: each subtask entered is unlocked (line 420); at the
\* parent, the new task takes the bottom-map entry (lines 424-428, 886-888).
LinkUnwind(t) ==
    /\ ctl[t].pc = "link_unwind"
    /\ IF ctl[t].stk # <<>>
       THEN /\ Release(t, {Last(ctl[t].stk)})
            /\ ctl' = [ctl EXCEPT ![t].stk = Front(@)]
            /\ UNCHANGED bm
       ELSE /\ bm' = Set(bm, Par(t), Reg(t), Tsk(t))
            /\ ctl' = [ctl EXCEPT ![t].pc = "link_visit", ![t].regs = Tail(@)]
            /\ UNCHANGED owner
    /\ Acting(t)
    /\ UNCHANGED <<child, next, complete, sat, linked, removed>>

\* finalizeAccess (lines 1118-1160): the access becomes complete.  With
\* subaccesses and a next, its bottom-map subaccesses are linked to the
\* next; with a next only, satisfiability is propagated to it.  With every
\* access done, the lock guards go out of scope (line 1300).
FinAccess(t) ==
    /\ ctl[t].pc = "fin_access"
    /\ IF ctl[t].regs = <<>>
       THEN /\ Release(t, {Tsk(t), Par(t)})
            /\ ctl' = [ctl EXCEPT ![t].pc = "idle", ![t].ops = Tail(@)]
            /\ UNCHANGED complete
       ELSE LET x == Tsk(t)
                r == Reg(t)
            IN  /\ complete' = Set(complete, x, r, TRUE)
                /\ ctl' = CASE child[x][r] # NoOne /\ next[x][r] # NoOne ->
                                  [ctl EXCEPT ![t].pc = "fin_sub"]
                            [] child[x][r] = NoOne /\ next[x][r] # NoOne /\ sat[x][r] ->
                                  [ctl EXCEPT ![t].pc = "prop_lock", ![t].want = next[x][r],
                                              ![t].src = x, ![t].par = FALSE, ![t].ret = "fin_next"]
                            [] OTHER -> [ctl EXCEPT ![t].regs = Tail(@)]
                /\ UNCHANGED owner
    /\ Acting(t)
    /\ UNCHANGED <<bm, child, next, sat, linked, removed>>

\* After the propagation, on to the next access.
FinNext(t) ==
    /\ ctl[t].pc = "fin_next"
    /\ ctl' = [ctl EXCEPT ![t].pc = "fin_access", ![t].regs = Tail(@)]
    /\ Acting(t)
    /\ UNCHANGED <<owner, bm, child, next, complete, sat, linked, removed>>

\* linkBottomMapAccessesToNext (lines 772-855): the bottom-map subtask is
\* locked with a plain lock (line 798), the finished task's lock held.
FinSub(t) ==
    /\ ctl[t].pc = "fin_sub"
    /\ LET c == bm[Base(t)][Reg(t)]
       IN  IF c # NoOne
           THEN /\ Acquire(t, c)
                /\ ctl' = [ctl EXCEPT ![t].pc = "fin_sub_match", ![t].stk = Append(@, c)]
           ELSE /\ Go(t, "fin_sub_unwind")
                /\ UNCHANGED owner
    /\ Acting(t)
    /\ UNCHANGED <<bm, child, next, complete, sat, linked, removed>>

\* Lines 818-843: a subaccess complete with subaccesses is walked through;
\* any other one takes the next and is propagated from.
FinSubMatch(t) ==
    /\ ctl[t].pc = "fin_sub_match"
    /\ LET c  == Last(ctl[t].stk)
           r  == Reg(t)
           nx == next[Tsk(t)][r]
       IN  IF Through(c, r)
           THEN /\ Go(t, "fin_sub")
                /\ UNCHANGED next
           ELSE /\ next' = Set(next, c, r, nx)
                /\ ctl' = [ctl EXCEPT ![t].pc = "prop_lock", ![t].want = nx, ![t].src = c,
                                      ![t].par = FALSE, ![t].ret = "fin_sub_unwind"]
    /\ Acting(t)
    /\ UNCHANGED <<owner, bm, child, complete, sat, linked, removed>>

\* Variant: leaves the subtask locked.
FinSubUnwindWithoutUnlock(t) ==
    /\ ctl[t].pc = "fin_sub_unwind"
    /\ IF ctl[t].stk # <<>>
       THEN /\ ctl' = [ctl EXCEPT ![t].stk = Front(@)]
            /\ UNCHANGED next
       ELSE /\ next' = Set(next, Tsk(t), Reg(t), NoOne)
            /\ ctl' = [ctl EXCEPT ![t].pc = "fin_access", ![t].regs = Tail(@)]
    /\ Acting(t)
    /\ UNCHANGED <<owner, bm, child, complete, sat, linked, removed>>

\* Each subtask entered is unlocked (line 850); then the finished access
\* drops its next (line 1146).
FinSubUnwind(t) ==
    /\ ctl[t].pc = "fin_sub_unwind"
    /\ IF ctl[t].stk # <<>>
       THEN /\ Release(t, {Last(ctl[t].stk)})
            /\ ctl' = [ctl EXCEPT ![t].stk = Front(@)]
            /\ UNCHANGED next
       ELSE /\ next' = Set(next, Tsk(t), Reg(t), NoOne)
            /\ ctl' = [ctl EXCEPT ![t].pc = "fin_access", ![t].regs = Tail(@)]
            /\ UNCHANGED owner
    /\ Acting(t)
    /\ UNCHANGED <<bm, child, complete, sat, linked, removed>>

----------------------------------------------------------------------------
(* handleTaskRemoval (lines 1374-1425)                                     *)

\* The addresses at which the removed task x is in its parent's bottom map
\* (DataAccess::isInBottomMap), collected by removeDataAccess (lines
\* 147-163) into _removedRegionsFromBottomMap.
InBottomMap(x) == {r \in Acc[x] : bm[Parent[x]][r] = x}

\* Variant: deletes the accesses without processRemovedRegionsFromBottomMap.
RemoveAccessesKeepingBottomMap(t) ==
    /\ ctl[t].pc = "rem_access"
    /\ removed' = removed \cup {Tsk(t)}
    /\ Release(t, {Tsk(t), Par(t)})
    /\ ctl' = [ctl EXCEPT ![t].pc = "idle", ![t].ops = Tail(@)]
    /\ Acting(t)
    /\ UNCHANGED <<bm, child, next, complete, sat, linked>>

\* Lines 305-364: at the collected addresses the parent's accesses lose
\* their _child and the parent's bottom-map entries are erased.
ProcessRemovedRegionsFromBottomMap(x) ==
    LET p    == Parent[x]
        gone == InBottomMap(x)
    IN  /\ child' = [child EXCEPT ![p] = [r \in Regions |->
                        IF r \in gone /\ r \in Acc[p] THEN NoOne ELSE child[p][r]]]
        /\ bm' = [bm EXCEPT ![p] = [r \in Regions |->
                     IF r \in gone THEN NoOne ELSE bm[p][r]]]

\* With both locks held, deleteAll removes every access of the task (lines
\* 1408-1417) and the parent's structures are updated; then the guards go
\* out of scope.
RemoveAccesses(t) ==
    /\ ctl[t].pc = "rem_access"
    /\ ProcessRemovedRegionsFromBottomMap(Tsk(t))
    /\ removed' = removed \cup {Tsk(t)}
    /\ Release(t, {Tsk(t), Par(t)})
    /\ ctl' = [ctl EXCEPT ![t].pc = "idle", ![t].ops = Tail(@)]
    /\ Acting(t)
    /\ UNCHANGED <<next, complete, sat, linked>>

----------------------------------------------------------------------------
(* propagateSatisfiability (lines 567-698)                                 *)

\* Line 579: lock the task propagated to.
PropLock(t) ==
    /\ ctl[t].pc = "prop_lock"
    /\ Acquire(t, ctl[t].want)
    /\ ctl' = [ctl EXCEPT ![t].pc = "prop_eval",
                          ![t].prop = Append(@, [task |-> ctl[t].want, src |-> ctl[t].src,
                                                 par |-> ctl[t].par, todo |-> <<>>])]
    /\ Acting(t)
    /\ UNCHANGED <<bm, child, next, complete, sat, linked, removed>>

\* Lines 597-613 and 637-681: nothing to do unless the access becomes
\* satisfied; then it is marked, and the propagation goes on to its
\* subaccesses (parental) and then to its next.
PropEval(t) ==
    /\ ctl[t].pc = "prop_eval"
    /\ LET f  == Last(ctl[t].prop)
           x  == f.task
           r  == Reg(t)
           up == Satisfiability(f.src, r, f.par) /\ ~sat[x][r]
           go == SelectSeq(<<[to |-> child[x][r], par |-> TRUE], [to |-> next[x][r], par |-> FALSE]>>,
                           LAMBDA g : g.to # NoOne)
       IN  /\ sat' = IF up THEN Set(sat, x, r, TRUE) ELSE sat
           /\ ctl' = [ctl EXCEPT ![t].pc = "prop_next",
                                 ![t].prop[Len(ctl[t].prop)].todo = IF up THEN go ELSE <<>>]
    /\ Acting(t)
    /\ UNCHANGED <<owner, bm, child, next, complete, linked, removed>>

\* The recursive calls in turn; when they are done, line 697 unlocks.
PropNext(t) ==
    /\ ctl[t].pc = "prop_next"
    /\ LET f == Last(ctl[t].prop)
       IN  IF f.todo # <<>>
           THEN /\ ctl' = [ctl EXCEPT ![t].pc = "prop_lock", ![t].want = Head(f.todo).to,
                                      ![t].src = f.task, ![t].par = Head(f.todo).par,
                                      ![t].prop[Len(ctl[t].prop)].todo = Tail(@)]
                /\ UNCHANGED owner
           ELSE /\ Release(t, {f.task})
                /\ ctl' = [ctl EXCEPT ![t].prop = Front(@),
                                      ![t].pc = IF Len(ctl[t].prop) = 1 THEN ctl[t].ret ELSE "prop_next"]
    /\ Acting(t)
    /\ UNCHANGED <<bm, child, next, complete, sat, linked, removed>>

----------------------------------------------------------------------------

\* Every body has run to its end.
Terminated ==
    /\ \A t \in Tasks : ctl[t].ops = <<>>
    /\ UNCHANGED vars

Step(t) ==
    \/ Begin(t) \/ LockParent(t) \/ LockSelf(t)
    \/ LinkVisit(t) \/ LinkWaitSub(t) \/ LinkRelock(t) \/ LinkMatch(t) \/ LinkUnwind(t)
    \/ FinAccess(t) \/ FinNext(t) \/ FinSub(t) \/ FinSubMatch(t) \/ FinSubUnwind(t)
    \/ PropLock(t) \/ PropEval(t) \/ PropNext(t) \/ RemoveAccesses(t)

Next == (\E t \in Tasks : Step(t)) \/ Terminated

\* A thread spinning on a lock retries for as long as it waits, so a lock
\* released again and again is eventually taken (the spinlock is a ticket
\* lock, served in order); every other step is always enabled.
Fairness == \A t \in Tasks : SF_vars(Step(t))

Spec == Init /\ [][Next]_vars /\ Fairness

----------------------------------------------------------------------------
(* The tasks seen through the abstract TaskOrder.                          *)

\* The sequential program runs the tasks in preorder of the task tree.
RECURSIVE SequentialOrder(_)
SequentialOrder(t) ==
    <<t>> \o FlattenSeq([i \in DOMAIN ChildSeq[t] |-> SequentialOrder(ChildSeq[t][i])])

Rank(t) == CHOOSE i \in DOMAIN SequentialOrder(Root) : SequentialOrder(Root)[i] = t

RECURSIVE Above(_, _)
Above(a, t) == t # Root /\ (Parent[t] = a \/ Above(a, Parent[t]))

\* u waits for t: t comes first in the sequential program, is not one of
\* u's ancestors, and they share an address (every access here is strong
\* and writes).
MustPrecede ==
    {p \in (Tasks \ {Root}) \X (Tasks \ {Root}) :
        /\ Rank(p[1]) < Rank(p[2])
        /\ ~Above(p[1], p[2])
        /\ Acc[p[1]] \cap Acc[p[2]] # {}}

\* The parent's thread is inside linkTaskAccesses for t.
BeingLinked(t) ==
    /\ t # Root
    /\ ctl[Parent[t]].ops # <<>>
    /\ Head(ctl[Parent[t]].ops) = [kind |-> "link", task |-> t]
    /\ ctl[Parent[t]].pc # "idle"

\* t's thread has entered unregisterTaskDataAccesses, or gone past it.
Releasing(t) ==
    /\ t # Root
    /\ \/ Len(ctl[t].ops) < 2
       \/ Head(ctl[t].ops).kind = "fin" /\ ctl[t].pc # "idle"

\* A task is created while it is being linked, runs once it is linked with
\* every access satisfied, and is released from its finalization on.
LockPhase ==
    [t \in Tasks |->
        CASE t = Root                           -> "running"
          [] Releasing(t)                       -> "released"
          [] Ready(t)                           -> "running"
          [] t \in linked \/ BeingLinked(t)     -> "created"
          [] OTHER                              -> "unborn"]

ASSUME Precedes = MustPrecede

Order == INSTANCE TaskOrder WITH phase <- LockPhase, MustWait <- Precedes

----------------------------------------------------------------------------
(* Properties                                                              *)

\* The lock a thread is spinning on, in the steps that wait.
Wanted(t) ==
    CASE ctl[t].pc = "lock_parent"   -> Par(t)
      [] ctl[t].pc \in {"lock_self", "link_relock"} -> Tsk(t)
      [] ctl[t].pc \in {"link_wait_sub", "prop_lock"} -> ctl[t].want
      [] ctl[t].pc = "fin_sub"       -> bm[Base(t)][Reg(t)]
      [] OTHER -> NoOne

Waiting(t) == Wanted(t) # NoOne /\ ~Free(Wanted(t))

\* No set of threads waits in a cycle: linking takes the parent and the new
\* task and then subtasks below the parent, finalization takes the parent,
\* the task, its bottom-map subtasks and the next tasks, and propagation
\* takes next tasks while holding the previous one.  Without the tryLock
\* of line 398 a linker holding the new task waits for a subtask whose
\* finalizer waits for the new task.
NoCircularWait ==
    ~\E S \in SUBSET Tasks :
        /\ S # {}
        /\ \A t \in S : Waiting(t) /\ owner[Wanted(t)] \in S

\* Every task body, the linking of its children and its finalization
\* included, runs to its end.
EveryThreadFinishes == <>(\A t \in Tasks : ctl[t].ops = <<>>)

\* The accesses, links and bottom map of a task change only in a step of
\* the thread holding its lock: the walk retakes the new task's lock after
\* the tryLock gap (line 401) before it writes the new task's access, and a
\* propagation into the new task in the gap is serialized with it.
AccessesTouchedUnderLock ==
    [][\A x \in Tasks :
         (bm'[x] # bm[x] \/ child'[x] # child[x] \/ next'[x] # next[x]
          \/ complete'[x] # complete[x] \/ sat'[x] # sat[x])
         => owner[x] = actor']_vars

\* No thread holds, or spins on, the lock of a task whose accesses have
\* been removed (the task is freed right after, by disposeOrUnblockTask):
\* a linker reaches tasks through the parent's bottom map, a finalizer
\* through its own bottom map and _next, a propagation through _child and
\* _next, and removal must erase the first two under the parent's lock
\* before any of them reads a pointer to the removed task.
NoLockOfRemovedTask ==
    \A x \in removed :
        /\ owner[x] = NoOne
        /\ \A t \in Tasks : Wanted(t) # x

\* The lock-level walks implement TaskOrder: whatever the threads'
\* interleaving, the tryLock gaps, the bottom-map hand-off to the next task
\* done under the subtask's lock (line 798) and the propagations racing
\* the linking of their target, a task is satisfied on every address only
\* after every task before it in the sequential program that shares an
\* address, descendants of its earlier siblings included, has entered its
\* finalization; and children are linked in program order.
ImplementsTaskOrder == Order!Spec

TypeOK ==
    /\ owner \in [Tasks -> Tasks \cup {NoOne}]
    /\ \A f \in {bm, child, next} : f \in [Tasks -> [Regions -> Tasks \cup {NoOne}]]
    /\ complete \in [Tasks -> [Regions -> BOOLEAN]]
    /\ sat \in [Tasks -> [Regions -> BOOLEAN]]
    /\ linked \subseteq Tasks
    /\ removed \subseteq Tasks

=============================================================================
