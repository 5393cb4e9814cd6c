------------------------------ MODULE TaskOrder ------------------------------
(***************************************************************************)
(* What the dependency engine promises the program, with no access,       *)
(* counter or bottom map: tasks are created by their running parent in    *)
(* program order, and a task starts only once every task it must wait for *)
(* has been released (its body ended and every event it added was          *)
(* fulfilled).  Ending and release may be one step (no event outstanding) *)
(* or two.                                                                 *)
(***************************************************************************)
EXTENDS Naturals, Sequences

CONSTANTS
    Tasks,     \* the tasks of the program, Root included
    Root,      \* the main task: runs from the start and never ends
    ChildSeq,  \* ChildSeq[t]: the children t creates, in program order
    MustWait   \* pairs <<t, u>>: u may start only after t is released

VARIABLE phase

Phases == {"unborn", "created", "running", "ended", "released"}

Init == phase = [t \in Tasks |-> IF t = Root THEN "running" ELSE "unborn"]

\* A running task creates its next child.
Create(p) ==
    /\ phase[p] = "running"
    /\ \E i \in DOMAIN ChildSeq[p] :
          /\ phase[ChildSeq[p][i]] = "unborn"
          /\ \A j \in 1 .. i - 1 : phase[ChildSeq[p][j]] # "unborn"
          /\ phase' = [phase EXCEPT ![ChildSeq[p][i]] = "created"]

\* A created task starts once everything it waits for is released.
Start(t) ==
    /\ phase[t] = "created"
    /\ \A w \in MustWait : w[2] = t => phase[w[1]] = "released"
    /\ phase' = [phase EXCEPT ![t] = "running"]

\* The body ends, releasing the task at once or leaving events outstanding.
End(t) ==
    /\ t # Root
    /\ phase[t] = "running"
    /\ \E p \in {"ended", "released"} : phase' = [phase EXCEPT ![t] = p]

\* The last outstanding event of an ended task is fulfilled.
Release(t) ==
    /\ phase[t] = "ended"
    /\ phase' = [phase EXCEPT ![t] = "released"]

Next == \E t \in Tasks : Create(t) \/ Start(t) \/ End(t) \/ Release(t)

Spec == Init /\ [][Next]_phase

=============================================================================
