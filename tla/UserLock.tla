------------------------------ MODULE UserLock ------------------------------
(***************************************************************************)
(* What nanos6_user_lock and nanos6_user_unlock promise the tasks that    *)
(* share a user mutex, with every lock operation one atomic step.  A task *)
(* is out of the critical section, waiting for it, or owning it.  A       *)
(* waiting task acquires the mutex only when nobody owns it; an owner     *)
(* releases it, and may hand it over to one waiting task in the same      *)
(* step.                                                                   *)
(***************************************************************************)

CONSTANT Tasks

VARIABLE phase   \* phase[t] \in {"out", "waiting", "owns"}

Phases == {"out", "waiting", "owns"}

Owner == {t \in Tasks : phase[t] = "owns"}

Init == phase = [t \in Tasks |-> "out"]

\* The task calls nanos6_user_lock.
Request(t) ==
    /\ phase[t] = "out"
    /\ phase' = [phase EXCEPT ![t] = "waiting"]

\* The call returns with the mutex free until then.
Acquire(t) ==
    /\ phase[t] = "waiting"
    /\ Owner = {}
    /\ phase' = [phase EXCEPT ![t] = "owns"]

\* nanos6_user_unlock frees the mutex, or hands it to a waiting task.
Release(t) ==
    /\ phase[t] = "owns"
    /\ \/ phase' = [phase EXCEPT ![t] = "out"]
       \/ \E u \in Tasks :
             /\ phase[u] = "waiting"
             /\ phase' = [phase EXCEPT ![t] = "out", ![u] = "owns"]

Next == \E t \in Tasks : Request(t) \/ Acquire(t) \/ Release(t)

Spec == Init /\ [][Next]_phase

=============================================================================
