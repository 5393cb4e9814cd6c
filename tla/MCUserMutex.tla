----------------------------- MODULE MCUserMutex -----------------------------
(* Three tasks that each lock and unlock one user mutex twice. *)
EXTENDS UserMutex

MCTasks == {"t1", "t2", "t3"}

=============================================================================
