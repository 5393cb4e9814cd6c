------------------------------ MODULE MCEvents ------------------------------
(***************************************************************************)
(* Tasks released through the events API.  The main task creates A and B; *)
(* A creates A1 while it runs:                                             *)
(*                                                                         *)
(*   A   out [0,2), one event      A1 inout [0,1), one event                *)
(*   B   in  [0,2)                                                          *)
(*                                                                         *)
(* Each of A and A1 adds one event to its counter while it runs; the      *)
(* event may be fulfilled before or after the body returns, so the        *)
(* accesses are released either by markAsFinished or by                    *)
(* nanos6_decrease_task_event_counter.  B must wait for both.  A waits   *)
(* for A1 in a taskwait, and the main task for A and B.                   *)
(***************************************************************************)
EXTENDS DataAccessRegistration

Call(type, region) ==
    [type |-> type, weak |-> FALSE, region |-> region, reductionInfo |-> NoReduction]

MCTasks == {"main", "A", "A1", "B"}

MCChildSeq ==
    [t \in MCTasks |->
        CASE t = "main" -> <<"A", "B">>
          [] t = "A"    -> <<"A1">>
          [] OTHER      -> <<>>]

MCDecls ==
    [t \in MCTasks |->
        CASE t = "A"  -> <<Call(WRITE, {0, 1})>>
          [] t = "A1" -> <<Call(READWRITE, {0})>>
          [] t = "B"  -> <<Call(READ, {0, 1})>>
          [] OTHER    -> <<>>]

MCEvents == [t \in MCTasks |-> IF t \in {"A", "A1"} THEN 1 ELSE 0]

\* A waits for A1, and the main task for A and B: the last child may be
\* released by an event fulfilled from outside, whose dispose chain then
\* unblocks the waiting parent.
MCTaskwaitAfter ==
    [t \in MCTasks |->
        CASE t = "main" -> {2}
          [] t = "A"    -> {1}
          [] OTHER      -> {}]

=============================================================================
