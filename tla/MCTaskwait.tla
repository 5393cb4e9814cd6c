----------------------------- MODULE MCTaskwait -----------------------------
(***************************************************************************)
(* Taskwaits at three nesting levels.  The main task creates A and B and  *)
(* then waits for them; A creates A1, waits for it, and creates A2; B     *)
(* waits with no child at all:                                            *)
(*                                                                         *)
(*   A   out [0,2)   taskwait after A1    A1 out [0,1)    A2 in [1,2)       *)
(*   B   in  [2,3)   taskwait first                                        *)
(*   main            taskwait after A and B                                *)
(*                                                                         *)
(* The main task has no accesses (removable, so only markAsBlocked drops *)
(* a count), A has (handleEnterTaskwait drops one more), and B never      *)
(* blocks because markAsBlocked finds no child left.                       *)
(***************************************************************************)
EXTENDS DataAccessRegistration

Call(type, region) ==
    [type |-> type, weak |-> FALSE, region |-> region, reductionInfo |-> NoReduction]

MCTasks == {"main", "A", "A1", "A2", "B"}

MCChildSeq ==
    [t \in MCTasks |->
        CASE t = "main" -> <<"A", "B">>
          [] t = "A"    -> <<"A1", "A2">>
          [] OTHER      -> <<>>]

MCDecls ==
    [t \in MCTasks |->
        CASE t = "A"  -> <<Call(WRITE, {0, 1})>>
          [] t = "A1" -> <<Call(WRITE, {0})>>
          [] t = "A2" -> <<Call(READ, {1})>>
          [] t = "B"  -> <<Call(READ, {2})>>
          [] OTHER    -> <<>>]

\* No task uses the events API.
MCEvents == [t \in MCTasks |-> 0]

MCTaskwaitAfter ==
    [t \in MCTasks |->
        CASE t = "main" -> {2}
          [] t = "A"    -> {1}
          [] t = "B"    -> {0}
          [] OTHER      -> {}]

=============================================================================
