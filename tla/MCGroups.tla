------------------------------ MODULE MCGroups ------------------------------
(***************************************************************************)
(* Access groups and a weak parent over two bytes.  The main task creates *)
(* W, R1, R2 and F; W creates W1 and W2 while it runs:                     *)
(*                                                                         *)
(*   W   weak inout [0,2)      W1 concurrent [0,2)    W2 concurrent [0,2)   *)
(*   R1  reduction(+) [0,2)    R2 reduction(+) [0,2)                        *)
(*   F   in [0,2)                                                           *)
(*                                                                         *)
(* W is ready at once (its only access is weak), W1 and W2 may run        *)
(* together, R1 and R2 may run together once both concurrent tasks are    *)
(* done, and F waits for both reductions.                                  *)
(***************************************************************************)
EXTENDS DataAccessRegistration

Call(type, weak, region, op) ==
    [type |-> type, weak |-> weak, region |-> region, reductionInfo |-> op]

Plus == 1

MCTasks == {"main", "W", "W1", "W2", "R1", "R2", "F"}

MCChildSeq ==
    [t \in MCTasks |->
        CASE t = "main" -> <<"W", "R1", "R2", "F">>
          [] t = "W"    -> <<"W1", "W2">>
          [] OTHER      -> <<>>]

MCDecls ==
    [t \in MCTasks |->
        CASE t = "W"  -> <<Call(READWRITE, TRUE, {0, 1}, NoReduction)>>
          [] t = "W1" -> <<Call(CONCURRENT, FALSE, {0, 1}, NoReduction)>>
          [] t = "W2" -> <<Call(CONCURRENT, FALSE, {0, 1}, NoReduction)>>
          [] t = "R1" -> <<Call(REDUCTION, FALSE, {0, 1}, Plus)>>
          [] t = "R2" -> <<Call(REDUCTION, FALSE, {0, 1}, Plus)>>
          [] t = "F"  -> <<Call(READ, FALSE, {0, 1}, NoReduction)>>
          [] OTHER    -> <<>>]

\* No task uses the events API.
MCEvents == [t \in MCTasks |-> 0]

\* No task runs a taskwait.
MCTaskwaitAfter == [t \in MCTasks |-> {}]

=============================================================================
