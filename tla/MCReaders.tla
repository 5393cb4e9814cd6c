------------------------------ MODULE MCReaders ------------------------------
(***************************************************************************)
(* A producer and two consumers of one byte.  The main task creates W, R1 *)
(* and R2:                                                                 *)
(*                                                                         *)
(*   W  out [0,1)      R1 in [0,1)      R2 in [0,1)                         *)
(*                                                                         *)
(* In the sequential program R1 and R2 only wait for W: once W has        *)
(* finished both inputs are satisfied and the two readers may run         *)
(* together.                                                               *)
(***************************************************************************)
EXTENDS DataAccessRegistration

Call(type, region) ==
    [type |-> type, weak |-> FALSE, region |-> region, reductionInfo |-> NoReduction]

MCTasks == {"main", "W", "R1", "R2"}

MCChildSeq ==
    [t \in MCTasks |-> IF t = "main" THEN <<"W", "R1", "R2">> ELSE <<>>]

MCDecls ==
    [t \in MCTasks |->
        CASE t = "W"  -> <<Call(WRITE, {0})>>
          [] t = "R1" -> <<Call(READ, {0})>>
          [] t = "R2" -> <<Call(READ, {0})>>
          [] OTHER    -> <<>>]

\* No task uses the events API.
MCEvents == [t \in MCTasks |-> 0]

\* No task runs a taskwait.
MCTaskwaitAfter == [t \in MCTasks |-> {}]

=============================================================================
