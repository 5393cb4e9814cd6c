------------------------------ MODULE MCNested ------------------------------
(***************************************************************************)
(* A nested program over two bytes.  The main task creates A, B, D and C; *)
(* A creates A1 and A2 while it runs:                                      *)
(*                                                                         *)
(*   A  inout [0,2)     A1 out [0,2)     A2 in [0,1)                        *)
(*   B  in    [1,2)     D  in  [1,2)                                        *)
(*   C  out   [0,2)                                                         *)
(*                                                                         *)
(* A's children link through A's accesses (parental edges) and A2         *)
(* replaces part of A1 in A's bottom map; B reads the second byte of A (a  *)
(* fragment), D reads it along with B and may finish first, and C follows *)
(* them all.  When A finishes before its children, C is linked to them     *)
(* through A's bottom map, by the hand-off of finalizeAccess or by the     *)
(* recursion of the linking walk.                                          *)
(***************************************************************************)
EXTENDS DataAccessRegistration

Call(type, weak, region) ==
    [type |-> type, weak |-> weak, region |-> region, reductionInfo |-> NoReduction]

MCTasks == {"main", "A", "A1", "A2", "B", "D", "C"}

MCChildSeq ==
    [t \in MCTasks |->
        CASE t = "main" -> <<"A", "B", "D", "C">>
          [] t = "A"    -> <<"A1", "A2">>
          [] OTHER      -> <<>>]

MCDecls ==
    [t \in MCTasks |->
        CASE t = "A"  -> <<Call(READWRITE, FALSE, {0, 1})>>
          [] t = "A1" -> <<Call(WRITE, FALSE, {0, 1})>>
          [] t = "A2" -> <<Call(READ, FALSE, {0})>>
          [] t = "B"  -> <<Call(READ, FALSE, {1})>>
          [] t = "D"  -> <<Call(READ, FALSE, {1})>>
          [] t = "C"  -> <<Call(WRITE, FALSE, {0, 1})>>
          [] OTHER    -> <<>>]

\* No task uses the events API.
MCEvents == [t \in MCTasks |-> 0]

\* No task runs a taskwait.
MCTaskwaitAfter == [t \in MCTasks |-> {}]

=============================================================================
