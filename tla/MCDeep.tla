------------------------------- MODULE MCDeep -------------------------------
(***************************************************************************)
(* A three-level program over two bytes.  The main task creates A, B and  *)
(* then C; A creates A1, and A1 creates A11:                               *)
(*                                                                         *)
(*   A  inout [0,2)     A1 inout [0,1)     A11 out [0,1)                   *)
(*   B  in    [1,2)     C  out   [0,2)                                     *)
(*                                                                         *)
(* A and A1 may both end while A11 still runs.  C's linking walk then     *)
(* goes through A and A1 (two levels of the recursion at line 953), and   *)
(* A's hand-off to C walks through A1's access, complete with             *)
(* subaccesses, into A1's bottom map (lines 818-843): the cases a tree of *)
(* two levels cannot reach.  On the second byte B reads A's fragment.   *)
(***************************************************************************)
EXTENDS DataAccessRegistration

Access(type, region) ==
    <<[type |-> type, weak |-> FALSE, region |-> region, reductionInfo |-> NoReduction]>>

MCTasks == {"main", "A", "A1", "A11", "B", "C"}

MCChildSeq ==
    [t \in MCTasks |->
        CASE t = "main" -> <<"A", "B", "C">>
          [] t = "A"    -> <<"A1">>
          [] t = "A1"   -> <<"A11">>
          [] OTHER      -> <<>>]

MCDecls ==
    [t \in MCTasks |->
        CASE t = "A"   -> Access(READWRITE, {0, 1})
          [] t = "A1"  -> Access(READWRITE, {0})
          [] t = "A11" -> Access(WRITE, {0})
          [] t = "B"   -> Access(READ, {1})
          [] t = "C"   -> Access(WRITE, {0, 1})
          [] OTHER     -> <<>>]

\* No task uses the events API.
MCEvents == [t \in MCTasks |-> 0]

\* No task runs a taskwait.
MCTaskwaitAfter == [t \in MCTasks |-> {}]

=============================================================================
