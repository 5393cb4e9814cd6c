---------------------------- MODULE MCAccessLocks ----------------------------
(***************************************************************************)
(* The main task M creates Q and then N; Q creates X, X creates Y.  Q, X  *)
(* and N access addresses 1 and 2, Y address 1.  While M links N, Q may   *)
(* have ended with X still running, so N's walk goes through Q into X or  *)
(* Y; X's finalization then links Y to N and propagates into N, and Y's   *)
(* propagates into N too.  N, behind X and Y, runs once they end.         *)
(***************************************************************************)
EXTENDS AccessLocks

CONSTANTS M, Q, X, Y, N

MCTasks == {M, Q, X, Y, N}

MCChildSeq == [t \in MCTasks |->
                 CASE t = M -> <<Q, N>>
                   [] t = Q -> <<X>>
                   [] t = X -> <<Y>>
                   [] OTHER -> <<>>]

MCAcc == [t \in MCTasks |->
            CASE t = M -> {}
              [] t = Y -> {1}
              [] OTHER -> {1, 2}]

\* The pairs of tasks that TaskOrder orders, computed once.
MCPrecedes == MustPrecede

=============================================================================
