CONSTANTS
    Tasks <- MCTasks
    Root = "main"
    ChildSeq <- MCChildSeq
    Decls <- MCDecls
    Events <- MCEvents
    TaskwaitAfter <- MCTaskwaitAfter
SPECIFICATION Spec
INVARIANTS
    TypeOK
    PredecessorAccounting
    RemovalAccounting
    BottomMapConsistent
    NoUseAfterFree
    AssertionsHold
PROPERTIES
    EveryTaskDisposed
    ImplementsTaskOrder
