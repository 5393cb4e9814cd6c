CONSTANTS
    Tasks <- MCTasks
    Root = "main"
    ChildSeq <- MCChildSeq
    Decls <- MCDecls
    Events <- MCEvents
    TaskwaitAfter <- MCTaskwaitAfter
SPECIFICATION Spec
INVARIANTS
    RemovalAccounting
    TaskwaitWaitsForChildren
PROPERTIES
    EveryTaskDisposed
    ImplementsTaskOrder
