CONSTANTS
    Tasks <- MCTasks
    Root = "main"
    ChildSeq <- MCChildSeq
    Decls <- MCDecls
    Events <- MCEvents
    TaskwaitAfter <- MCTaskwaitAfter
SPECIFICATION Spec
INVARIANTS
    PredecessorAccounting
    RemovalAccounting
    BottomMapConsistent
    AssertionsHold
    NoFalseDependency
PROPERTIES
    EveryTaskDisposed
    ImplementsTaskOrder
