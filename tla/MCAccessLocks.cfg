CONSTANTS
    M = M
    Q = Q
    X = X
    Y = Y
    N = N
    NoOne = NoOne
    Tasks <- MCTasks
    Root = M
    ChildSeq <- MCChildSeq
    Acc <- MCAcc
    Precedes <- MCPrecedes

SPECIFICATION Spec

INVARIANTS
    NoCircularWait
    NoLockOfRemovedTask

PROPERTIES
    AccessesTouchedUnderLock
    EveryThreadFinishes
    ImplementsTaskOrder
