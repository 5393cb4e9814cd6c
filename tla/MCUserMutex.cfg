CONSTANTS
    Tasks <- MCTasks
    MaxRounds = 2
SPECIFICATION Spec
INVARIANTS
    LockStateConsistent
PROPERTIES
    ImplementsUserLock
    NoStarvation
