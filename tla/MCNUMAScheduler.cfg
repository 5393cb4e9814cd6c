CONSTANTS
    NodeCount = 2
    CPUs <- MCCPUs
    NodeOf <- MCNodeOf
    Tasks <- MCTasks
    MaxBlocks = 1
    MaxToggles = 2
SPECIFICATION Spec
INVARIANTS
    ReadyCountTracksQueue
PROPERTIES
    EveryTaskRuns
