CONSTANTS
    Addr <- MCAddr
    ReductionOps <- MCReductionOps
    MaxCalls = 3
SPECIFICATION Spec
INVARIANTS
    TypeOK
    AccessesMatchDeclarations
    CountdownCountsFootprint
    AbortsExactlyWhenMalformed
