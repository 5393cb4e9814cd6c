CONSTANTS
    N = 5
SPECIFICATION Spec
INVARIANTS
    EffectivePreviousIsLogicalPrevious
