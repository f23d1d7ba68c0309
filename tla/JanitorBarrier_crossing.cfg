CONSTANTS
    Party = {p, q, r, s}
SPECIFICATION FairSpec
INVARIANTS
    DestroyedOnlyWhenCrossed
PROPERTIES
    ImplementsNative
    EverybodyPasses
