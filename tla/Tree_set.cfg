CONSTANTS
    Key = {1, 2, 3, 4, 5, 6}
    NULL = NULL
SPECIFICATION Spec
INVARIANTS
    TreeInv
PROPERTIES
    ImplementsSet
