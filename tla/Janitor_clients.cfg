CONSTANTS
    t1 = t1
    t2 = t2
    t3 = t3
    work = work
    background = background
    NULL = NULL
    Client = {a, b}
    Thread = {t1, t2}
    Class = {work, background}
    Detached = {background}
    Autorun = {background}
    ClassOf <- Mixed
SYMMETRY ClientSymmetry
SPECIFICATION Spec
INVARIANTS
    StartBarrierCrossedOnce
    IInv
    NoUseAfterFree
PROPERTIES
    ImplementsLifecycle
    JoinAllMissesOnlyInTransit
