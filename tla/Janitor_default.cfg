CONSTANTS
    t1 = t1
    t2 = t2
    t3 = t3
    work = work
    background = background
    NULL = NULL
    Client = {a}
    Thread = {t1, t2}
    Class = {work, background}
    Detached = {background}
    Autorun = {background}
    ClassOf <- AllKinds
SPECIFICATION Spec
INVARIANTS
    NoNullDereference
