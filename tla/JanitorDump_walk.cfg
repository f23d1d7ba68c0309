CHECK_DEADLOCK FALSE
CONSTANTS
    t1 = t1
    t2 = t2
    t3 = t3
    work = work
    background = background
    NULL = NULL
    Client = {a}
    Thread = {t1, t2, t3}
    Class = {work, background}
    Detached = {background}
    Autorun = {background}
    ClassOf <- Kinds
    Dumper = {d}
    Crashing = {}
    Running = {t1, t2}
SPECIFICATION RunningSpec
INVARIANTS
    DumpAsksEachOnce
    NoLostAnswer
    RingsExact
PROPERTIES
    WildOnlyOffList
