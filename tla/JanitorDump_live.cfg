CHECK_DEADLOCK FALSE
CONSTANTS
    t1 = t1
    t2 = t2
    t3 = t3
    work = work
    background = background
    NULL = NULL
    Client = {a}
    Thread = {t1}
    Class = {work, background}
    Detached = {background}
    Autorun = {background}
    ClassOf <- OneClass
    Dumper = {d}
    Crashing = {t1}
    Running = {}
SPECIFICATION FairDumpSpec
PROPERTIES
    DumpEnds
