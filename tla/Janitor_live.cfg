CONSTANTS
    t1 = t1
    t2 = t2
    t3 = t3
    work = work
    background = background
    NULL = NULL
    Client = {a, b}
    Thread = {t1}
    Class = {work, background}
    Detached = {background}
    Autorun = {background}
    ClassOf <- OneClass
SPECIFICATION FairSpec
PROPERTIES
    StartedThreadsExit
    CallsReturn
