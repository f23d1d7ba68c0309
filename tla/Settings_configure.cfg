SPECIFICATION Spec
CONSTANTS
    Main = main
    own_c = own_c
    self_c = self_c
    app = app
    NULL = NULL
    Absent = Absent
    Bad = Bad
    Thread = {main, w}
    Class <- MCClass
    Own = own_c
    Self = self_c
    Ctx = {x1, x2}
    File <- MCFile
    Moves = {TRUE}
    MaxDocument = 2
    MaxMessages = 1
INVARIANTS
    SettingsInv
    CurrentIsInForce
    DanglingOnlyInWindow
    PopFindsContext
    AsConfigured
PROPERTIES
    ForgottenOnlyAfterEarlyMessage
CHECK_DEADLOCK FALSE
