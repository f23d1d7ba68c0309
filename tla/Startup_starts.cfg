SPECIFICATION Spec
CONSTANTS
    plain = plain
    other = other
    script = script
    both = both
    NULL = NULL
    MaxStart = 3
    MaxCalled = 4
    Library = {plain, other, script, both}
    Provides <- MCProvides
    Executing = {both}
    Config <- MCConfig
INVARIANTS
    TwoDaemonsOnlyInTheWindow
    RegistryInv
    TablesAreComplete
    FoundIsUpgraded
PROPERTIES
    LauncherReturns
CHECK_DEADLOCK FALSE
