SPECIFICATION Spec
CONSTANTS
    Config <- SomeConfigs
    Limit = 2
    Window = 3
    Skew = 1
    RetryDelay <- OneSecondEach
INVARIANTS
    TypeOK
    WaitIsBounded
    AsksInANewWindow
    GiveUpIsExcused
PROPERTIES
    RunsShorten
    RunEnds
CHECK_DEADLOCK FALSE
