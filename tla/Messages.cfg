SPECIFICATION MCSpec

CONSTANTS
    Writer = w
    Flushers = {f1}
    Deleters = {d1}
    Timers = {t1}
    MaxVersion = 4
    Structural = {3}
    FinishedFrom = 4
    Debounced = TRUE
    MaxFailures = 1
    Stores = {"s1", "s2"}
    Refreshers = {"r1", "r2"}
    Setters = {"w1", "m1", "m2"}
    Recents = {"m1", "m2"}
    StoreOf <- MCStoreOf
    MaxTokens = 3
    MaxDeaths = 1
    NoRoutine = NoRoutine

INVARIANTS
    WellFormed
    NothingForgotten
    FlushIsDurable
    CommittedIsKept
    CleanIsFresh

PROPERTIES
    ImplementsStore
    FinishedLands
