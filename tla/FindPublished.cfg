SPECIFICATION Spec

CONSTANTS
    Writer = w
    Flushers = {f1}
    Deleters = {}
    Timers = {t1, t2}
    MaxVersion = 4
    Structural = {3}
    FinishedFrom = 4
    Debounced = TRUE
    MaxFailures = 0

INVARIANTS PublishedOnReturn
