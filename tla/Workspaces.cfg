SPECIFICATION Spec
CONSTANTS
    Creates = {k1, k2}
    Clients = {c1, c2}
    Paths = {p1}
    Runs = {r1}
    MaxTeardowns = 2
    MaxStreams = 1
    MaxDeletes = 1
    MaxFailures = 1
    None = None
INVARIANTS
    WellFormed
    ClaimedStaysUp
    CleanupAfterRuns
    ConnectionsCounted
PROPERTIES
    HoldExpires
    UnclaimedIsTornDown
CHECK_DEADLOCK FALSE
