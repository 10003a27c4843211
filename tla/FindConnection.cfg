SPECIFICATION Spec
CONSTANTS
    Creates = {k1, k2}
    Clients = {c1, c2}
    Paths = {p1}
    Runs = {}
    MaxTeardowns = 2
    MaxStreams = 1
    MaxDeletes = 1
    MaxFailures = 0
    None = None
INVARIANTS
    LiveKeepsConnection
CHECK_DEADLOCK FALSE
