SPECIFICATION CoordSpec

CONSTANTS
    Prompts = {p1, p2}
    Local = {}
    WithRunID = {p1, p2}
    Summaries = {}
    Cancels = {}
    Clears = {}
    MaxAttempts = 2
    MaxErrors = 1
    MaxCompactions = 0
    None = None

INVARIANTS
    OneTerminalEvent
