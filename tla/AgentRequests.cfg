SPECIFICATION FairSpec

CONSTANTS
    Prompts = {p1}
    Local = {}
    WithRunID = {p1}
    Summaries = {s1}
    Cancels = {c1}
    Clears = {k1}
    MaxAttempts = 2
    MaxErrors = 1
    MaxCompactions = 1
    None = None

PROPERTIES
    ReservationsReleased
