SPECIFICATION Spec

CONSTANTS
    Prompts = {p1, p2, p3}
    Local = {}
    WithRunID = {p1, p2, p3}
    Summaries = {}
    Cancels = {c1}
    Clears = {}
    MaxAttempts = 1
    MaxErrors = 0
    MaxCompactions = 0
    None = None

INVARIANTS
    CancelReaches
