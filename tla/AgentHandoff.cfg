SPECIFICATION FairSpec

CONSTANTS
    Prompts = {p1, p2, p3}
    Local = {}
    WithRunID = {p1, p2}
    Summaries = {}
    Cancels = {}
    Clears = {}
    MaxAttempts = 1
    MaxErrors = 0
    MaxCompactions = 0
    None = None

INVARIANTS
    NothingStranded

PROPERTIES
    EveryPromptAnswered
