SPECIFICATION FairSpec

CONSTANTS
    Prompts = {p1, p2}
    Local = {}
    WithRunID = {p1, p2}
    Summaries = {}
    Cancels = {c1}
    Clears = {}
    MaxAttempts = 1
    MaxErrors = 0
    MaxCompactions = 0
    None = None

PROPERTIES
    EveryPromptAnswered
