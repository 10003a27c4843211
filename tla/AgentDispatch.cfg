SPECIFICATION MCSpec

CONSTANTS
    Prompts = {p1, p2, p3}
    Local = {}
    WithRunID = {p1, p2}
    Summaries = {}
    Cancels = {c1}
    Clears = {}
    MaxAttempts = 1
    MaxErrors = 0
    MaxCompactions = 0
    None = None
    EditSessions = {fs1, fs2}
    MaxCalls = 2
    MaxUserChanges = 1
    MaxClock = 3
    Turns = {"t1", "t2"}
    SubAgents = {"a1", "a2"}
    TodosTools = {"d1"}
    TurnOf <- MCTurnOf
    MaxReads = 3
    MaxTitles = 0

INVARIANTS
    DispatchSound
    CancelIsExact
    OneRunComplete
    RowIsAccounted
    UnseenOnlyInTheGap
    ReplacedIsKept

PROPERTIES
    NeverReplaces
