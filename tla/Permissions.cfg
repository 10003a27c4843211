SPECIFICATION Spec
CONSTANTS
    c1 = c1 c2 = c2 c3 = c3
    k1 = k1 k2 = k2 s1 = s1
    Calls = {c1, c2, c3}
    Answers = {a1, a2}
    Allowed = {}
    Hooked = {c3}
    None = None
    KeyOf <- MCKeyOf
    SessionOf <- MCSessionOf
INVARIANTS
    WellFormed
    AnswersAreFinal
    ConsentIsWon
    NoNeedlessPrompt
PROPERTIES
    AnsweredReturns
CHECK_DEADLOCK FALSE
