CONSTANTS
    Width = 5
    Height = 1
    Mines = 2
    Modes = {"classic"}
    Kinds = {"GUIDED_PRACTICE"}
    None = None
    ReplayLimit = 6
    FrontierLimit = 10
    MaxRuns = 1
    p1 = p1
    p2 = p2
    Games = {"g", "h"}
    Foreign = {"f", "e"}
    Old = {"x", "y"}
    BadRuns = {"x"}
    BadReplays = {"y"}
    Loose = {"h"}
    Large = {"g", "f"}
    FileLimit = 1
    Bests = {"best", "bad"}
    BadBests = {"bad"}
    Limit = 2
    MaxSteps = 2
SPECIFICATION PracticeSpec
INVARIANTS
    PracticeIsAccepted
CHECK_DEADLOCK FALSE
