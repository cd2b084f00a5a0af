CONSTANTS
    Width = 3
    Height = 1
    Mines = 1
    Modes = {"classic", "no_guess"}
    Kinds = {"STANDARD", "GUIDED_PRACTICE"}
    None = None
    ReplayLimit = 3
    FrontierLimit = 1
    MaxRuns = 2
    p1 = p1
    p2 = p2
    Games = {"g", "h"}
    Foreign = {"f", "e"}
    Old = {"x", "y"}
    BadRuns = {"x"}
    BadReplays = {"y"}
    Loose = {"h"}
    Large = {"g", "f"}
    FileLimit = 1
    Bests = {"best", "bad"}
    BadBests = {"bad"}
    Limit = 2
    MaxSteps = 2
SPECIFICATION PartsSpec
INVARIANTS
    ReplayTellsTheGame
    CoachIsRight
    ResultsAreKept
    ViewIsCurrent
    HistoryIsWhole
PROPERTIES
    BoardIsWanted
    GenerationEnds
CHECK_DEADLOCK FALSE
