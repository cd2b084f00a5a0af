CONSTANTS
    Width = 3
    Height = 3
    Starts <- Corner
    Radii = {0}
    MineCounts = {2, 3}
    MaxMarks = 2
SPECIFICATION MCSpec
INVARIANTS
    OutcomeIsTrue
    NoFasterThan3BV
    AnalysisIsExact
    SolverIsSafe
CHECK_DEADLOCK FALSE
