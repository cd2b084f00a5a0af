\* Two actions, a ring of two messages, one cached result.
SPECIFICATION Spec
CONSTANTS
    ActionIds = {a1, a2, a3}
    Boards <- BoardsDef
    NoBoard = "NONE"
    Finished <- FinishedDef
    Moves <- MovesDef
    NoCell = "NO_CELL"
    Play <- PlayDef
    Dealt <- DealtDef
    Open <- OpenDef
    RingLimit = 2
    CacheLimit = 1
    ActionLimit = 2
    MaxEpoch = 2
    MaxMatch = 2
    MaxRound = 2
    MaxSeq = 10
INVARIANTS
    AppliedOnce
    AcceptedMeansApplied
    MissedEventsAreRecovered
\* A closed room is not called again.
CHECK_DEADLOCK FALSE
