SPECIFICATION PartsSpec
CONSTANTS
    ActionIds <- ActionIdsDef
    Boards <- BoardsDef
    NoBoard <- NoBoardDef
    Finished <- FinishedDef
    Moves <- MovesDef
    NoCell = "NO_CELL"
    Play <- PlayDef
    Dealt <- DealtDef
    Open <- OpenDef
    Opened <- OpenedDef
    RingLimit = 30
    CacheLimit = 2
    ActionLimit = 10
    MaxEpoch = 1
    MaxMatch = 2
    MaxRound = 2
    MaxSeq = 20
    MaxEntries = 2
    MaxFlight = 2
    MaxActions = 3
    Proceedings = {"DEAL", "ACTIVATE", "END_ROUND", "END_MATCH", "REMATCH"}
INVARIANTS
    CopyAgrees
    NoFalseAlarm
PROPERTIES
    DuelEndsWithItsSocket
CHECK_DEADLOCK FALSE
