SPECIFICATION FairSpec
CONSTANTS
  h = h
  g1 = g1
  NoGuest = NoGuest
  Host = h
  Guests <- TwoGuests
  Full = 2
  RoundsPerMatch = 3
  WinsNeeded = 2
  RoundsPerRoom = 5
  NumBoards = 5
  MaxReplays = 2
  Overflows <- AnyOverflow
  MaxMatches = 2
  MaxEpoch = 2
INVARIANTS
  MatchHasBothPlayers
  TimersFitPhase
  ReplayFollowsMatch
  VotesBelongToWindow
PROPERTIES
  WinIsEarned
  ImplementsMatch
  RoomMovesOn
CHECK_DEADLOCK FALSE
