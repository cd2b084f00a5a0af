SPECIFICATION Spec
CONSTANTS
  h = h
  g1 = g1
  NoGuest = NoGuest
  Host = h
  Guests <- TwoGuests
  Full = 2
  RoundsPerMatch = 3
  WinsNeeded = 2
  RoundsPerRoom = 4
  NumBoards = 4
  MaxReplays = 2
  Overflows <- ActionOverflow
  MaxMatches = 2
  MaxEpoch = 1
INVARIANT
  RematchStartsWhenAllVote
CHECK_DEADLOCK FALSE
