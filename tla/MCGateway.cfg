CONSTANTS
    r1 = r1
    r2 = r2
    g1 = g1
    g2 = g2
    g3 = g3
    t1 = t1
    t2 = t2
    t3 = t3
    s1 = s1
    s2 = s2
    NoRoom = NoRoom
    NoGuest = NoGuest
    Rooms <- MCRooms
    Guests <- MCGuests
    Keys <- MCKeys
    Tokens = {t1, t2, t3}
    Epochs = {1, 2}
    Sockets = {s1, s2}
    Codes = {"C", "D"}
    MaxSessions = 2
    MaxRooms = 1
SPECIFICATION Spec
SYMMETRY Symmetry
CONSTRAINT Scope
INVARIANTS
    RoomsAreFound
    PresenceIsReal
    OnlyNewestSpeaks
PROPERTIES
    ClosedRoomsRest
CHECK_DEADLOCK FALSE
