CONSTANTS
    r1 = r1
    r2 = r2
    g1 = g1
    g2 = g2
    g3 = g3
    t1 = t1
    t2 = t2
    t3 = t3
    s1 = s1
    s2 = s2
    NoRoom = NoRoom
    NoGuest = NoGuest
    Rooms = {r1}
    Guests = {g1, g2}
    Keys <- LiveKeys
    Tokens = {t1, t2}
    Epochs = {1}
    Sockets = {s1, s2}
    Codes = {"C"}
    MaxSessions = 2
    MaxRooms = 1
SPECIFICATION FairSpec
PROPERTIES
    NothingLingers
    ShutdownCompletes
CHECK_DEADLOCK FALSE
