--------------------------- MODULE GatewayProofs ---------------------------
(***************************************************************************)
(* Proofs about Gateway, for all guests, rooms, codes, sockets and limits. *)
(* The maps of the manager, the presence of the players and the sockets    *)
(* only make sense together: a room may be forgotten because nobody is     *)
(* connected to it, which is true because a connected player has a socket, *)
(* whose epoch is the room's, which no second socket can have.             *)
(***************************************************************************)
EXTENDS Gateway, FiniteSetTheorems, TLAPS

(* A token names one ticket, which nobody has used yet.                    *)
TicketsSound ==
    /\ valid \subseteq Claims /\ unissued \subseteq Tokens
    /\ latest \in [Keys -> Epochs \cup {0}] /\ uses \in [Tokens -> 0 .. 1]
    /\ \A c \in valid : c.token \notin unissued /\ uses[c.token] = 0
    /\ \A c, d \in valid : c.token = d.token => c = d
    /\ \A token \in unissued : uses[token] = 0

(* What is counted is finite, although there may be no end of guests and   *)
(* rooms.                                                                  *)
GuestsSound ==
    /\ status \in {"RUNNING", "DRAINING", "STOPPED"}
    /\ newcomers \subseteq Guests
    /\ sessions \subseteq Guests
    /\ IsFiniteSet(sessions) /\ Cardinality(sessions) <= MaxSessions

(* A room not yet created has no past.                                     *)
ManagerSound ==
    /\ byId \subseteq Rooms /\ IsFiniteSet(byId) /\ Cardinality(byId) <= MaxRooms
    /\ byCode \in [Codes -> Rooms \cup {NoRoom}]
    /\ rooms \in [Rooms -> Room]
    /\ \A r \in Rooms : IsFiniteSet(rooms[r].players) /\ Cardinality(rooms[r].players) <= 2
    /\ \A r \in Rooms : rooms[r].status = "UNUSED" => rooms[r] = NewRoom
    /\ \A r \in byId : rooms[r].code \in Codes
    /\ RoomsAreFound

(* Who speaks for a player has a socket that is still here.                *)
VoicesSound ==
    /\ sockets \in [Sockets -> Socket]
    /\ \A s \in Sockets : sockets[s].authenticated =>
          Here(s) /\ sockets[s].room \in Rooms /\ sockets[s].guest \in Guests
    /\ OnlyNewestSpeaks
    /\ PresenceIsReal

(* The inductive invariant.                                                *)
Sound == TicketsSound /\ GuestsSound /\ ManagerSound /\ VoicesSound

(* The types follow from it.                                               *)
LEMMA SoundTypes == Sound => TypeOK
    BY DEF Sound, TicketsSound, GuestsSound, ManagerSound, VoicesSound, TypeOK
-----------------------------------------------------------------------------
LEMMA AddedFacts ==
    ASSUME NEW S, IsFiniteSet(S), NEW x, NEW n \in Nat, Cardinality(S) < n
    PROVE  IsFiniteSet(S \cup {x}) /\ Cardinality(S \cup {x}) <= n
<1>1. Cardinality(S) \in Nat
    BY FS_CardinalityType
<1>2. /\ IsFiniteSet(S \cup {x})
      /\ Cardinality(S \cup {x}) \in {Cardinality(S), Cardinality(S) + 1}
    BY FS_AddElement
<1> QED
    BY <1>1, <1>2

LEMMA EpochFacts ==
    /\ Epochs \subseteq Nat
    /\ \A room \in Room, g \in Guests : room.epoch[g] \in Nat
    /\ \A socket \in Socket : socket.epoch \in Nat
<1>1. Epochs \subseteq Nat /\ Epochs \cup {0} \subseteq Nat
    BY EpochAssumption
<1> QED
    BY <1>1 DEF Room, Socket

(* What a sweep leaves of the rooms.                                       *)
LEMMA SweptFacts ==
    ASSUME ManagerSound
    PROVE  /\ Idle \subseteq byId /\ Ids \subseteq byId
           /\ Swept \in [Rooms -> Room]
           /\ \A r \in Rooms :
                 /\ Swept[r].code = rooms[r].code /\ Swept[r].players = rooms[r].players
                 /\ Swept[r].connected = rooms[r].connected /\ Swept[r].epoch = rooms[r].epoch
           /\ \A r \in Idle : Swept[r].status = "CLOSED" /\ rooms[r].connected = {}
           /\ \A r \in Rooms \ Idle : Swept[r] = rooms[r]
<1>1. \A r \in Rooms : [rooms[r] EXCEPT !.status = "CLOSED"] \in Room
    BY DEF ManagerSound, Room
<1>2. Swept \in [Rooms -> Room]
    BY <1>1 DEF ManagerSound, Swept
<1>3. \A r \in Rooms :
         /\ Swept[r].code = rooms[r].code /\ Swept[r].players = rooms[r].players
         /\ Swept[r].connected = rooms[r].connected /\ Swept[r].epoch = rooms[r].epoch
    BY DEF ManagerSound, Swept, Room
<1>4. \A r \in Idle : Swept[r].status = "CLOSED" /\ rooms[r].connected = {}
    BY DEF ManagerSound, Swept, Room, Idle
<1> QED
    BY <1>2, <1>3, <1>4 DEF Swept, Idle, Ids

(* What a sweep leaves of the codes: the map of the rooms that are left.   *)
LEMMA CodesFacts ==
    ASSUME ManagerSound
    PROVE  /\ CodesLeft \in [Codes -> Rooms \cup {NoRoom}]
           /\ \A c \in Codes : CodesLeft[c] # NoRoom =>
                 CodesLeft[c] \in Ids /\ rooms[CodesLeft[c]].code = c
           /\ \A r \in Ids : CodesLeft[rooms[r].code] = r
<1>1. CodesLeft \in [Codes -> Rooms \cup {NoRoom}]
    BY DEF ManagerSound, CodesLeft
<1>2. ASSUME NEW c \in Codes, CodesLeft[c] # NoRoom
      PROVE  CodesLeft[c] \in Ids /\ rooms[CodesLeft[c]].code = c
  <2>1. CodesLeft[c] = byCode[c] /\ \A r \in Idle : rooms[r].code # c
      BY <1>2 DEF CodesLeft
  <2>2. byCode[c] \in byId /\ rooms[byCode[c]].code = c
      BY <1>2, <2>1 DEF ManagerSound, RoomsAreFound
  <2> QED
      BY <2>1, <2>2 DEF Ids
<1>3. ASSUME NEW r \in Ids
      PROVE  CodesLeft[rooms[r].code] = r
  <2>1. r \in byId /\ r \notin Idle /\ rooms[r].code \in Codes
      BY DEF ManagerSound, Ids
  <2>2. byCode[rooms[r].code] = r
      BY <2>1 DEF ManagerSound, RoomsAreFound
  <2>3. \A q \in Idle : rooms[q].code # rooms[r].code
      BY <2>1, <2>2 DEF ManagerSound, RoomsAreFound, Idle
  <2> QED
      BY <2>1, <2>2, <2>3 DEF CodesLeft
<1> QED
    BY <1>1, <1>2, <1>3

(* A sweep keeps the maps right, whatever happens at the same time in a    *)
(* room that is found.                                                     *)
LEMMA LookupSound ==
    ASSUME ManagerSound, Lookup, rooms' \in [Rooms -> Room],
           \A r \in Rooms :
              \/ rooms'[r] = Swept[r]
              \/ /\ r \in Ids
                 /\ rooms'[r].status = "OPEN" /\ rooms'[r].code = rooms[r].code
                 /\ IsFiniteSet(rooms'[r].players) /\ Cardinality(rooms'[r].players) <= 2
    PROVE  ManagerSound'
<1> USE SweptFacts
<1>1. byId' = Ids /\ Ids \subseteq Rooms /\ IsFiniteSet(Ids) /\ Cardinality(Ids) <= MaxRooms
  <2>1. Ids \subseteq byId /\ byId \subseteq Rooms /\ IsFiniteSet(byId)
      BY DEF ManagerSound
  <2>2. IsFiniteSet(Ids) /\ Cardinality(Ids) <= Cardinality(byId)
      BY <2>1, FS_Subset
  <2>3. Cardinality(Ids) \in Nat /\ Cardinality(byId) \in Nat
      BY <2>1, <2>2, FS_CardinalityType
  <2> QED
      BY <2>1, <2>2, <2>3, LimitAssumption DEF ManagerSound, Lookup
<1>2. byCode' = CodesLeft
    BY DEF Lookup
<1>3. \A r \in Rooms : IsFiniteSet(rooms'[r].players) /\ Cardinality(rooms'[r].players) <= 2
    BY DEF ManagerSound
<1>4. \A r \in Rooms : rooms'[r].status = "UNUSED" => rooms'[r] = NewRoom
    BY DEF ManagerSound
<1>5. \A r \in Ids : rooms'[r].code = rooms[r].code /\ rooms[r].code \in Codes
    BY <1>1 DEF ManagerSound
<1>6. \A r \in Rooms : r \in Ids <=> rooms'[r].status = "OPEN"
    BY DEF ManagerSound, RoomsAreFound, Ids
<1>7. \A r \in Rooms : rooms'[r].connected # {} => r \in Ids
    BY DEF ManagerSound, RoomsAreFound, Ids
<1>8. RoomsAreFound'
    BY <1>1, <1>2, <1>5, <1>6, <1>7, CodesFacts DEF RoomsAreFound
<1> QED
    BY <1>1, <1>2, <1>3, <1>4, <1>5, <1>8, CodesFacts DEF ManagerSound

(* What a room does of itself touches no map.                              *)
LEMMA RoomSound ==
    ASSUME ManagerSound, NEW r \in Rooms, NEW room \in Room, rooms[r].status = "OPEN",
           room.status = "OPEN", room.code = rooms[r].code, room.players = rooms[r].players,
           room.connected = rooms[r].connected,
           rooms' = [rooms EXCEPT ![r] = room], UNCHANGED <<byId, byCode>>
    PROVE  ManagerSound'
<1>1. rooms' \in [Rooms -> Room]
    BY DEF ManagerSound
<1>2. \A q \in Rooms :
         /\ rooms'[q].status = rooms[q].status /\ rooms'[q].code = rooms[q].code
         /\ rooms'[q].players = rooms[q].players /\ rooms'[q].connected = rooms[q].connected
         /\ q # r => rooms'[q] = rooms[q]
    BY DEF ManagerSound
<1>3. RoomsAreFound'
    BY <1>2 DEF ManagerSound, RoomsAreFound
<1> QED
    BY <1>1, <1>2, <1>3 DEF ManagerSound

(* A socket speaks for whom it spoke.                                      *)
SpeaksOn(s) ==
    /\ sockets'[s].authenticated = sockets[s].authenticated
    /\ sockets[s].authenticated =>
          /\ sockets'[s].room = sockets[s].room /\ sockets'[s].guest = sockets[s].guest
          /\ sockets'[s].epoch = sockets[s].epoch /\ sockets'[s].state # "NONE"

(* What touches neither connections nor who speaks changes no presence.    *)
LEMMA VoicesKept ==
    ASSUME VoicesSound, sockets' \in [Sockets -> Socket],
           \A s \in Sockets : SpeaksOn(s),
           \A r \in Rooms :
              rooms'[r].connected = rooms[r].connected /\ rooms'[r].epoch = rooms[r].epoch
    PROVE  VoicesSound'
<1>1. \A s \in Sockets : sockets'[s].authenticated =>
         Here(s)' /\ sockets'[s].room \in Rooms /\ sockets'[s].guest \in Guests
    BY DEF VoicesSound, Here, SpeaksOn
<1>2. \A s \in Sockets, r \in Rooms, g \in Guests : Speaks(s, r, g)' <=> Speaks(s, r, g)
    BY DEF Speaks, SpeaksOn
<1>3. OnlyNewestSpeaks'
    BY <1>2 DEF VoicesSound, OnlyNewestSpeaks, Speaks, SpeaksOn
<1>4. PresenceIsReal'
    BY <1>2 DEF VoicesSound, PresenceIsReal, Speaks, SpeaksOn
<1> QED
    BY <1>1, <1>3, <1>4 DEF VoicesSound
-----------------------------------------------------------------------------
(* What happens to tickets.                                                *)
LEMMA IssueSound ==
    ASSUME TicketsSound, NEW token \in Tokens, NEW key \in Keys, NEW epoch \in Epochs,
           Issue(token, key, epoch)
    PROVE  TicketsSound'
<1> DEFINE claim == [token |-> token, key |-> key, epoch |-> epoch]
<1>1. claim \in Claims /\ claim.token = token /\ token \in unissued
    BY DEF Claims, Issue
<1>2. valid' = valid \cup {claim} /\ unissued' = unissued \ {token} /\ uses' = uses
    BY DEF Issue
<1>3. latest' \in [Keys -> Epochs \cup {0}]
    BY DEF TicketsSound, Issue
<1>4. \A c \in valid' : c.token \notin unissued' /\ uses'[c.token] = 0
    BY <1>1, <1>2 DEF TicketsSound
<1>5. \A c, d \in valid' : c.token = d.token => c = d
    BY <1>1, <1>2 DEF TicketsSound
<1> QED
    BY <1>1, <1>2, <1>3, <1>4, <1>5 DEF TicketsSound

LEMMA UseSound ==
    ASSUME TicketsSound, NEW claim \in valid, Use(claim)
    PROVE  TicketsSound'
<1>1. claim.token \in Tokens /\ claim.token \notin unissued /\ uses[claim.token] = 0
    BY DEF TicketsSound, Claims
<1>2. uses' = [uses EXCEPT ![claim.token] = 1]
    BY <1>1 DEF Use, TicketsSound
<1>3. \A c \in valid' : c \in valid /\ c.token # claim.token /\ c.token \in Tokens
    BY DEF Use, TicketsSound, Claims
<1> QED
    BY <1>1, <1>2, <1>3 DEF Use, TicketsSound

LEMMA ExpireSound ==
    ASSUME TicketsSound, NEW claim \in valid, Expire({claim})
    PROVE  TicketsSound'
    BY DEF Expire, TicketsSound
-----------------------------------------------------------------------------
(* What the rooms do.                                                      *)
LEMMA ProceedsFacts ==
    ASSUME NEW room \in Room, NEW next \in Proceeds(room)
    PROVE  /\ next \in Room /\ next.status = room.status /\ next.code = room.code
           /\ next.players = room.players /\ next.connected = room.connected
           /\ next.epoch = room.epoch
    BY DEF Proceeds, Room

LEMMA AddPlayerFacts ==
    ASSUME NEW room \in Room, NEW g \in Guests, IsFiniteSet(room.players),
           Cardinality(room.players) < 2
    PROVE  /\ AddPlayer(room, g) \in Room
           /\ AddPlayer(room, g).status = room.status /\ AddPlayer(room, g).code = room.code
           /\ AddPlayer(room, g).connected = room.connected
           /\ AddPlayer(room, g).epoch = room.epoch
           /\ IsFiniteSet(AddPlayer(room, g).players)
           /\ Cardinality(AddPlayer(room, g).players) <= 2
<1>1. AddPlayer(room, g).players = room.players \cup {g}
    BY DEF AddPlayer, Room
<1>2. IsFiniteSet(room.players \cup {g}) /\ Cardinality(room.players \cup {g}) <= 2
    BY AddedFacts
<1>3. AddPlayer(room, g) \in Room
    BY DEF AddPlayer, Room
<1> QED
    BY <1>1, <1>2, <1>3 DEF AddPlayer, Room

LEMMA ConnectFacts ==
    ASSUME NEW room \in Room, NEW g \in Guests, NEW epoch \in Epochs
    PROVE  /\ Connect(room, g, epoch) \in Room
           /\ Connect(room, g, epoch).status = room.status
           /\ Connect(room, g, epoch).code = room.code
           /\ Connect(room, g, epoch).players = room.players
           /\ Connect(room, g, epoch).connected = room.connected \cup {g}
           /\ Connect(room, g, epoch).epoch = [room.epoch EXCEPT ![g] = epoch]
<1>1. [room.epoch EXCEPT ![g] = epoch] \in [Guests -> Epochs \cup {0}]
    BY DEF Room
<1> QED
    BY <1>1 DEF Connect, Room

LEMMA DisconnectFacts ==
    ASSUME NEW room \in Room, NEW g \in Guests, NEW epoch \in Nat
    PROVE  /\ Disconnect(room, g, epoch) \in Room
           /\ Disconnect(room, g, epoch).status = room.status
           /\ Disconnect(room, g, epoch).code = room.code
           /\ Disconnect(room, g, epoch).players = room.players
           /\ Disconnect(room, g, epoch).epoch = room.epoch
           /\ \A h \in Guests :
                 h \in Disconnect(room, g, epoch).connected <=>
                    h \in room.connected /\ ~(h = g /\ epoch = room.epoch[g])
    BY DEF Disconnect, Room

LEMMA HandleActionFacts ==
    ASSUME NEW room \in Room, NEW g \in Guests, NEW next \in HandleAction(room, g)
    PROVE  /\ next \in Room /\ next.status = room.status /\ next.code = room.code
           /\ next.players = room.players /\ next.connected = room.connected
           /\ next.epoch = room.epoch
<1> DEFINE woken == [room EXCEPT !.idle = FALSE]
<1>1. /\ woken \in Room /\ woken.status = room.status /\ woken.code = room.code
      /\ woken.players = room.players /\ woken.connected = room.connected
      /\ woken.epoch = room.epoch
    BY DEF Room
<1>2. next = room \/ next \in Proceeds(woken)
    BY DEF HandleAction
<1>3. CASE next = room
    BY <1>3
<1>4. CASE next \in Proceeds(woken)
  <2> HIDE DEF woken
  <2> QED
      BY <1>1, <1>4, ProceedsFacts
<1> QED
    BY <1>2, <1>3, <1>4

(* What becomes of a socket until it is closed.                            *)
Touched(socket) ==
    {socket, Heard(socket), Closing(socket), Closing(Heard(socket)),
     [Closing(socket) EXCEPT !.hello = FALSE], [socket EXCEPT !.silent = TRUE]}

LEMMA ClosingFacts ==
    ASSUME NEW socket \in Socket, NEW next \in Touched(socket)
    PROVE  /\ next \in Socket /\ next.authenticated = socket.authenticated
           /\ next.room = socket.room /\ next.guest = socket.guest
           /\ next.epoch = socket.epoch /\ next.state \in {socket.state, "CLOSING"}
    BY DEF Touched, Heard, Closing, Socket
-----------------------------------------------------------------------------
LEMMA InitSound == Init => Sound
<1> SUFFICES ASSUME Init PROVE Sound
    OBVIOUS
<1> USE DEF Init
<1>1. TicketsSound
    BY DEF TicketsInit, TicketsSound
<1>2. IsFiniteSet({}) /\ Cardinality({}) = 0
    BY FS_EmptySet
<1>3. GuestsSound
    BY <1>2, LimitAssumption DEF GuestsSound
<1>4. NewRoom \in Room /\ NewRoom.status = "UNUSED" /\ NewRoom.players = {}
      /\ NewRoom.connected = {}
    BY DEF NewRoom, Room
<1>5. RoomsAreFound
    BY <1>4 DEF RoomsAreFound
<1>6. ManagerSound
    BY <1>2, <1>4, <1>5, LimitAssumption DEF ManagerSound
<1>7. NoSocket \in Socket /\ ~NoSocket.authenticated
    BY DEF NoSocket, Socket
<1>8. \A s \in Sockets, r \in Rooms, g \in Guests : ~Speaks(s, r, g)
    BY <1>7 DEF Speaks
<1>9. VoicesSound
    BY <1>4, <1>7, <1>8 DEF VoicesSound, OnlyNewestSpeaks, PresenceIsReal
<1> QED
    BY <1>1, <1>3, <1>6, <1>9 DEF Sound

(* A room is created: the code that it gets leads nowhere else, and its    *)
(* id has never been heard of.                                             *)
LEMMA CreateRoomSound ==
    ASSUME Sound, NEW g \in sessions, NEW r \in Rooms, NEW c \in Codes,
           NEW token \in unissued, NEW epoch \in Epochs, CreateRoom(g, r, c, token, epoch)
    PROVE  Sound'
<1> USE DEF Sound
<1>1. g \in Guests /\ <<r, g>> \in Keys /\ token \in Tokens
    BY SeatAssumption DEF GuestsSound, TicketsSound
<1>2. TicketsSound' /\ GuestsSound'
    BY <1>1, IssueSound DEF CreateRoom, guests, GuestsSound
<1> DEFINE opened == [NewRoom EXCEPT !.status = "OPEN", !.code = c]
           room == AddPlayer(opened, g)
<1>3. rooms[r] = NewRoom /\ r \notin byId /\ Swept[r] = NewRoom
  <2>1. rooms[r] = NewRoom /\ r \notin byId
      BY DEF CreateRoom, ManagerSound, RoomsAreFound
  <2> QED
      BY <2>1, SweptFacts
<1>4. /\ opened \in Room /\ opened.status = "OPEN" /\ opened.code = c
      /\ opened.connected = {} /\ opened.players = {} /\ opened.epoch = NewRoom.epoch
    BY DEF NewRoom, Room
<1>5. /\ room \in Room /\ room.status = "OPEN" /\ room.code = c /\ room.connected = {}
      /\ room.epoch = NewRoom.epoch
      /\ IsFiniteSet(room.players) /\ Cardinality(room.players) <= 2
  <2>1. IsFiniteSet({}) /\ Cardinality({}) < 2
      BY FS_EmptySet
  <2> HIDE DEF opened
  <2> QED
      BY <1>1, <1>4, <2>1, AddPlayerFacts
<1>6. rooms' = [Swept EXCEPT ![r] = room]
    BY <1>3 DEF CreateRoom
<1> HIDE DEF room
<1>7. rooms'[r] = room /\ \A q \in Rooms \ {r} : rooms'[q] = Swept[q]
    BY <1>6, SweptFacts
<1>8. rooms' \in [Rooms -> Room]
    BY <1>5, <1>6, SweptFacts
<1>9. /\ byId' = Ids \cup {r} /\ r \notin Ids /\ IsFiniteSet(byId')
      /\ Cardinality(byId') <= MaxRooms
  <2>1. IsFiniteSet(Ids)
      BY SweptFacts, FS_Subset DEF ManagerSound
  <2>2. IsFiniteSet(Ids \cup {r}) /\ Cardinality(Ids \cup {r}) <= MaxRooms
      BY <2>1, AddedFacts, LimitAssumption DEF CreateRoom, SpaceLeft
  <2> QED
      BY <1>3, <2>2, SweptFacts DEF CreateRoom
<1>10. /\ byCode' = [CodesLeft EXCEPT ![c] = r] /\ CodesLeft[c] = NoRoom
       /\ byCode' \in [Codes -> Rooms \cup {NoRoom}]
    BY CodesFacts DEF CreateRoom
<1>11. \A q \in Ids : q \in Rooms /\ rooms'[q] = rooms[q] /\ rooms[q].code # c
                      /\ rooms[q].code \in Codes
    BY <1>7, <1>9, <1>10, CodesFacts, SweptFacts, NobodyAssumption DEF ManagerSound, Ids
<1>12. RoomsAreFound'
  <2>1. \A q \in Rooms : q \in byId' <=> rooms'[q].status = "OPEN"
      BY <1>5, <1>7, <1>9, SweptFacts DEF ManagerSound, RoomsAreFound, Ids
  <2>2. \A q \in byId' : byCode'[rooms'[q].code] = q
      BY <1>5, <1>7, <1>9, <1>10, <1>11, CodesFacts
  <2>3. \A d \in Codes : byCode'[d] # NoRoom => byCode'[d] \in byId' /\ rooms'[byCode'[d]].code = d
      BY <1>5, <1>7, <1>9, <1>10, <1>11, CodesFacts
  <2>4. \A q \in Rooms : rooms'[q].connected # {} => q \in byId'
      BY <1>7, <1>9, SweptFacts DEF ManagerSound, RoomsAreFound, Ids
  <2> QED
      BY <2>1, <2>2, <2>3, <2>4 DEF RoomsAreFound
<1>13. ManagerSound'
  <2>1. \A q \in Rooms :
           /\ IsFiniteSet(rooms'[q].players) /\ Cardinality(rooms'[q].players) <= 2
           /\ rooms'[q].status = "UNUSED" => rooms'[q] = NewRoom
      BY <1>5, <1>7, SweptFacts DEF ManagerSound
  <2>2. \A q \in byId' : rooms'[q].code \in Codes
      BY <1>5, <1>7, <1>9, <1>11
  <2>3. byId' \subseteq Rooms
      BY <1>9, SweptFacts DEF ManagerSound
  <2> QED
      BY <1>8, <1>9, <1>10, <1>12, <2>1, <2>2, <2>3 DEF ManagerSound
<1>14. VoicesSound'
  <2>1. NewRoom.connected = {}
      BY DEF NewRoom
  <2>2. \A q \in Rooms : rooms'[q].connected = rooms[q].connected /\ rooms'[q].epoch = rooms[q].epoch
      BY <1>3, <1>5, <1>7, <2>1, SweptFacts
  <2>3. sockets' = sockets
      BY DEF CreateRoom
  <2>4. \A s \in Sockets : SpeaksOn(s)
      BY <2>3 DEF VoicesSound, Here, SpeaksOn
  <2> QED
      BY <2>2, <2>3, <2>4, VoicesKept DEF VoicesSound
<1> QED
    BY <1>2, <1>13, <1>14

LEMMA JoinRoomSound ==
    ASSUME Sound, NEW g \in sessions, NEW c \in Codes, NEW token \in unissued,
           NEW epoch \in Epochs, JoinRoom(g, c, token, epoch)
    PROVE  Sound'
<1> USE DEF Sound
<1> DEFINE r == CodesLeft[c]
<1>1. r \in Ids /\ r \in Rooms /\ Swept[r] = rooms[r] /\ rooms[r].status = "OPEN"
    BY CodesFacts, SweptFacts DEF JoinRoom, ManagerSound, RoomsAreFound, Ids
<1> HIDE DEF r
<1>2. g \in Guests /\ <<r, g>> \in Keys /\ token \in Tokens
    BY <1>1, SeatAssumption DEF GuestsSound, TicketsSound
<1>3. TicketsSound' /\ GuestsSound'
    BY <1>2, IssueSound DEF JoinRoom, r, guests, GuestsSound
<1> DEFINE room == AddPlayer(rooms[r], g)
<1>4. /\ room \in Room /\ room.status = "OPEN" /\ room.code = rooms[r].code
      /\ room.connected = rooms[r].connected /\ room.epoch = rooms[r].epoch
      /\ IsFiniteSet(room.players) /\ Cardinality(room.players) <= 2
  <2>1. rooms[r] \in Room /\ IsFiniteSet(rooms[r].players)
        /\ Cardinality(rooms[r].players) < 2
    <3>1. IsFiniteSet(rooms[r].players) /\ ~(Cardinality(rooms[r].players) >= 2)
        BY <1>1 DEF ManagerSound, JoinRoom, IsFull, r
    <3> QED
        BY <1>1, <3>1, FS_CardinalityType DEF ManagerSound
  <2> QED
      BY <1>1, <1>2, <2>1, AddPlayerFacts
<1>5. rooms' = [Swept EXCEPT ![r] = room]
    BY <1>1 DEF JoinRoom, r
<1> HIDE DEF room
<1>6. rooms'[r] = room /\ rooms' \in [Rooms -> Room]
      /\ \A q \in Rooms \ {r} : rooms'[q] = Swept[q]
    BY <1>1, <1>4, <1>5, SweptFacts
<1>7. Lookup
    BY DEF JoinRoom
<1>8. ManagerSound'
    BY <1>1, <1>4, <1>6, <1>7, LookupSound
<1>9. VoicesSound'
  <2>1. \A q \in Rooms : rooms'[q].connected = rooms[q].connected /\ rooms'[q].epoch = rooms[q].epoch
      BY <1>4, <1>6, SweptFacts
  <2>2. sockets' = sockets
      BY DEF JoinRoom
  <2>3. \A s \in Sockets : SpeaksOn(s)
      BY <2>2 DEF VoicesSound, Here, SpeaksOn
  <2> QED
      BY <2>1, <2>2, <2>3, VoicesKept DEF VoicesSound
<1> QED
    BY <1>3, <1>8, <1>9

(* HELLO: the room accepts the ticket only above the epoch it knows, so    *)
(* that no socket speaks with the new one yet.                             *)
LEMMA HelloSound ==
    ASSUME Sound, NEW s \in Sockets, NEW claim \in valid, Hello(s, claim)
    PROVE  Sound'
<1> USE DEF Sound
<1> DEFINE r == claim.key[1]
           g == claim.key[2]
<1>1. r \in Rooms /\ g \in Guests /\ claim.epoch \in Epochs
    BY SeatAssumption DEF TicketsSound, Claims
<1>2. TicketsSound' /\ GuestsSound'
    BY UseSound DEF Hello, guests, GuestsSound
<1>3. Lookup /\ sockets[s] \in Socket /\ ~sockets[s].authenticated
    BY DEF Hello, VoicesSound
<1>4. CASE Found(r) /\ Accepts(rooms[r], g, claim.epoch)
  <2> DEFINE room == Connect(rooms[r], g, claim.epoch)
             socket == [Heard(sockets[s]) EXCEPT
                           !.authenticated = TRUE, !.room = r, !.guest = g,
                           !.epoch = claim.epoch, !.hello = FALSE]
  <2>1. r \in Ids /\ rooms[r] \in Room /\ rooms[r].status = "OPEN" /\ Swept[r] = rooms[r]
      BY <1>1, <1>4, SweptFacts DEF Found, ManagerSound, RoomsAreFound, Ids
  <2>2. /\ room \in Room /\ room.status = "OPEN" /\ room.code = rooms[r].code
        /\ room.players = rooms[r].players /\ room.connected = rooms[r].connected \cup {g}
        /\ room.epoch = [rooms[r].epoch EXCEPT ![g] = claim.epoch]
      BY <1>1, <2>1, ConnectFacts
  <2>3. /\ socket \in Socket /\ socket.authenticated /\ socket.room = r /\ socket.guest = g
        /\ socket.epoch = claim.epoch /\ socket.state = sockets[s].state
      BY <1>1, <1>3 DEF Heard, Socket
  <2>4. /\ rooms' = [Swept EXCEPT ![r] = room]
        /\ sockets' = [sockets EXCEPT ![s] = socket]
      BY <1>4, <2>1 DEF Hello
  <2> HIDE DEF room, socket
  <2>5. rooms' \in [Rooms -> Room] /\ rooms'[r] = room
        /\ \A q \in Rooms \ {r} : rooms'[q] = Swept[q]
      BY <1>1, <2>2, <2>4, SweptFacts
  <2>6. ManagerSound'
    <3>1. IsFiniteSet(room.players) /\ Cardinality(room.players) <= 2
        BY <1>1, <2>2 DEF ManagerSound
    <3> QED
        BY <1>3, <2>1, <2>2, <2>5, <3>1, LookupSound
  <2>7. /\ sockets' \in [Sockets -> Socket] /\ sockets'[s] = socket
        /\ \A u \in Sockets \ {s} : sockets'[u] = sockets[u]
      BY <2>3, <2>4 DEF VoicesSound
  <2>8. \A u \in Sockets : sockets'[u].authenticated =>
         Here(u)' /\ sockets'[u].room \in Rooms /\ sockets'[u].guest \in Guests
      BY <1>1, <2>3, <2>7 DEF Hello, VoicesSound, Here
  <2>9. \A q \in Rooms, h \in Guests :
           /\ rooms'[q].epoch[h] = IF q = r /\ h = g THEN claim.epoch ELSE rooms[q].epoch[h]
           /\ h \in rooms'[q].connected <=> (q = r /\ h = g) \/ h \in rooms[q].connected
    <3>1. rooms[r].epoch \in [Guests -> Epochs \cup {0}]
        BY <2>1 DEF Room
    <3> QED
        BY <2>2, <2>5, <3>1, SweptFacts
  <2>10. \A u \in Sockets, q \in Rooms, h \in Guests :
            Speaks(u, q, h)' <=> Speaks(u, q, h) \/ (u = s /\ q = r /\ h = g)
      BY <1>3, <2>3, <2>7 DEF Speaks
  <2>11. \A u \in Sockets : Speaks(u, r, g) =>
            u # s /\ sockets[u].epoch < claim.epoch
    <3>1. claim.epoch > rooms[r].epoch[g]
        BY <1>4 DEF Accepts
    <3>2. /\ claim.epoch \in Nat /\ rooms[r].epoch[g] \in Nat
          /\ \A u \in Sockets : sockets[u].epoch \in Nat
        BY <1>1, <2>1, EpochFacts DEF VoicesSound
    <3> QED
        BY <1>1, <1>3, <3>1, <3>2 DEF VoicesSound, OnlyNewestSpeaks, Speaks
  <2>12. OnlyNewestSpeaks'
    <3> SUFFICES ASSUME NEW u \in Sockets, NEW q \in Rooms, NEW h \in Guests, Speaks(u, q, h)'
                 PROVE  /\ sockets'[u].epoch <= rooms'[q].epoch[h]
                        /\ \A w \in Sockets \ {u} :
                              Speaks(w, q, h)' => sockets'[w].epoch # sockets'[u].epoch
        BY DEF OnlyNewestSpeaks
    <3>1. CASE q = r /\ h = g
      <4>1. /\ sockets'[s].epoch = claim.epoch /\ rooms'[q].epoch[h] = claim.epoch
            /\ claim.epoch \in Nat
          BY <1>1, <2>3, <2>7, <2>9, <3>1, EpochFacts
      <4>2. \A w \in Sockets \ {s} : Speaks(w, q, h)' =>
               /\ Speaks(w, r, g) /\ sockets'[w].epoch = sockets[w].epoch
               /\ sockets[w].epoch < claim.epoch /\ sockets[w].epoch \in Nat
          BY <2>7, <2>10, <2>11, <3>1, EpochFacts DEF VoicesSound
      <4>3. \A w \in Sockets \ {u} : Speaks(w, q, h)' => sockets'[w].epoch # sockets'[u].epoch
        <5>1. CASE u = s
            BY <4>1, <4>2, <5>1
        <5>2. CASE u # s
          <6>1. Speaks(u, r, g)
              BY <4>2, <5>2
          <6> QED
              BY <1>1, <2>7, <4>1, <4>2, <5>2, <6>1 DEF VoicesSound, OnlyNewestSpeaks
        <5> QED
            BY <5>1, <5>2
      <4> QED
          BY <4>1, <4>2, <4>3
    <3>2. CASE ~(q = r /\ h = g)
      <4>1. \A w \in Sockets : Speaks(w, q, h)' <=> Speaks(w, q, h)
          BY <2>10, <3>2
      <4>2. \A w \in Sockets : Speaks(w, q, h) => w # s /\ sockets'[w] = sockets[w]
          BY <1>3, <2>7 DEF Speaks
      <4>3. rooms'[q].epoch[h] = rooms[q].epoch[h]
          BY <2>9, <3>2
      <4> QED
          BY <4>1, <4>2, <4>3 DEF VoicesSound, OnlyNewestSpeaks
    <3> QED
        BY <3>1, <3>2
  <2>13. PresenceIsReal'
    <3> SUFFICES ASSUME NEW q \in Rooms, NEW h \in Guests
                 PROVE  h \in rooms'[q].connected <=>
                           \E u \in Sockets : Speaks(u, q, h)' /\ sockets'[u].epoch = rooms'[q].epoch[h]
        BY DEF PresenceIsReal
    <3>1. CASE q = r /\ h = g
        BY <2>3, <2>7, <2>9, <2>10, <3>1
    <3>2. CASE ~(q = r /\ h = g)
      <4>1. \A w \in Sockets : Speaks(w, q, h)' <=> Speaks(w, q, h)
          BY <2>10, <3>2
      <4>2. \A w \in Sockets : Speaks(w, q, h) => sockets'[w] = sockets[w]
          BY <1>3, <2>7 DEF Speaks
      <4>3. rooms'[q].epoch[h] = rooms[q].epoch[h]
            /\ (h \in rooms'[q].connected <=> h \in rooms[q].connected)
          BY <2>9, <3>2
      <4> QED
          BY <4>1, <4>2, <4>3 DEF VoicesSound, PresenceIsReal
    <3> QED
        BY <3>1, <3>2
  <2> QED
      BY <1>2, <2>6, <2>7, <2>8, <2>12, <2>13 DEF VoicesSound
<1>5. CASE ~(Found(r) /\ Accepts(rooms[r], g, claim.epoch))
  <2>1. rooms' = Swept /\ sockets' = [sockets EXCEPT ![s] = Closing(Heard(sockets[s]))]
      BY <1>5 DEF Hello
  <2>2. ManagerSound'
      BY <1>3, <2>1, LookupSound, SweptFacts
  <2>3. VoicesSound'
    <3>1. /\ Closing(Heard(sockets[s])) \in Socket
          /\ Closing(Heard(sockets[s])).authenticated = sockets[s].authenticated
        BY <1>3, ClosingFacts DEF Touched
    <3>2. sockets' \in [Sockets -> Socket] /\ \A u \in Sockets : SpeaksOn(u)
        BY <1>3, <2>1, <3>1 DEF VoicesSound, SpeaksOn, Here
    <3> QED
        BY <2>1, <3>2, SweptFacts, VoicesKept
  <2> QED
      BY <1>2, <2>2, <2>3
<1> QED
    BY <1>4, <1>5

(* A socket is closed: its player goes only when no newer one speaks for   *)
(* him, and then nobody does.                                              *)
LEMMA CloseEventSound ==
    ASSUME Sound, NEW s \in Sockets, CloseEvent(s)
    PROVE  Sound'
<1> USE DEF Sound
<1> DEFINE r == sockets[s].room
           g == sockets[s].guest
           e == sockets[s].epoch
<1>1. TicketsSound' /\ GuestsSound'
    BY DEF CloseEvent, tickets, guests, TicketsSound, GuestsSound
<1>2. NoSocket \in Socket /\ ~NoSocket.authenticated
    BY DEF NoSocket, Socket
<1>3. /\ sockets' \in [Sockets -> Socket] /\ ~sockets'[s].authenticated
      /\ \A u \in Sockets \ {s} : sockets'[u] = sockets[u]
    BY <1>2 DEF CloseEvent, VoicesSound
<1>4. \A u \in Sockets : sockets'[u].authenticated =>
         Here(u)' /\ sockets'[u].room \in Rooms /\ sockets'[u].guest \in Guests
    BY <1>3 DEF VoicesSound, Here
<1>5. \A u \in Sockets, q \in Rooms, h \in Guests :
         Speaks(u, q, h)' <=> u # s /\ Speaks(u, q, h)
    BY <1>3 DEF Speaks
<1>6. CASE sockets[s].authenticated
  <2>1. Lookup /\ r \in Rooms
      BY <1>6 DEF CloseEvent, VoicesSound
  <2>2. CASE Found(r)
    <3> DEFINE room == Disconnect(rooms[r], g, e)
    <3>1. /\ r \in Ids /\ rooms[r] \in Room /\ rooms[r].status = "OPEN"
          /\ Swept[r] = rooms[r] /\ g \in Guests /\ e \in Nat
        BY <1>6, <2>1, <2>2, SweptFacts, EpochFacts DEF Found, ManagerSound, RoomsAreFound, Ids, VoicesSound
    <3>2. /\ room \in Room /\ room.status = "OPEN" /\ room.code = rooms[r].code
          /\ room.players = rooms[r].players /\ room.epoch = rooms[r].epoch
          /\ \A h \in Guests :
                h \in room.connected <=>
                   h \in rooms[r].connected /\ ~(h = g /\ e = rooms[r].epoch[g])
      <4> HIDE DEF r, g, e
      <4> QED
          BY <3>1, DisconnectFacts
    <3>3. rooms' = [Swept EXCEPT ![r] = room]
        BY <1>6, <2>2, <3>1 DEF CloseEvent
    <3> HIDE DEF room
    <3>4. rooms' \in [Rooms -> Room] /\ rooms'[r] = room
          /\ \A q \in Rooms \ {r} : rooms'[q] = Swept[q]
        BY <2>1, <3>2, <3>3, SweptFacts
    <3>5. ManagerSound'
      <4>1. IsFiniteSet(room.players) /\ Cardinality(room.players) <= 2
          BY <2>1, <3>2 DEF ManagerSound
      <4> QED
          BY <2>1, <3>1, <3>2, <3>4, <4>1, LookupSound
    <3>6. \A q \in Rooms : rooms'[q].epoch = rooms[q].epoch
        BY <3>2, <3>4, SweptFacts
    <3>7. \A q \in Rooms, h \in Guests :
             h \in rooms'[q].connected <=>
                h \in rooms[q].connected /\ ~(q = r /\ h = g /\ e = rooms[q].epoch[h])
        BY <3>2, <3>4, SweptFacts
    <3>8. OnlyNewestSpeaks'
        BY <1>3, <1>5, <3>6 DEF VoicesSound, OnlyNewestSpeaks
    <3>9. PresenceIsReal'
      <4> SUFFICES ASSUME NEW q \in Rooms, NEW h \in Guests
                   PROVE  h \in rooms'[q].connected <=>
                             \E u \in Sockets :
                                Speaks(u, q, h)' /\ sockets'[u].epoch = rooms'[q].epoch[h]
          BY DEF PresenceIsReal
      <4>1. h \in rooms[q].connected <=>
               \E u \in Sockets : Speaks(u, q, h) /\ sockets[u].epoch = rooms[q].epoch[h]
          BY DEF VoicesSound, PresenceIsReal
      <4>2. CASE q = r /\ h = g /\ e = rooms[q].epoch[h]
        <5>1. Speaks(s, q, h)
            BY <1>6, <4>2 DEF Speaks
        <5>2. \A u \in Sockets \ {s} : Speaks(u, q, h) => sockets[u].epoch # e
            BY <5>1 DEF VoicesSound, OnlyNewestSpeaks
        <5> QED
            BY <1>3, <1>5, <3>6, <3>7, <4>2, <5>2
      <4>3. CASE ~(q = r /\ h = g /\ e = rooms[q].epoch[h])
        <5>1. ~(Speaks(s, q, h) /\ sockets[s].epoch = rooms[q].epoch[h])
            BY <4>3 DEF Speaks
        <5> QED
            BY <1>3, <1>5, <3>6, <3>7, <4>1, <4>3, <5>1
      <4> QED
          BY <4>2, <4>3
    <3> QED
        BY <1>1, <1>3, <1>4, <3>5, <3>8, <3>9 DEF VoicesSound
  <2>3. CASE ~Found(r)
    <3>1. rooms' = Swept
        BY <1>6, <2>3 DEF CloseEvent
    <3>2. ManagerSound'
        BY <2>1, <3>1, LookupSound, SweptFacts
    <3>3. rooms[r].connected = {}
        BY <2>1, <2>3, SweptFacts DEF Found, Ids, ManagerSound, RoomsAreFound
    <3>4. \A h \in Guests : Speaks(s, r, h) => sockets[s].epoch # rooms[r].epoch[h]
        BY <2>1, <3>3 DEF VoicesSound, PresenceIsReal
    <3>5. \A q \in Rooms : rooms'[q].connected = rooms[q].connected /\ rooms'[q].epoch = rooms[q].epoch
        BY <3>1, SweptFacts
    <3>6. OnlyNewestSpeaks'
        BY <1>3, <1>5, <3>5 DEF VoicesSound, OnlyNewestSpeaks
    <3>7. PresenceIsReal'
      <4>1. \A q \in Rooms, h \in Guests :
               Speaks(s, q, h) => sockets[s].epoch # rooms[q].epoch[h]
          BY <3>4 DEF Speaks
      <4> QED
          BY <1>3, <1>5, <3>5, <4>1 DEF VoicesSound, PresenceIsReal
    <3> QED
        BY <1>1, <1>3, <1>4, <3>2, <3>6, <3>7 DEF VoicesSound
  <2> QED
      BY <2>2, <2>3
<1>7. CASE ~sockets[s].authenticated
  <2>1. UNCHANGED manager
      BY <1>7 DEF CloseEvent
  <2>2. ManagerSound'
      BY <2>1 DEF manager, ManagerSound, RoomsAreFound
  <2>3. \A u \in Sockets, q \in Rooms, h \in Guests : Speaks(u, q, h) => u # s
      BY <1>7 DEF Speaks
  <2>4. OnlyNewestSpeaks'
      BY <1>3, <1>5, <2>1 DEF manager, VoicesSound, OnlyNewestSpeaks
  <2>5. PresenceIsReal'
      BY <1>3, <1>5, <2>1, <2>3 DEF manager, VoicesSound, PresenceIsReal
  <2> QED
      BY <1>1, <1>3, <1>4, <2>2, <2>4, <2>5 DEF VoicesSound
<1> QED
    BY <1>6, <1>7

(* The sweep, and an action of a player, of whose room no map knows more.  *)
LEMMA SweepSound ==
    ASSUME Sound, Sweep
    PROVE  Sound'
<1> USE DEF Sound
<1>1. TicketsSound' /\ GuestsSound'
    BY DEF Sweep, tickets, guests, TicketsSound, GuestsSound
<1>2. ManagerSound'
    BY LookupSound, SweptFacts DEF Sweep
<1>3. sockets' = sockets
    BY DEF Sweep
<1>4. VoicesSound'
    BY <1>3, SweptFacts, VoicesKept DEF Sweep, VoicesSound, Here, SpeaksOn
<1> QED
    BY <1>1, <1>2, <1>4

LEMMA ActSound ==
    ASSUME Sound, NEW s \in Sockets, Act(s)
    PROVE  Sound'
<1> USE DEF Sound
<1> DEFINE r == sockets[s].room
<1>1. TicketsSound' /\ GuestsSound'
    BY DEF Act, tickets, guests, TicketsSound, GuestsSound
<1>2. /\ Lookup /\ r \in Rooms /\ sockets[s] \in Socket /\ sockets[s].guest \in Guests
      /\ sockets[s].state # "NONE"
    BY DEF Act, VoicesSound, Here
<1>3. sockets' \in [Sockets -> Socket]
      /\ \A u \in Sockets : SpeaksOn(u)
  <2>1. PICK next \in {Heard(sockets[s]), Closing(Heard(sockets[s]))} :
            sockets' = [sockets EXCEPT ![s] = next]
      BY DEF Act
  <2>2. next \in Touched(sockets[s])
      BY <2>1 DEF Touched
  <2>3. /\ next \in Socket /\ next.authenticated = sockets[s].authenticated
        /\ next.room = sockets[s].room /\ next.guest = sockets[s].guest
        /\ next.epoch = sockets[s].epoch /\ next.state # "NONE"
      BY <1>2, <2>2, ClosingFacts
  <2> QED
      BY <2>1, <2>3 DEF VoicesSound, Here, SpeaksOn
<1>4. CASE Found(r)
  <2>1. r \in Ids /\ rooms[r] \in Room /\ rooms[r].status = "OPEN" /\ Swept[r] = rooms[r]
      BY <1>2, <1>4, SweptFacts DEF Found, ManagerSound, RoomsAreFound, Ids
  <2>2. PICK room \in HandleAction(rooms[r], sockets[s].guest) :
            rooms' = [Swept EXCEPT ![r] = room]
      BY <1>4 DEF Act
  <2>3. /\ room \in Room /\ room.status = "OPEN" /\ room.code = rooms[r].code
        /\ room.players = rooms[r].players /\ room.connected = rooms[r].connected
        /\ room.epoch = rooms[r].epoch
      BY <1>2, <2>1, HandleActionFacts
  <2>4. rooms' \in [Rooms -> Room] /\ rooms'[r] = room
        /\ \A q \in Rooms \ {r} : rooms'[q] = Swept[q]
      BY <1>2, <2>2, <2>3, SweptFacts
  <2>5. IsFiniteSet(room.players) /\ Cardinality(room.players) <= 2
      BY <1>2, <2>3 DEF ManagerSound
  <2>6. ManagerSound'
      BY <1>2, <2>1, <2>3, <2>4, <2>5, LookupSound
  <2>7. VoicesSound'
    <3>1. \A q \in Rooms :
             rooms'[q].connected = rooms[q].connected /\ rooms'[q].epoch = rooms[q].epoch
        BY <2>3, <2>4, SweptFacts
    <3> QED
        BY <1>3, <3>1, VoicesKept
  <2> QED
      BY <1>1, <2>6, <2>7
<1>5. CASE ~Found(r)
  <2>1. rooms' = Swept
      BY <1>5 DEF Act
  <2>2. ManagerSound'
      BY <1>2, <2>1, LookupSound, SweptFacts
  <2>3. VoicesSound'
      BY <1>3, <2>1, SweptFacts, VoicesKept
  <2> QED
      BY <1>1, <2>2, <2>3
<1> QED
    BY <1>4, <1>5

(* What a room does of itself, and its time-to-live.                       *)
LEMMA RoomStepSound ==
    ASSUME Sound, NEW r \in Rooms, RoomProceeds(r) \/ IdleTtlPasses(r)
    PROVE  Sound'
<1> USE DEF Sound
<1>1. TicketsSound' /\ GuestsSound' /\ UNCHANGED <<byId, byCode, sockets>>
    BY DEF RoomProceeds, IdleTtlPasses, tickets, guests, TicketsSound, GuestsSound
<1>2. rooms[r] \in Room /\ rooms[r].status = "OPEN"
    BY DEF RoomProceeds, IdleTtlPasses, ManagerSound
<1>3. PICK room \in Proceeds(rooms[r]) \cup {[rooms[r] EXCEPT !.idle = TRUE]} :
          rooms' = [rooms EXCEPT ![r] = room]
    BY DEF RoomProceeds, IdleTtlPasses
<1>4. /\ room \in Room /\ room.status = "OPEN" /\ room.code = rooms[r].code
      /\ room.players = rooms[r].players /\ room.connected = rooms[r].connected
      /\ room.epoch = rooms[r].epoch
  <2>1. CASE room \in Proceeds(rooms[r])
      BY <1>2, <2>1, ProceedsFacts
  <2>2. CASE room = [rooms[r] EXCEPT !.idle = TRUE]
      BY <1>2, <2>2 DEF Room
  <2> QED
      BY <2>1, <2>2
<1>5. ManagerSound'
    BY <1>1, <1>2, <1>3, <1>4, RoomSound
<1>6. \A q \in Rooms :
         rooms'[q].connected = rooms[q].connected /\ rooms'[q].epoch = rooms[q].epoch
    BY <1>3, <1>4 DEF ManagerSound
<1>7. VoicesSound'
    BY <1>1, <1>6, VoicesKept DEF VoicesSound, Here, SpeaksOn
<1> QED
    BY <1>1, <1>5, <1>7

(* What happens to sockets alone.                                          *)
LEMMA SocketStepSound ==
    ASSUME Sound, UNCHANGED <<tickets, guests, manager>>,
           status' \in {"RUNNING", "DRAINING", "STOPPED"},
           sockets' \in [Sockets -> Socket],
           \A s \in Sockets :
              \/ sockets'[s] \in Touched(sockets[s])
              \/ ~Here(s) /\ ~sockets'[s].authenticated
    PROVE  Sound'
<1> USE DEF Sound
<1>1. TicketsSound' /\ GuestsSound'
    BY DEF tickets, guests, TicketsSound, GuestsSound
<1>2. ManagerSound'
    BY DEF manager, ManagerSound, RoomsAreFound
<1>3. \A s \in Sockets : SpeaksOn(s)
  <2> SUFFICES ASSUME NEW s \in Sockets PROVE SpeaksOn(s)
      OBVIOUS
  <2>1. sockets[s] \in Socket /\ (sockets[s].authenticated => sockets[s].state # "NONE")
      BY DEF VoicesSound, Here
  <2>2. CASE sockets'[s] \in Touched(sockets[s])
      BY <2>1, <2>2, ClosingFacts DEF SpeaksOn
  <2>3. CASE ~Here(s) /\ ~sockets'[s].authenticated
      BY <2>1, <2>3 DEF SpeaksOn, Here, Socket, VoicesSound
  <2> QED
      BY <2>2, <2>3
<1>4. VoicesSound'
    BY <1>3, VoicesKept DEF manager
<1> QED
    BY <1>1, <1>2, <1>4

(* The same, of one socket.                                                *)
LEMMA OneSocketSound ==
    ASSUME Sound, NEW s \in Sockets, NEW next, UNCHANGED <<tickets, status, guests, manager>>,
           sockets' = [sockets EXCEPT ![s] = next],
           \/ next \in Touched(sockets[s])
           \/ ~Here(s) /\ next \in Socket /\ ~next.authenticated
    PROVE  Sound'
<1>1. sockets[s] \in Socket /\ sockets \in [Sockets -> Socket]
    BY DEF Sound, VoicesSound
<1>2. next \in Socket
    BY <1>1, ClosingFacts
<1>3. \A u \in Sockets :
         \/ sockets'[u] \in Touched(sockets[u])
         \/ ~Here(u) /\ ~sockets'[u].authenticated
    BY <1>1 DEF Touched
<1>4. sockets' \in [Sockets -> Socket] /\ status' \in {"RUNNING", "DRAINING", "STOPPED"}
    BY <1>1, <1>2 DEF Sound, GuestsSound
<1> QED
    BY <1>3, <1>4, SocketStepSound

(* The server goes: without sockets nobody is connected.                   *)
LEMMA CloseRoomsSound ==
    ASSUME Sound, CloseRooms
    PROVE  Sound'
<1> USE DEF Sound
<1>1. TicketsSound' /\ GuestsSound'
    BY DEF CloseRooms, tickets, guests, TicketsSound, GuestsSound
<1>2. \A s \in Sockets : ~sockets[s].authenticated
    BY DEF CloseRooms, VoicesSound
<1>3. \A r \in Rooms : rooms[r] \in Room /\ rooms[r].connected = {}
    BY <1>2 DEF VoicesSound, PresenceIsReal, Speaks, ManagerSound, Room
<1>4. /\ rooms' \in [Rooms -> Room]
      /\ \A r \in Rooms :
            /\ rooms'[r].players = rooms[r].players /\ rooms'[r].connected = rooms[r].connected
            /\ rooms'[r].epoch = rooms[r].epoch
            /\ r \in byId => rooms'[r].status = "CLOSED"
            /\ r \notin byId => rooms'[r] = rooms[r]
  <2> DEFINE Shut(room) == [room EXCEPT !.status = "CLOSED", !.playing = FALSE]
  <2>1. \A r \in Rooms :
           /\ Shut(rooms[r]) \in Room /\ Shut(rooms[r]).status = "CLOSED"
           /\ Shut(rooms[r]).players = rooms[r].players
           /\ Shut(rooms[r]).connected = rooms[r].connected
           /\ Shut(rooms[r]).epoch = rooms[r].epoch
      BY <1>3 DEF Room
  <2>2. rooms' = [r \in Rooms |-> IF r \in byId THEN Shut(rooms[r]) ELSE rooms[r]]
      BY DEF CloseRooms
  <2> HIDE DEF Shut
  <2> QED
      BY <1>3, <2>1, <2>2
<1>5. IsFiniteSet({}) /\ Cardinality({}) = 0
    BY FS_EmptySet
<1>6. byId' = {} /\ byCode' = [c \in Codes |-> NoRoom]
    BY DEF CloseRooms
<1>7. RoomsAreFound'
    BY <1>3, <1>4, <1>6 DEF ManagerSound, RoomsAreFound
<1>8. ManagerSound'
    BY <1>4, <1>5, <1>6, <1>7, LimitAssumption DEF ManagerSound
<1>9. VoicesSound'
    BY <1>2, <1>4, VoicesKept DEF CloseRooms, VoicesSound, SpeaksOn
<1> QED
    BY <1>1, <1>8, <1>9

LEMMA NextSound ==
    ASSUME Sound, [Next]_vars
    PROVE  Sound'
<1>1. CASE Sweep
    BY <1>1, SweepSound
<1>2. ASSUME NEW r \in Rooms, RoomProceeds(r) \/ IdleTtlPasses(r)
      PROVE  Sound'
    BY <1>2, RoomStepSound
<1>3. ASSUME NEW g \in newcomers, CreateSession(g)
      PROVE  Sound'
  <2>1. g \in Guests /\ Cardinality(sessions) < MaxSessions /\ sessions' = sessions \cup {g}
      BY <1>3 DEF CreateSession, Sound, GuestsSound
  <2>2. IsFiniteSet(sessions') /\ Cardinality(sessions') <= MaxSessions
      BY <2>1, AddedFacts, LimitAssumption DEF Sound, GuestsSound
  <2>3. GuestsSound'
      BY <1>3, <2>1, <2>2 DEF CreateSession, Sound, GuestsSound
  <2>4. TicketsSound' /\ ManagerSound'
      BY <1>3 DEF CreateSession, Sound, tickets, manager, TicketsSound, ManagerSound, RoomsAreFound
  <2>5. VoicesSound'
      BY <1>3, VoicesKept DEF CreateSession, Sound, manager, VoicesSound, Here, SpeaksOn
  <2> QED
      BY <2>3, <2>4, <2>5 DEF Sound
<1>4. ASSUME NEW g \in sessions, SessionExpires(g)
      PROVE  Sound'
  <2>1. sessions' \subseteq sessions /\ IsFiniteSet(sessions)
      BY <1>4 DEF SessionExpires, Sound, GuestsSound
  <2>2. IsFiniteSet(sessions') /\ Cardinality(sessions') <= MaxSessions
    <3>1. IsFiniteSet(sessions') /\ Cardinality(sessions') <= Cardinality(sessions)
        BY <2>1, FS_Subset
    <3>2. Cardinality(sessions') \in Nat /\ Cardinality(sessions) \in Nat
        BY <2>1, <3>1, FS_CardinalityType
    <3> QED
        BY <3>1, <3>2, LimitAssumption DEF Sound, GuestsSound
  <2>3. GuestsSound'
      BY <1>4, <2>1, <2>2 DEF SessionExpires, Sound, GuestsSound
  <2>4. TicketsSound' /\ ManagerSound'
      BY <1>4 DEF SessionExpires, Sound, tickets, manager, TicketsSound, ManagerSound, RoomsAreFound
  <2>5. VoicesSound'
      BY <1>4, VoicesKept DEF SessionExpires, Sound, manager, VoicesSound, Here, SpeaksOn
  <2> QED
      BY <2>3, <2>4, <2>5 DEF Sound
<1>5. ASSUME NEW g \in sessions, NEW r \in Rooms, NEW c \in Codes, NEW token \in unissued,
             NEW epoch \in Epochs, CreateRoom(g, r, c, token, epoch)
      PROVE  Sound'
    BY <1>5, CreateRoomSound
<1>6. ASSUME NEW g \in sessions, NEW c \in Codes, NEW token \in unissued, NEW epoch \in Epochs,
             JoinRoom(g, c, token, epoch)
      PROVE  Sound'
    BY <1>6, JoinRoomSound
<1>7. ASSUME NEW r \in Rooms, NEW g \in Guests, NEW token \in unissued, NEW epoch \in Epochs,
             Reissue(r, g, token, epoch)
      PROVE  Sound'
  <2>1. <<r, g>> \in Keys /\ token \in Tokens /\ Issue(token, <<r, g>>, epoch)
      BY <1>7, SeatAssumption DEF Reissue, Sound, TicketsSound
  <2>2. TicketsSound'
      BY <2>1, IssueSound DEF Sound
  <2>3. GuestsSound' /\ ManagerSound'
      BY <1>7 DEF Reissue, Sound, guests, manager, GuestsSound, ManagerSound, RoomsAreFound
  <2>4. VoicesSound'
      BY <1>7, VoicesKept DEF Reissue, Sound, manager, VoicesSound, Here, SpeaksOn
  <2> QED
      BY <2>2, <2>3, <2>4 DEF Sound
<1>8. ASSUME NEW claim \in valid, TicketExpires(claim)
      PROVE  Sound'
  <2>1. TicketsSound'
      BY <1>8, ExpireSound DEF TicketExpires, Sound
  <2>2. GuestsSound' /\ ManagerSound'
      BY <1>8 DEF TicketExpires, Sound, guests, manager, GuestsSound, ManagerSound, RoomsAreFound
  <2>3. VoicesSound'
      BY <1>8, VoicesKept DEF TicketExpires, Sound, manager, VoicesSound, Here, SpeaksOn
  <2> QED
      BY <2>1, <2>2, <2>3 DEF Sound
<1>9. ASSUME NEW s \in Sockets, NEW claim \in valid, Hello(s, claim)
      PROVE  Sound'
    BY <1>9, HelloSound
<1>10. ASSUME NEW s \in Sockets, HandleConnection(s)
       PROVE  Sound'
  <2> DEFINE next == [NoSocket EXCEPT !.state = "OPEN", !.hello = TRUE]
  <2>1. next \in Socket /\ ~next.authenticated
      BY DEF NoSocket, Socket
  <2> HIDE DEF next
  <2> QED
      BY <1>10, <2>1, OneSocketSound DEF HandleConnection, next
<1>11. ASSUME NEW s \in Sockets, HelloTimeout(s) \/ Refuse(s) \/ Chat(s) \/ Pong(s)
                                 \/ InactiveTimeoutPasses(s) \/ StartClosing(s)
       PROVE  Sound'
  <2>1. UNCHANGED <<tickets, status, guests, manager>>
      BY <1>11 DEF HelloTimeout, Refuse, Chat, Pong, InactiveTimeoutPasses, StartClosing
  <2>2. PICK next \in Touched(sockets[s]) : sockets' = [sockets EXCEPT ![s] = next]
      BY <1>11 DEF HelloTimeout, Refuse, Chat, Pong, InactiveTimeoutPasses, StartClosing, Touched
  <2> QED
      BY <2>1, <2>2, OneSocketSound
<1>12. ASSUME NEW s \in Sockets, Act(s)
       PROVE  Sound'
    BY <1>12, ActSound
<1>13. ASSUME NEW s \in Sockets, CloseEvent(s)
       PROVE  Sound'
    BY <1>13, CloseEventSound
<1>14. CASE Heartbeat \/ Close
  <2>1. UNCHANGED <<tickets, guests, manager>> /\ status' \in {"RUNNING", "DRAINING", "STOPPED"}
      BY <1>14 DEF Heartbeat, Close
  <2>2. /\ sockets' = [s \in Sockets |-> sockets'[s]]
        /\ \A s \in Sockets : sockets'[s] \in Touched(sockets[s])
      BY <1>14 DEF Heartbeat, Close, Touched
  <2>3. sockets' \in [Sockets -> Socket]
      BY <2>2, ClosingFacts DEF Sound, VoicesSound
  <2> QED
      BY <2>1, <2>2, <2>3, SocketStepSound
<1>15. CASE CloseRooms
    BY <1>15, CloseRoomsSound
<1>16. CASE UNCHANGED vars
  <2>1. TicketsSound' /\ GuestsSound' /\ ManagerSound'
      BY <1>16 DEF vars, tickets, guests, manager, Sound, TicketsSound, GuestsSound, ManagerSound,
                   RoomsAreFound
  <2>2. VoicesSound'
      BY <1>16, VoicesKept DEF vars, manager, Sound, VoicesSound, Here, SpeaksOn
  <2> QED
      BY <2>1, <2>2 DEF Sound
<1> QED
    BY <1>1, <1>2, <1>3, <1>4, <1>5, <1>6, <1>7, <1>8, <1>9, <1>10, <1>11, <1>12, <1>13, <1>14,
       <1>15, <1>16 DEF Next

LEMMA AlwaysSound == Spec => []Sound
    BY InitSound, NextSound, PTL DEF Spec

(* A closed room is in no map, so that nothing finds it, and of itself it  *)
(* does nothing.                                                           *)
LEMMA ClosedStep ==
    ASSUME Sound, [Next]_vars, NEW r \in Rooms, rooms[r].status = "CLOSED"
    PROVE  rooms'[r] = rooms[r]
<1>1. r \notin byId /\ r \notin Ids /\ Swept[r] = rooms[r] /\ ManagerSound
    BY SweptFacts DEF Sound, ManagerSound, RoomsAreFound
<1>2. /\ Swept \in [Rooms -> Room] /\ rooms \in [Rooms -> Room]
      /\ \A c \in Codes : CodesLeft[c] # NoRoom => CodesLeft[c] \in Ids
    BY <1>1, SweptFacts, CodesFacts DEF ManagerSound
<1>3. CASE Sweep
    BY <1>1, <1>3 DEF Sweep
<1>4. ASSUME NEW q \in Rooms, RoomProceeds(q) \/ IdleTtlPasses(q)
      PROVE  rooms'[r] = rooms[r]
    BY <1>2, <1>4 DEF RoomProceeds, IdleTtlPasses
<1>5. ASSUME NEW g \in sessions, NEW q \in Rooms, NEW c \in Codes, NEW token \in unissued,
             NEW epoch \in Epochs, CreateRoom(g, q, c, token, epoch)
      PROVE  rooms'[r] = rooms[r]
    BY <1>1, <1>2, <1>5 DEF CreateRoom
<1>6. ASSUME NEW g \in sessions, NEW c \in Codes, NEW token \in unissued, NEW epoch \in Epochs,
             JoinRoom(g, c, token, epoch)
      PROVE  rooms'[r] = rooms[r]
    BY <1>1, <1>2, <1>6 DEF JoinRoom
<1>7. ASSUME NEW s \in Sockets, NEW claim \in valid, Hello(s, claim)
      PROVE  rooms'[r] = rooms[r]
    BY <1>1, <1>2, <1>7 DEF Hello, Found
<1>8. ASSUME NEW s \in Sockets, Act(s) \/ CloseEvent(s)
      PROVE  rooms'[r] = rooms[r]
    BY <1>1, <1>2, <1>8 DEF Act, CloseEvent, Found, manager
<1>9. CASE CloseRooms
    BY <1>1, <1>9 DEF CloseRooms
<1>10. CASE UNCHANGED rooms
    BY <1>10
<1> QED
  <2>1. ASSUME NEW g, NEW epoch, NEW token,
               \/ CreateSession(g) \/ SessionExpires(g)
               \/ \E q \in Rooms, h \in Guests : Reissue(q, h, token, epoch)
        PROVE  UNCHANGED rooms
      BY <2>1 DEF CreateSession, SessionExpires, Reissue, manager
  <2>2. ASSUME NEW claim \in valid, TicketExpires(claim)
        PROVE  UNCHANGED rooms
      BY <2>2 DEF TicketExpires, manager
  <2>3. ASSUME NEW s \in Sockets,
               \/ HandleConnection(s) \/ HelloTimeout(s) \/ Refuse(s) \/ Chat(s)
               \/ Pong(s) \/ InactiveTimeoutPasses(s) \/ StartClosing(s)
        PROVE  UNCHANGED rooms
      BY <2>3 DEF HandleConnection, HelloTimeout, Refuse, Chat, Pong, InactiveTimeoutPasses,
                  StartClosing, manager
  <2>4. CASE Heartbeat \/ Close
      BY <1>10, <2>4 DEF Heartbeat, Close, manager
  <2>5. CASE UNCHANGED vars
      BY <1>10, <2>5 DEF vars, manager
  <2> QED
      BY <1>3, <1>4, <1>5, <1>6, <1>7, <1>8, <1>9, <1>10, <2>1, <2>2, <2>3, <2>4, <2>5 DEF Next

(* What the gateway does with tickets is what Tickets promises.            *)
LEMMA TicketStep ==
    ASSUME Sound, [Next]_vars
    PROVE  [TicketsNext]_tickets
<1> USE DEF TicketsNext
<1>1. ASSUME NEW g \in sessions, NEW r \in Rooms, NEW c \in Codes, NEW token \in unissued,
             NEW epoch \in Epochs, CreateRoom(g, r, c, token, epoch)
      PROVE  TicketsNext
  <2>1. <<r, g>> \in Keys /\ token \in Tokens
      BY SeatAssumption DEF Sound, TicketsSound, GuestsSound
  <2> QED
      BY <1>1, <2>1 DEF CreateRoom
<1>2. ASSUME NEW g \in sessions, NEW c \in Codes, NEW token \in unissued, NEW epoch \in Epochs,
             JoinRoom(g, c, token, epoch)
      PROVE  TicketsNext
  <2>1. CodesLeft[c] \in Rooms
      BY <1>2, CodesFacts, SweptFacts DEF JoinRoom, Sound, ManagerSound
  <2>2. <<CodesLeft[c], g>> \in Keys /\ token \in Tokens
      BY <2>1, SeatAssumption DEF Sound, TicketsSound, GuestsSound
  <2> QED
      BY <1>2, <2>2 DEF JoinRoom
<1>3. ASSUME NEW r \in Rooms, NEW g \in Guests, NEW token \in unissued, NEW epoch \in Epochs,
             Reissue(r, g, token, epoch)
      PROVE  TicketsNext
  <2>1. <<r, g>> \in Keys /\ token \in Tokens
      BY SeatAssumption DEF Sound, TicketsSound
  <2> QED
      BY <1>3, <2>1 DEF Reissue
<1>4. ASSUME NEW claim \in valid, TicketExpires(claim)
      PROVE  TicketsNext
    BY <1>4 DEF TicketExpires
<1>5. ASSUME NEW s \in Sockets, NEW claim \in valid, Hello(s, claim)
      PROVE  TicketsNext
    BY <1>5 DEF Hello
<1>6. CASE UNCHANGED tickets
    BY <1>6
<1> QED
  <2>1. ASSUME NEW g, CreateSession(g) \/ SessionExpires(g)
        PROVE  UNCHANGED tickets
      BY <2>1 DEF CreateSession, SessionExpires
  <2>2. ASSUME NEW s \in Sockets,
               \/ HandleConnection(s) \/ HelloTimeout(s) \/ Refuse(s) \/ Chat(s) \/ Act(s)
               \/ Pong(s) \/ InactiveTimeoutPasses(s) \/ StartClosing(s) \/ CloseEvent(s)
        PROVE  UNCHANGED tickets
      BY <2>2 DEF HandleConnection, HelloTimeout, Refuse, Chat, Act, Pong, InactiveTimeoutPasses,
                  StartClosing, CloseEvent
  <2>3. ASSUME NEW r \in Rooms, RoomProceeds(r) \/ IdleTtlPasses(r)
        PROVE  UNCHANGED tickets
      BY <2>3 DEF RoomProceeds, IdleTtlPasses
  <2>4. CASE Sweep \/ Heartbeat \/ Close \/ CloseRooms \/ UNCHANGED vars
      BY <1>6, <2>4 DEF Sweep, Heartbeat, Close, CloseRooms, vars
  <2> QED
      BY <1>1, <1>2, <1>3, <1>4, <1>5, <1>6, <2>1, <2>2, <2>3, <2>4 DEF Next
-----------------------------------------------------------------------------
(* No type is ever left, and no limit passed: two players a room, so many  *)
(* rooms, so many sessions, one use of a ticket.                           *)
THEOREM TypeCorrect == Spec => []TypeOK
    BY AlwaysSound, SoundTypes, PTL

(* The two maps of the manager lead to the open rooms and nowhere else,    *)
(* and no room is swept that somebody is connected to.                     *)
THEOREM ManagerFindsRooms == Spec => []RoomsAreFound
<1>1. Sound => RoomsAreFound
    BY DEF Sound, ManagerSound
<1> QED
    BY <1>1, AlwaysSound, PTL

(* A player is connected exactly while the socket of his newest ticket is. *)
THEOREM PresenceHasASocket == Spec => []PresenceIsReal
<1>1. Sound => PresenceIsReal
    BY DEF Sound, VoicesSound
<1> QED
    BY <1>1, AlwaysSound, PTL

(* An epoch tells which socket speaks, and none is above the room's.       *)
THEOREM EpochsTellWhoSpeaks == Spec => []OnlyNewestSpeaks
<1>1. Sound => OnlyNewestSpeaks
    BY DEF Sound, VoicesSound
<1> QED
    BY <1>1, AlwaysSound, PTL

(* Nothing happens any more in a room that was closed.                     *)
THEOREM ClosedForGood == Spec => ClosedRoomsRest
<1>1. Sound /\ [Next]_vars =>
         [\A r \in Rooms : rooms[r].status = "CLOSED" => rooms'[r] = rooms[r]]_vars
    BY ClosedStep
<1> QED
    BY <1>1, AlwaysSound, PTL DEF Spec, ClosedRoomsRest

(* The gateway uses its tickets only in the ways that Tickets describes,   *)
(* which TicketStore is proved to implement: each of them can be replaced  *)
(* without the other.                                                      *)
THEOREM UsesTicketsAsPromised == Spec => TicketsSpec
<1>1. Init => TicketsInit
    BY DEF Init
<1> QED
    BY <1>1, AlwaysSound, TicketStep, PTL DEF Spec, TicketsSpec
=============================================================================
