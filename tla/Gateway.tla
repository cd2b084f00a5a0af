------------------------------ MODULE Gateway ------------------------------
(***************************************************************************)
(* The server between the browsers and the rooms: the REST routes that     *)
(* give out seats and tickets (app.ts), the sessions of the guests         *)
(* (stores.ts), the rooms in their two maps (room-manager.ts) and the      *)
(* sockets (realtime-gateway.ts), built on the promises of Tickets.        *)
(*                                                                         *)
(* There is no clock: what has been idle, silent or waiting for too long   *)
(* is a flag, which time may set at any moment and activity resets.  Of a  *)
(* room there is what its manager asks for; RoomActor has the rest.  A     *)
(* socket goes back to NoSocket when it is closed, so that sockets do not  *)
(* run out.                                                                *)
(***************************************************************************)
EXTENDS Tickets, FiniteSets

CONSTANTS
    Rooms,          \* room ids, one for each room ever created
    Guests,         \* guest ids
    Codes,          \* room codes; a code can come again
    Sockets,
    MaxSessions,    \* maxGuestSessions
    MaxRooms,       \* maxRooms
    NoRoom,
    NoGuest

ASSUME SeatAssumption == Keys = Rooms \X Guests
ASSUME CodeAssumption == Cardinality(Codes) >= MaxRooms
ASSUME EpochAssumption == Epochs \subseteq Nat \ {0}
ASSUME NobodyAssumption == NoRoom \notin Rooms
ASSUME LimitAssumption == MaxSessions \in Nat /\ MaxRooms \in Nat

VARIABLES
    status,     \* RUNNING, DRAINING (gateway.close waits for sockets), STOPPED
    newcomers,  \* guests who never asked for a session
    sessions,   \* GuestSessionStore, what has not expired of it
    byId,       \* RoomManager.#byId
    byCode,     \* RoomManager.#byCode, NoRoom for a code without a room
    rooms,      \* every room, also those that the manager has forgotten
    sockets     \* the gateway's sockets with their ConnectionContexts

manager == <<byId, byCode, rooms>>
guests == <<newcomers, sessions>>
vars == <<tickets, status, guests, manager, sockets>>

NewRoom == [status |-> "UNUSED", code |-> "", players |-> {}, connected |-> {},
            epoch |-> [g \in Guests |-> 0], playing |-> FALSE, idle |-> FALSE]

NoSocket == [state |-> "NONE", authenticated |-> FALSE, room |-> NoRoom, guest |-> NoGuest,
             epoch |-> 0, hello |-> FALSE, silent |-> FALSE]

Init ==
    /\ TicketsInit
    /\ status = "RUNNING"
    /\ newcomers = Guests
    /\ sessions = {}
    /\ byId = {}
    /\ byCode = [c \in Codes |-> NoRoom]
    /\ rooms = [r \in Rooms |-> NewRoom]
    /\ sockets = [s \in Sockets |-> NoSocket]
-----------------------------------------------------------------------------
(* RoomManager.  Every lookup sweeps the idle rooms first.                 *)

Idle == {r \in byId : rooms[r].connected = {} /\ ~rooms[r].playing /\ rooms[r].idle}

Ids == byId \ Idle

(* Mutation: a swept room keeps its code. *)
CodesLeft_All == byCode
CodesLeft == [c \in Codes |-> IF \E r \in Idle : rooms[r].code = c THEN NoRoom ELSE byCode[c]]

Swept == [r \in Rooms |-> IF r \in Idle THEN [rooms[r] EXCEPT !.status = "CLOSED"] ELSE rooms[r]]

(* Mutation: a swept room can still be found. *)
Found_Ever(r) == rooms[r].status # "UNUSED"
Found(r) == r \in Ids

SpaceLeft == Cardinality(Ids) < MaxRooms

Lookup ==
    /\ byId' = Ids
    /\ byCode' = CodesLeft

(* The sweep alone: maintenance, a replay, a room or code that is not      *)
(* found, a room that is full or has the guest already, no room left.      *)
Sweep ==
    /\ status = "RUNNING"
    /\ Lookup
    /\ rooms' = Swept
    /\ UNCHANGED <<tickets, status, guests, sockets>>
-----------------------------------------------------------------------------
(* What the rooms do.                                                      *)

IsFull(room) == Cardinality(room.players) >= 2

Attended(room) == Cardinality(room.players) = 2 /\ room.connected = room.players

(* A match may start or go on only when both are there (MatchHasBothPlayers *)
(* of RoomActor); it may end any time.                                     *)
Proceeds(room) ==
    {[room EXCEPT !.playing = p] : p \in IF Attended(room) THEN BOOLEAN ELSE {FALSE}}

AddPlayer(room, g) == [room EXCEPT !.players = @ \cup {g}, !.idle = FALSE]

(* Mutation: an old ticket is as good as a new one. *)
Accepts_AnyEpoch(room, g, epoch) == g \in room.players
Accepts(room, g, epoch) == g \in room.players /\ epoch > room.epoch[g]

Connect(room, g, epoch) ==
    [room EXCEPT !.connected = @ \cup {g}, !.epoch[g] = epoch, !.idle = FALSE]

(* Mutations: whoever goes takes the player with him; the match goes on. *)
Disconnect_AnyEpoch(room, g, epoch) ==
    [room EXCEPT !.connected = @ \ {g}, !.playing = FALSE, !.idle = FALSE]
Disconnect_PlaysOn(room, g, epoch) ==
    IF g \in room.connected /\ epoch = room.epoch[g]
    THEN [room EXCEPT !.connected = @ \ {g}, !.idle = FALSE]
    ELSE room

(* The match ends when the opponent is there; while one goes on, he is.    *)
Disconnect(room, g, epoch) ==
    IF g \in room.connected /\ epoch = room.epoch[g]
    THEN [room EXCEPT !.connected = @ \ {g}, !.playing = FALSE, !.idle = FALSE]
    ELSE room

HandleAction(room, g) ==
    IF g \in room.connected THEN Proceeds([room EXCEPT !.idle = FALSE]) ELSE {room}

(* Timeouts of a room, which are no activity.                              *)
RoomProceeds(r) ==
    /\ rooms[r].status = "OPEN"
    /\ \E room \in Proceeds(rooms[r]) : rooms' = [rooms EXCEPT ![r] = room]
    /\ UNCHANGED <<tickets, status, guests, byId, byCode, sockets>>

IdleTtlPasses(r) ==
    /\ rooms[r].status = "OPEN" /\ ~rooms[r].idle
    /\ rooms' = [rooms EXCEPT ![r].idle = TRUE]
    /\ UNCHANGED <<tickets, status, guests, byId, byCode, sockets>>
-----------------------------------------------------------------------------
(* The REST routes.                                                        *)

CreateSession(g) ==
    /\ status = "RUNNING"
    /\ g \in newcomers
    /\ Cardinality(sessions) < MaxSessions
    /\ newcomers' = newcomers \ {g}
    /\ sessions' = sessions \cup {g}
    /\ UNCHANGED <<tickets, status, manager, sockets>>

SessionExpires(g) ==
    /\ sessions' = sessions \ {g}
    /\ UNCHANGED <<tickets, status, newcomers, manager, sockets>>

CreateRoom(g, r, c, token, epoch) ==
    /\ status = "RUNNING"
    /\ g \in sessions
    /\ SpaceLeft
    /\ CodesLeft[c] = NoRoom
    /\ rooms[r].status = "UNUSED"
    /\ rooms' = [Swept EXCEPT ![r] = AddPlayer([@ EXCEPT !.status = "OPEN", !.code = c], g)]
    /\ byId' = Ids \cup {r}
    /\ byCode' = [CodesLeft EXCEPT ![c] = r]
    /\ Issue(token, <<r, g>>, epoch)
    /\ UNCHANGED <<status, guests, sockets>>

JoinRoom(g, c, token, epoch) ==
    LET r == CodesLeft[c] IN
    /\ status = "RUNNING"
    /\ g \in sessions
    /\ r # NoRoom
    /\ g \notin rooms[r].players
    /\ ~IsFull(rooms[r])
    /\ Lookup
    /\ rooms' = [Swept EXCEPT ![r] = AddPlayer(@, g)]
    /\ Issue(token, <<r, g>>, epoch)
    /\ UNCHANGED <<status, guests, sockets>>

(* Another ticket of a player who has one.  No REST route gives it yet;    *)
(* the services of the exported server do (getServerServices).             *)
Reissue(r, g, token, epoch) ==
    /\ status = "RUNNING"
    /\ g \in rooms[r].players
    /\ Issue(token, <<r, g>>, epoch)
    /\ UNCHANGED <<status, guests, manager, sockets>>

TicketExpires(claim) ==
    /\ Expire({claim})
    /\ UNCHANGED <<status, guests, manager, sockets>>
-----------------------------------------------------------------------------
(* The sockets.  socket.close() and terminate() only begin the closing:    *)
(* what the peer has sent before may still arrive until the close event.   *)

Closing(socket) == [socket EXCEPT !.state = "CLOSING"]
Heard(socket) == [socket EXCEPT !.silent = FALSE]
Here(s) == sockets[s].state # "NONE"

HandleConnection(s) ==
    /\ status = "RUNNING"
    /\ ~Here(s)
    /\ sockets' = [sockets EXCEPT ![s] = [NoSocket EXCEPT !.state = "OPEN", !.hello = TRUE]]
    /\ UNCHANGED <<tickets, status, guests, manager>>

HelloTimeout(s) ==
    /\ sockets[s].hello
    /\ sockets' = [sockets EXCEPT ![s] = [Closing(@) EXCEPT !.hello = FALSE]]
    /\ UNCHANGED <<tickets, status, guests, manager>>

(* A message that no ticket is read from: not HELLO, of another protocol   *)
(* version, on the v1 route, no JSON; or HELLO with a ticket that is not   *)
(* valid (any more).                                                       *)
Refuse(s) ==
    /\ Here(s) /\ ~sockets[s].authenticated
    /\ sockets' = [sockets EXCEPT ![s] = Closing(Heard(@))]
    /\ UNCHANGED <<tickets, status, guests, manager>>

(* authenticate, once consume has returned claims.                         *)
Hello(s, claim) ==
    LET r == claim.key[1]
        g == claim.key[2] IN
    /\ Here(s) /\ ~sockets[s].authenticated
    /\ Use(claim)
    /\ Lookup
    /\ IF Found(r) /\ Accepts(rooms[r], g, claim.epoch)
       THEN /\ rooms' = [Swept EXCEPT ![r] = Connect(@, g, claim.epoch)]
            /\ sockets' = [sockets EXCEPT ![s] = [Heard(@) EXCEPT
                  !.authenticated = TRUE, !.room = r, !.guest = g, !.epoch = claim.epoch,
                  !.hello = FALSE]]
       ELSE /\ rooms' = Swept
            /\ sockets' = [sockets EXCEPT ![s] = Closing(Heard(@))]
    /\ UNCHANGED <<status, guests>>

(* PING, what is no message, and everything above the rate: answered or    *)
(* not, and the socket may be closed for it.                               *)
Chat(s) ==
    /\ Here(s) /\ sockets[s].authenticated
    /\ \E socket \in {Heard(sockets[s]), Closing(Heard(sockets[s]))} :
          sockets' = [sockets EXCEPT ![s] = socket]
    /\ UNCHANGED <<tickets, status, guests, manager>>

Act(s) ==
    LET r == sockets[s].room IN
    /\ Here(s) /\ sockets[s].authenticated
    /\ Lookup
    /\ IF Found(r)
       THEN /\ \E room \in HandleAction(rooms[r], sockets[s].guest) :
                  rooms' = [Swept EXCEPT ![r] = room]
            /\ sockets' = [sockets EXCEPT ![s] = Heard(@)]
       ELSE /\ rooms' = Swept
            /\ sockets' = [sockets EXCEPT ![s] = Closing(Heard(@))]
    /\ UNCHANGED <<tickets, status, guests>>

Pong(s) ==
    /\ Here(s)
    /\ sockets' = [sockets EXCEPT ![s] = Heard(@)]
    /\ UNCHANGED <<tickets, status, guests, manager>>

InactiveTimeoutPasses(s) ==
    /\ Here(s) /\ ~sockets[s].silent
    /\ sockets' = [sockets EXCEPT ![s].silent = TRUE]
    /\ UNCHANGED <<tickets, status, guests, manager>>

Silent == {s \in Sockets : sockets[s].silent}

Heartbeat ==
    /\ status = "RUNNING"
    /\ Silent # {}
    /\ sockets' = [s \in Sockets |-> IF s \in Silent THEN Closing(sockets[s]) ELSE sockets[s]]
    /\ UNCHANGED <<tickets, status, guests, manager>>

(* send finds more than HARD_BUFFERED_BYTES waiting, or the peer closes.   *)
StartClosing(s) ==
    /\ sockets[s].state = "OPEN"
    /\ sockets' = [sockets EXCEPT ![s] = Closing(@)]
    /\ UNCHANGED <<tickets, status, guests, manager>>

CloseEvent(s) ==
    LET r == sockets[s].room IN
    /\ sockets[s].state = "CLOSING"
    /\ sockets' = [sockets EXCEPT ![s] = NoSocket]
    /\ IF sockets[s].authenticated
       THEN /\ Lookup
            /\ rooms' = IF Found(r)
                        THEN [Swept EXCEPT ![r] = Disconnect(@, sockets[s].guest, sockets[s].epoch)]
                        ELSE Swept
       ELSE UNCHANGED manager
    /\ UNCHANGED <<tickets, status, guests>>
-----------------------------------------------------------------------------
(* Mutation: the gateway waits for the sockets to close themselves. *)
Close_Waits ==
    /\ status = "RUNNING"
    /\ status' = "DRAINING"
    /\ sockets' = [s \in Sockets |-> [sockets[s] EXCEPT !.hello = FALSE]]
    /\ UNCHANGED <<tickets, guests, manager>>

(* onClose: gateway.close, which waits for the sockets, then rooms.close.  *)

Close ==
    /\ status = "RUNNING"
    /\ status' = "DRAINING"
    /\ sockets' = [s \in Sockets |->
          IF Here(s) THEN [Closing(sockets[s]) EXCEPT !.hello = FALSE] ELSE sockets[s]]
    /\ UNCHANGED <<tickets, guests, manager>>

CloseRooms ==
    /\ status = "DRAINING"
    /\ \A s \in Sockets : ~Here(s)
    /\ status' = "STOPPED"
    /\ byId' = {}
    /\ byCode' = [c \in Codes |-> NoRoom]
    /\ rooms' = [r \in Rooms |->
          IF r \in byId THEN [rooms[r] EXCEPT !.status = "CLOSED", !.playing = FALSE] ELSE rooms[r]]
    /\ UNCHANGED <<tickets, guests, sockets>>

Next ==
    \/ Sweep
    \/ \E r \in Rooms : RoomProceeds(r) \/ IdleTtlPasses(r)
    \/ \E g \in newcomers : CreateSession(g)
    \/ \E g \in sessions : SessionExpires(g)
    \/ \E g \in sessions, r \in Rooms, c \in Codes, token \in unissued, epoch \in Epochs :
          CreateRoom(g, r, c, token, epoch)
    \/ \E g \in sessions, c \in Codes, token \in unissued, epoch \in Epochs :
          JoinRoom(g, c, token, epoch)
    \/ \E r \in Rooms, g \in Guests, token \in unissued, epoch \in Epochs :
          Reissue(r, g, token, epoch)
    \/ \E claim \in valid : TicketExpires(claim)
    \/ \E s \in Sockets, claim \in valid : Hello(s, claim)
    \/ \E s \in Sockets :
          \/ HandleConnection(s) \/ HelloTimeout(s) \/ Refuse(s) \/ Chat(s) \/ Act(s)
          \/ Pong(s) \/ InactiveTimeoutPasses(s) \/ StartClosing(s) \/ CloseEvent(s)
    \/ Heartbeat
    \/ Close
    \/ CloseRooms

Spec == Init /\ [][Next]_vars

(* The event loop runs timeouts, maintenance and heartbeat; ws closes a    *)
(* socket at the latest by a timeout of its own; time passes.  Nothing is  *)
(* assumed of guests and peers.                                            *)
Fairness ==
    /\ \A s \in Sockets : WF_vars(HelloTimeout(s)) /\ WF_vars(CloseEvent(s))
    /\ \A r \in Rooms : WF_vars(IdleTtlPasses(r))
    /\ WF_vars(Heartbeat) /\ WF_vars(Sweep) /\ WF_vars(CloseRooms)

FairSpec == Spec /\ Fairness
-----------------------------------------------------------------------------
Room == [status : {"UNUSED", "OPEN", "CLOSED"}, code : Codes \cup {""},
         players : SUBSET Guests, connected : SUBSET Guests,
         epoch : [Guests -> Epochs \cup {0}], playing : BOOLEAN, idle : BOOLEAN]

Socket == [state : {"NONE", "OPEN", "CLOSING"}, authenticated : BOOLEAN,
           room : Rooms \cup {NoRoom}, guest : Guests \cup {NoGuest},
           epoch : Epochs \cup {0}, hello : BOOLEAN, silent : BOOLEAN]

(* The types, and that neither seats nor limits are ever exceeded: two     *)
(* players of a room, maxRooms, maxGuestSessions.                          *)
TypeOK ==
    /\ valid \subseteq Claims /\ unissued \subseteq Tokens
    /\ latest \in [Keys -> Epochs \cup {0}] /\ uses \in [Tokens -> 0 .. 1]
    /\ status \in {"RUNNING", "DRAINING", "STOPPED"}
    /\ newcomers \subseteq Guests
    /\ sessions \subseteq Guests /\ Cardinality(sessions) <= MaxSessions
    /\ byId \subseteq Rooms /\ Cardinality(byId) <= MaxRooms
    /\ byCode \in [Codes -> Rooms \cup {NoRoom}]
    /\ rooms \in [Rooms -> Room]
    /\ \A r \in Rooms : Cardinality(rooms[r].players) <= 2
    /\ sockets \in [Sockets -> Socket]

Speaks(s, r, g) ==
    sockets[s].authenticated /\ sockets[s].room = r /\ sockets[s].guest = g

(* A player is connected exactly as long as the socket of his newest       *)
(* ticket is: no ghost holds a seat, and no late close of an older socket  *)
(* takes the seat of a newer one (RoomActor.connect, disconnect).          *)
PresenceIsReal ==
    \A r \in Rooms, g \in Guests :
        g \in rooms[r].connected <=>
            \E s \in Sockets : Speaks(s, r, g) /\ sockets[s].epoch = rooms[r].epoch[g]

(* No older ticket overtakes a newer one, and no two sockets stand for the *)
(* same connection: the epoch in an action tells who sent it.              *)
OnlyNewestSpeaks ==
    \A s \in Sockets, r \in Rooms, g \in Guests : Speaks(s, r, g) =>
        /\ sockets[s].epoch <= rooms[r].epoch[g]
        /\ \A u \in Sockets \ {s} : Speaks(u, r, g) => sockets[u].epoch # sockets[s].epoch

(* Rooms are found: the maps of the manager hold the open rooms, both the  *)
(* same, so that a code that is given again leads to the new room, and     *)
(* sweepIdleRooms never takes the room from under a connected player.      *)
RoomsAreFound ==
    /\ \A r \in Rooms : r \in byId <=> rooms[r].status = "OPEN"
    /\ \A r \in byId : byCode[rooms[r].code] = r
    /\ \A c \in Codes : byCode[c] # NoRoom => byCode[c] \in byId /\ rooms[byCode[c]].code = c
    /\ \A r \in Rooms : rooms[r].connected # {} => r \in byId

(* Once a room is closed nothing happens in it, whatever sockets, tickets  *)
(* and timeouts of it are still around.                                    *)
ClosedRoomsRest ==
    [][\A r \in Rooms : rooms[r].status = "CLOSED" => rooms'[r] = rooms[r]]_vars

(* Nothing lingers: a socket that does not say HELLO goes, and so does one *)
(* whose peer fell silent, so that neither keeps a player connected for    *)
(* ever; and a room that nobody is connected to is swept, unless somebody  *)
(* comes.                                                                  *)
NothingLingers ==
    /\ \A s \in Sockets :
         (Here(s) /\ (~sockets[s].authenticated \/ sockets[s].silent))
            ~> (~Here(s) \/ (sockets[s].authenticated /\ ~sockets[s].silent))
    /\ \A r \in Rooms :
         (r \in byId /\ rooms[r].connected = {}) ~> (r \notin byId \/ rooms[r].connected # {})

(* The server stops although its sockets still deliver what was sent.      *)
ShutdownCompletes == (status = "DRAINING") ~> (status = "STOPPED")
=============================================================================
