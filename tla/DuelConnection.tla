----------------------------- MODULE DuelConnection -----------------------------
(***************************************************************************)
(* How a page comes to a duel and loses it: enterRoom, leaveRoom and       *)
(* handleConnectionStatus of apps/web/src/App.tsx, over the sockets of     *)
(* RealtimeClient (apps/web/src/lib/realtime.ts).                          *)
(*                                                                         *)
(* Every entry asks the server for a session and a room, then connects a   *)
(* socket of its own.  RealtimeClient knows one socket at a time; what is  *)
(* told of the others comes late and is dropped.  COUNTDOWN, ACTIVE and    *)
(* ROUND_RESULT are one phase here, MATCH.  Pings are left out, and so is  *)
(* failIntegrity, which DuelSession is about.                              *)
(***************************************************************************)
EXTENDS Naturals, Sequences

CONSTANTS
    MaxEntries,   \* bound: attempts to enter a room
    MaxFlight,    \* bound: messages on their way through one socket
    None

Entries == 1 .. MaxEntries

VARIABLES
    page,    \* what App keeps, and RealtimeClient's socket
    entry    \* the attempts, each with its socket

vars == <<page, entry>>

\* Calls of enterRoom: stage is "ASKING" until the room is known, "CONNECTING" until
\* the promise of connect is settled.  ready is readyState, room what its messages
\* have told so far.
NoEntry == [stage |-> "NONE", ready |-> "NONE", hello |-> FALSE, room |-> "NONE",
            wire |-> <<>>]

NewPage ==
    [phase |-> "HOME",
     seen |-> "HOME",        \* phaseRef: phase, as it was rendered last
     solo |-> FALSE,         \* localMode is set
     connection |-> "disconnected",
     once |-> FALSE,         \* connectedOnceRef
     busy |-> FALSE,
     lost |-> FALSE,         \* connectionLost
     blocked |-> FALSE,      \* protocolBlockedRef
     socket |-> None]        \* the entry whose socket RealtimeClient has
-----------------------------------------------------------------------------
(* The page *)

\* markTechnicalDisconnect
GivenUp(p) ==
    IF p.seen = "MATCH_RESULT" THEN p
    ELSE [p EXCEPT !.seen = "MATCH_RESULT", !.phase = "MATCH_RESULT", !.lost = TRUE]

\* handleConnectionStatus
Status(p, status) ==
    LET q == [p EXCEPT !.connection = status, !.once = @ \/ status = "connected"]
    IN IF status \notin {"disconnected", "error"} \/ ~p.once \/ p.seen \in {"HOME", "MATCH_RESULT"}
       THEN q
       ELSE IF p.seen = "LOBBY" THEN [q EXCEPT !.phase = "HOME"] ELSE GivenUp(q)

\* handleMessage, for the messages that say where the room stands.
Told(p, m) ==
    CASE m = "UPGRADE" -> [p EXCEPT !.blocked = TRUE]
      [] m # "UPGRADE" /\ p.blocked -> p
      [] m = "WELCOME" /\ ~p.blocked -> [p EXCEPT !.phase = "LOBBY"]
      [] m = "REMATCH" /\ ~p.blocked -> [p EXCEPT !.phase = "LOBBY", !.lost = FALSE]
      [] m = "COUNTDOWN" /\ ~p.blocked -> [p EXCEPT !.phase = "MATCH", !.lost = FALSE]
      [] m = "ACTIVE" /\ ~p.blocked -> [p EXCEPT !.phase = "MATCH"]
      [] m = "RESULT" /\ ~p.blocked -> [p EXCEPT !.phase = "MATCH_RESULT"]

\* The promise of connect is settled: enterRoom ends, with an error if it is rejected.
Resolved(p, n) == IF entry[n].stage = "CONNECTING" THEN [p EXCEPT !.busy = FALSE] ELSE p
Rejected(p, n) ==
    IF entry[n].stage = "CONNECTING"
    THEN [p EXCEPT !.busy = FALSE, !.connection = "error"] ELSE p

\* disconnect: a socket that is closed by the page hears no more messages.
Closed(e) ==
    IF e.ready \in {"CONNECTING", "OPEN"} THEN [e EXCEPT !.ready = "CLOSING", !.wire = <<>>] ELSE e
Disconnected == [n \in Entries |-> IF n = page.socket THEN Closed(entry[n]) ELSE entry[n]]

\* leaveRoom: busy is left as it is.
Left == [NewPage EXCEPT !.seen = page.seen, !.busy = page.busy, !.solo = page.solo]

\* Mutation: events of any socket are heard.
IsCurrent_Any(n) == TRUE
IsCurrent(n) == page.socket = n
-----------------------------------------------------------------------------
(* What the user does *)

\* enterRoom: the buttons are disabled while the page is busy, until the rendering that
\* shows the outcome; the return key in the field of the room code is not.
Enter(n, key) ==
    /\ page.seen = "HOME" /\ ~page.solo /\ entry[n].stage = "NONE"
    /\ \A k \in Entries : k < n => entry[k].stage # "NONE"
    /\ key = "BUTTON" => ~page.busy /\ page.phase = "HOME"
    /\ page' = [page EXCEPT !.busy = TRUE]
    /\ entry' = [entry EXCEPT ![n].stage = "ASKING"]

Leave ==
    /\ page.seen # "HOME" /\ ~page.solo
    /\ page' = Left /\ entry' = Disconnected

\* enterSolo, or a step in the browser's history.
GoSolo ==
    /\ ~page.solo
    /\ page' = [Left EXCEPT !.solo = TRUE] /\ entry' = Disconnected

ReturnHome == page.solo /\ page' = [page EXCEPT !.solo = FALSE] /\ UNCHANGED entry

\* handleBoardAction, when the socket does not take the action.
ActInVain ==
    /\ page.seen = "MATCH" /\ page.connection = "connected"
    /\ page.socket = None \/ entry[page.socket].ready # "OPEN"
    /\ page' = GivenUp(page) /\ UNCHANGED entry

Render == page.seen # page.phase /\ page' = [page EXCEPT !.seen = page.phase] /\ UNCHANGED entry
-----------------------------------------------------------------------------
(* The answers of the server *)

\* createGuestSession and createRoom or joinRoom succeed: enterRoom connects.
Granted(n) ==
    /\ entry[n].stage = "ASKING"
    /\ page' = Status([page EXCEPT !.once = FALSE, !.blocked = FALSE, !.socket = n], "connecting")
    /\ entry' = [Disconnected EXCEPT ![n].stage = "CONNECTING", ![n].ready = "CONNECTING"]

Denied(n) ==
    /\ entry[n].stage = "ASKING"
    /\ page' = [page EXCEPT !.busy = FALSE, !.connection = "error"]
    /\ entry' = [entry EXCEPT ![n].stage = "DONE"]

Opens(n) ==
    /\ entry[n].ready = "CONNECTING"
    /\ entry' = [entry EXCEPT ![n].ready = "OPEN", ![n].hello = IsCurrent(n)]
    /\ UNCHANGED page

\* The gateway welcomes who says HELLO, and the room tells its phases: a match begins
\* when its players were ready in the lobby.
Follows(room) ==
    CASE room = "NONE" -> {"WELCOME", "UPGRADE"}
      [] room \in {"WELCOME", "REMATCH"} -> {"COUNTDOWN"}
      [] room = "COUNTDOWN" -> {"ACTIVE", "RESULT"}
      [] room = "ACTIVE" -> {"COUNTDOWN", "RESULT"}
      [] room = "RESULT" -> {"REMATCH"}
      [] room = "UPGRADE" -> {}

Last(e) == IF e.wire = <<>> THEN e.room ELSE e.wire[Len(e.wire)]

ServerSends(n, m) ==
    /\ entry[n].ready = "OPEN" /\ entry[n].hello /\ Len(entry[n].wire) < MaxFlight
    /\ m \in Follows(Last(entry[n]))
    /\ Last(entry[n]) \in {"WELCOME", "REMATCH"} => page.seen = "LOBBY"
    /\ entry' = [entry EXCEPT ![n].wire = Append(@, m)]
    /\ UNCHANGED page

Receives(n) ==
    LET m == Head(entry[n].wire)
        p == CASE m = "WELCOME" -> Resolved(Status(page, "connected"), n)
               [] m = "UPGRADE" -> Rejected(page, n)
               [] OTHER -> page
    IN /\ entry[n].ready = "OPEN" /\ entry[n].wire # <<>>
       /\ page' = IF IsCurrent(n) THEN Told(p, m) ELSE page
       /\ entry' = [entry EXCEPT ![n].wire = Tail(@), ![n].room = m,
                                 ![n].stage = IF IsCurrent(n) /\ m \in {"WELCOME", "UPGRADE"} THEN "DONE" ELSE @]

ServerCloses(n) ==
    /\ entry[n].ready = "OPEN" /\ entry[n].wire = <<>>
    /\ entry' = [entry EXCEPT ![n].ready = "CLOSING"]
    /\ UNCHANGED page

\* A socket is closed, with an error event before the close event when it failed.
Ends(n, failed) ==
    /\ entry[n].ready \in {"CONNECTING", "OPEN", "CLOSING"} /\ entry[n].wire = <<>>
    /\ entry[n].ready # "CLOSING" => failed
    /\ page' = IF ~IsCurrent(n) THEN page
               ELSE IF failed THEN Status(Rejected(Status(page, "error"), n), "disconnected")
               ELSE Rejected(Status(page, "disconnected"), n)
    /\ entry' = [entry EXCEPT ![n].ready = "CLOSED",
                              ![n].stage = IF IsCurrent(n) THEN "DONE" ELSE @]
-----------------------------------------------------------------------------
Init == page = NewPage /\ entry = [n \in Entries |-> NoEntry]

Next ==
    \/ Leave \/ GoSolo \/ ReturnHome \/ ActInVain \/ Render
    \/ \E n \in Entries :
         \/ \E key \in {"BUTTON", "RETURN"} : Enter(n, key)
         \/ Granted(n) \/ Denied(n) \/ Opens(n) \/ Receives(n) \/ ServerCloses(n)
         \/ \E m \in Follows(Last(entry[n])) : ServerSends(n, m)
         \/ \E failed \in BOOLEAN : Ends(n, failed)

Spec == Init /\ [][Next]_vars
-----------------------------------------------------------------------------
(* Properties *)

Alive(n) == n # None /\ entry[n].ready \in {"OPEN", "CLOSING"}

\* A page that says it is connected has been welcomed by the room its socket leads to,
\* and a duel is given up, or its lobby left, only when that socket is closed: never for
\* the end of a socket of an earlier entry, whenever it is told.
DuelEndsWithItsSocket ==
    /\ [](page.connection = "connected" /\ ~page.lost
            => Alive(page.socket) /\ entry[page.socket].room \notin {"NONE", "UPGRADE"})
    /\ [][(~page.lost /\ page'.lost) \/ (page.phase = "LOBBY" /\ page'.phase = "HOME" /\ page'.socket # None)
            => page.socket # None /\ entry'[page.socket].ready # "OPEN"]_vars

\* Whoever sees the match of a room that is connected can play it: the board takes
\* actions while connection is "connected".
MatchCanBePlayed ==
    /\ page.phase = "MATCH" /\ page.seen = "MATCH" /\ ~page.lost
    /\ page.socket # None /\ entry[page.socket].ready = "OPEN"
    => page.connection = "connected"
=============================================================================
