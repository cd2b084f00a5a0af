----------------------------- MODULE DuelSession -----------------------------
(***************************************************************************)
(* One player's browser and the room, joined by a WebSocket.  The room's   *)
(* side is ActionStream; the browser's is handleMessage, sendAction and    *)
(* handleBoardAction of apps/web/src/App.tsx with the helpers of           *)
(* apps/web/src/lib/realtime.ts.                                           *)
(*                                                                         *)
(* The browser plays at once on its own copy of the board, remembers each  *)
(* action until its result arrives, and verifies or repairs the copy from  *)
(* the results and snapshots it receives.  What it shows, and what the     *)
(* handlers of its buttons have captured, is the state of the latest       *)
(* rendering, which lags behind the messages it has processed.             *)
(***************************************************************************)
EXTENDS ActionStream

CONSTANTS
    Opened,       \* the boards that have been opened, which no move undoes
    MaxActions,   \* bound: actions the browser sends
    Proceedings   \* bound: what the rest of the room may do

ASSUME SessionAssumption ==
    /\ MaxActions \in Nat /\ ActionIds = 1 .. MaxActions /\ MaxEpoch >= 1
    /\ Proceedings \subseteq RoomMoves
ASSUME OpeningAssumption ==
    /\ Opened \subseteq Boards
    /\ \A n \in 1 .. MaxRound : Dealt(n) \notin Opened /\ Open(Dealt(n)) \in Opened
    /\ \A b \in Opened, m \in Moves : Play(b, m) \in Opened

UiPhases == {"HOME"} \cup (Phases \ {"REMATCH", "CLOSED"})

VARIABLES
    cli,   \* the browser
    up,    \* envelopes on their way to the room
    down,  \* messages on their way to the browser
    late   \* history: delivery or rendering has lagged a countdown or a ring behind

vars == <<srv, cli, up, down, late>>

-----------------------------------------------------------------------------
(* The browser.                                                            *)

(* classifyReliableSequence: what was processed is ignored, what is not    *)
(* the next message is a gap.                                              *)
Duplicate(c, m) == m.seq <= c.processed
Gap(c, m) == m.seq > c.processed + 1

FailIntegrity(c) == [c EXCEPT !.failed = TRUE, !.pending = {}, !.phase = "MATCH_RESULT"]

Pending(c, id) == {p \in c.pending : p.id = id}
Settled(c, id) == [c EXCEPT !.pending = @ \ Pending(c, id)]

(* Mutation: a result is verified while later actions are in flight. *)
Plan_NeverDefers(reconcile, remaining) ==
    CASE reconcile = "SNAPSHOT_REQUIRED" -> "WAIT"
      [] reconcile = "ROLLBACK" -> IF remaining > 0 THEN "WAIT" ELSE "ROLLBACK"
      [] reconcile = "NONE" -> "VERIFY"

(* planActionReconciliation.                                               *)
Plan(reconcile, remaining) ==
    CASE reconcile = "SNAPSHOT_REQUIRED" -> "WAIT"
      [] reconcile = "ROLLBACK" -> IF remaining > 0 THEN "WAIT" ELSE "ROLLBACK"
      [] reconcile = "NONE" -> IF remaining > 0 THEN "DEFER" ELSE "VERIFY"

(* ACTION_RESULT.  Only an action still pending is rolled back or          *)
(* verified: the copy must then be the room's board.                       *)
OnResult(c, body) ==
    LET settled == Settled(c, body.id)
        plan    == Plan(body.verdict.reconcile, Cardinality(settled.pending))
        own     == Pending(c, body.id)
        action  == CHOOSE p \in own : TRUE
        checked == own # {} /\ c.game # NoBoard /\ plan # "DEFER"
        back    == IF checked /\ plan = "ROLLBACK"
                   THEN [settled EXCEPT !.game = action.pre] ELSE settled
    IN IF plan = "WAIT" THEN [settled EXCEPT !.snap = TRUE]
       ELSE IF /\ checked
               /\ \/ back.game # body.verdict.hash
                  \/ plan = "VERIFY" /\ back.game # action.optimistic
            THEN FailIntegrity(back)
       ELSE back

Shown(c, phase) == IF phase \in UiPhases THEN phase ELSE c.phase

(* Mutation: the room's board is not taken over. *)
OnSnapshot_KeepsBoard(c, body) ==
    [c EXCEPT !.snap = FALSE, !.pending = {}, !.match = body.match,
              !.phase = Shown(c, body.phase)]

(* SNAPSHOT: the room's board replaces the copy, and nothing is pending.   *)
OnSnapshot(c, body) ==
    [c EXCEPT !.snap = FALSE, !.pending = {}, !.match = body.match,
              !.game = IF body.board = NoBoard THEN @ ELSE body.board,
              !.phase = Shown(c, body.phase)]

OnMessage(c, body) ==
    CASE body.type = "WELCOME" -> [c EXCEPT !.match = body.match, !.phase = "LOBBY"]
      [] body.type = "ROOM_STATE" ->
            [c EXCEPT !.match = body.match, !.phase = Shown(c, body.phase)]
      [] body.type = "COUNTDOWN" ->
            [c EXCEPT !.game = Dealt(body.round), !.pending = {}, !.snap = FALSE,
                      !.phase = "COUNTDOWN"]
      [] body.type = "ROUND_ACTIVE" ->
            [c EXCEPT !.game = IF @ = NoBoard THEN @ ELSE Open(@), !.phase = "ACTIVE"]
      [] body.type = "ACTION_RESULT" -> OnResult(c, body)
      [] body.type \in {"ROUND_RESULT", "MATCH_RESULT"} -> [c EXCEPT !.phase = body.type]
      [] body.type = "REMATCH_STARTED" ->
            [c EXCEPT !.match = body.match, !.game = NoBoard, !.pending = {},
                      !.snap = FALSE, !.phase = "LOBBY"]
      [] body.type = "SNAPSHOT" -> OnSnapshot(c, body)

(* handleMessage.                                                          *)
HandleMessage(c, m) ==
    IF Duplicate(c, m) THEN c
    ELSE IF Gap(c, m) THEN FailIntegrity(c)
    ELSE OnMessage([c EXCEPT !.processed = m.seq], m.body)

(* sendAction: the envelope carries what the latest rendering captured.    *)
Send(c, base, do) ==
    /\ c.count < MaxActions
    /\ up' = Append(up, [id |-> c.count + 1, epoch |-> 1, match |-> c.ui.match,
                         last |-> c.ui.processed, base |-> base, do |-> do])

-----------------------------------------------------------------------------
(* After HELLO the room has welcomed the browser's first connection.       *)
Entered ==
    RoomState(SendSnapshot(Tell([NewPlayer EXCEPT !.connected = TRUE, !.epoch = 1], "WELCOME")))

SessionInit ==
    /\ srv = [Entered EXCEPT !.sent = <<>>]
    /\ cli = [game |-> NoBoard, pending |-> {}, snap |-> FALSE, processed |-> 0,
              phase |-> "HOME", match |-> 1, count |-> 0, failed |-> FALSE,
              ui |-> [phase |-> "HOME", match |-> 1, processed |-> 0]]
    /\ up = <<>>
    /\ down = Entered.sent
    /\ late = FALSE

(* The messages of a step go on the wire.                                  *)
Wire == down' = down \o srv'.sent

(* The round before is not over yet for everyone: an action of it is on    *)
(* its way, the browser has not heard of the countdown, or still shows the *)
(* round as active.                                                        *)
RoundLingers ==
    \/ \E i \in DOMAIN up : IsBoardAction(up[i])
    \/ \E i \in DOMAIN down : down[i].body.type = "COUNTDOWN"
    \/ cli.ui.phase = "ACTIVE"

(* The opponent and the timers.  A countdown of three seconds outlasts     *)
(* delivery and rendering, unless they are slow.                           *)
RoomProceeds(move) ==
    /\ RoomActs(move)
    /\ Wire
    /\ late' = (late \/ (move \in {"ACTIVATE", "ACTIVATE_OVER"} /\ RoundLingers))
    /\ UNCHANGED <<cli, up>>

RoundExpires == DeadlinePasses /\ UNCHANGED <<cli, up, down, late>>

RoomReceives ==
    /\ up # <<>>
    /\ HandleAction(Head(up))
    /\ up' = Tail(up)
    /\ Wire
    /\ late' = (late \/ ~Reaches(srv, Head(up).last))
    /\ UNCHANGED cli

BrowserReceives ==
    /\ down # <<>>
    /\ ~cli.failed
    /\ cli' = HandleMessage(cli, Head(down))
    /\ down' = Tail(down)
    /\ UNCHANGED <<srv, up, late>>

(* React renders what the messages have set.                               *)
Render ==
    /\ cli.ui # [phase |-> cli.phase, match |-> cli.match, processed |-> cli.processed]
    /\ cli' = [cli EXCEPT !.ui = [phase |-> cli.phase, match |-> cli.match,
                                  processed |-> cli.processed]]
    /\ UNCHANGED <<srv, up, down, late>>

(* The buttons: READY in the lobby and between rounds, REMATCH after.      *)
ClickReady ==
    /\ cli.ui.phase \in {"LOBBY", "ROUND_RESULT"} /\ ~cli.failed
    /\ Send(cli, NoBoard, "READY")
    /\ cli' = [cli EXCEPT !.count = @ + 1]
    /\ UNCHANGED <<srv, down, late>>

ClickRematch ==
    /\ cli.ui.phase = "MATCH_RESULT" /\ ~cli.failed
    /\ Send(cli, NoBoard, "REMATCH")
    /\ cli' = [cli EXCEPT !.count = @ + 1]
    /\ UNCHANGED <<srv, down, late>>

(* handleBoardAction: the move is played on the copy, legal or not, and    *)
(* sent with the hash of the board it was made on.                         *)
ClickBoard(move) ==
    /\ cli.game # NoBoard /\ ~cli.snap /\ ~cli.failed
    /\ cli.ui.phase = "ACTIVE"
    /\ Send(cli, cli.game, move)
    /\ LET optimistic == IF cli.game \in Finished THEN cli.game ELSE Play(cli.game, move)
       IN cli' = [cli EXCEPT !.count = @ + 1,
                             !.game = optimistic,
                             !.pending = @ \cup {[id |-> cli.count + 1, pre |-> cli.game,
                                                   optimistic |-> optimistic]}]
    /\ UNCHANGED <<srv, down, late>>

SessionNext ==
    \/ \E move \in Proceedings : RoomProceeds(move)
    \/ RoundExpires
    \/ RoomReceives \/ BrowserReceives \/ Render
    \/ ClickReady \/ ClickRematch
    \/ \E move \in Moves : ClickBoard(move)

SessionSpec == SessionInit /\ [][SessionNext]_vars
-----------------------------------------------------------------------------
Quiet == up = <<>> /\ down = <<>>

(* The browser never ends a duel for a loss of integrity that is its own:  *)
(* over an ordered connection there is no gap, and a result it verifies    *)
(* agrees with its copy of the board, whatever is in flight, rendered late *)
(* or overtaken by the end of the round.                                   *)
NoFalseAlarm == ~cli.failed

(* Once everything sent has arrived, the input is open, not waiting for a  *)
(* snapshot or a result, and the browser shows the room's match and phase; *)
(* and the room's board, unless delivery or rendering has lagged behind by *)
(* a countdown or by as many messages as the ring holds.                   *)
CopyAgrees ==
    Quiet =>
        /\ ~cli.snap /\ cli.pending = {}
        /\ cli.match = srv.match /\ (srv.phase \in UiPhases => cli.phase = srv.phase)
        /\ srv.phase = "ACTIVE" /\ ~late => cli.game = srv.board

=============================================================================
