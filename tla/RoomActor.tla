------------------------------ MODULE RoomActor ------------------------------
(***************************************************************************)
(* The authoritative duel room of apps/server/src/room-actor.ts: one      *)
(* single-writer object that seats two guests, deals rounds, adjudicates   *)
(* them and keeps one replay per match.                                    *)
(*                                                                         *)
(* The fields of the object are the fields of the record `room`, and each  *)
(* method that changes them is an operator from rooms to rooms, so that a  *)
(* handler is the composition of the calls it makes and runs to completion *)
(* in one step, as it does on the event loop.  Actions are the calls that  *)
(* reach the object: the room manager, the realtime gateway, its own       *)
(* timers.  The envelope checks that precede the dispatch of an action     *)
(* (epoch, match id, stream position, duplicate ids) change nothing here;  *)
(* they are the subject of ActionStream.                                   *)
(***************************************************************************)
EXTENDS Integers, FiniteSets

CONSTANTS
    Guests,          \* guests that may try to enter the room
    Host,            \* the guest that created it
    NoGuest,         \* absence of a guest: no winner
    Full,            \* progress of a completed board (progress is a fraction)
    RoundsPerMatch,  \* 5 in finishRound
    WinsNeeded,      \* 2 in finishRound
    RoundsPerRoom,   \* MAX_PHASE_ZERO_ROUNDS_PER_ROOM, 15
    NumBoards,       \* boardSpecs.length, 32 certified seeds
    MaxReplays,      \* MAX_REPLAYS_PER_ROOM, 16
    Overflows,       \* the events whose record may exceed the replay's budget
    MaxMatches,      \* bound: matches played in the room
    MaxEpoch         \* bound: connection epochs issued to a guest

ASSUME GuestAssumption == Host \in Guests /\ NoGuest \notin Guests
ASSUME BoardAssumption == Full \in Nat /\ Full >= 2
ASSUME RoundAssumption ==
    /\ RoundsPerMatch \in Nat \ {0}
    /\ WinsNeeded \in Nat \ {0}
    /\ RoundsPerRoom \in Nat
    /\ NumBoards \in Nat /\ NumBoards >= RoundsPerRoom /\ NumBoards >= 1
ASSUME BoundAssumption ==
    /\ MaxMatches \in Nat \ {0}
    /\ MaxEpoch \in Nat
    /\ MaxReplays \in Nat \ {0}

(* The two ways a round is over for one player, and not yet over.          *)
Terminals == {"NONE", "MINE", "COMPLETE"}
Phases == {"LOBBY", "COUNTDOWN", "ACTIVE", "ROUND_RESULT",
           "MATCH_RESULT", "REMATCH", "CLOSED"}
InMatch == {"COUNTDOWN", "ACTIVE", "ROUND_RESULT"}

(* A timer field is undefined, a pending timeout, or the handle of one     *)
(* that has fired: settleTimeout and scheduleTerminalSettlement ask only   *)
(* whether the field is set.                                               *)
Timers == {"countdown", "round", "terminal", "progress", "rematch"}
TimerState == {"UNSET", "ARMED", "FIRED"}

Events == {"PLAYER_JOINED", "PLAYER_CONNECTED", "PLAYER_DISCONNECTED",
           "READY", "REMATCH_REQUESTED", "COUNTDOWN", "ROUND_ACTIVE",
           "ACTION", "ROUND_RESULT", "MATCH_RESULT", "REMATCH_STARTED"}

(* "NONE" in Overflows: the step in which every event fits.  The server's  *)
(* configuration leaves room for 100 events and 1024 bytes at least, so    *)
(* the first event of a match always fits.                                 *)
ASSUME OverflowAssumption ==
    Overflows \subseteq (Events \ {"REMATCH_STARTED"}) \cup {"NONE"}

MatchIds == 1 .. MaxMatches
ReplayStatus == {"ABSENT", "ACTIVE", "COMPLETED", "UNAVAILABLE"}
NoGame == -1   \* a player without a board
Opening == 1   \* progress after the opening reveal of the start cell

NoResult == [outcome |-> "NONE", winner |-> NoGuest, reason |-> "NONE"]
Won(g, why) == [outcome |-> "WIN", winner |-> g, reason |-> why]
NoContest(why) == [outcome |-> "NO_CONTEST", winner |-> NoGuest, reason |-> why]
Reasons == {"NONE", "TECHNICAL_DNF", "FIRST_TO_TWO", "FIVE_ROUND_LIMIT",
            "PHASE_ZERO_ROUND_LIMIT", "REPLAY_BUDGET_EXCEEDED"}
Results == [outcome : {"NONE", "WIN", "NO_CONTEST"},
            winner : Guests \cup {NoGuest}, reason : Reasons]

VARIABLE room

-----------------------------------------------------------------------------
(* Timers and the replay.                                                  *)

Arm(r, t) == [r EXCEPT !.timer[t] = "ARMED"]
Fired(r, t) == [r EXCEPT !.timer[t] = "FIRED"]

(* Mutation: one timer field is forgotten. *)
ClearRoundTimers_NotTerminal(r) ==
    [r EXCEPT !.timer = [t \in Timers |->
        IF t = "rematch" \/ t = "terminal" THEN @[t] ELSE "UNSET"]]

ClearRoundTimers(r) ==
    [r EXCEPT !.timer = [t \in Timers |-> IF t = "rematch" THEN @[t] ELSE "UNSET"]]

ClearTimers(r) == [r EXCEPT !.timer = [t \in Timers |-> "UNSET"]]

Unavailable(r) == r.replay[r.match] = "UNAVAILABLE"

(* finishMatch: only the first decision of a match counts.  The replay is  *)
(* completed unless its budget has no room for the result.                 *)
FinishMatch(r, result, over) ==
    IF r.result # NoResult \/ r.phase \in {"MATCH_RESULT", "CLOSED"}
    THEN r
    ELSE [ClearRoundTimers(r) EXCEPT
            !.phase = "MATCH_RESULT",
            !.result = result,
            !.replay[r.match] =
                CASE @ = "ACTIVE" /\ over = "MATCH_RESULT" -> "UNAVAILABLE"
                  [] @ = "ACTIVE" /\ over # "MATCH_RESULT" -> "COMPLETED"
                  [] OTHER -> @]

(* Mutation: the replay is given up and the match goes on. *)
MarkReplayUnavailable_MatchGoesOn(r) == [r EXCEPT !.replay[r.match] = "UNAVAILABLE"]

(* markReplayUnavailable: the match cannot be authoritative any more.      *)
MarkReplayUnavailable(r) ==
    FinishMatch([r EXCEPT !.replay[r.match] = "UNAVAILABLE"],
                NoContest("REPLAY_BUDGET_EXCEEDED"), "NONE")

(* record: `over` names the event of this step, if any, that no longer     *)
(* fits the replay's event or byte budget.                                 *)
Record(r, event, over) ==
    IF r.replay[r.match] = "ACTIVE" /\ event = over
    THEN MarkReplayUnavailable(r)
    ELSE r

(* createReplay: at the limit the oldest completed replay is evicted.      *)
Stored(r) == {m \in MatchIds : r.replay[m] # "ABSENT"}
Completed(r) == {m \in MatchIds : r.replay[m] = "COMPLETED"}

ReplaysFull(r) == Cardinality(Stored(r)) >= MaxReplays

Evicted(r) ==
    {m \in Completed(r) : ReplaysFull(r) /\ \A n \in Completed(r) : m <= n}

CreateReplay(r) ==
    [r EXCEPT !.replay = [m \in MatchIds |->
        CASE m = r.match -> "ACTIVE"
          [] m # r.match /\ m \in Evicted(r) -> "ABSENT"
          [] OTHER -> @[m]]]

-----------------------------------------------------------------------------
(* Rounds.                                                                 *)

RoomExhausted(r) == r.total >= RoundsPerRoom

StartCountdown(r, over) ==
    LET cleared == ClearRoundTimers(r)
        dealt   == [cleared EXCEPT
                      !.round = @ + 1, !.total = @ + 1, !.cursor = @ + 1,
                      !.board = 1 + (r.cursor % NumBoards),
                      !.phase = "COUNTDOWN",
                      !.expired = FALSE,
                      !.ready = [g \in Guests |-> FALSE],
                      !.terminal = [g \in Guests |-> "NONE"],
                      !.game = [g \in Guests |-> IF g \in r.players THEN 0 ELSE NoGame]]
        logged  == Record(dealt, "COUNTDOWN", over)
    IN IF RoomExhausted(r)
       THEN FinishMatch(cleared, NoContest("PHASE_ZERO_ROUND_LIMIT"), over)
       ELSE IF Unavailable(logged) THEN logged ELSE Arm(logged, "countdown")

ActivateRound(r, over) ==
    LET opened == [r EXCEPT
                     !.phase = "ACTIVE",
                     !.expired = FALSE,
                     !.game = [g \in Guests |-> IF g \in r.players THEN Opening ELSE NoGame]]
        logged == Record(opened, "ROUND_ACTIVE", over)
    IN IF r.phase # "COUNTDOWN" \/ r.board = 0 THEN r
       ELSE IF Unavailable(logged) THEN logged ELSE Arm(logged, "round")

(* Mutation: the match runs past its last win. *)
Champions_OffByOne(r) == {g \in r.players : r.wins[g] > WinsNeeded}

MatchExhausted(r) == r.round >= RoundsPerMatch
Champions(r) == {g \in r.players : r.wins[g] >= WinsNeeded}

(* finishRound: `winners` is empty for a drawn round.                      *)
FinishRound(r, winners, over) ==
    LET scored == [ClearRoundTimers(r) EXCEPT
                     !.wins = [g \in Guests |-> IF g \in winners THEN @[g] + 1 ELSE @[g]]]
        logged == Record(scored, "ROUND_RESULT", over)
    IN IF r.phase # "ACTIVE" THEN r
       ELSE IF Unavailable(logged) THEN logged
       ELSE IF Champions(logged) # {}
            THEN FinishMatch(logged, Won(CHOOSE g \in Champions(logged) : TRUE, "FIRST_TO_TWO"), over)
       ELSE IF MatchExhausted(logged)
            THEN FinishMatch(logged, NoContest("FIVE_ROUND_LIMIT"), over)
       ELSE [logged EXCEPT !.phase = "ROUND_RESULT",
                           !.ready = [g \in Guests |-> FALSE],
                           !.terminal = [g \in Guests |-> "NONE"]]

(* settleTerminal: a completed board beats a mine and beats an opponent    *)
(* still playing; a mine loses to an opponent still playing; two equal     *)
(* ends are a draw.                                                        *)
Complete(r) == {g \in r.players : r.terminal[g] = "COMPLETE"}
Mined(r) == {g \in r.players : r.terminal[g] = "MINE"}

TerminalWinners(r) ==
    CASE \E g \in r.players : Complete(r) = {g} -> Complete(r)
      [] Complete(r) = {} -> r.players \ Mined(r)
      [] OTHER -> {}

SettleTerminal(r, over) ==
    IF /\ r.phase = "ACTIVE"
       /\ Cardinality(r.players) = 2
       /\ \E g \in r.players : r.terminal[g] # "NONE"
    THEN FinishRound(r, TerminalWinners(r), over)
    ELSE r

(* settleTimeout: a pending terminal window is left to settle the round;   *)
(* otherwise the strictly greater progress wins it.                        *)
ProgressWinners(r) ==
    {g \in r.players : \A h \in r.players \ {g} : r.game[g] > r.game[h]}

(* Mutation: the clock overrules a pending terminal window. *)
TerminalPending_Ignored(r) == FALSE

TerminalPending(r) == r.timer["terminal"] # "UNSET"

SettleTimeout(r, over) ==
    IF /\ r.phase = "ACTIVE"
       /\ ~TerminalPending(r)
       /\ Cardinality(r.players) = 2
       /\ \A g \in r.players : r.game[g] # NoGame
    THEN FinishRound(r, ProgressWinners(r), over)
    ELSE r

ScheduleTerminalSettlement(r) ==
    IF TerminalPending(r) THEN r ELSE Arm(r, "terminal")

(* resetForRematch: a new match id, a new replay, the same room totals.    *)
ResetForRematch(r, over) ==
    LET fresh == [ClearTimers(r) EXCEPT
                    !.match = @ + 1,
                    !.phase = "LOBBY",
                    !.round = 0,
                    !.board = 0,
                    !.expired = FALSE,
                    !.result = NoResult,
                    !.ready = [g \in Guests |-> FALSE],
                    !.rematch = [g \in Guests |-> FALSE],
                    !.wins = [g \in Guests |-> 0],
                    !.game = [g \in Guests |-> NoGame],
                    !.terminal = [g \in Guests |-> "NONE"]]
    IN Record(CreateReplay(fresh), "REMATCH_STARTED", over)

-----------------------------------------------------------------------------
(* The object as its constructor leaves it: the host seated, offline, and  *)
(* the first match's replay open.                                          *)
NewRoom ==
    [phase |-> "LOBBY", match |-> 1, round |-> 0, total |-> 0, cursor |-> 0,
     board |-> 0, expired |-> FALSE, result |-> NoResult,
     timer |-> [t \in Timers |-> "UNSET"],
     replay |-> [m \in MatchIds |-> IF m = 1 THEN "ACTIVE" ELSE "ABSENT"],
     players |-> {Host},
     connected |-> [g \in Guests |-> FALSE],
     epoch |-> [g \in Guests |-> 0],
     ready |-> [g \in Guests |-> FALSE],
     rematch |-> [g \in Guests |-> FALSE],
     wins |-> [g \in Guests |-> 0],
     game |-> [g \in Guests |-> NoGame],
     terminal |-> [g \in Guests |-> "NONE"]]

Init == room = NewRoom

(* A closed room has left the manager's maps: nothing calls it again, and  *)
(* close() has cleared its timers.                                         *)
Reachable == room.phase # "CLOSED"

AddPlayer(g) ==
    /\ Reachable
    /\ g \notin room.players
    /\ Cardinality(room.players) < 2
    /\ \E over \in Overflows :
         room' = Record([room EXCEPT !.players = @ \cup {g}], "PLAYER_JOINED", over)

(* connect: only a newer epoch takes the connection over.                  *)
Connect(g, e) ==
    /\ Reachable
    /\ g \in room.players
    /\ e > room.epoch[g]
    /\ \E over \in Overflows :
         room' = Record([room EXCEPT !.connected[g] = TRUE, !.epoch[g] = e],
                        "PLAYER_CONNECTED", over)

(* Mutation: an absent player stays ready. *)
Drop_KeepsReady(r, g) == [r EXCEPT !.connected[g] = FALSE]

Drop(r, g) == [r EXCEPT !.connected[g] = FALSE, !.ready[g] = FALSE]

(* disconnect: the close of a socket that has been superseded is ignored.  *)
(* Losing a player during a match decides it for an opponent still there.  *)
Disconnect(g, e) ==
    /\ Reachable
    /\ g \in room.players
    /\ room.connected[g]
    /\ e = room.epoch[g]
    /\ \E over \in Overflows :
         LET gone   == Record(Drop(room, g), "PLAYER_DISCONNECTED", over)
             others == {h \in gone.players \ {g} : gone.connected[h]}
         IN room' = IF gone.phase \in InMatch /\ others # {}
                    THEN FinishMatch(gone, Won(CHOOSE h \in others : TRUE, "TECHNICAL_DNF"), over)
                    ELSE gone

-----------------------------------------------------------------------------
(* Player actions that passed the envelope checks of handleAction.         *)

Admitted(g) == Reachable /\ g \in room.players /\ room.connected[g]

HandleReady(g) ==
    /\ Admitted(g)
    /\ room.phase \in {"LOBBY", "ROUND_RESULT"}
    /\ Cardinality(room.players) = 2
    /\ \E over \in Overflows :
         LET logged == Record([room EXCEPT !.ready[g] = TRUE], "READY", over)
         IN room' = IF ~Unavailable(logged) /\ \A h \in logged.players : logged.ready[h]
                    THEN StartCountdown(logged, over)
                    ELSE logged

(* handleRematch: the last vote resets the room, an earlier one opens the  *)
(* rematch window.                                                         *)
HandleRematch(g) ==
    /\ Admitted(g)
    /\ room.phase \in {"MATCH_RESULT", "REMATCH"}
    /\ ~room.rematch[g]
    /\ room.match < MaxMatches
    /\ \E over \in Overflows :
         LET logged == Record([room EXCEPT !.rematch[g] = TRUE, !.phase = "REMATCH"],
                              "REMATCH_REQUESTED", over)
         IN room' = IF Unavailable(logged) THEN logged
                    ELSE IF \A h \in logged.players : logged.rematch[h]
                         THEN ResetForRematch(logged, over)
                    ELSE IF logged.timer["rematch"] = "UNSET"
                         THEN Arm(logged, "rematch")
                    ELSE logged

Playing(g) ==
    /\ Admitted(g)
    /\ room.phase = "ACTIVE"
    /\ room.game[g] # NoGame
    /\ room.terminal[g] = "NONE"

(* handleBoardAction after the deadline: refused, and the round is settled *)
(* unless a terminal window is still open.                                 *)
BoardActionExpired(g) ==
    /\ Playing(g)
    /\ room.expired
    /\ \E over \in Overflows : room' = SettleTimeout(room, over)

(* handleBoardAction before the deadline.  The game core's delta is either *)
(* refused, or accepted with a mine hit, or accepted with `gained` more of *)
(* the board revealed (0 for a flag), or both: a chord opens safe cells    *)
(* until it meets a mine.  It is recorded in every case.                   *)
Deltas == [accepted : BOOLEAN, hitMine : BOOLEAN, gained : 0 .. Full]

LegalDelta(g, d) ==
    /\ ~d.accepted => ~d.hitMine /\ d.gained = 0
    /\ room.game[g] + d.gained <= Full

(* scheduleProgress broadcasts at once or arms the progress timer.         *)
ScheduleProgress(r, now) == IF now THEN r ELSE Arm(r, "progress")

(* The player's own end, if this delta brought it.                         *)
MarkTerminal(r, g, d) ==
    CASE d.hitMine -> ScheduleTerminalSettlement([r EXCEPT !.terminal[g] = "MINE"])
      [] ~d.hitMine /\ r.game[g] = Full ->
            ScheduleTerminalSettlement([r EXCEPT !.terminal[g] = "COMPLETE"])
      [] OTHER -> r

BoardAction(g, d) ==
    /\ Playing(g)
    /\ ~room.expired
    /\ LegalDelta(g, d)
    /\ \E over \in Overflows, now \in BOOLEAN :
         LET logged == Record([room EXCEPT !.game[g] = @ + d.gained], "ACTION", over)
         IN room' = IF logged.phase # "ACTIVE" \/ ~d.accepted THEN logged
                    ELSE MarkTerminal(ScheduleProgress(logged, now), g, d)

-----------------------------------------------------------------------------
(* The clock and the room's own timers.                                    *)

(* The deadline of the round passes.  It is compared with the wall clock,  *)
(* the timers run on the event loop's: either may come first.              *)
DeadlinePasses ==
    /\ room.phase = "ACTIVE"
    /\ ~room.expired
    /\ room' = [room EXCEPT !.expired = TRUE]

FireCountdown ==
    /\ room.timer["countdown"] = "ARMED"
    /\ \E over \in Overflows : room' = ActivateRound(Fired(room, "countdown"), over)

FireRound ==
    /\ room.timer["round"] = "ARMED"
    /\ \E over \in Overflows : room' = SettleTimeout(Fired(room, "round"), over)

FireTerminal ==
    /\ room.timer["terminal"] = "ARMED"
    /\ \E over \in Overflows : room' = SettleTerminal(Fired(room, "terminal"), over)

FireProgress ==
    /\ room.timer["progress"] = "ARMED"
    /\ room' = [room EXCEPT !.timer["progress"] = "UNSET"]

(* Mutation: the votes, or the handle of the timer, survive the window. *)
ExpireRematch_KeepsVotes(r) ==
    IF r.phase # "REMATCH" THEN [r EXCEPT !.timer["rematch"] = "UNSET"]
    ELSE [r EXCEPT !.timer["rematch"] = "UNSET", !.phase = "MATCH_RESULT"]
ExpireRematch_KeepsHandle(r) ==
    IF r.phase # "REMATCH" THEN Fired(r, "rematch")
    ELSE [Fired(r, "rematch") EXCEPT !.phase = "MATCH_RESULT",
                                     !.rematch = [g \in Guests |-> FALSE]]

(* expireRematch: the window closes and the votes are withdrawn.           *)
ExpireRematch(r) ==
    LET expired == [r EXCEPT !.timer["rematch"] = "UNSET"]
    IN IF r.phase # "REMATCH" THEN expired
       ELSE [expired EXCEPT !.phase = "MATCH_RESULT",
                            !.rematch = [g \in Guests |-> FALSE]]

FireRematch ==
    /\ room.timer["rematch"] = "ARMED"
    /\ room' = ExpireRematch(room)

-----------------------------------------------------------------------------
(* The room manager's two ways to close a room.                            *)

Close(r) == [ClearTimers(r) EXCEPT !.phase = "CLOSED"]

(* sweepIdleRooms, once the room has been idle for roomIdleTtlMs.          *)
Sweep ==
    /\ Reachable
    /\ \A g \in room.players : ~room.connected[g]
    /\ room.phase \notin {"COUNTDOWN", "ACTIVE"}
    /\ room' = Close(room)

Shutdown == Reachable /\ room' = Close(room)

Next ==
    \/ \E g \in Guests : AddPlayer(g) \/ HandleReady(g) \/ HandleRematch(g)
                         \/ BoardActionExpired(g)
    \/ \E g \in Guests, e \in 1 .. MaxEpoch : Connect(g, e) \/ Disconnect(g, e)
    \/ \E g \in Guests, d \in Deltas : BoardAction(g, d)
    \/ DeadlinePasses
    \/ FireCountdown \/ FireRound \/ FireTerminal \/ FireProgress \/ FireRematch
    \/ Sweep \/ Shutdown

Spec == Init /\ [][Next]_room

(* A pending timeout is eventually run by the event loop.                  *)
TimerFairness ==
    /\ WF_room(FireCountdown)
    /\ WF_room(FireRound)
    /\ WF_room(FireTerminal)
    /\ WF_room(FireRematch)

FairSpec == Spec /\ TimerFairness
-----------------------------------------------------------------------------
(* Type.  The bounds on wins, rounds and total rounds are part of it: no   *)
(* match runs past its fifth round, no room past its fifteenth.            *)
RoomType ==
    [phase : Phases, match : MatchIds,
     round : 0 .. RoundsPerMatch, total : 0 .. RoundsPerRoom,
     cursor : 0 .. RoundsPerRoom, board : 0 .. NumBoards,
     expired : BOOLEAN, result : Results,
     timer : [Timers -> TimerState], replay : [MatchIds -> ReplayStatus],
     players : SUBSET Guests, connected : [Guests -> BOOLEAN],
     epoch : [Guests -> 0 .. MaxEpoch],
     ready : [Guests -> BOOLEAN], rematch : [Guests -> BOOLEAN],
     wins : [Guests -> 0 .. WinsNeeded],
     game : [Guests -> NoGame .. Full], terminal : [Guests -> Terminals]]

TypeOK == room \in RoomType

Undecided == room.phase \in {"LOBBY"} \cup InMatch

(* A round is never dealt to, played by or scored for an absent player:    *)
(* from the countdown to the round result both seats are taken and online, *)
(* whatever connects, disconnects and reconnects happen in the lobby or    *)
(* between rounds.                                                         *)
MatchHasBothPlayers ==
    room.phase \in InMatch =>
        /\ Cardinality(room.players) = 2
        /\ \A g \in room.players : room.connected[g]

(* A round can always end: a countdown has its timeout pending, a round in *)
(* play has its duration or its terminal window pending, and the window is *)
(* pending exactly when some player has finished.  A handle left behind by *)
(* a timeout that already fired would break it.                            *)
RoundIsTimed ==
    /\ room.phase = "COUNTDOWN" => room.timer["countdown"] = "ARMED"
    /\ room.phase = "ACTIVE" =>
        /\ room.timer["round"] = "ARMED" \/ room.timer["terminal"] = "ARMED"
        /\ room.timer["terminal"] =
             IF \A g \in room.players : room.terminal[g] = "NONE" THEN "UNSET" ELSE "ARMED"

(* No timeout outlives what it was armed for: one that did would start,    *)
(* settle or expire a later round or match.                                *)
NoStrayTimer ==
    /\ room.timer["countdown"] = "ARMED" => room.phase = "COUNTDOWN"
    /\ \A t \in {"round", "terminal", "progress"} :
          room.timer[t] = "ARMED" => room.phase = "ACTIVE"
    /\ room.timer["rematch"] = "ARMED" => room.phase = "REMATCH"

(* The timeouts pending are those the phase needs and no others.           *)
TimersFitPhase == RoundIsTimed /\ NoStrayTimer

(* The match result, the phase and the replay agree: the replay is open    *)
(* exactly while the match is undecided, so a decided match can always be  *)
(* replayed or is known not to be, and an unusable replay always ends its  *)
(* match.                                                                  *)
ReplayFollowsMatch ==
    /\ Undecided => room.result = NoResult
    /\ room.phase \in {"MATCH_RESULT", "REMATCH"} => room.result # NoResult
    /\ room.replay[room.match] = "ACTIVE" <=> room.result = NoResult
    /\ \A m \in MatchIds : m # room.match => room.replay[m] # "ACTIVE"

(* Rematch votes live only in the rematch window: a vote that outlived it  *)
(* would bar its player from asking again and let a later single vote      *)
(* restart the match.                                                      *)
VotesBelongToWindow ==
    /\ \A g \in Guests : room.rematch[g] => room.phase \in {"REMATCH", "CLOSED"}
    /\ room.phase = "REMATCH" => \E g \in Guests : room.rematch[g]

(* README: a room uses no more than fifteen, non-repeating boards.  Across *)
(* rounds and rematches the n-th round of the room gets the n-th board.    *)
BoardsNeverRepeat ==
    /\ room.total <= RoundsPerRoom
    /\ room.board # 0 => room.board = room.total

(* A round is never won by a player who hit a mine, nor against one who    *)
(* completed the board: the clock running out does not overrule a terminal *)
(* window that is still open.                                              *)
WinIsEarned ==
    [][\A g \in Guests : room'.wins[g] > room.wins[g] =>
         /\ room.terminal[g] # "MINE"
         /\ \A h \in room.players \ {g} : room.terminal[h] # "COMPLETE"]_room

(* The room moves on: every countdown leads to a decided round, whether or *)
(* not anybody plays, and a rematch request on a match with a completed    *)
(* replay is answered: the rematch starts or the window expires.           *)
RoomMovesOn ==
    /\ room.phase = "COUNTDOWN" ~> room.phase \notin {"COUNTDOWN", "ACTIVE"}
    /\ (room.phase = "REMATCH" /\ room.replay[room.match] = "COMPLETED")
        ~> room.phase # "REMATCH"

(* README: players can start a rematch from the result screen.  When both  *)
(* seats are taken and both players have voted, the room has moved on to   *)
(* the new match.                                                          *)
RematchStartsWhenAllVote ==
    room.phase = "REMATCH" /\ Cardinality(room.players) = 2 =>
        \E g \in room.players : ~room.rematch[g]

(* The room implements the match it promises: mapping phases to stages,    *)
(* every step of the room is a step of BestOfThree or none.                *)
Stage == CASE room.phase \in {"LOBBY", "ROUND_RESULT"} -> "IDLE"
           [] room.phase \in {"COUNTDOWN", "ACTIVE"} -> "ROUND"
           [] room.phase \in {"MATCH_RESULT", "REMATCH"} -> "DECIDED"
           [] room.phase = "CLOSED" -> "CLOSED"

Match == INSTANCE BestOfThree WITH
    stage <- Stage, rounds <- room.round, wins <- room.wins, winner <- room.result.winner

ImplementsMatch == Match!Spec

=============================================================================
