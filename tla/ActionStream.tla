---------------------------- MODULE ActionStream ----------------------------
(***************************************************************************)
(* What the duel room of apps/server/src/room-actor.ts keeps for one of    *)
(* its players: the numbered stream of reliable messages with the ring of  *)
(* the latest ones, the ids of the actions already answered with the cache *)
(* of their results, and the checks an action passes before it reaches the *)
(* game (handleAction).                                                    *)
(*                                                                         *)
(* The rest of the room (the opponent, the timers, the replay) is seen     *)
(* through what it does to this player: it moves the phase and the board   *)
(* and emits messages (RoomMoves).  Its own rules are those of RoomActor.  *)
(* A board stands for its state hash: two boards are equal exactly when    *)
(* their hashes are, and the game core is the function Play.               *)
(***************************************************************************)
EXTENDS Integers, Sequences, FiniteSets

CONSTANTS
    ActionIds,      \* clientActionIds
    Boards,         \* states of the player's board
    NoBoard,        \* no board, and the hash of a room state: never a board
    Finished,       \* the boards that are won or lost
    Moves,          \* moves on a board: REVEAL, TOGGLE_FLAG, CHORD of a cell
    NoCell,         \* a board action that names no cell
    Play(_, _),     \* the game core: the board a move leads to
    Dealt(_),       \* the board of the n-th round as dealt
    Open(_),        \* a board after its opening reveal
    RingLimit,      \* MAX_EVENT_RING, 256
    CacheLimit,     \* MAX_ACTION_CACHE, 2048
    ActionLimit,    \* MAX_ACTIONS_PER_PLAYER_PER_MATCH, 50000
    MaxEpoch,       \* bound: connection epochs
    MaxMatch,       \* bound: matches
    MaxRound,       \* bound: rounds of the room
    MaxSeq          \* bound: messages of the stream

ASSUME LimitAssumption ==
    RingLimit \in Nat \ {0} /\ CacheLimit \in Nat \ {0} /\ ActionLimit \in Nat
ASSUME BoundAssumption ==
    MaxEpoch \in Nat /\ MaxMatch \in Nat \ {0} /\ MaxRound \in Nat /\ MaxSeq \in Nat
ASSUME GameAssumption ==
    /\ NoBoard \notin Boards
    /\ Finished \subseteq Boards
    /\ NoCell \notin Moves \cup {"READY", "REMATCH"}
    /\ Moves \cap {"READY", "REMATCH"} = {}
    /\ \A b \in Boards, m \in Moves : Play(b, m) \in Boards
    /\ \A n \in 1 .. MaxRound : Dealt(n) \in Boards
    /\ \A b \in Boards : Open(b) \in Boards
ASSUME IdAssumption == IsFiniteSet(ActionIds)

Phases == {"LOBBY", "COUNTDOWN", "ACTIVE", "ROUND_RESULT", "MATCH_RESULT", "REMATCH",
           "CLOSED"}
Reconciles == {"NONE", "ROLLBACK", "SNAPSHOT_REQUIRED"}
Controls == {"READY", "REMATCH"}
BoardActions == Moves \cup {NoCell}
Hashes == Boards \cup {NoBoard}

(* An action as the player sends it: the base hash is that of the board it *)
(* was made on.                                                            *)
Envelopes ==
    [id : ActionIds, epoch : 1 .. MaxEpoch, match : 1 .. MaxMatch,
     last : 0 .. MaxSeq + 1, base : Hashes, do : Controls \cup BoardActions]

Verdicts == [accepted : BOOLEAN, reconcile : Reconciles, hash : Hashes]

(* The messages of the stream, with what the player's client reads of them. *)
EventTypes == {"WELCOME", "ROOM_STATE", "COUNTDOWN", "ROUND_ACTIVE", "ROUND_RESULT",
               "MATCH_RESULT", "REMATCH_STARTED"}
Bodies ==
    [type : EventTypes, match : 1 .. MaxMatch, phase : Phases, round : 0 .. MaxRound]
    \cup [type : {"SNAPSHOT"}, match : 1 .. MaxMatch, phase : Phases,
          round : 0 .. MaxRound, board : Hashes]
    \cup [type : {"ACTION_RESULT"}, match : 1 .. MaxMatch, id : ActionIds,
          verdict : Verdicts, duplicate : BOOLEAN]
Messages == [seq : Nat \ {0}, body : Bodies]

VARIABLE srv

-----------------------------------------------------------------------------
(* The stream.                                                             *)

Trim(ring) == IF Len(ring) > RingLimit THEN Tail(ring) ELSE ring

(* emitTo: a player who never connected gets no stream; an absent one gets *)
(* his messages into the ring only.                                        *)
Emit(s, body) ==
    LET message == [seq |-> s.seq + 1, body |-> body]
    IN IF s.epoch = 0 THEN s
       ELSE [s EXCEPT !.seq = @ + 1,
                      !.ring = Trim(Append(@, message)),
                      !.sent = IF s.connected THEN Append(@, message) ELSE @]

Event(s, type) == [type |-> type, match |-> s.match, phase |-> s.phase, round |-> s.round]
Result(s, id, verdict, duplicate) ==
    [type |-> "ACTION_RESULT", match |-> s.match, id |-> id,
     verdict |-> verdict, duplicate |-> duplicate]

Tell(s, type) == Emit(s, Event(s, type))
RoomState(s) == Tell(s, "ROOM_STATE")

SendSnapshot(s) ==
    Emit(s, [type |-> "SNAPSHOT", match |-> s.match, phase |-> s.phase,
             round |-> s.round, board |-> s.board])

(* catchUp: the ring reaches back to the message after `last`, and what    *)
(* follows it is sent again.                                               *)
(* Mutation: the ring is trusted one message further than it reaches. *)
Reaches_OffByOne(s, last) ==
    \/ last >= s.seq
    \/ s.ring # <<>> /\ last >= Head(s.ring).seq - 2

Reaches(s, last) ==
    \/ last >= s.seq
    \/ s.ring # <<>> /\ last >= Head(s.ring).seq - 1

(* The ring is in the order of the stream.                                 *)
Following(s, last) ==
    LET known == Cardinality({i \in DOMAIN s.ring : s.ring[i].seq <= last})
    IN SubSeq(s.ring, known + 1, Len(s.ring))

CatchUp(s, last) == [s EXCEPT !.sent = @ \o Following(s, last)]

-----------------------------------------------------------------------------
(* Answers to actions.                                                     *)

Verdict(accepted, reconcile, hash) ==
    [accepted |-> accepted, reconcile |-> reconcile, hash |-> hash]
Rejected(reconcile, hash) == Verdict(FALSE, reconcile, hash)

IsBoardAction(e) == e.do \in BoardActions

(* actionBaseStateHash: the board's, or the room's, which is no board's.   *)
BaseStateHash(s, e) == IF IsBoardAction(e) THEN s.board ELSE NoBoard

Answer(s, e, verdict) == Emit(s, Result(s, e.id, verdict, FALSE))

(* Mutation: the id is remembered only as long as its result. *)
Remember_NoTombstone(s, e, verdict) ==
    LET longer == Append(s.cache, [id |-> e.id, verdict |-> verdict])
        kept   == IF Len(longer) > CacheLimit THEN Tail(longer) ELSE longer
    IN [s EXCEPT !.seen = {kept[i].id : i \in DOMAIN kept}, !.cache = kept]

(* The id is remembered for the rest of the match, the result until the    *)
(* cache is full.                                                          *)
Remember(s, e, verdict) ==
    LET longer == Append(s.cache, [id |-> e.id, verdict |-> verdict])
    IN [s EXCEPT !.seen = @ \cup {e.id},
                 !.cache = IF Len(longer) > CacheLimit THEN Tail(longer) ELSE longer]

(* rejectAndCache, and cacheAndEmit for an action that took effect.        *)
Reject(s, e, verdict) == Answer(Remember(s, e, verdict), e, verdict)

(* History: how often the game, or the room, took an action of this match. *)
Apply(s, e) == [s EXCEPT !.applied[e.id] = @ + 1]

Accept(s, e, hash) ==
    LET verdict == Verdict(TRUE, "NONE", hash)
    IN Answer(Apply(Remember(s, e, verdict), e), e, verdict)

Cached(s, id) == {i \in DOMAIN s.cache : s.cache[i].id = id}

-----------------------------------------------------------------------------
(* What the room does to the player, whoever caused it.                    *)

Dealing(s) ==
    Tell([s EXCEPT !.phase = "COUNTDOWN", !.round = @ + 1, !.board = Dealt(s.round + 1),
                   !.ready = FALSE], "COUNTDOWN")
Activating(s) ==
    Tell([s EXCEPT !.phase = "ACTIVE", !.board = Open(s.board), !.expired = FALSE],
         "ROUND_ACTIVE")
EndRound(s) ==
    RoomState([Tell(s, "ROUND_RESULT") EXCEPT !.phase = "ROUND_RESULT", !.ready = FALSE])
EndMatch(s) == RoomState(Tell([s EXCEPT !.phase = "MATCH_RESULT"], "MATCH_RESULT"))
Close(s) == RoomState([s EXCEPT !.phase = "CLOSED"])
ExpireRematch(s) == RoomState([s EXCEPT !.phase = "MATCH_RESULT", !.vote = FALSE])
CallRematch(s) == RoomState([s EXCEPT !.phase = "REMATCH"])

(* Mutation: the results of the old match are kept. *)
Rematch_KeepsResults(s) ==
    RoomState(Tell([s EXCEPT !.match = @ + 1, !.phase = "LOBBY", !.board = NoBoard,
                             !.ready = FALSE, !.vote = FALSE, !.seen = {},
                             !.applied = [id \in ActionIds |-> 0]], "REMATCH_STARTED"))

(* resetForRematch: ids and results go with their match, the stream and    *)
(* its numbers go on.                                                      *)
Rematch(s) ==
    RoomState(Tell([s EXCEPT !.match = @ + 1, !.phase = "LOBBY", !.board = NoBoard,
                             !.ready = FALSE, !.vote = FALSE, !.seen = {}, !.cache = <<>>,
                             !.applied = [id \in ActionIds |-> 0]], "REMATCH_STARTED"))

(* "..._OVER": the replay's budget ends the match in the middle of it.     *)
RoomMoves == {"STATE", "DEAL", "DEAL_OVER", "ACTIVATE", "ACTIVATE_OVER",
              "END_ROUND", "END_LAST_ROUND", "END_MATCH",
              "CALL_REMATCH", "EXPIRE_REMATCH", "REMATCH", "CLOSE"}

(* When the room may move so: a round needs this player to be ready, which *)
(* an absent one is not, and a rematch needs his vote (RoomActor).         *)
MayMove(s, move) ==
    CASE move \in {"STATE", "CLOSE"} -> TRUE
      [] move \in {"DEAL", "DEAL_OVER"} ->
            s.phase \in {"LOBBY", "ROUND_RESULT"} /\ s.ready /\ s.round < MaxRound
      [] move \in {"ACTIVATE", "ACTIVATE_OVER"} -> s.phase = "COUNTDOWN"
      [] move \in {"END_ROUND", "END_LAST_ROUND"} -> s.phase = "ACTIVE"
      [] move = "END_MATCH" -> s.phase \notin {"MATCH_RESULT", "REMATCH"}
      [] move = "CALL_REMATCH" -> s.phase \in {"MATCH_RESULT", "REMATCH"}
      [] move = "EXPIRE_REMATCH" -> s.phase = "REMATCH"
      [] move = "REMATCH" -> s.phase = "REMATCH" /\ s.vote /\ s.match < MaxMatch

RoomMove(s, move) ==
    CASE move = "STATE" -> RoomState(s)
      [] move = "DEAL" -> RoomState(Dealing(s))
      [] move = "DEAL_OVER" -> EndMatch(Dealing(s))
      [] move = "ACTIVATE" -> RoomState(Activating(s))
      [] move = "ACTIVATE_OVER" -> EndMatch(Activating(s))
      [] move = "END_ROUND" -> EndRound(s)
      [] move = "END_LAST_ROUND" -> EndMatch(Tell(s, "ROUND_RESULT"))
      [] move = "END_MATCH" -> EndMatch(s)
      [] move = "CALL_REMATCH" -> CallRematch(s)
      [] move = "EXPIRE_REMATCH" -> ExpireRematch(s)
      [] move = "REMATCH" -> Rematch(s)
      [] move = "CLOSE" -> Close(s)

(* A handler may end with one of `moves`.                                  *)
Then(s, move, moves) ==
    IF move \in moves /\ MayMove(s, move) THEN RoomMove(s, move) ELSE s

-----------------------------------------------------------------------------
(* The handlers of an action that passed every check.                      *)

(* handleReady: `room` is "REFUSE" while there is no opponent; the last of *)
(* two readies deals a board, or finds that the room has no more of them.  *)
HandleReady(s, e, room) ==
    LET taken == Accept([s EXCEPT !.ready = TRUE], e, NoBoard)
    IN IF \/ s.phase \notin {"LOBBY", "ROUND_RESULT"}
          \/ s.phase = "LOBBY" /\ room = "REFUSE"
       THEN Reject(s, e, Rejected("NONE", NoBoard))
       ELSE IF room = "OVERFLOW" THEN EndMatch(taken)
       ELSE Then(RoomState(taken), room, {"DEAL", "DEAL_OVER", "END_MATCH"})

(* handleRematch: "OVERFLOW" for a match whose replay is unavailable.      *)
HandleRematch(s, e, room) ==
    LET taken == Accept([s EXCEPT !.phase = "REMATCH", !.vote = TRUE], e, NoBoard)
    IN IF s.phase \notin {"MATCH_RESULT", "REMATCH"} \/ s.vote
       THEN Reject(s, e, Rejected("NONE", NoBoard))
       ELSE IF room = "OVERFLOW" THEN taken
       ELSE Then(RoomState(taken), room, {"REMATCH"})

(* handleBoardAction: after the deadline the round may be settled at once. *)
Settlements == {"END_ROUND", "END_LAST_ROUND", "END_MATCH"}

HandleBoardAction(s, e, room) ==
    LET refused == SendSnapshot(Reject(s, e, Rejected("ROLLBACK", s.board)))
        board   == Play(s.board, e.do)
        logged  == IF board = s.board
                   THEN Reject(s, e, Rejected("NONE", board))
                   ELSE Accept([s EXCEPT !.board = board], e, board)
    IN IF s.phase # "ACTIVE" \/ s.board \in Finished \cup {NoBoard} \/ e.do = NoCell
       THEN refused
       ELSE IF s.expired THEN Then(refused, room, Settlements)
       ELSE IF room = "OVERFLOW" THEN EndMatch(logged)
       ELSE logged

Reactions(e) ==
    {"NONE", "OVERFLOW"} \cup
    CASE e.do = "READY" -> {"REFUSE", "DEAL", "DEAL_OVER", "END_MATCH"}
      [] e.do = "REMATCH" -> {"REMATCH"}
      [] IsBoardAction(e) -> Settlements

Dispatch(s, e, room) ==
    CASE e.do = "READY" -> HandleReady(s, e, room)
      [] e.do = "REMATCH" -> HandleRematch(s, e, room)
      [] IsBoardAction(e) -> HandleBoardAction(s, e, room)

-----------------------------------------------------------------------------
(* What handleAction checks before it dispatches an action.                *)

(* Of the present connection and match, by a player who does not claim to  *)
(* have seen what was not sent.                                            *)
Current(s, e) == e.epoch = s.epoch /\ e.match = s.match /\ e.last <= s.seq

(* The result of an earlier delivery, once more.                           *)
Repeat(s, e) ==
    LET verdict == s.cache[CHOOSE i \in Cached(s, e.id) : TRUE].verdict
        told    == Emit(s, Result(s, e.id, verdict, TRUE))
    IN IF verdict.reconcile = "NONE" THEN told ELSE SendSnapshot(told)

(* DUPLICATE_ACTION and ACTION_LIMIT: refused without being remembered.    *)
Exhausted(s, e) == e.id \in s.seen \/ Cardinality(s.seen) >= ActionLimit

Decline(s, e) ==
    IF IsBoardAction(e)
    THEN SendSnapshot(Answer(s, e, Rejected("ROLLBACK", BaseStateHash(s, e))))
    ELSE Answer(s, e, Rejected("NONE", BaseStateHash(s, e)))

BaseDiffers(s, e) == IsBoardAction(e) /\ e.base # BaseStateHash(s, e)

-----------------------------------------------------------------------------
(* The player as addPlayer leaves him.  `sent` is what the latest step put *)
(* on his socket, `asked` the stream position its action gave, -1 if none. *)
NewPlayer ==
    [match |-> 1, phase |-> "LOBBY", round |-> 0, board |-> NoBoard,
     expired |-> FALSE, ready |-> FALSE, vote |-> FALSE, connected |-> FALSE, epoch |-> 0, seq |-> 0, ring |-> <<>>,
     seen |-> {}, cache |-> <<>>, sent |-> <<>>, asked |-> -1,
     applied |-> [id \in ActionIds |-> 0]]

Init == srv = NewPlayer

(* A closed room is in no map of the manager any more.                     *)
Reachable == srv.phase # "CLOSED"

Bounded == srv'.seq <= MaxSeq

Begin(last) == [srv EXCEPT !.sent = <<>>, !.asked = last]

(* A connection is welcomed after its record, which may end the match.     *)
Connect(epoch, room) ==
    /\ Reachable
    /\ epoch > srv.epoch
    /\ LET there  == [Begin(-1) EXCEPT !.connected = TRUE, !.epoch = epoch]
           logged == Then(there, room, {"END_MATCH"})
       IN srv' = RoomState(SendSnapshot(Tell(logged, "WELCOME")))
    /\ Bounded

Disconnect(epoch, room) ==
    /\ Reachable
    /\ srv.connected
    /\ epoch = srv.epoch
    /\ LET gone   == [Begin(-1) EXCEPT !.connected = FALSE, !.ready = FALSE]
           logged == Then(gone, room, {"END_MATCH"})
       IN srv' = IF logged.phase \in {"COUNTDOWN", "ACTIVE", "ROUND_RESULT"}
                 THEN EndMatch(logged)
                 ELSE RoomState(logged)
    /\ Bounded

(* The checks of handleAction, in their order.                             *)
Outdated(e) ==
    /\ ~Current(srv, e)
    /\ srv' = SendSnapshot(Answer(Begin(e.last), e, Rejected("SNAPSHOT_REQUIRED", NoBoard)))

FallenBehind(e) ==
    /\ Current(srv, e)
    /\ ~Reaches(srv, e.last)
    /\ srv' = SendSnapshot(Answer(Begin(e.last), e,
                  Rejected("SNAPSHOT_REQUIRED", BaseStateHash(srv, e))))

InTouch(e) == Current(srv, e) /\ Reaches(srv, e.last)

(* The player after the messages he missed have been sent again.           *)
CaughtUp(e) == CatchUp(Begin(e.last), e.last)

Repeated(e) ==
    /\ InTouch(e)
    /\ Cached(srv, e.id) # {}
    /\ srv' = Repeat(CaughtUp(e), e)

Declined(e) ==
    /\ InTouch(e)
    /\ Cached(srv, e.id) = {}
    /\ Exhausted(srv, e)
    /\ srv' = Decline(CaughtUp(e), e)

New(e) == InTouch(e) /\ Cached(srv, e.id) = {} /\ ~Exhausted(srv, e)

Misbased(e) ==
    /\ New(e)
    /\ BaseDiffers(srv, e)
    /\ srv' = SendSnapshot(Reject(CaughtUp(e), e,
                  Rejected("SNAPSHOT_REQUIRED", BaseStateHash(srv, e))))

Dispatched(e) ==
    /\ New(e)
    /\ ~BaseDiffers(srv, e)
    /\ \E room \in Reactions(e) : srv' = Dispatch(CaughtUp(e), e, room)

HandleAction(e) ==
    /\ Reachable
    /\ srv.connected
    /\ \/ Outdated(e) \/ FallenBehind(e) \/ Repeated(e)
       \/ Declined(e) \/ Misbased(e) \/ Dispatched(e)
    /\ Bounded

(* The envelopes worth telling apart in a state: one new id, one wrong     *)
(* base and one position too old for the ring stand for all; so does one   *)
(* content for what is refused before it is looked at.                     *)
Arriving ==
    LET ids   == IF srv.seen = ActionIds THEN srv.seen
                 ELSE srv.seen \cup {CHOOSE id \in ActionIds : id \notin srv.seen}
        lasts == {n \in 0 .. srv.seq + 1 : n >= srv.seq - RingLimit - 1}
        now(base, do) == [id : ids, epoch : {srv.epoch}, match : {srv.match},
                          last : lasts, base : base, do : do]
    IN now({srv.board, NoBoard}, BoardActions) \cup now({NoBoard}, Controls)
       \cup [id : ids, epoch : 1 .. srv.epoch, match : 1 .. srv.match,
             last : {0}, base : {NoBoard}, do : {"READY"}]

(* The opponent, a timer or the manager moves the room.                    *)
RoomActs(move) ==
    /\ Reachable
    /\ MayMove(srv, move)
    /\ srv' = RoomMove(Begin(-1), move)
    /\ Bounded

(* The deadline of the round passes; whether it is noticed is up to the    *)
(* next board action or timer.                                             *)
DeadlinePasses ==
    /\ srv.phase = "ACTIVE"
    /\ ~srv.expired
    /\ srv' = [Begin(-1) EXCEPT !.expired = TRUE]

Next ==
    \/ \E epoch \in 1 .. MaxEpoch, room \in {"NONE", "END_MATCH"} :
         Connect(epoch, room) \/ Disconnect(epoch, room)
    \/ \E e \in Arriving : HandleAction(e)
    \/ \E move \in RoomMoves : RoomActs(move)
    \/ DeadlinePasses

Spec == Init /\ [][Next]_srv
-----------------------------------------------------------------------------
(* Type.  The three limits on the memory a player costs are part of it,    *)
(* however many actions, duplicates, rounds and rematches there are.       *)
SrvType ==
    [match : 1 .. MaxMatch, phase : Phases, round : 0 .. MaxRound, board : Hashes,
     expired : BOOLEAN, ready : BOOLEAN, vote : BOOLEAN, connected : BOOLEAN,
     epoch : 0 .. MaxEpoch, seq : Nat, ring : Seq(Messages),
     seen : SUBSET ActionIds, cache : Seq([id : ActionIds, verdict : Verdicts]),
     sent : Seq(Messages), asked : Int, applied : [ActionIds -> Nat]]

TypeOK ==
    /\ srv \in SrvType
    /\ srv.seq <= MaxSeq
    /\ Len(srv.ring) <= RingLimit
    /\ Len(srv.cache) <= CacheLimit
    /\ Cardinality(srv.seen) <= ActionLimit

(* The ring is the unbroken end of the stream, through disconnections and  *)
(* rematches: otherwise catching up would leave a hole.                    *)
RingIsSuffix ==
    /\ \A i \in DOMAIN srv.ring : srv.ring[i].seq = srv.seq - Len(srv.ring) + i
    /\ srv.seq > 0 => srv.ring # <<>>

(* No action takes effect twice in a match, whether it is sent again, on   *)
(* another connection or after its result has been evicted; and whatever   *)
(* took effect is remembered.                                              *)
AppliedOnce ==
    \A id \in ActionIds : srv.applied[id] <= IF id \in srv.seen THEN 1 ELSE 0

(* An action reported as accepted, in this match, has taken effect.        *)
AcceptedMeansApplied ==
    \A i \in DOMAIN srv.sent :
        LET body == srv.sent[i].body IN
        body.type = "ACTION_RESULT" /\ body.match = srv.match /\ body.verdict.accepted
            => srv.applied[body.id] = 1

(* README: missing events can be replayed, and a client receives a         *)
(* snapshot when the ring is no longer sufficient.  After an action, its   *)
(* sender has been sent everything after the position he gave, or after a  *)
(* snapshot.                                                               *)
MissedEventsAreRecovered ==
    LET allSent(position) ==
            \A n \in position + 1 .. srv.seq : \E i \in DOMAIN srv.sent : srv.sent[i].seq = n
    IN srv.asked >= 0 =>
        \/ allSent(srv.asked)
        \/ \E i \in DOMAIN srv.sent :
              srv.sent[i].body.type = "SNAPSHOT" /\ allSent(srv.sent[i].seq)
=============================================================================
