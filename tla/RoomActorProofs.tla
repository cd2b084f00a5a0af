-------------------------- MODULE RoomActorProofs --------------------------
(***************************************************************************)
(* Proofs about the duel room of RoomActor, for every set of guests, every *)
(* length of match and room, every replay limit and every way the replay's *)
(* budget may run out.  Methods of the room are operators from records to  *)
(* records, so each method has a lemma of its own about the record it      *)
(* returns, and an action combines the lemmas of the methods it calls.     *)
(***************************************************************************)
EXTENDS RoomActor, FiniteSetTheorems, TLAPS

Both(r) == Cardinality(r.players) = 2
Open(p) == p \in {"LOBBY", "COUNTDOWN", "ACTIVE", "ROUND_RESULT"}

(* Facts that hold between the calls a handler makes, whatever the phase.  *)
Settled(r) ==
    /\ r \in RoomType
    /\ IsFiniteSet(r.players)
    /\ \A g \in Guests : r.ready[g] => r.connected[g]
    /\ \A m \in MatchIds : m # r.match => r.replay[m] # "ACTIVE"
    /\ r.cursor = r.total
    /\ r.board # 0 => r.board = r.total

(* A handler may still be deciding how the undecided match goes on.        *)
InProgress(r) ==
    /\ Settled(r)
    /\ Open(r.phase)
    /\ r.result = NoResult
    /\ r.timer["rematch"] # "ARMED"
    /\ \A g \in Guests : ~r.rematch[g]

Seated(r) ==
    r.phase \in InMatch => Both(r) /\ \A g \in r.players : r.connected[g]

Timed(r) ==
    /\ r.phase = "COUNTDOWN" =>
         /\ r.timer["countdown"] = "ARMED"
         /\ r.timer["terminal"] = "UNSET"
         /\ r.board # 0
         /\ \A g \in Guests : r.terminal[g] = "NONE"
    /\ r.phase = "ACTIVE" =>
         /\ r.timer["round"] = "ARMED" \/ r.timer["terminal"] = "ARMED"
         /\ r.timer["terminal"] =
              IF \A g \in r.players : r.terminal[g] = "NONE" THEN "UNSET" ELSE "ARMED"
         /\ \A g \in r.players : r.game[g] # NoGame

NotStray(r) ==
    /\ r.timer["countdown"] = "ARMED" => r.phase = "COUNTDOWN"
    /\ \A t \in {"round", "terminal", "progress"} :
         r.timer[t] = "ARMED" => r.phase = "ACTIVE"
    /\ r.timer["rematch"] = "ARMED" => r.phase = "REMATCH"

Replayed(r) ==
    /\ Open(r.phase) => r.result = NoResult
    /\ r.phase \in {"MATCH_RESULT", "REMATCH"} => r.result # NoResult
    /\ r.replay[r.match] = "ACTIVE" <=> r.result = NoResult

Voted(r) ==
    /\ \A g \in Guests : r.rematch[g] => r.phase \in {"REMATCH", "CLOSED"}
    /\ r.phase = "REMATCH" => \E g \in Guests : r.rematch[g]

Scored(r) ==
    /\ Open(r.phase) => \A g \in Guests : r.wins[g] < WinsNeeded
    /\ r.phase \in {"LOBBY", "ROUND_RESULT"} => r.round < RoundsPerMatch

(* The inductive invariant.                                                *)
Consistent(r) ==
    /\ Settled(r)
    /\ Seated(r)
    /\ Timed(r)
    /\ NotStray(r)
    /\ Replayed(r)
    /\ Voted(r)
    /\ Scored(r)

Inv == Consistent(room)
-----------------------------------------------------------------------------
(* What the room's helpers return.                                         *)

(* clearRoundTimers leaves the four round timers unset and everything else *)
(* as it was.                                                              *)
LEMMA ClearRoundTimersFacts ==
    ASSUME NEW r \in RoomType
    PROVE  /\ ClearRoundTimers(r) \in RoomType
           /\ ClearRoundTimers(r) = [r EXCEPT !.timer = ClearRoundTimers(r).timer]
           /\ \A t \in Timers \ {"rematch"} : ClearRoundTimers(r).timer[t] = "UNSET"
           /\ ClearRoundTimers(r).timer["rematch"] = r.timer["rematch"]
BY DEF ClearRoundTimers, RoomType, Timers, TimerState

(* finishMatch, called while the match is undecided, leaves the room       *)
(* consistent with the match decided.                                      *)
LEMMA FinishMatchDecides ==
    ASSUME NEW r, InProgress(r), NEW result \in Results, result # NoResult, NEW over
    PROVE  /\ Consistent(FinishMatch(r, result, over))
           /\ FinishMatch(r, result, over).phase = "MATCH_RESULT"
           /\ Unavailable(r) => Unavailable(FinishMatch(r, result, over))
<1> DEFINE c == ClearRoundTimers(r)
           f == FinishMatch(r, result, over)
<1>1. c \in RoomType /\ c = [r EXCEPT !.timer = c.timer]
      /\ \A t \in Timers \ {"rematch"} : c.timer[t] = "UNSET"
      /\ c.timer["rematch"] = r.timer["rematch"]
  BY ClearRoundTimersFacts DEF InProgress, Settled
<1>2. r \in RoomType BY DEF InProgress, Settled
<1> DEFINE status == CASE r.replay[r.match] = "ACTIVE" /\ over = "MATCH_RESULT" -> "UNAVAILABLE"
                       [] r.replay[r.match] = "ACTIVE" /\ over # "MATCH_RESULT" -> "COMPLETED"
                       [] OTHER -> r.replay[r.match]
<1>3. f = [c EXCEPT !.phase = "MATCH_RESULT", !.result = result, !.replay[r.match] = status]
  BY <1>1, <1>2 DEF FinishMatch, InProgress, Open, RoomType
<1>4. status \in ReplayStatus \ {"ACTIVE"}
  BY <1>2 DEF RoomType, ReplayStatus
<1>5. f \in RoomType
  <2> HIDE DEF c, f, status
  <2> QED BY <1>1, <1>2, <1>3, <1>4 DEF RoomType, Phases, ReplayStatus
<1>6. /\ f.phase = "MATCH_RESULT" /\ f.result = result
      /\ f.match = r.match /\ f.replay = [r.replay EXCEPT ![r.match] = status]
      /\ f.timer = c.timer
      /\ f.ready = r.ready /\ f.connected = r.connected /\ f.rematch = r.rematch
      /\ f.cursor = r.cursor /\ f.total = r.total /\ f.board = r.board
      /\ f.players = r.players
  <2> HIDE DEF c, f, status
  <2> QED BY <1>1, <1>2, <1>3 DEF RoomType
<1> HIDE DEF c, f, status
<1>7. Settled(f)
  BY <1>2, <1>4, <1>5, <1>6 DEF Settled, InProgress, RoomType
<1>8. Seated(f) /\ Timed(f) /\ Scored(f)
  BY <1>6 DEF Seated, Timed, Scored, InMatch, Open
<1>9. NotStray(f)
  BY <1>1, <1>6 DEF NotStray, InProgress, Timers
<1>10. Replayed(f)
  BY <1>2, <1>4, <1>6 DEF Replayed, Open, RoomType
<1>11. Voted(f)
  BY <1>6 DEF Voted, InProgress
<1>12. Unavailable(r) => Unavailable(f)
  BY <1>2, <1>6 DEF Unavailable, RoomType, status
<1> QED BY <1>6, <1>7, <1>8, <1>9, <1>10, <1>11, <1>12 DEF Consistent, f
(* The results a room can be given.                                        *)
LEMMA ResultFacts ==
    /\ NoResult \in Results
    /\ \A why \in Reasons \ {"NONE"} :
         NoContest(why) \in Results /\ NoContest(why) # NoResult
    /\ \A g \in Guests, why \in Reasons \ {"NONE"} :
         Won(g, why) \in Results /\ Won(g, why) # NoResult
BY DEF NoResult, NoContest, Won, Results, Reasons

(* An undecided match whose replay still accepts events.                   *)
Live(r) == InProgress(r) /\ r.replay[r.match] = "ACTIVE"

(* record either leaves the room alone or ends the match for want of       *)
(* replay budget.                                                          *)
LEMMA RecordDecides ==
    ASSUME NEW r, Live(r), NEW event, NEW over
    PROVE  \/ Record(r, event, over) = r /\ ~Unavailable(r)
           \/ /\ Consistent(Record(r, event, over))
              /\ Record(r, event, over).phase = "MATCH_RESULT"
              /\ Unavailable(Record(r, event, over))
<1> DEFINE u == [r EXCEPT !.replay[r.match] = "UNAVAILABLE"]
<1>1. InProgress(u)
  BY DEF Live, InProgress, Settled, RoomType, ReplayStatus
<1>2. Unavailable(u)
  BY DEF Live, InProgress, Settled, RoomType, Unavailable
<1>3. NoContest("REPLAY_BUDGET_EXCEEDED") \in Results \ {NoResult}
  BY ResultFacts DEF Reasons
<1>4. LET f == FinishMatch(u, NoContest("REPLAY_BUDGET_EXCEEDED"), "NONE")
      IN Consistent(f) /\ f.phase = "MATCH_RESULT" /\ Unavailable(f)
  BY <1>1, <1>2, <1>3, FinishMatchDecides
<1>5. ~Unavailable(r) BY DEF Live, Unavailable
<1> QED BY <1>4, <1>5 DEF Record, MarkReplayUnavailable

(* Once a match is decided its replay records nothing more.                *)
LEMMA RecordAfterDecision ==
    ASSUME NEW r, r.replay[r.match] # "ACTIVE", NEW event, NEW over
    PROVE  Record(r, event, over) = r
BY DEF Record

(* A room whose match is undecided, reached between two handlers, is live. *)
LEMMA ConsistentLive ==
    ASSUME NEW r, Consistent(r), Open(r.phase)
    PROVE  Live(r)
BY DEF Consistent, Settled, Replayed, NotStray, Voted, Live, InProgress, Open

(* The room as startCountdown deals a round, before it is recorded.        *)
Countdown(r) ==
    [ClearRoundTimers(r) EXCEPT
        !.round = @ + 1, !.total = @ + 1, !.cursor = @ + 1,
        !.board = 1 + (r.cursor % NumBoards),
        !.phase = "COUNTDOWN",
        !.expired = FALSE,
        !.ready = [g \in Guests |-> FALSE],
        !.terminal = [g \in Guests |-> "NONE"],
        !.game = [g \in Guests |-> IF g \in r.players THEN 0 ELSE NoGame]]

LEMMA CountdownFacts ==
    ASSUME NEW r, Live(r), r.round < RoundsPerMatch, ~RoomExhausted(r)
    PROVE  LET c == ClearRoundTimers(r)  dealt == Countdown(r)
           IN  /\ dealt \in RoomType /\ Live(dealt)
               /\ dealt.phase = "COUNTDOWN" /\ dealt.result = r.result /\ dealt.match = r.match
               /\ dealt.replay = r.replay /\ dealt.timer = c.timer /\ dealt.players = r.players
               /\ dealt.connected = r.connected /\ dealt.rematch = r.rematch /\ dealt.wins = r.wins
               /\ dealt.round = r.round + 1 /\ dealt.total = r.total + 1
               /\ dealt.cursor = r.total + 1 /\ dealt.board = r.total + 1
               /\ dealt.ready = [g \in Guests |-> FALSE]
               /\ dealt.terminal = [g \in Guests |-> "NONE"]
               /\ r.total \in Nat
<1> DEFINE c == ClearRoundTimers(r)
           dealt == Countdown(r)
<1>1. r \in RoomType BY DEF Live, InProgress, Settled
<1>2. /\ c \in RoomType /\ c = [r EXCEPT !.timer = c.timer]
      /\ \A t \in Timers \ {"rematch"} : c.timer[t] = "UNSET"
      /\ c.timer["rematch"] = r.timer["rematch"]
  BY <1>1, ClearRoundTimersFacts
<1>3. r.total \in Nat /\ r.total < RoundsPerRoom /\ r.cursor = r.total
  BY <1>1, RoundAssumption DEF RoomExhausted, RoomType, Live, InProgress, Settled
<1>4. r.cursor % NumBoards = r.total
  BY <1>3, RoundAssumption
<1>5. /\ c.round + 1 = r.round + 1 /\ c.total + 1 = r.total + 1
      /\ c.cursor + 1 = r.total + 1 /\ 1 + (r.cursor % NumBoards) = r.total + 1
  <2> HIDE DEF c
  <2> QED BY <1>1, <1>2, <1>3, <1>4 DEF RoomType
<1>6. dealt = [c EXCEPT
                 !.round = r.round + 1, !.total = r.total + 1, !.cursor = r.total + 1,
                 !.board = r.total + 1,
                 !.phase = "COUNTDOWN",
                 !.expired = FALSE,
                 !.ready = [g \in Guests |-> FALSE],
                 !.terminal = [g \in Guests |-> "NONE"],
                 !.game = [g \in Guests |-> IF g \in r.players THEN 0 ELSE NoGame]]
  BY <1>5, Zenon DEF Countdown
<1> HIDE DEF c, dealt
<1>7. /\ dealt.phase = "COUNTDOWN" /\ dealt.result = r.result /\ dealt.match = r.match
      /\ dealt.replay = r.replay /\ dealt.timer = c.timer /\ dealt.players = r.players
      /\ dealt.connected = r.connected /\ dealt.rematch = r.rematch /\ dealt.wins = r.wins
      /\ dealt.round = r.round + 1 /\ dealt.total = r.total + 1
      /\ dealt.cursor = r.total + 1 /\ dealt.board = r.total + 1
      /\ dealt.ready = [g \in Guests |-> FALSE]
      /\ dealt.terminal = [g \in Guests |-> "NONE"]
  BY <1>1, <1>2, <1>6 DEF RoomType
<1>8. dealt \in RoomType
  <2>1. r.round + 1 \in 0 .. RoundsPerMatch
    BY <1>1, RoundAssumption DEF RoomType
  <2>2. r.total + 1 \in 0 .. RoundsPerRoom /\ r.total + 1 \in 0 .. NumBoards
    BY <1>3, RoundAssumption
  <2>3. [g \in Guests |-> IF g \in r.players THEN 0 ELSE NoGame] \in [Guests -> NoGame .. Full]
    BY BoardAssumption DEF NoGame
  <2> QED BY <1>2, <1>6, <2>1, <2>2, <2>3 DEF RoomType, Phases, Terminals
<1>9. Live(dealt)
  BY <1>2, <1>7, <1>8 DEF Live, InProgress, Settled, Open
<1> QED BY <1>3, <1>7, <1>8, <1>9 DEF c, dealt

(* startCountdown deals a round that will be activated, or ends the match. *)
LEMMA StartCountdownConsistent ==
    ASSUME NEW r, Live(r), NEW over,
           r.round < RoundsPerMatch,
           Both(r), \A g \in r.players : r.connected[g],
           \A g \in Guests : r.wins[g] < WinsNeeded
    PROVE  Consistent(StartCountdown(r, over))
<1> DEFINE c == ClearRoundTimers(r)
           dealt == Countdown(r)
           logged == Record(dealt, "COUNTDOWN", over)
<1>1. r \in RoomType BY DEF Live, InProgress, Settled
<1>2. /\ c \in RoomType /\ c = [r EXCEPT !.timer = c.timer]
      /\ \A t \in Timers \ {"rematch"} : c.timer[t] = "UNSET"
      /\ c.timer["rematch"] = r.timer["rematch"]
  BY <1>1, ClearRoundTimersFacts
<1>3. Live(c)
  <2> HIDE DEF c
  <2> QED BY <1>1, <1>2 DEF Live, InProgress, Settled, RoomType
<1>4. CASE RoomExhausted(r)
  <2>1. NoContest("PHASE_ZERO_ROUND_LIMIT") \in Results \ {NoResult}
    BY ResultFacts DEF Reasons
  <2>2. Consistent(FinishMatch(c, NoContest("PHASE_ZERO_ROUND_LIMIT"), over))
    BY <1>3, <2>1, FinishMatchDecides DEF Live
  <2> QED BY <1>4, <2>2 DEF StartCountdown
<1>5. CASE ~RoomExhausted(r)
  <2>1. StartCountdown(r, over) = IF Unavailable(logged) THEN logged ELSE Arm(logged, "countdown")
    BY <1>5 DEF StartCountdown, Countdown
  <2>2. /\ dealt.phase = "COUNTDOWN" /\ dealt.result = r.result /\ dealt.match = r.match
        /\ dealt.replay = r.replay /\ dealt.timer = c.timer /\ dealt.players = r.players
        /\ dealt.connected = r.connected /\ dealt.rematch = r.rematch /\ dealt.wins = r.wins
        /\ dealt.round = r.round + 1 /\ dealt.total = r.total + 1
        /\ dealt.cursor = r.total + 1 /\ dealt.board = r.total + 1
        /\ dealt.ready = [g \in Guests |-> FALSE]
        /\ dealt.terminal = [g \in Guests |-> "NONE"]
        /\ dealt \in RoomType /\ Live(dealt) /\ r.total \in Nat
    BY <1>5, CountdownFacts
  <2> HIDE DEF c, dealt
  <2>3. \/ logged = dealt /\ ~Unavailable(dealt)
        \/ Consistent(logged) /\ Unavailable(logged)
    BY <2>2, RecordDecides
  <2>4. CASE logged = dealt /\ ~Unavailable(dealt)
    <3> DEFINE a == Arm(dealt, "countdown")
    <3>1. a \in RoomType
      BY <2>2 DEF Arm, RoomType, Timers, TimerState
    <3>2. /\ a = [dealt EXCEPT !.timer = a.timer]
          /\ a.timer["countdown"] = "ARMED"
          /\ \A t \in Timers \ {"countdown"} : a.timer[t] = c.timer[t]
      BY <2>2 DEF Arm, RoomType, Timers
    <3> HIDE DEF a
    <3>3. Settled(a)
      BY <2>2, <3>1, <3>2 DEF Settled, Live, InProgress, RoomType
    <3>4. Seated(a) /\ Scored(a)
      BY <2>2, <3>2 DEF Seated, Scored, Both, InMatch, Open, RoomType
    <3>5. Timed(a)
      BY <1>2, <2>2, <3>2 DEF Timed, RoomType, Timers
    <3>6. NotStray(a)
      BY <1>2, <2>2, <3>2 DEF NotStray, Timers, RoomType, Live, InProgress
    <3>7. Replayed(a) /\ Voted(a)
      BY <2>2, <3>2 DEF Replayed, Voted, Live, InProgress, Open, RoomType
    <3> QED BY <2>1, <2>4, <3>3, <3>4, <3>5, <3>6, <3>7 DEF Consistent, a
  <2> QED BY <2>1, <2>3, <2>4
<1> QED BY <1>4, <1>5
(* activateRound puts a round in play with its duration pending, or ends   *)
(* the match.                                                              *)
LEMMA ActivateRoundConsistent ==
    ASSUME NEW r, Live(r), NEW over,
           r.phase = "COUNTDOWN", r.board # 0,
           Both(r), \A g \in r.players : r.connected[g],
           \A g \in Guests : r.wins[g] < WinsNeeded,
           \A g \in Guests : r.terminal[g] = "NONE",
           r.timer["countdown"] # "ARMED", r.timer["terminal"] = "UNSET",
           r.timer["progress"] # "ARMED"
    PROVE  Consistent(ActivateRound(r, over))
<1> DEFINE opened == [r EXCEPT
                       !.phase = "ACTIVE",
                       !.expired = FALSE,
                       !.game = [g \in Guests |-> IF g \in r.players THEN Opening ELSE NoGame]]
           logged == Record(opened, "ROUND_ACTIVE", over)
           a == Arm(opened, "round")
<1>1. r \in RoomType BY DEF Live, InProgress, Settled
<1>2. [g \in Guests |-> IF g \in r.players THEN Opening ELSE NoGame] \in [Guests -> NoGame .. Full]
  BY BoardAssumption DEF NoGame, Opening
<1>3. opened \in RoomType
  BY <1>1, <1>2 DEF RoomType, Phases
<1>4. Live(opened)
  BY <1>1, <1>3 DEF Live, InProgress, Settled, Open, RoomType
<1>5. a \in RoomType
  BY <1>3 DEF Arm, RoomType, Timers, TimerState
<1>6. /\ a.phase = "ACTIVE" /\ a.result = r.result /\ a.match = r.match
      /\ a.replay = r.replay /\ a.players = r.players
      /\ a.connected = r.connected /\ a.ready = r.ready /\ a.rematch = r.rematch
      /\ a.wins = r.wins /\ a.total = r.total /\ a.cursor = r.cursor /\ a.board = r.board
      /\ a.terminal = r.terminal
      /\ a.timer["round"] = "ARMED"
      /\ \A t \in Timers \ {"round"} : a.timer[t] = r.timer[t]
  BY <1>1, <1>3 DEF Arm, RoomType, Timers
<1>7. \A g \in a.players : a.game[g] = Opening
  BY <1>1, <1>2, <1>3 DEF Arm, RoomType, Timers
<1> HIDE DEF a
<1>8. Settled(a)
  BY <1>1, <1>5, <1>6 DEF Settled, Live, InProgress
<1>9. Seated(a) /\ Scored(a)
  BY <1>6 DEF Seated, Scored, Both, InMatch, Open
<1>10. Timed(a)
  BY <1>1, <1>6, <1>7 DEF Timed, Timers, RoomType, Opening, NoGame
<1>11. NotStray(a)
  BY <1>6 DEF NotStray, Timers, Live, InProgress
<1>12. Replayed(a) /\ Voted(a)
  BY <1>6 DEF Replayed, Voted, Live, InProgress, Open
<1>13. Consistent(a)
  BY <1>8, <1>9, <1>10, <1>11, <1>12 DEF Consistent
<1>14. \/ logged = opened /\ ~Unavailable(opened)
       \/ Consistent(logged) /\ Unavailable(logged)
  BY <1>4, RecordDecides
<1> QED BY <1>13, <1>14 DEF ActivateRound, a

(* finishRound scores the round and moves to its result, or ends the match.*)
LEMMA FinishRoundConsistent ==
    ASSUME NEW r, Live(r), NEW winners \in SUBSET r.players, NEW over,
           r.phase = "ACTIVE",
           Both(r), \A g \in r.players : r.connected[g],
           \A g \in Guests : r.wins[g] < WinsNeeded
    PROVE  Consistent(FinishRound(r, winners, over))
<1> DEFINE c == ClearRoundTimers(r)
           wins == [g \in Guests |-> IF g \in winners THEN r.wins[g] + 1 ELSE r.wins[g]]
           scored == [c EXCEPT !.wins = wins]
           logged == Record(scored, "ROUND_RESULT", over)
           next == [scored EXCEPT !.phase = "ROUND_RESULT",
                                  !.ready = [g \in Guests |-> FALSE],
                                  !.terminal = [g \in Guests |-> "NONE"]]
<1>1. r \in RoomType BY DEF Live, InProgress, Settled
<1>2. /\ c \in RoomType /\ c = [r EXCEPT !.timer = c.timer]
      /\ \A t \in Timers \ {"rematch"} : c.timer[t] = "UNSET"
      /\ c.timer["rematch"] = r.timer["rematch"]
  BY <1>1, ClearRoundTimersFacts
<1>3. [c EXCEPT !.wins = [g \in Guests |-> IF g \in winners THEN @[g] + 1 ELSE @[g]]] = scored
  <2>1. c.wins = r.wins
    <3> HIDE DEF c
    <3> QED BY <1>1, <1>2 DEF RoomType
  <2> QED BY <2>1
<1>4. wins \in [Guests -> 0 .. WinsNeeded]
  <2>1. \A g \in Guests : r.wins[g] \in 0 .. WinsNeeded
    BY <1>1 DEF RoomType
  <2> QED BY <2>1, RoundAssumption
<1>5. /\ scored \in RoomType
      /\ scored.phase = "ACTIVE" /\ scored.result = r.result /\ scored.match = r.match
      /\ scored.replay = r.replay /\ scored.players = r.players
      /\ scored.connected = r.connected /\ scored.ready = r.ready
      /\ scored.rematch = r.rematch /\ scored.wins = wins
      /\ scored.total = r.total /\ scored.cursor = r.cursor /\ scored.board = r.board
      /\ scored.round = r.round /\ scored.timer = c.timer
  <2> HIDE DEF c, wins
  <2> QED BY <1>1, <1>2, <1>4 DEF RoomType
<1> HIDE DEF c, wins, scored
<1>6. Live(scored)
  BY <1>2, <1>5 DEF Live, InProgress, Settled, Open
<1>7. \/ logged = scored /\ ~Unavailable(scored)
      \/ Consistent(logged) /\ Unavailable(logged)
  BY <1>6, RecordDecides
<1>8. ASSUME NEW g \in Guests
      PROVE  Consistent(FinishMatch(scored, Won(g, "FIRST_TO_TWO"), over))
  BY <1>6, ResultFacts, FinishMatchDecides DEF Live, Reasons
<1>9. Consistent(FinishMatch(scored, NoContest("FIVE_ROUND_LIMIT"), over))
  BY <1>6, ResultFacts, FinishMatchDecides DEF Live, Reasons
<1>10. ASSUME Champions(scored) = {}, ~MatchExhausted(scored)
       PROVE  Consistent(next)
  <2>1. /\ next \in RoomType
        /\ next.phase = "ROUND_RESULT" /\ next.result = r.result /\ next.match = r.match
        /\ next.replay = r.replay /\ next.players = r.players
        /\ next.connected = r.connected /\ next.ready = [g \in Guests |-> FALSE]
        /\ next.rematch = r.rematch /\ next.wins = wins /\ next.round = r.round
        /\ next.total = r.total /\ next.cursor = r.cursor /\ next.board = r.board
        /\ next.timer = c.timer
    BY <1>5 DEF RoomType, Phases, Terminals
  <2>2. \A g \in Guests : wins[g] < WinsNeeded
    <3> SUFFICES ASSUME NEW g \in Guests PROVE wins[g] < WinsNeeded
      OBVIOUS
    <3>1. wins[g] \in Int BY <1>4
    <3>2. CASE g \in r.players
      BY <1>5, <1>10, <3>1, <3>2, RoundAssumption DEF Champions
    <3>3. CASE g \notin r.players
      <4>1. wins[g] = r.wins[g] BY <3>3 DEF wins
      <4> QED BY <4>1
    <3> QED BY <3>2, <3>3
  <2> HIDE DEF next
  <2>3. r.round < RoundsPerMatch
    BY <1>1, <1>5, <1>10, RoundAssumption DEF MatchExhausted, RoomType
  <2>4. Settled(next) /\ Seated(next) /\ Timed(next)
    BY <1>5, <1>6, <2>1 DEF Settled, Seated, Timed, Live, InProgress, Both, InMatch
  <2>5. NotStray(next) /\ Replayed(next) /\ Voted(next)
    BY <1>2, <1>6, <1>5, <2>1 DEF NotStray, Replayed, Voted, Live, InProgress, Timers, Open
  <2>6. Scored(next)
    BY <2>1, <2>2, <2>3 DEF Scored, Open
  <2> QED BY <2>4, <2>5, <2>6 DEF Consistent
<1>11. ASSUME Champions(scored) # {}
       PROVE  (CHOOSE g \in Champions(scored) : TRUE) \in Guests
  BY <1>5, <1>11 DEF Champions, RoomType
<1>12. CASE logged = scored /\ ~Unavailable(scored)
  <2>1. CASE Champions(scored) # {}
    BY <1>3, <1>8, <1>11, <1>12, <2>1 DEF FinishRound, c
  <2>2. CASE Champions(scored) = {} /\ MatchExhausted(scored)
    BY <1>3, <1>9, <1>12, <2>2 DEF FinishRound, c
  <2>3. CASE Champions(scored) = {} /\ ~MatchExhausted(scored)
    BY <1>3, <1>10, <1>12, <2>3 DEF FinishRound, c
  <2> QED BY <2>1, <2>2, <2>3
<1>13. CASE Consistent(logged) /\ Unavailable(logged)
  BY <1>3, <1>13 DEF FinishRound, c
<1> QED BY <1>7, <1>12, <1>13
(* settleTerminal always ends the round.                                   *)
LEMMA SettleTerminalConsistent ==
    ASSUME NEW r, Live(r), NEW over,
           r.phase = "ACTIVE",
           Both(r), \A g \in r.players : r.connected[g],
           \A g \in Guests : r.wins[g] < WinsNeeded,
           \E g \in r.players : r.terminal[g] # "NONE"
    PROVE  Consistent(SettleTerminal(r, over))
<1>1. TerminalWinners(r) \in SUBSET r.players
  BY DEF TerminalWinners, Complete, Mined
<1>2. Consistent(FinishRound(r, TerminalWinners(r), over))
  BY <1>1, FinishRoundConsistent
<1> QED BY <1>2 DEF SettleTerminal, Both

(* settleTimeout ends the round unless a terminal window is pending, and   *)
(* then leaves it as it is.                                                *)
LEMMA SettleTimeoutConsistent ==
    ASSUME NEW r, Live(r), NEW over,
           r.phase = "ACTIVE",
           Both(r), \A g \in r.players : r.connected[g],
           \A g \in Guests : r.wins[g] < WinsNeeded,
           \A g \in r.players : r.game[g] # NoGame
    PROVE  IF TerminalPending(r) THEN SettleTimeout(r, over) = r
                                 ELSE Consistent(SettleTimeout(r, over))
<1>1. ProgressWinners(r) \in SUBSET r.players
  BY DEF ProgressWinners
<1>2. Consistent(FinishRound(r, ProgressWinners(r), over))
  BY <1>1, FinishRoundConsistent
<1> QED BY <1>2 DEF SettleTimeout, Both

(* resetForRematch opens a fresh match after any decided one.              *)
LEMMA ResetForRematchConsistent ==
    ASSUME NEW r, Settled(r), r.replay[r.match] # "ACTIVE",
           r.match < MaxMatches, NEW over \in Overflows
    PROVE  Consistent(ResetForRematch(r, over))
<1> DEFINE fresh == [ClearTimers(r) EXCEPT
                       !.match = @ + 1,
                       !.phase = "LOBBY",
                       !.round = 0,
                       !.board = 0,
                       !.expired = FALSE,
                       !.result = NoResult,
                       !.ready = [g \in Guests |-> FALSE],
                       !.rematch = [g \in Guests |-> FALSE],
                       !.wins = [g \in Guests |-> 0],
                       !.game = [g \in Guests |-> NoGame],
                       !.terminal = [g \in Guests |-> "NONE"]]
           replay == [m \in MatchIds |->
                        CASE m = fresh.match -> "ACTIVE"
                          [] m # fresh.match /\ m \in Evicted(fresh) -> "ABSENT"
                          [] OTHER -> fresh.replay[m]]
           n == CreateReplay(fresh)
<1>1. r \in RoomType /\ r.match + 1 \in MatchIds
  BY BoundAssumption DEF Settled, RoomType, MatchIds
<1>2. ClearTimers(r) \in RoomType /\ ClearTimers(r) = [r EXCEPT !.timer = [t \in Timers |-> "UNSET"]]
  BY <1>1 DEF ClearTimers, RoomType, TimerState
<1>3. /\ fresh \in RoomType
      /\ fresh.match = r.match + 1 /\ fresh.phase = "LOBBY" /\ fresh.round = 0
      /\ fresh.board = 0 /\ fresh.result = NoResult
      /\ fresh.timer = [t \in Timers |-> "UNSET"] /\ fresh.replay = r.replay
      /\ fresh.ready = [g \in Guests |-> FALSE] /\ fresh.rematch = [g \in Guests |-> FALSE]
      /\ fresh.wins = [g \in Guests |-> 0]
      /\ fresh.total = r.total /\ fresh.cursor = r.cursor /\ fresh.players = r.players
  <2>1. /\ [g \in Guests |-> 0] \in [Guests -> 0 .. WinsNeeded]
        /\ [g \in Guests |-> NoGame] \in [Guests -> NoGame .. Full]
        /\ 0 \in 0 .. RoundsPerMatch /\ 0 \in 0 .. NumBoards
    BY RoundAssumption, BoardAssumption DEF NoGame
  <2>2. NoResult \in Results BY ResultFacts
  <2> QED BY <1>1, <1>2, <2>1, <2>2 DEF RoomType, Phases, Terminals
<1> HIDE DEF fresh
<1>4. replay \in [MatchIds -> ReplayStatus]
  BY <1>3 DEF RoomType, ReplayStatus
<1>5. n = [fresh EXCEPT !.replay = replay]
  BY DEF CreateReplay
<1>6. n.replay[n.match] = "ACTIVE" /\ \A m \in MatchIds : m # n.match => n.replay[m] # "ACTIVE"
  <2>1. n.replay = replay /\ n.match = fresh.match
    BY <1>3, <1>4, <1>5 DEF RoomType
  <2>2. \A m \in MatchIds : m # fresh.match => replay[m] \in {"ABSENT", r.replay[m]}
    BY <1>3
  <2>3. \A m \in MatchIds : r.replay[m] # "ACTIVE"
    BY DEF Settled
  <2> QED BY <1>1, <1>3, <2>1, <2>2, <2>3
<1>7. /\ n \in RoomType
      /\ n.phase = "LOBBY" /\ n.round = 0 /\ n.board = 0 /\ n.result = NoResult
      /\ n.timer = [t \in Timers |-> "UNSET"]
      /\ n.ready = [g \in Guests |-> FALSE] /\ n.rematch = [g \in Guests |-> FALSE]
      /\ n.wins = [g \in Guests |-> 0]
      /\ n.total = r.total /\ n.cursor = r.cursor /\ n.players = r.players
  <2> HIDE DEF n, replay
  <2> QED BY <1>3, <1>4, <1>5 DEF RoomType
<1> HIDE DEF n
<1>8. Settled(n)
  BY <1>6, <1>7 DEF Settled
<1>9. Seated(n) /\ Timed(n) /\ NotStray(n)
  BY <1>7 DEF Seated, Timed, NotStray, InMatch, Timers
<1>10. Replayed(n) /\ Voted(n) /\ Scored(n)
  BY <1>6, <1>7, RoundAssumption DEF Replayed, Voted, Scored, Open
<1>11. Record(n, "REMATCH_STARTED", over) = n
  BY OverflowAssumption DEF Record, Events
<1> QED BY <1>8, <1>9, <1>10, <1>11 DEF Consistent, ResetForRematch, n, fresh
-----------------------------------------------------------------------------
(* The actions preserve the inductive invariant.                           *)

(* What Consistent says of a room in a given phase, in the form the method *)
(* lemmas ask for.                                                         *)
LEMMA ConsistentFacts ==
    ASSUME NEW r, Consistent(r)
    PROVE  /\ r \in RoomType
           /\ r.phase \in Phases
           /\ Open(r.phase) => Live(r) /\ \A g \in Guests : r.wins[g] < WinsNeeded
           /\ ~Open(r.phase) /\ r.phase # "CLOSED" => r.replay[r.match] # "ACTIVE"
           /\ r.phase \in InMatch => Both(r) /\ \A g \in r.players : r.connected[g]
<1>1. r \in RoomType /\ r.phase \in Phases
  BY DEF Consistent, Settled, RoomType
<1>2. Open(r.phase) => Live(r) /\ \A g \in Guests : r.wins[g] < WinsNeeded
  BY ConsistentLive DEF Consistent, Scored
<1>3. ~Open(r.phase) /\ r.phase # "CLOSED" => r.replay[r.match] # "ACTIVE"
  BY <1>1 DEF Consistent, Replayed, Open, Phases
<1> QED BY <1>1, <1>2, <1>3 DEF Consistent, Seated

LEMMA InitConsistent == Init => Inv
<1> SUFFICES ASSUME Init PROVE Consistent(NewRoom)
  BY DEF Init, Inv
<1>1. NewRoom \in RoomType
  <2>1. /\ {Host} \in SUBSET Guests /\ 1 \in MatchIds
        /\ 0 \in 0 .. RoundsPerMatch /\ 0 \in 0 .. RoundsPerRoom /\ 0 \in 0 .. NumBoards
        /\ [g \in Guests |-> 0] \in [Guests -> 0 .. WinsNeeded]
        /\ [g \in Guests |-> 0] \in [Guests -> 0 .. MaxEpoch]
        /\ [g \in Guests |-> NoGame] \in [Guests -> NoGame .. Full]
    BY GuestAssumption, BoardAssumption, RoundAssumption, BoundAssumption DEF MatchIds, NoGame
  <2>2. NoResult \in Results BY ResultFacts
  <2>3. [m \in MatchIds |-> IF m = 1 THEN "ACTIVE" ELSE "ABSENT"] \in [MatchIds -> ReplayStatus]
    BY DEF ReplayStatus
  <2> QED BY <2>1, <2>2, <2>3 DEF NewRoom, RoomType, Phases, TimerState, Terminals
<1>2. Settled(NewRoom)
  BY <1>1, BoundAssumption, FS_Singleton DEF Settled, NewRoom, MatchIds
<1>3. Seated(NewRoom) /\ Timed(NewRoom) /\ NotStray(NewRoom) /\ Voted(NewRoom)
  BY DEF Seated, Timed, NotStray, Voted, NewRoom, InMatch, Timers
<1>4. Replayed(NewRoom) /\ Scored(NewRoom)
  BY BoundAssumption, RoundAssumption DEF Replayed, Scored, NewRoom, Open, MatchIds
<1> QED BY <1>2, <1>3, <1>4 DEF Consistent

(* A handler that first changes who is seated, connected or ready and then *)
(* records the event: the change itself keeps the room consistent, so does *)
(* the record.                                                             *)
LEMMA RecordConsistent ==
    ASSUME NEW r, Consistent(r), r.phase # "CLOSED", NEW event, NEW over
    PROVE  /\ Consistent(Record(r, event, over))
           /\ Record(r, event, over) = r \/ Record(r, event, over).phase = "MATCH_RESULT"
<1>1. CASE Open(r.phase)
  BY <1>1, ConsistentFacts, RecordDecides
<1>2. CASE ~Open(r.phase)
  BY <1>2, ConsistentFacts, RecordAfterDecision
<1> QED BY <1>1, <1>2

LEMMA AddPlayerConsistent ==
    ASSUME Inv, NEW g \in Guests, AddPlayer(g)
    PROVE  Inv'
<1> DEFINE a == [room EXCEPT !.players = @ \cup {g}]
<1>1. room \in RoomType BY ConsistentFacts DEF Inv
<1>2. room.phase \notin InMatch
  BY ConsistentFacts DEF Inv, AddPlayer, Both
<1>3. a \in RoomType
  BY <1>1 DEF RoomType
<1>4. IsFiniteSet(a.players)
  <2>1. IsFiniteSet(room.players) BY DEF Inv, Consistent, Settled
  <2>2. a.players = room.players \cup {g} BY <1>1 DEF RoomType
  <2> QED BY <2>1, <2>2, FS_AddElement
<1>5. Settled(a) /\ Seated(a) /\ Timed(a) /\ NotStray(a) /\ Replayed(a) /\ Voted(a) /\ Scored(a)
  BY <1>1, <1>2, <1>3, <1>4 DEF Inv, Consistent, Settled, Seated, Timed, NotStray, Replayed, Voted,
                         Scored, InMatch, Open, RoomType
<1>6. Consistent(a) BY <1>5 DEF Consistent
<1>7. a.phase # "CLOSED" BY <1>1 DEF AddPlayer, Reachable, RoomType
<1> HIDE DEF a
<1>8. \A over : Consistent(Record(a, "PLAYER_JOINED", over))
  BY <1>6, <1>7, RecordConsistent
<1> QED BY <1>8 DEF AddPlayer, Inv, a

LEMMA ConnectConsistent ==
    ASSUME Inv, NEW g \in Guests, NEW e \in 1 .. MaxEpoch, Connect(g, e)
    PROVE  Inv'
<1> DEFINE a == [room EXCEPT !.connected[g] = TRUE, !.epoch[g] = e]
<1>1. room \in RoomType BY ConsistentFacts DEF Inv
<1>2. a \in RoomType
  <2>1. e \in 0 .. MaxEpoch BY BoundAssumption
  <2> QED BY <1>1, <2>1 DEF RoomType
<1>3. Settled(a) /\ Seated(a) /\ Timed(a) /\ NotStray(a) /\ Replayed(a) /\ Voted(a) /\ Scored(a)
  BY <1>1, <1>2 DEF Inv, Consistent, Settled, Seated, Timed, NotStray, Replayed, Voted,
                    Scored, InMatch, Open, RoomType, Both
<1>4. Consistent(a) BY <1>3 DEF Consistent
<1>5. a.phase # "CLOSED" BY <1>1 DEF Connect, Reachable, RoomType
<1> HIDE DEF a
<1>6. \A over : Consistent(Record(a, "PLAYER_CONNECTED", over))
  BY <1>4, <1>5, RecordConsistent
<1> QED BY <1>6 DEF Connect, Inv, a

(* Losing a player in a match with both present leaves the opponent, who   *)
(* takes it: disconnect never leaves a match with one player.              *)
LEMMA DisconnectConsistent ==
    ASSUME Inv, NEW g \in Guests, NEW e \in 1 .. MaxEpoch, Disconnect(g, e)
    PROVE  Inv'
<1> DEFINE d == Drop(room, g)
           others(r) == {h \in r.players \ {g} : r.connected[h]}
<1>1. PICK over \in Overflows :
        LET gone == Record(d, "PLAYER_DISCONNECTED", over)
        IN room' = IF gone.phase \in InMatch /\ others(gone) # {}
                   THEN FinishMatch(gone, Won(CHOOSE h \in others(gone) : TRUE, "TECHNICAL_DNF"), over)
                   ELSE gone
  BY DEF Disconnect
<1>2. room \in RoomType /\ Consistent(room) /\ room.phase # "CLOSED" /\ g \in room.players
  BY ConsistentFacts DEF Inv, Disconnect, Reachable
<1>3. d \in RoomType
  BY <1>2 DEF Drop, RoomType
<1>4. /\ d.phase = room.phase /\ d.players = room.players /\ d.result = room.result
      /\ d.match = room.match /\ d.replay = room.replay /\ d.timer = room.timer
      /\ d.rematch = room.rematch /\ d.wins = room.wins /\ d.round = room.round
      /\ d.total = room.total /\ d.cursor = room.cursor /\ d.board = room.board
      /\ d.terminal = room.terminal /\ d.game = room.game
      /\ \A h \in Guests \ {g} : d.connected[h] = room.connected[h] /\ d.ready[h] = room.ready[h]
      /\ ~d.connected[g] /\ ~d.ready[g]
  BY <1>2 DEF Drop, RoomType
<1> HIDE DEF d
<1>5. Settled(d) /\ Timed(d) /\ NotStray(d) /\ Replayed(d) /\ Voted(d) /\ Scored(d)
  BY <1>2, <1>3, <1>4 DEF Consistent, Settled, Timed, NotStray, Replayed, Voted, Scored, Open
<1>6. CASE room.phase \in InMatch
  <2>1. Live(d)
    BY <1>2, <1>4, <1>5, <1>6, ConsistentFacts DEF Live, InProgress, Open, InMatch
  <2>2. others(d) # {} /\ others(d) \subseteq Guests
    <3>1. Cardinality(room.players) = 2 /\ \A h \in room.players : room.connected[h]
      BY <1>2, <1>6, ConsistentFacts DEF Both
    <3>2. room.players # {g}
      BY <3>1, FS_Singleton
    <3>3. PICK h \in room.players : h # g
      BY <1>2, <3>2
    <3>4. h \in others(d)
      BY <1>2, <1>4, <3>1, <3>3 DEF RoomType
    <3> QED BY <1>2, <1>4, <3>4 DEF RoomType
  <2>3. d.phase \in InMatch BY <1>4, <1>6
  <2>4. \/ Record(d, "PLAYER_DISCONNECTED", over) = d
        \/ /\ Consistent(Record(d, "PLAYER_DISCONNECTED", over))
           /\ Record(d, "PLAYER_DISCONNECTED", over).phase = "MATCH_RESULT"
    BY <2>1, RecordDecides
  <2>5. CASE Record(d, "PLAYER_DISCONNECTED", over) = d
    <3>1. (CHOOSE h \in others(d) : TRUE) \in Guests
      BY <2>2
    <3>2. \A h \in Guests : Won(h, "TECHNICAL_DNF") \in Results /\ Won(h, "TECHNICAL_DNF") # NoResult
      BY ResultFacts DEF Reasons
    <3>3. Consistent(FinishMatch(d, Won(CHOOSE h \in others(d) : TRUE, "TECHNICAL_DNF"), over))
      BY <2>1, <3>1, <3>2, FinishMatchDecides DEF Live
    <3> QED BY <1>1, <2>2, <2>3, <2>5, <3>3 DEF Inv
  <2>6. CASE /\ Consistent(Record(d, "PLAYER_DISCONNECTED", over))
             /\ Record(d, "PLAYER_DISCONNECTED", over).phase = "MATCH_RESULT"
    BY <1>1, <2>6 DEF Inv, InMatch
  <2> QED BY <2>4, <2>5, <2>6
<1>7. CASE room.phase \notin InMatch
  <2>1. Consistent(d)
    BY <1>4, <1>5, <1>7 DEF Consistent, Seated
  <2>2. /\ Consistent(Record(d, "PLAYER_DISCONNECTED", over))
        /\ Record(d, "PLAYER_DISCONNECTED", over).phase \notin InMatch
    BY <1>2, <1>4, <1>7, <2>1, RecordConsistent DEF InMatch
  <2> QED BY <1>1, <2>2 DEF Inv
<1> QED BY <1>6, <1>7
(* The last player to become ready starts a countdown with both online,    *)
(* because only a connected player can be ready.                           *)
LEMMA HandleReadyConsistent ==
    ASSUME Inv, NEW g \in Guests, HandleReady(g)
    PROVE  Inv'
<1> DEFINE d == [room EXCEPT !.ready[g] = TRUE]
<1>1. PICK over \in Overflows :
        LET logged == Record(d, "READY", over)
        IN room' = IF ~Unavailable(logged) /\ \A h \in logged.players : logged.ready[h]
                   THEN StartCountdown(logged, over)
                   ELSE logged
  BY DEF HandleReady
<1>2. /\ room \in RoomType /\ Consistent(room)
      /\ room.phase \in {"LOBBY", "ROUND_RESULT"}
      /\ room.connected[g] /\ Both(room)
  BY ConsistentFacts DEF Inv, HandleReady, Admitted, Both
<1>3. d \in RoomType
  BY <1>2 DEF RoomType
<1>4. Settled(d) /\ Seated(d) /\ Timed(d) /\ NotStray(d) /\ Replayed(d) /\ Voted(d) /\ Scored(d)
  BY <1>2, <1>3 DEF Consistent, Settled, Seated, Timed, NotStray, Replayed, Voted, Scored,
                    Open, RoomType, Both
<1>5. Consistent(d) /\ Live(d)
  <2>1. Consistent(d) BY <1>4 DEF Consistent
  <2>2. Open(d.phase) BY <1>2 DEF Open, RoomType
  <2> QED BY <2>1, <2>2, ConsistentLive
<1>6. /\ d.phase = room.phase /\ d.players = room.players /\ d.wins = room.wins
      /\ d.round = room.round
  BY <1>2 DEF RoomType
<1> HIDE DEF d
<1>7. CASE Record(d, "READY", over) = d /\ ~Unavailable(d)
  <2>1. CASE \A h \in d.players : d.ready[h]
    <3>1. \A h \in d.players : d.connected[h]
      BY <1>3, <1>5, <2>1 DEF Live, InProgress, Settled, RoomType
    <3>2. d.round < RoundsPerMatch /\ \A h \in Guests : d.wins[h] < WinsNeeded
      BY <1>2, <1>4, <1>6 DEF Scored, Open
    <3>3. Both(d) BY <1>2, <1>6 DEF Both
    <3>4. Consistent(StartCountdown(d, over))
      BY <1>5, <3>1, <3>2, <3>3, StartCountdownConsistent
    <3> QED BY <1>1, <1>7, <2>1, <3>4 DEF Inv
  <2>2. CASE ~\A h \in d.players : d.ready[h]
    BY <1>1, <1>5, <1>7, <2>2 DEF Inv
  <2> QED BY <2>1, <2>2
<1>8. CASE Consistent(Record(d, "READY", over)) /\ Unavailable(Record(d, "READY", over))
  BY <1>1, <1>8 DEF Inv
<1> QED BY <1>5, <1>7, <1>8, RecordDecides

LEMMA HandleRematchConsistent ==
    ASSUME Inv, NEW g \in Guests, HandleRematch(g)
    PROVE  Inv'
<1> DEFINE d == [room EXCEPT !.rematch[g] = TRUE, !.phase = "REMATCH"]
           a == Arm(d, "rematch")
<1>1. PICK over \in Overflows :
        LET logged == Record(d, "REMATCH_REQUESTED", over)
        IN room' = IF Unavailable(logged) THEN logged
                   ELSE IF \A h \in logged.players : logged.rematch[h]
                        THEN ResetForRematch(logged, over)
                   ELSE IF logged.timer["rematch"] = "UNSET"
                        THEN Arm(logged, "rematch")
                   ELSE logged
  BY DEF HandleRematch
<1>2. /\ room \in RoomType /\ Consistent(room)
      /\ room.phase \in {"MATCH_RESULT", "REMATCH"}
      /\ room.replay[room.match] # "ACTIVE" /\ room.match < MaxMatches
  BY ConsistentFacts DEF Inv, HandleRematch, Open
<1>3. d \in RoomType /\ a \in RoomType
  BY <1>2 DEF RoomType, Phases, Arm, Timers, TimerState
<1>4. /\ d.phase = "REMATCH" /\ d.match = room.match /\ d.replay = room.replay
      /\ d.rematch[g] /\ d.timer = room.timer /\ d.result = room.result
      /\ a = [d EXCEPT !.timer = a.timer]
      /\ \A t \in Timers \ {"rematch"} : a.timer[t] = d.timer[t]
  BY <1>2 DEF RoomType, Arm, Timers
<1>5. Settled(d) /\ Seated(d) /\ Timed(d) /\ Replayed(d) /\ Voted(d) /\ Scored(d)
  BY <1>2, <1>3, <1>4 DEF Consistent, Settled, Seated, Timed, Replayed, Voted, Scored,
                          Open, RoomType, InMatch
<1>6. NotStray(d)
  BY <1>2, <1>4 DEF Consistent, NotStray
<1> HIDE DEF d, a
<1>7. Settled(a) /\ Seated(a) /\ Timed(a) /\ NotStray(a) /\ Replayed(a) /\ Voted(a) /\ Scored(a)
  BY <1>3, <1>4, <1>5, <1>6 DEF Settled, Seated, Timed, NotStray, Replayed, Voted, Scored,
                                Open, RoomType, InMatch, Timers
<1>8. Record(d, "REMATCH_REQUESTED", over) = d
  BY <1>2, <1>4, RecordAfterDecision
<1>9. Consistent(d) /\ Consistent(a)
  BY <1>5, <1>6, <1>7 DEF Consistent
<1>10. Consistent(ResetForRematch(d, over))
  BY <1>2, <1>4, <1>5, ResetForRematchConsistent
<1> QED BY <1>1, <1>8, <1>9, <1>10 DEF Inv, a

(* What holds of a round in play.                                          *)
LEMMA ActiveFacts ==
    ASSUME NEW r, Consistent(r), r.phase = "ACTIVE"
    PROVE  /\ Live(r) /\ Both(r)
           /\ \A g \in r.players : r.connected[g] /\ r.game[g] # NoGame
           /\ \A g \in Guests : r.wins[g] < WinsNeeded
           /\ TerminalPending(r) <=> \E g \in r.players : r.terminal[g] # "NONE"
           /\ TerminalPending(r) => r.timer["terminal"] = "ARMED"
<1>1. Live(r) /\ Both(r) /\ (\A g \in r.players : r.connected[g])
      /\ \A g \in Guests : r.wins[g] < WinsNeeded
  BY ConsistentFacts DEF Open, InMatch
<1>2. /\ r.timer["terminal"] =
           IF \A g \in r.players : r.terminal[g] = "NONE" THEN "UNSET" ELSE "ARMED"
      /\ \A g \in r.players : r.game[g] # NoGame
  BY DEF Consistent, Timed
<1> QED BY <1>1, <1>2 DEF TerminalPending

LEMMA BoardActionExpiredConsistent ==
    ASSUME Inv, NEW g \in Guests, BoardActionExpired(g)
    PROVE  Inv'
<1>1. PICK over \in Overflows : room' = SettleTimeout(room, over)
  BY DEF BoardActionExpired
<1>2. Consistent(room) /\ room.phase = "ACTIVE"
  BY DEF Inv, BoardActionExpired, Playing
<1>3. Consistent(SettleTimeout(room, over)) \/ SettleTimeout(room, over) = room
  BY <1>2, ActiveFacts, SettleTimeoutConsistent
<1> QED BY <1>1, <1>2, <1>3 DEF Inv

(* A board action leaves its round with a timer pending: the first end of  *)
(* a round opens the terminal window, a later one finds it open.           *)
LEMMA BoardActionConsistent ==
    ASSUME Inv, NEW g \in Guests, NEW d \in Deltas, BoardAction(g, d)
    PROVE  Inv'
<1> DEFINE p == [room EXCEPT !.game[g] = @ + d.gained]
<1>1. PICK over \in Overflows, now \in BOOLEAN :
        LET logged == Record(p, "ACTION", over)
        IN room' = IF logged.phase # "ACTIVE" \/ ~d.accepted THEN logged
                   ELSE MarkTerminal(ScheduleProgress(logged, now), g, d)
  BY DEF BoardAction
<1>2. /\ room \in RoomType /\ Consistent(room) /\ room.phase = "ACTIVE"
      /\ g \in room.players /\ room.game[g] # NoGame /\ room.terminal[g] = "NONE"
      /\ room.game[g] + d.gained <= Full /\ d.gained \in 0 .. Full
  BY ConsistentFacts DEF Inv, BoardAction, Playing, Admitted, LegalDelta, Deltas
<1>3. p \in RoomType /\ \A h \in room.players : p.game[h] # NoGame
  <2>1. room.game[g] \in 0 .. Full
    BY <1>2, BoardAssumption DEF RoomType, NoGame
  <2>2. room.game[g] + d.gained \in NoGame .. Full /\ room.game[g] + d.gained # NoGame
    BY <1>2, <2>1, BoardAssumption DEF NoGame
  <2>3. \A h \in room.players : room.game[h] # NoGame
    BY <1>2, ActiveFacts
  <2> QED BY <1>2, <2>2, <2>3 DEF RoomType
<1>4. p = [room EXCEPT !.game = p.game]
  BY <1>2 DEF RoomType
<1> HIDE DEF p
<1>5. Settled(p) /\ Seated(p) /\ Timed(p) /\ NotStray(p) /\ Replayed(p) /\ Voted(p) /\ Scored(p)
  BY <1>2, <1>3, <1>4 DEF Consistent, Settled, Seated, Timed, NotStray, Replayed, Voted, Scored,
                          Open, RoomType, Both
<1>6. Consistent(p) /\ p.phase = "ACTIVE" /\ p.terminal = room.terminal /\ p.players = room.players
  BY <1>2, <1>4, <1>5 DEF Consistent, RoomType
<1>7. CASE Record(p, "ACTION", over).phase # "ACTIVE" \/ ~d.accepted
  <2>1. Consistent(Record(p, "ACTION", over))
    BY <1>6, RecordConsistent
  <2> QED BY <1>1, <1>7, <2>1 DEF Inv
<1>8. CASE Record(p, "ACTION", over).phase = "ACTIVE" /\ d.accepted
  <2>1. Record(p, "ACTION", over) = p
    BY <1>6, <1>8, RecordConsistent
  <2> DEFINE q == ScheduleProgress(p, now)
  <2>2. /\ q \in RoomType /\ q = [p EXCEPT !.timer = q.timer]
        /\ \A t \in Timers \ {"progress"} : q.timer[t] = p.timer[t]
    BY <1>3 DEF ScheduleProgress, Arm, RoomType, Timers, TimerState
  <2> HIDE DEF q
  <2>3. /\ q.phase = "ACTIVE" /\ q.terminal = p.terminal /\ q.players = p.players
        /\ Settled(q) /\ Seated(q) /\ Timed(q) /\ Replayed(q) /\ Voted(q) /\ Scored(q)
        /\ NotStray(q)
    BY <1>3, <1>5, <1>6, <2>2 DEF Settled, Seated, Timed, Replayed, Voted, Scored, NotStray,
                                  Open, RoomType, Both, Timers
  <2>4. Consistent(q)
    BY <2>3 DEF Consistent
  <2>5. ASSUME NEW end \in {"MINE", "COMPLETE"}
        PROVE  Consistent(ScheduleTerminalSettlement([q EXCEPT !.terminal[g] = end]))
    <3> DEFINE m == [q EXCEPT !.terminal[g] = end]
               s == ScheduleTerminalSettlement(m)
    <3>1. m \in RoomType
      BY <2>2 DEF RoomType, Terminals
    <3>2. s = [q EXCEPT !.terminal = m.terminal, !.timer = s.timer] /\ s \in RoomType
      BY <2>2, <3>1 DEF ScheduleTerminalSettlement, Arm, RoomType, Timers, TimerState
    <3>3. m.terminal[g] = end
      BY <1>2, <2>2 DEF RoomType
    <3>4. /\ s.timer["terminal"] = "ARMED"
          /\ \A t \in Timers \ {"terminal"} : s.timer[t] = q.timer[t]
      BY <2>2, <2>3, <2>4, <3>1, ActiveFacts
        DEF ScheduleTerminalSettlement, TerminalPending, Arm, RoomType, Timers
    <3>5. /\ s.phase = "ACTIVE" /\ s.result = q.result /\ s.match = q.match
          /\ s.replay = q.replay /\ s.players = q.players /\ s.connected = q.connected
          /\ s.ready = q.ready /\ s.rematch = q.rematch /\ s.wins = q.wins
          /\ s.round = q.round /\ s.total = q.total /\ s.cursor = q.cursor
          /\ s.board = q.board /\ s.game = q.game /\ s.terminal = m.terminal
      BY <2>2, <2>3, <3>2 DEF RoomType
    <3> HIDE DEF m, s
    <3>6. Settled(s) /\ Seated(s) /\ Replayed(s) /\ Voted(s) /\ Scored(s)
      BY <2>3, <3>2, <3>5 DEF Settled, Seated, Replayed, Voted, Scored, Both
    <3>7. Timed(s)
      BY <1>2, <1>6, <2>3, <3>3, <3>4, <3>5 DEF Timed
    <3>8. NotStray(s)
      BY <2>3, <3>4, <3>5 DEF NotStray, Timers
    <3> QED BY <3>6, <3>7, <3>8 DEF Consistent, m, s
  <2>6. Consistent(MarkTerminal(q, g, d))
    BY <2>4, <2>5 DEF MarkTerminal
  <2> QED BY <1>1, <1>8, <2>1, <2>6 DEF Inv, q
<1> QED BY <1>7, <1>8
(* The deadline passes, or the progress timer broadcasts.                  *)
LEMMA ClockConsistent ==
    ASSUME Inv, DeadlinePasses \/ FireProgress
    PROVE  Inv'
<1>1. room \in RoomType /\ Consistent(room)
  BY ConsistentFacts DEF Inv
<1>2. CASE DeadlinePasses
  <2> DEFINE n == [room EXCEPT !.expired = TRUE]
  <2>1. n \in RoomType
    BY <1>1 DEF RoomType
  <2>2. Settled(n) /\ Seated(n) /\ Timed(n) /\ NotStray(n) /\ Replayed(n) /\ Voted(n) /\ Scored(n)
    BY <1>1, <2>1 DEF Consistent, Settled, Seated, Timed, NotStray, Replayed, Voted, Scored,
                      RoomType, Both
  <2> QED BY <1>2, <2>2 DEF Consistent, Inv, DeadlinePasses
<1>3. CASE FireProgress
  <2> DEFINE n == [room EXCEPT !.timer["progress"] = "UNSET"]
  <2>1. n \in RoomType
    BY <1>1 DEF RoomType, Timers, TimerState
  <2>3. /\ n = [room EXCEPT !.timer = n.timer]
        /\ n.timer["progress"] = "UNSET"
        /\ \A t \in Timers \ {"progress"} : n.timer[t] = room.timer[t]
    BY <1>1 DEF RoomType, Timers
  <2> HIDE DEF n
  <2>2. Settled(n) /\ Seated(n) /\ Timed(n) /\ NotStray(n) /\ Replayed(n) /\ Voted(n) /\ Scored(n)
    BY <1>1, <2>1, <2>3 DEF Consistent, Settled, Seated, Timed, NotStray, Replayed, Voted, Scored,
                      RoomType, Both, Timers
  <2> QED BY <1>3, <2>2 DEF Consistent, Inv, FireProgress, n
<1> QED BY <1>2, <1>3

LEMMA FireCountdownConsistent ==
    ASSUME Inv, FireCountdown
    PROVE  Inv'
<1> DEFINE f == Fired(room, "countdown")
<1>1. PICK over \in Overflows : room' = ActivateRound(f, over)
  BY DEF FireCountdown
<1>2. room \in RoomType /\ Consistent(room) /\ room.phase = "COUNTDOWN"
  BY ConsistentFacts DEF Inv, FireCountdown, Consistent, NotStray
<1>3. Live(room) /\ Both(room) /\ (\A g \in room.players : room.connected[g])
      /\ \A g \in Guests : room.wins[g] < WinsNeeded
  BY <1>2, ConsistentFacts DEF Open, InMatch
<1>4. /\ room.timer["terminal"] = "UNSET" /\ room.board # 0
      /\ room.timer["progress"] # "ARMED"
      /\ \A g \in Guests : room.terminal[g] = "NONE"
  BY <1>2 DEF Consistent, Timed, NotStray
<1>5. /\ f \in RoomType /\ f = [room EXCEPT !.timer = f.timer]
      /\ f.timer["countdown"] = "FIRED"
      /\ \A t \in Timers \ {"countdown"} : f.timer[t] = room.timer[t]
  BY <1>2 DEF Fired, RoomType, Timers, TimerState
<1> HIDE DEF f
<1>6. Live(f)
  BY <1>2, <1>3, <1>5 DEF Live, InProgress, Settled, RoomType, Timers
<1>7. Consistent(ActivateRound(f, over))
  <2>1. /\ f.phase = "COUNTDOWN" /\ f.board # 0 /\ Both(f)
        /\ \A g \in f.players : f.connected[g]
        /\ \A g \in Guests : f.wins[g] < WinsNeeded
        /\ \A g \in Guests : f.terminal[g] = "NONE"
        /\ f.timer["countdown"] # "ARMED" /\ f.timer["terminal"] = "UNSET"
        /\ f.timer["progress"] # "ARMED"
    BY <1>2, <1>3, <1>4, <1>5 DEF RoomType, Both, Timers
  <2> QED BY <1>6, <2>1, ActivateRoundConsistent
<1> QED BY <1>1, <1>7 DEF Inv

(* The round's duration ends it, unless a terminal window is pending: then *)
(* the window's own timer is armed.                                        *)
LEMMA FireRoundConsistent ==
    ASSUME Inv, FireRound
    PROVE  Inv'
<1> DEFINE f == Fired(room, "round")
<1>1. PICK over \in Overflows : room' = SettleTimeout(f, over)
  BY DEF FireRound
<1>2. room \in RoomType /\ Consistent(room) /\ room.phase = "ACTIVE"
  BY ConsistentFacts DEF Inv, FireRound, Consistent, NotStray
<1>3. /\ f \in RoomType /\ f = [room EXCEPT !.timer = f.timer]
      /\ f.timer["round"] = "FIRED"
      /\ \A t \in Timers \ {"round"} : f.timer[t] = room.timer[t]
  BY <1>2 DEF Fired, RoomType, Timers, TimerState
<1>4. /\ f.phase = "ACTIVE" /\ f.result = room.result /\ f.match = room.match
      /\ f.replay = room.replay /\ f.players = room.players /\ f.connected = room.connected
      /\ f.ready = room.ready /\ f.rematch = room.rematch /\ f.wins = room.wins
      /\ f.round = room.round /\ f.total = room.total /\ f.cursor = room.cursor
      /\ f.board = room.board /\ f.game = room.game /\ f.terminal = room.terminal
  BY <1>2, <1>3 DEF RoomType
<1> HIDE DEF f
<1>5. Live(f) /\ Both(f) /\ (\A g \in f.players : f.connected[g] /\ f.game[g] # NoGame)
      /\ \A g \in Guests : f.wins[g] < WinsNeeded
  BY <1>2, <1>3, <1>4, ActiveFacts DEF Live, InProgress, Settled, Both, Timers
<1>6. CASE TerminalPending(f)
  <2>1. SettleTimeout(f, over) = f
    BY <1>4, <1>5, <1>6, SettleTimeoutConsistent
  <2>2. f.timer["terminal"] = "ARMED"
    BY <1>2, <1>3, <1>6, ActiveFacts DEF TerminalPending, Timers
  <2>3. Settled(f) /\ Seated(f) /\ Replayed(f) /\ Voted(f) /\ Scored(f)
    BY <1>2, <1>3, <1>4 DEF Consistent, Settled, Seated, Replayed, Voted, Scored, Both
  <2>4. Timed(f)
    BY <1>2, <1>3, <1>4, <2>2 DEF Consistent, Timed, Timers
  <2>5. NotStray(f)
    BY <1>2, <1>3, <1>4 DEF Consistent, NotStray, Timers
  <2> QED BY <1>1, <2>1, <2>3, <2>4, <2>5 DEF Consistent, Inv
<1>7. CASE ~TerminalPending(f)
  BY <1>1, <1>4, <1>5, <1>7, SettleTimeoutConsistent DEF Inv
<1> QED BY <1>6, <1>7

LEMMA FireTerminalConsistent ==
    ASSUME Inv, FireTerminal
    PROVE  Inv'
<1> DEFINE f == Fired(room, "terminal")
<1>1. PICK over \in Overflows : room' = SettleTerminal(f, over)
  BY DEF FireTerminal
<1>2. room \in RoomType /\ Consistent(room) /\ room.phase = "ACTIVE"
      /\ room.timer["terminal"] = "ARMED"
  BY ConsistentFacts DEF Inv, FireTerminal, Consistent, NotStray
<1>3. /\ f \in RoomType /\ f = [room EXCEPT !.timer = f.timer]
      /\ \A t \in Timers \ {"terminal"} : f.timer[t] = room.timer[t]
  BY <1>2 DEF Fired, RoomType, Timers, TimerState
<1>4. /\ f.phase = "ACTIVE" /\ f.result = room.result /\ f.match = room.match
      /\ f.replay = room.replay /\ f.players = room.players /\ f.connected = room.connected
      /\ f.ready = room.ready /\ f.rematch = room.rematch /\ f.wins = room.wins
      /\ f.total = room.total /\ f.cursor = room.cursor
      /\ f.board = room.board /\ f.terminal = room.terminal
  BY <1>2, <1>3 DEF RoomType
<1> HIDE DEF f
<1>5. Live(f) /\ Both(f) /\ (\A g \in f.players : f.connected[g])
      /\ (\A g \in Guests : f.wins[g] < WinsNeeded)
      /\ \E g \in f.players : f.terminal[g] # "NONE"
  BY <1>2, <1>3, <1>4, ActiveFacts DEF Live, InProgress, Settled, Both, Timers, TerminalPending
<1>6. Consistent(SettleTerminal(f, over))
  BY <1>4, <1>5, SettleTerminalConsistent
<1> QED BY <1>1, <1>6 DEF Inv

(* A rematch window only closes in the phase REMATCH, and takes its votes  *)
(* with it.                                                                *)
LEMMA FireRematchConsistent ==
    ASSUME Inv, FireRematch
    PROVE  Inv'
<1>1. room \in RoomType /\ Consistent(room) /\ room.phase = "REMATCH"
  BY ConsistentFacts DEF Inv, FireRematch, Consistent, NotStray
<1> DEFINE n == ExpireRematch(room)
<1>2. n = [room EXCEPT !.timer["rematch"] = "UNSET", !.phase = "MATCH_RESULT",
                       !.rematch = [g \in Guests |-> FALSE]]
  BY <1>1 DEF ExpireRematch
<1>3. n \in RoomType
  <2>1. [room.timer EXCEPT !["rematch"] = "UNSET"] \in [Timers -> TimerState]
    BY <1>1 DEF RoomType, TimerState
  <2>2. [g \in Guests |-> FALSE] \in [Guests -> BOOLEAN]
    OBVIOUS
  <2> HIDE DEF n
  <2> QED BY <1>1, <1>2, <2>1, <2>2 DEF RoomType, Phases
<1> HIDE DEF n
<1>4. /\ n.phase = "MATCH_RESULT" /\ n.rematch = [g \in Guests |-> FALSE]
      /\ n.timer["rematch"] = "UNSET"
      /\ \A t \in Timers \ {"rematch"} : n.timer[t] = room.timer[t]
      /\ n.result = room.result /\ n.match = room.match /\ n.replay = room.replay
      /\ n.connected = room.connected /\ n.ready = room.ready /\ n.players = room.players
      /\ n.total = room.total /\ n.cursor = room.cursor /\ n.board = room.board
  BY <1>1, <1>2 DEF RoomType, Timers
<1>5. Settled(n) /\ Seated(n) /\ Timed(n) /\ Scored(n)
  BY <1>1, <1>3, <1>4 DEF Consistent, Settled, Seated, Timed, Scored, Open, InMatch
<1>6. NotStray(n) /\ Voted(n)
  BY <1>1, <1>4 DEF Consistent, NotStray, Voted, Timers
<1>7. Replayed(n)
  BY <1>1, <1>4 DEF Consistent, Replayed, Open
<1> QED BY <1>5, <1>6, <1>7 DEF Consistent, Inv, FireRematch, n

LEMMA CloseConsistent ==
    ASSUME Inv, Sweep \/ Shutdown
    PROVE  Inv'
<1>1. room \in RoomType /\ Consistent(room) /\ room' = Close(room)
  BY ConsistentFacts DEF Inv, Sweep, Shutdown
<1>2. /\ room' \in RoomType
      /\ room' = [room EXCEPT !.phase = "CLOSED", !.timer = [t \in Timers |-> "UNSET"]]
  BY <1>1 DEF Close, ClearTimers, RoomType, TimerState, Phases
<1>3. Settled(room') /\ Seated(room') /\ Timed(room') /\ NotStray(room') /\ Replayed(room')
      /\ Voted(room') /\ Scored(room')
  BY <1>1, <1>2 DEF Consistent, Settled, Seated, Timed, NotStray, Replayed, Voted, Scored,
                    Open, RoomType, Timers, InMatch
<1> QED BY <1>3 DEF Consistent, Inv

LEMMA NextConsistent == Inv /\ [Next]_room => Inv'
<1> SUFFICES ASSUME Inv, [Next]_room PROVE Inv'
  OBVIOUS
<1>1. CASE UNCHANGED room
  BY <1>1 DEF Inv
<1>2. ASSUME NEW g \in Guests, AddPlayer(g) PROVE Inv'
  BY <1>2, AddPlayerConsistent
<1>3. ASSUME NEW g \in Guests, HandleReady(g) PROVE Inv'
  BY <1>3, HandleReadyConsistent
<1>4. ASSUME NEW g \in Guests, HandleRematch(g) PROVE Inv'
  BY <1>4, HandleRematchConsistent
<1>5. ASSUME NEW g \in Guests, BoardActionExpired(g) PROVE Inv'
  BY <1>5, BoardActionExpiredConsistent
<1>6. ASSUME NEW g \in Guests, NEW e \in 1 .. MaxEpoch, Connect(g, e) PROVE Inv'
  BY <1>6, ConnectConsistent
<1>7. ASSUME NEW g \in Guests, NEW e \in 1 .. MaxEpoch, Disconnect(g, e) PROVE Inv'
  BY <1>7, DisconnectConsistent
<1>8. ASSUME NEW g \in Guests, NEW d \in Deltas, BoardAction(g, d) PROVE Inv'
  BY <1>8, BoardActionConsistent
<1>9. CASE DeadlinePasses \/ FireProgress
  BY <1>9, ClockConsistent
<1>10. CASE FireCountdown
  BY <1>10, FireCountdownConsistent
<1>11. CASE FireRound
  BY <1>11, FireRoundConsistent
<1>12. CASE FireTerminal
  BY <1>12, FireTerminalConsistent
<1>13. CASE FireRematch
  BY <1>13, FireRematchConsistent
<1>14. CASE Sweep \/ Shutdown
  BY <1>14, CloseConsistent
<1> QED BY <1>1, <1>2, <1>3, <1>4, <1>5, <1>6, <1>7, <1>8, <1>9, <1>10, <1>11, <1>12, <1>13,
          <1>14 DEF Next

LEMMA Consistency == Spec => []Inv
BY InitConsistent, NextConsistent, PTL DEF Spec

-----------------------------------------------------------------------------
(* The match a room plays.  Whatever methods a step of the room calls, it  *)
(* does one of these things to the match at most.                          *)
StageOf(p) == CASE p \in {"LOBBY", "ROUND_RESULT"} -> "IDLE"
                [] p \in {"COUNTDOWN", "ACTIVE"} -> "ROUND"
                [] p \in {"MATCH_RESULT", "REMATCH"} -> "DECIDED"
                [] p = "CLOSED" -> "CLOSED"

SameScore(r, s) == s.round = r.round /\ s.wins = r.wins

Rests(r, s) ==
    /\ StageOf(s.phase) = StageOf(r.phase)
    /\ SameScore(r, s) /\ s.result.winner = r.result.winner

Deals(r, s) ==
    /\ r.phase \in {"LOBBY", "ROUND_RESULT"} /\ s.phase = "COUNTDOWN"
    /\ r.round < RoundsPerMatch
    /\ s.round = r.round + 1 /\ s.wins = r.wins /\ s.result.winner = r.result.winner

Abandons(r, s) ==
    /\ Open(r.phase) /\ s.phase = "MATCH_RESULT"
    /\ s.result.winner \in Guests \cup {NoGuest}
    /\ s.round \in {r.round, r.round + 1} \cap 0 .. RoundsPerMatch
    /\ s.wins = r.wins

(* One winner at most, who has met no mine and faces no completed board.   *)
Earned(r, winners) ==
    /\ winners \in SUBSET r.players
    /\ \A g, h \in winners : g = h
    /\ \A g \in winners :
          /\ r.terminal[g] # "MINE"
          /\ \A h \in r.players \ {g} : r.terminal[h] # "COMPLETE"

Tally(r, winners) == [g \in Guests |-> IF g \in winners THEN r.wins[g] + 1 ELSE r.wins[g]]
Leaders(wins) == {g \in Guests : wins[g] >= WinsNeeded}

Ends(r, s, winners) ==
    /\ r.phase = "ACTIVE"
    /\ s.round = r.round /\ s.wins = Tally(r, winners)
    /\ \/ s.phase = "MATCH_RESULT" /\ s.result.winner = NoGuest
       \/ s.phase = "MATCH_RESULT" /\ s.result.winner \in Leaders(s.wins)
       \/ s.phase = "ROUND_RESULT" /\ s.result.winner = NoGuest
          /\ Leaders(s.wins) = {} /\ r.round < RoundsPerMatch

Restarts(r, s) ==
    /\ r.phase \in {"MATCH_RESULT", "REMATCH"} /\ s.phase = "LOBBY"
    /\ s.round = 0 /\ s.wins = [g \in Guests |-> 0] /\ s.result.winner = NoGuest

Stops(r, s) ==
    /\ r.phase # "CLOSED" /\ s.phase = "CLOSED"
    /\ SameScore(r, s) /\ s.result.winner = r.result.winner

Moves(r, s) ==
    \/ Rests(r, s) \/ Deals(r, s) \/ Abandons(r, s)
    \/ \E winners : Earned(r, winners) /\ Ends(r, s, winners)
    \/ Restarts(r, s) \/ Stops(r, s)

(* finishMatch decides the match as it is told and touches no score.       *)
LEMMA FinishMatchScore ==
    ASSUME NEW r \in RoomType, Open(r.phase), r.result = NoResult,
           NEW result \in Results, NEW over
    PROVE  LET f == FinishMatch(r, result, over)
           IN  f.phase = "MATCH_RESULT" /\ f.result = result /\ SameScore(r, f)
<1> DEFINE c == ClearRoundTimers(r)
           status == CASE c.replay[r.match] = "ACTIVE" /\ over = "MATCH_RESULT" -> "UNAVAILABLE"
                       [] c.replay[r.match] = "ACTIVE" /\ over # "MATCH_RESULT" -> "COMPLETED"
                       [] OTHER -> c.replay[r.match]
<1>1. c \in RoomType /\ c = [r EXCEPT !.timer = c.timer]
  BY ClearRoundTimersFacts
<1>2. r.phase \notin {"MATCH_RESULT", "CLOSED"} BY DEF Open
<1>3. FinishMatch(r, result, over)
        = [c EXCEPT !.phase = "MATCH_RESULT", !.result = result, !.replay[r.match] = status]
  BY <1>2 DEF FinishMatch
<1> HIDE DEF c, status
<1>4. SameScore(r, c)
  BY <1>1 DEF RoomType, SameScore
<1> QED BY <1>1, <1>3, <1>4 DEF RoomType, SameScore

(* record leaves the room as it is, or ends the match with no winner.      *)
LEMMA RecordScore ==
    ASSUME NEW r \in RoomType, Open(r.phase), r.result = NoResult, NEW event, NEW over
    PROVE  LET s == Record(r, event, over)
           IN  \/ s = r
               \/ /\ s.phase = "MATCH_RESULT" /\ s.result = NoContest("REPLAY_BUDGET_EXCEEDED")
                  /\ SameScore(r, s)
<1> DEFINE u == [r EXCEPT !.replay[r.match] = "UNAVAILABLE"]
<1>1. u \in RoomType /\ u.phase = r.phase /\ u.result = r.result /\ SameScore(r, u)
  BY DEF RoomType, ReplayStatus, SameScore
<1>2. NoContest("REPLAY_BUDGET_EXCEEDED") \in Results
  BY ResultFacts DEF Reasons
<1> HIDE DEF u
<1>3. LET f == FinishMatch(u, NoContest("REPLAY_BUDGET_EXCEEDED"), "NONE")
      IN  /\ f.phase = "MATCH_RESULT" /\ f.result = NoContest("REPLAY_BUDGET_EXCEEDED")
          /\ SameScore(u, f)
  BY <1>1, <1>2, FinishMatchScore
<1> QED BY <1>1, <1>3 DEF Record, MarkReplayUnavailable, u, SameScore

(* A handler that does nothing to the match but to record an event.        *)
LEMMA RecordMoves ==
    ASSUME NEW r, Consistent(r), r.phase # "CLOSED", NEW s \in RoomType,
           s.phase = r.phase, s.result = r.result, s.match = r.match, s.replay = r.replay,
           SameScore(r, s), NEW event, NEW over
    PROVE  /\ Moves(r, Record(s, event, over))
           /\ Record(s, event, over) = s \/ Record(s, event, over).phase = "MATCH_RESULT"
<1>1. CASE Open(r.phase)
  <2>1. r.result = NoResult BY <1>1 DEF Consistent, Replayed
  <2>2. r.round \in 0 .. RoundsPerMatch BY DEF Consistent, Settled, RoomType
  <2>3. NoContest("REPLAY_BUDGET_EXCEEDED").winner = NoGuest BY DEF NoContest
  <2> QED BY <1>1, <2>1, <2>2, <2>3, RecordScore DEF Moves, Rests, Abandons, SameScore
<1>2. CASE ~Open(r.phase)
  <2>1. Record(s, event, over) = s
    BY <1>2, ConsistentFacts, RecordAfterDecision
  <2> QED BY <2>1 DEF Moves, Rests
<1> QED BY <1>1, <1>2

LEMMA AddPlayerMoves ==
    ASSUME Inv, NEW g \in Guests, AddPlayer(g)
    PROVE  Moves(room, room')
<1> DEFINE a == [room EXCEPT !.players = @ \cup {g}]
<1>1. Consistent(room) /\ room \in RoomType /\ room.phase # "CLOSED"
  BY ConsistentFacts DEF Inv, AddPlayer, Reachable
<1>2. /\ a \in RoomType /\ a.phase = room.phase /\ a.result = room.result /\ a.match = room.match
      /\ a.replay = room.replay /\ SameScore(room, a)
  BY <1>1 DEF RoomType, SameScore
<1>3. PICK over \in Overflows : room' = Record(a, "PLAYER_JOINED", over)
  BY DEF AddPlayer
<1> HIDE DEF a
<1> QED BY <1>1, <1>2, <1>3, RecordMoves

LEMMA ConnectMoves ==
    ASSUME Inv, NEW g \in Guests, NEW e \in 1 .. MaxEpoch, Connect(g, e)
    PROVE  Moves(room, room')
<1> DEFINE a == [room EXCEPT !.connected[g] = TRUE, !.epoch[g] = e]
<1>1. Consistent(room) /\ room \in RoomType /\ room.phase # "CLOSED"
  BY ConsistentFacts DEF Inv, Connect, Reachable
<1>2. e \in 0 .. MaxEpoch BY BoundAssumption
<1>3. /\ a \in RoomType /\ a.phase = room.phase /\ a.result = room.result /\ a.match = room.match
      /\ a.replay = room.replay /\ SameScore(room, a)
  BY <1>1, <1>2 DEF RoomType, SameScore
<1>4. PICK over \in Overflows : room' = Record(a, "PLAYER_CONNECTED", over)
  BY DEF Connect
<1> HIDE DEF a
<1> QED BY <1>1, <1>3, <1>4, RecordMoves

(* Whoever takes the match because the other has left is a guest.          *)
LEMMA DisconnectMoves ==
    ASSUME Inv, NEW g \in Guests, NEW e \in 1 .. MaxEpoch, Disconnect(g, e)
    PROVE  Moves(room, room')
<1> DEFINE d == Drop(room, g)
           others(r) == {h \in r.players \ {g} : r.connected[h]}
<1>1. PICK over \in Overflows :
        LET gone == Record(d, "PLAYER_DISCONNECTED", over)
        IN room' = IF gone.phase \in InMatch /\ others(gone) # {}
                   THEN FinishMatch(gone, Won(CHOOSE h \in others(gone) : TRUE, "TECHNICAL_DNF"), over)
                   ELSE gone
  BY DEF Disconnect
<1>2. room \in RoomType /\ Consistent(room) /\ room.phase # "CLOSED"
  BY ConsistentFacts DEF Inv, Disconnect, Reachable
<1>3. /\ d \in RoomType /\ d.phase = room.phase /\ d.result = room.result /\ d.match = room.match
      /\ d.replay = room.replay /\ SameScore(room, d)
  BY <1>2 DEF Drop, RoomType, SameScore
<1> HIDE DEF d
<1> DEFINE gone == Record(d, "PLAYER_DISCONNECTED", over)
<1>4. Moves(room, gone) /\ (gone = d \/ gone.phase = "MATCH_RESULT")
  BY <1>2, <1>3, RecordMoves
<1> HIDE DEF gone
<1>5. CASE gone.phase \in InMatch /\ others(gone) # {}
  <2> DEFINE h == CHOOSE h \in others(gone) : TRUE
  <2>1. gone = d BY <1>4, <1>5 DEF InMatch
  <2>2. h \in Guests BY <1>3, <1>5, <2>1 DEF RoomType
  <2>3. Open(d.phase) /\ d.result = NoResult
    BY <1>2, <1>3, <1>5, <2>1 DEF Consistent, Replayed, Open, InMatch
  <2>4. room' = FinishMatch(d, Won(h, "TECHNICAL_DNF"), over)
    BY <1>1, <1>5, <2>1 DEF gone
  <2> HIDE DEF h
  <2>5. Won(h, "TECHNICAL_DNF") \in Results /\ Won(h, "TECHNICAL_DNF").winner = h
    BY <2>2, ResultFacts DEF Reasons, Won
  <2>6. /\ room'.phase = "MATCH_RESULT" /\ room'.result = Won(h, "TECHNICAL_DNF")
        /\ SameScore(d, room')
    BY <1>3, <2>3, <2>4, <2>5, FinishMatchScore
  <2>7. room.round \in 0 .. RoundsPerMatch BY <1>2 DEF RoomType
  <2> QED BY <1>3, <2>2, <2>3, <2>5, <2>6, <2>7 DEF Moves, Abandons, SameScore
<1>6. CASE ~(gone.phase \in InMatch /\ others(gone) # {})
  BY <1>1, <1>4, <1>6 DEF gone
<1> QED BY <1>5, <1>6

(* A countdown deals a round, although its record may then end the match.  *)
LEMMA StartCountdownMoves ==
    ASSUME NEW r, Live(r), r.phase \in {"LOBBY", "ROUND_RESULT"},
           r.round < RoundsPerMatch, NEW over
    PROVE  Deals(r, StartCountdown(r, over)) \/ Abandons(r, StartCountdown(r, over))
<1>1. r \in RoomType /\ r.result = NoResult /\ Open(r.phase)
  BY DEF Live, InProgress, Settled
<1>2. r.round \in 0 .. RoundsPerMatch /\ r.round + 1 \in 0 .. RoundsPerMatch
  BY <1>1, RoundAssumption DEF RoomType
<1>3. CASE RoomExhausted(r)
  <2> DEFINE c == ClearRoundTimers(r)
  <2>1. c \in RoomType /\ c = [r EXCEPT !.timer = c.timer]
    BY <1>1, ClearRoundTimersFacts
  <2> HIDE DEF c
  <2>2. c.phase = r.phase /\ c.result = r.result /\ SameScore(r, c)
    BY <1>1, <2>1 DEF RoomType, SameScore
  <2>3. NoContest("PHASE_ZERO_ROUND_LIMIT") \in Results
        /\ NoContest("PHASE_ZERO_ROUND_LIMIT").winner = NoGuest
    BY ResultFacts DEF Reasons, NoContest
  <2>4. LET f == FinishMatch(c, NoContest("PHASE_ZERO_ROUND_LIMIT"), over)
        IN  /\ f.phase = "MATCH_RESULT" /\ f.result = NoContest("PHASE_ZERO_ROUND_LIMIT")
            /\ SameScore(c, f)
    BY <1>1, <2>1, <2>2, <2>3, FinishMatchScore
  <2> QED BY <1>1, <1>2, <1>3, <2>2, <2>3, <2>4 DEF StartCountdown, Abandons, SameScore, c
<1>4. CASE ~RoomExhausted(r)
  <2> DEFINE dealt == Countdown(r)
             logged == Record(dealt, "COUNTDOWN", over)
  <2>1. StartCountdown(r, over) = IF Unavailable(logged) THEN logged ELSE Arm(logged, "countdown")
    BY <1>4 DEF StartCountdown, Countdown
  <2>2. /\ dealt \in RoomType /\ Live(dealt) /\ dealt.phase = "COUNTDOWN"
        /\ dealt.result = r.result /\ dealt.round = r.round + 1 /\ dealt.wins = r.wins
    BY <1>4, CountdownFacts
  <2>3. NoContest("REPLAY_BUDGET_EXCEEDED").winner = NoGuest BY DEF NoContest
  <2> HIDE DEF dealt
  <2>4. \/ logged = dealt /\ ~Unavailable(dealt)
        \/ /\ logged.phase = "MATCH_RESULT" /\ Unavailable(logged)
           /\ logged.result = NoContest("REPLAY_BUDGET_EXCEEDED") /\ SameScore(dealt, logged)
    <3>1. \/ logged = dealt /\ ~Unavailable(dealt)
          \/ logged.phase = "MATCH_RESULT" /\ Unavailable(logged)
      BY <2>2, RecordDecides
    <3>2. Open(dealt.phase) /\ dealt.result = NoResult
      BY <1>1, <2>2 DEF Open
    <3> QED BY <2>2, <3>1, <3>2, RecordScore
  <2>5. CASE logged = dealt /\ ~Unavailable(dealt)
    <3>1. /\ Arm(dealt, "countdown").phase = "COUNTDOWN"
          /\ Arm(dealt, "countdown").result = r.result
          /\ Arm(dealt, "countdown").round = r.round + 1 /\ Arm(dealt, "countdown").wins = r.wins
      BY <2>2 DEF Arm, RoomType
    <3> QED BY <2>1, <2>5, <3>1 DEF Deals
  <2>6. CASE logged.phase = "MATCH_RESULT" /\ Unavailable(logged)
             /\ logged.result = NoContest("REPLAY_BUDGET_EXCEEDED") /\ SameScore(dealt, logged)
    BY <1>1, <1>2, <2>1, <2>2, <2>3, <2>6 DEF Abandons, SameScore
  <2> QED BY <2>4, <2>5, <2>6
<1> QED BY <1>3, <1>4

LEMMA HandleReadyMoves ==
    ASSUME Inv, NEW g \in Guests, HandleReady(g)
    PROVE  Moves(room, room')
<1> DEFINE d == [room EXCEPT !.ready[g] = TRUE]
<1>1. PICK over \in Overflows :
        LET logged == Record(d, "READY", over)
        IN room' = IF ~Unavailable(logged) /\ \A h \in logged.players : logged.ready[h]
                   THEN StartCountdown(logged, over)
                   ELSE logged
  BY DEF HandleReady
<1>2. /\ room \in RoomType /\ Consistent(room) /\ Live(room)
      /\ room.phase \in {"LOBBY", "ROUND_RESULT"} /\ room.connected[g]
      /\ room.round < RoundsPerMatch
  BY ConsistentFacts DEF Inv, HandleReady, Admitted, Open, Consistent, Scored
<1>3. /\ d \in RoomType /\ d.phase = room.phase /\ d.result = room.result /\ d.match = room.match
      /\ d.replay = room.replay /\ SameScore(room, d)
  BY <1>2 DEF RoomType, SameScore
<1>4. Live(d)
  BY <1>2, <1>3 DEF Live, InProgress, Settled, RoomType
<1> HIDE DEF d
<1> DEFINE logged == Record(d, "READY", over)
<1>5. Moves(room, logged)
  BY <1>2, <1>3, RecordMoves
<1>6. logged = d \/ Unavailable(logged)
  BY <1>4, RecordDecides
<1>7. CASE room' = logged
  BY <1>5, <1>7
<1>8. CASE logged = d /\ room' = StartCountdown(d, over)
  BY <1>2, <1>3, <1>4, <1>8, StartCountdownMoves DEF Moves, Deals, Abandons, SameScore
<1> HIDE DEF logged
<1> QED BY <1>1, <1>6, <1>7, <1>8 DEF logged

(* resetForRematch shows a match that has not begun.                       *)
LEMMA ResetForRematchShown ==
    ASSUME NEW r \in RoomType, r.match < MaxMatches, NEW over \in Overflows
    PROVE  LET n == ResetForRematch(r, over)
           IN  /\ n.phase = "LOBBY" /\ n.round = 0 /\ n.wins = [g \in Guests |-> 0]
               /\ n.result = NoResult
<1> DEFINE fresh == [ClearTimers(r) EXCEPT
                       !.match = @ + 1,
                       !.phase = "LOBBY",
                       !.round = 0,
                       !.board = 0,
                       !.expired = FALSE,
                       !.result = NoResult,
                       !.ready = [g \in Guests |-> FALSE],
                       !.rematch = [g \in Guests |-> FALSE],
                       !.wins = [g \in Guests |-> 0],
                       !.game = [g \in Guests |-> NoGame],
                       !.terminal = [g \in Guests |-> "NONE"]]
           n == CreateReplay(fresh)
<1>1. /\ fresh.phase = "LOBBY" /\ fresh.round = 0 /\ fresh.wins = [g \in Guests |-> 0]
      /\ fresh.result = NoResult
  BY DEF ClearTimers, RoomType
<1>2. /\ n.phase = fresh.phase /\ n.round = fresh.round /\ n.wins = fresh.wins
      /\ n.result = fresh.result
  BY <1>1 DEF CreateReplay, ClearTimers, RoomType
<1> HIDE DEF n, fresh
<1>3. Record(n, "REMATCH_STARTED", over) = n
  BY OverflowAssumption DEF Record, Events
<1> QED BY <1>1, <1>2, <1>3 DEF ResetForRematch, n, fresh

LEMMA HandleRematchMoves ==
    ASSUME Inv, NEW g \in Guests, HandleRematch(g)
    PROVE  Moves(room, room')
<1> DEFINE d == [room EXCEPT !.rematch[g] = TRUE, !.phase = "REMATCH"]
           a == Arm(d, "rematch")
<1>1. PICK over \in Overflows :
        LET logged == Record(d, "REMATCH_REQUESTED", over)
        IN room' = IF Unavailable(logged) THEN logged
                   ELSE IF \A h \in logged.players : logged.rematch[h]
                        THEN ResetForRematch(logged, over)
                   ELSE IF logged.timer["rematch"] = "UNSET"
                        THEN Arm(logged, "rematch")
                   ELSE logged
  BY DEF HandleRematch
<1>2. /\ room \in RoomType /\ room.phase \in {"MATCH_RESULT", "REMATCH"}
      /\ room.replay[room.match] # "ACTIVE" /\ room.match < MaxMatches
  BY ConsistentFacts DEF Inv, HandleRematch, Open
<1>3. /\ d \in RoomType /\ d.phase = "REMATCH" /\ d.match = room.match
      /\ d.replay = room.replay /\ d.result = room.result /\ SameScore(room, d)
  BY <1>2 DEF RoomType, Phases, SameScore
<1>4. a.phase = "REMATCH" /\ a.result = room.result /\ SameScore(room, a)
  BY <1>2 DEF Arm, RoomType, SameScore
<1> HIDE DEF d, a
<1>5. Record(d, "REMATCH_REQUESTED", over) = d
  BY <1>2, <1>3, RecordAfterDecision
<1>6. /\ ResetForRematch(d, over).phase = "LOBBY" /\ ResetForRematch(d, over).round = 0
      /\ ResetForRematch(d, over).wins = [h \in Guests |-> 0]
      /\ ResetForRematch(d, over).result = NoResult
  BY <1>2, <1>3, ResetForRematchShown
<1>7. NoResult.winner = NoGuest BY DEF NoResult
<1>8. room' \in {d, a, ResetForRematch(d, over)}
  BY <1>1, <1>5 DEF a
<1>9. StageOf(room.phase) = "DECIDED" /\ StageOf("REMATCH") = "DECIDED"
  BY <1>2 DEF StageOf
<1> QED BY <1>2, <1>3, <1>4, <1>6, <1>7, <1>8, <1>9 DEF Moves, Rests, Restarts

(* A set of two without one of its members has one.                        *)
LEMMA OtherOfTwo ==
    ASSUME NEW S, IsFiniteSet(S), Cardinality(S) = 2, NEW x \in S
    PROVE  \A g, h \in S \ {x} : g = h
<1>1. IsFiniteSet(S \ {x}) /\ Cardinality(S \ {x}) = 1
  BY FS_RemoveElement
<1>2. \E y : S \ {x} = {y}
  BY <1>1, FS_Singleton
<1> QED BY <1>2

(* The winner when a terminal window closes has earned it.                 *)
LEMMA TerminalWinnersEarned ==
    ASSUME NEW r, Settled(r), Both(r), \E g \in r.players : r.terminal[g] # "NONE"
    PROVE  Earned(r, TerminalWinners(r))
<1> DEFINE C == Complete(r)
           W == TerminalWinners(r)
<1>1. \A g \in r.players : r.terminal[g] \in {"NONE", "MINE", "COMPLETE"}
  BY DEF Settled, RoomType, Terminals
<1>2. IsFiniteSet(r.players)
  BY DEF Settled
<1>3. CASE \E g \in r.players : C = {g}
  BY <1>3 DEF TerminalWinners, Earned, Complete
<1>4. CASE C = {}
  <2>1. W = r.players \ Mined(r)
    BY <1>4 DEF TerminalWinners
  <2>2. PICK m \in r.players : r.terminal[m] = "MINE"
    BY <1>1, <1>4 DEF Complete
  <2>3. \A g, h \in r.players \ {m} : g = h
    BY <1>2, <2>2, OtherOfTwo DEF Both
  <2>4. W \subseteq r.players \ {m}
    BY <2>1, <2>2 DEF Mined
  <2>5. \A g \in W : r.terminal[g] # "MINE"
    BY <2>1 DEF Mined
  <2>6. \A h \in r.players : r.terminal[h] # "COMPLETE"
    BY <1>4 DEF Complete
  <2> HIDE DEF W
  <2> QED BY <2>3, <2>4, <2>5, <2>6 DEF Earned, W
<1>5. CASE ~(\E g \in r.players : C = {g}) /\ C # {}
  BY <1>5 DEF TerminalWinners, Earned
<1> QED BY <1>3, <1>4, <1>5

(* So has the one who is ahead when time runs out and nobody has ended.    *)
LEMMA ProgressWinnersEarned ==
    ASSUME NEW r \in RoomType, \A g \in r.players : r.terminal[g] = "NONE"
    PROVE  Earned(r, ProgressWinners(r))
<1>1. \A g \in r.players : r.game[g] \in Int
  BY BoardAssumption DEF RoomType, NoGame
<1>2. ProgressWinners(r) \subseteq r.players
  BY DEF ProgressWinners
<1>3. \A g, h \in ProgressWinners(r) : g = h
  <2> SUFFICES ASSUME NEW g \in ProgressWinners(r), NEW h \in ProgressWinners(r), g # h
               PROVE  FALSE
    OBVIOUS
  <2>1. g \in r.players /\ h \in r.players /\ r.game[g] > r.game[h] /\ r.game[h] > r.game[g]
    BY DEF ProgressWinners
  <2> QED BY <1>1, <2>1
<1> QED BY <1>2, <1>3 DEF Earned

(* finishRound counts the win and goes on, or decides the match, as        *)
(* promised.                                                               *)
LEMMA FinishRoundEnds ==
    ASSUME NEW r, Live(r), NEW winners \in SUBSET r.players, NEW over,
           r.phase = "ACTIVE", \A g \in Guests : r.wins[g] < WinsNeeded
    PROVE  Ends(r, FinishRound(r, winners, over), winners)
<1> DEFINE c == ClearRoundTimers(r)
           scored == [c EXCEPT !.wins = Tally(r, winners)]
           logged == Record(scored, "ROUND_RESULT", over)
           next == [scored EXCEPT !.phase = "ROUND_RESULT",
                                  !.ready = [g \in Guests |-> FALSE],
                                  !.terminal = [g \in Guests |-> "NONE"]]
<1>1. r \in RoomType /\ r.result = NoResult BY DEF Live, InProgress, Settled
<1>2. c \in RoomType /\ c = [r EXCEPT !.timer = c.timer] /\ c.timer["rematch"] = r.timer["rematch"]
  BY <1>1, ClearRoundTimersFacts
<1>3. [c EXCEPT !.wins = [g \in Guests |-> IF g \in winners THEN @[g] + 1 ELSE @[g]]] = scored
  <2>1. c.wins = r.wins
    <3> HIDE DEF c
    <3> QED BY <1>1, <1>2 DEF RoomType
  <2> QED BY <2>1 DEF Tally
<1>4. Tally(r, winners) \in [Guests -> 0 .. WinsNeeded]
  <2>1. \A g \in Guests : r.wins[g] \in 0 .. WinsNeeded
    BY <1>1 DEF RoomType
  <2> QED BY <2>1, RoundAssumption DEF Tally
<1>5. /\ scored \in RoomType /\ scored.phase = "ACTIVE" /\ scored.result = NoResult
      /\ scored.players = r.players /\ scored.match = r.match /\ scored.replay = r.replay
      /\ scored.round = r.round /\ scored.wins = Tally(r, winners)
      /\ scored.connected = r.connected /\ scored.ready = r.ready
      /\ scored.rematch = r.rematch /\ scored.timer["rematch"] = r.timer["rematch"]
      /\ scored.total = r.total /\ scored.cursor = r.cursor /\ scored.board = r.board
  <2> HIDE DEF c
  <2> QED BY <1>1, <1>2, <1>4 DEF RoomType
<1>6. /\ next.phase = "ROUND_RESULT" /\ next.result = NoResult
      /\ next.round = r.round /\ next.wins = Tally(r, winners)
  <2> HIDE DEF c, scored
  <2> QED BY <1>5 DEF RoomType
<1> HIDE DEF c, scored, next
<1>7. ~Unavailable(scored)
  BY <1>5 DEF Live, Unavailable
<1>8. \/ logged = scored
      \/ /\ logged.phase = "MATCH_RESULT" /\ logged.result = NoContest("REPLAY_BUDGET_EXCEEDED")
         /\ SameScore(scored, logged)
  BY <1>5, RecordScore DEF Open
<1>9. /\ NoContest("REPLAY_BUDGET_EXCEEDED").winner = NoGuest
      /\ NoContest("FIVE_ROUND_LIMIT").winner = NoGuest
      /\ NoContest("FIVE_ROUND_LIMIT") \in Results /\ NoResult.winner = NoGuest
  BY ResultFacts DEF NoContest, NoResult, Reasons
<1>10. Leaders(scored.wins) = Champions(scored)
  <2>1. \A g \in Guests \ r.players : scored.wins[g] = r.wins[g]
    BY <1>5 DEF Tally
  <2>2. \A g \in Guests : r.wins[g] \in Int /\ ~(r.wins[g] >= WinsNeeded)
    BY <1>1, RoundAssumption DEF RoomType
  <2> QED BY <1>1, <1>5, <2>1, <2>2 DEF Leaders, Champions, RoomType
<1>11. r.round \in Int /\ RoundsPerMatch \in Int
  BY <1>1, RoundAssumption DEF RoomType
<1>12. CASE logged # scored
  <2>1. Live(scored)
    BY <1>5 DEF Live, InProgress, Settled, Open
  <2>2. Unavailable(logged)
    BY <1>12, <2>1, RecordDecides
  <2>3. FinishRound(r, winners, over) = logged
    BY <1>3, <2>2 DEF FinishRound, c
  <2> QED BY <1>5, <1>8, <1>9, <1>12, <2>3 DEF Ends, SameScore
<1>13. CASE logged = scored
  <2>1. CASE Champions(scored) # {}
    <3> DEFINE champion == CHOOSE g \in Champions(scored) : TRUE
    <3>1. champion \in Champions(scored) /\ champion \in Guests
      BY <1>10, <2>1 DEF Leaders
    <3>2. FinishRound(r, winners, over) = FinishMatch(scored, Won(champion, "FIRST_TO_TWO"), over)
      BY <1>3, <1>7, <1>13, <2>1 DEF FinishRound, c
    <3> HIDE DEF champion
    <3>3. Won(champion, "FIRST_TO_TWO") \in Results /\ Won(champion, "FIRST_TO_TWO").winner = champion
      BY <3>1, ResultFacts DEF Won, Reasons
    <3>4. LET f == FinishMatch(scored, Won(champion, "FIRST_TO_TWO"), over)
          IN  f.phase = "MATCH_RESULT" /\ f.result = Won(champion, "FIRST_TO_TWO") /\ SameScore(scored, f)
      BY <1>5, <3>3, FinishMatchScore DEF Open
    <3> QED BY <1>5, <1>10, <3>1, <3>2, <3>3, <3>4 DEF Ends, SameScore
  <2>2. CASE Champions(scored) = {} /\ MatchExhausted(scored)
    <3>1. FinishRound(r, winners, over) = FinishMatch(scored, NoContest("FIVE_ROUND_LIMIT"), over)
      BY <1>3, <1>7, <1>13, <2>2 DEF FinishRound, c
    <3>2. LET f == FinishMatch(scored, NoContest("FIVE_ROUND_LIMIT"), over)
          IN  f.phase = "MATCH_RESULT" /\ f.result = NoContest("FIVE_ROUND_LIMIT") /\ SameScore(scored, f)
      BY <1>5, <1>9, FinishMatchScore DEF Open
    <3> QED BY <1>5, <1>9, <1>10, <2>2, <3>1, <3>2 DEF Ends, SameScore, MatchExhausted
  <2>3. CASE Champions(scored) = {} /\ ~MatchExhausted(scored)
    <3>1. FinishRound(r, winners, over) = next
      BY <1>3, <1>7, <1>13, <2>3 DEF FinishRound, c, next
    <3> QED BY <1>5, <1>6, <1>9, <1>10, <1>11, <2>3, <3>1 DEF Ends, MatchExhausted
  <2> QED BY <2>1, <2>2, <2>3
<1> QED BY <1>12, <1>13

(* Time ends a round, unless a player has ended it already.                *)
LEMMA SettleTimeoutMoves ==
    ASSUME NEW r, Consistent(r), r.phase = "ACTIVE", NEW timer \in [Timers -> TimerState],
           timer["terminal"] = r.timer["terminal"], timer["rematch"] = r.timer["rematch"],
           NEW over
    PROVE  Moves(r, SettleTimeout([r EXCEPT !.timer = timer], over))
<1> DEFINE f == [r EXCEPT !.timer = timer]
<1>1. r \in RoomType BY ConsistentFacts
<1>2. /\ f \in RoomType /\ f.phase = "ACTIVE" /\ f.result = r.result /\ f.match = r.match
      /\ f.replay = r.replay /\ f.players = r.players /\ f.connected = r.connected
      /\ f.ready = r.ready /\ f.rematch = r.rematch /\ f.wins = r.wins /\ f.round = r.round
      /\ f.total = r.total /\ f.cursor = r.cursor /\ f.board = r.board /\ f.game = r.game
      /\ f.terminal = r.terminal /\ f.timer = timer
  BY <1>1 DEF RoomType
<1> HIDE DEF f
<1>3. Live(f) /\ \A g \in Guests : f.wins[g] < WinsNeeded
  BY <1>2, ActiveFacts DEF Live, InProgress, Settled
<1>4. \/ SettleTimeout(f, over) = f
      \/ SettleTimeout(f, over) = FinishRound(f, ProgressWinners(f), over) /\ ~TerminalPending(f)
  BY DEF SettleTimeout
<1>5. CASE SettleTimeout(f, over) = f
  BY <1>2, <1>5 DEF Moves, Rests, SameScore, f
<1>6. CASE SettleTimeout(f, over) = FinishRound(f, ProgressWinners(f), over) /\ ~TerminalPending(f)
  <2>1. \A g \in f.players : f.terminal[g] = "NONE"
    BY <1>2, <1>6, ActiveFacts DEF TerminalPending
  <2>2. Earned(f, ProgressWinners(f))
    BY <1>2, <2>1, ProgressWinnersEarned
  <2>3. Ends(f, FinishRound(f, ProgressWinners(f), over), ProgressWinners(f))
    BY <1>2, <1>3, <2>2, FinishRoundEnds DEF Earned
  <2>4. Earned(r, ProgressWinners(f))
    BY <1>2, <2>2 DEF Earned
  <2>5. Ends(r, SettleTimeout(f, over), ProgressWinners(f))
    BY <1>2, <1>6, <2>3 DEF Ends, Tally
  <2> QED BY <2>4, <2>5 DEF Moves, f
<1> QED BY <1>4, <1>5, <1>6

LEMMA BoardActionExpiredMoves ==
    ASSUME Inv, NEW g \in Guests, BoardActionExpired(g)
    PROVE  Moves(room, room')
<1>1. Consistent(room) /\ room \in RoomType /\ room.phase = "ACTIVE"
  BY ConsistentFacts DEF Inv, BoardActionExpired, Playing
<1>2. [room EXCEPT !.timer = room.timer] = room /\ room.timer \in [Timers -> TimerState]
  BY <1>1 DEF RoomType
<1>3. \A over : Moves(room, SettleTimeout([room EXCEPT !.timer = room.timer], over))
  BY <1>1, <1>2, SettleTimeoutMoves
<1> QED BY <1>2, <1>3 DEF BoardActionExpired

LEMMA FireRoundMoves ==
    ASSUME Inv, FireRound
    PROVE  Moves(room, room')
<1> DEFINE t == [room.timer EXCEPT !["round"] = "FIRED"]
<1>1. room \in RoomType /\ Consistent(room) /\ room.phase = "ACTIVE"
  BY ConsistentFacts DEF Inv, FireRound, Consistent, NotStray
<1>2. t \in [Timers -> TimerState] /\ t["terminal"] = room.timer["terminal"]
      /\ t["rematch"] = room.timer["rematch"]
  BY <1>1 DEF RoomType, Timers, TimerState
<1>3. Fired(room, "round") = [room EXCEPT !.timer = t]
  BY DEF Fired
<1> HIDE DEF t
<1>4. \A over : Moves(room, SettleTimeout([room EXCEPT !.timer = t], over))
  BY <1>1, <1>2, SettleTimeoutMoves
<1> QED BY <1>3, <1>4 DEF FireRound

LEMMA FireTerminalMoves ==
    ASSUME Inv, FireTerminal
    PROVE  Moves(room, room')
<1> DEFINE f == Fired(room, "terminal")
<1>1. PICK over \in Overflows : room' = SettleTerminal(f, over)
  BY DEF FireTerminal
<1>2. room \in RoomType /\ Consistent(room) /\ room.phase = "ACTIVE"
      /\ room.timer["terminal"] = "ARMED"
  BY ConsistentFacts DEF Inv, FireTerminal, Consistent, NotStray
<1>3. /\ f \in RoomType /\ f = [room EXCEPT !.timer = f.timer]
      /\ \A t \in Timers \ {"terminal"} : f.timer[t] = room.timer[t]
  BY <1>2 DEF Fired, RoomType, Timers, TimerState
<1>4. /\ f.phase = "ACTIVE" /\ f.result = room.result /\ f.match = room.match
      /\ f.replay = room.replay /\ f.players = room.players /\ f.connected = room.connected
      /\ f.ready = room.ready /\ f.rematch = room.rematch /\ f.wins = room.wins
      /\ f.round = room.round /\ f.total = room.total /\ f.cursor = room.cursor
      /\ f.board = room.board /\ f.terminal = room.terminal
  BY <1>2, <1>3 DEF RoomType
<1> HIDE DEF f
<1>5. Live(f) /\ Both(f)
      /\ (\A g \in Guests : f.wins[g] < WinsNeeded)
      /\ \E g \in f.players : f.terminal[g] # "NONE"
  BY <1>2, <1>3, <1>4, ActiveFacts DEF Live, InProgress, Settled, Both, Timers, TerminalPending
<1>6. Earned(f, TerminalWinners(f))
  BY <1>5, TerminalWinnersEarned DEF Live, InProgress
<1>7. Ends(f, FinishRound(f, TerminalWinners(f), over), TerminalWinners(f))
  BY <1>4, <1>5, <1>6, FinishRoundEnds DEF Earned
<1>8. room' = FinishRound(f, TerminalWinners(f), over)
  BY <1>1, <1>4, <1>5 DEF SettleTerminal, Both
<1>9. Earned(room, TerminalWinners(f))
  BY <1>4, <1>6 DEF Earned
<1>10. Ends(room, room', TerminalWinners(f))
  BY <1>2, <1>4, <1>7, <1>8 DEF Ends, Tally
<1> QED BY <1>9, <1>10 DEF Moves

(* A board action ends a round for its player at most, not for the match.  *)
LEMMA BoardActionMoves ==
    ASSUME Inv, NEW g \in Guests, NEW d \in Deltas, BoardAction(g, d)
    PROVE  Moves(room, room')
<1> DEFINE p == [room EXCEPT !.game[g] = @ + d.gained]
<1>1. PICK over \in Overflows, now \in BOOLEAN :
        LET logged == Record(p, "ACTION", over)
        IN room' = IF logged.phase # "ACTIVE" \/ ~d.accepted THEN logged
                   ELSE MarkTerminal(ScheduleProgress(logged, now), g, d)
  BY DEF BoardAction
<1>2. /\ room \in RoomType /\ Consistent(room) /\ room.phase = "ACTIVE"
      /\ g \in room.players /\ room.game[g] # NoGame
      /\ room.game[g] + d.gained <= Full /\ d.gained \in 0 .. Full
  BY ConsistentFacts DEF Inv, BoardAction, Playing, Admitted, LegalDelta, Deltas
<1>3. room.game[g] + d.gained \in NoGame .. Full
  <2>1. room.game[g] \in NoGame .. Full
    BY <1>2 DEF RoomType
  <2> QED BY <1>2, <2>1, BoardAssumption DEF NoGame
<1>4. /\ p \in RoomType /\ p.phase = "ACTIVE" /\ p.result = room.result /\ p.match = room.match
      /\ p.replay = room.replay /\ SameScore(room, p)
  BY <1>2, <1>3 DEF RoomType, SameScore
<1> HIDE DEF p
<1> DEFINE logged == Record(p, "ACTION", over)
<1>5. Moves(room, logged) /\ (logged = p \/ logged.phase = "MATCH_RESULT")
  BY <1>2, <1>4, RecordMoves
<1> HIDE DEF logged
<1>6. CASE logged.phase # "ACTIVE" \/ ~d.accepted
  BY <1>1, <1>5, <1>6 DEF logged
<1>7. CASE logged.phase = "ACTIVE" /\ d.accepted
  <2>1. room' = MarkTerminal(ScheduleProgress(p, now), g, d)
    BY <1>1, <1>5, <1>7 DEF logged
  <2> DEFINE q == ScheduleProgress(p, now)
  <2>2. q \in RoomType /\ q.phase = "ACTIVE" /\ q.result = room.result /\ SameScore(room, q)
    BY <1>4 DEF ScheduleProgress, Arm, RoomType, Timers, TimerState, SameScore
  <2> HIDE DEF q
  <2>3. room'.phase = "ACTIVE" /\ room'.result = room.result /\ SameScore(room, room')
    BY <2>1, <2>2 DEF MarkTerminal, ScheduleTerminalSettlement, Arm, RoomType, SameScore, q
  <2> QED BY <1>2, <2>3 DEF Moves, Rests
<1> QED BY <1>6, <1>7

LEMMA FireCountdownMoves ==
    ASSUME Inv, FireCountdown
    PROVE  Moves(room, room')
<1> DEFINE f == Fired(room, "countdown")
           opened == [f EXCEPT
                        !.phase = "ACTIVE",
                        !.expired = FALSE,
                        !.game = [g \in Guests |-> IF g \in f.players THEN Opening ELSE NoGame]]
<1>1. PICK over \in Overflows : room' = ActivateRound(f, over)
  BY DEF FireCountdown
<1>2. room \in RoomType /\ Consistent(room) /\ room.phase = "COUNTDOWN" /\ room.result = NoResult
  BY ConsistentFacts DEF Inv, FireCountdown, Consistent, NotStray, Replayed, Open
<1>3. f \in RoomType /\ f.phase = "COUNTDOWN" /\ f.result = NoResult /\ SameScore(room, f)
  BY <1>2 DEF Fired, RoomType, Timers, TimerState, SameScore
<1> HIDE DEF f
<1>4. [g \in Guests |-> IF g \in f.players THEN Opening ELSE NoGame] \in [Guests -> NoGame .. Full]
  BY BoardAssumption DEF NoGame, Opening
<1>5. opened \in RoomType /\ opened.phase = "ACTIVE" /\ opened.result = NoResult
      /\ SameScore(room, opened)
  BY <1>3, <1>4 DEF RoomType, Phases, SameScore
<1> DEFINE logged == Record(opened, "ROUND_ACTIVE", over)
<1>6. room' \in {f, logged, Arm(logged, "round")}
      /\ (Unavailable(logged) => room' \in {f, logged})
  BY <1>1 DEF ActivateRound
<1>7. Live(opened)
  <2>1. Live(f)
    BY <1>2, <1>3, ConsistentFacts DEF Live, InProgress, Settled, RoomType, Fired, Timers, Open, f
  <2> QED BY <1>3, <1>5, <2>1 DEF Live, InProgress, Settled, Open, RoomType
<1> HIDE DEF opened
<1>8. \/ logged = opened
      \/ /\ logged.phase = "MATCH_RESULT" /\ Unavailable(logged)
         /\ logged.result = NoContest("REPLAY_BUDGET_EXCEEDED") /\ SameScore(opened, logged)
  <2>1. logged = opened \/ Unavailable(logged)
    BY <1>7, RecordDecides
  <2> QED BY <1>5, <2>1, RecordScore DEF Open
<1>9. NoContest("REPLAY_BUDGET_EXCEEDED").winner = NoGuest /\ NoResult.winner = NoGuest
  BY DEF NoContest, NoResult
<1>10. room.round \in 0 .. RoundsPerMatch BY <1>2 DEF RoomType
<1>11. CASE room' = f
  BY <1>2, <1>3, <1>11 DEF Moves, Rests, SameScore
<1>12. CASE logged = opened /\ room' \in {logged, Arm(logged, "round")}
  <2>1. room'.phase = "ACTIVE" /\ room'.result = NoResult /\ SameScore(room, room')
    BY <1>5, <1>12 DEF Arm, RoomType, SameScore
  <2> QED BY <1>2, <2>1 DEF Moves, Rests, StageOf
<1>13. CASE logged # opened /\ room' = logged
  BY <1>2, <1>5, <1>8, <1>9, <1>10, <1>13 DEF Moves, Abandons, SameScore, Open
<1> HIDE DEF logged
<1> QED BY <1>6, <1>8, <1>11, <1>12, <1>13

LEMMA FireRematchMoves ==
    ASSUME Inv, FireRematch
    PROVE  Moves(room, room')
<1>1. room \in RoomType /\ room.phase = "REMATCH"
  BY ConsistentFacts DEF Inv, FireRematch, Consistent, NotStray
<1>2. room' = [room EXCEPT !.timer["rematch"] = "UNSET", !.phase = "MATCH_RESULT",
                           !.rematch = [g \in Guests |-> FALSE]]
  BY <1>1 DEF FireRematch, ExpireRematch
<1>3. room'.phase = "MATCH_RESULT" /\ room'.result = room.result /\ SameScore(room, room')
  BY <1>1, <1>2 DEF RoomType, SameScore
<1> QED BY <1>1, <1>3 DEF Moves, Rests, StageOf

(* The clock moves nothing, and a room that is closed stays as it was.     *)
LEMMA QuietMoves ==
    ASSUME Inv, DeadlinePasses \/ FireProgress \/ Sweep \/ Shutdown \/ UNCHANGED room
    PROVE  Moves(room, room')
<1>1. room \in RoomType BY ConsistentFacts DEF Inv
<1>2. CASE DeadlinePasses \/ FireProgress \/ UNCHANGED room
  <2>1. room'.phase = room.phase /\ room'.result = room.result /\ SameScore(room, room')
    BY <1>1, <1>2 DEF DeadlinePasses, FireProgress, RoomType, SameScore
  <2> QED BY <2>1 DEF Moves, Rests
<1>3. CASE Sweep \/ Shutdown
  <2>1. room.phase # "CLOSED" /\ room' = Close(room)
    BY <1>3 DEF Sweep, Shutdown, Reachable
  <2>2. room'.phase = "CLOSED" /\ room'.result = room.result /\ SameScore(room, room')
    BY <1>1, <2>1 DEF Close, ClearTimers, RoomType, SameScore
  <2> QED BY <2>1, <2>2 DEF Moves, Stops
<1> QED BY <1>2, <1>3

LEMMA NextMoves == Inv /\ [Next]_room => Moves(room, room')
<1> SUFFICES ASSUME Inv, [Next]_room PROVE Moves(room, room')
  OBVIOUS
<1>1. ASSUME NEW g \in Guests, AddPlayer(g) PROVE Moves(room, room')
  BY <1>1, AddPlayerMoves
<1>2. ASSUME NEW g \in Guests, HandleReady(g) PROVE Moves(room, room')
  BY <1>2, HandleReadyMoves
<1>3. ASSUME NEW g \in Guests, HandleRematch(g) PROVE Moves(room, room')
  BY <1>3, HandleRematchMoves
<1>4. ASSUME NEW g \in Guests, BoardActionExpired(g) PROVE Moves(room, room')
  BY <1>4, BoardActionExpiredMoves
<1>5. ASSUME NEW g \in Guests, NEW e \in 1 .. MaxEpoch, Connect(g, e) PROVE Moves(room, room')
  BY <1>5, ConnectMoves
<1>6. ASSUME NEW g \in Guests, NEW e \in 1 .. MaxEpoch, Disconnect(g, e) PROVE Moves(room, room')
  BY <1>6, DisconnectMoves
<1>7. ASSUME NEW g \in Guests, NEW d \in Deltas, BoardAction(g, d) PROVE Moves(room, room')
  BY <1>7, BoardActionMoves
<1>8. CASE FireCountdown
  BY <1>8, FireCountdownMoves
<1>9. CASE FireRound
  BY <1>9, FireRoundMoves
<1>10. CASE FireTerminal
  BY <1>10, FireTerminalMoves
<1>11. CASE FireRematch
  BY <1>11, FireRematchMoves
<1>12. CASE DeadlinePasses \/ FireProgress \/ Sweep \/ Shutdown \/ UNCHANGED room
  BY <1>12, QuietMoves
<1> QED BY <1>1, <1>2, <1>3, <1>4, <1>5, <1>6, <1>7, <1>8, <1>9, <1>10, <1>11, <1>12 DEF Next

(* A round that ends is a step of the match: with the win of whoever has   *)
(* earned it, void when the replay's budget is spent.                      *)
LEMMA EndsIsEndRound ==
    ASSUME NEW winners, Earned(room, winners), Ends(room, room', winners),
           room \in RoomType
    PROVE  Match!EndRound(winners, room'.phase = "MATCH_RESULT" /\ room'.result.winner = NoGuest)
<1> DEFINE void == room'.phase = "MATCH_RESULT" /\ room'.result.winner = NoGuest
<1>1. Leaders(room'.wins) \subseteq Guests /\ NoGuest \notin Guests
  BY GuestAssumption DEF Leaders
<1>2. room.round \in Int /\ RoundsPerMatch \in Int
  BY RoundAssumption DEF RoomType
<1>3. Stage = "ROUND" /\ \A g, o \in winners : g = o
  BY DEF Ends, Earned, Stage
<1>4. /\ room'.round = room.round
      /\ room'.wins = [g \in Guests |-> IF g \in winners THEN room.wins[g] + 1 ELSE room.wins[g]]
  BY DEF Ends, Tally
<1>5. Stage' = IF void \/ Leaders(room'.wins) # {} \/ room.round >= RoundsPerMatch
               THEN "DECIDED" ELSE "IDLE"
  BY <1>1, <1>2 DEF Ends, Stage
<1>6. IF void \/ Leaders(room'.wins) = {} THEN room'.result.winner = NoGuest
      ELSE room'.result.winner \in Leaders(room'.wins)
  BY <1>1 DEF Ends
<1> QED BY <1>3, <1>4, <1>5, <1>6 DEF Match!EndRound, Leaders

(* What a step does to the match, the abstract match may do.               *)
LEMMA MovesImplementMatch ==
    ASSUME Inv, Moves(room, room')
    PROVE  [Match!Next]_(Match!vars)
<1>1. room \in RoomType /\ room.phase \in Phases
  BY ConsistentFacts DEF Inv
<1>2. CASE Rests(room, room')
  <2>1. Stage' = Stage
    BY <1>2 DEF Rests, StageOf, Stage
  <2> QED BY <1>2, <2>1 DEF Rests, SameScore, Match!vars
<1>3. CASE Deals(room, room')
  <2>1. Match!Deal
    BY <1>3 DEF Deals, Match!Deal, Stage
  <2> QED BY <2>1 DEF Match!Next
<1>4. CASE Abandons(room, room')
  <2>1. Stage \in {"IDLE", "ROUND"} /\ Stage' = "DECIDED"
    BY <1>4 DEF Abandons, Open, Stage
  <2>2. Match!Abandon
    BY <1>4, <2>1 DEF Abandons, Match!Abandon
  <2> QED BY <2>2 DEF Match!Next
<1>5. CASE \E winners : Earned(room, winners) /\ Ends(room, room', winners)
  <2>1. PICK winners : Earned(room, winners) /\ Ends(room, room', winners)
    BY <1>5
  <2>2. Match!EndRound(winners, room'.phase = "MATCH_RESULT" /\ room'.result.winner = NoGuest)
    BY <1>1, <2>1, EndsIsEndRound
  <2>3. winners \in SUBSET Guests
    BY <1>1, <2>1 DEF Earned, RoomType
  <2> QED BY <2>2, <2>3 DEF Match!Next
<1>6. CASE Restarts(room, room')
  <2>1. Match!Rematch
    BY <1>6 DEF Restarts, Match!Rematch, Match!Fresh, Stage
  <2> QED BY <2>1 DEF Match!Next
<1>7. CASE Stops(room, room')
  <2>1. Stage # "CLOSED" /\ Stage' = "CLOSED"
    BY <1>1, <1>7 DEF Stops, Stage, Phases
  <2>2. Match!Stop
    BY <1>7, <2>1 DEF Stops, SameScore, Match!Stop
  <2> QED BY <2>2 DEF Match!Next
<1> QED BY <1>2, <1>3, <1>4, <1>5, <1>6, <1>7 DEF Moves

LEMMA MovesAreEarned ==
    ASSUME Inv, Moves(room, room'), NEW g \in Guests, room'.wins[g] > room.wins[g]
    PROVE  /\ room.terminal[g] # "MINE"
           /\ \A h \in room.players \ {g} : room.terminal[h] # "COMPLETE"
<1>1. room \in RoomType /\ room.wins[g] \in Nat
  BY ConsistentFacts DEF Inv, RoomType
<1>2. room'.wins # room.wins
  BY <1>1
<1>3. room'.wins # [h \in Guests |-> 0]
  BY <1>1
<1>4. PICK winners : Earned(room, winners) /\ Ends(room, room', winners)
  BY <1>2, <1>3 DEF Moves, Rests, Deals, Abandons, Restarts, Stops, SameScore
<1>5. g \in winners
  BY <1>1, <1>4 DEF Ends, Tally
<1> QED BY <1>4, <1>5 DEF Earned

-----------------------------------------------------------------------------
(* The theorems.                                                           *)

(* The fields of the room keep their types: in particular no match passes  *)
(* its round limit, no player the wins needed, no room its round limit.    *)
THEOREM TypeCorrect == Spec => []TypeOK
<1>1. Inv => TypeOK BY DEF Inv, Consistent, Settled, TypeOK
<1> QED BY <1>1, Consistency, PTL

(* A countdown, a round and a round result are only ever reached, and only *)
(* last, with two players online.                                          *)
THEOREM MatchesAreAttended == Spec => []MatchHasBothPlayers
<1>1. Inv => MatchHasBothPlayers
  BY DEF Inv, Consistent, Seated, MatchHasBothPlayers, Both
<1> QED BY <1>1, Consistency, PTL

(* Whatever the players and the replay's budget do, a countdown and a      *)
(* round in play have a timeout pending that ends them, and no timeout is  *)
(* pending outside the phase it was armed for.                             *)
THEOREM TimersAreRight == Spec => []TimersFitPhase
<1>1. Inv => RoundIsTimed
  BY DEF Inv, Consistent, Timed, RoundIsTimed
<1>2. Inv => NoStrayTimer
  BY DEF Inv, Consistent, NotStray, NoStrayTimer
<1> QED BY <1>1, <1>2, Consistency, PTL DEF TimersFitPhase

(* The replay of a match is open exactly while the match is undecided.     *)
THEOREM ReplaysFollowMatches == Spec => []ReplayFollowsMatch
<1>1. Inv => ReplayFollowsMatch
  BY DEF Inv, Consistent, Settled, Replayed, ReplayFollowsMatch, Undecided, Open, InMatch
<1> QED BY <1>1, Consistency, PTL

(* Rematch votes do not outlive the rematch window.                        *)
THEOREM VotesStayInWindow == Spec => []VotesBelongToWindow
<1>1. Inv => VotesBelongToWindow
  BY DEF Inv, Consistent, Voted, VotesBelongToWindow
<1> QED BY <1>1, Consistency, PTL

(* No board is dealt twice in a room and no more than the limit are dealt. *)
THEOREM BoardsAreDistinct == Spec => []BoardsNeverRepeat
<1>1. Inv => BoardsNeverRepeat
  BY RoundAssumption DEF Inv, Consistent, Settled, RoomType, BoardsNeverRepeat
<1> QED BY <1>1, Consistency, PTL

(* Rounds, wins and decisions of a room are those of a best-of-three match *)
(* between its guests, whatever connects, times out or overflows.          *)
THEOREM RoomImplementsMatch == Spec => ImplementsMatch
<1>1. Init => Match!Init
  BY DEF Init, NewRoom, NoResult, Stage, Match!Init, Match!Fresh
<1>2. Inv /\ [Next]_room => [Match!Next]_(Match!vars)
  BY NextMoves, MovesImplementMatch
<1> QED BY <1>1, <1>2, Consistency, PTL DEF Spec, ImplementsMatch, Match!Spec

(* Nobody wins a round with a mine, or against a completed board, in       *)
(* whatever order the two end and the clock runs out.                      *)
THEOREM WinsAreEarned == Spec => WinIsEarned
<1>1. Inv /\ [Next]_room =>
        \A g \in Guests : room'.wins[g] > room.wins[g] =>
            /\ room.terminal[g] # "MINE"
            /\ \A h \in room.players \ {g} : room.terminal[h] # "COMPLETE"
  BY NextMoves, MovesAreEarned
<1> QED BY <1>1, Consistency, PTL DEF Spec, WinIsEarned

=============================================================================
