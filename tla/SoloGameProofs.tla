----------------------------- MODULE SoloGameProofs -----------------------------
(***************************************************************************)
(* The solo game keeps what has ended, plays only boards that were waited  *)
(* for, records a replay that leads to the game on the screen, and has a   *)
(* coach that is never wrong, for boards, limits and modes of any size.    *)
(* The histories are whole, and their panels show them, for any limit and  *)
(* any games (at the end).                                                 *)
(***************************************************************************)
EXTENDS MCSoloGame, FiniteSetTheorems, SequenceTheorems, WellFoundedInduction, TLAPS

Outcomes == {"PLAYING", "WON", "LOST"}

(* A game has an outcome, a replay a sequence of events.                   *)
GameFits(g) == DOMAIN g = {"board", "sight", "outcome"} /\ g.outcome \in Outcomes
ReplayFits(r) ==
    /\ DOMAIN r = {"initial", "log", "last", "full"}
    /\ r.full \in BOOLEAN
    /\ \E S : r.log \in Seq(S)

(* What the check of a replay finds: a game, on recorded states.           *)
Finds(v, g) ==
    /\ DOMAIN v = {"game", "proven", "chain", "proofs"}
    /\ v.chain = TRUE /\ v.game = g

(* A replay that is not full tells a game.                                 *)
Tells(r, g, asks) == ~r.full => Finds(Verify(g.board, r, asks), g) /\ r.last = g
-----------------------------------------------------------------------------
(* The loops of the models as one definition: how a loop begins, and what    *)
(* its nth turn makes of what was reached.                                   *)
CellOf(n) == <<(n - 1) % Width, (n - 1) \div Width>>
Start(loop, a, b) ==
    IF loop = "QUEUE" THEN <<>>
    ELSE IF loop = "BATCH" THEN a
    ELSE [game |-> [board |-> b, sight |-> a.initial, outcome |-> "PLAYING"],
          proven |-> {}, chain |-> TRUE, proofs |-> TRUE]
Turn(loop, a, b, x, n) ==
    IF loop = "QUEUE"
    THEN IF a[n].tab = b[1] /\ a[n].op \in b[2] THEN x ELSE Append(x, a[n])
    ELSE IF loop = "BATCH"
    THEN IF CellOf(n) \in b THEN Coached(x, "AUTO_MARK", "FLAG", CellOf(n)) ELSE x
    ELSE Replayed(x, a.log[n], loop = "ASKS")
IsRun(f, m, loop, a, b) ==
    f = [n \in 0 .. m |-> IF n = 0 THEN Start(loop, a, b) ELSE Turn(loop, a, b, f[n - 1], n)]
RunOf(m, loop, a, b) == CHOOSE f : IsRun(f, m, loop, a, b)

LEMMA LeastOf ==
    ASSUME NEW S \in SUBSET Nat, S # {}
    PROVE  \E m \in S : \A n \in S : ~(n < m)
<1>1. PICK m \in S : \A y \in S : ~(<<y, m>> \in OpToRel(<, Nat))
    BY NatLessThanWellFounded, WFMin, Zenon
<1> QED BY <1>1 DEF OpToRel

LEMMA RunExists ==
    ASSUME NEW loop, NEW a, NEW b, NEW N \in Nat
    PROVE  \E f : IsRun(f, N, loop, a, b)
<1> DEFINE Bad == {m \in Nat : ~\E f : IsRun(f, m, loop, a, b)}
<1> SUFFICES ASSUME Bad # {} PROVE FALSE
    OBVIOUS
<1>1. PICK m \in Bad : \A n \in Bad : ~(n < m)
    <2>1. Bad \in SUBSET Nat
        OBVIOUS
    <2> HIDE DEF Bad
    <2> QED BY <2>1, LeastOf, Zenon
<1>2. CASE m = 0
    <2>1. IsRun([n \in 0 .. 0 |-> Start(loop, a, b)], 0, loop, a, b)
        BY DEF IsRun
    <2> QED BY <1>2, <2>1
<1>3. CASE m # 0
    <2>1. m - 1 \in Nat /\ m - 1 < m
        BY <1>3
    <2>2. m - 1 \notin Bad
        BY <1>1, <2>1
    <2>3. PICK f : IsRun(f, m - 1, loop, a, b)
        BY <2>1, <2>2
    <2> DEFINE g == [n \in 0 .. m |-> IF n = m THEN Turn(loop, a, b, f[m - 1], m) ELSE f[n]]
    <2>4. ASSUME NEW n \in 0 .. m
          PROVE  g[n] = IF n = 0 THEN Start(loop, a, b) ELSE Turn(loop, a, b, g[n - 1], n)
        <3>1. CASE n = m
            <4>1. g[n - 1] = f[m - 1]
                BY <2>1, <3>1
            <4> QED BY <3>1, <4>1, <1>3
        <3>2. CASE n # m
            <4>1. n \in 0 .. m - 1
                BY <3>2
            <4>2. f[n] = IF n = 0 THEN Start(loop, a, b) ELSE Turn(loop, a, b, f[n - 1], n)
                BY <2>3, <4>1 DEF IsRun
            <4>3. g[n] = f[n] /\ (n # 0 => g[n - 1] = f[n - 1])
                BY <3>2, <4>1
            <4> QED BY <4>2, <4>3
        <3> QED BY <3>1, <3>2
    <2>5. IsRun(g, m, loop, a, b)
        <3>1. g = [n \in 0 .. m |-> g[n]]
            OBVIOUS
        <3> HIDE DEF g
        <3> QED BY <2>4, <3>1 DEF IsRun
    <2> HIDE DEF g
    <2> QED BY <2>5
<1> QED BY <1>2, <1>3

LEMMA RunUnfolds ==
    ASSUME NEW loop, NEW a, NEW b, NEW N \in Nat
    PROVE  /\ RunOf(N, loop, a, b)[0] = Start(loop, a, b)
           /\ \A n \in 1 .. N : RunOf(N, loop, a, b)[n] = Turn(loop, a, b, RunOf(N, loop, a, b)[n - 1], n)
<1>1. IsRun(RunOf(N, loop, a, b), N, loop, a, b)
    BY RunExists DEF RunOf
<1> QED BY <1>1 DEF IsRun

LEMMA SizeIsNat == Width * Height \in Nat
BY SoloAssumption

LEMMA BatchIsRun ==
    ASSUME NEW x, NEW S
    PROVE  Batch(x, S) = RunOf(Width * Height, "BATCH", x, S)[Width * Height]
BY DEF Batch, Turn, Start, CellOf, IsRun, RunOf

Loop(asks) == IF asks THEN "ASKS" ELSE "ASKS_NOT"
First(r, b) ==
    [game |-> [board |-> b, sight |-> r.initial, outcome |-> "PLAYING"],
     proven |-> {}, chain |-> TRUE, proofs |-> TRUE]
LEMMA VerifyIsRun ==
    ASSUME NEW b, NEW r, NEW asks \in BOOLEAN
    PROVE  Verify(b, r, asks) = RunOf(Len(r.log), Loop(asks), r, b)[Len(r.log)]
<1>1. Loop(asks) \notin {"QUEUE", "BATCH"} /\ (Loop(asks) = "ASKS") = asks
    BY DEF Loop
<1> DEFINE Reads(f) == f = [n \in 0 .. Len(r.log) |-> IF n = 0 THEN First(r, b)
                                                  ELSE Replayed(f[n - 1], r.log[n], asks)]
<1>2. \A n, x : Turn(Loop(asks), r, b, x, n) = Replayed(x, r.log[n], asks)
    BY <1>1 DEF Turn
<1>3. Start(Loop(asks), r, b) = First(r, b)
    BY <1>1 DEF Start, First
<1>4. \A f : Reads(f) <=> IsRun(f, Len(r.log), Loop(asks), r, b)
    BY <1>2, <1>3 DEF IsRun
<1>5. (CHOOSE f : Reads(f)) = RunOf(Len(r.log), Loop(asks), r, b)
    <2> HIDE DEF Reads
    <2> QED BY <1>4 DEF RunOf
<1>6. Verify(b, r, asks) = (CHOOSE f : Reads(f))[Len(r.log)]
    BY Zenon DEF Verify, First
<1> QED BY <1>5, <1>6

(* What is checked of a replay that has one more event.                    *)
LEMMA VerifyFresh ==
    ASSUME NEW b, NEW r, NEW asks \in BOOLEAN, r.log = <<>>
    PROVE  Verify(b, r, asks) =
             [game |-> [board |-> b, sight |-> r.initial, outcome |-> "PLAYING"],
              proven |-> {}, chain |-> TRUE, proofs |-> TRUE]
<1>1. Len(r.log) = 0
    OBVIOUS
<1>2. Verify(b, r, asks) = RunOf(0, Loop(asks), r, b)[0]
    BY <1>1, VerifyIsRun
<1> QED BY <1>2, RunUnfolds DEF Start, Loop

LEMMA VerifyAppend ==
    ASSUME NEW b, NEW r, NEW s, NEW e, NEW asks \in BOOLEAN, ReplayFits(r),
           s.log = Append(r.log, e), s.initial = r.initial
    PROVE  Verify(b, s, asks) = Replayed(Verify(b, r, asks), e, asks)
<1> DEFINE N == Len(r.log)
           f == RunOf(N, Loop(asks), r, b)
           g == RunOf(N + 1, Loop(asks), s, b)
           Bad == {n \in 0 .. N : f[n] # g[n]}
<1>1. N \in Nat /\ Len(s.log) = N + 1 /\ s.log[N + 1] = e
        /\ \A n \in 1 .. N : s.log[n] = r.log[n]
    <2>1. PICK S : r.log \in Seq(S)
        BY DEF ReplayFits
    <2>2. r.log \in Seq(S \cup {e})
        BY <2>1
    <2> QED BY <2>2
<1>2. f[0] = Start(Loop(asks), r, b) /\ \A n \in 1 .. N : f[n] = Turn(Loop(asks), r, b, f[n - 1], n)
    BY <1>1, RunUnfolds
<1>3. /\ g[0] = Start(Loop(asks), s, b)
      /\ \A n \in 1 .. N + 1 : g[n] = Turn(Loop(asks), s, b, g[n - 1], n)
    <2>1. N + 1 \in Nat
        BY <1>1
    <2> QED BY <2>1, RunUnfolds
<1>4. Loop(asks) \notin {"QUEUE", "BATCH"} /\ (Loop(asks) = "ASKS") = asks
    BY DEF Loop
<1>5. Start(Loop(asks), r, b) = Start(Loop(asks), s, b)
    BY <1>4 DEF Start
<1>6. \A n, x : Turn(Loop(asks), r, b, x, n) = Replayed(x, r.log[n], asks)
           /\ Turn(Loop(asks), s, b, x, n) = Replayed(x, s.log[n], asks)
    BY <1>4 DEF Turn
<1> HIDE DEF f, g, N
<1>7. Bad = {}
    <2> SUFFICES ASSUME Bad # {} PROVE FALSE
        OBVIOUS
    <2>1. PICK m \in Bad : \A n \in Bad : ~(n < m)
        <3>1. Bad \in SUBSET Nat
            BY <1>1
        <3> HIDE DEF Bad
        <3> QED BY <3>1, LeastOf, Zenon
    <2>2. CASE m = 0
        BY <2>1, <2>2, <1>2, <1>3, <1>5
    <2>3. CASE m # 0
        <3>1. m \in 1 .. N /\ m - 1 \in 0 .. N /\ m - 1 < m /\ m \in 1 .. N + 1
            BY <1>1, <2>1, <2>3
        <3>2. f[m - 1] = g[m - 1]
            BY <2>1, <3>1
        <3>3. f[m] = Replayed(f[m - 1], r.log[m], asks)
            BY <3>1, <1>2, <1>6
        <3>4. g[m] = Replayed(g[m - 1], s.log[m], asks)
            BY <3>1, <1>3, <1>6
        <3>5. f[m] = g[m]
            BY <3>1, <3>2, <3>3, <3>4, <1>1
        <3> QED BY <2>1, <3>5
    <2> QED BY <2>2, <2>3
<1>8. f[N] = g[N]
    BY <1>1, <1>7
<1>9. g[N + 1] = Replayed(f[N], e, asks)
    <2>1. N + 1 \in 1 .. N + 1 /\ (N + 1) - 1 = N
        BY <1>1
    <2>2. g[N + 1] = Turn(Loop(asks), s, b, g[N], N + 1)
        BY <2>1, <1>3
    <2> QED BY <2>2, <1>1, <1>6, <1>8
<1>10. Verify(b, r, asks) = f[N] /\ Verify(b, s, asks) = g[N + 1]
    BY <1>1, VerifyIsRun DEF f, g, N
<1> QED BY <1>9, <1>10

-----------------------------------------------------------------------------
(* The board and the replay.                                               *)

LEMMA AfterKeeps ==
    ASSUME NEW g, NEW S, GameFits(g)
    PROVE  GameFits(After(g, S)) /\ After(g, S).board = g.board
BY DEF After, GameFits, Outcomes

LEMMA ResultKeeps ==
    ASSUME NEW g, NEW action, NEW c, NEW asks, GameFits(g)
    PROVE  GameFits(Result(g, action, c, asks)) /\ Result(g, action, c, asks).board = g.board
<1>1. \A S : GameFits(After(g, S)) /\ After(g, S).board = g.board
    BY AfterKeeps
<1> DEFINE h == [g EXCEPT !.sight = [d \in Cells |-> IF d = c THEN NextMark(g.sight[c], asks) ELSE g.sight[d]]]
<1>2. GameFits(h) /\ h.board = g.board
    BY DEF GameFits
<1> HIDE DEF h
<1>3. \/ Result(g, action, c, asks) \in {g, h}
      \/ \E S : Result(g, action, c, asks) = After(g, S)
    BY DEF Result, h
<1> QED
    BY <1>1, <1>2, <1>3

(* An event is written, and the hash of the state after it.                *)
Led(r, e, next) == [Recorded(r, e) EXCEPT !.last = next]

LEMMA RecordedKeeps ==
    ASSUME NEW r, NEW e, NEW next, ReplayFits(r), NEW s, s = Led(r, e, next)
    PROVE      /\ ReplayFits(s) /\ s.initial = r.initial /\ s.last = next
               /\ s.full \/ (~r.full /\ s.log = Append(r.log, e))
               /\ r.full => s.full
               /\ ReplayFits(Recorded(r, e)) /\ Recorded(r, e).last = r.last
               /\ Recorded(r, e).full = s.full /\ Recorded(r, e).log = s.log
               /\ Recorded(r, e).initial = s.initial
<1>1. PICK S : r.log \in Seq(S)
    BY DEF ReplayFits
<1>2. Append(r.log, e) \in Seq(S \cup {e})
    BY <1>1
<1>3. CASE Len(r.log) < ReplayLimit
    BY <1>1, <1>2, <1>3 DEF Led, Recorded, ReplayFits
<1>4. CASE ~(Len(r.log) < ReplayLimit)
    BY <1>1, <1>4 DEF Led, Recorded, ReplayFits
<1> QED
    BY <1>3, <1>4

LEMMA ReplayedPlayer ==
    ASSUME NEW v, NEW e, NEW asks, NEW g, Finds(v, g), e.type = "PLAYER_ACTION", e.pre = g
    PROVE  Finds(Replayed(v, e, asks), Result(g, e.action, e.cell, asks))
<1>1. PICK next : next = Result(g, e.action, e.cell, asks)
    OBVIOUS
<1>2. \E p : Replayed(v, e, asks) = [v EXCEPT !.game = next, !.chain = TRUE, !.proven = p]
    BY <1>1 DEF Replayed, Finds
<1> QED
    BY <1>1, <1>2 DEF Finds

LEMMA ReplayedCoach ==
    ASSUME NEW v, NEW e, NEW asks, NEW g, Finds(v, g), e.type = "COACH_ACTION", e.pre = g
    PROVE  Finds(Replayed(v, e, asks),
                 Result(g, IF e.action = "REVEAL" THEN "REVEAL" ELSE "TOGGLE_FLAG", e.cell, FALSE))
<1>1. PICK next : next = Result(g, IF e.action = "REVEAL" THEN "REVEAL" ELSE "TOGGLE_FLAG", e.cell, FALSE)
    OBVIOUS
<1>2. \E p, q : Replayed(v, e, asks) = [v EXCEPT !.game = next, !.chain = TRUE, !.proofs = q, !.proven = p]
    BY <1>1 DEF Replayed, Finds
<1> QED
    BY <1>1, <1>2 DEF Finds

LEMMA ReplayedShown ==
    ASSUME NEW v, NEW e, NEW asks, NEW g, Finds(v, g), e.type = "ASSISTANCE_SHOWN"
    PROVE  Finds(Replayed(v, e, asks), g)
<1>1. \E q : Replayed(v, e, asks) = [v EXCEPT !.proofs = q]
    BY DEF Replayed
<1> QED
    BY <1>1 DEF Finds

LEMMA TellsNext ==
    ASSUME NEW r, NEW g, NEW asks \in BOOLEAN, NEW e, NEW next, ReplayFits(r),
           Tells(r, g, asks), next.board = g.board,
           \A v : Finds(v, g) /\ r.last = g => Finds(Replayed(v, e, asks), next)
    PROVE  ReplayFits(Led(r, e, next)) /\ Tells(Led(r, e, next), next, asks)
<1>1. PICK s : s = Led(r, e, next)
    OBVIOUS
<1>2. /\ ReplayFits(s) /\ s.initial = r.initial /\ s.last = next
      /\ s.full \/ (~r.full /\ s.log = Append(r.log, e))
    BY <1>1, RecordedKeeps
<1>3. ASSUME ~s.full PROVE Finds(Verify(g.board, s, asks), next)
    <2>1. Verify(g.board, s, asks) = Replayed(Verify(g.board, r, asks), e, asks)
        BY <1>2, <1>3, VerifyAppend
    <2>2. Finds(Verify(g.board, r, asks), g) /\ r.last = g
        BY <1>2, <1>3 DEF Tells
    <2> QED BY <2>1, <2>2
<1> QED
    BY <1>1, <1>2, <1>3 DEF Tells

LEMMA TellsPlayer ==
    ASSUME NEW r, NEW g, NEW asks \in BOOLEAN, NEW action, NEW c, ReplayFits(r), GameFits(g),
           NEW next, next = Result(g, action, c, asks)
    PROVE  /\ ReplayFits(RecordAction(r, action, c, next))
           /\ Tells(r, g, asks) => Tells(RecordAction(r, action, c, next), next, asks)
<1>1. PICK e : e = PlayerEvent(action, c, r.last)
    OBVIOUS
<1>2. e.type = "PLAYER_ACTION" /\ e.action = action /\ e.cell = c /\ e.pre = r.last
    BY <1>1 DEF PlayerEvent
<1>3. RecordAction(r, action, c, next) = Led(r, e, next)
    BY <1>1 DEF RecordAction, Led
<1>4. next.board = g.board
    BY ResultKeeps
<1>5. \A v : Finds(v, g) /\ r.last = g => Finds(Replayed(v, e, asks), next)
    BY <1>2, ReplayedPlayer
<1>6. ReplayFits(Led(r, e, next))
    BY RecordedKeeps
<1>7. Tells(r, g, asks) => Tells(Led(r, e, next), next, asks)
    BY <1>4, <1>5, TellsNext
<1> QED
    BY <1>3, <1>6, <1>7

LEMMA TellsShown ==
    ASSUME NEW r, NEW g, NEW asks \in BOOLEAN, NEW trigger, NEW seen, ReplayFits(r)
    PROVE  /\ ReplayFits(Recorded(r, ShownEvent(trigger, seen)))
           /\ Tells(r, g, asks) => Tells(Recorded(r, ShownEvent(trigger, seen)), g, asks)
<1>1. PICK e : e = ShownEvent(trigger, seen)
    OBVIOUS
<1>2. e.type = "ASSISTANCE_SHOWN"
    BY <1>1 DEF ShownEvent
<1>3. PICK t : t = Led(r, e, g)
    OBVIOUS
<1>4. PICK s : s = Recorded(r, e)
    OBVIOUS
<1>5. /\ ReplayFits(s) /\ s.last = r.last /\ s.full = t.full /\ s.log = t.log /\ s.initial = t.initial
      /\ r.full => t.full
    BY <1>3, <1>4, RecordedKeeps
<1>6. t.initial = r.initial /\ (t.full \/ (~r.full /\ t.log = Append(r.log, e)))
    BY <1>3, RecordedKeeps
<1>7. ASSUME Tells(r, g, asks), ~s.full PROVE Finds(Verify(g.board, s, asks), g) /\ s.last = g
    <2>1. Verify(g.board, s, asks) = Replayed(Verify(g.board, r, asks), e, asks)
        BY <1>5, <1>6, <1>7, VerifyAppend
    <2>2. Finds(Verify(g.board, r, asks), g) /\ r.last = g
        BY <1>5, <1>6, <1>7 DEF Tells
    <2> QED BY <1>2, <1>5, <2>1, <2>2, ReplayedShown
<1> QED
    BY <1>1, <1>4, <1>5, <1>7 DEF Tells
-----------------------------------------------------------------------------
(* What the coach does to the game: it stays a game on the same board, and  *)
(* what told it tells it still.                                             *)
Leads(x, y, asks) ==
    /\ GameFits(y.game) /\ y.game.board = x.game.board
    /\ ReplayFits(y.replay)
    /\ Tells(x.replay, x.game, asks) => Tells(y.replay, y.game, asks)

LEMMA CoachedLeads ==
    ASSUME NEW x, NEW y, NEW asks \in BOOLEAN, NEW trigger, NEW action, NEW c,
           Leads(x, y, asks)
    PROVE  Leads(x, Coached(y, trigger, action, c), asks)
<1>1. PICK next : next = Result(y.game, IF action = "REVEAL" THEN "REVEAL" ELSE "TOGGLE_FLAG", c, FALSE)
    OBVIOUS
<1>2. PICK e : e = CoachEvent(trigger, action, c, y.game, Visible(y.game, y.help.auto))
    OBVIOUS
<1>3. e.type = "COACH_ACTION" /\ e.action = action /\ e.cell = c /\ e.pre = y.game
    BY <1>2 DEF CoachEvent
<1>4. PICK z : z = Coached(y, trigger, action, c)
    OBVIOUS
<1>5. z = y \/ (z.game = next /\ z.replay = Led(y.replay, e, next))
    BY <1>1, <1>2, <1>4 DEF Coached, Led
<1>6. GameFits(y.game) /\ y.game.board = x.game.board /\ ReplayFits(y.replay)
    BY DEF Leads
<1>7. GameFits(next) /\ next.board = y.game.board
    <2>1. PICK a, asked, g : a = (IF action = "REVEAL" THEN "REVEAL" ELSE "TOGGLE_FLAG") /\ asked = FALSE
                            /\ g = y.game
        OBVIOUS
    <2>2. GameFits(Result(g, a, c, asked)) /\ Result(g, a, c, asked).board = g.board
        BY <1>6, <2>1, ResultKeeps
    <2> QED BY <1>1, <2>1, <2>2
<1>8. \A v : Finds(v, y.game) => Finds(Replayed(v, e, asks), next)
    BY <1>1, <1>3, ReplayedCoach
<1>9. ReplayFits(Led(y.replay, e, next))
    BY <1>6, RecordedKeeps
<1>10. Tells(y.replay, y.game, asks) => Tells(Led(y.replay, e, next), next, asks)
    BY <1>6, <1>7, <1>8, TellsNext
<1>11. CASE z = y
    BY <1>4, <1>11
<1>12. CASE z.game = next /\ z.replay = Led(y.replay, e, next)
    BY <1>6, <1>7, <1>9, <1>10, <1>12, <1>4 DEF Leads
<1> QED
    BY <1>5, <1>11, <1>12

LEMMA BatchLeads ==
    ASSUME NEW x, NEW S, NEW asks \in BOOLEAN, GameFits(x.game), ReplayFits(x.replay)
    PROVE  Leads(x, Batch(x, S), asks)
<1> DEFINE N == Width * Height
           f == RunOf(N, "BATCH", x, S)
           Bad == {n \in 0 .. N : ~Leads(x, f[n], asks)}
<1>1. N \in Nat
    BY SizeIsNat
<1>2. f[0] = x /\ \A n \in 1 .. N : f[n] = Turn("BATCH", x, S, f[n - 1], n)
    <2>1. Start("BATCH", x, S) = x
        BY DEF Start
    <2> HIDE DEF N
    <2> QED BY <1>1, <2>1, RunUnfolds
<1>3. Batch(x, S) = f[N]
    BY BatchIsRun
<1>4. Leads(x, x, asks)
    BY DEF Leads
<1>5. \A n, y : Leads(x, y, asks) => Leads(x, Turn("BATCH", x, S, y, n), asks)
    BY CoachedLeads DEF Turn
<1> HIDE DEF f, N
<1>6. Bad = {}
    <2> SUFFICES ASSUME Bad # {} PROVE FALSE
        OBVIOUS
    <2>1. PICK m \in Bad : \A n \in Bad : ~(n < m)
        <3>1. Bad \in SUBSET Nat
            BY <1>1
        <3> HIDE DEF Bad
        <3> QED BY <3>1, LeastOf, Zenon
    <2>2. CASE m = 0
        BY <2>1, <2>2, <1>2, <1>4
    <2>3. CASE m # 0
        <3>1. m \in 1 .. N /\ m - 1 \in 0 .. N /\ m - 1 < m
            BY <1>1, <2>1, <2>3
        <3>2. Leads(x, f[m - 1], asks)
            BY <2>1, <3>1
        <3>3. Leads(x, f[m], asks)
            BY <3>1, <3>2, <1>2, <1>5
        <3> QED BY <2>1, <3>3
    <2> QED BY <2>2, <2>3
<1> QED
    BY <1>1, <1>3, <1>6

LEMMA AutomaticBatchLeads ==
    ASSUME NEW x, NEW s, NEW asks \in BOOLEAN, DOMAIN x = {"game", "replay", "help"},
           GameFits(x.game), ReplayFits(x.replay)
    PROVE  Leads(x, AutomaticBatch(x, s), asks)
<1>1. Leads(x, x, asks)
    BY DEF Leads
<1>2. PICK y : y = [x EXCEPT !.help.evidence = Clues(x.game)]
    OBVIOUS
<1>3. y.game = x.game /\ y.replay = x.replay
    BY <1>2
<1>4. \A S : Leads(y, Batch(y, S), asks)
    BY <1>3, BatchLeads
<1>5. \A S : Leads(x, Batch(y, S), asks)
    BY <1>3, <1>4 DEF Leads
<1> QED
    BY <1>1, <1>2, <1>5 DEF AutomaticBatch
-----------------------------------------------------------------------------
(* The inductive invariant.                                                *)

RunSet ==
    [id : Nat, count : Nat, handled : Nat, save : {"IDLE", "SAVING", "SAVED", "FAILED", "TOO_LARGE"}]

Typed ==
    /\ questions \in BOOLEAN /\ dirty \in BOOLEAN /\ steady \in BOOLEAN
    /\ status \in {"READY", "GENERATING"} \cup Outcomes
    /\ run \in RunSet /\ run.id <= run.count
    /\ GameFits(game) /\ ReplayFits(replay)
    /\ \A e \in ended : e.id \in 1 .. run.count

(* Where ended games are: their ids are of runs that were begun.           *)
ResultsFit ==
    /\ DOMAIN results = {"pending", "stored", "putting", "practice"}
    /\ results.pending \subseteq [id : 1 .. run.count, state : {"saving", "failed"}]
    /\ results.stored \subseteq [id : 1 .. run.count, replay : BOOLEAN]

(* A live job belongs to what the page waits for.                          *)
JobFits(j, s, w) ==
    /\ {"what", "live"} \subseteq DOMAIN j /\ j.live \in BOOLEAN
    /\ j.what = "GENERATE" /\ j.live =>
         s = "GENERATING"
         /\ j = [what |-> "GENERATE", live |-> TRUE, cell |-> w.cell, flags |-> w.flags]
    /\ j.what = "COACH" /\ j.live => s \in Outcomes
JobsFit == \A j \in jobs : JobFits(j, status, wanted)

(* Before a game begins nothing of an earlier one is left.                 *)
Waiting ==
    status \in {"READY", "GENERATING"} =>
        /\ replay = Fresh /\ back = None /\ ~dirty
        /\ run.id = 0 /\ run.handled = 0
        /\ DOMAIN help = DOMAIN NoHelp /\ help.analysis = None

(* What was kept before a mine is the same board's.                        *)
Backed ==
    back # None =>
        /\ status = "LOST"
        /\ GameFits(back.game) /\ back.game.board = game.board
        /\ ReplayFits(back.replay)

(* An ended game is in one place.                                          *)
PendingOf(r, i) == {p \in r.pending : p.id = i}
StoredOf(r, i) == {s \in r.stored : s.id = i}
Lone(r, i) ==
    \/ StoredOf(r, i) = {} /\ \E p : PendingOf(r, i) = {p}
    \/ PendingOf(r, i) = {} /\ \E s : StoredOf(r, i) = {s}
Nowhere(r, i) == PendingOf(r, i) = {} /\ StoredOf(r, i) = {}

(* The end of the run on the screen is written once.                       *)
Ends ==
    /\ \A e \in ended : e.id = run.id => e.kind = kind /\ status \in Terminal
    /\ status \in Outcomes => run.id >= 1
    /\ status \in Terminal => game.outcome = status
    /\ status = "PLAYING" \/ (status \in Terminal /\ dirty) =>
         run.handled # run.id /\ Nowhere(results, run.id)
    /\ \A e \in ended : e.kind = "STANDARD" => (dirty /\ e.id = run.id) \/ Lone(results, e.id)

Tale ==
    steady =>
        /\ status \in Outcomes => Tells(replay, game, questions)
        /\ back # None => Tells(back.replay, back.game, questions)

Inv == Typed /\ ResultsFit /\ JobsFit /\ Waiting /\ Backed /\ Ends /\ Tale

(* What BoardIsWanted says of a step.                                      *)
WantedStep ==
    run'.count # run.count =>
         LET flags == Flags(replay'.initial)
         IN CASE status = "GENERATING" ->
                   /\ game'.board.start = wanted.cell /\ replay'.log[1].cell = wanted.cell
                   /\ flags \subseteq wanted.flags
              [] status = "READY" ->
                   /\ flags \subseteq Flags(game.sight)
                   /\ again # None => game'.board = again
              [] OTHER -> status = "LOST" /\ game'.board = game.board
-----------------------------------------------------------------------------
LEMMA FreshFits == ReplayFits(Fresh) /\ Fresh.log = <<>> /\ ~Fresh.full
<1>1. <<>> \in Seq({})
    OBVIOUS
<1> QED
    BY <1>1 DEF ReplayFits, Fresh

LEMMA InitInv == Init => Inv
<1> SUFFICES ASSUME Init PROVE Inv
    OBVIOUS
<1>1. GameFits(NoGame)
    BY DEF GameFits, NoGame, Outcomes
<1>2. Typed
    <2>1. run \in RunSet /\ run.id <= run.count
        BY DEF Init, RunSet
    <2>2. GameFits(game) /\ ReplayFits(replay)
        BY <1>1, FreshFits DEF Init
    <2>3. questions \in BOOLEAN /\ dirty \in BOOLEAN /\ steady \in BOOLEAN /\ status = "READY" /\ ended = {}
        BY DEF Init
    <2> QED
        BY <2>1, <2>2, <2>3 DEF Typed
<1>3. ResultsFit /\ JobsFit
    BY DEF Init, ResultsFit, JobsFit, NoResults
<1>4. Waiting /\ Backed /\ Ends /\ Tale
    BY DEF Init, Waiting, Backed, Ends, Tale, Outcomes, Terminal, NoHelp
<1> QED
    BY <1>2, <1>3, <1>4 DEF Inv

(* Jobs that are cancelled are late; the others stay as they are.          *)
LEMMA LateFits ==
    ASSUME NEW j, NEW s, NEW w, NEW t, NEW v, JobFits(j, t, v)
    PROVE  /\ JobFits([j EXCEPT !.live = FALSE], s, w)
           /\ [j EXCEPT !.live = FALSE].what = j.what /\ ~[j EXCEPT !.live = FALSE].live
           /\ ~j.live => JobFits(j, s, w)
BY DEF JobFits

LEMMA CancelledAreLate ==
    ASSUME NEW what, JobsFit
    PROVE  \A j \in Cancelled(what) :
             \/ j \in jobs /\ (j.what # what \/ ~j.live)
             \/ ~j.live /\ j.what = what /\ \A s, w : JobFits(j, s, w)
<1>1. \A i \in jobs : LET k == [i EXCEPT !.live = FALSE]
                      IN  k.what = i.what /\ ~k.live /\ \A s, w : JobFits(k, s, w)
    BY LateFits DEF JobsFit
<1> DEFINE live == {j \in jobs : j.what = what /\ j.live}
<1>2. CASE live = {}
    <2>1. Cancelled(what) = jobs
        BY <1>2 DEF Cancelled
    <2> QED BY <1>2, <2>1
<1>3. CASE live # {}
    <2>1. Cancelled(what) = {j \in jobs : j.what # what} \cup {[j EXCEPT !.live = FALSE] : j \in live}
        BY <1>3 DEF Cancelled
    <2> TAKE k \in Cancelled(what)
    <2>2. CASE k \in jobs /\ k.what # what
        BY <2>2
    <2>3. ASSUME NEW i \in live, k = [i EXCEPT !.live = FALSE]
          PROVE  ~k.live /\ k.what = what /\ \A s, w : JobFits(k, s, w)
        <3>1. i \in jobs /\ i.what = what
            OBVIOUS
        <3> QED BY <1>1, <2>3, <3>1
    <2> QED BY <2>1, <2>2, <2>3
<1> QED
    BY <1>2, <1>3

(* A step that leaves the run as it is, and an ended game.                 *)
LEMMA StillKeeps ==
    ASSUME Inv, UNCHANGED <<status, results, ended, kind, run, back, questions, steady, wanted>>,
           GameFits(game'), ReplayFits(replay'), game'.board = game.board,
           status \in Outcomes =>
               (Tells(replay, game, questions) => Tells(replay', game', questions)),
           status \in Terminal => dirty' = dirty /\ game' = game,
           dirty' \in BOOLEAN, JobsFit', Waiting'
    PROVE  Inv'
<1>1. Typed /\ ResultsFit /\ Backed /\ Ends /\ Tale /\ Waiting
    BY DEF Inv
<1>2. Typed' /\ ResultsFit' /\ Backed'
    BY <1>1 DEF Typed, ResultsFit, Backed
<1>3. Tale'
    BY <1>1 DEF Tale
<1>4. Ends'
    <2>1. \A e \in ended : e.id >= 1
        BY <1>1 DEF Typed
    <2>2. status \in {"READY", "GENERATING"} => run.id = 0
        BY <1>1 DEF Waiting
    <2>3. status \in {"READY", "GENERATING", "PLAYING"} \cup Terminal
        BY <1>1 DEF Typed, Outcomes, Terminal
    <2>4. ASSUME NEW e \in ended, e.kind = "STANDARD", ~(dirty' /\ e.id = run.id)
          PROVE  Lone(results, e.id)
        BY <1>1, <2>1, <2>2, <2>3, <2>4 DEF Ends, Outcomes, Terminal
    <2> QED
        BY <1>1, <2>4 DEF Ends
<1> QED
    BY <1>2, <1>3, <1>4 DEF Inv

LEMMA BusyFits == \A s \in Outcomes : s \notin {"READY", "GENERATING"}
BY DEF Outcomes

(* What is cancelled and asked again is as live as the page.               *)
LEMMA AskedFits ==
    ASSUME Inv, NEW what, UNCHANGED <<status, wanted>>,
           NEW S, jobs' = Cancelled(what) \cup S, \A j \in S : JobFits(j, status, wanted)
    PROVE  JobsFit'
<1>1. \A j \in Cancelled(what) : JobFits(j, status, wanted)
    BY CancelledAreLate DEF Inv, JobsFit
<1> QED
    BY <1>1 DEF JobsFit

LEMMA CancelledFits ==
    ASSUME Inv, NEW what, UNCHANGED <<status, wanted>>, jobs' = Cancelled(what)
    PROVE  JobsFit'
<1>1. PICK S : S = {}
    OBVIOUS
<1>2. jobs' = Cancelled(what) \cup S /\ \A j \in S : JobFits(j, status, wanted)
    BY <1>1
<1> QED
    BY <1>2, AskedFits

LEMMA FewerFit ==
    ASSUME Inv, UNCHANGED <<status, wanted>>, jobs' \subseteq jobs
    PROVE  JobsFit'
BY DEF Inv, JobsFit

LEMMA ResetKeeps ==
    ASSUME Inv, NEW k, NEW m, Settled, ResetTo(k, m), GameFits(game')
    PROVE  Inv' /\ run'.count = run.count
<1>1. Typed /\ ResultsFit /\ JobsFit /\ Waiting /\ Backed /\ Ends /\ Tale
    BY DEF Inv
<1>2. /\ status' = "READY" /\ replay' = Fresh /\ back' = None /\ help' = NoHelp
      /\ dirty' = FALSE /\ ~dirty
      /\ UNCHANGED <<questions, results, ended, steady>>
    BY DEF ResetTo, Settled
<1>3. run' \in RunSet /\ run'.id = 0 /\ run'.handled = 0 /\ run'.count = run.count
    BY <1>1 DEF ResetTo, Typed, RunSet
<1>4. Typed'
    <2>1. run'.id <= run'.count
        BY <1>3 DEF RunSet
    <2>2. \A e \in ended' : e.id \in 1 .. run'.count
        BY <1>1, <1>2, <1>3 DEF Typed
    <2>3. ReplayFits(replay') /\ questions' \in BOOLEAN /\ dirty' \in BOOLEAN /\ steady' \in BOOLEAN
        BY <1>1, <1>2, FreshFits DEF Typed
    <2> QED BY <1>2, <1>3, <2>1, <2>2, <2>3 DEF Typed
<1>5. ResultsFit'
    BY <1>1, <1>2, <1>3 DEF ResultsFit
<1>6. JobsFit'
    <2>1. \A j \in jobs' : \E i \in jobs : j = [i EXCEPT !.live = FALSE]
        BY DEF ResetTo
    <2>2. \A i \in jobs : \A s, w : JobFits([i EXCEPT !.live = FALSE], s, w)
        BY <1>1, LateFits DEF JobsFit
    <2>3. \A j \in jobs' : \A s, w : JobFits(j, s, w)
        BY <2>1, <2>2
    <2> QED BY <2>3 DEF JobsFit
<1>7. Waiting'
    BY <1>2, <1>3 DEF Waiting, NoHelp
<1>8. Backed' /\ Tale'
    BY <1>2 DEF Backed, Tale, Outcomes
<1>9. Ends'
    <2>1. \A e \in ended : e.id # 0
        BY <1>1 DEF Typed
    <2> QED BY <1>1, <1>2, <1>3, <2>1 DEF Ends, Outcomes, Terminal
<1> QED
    BY <1>3, <1>4, <1>5, <1>6, <1>7, <1>8, <1>9 DEF Inv

LEMMA QuestionsKeep ==
    ASSUME Inv, ChooseQuestionMarks
    PROVE  Inv'
<1>1. /\ UNCHANGED <<kind, status, game, replay, run, back, help, jobs, dirty, results, wanted, ended>>
      /\ questions' \in BOOLEAN /\ steady' \in BOOLEAN
      /\ steady' => status \in {"READY", "GENERATING"}
    BY DEF ChooseQuestionMarks, Inv, Typed
<1>2. Typed' /\ ResultsFit' /\ JobsFit' /\ Waiting' /\ Backed' /\ Ends'
    BY <1>1 DEF Inv, Typed, ResultsFit, JobsFit, Waiting, Backed, Ends
<1>3. Tale'
    BY <1>1 DEF Inv, Tale, Waiting, Outcomes
<1> QED
    BY <1>2, <1>3 DEF Inv

LEMMA MarkKeeps ==
    ASSUME Inv, NEW c \in Cells, MarkEarly(c)
    PROVE  Inv'
<1>1. GameFits(game') /\ game'.board = game.board
    BY DEF MarkEarly, Inv, Typed, GameFits
<1>2. status = "READY" /\ UNCHANGED <<status, results, ended, kind, run, back, questions, steady,
                                      wanted, replay, help, jobs, dirty>>
    BY DEF MarkEarly
<1>3. JobsFit' /\ Waiting' /\ dirty' \in BOOLEAN /\ ReplayFits(replay')
    BY <1>2 DEF Inv, JobsFit, Waiting, Typed
<1> QED
    BY <1>1, <1>2, <1>3, StillKeeps DEF Outcomes, Terminal

-----------------------------------------------------------------------------
(* Beginning a game.                                                       *)

LEMMA NewRunFacts ==
    ASSUME run \in RunSet
    PROVE  /\ NewRun \in RunSet /\ run.count \in Nat
           /\ NewRun.id = run.count + 1 /\ NewRun.count = run.count + 1 /\ NewRun.handled = run.handled
<1>1. run.count \in Nat /\ run.handled \in Nat
    BY DEF RunSet
<1>2. PICK n \in Nat : n = run.count + 1
    BY <1>1
<1>3. NewRun = [run EXCEPT !.id = n, !.count = n]
    BY <1>2 DEF NewRun
<1>4. NewRun \in RunSet /\ NewRun.id = n /\ NewRun.count = n /\ NewRun.handled = run.handled
    BY <1>3 DEF RunSet
<1> QED
    BY <1>1, <1>2, <1>4

LEMMA BeginKeeps ==
    ASSUME Inv, NEW b, NEW c, NEW flags, Begin(b, c, flags), status \in {"READY", "GENERATING"},
           \A j \in jobs' : JobFits(j, "PLAYING", wanted')
    PROVE  /\ Inv'
           /\ game'.board = b /\ replay'.log[1].cell = c /\ Flags(replay'.initial) \subseteq flags
<1>1. Typed /\ ResultsFit /\ Waiting /\ Ends
    BY DEF Inv
<1>2. PICK first : first = [board |-> b, outcome |-> "PLAYING", sight |->
                      [d \in Cells |-> IF d \in flags THEN "FLAGGED"
                                       ELSE IF game.sight[d] = "QUESTIONED" THEN "QUESTIONED" ELSE "HIDDEN"]]
    OBVIOUS
<1>3. PICK next : next = Result(first, "REVEAL", c, questions)
    OBVIOUS
<1>4. PICK r : r = [replay EXCEPT !.initial = first.sight, !.last = first]
    OBVIOUS
<1>5. /\ run' = NewRun /\ game' = next /\ replay' = RecordAction(r, "REVEAL", c, next)
      /\ steady' = TRUE /\ Finish(next)
      /\ UNCHANGED <<kind, mode, questions, back, help, results>>
    BY <1>2, <1>3, <1>4 DEF Begin
<1>6. replay = Fresh /\ back = None /\ run.handled = 0 /\ ~dirty
    BY <1>1 DEF Waiting
<1>7. r = [initial |-> first.sight, log |-> <<>>, last |-> first, full |-> FALSE]
    BY <1>4, <1>6 DEF Fresh
<1>8. ReplayFits(r)
    BY <1>7, FreshFits DEF ReplayFits, Fresh
<1>9. GameFits(first) /\ first.board = b
    BY <1>2 DEF GameFits, Outcomes
<1>10. GameFits(next) /\ next.board = b
    BY <1>3, <1>9, ResultKeeps
<1>11. questions \in BOOLEAN
    BY <1>1 DEF Typed
<1>12. Tells(r, first, questions)
    <2>1. Verify(b, r, questions) = [game |-> [board |-> b, sight |-> r.initial, outcome |-> "PLAYING"],
                                     proven |-> {}, chain |-> TRUE, proofs |-> TRUE]
        BY <1>7, <1>11, VerifyFresh
    <2>2. [board |-> b, sight |-> r.initial, outcome |-> "PLAYING"] = first
        BY <1>2, <1>7
    <2>3. Finds(Verify(b, r, questions), first)
        BY <2>1, <2>2 DEF Finds
    <2> QED BY <1>7, <1>9, <2>3 DEF Tells
<1>13. ReplayFits(replay') /\ Tells(replay', game', questions')
    BY <1>3, <1>5, <1>8, <1>9, <1>11, <1>12, TellsPlayer
<1>14. /\ run' \in RunSet /\ run'.id = run.count + 1 /\ run'.count = run.count + 1 /\ run'.handled = 0
       /\ run.count \in Nat
    BY <1>1, <1>5, <1>6, NewRunFacts DEF Typed
<1>15. /\ status' = next.outcome /\ status' \in Outcomes
       /\ ended' \subseteq ended \cup {[id |-> run'.id, kind |-> kind]}
       /\ status' = "PLAYING" => ended' = ended
       /\ status' \in Terminal => dirty'
       /\ dirty' \in BOOLEAN
    BY <1>5, <1>10 DEF Finish, GameFits, Outcomes, Terminal
<1>16. Typed'
    <2>1. \A e \in ended' : e.id \in 1 .. run'.count
        BY <1>1, <1>14, <1>15 DEF Typed
    <2>2. run'.id <= run'.count
        BY <1>14
    <2> QED BY <1>5, <1>10, <1>11, <1>13, <1>14, <1>15, <2>1, <2>2 DEF Typed
<1>17. ResultsFit'
    <2>1. 1 .. run.count \subseteq 1 .. run'.count
        BY <1>14
    <2> QED BY <1>1, <1>5, <2>1 DEF ResultsFit
<1>18. JobsFit'
    <2>1. \A j \in jobs' : JobFits(j, status', wanted')
        BY <1>15 DEF JobFits
    <2> QED BY <2>1 DEF JobsFit
<1>19. Waiting' /\ Backed' /\ Tale'
    BY <1>5, <1>6, <1>13, <1>15 DEF Waiting, Backed, Tale, Outcomes
<1>20. Ends'
    <2>1. Nowhere(results, run'.id)
        BY <1>1, <1>14 DEF ResultsFit, Nowhere, PendingOf, StoredOf
    <2>2. \A e \in ended : e.id # run'.id /\ e.id # run.id
        <3>1. run.id = 0
            BY <1>1 DEF Waiting
        <3> QED BY <1>1, <1>14, <3>1 DEF Typed
    <2>3. \A e \in ended' : e.id = run'.id => e.kind = kind' /\ status' \in Terminal
        BY <1>5, <1>15, <2>2 DEF Outcomes, Terminal
    <2>4. \A e \in ended' : e.kind = "STANDARD" => (dirty' /\ e.id = run'.id) \/ Lone(results, e.id)
        <3> TAKE e \in ended'
        <3>1. CASE e \in ended
            BY <1>1, <1>6, <2>2, <3>1 DEF Ends
        <3>2. CASE e \notin ended
            <4>1. e.id = run'.id /\ status' \in Terminal
                BY <1>15, <3>2 DEF Outcomes, Terminal
            <4> QED BY <1>15, <4>1
        <3> QED BY <3>1, <3>2
    <2>5. run'.handled # run'.id /\ run'.id >= 1
        BY <1>14
    <2> QED BY <1>5, <1>15, <2>1, <2>3, <2>4, <2>5 DEF Ends
<1>21. game'.board = b /\ replay'.log[1].cell = c /\ Flags(replay'.initial) \subseteq flags
    <2>1. PICK e : e = PlayerEvent("REVEAL", c, r.last)
        OBVIOUS
    <2>2. Len(r.log) = 0 /\ Append(r.log, e) = <<e>>
        BY <1>7
    <2>3. Recorded(r, e) = [r EXCEPT !.log = <<e>>]
        BY <2>2, SoloAssumption DEF Recorded
    <2>4. replay'.log = <<e>> /\ replay'.initial = first.sight
        BY <1>5, <1>7, <2>1, <2>3 DEF RecordAction
    <2>5. e.cell = c
        BY <2>1 DEF PlayerEvent
    <2>6. \A d \in Cells : first.sight[d] = "FLAGGED" => d \in flags
        BY <1>2
    <2> QED BY <1>5, <1>10, <2>4, <2>5, <2>6 DEF Flags
<1> QED
    BY <1>16, <1>17, <1>18, <1>19, <1>20, <1>21 DEF Inv

LEMMA ClickKeeps ==
    ASSUME Inv, NEW c \in Cells, ClickFirst(c)
    PROVE  Inv' /\ WantedStep
<1>1. Settled /\ status = "READY" /\ again' = None
    BY DEF ClickFirst
<1>2. \A j \in jobs : ~(j.live /\ j.what \in {"GENERATE", "COACH"})
    BY <1>1 DEF Inv, JobsFit, JobFits, Outcomes
<1>3. ASSUME NEW b, Begin(b, c, Flags(game.sight)), UNCHANGED <<jobs, wanted>>, again # None => b = again
      PROVE  Inv' /\ WantedStep
    <2>1. \A j \in jobs' : JobFits(j, "PLAYING", wanted')
        BY <1>2, <1>3 DEF Inv, JobsFit, JobFits
    <2>2. Inv' /\ game'.board = b /\ Flags(replay'.initial) \subseteq Flags(game.sight)
        BY <1>1, <1>3, <2>1, BeginKeeps
    <2> QED BY <1>1, <1>3, <2>2 DEF WantedStep
<1>4. CASE \/ again # None /\ Begin(again, c, Flags(game.sight)) /\ UNCHANGED <<jobs, wanted>>
           \/ /\ again = None /\ \E b \in Boards(c) : Begin(b, c, Flags(game.sight))
              /\ UNCHANGED <<jobs, wanted>>
    BY <1>3, <1>4
<1>5. CASE /\ status' = "GENERATING"
           /\ wanted' = [cell |-> c, flags |-> Flags(game.sight)]
           /\ jobs' = Cancelled("GENERATE") \cup
                {[what |-> "GENERATE", live |-> TRUE, cell |-> c, flags |-> Flags(game.sight)]}
           /\ UNCHANGED <<kind, mode, questions, game, replay, run, back, help, dirty,
                          results, ended, steady>>
    <2>1. JobsFit'
        <3>1. \A j \in Cancelled("GENERATE") : JobFits(j, status', wanted')
            <4> TAKE j \in Cancelled("GENERATE")
            <4>1. CASE j \in jobs
                BY <1>2, <4>1 DEF Inv, JobsFit, JobFits
            <4>2. CASE j \notin jobs
                BY <4>2, CancelledAreLate DEF Inv
            <4> QED BY <4>1, <4>2
        <3>2. PICK new : new = [what |-> "GENERATE", live |-> TRUE, cell |-> c, flags |-> Flags(game.sight)]
            OBVIOUS
        <3>3. wanted'.cell = c /\ wanted'.flags = Flags(game.sight)
            BY <1>5
        <3>4. JobFits(new, status', wanted')
            BY <1>5, <3>2, <3>3 DEF JobFits
        <3> QED BY <1>5, <3>1, <3>2, <3>4 DEF JobsFit
    <2>2. Typed' /\ ResultsFit' /\ Backed' /\ Ends' /\ Tale' /\ Waiting'
        BY <1>1, <1>5 DEF Inv, Typed, ResultsFit, Backed, Ends, Tale, Waiting, Outcomes, Terminal
    <2> QED BY <1>5, <2>1, <2>2 DEF Inv, WantedStep
<1> QED
    BY <1>4, <1>5 DEF ClickFirst

LEMMA OnlyOneGenerates ==
    ASSUME Inv, NEW j \in jobs, j.what = "GENERATE", j.live
    PROVE  /\ status = "GENERATING" /\ wanted.cell = j.cell /\ wanted.flags = j.flags
           /\ \A i \in jobs \ {j} : ~(i.live /\ i.what \in {"GENERATE", "COACH"})
<1>1. JobFits(j, status, wanted)
    BY DEF Inv, JobsFit
<1>2. ASSUME NEW i \in jobs, i # j PROVE ~(i.live /\ i.what \in {"GENERATE", "COACH"})
    <2>1. JobFits(i, status, wanted)
        BY DEF Inv, JobsFit
    <2> QED BY <1>1, <1>2, <2>1 DEF JobFits, Outcomes
<1> QED
    BY <1>1, <1>2 DEF JobFits

LEMMA OthersAreLate ==
    ASSUME Inv, NEW S \in SUBSET jobs, \A i \in S : ~(i.live /\ i.what \in {"GENERATE", "COACH"})
    PROVE  \A i \in S : \A s, w : JobFits(i, s, w)
BY DEF Inv, JobsFit, JobFits

LEMMA GenerationKeeps ==
    ASSUME Inv, NEW j \in jobs, GenerationSucceeds(j)
    PROVE  Inv' /\ WantedStep
<1>1. j.what = "GENERATE" /\ j.live /\ jobs' = jobs \ {j}
    BY DEF GenerationSucceeds, IsNewest
<1>2. /\ status = "GENERATING" /\ wanted.cell = j.cell /\ wanted.flags = j.flags
      /\ \A i \in jobs' : JobFits(i, "PLAYING", wanted')
    BY <1>1, OnlyOneGenerates, OthersAreLate
<1>3. PICK b \in Boards(j.cell) : Begin(b, j.cell, j.flags)
    BY DEF GenerationSucceeds
<1>4. PICK c, flags : c = j.cell /\ flags = j.flags
    OBVIOUS
<1>5. b.start = c
    BY <1>3, <1>4 DEF Boards
<1>6. /\ Inv'
      /\ game'.board = b /\ replay'.log[1].cell = c /\ Flags(replay'.initial) \subseteq flags
    BY <1>2, <1>3, <1>4, BeginKeeps
<1> QED
    BY <1>2, <1>4, <1>5, <1>6 DEF WantedStep

LEMMA GenerationFailsKeeps ==
    ASSUME Inv, NEW j \in jobs, GenerationFails(j)
    PROVE  Inv' /\ run' = run
<1>1. /\ j.what = "GENERATE" /\ j.live /\ jobs' = jobs \ {j} /\ status' = "READY"
      /\ UNCHANGED <<kind, mode, questions, game, again, replay, run, back, help, dirty,
                     results, ended, steady>>
    BY DEF GenerationFails, BackToReady
<1>2. status = "GENERATING" /\ \A i \in jobs' : JobFits(i, "READY", wanted')
    BY <1>1, OnlyOneGenerates, OthersAreLate
<1>3. JobsFit'
    BY <1>1, <1>2 DEF JobsFit
<1>4. Typed' /\ ResultsFit' /\ Backed' /\ Ends' /\ Tale' /\ Waiting'
    BY <1>1, <1>2 DEF Inv, Typed, ResultsFit, Backed, Ends, Tale, Waiting, Outcomes, Terminal
<1> QED
    BY <1>1, <1>3, <1>4 DEF Inv

-----------------------------------------------------------------------------
(* Playing.                                                                *)

(* A step of the player or of the coach in a game that is on.              *)
LEMMA FinishKeeps ==
    ASSUME Inv, Settled, status = "PLAYING", NEW next, GameFits(next), next.board = game.board,
           game' = next, ReplayFits(replay'), Tells(replay, game, questions) => Tells(replay', next, questions),
           Finish(next), UNCHANGED <<kind, questions, run, jobs, results, wanted, steady>>,
           \/ back' = back
           \/ next.outcome = "LOST" /\ back' = [game |-> game, replay |-> replay]
    PROVE  Inv'
<1>1. Typed /\ ResultsFit /\ JobsFit /\ Backed /\ Ends /\ Tale
    BY DEF Inv
<1>2. back = None
    BY <1>1 DEF Backed
<1>3. /\ status' = next.outcome /\ status' \in Outcomes
      /\ ended' \subseteq ended \cup {[id |-> run.id, kind |-> kind]}
      /\ status' = "PLAYING" => ended' = ended
      /\ status' \in Terminal => dirty'
      /\ dirty' \in BOOLEAN
    BY DEF Finish, GameFits, Outcomes, Terminal
<1>4. run.id \in 1 .. run.count
    BY <1>1 DEF Ends, Typed, Outcomes, RunSet
<1>5. Typed'
    BY <1>1, <1>3, <1>4 DEF Typed
<1>6. ResultsFit' /\ JobsFit' /\ Waiting'
    BY <1>1, <1>3 DEF ResultsFit, JobsFit, JobFits, Waiting, Outcomes
<1>7. ASSUME back' = back PROVE Backed' /\ Tale'
    BY <1>1, <1>2, <1>3, <1>7 DEF Backed, Tale, Outcomes
<1>8. ASSUME next.outcome = "LOST", back' = [game |-> game, replay |-> replay] PROVE Backed' /\ Tale'
    <2>1. back'.game = game /\ back'.replay = replay
        BY <1>8
    <2> QED BY <1>1, <1>3, <1>8, <2>1 DEF Backed, Tale, Outcomes, Typed
<1>9. Ends'
    <2>1. run.handled # run.id /\ Nowhere(results, run.id) /\ run.id >= 1
        BY <1>1 DEF Ends, Outcomes
    <2>2. \A e \in ended : e.id # run.id
        BY <1>1 DEF Ends, Terminal
    <2>3. \A e \in ended' : e.id = run.id => e.kind = kind /\ status' \in Terminal
        BY <1>3, <2>2 DEF Outcomes, Terminal
    <2>4. \A e \in ended' : e.kind = "STANDARD" => (dirty' /\ e.id = run.id) \/ Lone(results, e.id)
        <3> TAKE e \in ended'
        <3>1. CASE e \in ended
            BY <1>1, <2>2, <3>1 DEF Ends
        <3>2. CASE e \notin ended
            <4>1. e.id = run.id /\ status' \in Terminal
                BY <1>3, <3>2 DEF Outcomes, Terminal
            <4> QED BY <1>3, <4>1
        <3> QED BY <3>1, <3>2
    <2> QED BY <1>3, <2>1, <2>3, <2>4 DEF Ends
<1> QED
    BY <1>5, <1>6, <1>7, <1>8, <1>9 DEF Inv

LEMMA ActKeeps ==
    ASSUME Inv, NEW action, NEW c, Act(action, c)
    PROVE  Inv' /\ run' = run
<1>1. PICK next : next = Result(game, action, c, questions)
    OBVIOUS
<1>2. /\ Settled /\ status = "PLAYING"
      /\ game' = next /\ replay' = RecordAction(replay, action, c, next)
      /\ back' = IF Practising /\ next.outcome = "LOST" THEN [game |-> game, replay |-> replay] ELSE back
      /\ UNCHANGED run /\ Finish(next)
      /\ UNCHANGED <<kind, mode, questions, again, jobs, results, wanted, steady>>
    BY <1>1 DEF Act
<1>3. GameFits(game) /\ ReplayFits(replay) /\ questions \in BOOLEAN
    BY DEF Inv, Typed
<1>4. GameFits(next) /\ next.board = game.board
    BY <1>1, <1>3, ResultKeeps
<1>5. ReplayFits(replay') /\ (Tells(replay, game, questions) => Tells(replay', next, questions))
    BY <1>1, <1>2, <1>3, TellsPlayer
<1> QED
    BY <1>2, <1>4, <1>5, FinishKeeps

LEMMA RewindKeeps ==
    ASSUME Inv, RewindBeforeMine
    PROVE  Inv' /\ WantedStep
<1>1. Typed /\ ResultsFit /\ JobsFit /\ Backed /\ Ends /\ Tale
    BY DEF Inv
<1>2. /\ ~dirty /\ status = "LOST" /\ back # None
      /\ run' = [NewRun EXCEPT !.handled = 0, !.save = "IDLE"]
      /\ game' = back.game /\ replay' = back.replay /\ back' = None
      /\ status' = "PLAYING" /\ dirty' = TRUE
      /\ UNCHANGED <<kind, mode, questions, again, jobs, results, wanted, ended, steady>>
    BY DEF RewindBeforeMine, Settled, BeforeMine
<1>3. /\ run' \in RunSet /\ run'.id = run.count + 1 /\ run'.count = run.count + 1 /\ run'.handled = 0
      /\ run.count \in Nat
    <2>1. run \in RunSet
        BY <1>1 DEF Typed
    <2>2. PICK n : n = NewRun
        OBVIOUS
    <2>3. n \in RunSet /\ run.count \in Nat /\ n.id = run.count + 1 /\ n.count = run.count + 1
        BY <2>1, <2>2, NewRunFacts
    <2>4. run' = [n EXCEPT !.handled = 0, !.save = "IDLE"]
        BY <1>2, <2>2
    <2>5. run' \in RunSet /\ run'.id = n.id /\ run'.count = n.count /\ run'.handled = 0
        BY <2>3, <2>4 DEF RunSet
    <2> QED BY <2>3, <2>5
<1>4. Typed'
    <2>1. \A e \in ended : e.id \in 1 .. run'.count
        BY <1>1, <1>3 DEF Typed
    <2>2. run'.id <= run'.count
        BY <1>3
    <2> QED BY <1>1, <1>2, <1>3, <2>1, <2>2 DEF Typed, Backed, Outcomes
<1>5. ResultsFit'
    <2>1. 1 .. run.count \subseteq 1 .. run'.count
        BY <1>3
    <2> QED BY <1>1, <1>2, <2>1 DEF ResultsFit
<1>6. JobsFit' /\ Waiting' /\ Backed' /\ Tale'
    BY <1>1, <1>2 DEF JobsFit, JobFits, Waiting, Backed, Tale, Outcomes
<1>7. Ends'
    <2>1. Nowhere(results, run'.id)
        BY <1>1, <1>3 DEF ResultsFit, Nowhere, PendingOf, StoredOf
    <2>2. \A e \in ended : e.id # run'.id
        BY <1>1, <1>3 DEF Typed
    <2>3. run'.handled # run'.id /\ run'.id >= 1
        BY <1>3
    <2> QED BY <1>1, <1>2, <2>1, <2>2, <2>3 DEF Ends, Terminal
<1>8. WantedStep
    BY <1>1, <1>2 DEF WantedStep, Backed
<1> QED
    BY <1>4, <1>5, <1>6, <1>7, <1>8 DEF Inv
-----------------------------------------------------------------------------
(* The coach.                                                              *)

LEMMA ShowKeeps ==
    ASSUME Inv, NEW h, NEW trigger, NEW s, Show(h, trigger, s), status \in Outcomes,
           UNCHANGED <<status, results, ended, kind, run, back, questions, steady, wanted, game, dirty>>,
           jobs' \subseteq jobs
    PROVE  Inv'
<1>1. replay' = Recorded(replay, ShownEvent(trigger, s.seen))
    BY DEF Show
<1>2. ReplayFits(replay) /\ questions \in BOOLEAN /\ GameFits(game) /\ dirty \in BOOLEAN
    BY DEF Inv, Typed
<1>3. ReplayFits(replay') /\ (Tells(replay, game, questions) => Tells(replay', game, questions))
    BY <1>1, <1>2, TellsShown
<1>4. JobsFit' /\ Waiting'
    BY FewerFit, BusyFits DEF Waiting
<1> QED
    BY <1>2, <1>3, <1>4, StillKeeps

(* A step that changes nothing but the coach's help and jobs.              *)
LEMMA HelpKeeps ==
    ASSUME Inv, UNCHANGED <<status, results, ended, kind, run, back, questions, steady, wanted, game, replay>>,
           dirty' \in BOOLEAN, status \in Terminal => dirty' = dirty, JobsFit', status \in Outcomes
    PROVE  Inv'
<1>1. GameFits(game) /\ ReplayFits(replay)
    BY DEF Inv, Typed
<1>2. Waiting'
    BY BusyFits DEF Waiting
<1> QED
    BY <1>1, <1>2, StillKeeps

LEMMA RequestKeeps ==
    ASSUME Inv, NEW manual, RequestAnalysis(manual), status \in Outcomes,
           UNCHANGED <<status, results, ended, kind, run, back, questions, steady, wanted, game, replay>>,
           dirty' \in BOOLEAN, status \in Terminal => dirty' = dirty
    PROVE  Inv'
<1>1. PICK s : s = Suggestion(game, Visible(game, help.auto))
    OBVIOUS
<1>2. jobs' = Cancelled("COACH") \cup {[what |-> "COACH", live |-> TRUE, answer |-> s]}
    BY <1>1 DEF RequestAnalysis
<1>3. JobFits([what |-> "COACH", live |-> TRUE, answer |-> s], status, wanted)
    BY DEF JobFits
<1>4. JobsFit'
    BY <1>2, <1>3, AskedFits
<1> QED
    BY <1>4, HelpKeeps

LEMMA BatchKeeps ==
    ASSUME Inv, NEW x, NEW s, x.game = game, x.replay = replay, DOMAIN x = {"game", "replay", "help"},
           status \in Outcomes \ Terminal, Becomes(AutomaticBatch(x, s)), dirty' \in BOOLEAN,
           UNCHANGED <<status, results, ended, kind, run, back, questions, steady, wanted>>, JobsFit'
    PROVE  Inv'
<1>1. ReplayFits(replay) /\ questions \in BOOLEAN /\ GameFits(game)
    BY DEF Inv, Typed
<1>2. PICK y : y = AutomaticBatch(x, s)
    OBVIOUS
<1>3. Leads(x, y, questions)
    BY <1>1, <1>2, AutomaticBatchLeads
<1>4. /\ GameFits(game') /\ game'.board = game.board /\ ReplayFits(replay')
      /\ Tells(replay, game, questions) => Tells(replay', game', questions)
    BY <1>2, <1>3 DEF Leads, Becomes
<1>5. Waiting'
    BY BusyFits DEF Waiting
<1> QED
    BY <1>4, <1>5, StillKeeps

LEMMA AnswerKeeps ==
    ASSUME Inv, NEW j \in jobs, CoachAnswers(j)
    PROVE  Inv' /\ run' = run
<1>1. /\ j.what = "COACH" /\ j.live /\ jobs' = jobs \ {j} /\ UNCHANGED run
      /\ UNCHANGED <<kind, mode, questions, again, back, results, wanted, steady>>
    BY DEF CoachAnswers, IsNewest
<1>2. status \in Outcomes
    BY <1>1 DEF Inv, JobsFit, JobFits
<1>3. status \in Terminal => game.outcome # "PLAYING"
    BY DEF Inv, Ends, Terminal
<1>4. dirty \in BOOLEAN /\ GameFits(game) /\ ReplayFits(replay)
    BY DEF Inv, Typed
<1> DEFINE s == j.answer
           asked == [help EXCEPT !.analysis = s, !.manual = FALSE]
           x == [Current EXCEPT !.help = asked]
           batch == AutomaticBatch(x, s)
<1>5. CASE UNCHANGED <<game, replay, status, ended, dirty>>
    <2>1. JobsFit'
        BY <1>1, <1>5, FewerFit
    <2> QED BY <1>1, <1>2, <1>4, <1>5, <2>1, HelpKeeps
<1>6. CASE Show(asked, "REQUEST", s) /\ UNCHANGED <<game, status, ended, dirty>>
    <2> HIDE DEF asked, s
    <2>1. jobs' \subseteq jobs
        BY <1>1
    <2> QED BY <1>1, <1>2, <1>6, <2>1, ShowKeeps
<1>7. CASE /\ game.outcome = "PLAYING" /\ Becomes(batch) /\ UNCHANGED <<status, ended>>
           /\ dirty' = (dirty \/ batch.game # game)
    <2>1. x.game = game /\ x.replay = replay /\ DOMAIN x = {"game", "replay", "help"}
        BY DEF Current
    <2>2. JobsFit'
        BY <1>1, <1>7, FewerFit
    <2>3. dirty' \in BOOLEAN
        BY <1>7
    <2> HIDE DEF x, asked, s
    <2> QED BY <1>1, <1>2, <1>3, <1>7, <2>1, <2>2, <2>3, BatchKeeps
<1>8. \/ UNCHANGED <<game, replay, status, ended, dirty>>
      \/ Show(asked, "REQUEST", s) /\ UNCHANGED <<game, status, ended, dirty>>
      \/ /\ game.outcome = "PLAYING" /\ Becomes(batch) /\ UNCHANGED <<status, ended>>
         /\ dirty' = (dirty \/ batch.game # game)
    BY DEF CoachAnswers
<1> QED
    <2> HIDE DEF asked, batch
    <2> QED BY <1>1, <1>5, <1>6, <1>7, <1>8

LEMMA CoachFailsKeeps ==
    ASSUME Inv, NEW j \in jobs, CoachFails(j)
    PROVE  Inv' /\ run' = run
<1>1. /\ j.what = "COACH" /\ j.live /\ jobs' = Cancelled("COACH")
      /\ UNCHANGED <<kind, mode, questions, status, game, again, replay, run, back, dirty,
                     results, wanted, ended, steady>>
    BY DEF CoachFails
<1>2. status \in Outcomes
    BY <1>1 DEF Inv, JobsFit, JobFits
<1>3. JobsFit'
    BY <1>1, CancelledFits
<1>4. dirty \in BOOLEAN
    BY DEF Inv, Typed
<1> QED
    BY <1>1, <1>2, <1>3, <1>4, HelpKeeps

LEMMA DropKeeps ==
    ASSUME Inv, NEW j \in jobs, DropLate(j)
    PROVE  Inv' /\ run' = run
<1>1. UNCHANGED <<kind, mode, questions, status, game, again, replay, run, back, help,
                   dirty, results, wanted, ended, steady>>
    BY DEF DropLate
<1>2. JobsFit'
    BY <1>1, FewerFit DEF DropLate
<1>3. GameFits(game') /\ ReplayFits(replay') /\ Waiting' /\ dirty' \in BOOLEAN
    BY <1>1 DEF Inv, Typed, Waiting
<1> QED
    BY <1>1, <1>2, <1>3, StillKeeps

LEMMA HintKeeps ==
    ASSUME Inv, RequestHint \/ IdleHint
    PROVE  Inv' /\ run' = run
<1>1. status = "PLAYING" /\ status \in Outcomes /\ status \notin Terminal
    BY DEF RequestHint, IdleHint, Outcomes, Terminal
<1>2. UNCHANGED <<kind, mode, questions, status, game, again, run, back, dirty, results,
                   wanted, ended, steady>>
    BY DEF RequestHint, IdleHint
<1>3. dirty \in BOOLEAN
    BY DEF Inv, Typed
<1>4. \/ \E trigger : Show(help, trigger, help.analysis) /\ UNCHANGED jobs
      \/ RequestAnalysis(TRUE) /\ UNCHANGED replay
    BY DEF RequestHint, IdleHint
<1>5. ASSUME NEW trigger, Show(help, trigger, help.analysis), UNCHANGED jobs
      PROVE  Inv'
    BY <1>1, <1>2, <1>5, ShowKeeps
<1>6. ASSUME RequestAnalysis(TRUE), UNCHANGED replay
      PROVE  Inv'
    <2>1. PICK manual : manual = TRUE
        OBVIOUS
    <2> QED BY <1>1, <1>2, <1>3, <1>6, <2>1, RequestKeeps
<1> QED
    BY <1>2, <1>4, <1>5, <1>6

LEMMA DemonstrateKeeps ==
    ASSUME Inv, Demonstrate
    PROVE  Inv' /\ run' = run
<1>1. status = "PLAYING" /\ status \in Outcomes /\ status \notin Terminal /\ Settled
    BY DEF Demonstrate, Outcomes, Terminal
<1>2. UNCHANGED <<kind, mode, questions, again, back, results, wanted, steady>> /\ run' = run
    BY DEF Demonstrate
<1>3. ReplayFits(replay) /\ questions \in BOOLEAN /\ GameFits(game) /\ dirty \in BOOLEAN
    BY DEF Inv, Typed
<1>4. CASE RequestAnalysis(FALSE) /\ UNCHANGED <<game, replay, status, ended, dirty, run>>
    <2>1. PICK manual : manual = FALSE
        OBVIOUS
    <2> QED BY <1>1, <1>2, <1>3, <1>4, <2>1, RequestKeeps
<1>5. ASSUME NEW step, Becomes(Coached(Current, "DEMONSTRATE", step[1], step[2])),
             Finish(Coached(Current, "DEMONSTRATE", step[1], step[2]).game), UNCHANGED <<run, jobs>>
      PROVE  Inv'
    <2>1. PICK x : x = Current
        OBVIOUS
    <2>2. x.game = game /\ x.replay = replay
        BY <2>1 DEF Current
    <2>3. PICK y : y = Coached(x, "DEMONSTRATE", step[1], step[2])
        OBVIOUS
    <2>4. Leads(x, x, questions)
        BY <1>3, <2>2 DEF Leads
    <2>5. Leads(x, y, questions)
        BY <1>3, <2>3, <2>4, CoachedLeads
    <2>6. PICK next : next = y.game
        OBVIOUS
    <2>7. /\ GameFits(next) /\ next.board = game.board /\ game' = next /\ ReplayFits(replay') /\ Finish(next)
          /\ Tells(replay, game, questions) => Tells(replay', next, questions)
        BY <1>5, <2>1, <2>2, <2>3, <2>5, <2>6 DEF Leads, Becomes
    <2> QED BY <1>1, <1>2, <1>5, <2>7, FinishKeeps
<1> QED
    BY <1>2, <1>4, <1>5 DEF Demonstrate

LEMMA ToggleKeeps ==
    ASSUME Inv, ToggleAutoMark
    PROVE  Inv' /\ run' = run
<1> DEFINE on == [Current EXCEPT !.help.autoOn = TRUE, !.help.evidence = None]
           off == [Current EXCEPT !.help.autoOn = FALSE]
           batch == AutomaticBatch(on, help.analysis)
<1>1. /\ UNCHANGED <<kind, mode, questions, status, again, run, back, jobs, results,
                      wanted, ended, steady>>
      /\ status \in {"READY", "PLAYING"} /\ ~dirty
      /\ \/ Becomes(off) /\ dirty' = (off.game # game)
         \/ Becomes(on) /\ dirty' = (on.game # game)
         \/ help.analysis # None /\ Becomes(batch) /\ dirty' = (batch.game # game)
    BY DEF ToggleAutoMark, Settled
<1>2. ReplayFits(replay) /\ questions \in BOOLEAN /\ GameFits(game) /\ dirty \in BOOLEAN /\ JobsFit'
    BY <1>1 DEF Inv, Typed, JobsFit
<1>3. /\ off.game = game /\ off.replay = replay /\ off.help = [help EXCEPT !.autoOn = FALSE]
      /\ on.game = game /\ on.replay = replay
      /\ on.help = [help EXCEPT !.autoOn = TRUE, !.evidence = None]
      /\ DOMAIN on = {"game", "replay", "help"}
    BY DEF Current
<1>4. dirty' \in BOOLEAN
    BY <1>1
<1>5. ASSUME NEW x, x.game = game, x.replay = replay, Becomes(x), dirty' = (x.game # game),
             x.help \in {[help EXCEPT !.autoOn = FALSE], [help EXCEPT !.autoOn = TRUE, !.evidence = None]}
      PROVE  Inv'
    <2>1. game' = game /\ replay' = replay /\ dirty' = FALSE /\ help' = x.help
        BY <1>5 DEF Becomes
    <2>2. Waiting'
        <3>1. status = "READY" => DOMAIN help' = DOMAIN help /\ help'.analysis = help.analysis
            <4>1. status = "READY" => DOMAIN help = DOMAIN NoHelp
                BY DEF Inv, Waiting
            <4>2. "analysis" \in DOMAIN NoHelp
                BY DEF NoHelp
            <4> QED BY <1>5, <2>1, <4>1, <4>2
        <3> QED BY <1>1, <2>1, <3>1 DEF Inv, Waiting
    <2> QED BY <1>1, <1>2, <1>4, <2>1, <2>2, StillKeeps DEF Terminal
<1>6. CASE help.analysis # None /\ Becomes(batch)
    <2>1. status \in Outcomes \ Terminal
        BY <1>1, <1>6 DEF Inv, Waiting, Outcomes, Terminal
    <2> HIDE DEF on
    <2> QED BY <1>1, <1>2, <1>3, <1>4, <1>6, <2>1, BatchKeeps
<1> QED
    <2> HIDE DEF on, off, batch
    <2> QED BY <1>1, <1>3, <1>5, <1>6

-----------------------------------------------------------------------------
(* Saving.                                                                 *)

LEMMA EffectKeeps ==
    ASSUME Inv, AnalysisEffect
    PROVE  Inv' /\ run' = run
<1>1. /\ status = "PLAYING" /\ dirty' = FALSE /\ RequestAnalysis(FALSE)
      /\ UNCHANGED <<kind, mode, questions, status, game, again, replay, run, back, results,
                     wanted, ended, steady>>
    BY DEF AnalysisEffect
<1>2. status \in Outcomes /\ status \notin Terminal /\ dirty' \in BOOLEAN
    BY <1>1 DEF Outcomes, Terminal
<1>3. PICK manual : manual = FALSE
    OBVIOUS
<1> QED
    BY <1>1, <1>2, <1>3, RequestKeeps

(* A step that ends the run's effects: its results are where they belong.  *)
LEMMA SavedKeeps ==
    ASSUME Inv, UNCHANGED <<status, ended, kind, back, questions, steady, wanted, game, replay>>,
           run' \in RunSet, run'.id = run.id, run'.count = run.count,
           dirty' \in BOOLEAN, dirty' => dirty, ResultsFit', JobsFit',
           status \in {"READY", "GENERATING"} => run'.handled = run.handled /\ help' = help,
           status = "PLAYING" \/ (status \in Terminal /\ dirty') =>
               run'.handled = run.handled /\ (Nowhere(results, run.id) => Nowhere(results', run.id)),
           \A e \in ended : e.kind = "STANDARD" => (dirty' /\ e.id = run.id) \/ Lone(results', e.id)
    PROVE  Inv'
<1>1. Typed /\ Waiting /\ Backed /\ Ends /\ Tale
    BY DEF Inv
<1>2. Typed' /\ Backed' /\ Tale' /\ Waiting'
    BY <1>1 DEF Typed, Waiting, Backed, Tale
<1>3. Ends'
    BY <1>1 DEF Ends
<1> QED
    BY <1>2, <1>3 DEF Inv

LEMMA SavePracticeKeeps ==
    ASSUME Inv, SavePractice
    PROVE  Inv' /\ run'.count = run.count
<1>1. /\ dirty /\ status \in Terminal /\ Practising /\ dirty' = FALSE /\ jobs' = Cancelled("COACH")
      /\ UNCHANGED <<kind, mode, questions, status, game, again, replay, back, wanted,
                     ended, steady>>
    BY DEF SavePractice
<1>2. /\ run' = [run EXCEPT !.handled = run.id, !.save = IF replay.full THEN "TOO_LARGE" ELSE "SAVING"]
      /\ \E S : results' = [results EXCEPT !.putting = S] \/ results' = results
    BY DEF SavePractice
<1>3. Typed /\ ResultsFit /\ Ends
    BY DEF Inv
<1>4. run' \in RunSet /\ run'.id = run.id /\ run'.count = run.count
    <2>1. PICK n, save : n = run.id /\ save = IF replay.full THEN "TOO_LARGE" ELSE "SAVING"
        OBVIOUS
    <2>2. run' = [run EXCEPT !.handled = n, !.save = save]
        BY <1>2, <2>1
    <2>3. run \in RunSet /\ n \in Nat /\ save \in {"TOO_LARGE", "SAVING"}
        BY <1>3, <2>1 DEF Typed, RunSet
    <2> QED BY <2>2, <2>3 DEF RunSet
<1>5. results'.pending = results.pending /\ results'.stored = results.stored
      /\ DOMAIN results' = DOMAIN results
    BY <1>2, <1>3 DEF ResultsFit
<1>6. ResultsFit'
    BY <1>3, <1>4, <1>5 DEF ResultsFit
<1>7. JobsFit'
    BY <1>1, CancelledFits
<1>8. ASSUME NEW e \in ended, e.kind = "STANDARD" PROVE Lone(results', e.id)
    <2>1. e.id # run.id
        BY <1>1, <1>3, <1>8 DEF Ends, Practising
    <2>2. Lone(results, e.id)
        BY <1>3, <1>8, <2>1 DEF Ends
    <2> QED BY <1>5, <2>2 DEF Lone, PendingOf, StoredOf
<1>9. status \notin {"READY", "GENERATING", "PLAYING"}
    BY <1>1 DEF Terminal
<1> QED
    BY <1>1, <1>4, <1>6, <1>7, <1>8, <1>9, SavedKeeps

LEMMA PracticePutKeeps ==
    ASSUME Inv, NEW p, NEW works, PracticePutEnds(p, works)
    PROVE  Inv' /\ run'.count = run.count
<1>1. /\ UNCHANGED <<kind, mode, questions, status, game, again, replay, back, help, jobs,
                   dirty, wanted, ended, steady>>
      /\ \E S, T : results' = [results EXCEPT !.putting = S, !.practice = T]
      /\ \/ run' = run
         \/ \E s \in {"SAVED", "FAILED"} : run' = [run EXCEPT !.save = s]
    <2>1. \E S, T : results' = [results EXCEPT !.putting = S, !.practice = T]
        BY DEF PracticePutEnds
    <2>2. PICK s : s = IF works /\ p.valid THEN "SAVED" ELSE "FAILED"
        OBVIOUS
    <2>3. s \in {"SAVED", "FAILED"} /\ (run' = run \/ run' = [run EXCEPT !.save = s])
        BY <2>2 DEF PracticePutEnds
    <2> QED BY <2>1, <2>3 DEF PracticePutEnds
<1>2. Typed /\ ResultsFit /\ Ends /\ JobsFit
    BY DEF Inv
<1>3. /\ run' \in RunSet /\ run'.id = run.id /\ run'.count = run.count /\ run'.handled = run.handled
      /\ dirty \in BOOLEAN
    BY <1>1, <1>2 DEF Typed, RunSet
<1>4. results'.pending = results.pending /\ results'.stored = results.stored
      /\ DOMAIN results' = DOMAIN results
    BY <1>1, <1>2 DEF ResultsFit
<1>5. ResultsFit' /\ JobsFit'
    BY <1>1, <1>2, <1>3, <1>4 DEF ResultsFit, JobsFit
<1>6. \A e \in ended : e.kind = "STANDARD" => (dirty' /\ e.id = run.id) \/ Lone(results', e.id)
    <2>1. \A i : PendingOf(results', i) = PendingOf(results, i) /\ StoredOf(results', i) = StoredOf(results, i)
        BY <1>4 DEF PendingOf, StoredOf
    <2>2. \A i : Lone(results, i) => Lone(results', i)
        BY <2>1 DEF Lone
    <2> QED BY <1>1, <1>2, <2>2 DEF Ends
<1>7. Nowhere(results, run.id) => Nowhere(results', run.id)
    BY <1>4 DEF Nowhere, PendingOf, StoredOf
<1> QED
    BY <1>1, <1>3, <1>5, <1>6, <1>7, SavedKeeps

LEMMA SaveStandardKeeps ==
    ASSUME Inv, SaveStandard
    PROVE  Inv' /\ run'.count = run.count
<1>1. /\ dirty /\ status \in Terminal /\ dirty' = FALSE
      /\ run' = [run EXCEPT !.handled = run.id]
      /\ UNCHANGED <<kind, mode, questions, status, game, again, replay, back, help, jobs,
                     wanted, ended, steady>>
    BY DEF SaveStandard
<1>2. Typed /\ ResultsFit /\ Ends /\ JobsFit
    BY DEF Inv
<1>3. run.handled # run.id /\ Nowhere(results, run.id) /\ run.id \in 1 .. run.count
    BY <1>1, <1>2 DEF Ends, Typed, RunSet, Outcomes, Terminal
<1>4. PICK new : new = [id |-> run.id, state |-> "saving"]
    OBVIOUS
<1>5. results' = [results EXCEPT !.pending = @ \cup {new}]
    BY <1>3, <1>4 DEF SaveStandard
<1>6. /\ results'.pending = results.pending \cup {new} /\ results'.stored = results.stored
      /\ DOMAIN results' = DOMAIN results
    BY <1>2, <1>5 DEF ResultsFit
<1>7. run' \in RunSet /\ run'.id = run.id /\ run'.count = run.count
    BY <1>1, <1>2 DEF Typed, RunSet
<1>8. new \in [id : 1 .. run.count, state : {"saving", "failed"}] /\ new.id = run.id
    BY <1>3, <1>4
<1>9. ResultsFit' /\ JobsFit'
    BY <1>1, <1>2, <1>6, <1>7, <1>8 DEF ResultsFit, JobsFit
<1>10. ASSUME NEW e \in ended, e.kind = "STANDARD" PROVE Lone(results', e.id)
    <2>1. CASE e.id = run.id
        <3>1. PendingOf(results', e.id) = {new} /\ StoredOf(results', e.id) = {}
            BY <1>3, <1>6, <1>8, <2>1 DEF Nowhere, PendingOf, StoredOf
        <3> QED BY <3>1 DEF Lone
    <2>2. CASE e.id # run.id
        <3>1. Lone(results, e.id)
            BY <1>2, <1>10, <2>2 DEF Ends
        <3>2. PendingOf(results', e.id) = PendingOf(results, e.id)
              /\ StoredOf(results', e.id) = StoredOf(results, e.id)
            BY <1>6, <1>8, <2>2 DEF PendingOf, StoredOf
        <3> QED BY <3>1, <3>2 DEF Lone
    <2> QED BY <2>1, <2>2
<1>11. status \notin {"READY", "GENERATING", "PLAYING"}
    BY <1>1 DEF Terminal
<1> QED
    BY <1>1, <1>7, <1>9, <1>10, <1>11, SavedKeeps

(* One record that waits is replaced by another, or by what is stored.     *)
LEMMA WrittenKeeps ==
    ASSUME Inv, NEW p \in results.pending, NEW q,
           UNCHANGED <<kind, mode, questions, status, game, again, replay, run, back, help,
                       jobs, dirty, wanted, ended, steady>>,
           \/ /\ q \in [id : 1 .. run.count, state : {"saving", "failed"}] /\ q.id = p.id
              /\ results' = [results EXCEPT !.pending = (@ \ {p}) \cup {q}]
           \/ /\ q \in [id : 1 .. run.count, replay : BOOLEAN] /\ q.id = p.id
              /\ results' = [results EXCEPT !.pending = @ \ {p}, !.stored = @ \cup {q}]
    PROVE  Inv'
<1>1. Typed /\ ResultsFit /\ Ends /\ JobsFit
    BY DEF Inv
<1>2. /\ DOMAIN results' = DOMAIN results
      /\ \/ results'.pending = (results.pending \ {p}) \cup {q} /\ results'.stored = results.stored
         \/ results'.pending = results.pending \ {p} /\ results'.stored = results.stored \cup {q}
    BY <1>1 DEF ResultsFit
<1>3. ResultsFit' /\ JobsFit'
    <2>1. JobsFit'
        BY <1>1 DEF JobsFit
    <2>2. ResultsFit'
        <3>1. /\ results'.pending \subseteq [id : 1 .. run.count, state : {"saving", "failed"}]
              /\ results'.stored \subseteq [id : 1 .. run.count, replay : BOOLEAN]
            <4>1. CASE /\ q \in [id : 1 .. run.count, state : {"saving", "failed"}] /\ q.id = p.id
                       /\ results' = [results EXCEPT !.pending = (@ \ {p}) \cup {q}]
                BY <1>1, <4>1 DEF ResultsFit
            <4>2. CASE /\ q \in [id : 1 .. run.count, replay : BOOLEAN] /\ q.id = p.id
                       /\ results' = [results EXCEPT !.pending = @ \ {p}, !.stored = @ \cup {q}]
                BY <1>1, <4>2 DEF ResultsFit
            <4> QED BY <4>1, <4>2
        <3> QED BY <1>1, <1>2, <3>1 DEF ResultsFit
    <2> QED BY <2>1, <2>2
<1>4. ASSUME NEW i, i # p.id
      PROVE  PendingOf(results', i) = PendingOf(results, i) /\ StoredOf(results', i) = StoredOf(results, i)
    BY <1>2, <1>4 DEF PendingOf, StoredOf
<1>5. ASSUME Lone(results, p.id) PROVE Lone(results', p.id)
    <2>1. PendingOf(results, p.id) = {p} /\ StoredOf(results, p.id) = {}
        BY <1>5 DEF Lone, PendingOf
    <2>2. \/ PendingOf(results', p.id) = {q} /\ StoredOf(results', p.id) = {}
          \/ PendingOf(results', p.id) = {} /\ StoredOf(results', p.id) = {q}
        BY <1>2, <2>1 DEF PendingOf, StoredOf
    <2> QED BY <2>2 DEF Lone
<1>6. ASSUME NEW i, Lone(results, i) PROVE Lone(results', i)
    BY <1>4, <1>5, <1>6 DEF Lone
<1>7. ASSUME NEW i, Nowhere(results, i) PROVE Nowhere(results', i)
    <2>1. i # p.id
        BY <1>7 DEF Nowhere, PendingOf
    <2> QED BY <1>4, <1>7, <2>1 DEF Nowhere
<1>8. \A e \in ended : e.kind = "STANDARD" => (dirty' /\ e.id = run.id) \/ Lone(results', e.id)
    BY <1>1, <1>6 DEF Ends
<1> QED
    BY <1>1, <1>3, <1>7, <1>8, SavedKeeps DEF Typed

LEMMA StandardPutKeeps ==
    ASSUME Inv, NEW p \in results.pending, NEW result \in {"FULL", "SUMMARY", "FAILED"},
           StandardPutEnds(p, result) \/ Retry(p)
    PROVE  Inv' /\ run' = run
<1>1. UNCHANGED <<kind, mode, questions, status, game, again, replay, run, back, help,
                   jobs, dirty, wanted, ended, steady>>
    BY DEF StandardPutEnds, Retry
<1>2. p \in [id : 1 .. run.count, state : {"saving", "failed"}]
    BY DEF Inv, ResultsFit
<1>3. ASSUME NEW state \in {"saving", "failed"},
             results' = [results EXCEPT !.pending = (@ \ {p}) \cup {[p EXCEPT !.state = state]}]
      PROVE  Inv'
    <2>1. PICK q : q = [p EXCEPT !.state = state]
        OBVIOUS
    <2>2. q \in [id : 1 .. run.count, state : {"saving", "failed"}] /\ q.id = p.id
        BY <1>2, <2>1
    <2> QED BY <1>1, <1>3, <2>1, <2>2, WrittenKeeps
<1>4. ASSUME results' = [results EXCEPT !.pending = @ \ {p},
                                        !.stored = @ \cup {[id |-> p.id, replay |-> result = "FULL"]}]
      PROVE  Inv'
    <2>1. PICK q : q = [id |-> p.id, replay |-> result = "FULL"]
        OBVIOUS
    <2>2. q \in [id : 1 .. run.count, replay : BOOLEAN] /\ q.id = p.id
        BY <1>2, <2>1
    <2> QED BY <1>1, <1>4, <2>1, <2>2, WrittenKeeps
<1> QED
    BY <1>1, <1>3, <1>4 DEF StandardPutEnds, Retry, Written

-----------------------------------------------------------------------------
LEMMA StepInv == Inv /\ [Next]_vars => Inv' /\ [WantedStep]_vars
<1> SUFFICES ASSUME Inv, [Next]_vars PROVE Inv' /\ (WantedStep \/ UNCHANGED vars)
    OBVIOUS
<1>1. CASE UNCHANGED vars
    BY <1>1 DEF vars, Inv, Typed, ResultsFit, JobsFit, Waiting, Backed, Ends, Tale
<1>2. ASSUME run'.count = run.count PROVE WantedStep
    BY <1>2 DEF WantedStep
<1>3. ASSUME NEW k, NEW m, Reset(k, m) PROVE Inv' /\ WantedStep
    <2>1. GameFits(NoGame)
        BY DEF GameFits, NoGame, Outcomes
    <2>2. Settled /\ ResetTo(k, m) /\ GameFits(game')
        BY <1>3, <2>1 DEF Reset
    <2> QED BY <1>2, <2>2, ResetKeeps
<1>4. CASE ReplaySameBoard
    <2>1. GameFits([NoGame EXCEPT !.board = game.board])
        BY DEF GameFits, NoGame, Outcomes
    <2>2. PICK k, m : k = kind /\ m = mode
        OBVIOUS
    <2>3. Settled /\ ResetTo(k, m) /\ GameFits(game')
        BY <1>4, <2>1, <2>2 DEF ReplaySameBoard
    <2> QED BY <1>2, <2>3, ResetKeeps
<1>5. CASE ChooseQuestionMarks
    <2>1. run' = run
        BY <1>5 DEF ChooseQuestionMarks
    <2> QED BY <1>2, <1>5, <2>1, QuestionsKeep
<1>6. ASSUME NEW c \in Cells, MarkEarly(c) PROVE Inv' /\ WantedStep
    <2>1. run' = run
        BY <1>6 DEF MarkEarly
    <2> QED BY <1>2, <1>6, <2>1, MarkKeeps
<1>7. ASSUME NEW c \in Cells, ClickFirst(c) PROVE Inv' /\ WantedStep
    BY <1>7, ClickKeeps
<1>8. ASSUME NEW j \in jobs,
             DropLate(j) \/ GenerationSucceeds(j) \/ GenerationFails(j) \/ CoachAnswers(j) \/ CoachFails(j)
      PROVE  Inv' /\ WantedStep
    <2>1. CASE DropLate(j)
        BY <1>2, <2>1, DropKeeps
    <2>2. CASE GenerationSucceeds(j)
        BY <2>2, GenerationKeeps
    <2>3. CASE GenerationFails(j)
        BY <1>2, <2>3, GenerationFailsKeeps
    <2>4. CASE CoachAnswers(j)
        BY <1>2, <2>4, AnswerKeeps
    <2>5. CASE CoachFails(j)
        BY <1>2, <2>5, CoachFailsKeeps
    <2> QED BY <1>8, <2>1, <2>2, <2>3, <2>4, <2>5
<1>9. ASSUME NEW action, NEW c, Act(action, c) PROVE Inv' /\ WantedStep
    BY <1>2, <1>9, ActKeeps
<1>10. CASE RewindBeforeMine
    BY <1>10, RewindKeeps
<1>11. CASE RequestHint \/ IdleHint \/ Demonstrate \/ ToggleAutoMark
    BY <1>2, <1>11, HintKeeps, DemonstrateKeeps, ToggleKeeps
<1>12. CASE AnalysisEffect \/ SavePractice \/ SaveStandard
    BY <1>2, <1>12, EffectKeeps, SavePracticeKeeps, SaveStandardKeeps
<1>13. ASSUME NEW p, NEW works, PracticePutEnds(p, works) PROVE Inv' /\ WantedStep
    BY <1>2, <1>13, PracticePutKeeps
<1>14. ASSUME NEW p \in results.pending, NEW result \in {"FULL", "SUMMARY", "FAILED"},
              StandardPutEnds(p, result) \/ Retry(p)
       PROVE  Inv' /\ WantedStep
    BY <1>2, <1>14, StandardPutKeeps
<1> QED
    BY <1>1, <1>3, <1>4, <1>5, <1>6, <1>7, <1>8, <1>9, <1>10, <1>11, <1>12, <1>13, <1>14 DEF Next

(* The inductive invariant holds of the page of SoloGame.tsx at all times. *)
THEOREM InvariantHolds == Spec => []Inv
<1>1. Init => Inv
    BY InitInv
<1>2. Inv /\ [Next]_vars => Inv'
    BY StepInv
<1> QED
    BY <1>1, <1>2, PTL DEF Spec

(* A standard game that has ended is stored once or waits to be, whatever  *)
(* becomes of its writes and whatever is played after it                   *)
(* (attemptPendingHistoryWrite, and the effect that enqueues a record).    *)
THEOREM EndedGamesAreKept == Spec => []ResultsAreKept
<1>1. Inv => ResultsAreKept
    <2> SUFFICES ASSUME Inv, NEW e \in ended, e.kind = "STANDARD", ~(dirty /\ e.id = run.id)
                 PROVE  Cardinality({p \in results.pending : p.id = e.id})
                          + Cardinality({r \in results.stored : r.id = e.id}) = 1
        BY DEF ResultsAreKept
    <2>1. Lone(results, e.id)
        BY DEF Inv, Ends
    <2>2. /\ {p \in results.pending : p.id = e.id} = PendingOf(results, e.id)
          /\ {r \in results.stored : r.id = e.id} = StoredOf(results, e.id)
        BY DEF PendingOf, StoredOf
    <2>3. Cardinality({}) = 0 /\ \A p : Cardinality({p}) = 1
        BY FS_EmptySet, FS_Singleton
    <2>4. \/ Cardinality(PendingOf(results, e.id)) = 1 /\ Cardinality(StoredOf(results, e.id)) = 0
          \/ Cardinality(PendingOf(results, e.id)) = 0 /\ Cardinality(StoredOf(results, e.id)) = 1
        BY <2>1, <2>3, Zenon DEF Lone
    <2>5. Cardinality(PendingOf(results, e.id)) + Cardinality(StoredOf(results, e.id)) = 1
        BY <2>4
    <2> QED BY <2>2, <2>5
<1> QED
    BY <1>1, InvariantHolds, PTL

(* The replay tells the game on the screen, as verifySoloReplay and        *)
(* verifyPracticeReplay read it, whatever the player and the coach did.    *)
THEOREM ReplaysTellTheirGame == Spec => []ReplayTellsTheGame
<1>1. Inv => ReplayTellsTheGame
    BY DEF Inv, Tale, ReplayTellsTheGame, Tells, Finds, Verified, Outcomes
<1> QED
    BY <1>1, InvariantHolds, PTL

(* A new game is on the board its player waits for, with his flags, and no *)
(* late worker's board ever replaces a game (generateNoGuess, beginGame).  *)
THEOREM BoardsAreWanted == Spec => BoardIsWanted
<1>1. Inv /\ [Next]_vars => [WantedStep]_vars
    BY StepInv
<1>2. Spec => [][WantedStep]_vars
    BY <1>1, InvariantHolds, PTL DEF Spec
<1> QED
    BY <1>2 DEF BoardIsWanted, WantedStep

-----------------------------------------------------------------------------
(* What the coach concludes.                                               *)

LEMMA CellsFinite ==
    ASSUME NEW S \in SUBSET Cells
    PROVE  IsFiniteSet(S) /\ Cardinality(S) \in Nat
<1>1. Width \in Nat /\ Height \in Nat
    BY SoloAssumption
<1>2. IsFiniteSet(0 .. Width - 1) /\ IsFiniteSet(0 .. Height - 1)
    BY <1>1, FS_Interval
<1>3. IsFiniteSet(Cells)
    BY <1>2, FS_Product DEF Cells
<1> QED
    BY <1>3, FS_Subset, FS_CardinalityType

(* Two sets of cells that have none in common, and a set with no mines or  *)
(* nothing but mines, by the numbers.                                      *)
LEMMA PartsAddUp ==
    ASSUME NEW S \in SUBSET Cells, NEW T \in SUBSET Cells, S \cap T = {}
    PROVE  Cardinality(S \cup T) = Cardinality(S) + Cardinality(T)
<1>1. IsFiniteSet(S) /\ IsFiniteSet(T) /\ Cardinality(S) \in Nat /\ Cardinality(T) \in Nat
    BY CellsFinite
<1>2. Cardinality(S \cup T) = Cardinality(S) + Cardinality(T) - Cardinality(S \cap T)
    BY <1>1, FS_Union
<1>3. Cardinality(S \cap T) = 0
    BY FS_EmptySet
<1> QED
    BY <1>1, <1>2, <1>3

LEMMA NoneOrAll ==
    ASSUME NEW S \in SUBSET Cells, NEW M
    PROVE  /\ Cardinality(S \cap M) = 0 => S \cap M = {}
           /\ Cardinality(S \cap M) = Cardinality(S) => S \subseteq M
           /\ Cardinality(S \cap M) \in Nat /\ Cardinality(S) \in Nat
           /\ Cardinality(S \cap M) <= Cardinality(S)
<1>1. IsFiniteSet(S) /\ S \cap M \in SUBSET S /\ S \cap M \in SUBSET Cells
    BY CellsFinite
<1>2. IsFiniteSet(S \cap M) /\ Cardinality(S \cap M) <= Cardinality(S)
      /\ (Cardinality(S \cap M) = Cardinality(S) => S \cap M = S)
    BY <1>1, FS_Subset
<1>3. Cardinality(S \cap M) = 0 => S \cap M = {}
    BY <1>2, FS_EmptySet
<1>4. Cardinality(S \cap M) \in Nat /\ Cardinality(S) \in Nat
    BY <1>1, CellsFinite
<1> QED
    BY <1>2, <1>3, <1>4

(* The instance counts as the module does.                                 *)
LEMMA CoreCounts ==
    ASSUME NEW b, NEW v, NEW S
    PROVE  Core(b, v)!Cardinality(S) = Cardinality(S)
BY DEF Core!Cardinality, Cardinality

(* What clues claim of the mines holds.                                    *)
TrueOf(C, M) == \A k \in C : k.cells \subseteq Cells /\ k.mines = Cardinality(k.cells \cap M)

LEMMA SinglesAreTrue ==
    ASSUME NEW b, NEW v, NEW M, NEW C, TrueOf(C, M), NEW d \in Core(b, v)!Singles(C)
    PROVE  /\ d.targets \subseteq Cells
           /\ d.kind = "SAFE" => d.targets \cap M = {}
           /\ d.kind = "MINE" => d.targets \subseteq M
<1>1. \/ \E k \in C : k.mines = 0 /\ d = [kind |-> "SAFE", sources |-> <<k.source>>, targets |-> k.cells]
      \/ \E k \in C : /\ k.mines = Cardinality(k.cells)
                      /\ d = [kind |-> "MINE", sources |-> <<k.source>>, targets |-> k.cells]
    <2>2. d \in Core(b, v)!Singles(C)
        OBVIOUS
    <2>3. \/ \E k \in C : k.mines = 0 /\ d = [kind |-> "SAFE", sources |-> <<k.source>>, targets |-> k.cells]
          \/ \E k \in C : /\ k.mines = Core(b, v)!Cardinality(k.cells)
                          /\ d = [kind |-> "MINE", sources |-> <<k.source>>, targets |-> k.cells]
        BY <2>2 DEF Core!Singles, Core!Deduced
    <2>4. ASSUME NEW k \in C, k.mines = Core(b, v)!Cardinality(k.cells)
          PROVE  k.mines = Cardinality(k.cells)
        BY <2>4, CoreCounts
    <2> QED BY <2>3, <2>4
<1>2. \A k \in C : k.cells \in SUBSET Cells /\ k.mines = Cardinality(k.cells \cap M)
    BY DEF TrueOf
<1>3. ASSUME NEW k \in C, k.mines = 0,
             d = [kind |-> "SAFE", sources |-> <<k.source>>, targets |-> k.cells]
      PROVE  d.kind = "SAFE" /\ d.targets \subseteq Cells /\ d.targets \cap M = {}
    <2>1. d.kind = "SAFE" /\ d.targets = k.cells
        BY <1>3
    <2>2. Cardinality(k.cells \cap M) = 0
        BY <1>2, <1>3
    <2>3. k.cells \cap M = {}
        BY <1>2, <2>2, NoneOrAll
    <2> QED BY <1>2, <2>1, <2>3
<1>4. ASSUME NEW k \in C, k.mines = Cardinality(k.cells),
             d = [kind |-> "MINE", sources |-> <<k.source>>, targets |-> k.cells]
      PROVE  d.kind = "MINE" /\ d.targets \subseteq Cells /\ d.targets \subseteq M
    <2>1. d.kind = "MINE" /\ d.targets = k.cells
        BY <1>4
    <2>2. Cardinality(k.cells \cap M) = Cardinality(k.cells)
        BY <1>2, <1>4
    <2>3. k.cells \subseteq M
        BY <1>2, <2>2, NoneOrAll
    <2> QED BY <1>2, <2>1, <2>3
<1>5. "SAFE" # "MINE"
    OBVIOUS
<1> QED
    BY <1>1, <1>3, <1>4, <1>5, Zenon

LEMMA SubsetsAreTrue ==
    ASSUME NEW b, NEW v, NEW M, NEW C, TrueOf(C, M), NEW d \in Core(b, v)!Subsets(C)
    PROVE  /\ d.targets \subseteq Cells
           /\ d.kind = "SAFE" => d.targets \cap M = {}
           /\ d.kind = "MINE" => d.targets \subseteq M
<1>1. \E s, t \in C :
        /\ s.cells \subseteq t.cells /\ d.targets = t.cells \ s.cells
        /\ \/ d.kind = "SAFE" /\ t.mines = s.mines
           \/ d.kind = "MINE" /\ t.mines - s.mines = Cardinality(t.cells \ s.cells)
    <2>1. \A S : Core(b, v)!Cardinality(S) = Cardinality(S)
        BY CoreCounts
    <2>2. \A p \in Core(b, v)!Nested(C) : p[1] \in C /\ p[2] \in C /\ p[1].cells \subseteq p[2].cells
        BY DEF Core!Nested
    <2>3. \E p \in Core(b, v)!Nested(C) :
            /\ d.targets = p[2].cells \ p[1].cells
            /\ \/ d.kind = "SAFE" /\ p[2].mines = p[1].mines
               \/ d.kind = "MINE" /\ p[2].mines - p[1].mines = Cardinality(p[2].cells \ p[1].cells)
        BY <2>1 DEF Core!Subsets, Core!Deduced
    <2> QED BY <2>2, <2>3
<1>2. PICK s \in C, t \in C :
        /\ s.cells \subseteq t.cells /\ d.targets = t.cells \ s.cells
        /\ \/ d.kind = "SAFE" /\ t.mines = s.mines
           \/ d.kind = "MINE" /\ t.mines - s.mines = Cardinality(t.cells \ s.cells)
    BY <1>1
<1>3. PICK more : more = t.cells \ s.cells
    OBVIOUS
<1>4. /\ s.cells \in SUBSET Cells /\ t.cells \in SUBSET Cells /\ more \in SUBSET Cells
      /\ s.mines = Cardinality(s.cells \cap M) /\ t.mines = Cardinality(t.cells \cap M)
    BY <1>3 DEF TrueOf
<1>5. Cardinality(t.cells \cap M) = Cardinality(s.cells \cap M) + Cardinality(more \cap M)
    <2>1. t.cells \cap M = (s.cells \cap M) \cup (more \cap M) /\ (s.cells \cap M) \cap (more \cap M) = {}
        BY <1>2, <1>3
    <2>2. s.cells \cap M \in SUBSET Cells /\ more \cap M \in SUBSET Cells
        BY <1>4
    <2> QED BY <2>1, <2>2, PartsAddUp
<1>6. Cardinality(s.cells \cap M) \in Nat /\ Cardinality(more \cap M) \in Nat
    BY <1>4, NoneOrAll
<1>7. t.mines - s.mines = Cardinality(more \cap M)
    BY <1>4, <1>5, <1>6
<1>8. t.mines = s.mines => Cardinality(more \cap M) = 0
    BY <1>4, <1>5, <1>6
<1>9. /\ Cardinality(more \cap M) = 0 => more \cap M = {}
      /\ Cardinality(more \cap M) = Cardinality(more) => more \subseteq M
    BY <1>4, NoneOrAll
<1>10. d.targets = more /\ ((d.kind = "SAFE" /\ t.mines = s.mines)
                             \/ (d.kind = "MINE" /\ t.mines - s.mines = Cardinality(more)))
    BY <1>2, <1>3
<1>11. CASE d.kind = "SAFE" /\ t.mines = s.mines
    BY <1>4, <1>8, <1>9, <1>10, <1>11
<1>12. CASE d.kind = "MINE" /\ t.mines - s.mines = Cardinality(more)
    BY <1>4, <1>7, <1>9, <1>10, <1>12
<1> QED
    BY <1>10, <1>11, <1>12

LEMMA TargetsAreTrue ==
    ASSUME NEW b, NEW v, NEW M, NEW C, TrueOf(C, M)
    PROVE  LET D == Core(b, v)!Deductions(C)
               S == Core(b, v)!Singles(C)
           IN  /\ Targets(D, "SAFE") \subseteq Cells \ M /\ Targets(D, "MINE") \subseteq Cells \cap M
               /\ Targets(S, "MINE") \subseteq Cells \cap M
<1>1. \A d \in Core(b, v)!Deductions(C) :
           /\ d.targets \subseteq Cells
           /\ d.kind = "SAFE" => d.targets \cap M = {}
           /\ d.kind = "MINE" => d.targets \subseteq M
    BY SinglesAreTrue, SubsetsAreTrue DEF Core!Deductions
<1>2. \A d \in Core(b, v)!Singles(C) :
           d.targets \subseteq Cells /\ (d.kind = "MINE" => d.targets \subseteq M)
    BY SinglesAreTrue
<1> QED
    BY <1>1, <1>2 DEF Targets

(* The clues that are seen tell the truth of the mines that are not proved.*)
LEMMA CluesAreTrue ==
    ASSUME NEW b, NEW v, NEW P \in SUBSET b.mines, b.mines \in SUBSET Cells, Open(v) \cap b.mines = {}
    PROVE  LET C == Core(b, v)!VisibleConstraints(P)
           IN  TrueOf(C, b.mines) /\ \A k \in C : k.cells \subseteq Cells \ (Open(v) \cup P)
<1> DEFINE M == b.mines
           near(c) == Core(b, v)!Near(c)
           rest(c) == near(c) \ (Open(v) \cup P)
<1>1. \A S : Core(b, v)!Cardinality(S) = Cardinality(S)
    BY CoreCounts
<1>2. /\ Core(b, v)!Revealed(v) = Open(v) /\ Core(b, v)!Cells = Cells
      /\ \A c : near(c) \subseteq Cells
    BY DEF Core!Revealed, Open, Core!Cells, Cells, Core!Near
<1>3. ASSUME NEW k \in Core(b, v)!VisibleConstraints(P)
      PROVE  \E c : /\ k.cells = rest(c)
                    /\ k.mines = Cardinality(near(c) \cap M) - Cardinality(near(c) \cap P)
    BY <1>1, <1>2 DEF Core!VisibleConstraints, Core!Adjacent
<1>4. ASSUME NEW c
      PROVE  Cardinality(rest(c) \cap M) = Cardinality(near(c) \cap M) - Cardinality(near(c) \cap P)
    <2>1. PICK N : N = near(c) /\ N \in SUBSET Cells
        BY <1>2
    <2>2. PICK R : R = rest(c) \cap M
        OBVIOUS
    <2>3. PICK Q : Q = N \cap P
        OBVIOUS
    <2>4. N \cap M = R \cup Q /\ R \cap Q = {} /\ R \in SUBSET Cells /\ Q \in SUBSET Cells
        BY <2>1, <2>2, <2>3
    <2>5. Cardinality(N \cap M) = Cardinality(R) + Cardinality(Q)
        BY <2>4, PartsAddUp
    <2>6. Cardinality(R) \in Nat /\ Cardinality(Q) \in Nat
        BY <2>4, CellsFinite
    <2>7. Cardinality(R) = Cardinality(N \cap M) - Cardinality(Q)
        BY <2>5, <2>6
    <2> QED BY <2>1, <2>2, <2>3, <2>7
<1>5. ASSUME NEW k \in Core(b, v)!VisibleConstraints(P)
      PROVE  k.cells \subseteq Cells \ (Open(v) \cup P) /\ k.mines = Cardinality(k.cells \cap M)
    <2>1. PICK c : /\ k.cells = rest(c)
                   /\ k.mines = Cardinality(near(c) \cap M) - Cardinality(near(c) \cap P)
        BY <1>3
    <2>2. rest(c) \subseteq Cells \ (Open(v) \cup P)
        BY <1>2
    <2> HIDE DEF near, rest
    <2> QED BY <2>1, <2>2, <1>4
<1> QED
    BY <1>5 DEF TrueOf

(* The complete analysis of a board that is not lost, for mines that were   *)
(* proved before, is right about the cells it proves.                       *)
LEMMA AnalysisIsSound ==
    ASSUME NEW b, NEW v, NEW P \in SUBSET b.mines, b.mines \in SUBSET Cells, Open(v) \cap b.mines = {}
    PROVE  /\ Core(b, v)!Analysis(P).safe \subseteq Cells \ b.mines
           /\ Core(b, v)!Analysis(P).mine \subseteq Cells \cap b.mines
<1> DEFINE C == Core(b, v)!VisibleConstraints(P)
           hidden == Core(b, v)!Hidden(P)
           frontier == UNION {k.cells : k \in C}
           free == hidden \ frontier
           total == Core(b, v)!Cardinality(b.mines) - Core(b, v)!Cardinality(P)
           sols == Core(b, v)!Solutions(C, frontier, free, total)
           inFree == {total - Core(b, v)!Cardinality(S) : S \in sols}
           D == Core(b, v)!Deductions(C)
           safe == Core(b, v)!Targets(D, "SAFE")
           mine == Core(b, v)!Targets(D, "MINE")
           A == Core(b, v)!Analysis(P)
           claims == Core(b, v)!Flagged(v) \ P
<1>11. A = IF total \in {0, Core(b, v)!Cardinality(hidden)}
           THEN [safe |-> safe \cup IF total = 0 THEN hidden ELSE {},
                 mine |-> mine \cup IF total = 0 THEN {} ELSE hidden,
                 possible |-> Core(b, v)!Cardinality(claims) <= total]
           ELSE [safe |-> safe \cup (IF inFree = {0} THEN free ELSE {})
                            \cup {c \in frontier : \A S \in sols : c \notin S},
                 mine |-> mine \cup (IF inFree = {Core(b, v)!Cardinality(free)} THEN free ELSE {})
                            \cup {c \in frontier : \A S \in sols : c \in S},
                 possible |-> \E S \in sols :
                            /\ claims \cap frontier \subseteq S
                            /\ Core(b, v)!Cardinality(claims \cap free) <= total - Core(b, v)!Cardinality(S)]
    BY Zenon DEF Core!Analysis
<1>1. /\ frontier = UNION {k.cells : k \in C} /\ free = hidden \ frontier
      /\ total = Core(b, v)!Cardinality(b.mines) - Core(b, v)!Cardinality(P)
      /\ inFree = {total - Core(b, v)!Cardinality(S) : S \in sols}
    OBVIOUS
<1>12. hidden = Cells \ (Open(v) \cup P)
    BY DEF Core!Hidden, Core!Revealed, Core!Cells, Open, Cells
<1>13. \A S : Core(b, v)!Cardinality(S) = Cardinality(S)
    BY CoreCounts
<1>14. PICK M : M = b.mines /\ M \in SUBSET Cells
    OBVIOUS
<1>15. TrueOf(C, M) /\ \A k \in C : k.cells \subseteq Cells \ (Open(v) \cup P)
    BY <1>14, CluesAreTrue
<1>16. frontier \subseteq hidden
    BY <1>12, <1>15
<1>17. total = Cardinality(b.mines) - Cardinality(P)
    BY <1>13
<1> HIDE DEF C, hidden, frontier, free, total, inFree, D, A, claims, safe, mine, sols
<1>18. /\ M \cap frontier \in sols
       /\ total - Cardinality(M \cap frontier) = Cardinality(free \cap M)
       /\ total = Cardinality(hidden \cap M)
    <2>1. P \in SUBSET M /\ Open(v) \cap M = {} /\ total = Cardinality(M) - Cardinality(P)
        BY <1>14, <1>17
    <2>2. PICK S : S = M \cap frontier
        OBVIOUS
    <2>3. PICK F : F = free \cap M
        OBVIOUS
    <2>4. PICK H : H = hidden \cap M
        OBVIOUS
    <2>5. /\ S \in SUBSET Cells /\ F \in SUBSET Cells /\ H \in SUBSET Cells /\ P \in SUBSET Cells
          /\ free \in SUBSET Cells
          /\ S \cap F = {} /\ S \cup F = H /\ H \cap P = {} /\ H \cup P = M
        BY <1>1, <1>12, <1>14, <1>16, <2>1, <2>2, <2>3, <2>4
    <2>6. /\ Cardinality(S) \in Nat /\ Cardinality(F) \in Nat /\ Cardinality(H) \in Nat
          /\ Cardinality(P) \in Nat /\ Cardinality(free) \in Nat
        BY <2>5, CellsFinite
    <2>7. Cardinality(H) = Cardinality(S) + Cardinality(F) /\ Cardinality(M) = Cardinality(H) + Cardinality(P)
        BY <2>5, PartsAddUp
    <2>8. Cardinality(F) <= Cardinality(free)
        BY <2>3, <2>5, NoneOrAll
    <2>9. total = Cardinality(H) /\ total - Cardinality(S) = Cardinality(F)
        BY <2>1, <2>6, <2>7
    <2>10. Cardinality(S) <= total /\ total <= Cardinality(S) + Cardinality(free)
        BY <2>6, <2>7, <2>8, <2>9
    <2>11. \A k \in C : Cardinality(S \cap k.cells) = k.mines
        <3> TAKE k \in C
        <3>1. S \cap k.cells = k.cells \cap M
            BY <1>1, <2>2
        <3> QED BY <1>15, <3>1 DEF TrueOf
    <2>12. S \in sols
        <3>1. S \in SUBSET frontier
            BY <2>2
        <3> QED BY <1>13, <2>10, <2>11, <3>1 DEF Core!Solutions, sols
    <2> QED BY <2>2, <2>3, <2>4, <2>9, <2>12
<1>19. safe \subseteq Cells \ M /\ mine \subseteq Cells \cap M
    <2>2. Targets(D, "SAFE") \subseteq Cells \ M /\ Targets(D, "MINE") \subseteq Cells \cap M
        BY <1>15, TargetsAreTrue DEF D
    <2>3. safe = Targets(D, "SAFE") /\ mine = Targets(D, "MINE")
        BY DEF Core!Targets, Targets, safe, mine
    <2> QED BY <2>2, <2>3
<1>20. hidden \in SUBSET Cells /\ free \in SUBSET Cells /\ frontier \in SUBSET Cells
    BY <1>1, <1>12, <1>16
<1>21. total = 0 => hidden \cap M = {}
    <2>1. Cardinality(hidden \cap M) = 0 => hidden \cap M = {}
        BY <1>20, NoneOrAll
    <2> QED BY <2>1, <1>18
<1>22. total = Cardinality(hidden) => hidden \subseteq M
    <2>1. Cardinality(hidden \cap M) = Cardinality(hidden) => hidden \subseteq M
        BY <1>20, NoneOrAll
    <2> QED BY <2>1, <1>18
<1>23. Cardinality(free \cap M) \in inFree
    <2>1. total - Cardinality(M \cap frontier) \in inFree
        BY <1>1, <1>13, <1>18
    <2> QED BY <2>1, <1>18
<1>24. inFree = {0} => free \cap M = {}
    <2>1. Cardinality(free \cap M) = 0 => free \cap M = {}
        BY <1>20, NoneOrAll
    <2> QED BY <2>1, <1>23
<1>25. inFree = {Cardinality(free)} => free \subseteq M
    <2>1. Cardinality(free \cap M) = Cardinality(free) => free \subseteq M
        BY <1>20, NoneOrAll
    <2> QED BY <2>1, <1>23
<1>26. CASE total \in {0, Cardinality(hidden)}
    <2>1. /\ A.safe = safe \cup IF total = 0 THEN hidden ELSE {}
          /\ A.mine = mine \cup IF total = 0 THEN {} ELSE hidden
        BY <1>11, <1>13, <1>26
    <2> QED BY <1>14, <1>19, <1>20, <1>21, <1>22, <1>26, <2>1 DEF A
<1>27. CASE total \notin {0, Cardinality(hidden)}
    <2>1. \A c \in A.safe : c \in Cells \ M
        BY <1>11, <1>13, <1>18, <1>19, <1>20, <1>24, <1>27
    <2>2. \A c \in A.mine : c \in Cells \cap M
        BY <1>11, <1>13, <1>18, <1>19, <1>20, <1>25, <1>27
    <2> QED BY <1>14, <2>1, <2>2 DEF A
<1> QED
    BY <1>26, <1>27 DEF A

(* A suggestion is right about the mines m, and advises no mark on a flag.  *)
Advises(s, m) ==
    /\ s.safe \subseteq Cells \ m /\ s.mine \subseteq Cells \cap m /\ s.direct \subseteq Cells \cap m
    /\ s.mine \cap s.seen.claims = {} /\ s.direct \cap s.seen.claims = {}

LEMMA SuggestionAdvises ==
    ASSUME NEW g, NEW seen, g.board.mines \in SUBSET Cells, Open(g.sight) \cap g.board.mines = {},
           seen.proven \in SUBSET g.board.mines
    PROVE  Advises(Suggestion(g, seen), g.board.mines)
<1> DEFINE b == g.board
           v == g.sight
           P == seen.proven
           M == g.board.mines
           C == Core(b, v)!VisibleConstraints(P)
           D == Core(b, v)!Deductions(C)
           E == Core(b, v)!Singles(C)
           A == Core(b, v)!Analysis(P)
           s == Suggestion(g, seen)
<1>1. A.safe \subseteq Cells \ M /\ A.mine \subseteq Cells \cap M
    BY AnalysisIsSound
<1>2. TrueOf(C, M)
    BY CluesAreTrue
<1>3. /\ Targets(D, "SAFE") \subseteq Cells \ M /\ Targets(D, "MINE") \subseteq Cells \cap M
      /\ Targets(E, "MINE") \subseteq Cells \cap M
    <2> HIDE DEF C
    <2> QED BY <1>2, TargetsAreTrue
<1>4. \E partial, refused :
        s = [seen |-> seen, contradiction |-> refused,
             safe |-> IF refused THEN {} ELSE IF partial THEN Targets(D, "SAFE") ELSE A.safe,
             mine |-> IF refused THEN {} ELSE (IF partial THEN Targets(D, "MINE") ELSE A.mine) \ seen.claims,
             direct |-> IF refused THEN {} ELSE Targets(E, "MINE") \ seen.claims]
    BY DEF Suggestion
<1> HIDE DEF C, D, E, A, s
<1>5. PICK partial, refused :
        s = [seen |-> seen, contradiction |-> refused,
             safe |-> IF refused THEN {} ELSE IF partial THEN Targets(D, "SAFE") ELSE A.safe,
             mine |-> IF refused THEN {} ELSE (IF partial THEN Targets(D, "MINE") ELSE A.mine) \ seen.claims,
             direct |-> IF refused THEN {} ELSE Targets(E, "MINE") \ seen.claims]
    BY <1>4
<1>6. /\ s.seen = seen
      /\ s.safe \in {{}, Targets(D, "SAFE"), A.safe}
      /\ s.mine \in {{}, Targets(D, "MINE") \ seen.claims, A.mine \ seen.claims}
      /\ s.direct \in {{}, Targets(E, "MINE") \ seen.claims}
    BY <1>5
<1>7. Advises(s, M)
    BY <1>1, <1>3, <1>6 DEF Advises
<1> QED
    BY <1>7 DEF s

-----------------------------------------------------------------------------
(* What the player and the coach do to a board.                            *)
Marking == {"HIDDEN", "REVEALED", "FLAGGED", "QUESTIONED"}
Sights == [Cells -> Marking]
BoardFits(b) == b.mines \in SUBSET Cells

(* A game whose mines stay covered until it is lost.                       *)
GoodGame(g) ==
    /\ GameFits(g) /\ g.sight \in Sights /\ BoardFits(g.board)
    /\ g.outcome # "LOST" => Open(g.sight) \cap g.board.mines = {}

LEMMA MarkFits ==
    ASSUME NEW mark \in Marking, NEW asks
    PROVE  NextMark(mark, asks) \in Marking /\ (NextMark(mark, asks) = "REVEALED" <=> mark = "REVEALED")
BY DEF NextMark, Marking

LEMMA AfterGood ==
    ASSUME NEW g, NEW S, GoodGame(g), g.outcome = "PLAYING"
    PROVE  GoodGame(After(g, S))
<1>1. PICK sight : sight = [c \in Cells |-> IF c \in S THEN "REVEALED" ELSE g.sight[c]]
    OBVIOUS
<1>2. PICK h : h = After(g, S)
    OBVIOUS
<1>3. GameFits(h) /\ h.board = g.board
    BY <1>2, AfterKeeps DEF GoodGame
<1>4. /\ h.sight = sight
      /\ h.outcome # "LOST" => S \cap g.board.mines = {}
    BY <1>1, <1>2 DEF After, GoodGame, GameFits
<1>5. sight \in Sights
    BY <1>1 DEF GoodGame, Sights, Marking
<1>6. Open(sight) \subseteq Open(g.sight) \cup S
    BY <1>1 DEF Open
<1> QED
    BY <1>2, <1>3, <1>4, <1>5, <1>6 DEF GoodGame

(* A flag is set or removed on one cell, and ends no game.                 *)
LEMMA FlagGood ==
    ASSUME NEW g, NEW c, NEW asks, GoodGame(g), NEW h, h = Result(g, "TOGGLE_FLAG", c, asks)
    PROVE  /\ GoodGame(h) /\ h.outcome = g.outcome
           /\ \A d \in Cells : d # c => h.sight[d] = g.sight[d]
<1>1. PICK sight : sight = [d \in Cells |-> IF d = c THEN NextMark(g.sight[c], asks) ELSE g.sight[d]]
    OBVIOUS
<1>2. h = g \/ h = [g EXCEPT !.sight = sight]
    BY <1>1 DEF Result
<1>3. GameFits(g) /\ g.sight \in Sights
    BY DEF GoodGame
<1>4. sight \in Sights /\ Open(sight) = Open(g.sight)
    <2>1. \A d \in Cells : /\ sight[d] \in Marking /\ (sight[d] = "REVEALED" <=> g.sight[d] = "REVEALED")
        BY <1>1, <1>3, MarkFits DEF Sights
    <2>2. sight = [d \in Cells |-> sight[d]]
        BY <1>1
    <2> QED BY <2>1, <2>2 DEF Sights, Open
<1>5. ASSUME h = [g EXCEPT !.sight = sight]
      PROVE  h.sight = sight /\ h.board = g.board /\ h.outcome = g.outcome /\ GameFits(h)
    BY <1>3, <1>5 DEF GameFits
<1>6. CASE h = g
    BY <1>6
<1>7. CASE h = [g EXCEPT !.sight = sight]
    BY <1>1, <1>4, <1>5, <1>7 DEF GoodGame
<1> QED
    BY <1>2, <1>6, <1>7

LEMMA ResultGood ==
    ASSUME NEW g, NEW action, NEW c, NEW asks, GoodGame(g), NEW h, h = Result(g, action, c, asks)
    PROVE  GoodGame(h) /\ h.board = g.board
<1>1. h.board = g.board
    BY ResultKeeps DEF GoodGame
<1>2. CASE g.outcome # "PLAYING"
    BY <1>2 DEF Result
<1>3. CASE g.outcome = "PLAYING" /\ action = "TOGGLE_FLAG"
    BY <1>1, <1>3, FlagGood
<1>4. CASE g.outcome = "PLAYING" /\ action # "TOGGLE_FLAG"
    <2>1. h = g \/ \E S : h = After(g, S)
        BY <1>4 DEF Result
    <2> QED BY <1>1, <1>4, <2>1, AfterGood
<1> QED
    BY <1>2, <1>3, <1>4, <1>1

(* What the coach did of what is recorded, it did right.                   *)
RightEvent(e, m) ==
    e.type = "COACH_ACTION" =>
        /\ e.action = "FLAG" <=> e.cell \in m
        /\ e.action = "UNFLAG" <=> e.pre.sight[e.cell] = "FLAGGED"
RightLog(r, m) == \A i \in 1 .. Len(r.log) : RightEvent(r.log[i], m)

LEMMA LogGrows ==
    ASSUME NEW r, NEW e, NEW m, NEW next, ReplayFits(r), RightLog(r, m), RightEvent(e, m)
    PROVE  /\ ReplayFits(Led(r, e, next)) /\ RightLog(Led(r, e, next), m)
           /\ ReplayFits(Recorded(r, e)) /\ RightLog(Recorded(r, e), m)
<1>1. PICK s : s = Led(r, e, next)
    OBVIOUS
<1>2. /\ ReplayFits(s) /\ ReplayFits(Recorded(r, e)) /\ Recorded(r, e).log = s.log
      /\ s.full \/ s.log = Append(r.log, e)
    BY <1>1, RecordedKeeps
<1>3. s.log = r.log \/ s.log = Append(r.log, e)
    <2>1. Len(r.log) < ReplayLimit \/ ~(Len(r.log) < ReplayLimit)
        OBVIOUS
    <2> QED BY <1>1, <2>1 DEF Led, Recorded, ReplayFits
<1>4. RightLog(s, m)
    <2>1. CASE s.log = r.log
        BY <2>1 DEF RightLog
    <2>2. CASE s.log = Append(r.log, e)
        <3>1. PICK S : r.log \in Seq(S)
            BY DEF ReplayFits
        <3>2. \A i \in 1 .. Len(s.log) : s.log[i] = e \/ (i \in 1 .. Len(r.log) /\ s.log[i] = r.log[i])
            BY <2>2, <3>1
        <3> QED BY <3>2 DEF RightLog
    <2> QED BY <1>3, <2>1, <2>2
<1> QED
    BY <1>1, <1>2, <1>4 DEF RightLog

(* A game, its replay and its coach, all of them right about the mines m.  *)
Sane(x, m) ==
    /\ DOMAIN x = {"game", "replay", "help"} /\ DOMAIN x.help = DOMAIN NoHelp
    /\ GoodGame(x.game) /\ x.game.board.mines = m
    /\ ReplayFits(x.replay) /\ RightLog(x.replay, m)
    /\ x.help.auto \subseteq m
    /\ x.help.analysis # None => Advises(x.help.analysis, m)

LEMMA CoachedSane ==
    ASSUME NEW x, NEW m, NEW trigger, NEW action, NEW c, Sane(x, m),
           action = "FLAG" <=> c \in m, action = "UNFLAG" <=> x.game.sight[c] = "FLAGGED",
           trigger = "AUTO_MARK" => action = "FLAG",
           NEW y, y = Coached(x, trigger, action, c)
    PROVE  Sane(y, m)
<1>1. PICK asked, a : asked = FALSE /\ a = IF action = "REVEAL" THEN "REVEAL" ELSE "TOGGLE_FLAG"
    OBVIOUS
<1>2. PICK next : next = Result(x.game, a, c, asked)
    OBVIOUS
<1>3. PICK e : e = CoachEvent(trigger, action, c, x.game, Visible(x.game, x.help.auto))
    OBVIOUS
<1>4. PICK opened : opened = OpensSafe(x.game, next)
    OBVIOUS
<1>5. PICK h : h = [x.help EXCEPT
                 !.analysis = None,
                 !.auto = IF trigger = "AUTO_MARK" THEN @ \cup {c}
                          ELSE IF action = "UNFLAG" THEN @ \ {c} ELSE @,
                 !.suppressed = IF opened THEN {} ELSE @,
                 !.evidence = IF opened THEN None ELSE @]
    OBVIOUS
<1>6. y = x \/ y = [game |-> next, replay |-> Led(x.replay, e, next), help |-> h]
    BY <1>1, <1>2, <1>3, <1>4, <1>5 DEF Coached, Led
<1>7. RightEvent(e, m)
    BY <1>3 DEF RightEvent, CoachEvent
<1>8. ReplayFits(Led(x.replay, e, next)) /\ RightLog(Led(x.replay, e, next), m)
    BY <1>7, LogGrows DEF Sane
<1>9. GoodGame(next) /\ next.board = x.game.board
    BY <1>2, ResultGood DEF Sane
<1>11. DOMAIN h = DOMAIN NoHelp /\ h.analysis = None /\ h.auto \subseteq m
    <2>1. DOMAIN x.help = {"analysis", "manual", "shown", "auto", "autoOn", "suppressed", "evidence"}
          /\ x.help.auto \subseteq m /\ DOMAIN NoHelp = DOMAIN x.help
        BY DEF Sane, NoHelp
    <2>2. PICK auto : auto = IF trigger = "AUTO_MARK" THEN x.help.auto \cup {c}
                             ELSE IF action = "UNFLAG" THEN x.help.auto \ {c} ELSE x.help.auto
        OBVIOUS
    <2>3. auto \subseteq m
        BY <2>1, <2>2
    <2>4. DOMAIN h = DOMAIN x.help /\ h.analysis = None /\ h.auto = auto
        BY <1>5, <2>1, <2>2
    <2> QED BY <2>1, <2>3, <2>4
<1>12. CASE y = x
    BY <1>12
<1>13. CASE y = [game |-> next, replay |-> Led(x.replay, e, next), help |-> h]
    BY <1>8, <1>9, <1>11, <1>13 DEF Sane
<1> QED
    BY <1>6, <1>12, <1>13

LEMMA CoachedFlags ==
    ASSUME NEW x, NEW c, NEW trigger, GoodGame(x.game),
           NEW y, y = Coached(x, trigger, "FLAG", c)
    PROVE  /\ y.game.outcome = x.game.outcome
           /\ \A d \in Cells : d # c => y.game.sight[d] = x.game.sight[d]
<1>1. PICK asked : asked = FALSE
    OBVIOUS
<1>2. PICK next : next = Result(x.game, "TOGGLE_FLAG", c, asked)
    OBVIOUS
<1>3. y = x \/ y.game = next
    BY <1>1, <1>2 DEF Coached
<1>4. /\ next.outcome = x.game.outcome
      /\ \A d \in Cells : d # c => next.sight[d] = x.game.sight[d]
    BY <1>2, FlagGood
<1> QED
    BY <1>3, <1>4

(* The cells of a board are numbered, each once.                           *)
LEMMA CellsAreNumbered ==
    ASSUME NEW k \in 1 .. Width * Height, NEW n \in 1 .. Width * Height, CellOf(k) = CellOf(n)
    PROVE  k = n
<1>1. Width \in Nat \ {0} /\ Width * Height \in Nat
    BY SoloAssumption
<1>2. PICK i, j : i = k - 1 /\ j = n - 1 /\ i \in Nat /\ j \in Nat
    BY <1>1
<1>3. i % Width = j % Width /\ i \div Width = j \div Width
    BY <1>2 DEF CellOf
<1>4. i = (Width * (i \div Width)) + (i % Width) /\ j = (Width * (j \div Width)) + (j % Width)
    BY <1>1, <1>2
<1> QED
    BY <1>1, <1>2, <1>3, <1>4

LEMMA BatchSane ==
    ASSUME NEW x, NEW m, NEW S, Sane(x, m), S \subseteq Cells \cap m, S \cap Flags(x.game.sight) = {}
    PROVE  Sane(Batch(x, S), m) /\ Batch(x, S).game.outcome = x.game.outcome
<1> DEFINE N == Width * Height
           f == RunOf(N, "BATCH", x, S)
           Good(n) == /\ Sane(f[n], m) /\ f[n].game.outcome = x.game.outcome
                      /\ \A k \in n + 1 .. N : CellOf(k) \in Cells =>
                             f[n].game.sight[CellOf(k)] = x.game.sight[CellOf(k)]
           Bad == {n \in 0 .. N : ~Good(n)}
<1>1. N \in Nat
    BY SizeIsNat
<1>2. f[0] = x /\ \A n \in 1 .. N : f[n] = Turn("BATCH", x, S, f[n - 1], n)
    <2>1. Start("BATCH", x, S) = x
        BY DEF Start
    <2> HIDE DEF N
    <2> QED BY <1>1, <2>1, RunUnfolds
<1>3. Batch(x, S) = f[N]
    BY BatchIsRun
<1>4. \A k, n \in 1 .. N : CellOf(k) = CellOf(n) => k = n
    BY CellsAreNumbered
<1> HIDE DEF f, N
<1>5. ASSUME NEW n \in 1 .. N, Good(n - 1) PROVE Good(n)
    <2>1. PICK y : y = f[n - 1]
        OBVIOUS
    <2>2. PICK z : z = f[n]
        OBVIOUS
    <2>3. PICK c : c = CellOf(n)
        OBVIOUS
    <2>4. z = IF c \in S THEN Coached(y, "AUTO_MARK", "FLAG", c) ELSE y
        BY <1>2, <2>1, <2>2, <2>3 DEF Turn
    <2>5. /\ Sane(y, m) /\ y.game.outcome = x.game.outcome
          /\ \A k \in n .. N : CellOf(k) \in Cells => y.game.sight[CellOf(k)] = x.game.sight[CellOf(k)]
        BY <1>1, <1>5, <2>1
    <2>6. CASE c \notin S
        BY <1>1, <2>2, <2>4, <2>5, <2>6
    <2>7. CASE c \in S
        <3>1. c \in Cells /\ c \in m /\ y.game.sight[c] # "FLAGGED"
            BY <1>1, <2>3, <2>5, <2>7 DEF Flags
        <3>2. /\ Sane(z, m) /\ z.game.outcome = y.game.outcome
              /\ \A d \in Cells : d # c => z.game.sight[d] = y.game.sight[d]
            <4>1. PICK action, trigger : action = "FLAG" /\ trigger = "AUTO_MARK"
                OBVIOUS
            <4>2. z = Coached(y, trigger, action, c)
                BY <2>4, <2>7, <4>1
            <4>3. Sane(z, m)
                BY <2>5, <3>1, <4>1, <4>2, CoachedSane
            <4>4. GoodGame(y.game) /\ z = Coached(y, trigger, "FLAG", c)
                BY <2>5, <4>1, <4>2 DEF Sane
            <4> QED BY <4>3, <4>4, CoachedFlags
        <3>3. ASSUME NEW k \in n + 1 .. N, CellOf(k) \in Cells
              PROVE  z.game.sight[CellOf(k)] = x.game.sight[CellOf(k)]
            <4>1. k \in 1 .. N /\ k # n /\ k \in n .. N
                BY <1>1
            <4>2. CellOf(k) # c
                BY <1>4, <2>3, <4>1
            <4> QED BY <2>5, <3>2, <3>3, <4>1, <4>2
        <3> QED BY <2>2, <2>5, <3>2, <3>3
    <2> QED BY <2>6, <2>7
<1>6. Good(0)
    BY <1>2
<1> HIDE DEF Good
<1>7. Bad = {}
    <2> SUFFICES ASSUME Bad # {} PROVE FALSE
        OBVIOUS
    <2>1. PICK i \in Bad : \A n \in Bad : ~(n < i)
        <3>1. Bad \in SUBSET Nat
            BY <1>1
        <3> HIDE DEF Bad
        <3> QED BY <3>1, LeastOf, Zenon
    <2>2. CASE i = 0
        BY <2>1, <2>2, <1>6
    <2>3. CASE i # 0
        <3>1. i \in 1 .. N /\ i - 1 \in 0 .. N /\ i - 1 < i
            BY <1>1, <2>1, <2>3
        <3>2. Good(i - 1)
            BY <2>1, <3>1
        <3> QED BY <1>5, <2>1, <3>1, <3>2
    <2> QED BY <2>2, <2>3
<1>8. Good(N)
    BY <1>1, <1>7
<1> QED
    BY <1>3, <1>8 DEF Good

LEMMA AutomaticBatchSane ==
    ASSUME NEW x, NEW m, NEW s, Sane(x, m), Advises(s, m), NEW y, y = AutomaticBatch(x, s)
    PROVE  Sane(y, m) /\ y.game.outcome = x.game.outcome
<1>1. PICK S : S = IF Applicable(s, x.game, x.help.auto) THEN s.direct \ x.help.suppressed ELSE {}
    OBVIOUS
<1>2. S \subseteq Cells \cap m /\ S \cap Flags(x.game.sight) = {}
    BY <1>1 DEF Applicable, Visible, Advises
<1>3. PICK z : z = [x EXCEPT !.help.evidence = Clues(x.game)]
    OBVIOUS
<1>4. y = x \/ y = Batch(z, S)
    BY <1>1, <1>3 DEF AutomaticBatch
<1>5. Sane(z, m) /\ z.game = x.game
    BY <1>3 DEF Sane, NoHelp
<1> QED
    <2>1. S \cap Flags(z.game.sight) = {}
        BY <1>2, <1>5
    <2>2. Sane(Batch(z, S), m) /\ Batch(z, S).game.outcome = z.game.outcome
        BY <1>2, <1>5, <2>1, BatchSane
    <2> QED BY <1>4, <1>5, <2>2

(* The coach is right at all times, and so are the answers it waits for    *)
(* and the game that is kept before a mine.                                *)
LiveFit(J, m) == \A j \in J : j.what = "COACH" /\ j.live => Advises(j.answer, m)
Wise ==
    /\ DOMAIN help = DOMAIN NoHelp
    /\ again # None => BoardFits(again)
    /\ game.sight \in Sights
    /\ status \notin Outcomes => help.auto = {}
    /\ status \in Outcomes => Sane(Current, game.board.mines) /\ LiveFit(jobs, game.board.mines)
    /\ status = "PLAYING" => game.outcome = "PLAYING"
    /\ back # None => /\ GoodGame(back.game) /\ back.game.outcome = "PLAYING"
                      /\ RightLog(back.replay, game.board.mines)

LEMMA CurrentIs ==
    /\ Current.game = game /\ Current.replay = replay /\ Current.help = help
    /\ DOMAIN Current = {"game", "replay", "help"}
BY DEF Current

(* Steps of a game that is on or has ended.                                *)
LEMMA StillWise ==
    ASSUME Wise, status \in Outcomes, status' \in Outcomes,
           NEW x, Sane(x, game.board.mines), game' = x.game, replay' = x.replay, help' = x.help,
           status' = "PLAYING" => game'.outcome = "PLAYING", UNCHANGED again,
           LiveFit(jobs', game.board.mines),
           back' = back \/ /\ GoodGame(back'.game) /\ back'.game.outcome = "PLAYING"
                           /\ RightLog(back'.replay, game.board.mines)
    PROVE  Wise'
<1>1. game'.board.mines = game.board.mines /\ GoodGame(game')
    BY DEF Sane
<1>2. Current' = [game |-> game', replay |-> replay', help |-> help']
    BY DEF Current
<1>3. Sane(Current', game.board.mines)
    BY <1>2 DEF Sane
<1>4. DOMAIN help' = DOMAIN NoHelp /\ game'.sight \in Sights
    BY <1>1 DEF Sane, GoodGame
<1>5. back' # None => /\ GoodGame(back'.game) /\ back'.game.outcome = "PLAYING"
                      /\ RightLog(back'.replay, game'.board.mines)
    BY <1>1 DEF Wise
<1>6. again' # None => BoardFits(again')
    BY DEF Wise
<1> QED
    BY <1>1, <1>3, <1>4, <1>5, <1>6 DEF Wise

(* Steps that leave the game, its replay and the coach as they are.        *)
LEMMA SameWise ==
    ASSUME Wise, UNCHANGED <<status, game, again, replay, back, help>>,
           \A j \in jobs' : j \in jobs \/ ~j.live
    PROVE  Wise'
<1>1. Current' = Current
    BY DEF Current
<1>2. \A m : LiveFit(jobs, m) => LiveFit(jobs', m)
    BY DEF LiveFit
<1> QED
    BY <1>1, <1>2 DEF Wise

LEMMA CancelledLive ==
    ASSUME Inv, NEW what, NEW m, LiveFit(jobs, m)
    PROVE  /\ LiveFit(Cancelled(what), m)
           /\ \A j \in Cancelled(what) : j \in jobs \/ ~j.live
<1>1. \A j \in Cancelled(what) : j \in jobs \/ ~j.live
    BY CancelledAreLate DEF Inv
<1> QED
    BY <1>1 DEF LiveFit

(* Setting up.                                                             *)
LEMMA BlankFits == Blank \in Sights
BY DEF Blank, Sights, Marking

LEMMA ResetWise ==
    ASSUME Wise, NEW k, NEW m, ResetTo(k, m), game'.sight = Blank, again' # None => BoardFits(again')
    PROVE  Wise'
<1>1. status' = "READY" /\ back' = None /\ help' = NoHelp
    BY DEF ResetTo
<1>2. NoHelp.auto = {} /\ "READY" \notin Outcomes /\ "READY" # "PLAYING"
    BY DEF NoHelp, Outcomes
<1>3. game'.sight \in Sights
    BY BlankFits
<1> QED
    BY <1>1, <1>2, <1>3 DEF Wise

LEMMA SetUpWise ==
    ASSUME Inv, Wise,
           \/ \E k, m : Reset(k, m)
           \/ ReplaySameBoard
           \/ \E c \in Cells : MarkEarly(c)
           \/ \E j \in jobs : GenerationFails(j)
    PROVE  Wise'
<1>1. "READY" \notin Outcomes /\ "GENERATING" \notin Outcomes /\ Terminal \subseteq Outcomes
    BY DEF Outcomes, Terminal
<1>2. ASSUME NEW k, NEW m, Reset(k, m) PROVE Wise'
    <2>1. ResetTo(k, m) /\ game'.sight = Blank /\ again' = None
        BY <1>2 DEF Reset, NoGame
    <2> QED BY <2>1, ResetWise
<1>3. CASE ReplaySameBoard
    <2>1. PICK k, m : k = kind /\ m = mode
        OBVIOUS
    <2>2. ResetTo(k, m) /\ game'.sight = Blank /\ again' = game.board /\ status \in Terminal
        BY <1>3, <2>1 DEF ReplaySameBoard, NoGame
    <2>3. BoardFits(game.board)
        BY <1>1, <2>2, CurrentIs DEF Wise, Sane, GoodGame
    <2> QED BY <2>2, <2>3, ResetWise
<1>4. ASSUME NEW c \in Cells, MarkEarly(c) PROVE Wise'
    <2>1. /\ status = "READY" /\ game' = [game EXCEPT !.sight[c] = NextMark(@, questions)]
          /\ UNCHANGED <<status, again, back, help>>
        BY <1>4 DEF MarkEarly
    <2>2. GameFits(game) /\ game.sight \in Sights
        BY DEF Inv, Typed, Wise
    <2>3. NextMark(game.sight[c], questions) \in Marking
        BY <2>2, MarkFits DEF Sights
    <2>4. game'.sight \in Sights /\ game'.board = game.board
        BY <2>1, <2>2, <2>3 DEF Sights, GameFits
    <2>5. back = None
        BY <2>1 DEF Inv, Waiting
    <2> QED BY <1>1, <2>1, <2>4, <2>5 DEF Wise
<1>5. ASSUME NEW j \in jobs, GenerationFails(j) PROVE Wise'
    <2>1. status' = "READY" /\ UNCHANGED <<game, again, back, help>> /\ j.what = "GENERATE" /\ j.live
        BY <1>5 DEF GenerationFails, BackToReady
    <2>2. status = "GENERATING"
        BY <2>1 DEF Inv, JobsFit, JobFits
    <2> QED BY <1>1, <2>1, <2>2 DEF Wise
<1> QED
    BY <1>2, <1>3, <1>4, <1>5

(* Beginning a game.                                                       *)
LEMMA BeginWise ==
    ASSUME Inv, Wise, NEW b, NEW c, NEW flags, Begin(b, c, flags), status \notin Outcomes,
           status \in {"READY", "GENERATING"}, BoardFits(b),
           again' = None \/ again' = again, jobs' \subseteq jobs
    PROVE  Wise'
<1>1. PICK first : first = [board |-> b, outcome |-> "PLAYING", sight |->
                      [d \in Cells |-> IF d \in flags THEN "FLAGGED"
                                       ELSE IF game.sight[d] = "QUESTIONED" THEN "QUESTIONED" ELSE "HIDDEN"]]
    OBVIOUS
<1>2. PICK next : next = Result(first, "REVEAL", c, questions)
    OBVIOUS
<1>3. PICK r : r = [replay EXCEPT !.initial = first.sight, !.last = first]
    OBVIOUS
<1>4. PICK e : e = PlayerEvent("REVEAL", c, r.last)
    OBVIOUS
<1>5. /\ game' = next /\ replay' = Led(r, e, next) /\ status' = next.outcome
      /\ UNCHANGED <<back, help>>
    BY <1>1, <1>2, <1>3, <1>4 DEF Begin, Finish, RecordAction, Led
<1>6. replay = Fresh /\ back = None /\ help.analysis = None /\ help.auto = {} /\ DOMAIN help = DOMAIN NoHelp
    BY DEF Inv, Waiting, Wise
<1>7. r = [initial |-> first.sight, log |-> <<>>, last |-> first, full |-> FALSE]
    BY <1>3, <1>6 DEF Fresh
<1>8. ReplayFits(r) /\ \A m : RightLog(r, m)
    BY <1>7, FreshFits DEF ReplayFits, Fresh, RightLog
<1>9. GoodGame(first) /\ first.board = b
    <2>1. GameFits(first) /\ first.board = b /\ first.sight \in Sights
        BY <1>1 DEF GameFits, Outcomes, Sights, Marking
    <2>2. Open(first.sight) = {}
        BY <1>1 DEF Open
    <2> QED BY <2>1, <2>2 DEF GoodGame
<1>10. GoodGame(next) /\ next.board = b
    BY <1>2, <1>9, ResultGood
<1>11. \A m : RightEvent(e, m)
    BY <1>4 DEF PlayerEvent, RightEvent
<1>12. ReplayFits(replay') /\ RightLog(replay', b.mines)
    BY <1>5, <1>8, <1>11, LogGrows
<1>13. Current' = [game |-> game', replay |-> replay', help |-> help']
    BY DEF Current
<1>14. Sane(Current', game'.board.mines)
    BY <1>5, <1>6, <1>10, <1>12, <1>13 DEF Sane
<1>15. LiveFit(jobs', game'.board.mines)
    <2>1. \A j \in jobs' : ~(j.what = "COACH" /\ j.live)
        BY DEF Inv, JobsFit, JobFits
    <2> QED BY <2>1 DEF LiveFit
<1>16. game'.sight \in Sights /\ status' \in Outcomes
    BY <1>5, <1>10 DEF GoodGame, GameFits
<1>17. again' # None => BoardFits(again')
    BY DEF Wise
<1> QED
    BY <1>5, <1>6, <1>14, <1>15, <1>16, <1>17 DEF Wise

LEMMA BoardsFit == ASSUME NEW c, NEW b \in Boards(c) PROVE BoardFits(b)
BY DEF Boards, BoardFits

LEMMA ClickWise ==
    ASSUME Inv, Wise, NEW c \in Cells, ClickFirst(c)
    PROVE  Wise'
<1>1. status = "READY" /\ again' = None /\ "READY" \notin Outcomes /\ "GENERATING" \notin Outcomes
    BY DEF ClickFirst, Outcomes
<1>2. PICK flags : flags = Flags(game.sight)
    OBVIOUS
<1>3. \/ again # None /\ Begin(again, c, flags) /\ UNCHANGED jobs
      \/ (\E b \in Boards(c) : Begin(b, c, flags)) /\ UNCHANGED jobs
      \/ status' = "GENERATING" /\ UNCHANGED <<game, back, help>>
    BY <1>2 DEF ClickFirst
<1>4. CASE again # None /\ Begin(again, c, flags) /\ UNCHANGED jobs
    <2>1. PICK b : b = again
        OBVIOUS
    <2>2. BoardFits(b)
        BY <1>4, <2>1 DEF Wise
    <2> QED BY <1>1, <1>4, <2>1, <2>2, BeginWise
<1>5. CASE (\E b \in Boards(c) : Begin(b, c, flags)) /\ UNCHANGED jobs
    BY <1>1, <1>5, BoardsFit, BeginWise
<1>6. CASE status' = "GENERATING" /\ UNCHANGED <<game, back, help>>
    BY <1>1, <1>6 DEF Wise
<1> QED
    BY <1>3, <1>4, <1>5, <1>6

LEMMA GenerationWise ==
    ASSUME Inv, Wise, NEW j \in jobs, GenerationSucceeds(j)
    PROVE  Wise'
<1>1. j.what = "GENERATE" /\ j.live /\ jobs' \subseteq jobs /\ again' = again
    BY DEF GenerationSucceeds, IsNewest
<1>2. status = "GENERATING" /\ "GENERATING" \notin Outcomes
    BY <1>1 DEF Inv, JobsFit, JobFits, Outcomes
<1>3. PICK b \in Boards(j.cell) : Begin(b, j.cell, j.flags)
    BY DEF GenerationSucceeds
<1>4. BoardFits(b)
    BY BoardsFit
<1>5. PICK c, flags : c = j.cell /\ flags = j.flags
    OBVIOUS
<1> QED
    BY <1>1, <1>2, <1>3, <1>4, <1>5, BeginWise

LEMMA NowSane ==
    ASSUME Wise, status \in Outcomes
    PROVE  /\ Sane(Current, game.board.mines) /\ LiveFit(jobs, game.board.mines)
           /\ GoodGame(game) /\ ReplayFits(replay) /\ RightLog(replay, game.board.mines)
           /\ DOMAIN help = DOMAIN NoHelp
           /\ help.auto \subseteq game.board.mines
           /\ help.analysis # None => Advises(help.analysis, game.board.mines)
BY CurrentIs DEF Wise, Sane

(* A state of the game, of what is recorded and of what the coach keeps.   *)
LEMMA SaneOf ==
    ASSUME NEW g, NEW r, NEW h, NEW m,
           GoodGame(g), g.board.mines = m, ReplayFits(r), RightLog(r, m), DOMAIN h = DOMAIN NoHelp,
           h.auto \subseteq m, h.analysis # None => Advises(h.analysis, m),
           NEW x, x = [game |-> g, replay |-> r, help |-> h]
    PROVE  Sane(x, m) /\ x.game = g /\ x.replay = r /\ x.help = h
BY DEF Sane

LEMMA HelpDomain == DOMAIN NoHelp = {"analysis", "manual", "shown", "auto", "autoOn", "suppressed", "evidence"}
BY DEF NoHelp

LEMMA ActWise ==
    ASSUME Inv, Wise, NEW action, NEW c, Act(action, c)
    PROVE  Wise'
<1>1. status = "PLAYING" /\ status \in Outcomes /\ game.outcome = "PLAYING"
    BY DEF Act, Outcomes, Wise
<1>2. PICK m : m = game.board.mines
    OBVIOUS
<1>3. PICK asks : asks = questions
    OBVIOUS
<1>4. PICK next : next = Result(game, action, c, asks)
    OBVIOUS
<1>5. PICK e : e = PlayerEvent(action, c, replay.last)
    OBVIOUS
<1>6. /\ game' = next /\ replay' = Led(replay, e, next) /\ status' = next.outcome
      /\ UNCHANGED <<again, jobs>>
      /\ back' = back \/ back' = [game |-> game, replay |-> replay]
    BY <1>3, <1>4, <1>5 DEF Act, Finish, RecordAction, Led
<1>7. /\ GoodGame(game) /\ ReplayFits(replay) /\ RightLog(replay, m) /\ LiveFit(jobs, m)
      /\ DOMAIN help = DOMAIN NoHelp
      /\ help.auto \subseteq m
      /\ help.analysis # None => Advises(help.analysis, m)
    BY <1>1, <1>2, NowSane
<1>8. GoodGame(next) /\ next.board = game.board
    BY <1>4, <1>7, ResultGood
<1>9. RightEvent(e, m)
    BY <1>5 DEF PlayerEvent, RightEvent
<1>10. ReplayFits(replay') /\ RightLog(replay', m)
    BY <1>6, <1>7, <1>9, LogGrows
<1>11. DOMAIN help' = DOMAIN NoHelp /\ help'.auto \subseteq m
       /\ (help'.analysis # None => Advises(help'.analysis, m))
    <2>1. \E evidence, suppressed, removed :
             help' = help \/ help' = [help EXCEPT !.evidence = evidence, !.suppressed = suppressed,
                                                  !.auto = @ \ removed]
        BY DEF Act
    <2> QED BY <1>7, <2>1, HelpDomain
<1>12. PICK x : x = [game |-> game', replay |-> replay', help |-> help']
    OBVIOUS
<1>13. Sane(x, m) /\ x.game = game' /\ x.replay = replay' /\ x.help = help'
    BY <1>2, <1>6, <1>8, <1>10, <1>11, <1>12, SaneOf
<1>14. status' \in Outcomes /\ status' = game'.outcome
    BY <1>6, <1>8 DEF GoodGame, GameFits
<1>15. back' = back \/ /\ GoodGame(back'.game) /\ back'.game.outcome = "PLAYING"
                       /\ RightLog(back'.replay, m)
    BY <1>1, <1>6, <1>7
<1> QED
    BY <1>1, <1>2, <1>6, <1>7, <1>13, <1>14, <1>15, StillWise

LEMMA RewindWise ==
    ASSUME Inv, Wise, RewindBeforeMine
    PROVE  Wise'
<1>1. /\ status = "LOST" /\ status \in Outcomes /\ back # None
      /\ game' = back.game /\ replay' = back.replay /\ back' = None
      /\ help' = [help EXCEPT !.analysis = None, !.manual = FALSE, !.shown = {}, !.evidence = None]
      /\ status' = "PLAYING" /\ status' \in Outcomes
      /\ UNCHANGED <<again, jobs>>
    BY DEF RewindBeforeMine, BeforeMine, Outcomes
<1>2. PICK m : m = game.board.mines
    OBVIOUS
<1>3. /\ GoodGame(game') /\ game'.outcome = "PLAYING" /\ RightLog(replay', m)
      /\ game'.board.mines = m /\ ReplayFits(replay')
    BY <1>1, <1>2 DEF Wise, Inv, Backed
<1>4. DOMAIN help' = DOMAIN NoHelp /\ help'.auto \subseteq m /\ help'.analysis = None
      /\ LiveFit(jobs, m)
    BY <1>1, <1>2, NowSane, HelpDomain
<1>5. PICK x : x = [game |-> game', replay |-> replay', help |-> help']
    OBVIOUS
<1>6. Sane(x, m) /\ x.game = game' /\ x.replay = replay' /\ x.help = help'
    BY <1>3, <1>4, <1>5, SaneOf
<1>7. Sane(Current', m)
    BY <1>5, <1>6 DEF Current
<1>8. game'.sight \in Sights /\ (again' # None => BoardFits(again'))
    BY <1>1, <1>3 DEF GoodGame, Wise
<1> QED
    BY <1>1, <1>3, <1>4, <1>7, <1>8 DEF Wise

(* The game and what is recorded of the coach stay; it keeps no other      *)
(* flags, and no analysis but a right one.                                 *)
LEMMA HelpWise ==
    ASSUME Inv, Wise, status \in Outcomes, UNCHANGED <<status, game, again, back>>,
           DOMAIN help' = DOMAIN NoHelp, help'.auto = help.auto,
           help'.analysis # None => Advises(help'.analysis, game.board.mines),
           replay' = replay \/ \E trigger, seen : replay' = Recorded(replay, ShownEvent(trigger, seen)),
           LiveFit(jobs', game.board.mines)
    PROVE  Wise'
<1>1. PICK m : m = game.board.mines
    OBVIOUS
<1>2. /\ GoodGame(game) /\ ReplayFits(replay) /\ RightLog(replay, m) /\ help.auto \subseteq m
    BY <1>1, NowSane
<1>3. ReplayFits(replay') /\ RightLog(replay', m)
    <2>1. \A trigger, seen : RightEvent(ShownEvent(trigger, seen), m)
        BY DEF RightEvent, ShownEvent
    <2> QED BY <1>2, <2>1, LogGrows
<1>4. PICK x : x = [game |-> game', replay |-> replay', help |-> help']
    OBVIOUS
<1>5. Sane(x, m) /\ x.game = game' /\ x.replay = replay' /\ x.help = help'
    BY <1>1, <1>2, <1>3, <1>4, SaneOf
<1>6. status' = "PLAYING" => game'.outcome = "PLAYING"
    BY DEF Wise
<1> QED
    BY <1>1, <1>5, <1>6, StillWise

(* What is asked is answered rightly.                                      *)
LEMMA RequestWise ==
    ASSUME Inv, Wise, status = "PLAYING", UNCHANGED <<status, game, again, back, replay>>,
           NEW manual, RequestAnalysis(manual)
    PROVE  Wise'
<1>1. status \in Outcomes /\ game.outcome = "PLAYING"
    BY DEF Outcomes, Wise
<1>2. PICK m : m = game.board.mines
    OBVIOUS
<1>3. PICK s : s = Suggestion(game, Visible(game, help.auto))
    OBVIOUS
<1>4. /\ jobs' = Cancelled("COACH") \cup {[what |-> "COACH", live |-> TRUE, answer |-> s]}
      /\ help' = [help EXCEPT !.analysis = None, !.manual = @ \/ manual]
    BY <1>3 DEF RequestAnalysis
<1>5. Advises(s, m)
    <2>1. PICK seen : seen = Visible(game, help.auto)
        OBVIOUS
    <2>2. help.auto \subseteq m /\ GoodGame(game)
        BY <1>1, <1>2, NowSane
    <2>3. seen.proven \in SUBSET m
        BY <2>1, <2>2 DEF Visible
    <2>4. m \in SUBSET Cells /\ Open(game.sight) \cap m = {}
        BY <1>1, <1>2, <2>2 DEF GoodGame, BoardFits
    <2> QED BY <1>2, <1>3, <2>1, <2>3, <2>4, SuggestionAdvises
<1>6. LiveFit(jobs', m)
    <2>1. LiveFit(Cancelled("COACH"), m)
        BY <1>1, <1>2, NowSane, CancelledLive
    <2> QED BY <1>4, <1>5, <2>1 DEF LiveFit
<1>7. DOMAIN help' = DOMAIN NoHelp /\ help'.auto = help.auto /\ help'.analysis = None
    BY <1>1, <1>4, NowSane, HelpDomain
<1> QED
    BY <1>1, <1>2, <1>6, <1>7, HelpWise

(* What the coach does by itself, or is told to do.                        *)
LEMMA BecomesWise ==
    ASSUME Inv, Wise, status \in Outcomes, NEW x, Sane(x, game.board.mines), Becomes(x),
           UNCHANGED <<again, back>>, LiveFit(jobs', game.board.mines),
           \/ status' = status /\ x.game.outcome = game.outcome
           \/ status' = x.game.outcome
    PROVE  Wise'
<1>1. game' = x.game /\ replay' = x.replay /\ help' = x.help
    BY DEF Becomes
<1>2. x.game.outcome \in Outcomes
    BY DEF Sane, GoodGame, GameFits
<1>3. status' \in Outcomes /\ (status' = "PLAYING" => game'.outcome = "PLAYING")
    BY <1>1, <1>2 DEF Wise
<1> QED
    BY <1>1, <1>3, StillWise

LEMMA AnswerWise ==
    ASSUME Inv, Wise, NEW j \in jobs, CoachAnswers(j)
    PROVE  Wise'
<1>1. /\ j.what = "COACH" /\ j.live /\ jobs' = jobs \ {j}
      /\ UNCHANGED <<again, back>>
    BY DEF CoachAnswers, IsNewest
<1>2. status \in Outcomes
    BY <1>1 DEF Inv, JobsFit, JobFits
<1>3. PICK m : m = game.board.mines
    OBVIOUS
<1> DEFINE s == j.answer
           asked == [help EXCEPT !.analysis = s, !.manual = FALSE]
           x == [Current EXCEPT !.help = asked]
           batch == AutomaticBatch(x, s)
<1>4. /\ Sane(Current, m) /\ LiveFit(jobs, m) /\ DOMAIN help = DOMAIN NoHelp
      /\ help.auto \subseteq m
      /\ help.analysis # None => Advises(help.analysis, m)
    BY <1>2, <1>3, NowSane
<1>5. Advises(s, m) /\ LiveFit(jobs', m)
    BY <1>1, <1>4 DEF LiveFit
<1>6. /\ DOMAIN asked = DOMAIN NoHelp /\ asked.auto = help.auto /\ asked.analysis = s
    BY <1>4, HelpDomain
<1>7. CASE UNCHANGED <<game, replay, status>> /\ help' = help
    BY <1>1, <1>2, <1>3, <1>4, <1>5, <1>7, HelpWise
<1>8. CASE UNCHANGED <<game, replay, status>> /\ help' = [help EXCEPT !.manual = FALSE]
    <2>1. DOMAIN help' = DOMAIN NoHelp /\ help'.auto = help.auto /\ help'.analysis = help.analysis
        BY <1>4, <1>8, HelpDomain
    <2> QED BY <1>1, <1>2, <1>3, <1>4, <1>5, <1>8, <2>1, HelpWise
<1>9. CASE Show(asked, "REQUEST", s) /\ UNCHANGED <<game, status>>
    <2>1. help' = asked /\ replay' = Recorded(replay, ShownEvent("REQUEST", s.seen))
        BY <1>9 DEF Show
    <2> HIDE DEF asked, s
    <2> QED BY <1>1, <1>2, <1>3, <1>5, <1>6, <1>9, <2>1, HelpWise
<1>10. CASE /\ UNCHANGED <<game, replay, status>>
            /\ help' = [asked EXCEPT !.shown = IF s.contradiction THEN @ \cup {s.seen} ELSE @]
    <2>1. DOMAIN help' = DOMAIN NoHelp /\ help'.auto = help.auto /\ help'.analysis = s
        <3> HIDE DEF asked, s
        <3> QED BY <1>6, <1>10, HelpDomain
    <2> HIDE DEF asked, s
    <2> QED BY <1>1, <1>2, <1>3, <1>5, <1>10, <2>1, HelpWise
<1>11. CASE Becomes(batch) /\ UNCHANGED status
    <2>1. x.game = game /\ x.replay = replay /\ x.help = asked /\ DOMAIN x = {"game", "replay", "help"}
        BY CurrentIs
    <2>2. Sane(x, m)
        <3> HIDE DEF asked, s, x
        <3> QED BY <1>4, <1>5, <1>6, <2>1, CurrentIs DEF Sane
    <2>3. Sane(batch, m) /\ batch.game.outcome = x.game.outcome
        <3> HIDE DEF asked, s, x
        <3> QED BY <1>5, <2>2, AutomaticBatchSane
    <2> HIDE DEF batch, x
    <2> QED BY <1>1, <1>2, <1>3, <1>5, <1>11, <2>1, <2>3, BecomesWise
<1>12. \/ UNCHANGED <<game, replay, status>> /\ help' = help
       \/ UNCHANGED <<game, replay, status>> /\ help' = [help EXCEPT !.manual = FALSE]
       \/ Show(asked, "REQUEST", s) /\ UNCHANGED <<game, status>>
       \/ /\ UNCHANGED <<game, replay, status>>
          /\ help' = [asked EXCEPT !.shown = IF s.contradiction THEN @ \cup {s.seen} ELSE @]
       \/ Becomes(batch) /\ UNCHANGED status
    BY DEF CoachAnswers
<1> QED
    <2> HIDE DEF asked, s, batch
    <2> QED BY <1>7, <1>8, <1>9, <1>10, <1>11, <1>12

LEMMA CoachFailsWise ==
    ASSUME Inv, Wise, NEW j \in jobs, CoachFails(j)
    PROVE  Wise'
<1>1. /\ j.what = "COACH" /\ j.live /\ jobs' = Cancelled("COACH")
      /\ help' = [help EXCEPT !.analysis = None, !.manual = FALSE]
      /\ UNCHANGED <<status, game, again, replay, back>>
    BY DEF CoachFails
<1>2. status \in Outcomes
    BY <1>1 DEF Inv, JobsFit, JobFits
<1>3. LiveFit(jobs', game.board.mines)
    BY <1>1, <1>2, NowSane, CancelledLive
<1>4. DOMAIN help' = DOMAIN NoHelp /\ help'.auto = help.auto /\ help'.analysis = None
    BY <1>1, <1>2, NowSane, HelpDomain
<1> QED
    BY <1>1, <1>2, <1>3, <1>4, HelpWise

LEMMA HintWise ==
    ASSUME Inv, Wise, RequestHint \/ IdleHint
    PROVE  Wise'
<1>1. status = "PLAYING" /\ status \in Outcomes /\ UNCHANGED <<status, game, again, back>>
    BY DEF RequestHint, IdleHint, Outcomes
<1>2. \/ \E trigger : Show(help, trigger, help.analysis) /\ UNCHANGED jobs
      \/ RequestAnalysis(TRUE) /\ UNCHANGED replay
    BY DEF RequestHint, IdleHint
<1>3. ASSUME NEW trigger, Show(help, trigger, help.analysis), UNCHANGED jobs
      PROVE  Wise'
    <2>1. PICK seen : seen = help.analysis.seen
        OBVIOUS
    <2>2. /\ replay' = Recorded(replay, ShownEvent(trigger, seen))
          /\ help' = help \/ help' = [help EXCEPT !.shown = @ \cup {seen}]
        BY <1>3, <2>1 DEF Show
    <2>3. /\ DOMAIN help' = DOMAIN NoHelp /\ help'.auto = help.auto /\ help'.analysis = help.analysis
          /\ help.analysis # None => Advises(help.analysis, game.board.mines)
          /\ LiveFit(jobs', game.board.mines)
        BY <1>1, <1>3, <2>2, NowSane, HelpDomain
    <2> QED BY <1>1, <2>2, <2>3, HelpWise
<1>4. ASSUME RequestAnalysis(TRUE), UNCHANGED replay
      PROVE  Wise'
    <2>1. PICK manual : manual = TRUE
        OBVIOUS
    <2> QED BY <1>1, <1>4, <2>1, RequestWise
<1> QED
    BY <1>2, <1>3, <1>4

LEMMA DemonstrateWise ==
    ASSUME Inv, Wise, Demonstrate
    PROVE  Wise'
<1>1. status = "PLAYING" /\ status \in Outcomes /\ game.outcome = "PLAYING" /\ UNCHANGED <<again, back>>
    BY DEF Demonstrate, Outcomes, Wise
<1>2. PICK manual : manual = FALSE
    OBVIOUS
<1>3. CASE RequestAnalysis(manual) /\ UNCHANGED <<game, replay, status>>
    BY <1>1, <1>3, RequestWise
<1>4. PICK m : m = game.board.mines
    OBVIOUS
<1>5. PICK s : s = help.analysis
    OBVIOUS
<1>6. ASSUME NEW step \in Steps(s), s # None, Applicable(s, game, help.auto), UNCHANGED jobs,
             Becomes(Coached(Current, "DEMONSTRATE", step[1], step[2])),
             Finish(Coached(Current, "DEMONSTRATE", step[1], step[2]).game)
      PROVE  Wise'
    <2>1. PICK trigger, action, c : trigger = "DEMONSTRATE" /\ action = step[1] /\ c = step[2]
        OBVIOUS
    <2>2. PICK y : y = Coached(Current, trigger, action, c)
        OBVIOUS
    <2>3. Sane(Current, m) /\ Advises(s, m) /\ LiveFit(jobs', m)
        BY <1>1, <1>4, <1>5, <1>6, NowSane
    <2>4. s.seen.claims = Flags(game.sight)
        BY <1>6 DEF Applicable, Visible
    <2>5. \/ c \in s.safe /\ action = IF c \in s.seen.claims THEN "UNFLAG" ELSE "REVEAL"
          \/ c \in s.mine /\ action = "FLAG"
        BY <2>1 DEF Steps
    <2>6. c \in Cells /\ (action = "FLAG" <=> c \in m) /\ (action = "UNFLAG" <=> game.sight[c] = "FLAGGED")
        BY <2>3, <2>4, <2>5 DEF Advises, Flags
    <2>7. Sane(y, m)
        <3>1. PICK x : x = Current
            OBVIOUS
        <3>2. Sane(x, m) /\ x.game = game /\ y = Coached(x, trigger, action, c)
            BY <2>2, <2>3, <3>1, CurrentIs
        <3>3. (action = "UNFLAG" <=> x.game.sight[c] = "FLAGGED") /\ (trigger = "AUTO_MARK" => action = "FLAG")
            BY <2>1, <2>6, <3>2
        <3> QED BY <2>6, <3>2, <3>3, CoachedSane
    <2>8. Becomes(y) /\ status' = y.game.outcome
        BY <1>6, <2>1, <2>2 DEF Finish
    <2> QED BY <1>1, <1>4, <2>3, <2>7, <2>8, BecomesWise
<1> QED
    BY <1>2, <1>3, <1>5, <1>6 DEF Demonstrate

LEMMA ToggleWise ==
    ASSUME Inv, Wise, ToggleAutoMark
    PROVE  Wise'
<1> DEFINE on == [Current EXCEPT !.help.autoOn = TRUE, !.help.evidence = None]
           off == [Current EXCEPT !.help.autoOn = FALSE]
           batch == AutomaticBatch(on, help.analysis)
<1>1. /\ UNCHANGED <<status, again, back, jobs>>
      /\ status \in {"READY", "PLAYING"}
      /\ Becomes(off) \/ Becomes(on) \/ (help.analysis # None /\ Becomes(batch))
    BY DEF ToggleAutoMark
<1>2. /\ off.game = game /\ off.replay = replay /\ off.help = [help EXCEPT !.autoOn = FALSE]
      /\ on.game = game /\ on.replay = replay
      /\ on.help = [help EXCEPT !.autoOn = TRUE, !.evidence = None]
      /\ DOMAIN on = {"game", "replay", "help"}
    BY DEF Current
<1>3. PICK m : m = game.board.mines
    OBVIOUS
<1>4. DOMAIN help = DOMAIN NoHelp /\ "READY" \notin Outcomes /\ "PLAYING" \in Outcomes
    BY DEF Wise, Outcomes
<1>5. ASSUME NEW x, x.game = game, x.replay = replay, Becomes(x),
             x.help \in {[help EXCEPT !.autoOn = FALSE], [help EXCEPT !.autoOn = TRUE, !.evidence = None]}
      PROVE  Wise'
    <2>1. game' = game /\ replay' = replay /\ help' = x.help
        BY <1>5 DEF Becomes
    <2>2. DOMAIN help' = DOMAIN NoHelp /\ help'.auto = help.auto /\ help'.analysis = help.analysis
        BY <1>4, <1>5, <2>1, HelpDomain
    <2>3. CASE status = "READY"
        BY <1>1, <1>4, <2>1, <2>2, <2>3 DEF Wise
    <2>4. CASE status = "PLAYING"
        BY <1>1, <1>4, <2>1, <2>2, <2>4, NowSane, HelpWise
    <2> QED BY <1>1, <2>3, <2>4
<1>6. CASE help.analysis # None /\ Becomes(batch)
    <2>1. status = "PLAYING" /\ status \in Outcomes
        BY <1>1, <1>4, <1>6 DEF Inv, Waiting
    <2>2. PICK s : s = help.analysis
        OBVIOUS
    <2>3. Advises(s, m) /\ LiveFit(jobs', m) /\ Sane(Current, m)
        BY <1>1, <1>3, <1>6, <2>1, <2>2, NowSane
    <2>4. Sane(on, m)
        <3>1. DOMAIN on.help = DOMAIN NoHelp /\ on.help.auto = help.auto /\ on.help.analysis = help.analysis
            BY <1>2, <1>4, HelpDomain
        <3> HIDE DEF on
        <3> QED BY <1>2, <2>3, <3>1, CurrentIs DEF Sane
    <2>5. Sane(batch, m) /\ batch.game.outcome = on.game.outcome
        <3> HIDE DEF on
        <3> QED BY <2>2, <2>3, <2>4, AutomaticBatchSane
    <2> HIDE DEF batch, on
    <2> QED BY <1>1, <1>2, <1>3, <1>6, <2>1, <2>3, <2>5, BecomesWise
<1> QED
    <2> HIDE DEF on, off, batch
    <2> QED BY <1>1, <1>2, <1>5, <1>6

LEMMA EffectWise ==
    ASSUME Inv, Wise, AnalysisEffect
    PROVE  Wise'
<1>1. PICK manual : manual = FALSE
    OBVIOUS
<1>2. status = "PLAYING" /\ RequestAnalysis(manual) /\ UNCHANGED <<status, game, again, back, replay>>
    BY <1>1 DEF AnalysisEffect
<1> QED
    BY <1>2, RequestWise

LEMMA SavePracticeWise ==
    ASSUME Inv, Wise, SavePractice
    PROVE  Wise'
<1>1. /\ status \in Terminal /\ jobs' = Cancelled("COACH") /\ help' = [help EXCEPT !.analysis = None]
      /\ UNCHANGED <<status, game, again, replay, back>>
    BY DEF SavePractice
<1>2. status \in Outcomes
    BY <1>1 DEF Outcomes, Terminal
<1>3. LiveFit(jobs', game.board.mines)
    BY <1>1, <1>2, NowSane, CancelledLive
<1>4. DOMAIN help' = DOMAIN NoHelp /\ help'.auto = help.auto /\ help'.analysis = None
    BY <1>1, <1>2, NowSane, HelpDomain
<1> QED
    BY <1>1, <1>2, <1>3, <1>4, HelpWise

LEMMA QuietWise ==
    ASSUME Wise,
           \/ ChooseQuestionMarks \/ SaveStandard
           \/ \E j \in jobs : DropLate(j)
           \/ \E p, works : PracticePutEnds(p, works)
           \/ \E p, result : StandardPutEnds(p, result)
           \/ \E p : Retry(p)
    PROVE  Wise'
<1>1. UNCHANGED <<status, game, again, replay, back, help>> /\ jobs' \subseteq jobs
    BY DEF ChooseQuestionMarks, SaveStandard, DropLate, PracticePutEnds, StandardPutEnds, Retry
<1>2. \A j \in jobs' : j \in jobs \/ ~j.live
    BY <1>1
<1> QED
    BY <1>1, <1>2, SameWise

LEMMA InitWise == Init => Wise
<1>1. NoGame.sight = Blank
    BY DEF NoGame
<1>2. NoHelp.auto = {} /\ "READY" \notin Outcomes /\ "READY" # "PLAYING"
    BY DEF NoHelp, Outcomes
<1> QED
    BY <1>1, <1>2, BlankFits DEF Init, Wise

LEMMA StepWise == Inv /\ Wise /\ [Next]_vars => Wise'
<1> SUFFICES ASSUME Inv, Wise, [Next]_vars PROVE Wise'
    OBVIOUS
<1>1. CASE UNCHANGED vars
    <2>1. UNCHANGED <<status, game, again, replay, back, help>> /\ \A j \in jobs' : j \in jobs \/ ~j.live
        BY <1>1 DEF vars
    <2> QED BY <2>1, SameWise
<1>2. CASE \/ \E k \in Kinds, m \in Modes : Reset(k, m)
           \/ ReplaySameBoard \/ \E c \in Cells : MarkEarly(c)
           \/ \E j \in jobs : GenerationFails(j)
    BY <1>2, SetUpWise
<1>3. CASE \E c \in Cells : ClickFirst(c)
    BY <1>3, ClickWise
<1>4. ASSUME NEW j \in jobs, GenerationSucceeds(j) \/ CoachAnswers(j) \/ CoachFails(j)
      PROVE  Wise'
    BY <1>4, GenerationWise, AnswerWise, CoachFailsWise
<1>5. ASSUME NEW action, NEW c, Act(action, c) PROVE Wise'
    BY <1>5, ActWise
<1>6. CASE RewindBeforeMine
    BY <1>6, RewindWise
<1>7. CASE RequestHint \/ IdleHint \/ Demonstrate \/ ToggleAutoMark
    BY <1>7, HintWise, DemonstrateWise, ToggleWise
<1>8. CASE AnalysisEffect \/ SavePractice
    BY <1>8, EffectWise, SavePracticeWise
<1>9. CASE \/ ChooseQuestionMarks \/ SaveStandard
           \/ \E j \in jobs : DropLate(j)
           \/ \E p, works : PracticePutEnds(p, works)
           \/ \E p, result : StandardPutEnds(p, result)
           \/ \E p : Retry(p)
    BY <1>9, QuietWise
<1> QED
    BY <1>1, <1>2, <1>3, <1>4, <1>5, <1>6, <1>7, <1>8, <1>9 DEF Next

(* The coach of SoloGame.tsx is never wrong, on boards of any size, under   *)
(* any limit of its analysis and for every mixture of late answers, of the *)
(* player's flags and of returns before a mine: its flags are on mines, it *)
(* flags what was not flagged, removes what was, and opens neither mines   *)
(* nor flagged cells (requestCoachAnalysis, applyCoachAction, applyAutomaticMineBatch).      *)
THEOREM CoachIsNeverWrong == Spec => []CoachIsRight
<1>1. Init => Inv /\ Wise
    BY InitInv, InitWise
<1>2. Inv /\ Wise /\ [Next]_vars => Inv' /\ Wise'
    BY StepInv, StepWise
<1>3. Inv /\ Wise => CoachIsRight
    <2> SUFFICES ASSUME Inv, Wise PROVE CoachIsRight
        OBVIOUS
    <2>1. CASE status \notin Outcomes
        <3>1. replay = Fresh
            BY <2>1 DEF Inv, Typed, Waiting
        <3>2. 1 .. Len(replay.log) = {} /\ status # "PLAYING"
            BY <2>1, <3>1 DEF Fresh, Outcomes
        <3> QED BY <3>2 DEF CoachIsRight
    <2>2. CASE status \in Outcomes
        <3>1. help.auto \subseteq game.board.mines /\ RightLog(replay, game.board.mines)
            BY <2>2, NowSane
        <3> QED BY <3>1 DEF CoachIsRight, RightLog, RightEvent
    <2> QED BY <2>1, <2>2
<1> QED
    BY <1>1, <1>2, <1>3, PTL DEF Spec
-----------------------------------------------------------------------------
(* The order of what is kept of a queue.                                    *)
Thins(r, q, I) ==
    \E g \in [1 .. Len(r) -> 1 .. Len(q)] :
        /\ \A k \in 1 .. Len(r) : r[k] = q[g[k]] /\ g[k] \in I
        /\ \A i \in I : \E k \in 1 .. Len(r) : g[k] = i
        /\ \A k, m \in 1 .. Len(r) : k < m => g[k] < g[m]

Keeps(q, t, ops, n) == {i \in 1 .. n : ~(q[i].tab = t /\ q[i].op \in ops)}

LEMMA WithoutIsRun ==
    ASSUME NEW q, NEW t, NEW ops
    PROVE  Archive!Without(q, t, ops) = RunOf(Len(q), "QUEUE", q, <<t, ops>>)[Len(q)]
<1> DEFINE Reads(f) == f = [n \in 0 .. Len(q) |->
                              IF n = 0 THEN <<>>
                              ELSE IF q[n].tab = t /\ q[n].op \in ops THEN f[n - 1]
                              ELSE Append(f[n - 1], q[n])]
<1>1. \A f : Reads(f) <=> IsRun(f, Len(q), "QUEUE", q, <<t, ops>>)
  BY DEF IsRun, Turn, Start
<1>2. (CHOOSE f : Reads(f)) = RunOf(Len(q), "QUEUE", q, <<t, ops>>)
  <2> HIDE DEF Reads
  <2> QED BY <1>1 DEF RunOf
<1>3. Archive!Without(q, t, ops) = (CHOOSE f : Reads(f))[Len(q)]
  BY Zenon DEF Archive!Without
<1> QED BY <1>2, <1>3

LEMMA RunThins ==
    ASSUME NEW S, NEW q \in Seq(S), NEW t, NEW ops, NEW m \in 0 .. Len(q)
    PROVE  LET r == RunOf(Len(q), "QUEUE", q, <<t, ops>>)[m] IN
           r \in Seq(S) /\ Thins(r, q, Keeps(q, t, ops, m))
<1> DEFINE N == Len(q)
           f == RunOf(Len(q), "QUEUE", q, <<t, ops>>)
           Good(n) == f[n] \in Seq(S) /\ Thins(f[n], q, Keeps(q, t, ops, n))
           Bad == {n \in 0 .. N : ~Good(n)}
<1>1. N \in Nat OBVIOUS
<1>2. /\ f[0] = <<>>
      /\ \A n \in 1 .. N : f[n] = IF q[n].tab = t /\ q[n].op \in ops THEN f[n - 1]
                                  ELSE Append(f[n - 1], q[n])
  <2>1. /\ f[0] = Start("QUEUE", q, <<t, ops>>)
        /\ \A n \in 1 .. N : f[n] = Turn("QUEUE", q, <<t, ops>>, f[n - 1], n)
    BY <1>1, RunUnfolds
  <2> HIDE DEF f
  <2>2. \A x, n : Turn("QUEUE", q, <<t, ops>>, x, n)
                   = IF q[n].tab = t /\ q[n].op \in ops THEN x ELSE Append(x, q[n])
    BY DEF Turn
  <2>3. Start("QUEUE", q, <<t, ops>>) = <<>> BY DEF Start
  <2> QED BY <2>1, <2>2, <2>3
<1> HIDE DEF f
<1>3. Good(0)
  <2>1. <<>> \in Seq(S) /\ Len(<<>>) = 0 OBVIOUS
  <2>2. Keeps(q, t, ops, 0) = {} BY DEF Keeps
  <2>3. 1 .. 0 = {} OBVIOUS
  <2>4. [k \in {} |-> 1] \in [{} -> 1 .. Len(q)] OBVIOUS
  <2>5. Thins(<<>>, q, {}) BY <2>1, <2>3, <2>4 DEF Thins
  <2> QED BY <1>2, <2>1, <2>2, <2>5
<1>4. ASSUME NEW n \in 1 .. N, Good(n - 1)
      PROVE  Good(n)
  <2> DEFINE r == f[n - 1]
             I == Keeps(q, t, ops, n - 1)
             J == Keeps(q, t, ops, n)
  <2>1. PICK g \in [1 .. Len(r) -> 1 .. N] :
            /\ \A k \in 1 .. Len(r) : r[k] = q[g[k]] /\ g[k] \in I
            /\ \A i \in I : \E k \in 1 .. Len(r) : g[k] = i
            /\ \A k, l \in 1 .. Len(r) : k < l => g[k] < g[l]
    BY <1>4 DEF Thins
  <2>2. n \in Nat /\ n >= 1 /\ n - 1 \in 0 .. N /\ q[n] \in S BY <1>1
  <2>3. r \in Seq(S) /\ Len(r) \in Nat BY <1>4
  <2>4. \A i \in I : i \in 1 .. N /\ i < n BY <1>1, <2>2 DEF Keeps
  <2> HIDE DEF r, N
  <2>5. CASE q[n].tab = t /\ q[n].op \in ops
    <3>1. J = I BY <2>2, <2>5 DEF Keeps
    <3>2. f[n] = r BY <1>2, <2>5 DEF r
    <3> QED BY <1>4, <3>1, <3>2 DEF r
  <2>6. CASE ~(q[n].tab = t /\ q[n].op \in ops)
    <3> DEFINE s == Append(r, q[n])
               h == [k \in 1 .. Len(r) + 1 |-> IF k = Len(r) + 1 THEN n ELSE g[k]]
    <3>1. J = I \cup {n} BY <2>2, <2>6 DEF Keeps
    <3>2. f[n] = s BY <1>2, <2>6 DEF r
    <3>3. s \in Seq(S) /\ Len(s) = Len(r) + 1 /\ s[Len(r) + 1] = q[n]
          /\ \A k \in 1 .. Len(r) : s[k] = r[k]
      BY <2>2, <2>3, AppendProperties
    <3>4. /\ h \in [1 .. Len(r) + 1 -> 1 .. N] /\ h[Len(r) + 1] = n
          /\ \A k \in 1 .. Len(r) : h[k] = g[k] /\ g[k] \in 1 .. N
      BY <2>1, <2>2, <2>3
    <3>5. \A k \in 1 .. Len(r) + 1 : k = Len(r) + 1 \/ k \in 1 .. Len(r) BY <2>3
    <3>6. Len(r) + 1 \in 1 .. Len(r) + 1 /\ \A k \in 1 .. Len(r) : k \in 1 .. Len(r) + 1
      BY <2>3
    <3> HIDE DEF s, h
    <3>7. \A k \in 1 .. Len(r) + 1 : s[k] = q[h[k]] /\ h[k] \in J
      BY <2>1, <3>1, <3>3, <3>4, <3>5
    <3>8. \A i \in J : \E k \in 1 .. Len(r) + 1 : h[k] = i
      BY <2>1, <3>1, <3>4, <3>6
    <3>9. ASSUME NEW k \in 1 .. Len(r) + 1, NEW l \in 1 .. Len(r) + 1, k < l
          PROVE  h[k] < h[l]
      <4>1. k \in 1 .. Len(r) /\ h[k] = g[k] /\ g[k] \in I BY <2>1, <2>3, <3>4, <3>9
      <4>2. CASE l = Len(r) + 1 BY <2>4, <3>4, <4>1, <4>2
      <4>3. CASE l \in 1 .. Len(r) BY <2>1, <3>4, <3>9, <4>1, <4>3
      <4> QED BY <3>5, <4>2, <4>3
    <3>10. Thins(s, q, J)
      <4>1. h \in [1 .. Len(s) -> 1 .. Len(q)] BY <3>3, <3>4 DEF N
      <4>2. 1 .. Len(s) = 1 .. Len(r) + 1 BY <3>3
      <4> QED BY <3>7, <3>8, <3>9, <4>1, <4>2 DEF Thins
    <3> QED BY <3>2, <3>3, <3>10
  <2> QED BY <2>5, <2>6
<1>5. Bad = {}
  <2> SUFFICES ASSUME Bad # {} PROVE FALSE OBVIOUS
  <2> HIDE DEF Good
  <2>1. PICK n \in Bad : \A k \in Bad : ~(k < n)
    <3>1. Bad \in SUBSET Nat BY <1>1
    <3> HIDE DEF Bad
    <3> QED BY <3>1, LeastOf, Zenon
  <2>2. n # 0 BY <1>3, <2>1
  <2>3. n \in 1 .. N /\ n - 1 \in 0 .. N /\ n - 1 < n BY <1>1, <2>1, <2>2
  <2>4. Good(n - 1) BY <2>1, <2>3
  <2> QED BY <1>4, <2>1, <2>3, <2>4
<1>6. Good(m) BY <1>5
<1> QED BY <1>6 DEF f

LEMMA WithoutThins ==
    ASSUME NEW S, NEW q \in Seq(S), NEW t, NEW ops
    PROVE  /\ Archive!Without(q, t, ops) \in Seq(S)
           /\ Thins(Archive!Without(q, t, ops), q, Keeps(q, t, ops, Len(q)))
<1>1. Len(q) \in 0 .. Len(q) OBVIOUS
<1> QED BY <1>1, WithoutIsRun, RunThins

LEMMA RemoveAtThins ==
    ASSUME NEW S, NEW q \in Seq(S), NEW i \in 1 .. Len(q)
    PROVE  /\ Archive!RemoveAt(q, i) \in Seq(S)
           /\ Thins(Archive!RemoveAt(q, i), q, 1 .. Len(q) \ {i})
<1> DEFINE N == Len(q)
           a == SubSeq(q, 1, i - 1)
           b == SubSeq(q, i + 1, N)
           r == a \o b
           g == [k \in 1 .. N - 1 |-> IF k < i THEN k ELSE k + 1]
<1>1. N \in Nat /\ i \in Nat /\ i >= 1 /\ i <= N OBVIOUS
<1>2. a \in Seq(S) /\ Len(a) = i - 1 /\ \A k \in 1 .. i - 1 : a[k] = q[k]
  <2>1. 1 \in Int /\ i - 1 \in Int /\ \A k \in 1 .. i - 1 : q[k] \in S BY <1>1
  <2> QED BY <1>1, <2>1, SubSeqProperties
<1>3. b \in Seq(S) /\ Len(b) = N - i /\ \A k \in 1 .. N - i : b[k] = q[k + i]
  <2>1. i + 1 \in Int /\ N \in Int /\ \A k \in i + 1 .. N : q[k] \in S BY <1>1
  <2> HIDE DEF N
  <2>2. /\ b \in Seq(S) /\ Len(b) = (IF i + 1 <= N THEN N - (i + 1) + 1 ELSE 0)
        /\ \A k \in 1 .. N - (i + 1) + 1 : b[k] = q[(i + 1) + k - 1]
    BY <2>1, SubSeqProperties
  <2>3. N - (i + 1) + 1 = N - i BY <1>1
  <2>4. \A k \in 1 .. N - i : (i + 1) + k - 1 = k + i BY <1>1
  <2> QED BY <1>1, <2>2, <2>3, <2>4
<1> HIDE DEF a, b
<1>4. /\ r \in Seq(S) /\ Len(r) = N - 1
      /\ \A k \in 1 .. N - 1 : r[k] = IF k <= i - 1 THEN a[k] ELSE b[k - (i - 1)]
  <2>1. /\ r \in Seq(S) /\ Len(r) = Len(a) + Len(b)
        /\ \A k \in 1 .. Len(a) + Len(b) : r[k] = IF k <= Len(a) THEN a[k] ELSE b[k - Len(a)]
    BY <1>2, <1>3, ConcatProperties
  <2>2. Len(a) + Len(b) = N - 1 BY <1>1, <1>2, <1>3
  <2> QED BY <1>2, <2>1, <2>2
<1> HIDE DEF r
<1>5. \A k \in 1 .. N - 1 : r[k] = q[g[k]] /\ g[k] \in 1 .. N \ {i}
  <2> SUFFICES ASSUME NEW k \in 1 .. N - 1 PROVE r[k] = q[g[k]] /\ g[k] \in 1 .. N \ {i}
    OBVIOUS
  <2>1. CASE k < i
    <3>1. k \in 1 .. i - 1 /\ k <= i - 1 /\ g[k] = k /\ k \in 1 .. N \ {i} BY <1>1, <2>1
    <3> QED BY <1>2, <1>4, <3>1
  <2>2. CASE ~(k < i)
    <3>1. ~(k <= i - 1) /\ k - (i - 1) \in 1 .. N - i /\ (k - (i - 1)) + i = k + 1
          /\ g[k] = k + 1 /\ k + 1 \in 1 .. N \ {i}
      BY <1>1, <2>2
    <3> QED BY <1>3, <1>4, <3>1
  <2> QED BY <2>1, <2>2
<1>6. \A j \in 1 .. N \ {i} : \E k \in 1 .. N - 1 : g[k] = j
  <2> SUFFICES ASSUME NEW j \in 1 .. N \ {i} PROVE \E k \in 1 .. N - 1 : g[k] = j
    OBVIOUS
  <2>1. CASE j < i
    <3>1. j \in 1 .. N - 1 /\ g[j] = j BY <1>1, <2>1
    <3> QED BY <3>1
  <2>2. CASE ~(j < i)
    <3>1. j - 1 \in 1 .. N - 1 /\ ~(j - 1 < i) /\ (j - 1) + 1 = j BY <1>1, <2>2
    <3>2. g[j - 1] = j BY <3>1
    <3> QED BY <3>1, <3>2
  <2> QED BY <2>1, <2>2
<1>7. \A k, m \in 1 .. N - 1 : k < m => g[k] < g[m] BY <1>1
<1>8. g \in [1 .. Len(r) -> 1 .. Len(q)] BY <1>1, <1>4
<1> HIDE DEF g
<1>9. Thins(r, q, 1 .. N \ {i}) BY <1>4, <1>5, <1>6, <1>7, <1>8 DEF Thins
<1>10. Archive!RemoveAt(q, i) = r BY DEF Archive!RemoveAt, r, a, b
<1> QED BY <1>4, <1>9, <1>10

(* A queue of which the transactions at I are kept and b begins.            *)
Derives(r, q, I, b) ==
    /\ I \subseteq 1 .. Len(q)
    /\ \E h \in [1 .. Len(r) -> 0 .. Len(q)] :
          /\ \A k \in 1 .. Len(r) : IF h[k] = 0 THEN \E m \in 1 .. Len(b) : r[k] = b[m]
                                    ELSE r[k] = q[h[k]] /\ h[k] \in I
          /\ \A i \in I : \E k \in 1 .. Len(r) : h[k] = i
          /\ \A m \in 1 .. Len(b) : \E k \in 1 .. Len(r) : h[k] = 0 /\ r[k] = b[m]
          /\ \A k, m \in 1 .. Len(r) : k < m /\ h[m] # 0 => h[k] # 0 /\ h[k] < h[m]
          /\ Len(b) <= 1 => \A k, m \in 1 .. Len(r) : h[k] = 0 /\ h[m] = 0 => k = m

LEMMA ThinsDerives ==
    ASSUME NEW S, NEW q \in Seq(S), NEW r \in Seq(S), NEW b \in Seq(S),
           NEW I \in SUBSET (1 .. Len(q)), Thins(r, q, I)
    PROVE  r \o b \in Seq(S) /\ Derives(r \o b, q, I, b)
<1> DEFINE L == Len(r)
           M == Len(b)
           N == Len(q)
           s == r \o b
<1>1. PICK g \in [1 .. L -> 1 .. N] :
        /\ \A k \in 1 .. L : r[k] = q[g[k]] /\ g[k] \in I
        /\ \A i \in I : \E k \in 1 .. L : g[k] = i
        /\ \A k, m \in 1 .. L : k < m => g[k] < g[m]
  BY DEF Thins
<1> DEFINE h == [k \in 1 .. L + M |-> IF k <= L THEN g[k] ELSE 0]
<1>2. L \in Nat /\ M \in Nat /\ N \in Nat OBVIOUS
<1>3. /\ s \in Seq(S) /\ Len(s) = L + M
      /\ \A k \in 1 .. L + M : s[k] = IF k <= L THEN r[k] ELSE b[k - L]
  BY ConcatProperties
<1> HIDE DEF L, M, N, s
<1>4. \A k \in 1 .. L : k \in 1 .. L + M /\ k <= L /\ h[k] = g[k] /\ g[k] \in 1 .. N /\ h[k] # 0
  BY <1>1, <1>2
<1>5. \A k \in 1 .. L + M : k \in 1 .. L \/ (~(k <= L) /\ k - L \in 1 .. M /\ h[k] = 0)
  BY <1>2
<1>6. \A m \in 1 .. M : L + m \in 1 .. L + M /\ ~(L + m <= L) /\ (L + m) - L = m /\ h[L + m] = 0
  BY <1>2
<1>7. h \in [1 .. L + M -> 0 .. N]
  <2>1. \A k \in 1 .. L + M : h[k] \in 0 .. N BY <1>2, <1>4, <1>5
  <2> QED BY <2>1
<1> HIDE DEF h
<1>8. ASSUME NEW k \in 1 .. L + M
      PROVE  IF h[k] = 0 THEN \E m \in 1 .. M : s[k] = b[m] ELSE s[k] = q[h[k]] /\ h[k] \in I
  <2>1. CASE k \in 1 .. L
    <3>1. h[k] = g[k] /\ h[k] # 0 /\ k <= L BY <1>4, <2>1
    <3>2. s[k] = r[k] /\ r[k] = q[g[k]] /\ g[k] \in I BY <1>1, <1>3, <2>1, <3>1
    <3> QED BY <3>1, <3>2
  <2>2. CASE ~(k <= L) /\ k - L \in 1 .. M /\ h[k] = 0
    <3>1. s[k] = b[k - L] BY <1>3, <2>2
    <3> QED BY <2>2, <3>1
  <2> QED BY <1>5, <2>1, <2>2
<1>9. \A i \in I : \E k \in 1 .. L + M : h[k] = i BY <1>1, <1>4
<1>10. \A m \in 1 .. M : \E k \in 1 .. L + M : h[k] = 0 /\ s[k] = b[m] BY <1>3, <1>6
<1>11. \A k, m \in 1 .. L + M : k < m /\ h[m] # 0 => h[k] # 0 /\ h[k] < h[m]
  <2> SUFFICES ASSUME NEW k \in 1 .. L + M, NEW m \in 1 .. L + M, k < m, h[m] # 0
               PROVE  h[k] # 0 /\ h[k] < h[m]
    OBVIOUS
  <2>1. m \in 1 .. L BY <1>5
  <2>2. k \in 1 .. L BY <1>2, <2>1
  <2> QED BY <1>1, <1>4, <2>1, <2>2
<1>12. ASSUME M <= 1, NEW k \in 1 .. L + M, NEW m \in 1 .. L + M, h[k] = 0, h[m] = 0
       PROVE  k = m
  <2>1. k \notin 1 .. L /\ m \notin 1 .. L BY <1>4, <1>12
  <2> QED BY <1>2, <1>12, <2>1
<1>13. 1 .. Len(s) = 1 .. L + M BY <1>3
<1>14. Derives(s, q, I, b)
  <2>1. I \subseteq 1 .. N /\ h \in [1 .. Len(s) -> 0 .. N] BY <1>7, <1>13 DEF N
  <2>2. M <= 1 => \A k, m \in 1 .. L + M : h[k] = 0 /\ h[m] = 0 => k = m BY <1>12
  <2> HIDE DEF M, N
  <2>3. /\ \A k \in 1 .. Len(s) : IF h[k] = 0 THEN \E m \in 1 .. M : s[k] = b[m]
                                  ELSE s[k] = q[h[k]] /\ h[k] \in I
        /\ \A i \in I : \E k \in 1 .. Len(s) : h[k] = i
        /\ \A m \in 1 .. M : \E k \in 1 .. Len(s) : h[k] = 0 /\ s[k] = b[m]
        /\ \A k, m \in 1 .. Len(s) : k < m /\ h[m] # 0 => h[k] # 0 /\ h[k] < h[m]
        /\ M <= 1 => \A k, m \in 1 .. Len(s) : h[k] = 0 /\ h[m] = 0 => k = m
    BY <1>8, <1>9, <1>10, <1>11, <1>13, <2>2
  <2> QED BY <2>1, <2>3, Zenon DEF Derives, M, N
<1> QED BY <1>3, <1>14 DEF s

LEMMA MoreDerives ==
    ASSUME NEW S, NEW q \in Seq(S), NEW b \in Seq(S)
    PROVE  q \o b \in Seq(S) /\ Derives(q \o b, q, 1 .. Len(q), b)
<1> DEFINE g == [k \in 1 .. Len(q) |-> k]
<1>1. /\ g \in [1 .. Len(q) -> 1 .. Len(q)] /\ \A k \in 1 .. Len(q) : g[k] = k
  OBVIOUS
<1> HIDE DEF g
<1>2. Thins(q, q, 1 .. Len(q)) BY <1>1 DEF Thins
<1> QED BY <1>2, ThinsDerives

(* What follows for the transactions in it.                                 *)
LEMMA DerivesFrom ==
    ASSUME NEW r, NEW q, NEW I, NEW b, Derives(r, q, I, b), NEW k \in 1 .. Len(r)
    PROVE  (\E i \in I : r[k] = q[i]) \/ (\E m \in 1 .. Len(b) : r[k] = b[m])
BY DEF Derives

LEMMA DerivesHas ==
    ASSUME NEW r, NEW q, NEW I, NEW b, Derives(r, q, I, b)
    PROVE  /\ \A i \in I : \E k \in 1 .. Len(r) : r[k] = q[i]
           /\ \A m \in 1 .. Len(b) : \E k \in 1 .. Len(r) : r[k] = b[m]
<1>1. PICK h \in [1 .. Len(r) -> 0 .. Len(q)] :
        /\ \A k \in 1 .. Len(r) : IF h[k] = 0 THEN \E m \in 1 .. Len(b) : r[k] = b[m]
                                  ELSE r[k] = q[h[k]] /\ h[k] \in I
        /\ \A i \in I : \E k \in 1 .. Len(r) : h[k] = i
        /\ \A m \in 1 .. Len(b) : \E k \in 1 .. Len(r) : h[k] = 0 /\ r[k] = b[m]
  BY DEF Derives
<1>2. ASSUME NEW i \in I PROVE \E k \in 1 .. Len(r) : r[k] = q[i]
  <2>1. i # 0 BY DEF Derives
  <2> QED BY <1>1, <2>1
<1> QED BY <1>1, <1>2

(* What the variables of the histories hold.                                *)
Ids == Games \cup Foreign \cup Old
Records == [id : Ids, replay : BOOLEAN]
RecordSets == {R \in SUBSET Records : IsFiniteSet(R)}
(* A store never holds more than Limit records, nor does what was read of it. *)
Views == {R \in RecordSets : Cardinality(R) <= Limit}
Exports == [runs : Views, got : SUBSET Ids, torn : BOOLEAN]
Reasons == {"refresh", "export", "import", "end", "delete", "mount"}
Pages == {p1, p2}
Transactions == [tab : Pages, op : Archive!Operations, why : Reasons, runs : RecordSets]
Panels ==
    [open : BOOLEAN, view : Views, failed : BOOLEAN, reload : BOOLEAN, busy : BOOLEAN,
     export : {None} \cup Exports, pending : SUBSET [id : Ids, state : {"saving", "failed"}],
     run : {None} \cup Ids, behind : BOOLEAN]
Files == {None} \cup [doc : [runs : RecordSets, replays : SUBSET Ids], torn : BOOLEAN]
Disks == [runs : RecordSets, replays : SUBSET Ids, bests : SUBSET Bests]

(* The stores agree and keep to the limit.                                  *)
Unique(R) == \A r, s \in R : r.id = s.id => r = s
Stored(d) ==
    /\ Cardinality(d.runs) <= Limit /\ Unique(d.runs)
    /\ \A r \in d.runs : r.replay <=> r.id \in d.replays
    /\ d.replays \subseteq Archive!Announced(d.runs)

(* A downloaded file can be imported but for its size, unless it was torn or *)
(* has a game that does not play back.                                      *)
Sure(got, torn) == Archive!Standard => ~torn /\ \A id \in got : Archive!PlaysBack(id)
Portable(f) == f # None /\ Sure(f.doc.replays, f.torn) => Archive!Acceptable(f.doc)

(* What a transaction is about.                                             *)
Carried(tx) ==
    /\ tx.op \in {"PUT", "REPLAY"} => \E r \in Records : tx.runs = {r}
    /\ tx.op = "IMPORT" => Unique(tx.runs)
    /\ tx.op = "READ" => tx.why \in {"refresh", "import"} \/ (tx.why = "export" /\ Archive!Standard)

(* The panel is up to date, or will be read again.                          *)
Refreshes(tx, t) == tx.tab = t /\ tx.op = "READ" /\ tx.why # "export"
Caught(t, x, q, d) ==
    /\ x.open /\ ~x.reload /\ ~x.failed /\ ~x.behind
    /\ \A i \in 1 .. Len(q) : ~Refreshes(q[i], t)
    => x.view = d.runs

(* The panel of the practices reads after the practice was written.         *)
Saves(tx, t) == tx.tab = t /\ tx.op = "PUT"
Awaits(t, x, q) ==
    ~Archive!Standard /\ x.open =>
        \A i \in 1 .. Len(q) :
            Saves(q[i], t) => \E j \in 1 .. Len(q) : i < j /\ Refreshes(q[j], t)

(* The panel of the games does one thing at a time.                         *)
Engages(tx, t) ==
    /\ tx.tab = t
    /\ tx.op \in {"REPLAY", "IMPORT", "CLEAR"} \/ (tx.op = "READ" /\ tx.why \in {"export", "import"})
Single(t, x, q) ==
    Archive!Standard =>
        /\ \A i, j \in 1 .. Len(q) : Engages(q[i], t) /\ Engages(q[j], t) => i = j
        /\ \A i \in 1 .. Len(q) : Engages(q[i], t) => x.busy

(* An export reads one replay after the other.                              *)
Looks(tx, t) == tx.tab = t /\ tx.op = "REPLAY"
Begun(x, d) ==
    /\ \A r \in x.runs : Archive!ValidRun(r)
    /\ \A id \in x.got : Archive!ValidReplay(id)
    /\ ~x.torn => x.runs \subseteq d.runs
Place(tx, t, x) ==
    LET all == Archive!Lookups(t, x.runs) IN
    \E k \in 1 .. Len(all) :
        /\ tx = all[k]
        /\ ~x.torn => x.got = Archive!Announced(UNION {all[m].runs : m \in 1 .. k - 1})
Placed(tx, t, x, d) ==
    /\ x.export # None
    /\ Archive!Standard => Begun(x.export, d) /\ Place(tx, t, x.export)
Progress(t, x, q, d) == \A i \in 1 .. Len(q) : Looks(q[i], t) => Placed(q[i], t, x, d)

(* What is true of the page t and of what it waits for.                     *)
Page(t, x, q, d) ==
    /\ Caught(t, x, q, d)
    /\ Awaits(t, x, q)
    /\ Single(t, x, q)
    /\ Progress(t, x, q, d)
    /\ ~Archive!Standard => x.pending = {}

Keeping(q, T, d, f) ==
    /\ q \in Seq(Transactions) /\ T \in [Pages -> Panels] /\ d \in Disks /\ f \in Files
    /\ Stored(d) /\ Portable(f)
    /\ \A i \in 1 .. Len(q) : Carried(q[i])
    /\ \A t \in Pages : Page(t, T[t], q, d)

(* Everything that the histories hold: the stores, the file, what is under   *)
(* way and the panels that wait for it.                                      *)
ArchiveInv == panel \in {"STANDARD", "PRACTICE"} /\ Keeping(queue, tab, disk, file)

LEMMA CaughtDerives ==
    ASSUME NEW t, NEW x, NEW y, NEW q, NEW r, NEW d, NEW e, NEW I, NEW b,
           Caught(t, x, q, d), Derives(r, q, I, b),
           \A i \in 1 .. Len(q) : Refreshes(q[i], t) => i \in I,
           y.open => x.open /\ x.reload = y.reload /\ x.failed = y.failed /\ x.view = y.view,
           y.open => y.behind = TRUE \/ (y.behind = x.behind /\ e.runs = d.runs)
    PROVE  Caught(t, y, r, e)
<1> SUFFICES ASSUME y.open, ~y.reload, ~y.failed, ~y.behind,
                    \A k \in 1 .. Len(r) : ~Refreshes(r[k], t)
             PROVE  y.view = e.runs
  BY DEF Caught
<1>1. \A i \in I : ~Refreshes(q[i], t) BY DerivesHas
<1> QED BY <1>1 DEF Caught

LEMMA AwaitsDerives ==
    ASSUME NEW t, NEW x, NEW y, NEW q, NEW r, NEW I, NEW b,
           Awaits(t, x, q), Derives(r, q, I, b), Len(q) \in Nat, Len(r) \in Nat,
           y.open => x.open,
           ~Archive!Standard => \A m \in 1 .. Len(b) : ~Saves(b[m], t),
           ~Archive!Standard => \A i \in 1 .. Len(q) : Refreshes(q[i], t) =>
              i \in I \/ \A j \in 1 .. Len(q) : j < i => ~Saves(q[j], t)
    PROVE  Awaits(t, y, r)
<1> SUFFICES ASSUME ~Archive!Standard, y.open, NEW k \in 1 .. Len(r), Saves(r[k], t)
             PROVE  \E l \in 1 .. Len(r) : k < l /\ Refreshes(r[l], t)
  BY DEF Awaits
<1>1. PICK h \in [1 .. Len(r) -> 0 .. Len(q)] :
        /\ \A n \in 1 .. Len(r) : IF h[n] = 0 THEN \E m \in 1 .. Len(b) : r[n] = b[m]
                                  ELSE r[n] = q[h[n]] /\ h[n] \in I
        /\ \A i \in I : \E n \in 1 .. Len(r) : h[n] = i
        /\ \A n, m \in 1 .. Len(r) : n < m /\ h[m] # 0 => h[n] # 0 /\ h[n] < h[m]
  BY DEF Derives
<1>2. h[k] # 0 /\ r[k] = q[h[k]] BY <1>1
<1>3. h[k] \in 1 .. Len(q) /\ Saves(q[h[k]], t) BY <1>2
<1>4. PICK j \in 1 .. Len(q) : h[k] < j /\ Refreshes(q[j], t) BY <1>3 DEF Awaits
<1>5. j \in I BY <1>3, <1>4
<1>6. PICK l \in 1 .. Len(r) : h[l] = j BY <1>1, <1>5
<1>7. r[l] = q[j] BY <1>1, <1>4, <1>6
<1>8. k < l
  <2>1. ~(l < k)
    <3> SUFFICES ASSUME l < k PROVE FALSE OBVIOUS
    <3>1. h[l] < h[k] BY <1>1, <1>2
    <3> QED BY <1>3, <1>4, <1>6, <3>1
  <2>2. l # k BY <1>3, <1>4, <1>6
  <2> QED BY <2>1, <2>2
<1> QED BY <1>4, <1>7, <1>8

LEMMA SingleDerives ==
    ASSUME NEW t, NEW x, NEW y, NEW q, NEW r, NEW I, NEW b,
           Single(t, x, q), Derives(r, q, I, b), Len(q) \in Nat, Len(r) \in Nat,
           Archive!Standard =>
             /\ \/ /\ \A m \in 1 .. Len(b) : ~Engages(b[m], t)
                   /\ (\E i \in I : Engages(q[i], t)) => y.busy = TRUE \/ y.busy = x.busy
                \/ /\ Len(b) <= 1 /\ y.busy = TRUE
                   /\ \A i \in I : ~Engages(q[i], t)
    PROVE  Single(t, y, r)
<1> SUFFICES ASSUME Archive!Standard
             PROVE  /\ \A k, l \in 1 .. Len(r) : Engages(r[k], t) /\ Engages(r[l], t) => k = l
                    /\ \A k \in 1 .. Len(r) : Engages(r[k], t) => y.busy
  BY DEF Single
<1>1. PICK h \in [1 .. Len(r) -> 0 .. Len(q)] :
        /\ \A n \in 1 .. Len(r) : IF h[n] = 0 THEN \E m \in 1 .. Len(b) : r[n] = b[m]
                                  ELSE r[n] = q[h[n]] /\ h[n] \in I
        /\ \A n, m \in 1 .. Len(r) : n < m /\ h[m] # 0 => h[n] # 0 /\ h[n] < h[m]
        /\ Len(b) <= 1 => \A n, m \in 1 .. Len(r) : h[n] = 0 /\ h[m] = 0 => n = m
  BY DEF Derives
<1>2. I \subseteq 1 .. Len(q) BY DEF Derives
<1>3. CASE /\ \A m \in 1 .. Len(b) : ~Engages(b[m], t)
           /\ (\E i \in I : Engages(q[i], t)) => y.busy = TRUE \/ y.busy = x.busy
  <2>1. ASSUME NEW k \in 1 .. Len(r), Engages(r[k], t)
        PROVE  h[k] # 0 /\ h[k] \in I /\ Engages(q[h[k]], t)
    BY <1>1, <1>3, <2>1
  <2>2. ASSUME NEW k \in 1 .. Len(r), NEW l \in 1 .. Len(r), Engages(r[k], t), Engages(r[l], t)
        PROVE  k = l
    <3>1. h[k] = h[l] BY <1>2, <2>1, <2>2 DEF Single
    <3>2. h[k] \in 0 .. Len(q) /\ h[l] \in 0 .. Len(q) /\ h[k] # 0 /\ h[l] # 0 BY <2>1, <2>2
    <3>3. ~(k < l) /\ ~(l < k) BY <1>1, <3>1, <3>2
    <3>4. k \in Int /\ l \in Int OBVIOUS
    <3> QED BY <3>3, <3>4
  <2>3. ASSUME NEW k \in 1 .. Len(r), Engages(r[k], t)
        PROVE  y.busy
    BY <1>2, <1>3, <2>1, <2>3 DEF Single
  <2> QED BY <2>2, <2>3
<1>4. CASE /\ Len(b) <= 1 /\ y.busy = TRUE
           /\ \A i \in I : ~Engages(q[i], t)
  <2>1. ASSUME NEW k \in 1 .. Len(r), Engages(r[k], t)
        PROVE  h[k] = 0
    BY <1>1, <1>4, <2>1
  <2> QED BY <1>1, <1>4, <2>1
<1> QED BY <1>3, <1>4

LEMMA ProgressDerives ==
    ASSUME NEW t, NEW y, NEW q, NEW r, NEW e, NEW I, NEW b, Derives(r, q, I, b),
           \A i \in I : Looks(q[i], t) => Placed(q[i], t, y, e),
           \A m \in 1 .. Len(b) : Looks(b[m], t) => Placed(b[m], t, y, e)
    PROVE  Progress(t, y, r, e)
BY DerivesFrom DEF Progress

LEMMA CarriedDerives ==
    ASSUME NEW q, NEW r, NEW I, NEW b, Derives(r, q, I, b),
           \A i \in 1 .. Len(q) : Carried(q[i]),
           \A m \in 1 .. Len(b) : Carried(b[m])
    PROVE  \A k \in 1 .. Len(r) : Carried(r[k])
<1> SUFFICES ASSUME NEW k \in 1 .. Len(r) PROVE Carried(r[k]) OBVIOUS
<1>1. I \subseteq 1 .. Len(q) BY DEF Derives
<1>2. (\E i \in I : r[k] = q[i]) \/ (\E m \in 1 .. Len(b) : r[k] = b[m]) BY DerivesFrom
<1> HIDE DEF Carried
<1> QED BY <1>1, <1>2

(* The same operator, of FiniteSets, as an instance of History names it.    *)
LEMMA SameCardinality == ASSUME NEW S PROVE Archive!Cardinality(S) = Cardinality(S)
BY Zenon DEF Archive!Cardinality, Cardinality

LEMMA ArchiveConstants == Limit \in Nat /\ Limit >= 1 /\ None \notin Exports
BY ArchiveAssumption DEF Exports, Views, RecordSets, Records, Ids

LEMMA EmptyView == {} \in Views /\ {} \in RecordSets
BY ArchiveConstants, FS_EmptySet DEF Views, RecordSets

(* The replays of an export are read once each.                             *)
LEMMA LookupsFacts ==
    ASSUME NEW t \in Pages, NEW R \in RecordSets
    PROVE  LET all == Archive!Lookups(t, R) IN
           /\ all \in Seq(Transactions) /\ Len(all) = Cardinality(R)
           /\ \A k \in 1 .. Len(all) :
                 /\ all[k].tab = t /\ all[k].op = "REPLAY" /\ all[k].why = "export"
                 /\ \E r \in R : all[k].runs = {r}
                 /\ \A m \in 1 .. Len(all) : all[k] = all[m] => k = m
           /\ \A r \in R : \E k \in 1 .. Len(all) : all[k].runs = {r}
<1> DEFINE n == Cardinality(R)
           e == Archive!SetToSeq(R)
           all == [i \in 1 .. n |-> [tab |-> t, op |-> "REPLAY", why |-> "export", runs |-> {e[i]}]]
<1>1. IsFiniteSet(R) /\ R \subseteq Records /\ n \in Nat BY FS_CardinalityType DEF RecordSets
<1>2. e \in [1 .. n -> R] /\ \A i, j \in 1 .. n : e[i] = e[j] => i = j
  <2>1. PICK f \in Bijection(1 .. n, R) : TRUE BY <1>1, FS_CardinalityType, Zenon DEF ExistsBijection
  <2>2. f \in [1 .. n -> R] /\ \A i, j \in 1 .. n : f[i] = f[j] => i = j
    BY <2>1, Zenon DEF Bijection, Injection, IsInjective
  <2>3. Archive!IsInjective(f) BY <2>2, Zenon DEF Archive!IsInjective
  <2>4. e = CHOOSE g \in [1 .. n -> R] : Archive!IsInjective(g)
    BY SameCardinality DEF Archive!SetToSeq
  <2>5. e \in [1 .. n -> R] /\ Archive!IsInjective(e) BY <2>2, <2>3, <2>4, Zenon
  <2> QED BY <2>5, Zenon DEF Archive!IsInjective
<1>3. \A r \in R : \E i \in 1 .. n : e[i] = r
  <2>1. e \in Injection(1 .. n, R) BY <1>2, Zenon DEF Injection, IsInjective
  <2>2. Cardinality(1 .. n) = n
    <3>1. 1 \in Int /\ n \in Int /\ (IF 1 > n THEN 0 ELSE n - 1 + 1) = n BY <1>1
    <3> QED BY <3>1, FS_Interval
  <2>3. e \in Surjection(1 .. n, R) BY <1>1, <2>1, <2>2, FS_Injection
  <2> QED BY <2>3, Zenon DEF Surjection
<1>4. all = Archive!Lookups(t, R)
  <2>1. Archive!Cardinality(R) = n BY SameCardinality
  <2> QED BY <2>1 DEF Archive!Lookups, Archive!Tx
<1> HIDE DEF n, e
<1>5. \A i \in 1 .. n : all[i] \in Transactions
  <2> SUFFICES ASSUME NEW i \in 1 .. n PROVE all[i] \in Transactions
    OBVIOUS
  <2>1. e[i] \in R /\ {e[i]} \in SUBSET Records BY <1>1, <1>2
  <2>2. {e[i]} \in RecordSets BY <2>1, FS_Singleton DEF RecordSets
  <2> QED BY <2>2 DEF Transactions, Archive!Operations, Reasons
<1>6. all \in Seq(Transactions) /\ Len(all) = n
  <2>1. \A i \in 1 .. n : all[i] \in Transactions BY <1>5
  <2> HIDE DEF all
  <2>2. DOMAIN all = 1 .. n /\ all = [i \in 1 .. n |-> all[i]] BY DEF all
  <2>3. all \in [1 .. n -> Transactions] BY <2>1, <2>2
  <2> QED BY <1>1, <2>3
<1>7. \A k \in 1 .. n :
         /\ all[k].tab = t /\ all[k].op = "REPLAY" /\ all[k].why = "export"
         /\ all[k].runs = {e[k]} /\ e[k] \in R
  BY <1>2
<1> HIDE DEF all
<1>8. \A k, m \in 1 .. n : all[k] = all[m] => k = m
  <2>1. \A k, m \in 1 .. n : all[k] = all[m] => e[k] = e[m] BY <1>7
  <2> QED BY <1>2, <2>1
<1>9. \A r \in R : \E k \in 1 .. n : all[k].runs = {r} BY <1>3, <1>7
<1>10. \A k \in 1 .. n :
          /\ all[k].tab = t /\ all[k].op = "REPLAY" /\ all[k].why = "export"
          /\ \E r \in R : all[k].runs = {r}
          /\ \A m \in 1 .. n : all[k] = all[m] => k = m
  <2>1. \A k \in 1 .. n : \E r \in R : all[k].runs = {r} BY <1>7
  <2> QED BY <1>7, <1>8, <2>1
<1>11. Len(all) = n /\ n = Cardinality(R) BY <1>6 DEF n
<1> HIDE DEF n
<1>12. \A k \in 1 .. Len(all) :
          /\ all[k].tab = t /\ all[k].op = "REPLAY" /\ all[k].why = "export"
          /\ \E r \in R : all[k].runs = {r}
          /\ \A m \in 1 .. Len(all) : all[k] = all[m] => k = m
  BY <1>10, <1>11, Zenon
<1>13. \A r \in R : \E k \in 1 .. Len(all) : all[k].runs = {r} BY <1>9, <1>11, Zenon
<1> QED BY <1>4, <1>6, <1>11, <1>12, <1>13, Zenon

(* The record alone that a transaction is about.                            *)
LEMMA OneRecord ==
    ASSUME NEW r, NEW R, R = {r}
    PROVE  (CHOOSE s \in R : TRUE) = r
OBVIOUS

LEMMA CarriesRecord ==
    ASSUME NEW tx \in Transactions, Carried(tx), tx.op \in {"PUT", "REPLAY"}
    PROVE  LET r == CHOOSE s \in tx.runs : TRUE IN
           r \in Records /\ tx.runs = {r} /\ r.id \in Ids
BY OneRecord DEF Carried, Records

(* What was read to the end can be imported.                                *)
LEMMA ExportAcceptable ==
    ASSUME NEW d \in Disks, Stored(d), NEW x \in Exports, Begun(x, d), ~x.torn,
           x.got = Archive!Announced(x.runs), \A id \in x.got : Archive!PlaysBack(id)
    PROVE  Archive!Acceptable([runs |-> x.runs, replays |-> x.got])
<1> DEFINE doc == [runs |-> x.runs, replays |-> x.got]
<1>1. x.runs \subseteq d.runs BY DEF Begun
<1>2. IsFiniteSet(d.runs) /\ x.runs \in SUBSET d.runs BY <1>1 DEF Disks, RecordSets
<1>3. Cardinality(doc.runs) <= Limit
  <2>1. /\ Cardinality(x.runs) <= Cardinality(d.runs)
        /\ Cardinality(x.runs) \in Nat /\ Cardinality(d.runs) \in Nat
    BY <1>2, FS_Subset, FS_CardinalityType
  <2> QED BY <2>1, ArchiveConstants DEF Stored
<1>4. \A r, s \in doc.runs : r.id = s.id => r = s BY <1>1 DEF Stored, Unique
<1>5. Archive!Shown(doc.runs) = doc.runs BY DEF Begun, Archive!Shown
<1>6. Archive!Paired(doc) BY <1>5 DEF Archive!Paired
<1> QED BY <1>3, <1>4, <1>6, SameCardinality DEF Archive!Acceptable, Archive!Whole, Begun

LEMMA AddedStored ==
    ASSUME NEW d \in Disks, Stored(d), NEW R \in RecordSets, Unique(R), Archive!Fits(d, R)
    PROVE  LET e == Archive!Added(d, Archive!New(d, R)) IN
           e \in Disks /\ Stored(e) /\ d.runs \subseteq e.runs
<1> DEFINE N == Archive!New(d, R)
           A == d.runs \cup N
           B == d.replays \cup Archive!Announced(N)
           e == [d EXCEPT !.runs = A, !.replays = B]
<1>1. N \subseteq R BY DEF Archive!New
<1>2. /\ R \subseteq Records /\ d.runs \subseteq Records /\ IsFiniteSet(N) /\ IsFiniteSet(d.runs)
      /\ d.replays \subseteq Ids
  BY <1>1, FS_Subset DEF RecordSets, Disks
<1>3. \A s \in N : s \in R /\ \A r \in d.runs : r.id # s.id
  BY DEF Archive!New, Archive!Named
<1>4. \A s \in N : s.id \notin d.replays /\ s.id \in Ids
  BY <1>1, <1>2 DEF Archive!Fits, Records
<1>5. Cardinality(d.runs) + Cardinality(N) <= Limit BY SameCardinality DEF Archive!Fits
<1>6. e = Archive!Added(d, N) BY DEF Archive!Added, Disks
<1>7. Archive!Announced(N) = {s.id : s \in {s \in N : s.replay}} BY DEF Archive!Announced
<1> HIDE DEF N
<1>8. IsFiniteSet(A) /\ Cardinality(A) <= Limit
  <2>1. /\ IsFiniteSet(A)
        /\ Cardinality(A) = Cardinality(d.runs) + Cardinality(N) - Cardinality(d.runs \cap N)
    BY <1>2, FS_Union
  <2>2. IsFiniteSet(d.runs \cap N) BY <1>2, FS_Intersection
  <2>3. /\ Cardinality(d.runs) \in Nat /\ Cardinality(N) \in Nat
        /\ Cardinality(d.runs \cap N) \in Nat
    BY <1>2, <2>2, FS_CardinalityType
  <2> QED BY <1>5, <2>1, <2>3, ArchiveConstants
<1>9. A \in RecordSets /\ B \in SUBSET Ids
  BY <1>1, <1>2, <1>4, <1>7, <1>8 DEF RecordSets
<1>10. Unique(A) BY <1>3 DEF Unique, Stored
<1>11. ASSUME NEW r \in A PROVE r.replay <=> r.id \in B
  <2>1. CASE r \in d.runs
    <3>1. r.id \notin Archive!Announced(N) BY <1>3, <1>7, <2>1
    <3> QED BY <2>1, <3>1 DEF Stored
  <2>2. CASE r \in N
    <3>1. r.replay <=> r.id \in Archive!Announced(N)
      <4>1. \A s \in N : s.id = r.id => s = r BY <1>3, <2>2 DEF Unique
      <4> QED BY <1>7, <2>2, <4>1
    <3> QED BY <1>4, <2>2, <3>1
  <2> QED BY <2>1, <2>2
<1>12. B \subseteq Archive!Announced(A) BY <1>7 DEF Stored, Archive!Announced
<1>13. e.runs = A /\ e.replays = B /\ e.bests = d.bests /\ e \in Disks
  BY <1>9 DEF Disks
<1> HIDE DEF A, B, e
<1>14. Stored(e) BY <1>8, <1>10, <1>11, <1>12, <1>13 DEF Stored
<1>15. d.runs \subseteq e.runs BY <1>13 DEF A
<1> QED BY <1>6, <1>13, <1>14, <1>15 DEF N

LEMMA EffectStored ==
    ASSUME NEW d \in Disks, Stored(d), NEW tx \in Transactions, Carried(tx), Archive!Works(d, tx)
    PROVE  LET e == Archive!Effect(d, tx) IN
           /\ e \in Disks /\ Stored(e)
           /\ tx.op # "CLEAR" => d.runs \subseteq e.runs
           /\ tx.op = "CLEAR" => e.runs = {}
           /\ ~Archive!Writes(tx) => e.runs = d.runs
<1> DEFINE e == Archive!Effect(d, tx)
<1>0. tx.op \in Archive!Operations /\ tx.runs \in RecordSets BY DEF Transactions
<1>1. CASE tx.op \in {"PUT", "IMPORT"}
  <2>1. Unique(tx.runs)
    <3>1. CASE tx.op = "PUT" BY <3>1 DEF Carried, Unique
    <3>2. CASE tx.op = "IMPORT" BY <3>2 DEF Carried
    <3> QED BY <1>1, <3>1, <3>2
  <2>2. Archive!Fits(d, tx.runs) BY <1>1 DEF Archive!Works
  <2>3. e = Archive!Added(d, Archive!New(d, tx.runs)) BY <1>1 DEF Archive!Effect
  <2>4. Archive!Writes(tx) BY <1>1 DEF Archive!Writes
  <2> QED BY <1>0, <1>1, <2>1, <2>2, <2>3, <2>4, AddedStored
<1>2. CASE tx.op = "CLEAR"
  <2>1. e = [d EXCEPT !.runs = {}, !.replays = {}] BY <1>2 DEF Archive!Effect
  <2>2. {} \in RecordSets /\ Cardinality({}) = 0 BY FS_EmptySet DEF RecordSets
  <2>3. e \in Disks /\ e.runs = {} /\ e.replays = {} BY <2>1, <2>2 DEF Disks
  <2>4. Stored(e) BY <2>2, <2>3, ArchiveConstants DEF Stored, Unique
  <2>5. Archive!Writes(tx) BY <1>2 DEF Archive!Writes
  <2> QED BY <1>2, <2>3, <2>4, <2>5
<1>3. CASE tx.op = "MIGRATE"
  <2>1. e = [d EXCEPT !.bests = d.bests \cup Archive!Prepared] BY <1>3 DEF Archive!Effect, Disks
  <2>2. d.bests \cup Archive!Prepared \in SUBSET Bests BY DEF Disks, Archive!Prepared
  <2>3. e \in Disks /\ e.runs = d.runs /\ e.replays = d.replays BY <2>1, <2>2 DEF Disks
  <2>4. Stored(e) BY <2>3 DEF Stored
  <2> QED BY <1>3, <2>3, <2>4
<1>4. CASE tx.op \in {"READ", "REPLAY"}
  <2>1. e = d BY <1>4 DEF Archive!Effect
  <2> QED BY <1>4, <2>1
<1> QED BY <1>0, <1>1, <1>2, <1>3, <1>4 DEF Archive!Operations

(* What the answer to tx makes of its panel, and of what is under way.      *)
Proceeds(g, t, x, tx, d, e) ==
    /\ g.tab \in Panels /\ g.begins \in Seq(Transactions) /\ Len(g.begins) <= 1
    /\ g.file \in Files /\ Portable(g.file)
    /\ \A m \in 1 .. Len(g.begins) :
          /\ g.begins[m].tab = t /\ Carried(g.begins[m])
          /\ ~Archive!Standard => ~Saves(g.begins[m], t)
          /\ Looks(g.begins[m], t) => Placed(g.begins[m], t, g.tab, e)
    /\ g.tab.open = x.open
    /\ ~Archive!Standard => g.tab.pending = x.pending
    /\ \/ g.tab.reload = TRUE \/ g.tab.failed = TRUE \/ g.tab.view = e.runs
       \/ \E m \in 1 .. Len(g.begins) : Refreshes(g.begins[m], t)
       \/ /\ e.runs = d.runs /\ g.tab.view = x.view /\ g.tab.reload = x.reload
          /\ g.tab.failed = x.failed /\ g.tab.behind = x.behind /\ ~Refreshes(tx, t)
       \/ ~Archive!Standard /\ Saves(tx, t)
    /\ Archive!Standard =>
          \/ /\ \A m \in 1 .. Len(g.begins) : ~Engages(g.begins[m], t)
             /\ Engages(tx, t) \/ g.tab.busy = x.busy
          \/ Engages(tx, t) /\ g.tab.busy = TRUE
    /\ \/ g.tab.export = x.export
       \/ Archive!Standard /\ Engages(tx, t)
       \/ Looks(tx, t)

(* One transaction begins, or none.                                         *)
LEMMA One ==
    ASSUME NEW tx \in Transactions
    PROVE  /\ <<tx>> \in Seq(Transactions) /\ Len(<<tx>>) = 1 /\ 1 .. Len(<<tx>>) = {1}
           /\ <<tx>>[1] = tx
OBVIOUS

LEMMA NothingBegins ==
    /\ <<>> \in Seq(Transactions) /\ Len(<<>>) = 0 /\ 1 .. Len(<<>>) = {}
    /\ None \in Files /\ Portable(None)
BY DEF Files, Portable

LEMMA ReadingFacts ==
    ASSUME NEW t \in Pages, NEW why \in {"refresh", "import", "export"}
    PROVE  LET tx == Archive!Reading(t, why) IN
           /\ tx = [tab |-> t, op |-> "READ", why |-> why, runs |-> {}]
           /\ tx \in Transactions
           /\ why # "export" => Carried(tx) /\ Refreshes(tx, t)
           /\ ~Saves(tx, t) /\ ~Looks(tx, t)
           /\ Engages(tx, t) <=> why # "refresh"
<1>1. {} \in RecordSets BY FS_EmptySet DEF RecordSets
<1> QED BY <1>1 DEF Archive!Reading, Archive!Tx, Transactions, Archive!Operations, Reasons, Carried,
                   Refreshes, Saves, Looks, Engages

(* The tab goes on alone, or begins one more transaction.                   *)
LEMMA GoesOn ==
    ASSUME NEW y \in Panels, NEW f \in Files, Portable(f), NEW t, NEW x, NEW tx, NEW d, NEW e,
           y.open = x.open, ~Archive!Standard => y.pending = x.pending,
           \/ y.reload = TRUE \/ y.failed = TRUE \/ y.view = e.runs
           \/ /\ e.runs = d.runs /\ y.view = x.view /\ y.reload = x.reload
              /\ y.failed = x.failed /\ y.behind = x.behind /\ ~Refreshes(tx, t)
           \/ ~Archive!Standard /\ Saves(tx, t),
           Archive!Standard => Engages(tx, t) \/ y.busy = x.busy,
           y.export = x.export \/ (Archive!Standard /\ Engages(tx, t)) \/ Looks(tx, t)
    PROVE  Proceeds([tab |-> y, begins |-> <<>>, file |-> f], t, x, tx, d, e)
<1> DEFINE g == [tab |-> y, begins |-> <<>>, file |-> f]
<1>1. g.tab = y /\ g.file = f /\ g.begins = <<>> OBVIOUS
<1>2. g.begins \in Seq(Transactions) /\ Len(g.begins) = 0 /\ 1 .. Len(g.begins) = {}
  BY <1>1, NothingBegins
<1> HIDE DEF g
<1>3. \A m \in 1 .. Len(g.begins) : FALSE BY <1>2
<1>4. Proceeds(g, t, x, tx, d, e)
  BY <1>1, <1>2, <1>3 DEF Proceeds
<1> QED BY <1>4 DEF g

LEMMA GoesAndBegins ==
    ASSUME NEW y \in Panels, NEW n \in Transactions, NEW t, NEW x, NEW tx, NEW d, NEW e,
           n.tab = t, Carried(n), ~Archive!Standard => ~Saves(n, t),
           Looks(n, t) => Placed(n, t, y, e),
           y.open = x.open, ~Archive!Standard => y.pending = x.pending,
           \/ y.reload = TRUE \/ y.failed = TRUE \/ y.view = e.runs
           \/ Refreshes(n, t)
           \/ /\ e.runs = d.runs /\ y.view = x.view /\ y.reload = x.reload
              /\ y.failed = x.failed /\ y.behind = x.behind /\ ~Refreshes(tx, t)
           \/ ~Archive!Standard /\ Saves(tx, t),
           Archive!Standard =>
             \/ ~Engages(n, t) /\ (Engages(tx, t) \/ y.busy = x.busy)
             \/ Engages(tx, t) /\ y.busy = TRUE,
           y.export = x.export \/ (Archive!Standard /\ Engages(tx, t)) \/ Looks(tx, t)
    PROVE  Proceeds([tab |-> y, begins |-> <<n>>, file |-> None], t, x, tx, d, e)
<1> DEFINE g == [tab |-> y, begins |-> <<n>>, file |-> None]
<1>1. g.tab = y /\ g.file = None /\ g.begins = <<n>> OBVIOUS
<1>2. /\ g.begins \in Seq(Transactions) /\ Len(g.begins) = 1 /\ 1 .. Len(g.begins) = {1}
      /\ g.begins[1] = n
  BY <1>1, One
<1> HIDE DEF g
<1>3. g.file \in Files /\ Portable(g.file) BY <1>1, NothingBegins
<1>4. Proceeds(g, t, x, tx, d, e)
  BY <1>1, <1>2, <1>3 DEF Proceeds
<1> QED BY <1>4 DEF g

LEMMA PutProceeds ==
    ASSUME NEW t \in Pages, NEW x \in Panels, NEW tx \in Transactions, Carried(tx),
           tx.tab = t, tx.op = "PUT", NEW ok \in BOOLEAN, NEW d \in Disks, NEW e \in Disks,
           ~ok => e = d
    PROVE  Proceeds(Archive!AfterPut(t, x, tx, ok), t, x, tx, d, e)
<1> DEFINE r == CHOOSE s \in tx.runs : TRUE
           g == Archive!AfterPut(t, x, tx, ok)
           kept == {p \in x.pending : p.id # r.id}
<1>1. r \in Records /\ tx.runs = {r} /\ r.id \in Ids /\ r.replay \in BOOLEAN
  BY CarriesRecord DEF Records
<1>2. /\ ~Engages(tx, t) /\ ~Refreshes(tx, t) /\ Saves(tx, t) /\ ~Looks(tx, t)
  BY DEF Engages, Refreshes, Saves, Looks
<1>3. kept \in SUBSET [id : Ids, state : {"saving", "failed"}] BY DEF Panels
<1>4. g = CASE ~Archive!Standard -> Archive!Goes([x EXCEPT !.reload = @ \/ (ok /\ x.open /\ x.run = r.id)])
            [] Archive!Standard /\ ok -> Archive!Goes(Archive!Settled(x, r.id, {}))
            [] Archive!Standard /\ ~ok /\ r.replay ->
                  [Archive!Goes(x) EXCEPT !.begins = <<Archive!Putting(t, r.id, FALSE)>>]
            [] OTHER -> Archive!Goes(Archive!Settled(x, r.id, {[id |-> r.id, state |-> "failed"]}))
  BY DEF Archive!AfterPut
<1> SUFFICES Proceeds(g, t, x, tx, d, e) OBVIOUS
<1> HIDE DEF r, g
<1>5. CASE ~Archive!Standard
  <2> DEFINE y == [x EXCEPT !.reload = @ \/ (ok /\ x.open /\ x.run = r.id)]
  <2>1. g = [tab |-> y, begins |-> <<>>, file |-> None] BY <1>4, <1>5 DEF Archive!Goes
  <2>2. y \in Panels /\ y.open = x.open /\ y.pending = x.pending /\ y.export = x.export
    BY DEF Panels
  <2> HIDE DEF y
  <2> QED BY <1>2, <1>5, <2>1, <2>2, NothingBegins, GoesOn
<1>6. CASE Archive!Standard /\ (ok \/ ~r.replay)
  <2> DEFINE rest == IF ok THEN {} ELSE {[id |-> r.id, state |-> "failed"]}
             y == [x EXCEPT !.pending = kept \cup rest, !.reload = TRUE]
  <2>1. g = [tab |-> y, begins |-> <<>>, file |-> None]
    BY <1>4, <1>6 DEF Archive!Goes, Archive!Settled, Panels
  <2>2. kept \cup rest \in SUBSET [id : Ids, state : {"saving", "failed"}] BY <1>1, <1>3
  <2>3. y \in Panels /\ y.open = x.open /\ y.export = x.export /\ y.reload = TRUE /\ y.busy = x.busy
    BY <2>2 DEF Panels
  <2> HIDE DEF y
  <2> QED BY <1>2, <1>6, <2>1, <2>3, NothingBegins, GoesOn
<1>7. CASE Archive!Standard /\ ~ok /\ r.replay
  <2> DEFINE put == Archive!Putting(t, r.id, FALSE)
  <2>1. put = [tab |-> t, op |-> "PUT", why |-> "end", runs |-> {[id |-> r.id, replay |-> FALSE]}]
    BY DEF Archive!Putting, Archive!Tx, Archive!Ended
  <2>6. g = [tab |-> x, begins |-> <<put>>, file |-> None] BY <1>4, <1>7 DEF Archive!Goes
  <2> HIDE DEF put
  <2>2. [id |-> r.id, replay |-> FALSE] \in Records BY <1>1 DEF Records
  <2>3. put.runs \in RecordSets BY <2>1, <2>2, FS_Singleton DEF RecordSets
  <2>4. put \in Transactions BY <2>1, <2>3 DEF Transactions, Archive!Operations, Reasons
  <2>5. Carried(put) /\ put.tab = t /\ ~Looks(put, t) /\ ~Engages(put, t)
    BY <2>1, <2>2 DEF Carried, Looks, Engages
  <2>7. e.runs = d.runs BY <1>7
  <2> DEFINE y == x
  <2>8. /\ y \in Panels /\ y.open = x.open /\ y.pending = x.pending /\ y.export = x.export
        /\ y.view = x.view /\ y.reload = x.reload /\ y.failed = x.failed /\ y.behind = x.behind
        /\ y.busy = x.busy
    OBVIOUS
  <2> HIDE DEF y, kept
  <2>9. Archive!Standard /\ ~Refreshes(tx, t) BY <1>2, <1>7
  <2>10. g = [tab |-> y, begins |-> <<put>>, file |-> None] BY <2>6 DEF y
  <2>11. Proceeds(g, t, x, tx, d, e)
    BY <2>4, <2>5, <2>7, <2>8, <2>9, <2>10, GoesAndBegins DEF Archive!Standard
  <2> QED BY <2>11
<1> QED BY <1>5, <1>6, <1>7 DEF g

LEMMA ImportProceeds ==
    ASSUME NEW t \in Pages, NEW x \in Panels, NEW tx \in Transactions,
           tx.tab = t, tx.op = "IMPORT", NEW ok \in BOOLEAN, NEW d \in Disks, NEW e \in Disks,
           ~ok => e = d, Archive!Standard => x.busy = TRUE
    PROVE  Proceeds(Archive!AfterImport(t, x, ok), t, x, tx, d, e)
<1> DEFINE g == Archive!AfterImport(t, x, ok)
           read == Archive!Reading(t, "import")
           y == [x EXCEPT !.busy = FALSE]
<1> SUFFICES Proceeds(g, t, x, tx, d, e) OBVIOUS
<1>1. Engages(tx, t) /\ ~Refreshes(tx, t) /\ ~Looks(tx, t) BY DEF Engages, Refreshes, Looks
<1>2. /\ read \in Transactions /\ Carried(read) /\ Refreshes(read, t) /\ ~Saves(read, t)
      /\ ~Looks(read, t) /\ Engages(read, t) /\ read.tab = t
  BY ReadingFacts
<1>3. CASE ok
  <2>1. g = [tab |-> x, begins |-> <<read>>, file |-> None]
    BY <1>3 DEF Archive!AfterImport, Archive!Goes
  <2> HIDE DEF read, g
  <2> QED BY <1>1, <1>2, <2>1, GoesAndBegins
<1>4. CASE ~ok
  <2>1. g = [tab |-> y, begins |-> <<>>, file |-> None]
    BY <1>4 DEF Archive!AfterImport, Archive!Goes
  <2>2. /\ y \in Panels /\ y.open = x.open /\ y.pending = x.pending /\ y.export = x.export
        /\ y.view = x.view /\ y.reload = x.reload /\ y.failed = x.failed /\ y.behind = x.behind
    BY DEF Panels
  <2> HIDE DEF y, g
  <2> QED BY <1>1, <1>4, <2>1, <2>2, NothingBegins, GoesOn
<1> QED BY <1>3, <1>4

LEMMA ClearProceeds ==
    ASSUME NEW t \in Pages, NEW x \in Panels, NEW tx \in Transactions,
           tx.tab = t, tx.op = "CLEAR", NEW ok \in BOOLEAN, NEW d \in Disks, NEW e \in Disks,
           ~ok => e = d, ok => e.runs = {}
    PROVE  Proceeds(Archive!AfterClear(t, x, ok), t, x, tx, d, e)
<1> DEFINE g == Archive!AfterClear(t, x, ok)
           read == Archive!Reading(t, "refresh")
           y == [x EXCEPT !.busy = FALSE]
           z == [x EXCEPT !.view = {}, !.busy = FALSE, !.behind = FALSE]
<1>1. Engages(tx, t) /\ ~Refreshes(tx, t) /\ ~Looks(tx, t) BY DEF Engages, Refreshes, Looks
<1>2. /\ read \in Transactions /\ Carried(read) /\ Refreshes(read, t) /\ ~Saves(read, t)
      /\ ~Looks(read, t) /\ read.tab = t
  BY ReadingFacts
<1>3. g = CASE ok /\ Archive!Standard -> Archive!Goes(z)
            [] ok /\ ~Archive!Standard -> [Archive!Goes(x) EXCEPT !.begins = <<read>>]
            [] ~ok -> Archive!Goes(y)
  BY DEF Archive!AfterClear
<1> SUFFICES Proceeds(g, t, x, tx, d, e) OBVIOUS
<1> HIDE DEF g
<1>4. CASE ok /\ Archive!Standard
  <2>1. g = [tab |-> z, begins |-> <<>>, file |-> None] BY <1>3, <1>4 DEF Archive!Goes
  <2>2. {} \in Views BY EmptyView
  <2>3. z \in Panels /\ z.open = x.open /\ z.view = {} /\ z.export = x.export
    BY <2>2 DEF Panels
  <2> HIDE DEF z
  <2> QED BY <1>1, <1>4, <2>1, <2>3, NothingBegins, GoesOn
<1>5. CASE ok /\ ~Archive!Standard
  <2>1. g = [tab |-> x, begins |-> <<read>>, file |-> None] BY <1>3, <1>5 DEF Archive!Goes
  <2> HIDE DEF read
  <2> QED BY <1>1, <1>2, <1>5, <2>1, GoesAndBegins
<1>6. CASE ~ok
  <2>1. g = [tab |-> y, begins |-> <<>>, file |-> None] BY <1>3, <1>6 DEF Archive!Goes
  <2>2. /\ y \in Panels /\ y.open = x.open /\ y.pending = x.pending /\ y.export = x.export
        /\ y.view = x.view /\ y.reload = x.reload /\ y.failed = x.failed /\ y.behind = x.behind
    BY DEF Panels
  <2> HIDE DEF y
  <2> QED BY <1>1, <1>6, <2>1, <2>2, NothingBegins, GoesOn
<1> QED BY <1>4, <1>5, <1>6 DEF g

LEMMA MigrateProceeds ==
    ASSUME NEW t \in Pages, NEW x \in Panels, NEW tx \in Transactions,
           tx.op = "MIGRATE", NEW d \in Disks, NEW e \in Disks, e.runs = d.runs
    PROVE  Proceeds(Archive!Goes(x), t, x, tx, d, e)
<1>1. ~Engages(tx, t) /\ ~Refreshes(tx, t) BY DEF Engages, Refreshes
<1>2. Archive!Goes(x) = [tab |-> x, begins |-> <<>>, file |-> None] BY DEF Archive!Goes
<1> QED BY <1>1, <1>2, NothingBegins, GoesOn

LEMMA ShownRecords ==
    ASSUME NEW R \in RecordSets
    PROVE  Archive!Shown(R) \in RecordSets /\ Archive!Shown(R) \subseteq R
<1>1. Archive!Shown(R) \subseteq R BY DEF Archive!Shown
<1> QED BY <1>1, FS_Subset DEF RecordSets

LEMMA ShownViews ==
    ASSUME NEW R \in Views
    PROVE  Archive!Shown(R) \in Views /\ Archive!Shown(R) \in RecordSets
<1>1. R \in RecordSets /\ IsFiniteSet(R) /\ Cardinality(R) <= Limit BY DEF Views, RecordSets
<1>2. Archive!Shown(R) \in RecordSets /\ Archive!Shown(R) \subseteq R BY <1>1, ShownRecords
<1>3. Cardinality(Archive!Shown(R)) <= Cardinality(R) BY <1>1, <1>2, FS_Subset
<1>4. Cardinality(Archive!Shown(R)) \in Nat /\ Cardinality(R) \in Nat
  BY <1>1, <1>2, FS_CardinalityType DEF RecordSets
<1> QED BY <1>1, <1>2, <1>3, <1>4, ArchiveConstants DEF Views

LEMMA PlaceFirst ==
    ASSUME NEW t, NEW x, 1 \in 1 .. Len(Archive!Lookups(t, x.runs)), x.got = {}
    PROVE  Place(Archive!Lookups(t, x.runs)[1], t, x)
<1> DEFINE U(k) == UNION {Archive!Lookups(t, x.runs)[m].runs : m \in 1 .. k - 1}
<1>1. U(1) = {} OBVIOUS
<1>2. Archive!Announced({}) = {} BY DEF Archive!Announced
<1>3. x.got = Archive!Announced(U(1)) BY <1>1, <1>2
<1> HIDE DEF U
<1>4. \E k \in 1 .. Len(Archive!Lookups(t, x.runs)) :
        /\ Archive!Lookups(t, x.runs)[1] = Archive!Lookups(t, x.runs)[k]
        /\ ~x.torn => x.got = Archive!Announced(U(k))
  BY <1>3
<1> QED BY <1>4 DEF Place, U

(* One after the other: the first of them alone.                            *)
LEMMA FirstAlone ==
    ASSUME NEW s \in Seq(Transactions), Len(s) # 0
    PROVE  SubSeq(s, 1, 1) = <<s[1]>> /\ s[1] \in Transactions /\ 1 \in 1 .. Len(s)
<1>1. s[1] \in Transactions /\ 1 \in 1 .. Len(s) OBVIOUS
<1>2. \A i \in 1 .. 1 : s[i] \in Transactions BY <1>1
<1>3. 1 \in Int /\ 1 - 1 + 1 = 1 /\ 1 + 1 - 1 = 1 /\ 1 <= 1 OBVIOUS
<1>4. /\ SubSeq(s, 1, 1) \in Seq(Transactions)
      /\ Len(SubSeq(s, 1, 1)) = IF 1 <= 1 THEN 1 - 1 + 1 ELSE 0
      /\ \A i \in 1 .. 1 - 1 + 1 : SubSeq(s, 1, 1)[i] = s[1 + i - 1]
  BY <1>2, <1>3, SubSeqProperties
<1>5. Len(SubSeq(s, 1, 1)) = 1 /\ SubSeq(s, 1, 1)[1] = s[1] BY <1>3, <1>4
<1>6. <<s[1]>> \in Seq(Transactions) /\ Len(<<s[1]>>) = 1 /\ <<s[1]>>[1] = s[1] BY <1>1
<1>7. \A i \in 1 .. Len(SubSeq(s, 1, 1)) : SubSeq(s, 1, 1)[i] = <<s[1]>>[i] BY <1>5, <1>6
<1>8. SubSeq(s, 1, 1) = <<s[1]>> BY <1>4, <1>5, <1>6, <1>7, SeqEqual
<1> QED BY <1>1, <1>8

(* The first lookup of an export that has something to look up.             *)
LEMMA FirstLookup ==
    ASSUME NEW t \in Pages, NEW R \in RecordSets, R # {}
    PROVE  LET all == Archive!Lookups(t, R) IN
           /\ all \in Seq(Transactions) /\ Len(all) # 0
           /\ all[1] \in Transactions /\ 1 \in 1 .. Len(all)
           /\ all[1].tab = t /\ all[1].op = "REPLAY"
           /\ \E r \in R : all[1].runs = {r}
<1> DEFINE all == Archive!Lookups(t, R)
<1>1. all \in Seq(Transactions) /\ Len(all) = Cardinality(R) BY LookupsFacts
<1>2. \A k \in 1 .. Len(all) : /\ all[k].tab = t /\ all[k].op = "REPLAY"
                              /\ \E r \in R : all[k].runs = {r}
    BY LookupsFacts
<1> HIDE DEF all
<1>3. Cardinality(R) # 0 BY FS_EmptySet DEF RecordSets
<1>4. Len(all) # 0 /\ all[1] \in Transactions /\ 1 \in 1 .. Len(all) BY <1>1, <1>3
<1>5. all[1].tab = t /\ all[1].op = "REPLAY" /\ \E r \in R : all[1].runs = {r}
    BY <1>2, <1>4
<1> QED BY <1>1, <1>4, <1>5 DEF all

LEMMA AfterReadProceeds ==
    ASSUME NEW t \in Pages, NEW x \in Panels, NEW tx \in Transactions, Carried(tx),
           tx.tab = t, tx.op = "READ", NEW ok \in BOOLEAN, disk \in Disks, Stored(disk),
           Archive!Standard /\ Engages(tx, t) => x.busy = TRUE
    PROVE  Proceeds(Archive!AfterRead(t, x, tx, ok), t, x, tx, disk, disk)
<1> DEFINE records == Archive!Shown(disk.runs)
           export == [runs |-> records, got |-> {}, torn |-> FALSE]
           shown == [x EXCEPT !.view = disk.runs, !.failed = FALSE, !.behind = FALSE]
           started == [x EXCEPT !.export = export]
           idle(y) == [y EXCEPT !.busy = IF tx.why = "refresh" THEN @ ELSE FALSE]
           g == Archive!AfterRead(t, x, tx, ok)
           all == Archive!Lookups(t, records)
           first == [Archive!Goes(started) EXCEPT !.begins = SubSeq(all, 1, 1)]
<1>1. g = CASE tx.why # "export" ->
                 Archive!Goes(idle(IF ok THEN shown ELSE [x EXCEPT !.failed = TRUE]))
            [] tx.why = "export" /\ ok /\ records = disk.runs /\ Archive!Paired(disk) ->
                 IF records = {} THEN Archive!Downloads(started) ELSE first
            [] OTHER -> Archive!Goes(idle(x))
  BY DEF Archive!AfterRead
<1>2. records \in Views /\ records \subseteq disk.runs /\ disk.runs \in Views
  BY ShownViews, ShownRecords DEF Disks, Stored, Views
<1>3. export \in Exports BY <1>2 DEF Exports
<1>4. /\ tx.why \in {"refresh", "import"} \/ (tx.why = "export" /\ Archive!Standard)
      /\ tx.tab = t
  BY DEF Carried
<1>5. \A r \in records : Archive!ValidRun(r) BY DEF Archive!Shown
<1> SUFFICES Proceeds(g, t, x, tx, disk, disk) OBVIOUS
<1> HIDE DEF g, records, all, first
<1>6. CASE tx.why # "export"
  <2> DEFINE y == idle(IF ok THEN shown ELSE [x EXCEPT !.failed = TRUE])
  <2>1. g = [tab |-> y, begins |-> <<>>, file |-> None] BY <1>1, <1>6 DEF Archive!Goes
  <2>2. /\ y \in Panels /\ y.open = x.open /\ y.pending = x.pending /\ y.export = x.export
        /\ y.failed = TRUE \/ y.view = disk.runs
        /\ tx.why = "refresh" => y.busy = x.busy
    BY <1>2 DEF Panels
  <2>3. tx.why # "refresh" => Engages(tx, t) BY <1>4, <1>6 DEF Engages
  <2> HIDE DEF y
  <2> QED BY <2>1, <2>2, <2>3, NothingBegins, GoesOn
<1>7. CASE tx.why = "export"
  <2>0. Engages(tx, t) /\ ~Refreshes(tx, t) /\ Archive!Standard
    BY <1>4, <1>7 DEF Engages, Refreshes
  <2>1. CASE ok /\ records = disk.runs /\ Archive!Paired(disk) /\ records = {}
    <3> DEFINE doc == [runs |-> started.export.runs, replays |-> started.export.got]
               y == [started EXCEPT !.export = None, !.busy = FALSE]
               f == [doc |-> doc, torn |-> started.export.torn]
    <3>1. started.export = export BY DEF Panels
    <3>2. g = [tab |-> y, begins |-> <<>>, file |-> f]
      <4>1. g = Archive!Downloads(started) BY <1>1, <1>7, <2>1
      <4>2. Archive!Complete(doc) BY <2>0 DEF Archive!Complete
      <4> QED BY <4>1, <4>2 DEF Archive!Downloads, Archive!Goes
    <3>3. /\ y \in Panels /\ y.open = x.open /\ y.pending = x.pending
          /\ y.view = x.view /\ y.reload = x.reload /\ y.failed = x.failed /\ y.behind = x.behind
      BY DEF Panels
    <3>4. export.runs = {} /\ export.got = {} /\ export.torn = FALSE BY <2>1
    <3>5. Begun(export, disk) /\ export.got = Archive!Announced(export.runs)
      BY <3>4 DEF Begun, Archive!Announced
    <3>6. Archive!Acceptable([runs |-> export.runs, replays |-> export.got])
      BY <1>3, <3>4, <3>5, ExportAcceptable
    <3>7. f \in Files /\ Portable(f)
      <4>1. f.doc = [runs |-> export.runs, replays |-> export.got] /\ f.torn = FALSE BY <3>1
      <4>2. doc.runs \in RecordSets /\ doc.replays \in SUBSET Ids /\ started.export.torn \in BOOLEAN
        BY <1>2, <3>1, <3>4 DEF Views
      <4> HIDE DEF f
      <4>3. Portable(f) BY <3>6, <4>1 DEF Portable
      <4> QED BY <4>2, <4>3 DEF f, Files
    <3> HIDE DEF y, f, export
    <3> QED BY <2>0, <3>2, <3>3, <3>7, GoesOn
  <2>2. CASE ok /\ records = disk.runs /\ Archive!Paired(disk) /\ records # {}
    <3>0. records \in RecordSets /\ records # {} BY <1>2, <2>2 DEF Views
    <3>1. /\ all \in Seq(Transactions) /\ Len(all) # 0
          /\ all[1] \in Transactions /\ 1 \in 1 .. Len(all)
      BY <3>0, FirstLookup DEF all
    <3>2. /\ all[1].tab = t /\ all[1].op = "REPLAY"
          /\ \E r \in records : all[1].runs = {r}
      BY <3>0, FirstLookup DEF all
    <3>3. SubSeq(all, 1, 1) = <<all[1]>> BY <3>1, FirstAlone
    <3>4. g = [tab |-> started, begins |-> <<all[1]>>, file |-> None]
      <4>0. g = first BY <1>1, <1>7, <2>2
      <4>1. g = [Archive!Goes(started) EXCEPT !.begins = <<all[1]>>]
        BY <3>3, <4>0 DEF first
      <4> DEFINE n == all[1]
      <4> HIDE DEF started, n
      <4>2. g = [Archive!Goes(started) EXCEPT !.begins = <<n>>] BY <4>1 DEF n
      <4>3. g = [tab |-> started, begins |-> <<n>>, file |-> None] BY <4>2 DEF Archive!Goes
      <4> QED BY <4>3 DEF n
    <3>5. /\ started \in Panels /\ started.open = x.open /\ started.pending = x.pending
          /\ started.view = x.view /\ started.reload = x.reload /\ started.failed = x.failed
          /\ started.behind = x.behind /\ started.busy = x.busy /\ started.export = export
      BY <1>3 DEF Panels
    <3>6. export.runs = records /\ export.got = {} /\ export.torn = FALSE OBVIOUS
    <3>7. Carried(all[1])
      BY <1>2, <3>2 DEF Carried, RecordSets, Views
    <3>8. ~Saves(all[1], t) BY <3>2 DEF Saves
    <3>9. Placed(all[1], t, started, disk)
      <4>1. started.export # None BY <1>3, <3>5, ArchiveConstants
      <4>2. Begun(export, disk) BY <1>2, <1>5, <3>6 DEF Begun
      <4>3. Place(all[1], t, export)
        <5>1. all = Archive!Lookups(t, export.runs) BY <3>6 DEF all
        <5> HIDE DEF export
        <5> QED BY <3>1, <3>6, <5>1, PlaceFirst
      <4> QED BY <3>5, <4>1, <4>2, <4>3 DEF Placed
    <3>10. started.busy = TRUE BY <2>0, <3>5
    <3> HIDE DEF started, export
    <3> QED BY <2>0, <3>1, <3>2, <3>4, <3>5, <3>7, <3>8, <3>9, <3>10, GoesAndBegins
  <2>3. CASE ~(ok /\ records = disk.runs /\ Archive!Paired(disk))
    <3> DEFINE y == idle(x)
    <3>1. g = [tab |-> y, begins |-> <<>>, file |-> None] BY <1>1, <1>7, <2>3 DEF Archive!Goes
    <3>2. /\ y \in Panels /\ y.open = x.open /\ y.pending = x.pending /\ y.export = x.export
          /\ y.view = x.view /\ y.reload = x.reload /\ y.failed = x.failed /\ y.behind = x.behind
      BY DEF Panels
    <3> HIDE DEF y
    <3> QED BY <2>0, <3>1, <3>2, NothingBegins, GoesOn
  <2> QED BY <2>1, <2>2, <2>3
<1> QED BY <1>6, <1>7 DEF g

(* The replays that were read, with one more.                               *)
LEMMA GotOne ==
    ASSUME NEW t \in Pages, NEW x \in Exports, disk \in Disks, Stored(disk), Begun(x, disk), ~x.torn,
           NEW k \in 1 .. Len(Archive!Lookups(t, x.runs)),
           NEW r \in Records, Archive!Lookups(t, x.runs)[k].runs = {r},
           x.got = Archive!Announced(UNION {Archive!Lookups(t, x.runs)[m].runs : m \in 1 .. k - 1})
    PROVE  x.got \cup ({r.id} \cap disk.replays)
             = Archive!Announced(UNION {Archive!Lookups(t, x.runs)[m].runs : m \in 1 .. k})
<1> DEFINE all == Archive!Lookups(t, x.runs)
           A == UNION {all[m].runs : m \in 1 .. k - 1}
           B == UNION {all[m].runs : m \in 1 .. k}
<1>1. x.runs \in RecordSets /\ x.runs \subseteq disk.runs BY DEF Exports, Views, Begun
<1>2. r \in x.runs
  <2>1. \E s \in x.runs : all[k].runs = {s} BY <1>1, LookupsFacts DEF all
  <2> QED BY <2>1
<1>3. Len(all) \in Nat BY <1>1, LookupsFacts DEF all
<1> HIDE DEF all
<1>4. B = A \cup {r}
  <2>1. all[k].runs = {r} BY DEF all
  <2>2. k \in 1 .. Len(all) BY DEF all
  <2>3. 1 .. k = (1 .. k - 1) \cup {k} BY <1>3, <2>2
  <2> QED BY <2>1, <2>3
<1>5. x.got = Archive!Announced(A) BY DEF all
<1> HIDE DEF A, B
<1>6. Archive!Announced(A \cup {r}) = Archive!Announced(A) \cup (IF r.replay THEN {r.id} ELSE {})
  BY DEF Archive!Announced
<1>7. r.replay <=> r.id \in disk.replays BY <1>1, <1>2 DEF Stored
<1>8. {r.id} \cap disk.replays = IF r.replay THEN {r.id} ELSE {} BY <1>7
<1>9. x.got \cup ({r.id} \cap disk.replays) = Archive!Announced(B) BY <1>4, <1>5, <1>6, <1>8
<1> QED BY <1>9 DEF B, all

(* All of them.                                                             *)
LEMMA LookedUpAll ==
    ASSUME NEW t \in Pages, NEW R \in RecordSets, NEW k, k = Len(Archive!Lookups(t, R))
    PROVE  UNION {Archive!Lookups(t, R)[m].runs : m \in 1 .. k} = R
<1> DEFINE all == Archive!Lookups(t, R)
<1>1. \A i \in 1 .. Len(all) : all[i].op = "REPLAY" /\ \E r \in R : all[i].runs = {r}
  BY LookupsFacts DEF all
<1>2. \A r \in R : \E i \in 1 .. Len(all) : all[i].runs = {r} BY LookupsFacts DEF all
<1>3. Len(all) = k OBVIOUS
<1> HIDE DEF all
<1>4. UNION {all[m].runs : m \in 1 .. k} = R
  <2>1. ASSUME NEW r \in UNION {all[m].runs : m \in 1 .. k} PROVE r \in R
    <3>1. PICK m \in 1 .. k : r \in all[m].runs OBVIOUS
    <3>2. PICK s \in R : all[m].runs = {s} BY <1>1, <1>3
    <3> QED BY <3>1, <3>2
  <2>2. ASSUME NEW r \in R PROVE r \in UNION {all[m].runs : m \in 1 .. k}
    <3>1. PICK m \in 1 .. k : all[m].runs = {r} BY <1>2, <1>3
    <3> QED BY <3>1
  <2> QED BY <2>1, <2>2
<1> QED BY <1>4 DEF all

LEMMA PlaceNext ==
    ASSUME NEW t, NEW x, NEW k \in Int, k + 1 \in 1 .. Len(Archive!Lookups(t, x.runs)),
           ~x.torn => x.got = Archive!Announced(UNION {Archive!Lookups(t, x.runs)[m].runs :
                                                       m \in 1 .. k})
    PROVE  Place(Archive!Lookups(t, x.runs)[k + 1], t, x)
<1> DEFINE all == Archive!Lookups(t, x.runs)
           U(i) == UNION {all[m].runs : m \in 1 .. i - 1}
           l == k + 1
<1>1. l - 1 = k OBVIOUS
<1> HIDE DEF l
<1>2. ~x.torn => x.got = Archive!Announced(U(l)) BY <1>1
<1> HIDE DEF U
<1>3. \E i \in 1 .. Len(all) : all[l] = all[i] /\ (~x.torn => x.got = Archive!Announced(U(i)))
  BY <1>2 DEF l
<1> QED BY <1>3 DEF Place, U, l

(* The next one, if there is one.                                           *)
LEMMA NextLookup ==
    ASSUME NEW t \in Pages, NEW R \in RecordSets, NEW k \in 1 .. Len(Archive!Lookups(t, R))
    PROVE  LET all == Archive!Lookups(t, R)
               next == {i \in 2 .. Len(all) : all[i - 1] = all[k]}
           IN IF k = Len(all) THEN next = {} ELSE next = {k + 1} /\ k + 1 \in 1 .. Len(all)
<1> DEFINE all == Archive!Lookups(t, R)
           next == {i \in 2 .. Len(all) : all[i - 1] = all[k]}
<1>1. /\ Len(all) \in Nat
      /\ \A i \in 1 .. Len(all) : \A m \in 1 .. Len(all) : all[i] = all[m] => i = m
  BY LookupsFacts DEF all
<1>2. k \in 1 .. Len(all) OBVIOUS
<1> HIDE DEF all
<1>3. \A i \in 2 .. Len(all) : i - 1 \in 1 .. Len(all) BY <1>1
<1>4. \A i \in 2 .. Len(all) : all[i - 1] = all[k] <=> i - 1 = k BY <1>1, <1>2, <1>3
<1>5. \A i \in 2 .. Len(all) : i - 1 = k <=> i = k + 1 BY <1>2
<1>6. next = {i \in 2 .. Len(all) : i = k + 1} BY <1>4, <1>5
<1> HIDE DEF next
<1>7. CASE k = Len(all)
  <2>1. \A i \in 2 .. Len(all) : i # k + 1 BY <1>1, <1>7
  <2> QED BY <1>6, <1>7, <2>1 DEF all, next
<1>8. CASE k # Len(all)
  <2>1. k + 1 \in 2 .. Len(all) /\ k + 1 \in 1 .. Len(all) BY <1>1, <1>2, <1>8
  <2>2. next = {k + 1} BY <1>6, <2>1
  <2> QED BY <1>8, <2>1, <2>2 DEF all, next
<1> QED BY <1>7, <1>8

LEMMA LookupCarries ==
    ASSUME NEW t \in Pages, NEW R \in RecordSets, NEW i \in 1 .. Len(Archive!Lookups(t, R))
    PROVE  LET n == Archive!Lookups(t, R)[i] IN
           /\ n \in Transactions /\ n.tab = t /\ n.op = "REPLAY"
           /\ Carried(n) /\ ~Saves(n, t)
<1> DEFINE all == Archive!Lookups(t, R)
           n == all[i]
<1>1. all \in Seq(Transactions) BY LookupsFacts DEF all
<1>2. \A k \in 1 .. Len(all) : /\ all[k].tab = t /\ all[k].op = "REPLAY"
                               /\ \E r \in R : all[k].runs = {r}
  BY LookupsFacts DEF all
<1>3. i \in 1 .. Len(all) OBVIOUS
<1> HIDE DEF all
<1>4. n \in Transactions /\ n.tab = t /\ n.op = "REPLAY" /\ \E r \in R : n.runs = {r}
  BY <1>1, <1>2, <1>3
<1> HIDE DEF n
<1>5. Carried(n) /\ ~Saves(n, t) BY <1>4 DEF Carried, Saves, RecordSets
<1> QED BY <1>4, <1>5 DEF n, all

LEMMA AfterReplayProceeds ==
    ASSUME NEW t \in Pages, NEW x \in Panels, NEW tx \in Transactions, Carried(tx),
           tx.tab = t, tx.op = "REPLAY", NEW ok \in BOOLEAN, disk \in Disks, Stored(disk),
           Placed(tx, t, x, disk), Archive!Standard => x.busy = TRUE
    PROVE  Proceeds(Archive!AfterReplay(t, x, tx, ok), t, x, tx, disk, disk)
<1> DEFINE id == (CHOOSE r \in tx.runs : TRUE).id
           read == ok /\ (id \in disk.replays => Archive!ValidReplay(id))
           export == [x.export EXCEPT !.got = @ \cup ({id} \cap disk.replays)]
           y == [x EXCEPT !.export = export]
           all == Archive!Lookups(t, x.export.runs)
           next == {i \in 2 .. Len(all) : all[i - 1] = tx}
           last == IF Archive!Standard THEN next = {}
                   ELSE Len(queue) - Len(Archive!Without(queue, t, {"REPLAY"})) = 1
           begins == IF Archive!Standard THEN <<all[CHOOSE i \in next : TRUE]>> ELSE <<>>
           g == Archive!AfterReplay(t, x, tx, ok)
           stopped == [x EXCEPT !.export = None, !.busy = FALSE]
           goes == [Archive!Goes(y) EXCEPT !.begins = begins]
<1>1. g = CASE ~read -> Archive!Goes(stopped)
            [] read /\ last -> Archive!Downloads(y)
            [] OTHER -> goes
  BY DEF Archive!AfterReplay
<1>2. id \in Ids /\ \E r \in Records : tx.runs = {r} /\ r.id = id
  BY CarriesRecord DEF Records
<1>3. x.export \in Exports /\ x.export # None BY DEF Placed, Panels
<1>4. /\ export \in Exports /\ export # None
      /\ export.runs = x.export.runs /\ export.torn = x.export.torn
      /\ export.got = x.export.got \cup ({id} \cap disk.replays)
  <2>1. export \in Exports BY <1>2, <1>3 DEF Exports
  <2> QED BY <1>3, <2>1, ArchiveConstants DEF Exports
<1>5. Looks(tx, t) /\ ~Refreshes(tx, t) /\ Engages(tx, t) BY DEF Looks, Refreshes, Engages
<1>6. read => \A i \in {id} \cap disk.replays : Archive!ValidReplay(i) OBVIOUS
<1> SUFFICES Proceeds(g, t, x, tx, disk, disk) OBVIOUS
<1> HIDE DEF g, read, last, goes, export, id
<1>7. /\ y \in Panels /\ y.open = x.open /\ y.pending = x.pending /\ y.view = x.view
      /\ y.reload = x.reload /\ y.failed = x.failed /\ y.behind = x.behind /\ y.busy = x.busy
      /\ y.export = export
  BY <1>4 DEF Panels
<1>8. /\ stopped \in Panels /\ stopped.open = x.open /\ stopped.pending = x.pending
      /\ stopped.view = x.view /\ stopped.reload = x.reload /\ stopped.failed = x.failed
      /\ stopped.behind = x.behind
  BY DEF Panels
<1>9. Archive!Standard /\ read =>
        /\ Begun(export, disk)
        /\ \E k \in 1 .. Len(all) :
              /\ tx = all[k]
              /\ ~export.torn => export.got = Archive!Announced(UNION {all[m].runs : m \in 1 .. k})
  <2> SUFFICES ASSUME Archive!Standard, read
               PROVE  /\ Begun(export, disk)
                      /\ \E k \in 1 .. Len(all) :
                            /\ tx = all[k]
                            /\ ~export.torn => export.got = Archive!Announced(UNION {all[m].runs : m \in 1 .. k})
    OBVIOUS
  <2>1. Begun(x.export, disk) /\ Place(tx, t, x.export) BY DEF Placed
  <2>2. Begun(export, disk) BY <1>4, <1>6, <2>1 DEF Begun
  <2>3. PICK k \in 1 .. Len(all) :
          /\ tx = all[k]
          /\ ~x.export.torn => x.export.got = Archive!Announced(UNION {all[m].runs : m \in 1 .. k - 1})
    BY <2>1 DEF Place
  <2>4. PICK r \in Records : tx.runs = {r} /\ r.id = id BY <1>2
  <2>5. ASSUME ~export.torn
        PROVE  export.got = Archive!Announced(UNION {all[m].runs : m \in 1 .. k})
    <3>1. ~x.export.torn BY <1>4, <2>5
    <3>2. x.export.got \cup ({r.id} \cap disk.replays) = Archive!Announced(UNION {all[m].runs : m \in 1 .. k})
      BY <1>3, <2>1, <2>3, <2>4, <3>1, GotOne
    <3> QED BY <1>4, <2>4, <3>2
  <2> QED BY <2>2, <2>3, <2>5
<1>10. CASE ~read
  <2>1. g = [tab |-> stopped, begins |-> <<>>, file |-> None] BY <1>1, <1>10 DEF Archive!Goes
  <2> HIDE DEF stopped
  <2> QED BY <1>5, <1>8, <2>1, NothingBegins, GoesOn
<1>11. CASE read /\ last
  <2> DEFINE doc == [runs |-> y.export.runs, replays |-> y.export.got]
             z == [y EXCEPT !.export = None, !.busy = FALSE]
             f == IF Archive!Complete(doc) THEN [doc |-> doc, torn |-> y.export.torn] ELSE None
  <2>1. g = [tab |-> z, begins |-> <<>>, file |-> f]
    <3>1. g = Archive!Downloads(y) BY <1>1, <1>11
    <3> HIDE DEF y
    <3> QED BY <3>1 DEF Archive!Downloads, Archive!Goes
  <2>2. z \in Panels /\ z.open = x.open /\ z.pending = x.pending /\ z.view = x.view
        /\ z.reload = x.reload /\ z.failed = x.failed /\ z.behind = x.behind
    <3> HIDE DEF y
    <3> QED BY <1>7 DEF Panels
  <2>3. doc = [runs |-> export.runs, replays |-> export.got] /\ y.export.torn = export.torn
    BY <1>7
  <2>4. doc \in [runs : Views, replays : SUBSET Ids] /\ export.torn \in BOOLEAN
    BY <1>4, <2>3 DEF Exports
  <2>5. Archive!Standard /\ Sure(export.got, export.torn) => Archive!Acceptable(doc)
    <3> SUFFICES ASSUME Archive!Standard, ~export.torn, \A i \in export.got : Archive!PlaysBack(i)
                 PROVE  Archive!Acceptable(doc)
      BY DEF Sure
    <3>1. next = {} BY <1>11 DEF last
    <3>2. PICK k \in 1 .. Len(all) :
            tx = all[k] /\ export.got = Archive!Announced(UNION {all[m].runs : m \in 1 .. k})
      BY <1>9, <1>11
    <3>3. x.export.runs \in RecordSets BY <1>3 DEF Exports, Views
    <3>4. k = Len(all) BY <3>1, <3>2, <3>3, NextLookup
    <3>5. UNION {all[m].runs : m \in 1 .. k} = x.export.runs BY <3>3, <3>4, LookedUpAll
    <3>6. export.got = Archive!Announced(export.runs) BY <1>4, <3>2, <3>5
    <3> QED BY <1>4, <1>9, <1>11, <2>3, <3>6, ExportAcceptable
  <2>6. ~Archive!Standard /\ Archive!Complete(doc) => Archive!Acceptable(doc)
    BY <2>4, SameCardinality DEF Archive!Complete, Archive!Acceptable, Views
  <2> HIDE DEF doc, z
  <2>7. f \in Files /\ Portable(f)
    <3>1. CASE Archive!Complete(doc)
      <4>1. f = [doc |-> doc, torn |-> export.torn] BY <2>3, <3>1
      <4>2. f.doc = doc /\ f.torn = export.torn BY <4>1
      <4>3. f \in Files BY <2>4, <4>1 DEF Files, Views
      <4>4. doc.replays = export.got BY <2>3
      <4> HIDE DEF f
      <4> QED BY <2>5, <2>6, <3>1, <4>2, <4>3, <4>4 DEF Portable
    <3>2. CASE ~Archive!Complete(doc) BY <3>2, NothingBegins
    <3> QED BY <3>1, <3>2
  <2> HIDE DEF f, y
  <2> QED BY <1>5, <2>1, <2>2, <2>7, GoesOn
<1>12. CASE read /\ ~last /\ ~Archive!Standard
  <2>1. g = goes BY <1>1, <1>12
  <2>2. begins = <<>> BY <1>12
  <2> HIDE DEF y, begins
  <2>3. g = [tab |-> y, begins |-> <<>>, file |-> None] BY <2>1, <2>2 DEF Archive!Goes, goes
  <2> QED BY <1>5, <1>7, <1>12, <2>3, NothingBegins, GoesOn
<1>13. CASE read /\ ~last /\ Archive!Standard
  <2>1. next # {} BY <1>13 DEF last
  <2>2. PICK k \in 1 .. Len(all) :
          /\ tx = all[k]
          /\ ~export.torn => export.got = Archive!Announced(UNION {all[m].runs : m \in 1 .. k})
    BY <1>9, <1>13
  <2>3. x.export.runs \in RecordSets BY <1>3 DEF Exports, Views
  <2>4. next = {k + 1} /\ k + 1 \in 1 .. Len(all) BY <2>1, <2>2, <2>3, NextLookup
  <2> DEFINE n == all[k + 1]
  <2>5. begins = <<n>> BY <1>13, <2>4
  <2>6. n \in Transactions /\ n.tab = t /\ Carried(n) /\ ~Saves(n, t)
    BY <2>3, <2>4, LookupCarries
  <2>8. Place(n, t, export)
    <3>1. all = Archive!Lookups(t, export.runs) BY <1>4
    <3>2. k \in Int OBVIOUS
    <3> HIDE DEF all
    <3> QED BY <2>2, <2>4, <3>1, <3>2, PlaceNext
  <2>9. Placed(n, t, y, disk) BY <1>4, <1>7, <1>9, <1>13, <2>8 DEF Placed
  <2> HIDE DEF y, begins, n, next, all
  <2>10. g = goes BY <1>1, <1>13
  <2>11. g = [tab |-> y, begins |-> <<n>>, file |-> None] BY <2>5, <2>10 DEF Archive!Goes, goes
  <2>12. y.busy = TRUE BY <1>7, <1>13
  <2> QED BY <1>5, <1>7, <1>13, <2>6, <2>9, <2>11, <2>12, GoesAndBegins
<1> QED BY <1>10, <1>11, <1>12, <1>13 DEF g

LEMMA AfterProceeds ==
    ASSUME Keeping(queue, tab, disk, file), NEW i \in 1 .. Len(queue), NEW ok \in BOOLEAN,
           ok => Archive!Works(disk, queue[i])
    PROVE  LET tx == queue[i]
               e == IF ok THEN Archive!Effect(disk, tx) ELSE disk
           IN /\ tx \in Transactions /\ tx.tab \in Pages /\ e \in Disks /\ Stored(e)
              /\ Proceeds(Archive!After(tx, ok), tx.tab, tab[tx.tab], tx, disk, e)
              /\ tx.op # "CLEAR" => disk.runs \subseteq e.runs
              /\ ~(ok /\ Archive!Writes(tx)) => e.runs = disk.runs
<1> DEFINE tx == queue[i]
           t == tx.tab
           x == tab[t]
           e == IF ok THEN Archive!Effect(disk, tx) ELSE disk
           g == Archive!After(tx, ok)
<1>1. /\ tx \in Transactions /\ Carried(tx) /\ disk \in Disks /\ Stored(disk)
      /\ \A s \in Pages : tab[s] \in Panels /\ Page(s, tab[s], queue, disk)
  BY DEF Keeping
<1>2. t \in Pages /\ tx.op \in Archive!Operations BY <1>1 DEF Transactions
<1>3. x \in Panels /\ Page(t, x, queue, disk) BY <1>1, <1>2
<1>4. /\ e \in Disks /\ Stored(e)
      /\ tx.op # "CLEAR" => disk.runs \subseteq e.runs
      /\ ok /\ tx.op = "CLEAR" => e.runs = {}
      /\ ~(ok /\ Archive!Writes(tx)) => e.runs = disk.runs
      /\ ~ok => e = disk
  BY <1>1, EffectStored
<1>5. tx.op \in {"READ", "REPLAY"} => e = disk BY DEF Archive!Effect
<1>6. Archive!Standard /\ Engages(tx, t) => x.busy = TRUE BY <1>3 DEF Page, Single, Panels
<1>7. g = CASE tx.op = "READ" -> Archive!AfterRead(t, x, tx, ok)
            [] tx.op = "REPLAY" -> Archive!AfterReplay(t, x, tx, ok)
            [] tx.op = "PUT" -> Archive!AfterPut(t, x, tx, ok)
            [] tx.op = "IMPORT" -> Archive!AfterImport(t, x, ok)
            [] tx.op = "CLEAR" -> Archive!AfterClear(t, x, ok)
            [] tx.op = "MIGRATE" -> Archive!Goes(x)
  BY DEF Archive!After
<1>8. tx.tab = t OBVIOUS
<1>9. tx.op \in {"REPLAY", "IMPORT"} => Engages(tx, t) BY DEF Engages
<1>10. tx.op = "REPLAY" => Placed(tx, t, x, disk)
  BY <1>3, <1>8 DEF Page, Progress, Looks
<1> SUFFICES Proceeds(g, t, x, tx, disk, e) BY <1>1, <1>2, <1>4
<1> HIDE DEF tx, t, x, e, g
<1>11. CASE tx.op = "READ" BY <1>1, <1>2, <1>3, <1>5, <1>6, <1>7, <1>8, <1>11, AfterReadProceeds
<1>12. CASE tx.op = "REPLAY"
  BY <1>1, <1>2, <1>3, <1>5, <1>6, <1>7, <1>8, <1>9, <1>10, <1>12, AfterReplayProceeds
<1>13. CASE tx.op = "PUT" BY <1>1, <1>2, <1>3, <1>4, <1>7, <1>8, <1>13, PutProceeds
<1>14. CASE tx.op = "IMPORT"
  BY <1>1, <1>2, <1>3, <1>4, <1>6, <1>7, <1>8, <1>9, <1>14, ImportProceeds
<1>15. CASE tx.op = "CLEAR" BY <1>1, <1>2, <1>3, <1>4, <1>7, <1>8, <1>15, ClearProceeds
<1>16. CASE tx.op = "MIGRATE"
  <2>1. e.runs = disk.runs BY <1>4, <1>16 DEF Archive!Writes
  <2>2. g = Archive!Goes(x) BY <1>7, <1>16
  <2>3. x \in Panels /\ tx \in Transactions /\ e \in Disks /\ disk \in Disks BY <1>1, <1>3, <1>4
  <2>4. Proceeds(Archive!Goes(x), t, x, tx, disk, e) BY <1>2, <1>16, <2>1, <2>3, MigrateProceeds
  <2> QED BY <2>2, <2>4
<1> QED BY <1>2, <1>11, <1>12, <1>13, <1>14, <1>15, <1>16 DEF Archive!Operations

(* An export whose games are still there, and one that was torn.            *)
LEMMA PlacedStays ==
    ASSUME NEW n, NEW t, NEW x, NEW y, NEW d, NEW e, Placed(n, t, x, d),
           y.export = x.export, Archive!Standard => d.runs \subseteq e.runs
    PROVE  Placed(n, t, y, e)
BY DEF Placed, Begun

LEMMA PlacedTorn ==
    ASSUME NEW n, NEW t, NEW x, NEW y, NEW d, NEW e, Placed(n, t, x, d),
           y.export # None, y.export.runs = x.export.runs, y.export.got = x.export.got,
           y.export.torn = TRUE
    PROVE  Placed(n, t, y, e)
<1>1. CASE ~Archive!Standard BY <1>1 DEF Placed
<1>2. CASE Archive!Standard
  <2>1. Begun(y.export, e) BY <1>2 DEF Placed, Begun
  <2>2. Place(n, t, y.export) BY <1>2 DEF Placed, Place
  <2> QED BY <1>2, <2>1, <2>2 DEF Placed
<1> QED BY <1>1, <1>2

(* The tab of the transaction that is answered.                             *)
LEMMA OwnPage ==
    ASSUME NEW q, q \in Seq(Transactions), NEW r, r \in Seq(Transactions), NEW i \in 1 .. Len(q), NEW g, NEW t \in Pages, NEW x \in Panels,
           NEW d, NEW e, NEW I, q[i].tab = t,
           Page(t, x, q, d), Proceeds(g, t, x, q[i], d, e), Derives(r, q, I, g.begins),
           i \notin I, \A j \in 1 .. Len(q) : j = i \/ j \in I \/ (Looks(q[j], t) /\ ~Refreshes(q[j], t)),
           q[i].op # "CLEAR" => d.runs \subseteq e.runs,
           \A j \in 1 .. i - 1 : ~(Saves(q[j], t) /\ Refreshes(q[i], t)),
           Looks(q[i], t) /\ g.tab.export = None => \A j \in I : ~Looks(q[j], t)
    PROVE  Page(t, g.tab, r, e)
<1> DEFINE tx == q[i]
           y == g.tab
           b == g.begins
<1>0. Len(q) \in Nat /\ Len(r) \in Nat /\ I \subseteq 1 .. Len(q)
  BY DEF Derives
<1>1. Caught(t, y, r, e)
  <2> SUFFICES ASSUME y.open, ~y.reload, ~y.failed, ~y.behind,
                      \A k \in 1 .. Len(r) : ~Refreshes(r[k], t)
               PROVE  y.view = e.runs
    BY DEF Caught
  <2>1. \A j \in I : ~Refreshes(q[j], t) BY DerivesHas
  <2>2. \A m \in 1 .. Len(b) : ~Refreshes(b[m], t) BY DerivesHas
  <2>3. \A j \in 1 .. Len(q) : j = i \/ ~Refreshes(q[j], t) BY <2>1
  <2>4. x.open BY DEF Proceeds
  <2>5. CASE y.view = e.runs BY <2>5
  <2>6. CASE e.runs = d.runs /\ y.view = x.view /\ y.reload = x.reload
             /\ y.failed = x.failed /\ y.behind = x.behind /\ ~Refreshes(tx, t)
    <3>1. \A j \in 1 .. Len(q) : ~Refreshes(q[j], t) BY <2>3, <2>6
    <3>2. x.view = d.runs BY <2>4, <2>6, <3>1 DEF Page, Caught
    <3> QED BY <2>6, <3>2
  <2>7. CASE ~Archive!Standard /\ Saves(tx, t)
    <3>1. PICK j \in 1 .. Len(q) : i < j /\ Refreshes(q[j], t)
      BY <2>4, <2>7 DEF Page, Awaits
    <3>2. j # i BY <1>0, <3>1
    <3> QED BY <2>3, <3>1, <3>2
  <2> QED BY <2>2, <2>5, <2>6, <2>7 DEF Proceeds
<1>2. Awaits(t, y, r)
  <2>1. \A j \in 1 .. Len(q) : Refreshes(q[j], t) =>
          j \in I \/ \A l \in 1 .. Len(q) : l < j => ~Saves(q[l], t)
    <3> SUFFICES ASSUME NEW j \in 1 .. Len(q), Refreshes(q[j], t), j \notin I,
                        NEW l \in 1 .. Len(q), l < j
                 PROVE  ~Saves(q[l], t)
      OBVIOUS
    <3>1. j = i OBVIOUS
    <3>2. l \in 1 .. i - 1 BY <1>0, <3>1
    <3> QED BY <3>1, <3>2
  <2>2. Awaits(t, x, q) BY DEF Page
  <2>3. ~Archive!Standard => \A m \in 1 .. Len(b) : ~Saves(b[m], t) BY DEF Proceeds
  <2>4. y.open => x.open BY DEF Proceeds
  <2> HIDE DEF y, b
  <2>5. Derives(r, q, I, b) BY DEF b
  <2> QED BY <1>0, <2>1, <2>2, <2>3, <2>4, <2>5, AwaitsDerives
<1>3. Archive!Standard /\ Engages(tx, t) => \A j \in I : ~Engages(q[j], t)
  BY <1>0 DEF Page, Single
<1>4. Single(t, y, r)
  <2>1. Single(t, x, q) BY DEF Page
  <2>2. Archive!Standard =>
             /\ \/ /\ \A m \in 1 .. Len(b) : ~Engages(b[m], t)
                   /\ (\E j \in I : Engages(q[j], t)) => y.busy = TRUE \/ y.busy = x.busy
                \/ /\ Len(b) <= 1 /\ y.busy = TRUE
                   /\ \A j \in I : ~Engages(q[j], t)
    BY <1>3 DEF Proceeds
  <2>3. Derives(r, q, I, b) OBVIOUS
  <2> HIDE DEF y, b
  <2> QED BY <1>0, <2>1, <2>2, <2>3, SingleDerives
<1>5. Progress(t, y, r, e)
  <2>1. ASSUME NEW j \in I, Looks(q[j], t) PROVE Placed(q[j], t, y, e)
    <3>1. j \in 1 .. Len(q) /\ Engages(q[j], t) /\ Placed(q[j], t, x, d)
      BY <1>0, <2>1 DEF Page, Progress, Looks, Engages
    <3>2. ~(Archive!Standard /\ Engages(tx, t)) BY <1>3, <3>1
    <3>3. Looks(tx, t) => Engages(tx, t) BY DEF Looks, Engages
    <3>4. tx.op = "CLEAR" => Engages(tx, t) BY DEF Engages
    <3>5. Archive!Standard => d.runs \subseteq e.runs BY <3>2, <3>4
    <3>6. CASE y.export = x.export BY <3>1, <3>5, <3>6, PlacedStays
    <3>7. CASE Looks(tx, t)
      <4>1. y.export # None BY <2>1, <3>7
      <4> QED BY <3>2, <3>3, <3>7, <4>1 DEF Placed
    <3> QED BY <3>2, <3>6, <3>7 DEF Proceeds
  <2>2. \A m \in 1 .. Len(b) : Looks(b[m], t) => Placed(b[m], t, y, e) BY DEF Proceeds
  <2>3. Derives(r, q, I, b) OBVIOUS
  <2> HIDE DEF y, b
  <2> QED BY <2>1, <2>2, <2>3, ProgressDerives
<1>6. ~Archive!Standard => y.pending = {} BY DEF Page, Proceeds
<1> QED BY <1>1, <1>2, <1>4, <1>5, <1>6 DEF Page

(* The other tab.                                                           *)
LEMMA OtherPage ==
    ASSUME NEW q, q \in Seq(Transactions), NEW r, r \in Seq(Transactions), NEW t \in Pages,
           NEW x \in Panels, NEW y \in Panels, NEW d, NEW e, NEW I, NEW b,
           Page(t, x, q, d), Derives(r, q, I, b),
           \A j \in 1 .. Len(q) : j \in I \/ q[j].tab # t,
           \A m \in 1 .. Len(b) : b[m].tab # t,
           y.open = x.open, y.reload = x.reload, y.failed = x.failed, y.view = x.view,
           y.busy = x.busy, y.pending = x.pending,
           y.behind = TRUE \/ (y.behind = x.behind /\ e.runs = d.runs),
           \/ y.export = x.export /\ d.runs \subseteq e.runs
           \/ y.export = None /\ x.export = None
           \/ /\ y.export # None /\ y.export.runs = x.export.runs /\ y.export.got = x.export.got
              /\ y.export.torn = TRUE
    PROVE  Page(t, y, r, e)
<1>0. Len(q) \in Nat /\ Len(r) \in Nat /\ I \subseteq 1 .. Len(q)
  BY DEF Derives
<1>1. /\ \A m \in 1 .. Len(b) : ~Saves(b[m], t) /\ ~Engages(b[m], t) /\ ~Looks(b[m], t)
      /\ \A j \in 1 .. Len(q) : Refreshes(q[j], t) => j \in I
  BY DEF Saves, Engages, Looks, Refreshes
<1>2. Caught(t, x, q, d) /\ Awaits(t, x, q) /\ Single(t, x, q) /\ Progress(t, x, q, d)
      /\ (~Archive!Standard => x.pending = {})
  BY DEF Page
<1>3. Caught(t, y, r, e) BY <1>1, <1>2, CaughtDerives
<1>4. Awaits(t, y, r) BY <1>0, <1>1, <1>2, AwaitsDerives
<1>5. Single(t, y, r) BY <1>0, <1>1, <1>2, SingleDerives
<1>6. ASSUME NEW j \in I, Looks(q[j], t) PROVE Placed(q[j], t, y, e)
  <2>1. Placed(q[j], t, x, d) BY <1>0, <1>2, <1>6 DEF Progress
  <2>2. x.export # None BY <2>1 DEF Placed
  <2>3. CASE y.export = x.export /\ d.runs \subseteq e.runs BY <2>1, <2>3, PlacedStays
  <2>4. CASE /\ y.export # None /\ y.export.runs = x.export.runs /\ y.export.got = x.export.got
             /\ y.export.torn = TRUE
    BY <2>1, <2>4, PlacedTorn
  <2> QED BY <2>2, <2>3, <2>4
<1>7. Progress(t, y, r, e) BY <1>1, <1>6, ProgressDerives
<1> QED BY <1>2, <1>3, <1>4, <1>5, <1>7 DEF Page

(* What is left of the queue when a transaction is answered.                *)
LEMMA RestThins ==
    ASSUME NEW q \in Seq(Transactions), NEW i \in 1 .. Len(q), NEW g
    PROVE  LET tx == q[i]
               rest == IF tx.op = "REPLAY" /\ g.tab.export = None
                       THEN Archive!Without(q, tx.tab, {"REPLAY"}) ELSE Archive!RemoveAt(q, i)
           IN /\ rest \in Seq(Transactions)
              /\ \E I \in SUBSET (1 .. Len(q)) :
                    /\ Thins(rest, q, I) /\ i \notin I
                    /\ \A j \in 1 .. Len(q) : j = i \/ j \in I \/ Looks(q[j], tx.tab)
                    /\ Looks(tx, tx.tab) /\ g.tab.export = None => \A j \in I : ~Looks(q[j], tx.tab)
<1> DEFINE tx == q[i]
           t == tx.tab
           W == Archive!Without(q, t, {"REPLAY"})
           R == Archive!RemoveAt(q, i)
           K == Keeps(q, t, {"REPLAY"}, Len(q))
           J == 1 .. Len(q) \ {i}
<1>1. W \in Seq(Transactions) /\ Thins(W, q, K)
  BY WithoutThins DEF W, K
<1>2. R \in Seq(Transactions) /\ Thins(R, q, J) BY RemoveAtThins
<1>3. CASE tx.op = "REPLAY" /\ g.tab.export = None
  <2>1. K \in SUBSET (1 .. Len(q)) /\ i \notin K BY <1>3 DEF Keeps
  <2>2. \A j \in 1 .. Len(q) : j \in K \/ Looks(q[j], t) BY DEF Keeps, Looks
  <2>3. \A j \in K : ~Looks(q[j], t) BY DEF Keeps, Looks
  <2> HIDE DEF W, K, J
  <2> QED BY <1>1, <1>3, <2>1, <2>2, <2>3 DEF W
<1>4. CASE ~(tx.op = "REPLAY" /\ g.tab.export = None)
  <2>1. Looks(tx, t) => tx.op = "REPLAY" BY DEF Looks
  <2>2. J \in SUBSET (1 .. Len(q)) /\ i \notin J /\ \A j \in 1 .. Len(q) : j = i \/ j \in J OBVIOUS
  <2> HIDE DEF W, K, J, R
  <2> QED BY <1>2, <1>4, <2>1, <2>2 DEF R
<1> QED BY <1>3, <1>4

LEMMA OvertakenFacts ==
    ASSUME NEW x \in Panels, NEW tx \in Transactions
    PROVE  LET y == Archive!Overtaken(x, tx) IN
           /\ y \in Panels /\ y.open = x.open /\ y.reload = x.reload /\ y.failed = x.failed
           /\ y.view = x.view /\ y.busy = x.busy /\ y.pending = x.pending
           /\ IF Archive!Writes(tx) THEN y.behind = TRUE ELSE y.behind = x.behind
           /\ IF x.export # None /\ tx.op = "CLEAR"
              THEN /\ y.export # None /\ y.export.runs = x.export.runs
                   /\ y.export.got = x.export.got /\ y.export.torn = TRUE
              ELSE y.export = x.export
<1> DEFINE behind == x.behind \/ Archive!Writes(tx)
           torn == [x.export EXCEPT !.torn = TRUE]
           export == IF x.export # None /\ tx.op = "CLEAR" THEN torn ELSE x.export
           y == Archive!Overtaken(x, tx)
<1>1. behind \in BOOLEAN /\ (IF Archive!Writes(tx) THEN behind = TRUE ELSE behind = x.behind)
  BY DEF Panels, Archive!Writes
<1>2. x.export # None => /\ torn \in Exports /\ torn # None /\ torn.runs = x.export.runs
                         /\ torn.got = x.export.got /\ torn.torn = TRUE
  <2> SUFFICES ASSUME x.export # None
               PROVE  /\ torn \in Exports /\ torn # None /\ torn.runs = x.export.runs
                      /\ torn.got = x.export.got /\ torn.torn = TRUE
    OBVIOUS
  <2>1. x.export \in Exports BY DEF Panels
  <2>2. torn \in Exports /\ torn.runs = x.export.runs /\ torn.got = x.export.got /\ torn.torn = TRUE
    BY <2>1 DEF Exports
  <2> QED BY <2>2, ArchiveConstants
<1>3. y = [x EXCEPT !.behind = behind, !.export = export]
  BY DEF Archive!Overtaken, Panels
<1> HIDE DEF behind, torn, y
<1>4. export \in {None} \cup Exports BY <1>2 DEF Panels
<1>5. /\ y \in Panels /\ y.open = x.open /\ y.reload = x.reload /\ y.failed = x.failed
      /\ y.view = x.view /\ y.busy = x.busy /\ y.pending = x.pending
      /\ y.behind = behind /\ y.export = export
  <2> HIDE DEF export
  <2> QED BY <1>1, <1>3, <1>4 DEF Panels
<1> QED BY <1>1, <1>2, <1>5 DEF y

LEMMA AnsweredKeeps ==
    ASSUME Keeping(queue, tab, disk, file), panel' = panel,
           NEW i \in 1 .. Len(queue), NEW ok \in BOOLEAN,
           ok => Archive!Works(disk, queue[i]), Archive!Ready(i), Archive!Answer(i, ok),
           disk' = IF ok THEN Archive!Effect(disk, queue[i]) ELSE disk
    PROVE  Keeping(queue', tab', disk', file')
<1> DEFINE tx == queue[i]
           t == tx.tab
           x == tab[t]
           e == IF ok THEN Archive!Effect(disk, tx) ELSE disk
           g == Archive!After(tx, ok)
           rest == IF tx.op = "REPLAY" /\ g.tab.export = None
                   THEN Archive!Without(queue, tx.tab, {"REPLAY"}) ELSE Archive!RemoveAt(queue, i)
           f == IF g.file = None THEN file ELSE g.file
           r == rest \o g.begins
           T == [s \in Pages |-> IF s = t THEN g.tab
                                 ELSE IF ok THEN Archive!Overtaken(tab[s], tx) ELSE tab[s]]
<1>1. queue' = r /\ tab' = T /\ file' = f /\ disk' = e
  BY DEF Archive!Answer, Pages
<1> SUFFICES Keeping(r, T, e, f) BY <1>1
<1>2. /\ queue \in Seq(Transactions) /\ tab \in [Pages -> Panels] /\ disk \in Disks /\ file \in Files
      /\ Portable(file)
      /\ \A j \in 1 .. Len(queue) : Carried(queue[j])
      /\ \A s \in Pages : Page(s, tab[s], queue, disk)
  BY DEF Keeping
<1>3. /\ tx \in Transactions /\ t \in Pages /\ e \in Disks /\ Stored(e)
      /\ Proceeds(g, t, x, tx, disk, e)
      /\ tx.op # "CLEAR" => disk.runs \subseteq e.runs
      /\ ~(ok /\ Archive!Writes(tx)) => e.runs = disk.runs
  BY AfterProceeds
<1>4. rest \in Seq(Transactions) BY <1>2, RestThins
<1>5. PICK I \in SUBSET (1 .. Len(queue)) :
        /\ Thins(rest, queue, I) /\ i \notin I
        /\ \A j \in 1 .. Len(queue) : j = i \/ j \in I \/ Looks(queue[j], t)
        /\ Looks(tx, t) /\ g.tab.export = None => \A j \in I : ~Looks(queue[j], t)
  BY <1>2, RestThins
<1>6. g.begins \in Seq(Transactions) /\ g.tab \in Panels BY <1>3 DEF Proceeds
<1> HIDE DEF rest, e, g, f
<1>7. r \in Seq(Transactions) /\ Derives(r, queue, I, g.begins) BY <1>2, <1>4, <1>5, <1>6, ThinsDerives
<1> HIDE DEF r
<1>8. f \in Files /\ Portable(f) BY <1>2, <1>3 DEF f, Proceeds
<1>9. \A k \in 1 .. Len(r) : Carried(r[k])
  <2>1. \A m \in 1 .. Len(g.begins) : Carried(g.begins[m]) BY <1>3 DEF Proceeds
  <2> QED BY <1>2, <1>7, <2>1, CarriedDerives
<1>10. T \in [Pages -> Panels]
  <2>1. ASSUME NEW s \in Pages PROVE T[s] \in Panels
    <3>1. tab[s] \in Panels BY <1>2
    <3>2. Archive!Overtaken(tab[s], tx) \in Panels BY <1>3, <3>1, OvertakenFacts
    <3> QED BY <1>6, <3>1, <3>2
  <2> QED BY <2>1
<1>11. Page(t, g.tab, r, e)
  <2>1. \A j \in 1 .. Len(queue) : j = i \/ j \in I \/ (Looks(queue[j], t) /\ ~Refreshes(queue[j], t))
    BY <1>5 DEF Looks, Refreshes
  <2>2. \A j \in 1 .. i - 1 : ~(Saves(queue[j], t) /\ Refreshes(tx, t))
    BY DEF Archive!Ready, Archive!Conflict, Archive!Writes, Saves, Refreshes
  <2>3. x \in Panels /\ Page(t, x, queue, disk) BY <1>2, <1>3
  <2>4. tx = queue[i] /\ tx.tab = t OBVIOUS
  <2>5. Looks(tx, t) /\ g.tab.export = None => \A j \in I : ~Looks(queue[j], t) BY <1>5
  <2> HIDE DEF t, x
  <2> QED BY <1>2, <1>3, <1>5, <1>7, <2>1, <2>2, <2>3, <2>4, <2>5, OwnPage
<1>12. ASSUME NEW s \in Pages, s # t
       PROVE  Page(s, T[s], r, e)
  <2> DEFINE o == tab[s]
             y == IF ok THEN Archive!Overtaken(o, tx) ELSE o
  <2>1. T[s] = y BY <1>12
  <2>2. o \in Panels /\ Page(s, o, queue, disk) BY <1>2
  <2> HIDE DEF o
  <2>3. \A j \in 1 .. Len(queue) : j \in I \/ queue[j].tab # s
    BY <1>5, <1>12 DEF Looks
  <2>4. \A m \in 1 .. Len(g.begins) : g.begins[m].tab # s BY <1>3, <1>12 DEF Proceeds
  <2>5. /\ y \in Panels /\ y.open = o.open /\ y.reload = o.reload /\ y.failed = o.failed
        /\ y.view = o.view /\ y.busy = o.busy /\ y.pending = o.pending
        /\ y.behind = TRUE \/ (y.behind = o.behind /\ e.runs = disk.runs)
        /\ \/ y.export = o.export /\ disk.runs \subseteq e.runs
           \/ y.export = None /\ o.export = None
           \/ /\ y.export # None /\ y.export.runs = o.export.runs
              /\ y.export.got = o.export.got /\ y.export.torn = TRUE
    <3>1. CASE ok
      <4> DEFINE z == Archive!Overtaken(o, tx)
      <4>1. y = z BY <3>1
      <4>2. /\ z \in Panels /\ z.open = o.open /\ z.reload = o.reload
            /\ z.failed = o.failed /\ z.view = o.view /\ z.busy = o.busy
            /\ z.pending = o.pending
            /\ IF Archive!Writes(tx) THEN z.behind = TRUE ELSE z.behind = o.behind
            /\ IF o.export # None /\ tx.op = "CLEAR"
               THEN /\ z.export # None /\ z.export.runs = o.export.runs
                    /\ z.export.got = o.export.got /\ z.export.torn = TRUE
               ELSE z.export = o.export
        BY <1>3, <2>2, OvertakenFacts
      <4> HIDE DEF y, z
      <4>3. CASE tx.op = "CLEAR"
        <5>1. Archive!Writes(tx) BY <4>3 DEF Archive!Writes
        <5> QED BY <4>1, <4>2, <4>3, <5>1
      <4>4. CASE tx.op # "CLEAR" BY <1>3, <4>1, <4>2, <4>4
      <4> QED BY <4>3, <4>4
    <3>2. CASE ~ok
      <4>1. y = o BY <3>2
      <4>2. e.runs = disk.runs BY <1>3, <3>2
      <4> HIDE DEF y
      <4> QED BY <2>2, <4>1, <4>2
    <3> QED BY <3>1, <3>2
  <2>6. queue \in Seq(Transactions) BY <1>2
  <2> HIDE DEF y, T
  <2>7. Page(s, y, r, e)
    <3>1. y \in Panels /\ y.open = o.open /\ y.reload = o.reload /\ y.failed = o.failed BY <2>5
    <3>2. y.view = o.view /\ y.busy = o.busy /\ y.pending = o.pending BY <2>5
    <3>3. y.behind = TRUE \/ (y.behind = o.behind /\ e.runs = disk.runs) BY <2>5
    <3>4. \/ y.export = o.export /\ disk.runs \subseteq e.runs
          \/ y.export = None /\ o.export = None
          \/ /\ y.export # None /\ y.export.runs = o.export.runs
             /\ y.export.got = o.export.got /\ y.export.torn = TRUE
      BY <2>5
    <3> DEFINE b == g.begins
    <3>5. \A m \in 1 .. Len(b) : b[m].tab # s BY <2>4
    <3>6. Derives(r, queue, I, b) /\ r \in Seq(Transactions) BY <1>7
    <3> HIDE DEF b
    <3> QED BY <2>2, <2>3, <2>6, <3>1, <3>2, <3>3, <3>4, <3>5, <3>6, OtherPage
  <2> QED BY <2>1, <2>7
<1>13. \A s \in Pages : Page(s, T[s], r, e)
  <2>1. T[t] = g.tab BY <1>3
  <2> HIDE DEF T, t
  <2> QED BY <1>11, <1>12, <2>1
<1>14. Keeping(r, T, e, f) BY <1>3, <1>7, <1>8, <1>9, <1>10, <1>13 DEF Keeping
<1> QED BY <1>14

LEMMA AwaitsBegins ==
    ASSUME NEW t, NEW y, NEW q, NEW r, NEW I, NEW b, Derives(r, q, I, b),
           \E m \in 1 .. Len(b) : Refreshes(b[m], t),
           \A m \in 1 .. Len(b) : ~Saves(b[m], t)
    PROVE  Awaits(t, y, r)
<1> SUFFICES ASSUME NEW k \in 1 .. Len(r), Saves(r[k], t)
             PROVE  \E l \in 1 .. Len(r) : k < l /\ Refreshes(r[l], t)
  BY DEF Awaits
<1>1. PICK h \in [1 .. Len(r) -> 0 .. Len(q)] :
        /\ \A n \in 1 .. Len(r) : IF h[n] = 0 THEN \E m \in 1 .. Len(b) : r[n] = b[m]
                                  ELSE r[n] = q[h[n]] /\ h[n] \in I
        /\ \A m \in 1 .. Len(b) : \E n \in 1 .. Len(r) : h[n] = 0 /\ r[n] = b[m]
        /\ \A n, m \in 1 .. Len(r) : n < m /\ h[m] # 0 => h[n] # 0 /\ h[n] < h[m]
  BY DEF Derives
<1>2. PICK m \in 1 .. Len(b) : Refreshes(b[m], t) OBVIOUS
<1>3. PICK l \in 1 .. Len(r) : h[l] = 0 /\ r[l] = b[m] BY <1>1
<1>4. h[k] # 0 BY <1>1
<1>5. ~(l < k) /\ l # k BY <1>1, <1>3, <1>4
<1>6. k < l BY <1>5
<1> QED BY <1>2, <1>3, <1>6

(* A panel acts, and what it begins comes after all others.                 *)
LEMMA OwnActs ==
    ASSUME NEW q, q \in Seq(Transactions), NEW r, r \in Seq(Transactions), NEW t \in Pages,
           NEW x \in Panels, NEW y \in Panels, NEW d, NEW b, NEW I,
           I = 1 .. Len(q), Page(t, x, q, d), Derives(r, q, I, b),
           \/ ~y.open \/ y.reload = TRUE
           \/ \E m \in 1 .. Len(b) : Refreshes(b[m], t)
           \/ /\ x.open /\ y.reload = x.reload /\ y.failed = x.failed /\ y.view = x.view
              /\ y.behind = x.behind,
           Archive!Standard \/ \A m \in 1 .. Len(b) : ~Saves(b[m], t),
           Archive!Standard \/ (y.open => x.open) \/ \E m \in 1 .. Len(b) : Refreshes(b[m], t),
           Archive!Standard =>
              \/ y.busy = x.busy /\ \A m \in 1 .. Len(b) : ~Engages(b[m], t)
              \/ x.busy = FALSE /\ y.busy = TRUE /\ Len(b) <= 1,
           \/ y.export = x.export
           \/ ~Archive!Standard /\ y.export # None,
           \A m \in 1 .. Len(b) : Looks(b[m], t) => Placed(b[m], t, y, d),
           ~Archive!Standard => y.pending = x.pending
    PROVE  Page(t, y, r, d)
<1>0. Len(q) \in Nat /\ Len(r) \in Nat OBVIOUS
<1>1. Caught(t, x, q, d) /\ Awaits(t, x, q) /\ Single(t, x, q) /\ Progress(t, x, q, d)
      /\ (~Archive!Standard => x.pending = {})
  BY DEF Page
<1>2. Caught(t, y, r, d)
  <2> SUFFICES ASSUME y.open, ~y.reload, ~y.failed, ~y.behind,
                      \A k \in 1 .. Len(r) : ~Refreshes(r[k], t)
               PROVE  y.view = d.runs
    BY DEF Caught
  <2>1. \A j \in 1 .. Len(q) : ~Refreshes(q[j], t) BY DerivesHas
  <2>2. \A m \in 1 .. Len(b) : ~Refreshes(b[m], t) BY DerivesHas
  <2>3. /\ x.open /\ y.reload = x.reload /\ y.failed = x.failed /\ y.view = x.view
        /\ y.behind = x.behind
    BY <2>2
  <2> QED BY <1>1, <2>1, <2>3 DEF Caught
<1>3. Awaits(t, y, r)
  <2>1. CASE Archive!Standard BY <2>1 DEF Awaits
  <2>2. CASE ~Archive!Standard /\ \E m \in 1 .. Len(b) : Refreshes(b[m], t)
    BY <2>2, AwaitsBegins
  <2>3. CASE ~Archive!Standard /\ (y.open => x.open)
    BY <1>0, <1>1, <2>3, AwaitsDerives
  <2> QED BY <2>1, <2>2, <2>3
<1>4. Single(t, y, r)
  <2>1. Archive!Standard /\ x.busy = FALSE => \A j \in I : ~Engages(q[j], t)
    BY <1>1 DEF Single
  <2>2. Archive!Standard =>
             /\ \/ /\ \A m \in 1 .. Len(b) : ~Engages(b[m], t)
                   /\ (\E j \in I : Engages(q[j], t)) => y.busy = TRUE \/ y.busy = x.busy
                \/ /\ Len(b) <= 1 /\ y.busy = TRUE
                   /\ \A j \in I : ~Engages(q[j], t)
    BY <2>1
  <2> QED BY <1>0, <1>1, <2>2, SingleDerives
<1>5. Progress(t, y, r, d)
  <2>1. ASSUME NEW j \in I, Looks(q[j], t) PROVE Placed(q[j], t, y, d)
    <3>1. Placed(q[j], t, x, d) BY <1>1, <2>1 DEF Progress
    <3>2. CASE y.export = x.export BY <3>1, <3>2, PlacedStays
    <3>3. CASE ~Archive!Standard /\ y.export # None BY <3>3 DEF Placed
    <3> QED BY <3>2, <3>3
  <2> QED BY <2>1, ProgressDerives
<1> QED BY <1>1, <1>2, <1>3, <1>4, <1>5 DEF Page

(* The step of one panel.                                                   *)
LEMMA PanelKeeps ==
    ASSUME Keeping(queue, tab, disk, file), NEW t \in Pages, NEW y \in Panels, NEW r, NEW I, NEW b,
           r \in Seq(Transactions), Derives(r, queue, I, b),
           \A j \in 1 .. Len(queue) : j \in I \/ queue[j].tab = t,
           \A m \in 1 .. Len(b) : b[m].tab = t /\ Carried(b[m]),
           Page(t, y, r, disk), NEW f, f \in Files, Portable(f)
    PROVE  Keeping(r, [tab EXCEPT ![t] = y], disk, f)
<1> DEFINE T == [tab EXCEPT ![t] = y]
<1>1. /\ queue \in Seq(Transactions) /\ tab \in [Pages -> Panels] /\ disk \in Disks
      /\ Stored(disk)
      /\ \A j \in 1 .. Len(queue) : Carried(queue[j])
      /\ \A s \in Pages : Page(s, tab[s], queue, disk)
  BY DEF Keeping
<1>2. T \in [Pages -> Panels] /\ T[t] = y /\ \A s \in Pages \ {t} : T[s] = tab[s] BY <1>1
<1> HIDE DEF T
<1>3. \A k \in 1 .. Len(r) : Carried(r[k]) BY <1>1, CarriedDerives
<1>4. ASSUME NEW s \in Pages, s # t PROVE Page(s, T[s], r, disk)
  <2> DEFINE o == tab[s]
  <2>1. T[s] = o /\ o \in Panels /\ Page(s, o, queue, disk) BY <1>1, <1>2, <1>4
  <2> HIDE DEF o
  <2>2. \A j \in 1 .. Len(queue) : j \in I \/ queue[j].tab # s BY <1>4
  <2>3. \A m \in 1 .. Len(b) : b[m].tab # s BY <1>4
  <2>4. disk.runs \subseteq disk.runs OBVIOUS
  <2>5. Page(s, o, r, disk) BY <1>1, <2>1, <2>2, <2>3, <2>4, OtherPage
  <2> QED BY <2>1, <2>5
<1>5. \A s \in Pages : Page(s, T[s], r, disk) BY <1>2, <1>4
<1>6. Keeping(r, T, disk, f) BY <1>1, <1>2, <1>3, <1>5 DEF Keeping
<1> QED BY <1>6 DEF T

LEMMA PanelBegins ==
    ASSUME Keeping(queue, tab, disk, file), NEW t \in Pages, NEW y \in Panels, NEW b,
           b \in Seq(Transactions),
           \/ ~y.open \/ y.reload = TRUE
           \/ \E m \in 1 .. Len(b) : Refreshes(b[m], t)
           \/ /\ tab[t].open /\ y.reload = tab[t].reload /\ y.failed = tab[t].failed
              /\ y.view = tab[t].view /\ y.behind = tab[t].behind,
           Archive!Standard \/ \A m \in 1 .. Len(b) : ~Saves(b[m], t),
           Archive!Standard \/ (y.open => tab[t].open) \/ \E m \in 1 .. Len(b) : Refreshes(b[m], t),
           Archive!Standard =>
              \/ y.busy = tab[t].busy /\ \A m \in 1 .. Len(b) : ~Engages(b[m], t)
              \/ tab[t].busy = FALSE /\ y.busy = TRUE /\ Len(b) <= 1,
           \/ y.export = tab[t].export
           \/ ~Archive!Standard /\ y.export # None,
           \A m \in 1 .. Len(b) : Looks(b[m], t) => Placed(b[m], t, y, disk),
           ~Archive!Standard => y.pending = tab[t].pending,
           \A m \in 1 .. Len(b) : b[m].tab = t /\ Carried(b[m])
    PROVE  Keeping(queue \o b, [tab EXCEPT ![t] = y], disk, file)
<1> DEFINE x == tab[t]
           r == queue \o b
           I == 1 .. Len(queue)
<1>1. /\ queue \in Seq(Transactions) /\ x \in Panels /\ Page(t, x, queue, disk)
      /\ file \in Files /\ Portable(file)
  BY DEF Keeping
<1>2. r \in Seq(Transactions) /\ Derives(r, queue, I, b) BY <1>1, MoreDerives
<1>3. /\ \/ ~y.open \/ y.reload = TRUE
         \/ \E m \in 1 .. Len(b) : Refreshes(b[m], t)
         \/ /\ x.open /\ y.reload = x.reload /\ y.failed = x.failed /\ y.view = x.view
            /\ y.behind = x.behind
      /\ Archive!Standard \/ (y.open => x.open) \/ \E m \in 1 .. Len(b) : Refreshes(b[m], t)
      /\ Archive!Standard =>
            \/ y.busy = x.busy /\ \A m \in 1 .. Len(b) : ~Engages(b[m], t)
            \/ x.busy = FALSE /\ y.busy = TRUE /\ Len(b) <= 1
      /\ y.export = x.export \/ (~Archive!Standard /\ y.export # None)
      /\ ~Archive!Standard => y.pending = x.pending
  OBVIOUS
<1>4. I = 1 .. Len(queue) /\ \A j \in 1 .. Len(queue) : j \in I \/ queue[j].tab = t OBVIOUS
<1> HIDE DEF x, r, I
<1>5. Page(t, y, r, disk) BY <1>1, <1>2, <1>3, <1>4, OwnActs
<1>6. Keeping(r, [tab EXCEPT ![t] = y], disk, file) BY <1>1, <1>2, <1>4, <1>5, PanelKeeps
<1> QED BY <1>6 DEF r

(* One more transaction.                                                    *)
LEMMA PanelBeginsOne ==
    ASSUME Keeping(queue, tab, disk, file), NEW t \in Pages, NEW y \in Panels, NEW n,
           n \in Transactions, n.tab = t, Carried(n),
           \/ y.reload = TRUE
           \/ Refreshes(n, t)
           \/ /\ tab[t].open /\ y.reload = tab[t].reload /\ y.failed = tab[t].failed
              /\ y.view = tab[t].view /\ y.behind = tab[t].behind,
           Archive!Standard \/ ~Saves(n, t),
           Archive!Standard \/ (y.open => tab[t].open) \/ Refreshes(n, t),
           Archive!Standard =>
              \/ y.busy = tab[t].busy /\ ~Engages(n, t)
              \/ tab[t].busy = FALSE /\ y.busy = TRUE,
           y.export = tab[t].export, ~Looks(n, t),
           ~Archive!Standard => y.pending = tab[t].pending
    PROVE  Keeping(queue \o <<n>>, [tab EXCEPT ![t] = y], disk, file)
<1> DEFINE b == <<n>>
<1>1. b \in Seq(Transactions) /\ Len(b) = 1 /\ 1 .. Len(b) = {1} /\ b[1] = n BY One
<1> HIDE DEF b
<1>2. \A m \in 1 .. Len(b) : b[m] = n BY <1>1
<1>3. \E m \in 1 .. Len(b) : b[m] = n BY <1>1
<1>4. /\ \A m \in 1 .. Len(b) : b[m].tab = t /\ Carried(b[m]) /\ ~Looks(b[m], t)
      /\ Saves(n, t) \/ \A m \in 1 .. Len(b) : ~Saves(b[m], t)
      /\ Engages(n, t) \/ \A m \in 1 .. Len(b) : ~Engages(b[m], t)
      /\ Refreshes(n, t) => \E m \in 1 .. Len(b) : Refreshes(b[m], t)
  BY <1>2, <1>3
<1>5. Len(b) <= 1 BY <1>1
<1>6. \/ ~y.open \/ y.reload = TRUE
      \/ \E m \in 1 .. Len(b) : Refreshes(b[m], t)
      \/ /\ tab[t].open /\ y.reload = tab[t].reload /\ y.failed = tab[t].failed
         /\ y.view = tab[t].view /\ y.behind = tab[t].behind
  BY <1>4
<1>7. Archive!Standard =>
         \/ y.busy = tab[t].busy /\ \A m \in 1 .. Len(b) : ~Engages(b[m], t)
         \/ tab[t].busy = FALSE /\ y.busy = TRUE /\ Len(b) <= 1
  BY <1>4, <1>5
<1>8. /\ Archive!Standard \/ \A m \in 1 .. Len(b) : ~Saves(b[m], t)
      /\ Archive!Standard \/ (y.open => tab[t].open) \/ \E m \in 1 .. Len(b) : Refreshes(b[m], t)
  BY <1>4
<1>9. Keeping(queue \o b, [tab EXCEPT ![t] = y], disk, file)
  BY <1>1, <1>4, <1>6, <1>7, <1>8, PanelBegins
<1> QED BY <1>9 DEF b

LEMMA PanelOf ==
    ASSUME Keeping(queue, tab, disk, file), NEW t \in Pages
    PROVE  /\ tab[t] \in Panels /\ Page(t, tab[t], queue, disk) /\ disk \in Disks /\ Stored(disk)
           /\ queue \in Seq(Transactions) /\ tab \in [Pages -> Panels]
           /\ file \in Files /\ Portable(file)
BY DEF Keeping

LEMMA MigratingFacts ==
    ASSUME NEW t \in Pages
    PROVE  LET n == Archive!Tx(t, "MIGRATE", "mount", {}) IN
           /\ n \in Transactions /\ n.tab = t /\ Carried(n)
           /\ ~Saves(n, t) /\ ~Looks(n, t) /\ ~Engages(n, t)
<1>1. {} \in RecordSets BY FS_EmptySet DEF RecordSets
<1> QED BY <1>1 DEF Archive!Tx, Transactions, Archive!Operations, Reasons, Carried, Saves, Looks, Engages

LEMMA OpenKeeps ==
    ASSUME Keeping(queue, tab, disk, file), NEW t \in Pages, Archive!Open(t)
    PROVE  Keeping(queue', tab', disk', file')
<1> DEFINE x == tab[t]
           n == Archive!Reading(t, "refresh")
           m == Archive!Tx(t, "MIGRATE", "mount", {})
           b == <<n>> \o (IF Archive!Standard THEN <<m>> ELSE <<>>)
<1>1. PICK result \in {x.run, None} : tab' = [tab EXCEPT ![t] = [x EXCEPT !.open = TRUE, !.run = result]]
  BY DEF Archive!Open, Archive!Becomes
<1> DEFINE y == [x EXCEPT !.open = TRUE, !.run = result]
<1>2. queue' = queue \o b /\ disk' = disk /\ file' = file
  BY DEF Archive!Open, Archive!Begins, Archive!Rest
<1>3. y \in Panels /\ y.export = x.export /\ y.busy = x.busy /\ y.pending = x.pending
  BY PanelOf DEF Panels
<1>4. /\ n \in Transactions /\ n.tab = t /\ Carried(n) /\ Refreshes(n, t) /\ ~Saves(n, t)
      /\ ~Looks(n, t) /\ ~Engages(n, t)
  BY ReadingFacts
<1>5. /\ m \in Transactions /\ m.tab = t /\ Carried(m) /\ ~Saves(m, t) /\ ~Looks(m, t)
      /\ ~Engages(m, t)
  BY MigratingFacts
<1> HIDE DEF n, m
<1>6. /\ b \in Seq(Transactions) /\ Len(b) \in {1, 2} /\ b[1] = n
      /\ Len(b) = 2 => b[2] = m
  BY <1>4, <1>5
<1> HIDE DEF b, y
<1>7. /\ \A k \in 1 .. Len(b) : b[k] = n \/ b[k] = m
      /\ \E k \in 1 .. Len(b) : b[k] = n
  BY <1>6
<1>8. /\ \A k \in 1 .. Len(b) : b[k].tab = t /\ Carried(b[k]) /\ ~Saves(b[k], t)
                                /\ ~Looks(b[k], t) /\ ~Engages(b[k], t)
      /\ \E k \in 1 .. Len(b) : Refreshes(b[k], t)
  BY <1>4, <1>5, <1>7
<1>9. Keeping(queue \o b, [tab EXCEPT ![t] = y], disk, file)
  BY <1>3, <1>6, <1>8, PanelBegins
<1> QED BY <1>1, <1>2, <1>9 DEF y

LEMMA RefreshKeeps ==
    ASSUME Keeping(queue, tab, disk, file), NEW t \in Pages, Archive!Refresh(t)
    PROVE  Keeping(queue', tab', disk', file')
<1> DEFINE x == tab[t]
           y == [x EXCEPT !.reload = FALSE]
           n == Archive!Reading(t, "refresh")
<1>1. /\ tab' = [tab EXCEPT ![t] = y] /\ queue' = queue \o <<n>> /\ disk' = disk /\ file' = file
      /\ x.open
  BY DEF Archive!Refresh, Archive!Becomes, Archive!Begins, Archive!Rest
<1>2. y \in Panels /\ y.export = x.export /\ y.busy = x.busy /\ y.pending = x.pending /\ y.open = x.open
  BY PanelOf DEF Panels
<1>3. /\ n \in Transactions /\ n.tab = t /\ Carried(n) /\ Refreshes(n, t) /\ ~Saves(n, t)
      /\ ~Looks(n, t) /\ ~Engages(n, t)
  BY ReadingFacts
<1> HIDE DEF n, y
<1>4. Keeping(queue \o <<n>>, [tab EXCEPT ![t] = y], disk, file) BY <1>2, <1>3, PanelBeginsOne
<1> QED BY <1>1, <1>4

LEMMA LeaveKeeps ==
    ASSUME Keeping(queue, tab, disk, file), NEW t \in Pages, Archive!Leave(t)
    PROVE  Keeping(queue', tab', disk', file')
<1> DEFINE x == tab[t]
           y == [x EXCEPT !.run = None]
           b == <<>>
<1>1. /\ tab' = [tab EXCEPT ![t] = y] /\ queue' = queue /\ disk' = disk /\ file' = file
      /\ x.open
  BY DEF Archive!Leave, Archive!Becomes, Archive!Rest
<1>2. /\ y \in Panels /\ y.export = x.export /\ y.busy = x.busy /\ y.pending = x.pending
      /\ y.open = x.open /\ y.reload = x.reload /\ y.failed = x.failed /\ y.view = x.view
      /\ y.behind = x.behind
  BY PanelOf DEF Panels
<1>3. b \in Seq(Transactions) /\ 1 .. Len(b) = {} BY NothingBegins
<1>4. queue \o b = queue BY PanelOf, ConcatEmptySeq
<1> HIDE DEF b, y
<1>5. Keeping(queue \o b, [tab EXCEPT ![t] = y], disk, file) BY <1>1, <1>2, <1>3, PanelBegins
<1> QED BY <1>1, <1>4, <1>5

LEMMA PuttingFacts ==
    ASSUME NEW t \in Pages, NEW id \in Ids, NEW whole \in BOOLEAN
    PROVE  LET n == Archive!Putting(t, id, whole) IN
           n \in Transactions /\ n.tab = t /\ Carried(n) /\ ~Looks(n, t) /\ ~Engages(n, t)
<1> DEFINE n == Archive!Putting(t, id, whole)
           s == [id |-> id, replay |-> whole]
<1>1. s \in Records BY DEF Records
<1>2. n = [tab |-> t, op |-> "PUT", why |-> "end", runs |-> {s}]
  BY DEF Archive!Putting, Archive!Tx, Archive!Ended
<1> HIDE DEF s, n
<1>3. {s} \in RecordSets BY <1>1, FS_Singleton DEF RecordSets
<1>4. n \in Transactions BY <1>2, <1>3 DEF Transactions, Archive!Operations, Reasons
<1>5. n.tab = t /\ Carried(n) /\ ~Looks(n, t) /\ ~Engages(n, t)
  BY <1>1, <1>2 DEF Carried, Looks, Engages
<1> QED BY <1>4, <1>5 DEF n

LEMMA RetryKeeps ==
    ASSUME Keeping(queue, tab, disk, file), NEW t \in Pages, NEW p \in tab[t].pending,
           Archive!Retry(t, p)
    PROVE  Keeping(queue', tab', disk', file')
<1> DEFINE x == tab[t]
           q == [p EXCEPT !.state = "saving"]
           y == [x EXCEPT !.pending = (x.pending \ {p}) \cup {q}, !.reload = TRUE]
           n == Archive!Putting(t, p.id, TRUE)
<1>1. x \in Panels /\ Page(t, x, queue, disk) BY PanelOf
<1>2. Archive!Standard BY <1>1 DEF Page
<1>3. p \in [id : Ids, state : {"saving", "failed"}] BY <1>1 DEF Panels
<1>4. /\ tab' = [tab EXCEPT ![t] = y] /\ queue' = queue \o <<n>> /\ disk' = disk /\ file' = file
  BY <1>1 DEF Archive!Retry, Archive!Becomes, Archive!Begins, Archive!Rest, Panels
<1>5. q \in [id : Ids, state : {"saving", "failed"}] /\ p.id \in Ids BY <1>3
<1>6. (x.pending \ {p}) \cup {q} \in SUBSET [id : Ids, state : {"saving", "failed"}]
  BY <1>1, <1>5 DEF Panels
<1> HIDE DEF q
<1>7. /\ y \in Panels /\ y.export = x.export /\ y.busy = x.busy /\ y.reload = TRUE /\ y.open = x.open
  BY <1>1, <1>6 DEF Panels
<1>8. n \in Transactions /\ n.tab = t /\ Carried(n) /\ ~Looks(n, t) /\ ~Engages(n, t)
  BY <1>5, PuttingFacts
<1> HIDE DEF n, y
<1>9. Keeping(queue \o <<n>>, [tab EXCEPT ![t] = y], disk, file)
  BY <1>2, <1>7, <1>8, PanelBeginsOne
<1> QED BY <1>4, <1>9

LEMMA GameEndsKeeps ==
    ASSUME Keeping(queue, tab, disk, file), NEW t \in Pages, NEW id \in Games,
           Archive!GameEnds(t, id)
    PROVE  Keeping(queue', tab', disk', file')
<1> DEFINE x == tab[t]
           n == Archive!Putting(t, id, TRUE)
           b == Archive!Written(t, id)
           p == [id |-> id, state |-> "saving"]
<1>1. /\ x \in Panels /\ Page(t, x, queue, disk) /\ queue \in Seq(Transactions)
      /\ file \in Files /\ Portable(file)
  BY PanelOf
<1>2. disk' = disk /\ file' = file BY DEF Archive!GameEnds
<1>3. id \in Ids BY DEF Ids
<1>4. n \in Transactions /\ n.tab = t /\ Carried(n) /\ ~Looks(n, t) /\ ~Engages(n, t)
  BY <1>3, PuttingFacts
<1>5. CASE Archive!Standard
  <2> DEFINE y == [x EXCEPT !.pending = @ \cup {p}, !.reload = TRUE]
  <2>1. tab' = [tab EXCEPT ![t] = y]
    BY <1>5 DEF Archive!GameEnds, Archive!Becomes
  <2>2. queue' = queue \o <<n>>
    BY <1>5 DEF Archive!GameEnds, Archive!Written
  <2>3. x.pending \cup {p} \in SUBSET [id : Ids, state : {"saving", "failed"}]
    BY <1>1, <1>3 DEF Panels
  <2> HIDE DEF p
  <2>4. y \in Panels /\ y.export = x.export /\ y.busy = x.busy /\ y.reload = TRUE /\ y.open = x.open
    BY <1>1, <2>3 DEF Panels
  <2> HIDE DEF n, y
  <2>5. Keeping(queue \o <<n>>, [tab EXCEPT ![t] = y], disk, file)
    BY <1>4, <1>5, <2>4, PanelBeginsOne
  <2> QED BY <1>2, <2>1, <2>2, <2>5
<1>6. CASE ~Archive!Standard
  <2> DEFINE y == [x EXCEPT !.run = id, !.open = FALSE, !.view = {}, !.failed = FALSE, !.reload = FALSE]
             W == Archive!Without(queue, t, {"READ"})
             I == Keeps(queue, t, {"READ"}, Len(queue))
             r == W \o b
  <2>1. tab' = [tab EXCEPT ![t] = y]
    BY <1>6 DEF Archive!GameEnds, Archive!Becomes
  <2>2. W \in Seq(Transactions) /\ Thins(W, queue, I) BY <1>1, WithoutThins
  <2>3. queue' = r
    BY <1>6 DEF Archive!GameEnds
  <2>4. {} \in Views BY EmptyView
  <2>5. y \in Panels /\ y.export = x.export /\ y.open = FALSE /\ y.pending = x.pending
    BY <1>1, <1>3, <2>4 DEF Panels
  <2>6. I \in SUBSET (1 .. Len(queue)) /\ \A j \in 1 .. Len(queue) : j \in I \/ queue[j].tab = t
    BY DEF Keeps
  <2>7. b \in Seq(Transactions) /\ \A m \in 1 .. Len(b) : b[m] = n
    <3>1. CASE b = <<n>> BY <1>4, <3>1, One
    <3>2. CASE b = <<>> BY <3>2
    <3> QED BY <3>1, <3>2 DEF Archive!Written
  <2> HIDE DEF W, I, y, b, x
  <2>8. r \in Seq(Transactions) /\ Derives(r, queue, I, b)
    BY <1>1, <2>2, <2>6, <2>7, ThinsDerives
  <2> HIDE DEF r
  <2>9. Page(t, y, r, disk)
    <3>1. Caught(t, y, r, disk) BY <2>5 DEF Caught
    <3>2. Awaits(t, y, r) BY <2>5 DEF Awaits
    <3>3. Single(t, y, r) BY <1>6 DEF Single
    <3>4. ASSUME NEW j \in I, Looks(queue[j], t) PROVE Placed(queue[j], t, y, disk)
      <4>1. Placed(queue[j], t, x, disk) BY <1>1, <2>6, <3>4 DEF Page, Progress
      <4> QED BY <2>5, <4>1, PlacedStays
    <3>5. \A m \in 1 .. Len(b) : ~Looks(b[m], t) BY <1>4, <2>7
    <3>6. Progress(t, y, r, disk) BY <2>8, <3>4, <3>5, ProgressDerives
    <3>7. ~Archive!Standard => y.pending = {} BY <1>1, <2>5 DEF Page
    <3> QED BY <3>1, <3>2, <3>3, <3>6, <3>7 DEF Page
  <2>10. \A m \in 1 .. Len(b) : b[m].tab = t /\ Carried(b[m]) BY <1>4, <2>7
  <2>11. Keeping(r, [tab EXCEPT ![t] = y], disk, file)
    BY <1>1, <2>5, <2>6, <2>8, <2>9, <2>10, PanelKeeps
  <2> QED BY <1>2, <2>1, <2>3, <2>11
<1> QED BY <1>5, <1>6

LEMMA ReloadKeeps ==
    ASSUME Keeping(queue, tab, disk, file), NEW t \in Pages, Archive!Reload(t)
    PROVE  Keeping(queue', tab', disk', file')
<1> DEFINE y == Archive!NewTab
           ops == Archive!Operations
           r == Archive!Without(queue, t, ops)
           I == Keeps(queue, t, ops, Len(queue))
           b == <<>>
<1>1. tab' = [tab EXCEPT ![t] = y] /\ queue' = r /\ disk' = disk /\ file' = file
  BY DEF Archive!Reload, Archive!Becomes
<1>2. /\ queue \in Seq(Transactions) /\ file \in Files /\ Portable(file)
  BY PanelOf
<1>3. r \in Seq(Transactions) /\ Thins(r, queue, I) BY <1>2, WithoutThins
<1>4. {} \in Views BY EmptyView
<1>5. y \in Panels /\ y.open = FALSE /\ y.pending = {} BY <1>4 DEF Archive!NewTab, Panels
<1>6. /\ I \in SUBSET (1 .. Len(queue))
      /\ \A j \in 1 .. Len(queue) : j \in I \/ queue[j].tab = t
      /\ \A j \in I : queue[j].tab # t
  <2>1. \A j \in 1 .. Len(queue) : queue[j].op \in ops
    <3>1. \A j \in 1 .. Len(queue) : queue[j] \in Transactions BY <1>2
    <3>2. \A n \in Transactions : n.op \in ops BY DEF Transactions
    <3> QED BY <3>1, <3>2
  <2> HIDE DEF ops
  <2> QED BY <2>1 DEF Keeps
<1>7. b \in Seq(Transactions) /\ Len(b) = 0 /\ 1 .. Len(b) = {} BY NothingBegins
<1> HIDE DEF r, I, y, b
<1>8. r \o b = r BY <1>3, ConcatEmptySeq DEF b
<1>9. Derives(r, queue, I, b)
  <2>1. Derives(r \o b, queue, I, b) BY <1>2, <1>3, <1>6, <1>7, ThinsDerives
  <2> QED BY <1>8, <2>1
<1>10. \A k \in 1 .. Len(r) : r[k].tab # t
  <2>1. \A k \in 1 .. Len(r) : \E j \in I : r[k] = queue[j] BY <1>7, <1>9, DerivesFrom
  <2> QED BY <1>6, <2>1
<1>11. Page(t, y, r, disk)
  BY <1>5, <1>10 DEF Page, Caught, Awaits, Single, Progress, Saves, Engages, Looks
<1>12. Keeping(r, [tab EXCEPT ![t] = y], disk, file)
  BY <1>2, <1>3, <1>5, <1>6, <1>7, <1>9, <1>11, PanelKeeps
<1> QED BY <1>1, <1>12

LEMMA DocumentRecords ==
    ASSUME file \in Files, NEW doc \in Archive!Documents
    PROVE  doc.runs \in RecordSets
<1> DEFINE ids == Foreign \cup Old
           whole == IF Archive!Standard THEN BOOLEAN ELSE {TRUE}
<1>1. CASE doc \in (IF file = None THEN {} ELSE {file.doc}) BY <1>1 DEF Files
<1>2. CASE doc.runs = {} BY <1>2, FS_EmptySet DEF RecordSets
<1>3. CASE \E r \in [id : ids, replay : whole] : doc.runs = {r}
  <2>1. PICK r \in [id : ids, replay : whole] : doc.runs = {r} BY <1>3
  <2>2. r \in Records BY DEF Records, Ids
  <2> QED BY <2>1, <2>2, FS_Singleton DEF RecordSets
<1> QED BY <1>1, <1>2, <1>3 DEF Archive!Documents

LEMMA ImportFileKeeps ==
    ASSUME Keeping(queue, tab, disk, file), NEW t \in Pages, NEW doc \in Archive!Documents,
           Archive!ImportFile(t, doc)
    PROVE  Keeping(queue', tab', disk', file')
<1> DEFINE x == tab[t]
           busy == Archive!Standard
           y == [x EXCEPT !.busy = busy]
           n == Archive!Tx(t, "IMPORT", "import", doc.runs)
<1>1. /\ tab' = [tab EXCEPT ![t] = y] /\ queue' = queue \o <<n>> /\ disk' = disk /\ file' = file
      /\ x.open /\ ~x.busy /\ Archive!Acceptable(doc)
  BY DEF Archive!ImportFile, Archive!Becomes, Archive!Begins, Archive!Usable
<1>2. x \in Panels /\ file \in Files BY PanelOf
<1>3. doc.runs \in RecordSets /\ Unique(doc.runs)
  BY <1>1, <1>2, DocumentRecords DEF Archive!Acceptable, Archive!Whole, Unique
<1>4. busy \in BOOLEAN /\ (Archive!Standard => busy = TRUE) BY DEF Archive!Standard
<1>5. x.busy = FALSE BY <1>1, <1>2 DEF Panels
<1>6. n = [tab |-> t, op |-> "IMPORT", why |-> "import", runs |-> doc.runs] BY DEF Archive!Tx
<1> HIDE DEF busy, n
<1>7. /\ y \in Panels /\ y.export = x.export /\ y.busy = busy /\ y.pending = x.pending
      /\ y.open = x.open /\ y.reload = x.reload /\ y.failed = x.failed /\ y.view = x.view
      /\ y.behind = x.behind
  BY <1>2, <1>4 DEF Panels
<1>8. n \in Transactions BY <1>3, <1>6 DEF Transactions, Archive!Operations, Reasons
<1>9. n.tab = t /\ Carried(n) /\ ~Looks(n, t) /\ ~Saves(n, t)
  BY <1>3, <1>6 DEF Carried, Looks, Saves
<1> HIDE DEF y
<1>10. Keeping(queue \o <<n>>, [tab EXCEPT ![t] = y], disk, file)
  BY <1>1, <1>4, <1>5, <1>7, <1>8, <1>9, PanelBeginsOne
<1> QED BY <1>1, <1>10

LEMMA DeleteKeeps ==
    ASSUME Keeping(queue, tab, disk, file), NEW t \in Pages, Archive!Delete(t)
    PROVE  Keeping(queue', tab', disk', file')
<1> DEFINE x == tab[t]
           busy == Archive!Standard
           y == [x EXCEPT !.busy = busy]
           n == Archive!Tx(t, "CLEAR", "delete", {})
<1>1. /\ tab' = [tab EXCEPT ![t] = y] /\ queue' = queue \o <<n>> /\ disk' = disk /\ file' = file
      /\ x.open /\ ~x.busy
  BY DEF Archive!Delete, Archive!Becomes, Archive!Begins, Archive!Usable
<1>2. x \in Panels BY PanelOf
<1>3. {} \in RecordSets BY FS_EmptySet DEF RecordSets
<1>4. busy \in BOOLEAN /\ (Archive!Standard => busy = TRUE) BY DEF Archive!Standard
<1>5. x.busy = FALSE BY <1>1, <1>2 DEF Panels
<1>6. n = [tab |-> t, op |-> "CLEAR", why |-> "delete", runs |-> {}] BY DEF Archive!Tx
<1> HIDE DEF busy, n
<1>7. /\ y \in Panels /\ y.export = x.export /\ y.busy = busy /\ y.pending = x.pending
      /\ y.open = x.open /\ y.reload = x.reload /\ y.failed = x.failed /\ y.view = x.view
      /\ y.behind = x.behind
  BY <1>2, <1>4 DEF Panels
<1>8. n \in Transactions BY <1>3, <1>6 DEF Transactions, Archive!Operations, Reasons
<1>9. n.tab = t /\ Carried(n) /\ ~Looks(n, t) /\ ~Saves(n, t)
  BY <1>6 DEF Carried, Looks, Saves
<1> HIDE DEF y
<1>10. Keeping(queue \o <<n>>, [tab EXCEPT ![t] = y], disk, file)
  BY <1>1, <1>4, <1>5, <1>7, <1>8, <1>9, PanelBeginsOne
<1> QED BY <1>1, <1>10

LEMMA ExportFileKeeps ==
    ASSUME Keeping(queue, tab, disk, file), NEW t \in Pages, Archive!ExportFile(t)
    PROVE  Keeping(queue', tab', disk', file')
<1> DEFINE x == tab[t]
           records == Archive!Shown(x.view)
           export == [runs |-> records, got |-> {}, torn |-> FALSE]
           started == [x EXCEPT !.export = export]
           y == [x EXCEPT !.busy = TRUE]
           n == Archive!Reading(t, "export")
           b == Archive!Lookups(t, records)
<1>1. x \in Panels /\ tab \in [Pages -> Panels] BY PanelOf
<1>2. records \in Views BY <1>1, ShownViews DEF Panels
<1>3. export \in Exports /\ export # None
  <2>1. export \in Exports BY <1>2 DEF Exports
  <2> QED BY <2>1, ArchiveConstants
<1>4. /\ started \in Panels /\ started.export = export /\ started.busy = x.busy
      /\ started.pending = x.pending /\ started.open = x.open /\ started.reload = x.reload
      /\ started.failed = x.failed /\ started.view = x.view /\ started.behind = x.behind
  <2> HIDE DEF export
  <2> QED BY <1>1, <1>3 DEF Panels
<1>5. /\ disk' = disk /\ x.open /\ x.busy = FALSE
  BY <1>1 DEF Archive!ExportFile, Archive!Usable, Panels
<1>6. CASE /\ Archive!Standard /\ tab' = [tab EXCEPT ![t] = y] /\ queue' = queue \o <<n>>
           /\ file' = file
  <2>1. /\ y \in Panels /\ y.export = x.export /\ y.busy = TRUE /\ y.pending = x.pending
        /\ y.open = x.open /\ y.reload = x.reload /\ y.failed = x.failed /\ y.view = x.view
        /\ y.behind = x.behind
    BY <1>1 DEF Panels
  <2>2. n = [tab |-> t, op |-> "READ", why |-> "export", runs |-> {}] /\ n \in Transactions
    BY ReadingFacts
  <2> HIDE DEF n, y
  <2>3. n.tab = t /\ Carried(n) /\ ~Looks(n, t)
    BY <1>6, <2>2 DEF Carried, Looks
  <2>4. Keeping(queue \o <<n>>, [tab EXCEPT ![t] = y], disk, file)
    BY <1>5, <1>6, <2>1, <2>2, <2>3, PanelBeginsOne
  <2> QED BY <1>5, <1>6, <2>4
<1>7. CASE /\ ~Archive!Standard /\ tab' = [tab EXCEPT ![t] = started] /\ queue' = queue \o b
           /\ file' = file
  <2>1. b \in Seq(Transactions) BY <1>2, LookupsFacts DEF Views
  <2>2. \A m \in 1 .. Len(b) : b[m].tab = t /\ Carried(b[m]) /\ ~Saves(b[m], t)
    <3> TAKE m \in 1 .. Len(b)
    <3> QED BY <1>2, LookupCarries DEF Views
  <2>3. started.export # None BY <1>3, <1>4
  <2>4. \A m \in 1 .. Len(b) : Looks(b[m], t) => Placed(b[m], t, started, disk)
    BY <1>7, <2>3 DEF Placed
  <2> HIDE DEF b, started
  <2>5. Keeping(queue \o b, [tab EXCEPT ![t] = started], disk, file)
    BY <1>4, <1>5, <1>7, <2>1, <2>2, <2>3, <2>4, PanelBegins
  <2> QED BY <1>5, <1>7, <2>5
<1>8. CASE /\ ~Archive!Standard /\ tab' = tab /\ queue' = queue
           /\ file' = Archive!Downloads(started).file
  <2> DEFINE doc == [runs |-> started.export.runs, replays |-> started.export.got]
             f == IF Archive!Complete(doc) THEN [doc |-> doc, torn |-> started.export.torn] ELSE None
  <2>1. file' = f BY <1>8 DEF Archive!Downloads, Archive!Goes
  <2>2. doc \in [runs : Views, replays : SUBSET Ids] /\ started.export.torn \in BOOLEAN
    <3>1. started.export \in Exports BY <1>3, <1>4
    <3> HIDE DEF started
    <3> QED BY <3>1 DEF Exports
  <2>3. Archive!Complete(doc) => Archive!Acceptable(doc)
    BY <1>8, <2>2, SameCardinality DEF Archive!Complete, Archive!Acceptable, Views
  <2> HIDE DEF doc, started
  <2>4. f \in Files BY <2>2 DEF Files, Views
  <2>5. Portable(f)
    <3>1. CASE Archive!Complete(doc)
      <4>1. f.doc = doc BY <3>1
      <4> HIDE DEF f
      <4> QED BY <2>3, <3>1, <4>1 DEF Portable
    <3>2. CASE ~Archive!Complete(doc) BY <3>2, NothingBegins
    <3> QED BY <3>1, <3>2
  <2> HIDE DEF f
  <2>6. Keeping(queue, tab, disk, f) BY <2>4, <2>5 DEF Keeping
  <2> QED BY <1>5, <1>8, <2>1, <2>6
<1> QED BY <1>6, <1>7, <1>8 DEF Archive!ExportFile, Archive!Becomes, Archive!Begins

LEMMA ArchiveBegins == ASSUME Archive!Init PROVE ArchiveInv
<1>1. /\ panel \in {"STANDARD", "PRACTICE"} /\ queue = <<>> /\ file = None
      /\ tab = [t \in Pages |-> Archive!NewTab]
  BY DEF Archive!Init, Pages
<1>2. queue \in Seq(Transactions) /\ Len(queue) = 0 /\ 1 .. Len(queue) = {} /\ file \in Files /\ Portable(file)
  BY <1>1, NothingBegins
<1>3. {} \in Views /\ {} \in RecordSets /\ Cardinality({}) = 0 BY EmptyView, FS_EmptySet
<1>4. Archive!NewTab \in Panels /\ Archive!NewTab.open = FALSE /\ Archive!NewTab.pending = {}
  BY <1>3 DEF Archive!NewTab, Panels
<1>5. \A t \in Pages : tab[t] = Archive!NewTab BY <1>1
<1>6. tab \in [Pages -> Panels]
  <2> HIDE DEF Archive!NewTab
  <2> QED BY <1>1, <1>4
<1>7. \A t \in Pages : Page(t, tab[t], queue, disk)
  <2> TAKE t \in Pages
  <2> DEFINE x == tab[t]
  <2>1. x.open = FALSE /\ x.pending = {} BY <1>4, <1>5
  <2> HIDE DEF x
  <2>2. Page(t, x, queue, disk) BY <1>2, <2>1 DEF Page, Caught, Awaits, Single, Progress
  <2> QED BY <2>2 DEF x
<1>8. disk \in Disks /\ Stored(disk)
  <2>1. CASE disk = [runs |-> {}, replays |-> {}, bests |-> {}]
    <3>1. disk \in Disks BY <1>3, <2>1 DEF Disks
    <3>2. disk.runs = {} /\ disk.replays = {} BY <2>1
    <3> QED BY <1>3, <3>1, <3>2, ArchiveConstants DEF Stored, Unique
  <2>2. CASE disk \in {[runs |-> {Archive!Ended(id, TRUE)}, replays |-> {id}, bests |-> {}] : id \in Old}
    <3>1. PICK id \in Old : disk = [runs |-> {Archive!Ended(id, TRUE)}, replays |-> {id}, bests |-> {}]
      BY <2>2
    <3> DEFINE r == [id |-> id, replay |-> TRUE]
    <3>2. disk.runs = {r} /\ disk.replays = {id} /\ disk.bests = {} /\ r = Archive!Ended(id, TRUE)
      BY <3>1 DEF Archive!Ended
    <3>3. r \in Records /\ r.id = id /\ r.replay = TRUE /\ id \in Ids BY DEF Records, Ids
    <3> HIDE DEF r
    <3>4. {r} \in RecordSets /\ Cardinality({r}) = 1 BY <3>3, FS_Singleton DEF RecordSets
    <3>5. disk \in Disks
      <4>1. disk = [runs |-> {r}, replays |-> {id}, bests |-> {}] BY <3>1, <3>2
      <4> QED BY <3>3, <3>4, <4>1 DEF Disks
    <3>6. {id} \subseteq Archive!Announced({r}) BY <3>3 DEF Archive!Announced
    <3> QED BY <3>2, <3>3, <3>4, <3>5, <3>6, ArchiveConstants DEF Stored, Unique
  <2> QED BY <2>1, <2>2 DEF Archive!Init
<1> QED BY <1>1, <1>2, <1>6, <1>7, <1>8 DEF ArchiveInv, Keeping

LEMMA ArchivePasses ==
    ASSUME panel \in {"STANDARD", "PRACTICE"}, panel' = panel, Keeping(queue', tab', disk', file')
    PROVE  ArchiveInv'
<1>1. Portable(file)' BY DEF Keeping, Portable, Sure, Archive!Standard
<1>2. (\A i \in 1 .. Len(queue) : Carried(queue[i]))' BY DEF Keeping, Carried, Archive!Standard
<1>3. (\A t \in Pages : Page(t, tab[t], queue, disk))'
  BY DEF Keeping, Page, Awaits, Single, Progress, Placed, Begun, Place, Archive!Standard
<1>4. /\ (queue \in Seq(Transactions) /\ tab \in [Pages -> Panels] /\ disk \in Disks /\ file \in Files)'
      /\ Stored(disk)'
  BY DEF Keeping
<1> QED BY <1>1, <1>2, <1>3, <1>4 DEF ArchiveInv, Keeping

LEMMA ArchiveSteps == ArchiveInv /\ [Archive!Next]_(Archive!vars) => ArchiveInv'
<1> SUFFICES ASSUME ArchiveInv, [Archive!Next]_(Archive!vars) PROVE ArchiveInv'
  OBVIOUS
<1>1. panel \in {"STANDARD", "PRACTICE"} /\ Keeping(queue, tab, disk, file)
  BY DEF ArchiveInv
<1> HIDE DEF ArchiveInv
<1>2. CASE UNCHANGED (Archive!vars)
  <2>1. /\ panel' = panel /\ disk' = disk /\ queue' = queue /\ tab' = tab /\ file' = file
    BY <1>2 DEF Archive!vars
  <2>2. Keeping(queue', tab', disk', file') BY <1>1, <2>1
  <2> QED BY <1>1, <2>1, <2>2, ArchivePasses
<1>3. ASSUME NEW i \in 1 .. Len(queue), Archive!Commit(i) PROVE ArchiveInv'
  <2> DEFINE ok == Archive!Works(disk, queue[i])
  <2>1. /\ Archive!Ready(i) /\ Archive!Answer(i, ok) /\ panel' = panel
        /\ disk' = IF ok THEN Archive!Effect(disk, queue[i]) ELSE disk
    BY <1>3 DEF Archive!Commit
  <2>2. ok \in BOOLEAN /\ (ok => Archive!Works(disk, queue[i])) BY DEF Archive!Works
  <2> HIDE DEF ok
  <2>3. Keeping(queue', tab', disk', file') BY <1>1, <2>1, <2>2, AnsweredKeeps
  <2> QED BY <1>1, <2>1, <2>3, ArchivePasses
<1>4. ASSUME NEW i \in 1 .. Len(queue), Archive!Abort(i) PROVE ArchiveInv'
  <2> DEFINE ok == FALSE
  <2>1. /\ Archive!Ready(i) /\ Archive!Answer(i, ok) /\ panel' = panel
        /\ disk' = IF ok THEN Archive!Effect(disk, queue[i]) ELSE disk
    BY <1>4 DEF Archive!Abort
  <2>2. ok \in BOOLEAN /\ (ok => Archive!Works(disk, queue[i])) OBVIOUS
  <2> HIDE DEF ok
  <2>3. Keeping(queue', tab', disk', file') BY <1>1, <2>1, <2>2, AnsweredKeeps
  <2> QED BY <1>1, <2>1, <2>3, ArchivePasses
<1>5. ASSUME NEW t \in Pages,
             \/ Archive!Open(t) \/ Archive!Refresh(t) \/ Archive!Leave(t) \/ Archive!Reload(t)
             \/ \E id \in Games : Archive!GameEnds(t, id)
             \/ \E p \in tab[t].pending : Archive!Retry(t, p)
             \/ \E doc \in Archive!Documents : Archive!ImportFile(t, doc)
             \/ Archive!ExportFile(t) \/ Archive!Delete(t)
      PROVE  ArchiveInv'
  <2>1. CASE Archive!Open(t)
    <3>1. panel' = panel BY <2>1 DEF Archive!Open, Archive!Rest
    <3>2. Keeping(queue', tab', disk', file') BY <1>1, <2>1, OpenKeeps
    <3> QED BY <1>1, <3>1, <3>2, ArchivePasses
  <2>2. CASE Archive!Refresh(t)
    <3>1. panel' = panel BY <2>2 DEF Archive!Refresh, Archive!Rest
    <3>2. Keeping(queue', tab', disk', file') BY <1>1, <2>2, RefreshKeeps
    <3> QED BY <1>1, <3>1, <3>2, ArchivePasses
  <2>3. CASE Archive!Leave(t)
    <3>1. panel' = panel BY <2>3 DEF Archive!Leave, Archive!Rest
    <3>2. Keeping(queue', tab', disk', file') BY <1>1, <2>3, LeaveKeeps
    <3> QED BY <1>1, <3>1, <3>2, ArchivePasses
  <2>4. CASE Archive!Reload(t)
    <3>1. panel' = panel BY <2>4 DEF Archive!Reload
    <3>2. Keeping(queue', tab', disk', file') BY <1>1, <2>4, ReloadKeeps
    <3> QED BY <1>1, <3>1, <3>2, ArchivePasses
  <2>5. ASSUME NEW id \in Games, Archive!GameEnds(t, id) PROVE ArchiveInv'
    <3>1. panel' = panel BY <2>5 DEF Archive!GameEnds
    <3>2. Keeping(queue', tab', disk', file') BY <1>1, <2>5, GameEndsKeeps
    <3> QED BY <1>1, <3>1, <3>2, ArchivePasses
  <2>6. ASSUME NEW p \in tab[t].pending, Archive!Retry(t, p) PROVE ArchiveInv'
    <3>1. panel' = panel BY <2>6 DEF Archive!Retry, Archive!Rest
    <3>2. Keeping(queue', tab', disk', file') BY <1>1, <2>6, RetryKeeps
    <3> QED BY <1>1, <3>1, <3>2, ArchivePasses
  <2>7. ASSUME NEW doc \in Archive!Documents, Archive!ImportFile(t, doc) PROVE ArchiveInv'
    <3>1. panel' = panel BY <2>7 DEF Archive!ImportFile
    <3>2. Keeping(queue', tab', disk', file') BY <1>1, <2>7, ImportFileKeeps
    <3> QED BY <1>1, <3>1, <3>2, ArchivePasses
  <2>8. CASE Archive!ExportFile(t)
    <3>1. panel' = panel BY <2>8 DEF Archive!ExportFile
    <3>2. Keeping(queue', tab', disk', file') BY <1>1, <2>8, ExportFileKeeps
    <3> QED BY <1>1, <3>1, <3>2, ArchivePasses
  <2>9. CASE Archive!Delete(t)
    <3>1. panel' = panel BY <2>9 DEF Archive!Delete
    <3>2. Keeping(queue', tab', disk', file') BY <1>1, <2>9, DeleteKeeps
    <3> QED BY <1>1, <3>1, <3>2, ArchivePasses
  <2> QED BY <1>5, <2>1, <2>2, <2>3, <2>4, <2>5, <2>6, <2>7, <2>8, <2>9
<1>6. CASE Archive!Next
  <2>1. \/ \E i \in 1 .. Len(queue) : Archive!Commit(i) \/ Archive!Abort(i)
        \/ \E t \in Pages :
             \/ Archive!Open(t) \/ Archive!Refresh(t) \/ Archive!Leave(t) \/ Archive!Reload(t)
             \/ \E id \in Games : Archive!GameEnds(t, id)
             \/ \E p \in tab[t].pending : Archive!Retry(t, p)
             \/ \E doc \in Archive!Documents : Archive!ImportFile(t, doc)
             \/ Archive!ExportFile(t) \/ Archive!Delete(t)
    BY <1>6 DEF Archive!Next, Pages
  <2> QED BY <1>3, <1>4, <1>5, <2>1
<1> QED BY <1>2, <1>6

LEMMA ArchiveShows == ArchiveInv => ViewIsCurrent
<1> SUFFICES ASSUME ArchiveInv PROVE ViewIsCurrent OBVIOUS
<1>1. \A t \in Pages : Caught(t, tab[t], queue, disk) BY DEF ArchiveInv, Keeping, Page
<1> SUFFICES ASSUME NEW t \in Pages,
                    tab[t].open /\ ~tab[t].reload /\ ~tab[t].failed /\ ~tab[t].behind,
                    \A i \in 1 .. Len(queue) : queue[i].tab # t
             PROVE  tab[t].view = disk.runs
  BY DEF ViewIsCurrent, Archive!ViewIsCurrent, Pages
<1>2. \A i \in 1 .. Len(queue) : ~Refreshes(queue[i], t) BY DEF Refreshes
<1> QED BY <1>1, <1>2 DEF Caught

LEMMA ArchiveWhole == ArchiveInv => HistoryIsWhole
<1> SUFFICES ASSUME ArchiveInv PROVE HistoryIsWhole OBVIOUS
<1>1. Stored(disk) /\ Portable(file) /\ disk \in Disks BY DEF ArchiveInv, Keeping
<1>2. Archive!Cardinality(disk.runs) <= Limit BY <1>1, SameCardinality DEF Stored
<1>3. \A r, s \in disk.runs : r.id = s.id => r = s BY <1>1 DEF Stored, Unique
<1>4. (\A r \in disk.runs : r.replay <=> r.id \in disk.replays) /\ disk.replays \subseteq Archive!Announced(disk.runs)
  BY <1>1 DEF Stored
<1>5. /\ file # None /\ ~Archive!TooLarge(file.doc)
      /\ Archive!Standard => ~file.torn /\ \A id \in file.doc.replays : Archive!PlaysBack(id)
      => Archive!Acceptable(file.doc)
  BY <1>1 DEF Portable, Sure
<1> QED BY <1>2, <1>3, <1>4, <1>5 DEF HistoryIsWhole, Archive!HistoryIsWhole

(* A panel of the history that waits for nothing shows what is stored, for   *)
(* games and for practices: whatever was written, imported, deleted, retried *)
(* or left before it was saved, and in whichever order the transactions of   *)
(* two pages end or fail, unless its latest reading failed or the other page *)
(* has changed the store (SoloHistory.tsx, PracticeHistory.tsx).             *)
THEOREM ViewsAreCurrent == Archive!Spec => []ViewIsCurrent
<1>1. Archive!Init => ArchiveInv BY ArchiveBegins
<1>2. ArchiveInv /\ [Archive!Next]_(Archive!vars) => ArchiveInv' BY ArchiveSteps
<1>3. ArchiveInv => ViewIsCurrent BY ArchiveShows
<1> QED BY <1>1, <1>2, <1>3, PTL DEF Archive!Spec

(* The stores keep to the limit and to each other, for any number of games   *)
(* and records of other versions and whatever transactions of two pages      *)
(* interleave, fail halfway or are cut off.  What was downloaded can be      *)
(* imported unless it is too large, the other page deleted the games during  *)
(* their export, or a replay of a game does not play back, which only the    *)
(* import checks (solo-history.ts, practice-history.ts).                     *)
THEOREM HistoriesAreWhole == Archive!Spec => []HistoryIsWhole
<1>1. Archive!Init => ArchiveInv BY ArchiveBegins
<1>2. ArchiveInv /\ [Archive!Next]_(Archive!vars) => ArchiveInv' BY ArchiveSteps
<1>3. ArchiveInv => HistoryIsWhole BY ArchiveWhole
<1> QED BY <1>1, <1>2, <1>3, PTL DEF Archive!Spec
=============================================================================
