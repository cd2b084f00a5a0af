-------------------------------- MODULE SoloGame --------------------------------
(***************************************************************************)
(* The solo game of the browser (SoloGame.tsx): setting up a board, its    *)
(* generation by a worker, the player's and the coach's actions, the replay*)
(* that is recorded meanwhile, going back before a mine, and saving what   *)
(* has ended, for standard games and for guided practice.                  *)
(*                                                                         *)
(* The rules of the board and what can be deduced from it are those of     *)
(* GameCore and Deduction.  A hash is the state it is taken of.  A request *)
(* id only tells the newest request of its kind from the older ones, so a  *)
(* job is live or late; the answer of a late one may still arrive.  React  *)
(* runs the effects of a handler before the next click: the user's actions *)
(* wait for Settled, the answers of workers do not.                        *)
(* Times, notices, visual effects, preferences and telemetry are left out. *)
(***************************************************************************)
EXTENDS Integers, FiniteSets, Sequences

CONSTANTS
    Width, Height, Mines,
    Modes,           \* "classic", "no_guess"
    Kinds,           \* "STANDARD", "GUIDED_PRACTICE"
    None,            \* null
    ReplayLimit,     \* SOLO_REPLAY_MAX_ACTIONS
    FrontierLimit,   \* PRACTICE_COACH_FULL_SEARCH_FRONTIER_LIMIT
    MaxRuns          \* bound: games begun or taken up again

ASSUME SoloAssumption ==
    /\ ReplayLimit \in Nat \ {0} /\ MaxRuns \in Nat \ {0}
    /\ Width \in Nat \ {0} /\ Height \in Nat \ {0}

VARIABLES
    kind, mode, questions,   \* sessionKind, config.mode, questionMarksEnabled
    status,                  \* READY, GENERATING, PLAYING, WON or LOST
    game,                    \* gameRef: [board, sight, outcome]
    again,                   \* pendingReplaySpecRef: a board, or None
    replay,                  \* [initial, log, last, full]: see Fresh
    run,                     \* [id, handled, save]: the run, the one whose end is handled, practiceSaveState
    back,                    \* practicePreMineSnapshotRef: [game, replay], or None
    help,                    \* what the coach keeps: see NoHelp
    jobs,                    \* what workers were asked for and have not answered
    dirty,                   \* an effect of the latest change has yet to run
    results,                 \* [pending, stored, practice]: where ended runs are
    wanted,                  \* history: the click that is waiting for a board, or None
    ended,                   \* history: the runs that were won or lost, with their kind
    steady                   \* history: question marks were not switched during the run

vars == <<kind, mode, questions, status, game, again, replay, run, back, help, jobs,
          dirty, results, wanted, ended, steady>>
----------------------------------------------------------------------------
(* The board *)

Core(b, v) == INSTANCE Deduction WITH
    Starts <- {}, Radii <- {0}, MineCounts <- {Mines}, MaxMarks <- Width * Height,
    board <- b, visibility <- v, outcome <- "PLAYING", reveals <- 0,
    revealedSafeCount <- 0, player <- "PERSON"

Cells == (0 .. Width - 1) \X (0 .. Height - 1)
NoBoard == [start |-> None, mines |-> {}]
Blank == [c \in Cells |-> "HIDDEN"]

Boards(c) == {[start |-> c, mines |-> m] : m \in {m \in SUBSET (Cells \ {c}) : Cardinality(m) = Mines}}

Flags(v) == {c \in Cells : v[c] = "FLAGGED"}
Open(v) == {c \in Cells : v[c] = "REVEALED"}

\* The cells of S are opened.
After(g, S) ==
    LET sight == [c \in Cells |-> IF c \in S THEN "REVEALED" ELSE g.sight[c]]
    IN [g EXCEPT !.sight = sight,
                 !.outcome = IF S \cap g.board.mines # {} THEN "LOST"
                             ELSE IF Open(sight) = Cells \ g.board.mines THEN "WON"
                             ELSE "PLAYING"]

\* cycleCellMark with question marks, toggleFlag without.
NextMark(mark, asks) ==
    CASE mark = "HIDDEN" -> "FLAGGED"
      [] mark = "FLAGGED" -> IF asks THEN "QUESTIONED" ELSE "HIDDEN"
      [] mark = "QUESTIONED" -> IF asks THEN "HIDDEN" ELSE "FLAGGED"
      [] mark = "REVEALED" -> "REVEALED"

ChordFits(g, c) ==
    LET B == Core(g.board, g.sight)!Adjacent(c) IN
    /\ g.sight[c] = "REVEALED" /\ B # 0
    /\ Cardinality(Core(g.board, g.sight)!Near(c) \cap Flags(g.sight)) = B

\* What an action makes of a game, the same game when it is refused.
Result(g, action, c, asks) ==
    LET v == g.sight
        covered == v[c] \in {"HIDDEN", "QUESTIONED"}
        mined == c \in g.board.mines
    IN IF g.outcome # "PLAYING" THEN g
       ELSE CASE action = "TOGGLE_FLAG" ->
                   [g EXCEPT !.sight = [d \in Cells |-> IF d = c THEN NextMark(v[c], asks) ELSE v[d]]]
              [] action = "REVEAL" /\ covered ->
                   After(g, IF mined THEN {c} ELSE Core(g.board, v)!Region(v, c))
              [] action = "CHORD" /\ ChordFits(g, c) ->
                   After(g, Core(g.board, v)!OpenInOrder(Core(g.board, v)!HiddenNeighbors(c)))
              [] OTHER -> g

\* delta.revealed has a cell that is not a mine.
OpensSafe(g, h) == (Open(h.sight) \ Open(g.sight)) \ g.board.mines # {}
----------------------------------------------------------------------------
(* The replay: the marks at the start, the events, the latest state hash, and *)
(* whether an event was left out for lack of space.                           *)

Fresh == [initial |-> Blank, log |-> <<>>, last |-> None, full |-> FALSE]

Recorded(r, event) ==
    IF Len(r.log) < ReplayLimit THEN [r EXCEPT !.log = Append(@, event)]
    ELSE [r EXCEPT !.full = TRUE]

PlayerEvent(action, c, pre) == [type |-> "PLAYER_ACTION", action |-> action, cell |-> c, pre |-> pre]
CoachEvent(trigger, action, c, pre, seen) ==
    [type |-> "COACH_ACTION", trigger |-> trigger, action |-> action, cell |-> c,
     pre |-> pre, seen |-> seen]
ShownEvent(trigger, seen) == [type |-> "ASSISTANCE_SHOWN", trigger |-> trigger, seen |-> seen]

\* recordAction, for the game that the action led to.
RecordAction(r, action, c, next) ==
    [Recorded(r, PlayerEvent(action, c, r.last)) EXCEPT !.last = next]
----------------------------------------------------------------------------
(* The coach *)

NoHelp ==
    [analysis |-> None,      \* coachAnalysisRef
     manual |-> FALSE,       \* practiceManualHintPendingRef
     shown |-> {},           \* practiceShownStateHashesRef
     auto |-> {},            \* autoFlaggedIndexesRef
     autoOn |-> FALSE,       \* autoMarkMinesRef
     suppressed |-> {},      \* practiceSuppressedAutoFlagsRef
     evidence |-> None]      \* practiceAutoMarkEvidenceHashRef

Clues(g) == [c \in Cells |->
    IF g.sight[c] = "REVEALED" THEN Core(g.board, g.sight)!Adjacent(c) ELSE -1]

\* visibleBoardStateForPractice
Visible(g, auto) ==
    [clues |-> Clues(g), claims |-> Flags(g.sight), proven |-> auto \cap Flags(g.sight)]

\* hasPlayerClaimContradiction
Overclaimed(g, seen) ==
    \/ Cardinality(seen.claims) > Mines
    \/ \E c \in Cells : seen.clues[c] >= 0 /\
         Cardinality(Core(g.board, g.sight)!Near(c) \cap seen.claims) > seen.clues[c]

Targets(D, what) == UNION {d.targets : d \in {d \in D : d.kind = what}}

\* runCoachRequest for what is seen of g: the cells proved safe and mined, and the
\* mines that one clue proves.  A long frontier is only analysed locally.
Suggestion(g, seen) ==
    LET constraints == Core(g.board, g.sight)!VisibleConstraints(seen.proven)
        frontier == {c \in Cells \ Open(g.sight) :
                       Core(g.board, g.sight)!Near(c) \cap Open(g.sight) # {}}
        local(what) == Targets(Core(g.board, g.sight)!Deductions(constraints), what)
        full == Core(g.board, g.sight)!Analysis(seen.proven)
        partial == Cardinality(frontier) > FrontierLimit
        refused == Overclaimed(g, seen) \/ (~partial /\ ~full.possible)
        safe == IF partial THEN local("SAFE") ELSE full.safe
        mine == IF partial THEN local("MINE") ELSE full.mine
        direct == Targets(Core(g.board, g.sight)!Singles(constraints), "MINE")
    IN [seen |-> seen,
        contradiction |-> refused,
        safe |-> IF refused THEN {} ELSE safe,
        mine |-> IF refused THEN {} ELSE mine \ seen.claims,
        direct |-> IF refused THEN {} ELSE direct \ seen.claims]

\* The actions of a suggestion; which of them it puts first is left open.
Steps(s) ==
    {<<IF c \in s.seen.claims THEN "UNFLAG" ELSE "REVEAL", c>> : c \in s.safe}
    \cup {<<"FLAG", c>> : c \in s.mine}

\* isCoachSuggestionApplicable
Applicable_AnyState(s, g, auto) == TRUE
Applicable(s, g, auto) == s.seen = Visible(g, auto)

\* applyCoachAction on what it changes, x = [game, replay, help].
Coached(x, trigger, action, c) ==
    LET next == Result(x.game, IF action = "REVEAL" THEN "REVEAL" ELSE "TOGGLE_FLAG", c, FALSE)
        event == CoachEvent(trigger, action, c, x.game, Visible(x.game, x.help.auto))
        opened == OpensSafe(x.game, next)
    IN IF next = x.game THEN x
       ELSE [game |-> next,
             replay |-> [Recorded(x.replay, event) EXCEPT !.last = next],
             help |-> [x.help EXCEPT
                 !.analysis = None,
                 !.auto = IF trigger = "AUTO_MARK" THEN @ \cup {c}
                          ELSE IF action = "UNFLAG" THEN @ \ {c} ELSE @,
                 !.suppressed = IF opened THEN {} ELSE @,
                 !.evidence = IF opened THEN None ELSE @]]

\* Whether the evidence of the latest batch is that of the game.
Tried(x) == x.help.evidence = Clues(x.game)

\* applyAutomaticMineBatch: the mines that one clue proves are flagged in the order
\* of their indices, except those the player has unflagged.
Batch(x, S) ==
    LET cell(n) == <<(n - 1) % Width, (n - 1) \div Width>>
        marked[n \in 0 .. Width * Height] ==
            IF n = 0 THEN x
            ELSE IF cell(n) \in S THEN Coached(marked[n - 1], "AUTO_MARK", "FLAG", cell(n))
            ELSE marked[n - 1]
    IN marked[Width * Height]

AutomaticBatch(x, s) ==
    IF Tried(x) THEN x
    ELSE Batch([x EXCEPT !.help.evidence = Clues(x.game)],
               IF Applicable(s, x.game, x.help.auto) THEN s.direct \ x.help.suppressed ELSE {})

----------------------------------------------------------------------------
(* Steps that several handlers share *)

\* Cancelling a job: its worker is terminated, but what it has posted may arrive.
\* One late answer of a kind is kept.
Cancelled(what) ==
    LET live == {j \in jobs : j.what = what /\ j.live}
    IN IF live = {} THEN jobs
       ELSE {j \in jobs : j.what # what} \cup {[j EXCEPT !.live = FALSE] : j \in live}

Settled == ~dirty
Terminal == {"WON", "LOST"}
Practising == kind = "GUIDED_PRACTICE"

\* The state that the coach's steps change, and its change.
Current == [game |-> game, replay |-> replay, help |-> help]
Becomes(x) == game' = x.game /\ replay' = x.replay /\ help' = x.help

\* finishIfTerminal, and the effects that the change leaves to be run.
Finish(next) ==
    /\ status' = next.outcome
    /\ ended' = IF next.outcome = "PLAYING" THEN ended
                ELSE ended \cup {[id |-> run'.id, kind |-> kind]}
    /\ dirty' = (Practising \/ next.outcome \in Terminal)

NewRun == [run EXCEPT !.id = run.count + 1, !.count = @ + 1]

\* beginGame: the flags of the click, the question marks of now.
Begin(b, c, flags) ==
    LET mark(d) == IF d \in flags THEN "FLAGGED"
                   ELSE IF game.sight[d] = "QUESTIONED" THEN "QUESTIONED" ELSE "HIDDEN"
        first == [board |-> b, sight |-> [d \in Cells |-> mark(d)], outcome |-> "PLAYING"]
        next == Result(first, "REVEAL", c, questions)
    IN /\ run.count < MaxRuns
       /\ run' = NewRun
       /\ game' = next
       /\ replay' = RecordAction([replay EXCEPT !.initial = first.sight, !.last = first],
                                 "REVEAL", c, next)
       /\ steady' = TRUE
       /\ Finish(next)
       /\ UNCHANGED <<kind, mode, questions, back, help, results>>

\* requestCoachAnalysis
RequestAnalysis(manual) ==
    /\ jobs' = Cancelled("COACH") \cup
                 {[what |-> "COACH", live |-> TRUE,
                   answer |-> Suggestion(game, Visible(game, help.auto))]}
    /\ help' = [help EXCEPT !.analysis = None, !.manual = @ \/ manual]

\* showCoachSuggestion, for a suggestion about what is seen now.
Show(h, trigger, s) ==
    /\ help' = IF trigger = "IDLE" THEN [h EXCEPT !.shown = @ \cup {s.seen}] ELSE h
    /\ replay' = Recorded(replay, ShownEvent(trigger, s.seen))

----------------------------------------------------------------------------
(* Setting up *)

NoGame == [board |-> NoBoard, sight |-> Blank, outcome |-> "PLAYING"]

\* resetBoard: another configuration, mode or kind of session, or a new game.
ResetTo(k, m) ==
    /\ kind' = k /\ mode' = m
    /\ status' = "READY"
    /\ replay' = Fresh
    /\ run' = [run EXCEPT !.id = 0, !.handled = 0, !.save = "IDLE"]
    /\ back' = None
    /\ help' = NoHelp
    /\ jobs' = {[j EXCEPT !.live = FALSE] : j \in {j \in jobs : \A i \in jobs :
                                                   i.what = j.what /\ i.live => j.live}}
    /\ dirty' = FALSE
    /\ wanted' = None
    /\ UNCHANGED <<questions, results, ended, steady>>

Reset(k, m) == Settled /\ ResetTo(k, m) /\ game' = NoGame /\ again' = None

\* replaySameBoard
ReplaySameBoard ==
    /\ Settled
    /\ kind = "STANDARD" /\ status \in Terminal
    /\ ResetTo(kind, mode)
    /\ game' = [NoGame EXCEPT !.board = game.board]
    /\ again' = game.board

\* chooseQuestionMarks: also while a game is played.
ChooseQuestionMarks ==
    /\ Settled
    /\ questions' = ~questions
    /\ steady' = (steady /\ status \in {"READY", "GENERATING"})
    /\ UNCHANGED <<kind, mode, status, game, again, replay, run, back, help, jobs,
                   dirty, results, wanted, ended>>

\* A mark before the first click.
MarkEarly(c) ==
    /\ Settled /\ status = "READY"
    /\ game' = [game EXCEPT !.sight[c] = NextMark(@, questions)]
    /\ UNCHANGED <<kind, mode, questions, status, again, replay, run, back, help, jobs,
                   dirty, results, wanted, ended, steady>>

\* The first click: on the board of before, on a new one, or on one that a worker
\* has to find (generateNoGuess).
ClickFirst(c) ==
    /\ Settled /\ status = "READY" /\ game.sight[c] # "FLAGGED"
    /\ again' = None
    /\ \/ again # None /\ Begin(again, c, Flags(game.sight)) /\ UNCHANGED <<jobs, wanted>>
       \/ /\ again = None /\ mode = "classic"
          /\ \E b \in Boards(c) : Begin(b, c, Flags(game.sight))
          /\ UNCHANGED <<jobs, wanted>>
       \/ /\ again = None /\ mode = "no_guess"
          /\ run.count < MaxRuns
          /\ status' = "GENERATING"
          /\ wanted' = [cell |-> c, flags |-> Flags(game.sight)]
          /\ jobs' = Cancelled("GENERATE") \cup
                       {[what |-> "GENERATE", live |-> TRUE, cell |-> c, flags |-> Flags(game.sight)]}
          /\ UNCHANGED <<kind, mode, questions, game, replay, run, back, help, dirty,
                         results, ended, steady>>

\* The check of the request id in every callback.
IsNewest_Unchecked(j) == TRUE
IsNewest(j) == j.live

\* An answer that nobody waits for.
DropLate(j) ==
    /\ ~IsNewest(j)
    /\ jobs' = jobs \ {j}
    /\ UNCHANGED <<kind, mode, questions, status, game, again, replay, run, back, help,
                   dirty, results, wanted, ended, steady>>

GenerationSucceeds(j) ==
    /\ j.what = "GENERATE" /\ IsNewest(j)
    /\ jobs' = jobs \ {j}
    /\ \E b \in Boards(j.cell) : Begin(b, j.cell, j.flags)
    /\ wanted' = None
    /\ UNCHANGED again

\* After fifty boards in vain, an error of the worker, or five seconds.
BackToReady_Never == status
BackToReady == "READY"

GenerationFails(j) ==
    /\ j.what = "GENERATE" /\ j.live
    /\ jobs' = jobs \ {j}
    /\ status' = BackToReady
    /\ wanted' = None
    /\ UNCHANGED <<kind, mode, questions, game, again, replay, run, back, help, dirty,
                   results, ended, steady>>

----------------------------------------------------------------------------
(* Playing *)

\* handleBoardAction while a game is on.
Act(action, c) ==
    LET next == Result(game, action, c, questions)
        opened == OpensSafe(game, next)
        unflagged == game.sight[c] = "FLAGGED" /\ next.sight[c] # "FLAGGED"
        removed == IF unflagged THEN {c} \cap help.auto ELSE {}
    IN /\ Settled /\ status = "PLAYING"
       /\ game' = next
       /\ replay' = RecordAction(replay, action, c, next)
       /\ back' = IF Practising /\ next.outcome = "LOST" THEN [game |-> game, replay |-> replay]
                  ELSE back
       /\ help' = IF ~Practising THEN help
                  ELSE [help EXCEPT !.evidence = IF opened THEN None ELSE @,
                                    !.suppressed = (IF opened THEN {} ELSE @) \cup removed,
                                    !.auto = @ \ removed]
       /\ UNCHANGED run
       /\ Finish(next)
       /\ UNCHANGED <<kind, mode, questions, again, jobs, results, wanted, steady>>

\* The replay up to the mine.
BeforeMine_KeepsHash == [back.replay EXCEPT !.last = replay.last]
BeforeMine == back.replay

\* rewindPracticeBeforeMine: what the coach knows of flags stays as it is.
RewindBeforeMine ==
    /\ Settled
    /\ Practising /\ status = "LOST" /\ run.save # "SAVING" /\ back # None
    /\ run.count < MaxRuns
    /\ run' = [NewRun EXCEPT !.handled = 0, !.save = "IDLE"]
    /\ game' = back.game
    /\ replay' = BeforeMine
    /\ back' = None
    /\ help' = [help EXCEPT !.analysis = None, !.manual = FALSE, !.shown = {}, !.evidence = None]
    /\ status' = "PLAYING"
    /\ dirty' = TRUE
    /\ UNCHANGED <<kind, mode, questions, again, jobs, results, wanted, ended, steady>>

----------------------------------------------------------------------------
(* The coach *)

\* finishWithSuggestion: forgotten when the board has changed meanwhile, shown when
\* asked for, otherwise remembered and, if that is chosen, flagged.
CoachAnswers(j) ==
    LET s == j.answer
        asked == [help EXCEPT !.analysis = s, !.manual = FALSE]
        batch == AutomaticBatch([Current EXCEPT !.help = asked], s)
    IN /\ j.what = "COACH" /\ IsNewest(j)
       /\ jobs' = jobs \ {j}
       /\ UNCHANGED run
       /\ \/ /\ game.outcome # "PLAYING"
             /\ UNCHANGED <<game, replay, help, status, ended, dirty>>
          \/ /\ game.outcome = "PLAYING" /\ ~Applicable(s, game, help.auto)
             /\ help' = [help EXCEPT !.manual = FALSE]
             /\ UNCHANGED <<game, replay, status, ended, dirty>>
          \/ /\ game.outcome = "PLAYING" /\ Applicable(s, game, help.auto)
             /\ \/ help.manual /\ Show(asked, "REQUEST", s) /\ UNCHANGED <<game, status, ended, dirty>>
                \/ /\ ~help.manual
                   /\ s.contradiction \/ ~help.autoOn
                   /\ help' = [asked EXCEPT !.shown = IF s.contradiction THEN @ \cup {s.seen} ELSE @]
                   /\ UNCHANGED <<game, replay, status, ended, dirty>>
                \/ /\ ~help.manual /\ ~s.contradiction /\ help.autoOn
                   /\ Becomes(batch)
                   /\ UNCHANGED <<status, ended>>
                   /\ dirty' = (dirty \/ batch.game # game)
       /\ UNCHANGED <<kind, mode, questions, again, back, results, wanted, steady>>

\* finishWithTransportError: an error, an answer that is none, or the timeout.
CoachFails(j) ==
    /\ j.what = "COACH" /\ j.live
    /\ jobs' = Cancelled("COACH")
    /\ help' = [help EXCEPT !.analysis = None, !.manual = FALSE]
    /\ UNCHANGED <<kind, mode, questions, status, game, again, replay, run, back, dirty,
                   results, wanted, ended, steady>>

\* requestImmediateHint
RequestHint ==
    /\ Settled /\ Practising /\ status = "PLAYING"
    /\ IF help.analysis # None /\ Applicable(help.analysis, game, help.auto)
       THEN Show(help, "REQUEST", help.analysis) /\ UNCHANGED jobs
       ELSE RequestAnalysis(TRUE) /\ UNCHANGED replay
    /\ UNCHANGED <<kind, mode, questions, status, game, again, run, back, dirty, results,
                   wanted, ended, steady>>

\* Eight seconds without an action, once for what is seen.
IdleHint ==
    /\ Settled /\ Practising /\ status = "PLAYING" /\ help.analysis # None
    /\ help.analysis.seen \notin help.shown
    /\ Applicable(help.analysis, game, help.auto)
    /\ Show(help, "IDLE", help.analysis)
    /\ UNCHANGED <<kind, mode, questions, status, game, again, run, back, jobs, dirty,
                   results, wanted, ended, steady>>

\* demonstrateNextStep
Demonstrate ==
    /\ Settled /\ Practising /\ status = "PLAYING"
    /\ \/ help.analysis = None /\ RequestAnalysis(FALSE)
          /\ UNCHANGED <<game, replay, status, ended, dirty, run>>
       \/ /\ help.analysis # None /\ Applicable(help.analysis, game, help.auto)
          /\ UNCHANGED <<run, jobs>>
          /\ \E step \in Steps(help.analysis) :
               LET x == Coached(Current, "DEMONSTRATE", step[1], step[2])
               IN x.game # game /\ Becomes(x) /\ Finish(x.game)
    /\ UNCHANGED <<kind, mode, questions, again, back, results, wanted, steady>>

\* toggleAutoMarkMines
ToggleAutoMark ==
    LET on == [Current EXCEPT !.help.autoOn = TRUE, !.help.evidence = None]
        x == IF help.autoOn THEN [Current EXCEPT !.help.autoOn = FALSE]
             ELSE IF help.analysis = None \/ game.outcome # "PLAYING" THEN on
             ELSE AutomaticBatch(on, help.analysis)
    IN /\ Settled /\ Practising /\ status \in {"READY", "PLAYING"}
       /\ Becomes(x)
       /\ dirty' = (x.game # game)
       /\ UNCHANGED <<kind, mode, questions, status, again, run, back, jobs, results,
                      wanted, ended, steady>>

----------------------------------------------------------------------------
(* What is verified of a replay *)

\* One event: the state it was recorded on is the state reached, and, for what the
\* coach says, what it saw is what is seen there, with the coach's own flags or
\* without them.
Replayed(acc, e, asks) ==
    LET seen == e.seen \in {Visible(acc.game, acc.proven), Visible(acc.game, {})}
        next == IF e.type = "PLAYER_ACTION" THEN Result(acc.game, e.action, e.cell, asks)
                ELSE Result(acc.game, IF e.action = "REVEAL" THEN "REVEAL" ELSE "TOGGLE_FLAG",
                            e.cell, FALSE)
        unflagged == IF next.sight[e.cell] # "FLAGGED" THEN {e.cell} ELSE {}
    IN CASE e.type = "ASSISTANCE_SHOWN" -> [acc EXCEPT !.proofs = @ /\ seen]
         [] e.type = "PLAYER_ACTION" ->
              [acc EXCEPT !.game = next, !.chain = @ /\ e.pre = acc.game,
                          !.proven = IF e.action = "TOGGLE_FLAG" THEN @ \ unflagged ELSE @]
         [] e.type = "COACH_ACTION" ->
              [acc EXCEPT !.game = next, !.chain = @ /\ e.pre = acc.game,
                          !.proofs = @ /\ seen,
                          !.proven = IF e.action = "FLAG" THEN @ \cup {e.cell} ELSE @ \ {e.cell}]

\* verifySoloReplay and verifyPracticeReplay, from the board and the first marks, for
\* the question marks that are saved with them.
Verify(b, r, asks) ==
    LET reached[n \in 0 .. Len(r.log)] ==
            IF n = 0
            THEN [game |-> [board |-> b, sight |-> r.initial, outcome |-> "PLAYING"],
                  proven |-> {}, chain |-> TRUE, proofs |-> TRUE]
            ELSE Replayed(reached[n - 1], r.log[n], asks)
    IN reached[Len(r.log)]

Verified == Verify(game.board, replay, questions)

----------------------------------------------------------------------------
(* Saving *)

\* The analysis effect of a game that is on.
AnalysisEffect ==
    /\ dirty /\ status = "PLAYING"
    /\ dirty' = FALSE
    /\ RequestAnalysis(FALSE)
    /\ UNCHANGED <<kind, mode, questions, status, game, again, replay, run, back, results,
                   wanted, ended, steady>>

\* The effect that saves an ended practice: too large, or handed to the store, which
\* verifies it first.
SavePractice ==
    /\ dirty /\ status \in Terminal /\ Practising
    /\ dirty' = FALSE
    /\ jobs' = Cancelled("COACH")
    /\ help' = [help EXCEPT !.analysis = None]
    /\ run' = [run EXCEPT !.handled = run.id,
                          !.save = IF replay.full THEN "TOO_LARGE" ELSE "SAVING"]
    /\ results' = IF replay.full THEN results
                  ELSE [results EXCEPT !.putting = @ \cup
                          {[id |-> run.id, valid |-> Verified.chain /\ Verified.proofs]}]
    /\ UNCHANGED <<kind, mode, questions, status, game, again, replay, back, wanted,
                   ended, steady>>

\* The answer of the practice store, for the run on the screen or an earlier one.
PracticePutEnds(p, works) ==
    /\ p \in results.putting
    /\ results' = [results EXCEPT !.putting = @ \ {p},
                                  !.practice = IF works /\ p.valid THEN @ \cup {p.id} ELSE @]
    /\ run' = IF run.id # p.id THEN run
              ELSE [run EXCEPT !.save = IF works /\ p.valid THEN "SAVED" ELSE "FAILED"]
    /\ UNCHANGED <<kind, mode, questions, status, game, again, replay, back, help, jobs,
                   dirty, wanted, ended, steady>>

\* The effect that enqueues an ended standard game and tries to write it.
SaveStandard ==
    /\ dirty /\ status \in Terminal /\ ~Practising
    /\ dirty' = FALSE
    /\ run' = [run EXCEPT !.handled = run.id]
    /\ results' = IF run.handled = run.id THEN results
                  ELSE [results EXCEPT !.pending = @ \cup {[id |-> run.id, state |-> "saving"]}]
    /\ UNCHANGED <<kind, mode, questions, status, game, again, replay, back, help, jobs,
                   wanted, ended, steady>>

\* attemptPendingHistoryWrite: with the replay, else the summary alone, else it stays.
Written_Forgotten(p, outcome) ==
    [results EXCEPT !.pending = @ \ {p},
                    !.stored = IF outcome = "FAILED" THEN @
                               ELSE @ \cup {[id |-> p.id, replay |-> outcome = "FULL"]}]
Written(p, outcome) ==
    IF outcome = "FAILED"
    THEN [results EXCEPT !.pending = (@ \ {p}) \cup {[p EXCEPT !.state = "failed"]}]
    ELSE [results EXCEPT !.pending = @ \ {p},
                         !.stored = @ \cup {[id |-> p.id, replay |-> outcome = "FULL"]}]

StandardPutEnds(p, outcome) ==
    /\ p \in results.pending /\ p.state = "saving"
    /\ results' = Written(p, outcome)
    /\ UNCHANGED <<kind, mode, questions, status, game, again, replay, run, back, help,
                   jobs, dirty, wanted, ended, steady>>

\* The button that tries again.
Retry(p) ==
    /\ p \in results.pending /\ p.state = "failed"
    /\ results' = [results EXCEPT !.pending = (@ \ {p}) \cup {[p EXCEPT !.state = "saving"]}]
    /\ UNCHANGED <<kind, mode, questions, status, game, again, replay, run, back, help,
                   jobs, dirty, wanted, ended, steady>>

----------------------------------------------------------------------------
NoResults == [pending |-> {}, stored |-> {}, putting |-> {}, practice |-> {}]

Init ==
    /\ kind \in Kinds /\ mode \in Modes /\ questions \in BOOLEAN
    /\ status = "READY" /\ game = NoGame /\ again = None
    /\ replay = Fresh
    /\ run = [id |-> 0, count |-> 0, handled |-> 0, save |-> "IDLE"]
    /\ back = None /\ help = NoHelp /\ jobs = {} /\ dirty = FALSE
    /\ results = NoResults
    /\ wanted = None /\ ended = {} /\ steady = TRUE

Next ==
    \/ \E k \in Kinds, m \in Modes : Reset(k, m)
    \/ ReplaySameBoard \/ ChooseQuestionMarks
    \/ \E c \in Cells : MarkEarly(c) \/ ClickFirst(c)
    \/ \E j \in jobs : DropLate(j) \/ GenerationSucceeds(j) \/ GenerationFails(j)
                         \/ CoachAnswers(j) \/ CoachFails(j)
    \/ \E action \in {"REVEAL", "TOGGLE_FLAG", "CHORD"}, c \in Cells : Act(action, c)
    \/ RewindBeforeMine
    \/ RequestHint \/ IdleHint \/ Demonstrate \/ ToggleAutoMark
    \/ AnalysisEffect \/ SavePractice \/ SaveStandard
    \/ \E p \in results.putting, works \in BOOLEAN : PracticePutEnds(p, works)
    \/ \E p \in results.pending, outcome \in {"FULL", "SUMMARY", "FAILED"} :
         StandardPutEnds(p, outcome)
    \/ \E p \in results.pending : Retry(p)

Spec == Init /\ [][Next]_vars

\* The timeout of a generation fires.
FairSpec == Spec /\ WF_vars(\E j \in jobs : GenerationFails(j))
----------------------------------------------------------------------------
(* Properties *)

\* The replay of a game whose question marks were not switched leads, event by event
\* on the recorded states, from the first marks to the game on the screen, whatever
\* mixture of player's and coach's actions, refused ones and returns before a mine
\* it is of.
ReplayTellsTheGame ==
    status \in {"PLAYING", "WON", "LOST"} /\ ~replay.full /\ steady =>
        Verified.chain /\ Verified.game = game

\* A board that was generated for a click is only played as long as that click waits
\* for it, with its cell and its flags; a new run of a board is begun by its player,
\* who sees the flags it begins with, or goes back to before the mine; never does a
\* worker's board replace a game that is on or has ended.
BoardIsWanted ==
    [][run'.count # run.count =>
         LET flags == Flags(replay'.initial)
         IN CASE status = "GENERATING" ->
                   /\ game'.board.start = wanted.cell /\ replay'.log[1].cell = wanted.cell
                   /\ flags \subseteq wanted.flags
              [] status = "READY" ->
                   /\ flags \subseteq Flags(game.sight)
                   /\ again # None => game'.board = again
              [] OTHER -> status = "LOST" /\ game'.board = game.board]_vars

\* The coach is never wrong: whatever late answer, earlier board, flag of the player
\* or return before a mine it goes by, its own flags are on mines, what it flags was
\* not flagged, what it unflags was, and the cells it opens are safe and unflagged.
CoachIsRight ==
    /\ status = "PLAYING" => help.auto \cap Flags(game.sight) \subseteq game.board.mines
    /\ \A i \in 1 .. Len(replay.log) :
         LET e == replay.log[i]
         IN e.type = "COACH_ACTION" =>
              /\ e.action = "FLAG" <=> e.cell \in game.board.mines
              /\ e.action = "UNFLAG" <=> e.pre.sight[e.cell] = "FLAGGED"

\* A standard game that has ended is written with its replay or without it, or waits
\* to be written again, and never both.
ResultsAreKept ==
    \A e \in ended : e.kind = "STANDARD" =>
        \/ dirty /\ e.id = run.id
        \/ Cardinality({p \in results.pending : p.id = e.id})
             + Cardinality({r \in results.stored : r.id = e.id}) = 1

\* A generation ends: a game begins, or the player may click again.
GenerationEnds == status = "GENERATING" ~> status # "GENERATING"

\* "Your first completed or lost practice game will appear here": the replay of a
\* practice that has ended is one that its store accepts.
PracticeIsAccepted ==
    Practising /\ status \in Terminal /\ ~replay.full /\ steady =>
        Verified.chain /\ Verified.proofs
=============================================================================
