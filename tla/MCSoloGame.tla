------------------------------- MODULE MCSoloGame -------------------------------
(* Instances of SoloGame and, as Archive, of History for TLC: boards in a   *)
(* row, and two pages with their panels.  A behaviour is one of either; the  *)
(* other stays as it began.                                                  *)
EXTENDS SoloGame
CONSTANTS p1, p2, Games, Foreign, Old, BadRuns, BadReplays, Loose, Large, FileLimit,
          Bests, BadBests, Limit, MaxSteps
VARIABLES part, panel, disk, queue, tab, file, left, steps

Archive == INSTANCE History WITH Tabs <- {p1, p2}, kind <- panel

history == <<panel, disk, queue, tab, file, left, steps>>

\* An export that reads is not None (History).
ASSUME ArchiveAssumption ==
    LET ids == Games \cup Foreign \cup Old
    IN /\ Limit \in Nat \ {0} /\ FileLimit \in Nat
       /\ None \notin [runs : SUBSET [id : ids, replay : BOOLEAN], got : SUBSET ids, torn : BOOLEAN]

\* Bounds of the instance: one mark before the first click, one refused action and
\* one hint in a replay, and short second games.  Of a board and its mirror image, the one
\* that begins on the left.
Refused == {i \in 1 .. Len(replay.log) :
              /\ replay.log[i].type = "PLAYER_ACTION"
              /\ replay.log[i].pre = IF i = Len(replay.log) THEN game
                                     ELSE IF replay.log[i + 1].type = "ASSISTANCE_SHOWN" THEN None
                                     ELSE replay.log[i + 1].pre}
Hints == {i \in 1 .. Len(replay.log) : replay.log[i].type = "ASSISTANCE_SHOWN"}
Marks == {c \in Cells : game.sight[c] \in {"FLAGGED", "QUESTIONED"}}

Late == {j \in jobs : ~j.live}
Busy == results.putting # {} \/ \E p \in results.pending : p.state = "saving"

Scope ==
    /\ status \in {"READY", "GENERATING"} => Cardinality(Marks) <= 1
    /\ Cardinality(Refused) <= 1
    /\ Cardinality(Hints) <= 1
    /\ run.count = 2 => Len(replay.log) <= 2
    /\ Len(replay.log) > 1 => steady
    /\ Late # {} => Len(replay.log) <= 1 /\ ~questions /\ (Busy => status \notin Terminal)
    /\ Busy /\ status \notin Terminal => replay.log = <<>>
    /\ Practising /\ (questions \/ mode = "no_guess") => Len(replay.log) <= 1
    /\ run.count = MaxRuns /\ MaxRuns > 1 => replay.initial = Blank
    /\ replay.full => status \in Terminal
    /\ game.board.start # <<2, 0>> /\ (wanted = None \/ wanted.cell # <<2, 0>>)

Switching ==
    /\ questions' # questions => status = "PLAYING" /\ Len(replay.log) = 1 /\ run.count = 1
    /\ <<kind, mode>>' # <<kind, mode>> => status \in {"GENERATING", "PLAYING", "LOST"}

\* Bounds of the histories: games end in the first page only, its readings succeed and
\* no more than two transactions wait.  A behaviour that begins with a record of
\* another version has one page and one step.
PageScope ==
    /\ tab[p2].pending = {} /\ tab[p2].run = None
    /\ ~tab[p1].failed /\ ~tab[p2].failed
    /\ Len(queue) <= 2
    /\ part = "old" => steps <= 1 /\ ~tab[p2].open

PartsInit ==
    /\ Init /\ Archive!Init
    /\ \/ part = "game" /\ panel = "STANDARD" /\ disk.runs = {}
       \/ /\ kind = "STANDARD" /\ mode = "classic" /\ ~questions
          /\ part = IF disk.runs = {} THEN "history" ELSE "old"

PartsNext ==
    \/ part = "game" /\ Next /\ Scope' /\ Switching /\ UNCHANGED <<part, history>>
    \/ part # "game" /\ Archive!Next /\ UNCHANGED <<part, vars>> /\ PageScope'

PartsSpec ==
    /\ PartsInit /\ [][PartsNext]_<<part, vars, history>>
    /\ WF_vars(\E j \in jobs : GenerationFails(j))

(* A panel that waits for nothing shows its store (History).                 *)
ViewIsCurrent == Archive!ViewIsCurrent

(* What is stored is whole, and so is what is exported (History).            *)
HistoryIsWhole == Archive!HistoryIsWhole

\* A practice on which the player makes no mark and asks for no explanation, for the
\* run that looks at what the coach records.
Guided ==
    /\ Late = {} /\ ~questions /\ Hints = {}
    /\ \A i \in 1 .. Len(replay.log) :
         replay.log[i].type = "PLAYER_ACTION" => replay.log[i].action = "REVEAL"
    /\ status = "READY" => Marks = {}

PracticeSpec ==
    /\ PartsInit /\ part = "game"
    /\ [][Next /\ Guided' /\ UNCHANGED <<part, history>>]_<<part, vars, history>>
=============================================================================
