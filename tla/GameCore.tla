-------------------------------- MODULE GameCore --------------------------------
(***************************************************************************)
(* The rules of a board (packages/game-core): which boards are dealt, what *)
(* opening, marking and chording cells does, and the benchmark value 3BV.  *)
(*                                                                         *)
(* A cell is its coordinates <<x, y>>; its index y * Width + x matters only*)
(* for the order in which a chord opens its neighbours.  The shuffle of the*)
(* seeded generator is any choice of mines.  A refused action changes      *)
(* nothing and is not a step.  Hashes are left out: two states with equal  *)
(* hashes are taken to be equal.                                           *)
(***************************************************************************)
EXTENDS Integers, FiniteSets

CONSTANTS
    Width, Height,
    Starts,        \* start cells of the boards that are dealt
    Radii,         \* safe radii around it
    MineCounts,    \* numbers of mines
    MaxMarks       \* bound: flags and question marks at a time

ASSUME SizeAssumption == Width \in Nat \ {0} /\ Height \in Nat \ {0}
ASSUME DealAssumption ==
    /\ Radii \subseteq Nat
    /\ MineCounts \subseteq Nat
    /\ Starts \subseteq (0 .. Width - 1) \X (0 .. Height - 1)

VARIABLES
    board,               \* [start, mines], mines as a set of cells
    visibility,          \* HIDDEN, REVEALED, FLAGGED or QUESTIONED
    revealedSafeCount,
    outcome,             \* PLAYING, WON or LOST
    reveals              \* history: accepted reveals, or all cells after a chord or a deduction

vars == <<board, visibility, revealedSafeCount, outcome, reveals>>
----------------------------------------------------------------------------
(* Boards *)

Cells == (0 .. Width - 1) \X (0 .. Height - 1)

Within(c, d, r) == c[1] - d[1] \in -r .. r /\ c[2] - d[2] \in -r .. r

\* getNeighborIndices
Near(c) == {d \in Cells \ {c} : Within(c, d, 1)}

\* The order of indices.
Before(c, d) == c[2] < d[2] \/ (c[2] = d[2] /\ c[1] < d[1])

Lesser(a, b) == IF a < b THEN a ELSE b
Greater(a, b) == IF a > b THEN a ELSE b

\* The cells that validation takes for protected, by the sides of the square
\* around the start that the border cuts off.
ProtectedCells(start, r) ==
    LET side(at, size) == Lesser(size - 1, at + r) - Greater(0, at - r) + 1
    IN side(start[1], Width) * side(start[2], Height)

\* getBoardSpecValidationErrors: none.  The limits of the sides are those of
\* the constants, the seed is abstracted.
Valid(start, r, mines) ==
    /\ mines >= 1
    /\ mines <= (Width * Height * 2) \div 5
    /\ mines <= Width * Height - ProtectedCells(start, r)

\* createBoard: the first cells of the shuffled candidates become mines.
Candidates(start, r) == {c \in Cells : ~Within(c, start, r)}

Deal(start, r, mines) ==
    {[start |-> start, mines |-> m] :
        m \in {m \in SUBSET Candidates(start, r) : Cardinality(m) = mines}}

Adjacent(c) == Cardinality(Near(c) \cap board.mines)
----------------------------------------------------------------------------
(* Opening cells *)

Covered(v) == {c \in Cells : v[c] \in {"HIDDEN", "QUESTIONED"}}
Revealed(v) == {c \in Cells : v[c] = "REVEALED"}
Flagged(v) == {c \in Cells : v[c] = "FLAGGED"}

CoveredSafe(v) == Covered(v) \ board.mines
Zeros(v) == {c \in CoveredSafe(v) : Adjacent(c) = 0}

\* The zeros that the queue of revealSafeRegion goes through from c: the least
\* set with c in it and with the covered zeros next to its members.
Opening(v, c) ==
    LET Closed == {Z \in SUBSET Zeros(v) :
                     c \in Z /\ \A z \in Z : Near(z) \cap Zeros(v) \subseteq Z}
    IN {z \in Zeros(v) : \A Z \in Closed : z \in Z}

\* revealSafeRegion: c, and around every zero of the queue what is covered and safe.
Region(v, c) ==
    {c} \cup IF c \notin Zeros(v) THEN {}
             ELSE (UNION {Near(z) : z \in Opening(v, c)}) \cap CoveredSafe(v)

\* What is seen after the cells of S are revealed.
Revealing(S) == [c \in Cells |-> IF c \in S THEN "REVEALED" ELSE visibility[c]]

\* The cells of S are revealed, at most one of them a mine.
Opened(S) ==
    LET safe == S \ board.mines IN
    /\ visibility' = Revealing(S)
    /\ revealedSafeCount' = revealedSafeCount + Cardinality(safe)
    /\ outcome' = IF safe # S THEN "LOST"
                  ELSE IF revealedSafeCount + Cardinality(safe)
                            = Cardinality(Cells) - Cardinality(board.mines) THEN "WON"
                  ELSE "PLAYING"

----------------------------------------------------------------------------
(* The actions of a player *)

RevealCell(c) ==
    /\ outcome = "PLAYING"
    /\ c \in Covered(visibility)
    /\ Opened(IF c \in board.mines THEN {c} ELSE Region(visibility, c))
    /\ reveals' = Lesser(reveals + 1, Cardinality(Cells))
    /\ UNCHANGED board

Marked(v) == {c \in Cells : v[c] \in {"FLAGGED", "QUESTIONED"}}

Mark(c, mark) ==
    /\ visibility' = [visibility EXCEPT ![c] = mark]
    /\ Cardinality(Marked(visibility')) <= MaxMarks
    /\ UNCHANGED <<board, revealedSafeCount, outcome, reveals>>

ToggleFlag(c) ==
    /\ outcome = "PLAYING"
    /\ visibility[c] # "REVEALED"
    /\ Mark(c, IF visibility[c] # "FLAGGED" THEN "FLAGGED" ELSE "HIDDEN")

CycleCellMark(c) ==
    /\ outcome = "PLAYING"
    /\ visibility[c] # "REVEALED"
    /\ Mark(c, CASE visibility[c] = "HIDDEN" -> "FLAGGED"
                 [] visibility[c] = "FLAGGED" -> "QUESTIONED"
                 [] visibility[c] = "QUESTIONED" -> "HIDDEN")

HiddenNeighbors(c) == Near(c) \cap Covered(visibility)

\* Cells opened one after the other: everything up to the first mine.  One that
\* an earlier region has opened is skipped, and its region is part of that one.
OpenInOrder_All(S) ==
    (UNION {Region(visibility, c) : c \in S \ board.mines}) \cup (S \cap board.mines)
OpenInOrder(S) ==
    LET reached == {c \in S : \A m \in S \cap board.mines : ~Before(m, c)}
    IN (UNION {Region(visibility, c) : c \in reached \ board.mines})
         \cup (reached \cap board.mines)

ChordCell(c) ==
    /\ outcome = "PLAYING"
    /\ visibility[c] = "REVEALED"
    /\ Adjacent(c) # 0
    /\ Cardinality(Near(c) \cap Flagged(visibility)) = Adjacent(c)
    /\ HiddenNeighbors(c) # {}
    /\ Opened(OpenInOrder(HiddenNeighbors(c)))
    /\ reveals' = Cardinality(Cells)
    /\ UNCHANGED board

----------------------------------------------------------------------------
(* calculate3BV *)

AllHidden == [c \in Cells |-> "HIDDEN"]

ThreeBV_NoCover ==
    LET openings == {Opening(AllHidden, z) : z \in Zeros(AllHidden)}
        numbers == {c \in CoveredSafe(AllHidden) : Adjacent(c) # 0}
    IN Cardinality(openings) + Cardinality(numbers)

\* One for each opening, and one for each number that no opening covers.
ThreeBV ==
    LET openings == {Opening(AllHidden, z) : z \in Zeros(AllHidden)}
        numbers == {c \in CoveredSafe(AllHidden) : Adjacent(c) # 0}
        covered == UNION {Near(z) : z \in Zeros(AllHidden)}
    IN Cardinality(openings) + Cardinality(numbers \ covered)

----------------------------------------------------------------------------
Init ==
    /\ \E start \in Starts, r \in Radii, mines \in MineCounts :
         Valid(start, r, mines) /\ board \in Deal(start, r, mines)
    /\ visibility = AllHidden
    /\ revealedSafeCount = 0
    /\ outcome = "PLAYING"
    /\ reveals = 0

Next == \E c \in Cells :
    RevealCell(c) \/ ToggleFlag(c) \/ CycleCellMark(c) \/ ChordCell(c)

Spec == Init /\ [][Next]_vars
----------------------------------------------------------------------------
(* Properties *)

TypeOK ==
    /\ board.mines \subseteq Cells
    /\ visibility \in [Cells -> {"HIDDEN", "REVEALED", "FLAGGED", "QUESTIONED"}]
    /\ revealedSafeCount \in Nat
    /\ outcome \in {"PLAYING", "WON", "LOST"}

\* The counter and the outcome agree with what is seen, whatever mixture of
\* regions, chords over wrong flags and stopped chords led there: the counter is
\* the number of safe cells opened, a board is lost when its one mine is seen, and
\* won exactly when all that is safe is open.
OutcomeIsTrue ==
    LET open == Revealed(visibility) IN
    /\ revealedSafeCount = Cardinality(open \ board.mines)
    /\ Cardinality(open \cap board.mines) = IF outcome = "LOST" THEN 1 ELSE 0
    /\ outcome # "LOST" => (outcome = "WON" <=> Cells \ board.mines = open)

\* 3BV is a lower bound on the openings that win a board: no order of them, with
\* or without marks in the way of regions, needs fewer as long as nothing is chorded.
NoFasterThan3BV ==
    outcome = "WON" => reveals >= ThreeBV
=============================================================================
