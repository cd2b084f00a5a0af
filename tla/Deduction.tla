------------------------------- MODULE Deduction -------------------------------
(***************************************************************************)
(* What packages/game-core concludes from a board: the deductions from one *)
(* clue and from two (collectDeductions), the complete search over the     *)
(* visible board (analyzeVisibleBoard), and the solver that certifies a    *)
(* board to need no guess (solveNoGuess), a player that follows the        *)
(* deductions.                                                             *)
(*                                                                         *)
(* A constraint says how many mines are among some cells.  The search      *)
(* enumerates the placements of mines on the frontier that fit; its pruning*)
(* and its counting of nodes are abstracted, and it is taken to finish.    *)
(***************************************************************************)
EXTENDS GameCore, Sequences

VARIABLE player     \* PERSON or SOLVER: who plays the board

\* The clues that collectConstraints takes, flags counting as mines.
Unknown(c) == Near(c) \cap Covered(visibility)
Remaining_NoFlags(c) == Adjacent(c)
Remaining(c) == Adjacent(c) - Cardinality(Near(c) \cap Flagged(visibility))

Sources ==
    {c \in Revealed(visibility) :
        /\ Adjacent(c) # 0
        /\ Unknown(c) # {}
        /\ Remaining(c) \in 0 .. Cardinality(Unknown(c))}

Constraints ==
    {[source |-> c, cells |-> Unknown(c), mines |-> Remaining(c)] : c \in Sources}

\* Pairs with one constraint's cells strictly inside the other's: isSubset.
Nested(C) == {p \in C \X C : p[1].cells \subseteq p[2].cells /\ p[1].cells # p[2].cells}

Deduced(kind, sources, targets) == [kind |-> kind, sources |-> sources, targets |-> targets]

\* collectDeductions
Singles(C) ==
    {Deduced("SAFE", <<k.source>>, k.cells) : k \in {k \in C : k.mines = 0}}
    \cup {Deduced("MINE", <<k.source>>, k.cells) :
            k \in {k \in C : k.mines = Cardinality(k.cells)}}

Subsets(C) ==
    {Deduced("SAFE", <<p[1].source, p[2].source>>, p[2].cells \ p[1].cells) :
        p \in {p \in Nested(C) : p[2].mines = p[1].mines}}
    \cup {Deduced("MINE", <<p[1].source, p[2].source>>, p[2].cells \ p[1].cells) :
        p \in {p \in Nested(C) :
                 p[2].mines - p[1].mines = Cardinality(p[2].cells \ p[1].cells)}}

Deductions(C) == Singles(C) \cup Subsets(C)

Targets(D, kind) == UNION {d.targets : d \in {d \in D : d.kind = kind}}

\* isProvablySafeCell
ProvablySafe(c) ==
    /\ outcome = "PLAYING" /\ c \in Covered(visibility)
    /\ \E k \in Constraints :
         /\ c \in k.cells
         /\ \/ k.mines = 0
            \/ \E s \in Constraints :
                 <<s, k>> \in Nested(Constraints) /\ c \notin s.cells /\ k.mines = s.mines

----------------------------------------------------------------------------
(* solveNoGuess *)

\* The order of collectDeductions: single clues first, by index of the sources.
Earlier(d, e) ==
    \/ Len(d.sources) < Len(e.sources)
    \/ Len(d.sources) = Len(e.sources) /\ Before(d.sources[1], e.sources[1])
    \/ Len(d.sources) = 2 /\ Len(e.sources) = 2 /\ d.sources[1] = e.sources[1]
         /\ Before(d.sources[2], e.sources[2])

SolverBegin ==
    /\ visibility = AllHidden
    /\ RevealCell(board.start)

\* One turn of the loop, with findDeduction's answer.
SolverStep ==
    LET D == Deductions(Constraints) IN
    /\ outcome = "PLAYING" /\ visibility # AllHidden
    /\ \E d \in D :
         /\ \A e \in D : ~Earlier(e, d)
         /\ IF d.kind = "SAFE"
            THEN Opened(OpenInOrder(d.targets))
            ELSE /\ visibility' = [c \in Cells |->
                        IF c \in d.targets THEN "FLAGGED" ELSE visibility[c]]
                 /\ UNCHANGED <<revealedSafeCount, outcome>>
    /\ reveals' = Cardinality(Cells)
    /\ UNCHANGED board

PlayInit == Init /\ player \in {"PERSON", "SOLVER"}

Play ==
    /\ \/ player = "PERSON" /\ Next
       \/ player = "SOLVER" /\ (SolverBegin \/ SolverStep)
    /\ UNCHANGED player

PlaySpec == PlayInit /\ [][Play]_<<vars, player>>

\* solveNoGuess's answer, once it has ended.
Solved == player = "SOLVER" /\ outcome = "WON"

----------------------------------------------------------------------------
(* analyzeVisibleBoard, for mines that were proved before *)

VisibleConstraints(proven) ==
    LET Cell(c) == Near(c) \ (Revealed(visibility) \cup proven)
    IN {[source |-> c, cells |-> Cell(c),
         mines |-> Adjacent(c) - Cardinality(Near(c) \cap proven)] :
          c \in {c \in Revealed(visibility) : Cell(c) # {}}}

Hidden(proven) == Cells \ (Revealed(visibility) \cup proven)

\* The placements on the frontier at which search arrives, when total mines are on
\* it and on the free cells that no clue touches.
Solutions_NoTotal(C, frontier, free, total) ==
    {S \in SUBSET frontier : \A k \in C : Cardinality(S \cap k.cells) = k.mines}
Solutions(C, frontier, free, total) ==
    {S \in SUBSET frontier :
        /\ \A k \in C : Cardinality(S \cap k.cells) = k.mines
        /\ Cardinality(S) <= total /\ total <= Cardinality(S) + Cardinality(free)}

\* The targets of the proofs, SAFE and MINE, and whether the flags can be right.
Analysis(proven) ==
    LET C == VisibleConstraints(proven)
        hidden == Hidden(proven)
        frontier == UNION {k.cells : k \in C}
        free == hidden \ frontier
        total == Cardinality(board.mines) - Cardinality(proven)
        local == Deductions(C)
        solutions == Solutions(C, frontier, free, total)
        inFree == {total - Cardinality(S) : S \in solutions}
        claims == Flagged(visibility) \ proven
        global(n) == IF inFree = {n} THEN free ELSE {}
    IN IF total \in {0, Cardinality(hidden)}
       THEN [safe |-> Targets(local, "SAFE") \cup IF total = 0 THEN hidden ELSE {},
             mine |-> Targets(local, "MINE") \cup IF total = 0 THEN {} ELSE hidden,
             possible |-> Cardinality(claims) <= total]
       ELSE [safe |-> Targets(local, "SAFE") \cup global(0)
                        \cup {c \in frontier : \A S \in solutions : c \notin S},
             mine |-> Targets(local, "MINE") \cup global(Cardinality(free))
                        \cup {c \in frontier : \A S \in solutions : c \in S},
             possible |-> \E S \in solutions :
                            /\ claims \cap frontier \subseteq S
                            /\ Cardinality(claims \cap free) <= total - Cardinality(S)]

----------------------------------------------------------------------------
(* Properties *)

\* The boards that look the same: every placement of all mines that explains the
\* clues and has the proven mines.
Worlds(proven) ==
    {M \in SUBSET (Cells \ Revealed(visibility)) :
        /\ proven \subseteq M
        /\ Cardinality(M) = Cardinality(board.mines)
        /\ \A c \in Revealed(visibility) : Cardinality(Near(c) \cap M) = Adjacent(c)}

\* The analysis proves all that can be known and nothing else: its safe cells
\* and mines are those of every board that looks the same, and it calls the flags
\* contradictory exactly when no such board has them.
AnalysisIsExact ==
    outcome = "PLAYING" =>
        \A proven \in SUBSET (Flagged(visibility) \cap board.mines) :
            LET a == Analysis(proven)
                worlds == Worlds(proven)
            IN /\ a.safe = {c \in Hidden(proven) : \A M \in worlds : c \notin M}
               /\ a.mine = {c \in Hidden(proven) : \A M \in worlds : c \in M}
               /\ a.possible <=> \E M \in worlds : Flagged(visibility) \subseteq M

\* "Needs no guess": the solver never opens a mine and never flags anything else,
\* although it counts its own flags as mines from then on.
SolverIsSafe ==
    player = "SOLVER" => outcome # "LOST" /\ Flagged(visibility) \subseteq board.mines
=============================================================================
