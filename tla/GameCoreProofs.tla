----------------------------- MODULE GameCoreProofs -----------------------------
(***************************************************************************)
(* Proofs about GameCore and Deduction, for boards of every size: counter  *)
(* and outcome agree with what is open, the deductions are sound, the      *)
(* solver never guesses, the complete analysis finds exactly what can be   *)
(* known, and no board is won with fewer reveals than its 3BV.             *)
(*                                                                         *)
(* The region that an opening reveals is a least set; all the proofs need  *)
(* of it is that it is covered, safe and has the opened cell in it.        *)
(***************************************************************************)
EXTENDS Deduction, FiniteSetTheorems, WellFoundedInduction, TLAPS

\* Every set of cells is finite, and its size a number.
LEMMA CellsFinite ==
    ASSUME NEW S \in SUBSET Cells
    PROVE  IsFiniteSet(S) /\ Cardinality(S) \in Nat
<1>1. IsFiniteSet(0 .. Width - 1) /\ IsFiniteSet(0 .. Height - 1)
  BY FS_Interval, SizeAssumption
<1>2. IsFiniteSet(Cells)
  BY <1>1, FS_Product DEF Cells
<1> QED BY <1>2, FS_Subset, FS_CardinalityType

\* Disjoint sets of cells add up.
LEMMA DisjointSizes ==
    ASSUME NEW S \in SUBSET Cells, NEW T \in SUBSET Cells, S \cap T = {}
    PROVE  Cardinality(S \cup T) = Cardinality(S) + Cardinality(T)
<1>1. IsFiniteSet(S) /\ IsFiniteSet(T) /\ Cardinality(S) \in Nat /\ Cardinality(T) \in Nat
  BY CellsFinite
<1>2. Cardinality(S \cup T) = Cardinality(S) + Cardinality(T) - Cardinality(S \cap T)
  BY <1>1, FS_Union
<1>3. Cardinality(S \cap T) = 0
  BY FS_EmptySet
<1> QED BY <1>1, <1>2, <1>3

\* A set of cells with no members, or with all that another one has.
LEMMA EmptyOrAll ==
    ASSUME NEW S \in SUBSET Cells, NEW T \in SUBSET S
    PROVE  /\ Cardinality(T) = 0 <=> T = {}
           /\ Cardinality(T) = Cardinality(S) <=> T = S
<1>1. IsFiniteSet(S) /\ IsFiniteSet(T)
  BY CellsFinite
<1> QED BY <1>1, FS_Subset, FS_EmptySet

\* The indices order the cells.
LEMMA Ordered ==
    ASSUME NEW c \in Cells, NEW d \in Cells, ~Before(c, d), ~Before(d, c)
    PROVE  c = d
<1>1. /\ c[1] \in Int /\ c[2] \in Int /\ d[1] \in Int /\ d[2] \in Int
      /\ c = <<c[1], c[2]>> /\ d = <<d[1], d[2]>>
  BY SizeAssumption DEF Cells
<1> QED BY <1>1 DEF Before

----------------------------------------------------------------------------
(* Counter and outcome *)

\* The inductive invariant of the rules.
RulesInv ==
    /\ TypeOK
    /\ OutcomeIsTrue
    /\ board.start \in Cells \ board.mines

\* What a region reveals is covered and safe, the opened cell first.
LEMMA RegionIsSafe ==
    ASSUME NEW v, NEW c \in CoveredSafe(v)
    PROVE  Region(v, c) \subseteq CoveredSafe(v) /\ c \in Region(v, c)
<1>1. CASE c \notin Zeros(v)
  BY <1>1 DEF Region
<1>2. CASE c \in Zeros(v)
  <2>1. Region(v, c) = {c} \cup ((UNION {Near(z) : z \in Opening(v, c)}) \cap CoveredSafe(v))
    BY <1>2 DEF Region
  <2> QED BY <2>1
<1> QED BY <1>1, <1>2

\* Cells opened in order are covered, and at most one is a mine, if any was asked for.
LEMMA OrderedOpening ==
    ASSUME NEW S \in SUBSET Covered(visibility)
    PROVE  /\ OpenInOrder(S) \subseteq Covered(visibility)
           /\ \A m, n \in OpenInOrder(S) \cap board.mines : m = n
           /\ S \cap board.mines = {} => OpenInOrder(S) \cap board.mines = {}
<1> DEFINE reached == {c \in S : \A m \in S \cap board.mines : ~Before(m, c)}
<1>1. \A c \in reached \ board.mines : c \in CoveredSafe(visibility)
  BY DEF CoveredSafe
<1>2. \A c \in reached \ board.mines : Region(visibility, c) \subseteq CoveredSafe(visibility)
  BY <1>1, RegionIsSafe
<1>3. OpenInOrder(S) \cap board.mines = reached \cap board.mines
      /\ OpenInOrder(S) \subseteq Covered(visibility)
  <2> DEFINE regions == UNION {Region(visibility, c) : c \in reached \ board.mines}
  <2>1. regions \subseteq CoveredSafe(visibility)
    BY <1>2
  <2>2. OpenInOrder(S) = regions \cup (reached \cap board.mines)
    BY DEF OpenInOrder
  <2> QED BY <2>1, <2>2 DEF CoveredSafe
<1>4. S \subseteq Cells
  BY DEF Covered
<1>5. \A m, n \in reached \cap board.mines : m = n
  BY <1>4, Ordered
<1> QED BY <1>3, <1>5

\* Opening covered cells, at most one of them a mine, keeps the invariant.
LEMMA OpenedKeeps ==
    ASSUME RulesInv, outcome = "PLAYING",
           NEW S \in SUBSET Covered(visibility),
           \A m, n \in S \cap board.mines : m = n,
           Opened(S), board' = board
    PROVE  /\ RulesInv'
           /\ Flagged(visibility)' \subseteq Flagged(visibility)
           /\ S \cap board.mines = {} => outcome' # "LOST"
<1> DEFINE open == Revealed(visibility)
           safe == S \ board.mines
<1>1. /\ S \subseteq Cells /\ open \subseteq Cells /\ S \cap open = {}
      /\ board.mines \subseteq Cells /\ revealedSafeCount \in Nat
  BY DEF Covered, Revealed, RulesInv, TypeOK
<1>2. visibility' \in [Cells -> {"HIDDEN", "REVEALED", "FLAGGED", "QUESTIONED"}]
  BY DEF Opened, Revealing, RulesInv, TypeOK
<1>3. Revealed(visibility)' = open \cup S
  BY <1>1 DEF Revealed, Opened, Revealing
<1>4. Flagged(visibility)' \subseteq Flagged(visibility)
  BY DEF Flagged, Opened, Revealing
<1>5. revealedSafeCount = Cardinality(open \ board.mines)
      /\ Cardinality(open \cap board.mines) = 0
  BY DEF RulesInv, OutcomeIsTrue
<1>6. open \cap board.mines = {}
  BY <1>1, <1>5, EmptyOrAll
<1>7. revealedSafeCount' = Cardinality((open \cup S) \ board.mines)
  <2>1. (open \cup S) \ board.mines = (open \ board.mines) \cup safe
    OBVIOUS
  <2>2. Cardinality((open \ board.mines) \cup safe) = Cardinality(open \ board.mines) + Cardinality(safe)
    BY <1>1, DisjointSizes
  <2> QED BY <2>1, <2>2, <1>5 DEF Opened
<1>8. revealedSafeCount' \in Nat
  BY <1>7, <1>1, CellsFinite
<1>9. Cardinality(Cells) - Cardinality(board.mines) = Cardinality(Cells \ board.mines)
  <2>1. Cells = board.mines \cup (Cells \ board.mines)
    BY <1>1
  <2>2. Cardinality(Cells) = Cardinality(board.mines) + Cardinality(Cells \ board.mines)
    BY <2>1, <1>1, DisjointSizes
  <2> QED BY <2>2, <1>1, CellsFinite
<1>10. CASE safe # S
  <2>1. PICK m \in S \cap board.mines : TRUE
    BY <1>10
  <2>2. (open \cup S) \cap board.mines = {m}
    BY <2>1, <1>6
  <2>3. outcome' = "LOST" /\ Cardinality((open \cup S) \cap board.mines) = 1
    BY <1>10, <2>2, FS_Singleton DEF Opened
  <2>4. OutcomeIsTrue'
    BY <2>3, <1>3, <1>7 DEF OutcomeIsTrue
  <2> QED BY <2>1, <2>3, <2>4, <1>2, <1>4, <1>8 DEF RulesInv, TypeOK
<1>11. CASE safe = S
  <2>1. (open \cup S) \cap board.mines = {}
    BY <1>11, <1>6
  <2>2. Cardinality((open \cup S) \cap board.mines) = 0
    BY <2>1, FS_EmptySet
  <2>3. outcome' = IF revealedSafeCount' = Cardinality(Cells \ board.mines) THEN "WON" ELSE "PLAYING"
    BY <1>11, <1>9 DEF Opened
  <2>4. revealedSafeCount' = Cardinality(Cells \ board.mines)
          <=> Cells \ board.mines = open \cup S
    <3>1. (open \cup S) \ board.mines \subseteq Cells \ board.mines
      BY <1>1
    <3>2. (open \cup S) \ board.mines = open \cup S
      BY <2>1
    <3>3. Cardinality(open \cup S) = Cardinality(Cells \ board.mines)
            <=> open \cup S = Cells \ board.mines
      <4>1. open \cup S \in SUBSET (Cells \ board.mines) /\ Cells \ board.mines \in SUBSET Cells
        BY <3>1, <3>2
      <4> QED BY <4>1, EmptyOrAll
    <3>4. revealedSafeCount' = Cardinality(open \cup S)
      BY <3>2, <1>7
    <3> QED BY <3>3, <3>4
  <2>5. OutcomeIsTrue'
    BY <2>2, <2>3, <2>4, <1>3, <1>7 DEF OutcomeIsTrue
  <2> QED BY <2>3, <2>5, <1>2, <1>4, <1>8 DEF RulesInv, TypeOK
<1> QED BY <1>10, <1>11

\* A new board has a start that is no mine, so it is not won yet.
LEMMA InitRules ==
    ASSUME Init
    PROVE  RulesInv
<1>1. PICK start \in Starts, r \in Radii, mines \in MineCounts :
          board \in Deal(start, r, mines)
  BY DEF Init
<1>2. board.start = start /\ board.mines \subseteq Candidates(start, r)
  BY <1>1 DEF Deal
<1>3. start \in Cells /\ r \in Nat
  BY DealAssumption DEF Cells
<1>4. start \notin Candidates(start, r)
  <2>1. start[1] \in Int /\ start[2] \in Int
    BY <1>3, SizeAssumption DEF Cells
  <2> QED BY <2>1, <1>3 DEF Candidates, Within
<1>5. board.mines \subseteq Cells /\ board.start \in Cells \ board.mines
  BY <1>2, <1>3, <1>4 DEF Candidates
<1>6. Revealed(visibility) = {}
  BY DEF Init, AllHidden, Revealed
<1>7. OutcomeIsTrue
  BY <1>5, <1>6, FS_EmptySet DEF OutcomeIsTrue, Init
<1> QED BY <1>5, <1>7 DEF RulesInv, TypeOK, Init, AllHidden

\* A mark leaves all that is open as it is.
LEMMA MarkKeeps ==
    ASSUME RulesInv, NEW c \in Cells, visibility[c] # "REVEALED",
           NEW m \in {"HIDDEN", "FLAGGED", "QUESTIONED"},
           visibility' = [visibility EXCEPT ![c] = m],
           UNCHANGED <<board, revealedSafeCount, outcome>>
    PROVE  RulesInv'
<1>1. Revealed(visibility)' = Revealed(visibility)
  BY DEF Revealed, RulesInv, TypeOK
<1>2. OutcomeIsTrue'
  BY <1>1 DEF OutcomeIsTrue, RulesInv
<1> QED BY <1>2 DEF RulesInv, TypeOK

\* An opening keeps the invariant, and flags no cell.
LEMMA RevealKeeps ==
    ASSUME RulesInv, NEW c \in Cells, RevealCell(c)
    PROVE  /\ RulesInv'
           /\ Flagged(visibility)' \subseteq Flagged(visibility)
           /\ c \notin board.mines => outcome' # "LOST"
<1> DEFINE S == IF c \in board.mines THEN {c} ELSE Region(visibility, c)
<1>1. outcome = "PLAYING" /\ c \in Covered(visibility) /\ Opened(S) /\ board' = board
  BY DEF RevealCell
<1>2. CASE c \in board.mines
  BY <1>1, <1>2, OpenedKeeps
<1>3. CASE c \notin board.mines
  <2>1. S \subseteq Covered(visibility) /\ S \cap board.mines = {}
    BY <1>1, <1>3, RegionIsSafe DEF CoveredSafe
  <2> QED BY <1>1, <2>1, <1>3, OpenedKeeps
<1> QED BY <1>2, <1>3

\* The invariant is inductive.
LEMMA NextRules ==
    ASSUME RulesInv, [Next]_vars
    PROVE  RulesInv'
<1>1. ASSUME NEW c \in Cells, RevealCell(c) PROVE RulesInv'
  BY <1>1, RevealKeeps
<1>2. ASSUME NEW c \in Cells, ToggleFlag(c) PROVE RulesInv'
  BY <1>2, MarkKeeps DEF ToggleFlag, Mark
<1>3. ASSUME NEW c \in Cells, CycleCellMark(c) PROVE RulesInv'
  <2>1. visibility[c] \in {"HIDDEN", "FLAGGED", "QUESTIONED"}
    BY <1>3 DEF CycleCellMark, RulesInv, TypeOK
  <2> QED BY <1>3, <2>1, MarkKeeps DEF CycleCellMark, Mark
<1>4. ASSUME NEW c \in Cells, ChordCell(c) PROVE RulesInv'
  <2>1. HiddenNeighbors(c) \subseteq Covered(visibility)
    BY DEF HiddenNeighbors
  <2> QED BY <1>4, <2>1, OrderedOpening, OpenedKeeps DEF ChordCell
<1>5. CASE UNCHANGED vars
  BY <1>5 DEF RulesInv, TypeOK, OutcomeIsTrue, vars, Revealed
<1> QED BY <1>1, <1>2, <1>3, <1>4, <1>5 DEF Next

\* Whatever is opened, marked and chorded, the counter is the number of safe cells
\* open, a board is lost with its one mine and won exactly with its last safe cell.
THEOREM OutcomesAreTrue == Spec => []OutcomeIsTrue
<1>1. Init => RulesInv
  BY InitRules
<1>2. RulesInv /\ [Next]_vars => RulesInv'
  BY NextRules
<1>3. RulesInv => OutcomeIsTrue
  BY DEF RulesInv
<1> QED BY <1>1, <1>2, <1>3, PTL DEF Spec

----------------------------------------------------------------------------
(* Deductions *)

\* On a board that is played and whose flags are right, a clue tells the truth
\* about the covered cells next to it.
LEMMA CluesAreTrue ==
    ASSUME RulesInv, outcome = "PLAYING", Flagged(visibility) \subseteq board.mines,
           NEW c \in Cells
    PROVE  Cardinality(Unknown(c) \cap board.mines) = Remaining(c)
<1> DEFINE flags == Near(c) \cap Flagged(visibility)
           others == Unknown(c) \cap board.mines
<1>1. Revealed(visibility) \cap board.mines = {}
  <2>1. Revealed(visibility) \cap board.mines \subseteq Cells
    BY DEF Revealed
  <2>2. Cardinality(Revealed(visibility) \cap board.mines) = 0
    BY DEF RulesInv, OutcomeIsTrue
  <2> QED BY <2>1, <2>2, EmptyOrAll
<1>2. Near(c) \subseteq Cells
  BY DEF Near
<1>3. Near(c) \cap board.mines = flags \cup others /\ flags \cap others = {}
  <2>1. \A d \in Cells : d \in Revealed(visibility) \/ d \in Flagged(visibility)
                           \/ d \in Covered(visibility)
    BY DEF Revealed, Flagged, Covered, RulesInv, TypeOK
  <2>2. Flagged(visibility) \cap Covered(visibility) = {}
    BY DEF Flagged, Covered
  <2> QED BY <1>1, <1>2, <2>1, <2>2 DEF Unknown
<1>4. flags \subseteq Cells /\ others \subseteq Cells
  BY <1>2 DEF Unknown
<1>5. Adjacent(c) = Cardinality(flags) + Cardinality(others)
  BY <1>3, <1>4, DisjointSizes DEF Adjacent
<1>6. Cardinality(flags) \in Nat /\ Cardinality(others) \in Nat
  BY <1>4, CellsFinite
<1> QED BY <1>5, <1>6 DEF Remaining

\* What a set of constraints claims of the mines holds when they are those of M.
TrueConstraints(C, M) ==
    \A k \in C : k.cells \subseteq Cells /\ k.mines = Cardinality(k.cells \cap M)

\* No mine, or nothing but mines, by the numbers.
LEMMA AllOrNone ==
    ASSUME NEW S \in SUBSET Cells, NEW M
    PROVE  /\ Cardinality(S \cap M) = 0 => S \cap M = {}
           /\ Cardinality(S \cap M) = Cardinality(S) => S \subseteq M
<1>1. S \cap M \in SUBSET S
  OBVIOUS
<1>2. /\ Cardinality(S \cap M) = 0 <=> S \cap M = {}
      /\ Cardinality(S \cap M) = Cardinality(S) <=> S \cap M = S
  BY <1>1, EmptyOrAll
<1> QED BY <1>2

\* Deductions from true constraints are true, from one as from two.
LEMMA DeductionsAreTrue ==
    ASSUME NEW C, NEW M, TrueConstraints(C, M), NEW d \in Deductions(C)
    PROVE  /\ d.targets \subseteq UNION {k.cells : k \in C}
           /\ d.kind = "SAFE" => d.targets \cap M = {}
           /\ d.kind = "MINE" => d.targets \subseteq M
           /\ d.kind \in {"SAFE", "MINE"}
<1>1. ASSUME NEW k \in C, k.mines = 0, d = Deduced("SAFE", <<k.source>>, k.cells)
      PROVE  d.kind = "SAFE" /\ d.targets = k.cells /\ d.targets \cap M = {}
  <2>1. k.cells \in SUBSET Cells /\ Cardinality(k.cells \cap M) = 0
    BY <1>1 DEF TrueConstraints
  <2>2. k.cells \cap M = {}
    BY <2>1, AllOrNone
  <2> QED BY <1>1, <2>2 DEF Deduced
<1>2. ASSUME NEW k \in C, k.mines = Cardinality(k.cells),
             d = Deduced("MINE", <<k.source>>, k.cells)
      PROVE  d.kind = "MINE" /\ d.targets = k.cells /\ d.targets \subseteq M
  <2>1. k.cells \in SUBSET Cells /\ Cardinality(k.cells \cap M) = Cardinality(k.cells)
    BY <1>2 DEF TrueConstraints
  <2>2. k.cells \subseteq M
    BY <2>1, AllOrNone
  <2> QED BY <1>2, <2>2 DEF Deduced
<1>3. ASSUME NEW s \in C, NEW t \in C, s.cells \subseteq t.cells
      PROVE  /\ t.mines = s.mines => (t.cells \ s.cells) \cap M = {}
             /\ t.mines - s.mines = Cardinality(t.cells \ s.cells)
                  => t.cells \ s.cells \subseteq M
  <2> DEFINE more == t.cells \ s.cells
  <2>1. s.cells \subseteq Cells /\ t.cells \subseteq Cells /\ more \subseteq Cells
    BY DEF TrueConstraints
  <2>2. t.cells \cap M = (s.cells \cap M) \cup (more \cap M)
    BY <1>3
  <2>3. Cardinality(t.cells \cap M)
          = Cardinality(s.cells \cap M) + Cardinality(more \cap M)
    <3>1. s.cells \cap M \in SUBSET Cells /\ more \cap M \in SUBSET Cells
          /\ (s.cells \cap M) \cap (more \cap M) = {}
      BY <2>1
    <3> QED BY <3>1, <2>2, DisjointSizes
  <2>4. /\ Cardinality(s.cells \cap M) \in Nat
        /\ Cardinality(more \cap M) \in Nat
    <3>1. s.cells \cap M \in SUBSET Cells /\ more \cap M \in SUBSET Cells
      BY <2>1
    <3> QED BY <3>1, CellsFinite
  <2>5. t.mines = s.mines + Cardinality(more \cap M) /\ s.mines \in Nat
    BY <2>3, <2>4 DEF TrueConstraints
  <2>6. /\ Cardinality(more \cap M) = 0 => more \cap M = {}
        /\ Cardinality(more \cap M) = Cardinality(more) => more \subseteq M
    <3> HIDE DEF more
    <3> QED BY <2>1, AllOrNone
  <2> QED BY <2>4, <2>5, <2>6
<1>4. ASSUME NEW p \in Nested(C), p[2].mines = p[1].mines,
             d = Deduced("SAFE", <<p[1].source, p[2].source>>, p[2].cells \ p[1].cells)
      PROVE  d.kind = "SAFE" /\ d.targets \subseteq p[2].cells /\ p[2] \in C
             /\ d.targets \cap M = {}
  BY <1>3, <1>4 DEF Nested, Deduced
<1>5. ASSUME NEW p \in Nested(C), p[2].mines - p[1].mines = Cardinality(p[2].cells \ p[1].cells),
             d = Deduced("MINE", <<p[1].source, p[2].source>>, p[2].cells \ p[1].cells)
      PROVE  d.kind = "MINE" /\ d.targets \subseteq p[2].cells /\ p[2] \in C
             /\ d.targets \subseteq M
  BY <1>3, <1>5 DEF Nested, Deduced
<1>6. CASE d \in Singles(C)
  <2>1. \/ \E k \in C : k.mines = 0 /\ d = Deduced("SAFE", <<k.source>>, k.cells)
        \/ \E k \in C : k.mines = Cardinality(k.cells)
                         /\ d = Deduced("MINE", <<k.source>>, k.cells)
    BY <1>6 DEF Singles
  <2>2. CASE \E k \in C : k.mines = 0 /\ d = Deduced("SAFE", <<k.source>>, k.cells)
    BY <2>2, <1>1
  <2>3. CASE \E k \in C : k.mines = Cardinality(k.cells)
                          /\ d = Deduced("MINE", <<k.source>>, k.cells)
    BY <2>3, <1>2
  <2> QED BY <2>1, <2>2, <2>3
<1>7. CASE d \in Subsets(C)
  <2>1. \/ \E p \in Nested(C) : p[2].mines = p[1].mines
             /\ d = Deduced("SAFE", <<p[1].source, p[2].source>>, p[2].cells \ p[1].cells)
        \/ \E p \in Nested(C) : p[2].mines - p[1].mines = Cardinality(p[2].cells \ p[1].cells)
             /\ d = Deduced("MINE", <<p[1].source, p[2].source>>, p[2].cells \ p[1].cells)
    BY <1>7 DEF Subsets
  <2>2. CASE \E p \in Nested(C) : p[2].mines = p[1].mines
             /\ d = Deduced("SAFE", <<p[1].source, p[2].source>>, p[2].cells \ p[1].cells)
    BY <2>2, <1>4
  <2>3. CASE \E p \in Nested(C) : p[2].mines - p[1].mines = Cardinality(p[2].cells \ p[1].cells)
             /\ d = Deduced("MINE", <<p[1].source, p[2].source>>, p[2].cells \ p[1].cells)
    BY <2>3, <1>5
  <2> QED BY <2>1, <2>2, <2>3
<1> QED BY <1>6, <1>7 DEF Deductions

\* The constraints of a board that is played with right flags are true.
LEMMA ConstraintsAreTrue ==
    ASSUME RulesInv, outcome = "PLAYING", Flagged(visibility) \subseteq board.mines
    PROVE  TrueConstraints(Constraints, board.mines)
           /\ UNION {k.cells : k \in Constraints} \subseteq Covered(visibility)
<1>1. ASSUME NEW k \in Constraints
      PROVE  /\ k.cells \subseteq Covered(visibility)
             /\ k.mines = Cardinality(k.cells \cap board.mines)
  <2>1. PICK c \in Sources : k = [source |-> c, cells |-> Unknown(c), mines |-> Remaining(c)]
    BY <1>1 DEF Constraints
  <2>2. c \in Cells
    BY DEF Sources, Revealed
  <2>3. Remaining(c) = Cardinality(Unknown(c) \cap board.mines)
    BY <2>2, CluesAreTrue
  <2> QED BY <2>1, <2>3 DEF Unknown
<1>2. Covered(visibility) \subseteq Cells
  BY DEF Covered
<1> QED BY <1>1, <1>2 DEF TrueConstraints

\* isProvablySafeCell is right whenever the flags are: it calls no mine safe, in
\* any state of any play.
THEOREM ProvablySafeIsSafe ==
    Spec => [](Flagged(visibility) \subseteq board.mines
                 => \A c \in board.mines : ~ProvablySafe(c))
<1>1. ASSUME RulesInv, Flagged(visibility) \subseteq board.mines,
             NEW c \in board.mines, ProvablySafe(c)
      PROVE  FALSE
  <2>1. TrueConstraints(Constraints, board.mines)
    BY <1>1, ConstraintsAreTrue DEF ProvablySafe
  <2>2. PICK k \in Constraints :
          /\ c \in k.cells
          /\ \/ k.mines = 0
             \/ \E s \in Constraints :
                  <<s, k>> \in Nested(Constraints) /\ c \notin s.cells /\ k.mines = s.mines
    BY <1>1 DEF ProvablySafe
  <2>3. CASE k.mines = 0
    <3> DEFINE d == Deduced("SAFE", <<k.source>>, k.cells)
    <3>1. d \in Deductions(Constraints)
      BY <2>3 DEF Deductions, Singles
    <3>2. d.kind = "SAFE" /\ d.targets = k.cells
      BY DEF Deduced
    <3>3. d.targets \cap board.mines = {}
      BY <3>1, <3>2, <2>1, DeductionsAreTrue
    <3> QED BY <3>2, <3>3, <2>2, <1>1
  <2>4. ASSUME NEW s \in Constraints, <<s, k>> \in Nested(Constraints),
               c \notin s.cells, k.mines = s.mines
        PROVE  FALSE
    <3> DEFINE d == Deduced("SAFE", <<s.source, k.source>>, k.cells \ s.cells)
    <3>1. d \in Subsets(Constraints)
      <4> DEFINE p == <<s, k>>
      <4>1. p \in Nested(Constraints) /\ p[2].mines = p[1].mines
        BY <2>4
      <4>2. d = Deduced("SAFE", <<p[1].source, p[2].source>>, p[2].cells \ p[1].cells)
        OBVIOUS
      <4> QED BY <4>1, <4>2 DEF Subsets
    <3>2. d.kind = "SAFE" /\ d.targets = k.cells \ s.cells
      BY DEF Deduced
    <3>3. d.targets \cap board.mines = {}
      BY <3>1, <3>2, <2>1, DeductionsAreTrue DEF Deductions
    <3> QED BY <3>2, <3>3, <2>2, <2>4, <1>1
  <2> QED BY <2>2, <2>3, <2>4
<1>2. RulesInv => (Flagged(visibility) \subseteq board.mines
                     => \A c \in board.mines : ~ProvablySafe(c))
  BY <1>1
<1>3. Init => RulesInv
  BY InitRules
<1>4. RulesInv /\ [Next]_vars => RulesInv'
  BY NextRules
<1> QED BY <1>2, <1>3, <1>4, PTL DEF Spec

----------------------------------------------------------------------------
(* The solver *)

SolverInv == RulesInv /\ (player = "SOLVER" => outcome # "LOST" /\ Flagged(visibility) \subseteq board.mines)

\* It holds before the first turn.
LEMMA InitSolver == PlayInit => SolverInv
<1>1. ASSUME Init PROVE outcome # "LOST" /\ Flagged(visibility) \subseteq board.mines
  BY <1>1 DEF Init, Flagged, AllHidden
<1> QED BY <1>1, InitRules DEF SolverInv, PlayInit

\* A turn of the solver opens what is safe and flags what is mined.
LEMMA SolverStepKeeps ==
    ASSUME RulesInv, Flagged(visibility) \subseteq board.mines, SolverStep
    PROVE  RulesInv' /\ outcome' # "LOST" /\ Flagged(visibility)' \subseteq board'.mines
<1>1. RulesInv /\ outcome = "PLAYING" /\ Flagged(visibility) \subseteq board.mines
  BY DEF SolverStep
<1>2. PICK d \in Deductions(Constraints) :
        IF d.kind = "SAFE"
        THEN Opened(OpenInOrder(d.targets))
        ELSE /\ visibility' = [c \in Cells |->
                    IF c \in d.targets THEN "FLAGGED" ELSE visibility[c]]
             /\ UNCHANGED <<revealedSafeCount, outcome>>
  BY DEF SolverStep
<1>3. board' = board
  BY DEF SolverStep
<1>4. /\ d.targets \subseteq Covered(visibility)
      /\ d.kind = "SAFE" => d.targets \cap board.mines = {}
      /\ d.kind = "MINE" => d.targets \subseteq board.mines
      /\ d.kind \in {"SAFE", "MINE"}
  BY <1>1, ConstraintsAreTrue, DeductionsAreTrue
<1>5. CASE d.kind = "SAFE"
  <2>1. Opened(OpenInOrder(d.targets))
    BY <1>2, <1>5
  <2>2. /\ OpenInOrder(d.targets) \subseteq Covered(visibility)
        /\ OpenInOrder(d.targets) \cap board.mines = {}
    BY <1>4, <1>5, OrderedOpening
  <2>3. RulesInv' /\ Flagged(visibility)' \subseteq Flagged(visibility) /\ outcome' # "LOST"
    BY <1>1, <1>3, <2>1, <2>2, OpenedKeeps
  <2> QED BY <1>1, <1>3, <2>3
<1>6. CASE d.kind = "MINE"
  <2>1. visibility' = [c \in Cells |-> IF c \in d.targets THEN "FLAGGED" ELSE visibility[c]]
        /\ UNCHANGED <<revealedSafeCount, outcome>>
    BY <1>2, <1>6
  <2>2. Flagged(visibility)' \subseteq board'.mines
    BY <1>1, <1>3, <1>4, <1>6, <2>1 DEF Flagged
  <2>3. Revealed(visibility)' = Revealed(visibility)
    BY <1>4, <2>1 DEF Revealed, Covered
  <2>4. visibility' \in [Cells -> {"HIDDEN", "REVEALED", "FLAGGED", "QUESTIONED"}]
    BY <1>1, <2>1 DEF RulesInv, TypeOK
  <2>5. OutcomeIsTrue'
    BY <1>1, <1>3, <2>1, <2>3 DEF OutcomeIsTrue, RulesInv
  <2> QED BY <1>1, <1>3, <2>1, <2>2, <2>4, <2>5 DEF RulesInv, TypeOK
<1> QED BY <1>4, <1>5, <1>6

\* What a game of either player keeps: the solver plays by the rules too.
LEMMA PlayKeeps ==
    ASSUME SolverInv, [Play]_<<vars, player>>
    PROVE  SolverInv'
<1>1. CASE player = "PERSON" /\ Next /\ UNCHANGED player
  <2>1. RulesInv'
    BY <1>1, NextRules DEF SolverInv
  <2> QED BY <1>1, <2>1 DEF SolverInv
<1>2. CASE player = "SOLVER" /\ SolverBegin /\ UNCHANGED player
  <2>1. /\ RulesInv /\ board.start \in Cells /\ board.start \notin board.mines
        /\ RevealCell(board.start) /\ board' = board
        /\ Flagged(visibility) \subseteq board.mines
    BY <1>2 DEF SolverInv, RulesInv, SolverBegin, RevealCell
  <2>2. RulesInv' /\ Flagged(visibility)' \subseteq Flagged(visibility) /\ outcome' # "LOST"
    BY <2>1, RevealKeeps
  <2> QED BY <2>1, <2>2 DEF SolverInv
<1>3. CASE player = "SOLVER" /\ SolverStep /\ UNCHANGED player
  <2>1. RulesInv /\ Flagged(visibility) \subseteq board.mines
    BY <1>3 DEF SolverInv
  <2>2. RulesInv' /\ outcome' # "LOST" /\ Flagged(visibility)' \subseteq board'.mines
    BY <1>3, <2>1, SolverStepKeeps
  <2> QED BY <2>2 DEF SolverInv
<1>4. CASE UNCHANGED <<vars, player>>
  BY <1>4 DEF SolverInv, RulesInv, TypeOK, OutcomeIsTrue, vars, Revealed, Flagged
<1> QED BY <1>1, <1>2, <1>3, <1>4 DEF Play

\* The solver never opens a mine and never flags a safe cell, on boards of any size
\* and with any choice among its deductions: a certified board needs no guess.
THEOREM SolverNeverGuesses == PlaySpec => []SolverIsSafe
<1>1. PlayInit => SolverInv
  BY InitSolver
<1>2. SolverInv /\ [Play]_<<vars, player>> => SolverInv'
  BY PlayKeeps
<1>3. SolverInv => SolverIsSafe
  BY DEF SolverInv, SolverIsSafe
<1> QED BY <1>1, <1>2, <1>3, PTL DEF PlaySpec

----------------------------------------------------------------------------
(* The complete analysis *)

\* Sets of numbers have a least one.
LEMMA LeastOf ==
    ASSUME NEW S \in SUBSET Nat, S # {}
    PROVE  \E m \in S : \A n \in S : ~(n < m)
<1>1. PICK m \in S : \A y \in S : ~(<<y, m>> \in OpToRel(<, Nat))
  BY NatLessThanWellFounded, WFMin, Zenon
<1> QED BY <1>1 DEF OpToRel

\* Between a set of cells and a larger one lie sets of every size between theirs.
LEMMA SizesBetween ==
    ASSUME NEW E \in SUBSET Cells, NEW A \in SUBSET E, NEW n \in Nat,
           Cardinality(A) <= n, n <= Cardinality(E)
    PROVE  \E T \in SUBSET E : A \subseteq T /\ Cardinality(T) = n
<1> DEFINE Has(m) == \E T \in SUBSET E : A \subseteq T /\ Cardinality(T) = m
           Bad == {m \in Nat : Cardinality(A) <= m /\ m <= Cardinality(E) /\ ~Has(m)}
<1> SUFFICES ASSUME Bad # {} PROVE FALSE
  OBVIOUS
<1>1. PICK m \in Bad : \A k \in Bad : ~(k < m)
  <2>1. Bad \in SUBSET Nat
    OBVIOUS
  <2> HIDE DEF Bad
  <2> QED BY <2>1, LeastOf, Zenon
<1>2. Cardinality(A) \in Nat /\ Cardinality(E) \in Nat
  BY CellsFinite
<1>3. m # Cardinality(A)
  BY <1>1
<1>4. m - 1 \in Nat /\ Cardinality(A) <= m - 1 /\ m - 1 <= Cardinality(E) /\ m - 1 < m
  BY <1>1, <1>2, <1>3
<1>5. Has(m - 1)
  BY <1>1, <1>4
<1>6. PICK T \in SUBSET E : A \subseteq T /\ Cardinality(T) = m - 1
  BY <1>5
<1>7. PICK x \in E : x \notin T
  <2>1. T # E
    BY <1>1, <1>2, <1>4, <1>6
  <2> QED BY <2>1
<1>8. Cardinality(T \cup {x}) = m
  <2>1. IsFiniteSet(T)
    BY CellsFinite
  <2>2. Cardinality(T \cup {x}) = Cardinality(T) + 1
    BY <2>1, <1>7, FS_AddElement
  <2> QED BY <2>2, <1>1, <1>6
<1>9. Has(m)
  <2>1. T \cup {x} \in SUBSET E /\ A \subseteq T \cup {x}
    BY <1>6, <1>7
  <2> QED BY <2>1, <1>8
<1> QED BY <1>1, <1>9

\* What the analysis works with when the mines of P were proved before.
Frontier(P) == UNION {k.cells : k \in VisibleConstraints(P)}
Free(P) == Hidden(P) \ Frontier(P)
Total(P) == Cardinality(board.mines) - Cardinality(P)
Placements(P) == Solutions(VisibleConstraints(P), Frontier(P), Free(P), Total(P))
Rest(P, c) == Near(c) \ (Revealed(visibility) \cup P)

\* A board on which no mine is open, and mines on it that are flagged.
Proven(P) ==
    /\ board.mines \subseteq Cells /\ Revealed(visibility) \cap board.mines = {}
    /\ P \subseteq Flagged(visibility) \cap board.mines

\* A constraint is what a clue with unknown neighbours says of them.
LEMMA ConstraintsFit ==
    ASSUME NEW P
    PROVE  /\ \A k \in VisibleConstraints(P) :
                 \E c \in Revealed(visibility) :
                   k.cells = Rest(P, c)
                     /\ k.mines = Adjacent(c) - Cardinality(Near(c) \cap P)
           /\ \A c \in Revealed(visibility) :
                 Rest(P, c) # {} =>
                   \E k \in VisibleConstraints(P) :
                     k.cells = Rest(P, c)
                       /\ k.mines = Adjacent(c) - Cardinality(Near(c) \cap P)
<1>1. VisibleConstraints(P) =
        {[source |-> c, cells |-> Rest(P, c), mines |-> Adjacent(c) - Cardinality(Near(c) \cap P)] :
           c \in {c \in Revealed(visibility) : Rest(P, c) # {}}}
  BY DEF VisibleConstraints, Rest
<1>2. ASSUME NEW k \in VisibleConstraints(P)
      PROVE  \E c \in Revealed(visibility) :
               k.cells = Rest(P, c) /\ k.mines = Adjacent(c) - Cardinality(Near(c) \cap P)
  <2>1. PICK c \in Revealed(visibility) :
          k = [source |-> c, cells |-> Rest(P, c),
               mines |-> Adjacent(c) - Cardinality(Near(c) \cap P)]
    BY <1>1
  <2>2. k.cells = Rest(P, c) /\ k.mines = Adjacent(c) - Cardinality(Near(c) \cap P)
    BY <2>1
  <2> QED BY <2>2
<1>3. ASSUME NEW c \in Revealed(visibility), Rest(P, c) # {}
      PROVE  \E k \in VisibleConstraints(P) :
               k.cells = Rest(P, c) /\ k.mines = Adjacent(c) - Cardinality(Near(c) \cap P)
  <2> DEFINE k == [source |-> c, cells |-> Rest(P, c),
                   mines |-> Adjacent(c) - Cardinality(Near(c) \cap P)]
  <2>1. k \in VisibleConstraints(P)
    BY <1>1, <1>3
  <2>2. k.cells = Rest(P, c) /\ k.mines = Adjacent(c) - Cardinality(Near(c) \cap P)
    OBVIOUS
  <2> HIDE DEF k
  <2> QED BY <2>1, <2>2
<1> QED BY <1>2, <1>3

\* Mines that could be the board's: none is open and the proven ones are among them.
Possible(P, M) == M \cap Revealed(visibility) = {} /\ P \subseteq M

\* Where the cells of the analysis lie.
LEMMA PartsFit ==
    ASSUME NEW P, Proven(P)
    PROVE  /\ P \in SUBSET Cells /\ Revealed(visibility) \in SUBSET Cells
           /\ P \cap Revealed(visibility) = {}
           /\ Hidden(P) = Cells \ (Revealed(visibility) \cup P)
           /\ Hidden(P) \in SUBSET Cells /\ Frontier(P) \in SUBSET Hidden(P)
           /\ Free(P) \in SUBSET Hidden(P) /\ Hidden(P) = Frontier(P) \cup Free(P)
           /\ Frontier(P) \cap Free(P) = {}
           /\ \A c : Near(c) \in SUBSET Cells
<1>1. \A c : Near(c) \in SUBSET Cells
  BY DEF Near
<1>2. P \in SUBSET Cells /\ Revealed(visibility) \in SUBSET Cells /\ P \cap Revealed(visibility) = {}
  BY DEF Proven, Revealed
<1>3. Hidden(P) = Cells \ (Revealed(visibility) \cup P)
  BY DEF Hidden
<1>4. \A k \in VisibleConstraints(P) : k.cells \subseteq Hidden(P)
  <2> TAKE k \in VisibleConstraints(P)
  <2>1. PICK c \in Revealed(visibility) : k.cells = Rest(P, c)
    BY ConstraintsFit
  <2> QED BY <1>1, <1>3, <2>1 DEF Rest
<1>5. Frontier(P) \in SUBSET Hidden(P)
  BY <1>4 DEF Frontier
<1> QED BY <1>1, <1>2, <1>3, <1>5 DEF Free

\* What a clue counts: the proven mines next to it and the others.
LEMMA ClueSplits ==
    ASSUME NEW P, Proven(P), NEW c, NEW M, Possible(P, M)
    PROVE  Cardinality(Near(c) \cap M) = Cardinality(Near(c) \cap P) + Cardinality(Rest(P, c) \cap M)
<1>1. Near(c) \in SUBSET Cells /\ P \in SUBSET Cells
  BY PartsFit
<1>2. PICK R : R = Rest(P, c) \cap M
  OBVIOUS
<1>3. PICK Q : Q = Near(c) \cap P
  OBVIOUS
<1>4. /\ Near(c) \cap M = Q \cup R /\ Q \cap R = {}
      /\ Q \in SUBSET Cells /\ R \in SUBSET Cells
  BY <1>1, <1>2, <1>3 DEF Rest, Possible
<1> QED BY <1>2, <1>3, <1>4, DisjointSizes

\* On every board that looks the same the constraints are true, its mines on the
\* frontier are one of the placements, and the others are on the free cells.
LEMMA WorldsFit ==
    ASSUME NEW P, Proven(P), NEW M \in Worlds(P)
    PROVE  /\ TrueConstraints(VisibleConstraints(P), M)
           /\ M \cap Frontier(P) \in Placements(P)
           /\ Cardinality(M \cap Free(P)) = Total(P) - Cardinality(M \cap Frontier(P))
           /\ Cardinality(M \cap Hidden(P)) = Total(P)
<1>1. /\ M \in SUBSET (Cells \ Revealed(visibility)) /\ P \subseteq M
      /\ Cardinality(M) = Cardinality(board.mines)
      /\ \A c \in Revealed(visibility) : Cardinality(Near(c) \cap M) = Adjacent(c)
  BY DEF Worlds
<1>2. ASSUME NEW k \in VisibleConstraints(P)
      PROVE  k.cells \subseteq Cells /\ k.cells \subseteq Frontier(P)
               /\ k.mines = Cardinality(k.cells \cap M)
  <2>1. PICK c \in Revealed(visibility) :
          k.cells = Rest(P, c) /\ k.mines = Adjacent(c) - Cardinality(Near(c) \cap P)
    BY ConstraintsFit
  <2>2. Adjacent(c) = Cardinality(Near(c) \cap P) + Cardinality(Rest(P, c) \cap M)
    <3>1. Cardinality(Near(c) \cap M) = Cardinality(Near(c) \cap P) + Cardinality(Rest(P, c) \cap M)
      <4>1. Possible(P, M)
        BY <1>1 DEF Possible
      <4> QED BY <4>1, ClueSplits
    <3> QED BY <1>1, <3>1
  <2>3. Near(c) \cap P \in SUBSET Cells /\ Rest(P, c) \in SUBSET Cells
        /\ Rest(P, c) \cap M \in SUBSET Cells
    BY PartsFit DEF Rest
  <2>4. Cardinality(Near(c) \cap P) \in Nat /\ Cardinality(Rest(P, c) \cap M) \in Nat
    BY <2>3, CellsFinite
  <2>5. k.mines = Cardinality(Rest(P, c) \cap M)
    BY <2>1, <2>2, <2>4
  <2> QED BY <2>1, <2>3, <2>5 DEF Frontier
<1>3. PICK S : S = M \cap Frontier(P)
  OBVIOUS
<1>4. PICK T : T = M \cap Free(P)
  OBVIOUS
<1>5. PICK H : H = M \cap Hidden(P)
  OBVIOUS
<1>6. /\ S \in SUBSET Frontier(P) /\ T \in SUBSET Free(P)
      /\ S \in SUBSET Cells /\ T \in SUBSET Cells /\ H \in SUBSET Cells /\ P \in SUBSET Cells
      /\ Free(P) \in SUBSET Cells
      /\ H = S \cup T /\ S \cap T = {} /\ M = H \cup P /\ H \cap P = {}
  BY <1>1, <1>3, <1>4, <1>5, PartsFit
<1>7. /\ Cardinality(S) \in Nat /\ Cardinality(T) \in Nat /\ Cardinality(H) \in Nat
      /\ Cardinality(P) \in Nat /\ Cardinality(Free(P)) \in Nat
  BY <1>6, CellsFinite
<1>8. Cardinality(H) = Cardinality(S) + Cardinality(T)
      /\ Cardinality(M) = Cardinality(H) + Cardinality(P)
  BY <1>6, DisjointSizes
<1>9. Cardinality(T) <= Cardinality(Free(P))
  <2>1. IsFiniteSet(Free(P))
    BY <1>6, CellsFinite
  <2> QED BY <2>1, <1>6, FS_Subset
<1>10. Cardinality(H) = Total(P) /\ Cardinality(T) = Total(P) - Cardinality(S)
  BY <1>1, <1>7, <1>8 DEF Total
<1>11. Cardinality(S) <= Total(P) /\ Total(P) <= Cardinality(S) + Cardinality(Free(P))
  BY <1>7, <1>8, <1>9, <1>10
<1>12. \A k \in VisibleConstraints(P) : Cardinality(S \cap k.cells) = k.mines
  <2> TAKE k \in VisibleConstraints(P)
  <2>1. S \cap k.cells = k.cells \cap M
    BY <1>2, <1>3
  <2> QED BY <2>1, <1>2
<1>13. S \in Placements(P)
  BY <1>6, <1>11, <1>12 DEF Placements, Solutions
<1> QED BY <1>2, <1>3, <1>4, <1>5, <1>10, <1>13 DEF TrueConstraints

\* A placement, the proven mines and the mines that are left on any of the free
\* cells make a board that looks the same.
LEMMA PlacementsFit ==
    ASSUME NEW P, Proven(P), NEW S \in Placements(P), NEW T \in SUBSET Free(P),
           Cardinality(T) = Total(P) - Cardinality(S)
    PROVE  P \cup S \cup T \in Worlds(P)
<1>1. PICK H : H = S \cup T
  OBVIOUS
<1>2. PICK M : M = H \cup P
  OBVIOUS
<1>3. S \in SUBSET Frontier(P)
      /\ \A k \in VisibleConstraints(P) : Cardinality(S \cap k.cells) = k.mines
  BY DEF Placements, Solutions
<1>4. /\ S \in SUBSET Cells /\ T \in SUBSET Cells /\ P \in SUBSET Cells /\ H \in SUBSET Cells
      /\ H \subseteq Hidden(P) /\ S \cap T = {} /\ H \cap P = {}
      /\ M \in SUBSET (Cells \ Revealed(visibility)) /\ P \subseteq M
  BY <1>1, <1>2, <1>3, PartsFit
<1>5. Cardinality(M) = Cardinality(board.mines)
  <2>1. Cardinality(H) = Cardinality(S) + Cardinality(T)
        /\ Cardinality(M) = Cardinality(H) + Cardinality(P)
    BY <1>1, <1>2, <1>4, DisjointSizes
  <2>2. /\ Cardinality(S) \in Nat /\ Cardinality(T) \in Nat /\ Cardinality(P) \in Nat
        /\ Cardinality(board.mines) \in Nat
    BY <1>4, CellsFinite DEF Proven
  <2> QED BY <2>1, <2>2 DEF Total
<1>6. ASSUME NEW c \in Revealed(visibility)
      PROVE  Cardinality(Near(c) \cap M) = Adjacent(c)
  <2>1. Cardinality(Near(c) \cap M) = Cardinality(Near(c) \cap P) + Cardinality(Rest(P, c) \cap M)
    <3>1. Possible(P, M)
      BY <1>4 DEF Possible
    <3> QED BY <3>1, ClueSplits
  <2>2. Near(c) \cap P \in SUBSET Cells /\ Near(c) \cap board.mines \in SUBSET Cells
    BY PartsFit DEF Proven
  <2>3. Cardinality(Near(c) \cap P) \in Nat /\ Adjacent(c) \in Nat
    BY <2>2, CellsFinite DEF Adjacent
  <2>4. CASE Rest(P, c) = {}
    <3>1. Possible(P, board.mines)
      BY DEF Proven, Possible
    <3>2. Adjacent(c) = Cardinality(Near(c) \cap P) + Cardinality(Rest(P, c) \cap board.mines)
      <4>1. Cardinality(Near(c) \cap board.mines)
              = Cardinality(Near(c) \cap P) + Cardinality(Rest(P, c) \cap board.mines)
        BY <3>1, ClueSplits
      <4> QED BY <4>1 DEF Adjacent
    <3>3. Rest(P, c) \cap board.mines = Rest(P, c) \cap M
      BY <2>4
    <3> QED BY <2>1, <3>2, <3>3
  <2>5. CASE Rest(P, c) # {}
    <3>1. PICK k \in VisibleConstraints(P) :
            k.cells = Rest(P, c) /\ k.mines = Adjacent(c) - Cardinality(Near(c) \cap P)
      BY <2>5, ConstraintsFit
    <3>2. k.cells \subseteq Frontier(P)
      BY DEF Frontier
    <3>3. Rest(P, c) \cap M = S \cap k.cells
      BY <1>1, <1>2, <3>1, <3>2, PartsFit DEF Rest
    <3>4. Cardinality(Rest(P, c) \cap M) = k.mines
      BY <1>3, <3>3
    <3> QED BY <2>1, <2>3, <3>1, <3>4
  <2> QED BY <2>4, <2>5
<1>7. M \in Worlds(P)
  BY <1>4, <1>5, <1>6 DEF Worlds
<1>8. M = P \cup S \cup T
  BY <1>1, <1>2
<1> QED BY <1>7, <1>8

\* The board itself is one of them.
LEMMA BoardIsWorld ==
    ASSUME NEW P, Proven(P)
    PROVE  board.mines \in Worlds(P)
BY DEF Proven, Worlds, Adjacent

\* To every placement belongs a board that looks the same, also one with mines on
\* some given free cells, when no more are given than are left.
LEMMA WorldWith ==
    ASSUME NEW P, Proven(P), NEW S \in Placements(P), NEW A \in SUBSET Free(P),
           Cardinality(A) <= Total(P) - Cardinality(S)
    PROVE  \E M \in Worlds(P) : S \subseteq M /\ A \subseteq M /\ M \cap Frontier(P) = S
<1>1. S \in SUBSET Frontier(P) /\ Total(P) <= Cardinality(S) + Cardinality(Free(P))
  BY DEF Placements, Solutions
<1>2. S \in SUBSET Cells /\ Free(P) \in SUBSET Cells /\ A \in SUBSET Cells
  BY <1>1, PartsFit
<1>3. PICK n : n = Total(P) - Cardinality(S)
  OBVIOUS
<1>4. n \in Nat /\ Cardinality(A) <= n /\ n <= Cardinality(Free(P))
  <2>1. /\ Cardinality(S) \in Nat /\ Cardinality(Free(P)) \in Nat /\ Cardinality(A) \in Nat
        /\ Cardinality(board.mines) \in Nat /\ Cardinality(P) \in Nat
    BY <1>2, CellsFinite, PartsFit DEF Proven
  <2> QED BY <1>1, <1>3, <2>1 DEF Total
<1>5. PICK T \in SUBSET Free(P) : A \subseteq T /\ Cardinality(T) = n
  BY <1>2, <1>4, SizesBetween
<1>6. P \cup S \cup T \in Worlds(P)
  BY <1>3, <1>5, PlacementsFit
<1>7. (P \cup S \cup T) \cap Frontier(P) = S
  <2>1. P \cap Hidden(P) = {} /\ Frontier(P) \in SUBSET Hidden(P) /\ Frontier(P) \cap Free(P) = {}
    BY PartsFit
  <2> QED BY <1>1, <1>5, <2>1
<1> QED BY <1>5, <1>6, <1>7

\* When free cells are left without a mine, any one of them can be such a cell.
LEMMA WorldWithout ==
    ASSUME NEW P, Proven(P), NEW S \in Placements(P), NEW c \in Free(P),
           Total(P) - Cardinality(S) # Cardinality(Free(P))
    PROVE  \E M \in Worlds(P) : c \notin M
<1>1. S \in SUBSET Frontier(P) /\ Cardinality(S) <= Total(P)
      /\ Total(P) <= Cardinality(S) + Cardinality(Free(P))
  BY DEF Placements, Solutions
<1>2. S \in SUBSET Cells /\ Free(P) \in SUBSET Cells
  BY <1>1, PartsFit
<1>3. PICK n : n = Total(P) - Cardinality(S)
  OBVIOUS
<1>4. n \in Nat /\ n <= Cardinality(Free(P)) - 1
  <2>1. /\ Cardinality(S) \in Nat /\ Cardinality(Free(P)) \in Nat
        /\ Cardinality(board.mines) \in Nat /\ Cardinality(P) \in Nat
    BY <1>2, CellsFinite, PartsFit DEF Proven
  <2> QED BY <1>1, <1>3, <2>1 DEF Total
<1>5. PICK E : E = Free(P) \ {c}
  OBVIOUS
<1>6. E \in SUBSET Cells /\ Cardinality(E) = Cardinality(Free(P)) - 1
  <2>1. IsFiniteSet(Free(P))
    BY <1>2, CellsFinite
  <2> QED BY <1>2, <1>5, <2>1, FS_RemoveElement
<1>7. PICK T \in SUBSET E : Cardinality(T) = n
  <2>1. {} \in SUBSET E /\ Cardinality({}) = 0
    BY FS_EmptySet
  <2>2. Cardinality({}) <= n /\ n <= Cardinality(E)
    BY <1>4, <1>6, <2>1
  <2> QED BY <1>4, <1>6, <2>1, <2>2, SizesBetween
<1>8. T \in SUBSET Free(P) /\ c \notin T
  BY <1>5, <1>7
<1>9. P \cup S \cup T \in Worlds(P)
  BY <1>3, <1>7, <1>8, PlacementsFit
<1>10. c \notin P /\ c \notin S
  BY <1>1, PartsFit
<1> QED BY <1>8, <1>9, <1>10

\* The deductions from the clues hold on every board that looks the same.
LEMMA TargetsFit ==
    ASSUME NEW P, Proven(P)
    PROVE  LET D == Deductions(VisibleConstraints(P)) IN
           /\ Targets(D, "SAFE") \subseteq Hidden(P) /\ Targets(D, "MINE") \subseteq Hidden(P)
           /\ \A M \in Worlds(P) : Targets(D, "SAFE") \cap M = {} /\ Targets(D, "MINE") \subseteq M
<1> DEFINE D == Deductions(VisibleConstraints(P))
<1>1. ASSUME NEW M \in Worlds(P), NEW d \in D
      PROVE  /\ d.targets \subseteq Frontier(P)
             /\ d.kind = "SAFE" => d.targets \cap M = {}
             /\ d.kind = "MINE" => d.targets \subseteq M
  <2>1. TrueConstraints(VisibleConstraints(P), M)
    BY WorldsFit
  <2> QED BY <2>1, DeductionsAreTrue DEF Frontier
<1>2. board.mines \in Worlds(P)
  BY BoardIsWorld
<1>3. Frontier(P) \in SUBSET Hidden(P)
  BY PartsFit
<1> HIDE DEF D
<1>4. \A d \in D : d.targets \subseteq Hidden(P)
  BY <1>1, <1>2, <1>3
<1>5. \A M \in Worlds(P) : Targets(D, "SAFE") \cap M = {} /\ Targets(D, "MINE") \subseteq M
  BY <1>1 DEF Targets
<1>6. Targets(D, "SAFE") \subseteq Hidden(P) /\ Targets(D, "MINE") \subseteq Hidden(P)
  BY <1>4 DEF Targets
<1> QED BY <1>5, <1>6 DEF D

\* The analysis finds what all the boards that look the same have in common: when
\* no mine is left or nothing but mines.
LEMMA ForcedIsExact ==
    ASSUME NEW P, Proven(P), Total(P) \in {0, Cardinality(Hidden(P))}
    PROVE  /\ Analysis(P).safe = {c \in Hidden(P) : \A M \in Worlds(P) : c \notin M}
           /\ Analysis(P).mine = {c \in Hidden(P) : \A M \in Worlds(P) : c \in M}
           /\ Analysis(P).possible <=> \E M \in Worlds(P) : Flagged(visibility) \subseteq M
<1> DEFINE D == Deductions(VisibleConstraints(P))
           safe == Targets(D, "SAFE")
           mine == Targets(D, "MINE")
           claims == Flagged(visibility) \ P
           hidden == Hidden(P)
           total == Total(P)
           a == Analysis(P)
<1>1. /\ a.safe = safe \cup IF total = 0 THEN hidden ELSE {}
      /\ a.mine = mine \cup IF total = 0 THEN {} ELSE hidden
      /\ a.possible <=> Cardinality(claims) <= total
  BY DEF Analysis, Total
<1>2. /\ safe \subseteq hidden /\ mine \subseteq hidden
      /\ \A M \in Worlds(P) : safe \cap M = {} /\ mine \subseteq M
  BY TargetsFit
<1>3. board.mines \in Worlds(P)
  BY BoardIsWorld
<1>4. claims \in SUBSET hidden /\ P \subseteq board.mines
      /\ Flagged(visibility) = P \cup claims
  BY PartsFit DEF Flagged, Revealed, Proven
<1>5. hidden \in SUBSET Cells
  BY PartsFit
<1> HIDE DEF D, safe, mine, claims, hidden, a
<1>6. CASE total = 0
  <2>1. ASSUME NEW M \in Worlds(P) PROVE M \cap hidden = {}
    <3>1. Cardinality(M \cap hidden) = 0
      BY <1>6, WorldsFit DEF hidden
    <3>2. M \cap hidden \in SUBSET hidden
      OBVIOUS
    <3> QED BY <1>5, <3>1, <3>2, EmptyOrAll
  <2>2. a.safe = hidden /\ a.mine = {}
    BY <1>1, <1>2, <1>3, <1>6, <2>1
  <2>3. a.possible <=> claims = {}
    <3>1. Cardinality(claims) = 0 <=> claims = {}
      BY <1>4, <1>5, EmptyOrAll
    <3>2. Cardinality(claims) \in Nat
      BY <1>4, <1>5, CellsFinite
    <3> QED BY <1>1, <1>6, <3>1, <3>2
  <2>4. claims = {} <=> \E M \in Worlds(P) : Flagged(visibility) \subseteq M
    BY <1>3, <1>4, <2>1
  <2> QED BY <1>3, <2>1, <2>2, <2>3, <2>4 DEF hidden, a
<1>7. CASE total # 0
  <2>1. ASSUME NEW M \in Worlds(P) PROVE hidden \subseteq M
    <3>1. Cardinality(M \cap hidden) = Cardinality(hidden)
      BY <1>7, WorldsFit DEF hidden
    <3>2. M \cap hidden \in SUBSET hidden
      OBVIOUS
    <3>3. M \cap hidden = hidden
      BY <1>5, <3>1, <3>2, EmptyOrAll
    <3> QED BY <3>3
  <2>2. a.safe = {} /\ a.mine = hidden
    BY <1>1, <1>2, <1>3, <1>7, <2>1
  <2>3. a.possible
    <3>1. IsFiniteSet(hidden) /\ total = Cardinality(hidden)
      BY <1>5, <1>7, CellsFinite DEF hidden
    <3>2. Cardinality(claims) <= Cardinality(hidden)
      BY <1>4, <3>1, FS_Subset
    <3> QED BY <1>1, <3>1, <3>2
  <2>4. Flagged(visibility) \subseteq board.mines
    BY <1>3, <1>4, <2>1
  <2>5. hidden # {}
    <3>1. total = Cardinality(hidden)
      BY <1>7 DEF hidden
    <3> QED BY <1>7, <3>1, FS_EmptySet
  <2>6. {c \in hidden : \A M \in Worlds(P) : c \notin M} = {}
    BY <1>3, <2>1
  <2>7. {c \in hidden : \A M \in Worlds(P) : c \in M} = hidden
    BY <2>1
  <2> QED BY <1>3, <2>2, <2>3, <2>4, <2>6, <2>7 DEF hidden, a
<1> QED BY <1>6, <1>7

\* The same when placements are searched.
LEMMA SearchIsExact ==
    ASSUME NEW P, Proven(P), Total(P) \notin {0, Cardinality(Hidden(P))}
    PROVE  /\ Analysis(P).safe = {c \in Hidden(P) : \A M \in Worlds(P) : c \notin M}
           /\ Analysis(P).mine = {c \in Hidden(P) : \A M \in Worlds(P) : c \in M}
           /\ Analysis(P).possible <=> \E M \in Worlds(P) : Flagged(visibility) \subseteq M
<1> DEFINE D == Deductions(VisibleConstraints(P))
           safe == Targets(D, "SAFE")
           mine == Targets(D, "MINE")
           claims == Flagged(visibility) \ P
           left(S) == Total(P) - Cardinality(S)
           inFree == {left(S) : S \in Placements(P)}
           free == Free(P)
           frontier == Frontier(P)
           a == Analysis(P)
<1>1. /\ a.safe = safe \cup (IF inFree = {0} THEN free ELSE {})
                    \cup {c \in frontier : \A S \in Placements(P) : c \notin S}
      /\ a.mine = mine \cup (IF inFree = {Cardinality(free)} THEN free ELSE {})
                    \cup {c \in frontier : \A S \in Placements(P) : c \in S}
      /\ a.possible <=> \E S \in Placements(P) :
                          claims \cap frontier \subseteq S
                            /\ Cardinality(claims \cap free) <= left(S)
  BY DEF Analysis, Total, Placements, Free, Frontier
<1>2. /\ safe \subseteq Hidden(P) /\ mine \subseteq Hidden(P)
      /\ \A M \in Worlds(P) : safe \cap M = {} /\ mine \subseteq M
  BY TargetsFit
<1>3. board.mines \in Worlds(P)
  BY BoardIsWorld
<1>4. /\ Hidden(P) = frontier \cup free /\ frontier \cap free = {} /\ Hidden(P) \in SUBSET Cells
      /\ P \cap Hidden(P) = {} /\ free \in SUBSET Cells
  BY PartsFit
<1>5. claims \in SUBSET Hidden(P) /\ P \subseteq board.mines
      /\ Flagged(visibility) = P \cup claims
  BY PartsFit DEF Flagged, Revealed, Proven
<1>6. ASSUME NEW M \in Worlds(P)
      PROVE  /\ M \cap frontier \in Placements(P)
             /\ Cardinality(M \cap free) = left(M \cap frontier)
             /\ P \subseteq M
  BY WorldsFit DEF Worlds
<1>7. ASSUME NEW S \in Placements(P) PROVE S \in SUBSET frontier /\ left(S) \in inFree
  BY DEF Placements, Solutions
<1>8. ASSUME NEW S \in Placements(P), NEW A \in SUBSET free, Cardinality(A) <= left(S)
      PROVE  \E M \in Worlds(P) : S \subseteq M /\ A \subseteq M /\ M \cap frontier = S
  BY <1>8, WorldWith
<1>9. ASSUME NEW S \in Placements(P), NEW c \in free, left(S) # Cardinality(free)
      PROVE  \E M \in Worlds(P) : c \notin M
  BY <1>9, WorldWithout
<1>10. ASSUME NEW S \in Placements(P) PROVE left(S) \in Nat
  <2>1. Cardinality(S) <= Total(P) /\ S \in SUBSET Cells
    BY <1>4, <1>7 DEF Placements, Solutions
  <2>2. Cardinality(S) \in Nat /\ Cardinality(board.mines) \in Nat /\ Cardinality(P) \in Nat
    BY <2>1, CellsFinite, PartsFit DEF Proven
  <2> QED BY <2>1, <2>2 DEF Total
<1>11. ASSUME NEW S \in Placements(P)
       PROVE  \E M \in Worlds(P) : M \cap frontier = S
  <2>1. {} \in SUBSET free /\ Cardinality({}) = 0
    BY FS_EmptySet
  <2> HIDE DEF left, free, frontier
  <2> QED BY <1>8, <1>10, <2>1
<1> HIDE DEF D, safe, mine, claims, left, free, frontier, a
<1>12. ASSUME NEW M \in Worlds(P), inFree = {0} PROVE M \cap free = {}
  <2>1. Cardinality(M \cap free) = 0
    BY <1>6, <1>7, <1>12
  <2>2. M \cap free \in SUBSET free
    OBVIOUS
  <2> QED BY <1>4, <2>1, <2>2, EmptyOrAll
<1>13. ASSUME NEW M \in Worlds(P), inFree = {Cardinality(free)} PROVE free \subseteq M
  <2>1. Cardinality(M \cap free) = Cardinality(free)
    BY <1>6, <1>7, <1>13
  <2>2. M \cap free \in SUBSET free
    OBVIOUS
  <2>3. M \cap free = free
    BY <1>4, <2>1, <2>2, EmptyOrAll
  <2> QED BY <2>3
<1>14. inFree # {}
  BY <1>3, <1>6, <1>7
<1>15. ASSUME NEW c \in a.safe PROVE c \in Hidden(P) /\ \A M \in Worlds(P) : c \notin M
  <2>1. CASE c \in safe
    BY <1>2, <2>1
  <2>2. CASE c \in free /\ inFree = {0}
    BY <1>4, <1>12, <2>2
  <2>3. CASE c \in frontier /\ \A S \in Placements(P) : c \notin S
    BY <1>4, <1>6, <2>3
  <2> QED BY <1>1, <2>1, <2>2, <2>3
<1>16. ASSUME NEW c \in a.mine PROVE c \in Hidden(P) /\ \A M \in Worlds(P) : c \in M
  <2>1. CASE c \in mine
    BY <1>2, <2>1
  <2>2. CASE c \in free /\ inFree = {Cardinality(free)}
    BY <1>4, <1>13, <2>2
  <2>3. CASE c \in frontier /\ \A S \in Placements(P) : c \in S
    BY <1>4, <1>6, <2>3
  <2> QED BY <1>1, <2>1, <2>2, <2>3
<1>17. ASSUME NEW c \in Hidden(P), \A M \in Worlds(P) : c \notin M PROVE c \in a.safe
  <2>1. CASE c \in frontier
    <3>1. \A S \in Placements(P) : c \notin S
      BY <1>11, <1>17
    <3> QED BY <1>1, <2>1, <3>1
  <2>2. CASE c \in free
    <3>1. ASSUME NEW S \in Placements(P) PROVE left(S) = 0
      <4>1. SUFFICES ASSUME left(S) # 0 PROVE FALSE
        OBVIOUS
      <4>2. {c} \in SUBSET free /\ Cardinality({c}) = 1
        BY <2>2, FS_Singleton
      <4>3. Cardinality({c}) <= left(S)
        BY <1>10, <4>1, <4>2
      <4>4. \E M \in Worlds(P) : {c} \subseteq M
        BY <1>8, <4>2, <4>3
      <4> QED BY <1>17, <4>4
    <3>2. inFree = {0}
      BY <1>14, <3>1
    <3> QED BY <1>1, <2>2, <3>2
  <2> QED BY <1>4, <2>1, <2>2
<1>18. ASSUME NEW c \in Hidden(P), \A M \in Worlds(P) : c \in M PROVE c \in a.mine
  <2>1. CASE c \in frontier
    <3>1. \A S \in Placements(P) : c \in S
      BY <1>11, <1>18, <2>1
    <3> QED BY <1>1, <2>1, <3>1
  <2>2. CASE c \in free
    <3>1. \A S \in Placements(P) : left(S) = Cardinality(free)
      BY <1>9, <1>18, <2>2
    <3>2. inFree = {Cardinality(free)}
      BY <1>14, <3>1
    <3> QED BY <1>1, <2>2, <3>2
  <2> QED BY <1>4, <2>1, <2>2
<1>19. ASSUME a.possible PROVE \E M \in Worlds(P) : Flagged(visibility) \subseteq M
  <2>1. PICK S \in Placements(P) :
          claims \cap frontier \subseteq S /\ Cardinality(claims \cap free) <= left(S)
    BY <1>1, <1>19
  <2>2. claims \cap free \in SUBSET free
    OBVIOUS
  <2>3. PICK M \in Worlds(P) : S \subseteq M /\ claims \cap free \subseteq M
    BY <1>8, <2>1, <2>2
  <2>4. P \subseteq M
    BY <1>6
  <2> QED BY <1>4, <1>5, <2>1, <2>3, <2>4
<1>20. ASSUME NEW M \in Worlds(P), Flagged(visibility) \subseteq M PROVE a.possible
  <2>1. M \cap frontier \in Placements(P) /\ Cardinality(M \cap free) = left(M \cap frontier)
    BY <1>6
  <2>2. claims \cap frontier \subseteq M \cap frontier /\ claims \cap free \in SUBSET (M \cap free)
    BY <1>5, <1>20
  <2>3. IsFiniteSet(M \cap free)
    <3>1. M \cap free \in SUBSET Cells
      BY <1>4
    <3> QED BY <3>1, CellsFinite
  <2>4. Cardinality(claims \cap free) <= Cardinality(M \cap free)
    BY <2>2, <2>3, FS_Subset
  <2> QED BY <1>1, <2>1, <2>2, <2>4
<1>21. a.safe = {c \in Hidden(P) : \A M \in Worlds(P) : c \notin M}
  <2>1. a.safe \subseteq Hidden(P)
    BY <1>15
  <2> QED BY <1>15, <1>17, <2>1
<1>22. a.mine = {c \in Hidden(P) : \A M \in Worlds(P) : c \in M}
  <2>1. a.mine \subseteq Hidden(P)
    BY <1>16
  <2> QED BY <1>16, <1>18, <2>1
<1> QED BY <1>19, <1>20, <1>21, <1>22 DEF a

\* The complete analysis proves all that can be known of a board that is played,
\* and nothing else, for the flags of any mines that were proved before: on boards
\* of any size, with right and wrong flags on them.
THEOREM AnalysisIsComplete == PlaySpec => []AnalysisIsExact
<1>1. ASSUME RulesInv, outcome = "PLAYING",
             NEW P \in SUBSET (Flagged(visibility) \cap board.mines)
      PROVE  Proven(P)
  <2>1. Cardinality(Revealed(visibility) \cap board.mines) = 0
    BY <1>1 DEF RulesInv, OutcomeIsTrue
  <2>2. Revealed(visibility) \cap board.mines \in SUBSET Cells
    BY DEF Revealed
  <2>3. Revealed(visibility) \cap board.mines = {}
    BY <2>1, <2>2, EmptyOrAll
  <2> QED BY <1>1, <2>3 DEF Proven, RulesInv, TypeOK
<1>2. ASSUME NEW P, Proven(P)
      PROVE  /\ Analysis(P).safe = {c \in Hidden(P) : \A M \in Worlds(P) : c \notin M}
             /\ Analysis(P).mine = {c \in Hidden(P) : \A M \in Worlds(P) : c \in M}
             /\ Analysis(P).possible <=> \E M \in Worlds(P) : Flagged(visibility) \subseteq M
  BY <1>2, ForcedIsExact, SearchIsExact
<1>3. RulesInv => AnalysisIsExact
  BY <1>1, <1>2 DEF AnalysisIsExact
<1>4. PlayInit => SolverInv
  BY InitSolver
<1>5. SolverInv /\ [Play]_<<vars, player>> => SolverInv'
  BY PlayKeeps
<1>6. SolverInv => AnalysisIsExact
  BY <1>3 DEF SolverInv
<1> QED BY <1>4, <1>5, <1>6, PTL DEF PlaySpec

----------------------------------------------------------------------------
(* 3BV *)

\* What calculate3BV counts: the zeros of an opening together, and each number that
\* no opening covers alone.
Alone == {c \in CoveredSafe(AllHidden) : Adjacent(c) # 0} \ UNION {Near(z) : z \in Zeros(AllHidden)}
Unit(c) == IF c \in Zeros(AllHidden) THEN Opening(AllHidden, c) ELSE {c}
Units == {Unit(c) : c \in Zeros(AllHidden) \cup Alone}

\* The units of which something is open.
Touched(v) == {u \in Units : u \cap Revealed(v) # {}}

\* The inductive invariant: every reveal touched one unit at most.
PaceInv == RulesInv /\ reveals \in Nat /\ Cardinality(Touched(visibility)) <= reveals

LEMMA NearBothWays ==
    ASSUME NEW c \in Cells, NEW d \in Near(c)
    PROVE  d \in Cells /\ c \in Near(d)
<1>1. /\ d \in Cells \ {c} /\ Within(c, d, 1)
      /\ c[1] \in Int /\ c[2] \in Int /\ d[1] \in Int /\ d[2] \in Int
  BY SizeAssumption DEF Near, Cells
<1>2. \A a, b \in Int : a - b \in -1 .. 1 => b - a \in -1 .. 1 OBVIOUS
<1>3. Within(d, c, 1) BY <1>1, <1>2 DEF Within
<1> QED BY <1>1, <1>3 DEF Near

\* An opening is closed under the zeros next to it, and is the least such set.
LEMMA OpeningIsClosed ==
    ASSUME NEW v, NEW c \in Zeros(v)
    PROVE  /\ c \in Opening(v, c) /\ Opening(v, c) \subseteq Zeros(v)
           /\ \A z \in Opening(v, c) : Near(z) \cap Zeros(v) \subseteq Opening(v, c)
BY DEF Opening

LEMMA OpeningIsLeast ==
    ASSUME NEW v, NEW c, NEW Z \in SUBSET Zeros(v), c \in Z,
           \A z \in Z : Near(z) \cap Zeros(v) \subseteq Z
    PROVE  Opening(v, c) \subseteq Z
BY DEF Opening

LEMMA ZerosOfAll ==
    ASSUME NEW v
    PROVE  /\ CoveredSafe(AllHidden) = Cells \ board.mines
           /\ CoveredSafe(v) \subseteq CoveredSafe(AllHidden)
           /\ Zeros(v) \subseteq Zeros(AllHidden) /\ Zeros(AllHidden) \subseteq Cells
BY DEF CoveredSafe, Covered, Zeros, AllHidden

\* What a region finds is part of one opening of the board.
LEMMA OpeningsGrow ==
    ASSUME NEW v, NEW c \in Zeros(v)
    PROVE  Opening(v, c) \subseteq Opening(AllHidden, c)
<1> DEFINE Z == Opening(AllHidden, c) \cap Zeros(v)
<1>1. c \in Zeros(AllHidden) /\ Zeros(v) \subseteq Zeros(AllHidden) BY ZerosOfAll
<1>2. c \in Opening(AllHidden, c)
      /\ \A z \in Opening(AllHidden, c) : Near(z) \cap Zeros(AllHidden) \subseteq Opening(AllHidden, c)
  BY <1>1, OpeningIsClosed
<1>3. c \in Z /\ Z \in SUBSET Zeros(v) /\ \A z \in Z : Near(z) \cap Zeros(v) \subseteq Z
  BY <1>1, <1>2
<1>4. Opening(v, c) \subseteq Z
  <2> HIDE DEF Z
  <2> QED BY <1>3, OpeningIsLeast
<1> QED BY <1>4

\* Any zero of an opening has the same opening.
LEMMA OpeningsAreOne ==
    ASSUME NEW c \in Zeros(AllHidden), NEW z \in Opening(AllHidden, c)
    PROVE  Opening(AllHidden, z) = Opening(AllHidden, c)
<1> DEFINE O(x) == Opening(AllHidden, x)
           Z == O(c) \ O(z)
<1>1. z \in Zeros(AllHidden) /\ Zeros(AllHidden) \subseteq Cells BY OpeningIsClosed, ZerosOfAll
<1>2. /\ c \in O(c) /\ O(c) \subseteq Zeros(AllHidden) /\ z \in O(c)
      /\ \A y \in O(c) : Near(y) \cap Zeros(AllHidden) \subseteq O(c)
  BY OpeningIsClosed
<1>3. /\ z \in O(z) /\ O(z) \subseteq Zeros(AllHidden)
      /\ \A y \in O(z) : Near(y) \cap Zeros(AllHidden) \subseteq O(z)
  BY <1>1, OpeningIsClosed
<1>4. O(z) \subseteq O(c) BY <1>2, OpeningIsLeast
<1>5. c \in O(z)
  <2> SUFFICES ASSUME c \notin O(z) PROVE FALSE OBVIOUS
  <2> HIDE DEF O
  <2>1. ASSUME NEW y \in Z, NEW w \in Near(y) \cap Zeros(AllHidden) PROVE w \in Z
    <3>1. w \in O(c) /\ y \in Zeros(AllHidden) /\ y \in Cells BY <1>1, <1>2, <2>1
    <3>2. y \in Near(w) BY <2>1, <3>1, NearBothWays
    <3>3. w \notin O(z) BY <1>3, <2>1, <3>1, <3>2
    <3> QED BY <3>1, <3>3
  <2>2. Z \in SUBSET Zeros(AllHidden) /\ c \in Z BY <1>2
  <2> HIDE DEF Z
  <2>3. O(c) \subseteq Z BY <2>1, <2>2, OpeningIsLeast DEF O
  <2> QED BY <1>2, <1>3, <2>3 DEF Z
<1>6. O(c) \subseteq O(z) BY <1>3, <1>5, OpeningIsLeast
<1> QED BY <1>4, <1>6

\* 3BV is the number of units, and they are not more than the cells.
LEMMA UnitsCount ==
    /\ IsFiniteSet(Units) /\ Cardinality(Units) = ThreeBV
    /\ Cardinality(Units) <= Cardinality(Cells) /\ Cardinality(Cells) \in Nat
    /\ \A u \in Units : u # {} /\ u \subseteq Cells \ board.mines
<1> DEFINE zeros == Zeros(AllHidden)
           heads == zeros \cup Alone
           openings == {Opening(AllHidden, z) : z \in zeros}
           singles == {{c} : c \in Alone}
<1>1. /\ zeros \subseteq Cells \ board.mines /\ Alone \subseteq Cells \ board.mines
      /\ zeros \cap Alone = {}
  BY ZerosOfAll DEF Alone, Zeros
<1>2. /\ IsFiniteSet(zeros) /\ IsFiniteSet(Alone) /\ IsFiniteSet(heads)
      /\ Cardinality(heads) <= Cardinality(Cells) /\ Cardinality(Cells) \in Nat
  <2>1. heads \in SUBSET Cells /\ Cells \in SUBSET Cells BY <1>1
  <2>2. IsFiniteSet(Cells) /\ Cardinality(Cells) \in Nat BY <2>1, CellsFinite
  <2>3. IsFiniteSet(heads) /\ Cardinality(heads) <= Cardinality(Cells) BY <2>1, <2>2, FS_Subset
  <2> QED BY <1>1, <2>2, <2>3, CellsFinite
<1>3. \A z \in zeros : z \in Opening(AllHidden, z) /\ Opening(AllHidden, z) \subseteq zeros
  BY OpeningIsClosed
<1>4. IsFiniteSet(Units) /\ Cardinality(Units) <= Cardinality(heads)
  <2> DEFINE f == [c \in heads |-> Unit(c)]
  <2>1. f \in [heads -> Units] /\ \A u \in Units : \E c \in heads : f[c] = u BY DEF Units
  <2> HIDE DEF f
  <2>2. f \in Surjection(heads, Units) BY <2>1 DEF Surjection
  <2> QED BY <1>2, <2>2, FS_Surjection
<1>5. IsFiniteSet(openings)
  <2> DEFINE f == [c \in zeros |-> Opening(AllHidden, c)]
  <2>1. f \in [zeros -> openings] /\ \A u \in openings : \E c \in zeros : f[c] = u OBVIOUS
  <2> HIDE DEF f, openings
  <2>2. f \in Surjection(zeros, openings) BY <2>1 DEF Surjection
  <2> QED BY <1>2, <2>2, FS_Surjection
<1>6. IsFiniteSet(singles) /\ Cardinality(singles) = Cardinality(Alone)
  <2> DEFINE f == [c \in Alone |-> {c}]
  <2>1. /\ f \in [Alone -> singles] /\ \A u \in singles : \E c \in Alone : f[c] = u
        /\ \A a, b \in Alone : f[a] = f[b] => a = b
    OBVIOUS
  <2> HIDE DEF f, singles
  <2>2. f \in Bijection(Alone, singles) BY <2>1 DEF Bijection, Surjection, Injection, IsInjective
  <2>3. ExistsBijection(Alone, singles) BY <2>2 DEF ExistsBijection
  <2> QED BY <1>2, <2>3, FS_Bijection
<1>7. Units = openings \cup singles
  <2>1. \A c \in zeros : Unit(c) = Opening(AllHidden, c) BY DEF Unit
  <2>2. \A c \in Alone : Unit(c) = {c} BY <1>1 DEF Unit
  <2> QED BY <2>1, <2>2 DEF Units
<1>8. openings \cap singles = {}
  <2> SUFFICES ASSUME NEW z \in zeros, NEW c \in Alone, Opening(AllHidden, z) = {c} PROVE FALSE
    OBVIOUS
  <2> QED BY <1>1, <1>3
<1>9. Cardinality(Units) = Cardinality(openings) + Cardinality(Alone)
  <2>1. Cardinality(openings \cup singles)
          = Cardinality(openings) + Cardinality(singles) - Cardinality(openings \cap singles)
    <3> HIDE DEF openings, singles
    <3> QED BY <1>5, <1>6, FS_Union
  <2>2. Cardinality(openings \cap singles) = 0 BY <1>8, FS_EmptySet
  <2>3. Cardinality(openings) \in Nat /\ Cardinality(singles) \in Nat
    <3> HIDE DEF openings, singles
    <3> QED BY <1>5, <1>6, FS_CardinalityType
  <2> HIDE DEF openings, singles
  <2> QED BY <1>6, <1>7, <2>1, <2>2, <2>3
<1>10. ThreeBV = Cardinality(openings) + Cardinality(Alone) BY DEF ThreeBV, Alone
<1>11. \A u \in Units : u # {} /\ u \subseteq Cells \ board.mines
  BY <1>1, <1>3, <1>7
<1>12. Cardinality(Units) <= Cardinality(Cells)
  <2>1. Cardinality(Units) \in Nat /\ Cardinality(heads) \in Nat
    BY <1>2, <1>4, FS_CardinalityType
  <2> QED BY <1>2, <1>4, <2>1
<1> QED BY <1>2, <1>4, <1>9, <1>10, <1>11, <1>12

\* A reveal touches the unit of its cell, and no other for the first time.
LEMMA RevealTouches ==
    ASSUME RulesInv, NEW c \in Cells, RevealCell(c)
    PROVE  Touched(visibility)' \subseteq Touched(visibility) \cup {Unit(c)}
<1> DEFINE v == visibility
           S == IF c \in board.mines THEN {c} ELSE Region(v, c)
<1>1. visibility' = Revealing(S) /\ board' = board /\ c \in Covered(v)
  BY DEF RevealCell, Opened
<1>2. Revealed(visibility)' \subseteq Revealed(v) \cup S
  BY <1>1 DEF Revealed, Revealing
<1>3. Units' = Units
  BY <1>1 DEF Units, Unit, Alone, Zeros, CoveredSafe, Covered, AllHidden, Adjacent, Opening
<1> SUFFICES ASSUME NEW u \in Units, NEW x \in u, x \in S, u # Unit(c) PROVE FALSE
  BY <1>2, <1>3 DEF Touched
<1>4. x \in Cells \ board.mines BY UnitsCount
<1>5. S = Region(v, c) /\ c \in CoveredSafe(v) BY <1>1, <1>4 DEF CoveredSafe
<1>6. PICK h \in Zeros(AllHidden) \cup Alone : u = Unit(h) BY DEF Units
<1>7. \/ x = c
      \/ c \in Zeros(v) /\ x \in CoveredSafe(v) /\ \E z \in Opening(v, c) : x \in Near(z)
  BY <1>5 DEF Region
<1>8. Zeros(v) \subseteq Zeros(AllHidden) BY ZerosOfAll
<1>9. CASE h \in Zeros(AllHidden)
  <2>1. u = Opening(AllHidden, h) BY <1>6, <1>9 DEF Unit
  <2>2. x \in Zeros(AllHidden) /\ Opening(AllHidden, x) = u
    BY <1>9, <2>1, OpeningIsClosed, OpeningsAreOne
  <2>3. CASE x = c BY <2>2, <2>3 DEF Unit
  <2>4. CASE c \in Zeros(v) /\ x \in CoveredSafe(v) /\ \E z \in Opening(v, c) : x \in Near(z)
    <3>1. x \in Zeros(v) BY <2>2, <2>4 DEF Zeros
    <3>2. x \in Opening(v, c) BY <2>4, <3>1, OpeningIsClosed
    <3>3. x \in Opening(AllHidden, c) BY <2>4, <3>2, OpeningsGrow
    <3>4. c \in Zeros(AllHidden) BY <1>8, <2>4
    <3>5. Opening(AllHidden, x) = Opening(AllHidden, c) BY <3>3, <3>4, OpeningsAreOne
    <3> QED BY <2>2, <3>4, <3>5 DEF Unit
  <2> QED BY <1>7, <2>3, <2>4
<1>10. CASE h \in Alone
  <2>1. h \notin Zeros(AllHidden) BY <1>10 DEF Alone, Zeros
  <2>2. x = h /\ u = {h} BY <1>6, <2>1 DEF Unit
  <2>3. x # c BY <2>1, <2>2 DEF Unit
  <2>4. PICK z \in Opening(v, c) : c \in Zeros(v) /\ x \in Near(z) BY <1>7, <2>3
  <2>5. z \in Zeros(AllHidden) BY <1>8, <2>4, OpeningIsClosed
  <2> QED BY <1>10, <2>2, <2>4, <2>5 DEF Alone
<1> QED BY <1>9, <1>10, <1>6

LEMMA TouchedCount ==
    /\ IsFiniteSet(Touched(visibility)) /\ Cardinality(Touched(visibility)) \in Nat
    /\ Cardinality(Touched(visibility)) <= Cardinality(Cells)
<1>1. Touched(visibility) \in SUBSET Units BY DEF Touched
<1>2. IsFiniteSet(Touched(visibility)) /\ Cardinality(Touched(visibility)) <= Cardinality(Units)
  BY <1>1, UnitsCount, FS_Subset
<1>3. Cardinality(Touched(visibility)) \in Nat /\ Cardinality(Units) \in Nat
  BY <1>2, UnitsCount, FS_CardinalityType
<1> QED BY <1>2, <1>3, UnitsCount

LEMMA TouchedCountNext ==
    (/\ IsFiniteSet(Touched(visibility)) /\ Cardinality(Touched(visibility)) \in Nat
     /\ Cardinality(Touched(visibility)) <= Cardinality(Cells))'
BY TouchedCount, PTL

\* A set that grows by one element at most.
LEMMA OneMore ==
    ASSUME NEW S, IsFiniteSet(S), NEW x, NEW T \in SUBSET (S \cup {x})
    PROVE  Cardinality(T) <= Cardinality(S) + 1
<1>1. /\ IsFiniteSet(S \cup {x}) /\ Cardinality(S) \in Nat
      /\ Cardinality(S \cup {x}) = IF x \in S THEN Cardinality(S) ELSE Cardinality(S) + 1
  BY FS_AddElement, FS_CardinalityType
<1>2. IsFiniteSet(T) /\ Cardinality(T) <= Cardinality(S \cup {x}) BY <1>1, FS_Subset
<1>3. Cardinality(T) \in Nat BY <1>2, FS_CardinalityType
<1> QED BY <1>1, <1>2, <1>3

LEMMA PlayKeepsPace ==
    ASSUME PaceInv, RulesInv', [Play]_<<vars, player>>
    PROVE  PaceInv'
<1> DEFINE T == Touched(visibility)
<1>1. reveals \in Nat /\ Cardinality(T) <= reveals /\ RulesInv BY DEF PaceInv
<1>2. /\ IsFiniteSet(T) /\ Cardinality(T) \in Nat /\ Cardinality(Cells) \in Nat
  BY TouchedCount, UnitsCount
<1>3. Cells' = Cells BY DEF Cells
<1>4. /\ IsFiniteSet(T') /\ Cardinality(T') \in Nat /\ Cardinality(T') <= Cardinality(Cells)
  BY <1>3, TouchedCountNext
<1>5. ASSUME NEW c \in Cells, RevealCell(c) PROVE PaceInv'
  <2>1. T' \subseteq T \cup {Unit(c)} BY <1>1, <1>5, RevealTouches
  <2>4. Cardinality(T') <= Cardinality(T) + 1 BY <1>2, <2>1, OneMore
  <2>5. reveals' = Lesser(reveals + 1, Cardinality(Cells)) BY <1>5 DEF RevealCell
  <2>6. reveals' \in Nat /\ Cardinality(T') <= reveals'
    <3> HIDE DEF T
    <3> QED BY <1>1, <1>2, <1>4, <2>4, <2>5 DEF Lesser
  <2> QED BY <2>6 DEF PaceInv
<1>6. ASSUME reveals' = Cardinality(Cells) PROVE PaceInv'
  BY <1>2, <1>4, <1>6 DEF PaceInv
<1>7. ASSUME UNCHANGED <<board, reveals>>, Revealed(visibility)' = Revealed(visibility) PROVE PaceInv'
  <2>1. T' = T
    BY <1>7 DEF Touched, Units, Unit, Alone, Zeros, CoveredSafe, Covered, AllHidden, Adjacent, Opening
  <2> QED BY <1>1, <1>7, <2>1 DEF PaceInv
<1>8. ASSUME NEW c \in Cells, NEW m \in {"HIDDEN", "FLAGGED", "QUESTIONED"},
             visibility[c] # "REVEALED", Mark(c, m)
      PROVE  PaceInv'
  <2>1. Revealed(visibility)' = Revealed(visibility)
    BY <1>1, <1>8 DEF Mark, Revealed, RulesInv, TypeOK
  <2> QED BY <1>7, <1>8, <2>1 DEF Mark
<1>9. ASSUME NEW c \in Cells, ToggleFlag(c) PROVE PaceInv'
  BY <1>8, <1>9 DEF ToggleFlag
<1>10. ASSUME NEW c \in Cells, CycleCellMark(c) PROVE PaceInv'
  <2>1. visibility[c] \in {"HIDDEN", "FLAGGED", "QUESTIONED"}
    BY <1>1, <1>10 DEF CycleCellMark, RulesInv, TypeOK
  <2> QED BY <1>8, <1>10, <2>1 DEF CycleCellMark
<1>11. ASSUME NEW c \in Cells, ChordCell(c) PROVE PaceInv'
  BY <1>6, <1>11 DEF ChordCell
<1>12. CASE SolverBegin
  BY <1>1, <1>5, <1>12 DEF SolverBegin, RulesInv
<1>13. CASE SolverStep
  BY <1>6, <1>13 DEF SolverStep
<1>14. CASE UNCHANGED <<vars, player>>
  BY <1>7, <1>14 DEF vars, Revealed
<1> QED BY <1>5, <1>9, <1>10, <1>11, <1>12, <1>13, <1>14 DEF Play, Next

\* 3BV is a lower bound on the reveals that win a board without a chord, on boards
\* of any size, whatever marks are in the way of its regions: a reveal opens cells of
\* one opening or one number that no opening covers, and all of them have to be opened.
THEOREM NothingIsFaster == PlaySpec => []NoFasterThan3BV
<1>1. PlayInit => SolverInv /\ PaceInv
  <2> SUFFICES ASSUME PlayInit PROVE SolverInv /\ PaceInv OBVIOUS
  <2>1. SolverInv BY InitSolver
  <2>2. Revealed(visibility) = {} /\ reveals = 0 BY DEF PlayInit, Init, Revealed, AllHidden
  <2>3. Cardinality(Touched(visibility)) = 0 BY <2>2, FS_EmptySet DEF Touched
  <2> QED BY <2>1, <2>2, <2>3 DEF SolverInv, PaceInv
<1>2. SolverInv /\ PaceInv /\ [Play]_<<vars, player>> => SolverInv' /\ PaceInv'
  <2>1. SolverInv /\ [Play]_<<vars, player>> => SolverInv' BY PlayKeeps
  <2>2. SolverInv' => RulesInv' BY DEF SolverInv
  <2> QED BY <2>1, <2>2, PlayKeepsPace
<1>3. PaceInv => NoFasterThan3BV
  <2> SUFFICES ASSUME PaceInv, outcome = "WON" PROVE reveals >= ThreeBV
    BY DEF NoFasterThan3BV
  <2>1. Cells \ board.mines = Revealed(visibility) BY DEF PaceInv, RulesInv, OutcomeIsTrue
  <2>2. Touched(visibility) = Units BY <2>1, UnitsCount DEF Touched
  <2> QED BY <2>2, TouchedCount, UnitsCount DEF PaceInv
<1> QED BY <1>1, <1>2, <1>3, PTL DEF PlaySpec
=============================================================================
