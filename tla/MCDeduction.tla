------------------------------ MODULE MCDeduction ------------------------------
(* Instance of GameCore and Deduction for TLC: boards of three by three cells. *)
EXTENDS Deduction

Corner == {<<0, 0>>}

\* A person plays the boards with two mines, one opposite the start and one on the
\* diagonal or to its right: the others are their mirror images.
MCInit ==
    /\ PlayInit
    /\ player = "PERSON" =>
         /\ Cardinality(board.mines) = 2 /\ <<2, 2>> \in board.mines
         /\ \A m \in board.mines : m[1] >= m[2]
MCSpec == MCInit /\ [][Play]_<<vars, player>>
=============================================================================
