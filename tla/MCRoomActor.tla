----------------------------- MODULE MCRoomActor -----------------------------
(* Instances of RoomActor for TLC: two guests, boards of two or three      *)
(* progress steps, shortened matches.  The host is distinguished, so no    *)
(* symmetry is declared.                                                   *)
EXTENDS RoomActor

CONSTANTS h, g1

TwoGuests == {h, g1}

NoOverflow == {"NONE"}
AnyOverflow == (Events \ {"REMATCH_STARTED"}) \cup {"NONE"}

(* The budget spent while a round is being played.                         *)
ActionOverflow == {"NONE", "ACTION"}
=============================================================================
