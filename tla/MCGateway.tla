------------------------------ MODULE MCGateway ------------------------------
(* Instances of Gateway for TLC. *)
EXTENDS Gateway, TLC
CONSTANTS r1, r2, g1, g2, g3, t1, t2, t3, s1, s2

MCRooms == {r1, r2}
MCGuests == {g1, g2, g3}
MCKeys == MCRooms \X MCGuests
Symmetry == Permutations(MCRooms) \cup Permutations(MCGuests)
            \cup Permutations({t1, t2, t3}) \cup Permutations({s1, s2})

(* Three guests for the two seats of one room, with second tickets.          *)
Crowded ==
    /\ \E r \in Rooms : rooms[r].status = "UNUSED"
    /\ \A r \in Rooms : rooms[r].code # "D"

(* Two guests with a ticket each, in two rooms after each other or in one.   *)
Turnover == newcomers # {} /\ unissued # {} /\ \A key \in Keys : latest[key] <= 1

Scope == Crowded \/ Turnover

LiveKeys == {r1} \X {g1, g2}
=============================================================================
