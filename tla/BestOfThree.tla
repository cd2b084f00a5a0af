---------------------------- MODULE BestOfThree ----------------------------
(***************************************************************************)
(* What a duel room promises its players about a match, with no timers,   *)
(* connections or replays: rounds are dealt one at a time, each gives at  *)
(* most one win, the first player with the wins needed takes the match at  *)
(* once, a match of RoundsPerMatch rounds without one is void, a match may *)
(* be abandoned (a player lost, a budget spent), a decision is final, and  *)
(* only a rematch, with a clean score, follows it.                         *)
(***************************************************************************)
EXTENDS Naturals

CONSTANTS Guests, NoGuest, RoundsPerMatch, WinsNeeded

VARIABLES
    stage,    \* "IDLE" between rounds, "ROUND", "DECIDED" or "CLOSED"
    rounds,   \* rounds dealt in this match
    wins,     \* wins of each guest in this match
    winner    \* the guest who took the decided match, if any

vars == <<stage, rounds, wins, winner>>

Fresh == /\ stage = "IDLE"
         /\ rounds = 0
         /\ wins = [g \in Guests |-> 0]
         /\ winner = NoGuest

Init == Fresh

Deal ==
    /\ stage = "IDLE"
    /\ rounds < RoundsPerMatch
    /\ stage' = "ROUND"
    /\ rounds' = rounds + 1
    /\ UNCHANGED <<wins, winner>>

(* The round ends with no win or with one.  `void` stands for a room that  *)
(* can no longer vouch for the match.                                      *)
EndRound(winners, void) ==
    LET champions == {g \in Guests : wins'[g] >= WinsNeeded} IN
    /\ stage = "ROUND"
    /\ \A g, o \in winners : g = o
    /\ wins' = [g \in Guests |-> IF g \in winners THEN wins[g] + 1 ELSE wins[g]]
    /\ stage' = IF void \/ champions # {} \/ rounds >= RoundsPerMatch
                THEN "DECIDED" ELSE "IDLE"
    /\ IF void \/ champions = {} THEN winner' = NoGuest ELSE winner' \in champions
    /\ UNCHANGED rounds

(* The match is decided outside its rounds; a round may have been dealt    *)
(* only to be abandoned in the same step.                                  *)
Abandon ==
    /\ stage \in {"IDLE", "ROUND"}
    /\ stage' = "DECIDED"
    /\ winner' \in Guests \cup {NoGuest}
    /\ rounds' \in {rounds, rounds + 1} \cap 0 .. RoundsPerMatch
    /\ UNCHANGED wins

Rematch == stage = "DECIDED" /\ Fresh'

Stop == stage # "CLOSED" /\ stage' = "CLOSED" /\ UNCHANGED <<rounds, wins, winner>>

Next ==
    \/ Deal
    \/ \E winners \in SUBSET Guests, void \in BOOLEAN : EndRound(winners, void)
    \/ Abandon
    \/ Rematch
    \/ Stop

Spec == Init /\ [][Next]_vars
=============================================================================
