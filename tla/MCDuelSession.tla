----------------------------- MODULE MCDuelSession -----------------------------
(* Instances for TLC of DuelSession, where a board is its round, whether it   *)
(* has been opened, and one covered cell that a player may flag and unflag,   *)
(* or open, which wins the round; and, as Link, of DuelConnection with two    *)
(* entries.  A behaviour is one of the two; the other stays as it began.      *)
EXTENDS DuelSession
CONSTANTS MaxEntries, MaxFlight
VARIABLES part, page, entry

BoardsDef == (1 .. MaxRound) \X BOOLEAN \X {"COVERED", "FLAGGED", "WON"}
NoBoardDef == <<0, FALSE, "NONE">>
FinishedDef == {b \in BoardsDef : b[3] = "WON"}
MovesDef == {"REVEAL", "TOGGLE_FLAG"}
PlayDef(b, m) ==
    CASE m = "REVEAL" /\ b[3] = "COVERED" -> <<b[1], b[2], "WON">>
      [] m = "TOGGLE_FLAG" /\ b[3] = "COVERED" -> <<b[1], b[2], "FLAGGED">>
      [] m = "TOGGLE_FLAG" /\ b[3] = "FLAGGED" -> <<b[1], b[2], "COVERED">>
      [] OTHER -> b
DealtDef(n) == <<n, FALSE, "COVERED">>
OpenDef(b) == <<b[1], TRUE, b[3]>>
OpenedDef == {b \in BoardsDef : b[2]}
ActionIdsDef == 1 .. MaxActions

Link == INSTANCE DuelConnection WITH None <- 0

ASSUME LinkAssumption == MaxEntries \in Nat

PartsInit == SessionInit /\ Link!Init /\ part \in {"session", "link"}

PartsNext ==
    \/ part = "session" /\ SessionNext /\ UNCHANGED <<part, page, entry>>
    \/ part = "link" /\ Link!Next /\ UNCHANGED <<part, vars>>

PartsSpec == PartsInit /\ [][PartsNext]_<<part, vars, page, entry>>

(* A page loses a duel, or leaves its lobby, only with its own socket, and it *)
(* is connected when it says so (DuelConnection).                             *)
DuelEndsWithItsSocket == Link!DuelEndsWithItsSocket

(* A match on a connection that works can be played (DuelConnection).         *)
MatchCanBePlayed == Link!MatchCanBePlayed
===============================================================================
