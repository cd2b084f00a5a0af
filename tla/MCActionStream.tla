---------------------------- MODULE MCActionStream ----------------------------
(* Instance of ActionStream for TLC: one covered cell that a player may     *)
(* flag and unflag, or open, which wins the board.                          *)
EXTENDS ActionStream

BoardsDef == {"COVERED", "FLAGGED", "WON"}
FinishedDef == {"WON"}
MovesDef == {"REVEAL", "TOGGLE_FLAG"}
PlayDef(b, m) ==
    CASE m = "REVEAL" /\ b = "COVERED" -> "WON"
      [] m = "TOGGLE_FLAG" /\ b = "COVERED" -> "FLAGGED"
      [] m = "TOGGLE_FLAG" /\ b = "FLAGGED" -> "COVERED"
      [] OTHER -> b
DealtDef(n) == "COVERED"
OpenDef(b) == b
===============================================================================
