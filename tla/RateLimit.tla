----------------------------- MODULE RateLimit -----------------------------
(***************************************************************************)
(* What a limiter promises: in every stretch of time a key is admitted at  *)
(* most Burst times more often than the rate alone would allow.  A key is  *)
(* in debt for what it was admitted; time pays the debt off.               *)
(***************************************************************************)
EXTENDS Integers

CONSTANTS
    Keys,
    Burst,      \* requests at once
    Cost,       \* what one request costs,
    Rate        \* and how much of it a millisecond gives back

VARIABLE debt

Paid(units) == IF units > Rate THEN units - Rate ELSE 0

LimitInit == debt = [k \in Keys |-> 0]

Admit(k) ==
    /\ debt[k] + Cost <= Burst * Cost
    /\ debt' = [debt EXCEPT ![k] = @ + Cost]

TimePasses == debt' = [k \in Keys |-> Paid(debt[k])]

LimitNext == TimePasses \/ \E k \in Keys : Admit(k)

LimitSpec == LimitInit /\ [][LimitNext]_debt
=============================================================================
