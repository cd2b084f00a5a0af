--------------------------- MODULE MCServerTables ---------------------------
(* Instances of the two tables of the server that sweep what has expired:   *)
(* TicketStore and, as Limiter, RestRateLimiter.  A behaviour is one of      *)
(* either; the other table stays as it began.                                *)
EXTENDS TicketStore, TLC
CONSTANTS k1, k2, t1, t2, t3, c1, c2, c3, Clients, Burst, Cost, Rate, MaxBuckets, MaxIdle,
    CapacityWait
VARIABLES buckets, told, table

MCKeys == {k1, k2}
MCTokens == {t1, t2, t3}
MCClients == {c1, c2, c3}
Symmetry == Permutations(MCKeys) \cup Permutations(MCTokens) \cup Permutations(MCClients)

Limiter == INSTANCE RestRateLimiter WITH Keys <- Clients

ASSUME LimiterAssumption == Limiter!NumbersArePositive /\ Limiter!IdleIsFull

TablesInit == Init /\ Limiter!Init /\ table \in {"tickets", "buckets"}

TablesNext ==
    \/ table = "tickets" /\ Next /\ UNCHANGED <<buckets, told, table>>
    \/ table = "buckets" /\ Limiter!Next /\ UNCHANGED <<stored, epochs, unissued, latest, uses, table>>

TablesSpec == TablesInit /\ [][TablesNext]_<<vars, buckets, told, table>>

(* A refused key that comes back when it was told to is admitted, unless     *)
(* the table is crowded and its place was given away (RestRateLimiter).      *)
RetryIsEnough == Limiter!RetryIsEnough

(* The table admits no more than a limiter that remembers every key.         *)
ImplementsLimit == Limiter!ImplementsLimit
=============================================================================
