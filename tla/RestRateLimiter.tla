-------------------------- MODULE RestRateLimiter --------------------------
(***************************************************************************)
(* apps/server/src/rest-rate-limiter.ts: a bucket of tokens for each key,  *)
(* refilled when it is used, in a table of bounded size from which idle    *)
(* buckets are swept.  Tokens are counted in units: a token has Cost       *)
(* units (60000 in the code) and Rate (perMinute) of them come back in a   *)
(* millisecond, so that no fraction is left; the rounding of doubles is    *)
(* not modelled.  lastRefillAt and lastSeenAt are always set together.     *)
(***************************************************************************)
EXTENDS Integers, FiniteSets

CONSTANTS
    Keys,
    Burst, Cost, Rate,
    MaxBuckets,
    MaxIdle,        \* maxIdleMs of sweep
    CapacityWait,   \* retryAfterMs of a key that found the table full
    MaxNow          \* bound: the clock

NumbersArePositive ==
    \A n \in {Burst, Cost, Rate, MaxBuckets, MaxIdle, CapacityWait, MaxNow} : n \in Nat \ {0}

(* A bucket that is swept was full again: ten minutes against fifteen      *)
(* seconds in the default configuration.                                   *)
IdleIsFull == Burst * Cost <= (MaxIdle + 1) * Rate

VARIABLES
    now,        \* the clock, in milliseconds; it never runs backwards
    buckets,    \* #buckets, with NoBucket for the other keys
    told        \* history: the last answer to a key: when it was refused, from
                \* when on it may come again, whether the table was full

vars == <<now, buckets, told>>

Full == Burst * Cost
NoBucket == [tokens |-> -1, seenAt |-> 0]
Admitted == [since |-> 0, at |-> 0, full |-> FALSE]

Init ==
    /\ now = 1
    /\ buckets = [k \in Keys |-> NoBucket]
    /\ told = [k \in Keys |-> Admitted]

Size(table) == Cardinality({k \in Keys : table[k] # NoBucket})

(* Mutation: a bucket is swept a moment too early. *)
Stale_TooEarly(bucket) == bucket.seenAt <= now - MaxIdle
Stale(bucket) == bucket.seenAt < now - MaxIdle

Swept == [k \in Keys |-> IF Stale(buckets[k]) THEN NoBucket ELSE buckets[k]]

TableFull(table) == Size(table) >= MaxBuckets

(* A key that is new to a full table has it swept first.                   *)
Table(k) == IF buckets[k] = NoBucket /\ TableFull(buckets) THEN Swept ELSE buckets

(* What the bucket of a key holds by now.                                  *)
Refilled(bucket) ==
    LET units == bucket.tokens + (now - bucket.seenAt) * Rate IN
    IF bucket = NoBucket \/ units > Full THEN Full ELSE units

(* Mutation: the wait is rounded down. *)
Wait_Down(units) == IF (Cost - units) \div Rate > 1 THEN (Cost - units) \div Rate ELSE 1

(* retryAfterMs, rounded up; units is below Cost, so it is at least 1.     *)
Wait(units) == (Cost - units + Rate - 1) \div Rate

Refused(wait, full) == [since |-> now, at |-> now + wait, full |-> full]

Consume(k) ==
    LET table == Table(k)
        units == Refilled(table[k]) IN
    /\ UNCHANGED now
    /\ IF table[k] = NoBucket /\ TableFull(table)
       THEN /\ buckets' = table
            /\ told' = [told EXCEPT ![k] = Refused(CapacityWait, TRUE)]
       ELSE IF units >= Cost
       THEN /\ buckets' = [table EXCEPT ![k] = [tokens |-> units - Cost, seenAt |-> now]]
            /\ told' = [told EXCEPT ![k] = Admitted]
       ELSE /\ buckets' = [table EXCEPT ![k] = [tokens |-> units, seenAt |-> now]]
            /\ told' = [told EXCEPT ![k] = Refused(Wait(units), FALSE)]

Sweep ==
    /\ buckets' = Swept
    /\ UNCHANGED <<now, told>>

Tick ==
    /\ now < MaxNow
    /\ now' = now + 1
    /\ UNCHANGED <<buckets, told>>

Next == (\E k \in Keys : Consume(k)) \/ Sweep \/ Tick

Spec == Init /\ [][Next]_vars
-----------------------------------------------------------------------------
(* The types, and the bound on memory that many keys may not exceed.       *)
TypeOK ==
    /\ now \in 1 .. MaxNow
    /\ buckets \in [Keys -> [tokens : -1 .. Full, seenAt : 0 .. MaxNow]]
    /\ Size(buckets) <= MaxBuckets
    /\ told \in [Keys -> [since : Nat, at : Nat, full : BOOLEAN]]

(* The table has no room for a new key even after a sweep: as many others   *)
(* as it holds were there within the idle time.                             *)
Crowded(k) ==
    Cardinality({j \in Keys \ {k} : buckets[j] # NoBucket /\ ~Stale(buckets[j])}) >= MaxBuckets

(* A refused key that asks again no earlier than it was told to is          *)
(* admitted, or refused because the table is crowded with others, and that  *)
(* last only if it was refused so before or stayed away beyond the idle     *)
(* time, after which its place may be given away.  The advice given at a    *)
(* full table promises nothing by itself: it is a constant.                 *)
RetryIsEnough ==
    [][\A k \in Keys :
          told[k] # Admitted /\ now >= told[k].at /\ told'[k] # told[k] =>
              \/ told'[k] = Admitted
              \/ /\ told'[k].full /\ Crowded(k)
                 /\ told[k].full \/ now - told[k].since > MaxIdle]_vars

(* Refilling late and forgetting idle keys does not admit more than a      *)
(* limiter that remembers every key would.                                 *)
Promised == INSTANCE RateLimit WITH
    debt <- [k \in Keys |-> Full - Refilled(buckets[k])]
ImplementsLimit == Promised!LimitSpec
=============================================================================
