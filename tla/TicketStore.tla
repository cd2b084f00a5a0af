---------------------------- MODULE TicketStore ----------------------------
(***************************************************************************)
(* The tickets of apps/server/src/stores.ts: short-lived, good for one     *)
(* HELLO, each with the connection epoch that lets a room tell a newer     *)
(* connection of a player from an older one.  Epoch records expire too;    *)
(* an epoch is then taken from the clock.                                  *)
(***************************************************************************)
EXTENDS Integers, FiniteSets

CONSTANTS
    Keys,           \* "<room>:<guest>"
    Tokens,         \* the opaque tokens, one for every ticket ever issued
    TicketTtl,      \* ttlMs
    EpochTtl,       \* epochTtlMs as configured
    MaxNow          \* bound: the clock

ASSUME TtlAssumption ==
    TicketTtl \in Nat \ {0} /\ EpochTtl \in Nat \ {0} /\ MaxNow \in Nat \ {0}

(* #epochTtlMs *)
Kept == IF EpochTtl > TicketTtl THEN EpochTtl ELSE TicketTtl

(* Epochs run ahead of the clock by one for every ticket of a millisecond: *)
(* fewer tickets are issued than an epoch record lives milliseconds, which *)
(* is a day unless configured otherwise.                                   *)
ASSUME RateAssumption == IsFiniteSet(Tokens) /\ Cardinality(Tokens) <= Kept

VARIABLES
    now,        \* the clock, in milliseconds; it never runs backwards
    stored,     \* #tickets
    epochs,     \* #epochs, with NoEpoch where there is no record
    unissued,   \* tokens that randomBytes has not produced yet
    latest,     \* history: the epoch of each key's newest ticket
    uses        \* history: how often a token has been accepted

vars == <<now, stored, epochs, unissued, latest, uses>>

NoEpoch == [value |-> 0, expiresAt |-> 0]

Init ==
    /\ now = 1
    /\ stored = {}
    /\ epochs = [key \in Keys |-> NoEpoch]
    /\ unissued = Tokens
    /\ latest = [key \in Keys |-> 0]
    /\ uses = [token \in Tokens |-> 0]

-----------------------------------------------------------------------------
(* sweepExpired, at the beginning of every method and by the maintenance.  *)
Fresh == {t \in stored : t.expiresAt > now}
FreshEpochs == [key \in Keys |-> IF epochs[key].expiresAt <= now THEN NoEpoch ELSE epochs[key]]

(* Mutation: epochs are counted, without regard to the clock. *)
NextEpoch_Counted(key) == FreshEpochs[key].value + 1

NextEpoch(key) ==
    IF FreshEpochs[key].value + 1 > now THEN FreshEpochs[key].value + 1 ELSE now

Issue(key, token) ==
    /\ token \in unissued
    /\ stored' = Fresh \cup {[token |-> token, key |-> key, epoch |-> NextEpoch(key),
                              expiresAt |-> now + TicketTtl, used |-> FALSE]}
    /\ epochs' = [FreshEpochs EXCEPT ![key] = [value |-> NextEpoch(key),
                                               expiresAt |-> now + Kept]]
    /\ unissued' = unissued \ {token}
    /\ latest' = [latest EXCEPT ![key] = NextEpoch(key)]
    /\ UNCHANGED <<now, uses>>

Usable(token) == {t \in Fresh : t.token = token /\ ~t.used}

(* The claims of Usable are returned; a used ticket is stored until it     *)
(* expires.                                                                *)
Consume(token) ==
    /\ stored' = (Fresh \ Usable(token)) \cup {[t EXCEPT !.used = TRUE] : t \in Usable(token)}
    /\ epochs' = FreshEpochs
    /\ uses' = IF Usable(token) = {} THEN uses ELSE [uses EXCEPT ![token] = @ + 1]
    /\ UNCHANGED <<now, unissued, latest>>

SweepExpired ==
    /\ stored' = Fresh
    /\ epochs' = FreshEpochs
    /\ UNCHANGED <<now, unissued, latest, uses>>

Tick ==
    /\ now < MaxNow
    /\ now' = now + 1
    /\ UNCHANGED <<stored, epochs, unissued, latest, uses>>

Next ==
    \/ \E key \in Keys, token \in Tokens : Issue(key, token)
    \/ \E token \in Tokens : Consume(token)
    \/ SweepExpired
    \/ Tick

Spec == Init /\ [][Next]_vars
-----------------------------------------------------------------------------
TypeOK ==
    /\ now \in Nat
    /\ stored \subseteq [token : Tokens, key : Keys, epoch : Nat \ {0},
                         expiresAt : Nat, used : BOOLEAN]
    /\ epochs \in [Keys -> [value : Nat, expiresAt : Nat]]
    /\ unissued \subseteq Tokens
    /\ latest \in [Keys -> Nat]
    /\ uses \in [Tokens -> 0 .. 1]

(* A newer ticket of a player always wins over an older one in             *)
(* RoomActor's connect, also after the record of the older epoch expired.  *)
EpochsGrow ==
    [][\A key \in Keys : latest'[key] # latest[key] => latest'[key] > latest[key]]_vars

(* stores.ts: "An epoch record must never disappear while a ticket         *)
(* carrying it is valid."                                                  *)
EpochOutlivesTicket ==
    \A t \in Fresh : epochs[t.key].value >= t.epoch /\ epochs[t.key].expiresAt > now

(* The store gives out tickets as their users expect.                      *)
Promised == INSTANCE Tickets WITH
    Epochs <- 1 .. MaxNow + Cardinality(Tokens),
    valid <- {[token |-> t.token, key |-> t.key, epoch |-> t.epoch] :
              t \in {u \in Fresh : ~u.used}}
ImplementsTickets == Promised!TicketsSpec
=============================================================================
