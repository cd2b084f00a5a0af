------------------------- MODULE ServerTablesProofs -------------------------
(***************************************************************************)
(* Proofs about the two tables of the server that sweep what has expired.  *)
(*                                                                         *)
(* TicketStore, for all keys, all finite sets of tokens and all lifetimes. *)
(* The difficulty is an epoch whose record has expired: the next one is    *)
(* read from the clock, which must have passed it.  Since an epoch runs    *)
(* ahead of the clock by fewer milliseconds than tickets were issued, and  *)
(* a record lives longer than that, the clock has.                         *)
(*                                                                         *)
(* RestRateLimiter, for all clients and all numbers it may be configured   *)
(* with.  The difficulty is that buckets are filled late, when they are    *)
(* used, and that idle ones are forgotten: both leave a client what a      *)
(* bucket kept and filled at every moment would hold, the second because a *)
(* bucket idle for MaxIdle has filled up.                                  *)
(***************************************************************************)
EXTENDS MCServerTables, FiniteSetTheorems, TLAPS

(* The ticket store.                                                       *)

Issued == Cardinality(Tokens) - Cardinality(unissued)

Recorded(key) == epochs[key].expiresAt > now

(* While there is a record it holds the newest epoch, and a bound on it    *)
(* below the record's own end; without one the clock has passed it.        *)
EpochKept(key) ==
    /\ Recorded(key) =>
          /\ epochs[key].value = latest[key]
          /\ epochs[key].expiresAt <= now + Kept
          /\ latest[key] < epochs[key].expiresAt - Kept + Issued
    /\ ~Recorded(key) => latest[key] < now

(* A ticket does not outlive the record of its key.                        *)
TicketKept(t) ==
    t.expiresAt > now =>
        /\ t.expiresAt <= epochs[t.key].expiresAt
        /\ t.epoch <= epochs[t.key].value

(* A token names one ticket, which knows whether it was used.              *)
Distinct ==
    /\ \A t \in stored : t.token \notin unissued
    /\ \A t \in stored : uses[t.token] = IF t.used THEN 1 ELSE 0
    /\ \A t, u \in stored : t.token = u.token => t = u
    /\ \A token \in unissued : uses[token] = 0

(* The inductive invariant.                                                *)
Sound ==
    /\ TypeOK
    /\ now \in 1 .. MaxNow
    /\ \A key \in Keys : EpochKept(key)
    /\ \A t \in stored : TicketKept(t)
    /\ Distinct
-----------------------------------------------------------------------------
LEMMA KeptFacts == Kept \in Nat /\ Kept >= TicketTtl /\ Kept > 0
    BY TtlAssumption DEF Kept

LEMMA IssuedFacts ==
    ASSUME NEW S \in SUBSET Tokens
    PROVE  /\ IsFiniteSet(S) /\ Cardinality(S) \in Nat /\ Cardinality(Tokens) \in Nat
           /\ Cardinality(S) <= Cardinality(Tokens)
           /\ \A token \in S : Cardinality(S \ {token}) = Cardinality(S) - 1
<1>1. IsFiniteSet(Tokens)
    BY RateAssumption
<1>2. IsFiniteSet(S) /\ Cardinality(S) <= Cardinality(Tokens)
    BY <1>1, FS_Subset
<1>3. Cardinality(S) \in Nat /\ Cardinality(Tokens) \in Nat
    BY <1>1, <1>2, FS_CardinalityType
<1>4. \A token \in S : Cardinality(S \ {token}) = Cardinality(S) - 1
    BY <1>2, FS_RemoveElement
<1> QED
    BY <1>2, <1>3, <1>4

(* Sweeping forgets neither a living record nor what a dead one proves.    *)
LEMMA FreshFacts ==
    ASSUME Sound
    PROVE  /\ FreshEpochs \in [Keys -> [value : Nat, expiresAt : Nat]]
           /\ Fresh \subseteq stored
           /\ \A key \in Keys :
                 IF Recorded(key) THEN FreshEpochs[key] = epochs[key]
                                  ELSE FreshEpochs[key] = NoEpoch
           /\ \A t \in Fresh : Recorded(t.key) /\ t.key \in Keys
<1>1. FreshEpochs \in [Keys -> [value : Nat, expiresAt : Nat]]
    BY DEF Sound, TypeOK, FreshEpochs, NoEpoch
<1>2. \A key \in Keys : IF Recorded(key) THEN FreshEpochs[key] = epochs[key]
                                         ELSE FreshEpochs[key] = NoEpoch
    BY DEF Sound, TypeOK, FreshEpochs, Recorded
<1>3. \A t \in Fresh : Recorded(t.key) /\ t.key \in Keys
    BY DEF Sound, TypeOK, Fresh, Recorded, TicketKept
<1> QED
    BY <1>1, <1>2, <1>3 DEF Fresh

(* The next epoch is above all earlier ones, and not far ahead of now.     *)
LEMMA NextEpochFacts ==
    ASSUME Sound, NEW key \in Keys
    PROVE  /\ NextEpoch(key) \in Nat /\ NextEpoch(key) > latest[key]
           /\ NextEpoch(key) <= now + Issued /\ Issued \in Nat
<1>1. Issued \in Nat
    BY IssuedFacts DEF Sound, TypeOK, Issued
<1>2. CASE Recorded(key)
  <2>1. FreshEpochs[key].value = latest[key]
      BY <1>2, FreshFacts DEF Sound, EpochKept
  <2>2. latest[key] < now + Issued
      BY <1>1, <1>2, KeptFacts DEF Sound, TypeOK, EpochKept
  <2> QED
      BY <1>1, <2>1, <2>2 DEF Sound, TypeOK, NextEpoch
<1>3. CASE ~Recorded(key)
  <2>1. FreshEpochs[key].value = 0
      BY <1>3, FreshFacts DEF NoEpoch
  <2>2. latest[key] < now
      BY <1>3 DEF Sound, EpochKept
  <2> QED
      BY <1>1, <2>1, <2>2 DEF Sound, TypeOK, NextEpoch
<1> QED
    BY <1>2, <1>3

(* What SweepExpired, and every other call first, leaves is sound.         *)
LEMMA SweepSound ==
    ASSUME Sound, stored' \subseteq Fresh, epochs' = FreshEpochs,
           UNCHANGED <<now, unissued, latest, uses>>
    PROVE  Sound'
<1> USE FreshFacts
<1>1. TypeOK'
    BY DEF Sound, TypeOK
<1>2. \A key \in Keys : EpochKept(key)'
    BY KeptFacts DEF Sound, TypeOK, EpochKept, Recorded, NoEpoch, Issued
<1>3. \A t \in stored' : TicketKept(t)'
    BY DEF Sound, TypeOK, TicketKept, Recorded
<1>4. Distinct'
    BY DEF Sound, Distinct
<1> QED
    BY <1>1, <1>2, <1>3, <1>4 DEF Sound

LEMMA IssueSound ==
    ASSUME Sound, NEW key \in Keys, NEW token \in Tokens, Issue(key, token)
    PROVE  Sound'
<1> DEFINE e == NextEpoch(key)
           ticket == [token |-> token, key |-> key, epoch |-> e,
                      expiresAt |-> now + TicketTtl, used |-> FALSE]
<1>0. e \in Nat /\ e > latest[key] /\ e <= now + Issued /\ Issued \in Nat
    BY NextEpochFacts
<1>1. /\ stored' = Fresh \cup {ticket}
      /\ epochs' = [FreshEpochs EXCEPT ![key] = [value |-> e, expiresAt |-> now + Kept]]
      /\ unissued' = unissued \ {token} /\ token \in unissued
      /\ latest' = [latest EXCEPT ![key] = e]
      /\ now' = now /\ uses' = uses
    BY DEF Issue
<1> HIDE DEF e
<1>2. TypeOK'
  <2>1. latest[key] \in Nat /\ now \in Nat /\ TicketTtl \in Nat
      BY TtlAssumption DEF Sound, TypeOK
  <2>2. ticket \in [token : Tokens, key : Keys, epoch : Nat \ {0}, expiresAt : Nat,
                    used : BOOLEAN]
      BY <1>0, <2>1
  <2> HIDE DEF ticket
  <2>3. stored' \subseteq [token : Tokens, key : Keys, epoch : Nat \ {0}, expiresAt : Nat,
                           used : BOOLEAN]
      BY <1>1, <2>2, FreshFacts DEF Sound, TypeOK
  <2>4. epochs' \in [Keys -> [value : Nat, expiresAt : Nat]]
      BY <1>0, <1>1, <2>1, FreshFacts, KeptFacts
  <2> QED
      BY <1>0, <1>1, <2>3, <2>4 DEF Sound, TypeOK
<1>3. Issued' = Issued + 1
    BY <1>1, IssuedFacts DEF Issued, Sound, TypeOK
<1>4. ASSUME NEW k \in Keys PROVE EpochKept(k)'
  <2>1. CASE k = key
    <3>1. epochs'[k] = [value |-> e, expiresAt |-> now + Kept] /\ latest'[k] = e
        BY <1>1, <2>1, FreshFacts DEF Sound, TypeOK
    <3> QED
        BY <1>0, <1>1, <1>3, <3>1, KeptFacts DEF EpochKept, Recorded, Sound, TypeOK
  <2>2. CASE k # key
    <3>1. epochs'[k] = FreshEpochs[k] /\ latest'[k] = latest[k]
        BY <1>1, <2>2, FreshFacts DEF Sound, TypeOK
    <3>2. latest[k] \in Nat /\ epochs[k].expiresAt \in Nat /\ EpochKept(k) /\ now \in Nat
        BY DEF Sound, TypeOK
    <3>3. CASE Recorded(k)
        BY <1>0, <1>1, <1>3, <3>1, <3>2, <3>3, FreshFacts, KeptFacts DEF EpochKept, Recorded
    <3>4. CASE ~Recorded(k)
        BY <1>1, <3>1, <3>2, <3>4, FreshFacts DEF EpochKept, Recorded, NoEpoch
    <3> QED
        BY <3>3, <3>4
  <2> QED
      BY <2>1, <2>2
<1>5. ASSUME NEW t \in stored' PROVE TicketKept(t)'
  <2>0. epochs'[key] = [value |-> e, expiresAt |-> now + Kept]
      BY <1>1, FreshFacts
  <2>1. CASE t = ticket
      BY <1>1, <2>0, <2>1, KeptFacts, TtlAssumption, <1>0 DEF TicketKept, Sound, TypeOK
  <2>2. CASE t \in Fresh
    <3>0. /\ Recorded(t.key) /\ t.key \in Keys /\ t.epoch \in Nat /\ t.expiresAt \in Nat
          /\ t.expiresAt <= epochs[t.key].expiresAt /\ t.epoch <= epochs[t.key].value
        BY <2>2, FreshFacts DEF Sound, TypeOK, TicketKept, Fresh
    <3>1. CASE t.key = key
      <4>1. epochs[key].value = latest[key] /\ epochs[key].expiresAt <= now + Kept
          BY <3>0, <3>1 DEF Sound, EpochKept
      <4> QED
          BY <1>0, <2>0, <3>0, <3>1, <4>1, KeptFacts DEF TicketKept, Sound, TypeOK
    <3>2. CASE t.key # key
      <4>1. epochs'[t.key] = epochs[t.key]
          BY <1>1, <3>0, <3>2, FreshFacts
      <4> QED
          BY <3>0, <4>1 DEF TicketKept
    <3> QED
        BY <3>1, <3>2
  <2> QED
      BY <1>1, <2>1, <2>2
<1>6. Distinct'
  <2>1. ticket.token = token /\ ~ticket.used
      OBVIOUS
  <2> HIDE DEF ticket
  <2>2. \A t \in Fresh : t \in stored /\ t.token \notin unissued /\ t.token # token
      BY <1>1, FreshFacts DEF Distinct, Sound
  <2>3. uses[token] = 0
      BY <1>1 DEF Distinct, Sound
  <2> QED
      BY <1>1, <2>1, <2>2, <2>3 DEF Distinct, Sound
<1> QED
    BY <1>1, <1>2, <1>4, <1>5, <1>6 DEF Sound

(* The tickets that Consume finds are one ticket, if any.                  *)
LEMMA UsableFacts ==
    ASSUME Sound, NEW token \in Tokens
    PROVE  /\ Usable(token) \subseteq Fresh
           /\ \A t \in Usable(token) :
                 t \in stored /\ t.token = token /\ ~t.used /\ Usable(token) = {t}
    BY FreshFacts DEF Usable, Sound, Distinct

LEMMA ConsumeSound ==
    ASSUME Sound, NEW token \in Tokens, Consume(token)
    PROVE  Sound'
<1>0. /\ stored' = (Fresh \ Usable(token)) \cup {[t EXCEPT !.used = TRUE] : t \in Usable(token)}
      /\ epochs' = FreshEpochs
      /\ uses' = IF Usable(token) = {} THEN uses ELSE [uses EXCEPT ![token] = @ + 1]
      /\ UNCHANGED <<now, unissued, latest>>
    BY DEF Consume
<1>1. CASE Usable(token) = {}
    BY <1>0, <1>1, SweepSound
<1>2. ASSUME NEW t \in Usable(token) PROVE Sound'
  <2> DEFINE u == [t EXCEPT !.used = TRUE]
  <2>1. /\ t \in stored /\ t \in Fresh /\ t.token = token /\ ~t.used /\ Usable(token) = {t}
      BY <1>2, UsableFacts
  <2>2. /\ u.token = token /\ u.used /\ u.key = t.key /\ u.epoch = t.epoch
        /\ u.expiresAt = t.expiresAt
        /\ u \in [token : Tokens, key : Keys, epoch : Nat \ {0}, expiresAt : Nat,
                  used : BOOLEAN]
      BY <2>1 DEF Sound, TypeOK
  <2>3. stored' = (Fresh \ {t}) \cup {u} /\ uses' = [uses EXCEPT ![token] = @ + 1]
      BY <1>0, <2>1
  <2> HIDE DEF u
  <2>4. uses[token] = 0
      BY <2>1 DEF Sound, Distinct
  <2>5. TypeOK'
    <3>1. uses' \in [Tokens -> 0 .. 1]
        BY <2>3, <2>4 DEF Sound, TypeOK
    <3>2. stored' \subseteq [token : Tokens, key : Keys, epoch : Nat \ {0}, expiresAt : Nat,
                             used : BOOLEAN]
        BY <2>2, <2>3, FreshFacts DEF Sound, TypeOK
    <3> QED
        BY <1>0, <3>1, <3>2, FreshFacts DEF Sound, TypeOK
  <2>6. \A key \in Keys : EpochKept(key)'
      BY <1>0, FreshFacts, KeptFacts DEF Sound, TypeOK, EpochKept, Recorded, NoEpoch, Issued
  <2>7. \A s \in Fresh : s \in stored /\ s.key \in Keys /\ Recorded(s.key) /\ TicketKept(s)
      BY FreshFacts DEF Sound
  <2>8. \A s \in stored' : TicketKept(s)'
      BY <1>0, <2>1, <2>2, <2>3, <2>7, FreshFacts DEF TicketKept
  <2>9. Distinct'
    <3>1. \A s \in Fresh \ {t} : s \in stored /\ s.token # token
        BY <2>1, FreshFacts DEF Sound, Distinct
    <3>2. \A s \in stored : s.token \in Tokens
        BY DEF Sound, TypeOK
    <3>3. uses' \in [Tokens -> Nat] /\ uses'[token] = 1
          /\ \A other \in Tokens \ {token} : uses'[other] = uses[other]
        BY <2>3, <2>4 DEF Sound, TypeOK
    <3>4. token \notin unissued /\ unissued \subseteq Tokens
        BY <2>1 DEF Sound, TypeOK, Distinct
    <3> QED
        BY <1>0, <2>2, <2>3, <3>1, <3>2, <3>3, <3>4 DEF Sound, Distinct
  <2> QED
      BY <1>0, <2>5, <2>6, <2>8, <2>9 DEF Sound
<1> QED
    BY <1>1, <1>2

LEMMA TickSound ==
    ASSUME Sound, Tick
    PROVE  Sound'
<1>1. TypeOK' /\ now' \in 1 .. MaxNow
    BY TtlAssumption DEF Tick, Sound, TypeOK
<1>2. Issued \in Nat /\ Issued' = Issued /\ Issued <= Kept
  <2>1. Issued \in Nat /\ Issued <= Cardinality(Tokens)
      BY IssuedFacts DEF Sound, TypeOK, Issued
  <2> QED
      BY <2>1, IssuedFacts, KeptFacts, RateAssumption DEF Tick, Issued
<1>3. ASSUME NEW key \in Keys PROVE EpochKept(key)'
  <2>1. /\ epochs[key].expiresAt \in Nat /\ latest[key] \in Nat /\ now \in Nat
        /\ now' = now + 1 /\ epochs' = epochs /\ latest' = latest /\ EpochKept(key)
      BY DEF Tick, Sound, TypeOK
  <2> QED
      BY <1>2, <2>1, KeptFacts DEF EpochKept, Recorded
<1>4. \A t \in stored' : TicketKept(t)'
    BY DEF Tick, Sound, TypeOK, TicketKept
<1>5. Distinct'
    BY DEF Tick, Sound, Distinct
<1> QED
    BY <1>1, <1>3, <1>4, <1>5 DEF Sound

LEMMA StepSound == Sound /\ [Next]_vars => Sound'
<1> SUFFICES ASSUME Sound, [Next]_vars PROVE Sound'
    OBVIOUS
<1>1. ASSUME NEW key \in Keys, NEW token \in Tokens, Issue(key, token) PROVE Sound'
    BY <1>1, IssueSound
<1>2. ASSUME NEW token \in Tokens, Consume(token) PROVE Sound'
    BY <1>2, ConsumeSound
<1>3. CASE SweepExpired
    BY <1>3, SweepSound DEF SweepExpired
<1>4. CASE Tick
    BY <1>4, TickSound
<1>5. CASE UNCHANGED vars
    BY <1>5 DEF vars, Sound, TypeOK, EpochKept, Recorded, TicketKept, Distinct, Issued
<1> QED
    BY <1>1, <1>2, <1>3, <1>4, <1>5 DEF Next

LEMMA InitSound == Init => Sound
<1> SUFFICES ASSUME Init PROVE Sound
    OBVIOUS
<1>1. TypeOK /\ now \in 1 .. MaxNow
    BY TtlAssumption DEF Init, TypeOK, NoEpoch
<1>2. \A key \in Keys : EpochKept(key)
    BY DEF Init, EpochKept, Recorded, NoEpoch
<1>3. (\A t \in stored : TicketKept(t)) /\ Distinct
    BY DEF Init, Distinct
<1> QED
    BY <1>1, <1>2, <1>3 DEF Sound

LEMMA AlwaysSound == Spec => []Sound
    BY InitSound, StepSound, PTL DEF Spec
-----------------------------------------------------------------------------
(* Every state of the store has its types; no token is accepted twice.     *)
THEOREM StoreTypeCorrect == Spec => []TypeOK
    BY AlwaysSound, PTL DEF Sound

(* The record of an epoch is there as long as a ticket carries the epoch.  *)
THEOREM RecordOutlivesTicket == Spec => []EpochOutlivesTicket
<1>1. Sound => EpochOutlivesTicket
    BY FreshFacts DEF Sound, TypeOK, EpochOutlivesTicket, Fresh, TicketKept, Recorded
<1> QED
    BY <1>1, AlwaysSound, PTL

(* A newer ticket of a player has the higher epoch, however many records   *)
(* expired in between.                                                     *)
THEOREM EpochsAlwaysGrow == Spec => EpochsGrow
<1>1. Sound /\ [Next]_vars =>
          [\A key \in Keys : latest'[key] # latest[key] => latest'[key] > latest[key]]_vars
  <2> SUFFICES ASSUME Sound, Next, NEW key \in Keys, latest'[key] # latest[key]
               PROVE  latest'[key] > latest[key]
      BY DEF vars
  <2>1. PICK k \in Keys, token \in Tokens : Issue(k, token)
      BY DEF Next, Consume, SweepExpired, Tick
  <2>2. latest' = [latest EXCEPT ![k] = NextEpoch(k)] /\ latest \in [Keys -> Nat]
      BY <2>1 DEF Issue, Sound, TypeOK
  <2>3. NextEpoch(k) > latest[k]
      BY NextEpochFacts
  <2> QED
      BY <2>2, <2>3
<1> QED
    BY <1>1, AlwaysSound, PTL DEF Spec, EpochsGrow
-----------------------------------------------------------------------------
(* The refinement: what is valid in Tickets is what can be used here.      *)
Claim(t) == [token |-> t.token, key |-> t.key, epoch |-> t.epoch]
Unused == {t \in Fresh : ~t.used}
Valid == {Claim(t) : t \in Unused}
Given == 1 .. MaxNow + Cardinality(Tokens)

LEMMA ValidFacts ==
    /\ Promised!tickets = <<Valid, unissued, latest, uses>>
    /\ Promised!tickets' = <<Valid', unissued', latest', uses'>>
    BY DEF Promised!tickets, Valid, Unused, Claim

LEMMA IssueImplements ==
    ASSUME Sound, NEW key \in Keys, NEW token \in Tokens, Issue(key, token)
    PROVE  Promised!TicketsNext
<1> DEFINE e == NextEpoch(key)
           ticket == [token |-> token, key |-> key, epoch |-> e,
                      expiresAt |-> now + TicketTtl, used |-> FALSE]
<1>1. e \in Given /\ e > latest[key]
  <2>1. Issued <= Cardinality(Tokens) /\ Cardinality(Tokens) \in Nat
      BY IssuedFacts DEF Issued, Sound, TypeOK
  <2> QED
      BY <2>1, NextEpochFacts, TtlAssumption DEF Given, Sound, TypeOK
<1>2. stored' = Fresh \cup {ticket} /\ now' = now
    BY DEF Issue
<1>3. ticket.expiresAt > now /\ ~ticket.used
    BY TtlAssumption DEF Sound, TypeOK
<1>4. Claim(ticket) = [token |-> token, key |-> key, epoch |-> e]
    BY DEF Claim
<1> HIDE DEF e, ticket
<1>5. Unused' = Unused \cup {ticket}
    BY <1>2, <1>3 DEF Unused, Fresh
<1>6. Valid' = Valid \cup {[token |-> token, key |-> key, epoch |-> e]}
    BY <1>4, <1>5 DEF Valid, Claim
<1>7. Promised!Issue(token, key, e)
    BY <1>1, <1>6 DEF Issue, Promised!Issue, Valid, Unused, Claim, e
<1> QED
    BY <1>1, <1>7 DEF Promised!TicketsNext, Promised!Issue, Given

LEMMA ConsumeImplements ==
    ASSUME Sound, NEW token \in Tokens, Consume(token)
    PROVE  Promised!TicketsNext \/ UNCHANGED Promised!tickets
<1>0. /\ stored' = (Fresh \ Usable(token)) \cup {[t EXCEPT !.used = TRUE] : t \in Usable(token)}
      /\ uses' = IF Usable(token) = {} THEN uses ELSE [uses EXCEPT ![token] = @ + 1]
      /\ UNCHANGED <<now, unissued, latest>>
    BY DEF Consume
<1>1. CASE Usable(token) = {}
  <2>1. Unused' = Unused
      BY <1>0, <1>1 DEF Unused, Fresh
  <2> QED
      BY <1>0, <1>1, <2>1, ValidFacts DEF Valid, Claim
<1>2. ASSUME NEW t \in Usable(token) PROVE Promised!TicketsNext
  <2> DEFINE u == [t EXCEPT !.used = TRUE]
  <2>1. t \in Fresh /\ t.token = token /\ ~t.used /\ Usable(token) = {t}
      BY <1>2, UsableFacts
  <2>2. u.used
      BY <2>1, FreshFacts DEF Sound, TypeOK
  <2>3. stored' = (Fresh \ {t}) \cup {u} /\ uses' = [uses EXCEPT ![token] = @ + 1]
      BY <1>0, <2>1
  <2> HIDE DEF u
  <2>4. Unused' = Unused \ {t}
      BY <1>0, <2>1, <2>2, <2>3 DEF Unused, Fresh
  <2>5. t \in Unused /\ Claim(t) \in Valid /\ Claim(t).token = token
      BY <2>1 DEF Unused, Valid, Claim
  <2>6. \A s \in Unused : Claim(s) = Claim(t) => s = t
    <3>1. \A s \in Unused : Claim(s).token = s.token /\ s \in stored
        BY FreshFacts DEF Claim, Unused
    <3> QED
        BY <2>1, <2>5, <3>1, FreshFacts DEF Sound, Distinct
  <2>7. Valid' = Valid \ {Claim(t)}
      BY <2>4, <2>5, <2>6 DEF Valid
  <2>8. Promised!Use(Claim(t))
      BY <1>0, <2>3, <2>5, <2>7 DEF Promised!Use, Valid, Unused, Claim
  <2> QED
      BY <2>5, <2>8 DEF Promised!TicketsNext, Valid, Unused, Claim
<1> QED
    BY <1>1, <1>2

LEMMA ExpiryImplements ==
    ASSUME Valid' \subseteq Valid, UNCHANGED <<unissued, latest, uses>>
    PROVE  Promised!TicketsNext
<1>1. Promised!Expire(Valid \ Valid')
    BY DEF Promised!Expire, Valid, Unused, Claim
<1> QED
    BY <1>1 DEF Promised!TicketsNext, Promised!Expire, Valid, Unused, Claim

LEMMA StepImplements ==
    Sound /\ [Next]_vars => [Promised!TicketsNext]_(Promised!tickets)
<1> SUFFICES ASSUME Sound, [Next]_vars
             PROVE  Promised!TicketsNext \/ UNCHANGED Promised!tickets
    OBVIOUS
<1>1. ASSUME NEW key \in Keys, NEW token \in Tokens, Issue(key, token)
      PROVE  Promised!TicketsNext
    BY <1>1, IssueImplements
<1>2. ASSUME NEW token \in Tokens, Consume(token)
      PROVE  Promised!TicketsNext \/ UNCHANGED Promised!tickets
    BY <1>2, ConsumeImplements
<1>3. CASE SweepExpired
  <2>1. Unused' = Unused
      BY <1>3 DEF SweepExpired, Unused, Fresh
  <2> QED
      BY <1>3, <2>1, ValidFacts DEF SweepExpired, Valid, Claim
<1>4. CASE Tick
  <2>1. \A t \in stored : t.expiresAt \in Nat
      BY DEF Sound, TypeOK
  <2>2. Unused' \subseteq Unused
      BY <1>4, <2>1 DEF Tick, Unused, Fresh, Sound, TypeOK
  <2>3. Valid' \subseteq Valid
      BY <2>2 DEF Valid, Claim
  <2> QED
      BY <1>4, <2>3, ExpiryImplements DEF Tick
<1>5. CASE UNCHANGED vars
  <2>1. Unused' = Unused
      BY <1>5 DEF vars, Unused, Fresh
  <2> QED
      BY <1>5, <2>1, ValidFacts DEF vars, Valid, Claim
<1> QED
    BY <1>1, <1>2, <1>3, <1>4, <1>5 DEF Next

(* The store implements Tickets: one use at most of each ticket, only      *)
(* while it is valid, with epochs that grow.                               *)
THEOREM StoreImplementsTickets == Spec => ImplementsTickets
<1>1. Init => Promised!TicketsInit
    BY DEF Init, Promised!TicketsInit, Fresh
<1> QED
    BY <1>1, AlwaysSound, StepImplements, PTL DEF Spec, ImplementsTickets, Promised!TicketsSpec
-----------------------------------------------------------------------------
(* The rate limiter.                                                       *)

(* What a bucket holds was left in it, and after a refusal it fills up to   *)
(* one token in the time the client was told to wait.  A refused client     *)
(* that has no bucket found the table full or stayed away beyond MaxIdle.   *)
Advised(b, t) ==
    /\ t \in [since : 0 .. now, at : Nat, full : BOOLEAN]
    /\ \/ /\ b = Limiter!NoBucket
          /\ t # Limiter!Admitted => t.full \/ now - t.since > MaxIdle
       \/ /\ b \in [tokens : 0 .. Limiter!Full, seenAt : 1 .. now]
          /\ t # Limiter!Admitted =>
                /\ t.since = b.seenAt /\ t.at >= b.seenAt
                /\ b.tokens + (t.at - b.seenAt) * Rate >= Cost

(* The inductive invariant of the limiter.                                  *)
Filled ==
    /\ now \in Nat \ {0}
    /\ DOMAIN buckets = Clients
    /\ DOMAIN told = Clients
    /\ \A k \in Clients : Advised(buckets[k], told[k])
---------------------------------------------------------------------------
LEMMA Numbers ==
    /\ Burst \in Nat \ {0} /\ Cost \in Nat \ {0} /\ Rate \in Nat \ {0}
    /\ MaxBuckets \in Nat \ {0} /\ MaxIdle \in Nat \ {0} /\ CapacityWait \in Nat \ {0}
    /\ Limiter!Full \in Nat /\ Limiter!Full >= Cost
    /\ Limiter!Full <= (MaxIdle + 1) * Rate
<1>1. /\ Burst \in Nat \ {0} /\ Cost \in Nat \ {0} /\ Rate \in Nat \ {0}
      /\ MaxBuckets \in Nat \ {0} /\ MaxIdle \in Nat \ {0} /\ CapacityWait \in Nat \ {0}
    BY LimiterAssumption DEF Limiter!NumbersArePositive
<1>2. Burst * Cost \in Nat /\ Burst * Cost >= Cost
    BY <1>1
<1>3. Burst * Cost <= (MaxIdle + 1) * Rate
    BY LimiterAssumption DEF Limiter!IdleIsFull
<1> QED
    BY <1>1, <1>2, <1>3 DEF Limiter!Full

(* Of two spans the longer one gives back at least as much.                 *)
LEMMA LongerFillsMore ==
    ASSUME NEW a \in Nat, NEW b \in Nat, a <= b
    PROVE  a * Rate \in Nat /\ b * Rate \in Nat /\ a * Rate <= b * Rate
    BY Numbers

(* The remainder of a division is below the divisor.                        *)
LEMMA Quotient ==
    ASSUME NEW n \in Nat, NEW r \in Nat \ {0}
    PROVE  n \div r \in Nat /\ n < (n \div r) * r + r
<1>1. n \div r \in Nat
    BY Z3
<1>2. n < (n \div r) * r + r
    BY Z3
<1> QED
    BY <1>1, <1>2

(* The wait of a refusal is long enough.                                    *)
LEMMA WaitFills ==
    ASSUME NEW units \in Nat, units < Cost
    PROVE  /\ Limiter!Wait(units) \in Nat
           /\ units + Limiter!Wait(units) * Rate >= Cost
<1> DEFINE n == Cost - units + Rate - 1
           q == n \div Rate
<1>1. n \in Nat /\ Rate \in Nat \ {0}
    BY Numbers
<1>2. q \in Nat /\ n < q * Rate + Rate
    BY <1>1, Quotient
<1> HIDE DEF q
<1>3. q * Rate \in Nat
    BY <1>1, <1>2
<1>4. units + q * Rate >= Cost
    BY <1>1, <1>2, <1>3, Numbers
<1> QED
    BY <1>2, <1>4 DEF Limiter!Wait, q

(* What a bucket holds by now, of whose fields only one is a product.       *)
LEMMA RefilledFacts ==
    ASSUME NEW n \in Nat, NEW b, b = Limiter!NoBucket
                \/ b \in [tokens : 0 .. Limiter!Full, seenAt : 1 .. n],
           now = n
    PROVE  LET units == b.tokens + (n - b.seenAt) * Rate IN
           /\ b = Limiter!NoBucket => Limiter!Refilled(b) = Limiter!Full
           /\ b # Limiter!NoBucket =>
                /\ units \in Nat /\ b.tokens \in Nat /\ b.seenAt \in Nat
                /\ (n - b.seenAt) * Rate \in Nat
                /\ Limiter!Refilled(b) = IF units > Limiter!Full THEN Limiter!Full ELSE units
           /\ Limiter!Refilled(b) \in 0 .. Limiter!Full
<1> DEFINE span == (n - b.seenAt) * Rate
<1>1. CASE b = Limiter!NoBucket
    BY <1>1, Numbers DEF Limiter!Refilled
<1>2. CASE b # Limiter!NoBucket
  <2>1. b.tokens \in 0 .. Limiter!Full /\ b.seenAt \in 1 .. n
      BY <1>2
  <2>2. n - b.seenAt \in Nat
      BY <2>1
  <2>3. span \in Nat
      BY <2>2, LongerFillsMore
  <2> HIDE DEF span
  <2>4. Limiter!Refilled(b) = IF b.tokens + span > Limiter!Full THEN Limiter!Full ELSE b.tokens + span
      BY <1>2 DEF Limiter!Refilled, span
  <2>5. b.tokens + span \in Nat /\ Limiter!Refilled(b) \in 0 .. Limiter!Full
      BY <2>1, <2>3, <2>4, Numbers
  <2> QED
      BY <1>2, <2>1, <2>3, <2>4, <2>5 DEF span
<1> QED
    BY <1>1, <1>2

(* Left alone for longer than MaxIdle, a bucket has filled up: the sweep    *)
(* takes nothing from anybody.                                              *)
LEMMA StaleIsFull ==
    ASSUME Filled, NEW k \in Clients, Limiter!Stale(buckets[k])
    PROVE  Limiter!Refilled(buckets[k]) = Limiter!Full
<1> DEFINE b == buckets[k]
<1>1. b = Limiter!NoBucket \/ b \in [tokens : 0 .. Limiter!Full, seenAt : 1 .. now]
    BY DEF Filled, Advised
<1>2. CASE b = Limiter!NoBucket
    BY <1>2 DEF Limiter!Refilled
<1>3. CASE b \in [tokens : 0 .. Limiter!Full, seenAt : 1 .. now] /\ b # Limiter!NoBucket
  <2>1. b.seenAt < now - MaxIdle /\ b.seenAt \in Nat /\ now \in Nat /\ b.tokens \in Nat
      BY <1>3, Numbers DEF Limiter!Stale, Filled
  <2>2. MaxIdle + 1 \in Nat /\ now - b.seenAt \in Nat /\ MaxIdle + 1 <= now - b.seenAt
      BY <2>1, Numbers
  <2> DEFINE span == (now - b.seenAt) * Rate
  <2>3. span \in Nat /\ (MaxIdle + 1) * Rate \in Nat /\ (MaxIdle + 1) * Rate <= span
      BY <2>2, LongerFillsMore
  <2>4. Limiter!Refilled(b) = IF b.tokens + span > Limiter!Full THEN Limiter!Full ELSE b.tokens + span
      BY <1>3 DEF Limiter!Refilled
  <2> HIDE DEF span
  <2> QED
      BY <2>1, <2>3, <2>4, Numbers
<1> QED
    BY <1>1, <1>2, <1>3

(* The table a client is looked up in leaves everybody what he has, and     *)
(* lacks only what is stale.                                                *)
LEMMA TableKeeps ==
    ASSUME Filled, NEW k \in Clients
    PROVE  /\ DOMAIN Limiter!Table(k) = Clients
           /\ \A j \in Clients :
                /\ \/ Limiter!Table(k)[j] = buckets[j]
                   \/ Limiter!Stale(buckets[j]) /\ Limiter!Table(k)[j] = Limiter!NoBucket
                /\ Limiter!Refilled(Limiter!Table(k)[j]) = Limiter!Refilled(buckets[j])
<1>1. CASE Limiter!Table(k) = buckets
    BY <1>1 DEF Filled
<1>2. CASE Limiter!Table(k) = Limiter!Swept
  <2>1. \A j \in Clients : Limiter!Stale(buckets[j]) =>
            Limiter!Refilled(buckets[j]) = Limiter!Refilled(Limiter!NoBucket)
      BY StaleIsFull DEF Limiter!Refilled
  <2> QED
      BY <1>2, <2>1 DEF Limiter!Swept
<1> QED
    BY <1>1, <1>2 DEF Limiter!Table

(* A table that is full for a client holds others, all seen within MaxIdle. *)
LEMMA FullIsCrowded ==
    ASSUME Filled, NEW k \in Clients,
           Limiter!Table(k)[k] = Limiter!NoBucket, Limiter!TableFull(Limiter!Table(k))
    PROVE  buckets[k] = Limiter!NoBucket /\ Limiter!Crowded(k)
<1>1. buckets[k] = Limiter!NoBucket /\ Limiter!Table(k) = Limiter!Swept
    BY DEF Limiter!Table
<1>2. {j \in Clients : Limiter!Swept[j] # Limiter!NoBucket}
        = {j \in Clients \ {k} : buckets[j] # Limiter!NoBucket /\ ~Limiter!Stale(buckets[j])}
    BY <1>1 DEF Limiter!Swept
<1> QED
    BY <1>1, <1>2 DEF Limiter!TableFull, Limiter!Size, Limiter!Crowded

(* What was just written into a bucket is what it holds.                    *)
LEMMA WrittenNow ==
    ASSUME NEW n \in Nat \ {0}, now = n, NEW units \in 0 .. Limiter!Full
    PROVE  /\ [tokens |-> units, seenAt |-> n] # Limiter!NoBucket
           /\ Limiter!Refilled([tokens |-> units, seenAt |-> n]) = units
<1> DEFINE b == [tokens |-> units, seenAt |-> n]
<1>1. b # Limiter!NoBucket
    BY Numbers DEF Limiter!NoBucket
<1>2. (n - n) * Rate = 0
    BY Numbers
<1>3. b.tokens + (n - b.seenAt) * Rate = units
    BY <1>2, Numbers
<1>4. b \in [tokens : 0 .. Limiter!Full, seenAt : 1 .. n]
    OBVIOUS
<1>5. Limiter!Refilled(b) = units
    BY <1>1, <1>3, <1>4, RefilledFacts, Numbers
<1> QED
    BY <1>1, <1>5

(* Losing a stale bucket is as sound as keeping it.                         *)
LEMMA StaleMayGo ==
    ASSUME Filled, NEW j \in Clients, Limiter!Stale(buckets[j])
    PROVE  Advised(Limiter!NoBucket, told[j])
<1>1. CASE buckets[j] = Limiter!NoBucket
    BY <1>1 DEF Filled
<1>2. CASE buckets[j] # Limiter!NoBucket
  <2>1. buckets[j] \in [tokens : 0 .. Limiter!Full, seenAt : 1 .. now]
      BY <1>2 DEF Filled, Advised
  <2>2. now - buckets[j].seenAt > MaxIdle
      BY <2>1, Numbers DEF Limiter!Stale, Filled
  <2> QED
      BY <1>2, <2>2 DEF Filled, Advised
<1> QED
    BY <1>1, <1>2

(* A request takes one token of its own client, or nothing.                 *)
LEMMA ConsumeFills ==
    ASSUME Filled, NEW k \in Clients, Limiter!Consume(k)
    PROVE  /\ Filled'
           /\ \A j \in Clients \ {k} :
                Limiter!Refilled(buckets[j])' = Limiter!Refilled(buckets[j])
           /\ \/ Limiter!Refilled(buckets[k])' = Limiter!Refilled(buckets[k])
              \/ /\ Limiter!Refilled(buckets[k]) >= Cost
                 /\ Limiter!Refilled(buckets[k])' = Limiter!Refilled(buckets[k]) - Cost
<1> DEFINE T == Limiter!Table(k)
           units == Limiter!Refilled(T[k])
<1>1. /\ DOMAIN T = Clients
      /\ \A j \in Clients : /\ \/ T[j] = buckets[j]
                               \/ Limiter!Stale(buckets[j]) /\ T[j] = Limiter!NoBucket
                            /\ Limiter!Refilled(T[j]) = Limiter!Refilled(buckets[j])
    BY TableKeeps
<1>2. now' = now /\ now \in Nat \ {0} /\ DOMAIN told = Clients
    BY DEF Limiter!Consume, Filled
<1>3. \A b : Limiter!Refilled(b)' = Limiter!Refilled(b)
    BY <1>2 DEF Limiter!Refilled, Limiter!Full, Limiter!NoBucket
<1>4. units \in 0 .. Limiter!Full
  <2>1. buckets[k] = Limiter!NoBucket
        \/ buckets[k] \in [tokens : 0 .. Limiter!Full, seenAt : 1 .. now]
      BY DEF Filled, Advised
  <2> QED
      BY <1>1, <1>2, <2>1, RefilledFacts
<1>5. \A j \in Clients : Advised(T[j], told[j])
    BY <1>1, StaleMayGo DEF Filled
<1>6. \A b, t : Advised(b, t)' <=> Advised(b, t)
    BY <1>2 DEF Advised, Limiter!NoBucket, Limiter!Admitted, Limiter!Full
<1> HIDE DEF T, units
<1>7. CASE /\ T[k] = Limiter!NoBucket
           /\ buckets' = T
           /\ told' = [told EXCEPT ![k] = Limiter!Refused(CapacityWait, TRUE)]
  <2>1. DOMAIN told' = Clients /\ \A j \in Clients \ {k} : told'[j] = told[j]
      BY <1>2, <1>7
  <2>2. told'[k] = [since |-> now, at |-> now + CapacityWait, full |-> TRUE]
      BY <1>2, <1>7 DEF Limiter!Refused
  <2>3. Advised(T[k], told'[k])
    <3>1. now + CapacityWait \in Nat
        BY <1>2, Numbers
    <3>2. told'[k] \in [since : 0 .. now, at : Nat, full : BOOLEAN] /\ told'[k].full
        BY <1>2, <2>2, <3>1
    <3> QED
        BY <1>7, <3>2 DEF Advised
  <2>4. Filled'
      BY <1>1, <1>2, <1>5, <1>6, <1>7, <2>1, <2>3 DEF Filled
  <2> QED
      BY <1>1, <1>3, <1>7, <2>4
<1>8. CASE /\ units >= Cost
           /\ buckets' = [T EXCEPT ![k] = [tokens |-> units - Cost, seenAt |-> now]]
           /\ told' = [told EXCEPT ![k] = Limiter!Admitted]
  <2>1. units - Cost \in 0 .. Limiter!Full
      BY <1>4, <1>8, Numbers
  <2>2. buckets'[k] = [tokens |-> units - Cost, seenAt |-> now] /\ told'[k] = Limiter!Admitted
      BY <1>1, <1>2, <1>8
  <2>3. \A j \in Clients \ {k} : buckets'[j] = T[j] /\ told'[j] = told[j]
      BY <1>1, <1>2, <1>8
  <2>4. Filled'
    <3>1. DOMAIN buckets' = Clients /\ DOMAIN told' = Clients
        BY <1>1, <1>2, <1>8
    <3>2. Advised(buckets'[k], told'[k])
        BY <1>2, <2>1, <2>2 DEF Advised, Limiter!Admitted
    <3> QED
        BY <1>2, <1>5, <1>6, <2>3, <3>1, <3>2 DEF Filled
  <2>5. Limiter!Refilled(buckets[k])' = units - Cost
      BY <1>2, <1>3, <2>1, <2>2, WrittenNow
  <2> QED
      BY <1>1, <1>3, <1>8, <2>3, <2>4, <2>5 DEF units
<1>9. CASE /\ units < Cost
           /\ buckets' = [T EXCEPT ![k] = [tokens |-> units, seenAt |-> now]]
           /\ told' = [told EXCEPT ![k] = Limiter!Refused(Limiter!Wait(units), FALSE)]
  <2>1. /\ units \in Nat /\ Limiter!Wait(units) \in Nat
        /\ units + Limiter!Wait(units) * Rate >= Cost
      BY <1>4, <1>9, WaitFills, Numbers
  <2>2. /\ buckets'[k] = [tokens |-> units, seenAt |-> now]
        /\ told'[k] = [since |-> now, at |-> now + Limiter!Wait(units), full |-> FALSE]
      BY <1>1, <1>2, <1>9 DEF Limiter!Refused
  <2>3. \A j \in Clients \ {k} : buckets'[j] = T[j] /\ told'[j] = told[j]
      BY <1>1, <1>2, <1>9
  <2>4. Filled'
    <3>1. DOMAIN buckets' = Clients /\ DOMAIN told' = Clients
        BY <1>1, <1>2, <1>9
    <3>2. Advised(buckets'[k], told'[k])
      <4>1. told'[k].at - now = Limiter!Wait(units) /\ told'[k].at >= now
          BY <1>2, <2>1, <2>2
      <4>2. (told'[k].at - buckets'[k].seenAt) * Rate = Limiter!Wait(units) * Rate
          BY <2>2, <4>1
      <4>3. buckets'[k].tokens + (told'[k].at - buckets'[k].seenAt) * Rate >= Cost
          BY <2>1, <2>2, <4>2
      <4> HIDE DEF T
      <4>4. told'[k] \in [since : 0 .. now, at : Nat, full : BOOLEAN]
          BY <1>2, <2>1, <2>2
      <4> QED
          BY <1>2, <1>4, <2>2, <4>1, <4>3, <4>4 DEF Advised
    <3> QED
        BY <1>2, <1>5, <1>6, <2>3, <3>1, <3>2 DEF Filled
  <2>5. Limiter!Refilled(buckets[k])' = units
      BY <1>2, <1>3, <1>4, <2>2, WrittenNow
  <2> QED
      BY <1>1, <1>3, <2>3, <2>4, <2>5 DEF units
<1>10. units >= Cost \/ units < Cost
    BY <1>4, Numbers
<1>11. \/ /\ T[k] = Limiter!NoBucket
          /\ buckets' = T
          /\ told' = [told EXCEPT ![k] = Limiter!Refused(CapacityWait, TRUE)]
       \/ /\ units >= Cost
          /\ buckets' = [T EXCEPT ![k] = [tokens |-> units - Cost, seenAt |-> now]]
          /\ told' = [told EXCEPT ![k] = Limiter!Admitted]
       \/ /\ ~(units >= Cost)
          /\ buckets' = [T EXCEPT ![k] = [tokens |-> units, seenAt |-> now]]
          /\ told' = [told EXCEPT ![k] = Limiter!Refused(Limiter!Wait(units), FALSE)]
    BY Zenon DEF Limiter!Consume, T, units
<1> QED
    BY <1>7, <1>8, <1>9, <1>10, <1>11

LEMMA SweepFills ==
    ASSUME Filled, Limiter!Sweep
    PROVE  /\ Filled'
           /\ \A j \in Clients :
                Limiter!Refilled(buckets[j])' = Limiter!Refilled(buckets[j])
<1>1. now' = now /\ told' = told
    BY DEF Limiter!Sweep
<1>2. \A j \in Clients :
        \/ buckets'[j] = buckets[j]
        \/ Limiter!Stale(buckets[j]) /\ buckets'[j] = Limiter!NoBucket
    BY DEF Limiter!Sweep, Limiter!Swept
<1>3. Filled'
  <2>1. \A b, t : Advised(b, t)' <=> Advised(b, t)
      BY <1>1 DEF Advised, Limiter!NoBucket, Limiter!Admitted, Limiter!Full
  <2>2. \A j \in Clients : Advised(buckets'[j], told[j])
      BY <1>2, StaleMayGo DEF Filled
  <2> QED
      BY <1>1, <2>1, <2>2 DEF Limiter!Sweep, Limiter!Swept, Filled
<1>4. \A b : Limiter!Refilled(b)' = Limiter!Refilled(b)
    BY <1>1 DEF Limiter!Refilled, Limiter!Full, Limiter!NoBucket
<1>5. \A j \in Clients : Limiter!Stale(buckets[j]) =>
          Limiter!Refilled(buckets[j]) = Limiter!Refilled(Limiter!NoBucket)
    BY StaleIsFull DEF Limiter!Refilled
<1> QED
    BY <1>2, <1>3, <1>4, <1>5

(* A millisecond pays off Rate of what a client owes.                       *)
LEMMA TickFills ==
    ASSUME Filled, Limiter!Tick
    PROVE  /\ Filled'
           /\ \A j \in Clients :
                Limiter!Full - Limiter!Refilled(buckets[j])'
                    = Limiter!Promised!Paid(Limiter!Full - Limiter!Refilled(buckets[j]))
<1>1. /\ now' = now + 1 /\ buckets' = buckets /\ told' = told
      /\ now \in Nat \ {0} /\ now' \in Nat \ {0}
    BY DEF Limiter!Tick, Filled
<1>2. Filled'
  <2>1. \A b, t : Advised(b, t) => Advised(b, t)'
      BY <1>1, Numbers DEF Advised, Limiter!NoBucket, Limiter!Admitted, Limiter!Full
  <2> QED
      BY <1>1, <2>1 DEF Filled
<1>3. ASSUME NEW j \in Clients
      PROVE  Limiter!Full - Limiter!Refilled(buckets[j])'
                 = Limiter!Promised!Paid(Limiter!Full - Limiter!Refilled(buckets[j]))
  <2> DEFINE b == buckets[j]
             spent == (now - b.seenAt) * Rate
             later == (now + 1 - b.seenAt) * Rate
  <2>1. b' = b
      BY <1>1
  <2>2. CASE b = Limiter!NoBucket
    <3>1. Limiter!Refilled(b) = Limiter!Full /\ Limiter!Refilled(b)' = Limiter!Full
        BY <2>1, <2>2 DEF Limiter!Refilled, Limiter!Full, Limiter!NoBucket
    <3> QED
        BY <3>1, Numbers DEF Limiter!Promised!Paid
  <2>3. CASE b \in [tokens : 0 .. Limiter!Full, seenAt : 1 .. now] /\ b # Limiter!NoBucket
    <3>1. now - b.seenAt \in Nat /\ b.tokens \in Nat /\ b.seenAt \in Nat
        BY <1>1, <2>3
    <3>2. now + 1 - b.seenAt = (now - b.seenAt) + 1
        BY <1>1, <3>1
    <3>3. \A n \in Nat : (n + 1) * Rate = n * Rate + Rate
        BY Numbers
    <3>4. spent \in Nat /\ later = spent + Rate
        BY <3>1, <3>2, <3>3, LongerFillsMore
    <3>5. Limiter!Refilled(b) = IF b.tokens + spent > Limiter!Full THEN Limiter!Full ELSE b.tokens + spent
        BY <2>3 DEF Limiter!Refilled
    <3>6. Limiter!Refilled(b)' = IF b.tokens + later > Limiter!Full THEN Limiter!Full ELSE b.tokens + later
        BY <1>1, <2>1, <2>3 DEF Limiter!Refilled, Limiter!Full, Limiter!NoBucket
    <3> HIDE DEF spent, later
    <3> QED
        BY <3>1, <3>4, <3>5, <3>6, Numbers DEF Limiter!Promised!Paid
  <2> QED
      BY <2>2, <2>3 DEF Filled, Advised
<1> QED
    BY <1>2, <1>3

LEMMA AlwaysFilled == Limiter!Spec => []Filled
<1>1. Limiter!Init => Filled
    BY DEF Limiter!Init, Filled, Advised, Limiter!Admitted
<1>2. Filled /\ [Limiter!Next]_(Limiter!vars) => Filled'
  <2> SUFFICES ASSUME Filled, [Limiter!Next]_(Limiter!vars) PROVE Filled'
      OBVIOUS
  <2>1. CASE UNCHANGED Limiter!vars
      BY <2>1 DEF Limiter!vars, Filled, Advised, Limiter!Admitted, Limiter!NoBucket, Limiter!Full
  <2> QED
      BY <2>1, ConsumeFills, SweepFills, TickFills DEF Limiter!Next
<1> QED
    BY <1>1, <1>2, PTL DEF Limiter!Spec

(* A bucket that was refused has filled up to a token when its client was   *)
(* told to come back.                                                       *)
LEMMA WaitedFills ==
    ASSUME Filled, NEW k \in Clients, told[k] # Limiter!Admitted, now >= told[k].at
    PROVE  Limiter!Refilled(buckets[k]) >= Cost
<1> DEFINE b == buckets[k]
           at == told[k].at
           waited == (at - b.seenAt) * Rate
           spent == (now - b.seenAt) * Rate
<1>1. CASE b = Limiter!NoBucket
    BY <1>1, Numbers DEF Limiter!Refilled
<1>2. CASE b # Limiter!NoBucket
  <2>1. /\ b \in [tokens : 0 .. Limiter!Full, seenAt : 1 .. now]
        /\ at >= b.seenAt /\ b.tokens + waited >= Cost /\ at \in Nat
      BY <1>2 DEF Filled, Advised
  <2>2. /\ now \in Nat /\ b.seenAt \in Nat /\ b.tokens \in Nat
        /\ at - b.seenAt \in Nat /\ now - b.seenAt \in Nat
        /\ at - b.seenAt <= now - b.seenAt
      BY <2>1 DEF Filled
  <2>3. waited \in Nat /\ spent \in Nat /\ waited <= spent
      BY <2>2, LongerFillsMore
  <2>4. Limiter!Refilled(b) = IF b.tokens + spent > Limiter!Full THEN Limiter!Full ELSE b.tokens + spent
      BY <1>2 DEF Limiter!Refilled
  <2> HIDE DEF waited, spent
  <2> QED
      BY <2>1, <2>2, <2>3, <2>4, Numbers
<1> QED
    BY <1>1, <1>2

(* A refused client that comes back when it was told to is admitted, unless *)
(* the table is full for it: then others hold all places, and it had none   *)
(* or has lost it by staying away beyond MaxIdle.                           *)
THEOREM WaitersAreAdmitted == Limiter!Spec => RetryIsEnough
<1> DEFINE Returns(k) == told[k] # Limiter!Admitted /\ now >= told[k].at /\ told'[k] # told[k]
           Answered(k) == \/ told'[k] = Limiter!Admitted
                          \/ /\ told'[k].full /\ Limiter!Crowded(k)
                             /\ told[k].full \/ now - told[k].since > MaxIdle
<1>1. ASSUME Filled, [Limiter!Next]_(Limiter!vars), NEW k \in Clients, Returns(k)
      PROVE  Answered(k)
  <2>1. Limiter!Consume(k)
    <3>1. \A j \in Clients : Limiter!Consume(j) => j = k
        BY <1>1 DEF Limiter!Consume, Filled
    <3> QED
        BY <1>1, <3>1 DEF Limiter!Next, Limiter!Sweep, Limiter!Tick, Limiter!vars
  <2> DEFINE T == Limiter!Table(k)
             units == Limiter!Refilled(T[k])
  <2>2. units >= Cost
      BY <1>1, TableKeeps, WaitedFills
  <2>3. DOMAIN told = Clients
      BY <1>1 DEF Filled
  <2>4. CASE T[k] = Limiter!NoBucket /\ Limiter!TableFull(T)
    <3>1. told'[k].full
        BY <2>1, <2>3, <2>4 DEF Limiter!Consume, Limiter!Refused
    <3>2. buckets[k] = Limiter!NoBucket /\ Limiter!Crowded(k)
        BY <1>1, <2>4, FullIsCrowded
    <3>3. told[k].full \/ now - told[k].since > MaxIdle
      <4>1. Limiter!NoBucket \notin [tokens : 0 .. Limiter!Full, seenAt : 1 .. now]
          BY DEF Limiter!NoBucket
      <4> QED
          BY <1>1, <3>2, <4>1 DEF Filled, Advised
    <3> QED
        BY <3>1, <3>2, <3>3
  <2>5. CASE ~(T[k] = Limiter!NoBucket /\ Limiter!TableFull(T))
      BY <2>1, <2>2, <2>3, <2>5 DEF Limiter!Consume
  <2> QED
      BY <2>4, <2>5
<1>2. Filled /\ [Limiter!Next]_(Limiter!vars)
        => [\A k \in Clients : Returns(k) => Answered(k)]_(Limiter!vars)
    BY <1>1
<1> QED
    BY <1>2, AlwaysFilled, PTL DEF Limiter!Spec, RetryIsEnough, Limiter!RetryIsEnough

(* The table with its late refills and its sweeps admits no more than a     *)
(* limiter that pays off every client's debt at every moment.               *)
THEOREM TableImplementsLimit == Limiter!Spec => ImplementsLimit
<1> DEFINE Debt == [k \in Clients |-> Limiter!Full - Limiter!Refilled(buckets[k])]
<1>1. Limiter!Init => Limiter!Promised!LimitInit
  <2> SUFFICES ASSUME Limiter!Init PROVE Debt = [k \in Clients |-> 0]
      BY DEF Limiter!Promised!LimitInit
  <2>1. \A k \in Clients : Limiter!Refilled(buckets[k]) = Limiter!Full
      BY DEF Limiter!Init, Limiter!Refilled
  <2> QED
      BY <2>1, Numbers
<1>2. Filled /\ [Limiter!Next]_(Limiter!vars) => [Limiter!Promised!LimitNext]_Debt
  <2> SUFFICES ASSUME Filled, [Limiter!Next]_(Limiter!vars)
               PROVE  Limiter!Promised!LimitNext \/ UNCHANGED Debt
      OBVIOUS
  <2>1. \A j \in Clients : Limiter!Refilled(buckets[j]) \in 0 .. Limiter!Full
      BY RefilledFacts DEF Filled, Advised
  <2>2. ASSUME NEW k \in Clients, Limiter!Consume(k)
        PROVE  Limiter!Promised!LimitNext \/ UNCHANGED Debt
    <3>1. CASE Limiter!Refilled(buckets[k])' = Limiter!Refilled(buckets[k])
        BY <2>2, <3>1, ConsumeFills DEF Limiter!Full
    <3>2. CASE /\ Limiter!Refilled(buckets[k]) >= Cost
               /\ Limiter!Refilled(buckets[k])' = Limiter!Refilled(buckets[k]) - Cost
      <4>1. Limiter!Full - (Limiter!Refilled(buckets[k]) - Cost)
                = (Limiter!Full - Limiter!Refilled(buckets[k])) + Cost
          BY <2>1, Numbers
      <4>2. (Limiter!Full - Limiter!Refilled(buckets[k])) + Cost <= Limiter!Full
          BY <2>1, <3>2, Numbers
      <4>3. Debt' = [Debt EXCEPT ![k] = @ + Cost]
          BY <2>2, <3>2, <4>1, ConsumeFills DEF Limiter!Full
      <4>4. Debt[k] + Cost <= Burst * Cost
          BY <4>2 DEF Limiter!Full
      <4>5. Limiter!Promised!Admit(k)
          BY <4>3, <4>4 DEF Limiter!Promised!Admit
      <4> QED
          BY <4>5 DEF Limiter!Promised!LimitNext
    <3> QED
        BY <2>2, <3>1, <3>2, ConsumeFills
  <2>3. CASE Limiter!Sweep
      BY <2>3, SweepFills DEF Limiter!Full
  <2>4. CASE Limiter!Tick
    <3>1. Debt' = [k \in Clients |-> Limiter!Promised!Paid(Debt[k])]
        BY <2>4, TickFills DEF Limiter!Full
    <3> QED
        BY <3>1 DEF Limiter!Promised!TimePasses, Limiter!Promised!LimitNext
  <2>5. CASE UNCHANGED Limiter!vars
      BY <2>5 DEF Limiter!vars, Limiter!Refilled, Limiter!Full, Limiter!NoBucket
  <2> QED
      BY <2>2, <2>3, <2>4, <2>5 DEF Limiter!Next
<1> QED
    BY <1>1, <1>2, AlwaysFilled, PTL
    DEF Limiter!Spec, ImplementsLimit, Limiter!ImplementsLimit, Limiter!Promised!LimitSpec
=============================================================================
