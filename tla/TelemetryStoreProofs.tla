-------------------------- MODULE TelemetryStoreProofs --------------------------
(***************************************************************************)
(* The telemetry store implements TelemetryLog, for all events, installs,  *)
(* sessions, lifetimes and limits.  The difficulty is the tombstone: it    *)
(* expires too, and an old batch may arrive when it is gone.  It is then   *)
(* at least RawTtl old, and so is every event it would have refused: the   *)
(* route may still let such an event in, but not as one that counts.       *)
(*                                                                         *)
(* The row of a session is what its decisions say together, and the counts *)
(* add up: nothing accepted is lost or counted twice.                      *)
(***************************************************************************)
EXTENDS TelemetryStore, FiniteSetTheorems, WellFoundedInduction, TLAPS

(* The last deletion of an install is on its tombstone, or too long ago.   *)
Buried(i) ==
    before[i] # -1 =>
        \/ /\ deletions[i] # NoRecord
           /\ deletions[i].before >= before[i]
           /\ deletions[i].expires >= before[i] + RawTtl
        \/ before[i] + RawTtl <= now

(* The inductive invariant.                                                *)
Sound ==
    /\ TypeOK
    /\ now >= 1
    /\ \A i \in Installs : before[i] = -1 \/ (before[i] >= 1 /\ before[i] <= now)
    /\ \A r \in raw : r.event.at <= now + Skew
    /\ \A i \in Installs : Buried(i)
    /\ \A s \in Sessions : EverOptedOut(s) => preferences[s].firstOptOutAt \in Moments

Chosen == [s \in Sessions |->
    IF preferences[s] = NoRecord THEN NoRecord
    ELSE [enabled |-> preferences[s].enabled, terms |-> preferences[s].terms,
          at |-> preferences[s].at]]

Kept == {r.event : r \in {q \in raw : q.expires > now}}
-----------------------------------------------------------------------------
LEMMA MaxOfTwo ==
    ASSUME NEW a \in Int, NEW b \in Int
    PROVE  Max({a, b}) \in {a, b} /\ Max({a, b}) >= a /\ Max({a, b}) >= b
<1>1. \E x \in {a, b} : \A y \in {a, b} : x >= y
    <2>1. CASE a >= b BY <2>1
    <2>2. CASE ~(a >= b) BY <2>2
    <2> QED BY <2>1, <2>2
<1> QED BY <1>1 DEF Max

LEMMA MaxOfBounded ==
    ASSUME NEW S \in SUBSET Nat, S # {}, NEW N \in Nat, \A x \in S : x <= N
    PROVE  Max(S) \in S
<1> DEFINE T == {N - x : x \in S}
<1>1. T \subseteq Nat /\ T # {}
    <2>1. \A x \in S : N - x \in Nat
        OBVIOUS
    <2> QED BY <2>1
<1>2. PICK m \in T : \A y \in T : ~(<<y, m>> \in OpToRel(<, Nat))
    <2> HIDE DEF T
    <2> QED BY <1>1, NatLessThanWellFounded, WFMin, Zenon
<1>3. \A y \in T : ~(y < m)
    BY <1>1, <1>2 DEF OpToRel
<1>4. PICK x \in S : m = N - x
    BY <1>2
<1>5. \A y \in S : x >= y
    <2> TAKE y \in S
    <2>1. N - y \in T
        OBVIOUS
    <2>2. ~(N - y < N - x)
        BY <1>3, <1>4, <2>1
    <2> QED BY <2>2
<1> QED BY <1>4, <1>5 DEF Max

LEMMA MaxIsNat ==
    ASSUME NEW a \in Nat, NEW b \in Nat
    PROVE  Max({a, b}) \in Nat /\ Max({a, b}) >= a /\ Max({a, b}) >= b
<1>1. a \in Int /\ b \in Int
    OBVIOUS
<1>2. Max({a, b}) \in {a, b} /\ Max({a, b}) >= a /\ Max({a, b}) >= b
    BY <1>1, MaxOfTwo
<1> QED BY <1>2

LEMMA MinOfTwo ==
    ASSUME NEW a \in Int, NEW b \in Int
    PROVE  Min({a, b}) \in {a, b}
<1>1. \E x \in {a, b} : \A y \in {a, b} : x <= y
    <2>1. CASE a <= b BY <2>1
    <2>2. CASE ~(a <= b) BY <2>2
    <2> QED BY <2>1, <2>2
<1> QED BY <1>1 DEF Min

LEMMA EventFacts ==
    ASSUME NEW e \in Events
    PROVE  e.install \in Installs /\ e.at \in Nat /\ e.terms \in Terms
BY EventAssumption

LEMMA RowsAreNotNoRecord == NoRecord \notin DeletionRow
BY MomentAssumption DEF DeletionRow

LEMMA LifetimeFacts == SessionTtl \in Nat /\ RawTtl \in Nat /\ RawTtl >= 1 /\ Skew \in Nat
BY LifetimeAssumption
-----------------------------------------------------------------------------
LEMMA InitSound == Init => Sound
BY DEF Init, Sound, TypeOK, Buried, EverOptedOut

(* How the steps of the log are recognised.                                *)
LEMMA AcceptStep ==
    ASSUME NEW s \in Sessions, NEW b \in SUBSET Events,
           \A e \in b : Log!Covers(Chosen[s], e) /\ e.at > before[e.install],
           Kept' = Kept \cup b, Chosen' = Chosen, UNCHANGED <<now, before>>
    PROVE  Log!LogNext
<1>1. \E t \in Sessions, c \in SUBSET Events :
        /\ \A e \in c : Log!Covers(Chosen[t], e) /\ e.at > before[e.install]
        /\ Kept' = Kept \cup c
        /\ UNCHANGED <<now, before, Chosen>>
    OBVIOUS
<1> QED BY <1>1 DEF Log!LogNext, Log!Accept, Kept, Chosen

LEMMA AgeStep ==
    ASSUME now' \in {now, now + 1}, Kept' \subseteq Kept, before' = before,
           Chosen' \in [Sessions -> Log!Decision \cup {NoRecord}],
           \A s \in Sessions : Chosen'[s] \in {Chosen[s], NoRecord}
    PROVE  Log!LogNext
BY DEF Log!LogNext, Log!Age, Kept, Chosen

LEMMA EraseStep ==
    ASSUME NEW i \in Installs, Kept' = {e \in Kept : e.install # i},
           before' = [before EXCEPT ![i] = now], now' = now, Chosen' = Chosen
    PROVE  Log!LogNext
<1>1. \E j \in Installs :
        /\ Kept' = {e \in Kept : e.install # j}
        /\ before' = [before EXCEPT ![j] = now]
        /\ UNCHANGED <<now, Chosen>>
    OBVIOUS
<1> QED BY <1>1 DEF Log!LogNext, Log!Erase, Kept, Chosen

LEMMA DecideStep ==
    ASSUME NEW s \in Sessions, NEW d \in Log!Decision,
           Chosen' = [Chosen EXCEPT ![s] = Log!Newest(@, d)],
           Kept' = Kept, UNCHANGED <<now, before>>
    PROVE  Log!LogNext
<1>1. \E t \in Sessions, c \in Log!Decision :
        /\ Chosen' = [Chosen EXCEPT ![t] = Log!Newest(@, c)]
        /\ UNCHANGED <<now, before, Kept>>
    OBVIOUS
<1> QED BY <1>1 DEF Log!LogNext, Log!Decide, Kept, Chosen

LEMMA StutterStep ==
    ASSUME UNCHANGED <<now, raw, preferences, before>>
    PROVE  UNCHANGED Log!logVars
BY DEF Log!logVars

(* Storing a batch.                                                        *)
LEMMA IngestFacts ==
    ASSUME Sound, NEW s \in Sessions, NEW i \in Installs, NEW batch \in SUBSET Events,
           NEW token \in Tokens, NEW epoch, Ingest(s, i, batch, token, epoch)
    PROVE  Sound' /\ (Log!LogNext \/ UNCHANGED Log!logVars)
<1> USE LifetimeFacts
<1> DEFINE wanted == {e \in batch : ~ShouldDiscard(e)}
           new == wanted \ Stored
           counted == {e \in new : e.at + RawTtl > now}
<1>1. now \in Nat /\ now' = now /\ preferences' = preferences /\ sessions' = sessions
        /\ before' = before /\ preferences \in [Sessions -> Preference \cup {NoRecord}]
        /\ before \in [Installs -> Nat \cup {-1}]
        /\ deletions \in [Installs -> DeletionRow \cup {NoRecord}]
    BY DEF Sound, TypeOK, Ingest
<1>2. CASE UNCHANGED <<raw, deletions>>
    <2>1. Sound'
        BY <1>1, <1>2 DEF Sound, TypeOK, Buried, EverOptedOut
    <2>2. UNCHANGED Log!logVars
        BY <1>1, <1>2 DEF Log!logVars
    <2> QED BY <2>1, <2>2
<1>3. CASE /\ raw' = raw \cup {Row(s, e) : e \in new}
           /\ deletions' = [deletions EXCEPT ![i] = Registered(i, token)]
    <2>1. \A e \in batch : /\ e.install = i /\ e \in Events /\ e.at \in Nat
                           /\ e.at <= now + Skew
                           /\ Consented(s, e)
        BY EventFacts DEF Ingest, InWindow
    <2>2. Registered(i, token) \in DeletionRow
          /\ (deletions[i] # NoRecord =>
                /\ Registered(i, token).before = deletions[i].before
                /\ Registered(i, token).expires >= deletions[i].expires)
        <3>1. CASE deletions[i] = NoRecord
            BY <1>1, <3>1 DEF Registered, DeletionRow
        <3>2. CASE deletions[i] # NoRecord
            <4>1. deletions[i] \in DeletionRow
                BY <1>1, <3>2
            <4>2. now + RawTtl \in Nat /\ deletions[i].expires \in Nat
                BY <1>1, <4>1 DEF DeletionRow
            <4>3. Max({deletions[i].expires, now + RawTtl}) \in Nat
                  /\ Max({deletions[i].expires, now + RawTtl}) >= deletions[i].expires
                <5> DEFINE a == deletions[i].expires
                           b == now + RawTtl
                <5>1. a \in Int /\ b \in Int /\ a \in Nat /\ b \in Nat
                    BY <4>2
                <5> HIDE DEF a, b
                <5>2. Max({a, b}) \in {a, b} /\ Max({a, b}) >= a
                    BY <5>1, MaxOfTwo
                <5>3. Max({a, b}) \in Nat /\ Max({a, b}) >= a
                    BY <5>1, <5>2
                <5> QED BY <5>3 DEF a, b
            <4> QED BY <3>2, <4>1, <4>3 DEF Registered, DeletionRow
        <3> QED BY <3>1, <3>2
    <2>3. TypeOK'
        <3>1. \A r \in raw' : r \in RawRow /\ r.expires = r.event.at + RawTtl
            BY <1>3, <2>1 DEF Sound, TypeOK, Row, RawRow
        <3>2. deletions' \in [Installs -> DeletionRow \cup {NoRecord}]
            BY <1>1, <1>3, <2>2
        <3> QED BY <1>1, <3>1, <3>2 DEF Sound, TypeOK
    <2>4. \A r \in raw' : r.event.at <= now' + Skew
        BY <1>1, <1>3, <2>1 DEF Sound, Row
    <2>5. \A j \in Installs : Buried(j)'
        <3> TAKE j \in Installs
        <3>0. Buried(j) /\ (before[j] # -1 => before[j] \in Nat)
            BY <1>1 DEF Sound
        <3>1. CASE j # i
            BY <1>1, <1>3, <3>0, <3>1 DEF Buried
        <3>2. CASE j = i
            <4>1. deletions'[i] = Registered(i, token)
                BY <1>1, <1>3
            <4>2. deletions[i] # NoRecord => deletions[i] \in DeletionRow
                BY <1>1
            <4>3. deletions'[i] # NoRecord \/ deletions[i] = NoRecord
                <5>1. deletions[i] # NoRecord => Registered(i, token) # NoRecord
                    BY <1>1, <2>2, <4>2, RowsAreNotNoRecord
                <5> QED BY <4>1, <5>1
            <4> QED BY <1>1, <2>2, <3>0, <3>2, <4>1, <4>2, <4>3 DEF Buried, DeletionRow
        <3> QED BY <3>1, <3>2
    <2>6. Sound'
        BY <1>1, <2>3, <2>4, <2>5 DEF Sound, EverOptedOut
    <2>7. \A e \in counted : e.at > before[e.install]
        <3> TAKE e \in counted
        <3>1. e \in batch /\ e.install = i /\ e.at \in Nat /\ e.at + RawTtl > now /\ ~ShouldDiscard(e)
            BY <2>1
        <3>2. CASE before[i] = -1
            BY <3>1, <3>2
        <3>3. CASE before[i] # -1 /\ before[i] + RawTtl <= now
            BY <1>1, <3>1, <3>3
        <3>4. CASE before[i] # -1 /\ ~(before[i] + RawTtl <= now)
            <4>1. deletions[i] # NoRecord /\ deletions[i].before >= before[i] /\ before[i] >= 1
                BY <1>1, <3>4 DEF Sound, Buried
            <4>2. deletions[i].before \in Nat
                BY <1>1, <4>1 DEF DeletionRow
            <4>3. before[i] \in Nat
                BY <1>1, <3>4
            <4> QED BY <3>1, <4>1, <4>2, <4>3 DEF ShouldDiscard
        <3> QED BY <3>2, <3>3, <3>4
    <2>8. Kept' = Kept \cup counted
        <3>1. \A r \in raw' : r.expires > now <=>
                 (r \in raw /\ r.expires > now) \/ \E e \in counted : r = Row(s, e)
            BY <1>3, <2>1 DEF Row
        <3>2. \A e \in counted : Row(s, e) \in raw' /\ Row(s, e).event = e
            BY <1>3 DEF Row
        <3>3. raw \subseteq raw'
            BY <1>3
        <3>4. Kept' = {r.event : r \in {q \in raw' : q.expires > now}}
            BY <1>1 DEF Kept
        <3> HIDE DEF counted
        <3>5. Kept' \subseteq Kept \cup counted
            BY <3>1, <3>2, <3>4 DEF Kept
        <3>6. Kept \subseteq Kept'
            BY <3>3, <3>4 DEF Kept
        <3>7. counted \subseteq Kept'
            BY <3>1, <3>2, <3>4
        <3> QED BY <3>5, <3>6, <3>7
    <2>9. \A e \in counted : Log!Covers(Chosen[s], e)
        <3> TAKE e \in counted
        <3>1. Consented(s, e)
            BY <2>1
        <3>2. preferences[s] # NoRecord
            BY <3>1 DEF Consented
        <3>3. Chosen[s] # NoRecord
            <4>1. Chosen[s] \in [enabled : BOOLEAN, terms : Terms, at : Moments]
                BY <1>1, <3>2 DEF Chosen, Preference
            <4> QED BY <4>1, MomentAssumption
        <3> QED BY <3>1, <3>2, <3>3 DEF Consented, Log!Covers, Chosen
    <2>10. counted \in SUBSET Events
        BY <2>1
    <2>11. Chosen' = Chosen
        BY <1>1 DEF Chosen
    <2> HIDE DEF counted
    <2>12. Log!LogNext
        BY <1>1, <2>7, <2>8, <2>9, <2>10, <2>11, AcceptStep
    <2> QED BY <2>6, <2>12
<1> QED
    <2>1. \/ UNCHANGED <<raw, deletions>>
          \/ /\ raw' = raw \cup {Row(s, e) : e \in new}
             /\ deletions' = [deletions EXCEPT ![i] = Registered(i, token)]
        BY Zenon DEF Ingest
    <2> QED BY <1>2, <1>3, <2>1

(* A deletion takes everything of its install, and its tombstone is at     *)
(* least RawTtl away from its expiry.                                      *)
LEMMA DeleteFacts ==
    ASSUME Sound, NEW s \in Sessions, NEW i \in Installs, NEW token \in Tokens,
           DeleteTelemetry(s, i, token)
    PROVE  Sound' /\ Log!LogNext
<1> USE LifetimeFacts
<1> DEFINE t == Tombstone(i, token)
<1>1. /\ now \in Nat /\ now >= 1 /\ now' = now /\ sessions' = sessions
      /\ preferences' = preferences
      /\ raw' = {r \in raw : r.event.install # i}
      /\ deletions' = [deletions EXCEPT ![i] = t]
      /\ before' = [before EXCEPT ![i] = now]
      /\ before \in [Installs -> Nat \cup {-1}]
      /\ deletions \in [Installs -> DeletionRow \cup {NoRecord}]
    BY DEF Sound, TypeOK, DeleteTelemetry
<1>2. t \in DeletionRow /\ t.before >= now /\ t.expires >= now + RawTtl
    <2>1. CASE deletions[i] = NoRecord
        BY <1>1, <2>1 DEF Tombstone, DeletionRow
    <2>2. CASE deletions[i] # NoRecord
        <3> DEFINE d == deletions[i]
        <3>1. d \in DeletionRow /\ d.before \in Nat /\ d.expires \in Nat /\ d.epoch \in Nat
            BY <1>1, <2>2 DEF DeletionRow
        <3>2. Max({d.before, now}) \in Nat /\ Max({d.before, now}) >= now
            BY <1>1, <3>1, MaxIsNat
        <3>3. now + RawTtl \in Nat
            BY <1>1
        <3>4. Max({d.expires, now + RawTtl}) \in Nat
              /\ Max({d.expires, now + RawTtl}) >= now + RawTtl
            BY <3>1, <3>3, MaxIsNat
        <3>5. t = [d EXCEPT !.epoch = d.epoch + 1, !.before = Max({d.before, now}),
                            !.expires = Max({d.expires, now + RawTtl})]
            BY <2>2 DEF Tombstone, NextEpoch
        <3> HIDE DEF d, t
        <3>6. t \in DeletionRow
            <4> DEFINE b == Max({d.before, now})
                       x == Max({d.expires, now + RawTtl})
            <4>1. b \in Nat /\ x \in Nat /\ d.epoch + 1 \in Nat
                BY <3>1, <3>2, <3>4
            <4>2. t = [d EXCEPT !.epoch = d.epoch + 1, !.before = b, !.expires = x]
                BY <3>5
            <4> HIDE DEF b, x
            <4> QED BY <3>1, <4>1, <4>2 DEF DeletionRow
        <3>7. t.before = Max({d.before, now}) /\ t.expires = Max({d.expires, now + RawTtl})
            BY <3>1, <3>5 DEF DeletionRow
        <3> QED BY <3>2, <3>4, <3>6, <3>7
    <2> QED BY <2>1, <2>2
<1> HIDE DEF t
<1>3. t # NoRecord
    BY <1>2, RowsAreNotNoRecord
<1>4. TypeOK'
    BY <1>1, <1>2 DEF Sound, TypeOK
<1>5. \A j \in Installs : Buried(j)'
    <2> TAKE j \in Installs
    <2>1. CASE j = i
        BY <1>1, <1>2, <1>3, <2>1 DEF Buried
    <2>2. CASE j # i
        BY <1>1, <2>2 DEF Sound, Buried
    <2> QED BY <2>1, <2>2
<1>6. Sound'
    BY <1>1, <1>4, <1>5 DEF Sound, EverOptedOut
<1>7. Kept' = {e \in Kept : e.install # i}
    BY <1>1 DEF Kept
<1>8. Chosen' = Chosen
    BY <1>1 DEF Chosen
<1> QED BY <1>1, <1>6, <1>7, <1>8, EraseStep

(* The sweep takes a tombstone only when RawTtl has passed.                *)
LEMMA SweepFacts ==
    ASSUME Sound, NEW tombs \in [Installs -> DeletionRow \cup {NoRecord}], SweepOf(tombs),
           \A i \in Installs : deletions[i] # NoRecord =>
                /\ tombs[i] # NoRecord
                /\ tombs[i].before = deletions[i].before
                /\ tombs[i].expires >= deletions[i].expires
    PROVE  Sound' /\ Log!LogNext
<1> USE LifetimeFacts
<1>1. /\ now \in Nat /\ now' = now /\ before' = before
      /\ raw' = raw \ Expired
      /\ preferences' = [s \in Sessions |->
            IF preferences[s] # NoRecord /\ preferences[s].expires <= now
            THEN NoRecord ELSE preferences[s]]
      /\ deletions' = [i \in Installs |->
            IF /\ tombs[i] # NoRecord /\ tombs[i].expires <= now
               /\ \A r \in raw' : r.event.install # i
            THEN NoRecord ELSE tombs[i]]
      /\ before \in [Installs -> Nat \cup {-1}]
      /\ deletions \in [Installs -> DeletionRow \cup {NoRecord}]
      /\ preferences \in [Sessions -> Preference \cup {NoRecord}]
    BY DEF Sound, TypeOK, SweepOf
<1>2. sessions' \in [Sessions -> Nat \cup {NoRecord}]
    BY DEF Sound, TypeOK, SweepOf
<1>3. preferences' \in [Sessions -> Preference \cup {NoRecord}]
    BY <1>1
<1>4. TypeOK'
    BY <1>1, <1>2, <1>3 DEF Sound, TypeOK
<1>5. \A i \in Installs : Buried(i)'
    <2> TAKE i \in Installs
    <2>1. Buried(i) /\ (before[i] # -1 => before[i] \in Nat)
        BY <1>1 DEF Sound
    <2>2. deletions'[i] = NoRecord \/ deletions'[i] = tombs[i]
        BY <1>1
    <2>3. tombs[i] # NoRecord => tombs[i].expires \in Nat /\ tombs[i].before \in Nat
        BY DEF DeletionRow
    <2>4. tombs[i] # NoRecord /\ deletions'[i] = NoRecord => tombs[i].expires <= now
        BY <1>1
    <2>5. deletions[i] # NoRecord => deletions[i].expires \in Nat /\ deletions[i].before \in Nat
        BY <1>1 DEF DeletionRow
    <2> QED BY <1>1, <2>1, <2>2, <2>3, <2>4, <2>5 DEF Buried
<1>6. \A s \in Sessions : EverOptedOut(s)' => preferences'[s].firstOptOutAt \in Moments
    BY <1>1 DEF Sound, EverOptedOut
<1>7. Sound'
    BY <1>1, <1>4, <1>5, <1>6 DEF Sound
<1>8. Kept' \subseteq Kept
    BY <1>1 DEF Kept
<1>9. /\ Chosen' \in [Sessions -> Log!Decision \cup {NoRecord}]
      /\ \A s \in Sessions : Chosen'[s] \in {Chosen[s], NoRecord}
    BY <1>1, <1>3 DEF Chosen, Preference, Log!Decision
<1> QED BY <1>1, <1>7, <1>8, <1>9, AgeStep

LEMMA RestartFacts ==
    ASSUME Sound, Restart
    PROVE  Sound' /\ Log!LogNext
<1> USE LifetimeFacts
<1>1. \A i \in Installs : deletions[i] # NoRecord =>
        /\ Extended[i] \in DeletionRow
        /\ Extended[i].before = deletions[i].before
        /\ Extended[i].expires >= deletions[i].expires
    <2> SUFFICES ASSUME NEW i \in Installs, deletions[i] # NoRecord
                 PROVE  /\ Extended[i] \in DeletionRow
                        /\ Extended[i].before = deletions[i].before
                        /\ Extended[i].expires >= deletions[i].expires
        OBVIOUS
    <2> DEFINE own == {r.expires : r \in {q \in raw : q.event.install = i}}
               d == deletions[i]
               least == IF own = {} THEN now + RawTtl ELSE Max(own)
    <2>1. d \in DeletionRow /\ d.expires \in Nat /\ now \in Nat
        BY DEF Sound, TypeOK, DeletionRow
    <2>2. least \in Nat
        <3>1. \A x \in own : x \in Nat /\ x <= now + Skew + RawTtl
            <4> SUFFICES ASSUME NEW r \in raw
                         PROVE  r.expires \in Nat /\ r.expires <= now + Skew + RawTtl
                OBVIOUS
            <4>1. r \in RawRow /\ r.expires = r.event.at + RawTtl /\ r.event.at <= now + Skew
                BY DEF Sound, TypeOK
            <4>2. r.event.at \in Nat
                BY <4>1, EventFacts DEF RawRow
            <4> QED BY <2>1, <4>1, <4>2
        <3>2. now + Skew + RawTtl \in Nat /\ now + RawTtl \in Nat
            BY <2>1
        <3> HIDE DEF own
        <3>3. own # {} => Max(own) \in own
            BY <3>1, <3>2, MaxOfBounded
        <3> QED BY <3>1, <3>2, <3>3
    <2>3. Max({d.expires, least}) \in Nat /\ Max({d.expires, least}) >= d.expires
        <3> HIDE DEF least, d
        <3> QED BY <2>1, <2>2, MaxIsNat
    <2>4. Extended[i] = [d EXCEPT !.expires = Max({d.expires, least})]
        BY DEF Extended
    <2> HIDE DEF least
    <2> QED BY <2>1, <2>3, <2>4 DEF DeletionRow
<1>2. Extended \in [Installs -> DeletionRow \cup {NoRecord}]
    <2>1. \A i \in Installs : Extended[i] \in DeletionRow \cup {NoRecord}
        <3> TAKE i \in Installs
        <3>1. CASE deletions[i] = NoRecord
            BY <3>1 DEF Extended
        <3>2. CASE deletions[i] # NoRecord
            BY <1>1, <3>2
        <3> QED BY <3>1, <3>2
    <2>2. \E f : Extended = [i \in Installs |-> f[i]]
        <3>1. Extended = [i \in Installs |-> Extended[i]]
            BY DEF Extended
        <3> QED BY <3>1
    <2> HIDE DEF Extended
    <2> QED BY <2>1, <2>2
<1>3. SweepOf(Extended)
    BY DEF Restart
<1> HIDE DEF Extended
<1>4. \A i \in Installs : deletions[i] # NoRecord => Extended[i] # NoRecord
    BY <1>1, RowsAreNotNoRecord
<1> QED BY <1>1, <1>2, <1>3, <1>4, SweepFacts

(* The row after a decision, of whatever time, has the newest one.          *)
LEMMA RecordedIsRow ==
    ASSUME Sound, NEW s \in Sessions, NEW d \in Decision
    PROVE  /\ Recorded(s, d) \in Preference
           /\ Recorded(s, d) # NoRecord
           /\ Recorded(s, d).everOptedOut => Recorded(s, d).firstOptOutAt \in Moments
           /\ [enabled |-> Recorded(s, d).enabled, terms |-> Recorded(s, d).terms,
               at |-> Recorded(s, d).at] = Log!Newest(Chosen[s], d)
<1> USE LifetimeFacts
<1>1. now \in Nat /\ preferences \in [Sessions -> Preference \cup {NoRecord}]
    BY DEF Sound, TypeOK
<1>2. d.at \in Moments /\ d.at \in Int /\ d.enabled \in BOOLEAN /\ d.terms \in Terms
    BY MomentAssumption DEF Decision
<1>3. Earliest(s, {d.at}) \in Moments
    <2>1. CASE EverOptedOut(s)
        <3> DEFINE f == preferences[s].firstOptOutAt
        <3>1. f \in Moments /\ f \in Int
            BY <2>1, MomentAssumption DEF Sound
        <3>2. Min({f, d.at}) \in {f, d.at}
            <4> HIDE DEF f
            <4> QED BY <1>2, <3>1, MinOfTwo
        <3>3. Earliest(s, {d.at}) = Min({f, d.at})
            <4>1. {f} \cup {d.at} = {f, d.at}
                OBVIOUS
            <4> QED BY <2>1, <4>1 DEF Earliest, FirstOptOutAt
        <3> QED BY <1>2, <3>1, <3>2, <3>3
    <2>2. CASE ~EverOptedOut(s)
        <3>1. {} \cup {d.at} = {d.at, d.at}
            OBVIOUS
        <3>2. Min({d.at, d.at}) = d.at
            BY <1>2, MinOfTwo
        <3>3. Earliest(s, {d.at}) = Min({d.at, d.at})
            BY <2>2, <3>1 DEF Earliest, FirstOptOutAt
        <3> QED BY <1>2, <3>2, <3>3
    <2> QED BY <2>1, <2>2
<1>4. Earliest(s, {}) \in Moments \cup {NoRecord} /\ (EverOptedOut(s) => Earliest(s, {}) \in Moments)
    <2>1. CASE EverOptedOut(s)
        <3> DEFINE f == preferences[s].firstOptOutAt
        <3>1. f \in Moments /\ f \in Int
            BY <2>1, MomentAssumption DEF Sound
        <3>2. Min({f, f}) = f
            <4> HIDE DEF f
            <4> QED BY <3>1, MinOfTwo
        <3>3. Earliest(s, {}) = Min({f, f})
            <4>1. {f} \cup {} = {f, f}
                OBVIOUS
            <4> QED BY <2>1, <4>1 DEF Earliest, FirstOptOutAt
        <3> QED BY <3>1, <3>2, <3>3
    <2>2. CASE ~EverOptedOut(s)
        BY <2>2 DEF Earliest, FirstOptOutAt
    <2> QED BY <2>1, <2>2
<1>5. Upserted(s, d) \in Preference /\ (Upserted(s, d).everOptedOut => Upserted(s, d).firstOptOutAt \in Moments)
    <2>1. (EverOptedOut(s) \/ ~d.enabled) \in BOOLEAN
        BY Zenon
    <2>2. now + RawTtl \in Nat
        BY <1>1
    <2>3. CASE d.enabled
        BY <1>2, <1>4, <2>1, <2>2, <2>3 DEF Upserted, Preference
    <2>4. CASE ~d.enabled
        BY <1>2, <1>3, <2>1, <2>2, <2>4 DEF Upserted, Preference
    <2> QED BY <2>3, <2>4
<1>6. /\ Recorded(s, d) \in Preference
      /\ Recorded(s, d).everOptedOut => Recorded(s, d).firstOptOutAt \in Moments
      /\ [enabled |-> Recorded(s, d).enabled, terms |-> Recorded(s, d).terms,
          at |-> Recorded(s, d).at] = Log!Newest(Chosen[s], d)
    <2>0. d = [enabled |-> d.enabled, terms |-> d.terms, at |-> d.at]
        BY DEF Decision
    <2>1. CASE IsLater(s, d) \/ IsSameTimeOptOut(s, d)
        <3>1. Recorded(s, d) = Upserted(s, d)
            BY <2>1 DEF Recorded
        <3>2. Log!Newest(Chosen[s], d) = d
            BY <1>1, <1>2, <2>1 DEF Log!Newest, Chosen, IsLater, IsSameTimeOptOut, Preference
        <3> QED BY <1>5, <2>0, <3>1, <3>2 DEF Upserted
    <2>2. CASE ~(IsLater(s, d) \/ IsSameTimeOptOut(s, d))
        <3> DEFINE p == preferences[s]
        <3>1. p # NoRecord /\ p \in Preference /\ p.at \in Int /\ p.enabled \in BOOLEAN
              /\ ~(d.at > p.at) /\ (p.everOptedOut => p.firstOptOutAt \in Moments)
            BY <1>1, <2>2, MomentAssumption DEF IsLater, Preference, Sound, EverOptedOut
        <3>2. Chosen[s] = [enabled |-> p.enabled, terms |-> p.terms, at |-> p.at]
              /\ Chosen[s] # NoRecord
            <4>1. Chosen[s] = [enabled |-> p.enabled, terms |-> p.terms, at |-> p.at]
                BY <3>1 DEF Chosen
            <4>2. Chosen[s] \in [enabled : BOOLEAN, terms : Terms, at : Moments]
                BY <3>1, <4>1 DEF Preference
            <4> QED BY <4>1, <4>2, MomentAssumption
        <3>3. CASE IsIdempotent(s, d)
            <4>1. Recorded(s, d) = [p EXCEPT !.terms = d.terms, !.expires = now + RawTtl]
                BY <2>2, <3>3 DEF Recorded
            <4>2. d.at = p.at /\ d.enabled = p.enabled
                BY <3>3 DEF IsIdempotent
            <4>3. Log!Newest(Chosen[s], d) = d
                BY <1>2, <3>1, <3>2, <4>2 DEF Log!Newest
            <4>4. now + RawTtl \in Nat
                BY <1>1
            <4> QED BY <1>2, <2>0, <3>1, <4>1, <4>2, <4>3, <4>4 DEF Preference
        <3>4. CASE ~IsIdempotent(s, d)
            <4>1. Log!Newest(Chosen[s], d) = Chosen[s]
                BY <1>2, <2>2, <3>1, <3>2, <3>4
                DEF Log!Newest, IsIdempotent, IsSameTimeOptOut, IsLater
            <4>2. CASE ~d.enabled
                <5>1. Recorded(s, d) = [p EXCEPT !.everOptedOut = TRUE,
                                                 !.firstOptOutAt = Earliest(s, {d.at})]
                    BY <2>2, <3>4, <4>2 DEF Recorded
                <5> QED BY <1>3, <3>1, <3>2, <4>1, <5>1 DEF Preference
            <4>3. CASE d.enabled
                <5>1. Recorded(s, d) = p
                    BY <2>2, <3>4, <4>3 DEF Recorded
                <5> QED BY <3>1, <3>2, <4>1, <5>1
            <4> QED BY <4>2, <4>3
        <3> QED BY <3>3, <3>4
    <2> QED BY <2>1, <2>2
<1> QED
    <2>1. Recorded(s, d) # NoRecord
        BY <1>6, MomentAssumption DEF Preference
    <2> QED BY <1>6, <2>1

(* It is then in force.                                                     *)
LEMMA DecisionFacts ==
    ASSUME Sound, NEW s \in Sessions, NEW d \in Decision, RecordPreference(s, d)
    PROVE  Sound' /\ Log!LogNext
<1> USE LifetimeFacts
<1>1. /\ now \in Nat /\ now' = now /\ raw' = raw /\ before' = before
      /\ deletions' = deletions /\ sessions' = sessions
      /\ preferences' = [preferences EXCEPT ![s] = Recorded(s, d)]
      /\ preferences \in [Sessions -> Preference \cup {NoRecord}]
    BY DEF Sound, TypeOK, RecordPreference
<1>2. d.at \in Moments /\ d.at \in Int /\ d.enabled \in BOOLEAN /\ d.terms \in Terms
    BY MomentAssumption DEF Decision
<1> DEFINE r == Recorded(s, d)
<1>3. /\ r \in Preference /\ r # NoRecord
      /\ r.everOptedOut => r.firstOptOutAt \in Moments
      /\ [enabled |-> r.enabled, terms |-> r.terms, at |-> r.at] = Log!Newest(Chosen[s], d)
    BY RecordedIsRow
<1> HIDE DEF r
<1>4. preferences' = [preferences EXCEPT ![s] = r]
    BY <1>1 DEF r
<1>5. TypeOK'
    BY <1>1, <1>3, <1>4 DEF Sound, TypeOK
<1>6. \A t \in Sessions : EverOptedOut(t)' => preferences'[t].firstOptOutAt \in Moments
    BY <1>1, <1>3, <1>4 DEF Sound, EverOptedOut
<1>7. Sound'
    BY <1>1, <1>5, <1>6 DEF Sound, Buried
<1>8. Kept' = Kept
    BY <1>1 DEF Kept
<1>9. Chosen' = [Chosen EXCEPT ![s] = Log!Newest(@, d)]
    BY <1>1, <1>3, <1>4 DEF Chosen
<1>10. d \in Log!Decision
    BY DEF Decision, Log!Decision
<1> QED BY <1>1, <1>7, <1>8, <1>9, <1>10, DecideStep

LEMMA TickFacts ==
    ASSUME Sound, Tick
    PROVE  Sound' /\ Log!LogNext
<1> USE LifetimeFacts
<1>1. /\ now \in Nat /\ now' = now + 1
      /\ UNCHANGED <<sessions, preferences, raw, deletions, before>>
      /\ before \in [Installs -> Nat \cup {-1}]
      /\ preferences \in [Sessions -> Preference \cup {NoRecord}]
    BY DEF Sound, TypeOK, Tick
<1>2. \A i \in Installs : Buried(i)'
    BY <1>1 DEF Sound, Buried
<1>3. TypeOK'
    BY <1>1 DEF Sound, TypeOK
<1>4. Sound'
    <2>1. \A r \in raw : r.event.at \in Nat /\ r.event.at <= now + Skew
        BY EventFacts DEF Sound, TypeOK, RawRow
    <2>2. \A r \in raw' : r.event.at <= now' + Skew
        BY <1>1, <2>1
    <2>3. \A i \in Installs : before'[i] = -1 \/ (before'[i] >= 1 /\ before'[i] <= now')
        BY <1>1 DEF Sound
    <2> QED BY <1>1, <1>2, <1>3, <2>2, <2>3 DEF Sound, EverOptedOut
<1>5. Kept' \subseteq Kept
    BY <1>1 DEF Kept, Sound, TypeOK, RawRow
<1>6. /\ Chosen' \in [Sessions -> Log!Decision \cup {NoRecord}]
      /\ \A s \in Sessions : Chosen'[s] \in {Chosen[s], NoRecord}
    BY <1>1 DEF Chosen, Preference, Log!Decision
<1> QED BY <1>1, <1>4, <1>5, <1>6, AgeStep

LEMMA StepFacts ==
    ASSUME Sound, [Next]_vars
    PROVE  Sound' /\ [Log!LogNext]_(Log!logVars)
<1>1. ASSUME NEW s \in Sessions, CreateSession(s)
      PROVE  Sound' /\ UNCHANGED Log!logVars
    <2>1. sessions' \in [Sessions -> Nat \cup {NoRecord}]
        BY <1>1, LifetimeFacts DEF Sound, TypeOK, CreateSession
    <2>2. Sound'
        BY <1>1, <2>1 DEF CreateSession, Sound, TypeOK, Buried, EverOptedOut
    <2> QED BY <1>1, <2>2, StutterStep DEF CreateSession
<1>2. CASE UNCHANGED vars
    <2>1. Sound'
        BY <1>2 DEF vars, Sound, TypeOK, Buried, EverOptedOut
    <2> QED BY <1>2, <2>1, StutterStep DEF vars
<1>3. CASE Sweep
    <2>1. deletions \in [Installs -> DeletionRow \cup {NoRecord}]
        BY DEF Sound, TypeOK
    <2>2. \A i \in Installs : deletions[i] # NoRecord => deletions[i].expires >= deletions[i].expires
        BY <2>1 DEF DeletionRow
    <2> QED BY <1>3, <2>1, <2>2, SweepFacts DEF Sweep
<1> QED
    BY <1>1, <1>2, <1>3, IngestFacts, DeleteFacts, DecisionFacts, RestartFacts, TickFacts
    DEF Next

(* The tables keep their types in every behaviour of the store.            *)
THEOREM StoreTypeCorrect == Spec => []TypeOK
<1>1. Sound => TypeOK
    BY DEF Sound
<1>2. Sound /\ [Next]_vars => Sound'
    BY StepFacts
<1> QED BY <1>1, <1>2, InitSound, PTL DEF Spec

(* The store implements TelemetryLog: deleted events never come back,      *)
(* events are kept under the consent in force only, and the newest         *)
(* decision wins, in whatever order requests, sweeps and restarts come.    *)
THEOREM StoreImplementsLog == Spec => ImplementsLog
<1>1. Init => Log!LogInit
    BY DEF Init, Log!LogInit
<1>2. Sound /\ [Next]_vars => Sound' /\ [Log!LogNext]_(Log!logVars)
    BY StepFacts
<1> QED BY <1>1, <1>2, InitSound, PTL DEF Spec, ImplementsLog, Log!LogSpec
-----------------------------------------------------------------------------
(* What a row says of the decisions its session has sent, p being the row   *)
(* and sent the decisions: p has the time of the newest ones, it is enabled *)
(* when they all are, and it remembers that there was an opt-out, and when  *)
(* the first one was.                                                       *)
Says(p, sent) ==
    /\ sent # {} /\ \A c \in sent : c.at <= p.at
    /\ \E c \in sent : c.at = p.at
    /\ p.enabled <=> \A c \in sent : c.at = p.at => c.enabled
    /\ p.everOptedOut <=> \E c \in sent : ~c.enabled
    /\ p.everOptedOut => /\ \E c \in sent : ~c.enabled /\ c.at = p.firstOptOutAt
                         /\ \A c \in sent : ~c.enabled => p.firstOptOutAt <= c.at
    /\ ~p.everOptedOut => p.firstOptOutAt = NoRecord

(* The inductive invariant of DecisionsCommute, on top of Sound.            *)
RowsSayIt ==
    /\ heard \in [Sessions -> SUBSET Decision]
    /\ \A s \in Sessions :
        IF preferences[s] = NoRecord THEN heard[s] = {}
        ELSE Says(preferences[s], heard[s])

LEMMA DecisionTypes ==
    ASSUME NEW d \in Decision
    PROVE  d.at \in Moments /\ d.at \in Int /\ d.enabled \in BOOLEAN
BY MomentAssumption DEF Decision

LEMMA LeastOfTwo ==
    ASSUME NEW a \in Int, NEW b \in Int
    PROVE  Min({a, b}) \in {a, b} /\ Min({a, b}) <= a /\ Min({a, b}) <= b
<1>1. \E x \in {a, b} : \A y \in {a, b} : x <= y
    <2>1. CASE a <= b BY <2>1
    <2>2. CASE ~(a <= b) BY <2>2
    <2> QED BY <2>1, <2>2
<1> QED BY <1>1 DEF Min

LEMMA LeastIs ==
    ASSUME NEW S \in SUBSET Int, NEW x \in S, \A y \in S : x <= y
    PROVE  Min(S) = x
<1>1. \E m \in S : \A y \in S : m <= y
    OBVIOUS
<1>2. Min(S) \in S /\ \A y \in S : Min(S) <= y
    BY <1>1 DEF Min
<1> DEFINE m == Min(S)
<1>3. m \in Int /\ x \in Int /\ m <= x /\ x <= m
    BY <1>2
<1> HIDE DEF m
<1>4. m = x
    BY <1>3
<1> QED BY <1>4 DEF m

(* first_opt_out_at after an opt-out and after another decision.            *)
LEMMA EarliestFacts ==
    ASSUME Sound, NEW s \in Sessions, NEW d \in Decision
    PROVE  /\ EverOptedOut(s) =>
                /\ preferences[s].firstOptOutAt \in Int
                /\ Earliest(s, {}) = preferences[s].firstOptOutAt
                /\ Earliest(s, {d.at}) \in {preferences[s].firstOptOutAt, d.at}
                /\ Earliest(s, {d.at}) <= preferences[s].firstOptOutAt
                /\ Earliest(s, {d.at}) <= d.at
           /\ ~EverOptedOut(s) => Earliest(s, {}) = NoRecord /\ Earliest(s, {d.at}) = d.at
<1>1. d.at \in Int
    BY DecisionTypes
<1>2. CASE EverOptedOut(s)
    <2> DEFINE f == preferences[s].firstOptOutAt
    <2>1. f \in Int
        BY <1>2, MomentAssumption DEF Sound
    <2>2. Earliest(s, {}) = Min({f, f}) /\ Earliest(s, {d.at}) = Min({f, d.at})
        <3>1. {f} \cup {} = {f, f} /\ {f} \cup {d.at} = {f, d.at} /\ {f, f} # {} /\ {f, d.at} # {}
            OBVIOUS
        <3>2. FirstOptOutAt(s) = {f}
            BY <1>2 DEF FirstOptOutAt
        <3> QED BY <3>1, <3>2 DEF Earliest
    <2>3. Min({f, f}) = f
        <3> HIDE DEF f
        <3> QED BY <2>1, LeastOfTwo
    <2>4. Min({f, d.at}) \in {f, d.at} /\ Min({f, d.at}) <= f /\ Min({f, d.at}) <= d.at
        <3> HIDE DEF f
        <3> QED BY <1>1, <2>1, LeastOfTwo
    <2> QED BY <1>2, <2>1, <2>2, <2>3, <2>4
<1>3. CASE ~EverOptedOut(s)
    <2>1. FirstOptOutAt(s) = {}
        BY <1>3 DEF FirstOptOutAt
    <2>2. {} \cup {d.at} = {d.at, d.at} /\ {d.at, d.at} # {} /\ {} \cup {} = {}
        OBVIOUS
    <2>3. Min({d.at, d.at}) = d.at
        BY <1>1, LeastOfTwo
    <2> QED BY <1>3, <2>1, <2>2, <2>3 DEF Earliest
<1> QED BY <1>2, <1>3

(* One decision more, of whatever time, and the row says that too.          *)
LEMMA RecordedSaysIt ==
    ASSUME Sound, RowsSayIt, NEW s \in Sessions, NEW d \in Decision
    PROVE  Says(Recorded(s, d), heard[s] \cup {d})
<1> DEFINE p == preferences[s]
           sent == heard[s]
           f == IF d.enabled THEN Earliest(s, {}) ELSE Earliest(s, {d.at})
<1>1. sent \subseteq Decision /\ \A c \in sent : c.at \in Int /\ c.enabled \in BOOLEAN
    BY DecisionTypes DEF RowsSayIt
<1>2. d.at \in Int /\ d.enabled \in BOOLEAN
    BY DecisionTypes
<1>3. p = NoRecord => sent = {} /\ ~EverOptedOut(s)
    BY DEF RowsSayIt, EverOptedOut
<1>4. p # NoRecord => Says(p, sent) /\ p.at \in Int /\ p \in Preference /\ EverOptedOut(s) = p.everOptedOut
    <2>1. p # NoRecord => Says(p, sent)
        BY DEF RowsSayIt
    <2>2. p # NoRecord => p \in Preference /\ p.at \in Int /\ p.everOptedOut \in BOOLEAN
        BY MomentAssumption DEF Sound, TypeOK, Preference
    <2> QED BY <2>1, <2>2, Zenon DEF EverOptedOut
<1>5. /\ EverOptedOut(s) => /\ p.firstOptOutAt \in Int
                            /\ Earliest(s, {}) = p.firstOptOutAt
                            /\ Earliest(s, {d.at}) \in {p.firstOptOutAt, d.at}
                            /\ Earliest(s, {d.at}) <= p.firstOptOutAt
                            /\ Earliest(s, {d.at}) <= d.at
      /\ ~EverOptedOut(s) => Earliest(s, {}) = NoRecord /\ Earliest(s, {d.at}) = d.at
    BY EarliestFacts
<1>6. CASE IsLater(s, d) \/ IsSameTimeOptOut(s, d)
    <2> DEFINE u == Recorded(s, d)
    <2>1. u = Upserted(s, d)
        BY <1>6 DEF Recorded
    <2>2. /\ u.at = d.at /\ u.enabled = d.enabled
          /\ u.everOptedOut = (EverOptedOut(s) \/ ~d.enabled)
          /\ u.firstOptOutAt = f
        BY <2>1 DEF Upserted
    <2>3. p = NoRecord \/ d.at > p.at \/ (d.at = p.at /\ ~d.enabled /\ p.enabled)
        BY <1>6 DEF IsLater, IsSameTimeOptOut
    <2> HIDE DEF u, p, sent
    <2>4. CASE p = NoRecord
        <3>1. sent \cup {d} = {d}
            BY <1>3, <2>4
        <3>2. Says(u, {d})
            <4>1. d.enabled => u.everOptedOut = FALSE /\ u.firstOptOutAt = NoRecord
                BY <1>2, <1>3, <1>5, <2>2, <2>4
            <4>2. ~d.enabled => u.everOptedOut = TRUE /\ u.firstOptOutAt = d.at
                BY <1>2, <1>3, <1>5, <2>2, <2>4
            <4> QED BY <1>2, <2>2, <4>1, <4>2 DEF Says
        <3> QED BY <3>1, <3>2 DEF u, sent
    <2>5. CASE p # NoRecord
        <3>1. Says(p, sent)
            BY <1>4, <2>5
        <3>2. \A c \in sent \cup {d} : c.at <= u.at
            BY <1>1, <1>2, <1>4, <2>2, <2>3, <2>5, <3>1 DEF Says
        <3>3. u.enabled <=> \A c \in sent \cup {d} : c.at = u.at => c.enabled
            <4>1. CASE d.at > p.at
                BY <1>1, <1>2, <1>4, <2>2, <2>5, <3>1, <4>1 DEF Says
            <4>2. CASE d.at = p.at /\ ~d.enabled
                BY <1>2, <2>2, <4>2
            <4> QED BY <2>3, <2>5, <4>1, <4>2
        <3>4. u.everOptedOut <=> \E c \in sent \cup {d} : ~c.enabled
            BY <1>2, <1>4, <2>2, <2>5, <3>1 DEF Says
        <3>5. EverOptedOut(s) <=> p.everOptedOut
            BY <1>4, <2>5
        <3>6. u.everOptedOut =>
                /\ \E c \in sent \cup {d} : ~c.enabled /\ c.at = u.firstOptOutAt
                /\ \A c \in sent \cup {d} : ~c.enabled => u.firstOptOutAt <= c.at
            <4>1. CASE d.enabled
                BY <1>2, <1>5, <2>2, <3>1, <3>5, <4>1 DEF Says
            <4>2. CASE ~d.enabled
                <5>1. CASE EverOptedOut(s)
                    <6> DEFINE a == p.firstOptOutAt
                    <6>1. a \in Int /\ u.firstOptOutAt \in {a, d.at}
                            /\ u.firstOptOutAt <= a /\ u.firstOptOutAt <= d.at
                        BY <1>5, <2>2, <4>2, <5>1
                    <6>2. (\E c \in sent : ~c.enabled /\ c.at = a)
                            /\ \A c \in sent : ~c.enabled => a <= c.at
                        BY <3>1, <3>5, <5>1 DEF Says
                    <6> HIDE DEF a
                    <6>3. \E c \in sent \cup {d} : ~c.enabled /\ c.at = u.firstOptOutAt
                        BY <4>2, <6>1, <6>2
                    <6>4. \A c \in sent \cup {d} : ~c.enabled => u.firstOptOutAt <= c.at
                        BY <1>1, <1>2, <6>1, <6>2
                    <6> QED BY <6>3, <6>4
                <5>2. CASE ~EverOptedOut(s)
                    <6>1. u.firstOptOutAt = d.at
                        BY <1>5, <2>2, <4>2, <5>2
                    <6>2. \A c \in sent : c.enabled
                        BY <3>1, <3>5, <5>2 DEF Says
                    <6> QED BY <1>2, <4>2, <6>1, <6>2
                <5> QED BY <5>1, <5>2
            <4> QED BY <4>1, <4>2
        <3>7. ~u.everOptedOut => u.firstOptOutAt = NoRecord
            BY <1>2, <1>5, <2>2
        <3>8. sent \cup {d} # {} /\ \E c \in sent \cup {d} : c.at = u.at
            BY <2>2
        <3> QED BY <3>2, <3>3, <3>4, <3>6, <3>7, <3>8 DEF Says, u, sent
    <2> QED BY <2>4, <2>5 DEF u, sent
<1>7. CASE ~(IsLater(s, d) \/ IsSameTimeOptOut(s, d))
    <2>1. p # NoRecord /\ ~(d.at > p.at) /\ ~(d.at = p.at /\ ~d.enabled /\ p.enabled)
        BY <1>7 DEF IsLater, IsSameTimeOptOut
    <2>2. CASE IsIdempotent(s, d)
        <3> DEFINE u == Recorded(s, d)
        <3>1. u = [p EXCEPT !.terms = d.terms, !.expires = now + RawTtl]
            BY <1>7, <2>2 DEF Recorded
        <3>2. /\ u.at = p.at /\ u.enabled = p.enabled /\ u.everOptedOut = p.everOptedOut
              /\ u.firstOptOutAt = p.firstOptOutAt /\ d.at = p.at /\ d.enabled = p.enabled
            BY <1>4, <2>1, <2>2, <3>1 DEF IsIdempotent, Preference
        <3> HIDE DEF u, p, sent
        <3>3. p.firstOptOutAt \in Int \/ ~p.everOptedOut
            BY <1>4, <1>5, <2>1
        <3> QED BY <1>1, <1>2, <1>4, <2>1, <3>2, <3>3 DEF Says, u, sent
    <2>3. CASE ~IsIdempotent(s, d)
        <3>1. d.at < p.at \/ (d.at = p.at /\ d.enabled /\ ~p.enabled)
            BY <1>2, <1>4, <2>1, <2>3 DEF IsIdempotent, Preference
        <3>2. CASE ~d.enabled
            <4> DEFINE u == Recorded(s, d)
            <4>1. u = [p EXCEPT !.everOptedOut = TRUE, !.firstOptOutAt = Earliest(s, {d.at})]
                BY <1>7, <2>3, <3>2 DEF Recorded
            <4>2. /\ u.at = p.at /\ u.enabled = p.enabled /\ u.everOptedOut
                  /\ u.firstOptOutAt = Earliest(s, {d.at})
                BY <1>4, <2>1, <4>1 DEF Preference
            <4> HIDE DEF u, p, sent
            <4> QED BY <1>1, <1>2, <1>4, <1>5, <2>1, <3>1, <3>2, <4>2 DEF Says, u, sent
        <3>3. CASE d.enabled
            <4>1. Recorded(s, d) = p
                BY <1>7, <2>3, <3>3 DEF Recorded
            <4> HIDE DEF p, sent
            <4> QED BY <1>1, <1>2, <1>4, <1>5, <2>1, <3>1, <3>3, <4>1 DEF Says, sent
        <3> QED BY <3>2, <3>3
    <2> QED BY <2>2, <2>3
<1> QED BY <1>6, <1>7

LEMMA RowsSayItStep ==
    ASSUME Sound, RowsSayIt, [Next]_vars
    PROVE  RowsSayIt'
<1>1. ASSUME UNCHANGED <<preferences, heard>>
      PROVE  RowsSayIt'
    BY <1>1 DEF RowsSayIt
<1>2. ASSUME NEW s \in Sessions, NEW d \in Decision, RecordPreference(s, d)
      PROVE  RowsSayIt'
    <2> DEFINE r == Recorded(s, d)
    <2>1. /\ preferences' = [preferences EXCEPT ![s] = r]
          /\ heard' = [heard EXCEPT ![s] = @ \cup {d}]
          /\ preferences \in [Sessions -> Preference \cup {NoRecord}]
          /\ heard \in [Sessions -> SUBSET Decision]
        BY <1>2 DEF RecordPreference, Sound, TypeOK, RowsSayIt
    <2>2. Says(r, heard[s] \cup {d})
        BY RecordedSaysIt
    <2>3. r # NoRecord
        BY RecordedIsRow
    <2> HIDE DEF r
    <2> QED BY <2>1, <2>2, <2>3 DEF RowsSayIt
<1>3. ASSUME NEW tombs, SweepOf(tombs)
      PROVE  RowsSayIt'
    <2>1. /\ preferences' = [s \in Sessions |->
                IF preferences[s] # NoRecord /\ preferences[s].expires <= now
                THEN NoRecord ELSE preferences[s]]
          /\ heard' = [s \in Sessions |-> IF preferences'[s] = NoRecord THEN {} ELSE heard[s]]
        BY <1>3 DEF SweepOf
    <2>2. heard \in [Sessions -> SUBSET Decision]
        BY DEF RowsSayIt
    <2>3. heard' \in [Sessions -> SUBSET Decision]
        BY <2>1, <2>2
    <2>4. \A s \in Sessions :
            \/ preferences'[s] = NoRecord /\ heard'[s] = {}
            \/ preferences'[s] # NoRecord /\ preferences'[s] = preferences[s] /\ heard'[s] = heard[s]
        BY <2>1
    <2> QED BY <2>3, <2>4 DEF RowsSayIt
<1> QED
    BY <1>1, <1>2, <1>3
    DEF Next, vars, CreateSession, Ingest, DeleteTelemetry, Sweep, Restart, Tick

LEMMA RowsSayEnough == Sound /\ RowsSayIt => DecisionsCommute
<1> SUFFICES ASSUME Sound, RowsSayIt, NEW s \in Sessions, preferences[s] # NoRecord
             PROVE  LET newest == {d \in heard[s] : \A c \in heard[s] : c.at <= d.at}
                        outs == {d.at : d \in {c \in heard[s] : ~c.enabled}}
                    IN
                    /\ \A d \in newest : d.at = preferences[s].at
                    /\ preferences[s].enabled <=> \A d \in newest : d.enabled
                    /\ preferences[s].everOptedOut <=> outs # {}
                    /\ preferences[s].firstOptOutAt = IF outs = {} THEN NoRecord ELSE Min(outs)
    BY DEF DecisionsCommute
<1> DEFINE p == preferences[s]
           sent == heard[s]
           newest == {d \in sent : \A c \in sent : c.at <= d.at}
           outs == {d.at : d \in {c \in sent : ~c.enabled}}
<1>1. Says(p, sent) /\ sent \subseteq Decision
    BY DEF RowsSayIt
<1>2. (\A c \in sent : c.at \in Int /\ c.enabled \in BOOLEAN) /\ p.at \in Int
    BY <1>1, DecisionTypes, MomentAssumption DEF Sound, TypeOK, Preference
<1>3. newest = {d \in sent : d.at = p.at}
    <2> HIDE DEF p, sent
    <2> QED BY <1>1, <1>2 DEF Says
<1>4. (\A d \in newest : d.at = p.at) /\ (p.enabled <=> \A d \in newest : d.enabled)
    <2> HIDE DEF p, sent, newest
    <2> QED BY <1>1, <1>3 DEF Says
<1>5. p.everOptedOut <=> outs # {}
    <2> HIDE DEF p, sent
    <2> QED BY <1>1 DEF Says
<1>6. p.firstOptOutAt = IF outs = {} THEN NoRecord ELSE Min(outs)
    <2>1. CASE outs = {}
        BY <1>1, <1>5, <2>1 DEF Says
    <2>2. CASE outs # {}
        <3> HIDE DEF p, sent
        <3>1. p.firstOptOutAt \in outs /\ \A y \in outs : p.firstOptOutAt <= y
            BY <1>1, <1>5, <2>2 DEF Says
        <3>2. outs \subseteq Int
            BY <1>2
        <3> HIDE DEF outs
        <3>3. Min(outs) = p.firstOptOutAt
            BY <3>1, <3>2, LeastIs
        <3> QED BY <2>2, <3>3
    <2> QED BY <2>1, <2>2
<1> QED BY <1>4, <1>5, <1>6

(* In whatever order the decisions of a session reach                      *)
(* recordTelemetryPreference, its row is what they say together.           *)
THEOREM DecisionsInAnyOrder == Spec => []DecisionsCommute
<1>1. Init => RowsSayIt
    BY DEF Init, RowsSayIt
<1>2. Sound /\ [Next]_vars => Sound'
    BY StepFacts
<1>3. Sound /\ RowsSayIt /\ [Next]_vars => RowsSayIt'
    BY RowsSayItStep
<1> QED BY <1>1, <1>2, <1>3, InitSound, RowsSayEnough, PTL DEF Spec
-----------------------------------------------------------------------------
(* CountsAddUp.  CountIn is a sum over a finite set, element by element as  *)
(* CHOOSE picks them.  SumOf(w, S) is that sum, of w[x].count for x in S:   *)
(* the lemmas about it say that the order does not matter and that a sum of *)
(* parts is the sum of the whole; the others follow the actions.            *)
Any(s) == CHOOSE x \in s : TRUE
SumTurn(f, w, s) == IF s = {} THEN 0 ELSE w[Any(s)].count + f[s \ {Any(s)}]
UpTo(S, n) == {s \in SUBSET S : Cardinality(s) <= n}
IsSumOn(f, w, D) == f = [s \in D |-> SumTurn(f, w, s)]
SumIn(w, S, R) == (CHOOSE f : IsSumOn(f, w, SUBSET S))[R]
SumOf(w, S) == SumIn(w, S, S)
Weighs(w, S) == IsFiniteSet(S) /\ \A x \in S : w[x].count \in Nat

(* A set of natural numbers has a least element.                            *)
LEMMA LeastOf ==
    ASSUME NEW S \in SUBSET Nat, S # {}
    PROVE  \E m \in S : \A n \in S : ~(n < m)
<1>1. PICK m \in S : \A y \in S : ~(<<y, m>> \in OpToRel(<, Nat))
    BY NatLessThanWellFounded, WFMin, Zenon
<1> QED BY <1>1 DEF OpToRel

(* Without an element a finite set is smaller.                              *)
LEMMA SmallerWithout ==
    ASSUME NEW S, IsFiniteSet(S), NEW x \in S
    PROVE  /\ IsFiniteSet(S \ {x}) /\ Cardinality(S \ {x}) \in Nat /\ Cardinality(S) \in Nat
           /\ Cardinality(S \ {x}) < Cardinality(S)
           /\ Cardinality(S) = Cardinality(S \ {x}) + 1
<1>1. IsFiniteSet(S \ {x}) /\ Cardinality(S \ {x}) = Cardinality(S) - 1
  BY FS_RemoveElement
<1>2. Cardinality(S \ {x}) \in Nat /\ Cardinality(S) \in Nat
  BY <1>1, FS_CardinalityType
<1> QED BY <1>1, <1>2

(* CHOOSE takes an element of the set.                                      *)
LEMMA AnyIsIn == ASSUME NEW S, S # {} PROVE Any(S) \in S
BY DEF Any

(* Induction over the subsets of a finite set.                              *)
LEMMA OneByOne ==
    ASSUME NEW S, IsFiniteSet(S), NEW B, {} \in B,
           \A s \in SUBSET S : s # {} /\ s \ {Any(s)} \in B => s \in B
    PROVE  S \in B
<1> DEFINE Bad == {n \in Nat : \E s \in SUBSET S : Cardinality(s) = n /\ s \notin B}
<1>1. \A s \in SUBSET S : IsFiniteSet(s) /\ Cardinality(s) \in Nat
  BY FS_Subset, FS_CardinalityType
<1>2. Bad = {}
  <2> SUFFICES ASSUME Bad # {} PROVE FALSE OBVIOUS
  <2>1. PICK n \in Bad : \A k \in Bad : ~(k < n)
    <3>1. Bad \in SUBSET Nat OBVIOUS
    <3> HIDE DEF Bad
    <3> QED BY <3>1, LeastOf
  <2>2. PICK s \in SUBSET S : Cardinality(s) = n /\ s \notin B BY <2>1
  <2>3. s # {} BY <2>2
  <2> DEFINE r == s \ {Any(s)}
  <2>4. r \in SUBSET S /\ Cardinality(r) \in Nat /\ Cardinality(r) < n
    BY <1>1, <2>2, <2>3, AnyIsIn, SmallerWithout
  <2>5. r \in B BY <2>1, <2>4
  <2> QED BY <2>2, <2>3, <2>5
<1> QED BY <1>1, <1>2

(* A function of the subsets with at most n elements.                       *)
LEMMA SumsUpTo ==
    ASSUME NEW w, NEW S, IsFiniteSet(S), NEW n \in Nat
    PROVE  \E f : IsSumOn(f, w, UpTo(S, n))
<1> DEFINE Small(m) == UpTo(S, m)
           Bad == {m \in Nat : ~\E f : IsSumOn(f, w, Small(m))}
<1> SUFFICES ASSUME Bad # {} PROVE FALSE
  OBVIOUS
<1>1. PICK m \in Bad : \A k \in Bad : ~(k < m)
  <2>1. Bad \in SUBSET Nat OBVIOUS
  <2> HIDE DEF Bad
  <2> QED BY <2>1, LeastOf
<1>2. \A s \in SUBSET S : IsFiniteSet(s) /\ Cardinality(s) \in Nat
  BY FS_Subset, FS_CardinalityType
<1> USE DEF UpTo
<1>3. CASE m = 0
  <2> DEFINE f == [s \in Small(0) |-> 0]
  <2>1. \A s \in Small(0) : s = {}
    <3> TAKE s \in Small(0)
    <3>1. IsFiniteSet(s) /\ Cardinality(s) = 0 BY <1>2
    <3> QED BY <3>1, FS_EmptySet
  <2>2. \A s \in Small(0) : SumTurn(f, w, s) = 0 BY <2>1 DEF SumTurn
  <2>3. IsSumOn(f, w, Small(0))
    <3> HIDE DEF Small
    <3> QED BY <2>2 DEF IsSumOn
  <2> QED BY <1>1, <1>3, <2>3
<1>4. CASE m # 0
  <2>1. m - 1 \in Nat /\ m - 1 \notin Bad
    <3>1. m \in Nat OBVIOUS
    <3>2. m - 1 \in Nat /\ m - 1 < m BY <1>4, <3>1
    <3> HIDE DEF Bad
    <3> QED BY <1>1, <3>2
  <2>2. PICK g : IsSumOn(g, w, Small(m - 1)) BY <2>1
  <2> DEFINE f == [s \in Small(m) |-> SumTurn(g, w, s)]
  <2>3. ASSUME NEW s \in Small(m), s # {}
        PROVE  s \ {Any(s)} \in Small(m - 1)
    <3>1. Any(s) \in s /\ s \in SUBSET S /\ Cardinality(s) <= m BY <2>3, AnyIsIn
    <3>2. Cardinality(s) = Cardinality(s \ {Any(s)}) + 1 /\ Cardinality(s \ {Any(s)}) \in Nat
      BY <1>2, <3>1, SmallerWithout
    <3>3. Cardinality(s \ {Any(s)}) <= m - 1 BY <3>1, <3>2
    <3> QED BY <3>1, <3>3
  <2>4. Small(m - 1) \subseteq Small(m) BY <1>2
  <2>5. \A s \in Small(m - 1) : f[s] = g[s]
    <3> TAKE s \in Small(m - 1)
    <3>1. g[s] = SumTurn(g, w, s)
      <4> HIDE DEF Small
      <4> QED BY <2>2 DEF IsSumOn
    <3>2. f[s] = SumTurn(g, w, s)
      <4>1. s \in Small(m) BY <2>4
      <4> HIDE DEF Small
      <4> QED BY <4>1
    <3> QED BY <3>1, <3>2
  <2>6. \A s \in Small(m) : SumTurn(f, w, s) = SumTurn(g, w, s)
    <3> HIDE DEF f, Small
    <3> QED BY <2>3, <2>5 DEF SumTurn
  <2>7. f = [s \in Small(m) |-> SumTurn(f, w, s)]
    <3> DEFINE h == [s \in Small(m) |-> SumTurn(f, w, s)]
    <3> HIDE DEF Small
    <3>1. DOMAIN f = DOMAIN h /\ \A s \in Small(m) : f[s] = h[s]
      <4>1. \A s \in Small(m) : f[s] = SumTurn(g, w, s) OBVIOUS
      <4>2. DOMAIN f = Small(m) OBVIOUS
      <4> HIDE DEF f
      <4> QED BY <2>6, <4>1, <4>2
    <3>2. f = [s \in Small(m) |-> f[s]] OBVIOUS
    <3> HIDE DEF f
    <3> QED BY <3>1, <3>2
  <2>8. IsSumOn(f, w, Small(m))
    <3> HIDE DEF f, Small
    <3> QED BY <2>7 DEF IsSumOn
  <2> QED BY <1>1, <2>8
<1> QED BY <1>3, <1>4

(* The sum is computed for every subset.                                    *)
LEMMA SumUnfolds ==
    ASSUME NEW w, NEW S, IsFiniteSet(S), NEW s \in SUBSET S
    PROVE  SumIn(w, S, s) = IF s = {} THEN 0 ELSE w[Any(s)].count + SumIn(w, S, s \ {Any(s)})
<1>1. \A r \in SUBSET S : Cardinality(r) <= Cardinality(S)
  <2> TAKE r \in SUBSET S
  <2> QED BY FS_Subset
<1>2. Cardinality(S) \in Nat BY FS_CardinalityType
<1>3. UpTo(S, Cardinality(S)) = SUBSET S BY <1>1 DEF UpTo
<1>4. \E f : IsSumOn(f, w, SUBSET S)
  <2>1. \E f : IsSumOn(f, w, UpTo(S, Cardinality(S)))
    BY <1>2, SumsUpTo
  <2> QED BY <1>3, <2>1
<1> DEFINE f == CHOOSE f : IsSumOn(f, w, SUBSET S)
<1>5. IsSumOn(f, w, SUBSET S) BY <1>4
<1>6. \A r : SumIn(w, S, r) = f[r] BY DEF SumIn
<1> HIDE DEF f
<1>7. f[s] = SumTurn(f, w, s) BY <1>5 DEF IsSumOn
<1> QED BY <1>6, <1>7 DEF SumTurn

(* The same sum in two sets, for weights that agree.                        *)
LEMMA SumsAgree ==
    ASSUME NEW w, NEW u, NEW S, NEW T, IsFiniteSet(S), IsFiniteSet(T),
           NEW R \in SUBSET (S \cap T), \A x \in R : w[x].count = u[x].count
    PROVE  SumIn(w, S, R) = SumIn(u, T, R)
<1> DEFINE B == {s \in SUBSET R : SumIn(w, S, s) = SumIn(u, T, s)}
<1>1. \A s \in SUBSET R :
        /\ SumIn(w, S, s) = IF s = {} THEN 0 ELSE w[Any(s)].count + SumIn(w, S, s \ {Any(s)})
        /\ SumIn(u, T, s) = IF s = {} THEN 0 ELSE u[Any(s)].count + SumIn(u, T, s \ {Any(s)})
  BY SumUnfolds
<1>2. IsFiniteSet(R) /\ {} \in B BY <1>1, FS_Subset
<1>3. ASSUME NEW s \in SUBSET R, s # {}, s \ {Any(s)} \in B
      PROVE  s \in B
  <2>1. Any(s) \in R BY <1>3, AnyIsIn
  <2> QED BY <1>1, <1>3, <2>1
<1>4. R \in B
  <2> HIDE DEF B
  <2> QED BY <1>2, <1>3, OneByOne
<1> QED BY <1>4

(* Nothing adds up to 0.                                                    *)
LEMMA SumOfNone == ASSUME NEW w PROVE SumOf(w, {}) = 0
BY FS_EmptySet, SumUnfolds DEF SumOf

(* The element that CHOOSE takes, and the others.                           *)
LEMMA SumFirst ==
    ASSUME NEW w, NEW S, IsFiniteSet(S), S # {}
    PROVE  SumOf(w, S) = w[Any(S)].count + SumOf(w, S \ {Any(S)})
<1> DEFINE R == S \ {Any(S)}
<1>1. SumIn(w, S, S) = w[Any(S)].count + SumIn(w, S, R) BY SumUnfolds
<1>2. IsFiniteSet(R) /\ R \in SUBSET (S \cap R) BY FS_Subset
<1>3. SumIn(w, S, R) = SumIn(w, R, R)
  <2> HIDE DEF R
  <2>1. \A u, T, Q : IsFiniteSet(T) /\ Q \in SUBSET (S \cap T) /\ (\A x \in Q : w[x].count = u[x].count)
          => SumIn(w, S, Q) = SumIn(u, T, Q)
    BY SumsAgree
  <2> QED BY <1>2, <2>1
<1> QED BY <1>1, <1>3 DEF SumOf

(* Equal weights have equal sums.                                           *)
LEMMA SumSame ==
    ASSUME NEW w, NEW u, NEW S, IsFiniteSet(S), \A x \in S : w[x].count = u[x].count
    PROVE  SumOf(w, S) = SumOf(u, S)
<1>1. S \in SUBSET (S \cap S) OBVIOUS
<1> QED BY <1>1, SumsAgree DEF SumOf

(* Any element may come first.                                              *)
LEMMA SumOne ==
    ASSUME NEW w, NEW S, Weighs(w, S)
    PROVE  /\ SumOf(w, S) \in Nat
           /\ \A x \in S : SumOf(w, S) = w[x].count + SumOf(w, S \ {x})
<1> DEFINE Good(s) == /\ SumOf(w, s) \in Nat
                      /\ \A x \in s : SumOf(w, s) = w[x].count + SumOf(w, s \ {x})
           Bad == {n \in Nat : \E s \in SUBSET S : Cardinality(s) = n /\ ~Good(s)}
<1>1. \A s \in SUBSET S : IsFiniteSet(s) /\ Cardinality(s) \in Nat
  BY FS_Subset, FS_CardinalityType DEF Weighs
<1>2. Bad = {}
  <2> SUFFICES ASSUME Bad # {} PROVE FALSE OBVIOUS
  <2>1. PICK n \in Bad : \A k \in Bad : ~(k < n)
    <3>1. Bad \in SUBSET Nat OBVIOUS
    <3> HIDE DEF Bad
    <3> QED BY <3>1, LeastOf
  <2>2. PICK s \in SUBSET S : Cardinality(s) = n /\ ~Good(s) BY <2>1
  <2>3. \A r \in SUBSET S : Cardinality(r) < n => Good(r)
    <3> TAKE r \in SUBSET S
    <3> HAVE Cardinality(r) < n
    <3>1. Cardinality(r) \in Nat BY <1>1
    <3> HIDE DEF Good
    <3> QED BY <2>1, <3>1
  <2>4. s # {} BY <2>2, SumOfNone
  <2> DEFINE c == Any(s)
             r == s \ {c}
  <2>5. c \in s /\ w[c].count \in Nat BY <2>4, AnyIsIn DEF Weighs
  <2> HIDE DEF c
  <2>6. Good(r) /\ r \in SUBSET S
    <3>1. Cardinality(r) < n BY <1>1, <2>2, <2>5, SmallerWithout
    <3> QED BY <2>3, <3>1
  <2>7. SumOf(w, s) = w[c].count + SumOf(w, r) BY <1>1, <2>4, SumFirst DEF c
  <2>8. SumOf(w, s) \in Nat BY <2>5, <2>6, <2>7
  <2>9. ASSUME NEW x \in s PROVE SumOf(w, s) = w[x].count + SumOf(w, s \ {x})
    <3>1. CASE x = c BY <2>7, <3>1
    <3>2. CASE x # c
      <4> DEFINE q == r \ {x}
                 p == s \ {x}
      <4>1. x \in r /\ SumOf(w, r) = w[x].count + SumOf(w, q) BY <2>6, <2>9, <3>2
      <4>2. Cardinality(p) < n /\ p \in SUBSET S BY <1>1, <2>2, <2>9, SmallerWithout
      <4>3. Good(p) BY <2>3, <4>2
      <4>4. c \in p /\ p \ {c} = q BY <2>5, <3>2
      <4>5. SumOf(w, p) = w[c].count + SumOf(w, q) BY <4>3, <4>4
      <4>6. Cardinality(q) < n /\ q \in SUBSET S
        <5>1. q \in SUBSET S /\ Cardinality(q) < Cardinality(r) /\ Cardinality(r) < n
              /\ Cardinality(q) \in Nat /\ Cardinality(r) \in Nat
          BY <1>1, <2>2, <2>5, <2>6, <4>1, SmallerWithout
        <5> QED BY <1>1, <2>2, <5>1
      <4>7. SumOf(w, q) \in Nat BY <2>3, <4>6
      <4>8. w[x].count \in Nat BY DEF Weighs
      <4> QED BY <2>5, <2>7, <4>1, <4>5, <4>7, <4>8
    <3> QED BY <3>1, <3>2
  <2> QED BY <2>2, <2>8, <2>9
<1>3. Good(S)
  <2> HIDE DEF Good
  <2> QED BY <1>1, <1>2
<1> QED BY <1>3

(* CountIn is such a sum, in a state and in the next one.                   *)
LEMMA CountIs ==
    ASSUME NEW B, NEW K
    PROVE  CountIn(B, K) = SumOf(aggregates, {b \in B : b[2] \in K})
BY DEF CountIn, MapThenSumSet, MapThenFoldSet, SumOf, SumIn, IsSumOn, SumTurn, Any

(* The same after a step.                                                   *)
LEMMA CountWillBe ==
    ASSUME NEW K
    PROVE  CountIn(DOMAIN aggregates, K)' = SumOf(aggregates', {b \in DOMAIN aggregates' : b[2] \in K})
BY DEF CountIn, MapThenSumSet, MapThenFoldSet, SumOf, SumIn, IsSumOn, SumTurn, Any

(* A sum over S that is one of two parts, element by element.               *)
LEMMA SumBoth ==
    ASSUME NEW w, NEW u, NEW v, NEW S, IsFiniteSet(S),
           NEW T \in SUBSET S, NEW R \in SUBSET S, Weighs(u, T), Weighs(v, R),
           \A x \in S : w[x].count = (IF x \in T THEN u[x].count ELSE 0)
                                        + (IF x \in R THEN v[x].count ELSE 0)
    PROVE  SumOf(w, S) = SumOf(u, T) + SumOf(v, R)
<1> DEFINE B == {s \in SUBSET S : SumOf(w, s) = SumOf(u, s \cap T) + SumOf(v, s \cap R)}
<1>1. {} \in B
  <2>1. {} \cap T = {} /\ {} \cap R = {} OBVIOUS
  <2> QED BY <2>1, SumOfNone
<1>2. ASSUME NEW s \in SUBSET S, s # {}, s \ {Any(s)} \in B
      PROVE  s \in B
  <2> DEFINE x == Any(s)
             r == s \ {x}
  <2>1. x \in s /\ x \in S BY <1>2, AnyIsIn
  <2>2. IsFiniteSet(s) /\ SumOf(w, s) = w[x].count + SumOf(w, r)
    <3>1. IsFiniteSet(s) BY FS_Subset
    <3> QED BY <1>2, <3>1, SumFirst
  <2> HIDE DEF x
  <2>3. SumOf(w, r) = SumOf(u, r \cap T) + SumOf(v, r \cap R) BY <1>2 DEF x
  <2>4. ASSUME NEW f, NEW Q \in SUBSET S, Weighs(f, Q)
        PROVE  /\ SumOf(f, s \cap Q) = (IF x \in Q THEN f[x].count ELSE 0) + SumOf(f, r \cap Q)
               /\ SumOf(f, r \cap Q) \in Nat
               /\ x \in Q => f[x].count \in Nat
    <3>1. Weighs(f, s \cap Q) /\ Weighs(f, r \cap Q)
      <4>1. IsFiniteSet(Q) /\ s \cap Q \in SUBSET Q /\ r \cap Q \in SUBSET Q BY <2>4 DEF Weighs
      <4>2. \A p \in SUBSET Q : IsFiniteSet(p) BY <4>1, FS_Subset
      <4>3. IsFiniteSet(s \cap Q) /\ IsFiniteSet(r \cap Q) BY <4>1, <4>2
      <4>4. \A q \in Q : f[q].count \in Nat BY <2>4 DEF Weighs
      <4> HIDE DEF r
      <4> QED BY <4>3, <4>4 DEF Weighs
    <3>2. SumOf(f, r \cap Q) \in Nat BY <3>1, SumOne
    <3>3. CASE x \in Q
      <4>1. x \in s \cap Q /\ (s \cap Q) \ {x} = r \cap Q BY <2>1, <3>3
      <4>2. SumOf(f, s \cap Q) = f[x].count + SumOf(f, r \cap Q) BY <3>1, <4>1, SumOne
      <4> QED BY <2>4, <3>2, <3>3, <4>2 DEF Weighs
    <3>4. CASE x \notin Q
      <4>1. s \cap Q = r \cap Q BY <3>4
      <4> DEFINE a == s \cap Q
                 b == r \cap Q
      <4> HIDE DEF a, b
      <4>2. a = b /\ SumOf(f, b) \in Nat BY <3>2, <4>1 DEF a, b
      <4>3. SumOf(f, a) = 0 + SumOf(f, b) BY <4>2
      <4> USE DEF a, b
      <4> QED BY <3>2, <3>4, <4>3
    <3> QED BY <3>3, <3>4
  <2>5. w[x].count = (IF x \in T THEN u[x].count ELSE 0) + (IF x \in R THEN v[x].count ELSE 0)
    BY <2>1
  <2>6. SumOf(w, s) = SumOf(u, s \cap T) + SumOf(v, s \cap R)
    <3>1. /\ SumOf(u, s \cap T) = (IF x \in T THEN u[x].count ELSE 0) + SumOf(u, r \cap T)
          /\ SumOf(u, r \cap T) \in Nat
          /\ x \in T => u[x].count \in Nat
      BY <2>4
    <3>2. /\ SumOf(v, s \cap R) = (IF x \in R THEN v[x].count ELSE 0) + SumOf(v, r \cap R)
          /\ SumOf(v, r \cap R) \in Nat
          /\ x \in R => v[x].count \in Nat
      BY <2>4
    <3> QED BY <2>2, <2>3, <2>5, <3>1, <3>2
  <2> QED BY <2>6
<1>3. S \in B
  <2> HIDE DEF B
  <2> QED BY <1>1, <1>2, OneByOne
<1>4. S \cap T = T /\ S \cap R = R OBVIOUS
<1> QED BY <1>3, <1>4

(* The elements of E by the group they are in.                              *)
LEMMA SumOfGroups ==
    ASSUME NEW w, NEW S, IsFiniteSet(S), NEW E, IsFiniteSet(E), NEW g,
           \A b \in S : w[b].count = Cardinality({r \in E : g[r] = b})
    PROVE  SumOf(w, S) = Cardinality({r \in E : g[r] \in S})
<1> DEFINE In(s) == {r \in E : g[r] \in s}
           B == {s \in SUBSET S : SumOf(w, s) = Cardinality(In(s))}
<1>1. {} \in B
  <2>1. In({}) = {} OBVIOUS
  <2> QED BY <2>1, SumOfNone, FS_EmptySet
<1>2. ASSUME NEW s \in SUBSET S, s # {}, s \ {Any(s)} \in B
      PROVE  s \in B
  <2> DEFINE x == Any(s)
             r == s \ {x}
             G == {q \in E : g[q] = x}
  <2>1. x \in s /\ x \in S BY <1>2, AnyIsIn
  <2>2. SumOf(w, s) = w[x].count + SumOf(w, r)
    <3>1. IsFiniteSet(s) BY FS_Subset
    <3> QED BY <1>2, <3>1, SumFirst
  <2> HIDE DEF x
  <2>3. SumOf(w, r) = Cardinality(In(r)) BY <1>2 DEF x
  <2>4. w[x].count = Cardinality(G) BY <2>1
  <2>5. In(s) = G \cup In(r) /\ G \cap In(r) = {} BY <2>1
  <2>6. IsFiniteSet(G) /\ IsFiniteSet(In(r)) BY FS_Subset
  <2>7. Cardinality(In(s)) = Cardinality(G) + Cardinality(In(r))
    <3> HIDE DEF G, In
    <3>1. Cardinality(G) \in Nat /\ Cardinality(In(r)) \in Nat BY <2>6, FS_CardinalityType
    <3>2. Cardinality(In(s)) = Cardinality(G) + Cardinality(In(r)) - Cardinality({})
      BY <2>5, <2>6, FS_Union
    <3> QED BY <3>1, <3>2, FS_EmptySet
  <2>8. SumOf(w, s) = Cardinality(In(s)) BY <2>2, <2>3, <2>4, <2>7
  <2> QED BY <2>8
<1>3. S \in B
  <2> HIDE DEF B
  <2> QED BY <1>1, <1>2, OneByOne
<1> QED BY <1>3

(* What the buckets B of the table agg count of the kinds K.                *)
Of(agg, B, K) == SumOf(agg, {b \in B : b[2] \in K})

TallyType == [accepted : Nat, erased : Nat, expiredEvents : Nat,
              choices : [Counters -> Nat], expiredChoices : [Counters -> Nat]]

(* The inductive invariant of CountsAddUp, on top of Sound and RowsSayIt.   *)
Tallied ==
    /\ IsFiniteSet(raw) /\ \A r, q \in raw : r.event = q.event => r = q
    /\ IsFiniteSet(DOMAIN aggregates)
    /\ \A b \in DOMAIN aggregates : aggregates[b].count \in Nat
    /\ discardedRows \in Nat
    /\ tally \in TallyType
    /\ CountsAddUp

(* CountsAddUp in terms of these sums.                                      *)
LEMMA CountsAre ==
    CountsAddUp <=>
        /\ tally.accepted = Cardinality(raw) + tally.erased + tally.expiredEvents
                              + Of(aggregates, DOMAIN aggregates, Names) + discardedRows
        /\ \A c \in Counters :
            tally.choices[c] = tally.expiredChoices[c] + Of(aggregates, DOMAIN aggregates, {c})
        /\ Cardinality(raw) <= MaxRaw /\ Cardinality(DOMAIN aggregates) <= MaxBuckets
<1>1. \A K : CountIn(DOMAIN aggregates, K) = Of(aggregates, DOMAIN aggregates, K)
  BY CountIs DEF Of
<1> QED BY <1>1 DEF CountsAddUp

(* The same after a step.                                                   *)
LEMMA CountsWillBe ==
    ASSUME /\ tally'.accepted = Cardinality(raw') + tally'.erased + tally'.expiredEvents
                              + Of(aggregates', DOMAIN aggregates', Names) + discardedRows'
           /\ \A c \in Counters :
              tally'.choices[c] = tally'.expiredChoices[c] + Of(aggregates', DOMAIN aggregates', {c})
           /\ Cardinality(raw') <= MaxRaw /\ Cardinality(DOMAIN aggregates') <= MaxBuckets
    PROVE  CountsAddUp'
<1>1. CountIn(DOMAIN aggregates, Names)' = Of(aggregates', DOMAIN aggregates', Names)
  BY CountWillBe DEF Of
<1>2. \A c \in Counters : CountIn(DOMAIN aggregates, {c})' = Of(aggregates', DOMAIN aggregates', {c})
  BY CountWillBe DEF Of
<1> QED BY <1>1, <1>2 DEF CountsAddUp

(* Purged, field by field.                                                  *)
LEMMA PurgedIs ==
    ASSUME Tallied
    PROVE  /\ Purged.accepted = tally.accepted /\ Purged.erased = tally.erased
           /\ Purged.choices = tally.choices
           /\ Purged.expiredEvents =
                tally.expiredEvents + Of(aggregates, DOMAIN aggregates \ FreshBuckets, Names)
           /\ Purged.expiredChoices = [c \in Counters |->
                tally.expiredChoices[c] + Of(aggregates, DOMAIN aggregates \ FreshBuckets, {c})]
           /\ Purged = [accepted |-> Purged.accepted, erased |-> Purged.erased,
                        expiredEvents |-> Purged.expiredEvents, choices |-> Purged.choices,
                        expiredChoices |-> Purged.expiredChoices]
<1>1. \A K : CountIn(DOMAIN aggregates \ FreshBuckets, K)
                = Of(aggregates, DOMAIN aggregates \ FreshBuckets, K)
  BY CountIs DEF Of
<1> DEFINE gone == DOMAIN aggregates \ FreshBuckets
           n == tally.expiredEvents + CountIn(gone, Names)
           f == [c \in Counters |-> tally.expiredChoices[c] + CountIn(gone, {c})]
<1>2. Purged = [tally EXCEPT !.expiredEvents = n, !.expiredChoices = f] BY DEF Purged
<1>3. n = tally.expiredEvents + Of(aggregates, gone, Names) BY <1>1
<1>4. f = [c \in Counters |-> tally.expiredChoices[c] + Of(aggregates, gone, {c})] BY <1>1
<1> HIDE DEF n, f
<1>5. tally \in TallyType BY DEF Tallied
<1>6. Purged = [accepted |-> tally.accepted, erased |-> tally.erased, expiredEvents |-> n,
                choices |-> tally.choices, expiredChoices |-> f]
  BY <1>2, <1>5 DEF TallyType
<1> QED BY <1>3, <1>4, <1>6

(* The expired buckets and the others.                                      *)
LEMMA PurgeSplits ==
    ASSUME Tallied, NEW K
    PROVE  LET gone == DOMAIN aggregates \ FreshBuckets IN
           /\ Of(aggregates, DOMAIN aggregates, K)
                = Of(aggregates, FreshBuckets, K) + Of(aggregates, gone, K)
           /\ Of(aggregates, FreshBuckets, K) \in Nat /\ Of(aggregates, gone, K) \in Nat
<1> DEFINE gone == DOMAIN aggregates \ FreshBuckets
           S == {b \in DOMAIN aggregates : b[2] \in K}
           T == {b \in FreshBuckets : b[2] \in K}
           R == {b \in gone : b[2] \in K}
<1>1. T \in SUBSET S /\ R \in SUBSET S /\ S \in SUBSET DOMAIN aggregates
  BY DEF FreshBuckets
<1>2. IsFiniteSet(S)
  BY <1>1, FS_Subset DEF Tallied
<1>3. \A x \in S : aggregates[x].count \in Nat BY DEF Tallied
<1>4. \A x \in S : x \in T <=> x \notin R
  BY DEF FreshBuckets
<1> HIDE DEF S, T, R
<1>5. \A p \in SUBSET S : IsFiniteSet(p) BY <1>2, FS_Subset
<1>6. Weighs(aggregates, T) /\ Weighs(aggregates, R) BY <1>1, <1>3, <1>5 DEF Weighs
<1>7. \A x \in S : aggregates[x].count = (IF x \in T THEN aggregates[x].count ELSE 0)
                                        + (IF x \in R THEN aggregates[x].count ELSE 0)
  BY <1>3, <1>4
<1>8. SumOf(aggregates, S) = SumOf(aggregates, T) + SumOf(aggregates, R)
  BY <1>1, <1>2, <1>6, <1>7, SumBoth
<1>9. SumOf(aggregates, T) \in Nat /\ SumOf(aggregates, R) \in Nat
  BY <1>6, SumOne
<1> QED BY <1>8, <1>9 DEF Of, S, T, R

(* What Counted adds.                                                       *)
LEMMA CountedAdds ==
    ASSUME Tallied, NEW new, IsFiniteSet(DOMAIN new), \A b \in DOMAIN new : new[b].count \in Nat
    PROVE  LET agg == Counted(FreshAggregates, new) IN
           /\ DOMAIN agg = FreshBuckets \cup DOMAIN new /\ IsFiniteSet(DOMAIN agg)
           /\ \A b \in DOMAIN agg : agg[b].count \in Nat
           /\ \A K : Of(agg, DOMAIN agg, K)
                        = Of(aggregates, FreshBuckets, K) + Of(new, DOMAIN new, K)
<1> DEFINE agg == Counted(FreshAggregates, new)
<1>1. DOMAIN FreshAggregates = FreshBuckets /\ FreshBuckets \in SUBSET DOMAIN aggregates
  BY DEF FreshAggregates, FreshBuckets
<1>2. DOMAIN agg = FreshBuckets \cup DOMAIN new
  BY <1>1 DEF Counted
<1>3. \A b \in FreshBuckets : FreshAggregates[b] = aggregates[b] /\ aggregates[b].count \in Nat
  BY <1>1 DEF FreshAggregates, Tallied
<1>4. \A b \in DOMAIN agg :
        agg[b].count = (IF b \in FreshBuckets THEN aggregates[b].count ELSE 0)
                         + (IF b \in DOMAIN new THEN new[b].count ELSE 0)
  <2> TAKE b \in DOMAIN agg
  <2>1. agg[b] = IF b \notin DOMAIN new THEN FreshAggregates[b]
                 ELSE IF b \notin DOMAIN FreshAggregates THEN new[b]
                 ELSE [count |-> FreshAggregates[b].count + new[b].count,
                       expires |-> Max({FreshAggregates[b].expires, new[b].expires})]
    BY DEF Counted
  <2> HIDE DEF agg
  <2>2. CASE b \notin DOMAIN new BY <1>2, <1>3, <2>1, <2>2
  <2>3. CASE b \in DOMAIN new /\ b \notin FreshBuckets BY <1>1, <2>1, <2>3
  <2>4. CASE b \in DOMAIN new /\ b \in FreshBuckets
    <3>1. agg[b].count = FreshAggregates[b].count + new[b].count BY <1>1, <2>1, <2>4
    <3> QED BY <1>3, <2>4, <3>1
  <2> QED BY <2>2, <2>3, <2>4
<1>5. \A b \in DOMAIN agg : agg[b].count \in Nat
  BY <1>2, <1>3, <1>4
<1>6. IsFiniteSet(FreshBuckets) BY <1>1, FS_Subset DEF Tallied
<1>7. IsFiniteSet(DOMAIN agg)
  <2> HIDE DEF agg
  <2> QED BY <1>2, <1>6, FS_Union
<1> HIDE DEF agg
<1>8. ASSUME NEW K
      PROVE  Of(agg, DOMAIN agg, K) = Of(aggregates, FreshBuckets, K) + Of(new, DOMAIN new, K)
  <2> DEFINE S == {b \in DOMAIN agg : b[2] \in K}
             T == {b \in FreshBuckets : b[2] \in K}
             R == {b \in DOMAIN new : b[2] \in K}
  <2>1. T \in SUBSET S /\ R \in SUBSET S /\ S \in SUBSET DOMAIN agg BY <1>2
  <2>2. \A x \in S : (x \in T <=> x \in FreshBuckets) /\ (x \in R <=> x \in DOMAIN new)
    OBVIOUS
  <2>3. (\A x \in T : aggregates[x].count \in Nat) /\ \A x \in R : new[x].count \in Nat
    BY <1>3
  <2>4. \A x \in S : agg[x].count = (IF x \in T THEN aggregates[x].count ELSE 0)
                                      + (IF x \in R THEN new[x].count ELSE 0)
    BY <1>4, <2>2
  <2> HIDE DEF S, T, R
  <2>5. IsFiniteSet(S) BY <1>7, <2>1, FS_Subset
  <2>6. \A p \in SUBSET S : IsFiniteSet(p) BY <2>5, FS_Subset
  <2>7. Weighs(aggregates, T) /\ Weighs(new, R) BY <2>1, <2>3, <2>6 DEF Weighs
  <2>8. SumOf(agg, S) = SumOf(aggregates, T) + SumOf(new, R)
    BY <2>1, <2>4, <2>5, <2>7, SumBoth
  <2> QED BY <2>8 DEF Of, S, T, R
<1> QED BY <1>2, <1>5, <1>7, <1>8 DEF agg

(* The counts `counts` and the table `agg` account for every event and decision so far.*)
Balanced(counts, agg) ==
    /\ IsFiniteSet(DOMAIN agg) /\ \A b \in DOMAIN agg : agg[b].count \in Nat
    /\ counts \in TallyType
    /\ counts.accepted = Cardinality(raw) + counts.erased + counts.expiredEvents
                          + Of(agg, DOMAIN agg, Names) + discardedRows
    /\ \A c \in Counters : counts.choices[c] = counts.expiredChoices[c] + Of(agg, DOMAIN agg, {c})

(* The invariant says that the tables account for everything.               *)
LEMMA BalancedNow == Tallied => Balanced(tally, aggregates)
BY CountsAre DEF Balanced, Tallied, TallyType

(* The table without its expired buckets.                                   *)
LEMMA FreshIs ==
    ASSUME Tallied
    PROVE  /\ DOMAIN FreshAggregates = FreshBuckets /\ IsFiniteSet(FreshBuckets)
           /\ Cardinality(FreshBuckets) <= MaxBuckets /\ Cardinality(FreshBuckets) \in Nat
           /\ \A b \in FreshBuckets : FreshAggregates[b].count \in Nat
           /\ \A K : Of(FreshAggregates, FreshBuckets, K) = Of(aggregates, FreshBuckets, K)
<1>1. DOMAIN FreshAggregates = FreshBuckets /\ FreshBuckets \in SUBSET DOMAIN aggregates
      /\ \A b \in FreshBuckets : FreshAggregates[b] = aggregates[b]
  BY DEF FreshAggregates, FreshBuckets
<1>2. IsFiniteSet(FreshBuckets) /\ Cardinality(FreshBuckets) <= Cardinality(DOMAIN aggregates)
  BY <1>1, FS_Subset DEF Tallied
<1>3. /\ Cardinality(FreshBuckets) \in Nat /\ Cardinality(DOMAIN aggregates) \in Nat
      /\ Cardinality(DOMAIN aggregates) <= MaxBuckets /\ MaxBuckets \in Nat
  BY <1>2, FS_CardinalityType, LimitAssumption DEF Tallied, CountsAddUp
<1>4. ASSUME NEW K
      PROVE  Of(FreshAggregates, FreshBuckets, K) = Of(aggregates, FreshBuckets, K)
  <2> DEFINE S == {b \in FreshBuckets : b[2] \in K}
  <2>1. S \in SUBSET FreshBuckets OBVIOUS
  <2> HIDE DEF S
  <2>2. IsFiniteSet(S) /\ \A b \in S : FreshAggregates[b].count = aggregates[b].count
    BY <1>1, <1>2, <2>1, FS_Subset
  <2>3. SumOf(FreshAggregates, S) = SumOf(aggregates, S) BY <2>2, SumSame
  <2> QED BY <2>3 DEF Of, S
<1> QED BY <1>1, <1>2, <1>3, <1>4 DEF Tallied

(* The purge of expired buckets moves their counts only.                    *)
LEMMA PurgeBalances ==
    ASSUME Tallied
    PROVE  /\ Purged \in TallyType
           /\ Purged.accepted = Cardinality(raw) + Purged.erased + Purged.expiredEvents
                                 + Of(aggregates, FreshBuckets, Names) + discardedRows
           /\ \A c \in Counters : Purged.choices[c]
                = Purged.expiredChoices[c] + Of(aggregates, FreshBuckets, {c})
           /\ \A K : Of(aggregates, FreshBuckets, K) \in Nat
           /\ Balanced(Purged, FreshAggregates)
<1> DEFINE gone == DOMAIN aggregates \ FreshBuckets
<1>1. \A K : /\ Of(aggregates, DOMAIN aggregates, K)
                  = Of(aggregates, FreshBuckets, K) + Of(aggregates, gone, K)
             /\ Of(aggregates, FreshBuckets, K) \in Nat /\ Of(aggregates, gone, K) \in Nat
  BY PurgeSplits
<1>2. /\ Purged.accepted = tally.accepted /\ Purged.erased = tally.erased
      /\ Purged.choices = tally.choices
      /\ Purged.expiredEvents = tally.expiredEvents + Of(aggregates, gone, Names)
      /\ Purged.expiredChoices
            = [c \in Counters |-> tally.expiredChoices[c] + Of(aggregates, gone, {c})]
      /\ Purged = [accepted |-> Purged.accepted, erased |-> Purged.erased,
                   expiredEvents |-> Purged.expiredEvents, choices |-> Purged.choices,
                   expiredChoices |-> Purged.expiredChoices]
  BY PurgedIs
<1> HIDE DEF gone
<1>3. tally \in TallyType /\ discardedRows \in Nat /\ Cardinality(raw) \in Nat
  BY FS_CardinalityType DEF Tallied, TallyType
<1>4. /\ tally.accepted \in Nat /\ tally.erased \in Nat /\ tally.expiredEvents \in Nat
      /\ tally.choices \in [Counters -> Nat] /\ tally.expiredChoices \in [Counters -> Nat]
  BY <1>3 DEF TallyType
<1>5. /\ Of(aggregates, gone, Names) \in Nat
      /\ \A c \in Counters : Of(aggregates, gone, {c}) \in Nat
  BY <1>1
<1>6. Purged.expiredEvents \in Nat /\ Purged.expiredChoices \in [Counters -> Nat]
  BY <1>2, <1>4, <1>5
<1>7. Purged \in TallyType
  <2> DEFINE p == Purged
  <2>1. p.accepted \in Nat /\ p.erased \in Nat /\ p.choices \in [Counters -> Nat]
    BY <1>2, <1>4
  <2> HIDE DEF p
  <2> QED BY <1>2, <1>6, <2>1 DEF TallyType, p
<1>8. tally.accepted = Cardinality(raw) + tally.erased + tally.expiredEvents
                        + Of(aggregates, DOMAIN aggregates, Names) + discardedRows
  BY CountsAre DEF Tallied
<1>9. \A c \in Counters :
        tally.choices[c] = tally.expiredChoices[c] + Of(aggregates, DOMAIN aggregates, {c})
  BY CountsAre DEF Tallied
<1>10. Purged.accepted = Cardinality(raw) + Purged.erased + Purged.expiredEvents
                          + Of(aggregates, FreshBuckets, Names) + discardedRows
  <2>1. Of(aggregates, DOMAIN aggregates, Names)
           = Of(aggregates, FreshBuckets, Names) + Of(aggregates, gone, Names)
        /\ Of(aggregates, FreshBuckets, Names) \in Nat
    BY <1>1
  <2> QED BY <1>2, <1>3, <1>4, <1>5, <1>8, <2>1
<1>11. \A c \in Counters :
        Purged.choices[c] = Purged.expiredChoices[c] + Of(aggregates, FreshBuckets, {c})
  <2> TAKE c \in Counters
  <2>1. Of(aggregates, DOMAIN aggregates, {c})
           = Of(aggregates, FreshBuckets, {c}) + Of(aggregates, gone, {c})
        /\ Of(aggregates, FreshBuckets, {c}) \in Nat /\ Of(aggregates, gone, {c}) \in Nat
    BY <1>1
  <2>2. Purged.expiredChoices[c] = tally.expiredChoices[c] + Of(aggregates, gone, {c})
        /\ tally.expiredChoices[c] \in Nat
    BY <1>2, <1>4
  <2> QED BY <1>2, <1>9, <2>1, <2>2
<1>12. Balanced(Purged, FreshAggregates)
  BY <1>7, <1>10, <1>11, FreshIs DEF Balanced
<1> QED BY <1>1, <1>7, <1>10, <1>11, <1>12

(* Sets of which one part is known.                                         *)
LEMMA PartsCount ==
    ASSUME NEW S, IsFiniteSet(S), NEW T \in SUBSET S
    PROVE  /\ IsFiniteSet(T) /\ IsFiniteSet(S \ T)
           /\ Cardinality(T) \in Nat /\ Cardinality(S \ T) \in Nat /\ Cardinality(S) \in Nat
           /\ Cardinality(S) = Cardinality(T) + Cardinality(S \ T)
<1>1. S \cap T = T OBVIOUS
<1>2. IsFiniteSet(T) /\ IsFiniteSet(S \ T)
      /\ Cardinality(S \ T) = Cardinality(S) - Cardinality(T)
  BY <1>1, FS_Subset, FS_Difference
<1>3. Cardinality(T) \in Nat /\ Cardinality(S \ T) \in Nat /\ Cardinality(S) \in Nat
  BY <1>2, FS_CardinalityType
<1> QED BY <1>2, <1>3

(* What a step has to show.                                                 *)
LEMMA TalliedNext ==
    ASSUME NEW n \in Nat, discardedRows' = discardedRows + n, discardedRows \in Nat,
           IsFiniteSet(raw'), \A r, q \in raw' : r.event = q.event => r = q,
           Balanced(tally, aggregates)', Cardinality(raw') <= MaxRaw,
           Cardinality(DOMAIN aggregates') <= MaxBuckets
    PROVE  Tallied'
<1>1. CountsAddUp' BY CountsWillBe DEF Balanced
<1> QED BY <1>1 DEF Tallied, Balanced, TallyType

(* Every event is in one row.                                               *)
LEMMA RowsAreEvents ==
    ASSUME NEW R, \A r, q \in R : r.event = q.event => r = q,
           IsFiniteSet({r.event : r \in R})
    PROVE  IsFiniteSet(R) /\ Cardinality(R) = Cardinality({r.event : r \in R})
<1> DEFINE E == {r.event : r \in R}
           f == [r \in R |-> r.event]
<1>1. /\ f \in [R -> E] /\ \A e \in E : \E r \in R : f[r] = e
      /\ \A r, q \in R : f[r] = f[q] => r = q
  OBVIOUS
<1> HIDE DEF f, E
<1>2. f \in Injection(R, E) /\ f \in Surjection(R, E)
  BY <1>1 DEF Surjection, Injection, IsInjective
<1>3. IsFiniteSet(R)
  BY <1>2, FS_Injection DEF E
<1> QED BY <1>2, <1>3, FS_Surjection DEF E

(* Finitely many rows have finitely many events.                            *)
LEMMA StoredIsFinite ==
    ASSUME IsFiniteSet(raw)
    PROVE  IsFiniteSet(Stored)
<1> DEFINE f == [r \in raw |-> r.event]
<1>1. f \in [raw -> Stored] /\ \A e \in Stored : \E r \in raw : f[r] = e BY DEF Stored
<1> HIDE DEF f
<1>2. f \in Surjection(raw, Stored) BY <1>1 DEF Surjection
<1> QED BY <1>2, FS_Surjection

(* A batch: what is new has a row each, whether buckets expired or not, and  *)
(* what does not fit is not counted.                                        *)
LEMMA IngestTallied ==
    ASSUME Sound, Tallied, NEW s \in Sessions, NEW i \in Installs, NEW batch \in SUBSET Events,
           NEW token \in Tokens, NEW epoch, Ingest(s, i, batch, token, epoch)
    PROVE  Tallied'
<1> DEFINE wanted == {e \in batch : ~ShouldDiscard(e)}
           new == wanted \ Stored
           rows == {Row(s, e) : e \in new}
<1>1. /\ IsFiniteSet(batch) /\ discardedRows' = discardedRows
      /\ IF wanted = {} THEN UNCHANGED aggregates ELSE aggregates' = FreshAggregates
  BY DEF Ingest
<1>2. PICK counts : counts = (IF wanted = {} THEN tally ELSE Purged)
  OBVIOUS
<1>3. Balanced(counts, aggregates') /\ Cardinality(DOMAIN aggregates') <= MaxBuckets
  <2>1. CASE wanted = {}
    BY <1>1, <1>2, <2>1, BalancedNow DEF Tallied, CountsAddUp
  <2>2. CASE wanted # {}
    BY <1>1, <1>2, <2>2, PurgeBalances, FreshIs
  <2> QED BY <2>1, <2>2
<1>4. \/ raw' = raw /\ tally' = counts
      \/ /\ raw' = raw \cup rows /\ EventsFit(wanted)
         /\ tally' = [counts EXCEPT !.accepted = @ + Cardinality(new)]
  BY <1>2, Zenon DEF Ingest
<1> HIDE DEF wanted
<1>5. /\ IsFiniteSet(raw) /\ \A r, q \in raw : r.event = q.event => r = q
      /\ discardedRows \in Nat /\ Cardinality(raw) \in Nat /\ Cardinality(raw) <= MaxRaw
  BY FS_CardinalityType DEF Tallied, CountsAddUp
<1>6. CASE raw' = raw /\ tally' = counts
  <2>1. Balanced(tally, aggregates)'
    BY <1>1, <1>3, <1>6 DEF Balanced
  <2> QED BY <1>1, <1>3, <1>5, <1>6, <2>1, TalliedNext
<1>7. CASE /\ raw' = raw \cup rows /\ EventsFit(wanted)
           /\ tally' = [counts EXCEPT !.accepted = @ + Cardinality(new)]
  <2>1. IsFiniteSet(wanted) /\ IsFiniteSet(new)
    <3>1. wanted \in SUBSET batch /\ new \in SUBSET batch BY DEF wanted
    <3> HIDE DEF new
    <3> QED BY <1>1, <3>1, FS_Subset
  <2>2. \A r \in rows : r.event \in new /\ r = Row(s, r.event)
    BY DEF Row
  <2>3. {r.event : r \in rows} = new
    <3>1. \A e \in new : Row(s, e) \in rows /\ Row(s, e).event = e BY DEF Row
    <3> HIDE DEF rows, new
    <3> QED BY <2>2, <3>1
  <2>4. \A r \in raw : r.event \notin new BY DEF Stored
  <2>5. IsFiniteSet(rows) /\ Cardinality(rows) = Cardinality(new)
    <3> HIDE DEF rows, new
    <3> QED BY <2>1, <2>2, <2>3, RowsAreEvents
  <2>6. \A r, q \in raw' : r.event = q.event => r = q
    <3> HIDE DEF rows, new
    <3> TAKE r, q \in raw'
    <3> HAVE r.event = q.event
    <3>1. CASE r \in raw /\ q \in raw BY <1>5, <3>1
    <3>2. CASE r \in rows /\ q \in rows
      <4>1. r = Row(s, r.event) /\ q = Row(s, q.event) BY <2>2, <3>2
      <4> QED BY <4>1
    <3>3. (r \in raw \/ r \in rows) /\ (q \in raw \/ q \in rows) BY <1>7
    <3>4. ~(r \in raw /\ q \in rows) /\ ~(r \in rows /\ q \in raw) BY <2>2, <2>4
    <3> QED BY <3>1, <3>2, <3>3, <3>4
  <2>7. raw' \ raw = rows
    <3> HIDE DEF rows, new
    <3> QED BY <1>7, <2>2, <2>4
  <2>8. {r.event : r \in raw'} = Stored \cup wanted
    <3>1. {r.event : r \in raw'} = Stored \cup {r.event : r \in rows}
      BY <1>7 DEF Stored
    <3> HIDE DEF rows
    <3> QED BY <2>3, <3>1
  <2> HIDE DEF rows, new
  <2>9. IsFiniteSet(raw') /\ Cardinality(raw') = Cardinality(raw) + Cardinality(new)
        /\ Cardinality(new) \in Nat
    <3>1. IsFiniteSet(raw') BY <1>5, <1>7, <2>5, FS_Union
    <3>2. raw \in SUBSET raw' BY <1>7
    <3> QED BY <2>5, <2>7, <3>1, <3>2, PartsCount
  <2>10. Cardinality(raw') <= MaxRaw
    <3>1. IsFiniteSet(Stored \cup wanted) BY <1>5, <2>1, StoredIsFinite, FS_Union
    <3>2. Cardinality(raw') = Cardinality(Stored \cup wanted)
      BY <2>6, <2>8, <3>1, RowsAreEvents
    <3> QED BY <1>7, <3>2 DEF EventsFit
  <2>11. Balanced(tally, aggregates)'
    <3>1. /\ counts \in TallyType
          /\ counts.accepted = Cardinality(raw) + counts.erased + counts.expiredEvents
                          + Of(aggregates', DOMAIN aggregates', Names) + discardedRows
      BY <1>3 DEF Balanced
    <3>2. /\ counts.accepted \in Nat /\ counts.erased \in Nat /\ counts.expiredEvents \in Nat
          /\ counts.accepted + Cardinality(new) \in Nat
      BY <2>9, <3>1 DEF TallyType
    <3>3. /\ tally' \in TallyType /\ tally'.accepted = counts.accepted + Cardinality(new)
          /\ tally'.erased = counts.erased /\ tally'.expiredEvents = counts.expiredEvents
          /\ tally'.choices = counts.choices /\ tally'.expiredChoices = counts.expiredChoices
      BY <1>7, <3>1, <3>2 DEF TallyType
    <3>4. Of(aggregates', DOMAIN aggregates', Names) \in Nat
      <4> DEFINE S == {b \in DOMAIN aggregates' : b[2] \in Names}
      <4>1. S \in SUBSET DOMAIN aggregates' /\ \A b \in S : aggregates'[b].count \in Nat
        BY <1>3 DEF Balanced
      <4> HIDE DEF S
      <4>2. Weighs(aggregates', S)
        BY <1>3, <4>1, FS_Subset DEF Weighs, Balanced
      <4> QED BY <4>2, SumOne DEF Of, S
    <3>5. tally'.accepted = Cardinality(raw') + tally'.erased + tally'.expiredEvents
                          + Of(aggregates', DOMAIN aggregates', Names) + discardedRows
      BY <1>5, <2>9, <3>1, <3>2, <3>3, <3>4
    <3> QED BY <1>1, <1>3, <3>3, <3>5 DEF Balanced
  <2> QED BY <1>1, <1>3, <1>5, <2>6, <2>9, <2>10, <2>11, TalliedNext
<1> QED BY <1>4, <1>6, <1>7

(* A deletion counts the rows it takes as erased.                           *)
LEMMA DeleteTallied ==
    ASSUME Tallied, NEW s \in Sessions, NEW i \in Installs, NEW token \in Tokens,
           DeleteTelemetry(s, i, token)
    PROVE  Tallied'
<1>1. /\ raw' = {r \in raw : r.event.install # i} /\ raw' \in SUBSET raw
      /\ tally' = [tally EXCEPT !.erased = @ + Cardinality(raw \ raw')]
      /\ aggregates' = aggregates /\ discardedRows' = discardedRows
  BY DEF DeleteTelemetry
<1>2. /\ IsFiniteSet(raw) /\ \A r, q \in raw : r.event = q.event => r = q
      /\ discardedRows \in Nat /\ Cardinality(raw) <= MaxRaw /\ MaxRaw \in Nat
      /\ Cardinality(DOMAIN aggregates) <= MaxBuckets
  BY LimitAssumption DEF Tallied, CountsAddUp
<1>3. /\ IsFiniteSet(raw') /\ Cardinality(raw') \in Nat /\ Cardinality(raw \ raw') \in Nat
      /\ Cardinality(raw) = Cardinality(raw') + Cardinality(raw \ raw')
  BY <1>1, <1>2, PartsCount
<1>4. Cardinality(raw') <= MaxRaw BY <1>2, <1>3
<1> DEFINE n == Cardinality(raw \ raw')
<1>5. n \in Nat /\ tally' = [tally EXCEPT !.erased = @ + n]
      /\ Cardinality(raw) = Cardinality(raw') + n
  BY <1>1, <1>3
<1> HIDE DEF n
<1>6. /\ tally \in TallyType
      /\ tally.accepted = Cardinality(raw) + tally.erased + tally.expiredEvents
                          + Of(aggregates, DOMAIN aggregates, Names) + discardedRows
      /\ Balanced(tally, aggregates)
  BY BalancedNow DEF Balanced
<1>7. /\ tally' \in TallyType /\ tally'.erased = tally.erased + n
      /\ tally'.accepted = tally.accepted /\ tally'.expiredEvents = tally.expiredEvents
      /\ tally'.choices = tally.choices /\ tally'.expiredChoices = tally.expiredChoices
      /\ tally.erased \in Nat /\ tally.expiredEvents \in Nat
  BY <1>5, <1>6 DEF TallyType
<1>8. Of(aggregates, DOMAIN aggregates, Names) \in Nat
  <2>1. Of(aggregates, DOMAIN aggregates, Names)
          = Of(aggregates, FreshBuckets, Names) + Of(aggregates, DOMAIN aggregates \ FreshBuckets, Names)
        /\ Of(aggregates, FreshBuckets, Names) \in Nat
        /\ Of(aggregates, DOMAIN aggregates \ FreshBuckets, Names) \in Nat
    BY PurgeSplits
  <2> QED BY <2>1
<1>9. tally'.accepted = Cardinality(raw') + tally'.erased + tally'.expiredEvents
                          + Of(aggregates', DOMAIN aggregates', Names) + discardedRows'
  BY <1>1, <1>2, <1>3, <1>5, <1>6, <1>7, <1>8
<1>10. Balanced(tally, aggregates)' BY <1>1, <1>6, <1>7, <1>9 DEF Balanced
<1> QED BY <1>1, <1>2, <1>3, <1>4, <1>10, TalliedNext

(* A decision is counted when it is the first one, or the first opt-out.    *)
LEMMA CountersAre ==
    ASSUME RowsSayIt, NEW s \in Sessions, NEW d \in Decision, NEW c \in Counters
    PROVE  FirstHeard(s, d, c) <=> c \in CountersOf(s, d)
<1>1. preferences[s] = NoRecord <=> heard[s] = {}
  BY DEF RowsSayIt, Says
<1>2. EverOptedOut(s) <=> \E p \in heard[s] : ~p.enabled
  <2>1. CASE preferences[s] = NoRecord BY <1>1, <2>1 DEF EverOptedOut
  <2>2. CASE preferences[s] # NoRecord
    <3>1. preferences[s].everOptedOut <=> \E p \in heard[s] : ~p.enabled
      BY <2>2 DEF RowsSayIt, Says
    <3> QED BY <2>2, <3>1, Zenon DEF EverOptedOut
  <2> QED BY <2>1, <2>2
<1>3. c = "acknowledged" \/ c = "opted_out" BY DEF Counters
<1>4. CASE c = "acknowledged"
  BY <1>1, <1>4 DEF FirstHeard, CountersOf
<1>5. CASE c = "opted_out"
  BY <1>2, <1>5 DEF FirstHeard, CountersOf
<1> QED BY <1>3, <1>4, <1>5

(* A sum of one.                                                            *)
LEMMA SumOfSingle ==
    ASSUME NEW w, NEW x, w[x].count \in Nat
    PROVE  SumOf(w, {x}) = w[x].count
<1>1. Weighs(w, {x}) BY FS_Singleton DEF Weighs
<1>2. SumOf(w, {x}) = w[x].count + SumOf(w, {x} \ {x}) BY <1>1, SumOne
<1>3. {x} \ {x} = {} OBVIOUS
<1> QED BY <1>2, <1>3, SumOfNone

(* A decision adds 1 to the counters it is first for, and nothing else.     *)
LEMMA RecordTallied ==
    ASSUME Sound, RowsSayIt, Tallied, NEW s \in Sessions, NEW d \in Decision,
           RecordPreference(s, d)
    PROVE  Tallied'
<1> DEFINE counters == CountersOf(s, d)
           buckets == {Bucket(Day(now), c, d.terms) : c \in counters}
           new == [b \in buckets |-> [count |-> 1, expires |-> now + AggregateTtl]]
           more == [c \in Counters |-> IF c \in counters THEN 1 ELSE 0]
           base == IF counters = {} THEN tally ELSE Purged
<1>1. /\ counters = {} \/ BucketsFit(buckets)
      /\ IF counters = {} THEN UNCHANGED aggregates
         ELSE aggregates' = Counted(FreshAggregates, new)
      /\ raw' = raw /\ discardedRows' = discardedRows
  BY DEF RecordPreference
<1>2. tally' = [base EXCEPT !.choices = [c \in Counters |-> @[c] + more[c]]]
  <2>1. \A c \in Counters : more[c] = IF FirstHeard(s, d, c) THEN 1 ELSE 0
    <3> HIDE DEF counters
    <3>1. \A c \in Counters : FirstHeard(s, d, c) <=> c \in counters
      BY CountersAre DEF counters
    <3> QED BY <3>1
  <2>2. tally' = [base EXCEPT !.choices = [c \in Counters |->
                        @[c] + (IF FirstHeard(s, d, c) THEN 1 ELSE 0)]]
    BY DEF RecordPreference
  <2> HIDE DEF more, base
  <2> QED BY <2>1, <2>2
<1>3. counters \subseteq Counters /\ IsFiniteSet(Counters)
  <2>1. IsFiniteSet({"acknowledged"} \cup {"opted_out"}) BY FS_Singleton, FS_AddElement
  <2>2. Counters = {"acknowledged"} \cup {"opted_out"} BY DEF Counters
  <2> QED BY <2>1, <2>2 DEF CountersOf, Counters
<1>4. more \in [Counters -> Nat] OBVIOUS
<1>5. /\ IsFiniteSet(raw) /\ \A r, q \in raw : r.event = q.event => r = q
      /\ discardedRows \in Nat /\ Cardinality(raw) <= MaxRaw
      /\ Cardinality(DOMAIN aggregates) <= MaxBuckets
  BY DEF Tallied, CountsAddUp
<1>6. /\ IsFiniteSet(DOMAIN aggregates') /\ \A b \in DOMAIN aggregates' : aggregates'[b].count \in Nat
      /\ Cardinality(DOMAIN aggregates') <= MaxBuckets
      /\ base \in TallyType
      /\ base.accepted = Cardinality(raw) + base.erased + base.expiredEvents
                          + Of(aggregates', DOMAIN aggregates', Names) + discardedRows
      /\ \A c \in Counters : base.choices[c] + more[c]
                = base.expiredChoices[c] + Of(aggregates', DOMAIN aggregates', {c})
  <2>1. CASE counters = {}
    <3>1. \A c \in Counters : more[c] = 0 BY <2>1
    <3>2. base = tally /\ aggregates' = aggregates BY <1>1, <2>1
    <3>3. Balanced(tally, aggregates) BY BalancedNow
    <3>4. tally.choices \in [Counters -> Nat] BY <3>3 DEF Balanced, TallyType
    <3> HIDE DEF base, more
    <3> QED BY <1>5, <3>1, <3>2, <3>3, <3>4 DEF Balanced
  <2>2. CASE counters # {}
    <3>1. base = Purged /\ aggregates' = Counted(FreshAggregates, new) /\ BucketsFit(buckets)
      BY <1>1, <2>2
    <3>2. IsFiniteSet(buckets)
      <4> DEFINE f == [c \in counters |-> Bucket(Day(now), c, d.terms)]
      <4>1. f \in [counters -> buckets] /\ \A b \in buckets : \E c \in counters : f[c] = b
        OBVIOUS
      <4> HIDE DEF f, buckets, counters
      <4>2. f \in Surjection(counters, buckets) BY <4>1 DEF Surjection
      <4>3. IsFiniteSet(counters) BY <1>3, FS_Subset
      <4> QED BY <4>2, <4>3, FS_Surjection
    <3>3. DOMAIN new = buckets /\ \A b \in buckets : new[b].count = 1
      <4> HIDE DEF buckets
      <4> QED OBVIOUS
    <3>4. \A c : Bucket(Day(now), c, d.terms)[2] = c BY DEF Bucket
    <3>5. Of(new, buckets, Names) = 0
      <4>1. {b \in buckets : b[2] \in Names} = {}
        <5>1. \A b \in buckets : b[2] \in Counters BY <1>3, <3>4
        <5> HIDE DEF buckets
        <5> QED BY <5>1, NameAssumption DEF Counters
      <4> HIDE DEF buckets, new
      <4> QED BY <4>1, SumOfNone DEF Of
    <3>6. \A c \in Counters : Of(new, buckets, {c}) = more[c]
      <4> TAKE c \in Counters
      <4> DEFINE S == {b \in buckets : b[2] \in {c}}
                 x == Bucket(Day(now), c, d.terms)
      <4>1. \A b \in buckets : b[2] = c => b = x BY <3>4
      <4>2. c \in counters => x \in buckets /\ x[2] = c BY <3>4
      <4>3. c \notin counters => \A b \in buckets : b[2] # c BY <3>4
      <4>4. CASE c \in counters
        <5> HIDE DEF buckets, counters, x, new
        <5>1. S = {x} BY <4>1, <4>2, <4>4
        <5>2. SumOf(new, {x}) = 1
          <6>1. new[x].count = 1 /\ 1 \in Nat BY <3>3, <4>2, <4>4
          <6> QED BY <6>1, SumOfSingle
        <5> QED BY <4>4, <5>1, <5>2 DEF Of
      <4>5. CASE c \notin counters
        <5> HIDE DEF buckets, counters, x, new
        <5>1. S = {} BY <4>3, <4>5
        <5> QED BY <4>5, <5>1, SumOfNone DEF Of
      <4> QED BY <4>4, <4>5
    <3> HIDE DEF new, buckets, more, base, counters
    <3>7. /\ DOMAIN aggregates' = FreshBuckets \cup buckets /\ IsFiniteSet(DOMAIN aggregates')
          /\ \A b \in DOMAIN aggregates' : aggregates'[b].count \in Nat
          /\ \A K : Of(aggregates', DOMAIN aggregates', K)
                      = Of(aggregates, FreshBuckets, K) + Of(new, buckets, K)
      <4>1. IsFiniteSet(DOMAIN new) /\ \A b \in DOMAIN new : new[b].count \in Nat BY <3>2, <3>3
      <4> QED BY <3>1, <3>3, <4>1, CountedAdds
    <3>8. /\ base \in TallyType
          /\ base.accepted = Cardinality(raw) + base.erased + base.expiredEvents
                              + Of(aggregates, FreshBuckets, Names) + discardedRows
          /\ \A c \in Counters : base.choices[c]
                = base.expiredChoices[c] + Of(aggregates, FreshBuckets, {c})
          /\ \A K : Of(aggregates, FreshBuckets, K) \in Nat
      BY <3>1, PurgeBalances
    <3>9. Of(aggregates', DOMAIN aggregates', Names) = Of(aggregates, FreshBuckets, Names)
      <4>1. Of(aggregates', DOMAIN aggregates', Names) = Of(aggregates, FreshBuckets, Names) + 0
        BY <3>5, <3>7
      <4>2. Of(aggregates, FreshBuckets, Names) \in Nat BY <3>8
      <4> QED BY <4>1, <4>2
    <3>10. ASSUME NEW c \in Counters
           PROVE  base.choices[c] + more[c]
                    = base.expiredChoices[c] + Of(aggregates', DOMAIN aggregates', {c})
      <4>1. Of(aggregates', DOMAIN aggregates', {c}) = Of(aggregates, FreshBuckets, {c}) + more[c]
        BY <3>6, <3>7
      <4>2. Of(aggregates, FreshBuckets, {c}) \in Nat /\ more[c] \in Nat
            /\ base.expiredChoices[c] \in Nat
        BY <1>4, <3>8 DEF TallyType
      <4> QED BY <3>8, <4>1, <4>2
    <3> QED BY <3>1, <3>7, <3>8, <3>9, <3>10 DEF BucketsFit
  <2> QED BY <2>1, <2>2
<1> HIDE DEF more, base, new, buckets, counters
<1>7. /\ tally' \in TallyType /\ tally'.accepted = base.accepted /\ tally'.erased = base.erased
      /\ tally'.expiredEvents = base.expiredEvents /\ tally'.expiredChoices = base.expiredChoices
      /\ \A c \in Counters : tally'.choices[c] = base.choices[c] + more[c]
  <2> DEFINE f == [c \in Counters |-> base.choices[c] + more[c]]
  <2>1. tally' = [base EXCEPT !.choices = f] BY <1>2
  <2>2. f \in [Counters -> Nat] BY <1>4, <1>6 DEF TallyType
  <2>3. \A c \in Counters : f[c] = base.choices[c] + more[c] OBVIOUS
  <2> HIDE DEF f
  <2> QED BY <1>6, <2>1, <2>2, <2>3 DEF TallyType
<1>8. Balanced(tally, aggregates)' BY <1>1, <1>6, <1>7 DEF Balanced
<1> QED BY <1>1, <1>5, <1>6, <1>8, TalliedNext

(* The least of two is no more than the first.                              *)
LEMMA LeastNat ==
    ASSUME NEW a \in Nat, NEW b \in Int
    PROVE  Min({a, b}) <= a
BY LeastOfTwo

(* The buckets taken are new ones, and no more than there is space for.     *)
LEMMA TakenFits ==
    ASSUME Tallied, IsFiniteSet(Groups), NEW taken \in Taken(Groups \ FreshBuckets)
    PROVE  /\ taken \subseteq Groups \ FreshBuckets /\ IsFiniteSet(taken)
           /\ Cardinality(FreshBuckets \cup taken) <= MaxBuckets
<1> DEFINE n == MaxBuckets - Cardinality(FreshBuckets)
           m == Cardinality(Groups \ FreshBuckets)
<1>1. /\ taken \in SUBSET (Groups \ FreshBuckets)
      /\ Cardinality(taken) = Min({Available, m})
  BY DEF Taken
<1>2. IsFiniteSet(Groups \ FreshBuckets) /\ m \in Nat
  BY FS_Difference, FS_CardinalityType
<1>3. IsFiniteSet(taken) /\ Cardinality(taken) \in Nat
  BY <1>1, <1>2, FS_Subset, FS_CardinalityType
<1>4. /\ IsFiniteSet(FreshBuckets) /\ Cardinality(FreshBuckets) \in Nat
      /\ n \in Nat /\ Cardinality(FreshBuckets) + n = MaxBuckets
  BY FreshIs, LimitAssumption
<1>5. Available = n
  <2>1. Available = Max({0, n}) BY DEF Available
  <2> HIDE DEF n
  <2>2. Max({0, n}) \in {0, n} /\ Max({0, n}) >= 0 /\ Max({0, n}) >= n
    BY <1>4, MaxOfTwo
  <2> QED BY <1>4, <2>1, <2>2
<1> HIDE DEF n, m
<1>6. Cardinality(taken) <= n
  <2>1. Min({n, m}) <= n BY <1>2, <1>4, LeastNat
  <2> QED BY <1>1, <1>5, <2>1
<1>7. FreshBuckets \cap taken = {} BY <1>1
<1>8. Cardinality(FreshBuckets \cup taken) = Cardinality(FreshBuckets) + Cardinality(taken)
  <2>1. Cardinality(FreshBuckets \cup taken)
          = Cardinality(FreshBuckets) + Cardinality(taken) - Cardinality({})
    BY <1>3, <1>4, <1>7, FS_Union
  <2> QED BY <1>3, <1>4, <2>1, FS_EmptySet
<1> QED BY <1>1, <1>3, <1>4, <1>6, <1>8

(* The rows of a sweep are counted in their groups, or discarded.           *)
LEMMA SweepTallied ==
    ASSUME Sound, Tallied, NEW tombs, SweepOf(tombs)
    PROVE  Tallied'
<1>1. /\ raw' = raw \ Expired /\ tally' = Purged
      /\ Expired \in SUBSET raw
  BY DEF SweepOf, Expired
<1>2. PICK taken \in Taken(Groups \ FreshBuckets) :
        LET rows == taken \cup (Groups \cap FreshBuckets) IN
        /\ aggregates' = Counted(FreshAggregates, [b \in rows |-> GroupRow(b)])
        /\ discardedRows' = discardedRows
              + Cardinality({r \in Expired : BucketOf(r.event) \notin rows})
  BY DEF SweepOf
<1> DEFINE rows == taken \cup (Groups \cap FreshBuckets)
           new == [b \in rows |-> GroupRow(b)]
           g == [r \in Expired |-> BucketOf(r.event)]
           kept == {r \in Expired : g[r] \in rows}
           out == {r \in Expired : BucketOf(r.event) \notin rows}
<1>3. /\ IsFiniteSet(raw) /\ (\A r, q \in raw : r.event = q.event => r = q)
      /\ discardedRows \in Nat /\ Cardinality(raw) <= MaxRaw /\ MaxRaw \in Nat
  BY LimitAssumption DEF Tallied, CountsAddUp
<1>4. IsFiniteSet(Expired) BY <1>1, <1>3, FS_Subset
<1>5. IsFiniteSet(Groups)
  <2>1. g \in [Expired -> Groups] /\ \A b \in Groups : \E r \in Expired : g[r] = b
    BY DEF Groups
  <2> HIDE DEF g
  <2>2. g \in Surjection(Expired, Groups) BY <2>1 DEF Surjection
  <2> QED BY <1>4, <2>2, FS_Surjection
<1>6. /\ taken \subseteq Groups \ FreshBuckets /\ IsFiniteSet(taken)
      /\ Cardinality(FreshBuckets \cup taken) <= MaxBuckets
  BY <1>5, TakenFits
<1>7. /\ rows \subseteq Groups /\ IsFiniteSet(rows)
      /\ FreshBuckets \cup rows = FreshBuckets \cup taken
  <2>1. rows \in SUBSET Groups /\ FreshBuckets \cup rows = FreshBuckets \cup taken BY <1>6
  <2> HIDE DEF rows
  <2> QED BY <1>5, <2>1, FS_Subset
<1>8. \A b \in Groups : b[2] \in Names
  <2>1. \A r \in Expired : r.event.name \in Names
    BY <1>1, EventAssumption DEF Sound, TypeOK, RawRow
  <2> QED BY <2>1 DEF Groups, BucketOf, Bucket
<1> HIDE DEF rows
<1>9. DOMAIN new = rows /\ \A b \in rows : new[b].count = Cardinality({r \in Expired : g[r] = b})
  <2>1. \A b : {r \in Expired : g[r] = b} = {r \in Expired : BucketOf(r.event) = b}
    OBVIOUS
  <2>2. \A b \in rows : new[b] = GroupRow(b) OBVIOUS
  <2>3. \A b : GroupRow(b).count = Cardinality({r \in Expired : BucketOf(r.event) = b})
    BY DEF GroupRow
  <2>4. DOMAIN new = rows OBVIOUS
  <2> HIDE DEF new, g
  <2> QED BY <2>1, <2>2, <2>3, <2>4
<1>10. \A b \in rows : new[b].count \in Nat
  <2>1. ASSUME NEW b PROVE Cardinality({r \in Expired : g[r] = b}) \in Nat
    <3> DEFINE S == {r \in Expired : g[r] = b}
    <3>1. S \in SUBSET Expired OBVIOUS
    <3> HIDE DEF S
    <3>2. IsFiniteSet(S) BY <1>4, <3>1, FS_Subset
    <3> QED BY <3>2, FS_CardinalityType DEF S
  <2> HIDE DEF new, g
  <2> QED BY <1>9, <2>1
<1>11. /\ IsFiniteSet(kept) /\ IsFiniteSet(out) /\ Cardinality(kept) \in Nat /\ Cardinality(out) \in Nat
       /\ Cardinality(Expired) = Cardinality(kept) + Cardinality(out)
  <2>1. kept \in SUBSET Expired /\ out = Expired \ kept OBVIOUS
  <2> HIDE DEF kept, out
  <2> QED BY <1>4, <2>1, PartsCount
<1>12. /\ IsFiniteSet(raw') /\ Cardinality(raw') \in Nat /\ Cardinality(raw) \in Nat
       /\ Cardinality(Expired) \in Nat
       /\ Cardinality(raw) = Cardinality(Expired) + Cardinality(raw')
  BY <1>1, <1>3, PartsCount
<1>13. aggregates' = Counted(FreshAggregates, new) /\ discardedRows' = discardedRows + Cardinality(out)
  BY <1>2 DEF rows
<1> HIDE DEF out
<1>14. Of(new, rows, Names) = Cardinality(kept)
  <2>1. {b \in rows : b[2] \in Names} = rows BY <1>7, <1>8
  <2>2. SumOf(new, rows) = Cardinality(kept)
    <3> HIDE DEF new, g
    <3> QED BY <1>4, <1>7, <1>9, SumOfGroups
  <2> HIDE DEF new, kept
  <2> QED BY <2>1, <2>2 DEF Of
<1>15. \A c \in Counters : Of(new, rows, {c}) = 0
  <2> TAKE c \in Counters
  <2>1. {b \in rows : b[2] \in {c}} = {} BY <1>7, <1>8, NameAssumption DEF Counters
  <2> HIDE DEF new
  <2> QED BY <2>1, SumOfNone DEF Of
<1> HIDE DEF new, kept, g
<1>16. /\ DOMAIN aggregates' = FreshBuckets \cup rows /\ IsFiniteSet(DOMAIN aggregates')
       /\ \A b \in DOMAIN aggregates' : aggregates'[b].count \in Nat
       /\ \A K : Of(aggregates', DOMAIN aggregates', K)
                   = Of(aggregates, FreshBuckets, K) + Of(new, rows, K)
  <2>1. IsFiniteSet(DOMAIN new) /\ \A b \in DOMAIN new : new[b].count \in Nat
    BY <1>7, <1>9, <1>10
  <2> QED BY <1>9, <1>13, <2>1, CountedAdds
<1>17. /\ Purged \in TallyType
       /\ Purged.accepted = Cardinality(raw) + Purged.erased + Purged.expiredEvents
                             + Of(aggregates, FreshBuckets, Names) + discardedRows
       /\ \A c \in Counters : Purged.choices[c]
            = Purged.expiredChoices[c] + Of(aggregates, FreshBuckets, {c})
       /\ \A K : Of(aggregates, FreshBuckets, K) \in Nat
  BY PurgeBalances
<1>18. tally'.accepted = Cardinality(raw') + tally'.erased + tally'.expiredEvents
                          + Of(aggregates', DOMAIN aggregates', Names) + discardedRows'
  <2>1. Purged.erased \in Nat /\ Purged.expiredEvents \in Nat BY <1>17 DEF TallyType
  <2>2. /\ Of(aggregates', DOMAIN aggregates', Names)
              = Of(aggregates, FreshBuckets, Names) + Cardinality(kept)
        /\ Of(aggregates, FreshBuckets, Names) \in Nat
    BY <1>14, <1>16, <1>17
  <2> QED BY <1>1, <1>3, <1>11, <1>12, <1>13, <1>17, <2>1, <2>2
<1>19. \A c \in Counters :
        tally'.choices[c] = tally'.expiredChoices[c] + Of(aggregates', DOMAIN aggregates', {c})
  <2> TAKE c \in Counters
  <2>1. /\ Of(aggregates', DOMAIN aggregates', {c}) = Of(aggregates, FreshBuckets, {c}) + 0
        /\ Of(aggregates, FreshBuckets, {c}) \in Nat
    BY <1>15, <1>16, <1>17
  <2> QED BY <1>1, <1>17, <2>1
<1>20. Balanced(tally, aggregates)' BY <1>1, <1>16, <1>17, <1>18, <1>19 DEF Balanced
<1>21. Cardinality(raw') <= MaxRaw /\ Cardinality(DOMAIN aggregates') <= MaxBuckets
  <2>1. Cardinality(raw') <= MaxRaw BY <1>3, <1>12
  <2>2. DOMAIN aggregates' = FreshBuckets \cup taken BY <1>7, <1>16
  <2> QED BY <1>6, <2>1, <2>2
<1>22. \A r, q \in raw' : r.event = q.event => r = q BY <1>1, <1>3
<1> QED BY <1>3, <1>11, <1>12, <1>13, <1>20, <1>21, <1>22, TalliedNext

(* An empty database has counted nothing.                                   *)
LEMMA InitTallied == Init => Tallied
<1> SUFFICES ASSUME Init PROVE Tallied
  OBVIOUS
<1>1. /\ raw = {} /\ DOMAIN aggregates = {} /\ discardedRows = 0
      /\ tally = [accepted |-> 0, erased |-> 0, expiredEvents |-> 0,
                  choices |-> [c \in Counters |-> 0],
                  expiredChoices |-> [c \in Counters |-> 0]]
  BY DEF Init
<1>2. \A K : Of(aggregates, DOMAIN aggregates, K) = 0
  <2> TAKE K
  <2>1. {b \in DOMAIN aggregates : b[2] \in K} = {} BY <1>1
  <2> QED BY <2>1, SumOfNone DEF Of
<1>3. CountsAddUp
  <2>1. Cardinality(raw) = 0 /\ Cardinality(DOMAIN aggregates) = 0 BY <1>1, FS_EmptySet
  <2> QED BY <1>1, <1>2, <2>1, CountsAre, LimitAssumption
<1> QED BY <1>1, <1>3, FS_EmptySet DEF Tallied, TallyType

(* Every step keeps the accounts.                                           *)
LEMMA TalliedStep ==
    ASSUME Sound, RowsSayIt, Tallied, [Next]_vars
    PROVE  Tallied'
<1>1. ASSUME UNCHANGED <<raw, aggregates, discardedRows, tally>>
      PROVE  Tallied'
  <2>1. 0 \in Nat /\ discardedRows' = discardedRows + 0 /\ discardedRows \in Nat
    BY <1>1 DEF Tallied
  <2>2. Balanced(tally, aggregates)'
    <3>1. Balanced(tally, aggregates) BY BalancedNow
    <3> QED BY <1>1, <3>1 DEF Balanced
  <2>3. /\ IsFiniteSet(raw') /\ \A r, q \in raw' : r.event = q.event => r = q
        /\ Cardinality(raw') <= MaxRaw /\ Cardinality(DOMAIN aggregates') <= MaxBuckets
    BY <1>1 DEF Tallied, CountsAddUp
  <2> QED BY <2>1, <2>2, <2>3, TalliedNext
<1>2. ASSUME NEW s \in Sessions, NEW i \in Installs, NEW batch \in SUBSET Events,
             NEW token \in Tokens, NEW epoch, Ingest(s, i, batch, token, epoch)
      PROVE  Tallied'
  BY <1>2, IngestTallied
<1>3. ASSUME NEW s \in Sessions, NEW i \in Installs, NEW token \in Tokens,
             DeleteTelemetry(s, i, token)
      PROVE  Tallied'
  BY <1>3, DeleteTallied
<1>4. ASSUME NEW s \in Sessions, NEW d \in Decision, RecordPreference(s, d)
      PROVE  Tallied'
  BY <1>4, RecordTallied
<1>5. CASE Sweep BY <1>5, SweepTallied DEF Sweep
<1>6. CASE Restart BY <1>6, SweepTallied DEF Restart
<1>7. CASE UNCHANGED vars BY <1>1, <1>7 DEF vars
<1>8. CASE Tick \/ \E s \in Sessions : CreateSession(s)
  BY <1>1, <1>8 DEF Tick, CreateSession
<1> QED BY <1>2, <1>3, <1>4, <1>5, <1>6, <1>7, <1>8 DEF Next

(* ingestTelemetry, deleteTelemetry, recordTelemetryPreference and the      *)
(* sweep lose no accepted event and count none twice, every first decision  *)
(* and first opt-out is counted once, and the tables stay within their      *)
(* limits, for all events, sessions, lifetimes and limits.                  *)
THEOREM NothingIsMiscounted == Spec => []CountsAddUp
<1>1. Init => RowsSayIt
  BY DEF Init, RowsSayIt
<1>2. Sound /\ [Next]_vars => Sound'
  BY StepFacts
<1>3. Sound /\ RowsSayIt /\ [Next]_vars => RowsSayIt'
  BY RowsSayItStep
<1>4. Sound /\ RowsSayIt /\ Tallied /\ [Next]_vars => Tallied'
  BY TalliedStep
<1>5. Tallied => CountsAddUp
  BY DEF Tallied
<1> QED BY <1>1, <1>2, <1>3, <1>4, <1>5, InitSound, InitTallied, PTL DEF Spec
=============================================================================
