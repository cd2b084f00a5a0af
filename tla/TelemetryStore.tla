----------------------------- MODULE TelemetryStore -----------------------------
(***************************************************************************)
(* SqliteTelemetryStore (apps/server/src/telemetry-store.ts) behind the    *)
(* telemetry routes of app.ts: public sessions, consent decisions, raw     *)
(* events, deletion tombstones and anonymous daily aggregates, with their  *)
(* expiry against the server's clock, the maintenance sweep, the limits    *)
(* and a restart on the same database file.                                *)
(*                                                                         *)
(* Every method is one transaction and every route handler runs to its end *)
(* between two timers, so each is one action.  A request that is refused   *)
(* and changes nothing is not a step.                                      *)
(***************************************************************************)
EXTENDS Integers, FiniteSets, FiniteSetsExt

CONSTANTS
    Events,        \* records [id, install, at, name, terms]: what can be reported
    Installs,      \* pseudonymous installs
    Sessions,      \* public telemetry sessions
    Terms,         \* consent and app versions that the deployment accepts
    Moments,       \* times of decisions
    Tokens,        \* deletion tokens
    NoRecord,      \* no such row
    Names,         \* event names
    Bytes,         \* Bytes[e]: size of e
    SessionTtl, RawTtl, AggregateTtl, DayLength, Skew,
    MaxSessions, MaxRaw, MaxRawBytes, MaxBuckets,
    MaxNow, MaxEpoch, MaxAccepted   \* bounds of the search

ASSUME LifetimeAssumption ==
    /\ SessionTtl \in Nat \ {0} /\ RawTtl \in Nat \ {0}
    /\ AggregateTtl \in Nat /\ DayLength \in Nat \ {0} /\ Skew \in Nat
ASSUME EventAssumption ==
    Events \subseteq [id : STRING, install : Installs, at : Nat, name : Names, terms : Terms]
ASSUME MomentAssumption ==
    /\ Moments \subseteq Int
    /\ NoRecord \notin [enabled : BOOLEAN, terms : Terms, at : Moments]
    /\ NoRecord \notin [token : Tokens, epoch : Nat, before : Nat, expires : Nat]
    /\ NoRecord \notin [enabled : BOOLEAN, terms : Terms, at : Moments, everOptedOut : BOOLEAN,
                       firstOptOutAt : Moments \cup {NoRecord}, expires : Nat]
ASSUME LimitAssumption == MaxRaw \in Nat /\ MaxBuckets \in Nat
ASSUME NameAssumption == Names \cap {"acknowledged", "opted_out"} = {}

VARIABLES
    now,           \* the server's clock
    sessions,      \* telemetry_sessions: expires_at, or NoRecord
    preferences,   \* telemetry_preferences
    raw,           \* telemetry_raw
    deletions,     \* telemetry_deletions
    aggregates,    \* telemetry_aggregates: a function of buckets
    discardedRows, \* schema_meta.discarded_aggregate_rows
    before,        \* history: when each install was last deleted
    heard,         \* history: the decisions a session has sent since its row exists
    tally          \* history: what has been counted, and what has left

vars == <<now, sessions, preferences, raw, deletions, aggregates,
          discardedRows, before, heard, tally>>

----------------------------------------------------------------------------
(* Rows *)

\* The two counters of recordTelemetryPreference.
Counters == {"acknowledged", "opted_out"}

\* A bucket of telemetry_aggregates: day, name and version.
Bucket(day, name, terms) == <<day, name, terms>>
Day(at) == at \div DayLength
BucketOf(e) == Bucket(Day(e.at), e.name, e.terms)

Live(s) == sessions[s] # NoRecord /\ sessions[s] > now

\* DELETE FROM telemetry_aggregates WHERE expires_at <= now
FreshBuckets == {b \in DOMAIN aggregates : aggregates[b].expires > now}
FreshAggregates == [b \in FreshBuckets |-> aggregates[b]]

CountIn(buckets, kinds) ==
    MapThenSumSet(LAMBDA b : aggregates[b].count, {b \in buckets : b[2] \in kinds})

\* INSERT ... ON CONFLICT DO UPDATE SET count = count + n, expires_at = MAX(...)
Counted(agg, new) ==
    [b \in DOMAIN agg \cup DOMAIN new |->
        IF b \notin DOMAIN new THEN agg[b]
        ELSE IF b \notin DOMAIN agg THEN new[b]
        ELSE [count |-> agg[b].count + new[b].count,
              expires |-> Max({agg[b].expires, new[b].expires})]]

\* assertAggregateCapacity, which purges expired buckets first.
BucketsFit(buckets) == Cardinality(FreshBuckets \cup buckets) <= MaxBuckets

\* What the purge of expired buckets takes out of the counts.
Purged == [tally EXCEPT
    !.expiredEvents = @ + CountIn(DOMAIN aggregates \ FreshBuckets, Names),
    !.expiredChoices = [c \in Counters |->
        @[c] + CountIn(DOMAIN aggregates \ FreshBuckets, {c})]]

Init ==
    /\ now = 1
    /\ sessions = [s \in Sessions |-> NoRecord]
    /\ preferences = [s \in Sessions |-> NoRecord]
    /\ raw = {}
    /\ deletions = [i \in Installs |-> NoRecord]
    /\ aggregates = [b \in {} |-> 0]
    /\ discardedRows = 0
    /\ before = [i \in Installs |-> -1]
    /\ heard = [s \in Sessions |-> {}]
    /\ tally = [accepted |-> 0, erased |-> 0, expiredEvents |-> 0,
                choices |-> [c \in Counters |-> 0],
                expiredChoices |-> [c \in Counters |-> 0]]

----------------------------------------------------------------------------
(* createSession *)

\* A session that exists again has a fresh random id.
CreateSession(s) ==
    /\ sessions[s] = NoRecord
    /\ Cardinality({t \in Sessions : Live(t)}) < MaxSessions
    /\ sessions' = [sessions EXCEPT ![s] = now + SessionTtl]
    /\ UNCHANGED <<now, preferences, raw, deletions, aggregates,
                   discardedRows, before, heard, tally>>

----------------------------------------------------------------------------
(* ingestTelemetry and its route *)

\* The route's window, and the decision in force.
InWindow(e) == e.at >= now - RawTtl /\ e.at <= now + Skew

Consented(s, e) ==
    /\ preferences[s] # NoRecord /\ preferences[s].expires > now
    /\ preferences[s].enabled
    /\ e.terms = preferences[s].terms /\ e.at >= preferences[s].at

\* The proof and the epoch of the batch against the install's tombstone.
EpochIsKnown(i, token, epoch) ==
    IF deletions[i] = NoRecord THEN epoch = 0
    ELSE deletions[i].token = token /\ epoch <= deletions[i].epoch

ShouldDiscard(e) ==
    /\ deletions[e.install] # NoRecord
    /\ deletions[e.install].before > 0
    /\ e.at <= deletions[e.install].before

Stored == {r.event : r \in raw}
TotalBytes(events) == MapThenSumSet(LAMBDA e : Bytes[e], events)

EventsFit(events) ==
    /\ Cardinality(Stored \cup events) <= MaxRaw
    /\ TotalBytes(Stored \cup events) <= MaxRawBytes

\* A tombstone is registered with the first batch, and renewed with every one.
Registered(i, token) ==
    IF deletions[i] = NoRecord
    THEN [token |-> token, epoch |-> 0, before |-> 0, expires |-> now + RawTtl]
    ELSE [deletions[i] EXCEPT !.expires = Max({@, now + RawTtl})]

Row(s, e) == [event |-> e, session |-> s, expires |-> e.at + RawTtl]

Ingest(s, i, batch, token, epoch) ==
    LET wanted == {e \in batch : ~ShouldDiscard(e)}
        new == wanted \ Stored
    IN
    /\ Live(s)
    /\ batch # {} /\ IsFiniteSet(batch)
    /\ \A e \in batch : e.install = i /\ InWindow(e) /\ Consented(s, e)
    /\ EpochIsKnown(i, token, epoch)
    /\ tally.accepted + Cardinality(new) <= MaxAccepted
    /\ UNCHANGED <<now, sessions, preferences, discardedRows, before, heard>>
    /\ IF wanted = {} THEN UNCHANGED aggregates
       ELSE aggregates' = FreshAggregates
    /\ LET counts == IF wanted = {} THEN tally ELSE Purged IN
       IF BucketsFit({BucketOf(e) : e \in wanted}) /\ EventsFit(wanted)
       THEN /\ raw' = raw \cup {Row(s, e) : e \in new}
            /\ deletions' = [deletions EXCEPT ![i] = Registered(i, token)]
            /\ tally' = [counts EXCEPT !.accepted = @ + Cardinality(new)]
       ELSE \* TELEMETRY_CAPACITY_REACHED
            /\ UNCHANGED <<raw, deletions>>
            /\ tally' = counts

----------------------------------------------------------------------------
(* deleteTelemetry *)

NextEpoch(i) == (IF deletions[i] = NoRecord THEN 0 ELSE deletions[i].epoch) + 1

\* Tombstone that keeps the expiry it was registered with.
Tombstone_NotRenewed(i, token) ==
    IF deletions[i] = NoRecord
    THEN [token |-> token, epoch |-> 1, before |-> now, expires |-> now + RawTtl]
    ELSE [deletions[i] EXCEPT !.epoch = NextEpoch(i), !.before = Max({@, now})]

Tombstone(i, token) ==
    IF deletions[i] = NoRecord
    THEN [token |-> token, epoch |-> 1, before |-> now, expires |-> now + RawTtl]
    ELSE [deletions[i] EXCEPT !.epoch = NextEpoch(i),
                              !.before = Max({@, now}),
                              !.expires = Max({@, now + RawTtl})]

DeleteTelemetry(s, i, token) ==
    /\ Live(s)
    /\ deletions[i] # NoRecord => deletions[i].token = token
    /\ NextEpoch(i) <= MaxEpoch
    /\ raw' = {r \in raw : r.event.install # i}
    /\ deletions' = [deletions EXCEPT ![i] = Tombstone(i, token)]
    /\ before' = [before EXCEPT ![i] = now]
    /\ tally' = [tally EXCEPT !.erased = @ + Cardinality(raw \ raw')]
    /\ UNCHANGED <<now, sessions, preferences, aggregates, discardedRows, heard>>

----------------------------------------------------------------------------
(* recordTelemetryPreference *)

IsLater(s, d) == preferences[s] = NoRecord \/ d.at > preferences[s].at
IsSameTimeOptOut(s, d) ==
    /\ preferences[s] # NoRecord /\ d.at = preferences[s].at
    /\ ~d.enabled /\ preferences[s].enabled
IsIdempotent(s, d) ==
    /\ preferences[s] # NoRecord /\ d.at = preferences[s].at
    /\ d.enabled = preferences[s].enabled

EverOptedOut(s) == preferences[s] # NoRecord /\ preferences[s].everOptedOut
FirstOptOutAt(s) == IF EverOptedOut(s) THEN {preferences[s].firstOptOutAt} ELSE {}

\* first_opt_out_at after the opt-out times `more` as well, and NoRecord for NULL.
Earliest(s, more) ==
    IF FirstOptOutAt(s) \cup more = {} THEN NoRecord
    ELSE Min(FirstOptOutAt(s) \cup more)

\* The upsert of a decision that is newer.
Upserted(s, d) ==
    [enabled |-> d.enabled, terms |-> d.terms, at |-> d.at,
     everOptedOut |-> EverOptedOut(s) \/ ~d.enabled,
     firstOptOutAt |-> Earliest(s, IF d.enabled THEN {} ELSE {d.at}),
     expires |-> now + RawTtl]

\* Recorded without the audit of late opt-outs.
Recorded_NoAudit(s, d) ==
    IF IsLater(s, d) \/ IsSameTimeOptOut(s, d) THEN Upserted(s, d)
    ELSE IF IsIdempotent(s, d)
         THEN [preferences[s] EXCEPT !.terms = d.terms, !.expires = now + RawTtl]
    ELSE preferences[s]

\* The row after the decision d, of whatever time.
Recorded(s, d) ==
    IF IsLater(s, d) \/ IsSameTimeOptOut(s, d) THEN Upserted(s, d)
    ELSE IF IsIdempotent(s, d)
         THEN [preferences[s] EXCEPT !.terms = d.terms, !.expires = now + RawTtl]
    ELSE IF ~d.enabled
         THEN [preferences[s] EXCEPT !.everOptedOut = TRUE,
                                     !.firstOptOutAt = Earliest(s, {d.at})]
    ELSE preferences[s]

\* CountersOf, counting the opt-out of a session that is not opted out now.
CountersOf_Current(s, d) ==
    (IF preferences[s] = NoRecord THEN {"acknowledged"} ELSE {})
        \cup (IF ~d.enabled /\ (preferences[s] = NoRecord \/ preferences[s].enabled)
              THEN {"opted_out"} ELSE {})

\* What the decision adds to the anonymous counts.
CountersOf(s, d) ==
    (IF preferences[s] = NoRecord THEN {"acknowledged"} ELSE {})
        \cup (IF ~d.enabled /\ ~EverOptedOut(s) THEN {"opted_out"} ELSE {})

\* Used in the history only: d is the first decision, or the first opt-out, of s.
FirstHeard(s, d, counter) ==
    IF counter = "acknowledged" THEN heard[s] = {}
    ELSE ~d.enabled /\ \A c \in heard[s] : c.enabled

RecordPreference(s, d) ==
    LET counters == CountersOf(s, d)
        buckets == {Bucket(Day(now), c, d.terms) : c \in counters}
    IN
    /\ Live(s)
    /\ d.at <= now + Skew
    /\ counters = {} \/ BucketsFit(buckets)     \* else rolled back
    /\ preferences' = [preferences EXCEPT ![s] = Recorded(s, d)]
    /\ IF counters = {} THEN UNCHANGED aggregates
       ELSE aggregates' = Counted(FreshAggregates,
                [b \in buckets |-> [count |-> 1, expires |-> now + AggregateTtl]])
    /\ heard' = [heard EXCEPT ![s] = @ \cup {d}]
    /\ tally' = [(IF counters = {} THEN tally ELSE Purged) EXCEPT
                    !.choices = [c \in Counters |->
                        @[c] + (IF FirstHeard(s, d, c) THEN 1 ELSE 0)]]
    /\ UNCHANGED <<now, sessions, raw, deletions, discardedRows, before>>

----------------------------------------------------------------------------
(* sweep *)

Expired == {r \in raw : r.expires <= now}

\* SELECT ... GROUP BY: the rows to aggregate, a bucket each.
Groups == {BucketOf(r.event) : r \in Expired}
GroupRow(b) ==
    LET rows == {r \in Expired : BucketOf(r.event) = b} IN
    [count |-> Cardinality(rows),
     expires |-> Max({r.event.at : r \in rows}) + AggregateTtl]

Available == Max({0, MaxBuckets - Cardinality(FreshBuckets)})

\* New buckets are taken by ascending day, as far as there is space; which of
\* one day come first is left open.
Taken(new) ==
    {t \in SUBSET new :
        /\ Cardinality(t) = Min({Available, Cardinality(new)})
        /\ \A b \in t, c \in new \ t : b[1] <= c[1]}

\* The transaction of the sweep, on the tombstones `tombs`.
SweepOf(tombs) ==
    /\ raw' = raw \ Expired
    /\ preferences' = [s \in Sessions |->
         IF preferences[s] # NoRecord /\ preferences[s].expires <= now
         THEN NoRecord ELSE preferences[s]]
    /\ sessions' = [s \in Sessions |->
         IF /\ sessions[s] # NoRecord /\ sessions[s] <= now
            /\ preferences'[s] = NoRecord
            /\ \A r \in raw' : r.session # s
         THEN NoRecord ELSE sessions[s]]
    /\ deletions' = [i \in Installs |->
         IF /\ tombs[i] # NoRecord /\ tombs[i].expires <= now
            /\ \A r \in raw' : r.event.install # i
         THEN NoRecord ELSE tombs[i]]
    /\ heard' = [s \in Sessions |-> IF preferences'[s] = NoRecord THEN {} ELSE heard[s]]
    /\ \E taken \in Taken(Groups \ FreshBuckets) :
         LET rows == taken \cup (Groups \cap FreshBuckets) IN
         /\ aggregates' = Counted(FreshAggregates, [b \in rows |-> GroupRow(b)])
         /\ discardedRows' = discardedRows
              + Cardinality({r \in Expired : BucketOf(r.event) \notin rows})
    /\ tally' = Purged
    /\ UNCHANGED <<now, before>>

Sweep == SweepOf(deletions)

\* initialize on an existing database: every tombstone is kept as long as the
\* events of its install, or as long as a new one, before the first sweep.
Extended ==
    [i \in Installs |->
        IF deletions[i] = NoRecord THEN NoRecord
        ELSE LET own == {r.expires : r \in {q \in raw : q.event.install = i}} IN
             [deletions[i] EXCEPT !.expires =
                Max({@, IF own = {} THEN now + RawTtl ELSE Max(own)})]]

Restart == SweepOf(Extended)

Tick ==
    /\ now < MaxNow
    /\ now' = now + 1
    /\ UNCHANGED <<sessions, preferences, raw, deletions, aggregates,
                   discardedRows, before, heard, tally>>

----------------------------------------------------------------------------

Decision == [enabled : BOOLEAN, terms : Terms, at : Moments]

Next ==
    \/ \E s \in Sessions : CreateSession(s)
    \/ \E s \in Sessions, i \in Installs, batch \in SUBSET Events,
          token \in Tokens, epoch \in 0..MaxEpoch : Ingest(s, i, batch, token, epoch)
    \/ \E s \in Sessions, i \in Installs, token \in Tokens : DeleteTelemetry(s, i, token)
    \/ \E s \in Sessions, d \in Decision : RecordPreference(s, d)
    \/ Sweep
    \/ Restart
    \/ Tick

Spec == Init /\ [][Next]_vars
----------------------------------------------------------------------------
(* Properties *)

Preference == [enabled : BOOLEAN, terms : Terms, at : Moments, everOptedOut : BOOLEAN,
               firstOptOutAt : Moments \cup {NoRecord}, expires : Nat]
RawRow == [event : Events, session : Sessions, expires : Nat]
DeletionRow == [token : Tokens, epoch : Nat, before : Nat, expires : Nat]

\* The types of the tables, every raw row with the expiry of its event.
TypeOK ==
    /\ now \in Nat
    /\ sessions \in [Sessions -> Nat \cup {NoRecord}]
    /\ preferences \in [Sessions -> Preference \cup {NoRecord}]
    /\ \A r \in raw : r \in RawRow /\ r.expires = r.event.at + RawTtl
    /\ deletions \in [Installs -> DeletionRow \cup {NoRecord}]
    /\ before \in [Installs -> Nat \cup {-1}]

\* Every accepted event is in exactly one place: still attributable, deleted
\* on request, in an anonymous count, in one that has expired, or counted as
\* discarded; and every first decision and first opt-out of a session has been
\* counted once, whatever arrived late and was recorded by which branch of
\* recordTelemetryPreference.  The tables stay within their limits.
CountsAddUp ==
    /\ tally.accepted = Cardinality(raw) + tally.erased + tally.expiredEvents
                          + CountIn(DOMAIN aggregates, Names) + discardedRows
    /\ \A c \in Counters :
        tally.choices[c] = tally.expiredChoices[c] + CountIn(DOMAIN aggregates, {c})
    /\ Cardinality(raw) <= MaxRaw /\ Cardinality(DOMAIN aggregates) <= MaxBuckets

\* Whatever order decisions arrive in, the row of a session is what they say
\* together: the newest one is in force (of two of one moment the opt-out), and
\* an opt-out is remembered with its earliest time even if it came too late.
DecisionsCommute ==
    \A s \in Sessions : preferences[s] # NoRecord =>
        LET newest == {d \in heard[s] : \A c \in heard[s] : c.at <= d.at}
            outs == {d.at : d \in {c \in heard[s] : ~c.enabled}}
        IN
        /\ \A d \in newest : d.at = preferences[s].at
        /\ preferences[s].enabled <=> \A d \in newest : d.enabled
        /\ preferences[s].everOptedOut <=> outs # {}
        /\ preferences[s].firstOptOutAt = IF outs = {} THEN NoRecord ELSE Min(outs)

\* The store implements the log of TelemetryLog: whatever sweeps, restarts,
\* late batches of older epochs and decisions out of order happen, no event
\* from before a deletion is kept again, none without the consent in force, and
\* the newest decision is in force.  A row past its expiry no longer counts as
\* kept, even before the sweep finds it.
Log == INSTANCE TelemetryLog WITH
    kept <- {r.event : r \in {q \in raw : q.expires > now}},
    choice <- [s \in Sessions |->
        IF preferences[s] = NoRecord THEN NoRecord
        ELSE [enabled |-> preferences[s].enabled, terms |-> preferences[s].terms,
              at |-> preferences[s].at]]
ImplementsLog == Log!LogSpec
=============================================================================
