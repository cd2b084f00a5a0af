------------------------------ MODULE MCTelemetry ------------------------------
(* Instances for TLC of both ends of the telemetry: TelemetryStore, and      *)
(* TelemetryClient with two tabs of one browser.  A behaviour is one of the  *)
(* two; the other stays as it began.                                         *)
EXTENDS TelemetryStore, TelemetryClient, TLC

CONSTANTS s1, s2, i1, i2, v1, v2, k1, t1, t2, b1, b2, n1, n2, n3
VARIABLE part

Event(id, install, at, name, terms) ==
    [id |-> id, install |-> install, at |-> at, name |-> name, terms |-> terms]

\* Two events of one moment, one just after a deletion can have happened.
MCEvents == {Event("a", i1, 2, "ready", v1), Event("b", i1, 3, "ready", v1),
             Event("c", i1, 4, "solo", v1)}
MCBytes == [e \in MCEvents |-> 1]
MCMoments == 1..3

\* The store: events and deletions after decisions of the first moment, or decisions
\* in any order, with no more than one event and no deletion.
Logging == \A s \in Sessions : \A d \in heard[s] : d.at = 1
Choosing ==
    /\ \A r \in raw : r.event.id = "a"
    /\ \A i \in Installs : before[i] = -1

MCTabs == {t1, t2}
MCIdentifiers == {b1, b2}
MCCookies == {n1, n2, n3}

Symmetry ==
    Permutations(MCTabs) \cup Permutations(MCIdentifiers) \cup Permutations(MCCookies)

\* The client: a queue and a deletion, after one decision, and at most one of a loss, a
\* tab that is opened again, a session that ends, and two sessions at once; with those
\* but one event, unless the loss is without a deletion.  Or two decisions with their
\* reports before anything is queued, and a session that ends or a tab that is opened
\* again; after one decision a loss as well.
Plain == count.reloads = 0 /\ count.losses = 0 /\ Cardinality(tracked) <= 1
Queueing ==
    /\ count.decisions <= 1
    /\ \A t \in Tabs : Len(tab[t].writes) <= 1
    /\ count.renewals = 0 \/ (Plain /\ clock = 1)
    /\ Cardinality(server.alive) <= 1 \/ Plain
    /\ count.reloads = 0 \/ (count.losses = 0 /\ Cardinality(tracked) <= 1)
    /\ count.losses = 0 \/ count.deletions = 0 \/ Cardinality(tracked) <= 1
Deciding ==
    /\ clock = 1 /\ tracked = {} /\ count.deletions = 0
    /\ count.reloads + count.renewals <= 1
    /\ count.losses = 0 \/ count.reloads + count.renewals = 0 \/ count.decisions <= 1

PartsInit == Init /\ ClientInit /\ part \in {"store", "client"}

PartsNext ==
    \/ part = "store" /\ Next /\ (Logging \/ Choosing)' /\ UNCHANGED <<part, client>>
    \/ part = "client" /\ ClientNext /\ (Queueing \/ Deciding)' /\ UNCHANGED <<part, vars>>

PartsSpec == PartsInit /\ [][PartsNext]_<<part, vars, client>>
=============================================================================
