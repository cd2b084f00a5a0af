------------------------------ MODULE TelemetryLog ------------------------------
(***************************************************************************)
(* What the telemetry store promises: a log of attributable events that    *)
(* takes an event only under the consent in force when it happened, in     *)
(* which a deletion is final, and in which of several decisions of one     *)
(* session the newest is in force, in whatever order they arrive.  The     *)
(* log may forget events and decisions at any time (they expire), but      *)
(* never a deletion.                                                       *)
(***************************************************************************)
EXTENDS Integers

CONSTANTS
    Events,      \* records [id, install, at, name, terms]: what can be reported
    Installs,    \* pseudonymous installs
    Sessions,    \* public telemetry sessions
    Terms,       \* consent and app versions
    Moments,     \* times of decisions
    NoRecord     \* no such row

VARIABLES
    now,         \* the server's clock
    kept,        \* the attributable events
    before,      \* before[i]: events of i up to this moment are deleted
    choice       \* choice[s]: the decision in force

logVars == <<now, kept, before, choice>>

Decision == [enabled : BOOLEAN, terms : Terms, at : Moments]

\* The decision in force after d: the newest, and of two of the same moment
\* the opt-out.
Newest(c, d) ==
    IF c = NoRecord \/ d.at > c.at \/ (d.at = c.at /\ ~(d.enabled /\ ~c.enabled))
    THEN d ELSE c

Covers(c, e) ==
    c # NoRecord /\ c.enabled /\ e.terms = c.terms /\ e.at >= c.at

LogInit ==
    /\ now = 1
    /\ kept = {}
    /\ before = [i \in Installs |-> -1]
    /\ choice = [s \in Sessions |-> NoRecord]

Accept(s, batch) ==
    /\ \A e \in batch : Covers(choice[s], e) /\ e.at > before[e.install]
    /\ kept' = kept \cup batch
    /\ UNCHANGED <<now, before, choice>>

Erase(i) ==
    /\ kept' = {e \in kept : e.install # i}
    /\ before' = [before EXCEPT ![i] = now]
    /\ UNCHANGED <<now, choice>>

Decide(s, d) ==
    /\ choice' = [choice EXCEPT ![s] = Newest(@, d)]
    /\ UNCHANGED <<now, kept, before>>

\* Time may pass, and events and decisions expire.
Age ==
    /\ now' \in {now, now + 1}
    /\ kept' \subseteq kept
    /\ choice' \in [Sessions -> Decision \cup {NoRecord}]
    /\ \A s \in Sessions : choice'[s] \in {choice[s], NoRecord}
    /\ UNCHANGED before

LogNext ==
    \/ \E s \in Sessions, batch \in SUBSET Events : Accept(s, batch)
    \/ \E i \in Installs : Erase(i)
    \/ \E s \in Sessions, d \in Decision : Decide(s, d)
    \/ Age

LogSpec == LogInit /\ [][LogNext]_logVars
=============================================================================
