----------------------------- MODULE TelemetryClient -----------------------------
(***************************************************************************)
(* TelemetryClient (apps/web/src/lib/telemetry.ts) as TelemetryPrivacy.tsx *)
(* drives it, in several tabs of one browser, against the telemetry        *)
(* routes.  The tabs share localStorage (decision, identity, deletion) and *)
(* the cookie of a session; each has a queue of its own in sessionStorage. *)
(* An exclusive lock of the browser is held through every flush and every  *)
(* deletion, but not through a decision or its report, nor while a tab     *)
(* asks for a session: two tabs may be given one each, and the cookie of   *)
(* the later answer stays.                                                 *)
(*                                                                         *)
(* A step is what a tab runs between two awaits.  Requests are processed   *)
(* once or not at all, their answers may be lost, and a tab may be closed  *)
(* and opened again while they are under way.  The server is that of       *)
(* TelemetryStore, without expiry of rows and capacities.                  *)
(***************************************************************************)
EXTENDS Integers, Sequences, FiniteSets

CONSTANTS
    Tabs,
    Identifiers,   \* random identities
    Cookies,       \* random tokens of sessions, at most so many of them
    Null,          \* nothing stored, nothing known
    MaxQueue, MaxBatch,
    MaxEvents, MaxClock, MaxDecisions, MaxDeletions,
    MaxReloads, MaxRenewals, MaxLosses, MaxWrites      \* bounds

\* What a decision and a state of deletion are, as they are stored.
Decisions == [enabled : BOOLEAN, at : Nat]
Deletions == [install : Identifiers, epoch : Nat, before : Nat]

\* And a tombstone of the server.
Tombs == [epoch : Nat, before : Nat]

ASSUME QueueAssumption == MaxQueue \in Nat \ {0} /\ MaxBatch \in Nat \ {0}
ASSUME NullAssumption ==
    /\ Null \notin Identifiers /\ Null \notin Cookies /\ Null \notin BOOLEAN /\ Null \notin Nat
    /\ Null \notin Decisions /\ Null \notin Deletions /\ Null \notin Tombs

VARIABLES
    clock,         \* the clock of browser and server
    cookie,        \* the browser's, of the session the server gave it last
    asked,         \* requests for a session that have not been answered
    storage,       \* localStorage: [consent, identity, deletion]
    tab,           \* the clients
    wire,          \* requests that have not been processed
    server,        \* [alive, over, choice, tomb, stored]: choice is that of each session
    tracked,       \* history: every event ever queued
    lost,          \* history: events that may be missing, for the reasons below
    count          \* history: how often the bounded things have happened

client == <<clock, cookie, asked, storage, tab, wire, server, tracked, lost, count>>
----------------------------------------------------------------------------
(* Data *)

NoJob == [kind |-> "none", step |-> "none", again |-> FALSE, batch |-> {}, answer |-> Null]

\* A client as its constructor leaves it, on an empty storage.  History: the
\* session that what it trusts to be recorded was recorded under.
NewClient ==
    [consent |-> Null, identity |-> Null, deletion |-> Null, queue |-> {},
     epoch |-> 0, ready |-> FALSE, trusted |-> Null, under |-> Null, writes |-> <<>>,
     job |-> NoJob, error |-> FALSE]

Enabled(c) == ~c.error /\ c.consent # Null /\ c.consent.enabled

EpochOf(deletion) == IF deletion = Null THEN 0 ELSE deletion.epoch

\* clearOwnedQueue
Cleared(c) ==
    [c EXCEPT !.queue = {},
              !.epoch = IF c.deletion = Null THEN @ ELSE c.deletion.epoch]

Failed(c) == [Cleared(c) EXCEPT !.error = TRUE]

\* preferenceRevision += 1: no write that is under way is current any more.
Revised(c) ==
    [c EXCEPT !.trusted = Null,
              !.writes = [n \in DOMAIN @ |-> [@[n] EXCEPT !.current = FALSE]]]

AfterDeletion(queue, deletion) == {e \in queue : e.at > deletion.before}

\* advanceOwnedQueueDeletionBoundary
Advanced(c, deletion) ==
    [c EXCEPT !.deletion = deletion,
              !.queue = AfterDeletion(@, deletion),
              !.epoch = deletion.epoch]

Newer(d, e) == d.epoch > e.epoch \/ (d.epoch = e.epoch /\ d.before > e.before)

----------------------------------------------------------------------------
(* Reading what other tabs have stored *)

\* refreshPersistedConsent
WithConsent(c) ==
    IF c.error \/ storage.consent = c.consent THEN c
    ELSE LET d == [Revised(c) EXCEPT !.consent = storage.consent] IN
         IF storage.consent # Null /\ storage.consent.enabled THEN d ELSE Cleared(d)

\* refreshPersistedIdentity
WithIdentity(c) ==
    IF c.error THEN c
    ELSE IF storage.identity = Null
         THEN IF c.identity = Null THEN c ELSE Failed(c)
    ELSE IF c.deletion # Null /\ c.deletion.install # storage.identity THEN Failed(c)
    ELSE [c EXCEPT !.identity = storage.identity]

\* refreshPersistedDeletionState
WithDeletion(c) ==
    LET d == storage.deletion IN
    IF c.error \/ d = Null THEN c
    ELSE IF c.identity # Null /\ d.install # c.identity THEN Failed(c)
    ELSE IF c.deletion = Null THEN Advanced(c, d)
    ELSE IF Newer(c.deletion, d) THEN Failed(c)
    ELSE IF Newer(d, c.deletion) THEN Advanced(c, d)
    ELSE c

Refreshed(c) == WithDeletion(WithIdentity(WithConsent(c)))

\* The events of the queue of c that d no longer has.
Dropped(c, d) == c.queue \ d.queue

\* One of the losses of the network, which are bounded.
Failing ==
    /\ count.losses < MaxLosses
    /\ count' = [count EXCEPT !.losses = @ + 1]

\* One step of the client of t, after which it is c.
Update(t, c) == tab' = [tab EXCEPT ![t] = c]

----------------------------------------------------------------------------
(* Decisions and their reports *)

\* History: the cookie that its request was sent with.
Write(c) ==
    [enabled |-> c.consent.enabled, at |-> c.consent.at, current |-> TRUE, cookie |-> Null,
     step |-> "queued", again |-> FALSE, flush |-> FALSE, answer |-> Null]

\* recordPreference, up to its first await: a write behind the others.
Reported(c, w) == [c EXCEPT !.writes = Append(@, w)]

\* The moment of a new decision.
DecisionAt(c) == IF c.consent # Null /\ c.consent.at >= clock THEN c.consent.at + 1 ELSE clock

\* choose: acknowledge, then recordPreference.
Choose(t, enabled) ==
    LET c == WithConsent(tab[t])
        consent == [enabled |-> enabled, at |-> DecisionAt(c)]
        d == [Revised(c) EXCEPT !.consent = consent]
        e == IF enabled THEN d ELSE Cleared(d)
    IN
    /\ ~c.error
    /\ Len(c.writes) < MaxWrites /\ count.decisions < MaxDecisions
    /\ storage' = [storage EXCEPT !.consent = consent]
    /\ Update(t, Reported(e, Write(e)))
    /\ lost' = IF enabled THEN lost ELSE lost \cup tracked
    /\ count' = [count EXCEPT !.decisions = @ + 1]
    /\ UNCHANGED <<clock, cookie, asked, wire, server, tracked>>

\* recordPreference(true) of the timer, and of the first render.
ReportAgain(t) ==
    LET c == WithConsent(tab[t]) IN
    /\ Enabled(tab[t])
    /\ Len(tab[t].writes) < MaxWrites
    /\ Update(t, IF Enabled(c) THEN Reported(c, Write(c)) ELSE c)
    /\ UNCHANGED <<clock, cookie, asked, storage, wire, server, tracked, lost, count>>

\* The storage event of another tab's decision.
Synchronize(t) ==
    /\ Update(t, WithConsent(tab[t]))
    /\ UNCHANGED <<clock, cookie, asked, storage, wire, server, tracked, lost, count>>

StillCurrent(c, w) ==
    ~c.error /\ w.current /\ c.consent # Null /\ c.consent.enabled = w.enabled

\* The write that the chain of t is at, after reading the decision again.
Head1(c) == c.writes[1]
AtStep(t, step) == tab[t].writes # <<>> /\ Head1(tab[t]).step = step
Stepped(c, step) == [c EXCEPT !.writes[1].step = step]

\* The job of t is over: its lock is released.
JobDone(c) == [c EXCEPT !.job = NoJob]

\* A write is finished; a flush that waited for it is over if it failed.
Finished(c, recorded) ==
    LET d == [c EXCEPT !.writes = Tail(@)] IN
    IF ~Head1(c).flush THEN d
    ELSE IF recorded THEN [d EXCEPT !.job.step = "reported"] ELSE JobDone(d)

\* ensureTelemetrySession, up to its await: a tab that knows of a session does not
\* ask again, and one that is asking does not ask twice.
Entry(c) == IF c.ready THEN "opened" ELSE "session"
Opening(t) == \E r \in asked : r.tab = t /\ r.live
Asking(t, c) ==
    IF c.ready \/ Opening(t) THEN asked
    ELSE asked \cup {[tab |-> t, live |-> TRUE, cookie |-> cookie]}

\* Its end, for everything of the tab that waits for it.
Resolved(c, opened) ==
    LET step == IF opened THEN "opened" ELSE "refused"
        After(call) == IF call.step = "session" THEN [call EXCEPT !.step = step] ELSE call
    IN [c EXCEPT !.ready = opened, !.job = After(c.job),
                 !.writes = [n \in DOMAIN c.writes |-> After(c.writes[n])]]

StartWrite(t) ==
    LET c == WithConsent(tab[t])
        w == Head1(c)
    IN
    /\ AtStep(t, "queued")
    /\ IF ~StillCurrent(c, w) THEN Update(t, Finished(c, FALSE)) /\ UNCHANGED asked
       ELSE IF c.trusted = w.enabled THEN Update(t, Finished(c, TRUE)) /\ UNCHANGED asked
       ELSE Update(t, Stepped(c, Entry(c))) /\ asked' = Asking(t, c)
    /\ UNCHANGED <<clock, cookie, storage, wire, server, tracked, lost, count>>

\* The request goes with the cookie the browser has by then.
Sent(c) == [Stepped(c, "sent") EXCEPT !.writes[1].cookie = cookie]

SessionForWrite(t) ==
    LET c == WithConsent(tab[t])
        w == Head1(c)
    IN
    /\ UNCHANGED <<clock, cookie, asked, storage, server, tracked, lost, count>>
    /\ \/ /\ AtStep(t, "refused")
          /\ Update(t, Finished(tab[t], FALSE))
          /\ UNCHANGED wire
       \/ /\ AtStep(t, "opened") /\ StillCurrent(c, w)
          /\ Update(t, Sent(c))
          /\ wire' = wire \cup {[kind |-> "choice", tab |-> t, live |-> TRUE, cookie |-> cookie,
                                 enabled |-> w.enabled, at |-> w.at]}
       \/ /\ AtStep(t, "opened") /\ ~StillCurrent(c, w)
          /\ Update(t, Finished(c, FALSE))
          /\ UNCHANGED wire

\* An expired session is opened anew and the request sent again, once.
Retried(t) ==
    /\ Update(t, [Stepped(tab[t], "session") EXCEPT !.writes[1].again = TRUE, !.ready = FALSE])
    /\ asked' = Asking(t, [tab[t] EXCEPT !.ready = FALSE])

Answered_NoCheck(t) ==
    LET c == WithConsent(tab[t])
        w == Head1(c)
    IN
    /\ AtStep(t, "answered")
    /\ IF w.answer.status = "expired" /\ ~w.again THEN Retried(t)
       ELSE /\ UNCHANGED asked
            /\ Update(t,
                 IF w.answer.status = "applied"
                 THEN Finished([c EXCEPT !.trusted = w.enabled, !.under = w.cookie], TRUE)
                 ELSE IF w.answer.status = "not applied" THEN Finished(c, FALSE)
                 ELSE Finished(tab[t], FALSE))
    /\ UNCHANGED <<clock, cookie, storage, wire, server, tracked, lost, count>>

AnsweredWrite(t) ==
    LET c == WithConsent(tab[t])
        w == Head1(c)
    IN
    /\ AtStep(t, "answered")
    /\ IF w.answer.status = "expired" /\ ~w.again THEN Retried(t)
       ELSE /\ UNCHANGED asked
            /\ Update(t,
                 IF w.answer.status = "applied" /\ StillCurrent(c, w)
                 THEN Finished([c EXCEPT !.trusted = w.enabled, !.under = w.cookie], TRUE)
                 ELSE IF w.answer.status \in {"applied", "not applied"} THEN Finished(c, FALSE)
                 ELSE Finished(tab[t], FALSE))
    /\ UNCHANGED <<clock, cookie, storage, wire, server, tracked, lost, count>>

----------------------------------------------------------------------------
(* Events *)

\* A queue is the set of its events, whose ids are numbered in the order in which
\* they were tracked: everything but trimQueue and the choice of a batch goes by id.

\* trimQueue: the newest ones.
Trimmed(queue) ==
    {e \in queue : Cardinality({f \in queue : f.id >= e.id}) <= MaxQueue}

Track(t) ==
    LET c == Refreshed(tab[t])
        e == [id |-> Cardinality(tracked) + 1, at |-> clock]
        d == IF Enabled(c) THEN [c EXCEPT !.queue = Trimmed(@ \cup {e})] ELSE c
    IN
    /\ Cardinality(tracked) < MaxEvents
    /\ Enabled(tab[t])
    /\ Update(t, d)
    /\ tracked' = IF Enabled(c) THEN tracked \cup {e} ELSE tracked
    /\ lost' = lost \cup Dropped(c, d)
    /\ UNCHANGED <<clock, cookie, asked, storage, wire, server, count>>

----------------------------------------------------------------------------
(* Flushing, under the lock *)

\* The exclusive lock of the browser is free.  The history of who waits for it
\* is not kept: a tab asks again, and a queue of several is a queue of one.
LockFree_InTab(t) == tab[t].job = NoJob
LockFree(t) == \A u \in Tabs : tab[u].job = NoJob

Unused == {i \in Identifiers : server.tomb[i] = Null /\ \A t \in Tabs : tab[t].identity # i}

Identities_Fresh == Unused
\* ensureIdentity: the stored one, or a fresh one that is stored.
Identities == IF storage.identity = Null THEN Unused ELSE {storage.identity}

\* The events a batch may take: the first, and which others are of its visit
\* is left open.
Batches(queue) ==
    {b \in SUBSET queue :
        /\ Cardinality(b) <= MaxBatch
        /\ \E e \in b : \A f \in queue : e.id <= f.id}

\* The rest of flushExclusive before it awaits the server.
Send(t, c) ==
    /\ UNCHANGED <<clock, cookie, asked, server, tracked, lost, count>>
    /\ \E i \in Identities :
         LET d == [WithIdentity(c) EXCEPT !.identity = i] IN
         IF WithIdentity(c).error
         THEN Update(t, JobDone(WithIdentity(c))) /\ UNCHANGED <<storage, wire>>
         ELSE /\ storage' = [storage EXCEPT !.identity = i]
              /\ IF d.queue = {} THEN Update(t, JobDone(d)) /\ UNCHANGED wire
                 ELSE \E batch \in Batches(d.queue) :
                        /\ Update(t, [d EXCEPT !.job =
                             [NoJob EXCEPT !.kind = "flush", !.step = "sent", !.batch = batch]])
                        /\ wire' = wire \cup {[kind |-> "batch", tab |-> t, live |-> TRUE,
                             cookie |-> cookie, install |-> i, epoch |-> d.epoch,
                             events |-> batch]}

\* flush: before the lock nothing is read, under it everything.
Flush(t) ==
    LET c == Refreshed(tab[t]) IN
    /\ LockFree(t)
    /\ IF ~Enabled(c) \/ c.queue = {}
       THEN /\ Update(t, c)
            /\ UNCHANGED <<clock, cookie, asked, storage, wire, server, tracked, lost, count>>
       ELSE IF c.trusted = TRUE THEN Send(t, c)
       ELSE /\ Len(c.writes) < MaxWrites
            /\ Update(t, [Reported(c, [Write(c) EXCEPT !.flush = TRUE]) EXCEPT
                            !.job = [NoJob EXCEPT !.kind = "flush", !.step = "preferring"]])
            /\ UNCHANGED <<clock, cookie, asked, storage, wire, server, tracked, lost, count>>

FlushReported(t) ==
    /\ tab[t].job.kind = "flush" /\ tab[t].job.step = "reported"
    /\ Send(t, tab[t])

\* applyDeletionState: the newest of what the tab, the storage and the server say.
Known(c) == {c.deletion, storage.deletion} \ {Null}
Effective(c, next) ==
    CHOOSE d \in Known(c) \cup {next} : \A e \in Known(c) \cup {next} : ~Newer(e, d)

Applied(t, c, next) ==
    IF \E d \in Known(c) : d.install # next.install
    THEN Update(t, JobDone(Failed(c))) /\ UNCHANGED storage
    ELSE /\ Update(t, JobDone(Advanced(c, Effective(c, next))))
         /\ storage' = [storage EXCEPT !.deletion = Effective(c, next)]

\* validAcknowledgement: the server sends null for a date it does not have.
ValidAcknowledgement(c, a) ==
    /\ a.epoch >= c.epoch
    /\ a.before # Null
    /\ a.epoch = c.epoch
       \/ a.discarded = Cardinality({e \in c.job.batch : e.at <= a.before})

WithoutSent_FromFront(c) ==
    [c EXCEPT !.queue = {e \in @ : Cardinality({f \in @ : f.id <= e.id}) > Cardinality(c.job.batch)}]
\* The queue without the events whose ids were sent.
WithoutSent(c) ==
    [c EXCEPT !.queue = @ \ c.job.batch]

FlushAnswered(t) ==
    LET c == tab[t]
        a == c.job.answer
    IN
    /\ c.job.kind = "flush" /\ c.job.step = "answered"
    /\ UNCHANGED <<clock, cookie, asked, wire, server, tracked, count>>
    /\ IF a.status # "ok"
       THEN /\ Update(t, JobDone([c EXCEPT !.trusted = IF a.status = "failed" THEN @ ELSE Null,
                                          !.ready = @ /\ a.status # "expired"]))
            /\ UNCHANGED <<storage, lost>>
       ELSE IF ~ValidAcknowledgement(c, a)
       THEN Update(t, JobDone(c)) /\ UNCHANGED <<storage, lost>>
       ELSE /\ lost' = lost
            /\ IF a.epoch > c.epoch
               THEN Applied(t, WithoutSent(c),
                            [install |-> c.identity, epoch |-> a.epoch, before |-> a.before])
               ELSE Update(t, JobDone(WithoutSent(c))) /\ UNCHANGED storage

----------------------------------------------------------------------------
(* Deleting, under the lock *)

Delete(t) ==
    LET c == WithIdentity(tab[t]) IN
    /\ LockFree(t) /\ ~c.error
    /\ count.deletions < MaxDeletions
    /\ \E i \in IF c.identity = Null THEN Identities ELSE {c.identity} :
         /\ storage' = IF c.identity = Null THEN [storage EXCEPT !.identity = i] ELSE storage
         /\ Update(t, [c EXCEPT !.identity = i,
                                !.job = [NoJob EXCEPT !.kind = "delete", !.step = Entry(c)]])
    /\ asked' = Asking(t, c)
    /\ count' = [count EXCEPT !.deletions = @ + 1]
    /\ UNCHANGED <<clock, cookie, wire, server, tracked, lost>>

SessionForDelete(t) ==
    /\ tab[t].job.kind = "delete"
    /\ UNCHANGED <<clock, cookie, asked, storage, server, tracked, lost, count>>
    /\ \/ /\ tab[t].job.step = "refused"
          /\ Update(t, JobDone(tab[t]))
          /\ UNCHANGED wire
       \/ /\ tab[t].job.step = "opened"
          /\ Update(t, [tab[t] EXCEPT !.job.step = "sent"])
          /\ wire' = wire \cup {[kind |-> "delete", tab |-> t, live |-> TRUE, cookie |-> cookie,
                                 install |-> tab[t].identity]}

DeleteAnswered(t) ==
    LET c == tab[t]
        a == c.job.answer
    IN
    /\ c.job.kind = "delete" /\ c.job.step = "answered"
    /\ UNCHANGED <<clock, cookie, wire, server, tracked, lost, count>>
    /\ IF a.status = "expired" /\ ~c.job.again
       THEN /\ Update(t, [c EXCEPT !.job.step = "session", !.job.again = TRUE, !.ready = FALSE])
            /\ asked' = Asking(t, [c EXCEPT !.ready = FALSE])
            /\ UNCHANGED storage
       ELSE IF a.status # "ok"
       THEN Update(t, JobDone(c)) /\ UNCHANGED <<asked, storage>>
       ELSE UNCHANGED asked /\ Applied(t, c, [install |-> c.identity, epoch |-> a.epoch, before |-> a.before])

----------------------------------------------------------------------------
(* The server and the network *)

Answer(status) == [status |-> status]

\* The answer to r reaches the tab that waits for it, if it still does.
Tell(r, answer) ==
    IF ~r.live THEN UNCHANGED tab
    ELSE IF r.kind = "choice"
         THEN Update(r.tab, [tab[r.tab] EXCEPT !.writes[1].step = "answered",
                                               !.writes[1].answer = answer])
    ELSE Update(r.tab, [tab[r.tab] EXCEPT !.job.step = "answered", !.job.answer = answer])

Decided(c, r) ==
    c = Null \/ r.at > c.at \/ (r.at = c.at /\ (r.enabled = c.enabled \/ ~r.enabled))

ServeChoice(r) ==
    LET applied == Decided(server.choice[r.cookie], r) IN
    /\ server' = IF ~applied THEN server
                 ELSE [server EXCEPT !.choice[r.cookie] = [enabled |-> r.enabled, at |-> r.at]]
    /\ Tell(r, Answer(IF applied THEN "applied" ELSE "not applied"))

TombOf(i) == IF server.tomb[i] = Null THEN [epoch |-> 0, before |-> 0] ELSE server.tomb[i]

ServeBatch(r) ==
    LET tomb == TombOf(r.install)
        wanted == {e \in r.events : tomb.before = 0 \/ e.at > tomb.before}
        choice == server.choice[r.cookie]
    IN
    IF \/ choice = Null \/ r.epoch > tomb.epoch
       \/ ~choice.enabled \/ \E e \in r.events : e.at < choice.at
    THEN UNCHANGED server /\ Tell(r, Answer("refused"))
    ELSE /\ server' = [server EXCEPT
              !.tomb[r.install] = tomb,
              !.stored = @ \cup {[id |-> e.id, at |-> e.at, install |-> r.install] : e \in wanted}]
         /\ Tell(r, [status |-> "ok", epoch |-> tomb.epoch,
                     before |-> IF tomb.before = 0 THEN Null ELSE tomb.before,
                     discarded |-> Cardinality(r.events \ wanted)])

ServeDelete(r) ==
    LET tomb == [epoch |-> TombOf(r.install).epoch + 1, before |-> clock] IN
    /\ server' = [server EXCEPT !.tomb[r.install] = tomb,
                                !.stored = {e \in @ : e.install # r.install}]
    /\ Tell(r, [status |-> "ok", epoch |-> tomb.epoch, before |-> clock])

Serve(r) ==
    /\ wire' = wire \ {r}
    /\ UNCHANGED <<clock, cookie, asked, storage, tracked, count>>
    /\ IF r.cookie \notin server.alive THEN UNCHANGED server /\ Tell(r, Answer("expired"))
       ELSE \/ r.kind = "choice" /\ ServeChoice(r)
            \/ r.kind = "batch" /\ ServeBatch(r)
            \/ r.kind = "delete" /\ ServeDelete(r)
    /\ lost' = lost \cup {e \in tracked : e.id \in {s.id : s \in server'.stored}}

\* The request, or the answer, does not arrive; the server may be too busy.
Lose(r) ==
    /\ wire' = wire \ {r}
    /\ Tell(r, Answer("failed"))
    /\ Failing
    /\ UNCHANGED <<clock, cookie, asked, storage, server, tracked, lost>>

LoseAnswer(r) ==
    /\ r.live
    /\ wire' = (wire \ {r}) \cup {[r EXCEPT !.live = FALSE]}
    /\ Tell(r, Answer("failed"))
    /\ Failing
    /\ UNCHANGED <<clock, cookie, asked, storage, server, tracked, lost>>

\* POST /api/v1/telemetry/session: a session that lives is kept, otherwise there is a
\* new one, whose cookie replaces the browser's.  For a tab that is no longer there,
\* the browser may have gone on with the answer or not.
Given(r) ==
    IF r.cookie \in server.alive THEN UNCHANGED <<cookie, server>>
    ELSE \E s \in Cookies \ (server.alive \cup server.over) :
           /\ server' = [server EXCEPT !.alive = @ \cup {s}]
           /\ cookie' = s \/ (~r.live /\ UNCHANGED cookie)

Open(r) ==
    /\ asked' = asked \ {r}
    /\ Given(r)
    /\ IF r.live THEN Update(r.tab, Resolved(tab[r.tab], TRUE)) ELSE UNCHANGED tab
    /\ UNCHANGED <<clock, storage, wire, tracked, lost, count>>

\* No answer, or one that tells the tab of no session, though its cookie may be there.
LoseOpening(r) ==
    /\ r.live
    /\ asked' = asked \ {r}
    /\ UNCHANGED <<cookie, server>> \/ Given(r)
    /\ Update(r.tab, Resolved(tab[r.tab], FALSE))
    /\ Failing
    /\ UNCHANGED <<clock, storage, wire, tracked, lost>>

SessionExpires ==
    /\ count.renewals < MaxRenewals
    /\ \E s \in server.alive :
         server' = [server EXCEPT !.alive = @ \ {s}, !.over = @ \cup {s}]
    /\ count' = [count EXCEPT !.renewals = @ + 1]
    /\ UNCHANGED <<clock, cookie, asked, storage, tab, wire, tracked, lost>>

----------------------------------------------------------------------------
(* Opening a tab again *)

\* The constructor, on what the storages hold.  An empty queue is not stored.
Constructed(queue, epoch) ==
    LET owner == [NewClient EXCEPT !.consent = storage.consent, !.identity = storage.identity,
                                   !.deletion = storage.deletion]
        stored == IF queue = {} THEN 0 ELSE epoch
        current == EpochOf(storage.deletion)
        c == [owner EXCEPT !.epoch = current,
                           !.queue = IF stored < current THEN {} ELSE queue]
    IN IF stored > current THEN [owner EXCEPT !.error = TRUE]
       ELSE IF Enabled(c) THEN c ELSE Cleared(c)

\* What tab t had asked for is no longer awaited.
Abandoned(t, requests) == {IF r.tab = t THEN [r EXCEPT !.live = FALSE] ELSE r : r \in requests}

Reload(t) ==
    /\ count.reloads < MaxReloads
    /\ Update(t, Constructed(tab[t].queue, tab[t].epoch))
    /\ wire' = Abandoned(t, wire) /\ asked' = Abandoned(t, asked)
    /\ count' = [count EXCEPT !.reloads = @ + 1]
    /\ lost' = IF tab[t].epoch < EpochOf(storage.deletion) THEN lost \cup tab[t].queue ELSE lost
    /\ UNCHANGED <<clock, cookie, storage, server, tracked>>

ClockTicks ==
    /\ clock < MaxClock
    /\ clock' = clock + 1
    /\ UNCHANGED <<cookie, asked, storage, tab, wire, server, tracked, lost, count>>

ClientInit ==
    /\ clock = 1 /\ cookie = Null /\ asked = {}
    /\ storage = [consent |-> Null, identity |-> Null, deletion |-> Null]
    /\ tab = [t \in Tabs |-> NewClient]
    /\ wire = {}
    /\ server = [alive |-> {}, over |-> {}, choice |-> [s \in Cookies |-> Null],
                 tomb |-> [i \in Identifiers |-> Null], stored |-> {}]
    /\ tracked = {}
    /\ lost = {}
    /\ count = [decisions |-> 0, deletions |-> 0, reloads |-> 0, renewals |-> 0,
                losses |-> 0]

ClientNext ==
    \/ \E t \in Tabs :
        \/ \E enabled \in BOOLEAN : Choose(t, enabled)
        \/ ReportAgain(t) \/ Synchronize(t)
        \/ StartWrite(t) \/ SessionForWrite(t) \/ AnsweredWrite(t)
        \/ Track(t)
        \/ Flush(t) \/ FlushReported(t) \/ FlushAnswered(t)
        \/ Delete(t) \/ SessionForDelete(t) \/ DeleteAnswered(t)
        \/ Reload(t)
    \/ \E r \in wire : Serve(r) \/ Lose(r) \/ LoseAnswer(r)
    \/ \E r \in asked : Open(r) \/ LoseOpening(r)
    \/ SessionExpires
    \/ ClockTicks

ClientSpec == ClientInit /\ [][ClientNext]_client
----------------------------------------------------------------------------
(* Properties *)

\* Everything the server keeps, the browser can have deleted: it is stored
\* under the identity whose credential is in localStorage, which no second tab
\* overwrites with its own.
EverythingIsDeletable ==
    /\ \A e \in server.stored : e.install = storage.identity
    /\ \A r \in wire : r.kind = "batch" => r.install = storage.identity

\* What a tab holds recorded is recorded: as long as nobody has decided anew, the
\* session its report was made in has, while it lives, the very decision the tab acts
\* on, although reports of older decisions, of any tab, may still arrive in it.  That
\* session need not be the browser's any more: of two tabs that ask for one at once the
\* later answer's is, the batches of both are judged by its choice, and a batch that is
\* refused makes its tab report again.
TrustedChoice ==
    \A t \in Tabs :
        LET c == tab[t] IN
        c.trusted # Null /\ c.consent = storage.consent /\ c.under \in server.alive
            => c.trusted = c.consent.enabled /\ server.choice[c.under] = c.consent

\* No batch of an open tab carries an event from before a deletion that any tab
\* has been told of, and none the epoch of an older one.
NothingDeletedIsSent ==
    \A r \in wire : r.kind = "batch" /\ r.live /\ storage.deletion # Null =>
        /\ r.epoch = storage.deletion.epoch
        /\ \A e \in r.events : e.at >= storage.deletion.before

\* "preserves post-cutoff events created while another tab deletion response is
\* in flight": an event stays queued until the server has it, unless a deletion
\* or an opt-out after it, or the limit of the queue, dropped it, or its tab was
\* opened again before it had heard of the deletion of another one.
NothingLost ==
    \A e \in tracked :
        \/ e \in lost
        \/ \E t \in Tabs : e \in tab[t].queue
        \/ \E i \in Identifiers : e.at <= TombOf(i).before
=============================================================================
