----------------------- MODULE TelemetryClientProofs -----------------------
(***************************************************************************)
(* Proofs about TelemetryClient, for any number of tabs, identities,       *)
(* events, decisions, deletions and losses, and any size of queue and      *)
(* batch.                                                                  *)
(*                                                                         *)
(* The argument is one of five layers, each inductive given those before:  *)
(*   Orderly   what the calls of a tab wait for, and the lock: one request *)
(*             at a time is awaited under it;                              *)
(*   Named     there is one identity, which is the stored one;             *)
(*   Trusting  no report is later than what is stored, and the server does *)
(*             not go back;                                                *)
(*   Dated     what has been heard of deletions, and what the queues and   *)
(*             the batches have to do with it;                             *)
(*   Traced    where every event that was tracked has gone.                *)
(***************************************************************************)
EXTENDS TelemetryClient, SequenceTheorems, FiniteSetTheorems, TLAPS

(* What is stored, sent and answered.                                       *)
EventSet == [id : Nat, at : Nat]
Steps == {"queued", "session", "opened", "refused", "sent", "answered"}
WriteAnswers == [status : {"applied", "not applied", "expired", "failed"}]
WriteSet ==
    [enabled : BOOLEAN, at : Nat, current : BOOLEAN, cookie : Cookies \cup {Null}, step : Steps,
     again : BOOLEAN, flush : BOOLEAN, answer : WriteAnswers \cup {Null}]
ClientFields ==
    {"consent", "identity", "deletion", "queue", "epoch", "ready", "trusted", "under", "writes",
     "job", "error"}
JobFields == {"kind", "step", "again", "batch", "answer"}

ChoiceRequests ==
    [kind : {"choice"}, tab : Tabs, live : BOOLEAN, cookie : Cookies \cup {Null},
     enabled : BOOLEAN, at : Nat]
BatchRequests ==
    [kind : {"batch"}, tab : Tabs, live : BOOLEAN, cookie : Cookies \cup {Null},
     install : Identifiers, epoch : Nat, events : SUBSET EventSet]
DeleteRequests ==
    [kind : {"delete"}, tab : Tabs, live : BOOLEAN, cookie : Cookies \cup {Null},
     install : Identifiers]
Requests == ChoiceRequests \cup BatchRequests \cup DeleteRequests

(* A job has an identity to speak for once it has asked for something, and  *)
(* an answer that says yes to it has a boundary; to a deletion always one.  *)
JobType(c) ==
    /\ DOMAIN c.job = JobFields
    /\ c.job.kind \in {"none", "flush", "delete"}
    /\ c.job.batch \in SUBSET EventSet
    /\ c.job.kind = "delete" => c.identity # Null
    /\ c.job.kind = "flush" /\ c.job.step \in {"sent", "answered"} => c.identity # Null
    /\ c.job.step = "answered" /\ c.job.answer.status = "ok" =>
          /\ c.job.answer.epoch \in Nat /\ c.job.answer.before \in Nat \cup {Null}
          /\ c.job.kind = "delete" => c.job.answer.before \in Nat

ClientType(c) ==
    /\ DOMAIN c = ClientFields
    /\ c.consent \in Decisions \cup {Null}
    /\ c.identity \in Identifiers \cup {Null}
    /\ c.deletion \in Deletions \cup {Null}
    /\ c.queue \in SUBSET EventSet
    /\ c.epoch \in Nat
    /\ c.trusted \in BOOLEAN \cup {Null}
    /\ c.under \in Cookies \cup {Null}
    /\ c.writes \in Seq(WriteSet)
    /\ c.error \in BOOLEAN
    /\ JobType(c)

RestType ==
    /\ clock \in Nat \ {0} /\ cookie \in Cookies \cup {Null}
    /\ storage \in [consent : Decisions \cup {Null}, identity : Identifiers \cup {Null},
                    deletion : Deletions \cup {Null}]
    /\ server \in [alive : SUBSET Cookies, over : SUBSET Cookies,
                   choice : [Cookies -> Decisions \cup {Null}],
                   tomb : [Identifiers -> Tombs \cup {Null}],
                   stored : SUBSET [id : Nat, at : Nat, install : Identifiers]]
    /\ tracked \in SUBSET EventSet /\ IsFiniteSet(tracked)
    /\ count \in [decisions : Nat, deletions : Nat, reloads : Nat, renewals : Nat, losses : Nat]

TypeOK ==
    /\ RestType
    /\ DOMAIN tab = Tabs /\ tab = [t \in Tabs |-> tab[t]]
    /\ \A t \in Tabs : ClientType(tab[t])
    /\ wire \subseteq Requests

(* A request whose answer is awaited is what its tab is waiting for.        *)
Awaited(r, c) ==
    /\ r.kind = "choice" =>
          /\ c.writes # <<>> /\ c.writes[1].step = "sent"
          /\ c.writes[1].at = r.at /\ c.writes[1].enabled = r.enabled
          /\ c.writes[1].cookie = r.cookie
    /\ r.kind = "batch" => c.job.kind = "flush" /\ c.job.step = "sent" /\ c.job.batch = r.events
    /\ r.kind = "delete" => c.job.kind = "delete" /\ c.job.step = "sent"

(* A flush that waits for its report is waiting for one that is to come.     *)
Waits(c) ==
    /\ \A n \in 1 .. Len(c.writes) :
          c.writes[n].flush => c.job.kind = "flush" /\ c.job.step = "preferring"
    /\ \A n, m \in 1 .. Len(c.writes) : c.writes[n].flush /\ c.writes[m].flush => n = m

(* The lock: one tab at most has a job, and that asks for one thing.        *)
Locked ==
    /\ \A t, u \in Tabs : tab[t].job.kind # "none" /\ tab[u].job.kind # "none" => t = u
    /\ \A r, q \in wire : r.live /\ q.live /\ r.kind # "choice" /\ q.kind # "choice" => r = q

(* The calls of the tabs fit together.                                      *)
Orderly ==
    /\ TypeOK
    /\ \A r \in wire : r.live => Awaited(r, tab[r.tab])
    /\ \A t \in Tabs : Waits(tab[t])
    /\ Locked
---------------------------------------------------------------------------
(* What reading the storage leaves of a client alone.                       *)
Same(c, d) ==
    /\ d.job = c.job /\ d.ready = c.ready
    /\ Len(d.writes) = Len(c.writes)
    /\ \A n \in 1 .. Len(c.writes) :
          d.writes[n] \in {c.writes[n], [c.writes[n] EXCEPT !.current = FALSE]}

LEMMA RevisedFacts ==
    ASSUME NEW c, ClientType(c)
    PROVE  /\ ClientType(Revised(c)) /\ Same(c, Revised(c))
           /\ Revised(c).trusted = Null
           /\ \A n \in 1 .. Len(c.writes) : ~Revised(c).writes[n].current
           /\ \A f \in ClientFields \ {"trusted", "writes"} : Revised(c)[f] = c[f]
<1> DEFINE w == c.writes
           v == [n \in DOMAIN w |-> [w[n] EXCEPT !.current = FALSE]]
<1>1. w \in Seq(WriteSet) /\ DOMAIN w = 1 .. Len(w) /\ Len(w) \in Nat
    BY DEF ClientType
<1>a. \A n \in 1 .. Len(w) : w[n] \in WriteSet
    BY <1>1, ElementOfSeq
<1>b. \A x \in WriteSet : LET y == [x EXCEPT !.current = FALSE] IN y \in WriteSet /\ ~y.current
    BY DEF WriteSet
<1>2. \A n \in 1 .. Len(w) : v[n] \in WriteSet /\ ~v[n].current
    BY <1>1, <1>a, <1>b
<1>c. v \in [1 .. Len(w) -> WriteSet] /\ DOMAIN v = 1 .. Len(w)
    BY <1>1, <1>2
<1>d. v \in Seq(WriteSet)
    BY <1>1, <1>c, Z3
<1>e. Len(v) = Len(w)
    BY <1>1, <1>c, <1>d
<1>3. v \in Seq(WriteSet) /\ Len(v) = Len(w)
    BY <1>d, <1>e
<1>4. /\ DOMAIN Revised(c) = ClientFields /\ Revised(c).writes = v /\ Revised(c).trusted = Null
      /\ \A f \in ClientFields \ {"trusted", "writes"} : Revised(c)[f] = c[f]
    BY DEF Revised, ClientType, ClientFields
<1> HIDE DEF v
<1>5. ClientType(Revised(c))
    BY <1>3, <1>4 DEF ClientType, JobType, ClientFields
<1>6. Same(c, Revised(c))
    BY <1>1, <1>3, <1>4 DEF Same, ClientFields, v
<1> QED
    BY <1>1, <1>2, <1>3, <1>4, <1>5, <1>6

LEMMA ClearedFacts ==
    ASSUME NEW c, ClientType(c)
    PROVE  /\ ClientType(Cleared(c)) /\ Same(c, Cleared(c))
           /\ Cleared(c).queue = {}
           /\ Cleared(c).epoch = IF c.deletion = Null THEN c.epoch ELSE c.deletion.epoch
           /\ \A f \in ClientFields \ {"queue", "epoch"} : Cleared(c)[f] = c[f]
<1>1. /\ DOMAIN Cleared(c) = ClientFields
      /\ Cleared(c).queue = {}
      /\ Cleared(c).epoch = IF c.deletion = Null THEN c.epoch ELSE c.deletion.epoch
      /\ \A f \in ClientFields \ {"queue", "epoch"} : Cleared(c)[f] = c[f]
    BY DEF Cleared, ClientType, ClientFields
<1>2. ClientType(Cleared(c))
    BY <1>1 DEF ClientType, JobType, ClientFields, Deletions
<1> QED
    BY <1>1, <1>2 DEF Same, ClientFields

LEMMA FailedFacts ==
    ASSUME NEW c, ClientType(c)
    PROVE  /\ ClientType(Failed(c)) /\ Same(c, Failed(c))
           /\ Failed(c).error /\ Failed(c).queue = {}
           /\ \A f \in ClientFields \ {"queue", "epoch", "error"} : Failed(c)[f] = c[f]
<1>1. /\ DOMAIN Failed(c) = ClientFields
      /\ Failed(c).error = TRUE
      /\ \A f \in ClientFields \ {"error"} : Failed(c)[f] = Cleared(c)[f]
    BY ClearedFacts DEF Failed, ClientType, ClientFields
<1>2. ClientType(Failed(c))
  <2>1. ClientType(Cleared(c))
      BY ClearedFacts
  <2> QED
      BY <1>1, <2>1 DEF ClientType, JobType, ClientFields
<1> QED
    BY <1>1, <1>2, ClearedFacts DEF Same, ClientFields

LEMMA AdvancedFacts ==
    ASSUME NEW c, ClientType(c), NEW d \in Deletions
    PROVE  /\ ClientType(Advanced(c, d)) /\ Same(c, Advanced(c, d))
           /\ Advanced(c, d).deletion = d /\ Advanced(c, d).epoch = d.epoch
           /\ Advanced(c, d).queue = {e \in c.queue : e.at > d.before}
           /\ \A f \in ClientFields \ {"deletion", "queue", "epoch"} : Advanced(c, d)[f] = c[f]
<1>1. /\ DOMAIN Advanced(c, d) = ClientFields
      /\ Advanced(c, d).deletion = d /\ Advanced(c, d).epoch = d.epoch
      /\ Advanced(c, d).queue = {e \in c.queue : e.at > d.before}
      /\ \A f \in ClientFields \ {"deletion", "queue", "epoch"} : Advanced(c, d)[f] = c[f]
    BY DEF Advanced, AfterDeletion, ClientType, ClientFields
<1>2. ClientType(Advanced(c, d))
    BY <1>1 DEF ClientType, JobType, ClientFields, Deletions
<1> QED
    BY <1>1, <1>2 DEF Same, ClientFields

LEMMA SameTrans ==
    ASSUME NEW c, NEW d, NEW e, ClientType(c), ClientType(d), Same(c, d), Same(d, e)
    PROVE  Same(c, e)
<1>1. /\ e.job = c.job /\ e.ready = c.ready /\ Len(e.writes) = Len(c.writes)
      /\ Len(d.writes) = Len(c.writes)
    BY DEF Same
<1>2. ASSUME NEW n \in 1 .. Len(c.writes)
      PROVE  e.writes[n] \in {c.writes[n], [c.writes[n] EXCEPT !.current = FALSE]}
  <2>1. c.writes[n] \in WriteSet
      BY ElementOfSeq DEF ClientType
  <2>2. d.writes[n] \in {c.writes[n], [c.writes[n] EXCEPT !.current = FALSE]}
      BY DEF Same
  <2>3. e.writes[n] \in {d.writes[n], [d.writes[n] EXCEPT !.current = FALSE]}
      BY <1>1 DEF Same
  <2>4. \A w \in WriteSet : [[w EXCEPT !.current = FALSE] EXCEPT !.current = FALSE]
                                = [w EXCEPT !.current = FALSE]
      BY DEF WriteSet
  <2> QED
      BY <2>1, <2>2, <2>3, <2>4
<1> QED
    BY <1>1, <1>2 DEF Same

LEMMA SameRefl == \A c : Same(c, c)
    BY DEF Same

On(consent) == consent # Null /\ consent.enabled

LEMMA WithConsentFacts ==
    ASSUME TypeOK, NEW c, ClientType(c)
    PROVE  LET d == WithConsent(c) IN
           /\ ClientType(d) /\ Same(c, d)
           /\ d.identity = c.identity /\ d.deletion = c.deletion /\ d.error = c.error
           /\ ~c.error => d.consent = storage.consent
           /\ d = c \/ /\ d.consent = storage.consent /\ d.trusted = Null
                       /\ \A n \in 1 .. Len(d.writes) : ~d.writes[n].current
           /\ \/ d.queue = c.queue /\ d.epoch = c.epoch
              \/ /\ ~On(storage.consent) /\ d.queue = {}
                 /\ d.epoch = IF c.deletion = Null THEN c.epoch ELSE c.deletion.epoch
<1> DEFINE r == Revised(c)
           p == [r EXCEPT !.consent = storage.consent]
<1>1. /\ ClientType(r) /\ Same(c, r) /\ r.trusted = Null
      /\ \A n \in 1 .. Len(c.writes) : ~r.writes[n].current
      /\ r.identity = c.identity /\ r.deletion = c.deletion /\ r.error = c.error
      /\ r.queue = c.queue /\ r.epoch = c.epoch
    BY RevisedFacts DEF ClientFields
<1>2. storage.consent \in Decisions \cup {Null}
    BY DEF TypeOK, RestType
<1> HIDE DEF r
<1>3. /\ DOMAIN p = ClientFields /\ p.consent = storage.consent
      /\ p.identity = r.identity /\ p.deletion = r.deletion /\ p.queue = r.queue
      /\ p.epoch = r.epoch /\ p.ready = r.ready /\ p.trusted = r.trusted
      /\ p.under = r.under
      /\ p.writes = r.writes /\ p.job = r.job /\ p.error = r.error
    BY <1>1 DEF ClientType, ClientFields
<1>4. ClientType(p) /\ Same(c, p)
    BY <1>1, <1>2, <1>3 DEF ClientType, JobType, Same
<1> HIDE DEF p
<1>5. /\ ClientType(Cleared(p)) /\ Same(c, Cleared(p)) /\ Cleared(p).queue = {}
      /\ Cleared(p).epoch = IF p.deletion = Null THEN p.epoch ELSE p.deletion.epoch
      /\ Cleared(p).consent = p.consent /\ Cleared(p).identity = p.identity
      /\ Cleared(p).deletion = p.deletion /\ Cleared(p).error = p.error
      /\ Cleared(p).trusted = p.trusted /\ Cleared(p).writes = p.writes
  <2>1. /\ ClientType(Cleared(p)) /\ Same(p, Cleared(p)) /\ Cleared(p).queue = {}
        /\ Cleared(p).epoch = IF p.deletion = Null THEN p.epoch ELSE p.deletion.epoch
        /\ \A f \in ClientFields \ {"queue", "epoch"} : Cleared(p)[f] = p[f]
      BY <1>4, ClearedFacts
  <2>2. Same(c, Cleared(p))
      BY <1>4, <2>1, SameTrans
  <2> QED
      BY <2>1, <2>2 DEF ClientFields
<1>6. \A n \in 1 .. Len(p.writes) : ~p.writes[n].current
    BY <1>1, <1>3 DEF Same
<1>7. WithConsent(c) = IF c.error \/ storage.consent = c.consent THEN c
                       ELSE IF On(storage.consent) THEN p ELSE Cleared(p)
    BY DEF WithConsent, On, p, r
<1> QED
    BY <1>1, <1>3, <1>4, <1>5, <1>6, <1>7, SameRefl

LEMMA WithIdentityFacts ==
    ASSUME TypeOK, NEW c, ClientType(c)
    PROVE  LET d == WithIdentity(c) IN
           /\ ClientType(d) /\ Same(c, d)
           /\ d.consent = c.consent /\ d.deletion = c.deletion
           /\ d.trusted = c.trusted /\ d.under = c.under /\ d.writes = c.writes
           /\ ~d.error => /\ ~c.error /\ d.identity = storage.identity
                          /\ d.queue = c.queue /\ d.epoch = c.epoch
           /\ d.identity \in {c.identity, storage.identity}
           /\ c.identity # Null => d.identity # Null
<1> DEFINE p == [c EXCEPT !.identity = storage.identity]
<1>1. storage.identity \in Identifiers \cup {Null}
    BY DEF TypeOK, RestType
<1>2. /\ ClientType(Failed(c)) /\ Same(c, Failed(c)) /\ Failed(c).error
      /\ Failed(c).consent = c.consent /\ Failed(c).deletion = c.deletion
      /\ Failed(c).trusted = c.trusted /\ Failed(c).under = c.under /\ Failed(c).writes = c.writes
      /\ Failed(c).identity = c.identity
    BY FailedFacts DEF ClientFields
<1>3. /\ DOMAIN p = ClientFields /\ p.identity = storage.identity
      /\ p.consent = c.consent /\ p.deletion = c.deletion /\ p.queue = c.queue
      /\ p.epoch = c.epoch /\ p.ready = c.ready /\ p.trusted = c.trusted /\ p.under = c.under
      /\ p.under = c.under
      /\ p.writes = c.writes /\ p.job = c.job /\ p.error = c.error
    BY DEF ClientType, ClientFields
<1> HIDE DEF p
<1>4. storage.identity # Null => ClientType(p) /\ Same(c, p)
    BY <1>1, <1>3 DEF ClientType, JobType, Same
<1>5. WithIdentity(c) = IF c.error THEN c
                        ELSE IF storage.identity = Null
                             THEN IF c.identity = Null THEN c ELSE Failed(c)
                        ELSE IF c.deletion # Null /\ c.deletion.install # storage.identity
                             THEN Failed(c) ELSE p
    BY DEF WithIdentity, p
<1> QED
    BY <1>2, <1>3, <1>4, <1>5, SameRefl

LEMMA WithDeletionFacts ==
    ASSUME TypeOK, NEW c, ClientType(c)
    PROVE  LET d == WithDeletion(c) IN
           /\ ClientType(d) /\ Same(c, d)
           /\ d.consent = c.consent /\ d.identity = c.identity
           /\ d.trusted = c.trusted /\ d.under = c.under /\ d.writes = c.writes
           /\ ~d.error => \/ d = c
                          \/ /\ storage.deletion # Null /\ d.deletion = storage.deletion
                             /\ d.epoch = storage.deletion.epoch
                             /\ d.queue = {e \in c.queue : e.at > storage.deletion.before}
           /\ ~d.error /\ storage.deletion # Null =>
                d.deletion # Null /\ ~Newer(storage.deletion, d.deletion)
<1>1. /\ ClientType(Failed(c)) /\ Same(c, Failed(c)) /\ Failed(c).error
      /\ Failed(c).consent = c.consent /\ Failed(c).deletion = c.deletion
      /\ Failed(c).trusted = c.trusted /\ Failed(c).under = c.under /\ Failed(c).writes = c.writes
      /\ Failed(c).identity = c.identity
    BY FailedFacts DEF ClientFields
<1>2. CASE storage.deletion = Null \/ c.error
    BY <1>2, SameRefl DEF WithDeletion
<1>3. CASE storage.deletion # Null /\ ~c.error
  <2>1. storage.deletion \in Deletions
      BY <1>3 DEF TypeOK, RestType
  <2> DEFINE a == Advanced(c, storage.deletion)
  <2>2. /\ ClientType(a) /\ Same(c, a)
        /\ a.deletion = storage.deletion /\ a.epoch = storage.deletion.epoch
        /\ a.queue = {e \in c.queue : e.at > storage.deletion.before}
        /\ a.consent = c.consent /\ a.identity = c.identity
        /\ a.trusted = c.trusted /\ a.under = c.under /\ a.writes = c.writes /\ a.error = c.error
      BY <2>1, AdvancedFacts DEF ClientFields
  <2> HIDE DEF a
  <2>3. ~Newer(storage.deletion, storage.deletion)
      BY <2>1 DEF Newer, Deletions
  <2>4. WithDeletion(c) = IF c.identity # Null /\ storage.deletion.install # c.identity THEN Failed(c)
                          ELSE IF c.deletion = Null THEN a
                          ELSE IF Newer(c.deletion, storage.deletion) THEN Failed(c)
                          ELSE IF Newer(storage.deletion, c.deletion) THEN a
                          ELSE c
      BY <1>3 DEF WithDeletion, a
  <2> QED
      BY <1>1, <1>3, <2>2, <2>3, <2>4, SameRefl
<1> QED
    BY <1>2, <1>3

LEMMA RefreshedFacts ==
    ASSUME TypeOK, NEW c, ClientType(c)
    PROVE  LET d == Refreshed(c)  w == WithConsent(c) IN
           /\ ClientType(d) /\ Same(c, d)
           /\ d.consent = w.consent /\ d.trusted = w.trusted /\ d.under = w.under /\ d.writes = w.writes
           /\ c.identity # Null => d.identity # Null
<1> DEFINE w == WithConsent(c)
           i == WithIdentity(w)
           d == WithDeletion(i)
<1>1. ClientType(w) /\ Same(c, w) /\ w.identity = c.identity
    BY WithConsentFacts
<1>2. /\ ClientType(i) /\ Same(w, i) /\ i.consent = w.consent /\ i.trusted = w.trusted /\ i.under = w.under
      /\ i.writes = w.writes /\ (w.identity # Null => i.identity # Null)
    BY <1>1, WithIdentityFacts
<1>3. /\ ClientType(d) /\ Same(i, d) /\ d.consent = i.consent /\ d.trusted = i.trusted /\ d.under = i.under
      /\ d.writes = i.writes /\ d.identity = i.identity
    BY <1>2, WithDeletionFacts
<1>4. Same(c, d)
    BY <1>1, <1>2, <1>3, SameTrans
<1> QED
    BY <1>1, <1>2, <1>3, <1>4 DEF Refreshed

(* What a step may do to a client whose calls go on.                        *)
KeepsCalls(c, d) ==
    /\ d.job = c.job
    /\ c.writes # <<>> /\ c.writes[1].step = "sent" =>
          /\ d.writes # <<>> /\ d.writes[1].step = "sent"
          /\ d.writes[1].at = c.writes[1].at /\ d.writes[1].enabled = c.writes[1].enabled
          /\ d.writes[1].cookie = c.writes[1].cookie

LEMMA SameKeeps ==
    ASSUME NEW c, NEW d, ClientType(c), ClientType(d), Same(c, d)
    PROVE  /\ KeepsCalls(c, d)
           /\ Waits(c) => Waits(d)
           /\ \A n \in 1 .. Len(c.writes) :
                /\ d.writes[n].at = c.writes[n].at /\ d.writes[n].enabled = c.writes[n].enabled
                /\ d.writes[n].step = c.writes[n].step /\ d.writes[n].flush = c.writes[n].flush
                /\ d.writes[n].again = c.writes[n].again
                /\ d.writes[n].answer = c.writes[n].answer
                /\ d.writes[n].cookie = c.writes[n].cookie
                /\ d.writes[n].current => d.writes[n] = c.writes[n]
           /\ c.writes = <<>> <=> d.writes = <<>>
<1>1. /\ c.writes \in Seq(WriteSet) /\ d.writes \in Seq(WriteSet)
      /\ Len(c.writes) = Len(d.writes) /\ Len(c.writes) \in Nat /\ d.job = c.job
    BY DEF ClientType, Same
<1>2. c.writes = <<>> <=> d.writes = <<>>
    BY <1>1
<1>3. ASSUME NEW n \in 1 .. Len(c.writes)
      PROVE  /\ d.writes[n].at = c.writes[n].at /\ d.writes[n].enabled = c.writes[n].enabled
             /\ d.writes[n].step = c.writes[n].step /\ d.writes[n].flush = c.writes[n].flush
             /\ d.writes[n].again = c.writes[n].again
             /\ d.writes[n].answer = c.writes[n].answer
             /\ d.writes[n].cookie = c.writes[n].cookie
             /\ d.writes[n].current => d.writes[n] = c.writes[n]
  <2>1. c.writes[n] \in WriteSet
      BY <1>1, ElementOfSeq
  <2>2. d.writes[n] \in {c.writes[n], [c.writes[n] EXCEPT !.current = FALSE]}
      BY DEF Same
  <2> QED
      BY <2>1, <2>2 DEF WriteSet
<1>4. c.writes # <<>> => 1 \in 1 .. Len(c.writes)
    BY <1>1
<1>5. KeepsCalls(c, d)
    BY <1>1, <1>2, <1>3, <1>4 DEF KeepsCalls
<1>6. Waits(c) => Waits(d)
    BY <1>1, <1>3 DEF Waits
<1> QED
    BY <1>2, <1>3, <1>5, <1>6

LEMMA ReportedFacts ==
    ASSUME NEW c, ClientType(c), NEW w \in WriteSet
    PROVE  LET d == Reported(c, w) IN
           /\ ClientType(d) /\ KeepsCalls(c, d)
           /\ d.writes = Append(c.writes, w)
           /\ \A f \in ClientFields \ {"writes"} : d[f] = c[f]
           /\ Waits(c) /\ ~w.flush => Waits(d)
<1> DEFINE d == Reported(c, w)
           q == Append(c.writes, w)
<1>1. /\ DOMAIN d = ClientFields /\ d.writes = q
      /\ \A f \in ClientFields \ {"writes"} : d[f] = c[f]
    BY DEF Reported, ClientType, ClientFields
<1>2. /\ q \in Seq(WriteSet) /\ Len(q) = Len(c.writes) + 1 /\ Len(c.writes) \in Nat
      /\ \A n \in 1 .. Len(c.writes) : q[n] = c.writes[n]
      /\ q[Len(c.writes) + 1] = w /\ q # <<>>
    BY AppendProperties DEF ClientType
<1> HIDE DEF q, d
<1>3. ClientType(d)
    BY <1>1, <1>2 DEF ClientType, JobType, ClientFields
<1>4. c.writes # <<>> => 1 \in 1 .. Len(c.writes)
    BY DEF ClientType
<1>5. KeepsCalls(c, d)
    BY <1>1, <1>2, <1>4 DEF KeepsCalls, ClientFields
<1>6. ASSUME Waits(c), ~w.flush PROVE Waits(d)
  <2>1. d.job = c.job
      BY <1>1 DEF ClientFields
  <2>2. \A n \in 1 .. Len(q) : n \in 1 .. Len(c.writes) \/ n = Len(c.writes) + 1
      BY <1>2
  <2> QED
      BY <1>1, <1>2, <1>6, <2>1, <2>2 DEF Waits
<1> QED
    BY <1>1, <1>3, <1>5, <1>6 DEF d, q

LEMMA HeadFacts ==
    ASSUME NEW c, ClientType(c), c.writes # <<>>
    PROVE  /\ 1 \in 1 .. Len(c.writes) /\ c.writes[1] \in WriteSet /\ Len(c.writes) \in Nat \ {0}
           /\ Tail(c.writes) \in Seq(WriteSet) /\ Len(Tail(c.writes)) = Len(c.writes) - 1
           /\ \A n \in 1 .. Len(c.writes) - 1 :
                n + 1 \in 1 .. Len(c.writes) /\ Tail(c.writes)[n] = c.writes[n + 1]
<1>1. c.writes \in Seq(WriteSet) /\ Len(c.writes) \in Nat \ {0}
    BY EmptySeq DEF ClientType
<1>2. 1 \in 1 .. Len(c.writes) /\ c.writes[1] \in WriteSet
    BY <1>1, ElementOfSeq
<1> QED
    BY <1>1, <1>2, HeadTailProperties

(* A client whose first write is w and whose other writes are as before.    *)
HeadIs(c, d, w) ==
    /\ d.writes # <<>> /\ d.writes[1] = w /\ Len(d.writes) = Len(c.writes)
    /\ \A n \in 2 .. Len(c.writes) : d.writes[n] = c.writes[n]

LEMMA HeadChanged ==
    ASSUME NEW c, ClientType(c), c.writes # <<>>, NEW w \in WriteSet,
           w.flush = c.writes[1].flush
    PROVE  LET d == [c EXCEPT !.writes[1] = w] IN
           /\ ClientType(d) /\ HeadIs(c, d, w)
           /\ \A f \in ClientFields \ {"writes"} : d[f] = c[f]
           /\ Waits(c) => Waits(d)
<1> DEFINE d == [c EXCEPT !.writes[1] = w]
           q == [c.writes EXCEPT ![1] = w]
<1>1. c.writes \in Seq(WriteSet) /\ 1 \in 1 .. Len(c.writes) /\ Len(c.writes) \in Nat \ {0}
    BY HeadFacts DEF ClientType
<1>2. /\ q \in Seq(WriteSet) /\ Len(q) = Len(c.writes)
      /\ \A n \in 1 .. Len(c.writes) : q[n] = IF n = 1 THEN w ELSE c.writes[n]
    BY <1>1, ExceptSeq
<1>3. /\ DOMAIN d = ClientFields /\ d.writes = q
      /\ \A f \in ClientFields \ {"writes"} : d[f] = c[f]
    BY DEF ClientType, ClientFields
<1> HIDE DEF d, q
<1>4. ClientType(d)
    BY <1>2, <1>3 DEF ClientType, JobType, ClientFields
<1>5. HeadIs(c, d, w)
    BY <1>1, <1>2, <1>3 DEF HeadIs
<1>6. d.job = c.job /\ \A n \in 1 .. Len(c.writes) : d.writes[n].flush = c.writes[n].flush
    BY <1>1, <1>2, <1>3 DEF ClientFields
<1>7. Waits(c) => Waits(d)
    BY <1>2, <1>3, <1>6 DEF Waits
<1> QED
    BY <1>3, <1>4, <1>5, <1>7 DEF d

LEMMA SteppedFacts ==
    ASSUME NEW c, ClientType(c), c.writes # <<>>, NEW step \in Steps
    PROVE  LET d == Stepped(c, step)  w == [c.writes[1] EXCEPT !.step = step] IN
           /\ ClientType(d) /\ w \in WriteSet /\ HeadIs(c, d, w)
           /\ \A f \in ClientFields \ {"writes"} : d[f] = c[f]
           /\ Waits(c) => Waits(d)
<1> DEFINE w == [c.writes[1] EXCEPT !.step = step]
<1>1. c.writes[1] \in WriteSet
    BY HeadFacts
<1>2. w \in WriteSet /\ w.flush = c.writes[1].flush
    BY <1>1 DEF WriteSet
<1>3. Stepped(c, step) = [c EXCEPT !.writes[1] = w]
    BY DEF Stepped
<1> HIDE DEF w
<1>4. LET d == [c EXCEPT !.writes[1] = w] IN
      /\ ClientType(d) /\ HeadIs(c, d, w)
      /\ \A f \in ClientFields \ {"writes"} : d[f] = c[f]
      /\ Waits(c) => Waits(d)
    BY <1>2, HeadChanged
<1> QED
    BY <1>2, <1>3, <1>4 DEF w

(* What the end of a request for a session does to the calls that wait.     *)
Onward(c, d) ==
    \/ d = c
    \/ c.step = "session" /\ d.step \in {"opened", "refused"} /\ d = [c EXCEPT !.step = d.step]

LEMMA ResolvedFacts ==
    ASSUME NEW c, ClientType(c), NEW opened \in BOOLEAN
    PROVE  LET d == Resolved(c, opened) IN
           /\ ClientType(d) /\ Len(d.writes) = Len(c.writes) /\ Onward(c.job, d.job)
           /\ \A n \in 1 .. Len(c.writes) : Onward(c.writes[n], d.writes[n])
           /\ \A f \in ClientFields \ {"ready", "job", "writes"} : d[f] = c[f]
           /\ d.job.kind = c.job.kind
           /\ Waits(c) => Waits(d)
<1> DEFINE d == Resolved(c, opened)
           step == IF opened THEN "opened" ELSE "refused"
           After(call) == IF call.step = "session" THEN [call EXCEPT !.step = step] ELSE call
           w == c.writes
           v == [n \in DOMAIN w |-> After(w[n])]
<1>1. w \in Seq(WriteSet) /\ DOMAIN w = 1 .. Len(w) /\ Len(w) \in Nat
    BY DEF ClientType
<1>2. \A n \in 1 .. Len(w) : w[n] \in WriteSet
    BY <1>1, ElementOfSeq
<1>3. \A x \in WriteSet : LET y == After(x) IN
          y \in WriteSet /\ y.flush = x.flush /\ Onward(x, y)
    BY DEF WriteSet, Steps, Onward
<1>4. \A n \in 1 .. Len(w) : v[n] \in WriteSet /\ v[n].flush = w[n].flush /\ Onward(w[n], v[n])
    BY <1>1, <1>2, <1>3
<1>5. v \in [1 .. Len(w) -> WriteSet] /\ DOMAIN v = 1 .. Len(w)
    BY <1>1, <1>4
<1>6. v \in Seq(WriteSet)
    BY <1>1, <1>5, Z3
<1>7. Len(v) = Len(w)
    BY <1>1, <1>5, <1>6
<1>8. /\ DOMAIN d = ClientFields /\ d.writes = v /\ d.job = After(c.job)
      /\ \A f \in ClientFields \ {"ready", "job", "writes"} : d[f] = c[f]
    BY DEF Resolved, ClientType, ClientFields
<1> HIDE DEF v, d
<1>9. DOMAIN c.job = JobFields
    BY DEF ClientType, JobType
<1>10. /\ Onward(c.job, d.job) /\ d.job.kind = c.job.kind /\ d.job.batch = c.job.batch
       /\ d.job.answer = c.job.answer /\ DOMAIN d.job = JobFields
       /\ d.job.step = c.job.step \/ d.job.step \in {"opened", "refused"}
    BY <1>8, <1>9 DEF Onward, JobFields
<1>11. JobType(d)
    BY <1>8, <1>10 DEF ClientType, JobType, ClientFields
<1>12. ClientType(d)
    BY <1>6, <1>8, <1>11 DEF ClientType, ClientFields
<1>13. Waits(c) => Waits(d)
    BY <1>1, <1>4, <1>7, <1>8, <1>10 DEF Waits
<1> QED
    BY <1>4, <1>7, <1>8, <1>10, <1>12, <1>13 DEF d

LEMMA JobDoneFacts ==
    ASSUME NEW c, ClientType(c)
    PROVE  /\ ClientType(JobDone(c)) /\ JobDone(c).job = NoJob
           /\ \A f \in ClientFields \ {"job"} : JobDone(c)[f] = c[f]
<1>1. /\ DOMAIN JobDone(c) = ClientFields /\ JobDone(c).job = NoJob
      /\ \A f \in ClientFields \ {"job"} : JobDone(c)[f] = c[f]
    BY DEF JobDone, ClientType, ClientFields
<1>2. ClientType(JobDone(c))
    BY <1>1 DEF ClientType, JobType, JobFields, NoJob, ClientFields
<1> QED
    BY <1>1, <1>2

LEMMA FinishedFacts ==
    ASSUME NEW c, ClientType(c), c.writes # <<>>, NEW recorded \in BOOLEAN, Waits(c)
    PROVE  LET d == Finished(c, recorded) IN
           /\ ClientType(d) /\ Waits(d) /\ d.writes = Tail(c.writes)
           /\ \A f \in ClientFields \ {"writes", "job"} : d[f] = c[f]
           /\ \/ ~c.writes[1].flush /\ d.job = c.job
              \/ /\ c.job.kind = "flush" /\ c.job.step = "preferring"
                 /\ \/ d.job = NoJob
                    \/ d.job = [c.job EXCEPT !.step = "reported"]
<1> DEFINE d == [c EXCEPT !.writes = Tail(@)]
           r == [d EXCEPT !.job.step = "reported"]
<1>1. /\ c.writes[1] \in WriteSet /\ 1 \in 1 .. Len(c.writes) /\ Len(c.writes) \in Nat \ {0}
      /\ Tail(c.writes) \in Seq(WriteSet) /\ Len(Tail(c.writes)) = Len(c.writes) - 1
      /\ \A n \in 1 .. Len(c.writes) - 1 :
            n + 1 \in 1 .. Len(c.writes) /\ Tail(c.writes)[n] = c.writes[n + 1]
    BY HeadFacts
<1>2. /\ DOMAIN d = ClientFields /\ d.writes = Tail(c.writes)
      /\ \A f \in ClientFields \ {"writes"} : d[f] = c[f]
    BY DEF ClientType, ClientFields
<1> HIDE DEF d
<1>3. ClientType(d)
    BY <1>1, <1>2 DEF ClientType, JobType, ClientFields
<1>4. d.job = c.job
    BY <1>2 DEF ClientFields
<1>5. Waits(d)
    BY <1>1, <1>2, <1>4 DEF Waits
<1>6. c.writes[1].flush => /\ c.job.kind = "flush" /\ c.job.step = "preferring"
                           /\ \A n \in 1 .. Len(d.writes) : ~d.writes[n].flush
  <2>1. SUFFICES ASSUME c.writes[1].flush
                 PROVE  \A n \in 1 .. Len(d.writes) : ~d.writes[n].flush
      BY <1>1 DEF Waits
  <2>2. SUFFICES ASSUME NEW n \in 1 .. Len(d.writes), d.writes[n].flush PROVE FALSE
      OBVIOUS
  <2>3. n \in 1 .. Len(c.writes) - 1 /\ n \in Nat \ {0}
      BY <1>1, <1>2
  <2>4. n + 1 \in 1 .. Len(c.writes) /\ c.writes[n + 1].flush /\ n + 1 # 1
      BY <1>1, <1>2, <2>2, <2>3
  <2> QED
      BY <1>1, <2>1, <2>4 DEF Waits
<1>7. CASE ~c.writes[1].flush
  <2>1. Finished(c, recorded) = d
      BY <1>7 DEF Finished, Head1, d
  <2> QED
      BY <1>2, <1>3, <1>4, <1>5, <1>7, <2>1
<1>8. CASE c.writes[1].flush /\ ~recorded
  <2>1. Finished(c, recorded) = JobDone(d)
      BY <1>8 DEF Finished, Head1, d
  <2>2. /\ ClientType(JobDone(d)) /\ JobDone(d).job = NoJob
        /\ \A f \in ClientFields \ {"job"} : JobDone(d)[f] = d[f]
      BY <1>3, JobDoneFacts
  <2>3. JobDone(d).writes = d.writes
      BY <2>2 DEF ClientFields
  <2>4. Waits(JobDone(d))
      BY <1>6, <1>8, <2>3 DEF Waits
  <2>5. \A f \in ClientFields \ {"writes", "job"} : JobDone(d)[f] = c[f]
      BY <1>2, <2>2
  <2> QED
      BY <1>2, <1>6, <1>8, <2>1, <2>2, <2>3, <2>4, <2>5
<1>9. CASE c.writes[1].flush /\ recorded
  <2>1. Finished(c, recorded) = r
      BY <1>9 DEF Finished, Head1, d
  <2>2. /\ DOMAIN r = ClientFields /\ r.job = [c.job EXCEPT !.step = "reported"]
        /\ \A f \in ClientFields \ {"job"} : r[f] = d[f]
      BY <1>2, <1>4 DEF ClientFields
  <2>3. r.writes = d.writes
      BY <2>2 DEF ClientFields
  <2>4. c.job.kind = "flush" /\ JobType(c)
      BY <1>6, <1>9 DEF ClientType
  <2>5. JobType(r)
      BY <2>2, <2>4 DEF JobType, JobFields
  <2> HIDE DEF r
  <2>6. ClientType(r)
      BY <1>3, <2>2, <2>5 DEF ClientType, ClientFields
  <2>7. Waits(r)
      BY <1>6, <1>9, <2>3 DEF Waits
  <2>8. \A f \in ClientFields \ {"writes", "job"} : r[f] = c[f]
      BY <1>2, <2>2
  <2> QED
      BY <1>2, <1>6, <1>9, <2>1, <2>2, <2>3, <2>6, <2>7, <2>8
<1> QED
    BY <1>7, <1>8, <1>9

---------------------------------------------------------------------------
LEMMA RestUnchanged ==
    RestType /\ UNCHANGED <<clock, cookie, storage, server, tracked, count>> => RestType'
    BY DEF RestType

(* A step of one tab keeps the calls in order if those of that tab are.     *)
LEMMA UpdateOrderly ==
    ASSUME Orderly, NEW t \in Tabs, NEW c, ClientType(c), Waits(c), Update(t, c), RestType',
           wire' \subseteq Requests,
           \A r \in wire' : r.live /\ r.tab = t => Awaited(r, c),
           \A r \in wire' : r.live /\ r.tab # t => r \in wire,
           c.job.kind # "none" => \A u \in Tabs \ {t} : tab[u].job.kind = "none",
           \A r, q \in wire' : r.live /\ q.live /\ r.kind # "choice" /\ q.kind # "choice" => r = q
    PROVE  Orderly'
<1>1. /\ tab'[t] = c /\ DOMAIN tab' = Tabs /\ \A u \in Tabs \ {t} : tab'[u] = tab[u]
      /\ tab' = [u \in Tabs |-> tab'[u]]
    BY DEF Update, Orderly, TypeOK
<1>2. \A r \in wire' : r.tab \in Tabs
    BY DEF Requests, ChoiceRequests, BatchRequests, DeleteRequests
<1>3. TypeOK'
    BY <1>1 DEF Orderly, TypeOK
<1>4. \A r \in wire' : r.live => Awaited(r, tab'[r.tab])
    BY <1>1, <1>2 DEF Orderly
<1>5. \A u \in Tabs : Waits(tab'[u])
    BY <1>1 DEF Orderly
<1>6. Locked'
    BY <1>1 DEF Orderly, Locked
<1> QED
    BY <1>3, <1>4, <1>5, <1>6 DEF Orderly

LEMMA KeepsAwaited ==
    ASSUME NEW r, NEW c, NEW d, Awaited(r, c), KeepsCalls(c, d)
    PROVE  Awaited(r, d)
    BY DEF Awaited, KeepsCalls

LEMMA QuietUpdate ==
    ASSUME Orderly, NEW t \in Tabs, NEW c, ClientType(c), Waits(c), KeepsCalls(tab[t], c),
           Update(t, c), UNCHANGED wire, RestType'
    PROVE  Orderly'
<1>1. \A r \in wire' : r.live /\ r.tab = t => Awaited(r, c)
    BY KeepsAwaited DEF Orderly
<1>2. c.job.kind # "none" => \A u \in Tabs \ {t} : tab[u].job.kind = "none"
    BY DEF Orderly, Locked, KeepsCalls
<1> QED
    BY <1>1, <1>2, UpdateOrderly DEF Orderly, TypeOK, Locked

LEMMA OrderlyTab ==
    ASSUME Orderly, NEW t \in Tabs
    PROVE  /\ TypeOK /\ ClientType(tab[t]) /\ Waits(tab[t]) /\ RestType
           /\ ClientType(WithConsent(tab[t])) /\ Same(tab[t], WithConsent(tab[t]))
           /\ KeepsCalls(tab[t], WithConsent(tab[t])) /\ Waits(WithConsent(tab[t]))
           /\ ClientType(Refreshed(tab[t])) /\ Same(tab[t], Refreshed(tab[t]))
           /\ KeepsCalls(tab[t], Refreshed(tab[t])) /\ Waits(Refreshed(tab[t]))
<1>1. TypeOK /\ ClientType(tab[t]) /\ Waits(tab[t]) /\ RestType
    BY DEF Orderly, TypeOK
<1>2. ClientType(WithConsent(tab[t])) /\ Same(tab[t], WithConsent(tab[t]))
    BY <1>1, WithConsentFacts
<1>3. ClientType(Refreshed(tab[t])) /\ Same(tab[t], Refreshed(tab[t]))
    BY <1>1, RefreshedFacts
<1> QED
    BY <1>1, <1>2, <1>3, SameKeeps

LEMMA KeepsTrans ==
    ASSUME NEW c, NEW d, NEW e, KeepsCalls(c, d), KeepsCalls(d, e)
    PROVE  KeepsCalls(c, e)
    BY DEF KeepsCalls

LEMMA WriteFacts ==
    ASSUME NEW c, ClientType(c), c.consent # Null
    PROVE  /\ Write(c) \in WriteSet /\ ~Write(c).flush
           /\ [Write(c) EXCEPT !.flush = TRUE] \in WriteSet
<1>1. c.consent.enabled \in BOOLEAN /\ c.consent.at \in Nat
    BY DEF ClientType, Decisions
<1>2. Write(c) \in WriteSet /\ ~Write(c).flush
    BY <1>1 DEF Write, WriteSet, Steps
<1>3. \A w \in WriteSet : [w EXCEPT !.flush = TRUE] \in WriteSet
    BY DEF WriteSet
<1> QED
    BY <1>2, <1>3

(* What a client holds, apart from its calls and its trust.                 *)
CoreFields == {"consent", "identity", "deletion", "queue", "epoch", "error"}
SameCore(c, d) == \A f \in CoreFields : d[f] = c[f]

LEMMA CoreOfFields ==
    ASSUME NEW c, NEW d, \A f \in ClientFields \ {"writes", "job", "ready", "trusted", "under"} : d[f] = c[f]
    PROVE  SameCore(c, d)
    BY DEF SameCore, CoreFields, ClientFields

(* The moment of a decision is after the one it replaces.                   *)
LEMMA DecisionFacts ==
    ASSUME TypeOK, NEW c, ClientType(c)
    PROVE  /\ DecisionAt(c) \in Nat
           /\ c.consent # Null => DecisionAt(c) > c.consent.at
<1>1. clock \in Nat /\ (c.consent = Null \/ c.consent.at \in Nat)
    BY DEF TypeOK, RestType, ClientType, Decisions
<1> QED
    BY <1>1 DEF DecisionAt

(* The client that has just decided.                                        *)
DecidedClient(c, consent) ==
    LET d == [Revised(c) EXCEPT !.consent = consent] IN
    IF consent.enabled THEN d ELSE Cleared(d)

LEMMA DecidedClientFacts ==
    ASSUME NEW c, ClientType(c), NEW consent \in Decisions
    PROVE  LET d == DecidedClient(c, consent) IN
           /\ ClientType(d) /\ Same(c, d)
           /\ d.consent = consent /\ d.trusted = Null
           /\ \A n \in 1 .. Len(d.writes) : ~d.writes[n].current
           /\ d.identity = c.identity /\ d.deletion = c.deletion /\ d.error = c.error
           /\ IF consent.enabled THEN d.queue = c.queue /\ d.epoch = c.epoch
              ELSE /\ d.queue = {}
                   /\ d.epoch = IF c.deletion = Null THEN c.epoch ELSE c.deletion.epoch
<1> DEFINE r == Revised(c)
           p == [r EXCEPT !.consent = consent]
<1>1. /\ ClientType(r) /\ Same(c, r) /\ r.trusted = Null
      /\ \A n \in 1 .. Len(c.writes) : ~r.writes[n].current
      /\ r.identity = c.identity /\ r.deletion = c.deletion /\ r.error = c.error
      /\ r.queue = c.queue /\ r.epoch = c.epoch
    BY RevisedFacts DEF ClientFields
<1> HIDE DEF r
<1>3. /\ DOMAIN p = ClientFields /\ p.consent = consent
      /\ p.identity = r.identity /\ p.deletion = r.deletion /\ p.queue = r.queue
      /\ p.epoch = r.epoch /\ p.ready = r.ready /\ p.trusted = r.trusted
      /\ p.under = r.under
      /\ p.writes = r.writes /\ p.job = r.job /\ p.error = r.error
    BY <1>1 DEF ClientType, ClientFields
<1>4. ClientType(p) /\ Same(c, p)
    BY <1>1, <1>3 DEF ClientType, JobType, Same
<1> HIDE DEF p
<1>5. /\ ClientType(Cleared(p)) /\ Same(c, Cleared(p)) /\ Cleared(p).queue = {}
      /\ Cleared(p).epoch = IF p.deletion = Null THEN p.epoch ELSE p.deletion.epoch
      /\ Cleared(p).consent = p.consent /\ Cleared(p).identity = p.identity
      /\ Cleared(p).deletion = p.deletion /\ Cleared(p).error = p.error
      /\ Cleared(p).trusted = p.trusted /\ Cleared(p).writes = p.writes
  <2>1. /\ ClientType(Cleared(p)) /\ Same(p, Cleared(p)) /\ Cleared(p).queue = {}
        /\ Cleared(p).epoch = IF p.deletion = Null THEN p.epoch ELSE p.deletion.epoch
        /\ \A f \in ClientFields \ {"queue", "epoch"} : Cleared(p)[f] = p[f]
      BY <1>4, ClearedFacts
  <2>2. Same(c, Cleared(p))
      BY <1>4, <2>1, SameTrans
  <2> QED
      BY <2>1, <2>2 DEF ClientFields
<1>6. \A n \in 1 .. Len(p.writes) : ~p.writes[n].current
    BY <1>1, <1>3 DEF Same
<1>7. DecidedClient(c, consent) = IF consent.enabled THEN p ELSE Cleared(p)
    BY DEF DecidedClient, p, r
<1> QED
    BY <1>1, <1>3, <1>4, <1>5, <1>6, <1>7

(* A decision is a new one, behind everything that has been decided.        *)
Decision(t, enabled) == [enabled |-> enabled, at |-> DecisionAt(WithConsent(tab[t]))]
Deciding(t, enabled) == DecidedClient(WithConsent(tab[t]), Decision(t, enabled))

LEMMA ChooseFacts ==
    ASSUME Orderly, NEW t \in Tabs, NEW enabled \in BOOLEAN, Choose(t, enabled)
    PROVE  LET consent == Decision(t, enabled)
               e == Deciding(t, enabled)
               d == Reported(e, Write(e))
           IN
           /\ consent \in Decisions
           /\ storage.consent # Null => consent.at > storage.consent.at
           /\ ClientType(e) /\ Same(tab[t], e) /\ e.consent = consent /\ e.trusted = Null
           /\ \A n \in 1 .. Len(e.writes) : ~e.writes[n].current
           /\ e.identity = tab[t].identity /\ e.deletion = tab[t].deletion
           /\ ~tab[t].error /\ ~e.error
           /\ \/ e.queue = tab[t].queue /\ e.epoch = tab[t].epoch
              \/ /\ ~enabled \/ ~On(storage.consent)
                 /\ e.queue = {}
                 /\ e.epoch = IF e.deletion = Null THEN tab[t].epoch ELSE e.deletion.epoch
           /\ Write(e) \in WriteSet /\ ~Write(e).flush
           /\ ClientType(d) /\ KeepsCalls(tab[t], d) /\ Waits(d) /\ SameCore(e, d)
           /\ d.writes = Append(e.writes, Write(e)) /\ d.trusted = Null /\ d.job = tab[t].job
           /\ Update(t, d) /\ UNCHANGED <<clock, cookie, wire, server, tracked>>
           /\ storage' = [storage EXCEPT !.consent = consent]
           /\ lost' = IF enabled THEN lost ELSE lost \cup tracked
           /\ count' = [count EXCEPT !.decisions = @ + 1]
<1> DEFINE c == WithConsent(tab[t])
           consent == Decision(t, enabled)
           e == Deciding(t, enabled)
           d == Reported(e, Write(e))
<1>1. /\ TypeOK /\ ClientType(c) /\ Same(tab[t], c) /\ ClientType(tab[t]) /\ Waits(tab[t])
      /\ Same(tab[t], tab[t])
    BY OrderlyTab, SameRefl
<1>2. /\ c.identity = tab[t].identity /\ c.deletion = tab[t].deletion /\ c.error = tab[t].error
      /\ ~c.error => c.consent = storage.consent
      /\ \/ c.queue = tab[t].queue /\ c.epoch = tab[t].epoch
         \/ /\ ~On(storage.consent) /\ c.queue = {}
            /\ c.epoch = IF c.deletion = Null THEN tab[t].epoch ELSE c.deletion.epoch
    BY <1>1, WithConsentFacts
<1>3. consent \in Decisions
    BY <1>1, DecisionFacts DEF Decisions, Decision
<1>4. ~c.error
    BY DEF Choose
<1>5. storage.consent # Null => consent.at > storage.consent.at
    BY <1>1, <1>2, <1>4, DecisionFacts DEF Decision
<1>6. /\ ClientType(e) /\ Same(c, e) /\ e.consent = consent /\ e.trusted = Null
      /\ \A n \in 1 .. Len(e.writes) : ~e.writes[n].current
      /\ e.identity = c.identity /\ e.deletion = c.deletion /\ e.error = c.error
      /\ IF consent.enabled THEN e.queue = c.queue /\ e.epoch = c.epoch
         ELSE /\ e.queue = {}
              /\ e.epoch = IF c.deletion = Null THEN c.epoch ELSE c.deletion.epoch
    BY <1>1, <1>3, DecidedClientFacts DEF Deciding
<1>7. Same(tab[t], e)
    BY <1>1, <1>6, SameTrans
<1>8. KeepsCalls(tab[t], e) /\ Waits(e) /\ e.job = tab[t].job
    BY <1>1, <1>6, <1>7, SameKeeps DEF KeepsCalls
<1>9. /\ Update(t, d) /\ UNCHANGED <<clock, cookie, wire, server, tracked>>
      /\ storage' = [storage EXCEPT !.consent = consent]
      /\ lost' = IF enabled THEN lost ELSE lost \cup tracked
      /\ count' = [count EXCEPT !.decisions = @ + 1]
    BY DEF Choose, DecidedClient, Deciding, Decision
<1>10. consent.enabled = enabled
    BY DEF Decision
<1> HIDE DEF e, consent, c
<1>11. e.consent # Null
    BY <1>3, <1>6, NullAssumption
<1>12. Write(e) \in WriteSet /\ ~Write(e).flush
    BY <1>6, <1>11, WriteFacts
<1>13. /\ ClientType(d) /\ KeepsCalls(e, d) /\ Waits(d) /\ d.writes = Append(e.writes, Write(e))
       /\ \A f \in ClientFields \ {"writes"} : d[f] = e[f]
    BY <1>6, <1>8, <1>12, ReportedFacts
<1> HIDE DEF d
<1>14. SameCore(e, d) /\ d.trusted = e.trusted /\ d.job = e.job
    BY <1>13 DEF SameCore, CoreFields, ClientFields
<1>15. KeepsCalls(tab[t], d)
    BY <1>8, <1>13, KeepsTrans
<1>16. /\ \/ e.queue = tab[t].queue /\ e.epoch = tab[t].epoch
         \/ /\ ~enabled \/ ~On(storage.consent)
            /\ e.queue = {}
            /\ e.epoch = IF e.deletion = Null THEN tab[t].epoch ELSE e.deletion.epoch
    BY <1>2, <1>6, <1>10
<1> QED
    BY <1>2, <1>3, <1>4, <1>5, <1>6, <1>7, <1>8, <1>9, <1>12, <1>13, <1>14, <1>15, <1>16
       DEF d, e, consent

LEMMA ChooseOrderly ==
    ASSUME Orderly, NEW t \in Tabs, NEW enabled \in BOOLEAN, Choose(t, enabled)
    PROVE  Orderly'
<1> DEFINE d == Reported(Deciding(t, enabled), Write(Deciding(t, enabled)))
<1>1. /\ Decision(t, enabled) \in Decisions
      /\ ClientType(d) /\ KeepsCalls(tab[t], d) /\ Waits(d)
      /\ Update(t, d) /\ UNCHANGED <<clock, cookie, wire, server, tracked>>
      /\ storage' = [storage EXCEPT !.consent = Decision(t, enabled)]
      /\ count' = [count EXCEPT !.decisions = @ + 1]
    BY ChooseFacts
<1> HIDE DEF d
<1>2. RestType
    BY OrderlyTab
<1>3. RestType'
    BY <1>1, <1>2 DEF RestType
<1> QED
    BY <1>1, <1>3, QuietUpdate

LEMMA ReportAgainOrderly ==
    ASSUME Orderly, NEW t \in Tabs, ReportAgain(t)
    PROVE  Orderly'
<1> DEFINE c == WithConsent(tab[t])
<1>1. /\ ClientType(c) /\ Waits(c) /\ KeepsCalls(tab[t], c) /\ RestType
    BY OrderlyTab
<1>2. /\ UNCHANGED <<clock, cookie, storage, wire, server, tracked, lost, count>>
      /\ Update(t, IF Enabled(c) THEN Reported(c, Write(c)) ELSE c)
    BY DEF ReportAgain
<1> HIDE DEF c
<1>3. RestType'
    BY <1>1, <1>2, RestUnchanged
<1>4. CASE Enabled(c)
  <2>1. Write(c) \in WriteSet /\ ~Write(c).flush
      BY <1>1, <1>4, WriteFacts DEF Enabled
  <2>2. /\ ClientType(Reported(c, Write(c))) /\ KeepsCalls(c, Reported(c, Write(c)))
        /\ Waits(Reported(c, Write(c)))
      BY <1>1, <2>1, ReportedFacts
  <2>3. KeepsCalls(tab[t], Reported(c, Write(c)))
      BY <1>1, <2>2, KeepsTrans
  <2> QED
      BY <1>2, <1>3, <1>4, <2>2, <2>3, QuietUpdate
<1>5. CASE ~Enabled(c)
    BY <1>1, <1>2, <1>3, <1>5, QuietUpdate
<1> QED
    BY <1>4, <1>5

LEMMA SynchronizeOrderly ==
    ASSUME Orderly, NEW t \in Tabs, Synchronize(t)
    PROVE  Orderly'
    BY OrderlyTab, RestUnchanged, QuietUpdate DEF Synchronize

(* A step of the chain of writes, while its head is not under way.          *)
LEMMA ChainOrderly ==
    ASSUME Orderly, NEW t \in Tabs, tab[t].writes # <<>>, tab[t].writes[1].step # "sent",
           NEW d, ClientType(d), Waits(d),
           \/ d.job = tab[t].job
           \/ /\ tab[t].job.kind = "flush" /\ tab[t].job.step = "preferring"
              /\ d.job = NoJob \/ d.job = [tab[t].job EXCEPT !.step = "reported"],
           Update(t, d), UNCHANGED wire, RestType'
    PROVE  Orderly'
<1>1. \A r \in wire' : r.live /\ r.tab = t => Awaited(r, tab[t])
    BY DEF Orderly
<1>2. \A r \in wire' : r.live /\ r.tab = t => Awaited(r, d)
    BY <1>1 DEF Awaited
<1>3. d.job.kind # "none" => tab[t].job.kind # "none"
    BY OrderlyTab DEF NoJob
<1>4. d.job.kind # "none" => \A u \in Tabs \ {t} : tab[u].job.kind = "none"
    BY <1>3 DEF Orderly, Locked
<1> QED
    BY <1>2, <1>4, UpdateOrderly DEF Orderly, TypeOK, Locked

LEMMA FinishedOrderly ==
    ASSUME Orderly, NEW t \in Tabs, tab[t].writes # <<>>, tab[t].writes[1].step # "sent",
           NEW c, ClientType(c), Waits(c), c.job = tab[t].job, c.writes # <<>>,
           NEW recorded \in BOOLEAN, Update(t, Finished(c, recorded)), UNCHANGED wire, RestType'
    PROVE  Orderly'
<1> DEFINE d == Finished(c, recorded)
<1>1. /\ ClientType(d) /\ Waits(d)
      /\ \/ ~c.writes[1].flush /\ d.job = c.job
         \/ /\ c.job.kind = "flush" /\ c.job.step = "preferring"
            /\ d.job = NoJob \/ d.job = [c.job EXCEPT !.step = "reported"]
    BY FinishedFacts
<1> HIDE DEF d
<1>2. Update(t, d)
    BY DEF d
<1> QED
    BY <1>1, <1>2, ChainOrderly

LEMMA SteppedOrderly ==
    ASSUME Orderly, NEW t \in Tabs, tab[t].writes # <<>>, tab[t].writes[1].step # "sent",
           NEW c, ClientType(c), Waits(c), c.job = tab[t].job, c.writes # <<>>,
           NEW step \in Steps, Update(t, Stepped(c, step)), UNCHANGED wire, RestType'
    PROVE  Orderly'
<1> DEFINE d == Stepped(c, step)
<1>1. ClientType(d) /\ Waits(d) /\ d.job = c.job
    BY SteppedFacts DEF ClientFields
<1> HIDE DEF d
<1>2. Update(t, d)
    BY DEF d
<1> QED
    BY <1>1, <1>2, ChainOrderly

LEMMA StartWriteOrderly ==
    ASSUME Orderly, NEW t \in Tabs, StartWrite(t)
    PROVE  Orderly'
<1> DEFINE c == WithConsent(tab[t])
<1>1. /\ ClientType(c) /\ Waits(c) /\ Same(tab[t], c) /\ RestType /\ ClientType(tab[t])
    BY OrderlyTab
<1>2. tab[t].writes # <<>> /\ tab[t].writes[1].step = "queued"
    BY DEF StartWrite, AtStep, Head1
<1>3. c.writes # <<>> /\ c.job = tab[t].job
    BY <1>1, <1>2, SameKeeps DEF Same
<1>4. /\ UNCHANGED <<clock, cookie, storage, wire, server, tracked, lost, count>>
      /\ \/ \E recorded \in BOOLEAN : Update(t, Finished(c, recorded))
         \/ \E step \in {"opened", "session"} : Update(t, Stepped(c, step))
    BY DEF StartWrite, Entry
<1> HIDE DEF c
<1>5. RestType'
    BY <1>1, <1>4, RestUnchanged
<1> QED
    BY <1>1, <1>2, <1>3, <1>4, <1>5, FinishedOrderly, SteppedOrderly DEF Steps

(* The write at the head has been sent with the browser's cookie.           *)
LEMMA SentFacts ==
    ASSUME RestType, NEW c, ClientType(c), c.writes # <<>>
    PROVE  LET d == Sent(c)  w == [c.writes[1] EXCEPT !.step = "sent", !.cookie = cookie] IN
           /\ ClientType(d) /\ w \in WriteSet /\ HeadIs(c, d, w)
           /\ \A f \in ClientFields \ {"writes"} : d[f] = c[f]
           /\ Waits(c) => Waits(d)
<1> DEFINE w == [c.writes[1] EXCEPT !.step = "sent", !.cookie = cookie]
<1>1. c.writes[1] \in WriteSet
    BY HeadFacts
<1>2. w \in WriteSet /\ w.flush = c.writes[1].flush
    BY <1>1 DEF WriteSet, Steps, RestType
<1>3. Sent(c) = [c EXCEPT !.writes[1] = w]
  <2>1. c.writes \in Seq(WriteSet) /\ 1 \in DOMAIN c.writes
      BY HeadFacts DEF ClientType
  <2> QED
      BY <2>1 DEF Sent, Stepped, ClientType, ClientFields
<1> HIDE DEF w
<1>4. LET d == [c EXCEPT !.writes[1] = w] IN
      /\ ClientType(d) /\ HeadIs(c, d, w)
      /\ \A f \in ClientFields \ {"writes"} : d[f] = c[f]
      /\ Waits(c) => Waits(d)
    BY <1>2, HeadChanged
<1> QED
    BY <1>2, <1>3, <1>4 DEF w

LEMMA SessionForWriteOrderly ==
    ASSUME Orderly, NEW t \in Tabs, SessionForWrite(t)
    PROVE  Orderly'
<1> DEFINE c == WithConsent(tab[t])
           w == Head1(c)
           d == Sent(c)
           r == [kind |-> "choice", tab |-> t, live |-> TRUE, cookie |-> cookie,
                 enabled |-> w.enabled, at |-> w.at]
<1>1. /\ ClientType(c) /\ Waits(c) /\ Same(tab[t], c) /\ RestType /\ ClientType(tab[t])
      /\ Waits(tab[t])
    BY OrderlyTab
<1>2. tab[t].writes # <<>> /\ tab[t].writes[1].step \in {"opened", "refused"}
    BY DEF SessionForWrite, AtStep, Head1
<1>3. c.writes # <<>> /\ c.job = tab[t].job
    BY <1>1, <1>2, SameKeeps DEF Same
<1>4. RestType'
  <2>1. UNCHANGED <<clock, cookie, storage, server, tracked, count>>
      BY DEF SessionForWrite
  <2> QED
      BY <1>1, <2>1, RestUnchanged
<1>5. CASE Update(t, Finished(tab[t], FALSE)) /\ UNCHANGED wire
    BY <1>1, <1>2, <1>4, <1>5, FinishedOrderly
<1>7. CASE Update(t, Finished(c, FALSE)) /\ UNCHANGED wire
  <2> HIDE DEF c
  <2> QED
      BY <1>1, <1>2, <1>3, <1>4, <1>7, FinishedOrderly
<1>8. CASE Update(t, d) /\ wire' = wire \cup {r}
  <2>1. c.writes[1] = w /\ w \in WriteSet
      BY <1>1, <1>3, HeadFacts DEF Head1
  <2> HIDE DEF c
  <2>a. /\ ClientType(d) /\ Waits(d)
        /\ HeadIs(c, d, [c.writes[1] EXCEPT !.step = "sent", !.cookie = cookie])
        /\ \A f \in ClientFields \ {"writes"} : d[f] = c[f]
      BY <1>1, <1>3, SentFacts
  <2> HIDE DEF d
  <2>2. /\ ClientType(d) /\ Waits(d) /\ d.job = c.job
        /\ d.writes # <<>> /\ d.writes[1] = [w EXCEPT !.step = "sent", !.cookie = cookie]
      BY <2>1, <2>a DEF ClientFields, HeadIs
  <2> HIDE DEF d, w
  <2>3. /\ d.writes[1].step = "sent" /\ d.writes[1].at = w.at /\ d.writes[1].enabled = w.enabled
        /\ d.writes[1].cookie = cookie /\ w.at \in Nat /\ w.enabled \in BOOLEAN
      BY <2>1, <2>2 DEF WriteSet, Steps
  <2>4. r \in ChoiceRequests
      BY <1>1, <2>3 DEF ChoiceRequests, RestType
  <2>5. Awaited(r, d)
      BY <2>2, <2>3 DEF Awaited
  <2>6. \A q \in wire : q.live /\ q.tab = t => Awaited(q, d)
    <3>1. \A q \in wire : q.live /\ q.tab = t => Awaited(q, tab[t])
        BY DEF Orderly
    <3> QED
        BY <1>2, <1>3, <2>2, <3>1 DEF Awaited
  <2>7. wire' \subseteq Requests
      BY <1>8, <2>4 DEF Orderly, TypeOK, Requests
  <2>8. \A q \in wire' : q.live /\ q.tab = t => Awaited(q, d)
      BY <1>8, <2>5, <2>6
  <2>9. \A q \in wire' : q.live /\ q.tab # t => q \in wire
      BY <1>8
  <2>10. d.job.kind # "none" => \A u \in Tabs \ {t} : tab[u].job.kind = "none"
      BY <1>3, <2>2 DEF Orderly, Locked
  <2>11. \A q, s \in wire' : q.live /\ s.live /\ q.kind # "choice" /\ s.kind # "choice" => q = s
      BY <1>8 DEF Orderly, Locked
  <2> QED
      BY <1>4, <1>8, <2>2, <2>7, <2>8, <2>9, <2>10, <2>11, UpdateOrderly
<1> QED
    BY <1>5, <1>7, <1>8 DEF SessionForWrite

LEMMA AnsweredWriteOrderly ==
    ASSUME Orderly, NEW t \in Tabs, AnsweredWrite(t)
    PROVE  Orderly'
<1> DEFINE c == WithConsent(tab[t])
           w == Head1(c)
           p == [c EXCEPT !.trusted = w.enabled, !.under = w.cookie]
           d == [Stepped(tab[t], "session") EXCEPT !.writes[1].again = TRUE, !.ready = FALSE]
<1>1. /\ ClientType(c) /\ Waits(c) /\ Same(tab[t], c) /\ RestType /\ ClientType(tab[t])
      /\ Waits(tab[t])
    BY OrderlyTab
<1>2. tab[t].writes # <<>> /\ tab[t].writes[1].step = "answered"
    BY DEF AnsweredWrite, AtStep, Head1
<1>3. c.writes # <<>> /\ c.job = tab[t].job
    BY <1>1, <1>2, SameKeeps DEF Same
<1>4. /\ UNCHANGED <<clock, cookie, storage, wire, server, tracked, lost, count>>
      /\ \/ Update(t, d) \/ Update(t, Finished(p, TRUE)) \/ Update(t, Finished(c, FALSE))
         \/ Update(t, Finished(tab[t], FALSE))
    BY DEF AnsweredWrite, Retried
<1>5. RestType'
    BY <1>1, <1>4, RestUnchanged
<1>6. CASE Update(t, d)
  <2> DEFINE s == Stepped(tab[t], "session")
             v == [s.writes[1] EXCEPT !.again = TRUE]
             q == [s EXCEPT !.writes[1] = v]
  <2>1. /\ ClientType(s) /\ Waits(s) /\ s.job = tab[t].job /\ s.writes # <<>>
    <3>1. "session" \in Steps
        BY DEF Steps
    <3>2. /\ ClientType(s) /\ HeadIs(tab[t], s, [tab[t].writes[1] EXCEPT !.step = "session"])
          /\ \A f \in ClientFields \ {"writes"} : s[f] = tab[t][f]
          /\ Waits(tab[t]) => Waits(s)
        BY <1>1, <1>2, <3>1, SteppedFacts
    <3> QED
        BY <1>1, <3>2 DEF ClientFields, HeadIs
  <2>2. d = [q EXCEPT !.ready = FALSE]
      BY <2>1 DEF ClientType, ClientFields
  <2> HIDE DEF s, d
  <2>3. s.writes[1] \in WriteSet
      BY <2>1, HeadFacts
  <2>4. v \in WriteSet /\ v.flush = s.writes[1].flush
      BY <2>3 DEF WriteSet, Steps
  <2> HIDE DEF v
  <2>5. ClientType(q) /\ Waits(q) /\ q.job = s.job
      BY <2>1, <2>4, HeadChanged DEF ClientFields
  <2> HIDE DEF q
  <2>6. /\ DOMAIN d = ClientFields
        /\ \A f \in ClientFields \ {"ready"} : d[f] = q[f]
      BY <2>2, <2>5 DEF ClientType, ClientFields
  <2>7. ClientType(d) /\ Waits(d) /\ d.job = tab[t].job
      BY <2>1, <2>5, <2>6 DEF ClientType, ClientFields, JobType, Waits
  <2> QED
      BY <1>2, <1>4, <1>5, <1>6, <2>7, ChainOrderly
<1>7. CASE Update(t, Finished(p, TRUE))
  <2>1. w \in WriteSet
      BY <1>1, <1>3, HeadFacts DEF Head1
  <2>2. w.enabled \in BOOLEAN /\ w.cookie \in Cookies \cup {Null}
      BY <2>1 DEF WriteSet
  <2> HIDE DEF w, c
  <2>3. /\ DOMAIN p = ClientFields /\ p.trusted = w.enabled /\ p.under = w.cookie
        /\ \A f \in ClientFields \ {"trusted", "under"} : p[f] = c[f]
      BY <1>1 DEF ClientType, ClientFields
  <2>4. ClientType(p) /\ Waits(p) /\ p.job = tab[t].job /\ p.writes # <<>>
      BY <1>1, <1>3, <2>2, <2>3 DEF ClientType, ClientFields, JobType, Waits
  <2> HIDE DEF p
  <2> QED
      BY <1>2, <1>4, <1>5, <1>7, <2>4, FinishedOrderly
<1>8. CASE Update(t, Finished(c, FALSE))
  <2> HIDE DEF c
  <2> QED
      BY <1>1, <1>2, <1>3, <1>4, <1>5, <1>8, FinishedOrderly
<1>9. CASE Update(t, Finished(tab[t], FALSE))
    BY <1>1, <1>2, <1>4, <1>5, <1>9, FinishedOrderly
<1> QED
    BY <1>4, <1>6, <1>7, <1>8, <1>9

LEMMA TrackOrderly ==
    ASSUME Orderly, NEW t \in Tabs, Track(t)
    PROVE  Orderly'
<1> DEFINE c == Refreshed(tab[t])
           e == [id |-> Cardinality(tracked) + 1, at |-> clock]
           d == [c EXCEPT !.queue = Trimmed(@ \cup {e})]
<1>1. /\ ClientType(c) /\ Waits(c) /\ KeepsCalls(tab[t], c) /\ RestType
    BY OrderlyTab
<1>2. e \in EventSet /\ Trimmed(c.queue \cup {e}) \in SUBSET EventSet
  <2>1. Cardinality(tracked) \in Nat
      BY <1>1, FS_CardinalityType DEF RestType
  <2> QED
      BY <1>1, <2>1 DEF EventSet, RestType, Trimmed, ClientType
<1>3. /\ DOMAIN d = ClientFields /\ d.queue = Trimmed(c.queue \cup {e})
      /\ \A f \in ClientFields \ {"queue"} : d[f] = c[f]
    BY <1>1 DEF ClientType, ClientFields
<1>4. /\ UNCHANGED <<clock, cookie, storage, wire, server, count>>
      /\ Update(t, IF Enabled(c) THEN d ELSE c)
      /\ tracked' = IF Enabled(c) THEN tracked \cup {e} ELSE tracked
    BY DEF Track
<1> HIDE DEF c, d, e
<1>5. ClientType(d) /\ Waits(d) /\ KeepsCalls(c, d)
    BY <1>1, <1>2, <1>3 DEF ClientType, ClientFields, JobType, Waits, KeepsCalls
<1>6. KeepsCalls(tab[t], d)
    BY <1>1, <1>5, KeepsTrans
<1>7. IsFiniteSet(tracked \cup {e})
    BY <1>1, FS_AddElement DEF RestType
<1>8. RestType'
    BY <1>1, <1>2, <1>4, <1>7 DEF RestType
<1> QED
    BY <1>1, <1>4, <1>5, <1>6, <1>8, QuietUpdate

LEMMA IdentitiesFacts ==
    ASSUME RestType, NEW i \in Identities
    PROVE  /\ i \in Identifiers /\ i # Null
           /\ storage.identity # Null => i = storage.identity
           /\ storage.identity = Null => i \in Unused
    BY NullAssumption DEF RestType, Identities, Unused

(* No tab asks for anything under the lock.                                 *)
Idle(t) ==
    /\ \A u \in Tabs \ {t} : tab[u].job.kind = "none"
    /\ tab[t].job.kind = "none" \/ tab[t].job.step \in {"reported", "answered"}

LEMMA IdleFacts ==
    ASSUME Orderly, NEW t \in Tabs, Idle(t)
    PROVE  \A r \in wire : r.live => r.kind = "choice"
<1> SUFFICES ASSUME NEW r \in wire, r.live, r.kind # "choice" PROVE FALSE
    OBVIOUS
<1>1. r.tab \in Tabs /\ r.kind \in {"batch", "delete"}
    BY DEF Orderly, TypeOK, Requests, ChoiceRequests, BatchRequests, DeleteRequests
<1>2. tab[r.tab].job.kind \in {"flush", "delete"} /\ tab[r.tab].job.step = "sent"
    BY <1>1 DEF Orderly, Awaited
<1> QED
    BY <1>1, <1>2 DEF Idle

LEMMA LockFreeIdle ==
    ASSUME NEW t \in Tabs, LockFree(t)
    PROVE  Idle(t) /\ tab[t].job = NoJob
<1>1. NoJob.kind = "none"
    BY DEF NoJob
<1> QED
    BY <1>1 DEF LockFree, Idle

(* The step of a tab that no request under the lock waits for.              *)
LEMMA IdleOrderly ==
    ASSUME Orderly, NEW t \in Tabs, Idle(t), NEW c, ClientType(c), Waits(c), Same(tab[t], c),
           NEW d, ClientType(d), Waits(d), d.writes = c.writes, Update(t, d), UNCHANGED wire,
           RestType'
    PROVE  Orderly'
<1>1. ClientType(tab[t]) /\ KeepsCalls(tab[t], c)
    BY SameKeeps, OrderlyTab
<1>2. \A r \in wire : r.live => r.kind = "choice"
    BY IdleFacts
<1>3. \A r \in wire' : r.live /\ r.tab = t => Awaited(r, d)
    BY <1>1, <1>2 DEF Orderly, Awaited, KeepsCalls
<1> QED
    BY <1>2, <1>3, UpdateOrderly DEF Orderly, TypeOK, Idle

LEMMA SendOrderly ==
    ASSUME Orderly, NEW t \in Tabs, Idle(t), NEW c, ClientType(c), Same(tab[t], c),
           \A n \in 1 .. Len(c.writes) : ~c.writes[n].flush, Send(t, c)
    PROVE  Orderly'
<1> DEFINE w == WithIdentity(c)
<1>1. TypeOK /\ RestType /\ ClientType(tab[t])
    BY OrderlyTab
<1>2. /\ ClientType(w) /\ Same(c, w) /\ w.writes = c.writes
    BY <1>1, WithIdentityFacts
<1>3. Same(tab[t], w) /\ \A n \in 1 .. Len(w.writes) : ~w.writes[n].flush
    BY <1>1, <1>2, SameTrans
<1>4. Waits(w)
    BY <1>3 DEF Waits
<1>5. PICK i \in Identities :
         LET d == [w EXCEPT !.identity = i] IN
         IF w.error
         THEN Update(t, JobDone(w)) /\ UNCHANGED <<storage, wire>>
         ELSE /\ storage' = [storage EXCEPT !.identity = i]
              /\ IF d.queue = {} THEN Update(t, JobDone(d)) /\ UNCHANGED wire
                 ELSE \E batch \in Batches(d.queue) :
                        /\ Update(t, [d EXCEPT !.job =
                             [NoJob EXCEPT !.kind = "flush", !.step = "sent", !.batch = batch]])
                        /\ wire' = wire \cup {[kind |-> "batch", tab |-> t, live |-> TRUE,
                             cookie |-> cookie, install |-> i, epoch |-> d.epoch,
                             events |-> batch]}
    BY DEF Send
<1> DEFINE d == [w EXCEPT !.identity = i]
<1>6. i \in Identifiers /\ i # Null
    BY <1>1, IdentitiesFacts
<1>7. UNCHANGED <<clock, cookie, server, tracked, lost, count>>
    BY DEF Send
<1> HIDE DEF w
<1>8. /\ DOMAIN d = ClientFields /\ d.identity = i
      /\ \A f \in ClientFields \ {"identity"} : d[f] = w[f]
    BY <1>2 DEF ClientType, ClientFields
<1>9. ClientType(d) /\ Waits(d) /\ d.writes = w.writes
    BY <1>2, <1>4, <1>6, <1>8 DEF ClientType, ClientFields, JobType, Waits
<1>10. CASE w.error
  <2>1. RestType'
      BY <1>1, <1>5, <1>7, <1>10 DEF RestType
  <2>2. /\ ClientType(JobDone(w)) /\ JobDone(w).writes = w.writes
      BY <1>2, JobDoneFacts DEF ClientFields
  <2>3. Waits(JobDone(w))
      BY <1>3, <2>2 DEF Waits
  <2> QED
      BY <1>2, <1>3, <1>4, <1>5, <1>10, <2>1, <2>2, <2>3, IdleOrderly
<1>11. ASSUME storage' = [storage EXCEPT !.identity = i] PROVE RestType'
    BY <1>1, <1>6, <1>7, <1>11 DEF RestType
<1> HIDE DEF d
<1>12. ASSUME ~w.error, storage' = [storage EXCEPT !.identity = i],
              Update(t, JobDone(d)), UNCHANGED wire
       PROVE  Orderly'
  <2>1. /\ ClientType(JobDone(d)) /\ JobDone(d).writes = w.writes
      BY <1>9, JobDoneFacts DEF ClientFields
  <2>2. Waits(JobDone(d))
      BY <1>3, <2>1 DEF Waits
  <2> QED
      BY <1>2, <1>3, <1>4, <1>11, <1>12, <2>1, <2>2, IdleOrderly
<1>13. ASSUME NEW batch \in Batches(d.queue), storage' = [storage EXCEPT !.identity = i],
              Update(t, [d EXCEPT !.job =
                   [NoJob EXCEPT !.kind = "flush", !.step = "sent", !.batch = batch]]),
              wire' = wire \cup {[kind |-> "batch", tab |-> t, live |-> TRUE,
                             cookie |-> cookie, install |-> i, epoch |-> d.epoch,
                             events |-> batch]}
       PROVE  Orderly'
  <2> DEFINE j == [NoJob EXCEPT !.kind = "flush", !.step = "sent", !.batch = batch]
             s == [d EXCEPT !.job = j]
             r == [kind |-> "batch", tab |-> t, live |-> TRUE,
                   cookie |-> cookie, install |-> i, epoch |-> d.epoch,
                   events |-> batch]
  <2>1. batch \in SUBSET EventSet /\ d.epoch \in Nat
      BY <1>9 DEF Batches, ClientType
  <2>2. /\ DOMAIN j = JobFields /\ j.kind = "flush" /\ j.step = "sent" /\ j.batch = batch
      BY DEF NoJob, JobFields
  <2> HIDE DEF j
  <2>3. /\ DOMAIN s = ClientFields /\ s.job = j
        /\ \A f \in ClientFields \ {"job"} : s[f] = d[f]
      BY <1>9 DEF ClientType, ClientFields
  <2> HIDE DEF s
  <2>4. ClientType(s) /\ s.writes = w.writes
      BY <1>6, <1>8, <1>9, <2>1, <2>2, <2>3 DEF ClientType, ClientFields, JobType
  <2>5. Waits(s)
      BY <1>3, <2>4 DEF Waits
  <2>6. r \in BatchRequests
      BY <1>1, <1>6, <2>1 DEF BatchRequests, RestType
  <2>7. wire' \subseteq Requests
      BY <1>13, <2>6 DEF Orderly, TypeOK, Requests
  <2>8. \A q \in wire : q.live => q.kind = "choice"
      BY IdleFacts
  <2>9. Awaited(r, s)
      BY <2>2, <2>3 DEF Awaited
  <2>10. \A q \in wire : q.live /\ q.tab = t => Awaited(q, s)
    <3>1. KeepsCalls(tab[t], w)
        BY <1>1, <1>2, <1>3, SameKeeps
    <3> QED
        BY <2>4, <2>8, <3>1 DEF Orderly, Awaited, KeepsCalls
  <2>11. \A q \in wire' : q.live /\ q.tab = t => Awaited(q, s)
      BY <1>13, <2>9, <2>10
  <2>12. \A q \in wire' : q.live /\ q.tab # t => q \in wire
      BY <1>13
  <2>13. \A q, u \in wire' : q.live /\ u.live /\ q.kind # "choice" /\ u.kind # "choice" => q = u
      BY <1>13, <2>8
  <2>14. Update(t, s)
      BY <1>13 DEF s, j
  <2> QED
      BY <1>11, <1>13, <2>4, <2>5, <2>7, <2>11, <2>12, <2>13, <2>14, UpdateOrderly DEF Idle
<1> QED
    BY <1>5, <1>10, <1>12, <1>13 DEF d

LEMMA FlushOrderly ==
    ASSUME Orderly, NEW t \in Tabs, Flush(t)
    PROVE  Orderly'
<1> DEFINE c == Refreshed(tab[t])
<1>1. /\ ClientType(c) /\ Waits(c) /\ Same(tab[t], c) /\ KeepsCalls(tab[t], c) /\ RestType
      /\ TypeOK
    BY OrderlyTab
<1>2. Idle(t) /\ c.job = NoJob
    BY <1>1, LockFreeIdle DEF Flush, Same
<1>3. \A n \in 1 .. Len(c.writes) : ~c.writes[n].flush
    BY <1>1, <1>2 DEF Waits, NoJob
<1>4. \/ Update(t, c) /\ UNCHANGED <<clock, cookie, storage, wire, server, tracked, lost, count>>
      \/ Send(t, c)
      \/ /\ Enabled(c)
         /\ Update(t, [Reported(c, [Write(c) EXCEPT !.flush = TRUE]) EXCEPT
                            !.job = [NoJob EXCEPT !.kind = "flush", !.step = "preferring"]])
         /\ UNCHANGED <<clock, cookie, storage, wire, server, tracked, lost, count>>
    BY DEF Flush
<1> HIDE DEF c
<1>5. CASE Update(t, c) /\ UNCHANGED <<clock, cookie, storage, wire, server, tracked, lost, count>>
    BY <1>1, <1>5, RestUnchanged, QuietUpdate
<1>6. CASE Send(t, c)
    BY <1>1, <1>2, <1>3, <1>6, SendOrderly
<1>7. CASE /\ Enabled(c)
           /\ Update(t, [Reported(c, [Write(c) EXCEPT !.flush = TRUE]) EXCEPT
                            !.job = [NoJob EXCEPT !.kind = "flush", !.step = "preferring"]])
           /\ UNCHANGED <<clock, cookie, storage, wire, server, tracked, lost, count>>
  <2> DEFINE w == [Write(c) EXCEPT !.flush = TRUE]
             p == Reported(c, w)
             j == [NoJob EXCEPT !.kind = "flush", !.step = "preferring"]
             d == [p EXCEPT !.job = j]
  <2>1. w \in WriteSet
      BY <1>1, <1>7, WriteFacts DEF Enabled
  <2> HIDE DEF w
  <2>2. /\ ClientType(p) /\ KeepsCalls(c, p) /\ p.writes = Append(c.writes, w)
      BY <1>1, <2>1, ReportedFacts
  <2> HIDE DEF p
  <2>3. /\ DOMAIN j = JobFields /\ j.kind = "flush" /\ j.step = "preferring" /\ j.batch = {}
      BY DEF NoJob, JobFields
  <2> HIDE DEF j
  <2>4. /\ DOMAIN d = ClientFields /\ d.job = j
        /\ \A f \in ClientFields \ {"job"} : d[f] = p[f]
      BY <2>2 DEF ClientType, ClientFields
  <2> HIDE DEF d
  <2>5. ClientType(d) /\ d.writes = p.writes
      BY <2>2, <2>3, <2>4 DEF ClientType, ClientFields, JobType
  <2>6. /\ Len(p.writes) = Len(c.writes) + 1 /\ Len(c.writes) \in Nat
        /\ \A n \in 1 .. Len(c.writes) : p.writes[n] = c.writes[n]
      BY <1>1, <2>1, <2>2, AppendProperties DEF ClientType
  <2>7. \A n \in 1 .. Len(d.writes) : d.writes[n].flush => n = Len(c.writes) + 1
      BY <1>3, <2>5, <2>6
  <2>8. Waits(d)
      BY <2>3, <2>4, <2>7 DEF Waits
  <2>9. \A r \in wire : r.live => r.kind = "choice"
      BY <1>2, IdleFacts
  <2>10. \A r \in wire' : r.live /\ r.tab = t => Awaited(r, d)
    <3>1. KeepsCalls(tab[t], p)
        BY <1>1, <2>2, KeepsTrans
    <3> QED
        BY <1>7, <2>5, <2>9, <3>1 DEF Orderly, Awaited, KeepsCalls
  <2>11. Update(t, d)
      BY <1>7 DEF d, p, w, j
  <2>12. RestType'
      BY <1>1, <1>7, RestUnchanged
  <2> QED
      BY <1>2, <1>7, <2>5, <2>8, <2>9, <2>10, <2>11, <2>12, UpdateOrderly
      DEF Idle, Orderly, TypeOK
<1> QED
    BY <1>4, <1>5, <1>6, <1>7

LEMMA FlushReportedOrderly ==
    ASSUME Orderly, NEW t \in Tabs, FlushReported(t)
    PROVE  Orderly'
<1>1. tab[t].job.kind = "flush" /\ tab[t].job.step = "reported" /\ Send(t, tab[t])
    BY DEF FlushReported
<1>2. ClientType(tab[t]) /\ Waits(tab[t])
    BY OrderlyTab
<1>3. Idle(t)
    BY <1>1 DEF Orderly, Locked, Idle
<1>4. \A n \in 1 .. Len(tab[t].writes) : ~tab[t].writes[n].flush
    BY <1>1, <1>2 DEF Waits
<1> QED
    BY <1>1, <1>2, <1>3, <1>4, SameRefl, SendOrderly

(* Of up to three boundaries one is the newest.                             *)
HasNewest(S) == \E d \in S : \A f \in S : ~Newer(f, d)

LEMMA NewestExists ==
    ASSUME NEW x \in Deletions \cup {Null}, NEW y \in Deletions \cup {Null}, NEW z \in Deletions
    PROVE  HasNewest({x, y, z} \ {Null})
<1> DEFINE Max2(p, q) == IF p = Null THEN q ELSE IF Newer(p, q) THEN p ELSE q
<1>1. \A p, q \in Deletions : ~Newer(p, p) /\ (Newer(p, q) => ~Newer(q, p))
    BY DEF Newer, Deletions
<1>2. \A p, q, r \in Deletions : ~Newer(p, q) /\ ~Newer(q, r) => ~Newer(p, r)
    BY DEF Newer, Deletions
<1>3. ASSUME NEW p, p = Null \/ p \in Deletions, NEW q \in Deletions
      PROVE  /\ Max2(p, q) \in {p, q} /\ Max2(p, q) \in Deletions
             /\ ~Newer(q, Max2(p, q)) /\ (p # Null => ~Newer(p, Max2(p, q)))
    BY <1>1, <1>3
<1> HIDE DEF Max2
<1>4. z \in Deletions /\ z # Null /\ (x = Null \/ x \in Deletions) /\ (y = Null \/ y \in Deletions)
    BY NullAssumption
<1> DEFINE m == Max2(y, z)
           n == Max2(x, m)
<1>5. m \in {y, z} /\ m \in Deletions /\ ~Newer(z, m) /\ (y # Null => ~Newer(y, m))
    BY <1>3, <1>4
<1>6. n \in {x, m} /\ n \in Deletions /\ ~Newer(m, n) /\ (x # Null => ~Newer(x, n))
    BY <1>3, <1>4, <1>5
<1>7. n \in {x, y, z} \ {Null}
    BY <1>5, <1>6, NullAssumption
<1>8. ~Newer(z, n) /\ (y # Null => ~Newer(y, n)) /\ (x # Null => ~Newer(x, n))
    BY <1>2, <1>4, <1>5, <1>6
<1> HIDE DEF n
<1> QED
    BY <1>7, <1>8 DEF HasNewest

(* The newest of what is known and what is new.                             *)
LEMMA EffectiveFacts ==
    ASSUME TypeOK, NEW c, ClientType(c), NEW next \in Deletions
    PROVE  /\ Known(c) \subseteq Deletions
           /\ Effective(c, next) \in Deletions /\ Effective(c, next) \in Known(c) \cup {next}
           /\ \A f \in Known(c) \cup {next} : ~Newer(f, Effective(c, next))
<1>1. Known(c) \subseteq Deletions
    BY DEF Known, ClientType, TypeOK, RestType
<1>2. Known(c) \cup {next} = {c.deletion, storage.deletion, next} \ {Null}
    BY NullAssumption DEF Known
<1>3. c.deletion \in Deletions \cup {Null} /\ storage.deletion \in Deletions \cup {Null}
    BY DEF ClientType, TypeOK, RestType
<1>4. HasNewest({c.deletion, storage.deletion, next} \ {Null})
    BY <1>3, NewestExists
<1>5. HasNewest(Known(c) \cup {next})
    BY <1>2, <1>4
<1>6. /\ Effective(c, next) \in Known(c) \cup {next}
      /\ \A f \in Known(c) \cup {next} : ~Newer(f, Effective(c, next))
    BY <1>5, Zenon DEF Effective, HasNewest
<1>7. Effective(c, next) \in Deletions
    BY <1>1, <1>6
<1> QED
    BY <1>1, <1>6, <1>7

(* A deletion state that was answered for a job is one to be stored.        *)
LEMMA AppliedOrderly ==
    ASSUME Orderly, NEW t \in Tabs, Idle(t), NEW c, ClientType(c), Waits(c), c.writes = tab[t].writes,
           \A n \in 1 .. Len(c.writes) : ~c.writes[n].flush,
           NEW next \in Deletions, Applied(t, c, next),
           UNCHANGED <<clock, cookie, wire, server, tracked, count>>
    PROVE  Orderly'
<1>1. RestType /\ TypeOK
    BY OrderlyTab
<1> DEFINE e == Effective(c, next)
           a == Advanced(c, e)
<1>3. CASE \E d \in Known(c) : d.install # next.install
  <2>1. Update(t, JobDone(Failed(c))) /\ UNCHANGED storage
      BY <1>3 DEF Applied
  <2>2. ClientType(Failed(c)) /\ Failed(c).writes = c.writes
      BY FailedFacts DEF ClientFields
  <2>3. ClientType(JobDone(Failed(c))) /\ JobDone(Failed(c)).writes = c.writes
      BY <2>2, JobDoneFacts DEF ClientFields
  <2>4. Waits(JobDone(Failed(c)))
      BY <2>3 DEF Waits
  <2>5. RestType'
      BY <1>1, <2>1, RestUnchanged
  <2> QED
      BY <2>1, <2>3, <2>4, <2>5, IdleOrderly, SameRefl, OrderlyTab
<1>4. CASE \A d \in Known(c) : d.install = next.install
  <2>1. Update(t, JobDone(a)) /\ storage' = [storage EXCEPT !.deletion = e]
      BY <1>4 DEF Applied
  <2>3. e \in Deletions
      BY <1>1, EffectiveFacts
  <2> HIDE DEF e
  <2>4. ClientType(a) /\ a.writes = c.writes
      BY <2>3, AdvancedFacts DEF ClientFields
  <2> HIDE DEF a
  <2>5. ClientType(JobDone(a)) /\ JobDone(a).writes = c.writes
      BY <2>4, JobDoneFacts DEF ClientFields
  <2>6. Waits(JobDone(a))
      BY <2>5 DEF Waits
  <2>7. RestType'
      BY <1>1, <2>1, <2>3 DEF RestType
  <2>8. Orderly'
      BY <2>1, <2>5, <2>6, <2>7, IdleOrderly, SameRefl, OrderlyTab
  <2> QED
      BY <2>8
<1> QED
    BY <1>3, <1>4

(* The job that has been answered is the only one.                          *)
LEMMA AnsweredFacts ==
    ASSUME Orderly, NEW t \in Tabs, tab[t].job.kind # "none",
           tab[t].job.step \in {"answered", "opened", "refused"}
    PROVE  /\ \A u \in Tabs \ {t} : tab[u].job.kind = "none"
           /\ \A n \in 1 .. Len(tab[t].writes) : ~tab[t].writes[n].flush
           /\ tab[t].job.step = "answered" => Idle(t)
    BY OrderlyTab DEF Orderly, Locked, Idle, Waits

LEMMA WithoutSentFacts ==
    ASSUME NEW c, ClientType(c)
    PROVE  /\ ClientType(WithoutSent(c)) /\ Same(c, WithoutSent(c))
           /\ WithoutSent(c).queue = c.queue \ c.job.batch
           /\ \A f \in ClientFields \ {"queue"} : WithoutSent(c)[f] = c[f]
<1>1. /\ DOMAIN WithoutSent(c) = ClientFields
      /\ WithoutSent(c).queue = c.queue \ c.job.batch
      /\ \A f \in ClientFields \ {"queue"} : WithoutSent(c)[f] = c[f]
    BY DEF WithoutSent, ClientType, ClientFields
<1>2. ClientType(WithoutSent(c))
    BY <1>1 DEF ClientType, JobType, ClientFields
<1> QED
    BY <1>1, <1>2 DEF Same, ClientFields

(* A job that ends without anything else being stored.                      *)
LEMMA JobDoneOrderly ==
    ASSUME Orderly, NEW t \in Tabs, Idle(t), NEW c, ClientType(c), c.writes = tab[t].writes,
           \A n \in 1 .. Len(c.writes) : ~c.writes[n].flush,
           Update(t, JobDone(c)), UNCHANGED <<clock, cookie, storage, wire, server, tracked, count>>
    PROVE  Orderly'
<1>1. ClientType(JobDone(c)) /\ JobDone(c).writes = tab[t].writes
    BY JobDoneFacts DEF ClientFields
<1>2. Waits(JobDone(c))
    BY <1>1 DEF Waits
<1>3. RestType'
    BY OrderlyTab, RestUnchanged
<1> QED
    BY <1>1, <1>2, <1>3, IdleOrderly, SameRefl, OrderlyTab

(* What a flush does with its answer, with what it takes to be the newest   *)
(* boundary if that is another one.                                         *)
NewBoundary(c) == [install |-> c.identity, epoch |-> c.job.answer.epoch,
                   before |-> c.job.answer.before]

LEMMA FlushAnsweredFacts ==
    ASSUME Orderly, NEW t \in Tabs, FlushAnswered(t)
    PROVE  LET c == tab[t]
               a == c.job.answer
               r == [c EXCEPT !.trusted = IF a.status = "failed" THEN @ ELSE Null,
                              !.ready = @ /\ a.status # "expired"]
           IN
           /\ Idle(t) /\ \A n \in 1 .. Len(c.writes) : ~c.writes[n].flush
           /\ ClientType(r) /\ \A f \in ClientFields \ {"trusted", "ready"} : r[f] = c[f]
           /\ r.trusted \in {c.trusted, Null}
           /\ UNCHANGED <<clock, cookie, wire, server, tracked, count, lost>>
           /\ \/ Update(t, JobDone(r)) /\ UNCHANGED storage /\ a.status # "ok"
              \/ Update(t, JobDone(c)) /\ UNCHANGED storage /\ a.status = "ok"
              \/ /\ Update(t, JobDone(WithoutSent(c))) /\ UNCHANGED storage
                 /\ a.status = "ok" /\ ValidAcknowledgement(c, a)
              \/ /\ Applied(t, WithoutSent(c), NewBoundary(c)) /\ NewBoundary(c) \in Deletions
                 /\ a.status = "ok" /\ ValidAcknowledgement(c, a) /\ a.epoch > c.epoch
<1> DEFINE c == tab[t]
           a == c.job.answer
           r == [c EXCEPT !.trusted = IF a.status = "failed" THEN @ ELSE Null,
                          !.ready = @ /\ a.status # "expired"]
<1>1. ClientType(c) /\ c.job.kind = "flush" /\ c.job.step = "answered"
    BY OrderlyTab DEF FlushAnswered
<1>2. Idle(t) /\ \A n \in 1 .. Len(c.writes) : ~c.writes[n].flush
    BY <1>1, AnsweredFacts
<1>3. /\ DOMAIN r = ClientFields /\ r.trusted \in {c.trusted, Null}
      /\ \A f \in ClientFields \ {"trusted", "ready"} : r[f] = c[f]
    BY <1>1 DEF ClientType, ClientFields
<1>4. ClientType(r)
    BY <1>1, <1>3 DEF ClientType, JobType, ClientFields
<1>5. a.status = "ok" /\ ValidAcknowledgement(c, a) => NewBoundary(c) \in Deletions
    BY <1>1 DEF ClientType, JobType, ValidAcknowledgement, NewBoundary, Deletions
<1>6. /\ UNCHANGED <<clock, cookie, wire, server, tracked, count, lost>>
      /\ \/ Update(t, JobDone(r)) /\ UNCHANGED storage /\ a.status # "ok"
         \/ Update(t, JobDone(c)) /\ UNCHANGED storage /\ a.status = "ok"
         \/ /\ Update(t, JobDone(WithoutSent(c))) /\ UNCHANGED storage
            /\ a.status = "ok" /\ ValidAcknowledgement(c, a)
         \/ /\ Applied(t, WithoutSent(c), NewBoundary(c))
            /\ a.status = "ok" /\ ValidAcknowledgement(c, a) /\ a.epoch > c.epoch
    BY DEF FlushAnswered, NewBoundary
<1> HIDE DEF r
<1> QED
    BY <1>2, <1>3, <1>4, <1>5, <1>6 DEF r

LEMMA FlushAnsweredOrderly ==
    ASSUME Orderly, NEW t \in Tabs, FlushAnswered(t)
    PROVE  Orderly'
<1> DEFINE c == tab[t]
           a == c.job.answer
           r == [c EXCEPT !.trusted = IF a.status = "failed" THEN @ ELSE Null,
                          !.ready = @ /\ a.status # "expired"]
<1>1. /\ Idle(t) /\ \A n \in 1 .. Len(c.writes) : ~c.writes[n].flush
      /\ ClientType(r) /\ \A f \in ClientFields \ {"trusted", "ready"} : r[f] = c[f]
      /\ UNCHANGED <<clock, cookie, wire, server, tracked, count, lost>>
      /\ \/ Update(t, JobDone(r)) /\ UNCHANGED storage
         \/ Update(t, JobDone(c)) /\ UNCHANGED storage
         \/ Update(t, JobDone(WithoutSent(c))) /\ UNCHANGED storage
         \/ Applied(t, WithoutSent(c), NewBoundary(c)) /\ NewBoundary(c) \in Deletions
    BY FlushAnsweredFacts
<1> HIDE DEF r
<1>2. r.writes = c.writes
    BY <1>1 DEF ClientFields
<1>3. ClientType(c) /\ Waits(c)
    BY OrderlyTab
<1>4. ClientType(WithoutSent(c)) /\ WithoutSent(c).writes = c.writes
    BY <1>3, WithoutSentFacts DEF ClientFields
<1>5. Waits(WithoutSent(c))
    BY <1>1, <1>4 DEF Waits
<1>6. CASE Update(t, JobDone(r)) /\ UNCHANGED storage
    BY <1>1, <1>2, <1>6, JobDoneOrderly
<1>7. CASE Update(t, JobDone(c)) /\ UNCHANGED storage
    BY <1>1, <1>3, <1>7, JobDoneOrderly
<1>8. CASE Update(t, JobDone(WithoutSent(c))) /\ UNCHANGED storage
    BY <1>1, <1>4, <1>8, JobDoneOrderly
<1>9. CASE Applied(t, WithoutSent(c), NewBoundary(c)) /\ NewBoundary(c) \in Deletions
    BY <1>1, <1>4, <1>5, <1>9, AppliedOrderly
<1> QED
    BY <1>1, <1>6, <1>7, <1>8, <1>9

LEMMA DeleteOrderly ==
    ASSUME Orderly, NEW t \in Tabs, Delete(t)
    PROVE  Orderly'
<1> DEFINE c == WithIdentity(tab[t])
           j == [NoJob EXCEPT !.kind = "delete", !.step = Entry(c)]
<1>1. TypeOK /\ RestType /\ ClientType(tab[t]) /\ Waits(tab[t])
    BY OrderlyTab
<1>2. Idle(t) /\ tab[t].job = NoJob
    BY LockFreeIdle DEF Delete
<1>3. ClientType(c) /\ Same(tab[t], c) /\ c.writes = tab[t].writes /\ c.job = NoJob
    BY <1>1, <1>2, WithIdentityFacts DEF Same
<1>4. PICK i \in (IF c.identity = Null THEN Identities ELSE {c.identity}) :
         /\ storage' = IF c.identity = Null THEN [storage EXCEPT !.identity = i] ELSE storage
         /\ Update(t, [c EXCEPT !.identity = i, !.job = j])
    BY DEF Delete
<1>5. /\ UNCHANGED <<clock, cookie, wire, server, tracked, lost>>
      /\ count' = [count EXCEPT !.deletions = @ + 1]
    BY DEF Delete
<1> HIDE DEF c
<1>6. i \in Identifiers /\ i # Null
    BY <1>1, <1>3, <1>4, IdentitiesFacts, NullAssumption DEF ClientType
<1>7. RestType'
    BY <1>1, <1>4, <1>5, <1>6 DEF RestType
<1>8. /\ DOMAIN j = JobFields /\ j.kind = "delete" /\ j.step \in {"opened", "session"}
      /\ j.batch = {}
    BY DEF NoJob, JobFields, Entry
<1> HIDE DEF j
<1> DEFINE d == [c EXCEPT !.identity = i, !.job = j]
<1>9. /\ DOMAIN d = ClientFields /\ d.identity = i /\ d.job = j
      /\ \A f \in ClientFields \ {"identity", "job"} : d[f] = c[f]
    BY <1>3 DEF ClientType, ClientFields
<1> HIDE DEF d
<1>10. ClientType(d) /\ d.writes = c.writes
    BY <1>3, <1>6, <1>8, <1>9 DEF ClientType, JobType, ClientFields
<1>11. \A n \in 1 .. Len(c.writes) : ~c.writes[n].flush
    BY <1>1, <1>2, <1>3 DEF Waits, NoJob
<1>12. Waits(d) /\ Waits(c)
    BY <1>10, <1>11 DEF Waits
<1>13. Update(t, d)
    BY <1>4 DEF d
<1> QED
    BY <1>2, <1>3, <1>5, <1>7, <1>10, <1>12, <1>13, IdleOrderly

LEMMA SessionForDeleteOrderly ==
    ASSUME Orderly, NEW t \in Tabs, SessionForDelete(t)
    PROVE  Orderly'
<1> DEFINE c == tab[t]
           d == [c EXCEPT !.job.step = "sent"]
           r == [kind |-> "delete", tab |-> t, live |-> TRUE, cookie |-> cookie,
                 install |-> c.identity]
<1>1. TypeOK /\ RestType /\ ClientType(c) /\ Waits(c)
    BY OrderlyTab
<1>2. c.job.kind = "delete" /\ c.job.step \in {"opened", "refused"}
    BY DEF SessionForDelete
<1>3. /\ \A u \in Tabs \ {t} : tab[u].job.kind = "none"
      /\ \A n \in 1 .. Len(c.writes) : ~c.writes[n].flush
    BY <1>2, AnsweredFacts
<1>4. \A q \in wire : q.live => q.kind = "choice"
  <2> SUFFICES ASSUME NEW q \in wire, q.live, q.kind # "choice" PROVE FALSE
      OBVIOUS
  <2>1. q.tab \in Tabs /\ q.kind \in {"batch", "delete"}
      BY <1>1 DEF TypeOK, Requests, ChoiceRequests, BatchRequests, DeleteRequests
  <2>2. tab[q.tab].job.kind \in {"flush", "delete"} /\ tab[q.tab].job.step = "sent"
      BY <2>1 DEF Orderly, Awaited
  <2> QED
      BY <1>2, <1>3, <2>1, <2>2
<1>a. RestType'
  <2>1. UNCHANGED <<clock, cookie, storage, server, tracked, count>>
      BY DEF SessionForDelete
  <2> QED
      BY <1>1, <2>1, RestUnchanged
<1>5. ASSUME Update(t, JobDone(c)), UNCHANGED wire
      PROVE  Orderly'
  <2>2. ClientType(JobDone(c)) /\ JobDone(c).writes = c.writes /\ JobDone(c).job = NoJob
      BY <1>1, JobDoneFacts DEF ClientFields
  <2>3. Waits(JobDone(c))
      BY <1>3, <2>2 DEF Waits
  <2>4. \A q \in wire' : q.live /\ q.tab = t => Awaited(q, JobDone(c))
      BY <1>4, <1>5, <2>2 DEF Orderly, Awaited
  <2> QED
      BY <1>4, <1>5, <1>a, <2>2, <2>3, <2>4, UpdateOrderly DEF Orderly, TypeOK, NoJob
<1>6. ASSUME Update(t, d), wire' = wire \cup {r}
      PROVE  Orderly'
  <2>3. /\ DOMAIN d = ClientFields /\ d.job = [c.job EXCEPT !.step = "sent"]
        /\ \A f \in ClientFields \ {"job"} : d[f] = c[f]
      BY <1>1 DEF ClientType, ClientFields
  <2> HIDE DEF d
  <2>a. c.job.kind \in {"none", "flush", "delete"} /\ DOMAIN c.job = JobFields
      BY <1>1 DEF ClientType, JobType
  <2>b. d.job.kind = "delete" /\ d.job.step = "sent" /\ d.job.batch = c.job.batch
        /\ DOMAIN d.job = JobFields
      BY <1>2, <2>3, <2>a DEF JobFields
  <2>4. ClientType(d) /\ d.writes = c.writes
      BY <1>1, <1>2, <2>3, <2>b DEF ClientType, JobType, ClientFields
  <2>5. Waits(d)
      BY <1>3, <2>4 DEF Waits
  <2>6. c.identity \in Identifiers
      BY <1>1, <1>2 DEF ClientType, JobType
  <2>7. r \in DeleteRequests
      BY <1>1, <2>6 DEF DeleteRequests, RestType
  <2>8. wire' \subseteq Requests
      BY <1>1, <1>6, <2>7 DEF TypeOK, Requests
  <2>9. Awaited(r, d)
      BY <2>b DEF Awaited
  <2>10. \A q \in wire' : q.live /\ q.tab = t => Awaited(q, d)
      BY <1>4, <1>6, <2>4, <2>9 DEF Orderly, Awaited
  <2>11. \A q \in wire' : q.live /\ q.tab # t => q \in wire
      BY <1>6
  <2>12. \A q, s \in wire' : q.live /\ s.live /\ q.kind # "choice" /\ s.kind # "choice" => q = s
      BY <1>4, <1>6
  <2> QED
      BY <1>3, <1>6, <1>a, <2>4, <2>5, <2>8, <2>10, <2>11, <2>12, UpdateOrderly
<1> QED
    BY <1>5, <1>6 DEF SessionForDelete

LEMMA DeleteAnsweredOrderly ==
    ASSUME Orderly, NEW t \in Tabs, DeleteAnswered(t)
    PROVE  Orderly'
<1> DEFINE c == tab[t]
           a == c.job.answer
           d == [c EXCEPT !.job.step = "session", !.job.again = TRUE, !.ready = FALSE]
<1>1. TypeOK /\ RestType /\ ClientType(c) /\ Waits(c)
    BY OrderlyTab
<1>2. c.job.kind = "delete" /\ c.job.step = "answered"
    BY DEF DeleteAnswered
<1>3. Idle(t) /\ \A n \in 1 .. Len(c.writes) : ~c.writes[n].flush
    BY <1>2, AnsweredFacts
<1>4. UNCHANGED <<clock, cookie, wire, server, tracked, lost, count>>
    BY DEF DeleteAnswered
<1>5. ASSUME Update(t, d), UNCHANGED storage PROVE Orderly'
  <2>1. /\ DOMAIN d = ClientFields /\ d.job = [c.job EXCEPT !.step = "session", !.again = TRUE]
        /\ \A f \in ClientFields \ {"job", "ready"} : d[f] = c[f]
      BY <1>1 DEF ClientType, ClientFields
  <2> HIDE DEF d
  <2>2. /\ d.job.kind = "delete" /\ d.job.step = "session" /\ d.job.batch = c.job.batch
        /\ DOMAIN d.job = JobFields
      BY <1>1, <1>2, <2>1 DEF ClientType, JobType, JobFields
  <2>3. ClientType(d) /\ d.writes = c.writes
      BY <1>1, <1>2, <2>1, <2>2 DEF ClientType, JobType, ClientFields
  <2>4. Waits(d)
      BY <1>3, <2>3 DEF Waits
  <2> QED
      BY <1>1, <1>3, <1>4, <1>5, <2>3, <2>4, RestUnchanged, IdleOrderly, SameRefl
<1>6. ASSUME Update(t, JobDone(c)), UNCHANGED storage PROVE Orderly'
    BY <1>1, <1>3, <1>4, <1>6, JobDoneOrderly
<1>7. ASSUME a.status = "ok", Applied(t, c, NewBoundary(c)) PROVE Orderly'
  <2>1. NewBoundary(c) \in Deletions
      BY <1>1, <1>2, <1>7 DEF ClientType, JobType, NewBoundary, Deletions
  <2> QED
      BY <1>1, <1>3, <1>4, <1>7, <2>1, AppliedOrderly
<1> QED
    BY <1>5, <1>6, <1>7 DEF DeleteAnswered, NewBoundary

(* A client that has just been constructed.                                 *)
LEMMA ConstructedFacts ==
    ASSUME RestType, NEW queue \in SUBSET EventSet, NEW epoch \in Nat
    PROVE  LET d == Constructed(queue, epoch)
               current == EpochOf(storage.deletion)
           IN
           /\ ClientType(d) /\ d.writes = <<>> /\ d.job = NoJob /\ d.trusted = Null
           /\ d.consent = storage.consent /\ d.identity = storage.identity
           /\ d.deletion = storage.deletion
           /\ d.error <=> queue # {} /\ epoch > current
           /\ ~d.error => d.epoch = current
           /\ d.queue = IF queue # {} /\ epoch = current /\ On(storage.consent) THEN queue ELSE {}
<1> DEFINE current == EpochOf(storage.deletion)
           stored == IF queue = {} THEN 0 ELSE epoch
           owner == [NewClient EXCEPT !.consent = storage.consent, !.identity = storage.identity,
                                      !.deletion = storage.deletion]
           kept == IF stored < current THEN {} ELSE queue
           c == [owner EXCEPT !.epoch = current, !.queue = kept]
           f == [owner EXCEPT !.error = TRUE]
<1>1. /\ storage.deletion \in Deletions \cup {Null} /\ storage.consent \in Decisions \cup {Null}
      /\ storage.identity \in Identifiers \cup {Null}
    BY DEF RestType
<1>2. current \in Nat
    BY <1>1 DEF EpochOf, Deletions
<1>3. /\ DOMAIN owner = ClientFields /\ owner.consent = storage.consent
      /\ owner.identity = storage.identity /\ owner.deletion = storage.deletion
      /\ owner.queue = {} /\ owner.epoch = 0 /\ owner.trusted = Null /\ owner.under = Null
      /\ owner.writes = <<>> /\ owner.job = NoJob /\ owner.error = FALSE
    BY DEF NewClient, ClientFields
<1>4. NoJob.kind = "none" /\ NoJob.step = "none" /\ NoJob.batch = {} /\ DOMAIN NoJob = JobFields
    BY DEF NoJob, JobFields
<1> HIDE DEF owner
<1>5. /\ DOMAIN c = ClientFields /\ c.epoch = current /\ c.queue = kept
      /\ \A g \in ClientFields \ {"epoch", "queue"} : c[g] = owner[g]
      /\ DOMAIN f = ClientFields /\ f.error = TRUE
      /\ \A g \in ClientFields \ {"error"} : f[g] = owner[g]
    BY <1>3 DEF ClientFields
<1>6. <<>> \in Seq(WriteSet)
    OBVIOUS
<1>7. kept \in SUBSET EventSet
    OBVIOUS
<1> HIDE DEF kept, c, f, current
<1>a. ASSUME NEW d, DOMAIN d = ClientFields, d.queue \in SUBSET EventSet, d.epoch \in Nat,
             d.error \in BOOLEAN,
             \A g \in ClientFields \ {"epoch", "queue", "error"} : d[g] = owner[g]
      PROVE  ClientType(d)
  <2>1. /\ d.consent = storage.consent /\ d.identity = storage.identity
        /\ d.deletion = storage.deletion /\ d.trusted = Null /\ d.under = Null
        /\ d.writes = <<>> /\ d.job = NoJob
      BY <1>3, <1>a DEF ClientFields
  <2>2. JobType(d)
      BY <1>4, <2>1 DEF JobType
  <2> QED
      BY <1>1, <1>6, <1>a, <2>1, <2>2 DEF ClientType
<1>b. ClientType(c)
  <2>1. c.error = FALSE
      BY <1>3, <1>5 DEF ClientFields
  <2>2. \A g \in ClientFields \ {"epoch", "queue", "error"} : c[g] = owner[g]
      BY <1>5
  <2> QED
      BY <1>2, <1>5, <1>7, <1>a, <2>1, <2>2
<1>d. ClientType(f)
  <2>0. f.queue = {} /\ f.epoch = 0 /\ f.error = TRUE
      BY <1>3, <1>5 DEF ClientFields
  <2>1. f.queue \in SUBSET EventSet /\ f.epoch \in Nat
      BY <2>0
  <2>e. f.error \in BOOLEAN
      BY <2>0, Zenon
  <2>2. \A g \in ClientFields \ {"epoch", "queue", "error"} : f[g] = owner[g]
      BY <1>5
  <2> QED
      BY <1>5, <1>a, <2>1, <2>e, <2>2
<1>8. ClientType(c) /\ ClientType(f)
    BY <1>b, <1>d
<1>9. Constructed(queue, epoch) = IF stored > current THEN f ELSE IF Enabled(c) THEN c ELSE Cleared(c)
    BY DEF Constructed, c, f, current, kept, owner
<1>10. /\ c.writes = <<>> /\ c.job = NoJob /\ c.trusted = Null /\ c.consent = storage.consent
       /\ c.identity = storage.identity /\ c.deletion = storage.deletion /\ c.error = FALSE
       /\ f.writes = <<>> /\ f.job = NoJob /\ f.trusted = Null /\ f.consent = storage.consent
       /\ f.identity = storage.identity /\ f.deletion = storage.deletion /\ f.queue = {}
    BY <1>3, <1>5 DEF ClientFields
<1>11. /\ ClientType(Cleared(c)) /\ Cleared(c).queue = {} /\ Cleared(c).epoch = current
       /\ \A g \in ClientFields \ {"queue", "epoch"} : Cleared(c)[g] = c[g]
  <2>1. /\ ClientType(Cleared(c)) /\ Cleared(c).queue = {}
        /\ Cleared(c).epoch = IF c.deletion = Null THEN c.epoch ELSE c.deletion.epoch
        /\ \A g \in ClientFields \ {"queue", "epoch"} : Cleared(c)[g] = c[g]
      BY <1>8, ClearedFacts
  <2> QED
      BY <1>5, <1>10, <2>1 DEF current, EpochOf
<1>12. /\ Cleared(c).writes = <<>> /\ Cleared(c).job = NoJob /\ Cleared(c).trusted = Null
       /\ Cleared(c).consent = storage.consent /\ Cleared(c).identity = storage.identity
       /\ Cleared(c).deletion = storage.deletion /\ Cleared(c).error = FALSE
    BY <1>10, <1>11 DEF ClientFields
<1>13. Enabled(c) <=> On(storage.consent)
    BY <1>10 DEF Enabled, On
<1>14. stored > current <=> queue # {} /\ epoch > current
    BY <1>2
<1>15. kept = {} \/ kept = queue
    BY DEF kept
<1>16. ~(stored > current) => (kept = IF queue # {} /\ epoch = current THEN queue ELSE {})
    BY <1>2 DEF kept
<1> HIDE DEF stored
<1> DEFINE e == Constructed(queue, epoch)
<1>17. e = IF stored > current THEN f ELSE IF Enabled(c) THEN c ELSE Cleared(c)
    BY <1>9
<1> HIDE DEF e
<1>18. CASE stored > current
  <2>1. e = f /\ queue # {} /\ epoch > current
      BY <1>14, <1>17, <1>18
  <2>2. ~(queue # {} /\ epoch = current)
      BY <1>2, <2>1
  <2> QED
      BY <1>5, <1>8, <1>10, <2>1, <2>2 DEF current, e
<1>19. CASE ~(stored > current) /\ Enabled(c)
    BY <1>5, <1>8, <1>10, <1>13, <1>14, <1>16, <1>17, <1>19 DEF current, e
<1>20. CASE ~(stored > current) /\ ~Enabled(c)
    BY <1>8, <1>11, <1>12, <1>13, <1>14, <1>17, <1>20 DEF current, e
<1> QED
    BY <1>18, <1>19, <1>20

(* A request of a tab that was opened again is nobody's.                    *)
LEMMA DeadFacts ==
    ASSUME NEW r \in Requests
    PROVE  /\ [r EXCEPT !.live = FALSE] \in Requests /\ ~[r EXCEPT !.live = FALSE].live
           /\ [r EXCEPT !.live = FALSE].kind = r.kind
           /\ r.kind = "batch" => /\ [r EXCEPT !.live = FALSE].install = r.install
                                  /\ [r EXCEPT !.live = FALSE].epoch = r.epoch
                                  /\ [r EXCEPT !.live = FALSE].events = r.events
           /\ r.kind = "delete" => [r EXCEPT !.live = FALSE].install = r.install
           /\ r.kind = "choice" => /\ [r EXCEPT !.live = FALSE].enabled = r.enabled
                                   /\ [r EXCEPT !.live = FALSE].at = r.at
<1>1. CASE r \in ChoiceRequests
    BY <1>1 DEF Requests, ChoiceRequests
<1>2. CASE r \in BatchRequests
    BY <1>2 DEF Requests, BatchRequests
<1>3. CASE r \in DeleteRequests
    BY <1>3 DEF Requests, DeleteRequests
<1> QED
    BY <1>1, <1>2, <1>3 DEF Requests

LEMMA ReloadOrderly ==
    ASSUME Orderly, NEW t \in Tabs, Reload(t)
    PROVE  Orderly'
<1> DEFINE d == Constructed(tab[t].queue, tab[t].epoch)
<1>1. RestType /\ ClientType(tab[t]) /\ wire \subseteq Requests
    BY OrderlyTab DEF TypeOK
<1>2. ClientType(d) /\ d.writes = <<>> /\ d.job = NoJob
    BY <1>1, ConstructedFacts DEF ClientType
<1>3. /\ Update(t, d)
      /\ wire' = {IF r.tab = t THEN [r EXCEPT !.live = FALSE] ELSE r : r \in wire}
      /\ count' = [count EXCEPT !.reloads = @ + 1]
      /\ UNCHANGED <<clock, cookie, storage, server, tracked>>
    BY DEF Reload, Abandoned
<1> HIDE DEF d
<1>4. RestType'
    BY <1>1, <1>3 DEF RestType
<1>5. Waits(d)
    BY <1>2 DEF Waits
<1>6. \A r \in wire' : r \in Requests /\ (r.live => r \in wire /\ r.tab # t)
    BY <1>1, <1>3, DeadFacts
<1>7. d.job.kind = "none"
    BY <1>2 DEF NoJob
<1>8. \A r, q \in wire' : r.live /\ q.live /\ r.kind # "choice" /\ q.kind # "choice" => r = q
    BY <1>6 DEF Orderly, Locked
<1> QED
    BY <1>2, <1>3, <1>4, <1>5, <1>6, <1>7, <1>8, UpdateOrderly

(* The client that has been told the answer it waits for.                   *)
Told(c, r, answer) ==
    IF r.kind = "choice" THEN [c EXCEPT !.writes[1].step = "answered", !.writes[1].answer = answer]
    ELSE [c EXCEPT !.job.step = "answered", !.job.answer = answer]

(* An answer as the request expects it.                                     *)
AnswerTo(r, answer) ==
    /\ r.kind = "choice" => answer \in WriteAnswers
    /\ answer.status = "ok" =>
          /\ answer.epoch \in Nat /\ answer.before \in Nat \cup {Null}
          /\ r.kind = "delete" => answer.before \in Nat

LEMMA ToldFacts ==
    ASSUME Orderly, NEW r \in wire, r.live, NEW answer, AnswerTo(r, answer)
    PROVE  LET c == tab[r.tab]
               d == Told(c, r, answer)
           IN
           /\ r.tab \in Tabs /\ ClientType(d) /\ Waits(d)
           /\ \A f \in ClientFields \ {"writes", "job"} : d[f] = c[f]
           /\ r.kind = "choice" =>
                /\ d.job = c.job /\ c.writes # <<>>
                /\ HeadIs(c, d, [c.writes[1] EXCEPT !.step = "answered", !.answer = answer])
           /\ r.kind # "choice" =>
                /\ d.writes = c.writes
                /\ d.job = [c.job EXCEPT !.step = "answered", !.answer = answer]
<1> DEFINE c == tab[r.tab]
           d == Told(c, r, answer)
<1>1. r.tab \in Tabs /\ r.kind \in {"choice", "batch", "delete"} /\ Awaited(r, c)
    BY DEF Orderly, TypeOK, Requests, ChoiceRequests, BatchRequests, DeleteRequests
<1>2. ClientType(c) /\ Waits(c)
    BY <1>1, OrderlyTab
<1>3. CASE r.kind = "choice"
  <2> DEFINE w == [c.writes[1] EXCEPT !.step = "answered", !.answer = answer]
  <2>1. c.writes # <<>> /\ c.writes[1] \in WriteSet
      BY <1>1, <1>2, <1>3, HeadFacts DEF Awaited
  <2>2. w \in WriteSet /\ w.flush = c.writes[1].flush
      BY <1>3, <2>1 DEF WriteSet, AnswerTo, Steps
  <2>3. d = [c EXCEPT !.writes[1] = w]
      BY <1>3 DEF Told
  <2> HIDE DEF w
  <2>4. LET e == [c EXCEPT !.writes[1] = w] IN
        /\ ClientType(e) /\ HeadIs(c, e, w)
        /\ \A f \in ClientFields \ {"writes"} : e[f] = c[f]
        /\ Waits(c) => Waits(e)
      BY <1>2, <2>1, <2>2, HeadChanged
  <2>5. /\ ClientType(d) /\ HeadIs(c, d, w) /\ Waits(d)
        /\ \A f \in ClientFields \ {"writes"} : d[f] = c[f]
      BY <1>2, <2>3, <2>4
  <2> HIDE DEF d
  <2> QED
      BY <1>1, <1>3, <2>1, <2>5 DEF w, d, ClientFields
<1>4. CASE r.kind # "choice"
  <2>1. c.job.kind \in {"flush", "delete"} /\ c.job.step = "sent"
        /\ (r.kind = "delete" <=> c.job.kind = "delete")
      BY <1>1, <1>4 DEF Awaited
  <2>2. /\ DOMAIN d = ClientFields
        /\ d.job = [c.job EXCEPT !.step = "answered", !.answer = answer]
        /\ \A f \in ClientFields \ {"job"} : d[f] = c[f]
      BY <1>2, <1>4 DEF Told, ClientType, ClientFields
  <2> HIDE DEF d
  <2>3. /\ DOMAIN d.job = JobFields /\ d.job.kind = c.job.kind /\ d.job.batch = c.job.batch
        /\ d.job.step = "answered" /\ d.job.answer = answer
      BY <1>2, <2>2 DEF ClientType, JobType, JobFields
  <2>4. d.writes = c.writes /\ d.identity = c.identity
      BY <2>2 DEF ClientFields
  <2>5. JobType(d)
      BY <1>2, <2>1, <2>3, <2>4 DEF ClientType, JobType, AnswerTo
  <2>6. ClientType(d)
      BY <1>2, <2>2, <2>5 DEF ClientType, ClientFields
  <2>7. Waits(d)
      BY <1>2, <2>1, <2>4 DEF Waits
  <2> QED
      BY <1>1, <1>4, <2>2, <2>4, <2>6, <2>7 DEF d
<1> QED
    BY <1>3, <1>4

LEMMA TellOrderly ==
    ASSUME Orderly, NEW r \in wire, NEW answer, AnswerTo(r, answer), Tell(r, answer),
           RestType', wire' \subseteq Requests, \A q \in wire' : q.live => q \in wire \ {r}
    PROVE  Orderly'
<1>1. CASE ~r.live
  <2>1. tab' = tab
      BY <1>1 DEF Tell
  <2> QED
      BY <2>1 DEF Orderly, TypeOK, Locked
<1>2. CASE r.live
  <2> DEFINE t == r.tab
             c == tab[t]
             d == Told(c, r, answer)
  <2>1. /\ t \in Tabs /\ ClientType(d) /\ Waits(d)
        /\ r.kind = "choice" => d.job = c.job
        /\ r.kind # "choice" =>
              /\ d.writes = c.writes
              /\ d.job = [c.job EXCEPT !.step = "answered", !.answer = answer]
      BY <1>2, ToldFacts
  <2>2. Update(t, d)
      BY <1>2 DEF Tell, Told
  <2> HIDE DEF d
  <2>3. Awaited(r, c) /\ ClientType(c)
      BY <1>2, <2>1 DEF Orderly, TypeOK
  <2>4. ASSUME NEW q \in wire', q.live, q.tab = t PROVE Awaited(q, d)
    <3>1. q \in wire /\ q # r /\ Awaited(q, c)
        BY <2>4 DEF Orderly
    <3>2. CASE r.kind = "choice"
      <4>1. q.kind # "choice"
        <5> SUFFICES ASSUME q.kind = "choice" PROVE FALSE
            OBVIOUS
        <5>1. q.at = r.at /\ q.enabled = r.enabled /\ q.cookie = r.cookie
            BY <2>3, <3>1, <3>2 DEF Awaited
        <5>2. q \in ChoiceRequests /\ r \in ChoiceRequests
            BY <3>1, <3>2 DEF Orderly, TypeOK, Requests, BatchRequests, DeleteRequests
        <5>3. q = r
            BY <1>2, <2>4, <3>2, <5>1, <5>2 DEF ChoiceRequests
        <5> QED
            BY <3>1, <5>3
      <4> QED
          BY <2>1, <3>1, <3>2, <4>1 DEF Awaited
    <3>3. CASE r.kind # "choice"
      <4>1. q.kind = "choice"
          BY <1>2, <2>4, <3>1, <3>3 DEF Orderly, Locked
      <4> QED
          BY <2>1, <3>1, <3>3, <4>1 DEF Awaited
    <3> QED
        BY <3>2, <3>3
  <2>5. d.job.kind = c.job.kind
    <3>1. CASE r.kind = "choice"
        BY <2>1, <3>1
    <3>2. CASE r.kind # "choice"
        BY <2>1, <2>3, <3>2 DEF ClientType, JobType, JobFields
    <3> QED
        BY <3>1, <3>2
  <2>6. d.job.kind # "none" => \A u \in Tabs \ {t} : tab[u].job.kind = "none"
      BY <2>1, <2>5 DEF Orderly, Locked
  <2>7. \A q, s \in wire' : q.live /\ s.live /\ q.kind # "choice" /\ s.kind # "choice" => q = s
      BY DEF Orderly, Locked
  <2> HIDE DEF c
  <2> QED
      BY <2>1, <2>2, <2>4, <2>6, <2>7, UpdateOrderly
<1> QED
    BY <1>1, <1>2

LEMMA TombFacts ==
    ASSUME RestType, NEW i \in Identifiers
    PROVE  /\ TombOf(i) \in Tombs
           /\ server.tomb[i] # Null => TombOf(i) = server.tomb[i]
<1>1. server.tomb[i] \in Tombs \cup {Null}
    BY DEF RestType
<1> QED
    BY <1>1 DEF TombOf, Tombs

(* What the server does with a request.                                     *)
LEMMA ServeFacts ==
    ASSUME Orderly, NEW r \in wire, Serve(r)
    PROVE  \E answer :
           /\ Tell(r, answer) /\ AnswerTo(r, answer)
           /\ wire' = wire \ {r} /\ UNCHANGED <<clock, cookie, storage, tracked, count>>
           /\ \/ UNCHANGED server /\ answer.status \in {"expired", "refused"}
              \/ /\ r.kind = "choice" /\ r.cookie \in server.alive
                 /\ answer.status = IF Decided(server.choice[r.cookie], r) THEN "applied"
                                    ELSE "not applied"
                 /\ server' = IF ~Decided(server.choice[r.cookie], r) THEN server
                              ELSE [server EXCEPT !.choice[r.cookie] =
                                      [enabled |-> r.enabled, at |-> r.at]]
              \/ /\ r.kind = "batch" /\ r.epoch <= TombOf(r.install).epoch
                 /\ LET tomb == TombOf(r.install)
                        wanted == {e \in r.events : tomb.before = 0 \/ e.at > tomb.before}
                    IN /\ server' = [server EXCEPT
                              !.tomb[r.install] = tomb,
                              !.stored = @ \cup {[id |-> e.id, at |-> e.at, install |-> r.install]
                                                    : e \in wanted}]
                       /\ answer = [status |-> "ok", epoch |-> tomb.epoch,
                                    before |-> IF tomb.before = 0 THEN Null ELSE tomb.before,
                                    discarded |-> Cardinality(r.events \ wanted)]
              \/ /\ r.kind = "delete"
                 /\ LET tomb == [epoch |-> TombOf(r.install).epoch + 1, before |-> clock] IN
                    /\ server' = [server EXCEPT !.tomb[r.install] = tomb,
                                                !.stored = {e \in @ : e.install # r.install}]
                    /\ answer = [status |-> "ok", epoch |-> tomb.epoch, before |-> clock]
<1>1. RestType /\ r \in Requests
    BY DEF Orderly, TypeOK
<1>2. wire' = wire \ {r} /\ UNCHANGED <<clock, cookie, storage, tracked, count>>
    BY DEF Serve
<1>3. CASE r.cookie \notin server.alive
  <2>1. UNCHANGED server /\ Tell(r, Answer("expired"))
      BY <1>3 DEF Serve
  <2>2. Answer("expired").status = "expired" /\ AnswerTo(r, Answer("expired"))
      BY DEF Answer, AnswerTo, WriteAnswers
  <2> QED
      BY <1>2, <2>1, <2>2
<1>4. CASE r.cookie \in server.alive /\ r.kind = "choice"
  <2> DEFINE applied == Decided(server.choice[r.cookie], r)
             answer == Answer(IF applied THEN "applied" ELSE "not applied")
  <2>1. /\ Tell(r, answer)
        /\ server' = IF ~applied THEN server
                     ELSE [server EXCEPT !.choice[r.cookie] = [enabled |-> r.enabled, at |-> r.at]]
      BY <1>4 DEF Serve, ServeChoice
  <2>2. AnswerTo(r, answer) /\ answer.status = IF applied THEN "applied" ELSE "not applied"
      BY DEF Answer, AnswerTo, WriteAnswers
  <2> HIDE DEF answer
  <2> QED
      BY <1>2, <1>4, <2>1, <2>2
<1>5. CASE r.cookie \in server.alive /\ r.kind = "batch"
  <2> DEFINE tomb == TombOf(r.install)
             wanted == {e \in r.events : tomb.before = 0 \/ e.at > tomb.before}
             answer == [status |-> "ok", epoch |-> tomb.epoch,
                        before |-> IF tomb.before = 0 THEN Null ELSE tomb.before,
                        discarded |-> Cardinality(r.events \ wanted)]
             stored == {[id |-> e.id, at |-> e.at, install |-> r.install] : e \in wanted}
  <2>1. r \in BatchRequests
      BY <1>1, <1>5 DEF Requests, ChoiceRequests, DeleteRequests
  <2>2. r.install \in Identifiers /\ r.epoch \in Nat
      BY <2>1 DEF BatchRequests
  <2>3. tomb \in Tombs
      BY <1>1, <2>2, TombFacts
  <2>4. \/ UNCHANGED server /\ Tell(r, Answer("refused"))
        \/ /\ ~(r.epoch > tomb.epoch)
           /\ server' = [server EXCEPT !.tomb[r.install] = tomb, !.stored = @ \cup stored]
           /\ Tell(r, answer)
      BY <1>5 DEF Serve, ServeBatch
  <2>5. Answer("refused").status = "refused" /\ AnswerTo(r, Answer("refused"))
      BY <1>5 DEF Answer, AnswerTo
  <2> HIDE DEF stored
  <2>6. answer.status = "ok" /\ AnswerTo(r, answer)
      BY <1>5, <2>3 DEF AnswerTo, Tombs
  <2>7. ~(r.epoch > tomb.epoch) => r.epoch <= tomb.epoch
      BY <2>2, <2>3 DEF Tombs
  <2>8. CASE UNCHANGED server /\ Tell(r, Answer("refused"))
      BY <1>2, <1>5, <2>5, <2>8
  <2>9. CASE /\ r.epoch <= tomb.epoch
             /\ server' = [server EXCEPT !.tomb[r.install] = tomb, !.stored = @ \cup stored]
             /\ Tell(r, answer)
    <3> HIDE DEF answer, wanted, tomb
    <3> WITNESS answer
    <3> QED
        BY <1>2, <1>5, <2>6, <2>9 DEF stored, answer, wanted, tomb
  <2> QED
      BY <2>4, <2>7, <2>8, <2>9
<1>6. CASE r.cookie \in server.alive /\ r.kind = "delete"
  <2> DEFINE tomb == [epoch |-> TombOf(r.install).epoch + 1, before |-> clock]
             answer == [status |-> "ok", epoch |-> tomb.epoch, before |-> clock]
  <2>1. r \in DeleteRequests
      BY <1>1, <1>6 DEF Requests, ChoiceRequests, BatchRequests
  <2>2. r.install \in Identifiers
      BY <2>1 DEF DeleteRequests
  <2>3. TombOf(r.install) \in Tombs /\ clock \in Nat
      BY <1>1, <2>2, TombFacts DEF RestType
  <2>4. /\ server' = [server EXCEPT !.tomb[r.install] = tomb,
                                    !.stored = {e \in @ : e.install # r.install}]
        /\ Tell(r, answer)
      BY <1>6 DEF Serve, ServeDelete
  <2>5. answer.status = "ok" /\ AnswerTo(r, answer)
      BY <1>6, <2>3 DEF AnswerTo, Tombs
  <2> WITNESS answer
  <2> QED
      BY <1>2, <1>6, <2>4, <2>5
<1>7. r.kind \in {"choice", "batch", "delete"}
    BY <1>1 DEF Requests, ChoiceRequests, BatchRequests, DeleteRequests
<1> QED
    BY <1>3, <1>4, <1>5, <1>6, <1>7

LEMMA ServeOrderly ==
    ASSUME Orderly, NEW r \in wire, Serve(r)
    PROVE  Orderly'
<1>1. RestType /\ TypeOK /\ r \in Requests
    BY DEF Orderly, TypeOK
<1>2. PICK answer :
           /\ Tell(r, answer) /\ AnswerTo(r, answer)
           /\ wire' = wire \ {r} /\ UNCHANGED <<clock, cookie, storage, tracked, count>>
           /\ \/ UNCHANGED server /\ answer.status \in {"expired", "refused"}
              \/ /\ r.kind = "choice" /\ r.cookie \in server.alive
                 /\ answer.status = IF Decided(server.choice[r.cookie], r) THEN "applied"
                                    ELSE "not applied"
                 /\ server' = IF ~Decided(server.choice[r.cookie], r) THEN server
                              ELSE [server EXCEPT !.choice[r.cookie] =
                                      [enabled |-> r.enabled, at |-> r.at]]
              \/ /\ r.kind = "batch" /\ r.epoch <= TombOf(r.install).epoch
                 /\ LET tomb == TombOf(r.install)
                        wanted == {e \in r.events : tomb.before = 0 \/ e.at > tomb.before}
                    IN /\ server' = [server EXCEPT
                              !.tomb[r.install] = tomb,
                              !.stored = @ \cup {[id |-> e.id, at |-> e.at, install |-> r.install]
                                                    : e \in wanted}]
                       /\ answer = [status |-> "ok", epoch |-> tomb.epoch,
                                    before |-> IF tomb.before = 0 THEN Null ELSE tomb.before,
                                    discarded |-> Cardinality(r.events \ wanted)]
              \/ /\ r.kind = "delete"
                 /\ LET tomb == [epoch |-> TombOf(r.install).epoch + 1, before |-> clock] IN
                    /\ server' = [server EXCEPT !.tomb[r.install] = tomb,
                                                !.stored = {e \in @ : e.install # r.install}]
                    /\ answer = [status |-> "ok", epoch |-> tomb.epoch, before |-> clock]
    BY ServeFacts, Zenon
<1>3. RestType'
  <2>1. SUFFICES server' \in [alive : SUBSET Cookies, over : SUBSET Cookies,
                              choice : [Cookies -> Decisions \cup {Null}],
                              tomb : [Identifiers -> Tombs \cup {Null}],
                              stored : SUBSET [id : Nat, at : Nat, install : Identifiers]]
      BY <1>1, <1>2 DEF RestType
  <2>2. CASE UNCHANGED server
      BY <1>1, <2>2 DEF RestType
  <2>3. CASE /\ r.kind = "choice" /\ r.cookie \in server.alive
             /\ server' = [server EXCEPT !.choice[r.cookie] = [enabled |-> r.enabled, at |-> r.at]]
    <3>1. [enabled |-> r.enabled, at |-> r.at] \in Decisions
        BY <1>1, <2>3 DEF Requests, ChoiceRequests, BatchRequests, DeleteRequests, Decisions
    <3> QED
        BY <1>1, <2>3, <3>1 DEF RestType
  <2>4. ASSUME r.kind = "batch", NEW W \in SUBSET r.events,
               server' = [server EXCEPT !.tomb[r.install] = TombOf(r.install),
                            !.stored = @ \cup {[id |-> e.id, at |-> e.at, install |-> r.install]
                                                  : e \in W}]
        PROVE  server' \in [alive : SUBSET Cookies, over : SUBSET Cookies,
                            choice : [Cookies -> Decisions \cup {Null}],
                            tomb : [Identifiers -> Tombs \cup {Null}],
                            stored : SUBSET [id : Nat, at : Nat, install : Identifiers]]
    <3>1. r.install \in Identifiers /\ r.events \in SUBSET EventSet
        BY <1>1, <2>4 DEF Requests, ChoiceRequests, BatchRequests, DeleteRequests
    <3>2. TombOf(r.install) \in Tombs
        BY <1>1, <3>1, TombFacts
    <3> DEFINE new == {[id |-> e.id, at |-> e.at, install |-> r.install] : e \in W}
    <3>3. new \in SUBSET [id : Nat, at : Nat, install : Identifiers]
        BY <3>1 DEF EventSet
    <3> HIDE DEF new
    <3>4. server' = [server EXCEPT !.tomb[r.install] = TombOf(r.install), !.stored = @ \cup new]
        BY <2>4 DEF new
    <3> QED
        BY <1>1, <3>1, <3>2, <3>3, <3>4 DEF RestType
  <2>5. CASE /\ r.kind = "delete"
             /\ LET tomb == [epoch |-> TombOf(r.install).epoch + 1, before |-> clock] IN
                server' = [server EXCEPT !.tomb[r.install] = tomb,
                                         !.stored = {e \in @ : e.install # r.install}]
    <3>1. r.install \in Identifiers
        BY <1>1, <2>5 DEF Requests, ChoiceRequests, BatchRequests, DeleteRequests
    <3>2. [epoch |-> TombOf(r.install).epoch + 1, before |-> clock] \in Tombs
        BY <1>1, <3>1, TombFacts DEF RestType, Tombs
    <3> QED
        BY <1>1, <2>5, <3>1, <3>2 DEF RestType
  <2>6. CASE r.kind = "batch" /\ ~UNCHANGED server
    <3> DEFINE W == {e \in r.events : TombOf(r.install).before = 0 \/ e.at > TombOf(r.install).before}
    <3>1. W \in SUBSET r.events
        OBVIOUS
    <3>2. server' = [server EXCEPT !.tomb[r.install] = TombOf(r.install),
                            !.stored = @ \cup {[id |-> e.id, at |-> e.at, install |-> r.install]
                                                  : e \in W}]
        BY <1>2, <2>6
    <3> HIDE DEF W
    <3> QED
        BY <2>4, <2>6, <3>1, <3>2
  <2> QED
      BY <1>2, <2>2, <2>3, <2>5, <2>6
<1>4. wire' \subseteq Requests /\ \A q \in wire' : q.live => q \in wire \ {r}
    BY <1>1, <1>2 DEF TypeOK
<1> QED
    BY <1>2, <1>3, <1>4, TellOrderly

LEMMA FailedAnswer ==
    ASSUME NEW r
    PROVE  AnswerTo(r, Answer("failed")) /\ Answer("failed").status = "failed"
    BY DEF Answer, AnswerTo, WriteAnswers

LEMMA LoseOrderly ==
    ASSUME Orderly, NEW r \in wire, Lose(r) \/ LoseAnswer(r)
    PROVE  Orderly'
<1>1. RestType /\ TypeOK /\ r \in Requests
    BY DEF Orderly, TypeOK
<1>2. /\ Tell(r, Answer("failed")) /\ Failing /\ UNCHANGED <<clock, cookie, storage, server, tracked>>
      /\ wire' \subseteq (wire \ {r}) \cup {[r EXCEPT !.live = FALSE]}
    BY DEF Lose, LoseAnswer
<1>3. RestType'
    BY <1>1, <1>2 DEF RestType, Failing
<1>4. wire' \subseteq Requests /\ \A q \in wire' : q.live => q \in wire \ {r}
    BY <1>1, <1>2, DeadFacts DEF TypeOK
<1> QED
    BY <1>2, <1>3, <1>4, TellOrderly, FailedAnswer

(* The end of a request for a session.                                      *)
LEMMA OpenFacts ==
    ASSUME Orderly, NEW r \in asked, Open(r) \/ LoseOpening(r)
    PROVE  /\ UNCHANGED <<clock, storage, wire, tracked, lost>>
           /\ \/ UNCHANGED server
              \/ \E s \in Cookies : server' = [server EXCEPT !.alive = @ \cup {s}]
           /\ \/ UNCHANGED tab
              \/ /\ r.tab \in Tabs
                 /\ \E opened \in BOOLEAN : Update(r.tab, Resolved(tab[r.tab], opened))
           /\ RestType'
<1>1. RestType /\ TypeOK /\ DOMAIN tab = Tabs /\ tab = [t \in Tabs |-> tab[t]]
    BY DEF Orderly, TypeOK
<1>2. r.tab \notin Tabs => \A c : Update(r.tab, c) => UNCHANGED tab
    BY <1>1 DEF Update
<1>3. /\ UNCHANGED <<clock, storage, wire, tracked, lost>>
      /\ UNCHANGED tab \/ \E opened \in BOOLEAN : Update(r.tab, Resolved(tab[r.tab], opened))
      /\ UNCHANGED count \/ Failing
    BY DEF Open, LoseOpening
<1>4. \/ UNCHANGED <<cookie, server>>
      \/ \E s \in Cookies : server' = [server EXCEPT !.alive = @ \cup {s}] /\ cookie' \in {cookie, s}
    BY DEF Open, LoseOpening, Given
<1>5. count' \in [decisions : Nat, deletions : Nat, reloads : Nat, renewals : Nat, losses : Nat]
    BY <1>1, <1>3 DEF Failing, RestType
<1>6. CASE UNCHANGED <<cookie, server>>
    BY <1>1, <1>2, <1>3, <1>5, <1>6 DEF RestType
<1>7. ASSUME NEW s \in Cookies, server' = [server EXCEPT !.alive = @ \cup {s}],
             cookie' \in {cookie, s}
      PROVE  RestType'
  <2>1. server' \in [alive : SUBSET Cookies, over : SUBSET Cookies,
                     choice : [Cookies -> Decisions \cup {Null}],
                     tomb : [Identifiers -> Tombs \cup {Null}],
                     stored : SUBSET [id : Nat, at : Nat, install : Identifiers]]
      BY <1>1, <1>7 DEF RestType
  <2> QED
      BY <1>1, <1>3, <1>5, <1>7, <2>1 DEF RestType
<1> QED
    BY <1>2, <1>3, <1>4, <1>6, <1>7

LEMMA OpenOrderly ==
    ASSUME Orderly, NEW r \in asked, Open(r) \/ LoseOpening(r)
    PROVE  Orderly'
<1>1. /\ UNCHANGED wire /\ RestType'
      /\ \/ UNCHANGED tab
         \/ /\ r.tab \in Tabs
            /\ \E opened \in BOOLEAN : Update(r.tab, Resolved(tab[r.tab], opened))
    BY OpenFacts
<1>2. CASE UNCHANGED tab
    BY <1>1, <1>2 DEF Orderly, TypeOK, Locked
<1>3. ASSUME NEW t \in Tabs, NEW opened \in BOOLEAN, Update(t, Resolved(tab[t], opened))
      PROVE  Orderly'
  <2> DEFINE c == tab[t]
             d == Resolved(c, opened)
  <2>1. ClientType(c) /\ Waits(c)
      BY OrderlyTab
  <2>2. /\ ClientType(d) /\ Waits(d) /\ Len(d.writes) = Len(c.writes) /\ Onward(c.job, d.job)
        /\ \A n \in 1 .. Len(c.writes) : Onward(c.writes[n], d.writes[n])
        /\ d.job.kind = c.job.kind
      BY <2>1, ResolvedFacts
  <2>3. Update(t, d)
      BY <1>3
  <2> HIDE DEF d
  <2>4. ASSUME NEW q \in wire, q.live, q.tab = t PROVE Awaited(q, d)
    <3>1. Awaited(q, c)
        BY <2>4 DEF Orderly
    <3>2. c.job.step = "sent" => d.job = c.job
        BY <2>2 DEF Onward
    <3>3. c.writes # <<>> /\ c.writes[1].step = "sent" => d.writes # <<>> /\ d.writes[1] = c.writes[1]
      <4>1. c.writes # <<>> => 1 \in 1 .. Len(c.writes) /\ Len(c.writes) # 0
          BY <2>1, HeadFacts
      <4>2. d.writes = <<>> => Len(d.writes) = 0
          OBVIOUS
      <4> QED
          BY <2>2, <4>1, <4>2 DEF Onward
    <3> QED
        BY <3>1, <3>2, <3>3 DEF Awaited
  <2>5. d.job.kind # "none" => \A u \in Tabs \ {t} : tab[u].job.kind = "none"
      BY <2>2 DEF Orderly, Locked
  <2> HIDE DEF c
  <2> QED
      BY <1>1, <2>2, <2>3, <2>4, <2>5, UpdateOrderly DEF Orderly, TypeOK, Locked
<1> QED
    BY <1>1, <1>2, <1>3

LEMMA QuietOrderly ==
    ASSUME Orderly, SessionExpires \/ ClockTicks \/ UNCHANGED client
    PROVE  Orderly'
<1>1. RestType /\ TypeOK
    BY DEF Orderly, TypeOK
<1>2. UNCHANGED <<tab, wire>>
    BY DEF SessionExpires, ClockTicks, client
<1>3. RestType'
  <2>1. CASE SessionExpires
    <3>1. PICK s \in server.alive :
             server' = [server EXCEPT !.alive = @ \ {s}, !.over = @ \cup {s}]
        BY <2>1 DEF SessionExpires
    <3>2. server' \in [alive : SUBSET Cookies, over : SUBSET Cookies,
                       choice : [Cookies -> Decisions \cup {Null}],
                       tomb : [Identifiers -> Tombs \cup {Null}],
                       stored : SUBSET [id : Nat, at : Nat, install : Identifiers]]
        BY <1>1, <3>1 DEF RestType
    <3>3. /\ count' = [count EXCEPT !.renewals = @ + 1]
          /\ UNCHANGED <<clock, cookie, storage, tracked>>
        BY <2>1 DEF SessionExpires
    <3> HIDE <2>1
    <3> QED
        BY <1>1, <3>2, <3>3 DEF RestType
  <2>2. CASE ClockTicks
      BY <1>1, <2>2 DEF RestType, ClockTicks
  <2>3. CASE UNCHANGED client
      BY <1>1, <2>3 DEF RestType, client
  <2> QED
      BY <2>1, <2>2, <2>3
<1> QED
    BY <1>2, <1>3 DEF Orderly, TypeOK, Locked

LEMMA InitOrderly ==
    ASSUME ClientInit
    PROVE  Orderly
<1>1. RestType
    BY FS_EmptySet DEF ClientInit, RestType, Decisions
<1>2. ClientType(NewClient)
  <2>1. <<>> \in Seq(WriteSet) /\ {} \in SUBSET EventSet
      OBVIOUS
  <2>2. JobType(NewClient)
      BY <2>1 DEF NewClient, JobType, NoJob, JobFields
  <2> QED
      BY <2>1, <2>2 DEF NewClient, ClientType, ClientFields
<1>3. Waits(NewClient) /\ NewClient.job.kind = "none"
  <2>1. Len(NewClient.writes) = 0 /\ NewClient.job = NoJob
      BY DEF NewClient
  <2> QED
      BY <2>1 DEF Waits, NoJob
<1>4. \A t \in Tabs : tab[t] = NewClient
    BY DEF ClientInit
<1>5. DOMAIN tab = Tabs /\ tab = [t \in Tabs |-> tab[t]] /\ wire = {}
    BY DEF ClientInit
<1> QED
    BY <1>1, <1>2, <1>3, <1>4, <1>5 DEF Orderly, TypeOK, Locked

LEMMA StepOrderly == Orderly /\ [ClientNext]_client => Orderly'
<1> SUFFICES ASSUME Orderly, [ClientNext]_client PROVE Orderly'
    OBVIOUS
<1>1. ASSUME NEW t \in Tabs, NEW enabled \in BOOLEAN, Choose(t, enabled) PROVE Orderly'
    BY <1>1, ChooseOrderly
<1>2. ASSUME NEW t \in Tabs,
             \/ ReportAgain(t) \/ Synchronize(t)
             \/ StartWrite(t) \/ SessionForWrite(t) \/ AnsweredWrite(t)
             \/ Track(t)
      PROVE  Orderly'
    BY <1>2, ReportAgainOrderly, SynchronizeOrderly, StartWriteOrderly, SessionForWriteOrderly,
       AnsweredWriteOrderly, TrackOrderly
<1>3. ASSUME NEW t \in Tabs,
             \/ Flush(t) \/ FlushReported(t) \/ FlushAnswered(t)
             \/ Delete(t) \/ SessionForDelete(t) \/ DeleteAnswered(t)
             \/ Reload(t)
      PROVE  Orderly'
    BY <1>3, FlushOrderly, FlushReportedOrderly, FlushAnsweredOrderly, DeleteOrderly,
       SessionForDeleteOrderly, DeleteAnsweredOrderly, ReloadOrderly
<1>4. ASSUME NEW r \in wire, Serve(r) \/ Lose(r) \/ LoseAnswer(r) PROVE Orderly'
    BY <1>4, ServeOrderly, LoseOrderly
<1>5. ASSUME SessionExpires \/ ClockTicks \/ UNCHANGED client PROVE Orderly'
    BY <1>5, QuietOrderly
<1>6. ASSUME NEW r \in asked, Open(r) \/ LoseOpening(r) PROVE Orderly'
    BY <1>6, OpenOrderly
<1> QED
    BY <1>1, <1>2, <1>3, <1>4, <1>5, <1>6 DEF ClientNext

LEMMA AlwaysOrderly == ClientSpec => []Orderly
<1>1. ClientInit => Orderly
    BY InitOrderly
<1> QED
    BY <1>1, StepOrderly, PTL DEF ClientSpec

---------------------------------------------------------------------------
(* One identity: whatever was sent or is kept bears the stored one, and a   *)
(* tab that has one has that.                                               *)
Named ==
    /\ \A e \in server.stored : e.install = storage.identity
    /\ \A r \in wire : r.kind # "choice" => r.install = storage.identity
    /\ \A t \in Tabs : tab[t].identity \in {Null, storage.identity}

(* A step that leaves the stored identity alone, or stores the first one.   *)
FirstIdentity(i) ==
    /\ i \in Identifiers
    /\ storage.identity # Null => i = storage.identity
    /\ storage'.identity = i

LEMMA FirstNamed ==
    ASSUME Orderly, Named, NEW i, FirstIdentity(i), storage.identity = Null
    PROVE  /\ server.stored = {}
           /\ \A r \in wire : r.kind = "choice"
           /\ \A t \in Tabs : tab[t].identity = Null
<1>1. RestType /\ wire \subseteq Requests
    BY DEF Orderly, TypeOK
<1>2. \A e \in server.stored : e.install \in Identifiers
    BY <1>1 DEF RestType
<1>3. \A r \in wire : r.kind # "choice" => r.install \in Identifiers
    BY <1>1 DEF Requests, ChoiceRequests, BatchRequests, DeleteRequests
<1> QED
    BY <1>2, <1>3, NullAssumption DEF Named

(* A step of one tab that may send something under its identity.            *)
LEMMA UpdateNamed ==
    ASSUME Orderly, Named, NEW t \in Tabs, NEW c, Update(t, c),
           \/ storage'.identity = storage.identity
           \/ \E i \in Identifiers : FirstIdentity(i),
           c.identity \in {Null, storage'.identity},
           server'.stored = server.stored,
           \A r \in wire' : r.kind # "choice" => \/ r.install = storage'.identity
                                                 \/ \E q \in wire : q.kind # "choice" /\ q.install = r.install
    PROVE  Named'
<1>1. tab'[t] = c /\ \A u \in Tabs \ {t} : tab'[u] = tab[u]
    BY DEF Update, Orderly, TypeOK
<1>2. CASE storage'.identity = storage.identity
    BY <1>1, <1>2 DEF Named
<1>3. CASE storage'.identity # storage.identity
  <2>1. PICK i \in Identifiers : FirstIdentity(i)
      BY <1>3
  <2>2. storage.identity = Null
      BY <1>3, <2>1 DEF FirstIdentity
  <2>3. /\ server.stored = {} /\ \A r \in wire : r.kind = "choice"
        /\ \A u \in Tabs : tab[u].identity = Null
      BY <2>1, <2>2, FirstNamed
  <2> QED
      BY <1>1, <2>3 DEF Named
<1> QED
    BY <1>2, <1>3

(* What a client is after reading the storage is still of that identity.    *)
LEMMA ReadNamed ==
    ASSUME TypeOK, NEW c, ClientType(c), c.identity \in {Null, storage.identity}
    PROVE  /\ WithConsent(c).identity = c.identity
           /\ WithIdentity(c).identity \in {Null, storage.identity}
           /\ Refreshed(c).identity \in {Null, storage.identity}
<1> DEFINE w == WithConsent(c)
           i == WithIdentity(w)
<1>1. ClientType(w) /\ w.identity = c.identity
    BY WithConsentFacts
<1>2. WithIdentity(c).identity \in {Null, storage.identity}
    BY WithIdentityFacts
<1>3. ClientType(i) /\ i.identity \in {w.identity, storage.identity}
    BY <1>1, WithIdentityFacts
<1>4. WithDeletion(i).identity = i.identity
    BY <1>3, WithDeletionFacts
<1> QED
    BY <1>1, <1>2, <1>3, <1>4 DEF Refreshed

---------------------------------------------------------------------------
LEMMA CoreFacts ==
    ASSUME NEW c, ClientType(c)
    PROVE  /\ SameCore(c, JobDone(c))
           /\ \A w \in WriteSet : SameCore(c, Reported(c, w)) /\ Reported(c, w).job = c.job
           /\ c.writes # <<>> => \A step \in Steps : /\ SameCore(c, Stepped(c, step))
                                                     /\ Stepped(c, step).job = c.job
<1>1. SameCore(c, JobDone(c))
    BY JobDoneFacts DEF SameCore, CoreFields, ClientFields
<1>2. ASSUME NEW w \in WriteSet
      PROVE  SameCore(c, Reported(c, w)) /\ Reported(c, w).job = c.job
  <2>1. \A f \in ClientFields \ {"writes"} : Reported(c, w)[f] = c[f]
      BY ReportedFacts
  <2> QED
      BY <2>1 DEF SameCore, CoreFields, ClientFields
<1>3. ASSUME c.writes # <<>>, NEW step \in Steps
      PROVE  SameCore(c, Stepped(c, step)) /\ Stepped(c, step).job = c.job
  <2>1. \A f \in ClientFields \ {"writes"} : Stepped(c, step)[f] = c[f]
      BY <1>3, SteppedFacts
  <2> QED
      BY <2>1 DEF SameCore, CoreFields, ClientFields
<1> QED
    BY <1>1, <1>2, <1>3

(* What becomes of the job of c if nothing is sent or applied for it.       *)
JobGoesOn(c, d) ==
    /\ d.job.kind # "none" /\ d.job.step = "answered" => d.job = c.job
    /\ d.job.kind = "flush" => c.job.kind = "flush" /\ d.job.batch = c.job.batch

LEMMA FinishedCore ==
    ASSUME NEW c, ClientType(c), c.writes # <<>>, NEW recorded \in BOOLEAN, Waits(c)
    PROVE  SameCore(c, Finished(c, recorded)) /\ JobGoesOn(c, Finished(c, recorded))
<1> DEFINE d == Finished(c, recorded)
<1>1. /\ \A f \in ClientFields \ {"writes", "job"} : d[f] = c[f]
      /\ \/ ~c.writes[1].flush /\ d.job = c.job
         \/ /\ c.job.kind = "flush" /\ c.job.step = "preferring"
            /\ d.job = NoJob \/ d.job = [c.job EXCEPT !.step = "reported"]
    BY FinishedFacts
<1> HIDE DEF d
<1>2. SameCore(c, d)
    BY <1>1 DEF SameCore, CoreFields, ClientFields
<1>3. DOMAIN c.job = JobFields
    BY DEF ClientType, JobType
<1>4. JobGoesOn(c, d)
    BY <1>1, <1>3 DEF JobGoesOn, NoJob, JobFields
<1> QED
    BY <1>2, <1>4 DEF d

(* A step after which a client has at most read the storages, and sent      *)
(* nothing of its queue.                                                    *)
QuietStep(t) ==
    /\ UNCHANGED <<clock, storage, tracked, lost>>
    /\ server'.tomb = server.tomb /\ server'.stored = server.stored
    /\ \A r \in wire' \ wire :
          r.kind = "choice" \/ (r.kind = "delete" /\ r.install = tab[t].identity)
    /\ \E d, e :
          /\ e \in {tab[t], WithConsent(tab[t]), Refreshed(tab[t])}
          /\ Update(t, d) /\ SameCore(e, d)
          /\ \/ JobGoesOn(tab[t], d)
             \/ e = Refreshed(tab[t]) /\ d.job.step = "preferring" /\ d.job.batch = {}

LEMMA QuietWrite ==
    ASSUME Orderly, NEW t \in Tabs,
           ReportAgain(t) \/ Synchronize(t) \/ StartWrite(t) \/ SessionForWrite(t) \/ AnsweredWrite(t)
    PROVE  QuietStep(t)
<1> DEFINE c == WithConsent(tab[t])
           w == Head1(c)
<1>1. /\ TypeOK /\ RestType /\ ClientType(c) /\ Waits(c) /\ Same(tab[t], c)
      /\ ClientType(tab[t]) /\ Waits(tab[t])
    BY OrderlyTab
<1>2. c.job = tab[t].job /\ (tab[t].writes # <<>> => c.writes # <<>>)
    BY <1>1, SameKeeps DEF Same
<1>3. \A e : SameCore(e, e) /\ JobGoesOn(e, e)
    BY DEF SameCore, JobGoesOn
<1>4. \A d : JobGoesOn(c, d) => JobGoesOn(tab[t], d)
    BY <1>2 DEF JobGoesOn
<1>5. CASE ReportAgain(t)
  <2>1. Update(t, IF Enabled(c) THEN Reported(c, Write(c)) ELSE c)
        /\ UNCHANGED <<clock, cookie, storage, wire, server, tracked, lost>>
      BY <1>5 DEF ReportAgain
  <2>2. Enabled(c) => /\ SameCore(c, Reported(c, Write(c)))
                      /\ Reported(c, Write(c)).job = c.job
    <3>1. Enabled(c) => Write(c) \in WriteSet
        BY <1>1, WriteFacts DEF Enabled
    <3> QED
        BY <1>1, <3>1, CoreFacts
  <2>3. Enabled(c) => JobGoesOn(c, Reported(c, Write(c)))
      BY <2>2 DEF JobGoesOn
  <2> QED
      BY <1>3, <1>4, <2>1, <2>2, <2>3 DEF QuietStep
<1>6. CASE Synchronize(t)
    BY <1>3, <1>4, <1>6 DEF Synchronize, QuietStep
<1>7. CASE StartWrite(t)
  <2>1. /\ tab[t].writes # <<>> /\ UNCHANGED <<clock, cookie, storage, wire, server, tracked, lost>>
        /\ \/ \E recorded \in BOOLEAN : Update(t, Finished(c, recorded))
           \/ \E step \in {"opened", "session"} : Update(t, Stepped(c, step))
      BY <1>7 DEF StartWrite, AtStep, Entry
  <2>2. \A recorded \in BOOLEAN :
           SameCore(c, Finished(c, recorded)) /\ JobGoesOn(c, Finished(c, recorded))
      BY <1>1, <1>2, <2>1, FinishedCore
  <2>3. \A step \in {"opened", "session"} :
           SameCore(c, Stepped(c, step)) /\ Stepped(c, step).job = c.job
      BY <1>1, <1>2, <2>1, CoreFacts DEF Steps
  <2>4. \A step \in {"opened", "session"} : JobGoesOn(c, Stepped(c, step))
      BY <2>3 DEF JobGoesOn
  <2>5. /\ server'.tomb = server.tomb /\ server'.stored = server.stored /\ wire' \ wire = {}
        /\ UNCHANGED <<clock, storage, tracked, lost>>
      BY <2>1
  <2>6. \E d : Update(t, d) /\ SameCore(c, d) /\ JobGoesOn(tab[t], d)
      BY <1>4, <2>1, <2>2, <2>3, <2>4
  <2> QED
      BY <2>5, <2>6 DEF QuietStep
<1>8. CASE SessionForWrite(t)
  <2> DEFINE q == [kind |-> "choice", tab |-> t, live |-> TRUE, cookie |-> cookie,
                   enabled |-> w.enabled, at |-> w.at]
  <2>0. /\ tab[t].writes # <<>> /\ UNCHANGED <<clock, storage, server, tracked, lost>>
        /\ wire' = wire \/ wire' = wire \cup {q}
        /\ \/ Update(t, Finished(tab[t], FALSE))
           \/ Update(t, Sent(c))
           \/ Update(t, Finished(c, FALSE))
      BY <1>8 DEF SessionForWrite, AtStep
  <2>q. q.kind = "choice"
      OBVIOUS
  <2> HIDE DEF q
  <2>1. /\ tab[t].writes # <<>> /\ UNCHANGED <<clock, storage, server, tracked, lost>>
        /\ \A r \in wire' \ wire : r.kind = "choice"
        /\ \/ Update(t, Finished(tab[t], FALSE))
           \/ Update(t, Sent(c))
           \/ Update(t, Finished(c, FALSE))
      BY <2>0, <2>q
  <2>2. SameCore(tab[t], Finished(tab[t], FALSE)) /\ JobGoesOn(tab[t], Finished(tab[t], FALSE))
      BY <1>1, <2>1, FinishedCore
  <2>3. SameCore(c, Finished(c, FALSE)) /\ JobGoesOn(tab[t], Finished(c, FALSE))
      BY <1>1, <1>2, <1>4, <2>1, FinishedCore
  <2>4. \A f \in ClientFields \ {"writes"} : Sent(c)[f] = c[f]
      BY <1>1, <1>2, <2>1, SentFacts
  <2>5. SameCore(c, Sent(c)) /\ Sent(c).job = c.job
      BY <2>4 DEF SameCore, CoreFields, ClientFields
  <2>6. JobGoesOn(tab[t], Sent(c))
      BY <1>2, <2>5 DEF JobGoesOn
  <2> QED
      BY <2>1, <2>2, <2>3, <2>5, <2>6 DEF QuietStep
<1>9. CASE AnsweredWrite(t)
  <2> DEFINE s == Stepped(tab[t], "session")
             d == [s EXCEPT !.writes[1].again = TRUE, !.ready = FALSE]
             p == [c EXCEPT !.trusted = w.enabled, !.under = w.cookie]
  <2>1. /\ tab[t].writes # <<>> /\ UNCHANGED <<clock, cookie, storage, wire, server, tracked, lost>>
        /\ \/ Update(t, d) \/ Update(t, Finished(p, TRUE)) \/ Update(t, Finished(c, FALSE))
           \/ Update(t, Finished(tab[t], FALSE))
      BY <1>9 DEF AnsweredWrite, AtStep, Retried
  <2>2. CASE Update(t, d)
    <3>1. ClientType(s) /\ SameCore(tab[t], s) /\ s.job = tab[t].job
      <4>1. "session" \in Steps
          BY DEF Steps
      <4> QED
          BY <1>1, <2>1, <4>1, SteppedFacts, CoreFacts
    <3> HIDE DEF s
    <3>2. \A f \in ClientFields \ {"writes", "ready"} : d[f] = s[f]
        BY <3>1 DEF ClientType, ClientFields
    <3>3. SameCore(tab[t], d) /\ d.job = tab[t].job
        BY <3>1, <3>2 DEF SameCore, CoreFields, ClientFields
    <3> HIDE DEF d
    <3>4. JobGoesOn(tab[t], d)
        BY <3>3 DEF JobGoesOn
    <3> QED
        BY <2>1, <2>2, <3>3, <3>4 DEF QuietStep
  <2>3. CASE Update(t, Finished(p, TRUE))
    <3>1. w \in WriteSet /\ w.enabled \in BOOLEAN /\ w.cookie \in Cookies \cup {Null} /\ c.writes # <<>>
        BY <1>1, <1>2, <2>1, HeadFacts DEF Head1, WriteSet
    <3> HIDE DEF w, c
    <3>2. /\ DOMAIN p = ClientFields /\ p.trusted = w.enabled /\ p.under = w.cookie
          /\ \A f \in ClientFields \ {"trusted", "under"} : p[f] = c[f]
        BY <1>1 DEF ClientType, ClientFields
    <3>3. ClientType(p) /\ Waits(p) /\ p.job = c.job /\ p.writes # <<>>
        BY <1>1, <3>1, <3>2 DEF ClientType, ClientFields, JobType, Waits
    <3>4. SameCore(c, p)
        BY <3>2, CoreOfFields
    <3> DEFINE e == Finished(p, TRUE)
    <3> HIDE DEF p
    <3>5. SameCore(p, e) /\ JobGoesOn(p, e)
        BY <3>3, FinishedCore
    <3> HIDE DEF e
    <3>6. SameCore(c, e) /\ JobGoesOn(tab[t], e)
        BY <1>2, <3>3, <3>4, <3>5 DEF SameCore, JobGoesOn
    <3>7. Update(t, e)
        BY <2>3 DEF e, p
    <3> QED
        BY <2>1, <3>6, <3>7 DEF QuietStep, c
  <2>4. CASE Update(t, Finished(c, FALSE))
    <3>1. SameCore(c, Finished(c, FALSE)) /\ JobGoesOn(c, Finished(c, FALSE))
        BY <1>1, <1>2, <2>1, FinishedCore
    <3> QED
        BY <1>4, <2>1, <2>4, <3>1 DEF QuietStep
  <2>5. CASE Update(t, Finished(tab[t], FALSE))
    <3>1. SameCore(tab[t], Finished(tab[t], FALSE)) /\ JobGoesOn(tab[t], Finished(tab[t], FALSE))
        BY <1>1, <2>1, FinishedCore
    <3> QED
        BY <2>1, <2>5, <3>1 DEF QuietStep
  <2> QED
      BY <2>1, <2>2, <2>3, <2>4, <2>5
<1> QED
    BY <1>5, <1>6, <1>7, <1>8, <1>9

LEMMA QuietFlush ==
    ASSUME Orderly, NEW t \in Tabs, Flush(t)
    PROVE  \/ QuietStep(t)
           \/ /\ Send(t, Refreshed(tab[t])) /\ LockFree(t) /\ Enabled(Refreshed(tab[t]))
              /\ Refreshed(tab[t]).trusted = TRUE
<1> DEFINE c == Refreshed(tab[t])
           w == [Write(c) EXCEPT !.flush = TRUE]
           p == Reported(c, w)
           j == [NoJob EXCEPT !.kind = "flush", !.step = "preferring"]
           d == [p EXCEPT !.job = j]
<1>1. TypeOK /\ ClientType(c) /\ Same(tab[t], c) /\ ClientType(tab[t])
    BY OrderlyTab
<1>2. LockFree(t)
    BY DEF Flush
<1>3. CASE ~Enabled(c) \/ c.queue = {}
  <2>1. Update(t, c) /\ UNCHANGED <<clock, cookie, storage, wire, server, tracked, lost>>
      BY <1>3 DEF Flush
  <2>2. SameCore(c, c) /\ c.job = tab[t].job
      BY <1>1 DEF SameCore, Same
  <2>3. JobGoesOn(tab[t], c)
      BY <2>2 DEF JobGoesOn
  <2> QED
      BY <2>1, <2>2, <2>3 DEF QuietStep
<1>4. CASE Enabled(c) /\ c.queue # {} /\ c.trusted = TRUE
    BY <1>2, <1>4 DEF Flush
<1>5. CASE Enabled(c) /\ c.queue # {} /\ c.trusted # TRUE
  <2>1. Update(t, d) /\ UNCHANGED <<clock, cookie, storage, wire, server, tracked, lost>>
      BY <1>5 DEF Flush
  <2>2. w \in WriteSet
      BY <1>1, <1>5, WriteFacts DEF Enabled
  <2> HIDE DEF w
  <2>3. ClientType(p) /\ SameCore(c, p)
      BY <1>1, <2>2, ReportedFacts, CoreFacts
  <2> HIDE DEF p
  <2>4. j.step = "preferring" /\ j.batch = {}
      BY DEF NoJob
  <2> HIDE DEF j
  <2>5. d.job = j /\ \A f \in ClientFields \ {"job"} : d[f] = p[f]
      BY <2>3 DEF ClientType, ClientFields
  <2> HIDE DEF d
  <2>6. SameCore(c, d)
      BY <2>3, <2>5 DEF SameCore, CoreFields, ClientFields
  <2> QED
      BY <2>1, <2>4, <2>5, <2>6 DEF QuietStep
<1> QED
    BY <1>3, <1>4, <1>5

LEMMA QuietSession ==
    ASSUME Orderly, NEW t \in Tabs, SessionForDelete(t)
    PROVE  QuietStep(t)
<1> DEFINE c == tab[t]
           d == [c EXCEPT !.job.step = "sent"]
<1>1. TypeOK /\ RestType /\ ClientType(c) /\ c.job.kind = "delete"
    BY OrderlyTab DEF SessionForDelete
<1>2. /\ UNCHANGED <<clock, storage, server, tracked, lost>>
      /\ \A r \in wire' \ wire : r.kind = "delete" /\ r.install = c.identity
      /\ Update(t, JobDone(c)) \/ Update(t, d)
    BY DEF SessionForDelete
<1>3. SameCore(c, JobDone(c)) /\ JobDone(c).job = NoJob
    BY <1>1, CoreFacts, JobDoneFacts
<1>4. JobGoesOn(c, JobDone(c))
    BY <1>3 DEF JobGoesOn, NoJob
<1>5. d.job.kind = "delete" /\ d.job.step = "sent" /\ \A f \in ClientFields \ {"job"} : d[f] = c[f]
    BY <1>1 DEF ClientType, ClientFields, JobType, JobFields
<1> HIDE DEF d
<1>6. SameCore(c, d) /\ JobGoesOn(c, d)
    BY <1>5 DEF SameCore, CoreFields, ClientFields, JobGoesOn
<1> QED
    BY <1>2, <1>3, <1>4, <1>6 DEF QuietStep

(* A session that is opened or not lets the calls of its tab go on, at most.*)
LEMMA QuietOpen ==
    ASSUME Orderly, NEW r \in asked, Open(r) \/ LoseOpening(r)
    PROVE  /\ UNCHANGED <<clock, storage, wire, tracked, lost>>
           /\ server'.tomb = server.tomb /\ server'.stored = server.stored
           /\ UNCHANGED tab \/ \E t \in Tabs : QuietStep(t)
<1>1. /\ UNCHANGED <<clock, storage, wire, tracked, lost>>
      /\ \/ UNCHANGED server
         \/ \E s \in Cookies : server' = [server EXCEPT !.alive = @ \cup {s}]
      /\ \/ UNCHANGED tab
         \/ /\ r.tab \in Tabs
            /\ \E opened \in BOOLEAN : Update(r.tab, Resolved(tab[r.tab], opened))
    BY OpenFacts
<1>2. server'.tomb = server.tomb /\ server'.stored = server.stored
    BY <1>1 DEF Orderly, TypeOK, RestType
<1>3. ASSUME r.tab \in Tabs, NEW opened \in BOOLEAN, Update(r.tab, Resolved(tab[r.tab], opened))
      PROVE  QuietStep(r.tab)
  <2> DEFINE c == tab[r.tab]
             d == Resolved(c, opened)
  <2>1. ClientType(c)
      BY <1>3 DEF Orderly, TypeOK
  <2>2. /\ Onward(c.job, d.job) /\ ClientType(d)
        /\ \A f \in ClientFields \ {"ready", "job", "writes"} : d[f] = c[f]
      BY <1>3, <2>1, ResolvedFacts
  <2> HIDE DEF d
  <2>3. SameCore(c, d)
      BY <2>2 DEF SameCore, CoreFields, ClientFields
  <2>4. JobGoesOn(c, d)
      BY <2>1, <2>2 DEF JobGoesOn, Onward, ClientType, JobType, JobFields
  <2> QED
      BY <1>1, <1>2, <1>3, <2>3, <2>4 DEF QuietStep, d
<1> QED
    BY <1>1, <1>2, <1>3

(* What is sent is a part of the queue, under the identity that is stored.  *)
BatchOf(t, d, i) ==
    [kind |-> "batch", tab |-> t, live |-> TRUE, cookie |-> cookie, install |-> i,
     epoch |-> d.epoch, events |-> d.job.batch]

SendStep(t, c, i, d) ==
    /\ FirstIdentity(i) /\ storage' = [storage EXCEPT !.identity = i]
    /\ d.identity = i /\ \A f \in CoreFields \ {"identity"} : d[f] = WithIdentity(c)[f]
    /\ \/ d.job = NoJob /\ UNCHANGED wire
       \/ /\ d.job.kind = "flush" /\ d.job.step = "sent" /\ d.job.batch \subseteq d.queue
          /\ wire' = wire \cup {BatchOf(t, d, i)}

LEMMA SendFacts ==
    ASSUME Orderly, NEW t \in Tabs, NEW c, ClientType(c), Send(t, c)
    PROVE  /\ UNCHANGED <<clock, cookie, server, tracked, lost, count>>
           /\ \E d : /\ Update(t, d) /\ d.writes = c.writes /\ d.trusted = c.trusted /\ d.under = c.under
                     /\ \/ /\ WithIdentity(c).error /\ SameCore(WithIdentity(c), d)
                           /\ d.job = NoJob /\ UNCHANGED <<storage, wire>>
                        \/ \E i \in Identifiers : SendStep(t, c, i, d)
<1> DEFINE w == WithIdentity(c)
<1>1. TypeOK /\ RestType
    BY OrderlyTab
<1>2. ClientType(w) /\ w.writes = c.writes /\ w.trusted = c.trusted /\ w.under = c.under
    BY <1>1, WithIdentityFacts
<1>5. PICK i \in Identities :
         LET d == [w EXCEPT !.identity = i] IN
         IF w.error
         THEN Update(t, JobDone(w)) /\ UNCHANGED <<storage, wire>>
         ELSE /\ storage' = [storage EXCEPT !.identity = i]
              /\ IF d.queue = {} THEN Update(t, JobDone(d)) /\ UNCHANGED wire
                 ELSE \E batch \in Batches(d.queue) :
                        /\ Update(t, [d EXCEPT !.job =
                             [NoJob EXCEPT !.kind = "flush", !.step = "sent", !.batch = batch]])
                        /\ wire' = wire \cup {[kind |-> "batch", tab |-> t, live |-> TRUE,
                             cookie |-> cookie, install |-> i, epoch |-> d.epoch,
                             events |-> batch]}
    BY DEF Send
<1> DEFINE d == [w EXCEPT !.identity = i]
<1>6. i \in Identifiers /\ (storage.identity # Null => i = storage.identity)
    BY <1>1, IdentitiesFacts
<1>7. UNCHANGED <<clock, cookie, server, tracked, lost, count>>
    BY DEF Send
<1> HIDE DEF w
<1>8. /\ DOMAIN d = ClientFields /\ d.identity = i
      /\ \A f \in ClientFields \ {"identity"} : d[f] = w[f]
    BY <1>2 DEF ClientType, ClientFields
<1>9. ASSUME storage' = [storage EXCEPT !.identity = i] PROVE FirstIdentity(i)
    BY <1>1, <1>6, <1>9 DEF RestType, FirstIdentity
<1>10. CASE w.error
  <2> DEFINE e == JobDone(w)
  <2>1. SameCore(w, e) /\ e.job = NoJob /\ e.writes = w.writes /\ e.trusted = w.trusted /\ e.under = w.under
      BY <1>2, JobDoneFacts, CoreFacts DEF ClientFields
  <2>2. Update(t, e) /\ UNCHANGED <<storage, wire>>
      BY <1>5, <1>10
  <2> HIDE DEF e
  <2> QED
      BY <1>2, <1>7, <1>10, <2>1, <2>2 DEF w
<1> HIDE DEF d
<1>11. ASSUME NEW e, \A f \in ClientFields \ {"job"} : e[f] = d[f]
       PROVE  /\ e.identity = i /\ \A f \in CoreFields \ {"identity"} : e[f] = w[f]
              /\ e.writes = c.writes /\ e.trusted = c.trusted /\ e.under = c.under /\ e.queue = d.queue
              /\ e.epoch = d.epoch
    BY <1>2, <1>8, <1>11 DEF CoreFields, ClientFields
<1>12. ASSUME ~w.error, storage' = [storage EXCEPT !.identity = i],
              Update(t, JobDone(d)), UNCHANGED wire
       PROVE  \E e : /\ Update(t, e) /\ e.writes = c.writes /\ e.trusted = c.trusted /\ e.under = c.under
                     /\ SendStep(t, c, i, e)
  <2>1. ClientType(d)
    <3>1. d.job = w.job
        BY <1>8 DEF ClientFields
    <3> QED
        BY <1>2, <1>6, <1>8, <3>1, NullAssumption DEF ClientType, ClientFields, JobType
  <2>2. JobDone(d).job = NoJob /\ \A f \in ClientFields \ {"job"} : JobDone(d)[f] = d[f]
      BY <2>1, JobDoneFacts
  <2> DEFINE e == JobDone(d)
  <2> HIDE DEF e
  <2>3. /\ e.identity = i /\ \A f \in CoreFields \ {"identity"} : e[f] = w[f]
        /\ e.writes = c.writes /\ e.trusted = c.trusted /\ e.under = c.under /\ e.job = NoJob
      BY <1>11, <2>2 DEF e
  <2> QED
      BY <1>9, <1>12, <2>3 DEF SendStep, w, e
<1>13. ASSUME ~w.error, NEW batch \in Batches(d.queue), storage' = [storage EXCEPT !.identity = i],
              Update(t, [d EXCEPT !.job =
                   [NoJob EXCEPT !.kind = "flush", !.step = "sent", !.batch = batch]]),
              wire' = wire \cup {[kind |-> "batch", tab |-> t, live |-> TRUE,
                             cookie |-> cookie, install |-> i, epoch |-> d.epoch,
                             events |-> batch]}
       PROVE  \E e : /\ Update(t, e) /\ e.writes = c.writes /\ e.trusted = c.trusted /\ e.under = c.under
                     /\ SendStep(t, c, i, e)
  <2> DEFINE j == [NoJob EXCEPT !.kind = "flush", !.step = "sent", !.batch = batch]
             s == [d EXCEPT !.job = j]
  <2>1. batch \subseteq d.queue
      BY DEF Batches
  <2>2. j.kind = "flush" /\ j.step = "sent" /\ j.batch = batch
      BY DEF NoJob
  <2> HIDE DEF j
  <2>3. s.job = j /\ \A f \in ClientFields \ {"job"} : s[f] = d[f]
      BY <1>8 DEF ClientFields
  <2> HIDE DEF s
  <2>4. /\ s.identity = i /\ \A f \in CoreFields \ {"identity"} : s[f] = w[f]
        /\ s.writes = c.writes /\ s.trusted = c.trusted /\ s.under = c.under /\ s.queue = d.queue /\ s.epoch = d.epoch
      BY <1>11, <2>3
  <2>5. Update(t, s)
      BY <1>13 DEF s, j
  <2>6. wire' = wire \cup {BatchOf(t, s, i)}
      BY <1>13, <2>2, <2>3, <2>4 DEF BatchOf
  <2> QED
      BY <1>9, <1>13, <2>1, <2>2, <2>3, <2>4, <2>5, <2>6 DEF SendStep, w
<1> QED
    BY <1>5, <1>6, <1>7, <1>10, <1>12, <1>13 DEF d

LEMMA QuietNamed ==
    ASSUME Orderly, Orderly', Named, NEW t \in Tabs, QuietStep(t)
    PROVE  Named'
<1>1. TypeOK /\ ClientType(tab[t]) /\ tab[t].identity \in {Null, storage.identity}
    BY OrderlyTab DEF Named
<1>2. PICK d, e :
         e \in {tab[t], WithConsent(tab[t]), Refreshed(tab[t])} /\ Update(t, d) /\ SameCore(e, d)
    BY DEF QuietStep
<1>3. d.identity \in {Null, storage.identity}
    BY <1>1, <1>2, ReadNamed DEF SameCore, CoreFields
<1>4. ASSUME NEW r \in wire', r.kind # "choice", r \notin wire PROVE r.install = storage.identity
  <2>1. r.install \in Identifiers
      BY <1>4 DEF Orderly, TypeOK, Requests, ChoiceRequests, BatchRequests, DeleteRequests
  <2> QED
      BY <1>1, <1>4, <2>1, NullAssumption DEF QuietStep
<1> QED
    BY <1>2, <1>3, <1>4, UpdateNamed DEF QuietStep

LEMMA SendNamed ==
    ASSUME Orderly, Named, NEW t \in Tabs, NEW c, ClientType(c),
           c.identity \in {Null, storage.identity}, Send(t, c)
    PROVE  Named'
<1>1. TypeOK
    BY DEF Orderly
<1>2. UNCHANGED server
    BY SendFacts
<1>3. PICK d : /\ Update(t, d)
               /\ \/ /\ WithIdentity(c).error /\ SameCore(WithIdentity(c), d)
                     /\ d.job = NoJob /\ UNCHANGED <<storage, wire>>
                  \/ \E i \in Identifiers : SendStep(t, c, i, d)
    BY SendFacts, Zenon
<1>4. CASE SameCore(WithIdentity(c), d) /\ UNCHANGED <<storage, wire>>
  <2>1. d.identity \in {Null, storage.identity}
      BY <1>1, <1>4, ReadNamed DEF SameCore, CoreFields
  <2> QED
      BY <1>2, <1>3, <1>4, <2>1, UpdateNamed
<1>5. ASSUME NEW i \in Identifiers, SendStep(t, c, i, d) PROVE Named'
  <2>1. FirstIdentity(i) /\ d.identity = storage'.identity
      BY <1>5 DEF SendStep, FirstIdentity
  <2>2. \A r \in wire' : r \in wire \/ r.install = storage'.identity
      BY <1>5, <2>1 DEF SendStep, BatchOf, FirstIdentity
  <2> QED
      BY <1>2, <1>3, <2>1, <2>2, UpdateNamed
<1> QED
    BY <1>3, <1>4, <1>5

(* A step of one tab that asks for nothing and names nothing.               *)
LEMMA SameNamed ==
    ASSUME Orderly, Named, NEW t \in Tabs, NEW c, Update(t, c),
           c.identity \in {Null, storage.identity}, storage'.identity = storage.identity,
           server'.stored = server.stored,
           \A r \in wire' : r.kind # "choice" =>
              \E q \in wire : q.kind # "choice" /\ q.install = r.install
    PROVE  Named'
    BY UpdateNamed

LEMMA AppliedNamed ==
    ASSUME Orderly, Named, NEW t \in Tabs, NEW c, ClientType(c), NEW next \in Deletions,
           c.identity \in {Null, storage.identity}, Applied(t, c, next), UNCHANGED <<wire, server>>
    PROVE  Named'
<1>1. RestType
    BY DEF Orderly, TypeOK
<1>2. Effective(c, next) \in Deletions
    BY EffectiveFacts DEF Orderly, TypeOK
<1>3. ASSUME NEW d, d \in {Failed(c), Advanced(c, Effective(c, next))}
      PROVE  ClientType(d) /\ d.identity = c.identity
    BY <1>2, <1>3, FailedFacts, AdvancedFacts DEF ClientFields
<1>4. ASSUME NEW d, ClientType(d) PROVE JobDone(d).identity = d.identity
    BY <1>4, JobDoneFacts DEF ClientFields
<1>5. /\ \E d \in {Failed(c), Advanced(c, Effective(c, next))} : Update(t, JobDone(d))
      /\ \/ UNCHANGED storage
         \/ storage' = [storage EXCEPT !.deletion = Effective(c, next)]
    BY DEF Applied
<1>6. storage'.identity = storage.identity
    BY <1>1, <1>5 DEF RestType
<1> QED
    BY <1>3, <1>4, <1>5, <1>6, SameNamed

LEMMA TellNamed ==
    ASSUME Orderly, Named, NEW r \in wire, NEW answer, AnswerTo(r, answer), Tell(r, answer),
           UNCHANGED storage, \A e \in server'.stored : e.install = storage.identity,
           \A q \in wire' : q.kind # "choice" =>
              \E p \in wire : p.kind # "choice" /\ p.install = q.install
    PROVE  Named'
<1>1. CASE ~r.live
    BY <1>1 DEF Tell, Named
<1>2. CASE r.live
  <2> DEFINE d == Told(tab[r.tab], r, answer)
  <2>0. r.tab \in Tabs /\ \A f \in ClientFields \ {"writes", "job"} : d[f] = tab[r.tab][f]
      BY <1>2, ToldFacts
  <2>1. r.tab \in Tabs /\ d.identity = tab[r.tab].identity
      BY <2>0 DEF ClientFields
  <2>2. Update(r.tab, d)
      BY <1>2 DEF Tell, Told
  <2> HIDE DEF d
  <2>3. tab'[r.tab] = d /\ \A u \in Tabs \ {r.tab} : tab'[u] = tab[u]
      BY <2>1, <2>2 DEF Update, Orderly, TypeOK
  <2> QED
      BY <2>1, <2>3 DEF Named
<1> QED
    BY <1>1, <1>2

LEMMA ServeNamed ==
    ASSUME Orderly, Named, NEW r \in wire, Serve(r)
    PROVE  Named'
<1>1. RestType /\ r \in Requests
    BY DEF Orderly, TypeOK
<1>2. PICK answer :
           /\ Tell(r, answer) /\ AnswerTo(r, answer)
           /\ wire' = wire \ {r} /\ UNCHANGED <<clock, cookie, storage, tracked, count>>
           /\ \/ UNCHANGED server /\ answer.status \in {"expired", "refused"}
              \/ /\ r.kind = "choice" /\ r.cookie \in server.alive
                 /\ answer.status = IF Decided(server.choice[r.cookie], r) THEN "applied"
                                    ELSE "not applied"
                 /\ server' = IF ~Decided(server.choice[r.cookie], r) THEN server
                              ELSE [server EXCEPT !.choice[r.cookie] =
                                      [enabled |-> r.enabled, at |-> r.at]]
              \/ /\ r.kind = "batch" /\ r.epoch <= TombOf(r.install).epoch
                 /\ LET tomb == TombOf(r.install)
                        wanted == {e \in r.events : tomb.before = 0 \/ e.at > tomb.before}
                    IN /\ server' = [server EXCEPT
                              !.tomb[r.install] = tomb,
                              !.stored = @ \cup {[id |-> e.id, at |-> e.at, install |-> r.install]
                                                    : e \in wanted}]
                       /\ answer = [status |-> "ok", epoch |-> tomb.epoch,
                                    before |-> IF tomb.before = 0 THEN Null ELSE tomb.before,
                                    discarded |-> Cardinality(r.events \ wanted)]
              \/ /\ r.kind = "delete"
                 /\ LET tomb == [epoch |-> TombOf(r.install).epoch + 1, before |-> clock] IN
                    /\ server' = [server EXCEPT !.tomb[r.install] = tomb,
                                                !.stored = {e \in @ : e.install # r.install}]
                    /\ answer = [status |-> "ok", epoch |-> tomb.epoch, before |-> clock]
    BY ServeFacts, Zenon
<1>a. /\ DOMAIN server = {"alive", "over", "choice", "tomb", "stored"}
    BY <1>1 DEF RestType
<1>3. \A e \in server'.stored : e \in server.stored \/ (r.kind = "batch" /\ e.install = r.install)
  <2>1. CASE UNCHANGED server \/ r.kind = "choice"
      BY <1>2, <1>a, <2>1
  <2>2. CASE r.kind = "batch" /\ ~UNCHANGED server
    <3> DEFINE W == {e \in r.events : TombOf(r.install).before = 0 \/ e.at > TombOf(r.install).before}
               new == {[id |-> e.id, at |-> e.at, install |-> r.install] : e \in W}
    <3>1. server' = [server EXCEPT !.tomb[r.install] = TombOf(r.install), !.stored = @ \cup new]
        BY <1>2, <2>2
    <3>2. \A e \in new : e.install = r.install
        OBVIOUS
    <3> HIDE DEF new
    <3>3. server'.stored = server.stored \cup new
        BY <1>a, <3>1
    <3> QED
        BY <2>2, <3>2, <3>3
  <2>3. CASE r.kind = "delete" /\ ~UNCHANGED server
    <3> DEFINE T == [epoch |-> TombOf(r.install).epoch + 1, before |-> clock]
    <3>1. server' = [server EXCEPT !.tomb[r.install] = T,
                                   !.stored = {e \in @ : e.install # r.install}]
        BY <1>2, <2>3
    <3> HIDE DEF T
    <3>2. server'.stored = {e \in server.stored : e.install # r.install}
        BY <1>a, <3>1
    <3> QED
        BY <3>2
  <2> QED
      BY <1>2, <2>1, <2>2, <2>3
<1>4. \A e \in server'.stored : e.install = storage.identity
    BY <1>3 DEF Named
<1> QED
    BY <1>2, <1>4, TellNamed

LEMMA LoseNamed ==
    ASSUME Orderly, Named, NEW r \in wire, Lose(r) \/ LoseAnswer(r)
    PROVE  Named'
<1>1. r \in Requests
    BY DEF Orderly, TypeOK
<1>2. /\ Tell(r, Answer("failed")) /\ UNCHANGED <<storage, server>>
      /\ wire' \subseteq (wire \ {r}) \cup {[r EXCEPT !.live = FALSE]}
    BY DEF Lose, LoseAnswer
<1>3. \A q \in wire' : q.kind # "choice" =>
         \E p \in wire : p.kind # "choice" /\ p.install = q.install
  <2>1. r.kind \in {"choice", "batch", "delete"}
      BY <1>1 DEF Requests, ChoiceRequests, BatchRequests, DeleteRequests
  <2> QED
      BY <1>1, <1>2, <2>1, DeadFacts
<1> QED
    BY <1>2, <1>3, TellNamed, FailedAnswer DEF Named

LEMMA TabNamed ==
    ASSUME Orderly, Orderly', Named, NEW t \in Tabs,
           \/ \E enabled \in BOOLEAN : Choose(t, enabled)
           \/ ReportAgain(t) \/ Synchronize(t)
           \/ StartWrite(t) \/ SessionForWrite(t) \/ AnsweredWrite(t)
           \/ Track(t)
           \/ Flush(t) \/ FlushReported(t) \/ FlushAnswered(t)
           \/ Delete(t) \/ SessionForDelete(t) \/ DeleteAnswered(t)
           \/ Reload(t)
    PROVE  Named'
<1> DEFINE c == tab[t]
<1>1. TypeOK /\ RestType /\ ClientType(c) /\ c.identity \in {Null, storage.identity}
    BY OrderlyTab DEF Named
<1>2. ClientType(Refreshed(c)) /\ Refreshed(c).identity \in {Null, storage.identity}
    BY <1>1, OrderlyTab, ReadNamed
<1>3. ASSUME NEW enabled \in BOOLEAN, Choose(t, enabled) PROVE Named'
  <2> DEFINE e == Deciding(t, enabled)
             d == Reported(e, Write(e))
  <2>1. /\ Update(t, d) /\ UNCHANGED <<wire, server>> /\ e.identity = c.identity /\ SameCore(e, d)
        /\ storage' = [storage EXCEPT !.consent = Decision(t, enabled)]
      BY <1>3, ChooseFacts
  <2> HIDE DEF d, e
  <2>2. storage'.identity = storage.identity /\ d.identity = c.identity
      BY <1>1, <2>1 DEF RestType, SameCore, CoreFields
  <2> QED
      BY <1>1, <2>1, <2>2, SameNamed
<1>4. CASE \/ ReportAgain(t) \/ Synchronize(t)
           \/ StartWrite(t) \/ SessionForWrite(t) \/ AnsweredWrite(t) \/ SessionForDelete(t)
    BY <1>4, QuietWrite, QuietSession, QuietNamed
<1>5. CASE Track(t)
  <2> DEFINE p == Refreshed(c)
             e == [id |-> Cardinality(tracked) + 1, at |-> clock]
             d == IF Enabled(p) THEN [p EXCEPT !.queue = Trimmed(@ \cup {e})] ELSE p
  <2>1. Update(t, d) /\ UNCHANGED <<storage, wire, server>>
      BY <1>5 DEF Track
  <2>2. d.identity = p.identity
      BY <1>2 DEF ClientType, ClientFields
  <2> HIDE DEF d
  <2> QED
      BY <1>2, <2>1, <2>2, SameNamed
<1>6. CASE Flush(t)
    BY <1>2, <1>6, QuietFlush, QuietNamed, SendNamed
<1>7. CASE FlushReported(t)
    BY <1>1, <1>7, SendNamed DEF FlushReported
<1>8. CASE FlushAnswered(t)
  <2> DEFINE a == c.job.answer
             r == [c EXCEPT !.trusted = IF a.status = "failed" THEN @ ELSE Null,
                            !.ready = @ /\ a.status # "expired"]
  <2>1. /\ ClientType(r) /\ \A f \in ClientFields \ {"trusted", "ready"} : r[f] = c[f]
        /\ UNCHANGED <<wire, server>>
        /\ \/ Update(t, JobDone(r)) /\ UNCHANGED storage
           \/ Update(t, JobDone(c)) /\ UNCHANGED storage
           \/ Update(t, JobDone(WithoutSent(c))) /\ UNCHANGED storage
           \/ Applied(t, WithoutSent(c), NewBoundary(c)) /\ NewBoundary(c) \in Deletions
      BY <1>8, FlushAnsweredFacts
  <2> HIDE DEF r
  <2>2. ClientType(WithoutSent(c)) /\ WithoutSent(c).identity = c.identity /\ r.identity = c.identity
      BY <1>1, <2>1, WithoutSentFacts DEF ClientFields
  <2>3. \A d \in {r, c, WithoutSent(c)} : JobDone(d).identity = c.identity
      BY <1>1, <2>1, <2>2, CoreFacts DEF SameCore, CoreFields
  <2>4. CASE Applied(t, WithoutSent(c), NewBoundary(c)) /\ NewBoundary(c) \in Deletions
      BY <1>1, <2>1, <2>2, <2>4, AppliedNamed
  <2>5. ASSUME NEW d \in {r, c, WithoutSent(c)}, Update(t, JobDone(d)), UNCHANGED storage
        PROVE  Named'
      BY <1>1, <2>1, <2>3, <2>5, SameNamed
  <2> QED
      BY <2>1, <2>4, <2>5
<1>9. CASE Delete(t)
  <2> DEFINE p == WithIdentity(c)
             j == [NoJob EXCEPT !.kind = "delete", !.step = Entry(p)]
  <2>1. ClientType(p) /\ p.identity \in {Null, storage.identity}
      BY <1>1, WithIdentityFacts, ReadNamed
  <2>2. PICK i \in (IF p.identity = Null THEN Identities ELSE {p.identity}) :
           /\ storage' = IF p.identity = Null THEN [storage EXCEPT !.identity = i] ELSE storage
           /\ Update(t, [p EXCEPT !.identity = i, !.job = j])
      BY <1>9 DEF Delete
  <2>3. UNCHANGED <<wire, server>>
      BY <1>9 DEF Delete
  <2> HIDE DEF p, j
  <2> DEFINE d == [p EXCEPT !.identity = i, !.job = j]
  <2>4. d.identity = i
      BY <2>1 DEF ClientType, ClientFields
  <2> HIDE DEF d
  <2>5. CASE p.identity = Null
    <3>1. i \in Identifiers /\ (storage.identity # Null => i = storage.identity)
        BY <1>1, <2>5, IdentitiesFacts
    <3>2. storage'.identity = i
        BY <1>1, <2>2, <2>5 DEF RestType
    <3> QED
        BY <2>2, <2>3, <2>4, <3>1, <3>2, UpdateNamed DEF FirstIdentity, d
  <2>6. CASE p.identity # Null
    <3>1. i = storage.identity /\ UNCHANGED storage
        BY <2>1, <2>2, <2>6
    <3> QED
        BY <2>2, <2>3, <2>4, <3>1, SameNamed DEF d
  <2> QED
      BY <2>5, <2>6
<1>10. CASE DeleteAnswered(t)
  <2> DEFINE d == [c EXCEPT !.job.step = "session", !.job.again = TRUE, !.ready = FALSE]
  <2>1. UNCHANGED <<wire, server>>
      BY <1>10 DEF DeleteAnswered
  <2>2. \/ Update(t, d) /\ UNCHANGED storage
        \/ Update(t, JobDone(c)) /\ UNCHANGED storage
        \/ Applied(t, c, NewBoundary(c)) /\ c.job.answer.status = "ok"
      BY <1>10 DEF DeleteAnswered, NewBoundary
  <2>3. d.identity = c.identity /\ JobDone(c).identity = c.identity
      BY <1>1, CoreFacts DEF ClientType, ClientFields, SameCore, CoreFields
  <2> HIDE DEF d
  <2>4. c.job.answer.status = "ok" => NewBoundary(c) \in Deletions
      BY <1>1, <1>10 DEF DeleteAnswered, ClientType, JobType, NewBoundary, Deletions
  <2> QED
      BY <1>1, <2>1, <2>2, <2>3, <2>4, SameNamed, AppliedNamed
<1>11. CASE Reload(t)
  <2> DEFINE d == Constructed(c.queue, c.epoch)
  <2>1. d.identity = storage.identity
      BY <1>1, ConstructedFacts DEF ClientType
  <2>2. Update(t, d) /\ UNCHANGED <<storage, server>>
        /\ wire' = {IF r.tab = t THEN [r EXCEPT !.live = FALSE] ELSE r : r \in wire}
      BY <1>11 DEF Reload, Abandoned
  <2> HIDE DEF d
  <2>3. \A q \in wire' : q.kind # "choice" =>
           \E p \in wire : p.kind # "choice" /\ p.install = q.install
    <3>1. SUFFICES ASSUME NEW q \in wire', q.kind # "choice"
                   PROVE  \E p \in wire : p.kind # "choice" /\ p.install = q.install
        OBVIOUS
    <3>2. PICK r \in wire : q = IF r.tab = t THEN [r EXCEPT !.live = FALSE] ELSE r
        BY <2>2
    <3>3. r \in Requests /\ r.kind \in {"choice", "batch", "delete"}
        BY <1>1 DEF TypeOK, Requests, ChoiceRequests, BatchRequests, DeleteRequests
    <3>4. q.kind = r.kind /\ (r.kind # "choice" => q.install = r.install)
        BY <3>2, <3>3, DeadFacts
    <3> QED
        BY <3>1, <3>4
  <2> QED
      BY <2>1, <2>2, <2>3, SameNamed
<1> QED
    BY <1>3, <1>4, <1>5, <1>6, <1>7, <1>8, <1>9, <1>10, <1>11

LEMMA StepNamed == Orderly /\ Orderly' /\ Named /\ [ClientNext]_client => Named'
<1> SUFFICES ASSUME Orderly, Orderly', Named, [ClientNext]_client PROVE Named'
    OBVIOUS
<1>1. ASSUME NEW r \in wire, Serve(r) \/ Lose(r) \/ LoseAnswer(r) PROVE Named'
    BY <1>1, ServeNamed, LoseNamed
<1>2. CASE SessionExpires \/ ClockTicks \/ UNCHANGED client
  <2>1. server'.stored = server.stored /\ UNCHANGED <<storage, wire, tab>>
      BY <1>2 DEF SessionExpires, ClockTicks, client, Orderly, TypeOK, RestType
  <2> QED
      BY <2>1 DEF Named
<1>3. ASSUME NEW r \in asked, Open(r) \/ LoseOpening(r) PROVE Named'
  <2>1. /\ UNCHANGED <<storage, wire>> /\ server'.stored = server.stored
        /\ UNCHANGED tab \/ \E t \in Tabs : QuietStep(t)
      BY <1>3, QuietOpen
  <2> QED
      BY <2>1, QuietNamed DEF Named
<1> QED
    BY <1>1, <1>2, <1>3, TabNamed DEF ClientNext

LEMMA AlwaysNamed == ClientSpec => [](Orderly /\ Named)
<1>1. ClientInit => Named
    BY DEF ClientInit, Named, NewClient
<1> QED
    BY <1>1, InitOrderly, StepOrderly, StepNamed, PTL DEF ClientSpec

(* Whatever the server keeps, or is about to receive, is filed under the    *)
(* identity whose credential the browser still has.                         *)
THEOREM AllIsDeletable == ClientSpec => []EverythingIsDeletable
<1>1. Named => EverythingIsDeletable
    BY DEF Named, EverythingIsDeletable
<1> QED
    BY <1>1, AlwaysNamed, PTL

---------------------------------------------------------------------------
(* d was decided before e, or is e.                                         *)
NotAfter(d, e) == e # Null /\ (d.at < e.at \/ (d.at = e.at /\ d.enabled = e.enabled))

(* The server has d, or something later.                                    *)
HasIt(choice, d) == choice # Null /\ choice.at >= d.at

(* Session s has.                                                           *)
Recorded(choice, s, d) == s \in Cookies /\ HasIt(choice[s], d)

(* What c acts on and reports is no later than what is stored, its current  *)
(* reports are of its own decision, and what it takes to be recorded was,   *)
(* in the session that its report was made in.                              *)
Truthful(c, stored, choice) ==
    /\ c.consent # Null => NotAfter(c.consent, stored)
    /\ \A n \in 1 .. Len(c.writes) :
         LET w == c.writes[n] IN
         /\ NotAfter(w, stored)
         /\ w.current => c.consent # Null /\ w.at = c.consent.at /\ w.enabled = c.consent.enabled
         /\ w.step = "answered" /\ w.answer.status = "applied" => Recorded(choice, w.cookie, w)
    /\ c.trusted # Null =>
          c.consent # Null /\ c.trusted = c.consent.enabled /\ Recorded(choice, c.under, c.consent)

Trusting ==
    /\ \A t \in Tabs : Truthful(tab[t], storage.consent, server.choice)
    /\ \A r \in wire : r.kind = "choice" => NotAfter(r, storage.consent)
    /\ \A s \in Cookies : server.choice[s] # Null => NotAfter(server.choice[s], storage.consent)

(* d takes nothing to be recorded but what c does.                          *)
TrustsLess(c, d) == d.trusted = Null \/ (d.trusted = c.trusted /\ d.under = c.under)

(* d acts on the same decision as c and reports and trusts no more of it.   *)
NoMoreThan(c, d) ==
    /\ d.consent = c.consent /\ TrustsLess(c, d)
    /\ \A n \in 1 .. Len(d.writes) : \E m \in 1 .. Len(c.writes) :
         LET v == d.writes[n]
             w == c.writes[m]
         IN
         /\ v.at = w.at /\ v.enabled = w.enabled /\ (v.current => w.current)
         /\ v.step = "answered" =>
               w.step = "answered" /\ v.answer = w.answer /\ v.cookie = w.cookie

LEMMA TruthfulLess ==
    ASSUME NEW c, NEW d, NEW s, NEW h, Truthful(c, s, h), NoMoreThan(c, d)
    PROVE  Truthful(d, s, h)
<1>1. d.consent = c.consent /\ TrustsLess(c, d)
    BY DEF NoMoreThan, TrustsLess
<1>2. ASSUME NEW n \in 1 .. Len(d.writes)
      PROVE  LET w == d.writes[n] IN
             /\ NotAfter(w, s)
             /\ w.current => c.consent # Null /\ w.at = c.consent.at /\ w.enabled = c.consent.enabled
             /\ w.step = "answered" /\ w.answer.status = "applied" => Recorded(h, w.cookie, w)
  <2>1. PICK m \in 1 .. Len(c.writes) :
           /\ d.writes[n].at = c.writes[m].at /\ d.writes[n].enabled = c.writes[m].enabled
           /\ d.writes[n].current => c.writes[m].current
           /\ d.writes[n].step = "answered" =>
                 /\ c.writes[m].step = "answered" /\ d.writes[n].answer = c.writes[m].answer
                 /\ d.writes[n].cookie = c.writes[m].cookie
      BY DEF NoMoreThan, TrustsLess
  <2> QED
      BY <2>1 DEF Truthful, NotAfter, HasIt, Recorded
<1> QED
    BY <1>1, <1>2 DEF Truthful, TrustsLess

LEMMA LessFacts ==
    ASSUME NEW c, ClientType(c)
    PROVE  /\ \A d : d.consent = c.consent /\ d.writes = c.writes /\ TrustsLess(c, d)
                     => NoMoreThan(c, d)
           /\ \A recorded \in BOOLEAN :
                 c.writes # <<>> /\ Waits(c) => NoMoreThan(c, Finished(c, recorded))
           /\ \A step \in Steps : c.writes # <<>> /\ step # "answered" =>
                 NoMoreThan(c, Stepped(c, step))
<1>1. ASSUME NEW d, d.consent = c.consent, d.writes = c.writes, TrustsLess(c, d)
      PROVE  NoMoreThan(c, d)
    BY <1>1 DEF NoMoreThan, TrustsLess
<1>2. ASSUME NEW recorded \in BOOLEAN, c.writes # <<>>, Waits(c)
      PROVE  NoMoreThan(c, Finished(c, recorded))
  <2> DEFINE d == Finished(c, recorded)
  <2>1. /\ d.writes = Tail(c.writes)
        /\ \A f \in ClientFields \ {"writes", "job"} : d[f] = c[f]
      BY <1>2, FinishedFacts
  <2>2. d.consent = c.consent /\ d.trusted = c.trusted /\ d.under = c.under
      BY <2>1 DEF ClientFields
  <2>3. \A n \in 1 .. Len(d.writes) : n + 1 \in 1 .. Len(c.writes) /\ d.writes[n] = c.writes[n + 1]
      BY <1>2, <2>1, HeadFacts
  <2> HIDE DEF d
  <2> QED
      BY <2>2, <2>3 DEF NoMoreThan, TrustsLess, d
<1>3. ASSUME NEW step \in Steps, c.writes # <<>>, step # "answered"
      PROVE  NoMoreThan(c, Stepped(c, step))
  <2> DEFINE d == Stepped(c, step)
             w == [c.writes[1] EXCEPT !.step = step]
  <2>1. /\ w \in WriteSet /\ HeadIs(c, d, w)
        /\ \A f \in ClientFields \ {"writes"} : d[f] = c[f]
      BY <1>3, SteppedFacts
  <2>2. c.writes[1] \in WriteSet /\ 1 \in 1 .. Len(c.writes) /\ Len(c.writes) \in Nat
      BY <1>3, HeadFacts
  <2>3. /\ w.at = c.writes[1].at /\ w.enabled = c.writes[1].enabled
        /\ w.current = c.writes[1].current /\ w.cookie = c.writes[1].cookie
        /\ w.step # "answered"
      BY <1>3, <2>2 DEF WriteSet
  <2> HIDE DEF w, d
  <2>4. d.consent = c.consent /\ d.trusted = c.trusted /\ d.under = c.under
      BY <2>1 DEF ClientFields
  <2>5. ASSUME NEW n \in 1 .. Len(d.writes)
        PROVE  /\ n \in 1 .. Len(c.writes)
               /\ d.writes[n].at = c.writes[n].at /\ d.writes[n].enabled = c.writes[n].enabled
               /\ d.writes[n].current = c.writes[n].current
               /\ d.writes[n].step = "answered" =>
                     c.writes[n].step = "answered" /\ d.writes[n].answer = c.writes[n].answer
               /\ d.writes[n].cookie = c.writes[n].cookie
    <3>1. n = 1 \/ n \in 2 .. Len(c.writes)
        BY <2>1, <2>2 DEF HeadIs
    <3> QED
        BY <2>1, <2>2, <2>3, <3>1 DEF HeadIs
  <2> QED
      BY <2>4, <2>5 DEF NoMoreThan, TrustsLess, d
<1> QED
    BY <1>1, <1>2, <1>3

(* A report that is sent, and those that were waiting for a session.        *)
LEMMA SentLess ==
    ASSUME RestType, NEW c, ClientType(c), c.writes # <<>>
    PROVE  NoMoreThan(c, Sent(c))
<1> DEFINE d == Sent(c)
           w == [c.writes[1] EXCEPT !.step = "sent", !.cookie = cookie]
<1>1. /\ w \in WriteSet /\ HeadIs(c, d, w)
      /\ \A f \in ClientFields \ {"writes"} : d[f] = c[f]
    BY SentFacts
<1>2. c.writes[1] \in WriteSet /\ 1 \in 1 .. Len(c.writes) /\ Len(c.writes) \in Nat
    BY HeadFacts
<1>3. /\ w.at = c.writes[1].at /\ w.enabled = c.writes[1].enabled
      /\ w.current = c.writes[1].current /\ w.step = "sent"
    BY <1>2 DEF WriteSet
<1> HIDE DEF w, d
<1>4. d.consent = c.consent /\ d.trusted = c.trusted /\ d.under = c.under
    BY <1>1 DEF ClientFields
<1>5. \A n \in 1 .. Len(d.writes) :
         n \in 1 .. Len(c.writes) /\ d.writes[n] = IF n = 1 THEN w ELSE c.writes[n]
    BY <1>1, <1>2 DEF HeadIs
<1> QED
    BY <1>3, <1>4, <1>5 DEF NoMoreThan, TrustsLess, d

LEMMA ResolvedLess ==
    ASSUME NEW c, ClientType(c), NEW opened \in BOOLEAN
    PROVE  NoMoreThan(c, Resolved(c, opened))
<1> DEFINE d == Resolved(c, opened)
<1>1. /\ Len(d.writes) = Len(c.writes)
      /\ \A n \in 1 .. Len(c.writes) : Onward(c.writes[n], d.writes[n])
      /\ \A f \in ClientFields \ {"ready", "job", "writes"} : d[f] = c[f]
    BY ResolvedFacts
<1> HIDE DEF d
<1>2. d.consent = c.consent /\ d.trusted = c.trusted /\ d.under = c.under
    BY <1>1 DEF ClientFields
<1>3. ASSUME NEW n \in 1 .. Len(d.writes)
      PROVE  /\ n \in 1 .. Len(c.writes)
             /\ d.writes[n].at = c.writes[n].at /\ d.writes[n].enabled = c.writes[n].enabled
             /\ d.writes[n].current = c.writes[n].current
             /\ d.writes[n].step = "answered" =>
                   /\ c.writes[n].step = "answered" /\ d.writes[n].answer = c.writes[n].answer
                   /\ d.writes[n].cookie = c.writes[n].cookie
  <2>1. c.writes[n] \in WriteSet
      BY <1>1, ElementOfSeq DEF ClientType
  <2>2. Onward(c.writes[n], d.writes[n])
      BY <1>1
  <2> QED
      BY <1>1, <2>1, <2>2 DEF Onward, WriteSet
<1> QED
    BY <1>2, <1>3 DEF NoMoreThan, TrustsLess, d

(* Reading the stored decision.                                             *)
LEMMA ReadTruthful ==
    ASSUME TypeOK, NEW c, ClientType(c), NEW h,
           Truthful(c, storage.consent, h)
    PROVE  /\ Truthful(WithConsent(c), storage.consent, h)
           /\ Truthful(Refreshed(c), storage.consent, h)
<1> DEFINE d == WithConsent(c)
<1>1. /\ ClientType(d) /\ Same(c, d)
      /\ d = c \/ /\ d.consent = storage.consent /\ d.trusted = Null
                  /\ \A n \in 1 .. Len(d.writes) : ~d.writes[n].current
    BY WithConsentFacts
<1>2. Truthful(d, storage.consent, h)
  <2>1. CASE d = c
      BY <2>1
  <2>2. CASE /\ d.consent = storage.consent /\ d.trusted = Null
             /\ \A n \in 1 .. Len(d.writes) : ~d.writes[n].current
    <3> HIDE DEF d
    <3>1. Len(d.writes) = Len(c.writes)
        BY <1>1 DEF Same
    <3>2. ASSUME NEW n \in 1 .. Len(d.writes)
          PROVE  /\ NotAfter(d.writes[n], storage.consent)
                 /\ d.writes[n].step = "answered" /\ d.writes[n].answer.status = "applied"
                       => Recorded(h, d.writes[n].cookie, d.writes[n])
      <4>1. /\ d.writes[n].at = c.writes[n].at /\ d.writes[n].enabled = c.writes[n].enabled
            /\ d.writes[n].step = c.writes[n].step /\ d.writes[n].answer = c.writes[n].answer
               /\ d.writes[n].cookie = c.writes[n].cookie
          BY <1>1, <3>1, SameKeeps
      <4> QED
          BY <3>1, <4>1 DEF Truthful, NotAfter, HasIt, Recorded
    <3>3. storage.consent # Null => NotAfter(storage.consent, storage.consent)
        BY DEF NotAfter
    <3> QED
        BY <2>2, <3>2, <3>3 DEF Truthful
  <2> QED
      BY <1>1, <2>1, <2>2
<1>3. /\ Refreshed(c).consent = d.consent /\ Refreshed(c).trusted = d.trusted /\ Refreshed(c).under = d.under
      /\ Refreshed(c).writes = d.writes
    BY RefreshedFacts
<1> HIDE DEF d
<1>4. NoMoreThan(d, Refreshed(c))
    BY <1>1, <1>3, LessFacts DEF d, TrustsLess
<1> QED
    BY <1>2, <1>4, TruthfulLess DEF d

LEMMA ReportedTruthful ==
    ASSUME NEW c, ClientType(c), NEW s, NEW h, Truthful(c, s, h), c.consent # Null,
           NEW w \in WriteSet, w.at = c.consent.at, w.enabled = c.consent.enabled,
           w.step = "queued"
    PROVE  Truthful(Reported(c, w), s, h)
<1> DEFINE d == Reported(c, w)
<1>1. /\ d.writes = Append(c.writes, w)
      /\ \A f \in ClientFields \ {"writes"} : d[f] = c[f]
    BY ReportedFacts
<1>2. /\ Len(d.writes) = Len(c.writes) + 1 /\ Len(c.writes) \in Nat
      /\ \A n \in 1 .. Len(c.writes) : d.writes[n] = c.writes[n]
      /\ d.writes[Len(c.writes) + 1] = w
    BY <1>1, AppendProperties DEF ClientType
<1> HIDE DEF d
<1>3. d.consent = c.consent /\ d.trusted = c.trusted /\ d.under = c.under
    BY <1>1 DEF ClientFields
<1>4. \A n \in 1 .. Len(d.writes) : n \in 1 .. Len(c.writes) \/ n = Len(c.writes) + 1
    BY <1>2
<1>5. NotAfter(w, s)
    BY DEF Truthful, NotAfter
<1> QED
    BY <1>2, <1>3, <1>4, <1>5 DEF Truthful, d

(* A step of one tab that decides nothing.                                  *)
LEMMA UpdateTrusting ==
    ASSUME Orderly, Trusting, NEW t \in Tabs, NEW c, Update(t, c),
           storage'.consent = storage.consent, server'.choice = server.choice,
           Truthful(c, storage.consent, server.choice),
           \A r \in wire' : r.kind = "choice" => NotAfter(r, storage.consent)
    PROVE  Trusting'
<1>1. tab'[t] = c /\ \A u \in Tabs \ {t} : tab'[u] = tab[u]
    BY DEF Update, Orderly, TypeOK
<1> QED
    BY <1>1 DEF Trusting

LEMMA LessTrusting ==
    ASSUME Orderly, Trusting, NEW t \in Tabs, NEW c, Update(t, c),
           storage'.consent = storage.consent, server'.choice = server.choice,
           \A r \in wire' : r.kind = "choice" => NotAfter(r, storage.consent),
           \E e \in {tab[t], WithConsent(tab[t]), Refreshed(tab[t])} :
              c.consent = e.consent /\ c.writes = e.writes /\ TrustsLess(e, c)
    PROVE  Trusting'
<1>1. TypeOK /\ ClientType(tab[t]) /\ ClientType(WithConsent(tab[t])) /\ ClientType(Refreshed(tab[t]))
    BY OrderlyTab
<1>2. \A e \in {tab[t], WithConsent(tab[t]), Refreshed(tab[t])} :
         ClientType(e) /\ Truthful(e, storage.consent, server.choice)
    BY <1>1, ReadTruthful DEF Trusting
<1>3. PICK e \in {tab[t], WithConsent(tab[t]), Refreshed(tab[t])} :
         c.consent = e.consent /\ c.writes = e.writes /\ TrustsLess(e, c)
    OBVIOUS
<1>4. NoMoreThan(e, c)
    BY <1>2, <1>3, LessFacts
<1>5. Truthful(c, storage.consent, server.choice)
    BY <1>2, <1>4, TruthfulLess
<1> QED
    BY <1>5, UpdateTrusting

(* What was no later than a decision is none the later for the next one.    *)
LEMMA TruthfulLater ==
    ASSUME NEW c, ClientType(c), NEW s, s = Null \/ s \in Decisions, NEW u \in Decisions,
           s # Null => u.at > s.at, NEW h, Truthful(c, s, h)
    PROVE  Truthful(c, u, h)
<1>1. ASSUME NEW n \in 1 .. Len(c.writes) PROVE c.writes[n].at \in Nat
  <2>1. c.writes[n] \in WriteSet
      BY ElementOfSeq DEF ClientType
  <2> QED
      BY <2>1 DEF WriteSet
<1>2. c.consent # Null => c.consent.at \in Nat
    BY DEF ClientType, Decisions
<1>3. \A d : d.at \in Nat /\ NotAfter(d, s) => NotAfter(d, u)
    BY NullAssumption DEF NotAfter, Decisions
<1> QED
    BY <1>1, <1>2, <1>3 DEF Truthful

LEMMA ChooseTrusting ==
    ASSUME Orderly, Trusting, NEW t \in Tabs, NEW enabled \in BOOLEAN, Choose(t, enabled)
    PROVE  Trusting'
<1> DEFINE consent == Decision(t, enabled)
           e == Deciding(t, enabled)
           d == Reported(e, Write(e))
           h == server.choice
<1>1. /\ consent \in Decisions /\ (storage.consent # Null => consent.at > storage.consent.at)
      /\ ClientType(e) /\ Same(tab[t], e) /\ e.consent = consent /\ e.trusted = Null
      /\ \A n \in 1 .. Len(e.writes) : ~e.writes[n].current
      /\ Write(e) \in WriteSet
      /\ Update(t, d) /\ UNCHANGED <<clock, cookie, wire, server, tracked>>
      /\ storage' = [storage EXCEPT !.consent = consent]
      /\ count' = [count EXCEPT !.decisions = @ + 1]
    BY ChooseFacts
<1>2. TypeOK /\ RestType
    BY OrderlyTab
<1>3. storage'.consent = consent /\ server'.choice = h
    BY <1>1, <1>2 DEF RestType
<1>4. storage.consent = Null \/ storage.consent \in Decisions
    BY <1>2 DEF RestType
<1>5. \A u \in Tabs : Truthful(tab[u], consent, h)
  <2> HIDE DEF consent
  <2> TAKE u \in Tabs
  <2>1. ClientType(tab[u]) /\ Truthful(tab[u], storage.consent, h)
      BY OrderlyTab DEF Trusting
  <2> HIDE DEF h
  <2> QED
      BY <1>1, <1>4, <2>1, TruthfulLater
<1>6. Write(e).at = e.consent.at /\ Write(e).enabled = e.consent.enabled /\ Write(e).step = "queued"
    BY DEF Write
<1> HIDE DEF consent, e
<1>7. Truthful(e, consent, h)
  <2>1. ClientType(tab[t]) /\ Len(e.writes) = Len(tab[t].writes)
      BY <1>1, OrderlyTab DEF Same
  <2>2. ASSUME NEW n \in 1 .. Len(e.writes)
        PROVE  /\ NotAfter(e.writes[n], consent)
               /\ e.writes[n].step = "answered" /\ e.writes[n].answer.status = "applied"
                     => Recorded(h, e.writes[n].cookie, e.writes[n])
    <3>1. /\ e.writes[n].at = tab[t].writes[n].at /\ e.writes[n].enabled = tab[t].writes[n].enabled
          /\ e.writes[n].step = tab[t].writes[n].step /\ e.writes[n].cookie = tab[t].writes[n].cookie
          /\ e.writes[n].answer = tab[t].writes[n].answer
        BY <1>1, <2>1, SameKeeps
    <3>2. Truthful(tab[t], consent, h)
        BY <1>5
    <3> HIDE DEF h
    <3> QED
        BY <2>1, <3>1, <3>2 DEF Truthful, NotAfter, HasIt, Recorded
  <2>3. NotAfter(consent, consent)
      BY <1>1, NullAssumption DEF NotAfter
  <2> QED
      BY <1>1, <2>2, <2>3 DEF Truthful
<1>8. Truthful(d, consent, h)
  <2>1. e.consent # Null
      BY <1>1, NullAssumption
  <2> HIDE DEF h
  <2> QED
      BY <1>1, <1>6, <1>7, <2>1, ReportedTruthful
<1>9. \A x : x.at \in Nat /\ NotAfter(x, storage.consent) => NotAfter(x, consent)
    BY <1>1, <1>4, NullAssumption DEF NotAfter, Decisions
<1>10. \A q \in wire : q.kind = "choice" => NotAfter(q, consent)
  <2>1. \A q \in wire : q.kind = "choice" => q.at \in Nat
      BY <1>2 DEF TypeOK, Requests, ChoiceRequests, BatchRequests, DeleteRequests
  <2> QED
      BY <1>9, <2>1 DEF Trusting
<1>11. \A s \in Cookies : h[s] # Null => NotAfter(h[s], consent)
  <2>1. \A s \in Cookies : h[s] # Null => h[s].at \in Nat
      BY <1>2 DEF RestType, Decisions
  <2> QED
      BY <1>9, <2>1 DEF Trusting
<1>12. tab'[t] = d /\ \A u \in Tabs \ {t} : tab'[u] = tab[u]
    BY <1>1 DEF Update, Orderly, TypeOK
<1> HIDE DEF d
<1>13. \A u \in Tabs : Truthful(tab'[u], consent, h)
    BY <1>5, <1>8, <1>12
<1>14. wire' = wire
    BY <1>1
<1> QED
    BY <1>3, <1>10, <1>11, <1>13, <1>14 DEF Trusting

LEMMA WriteTrusting ==
    ASSUME Orderly, Trusting, NEW t \in Tabs,
           ReportAgain(t) \/ Synchronize(t) \/ StartWrite(t) \/ SessionForWrite(t)
    PROVE  Trusting'
<1> DEFINE c == WithConsent(tab[t])
           w == Head1(c)
           s == storage.consent
           h == server.choice
<1>1. /\ TypeOK /\ RestType /\ ClientType(c) /\ Waits(c) /\ Same(tab[t], c)
      /\ ClientType(tab[t]) /\ Waits(tab[t])
    BY OrderlyTab
<1>2. Truthful(tab[t], s, h) /\ Truthful(c, s, h)
    BY <1>1, ReadTruthful DEF Trusting
<1>3. tab[t].writes # <<>> => c.writes # <<>>
    BY <1>1, SameKeeps
<1>4. \A q \in wire : q.kind = "choice" => NotAfter(q, s)
    BY DEF Trusting
<1>5. CASE ReportAgain(t)
  <2> DEFINE d == IF Enabled(c) THEN Reported(c, Write(c)) ELSE c
  <2>1. Update(t, d) /\ UNCHANGED <<storage, wire, server>>
      BY <1>5 DEF ReportAgain
  <2>2. Write(c).at = c.consent.at /\ Write(c).enabled = c.consent.enabled
        /\ Write(c).step = "queued"
      BY DEF Write
  <2>3. Enabled(c) => c.consent # Null /\ Write(c) \in WriteSet
      BY <1>1, WriteFacts DEF Enabled
  <2>4. Truthful(d, s, h)
    <3> HIDE DEF c, s, h
    <3> QED
        BY <1>1, <1>2, <2>2, <2>3, ReportedTruthful
  <2> HIDE DEF d
  <2> QED
      BY <1>4, <2>1, <2>4, UpdateTrusting
<1>6. CASE Synchronize(t)
    BY <1>2, <1>4, <1>6, UpdateTrusting DEF Synchronize
<1>7. CASE StartWrite(t)
  <2>1. /\ tab[t].writes # <<>> /\ UNCHANGED <<storage, wire, server>>
        /\ \/ \E recorded \in BOOLEAN : Update(t, Finished(c, recorded))
           \/ \E step \in {"opened", "session"} : Update(t, Stepped(c, step))
      BY <1>7 DEF StartWrite, AtStep, Entry
  <2>2. /\ \A recorded \in BOOLEAN : NoMoreThan(c, Finished(c, recorded))
        /\ \A step \in {"opened", "session"} : NoMoreThan(c, Stepped(c, step))
      BY <1>1, <1>3, <2>1, LessFacts DEF Steps
  <2>3. \A d : NoMoreThan(c, d) => Truthful(d, s, h)
    <3> HIDE DEF c, s, h
    <3> QED
        BY <1>2, TruthfulLess
  <2>4. PICK d : Update(t, d) /\ Truthful(d, s, h)
      BY <2>1, <2>2, <2>3
  <2> QED
      BY <1>4, <2>1, <2>4, UpdateTrusting
<1>8. CASE SessionForWrite(t)
  <2> DEFINE q == [kind |-> "choice", tab |-> t, live |-> TRUE, cookie |-> cookie,
                   enabled |-> w.enabled, at |-> w.at]
  <2>1. /\ tab[t].writes # <<>> /\ UNCHANGED <<storage, server>>
        /\ wire' = wire \/ wire' = wire \cup {q}
        /\ \/ Update(t, Finished(tab[t], FALSE))
           \/ Update(t, Sent(c))
           \/ Update(t, Finished(c, FALSE))
      BY <1>8 DEF SessionForWrite, AtStep
  <2>2. c.writes # <<>> /\ 1 \in 1 .. Len(c.writes)
      BY <1>1, <1>3, <2>1, HeadFacts
  <2>3. NotAfter(q, s)
      BY <1>2, <2>2 DEF Truthful, NotAfter, Head1
  <2> HIDE DEF q
  <2>4. \A x \in wire' : x.kind = "choice" => NotAfter(x, s)
      BY <1>4, <2>1, <2>3
  <2>5. NoMoreThan(tab[t], Finished(tab[t], FALSE)) /\ NoMoreThan(c, Finished(c, FALSE))
      BY <1>1, <2>1, <2>2, LessFacts
  <2>6. NoMoreThan(c, Sent(c))
      BY <1>1, <2>2, SentLess
  <2>7. \A e, d : Truthful(e, s, h) /\ NoMoreThan(e, d) => Truthful(d, s, h)
    <3> HIDE DEF s, h
    <3> QED
        BY TruthfulLess
  <2>8. PICK d : Update(t, d) /\ Truthful(d, s, h)
      BY <1>2, <2>1, <2>5, <2>6, <2>7
  <2> QED
      BY <2>1, <2>4, <2>8, UpdateTrusting
<1> QED
    BY <1>5, <1>6, <1>7, <1>8

LEMMA AnsweredTrusting ==
    ASSUME Orderly, Trusting, NEW t \in Tabs, AnsweredWrite(t)
    PROVE  Trusting'
<1> DEFINE c == WithConsent(tab[t])
           w == Head1(c)
           s == storage.consent
           h == server.choice
           p == [c EXCEPT !.trusted = w.enabled, !.under = w.cookie]
           b == Stepped(tab[t], "session")
           d == [b EXCEPT !.writes[1].again = TRUE, !.ready = FALSE]
<1>1. /\ TypeOK /\ RestType /\ ClientType(c) /\ Waits(c) /\ Same(tab[t], c)
      /\ ClientType(tab[t]) /\ Waits(tab[t])
    BY OrderlyTab
<1>2. Truthful(tab[t], s, h) /\ Truthful(c, s, h)
    BY <1>1, ReadTruthful DEF Trusting
<1>3. tab[t].writes # <<>> /\ tab[t].writes[1].step = "answered"
    BY DEF AnsweredWrite, AtStep, Head1
<1>4. c.writes # <<>> /\ w.step = "answered"
  <2>1. 1 \in 1 .. Len(tab[t].writes)
      BY <1>1, <1>3, HeadFacts
  <2> QED
      BY <1>1, <1>3, <2>1, SameKeeps DEF Head1
<1>5. /\ UNCHANGED <<clock, cookie, storage, wire, server, tracked, lost, count>>
      /\ \/ Update(t, d)
         \/ Update(t, Finished(p, TRUE)) /\ w.answer.status = "applied" /\ StillCurrent(c, w)
         \/ Update(t, Finished(c, FALSE))
         \/ Update(t, Finished(tab[t], FALSE))
    BY DEF AnsweredWrite, Retried
<1>6. \A q \in wire' : q.kind = "choice" => NotAfter(q, s)
    BY <1>5 DEF Trusting
<1>7. \A e, f : Truthful(e, s, h) /\ NoMoreThan(e, f) => Truthful(f, s, h)
  <2> HIDE DEF s, h
  <2> QED
      BY TruthfulLess
<1>8. ASSUME NEW f, Update(t, f), Truthful(f, s, h) PROVE Trusting'
    BY <1>5, <1>6, <1>8, UpdateTrusting
<1>9. CASE Update(t, Finished(c, FALSE)) \/ Update(t, Finished(tab[t], FALSE))
  <2>1. NoMoreThan(c, Finished(c, FALSE)) /\ NoMoreThan(tab[t], Finished(tab[t], FALSE))
      BY <1>1, <1>3, <1>4, LessFacts
  <2> HIDE DEF c, s, h
  <2> QED
      BY <1>2, <1>7, <1>8, <1>9, <2>1
<1>10. CASE Update(t, d)
  <2>1. ClientType(b) /\ NoMoreThan(tab[t], b) /\ b.writes # <<>>
    <3>1. "session" \in Steps
        BY DEF Steps
    <3> QED
        BY <1>1, <1>3, <3>1, SteppedFacts, LessFacts DEF HeadIs
  <2> HIDE DEF b
  <2>2. /\ d.consent = b.consent /\ d.trusted = b.trusted /\ d.under = b.under
        /\ d.writes = [b.writes EXCEPT ![1] = [@ EXCEPT !.again = TRUE]]
      BY <2>1 DEF ClientType, ClientFields
  <2> HIDE DEF d
  <2>3. /\ Len(d.writes) = Len(b.writes) /\ b.writes[1] \in WriteSet
        /\ \A n \in 1 .. Len(b.writes) :
              d.writes[n] = IF n = 1 THEN [b.writes[1] EXCEPT !.again = TRUE] ELSE b.writes[n]
    <3>1. b.writes[1] \in WriteSet /\ b.writes \in Seq(WriteSet) /\ 1 \in 1 .. Len(b.writes)
        BY <2>1, HeadFacts DEF ClientType
    <3>2. [b.writes[1] EXCEPT !.again = TRUE] \in WriteSet
        BY <3>1 DEF WriteSet
    <3> QED
        BY <2>2, <3>1, <3>2, ExceptSeq
  <2>4. LET v == [b.writes[1] EXCEPT !.again = TRUE] IN
        /\ v.at = b.writes[1].at /\ v.enabled = b.writes[1].enabled
        /\ v.current = b.writes[1].current /\ v.step = b.writes[1].step
        /\ v.answer = b.writes[1].answer /\ v.cookie = b.writes[1].cookie
      BY <2>3 DEF WriteSet
  <2>5. ASSUME NEW n \in 1 .. Len(d.writes)
        PROVE  /\ n \in 1 .. Len(b.writes)
               /\ d.writes[n].at = b.writes[n].at /\ d.writes[n].enabled = b.writes[n].enabled
               /\ d.writes[n].current = b.writes[n].current
               /\ d.writes[n].step = b.writes[n].step /\ d.writes[n].answer = b.writes[n].answer
               /\ d.writes[n].cookie = b.writes[n].cookie
      BY <2>3, <2>4
  <2>6. NoMoreThan(b, d)
      BY <2>2, <2>5 DEF NoMoreThan, TrustsLess
  <2> HIDE DEF s, h
  <2> QED
      BY <1>2, <1>7, <1>8, <1>10, <2>1, <2>6 DEF d, b
<1>11. CASE Update(t, Finished(p, TRUE)) /\ w.answer.status = "applied" /\ StillCurrent(c, w)
  <2>1. w \in WriteSet /\ 1 \in 1 .. Len(c.writes)
      BY <1>1, <1>4, HeadFacts DEF Head1
  <2>2. w.enabled \in BOOLEAN /\ w.cookie \in Cookies \cup {Null} /\ w.enabled = c.consent.enabled /\ c.consent # Null /\ w.current
      BY <1>11, <2>1 DEF WriteSet, StillCurrent
  <2>3. /\ w.at = c.consent.at /\ Recorded(h, w.cookie, w)
      BY <1>2, <1>4, <1>11, <2>1, <2>2 DEF Truthful, Head1
  <2> HIDE DEF w, c
  <2>4. /\ DOMAIN p = ClientFields /\ p.trusted = w.enabled /\ p.under = w.cookie
        /\ \A f \in ClientFields \ {"trusted", "under"} : p[f] = c[f]
      BY <1>1 DEF ClientType, ClientFields
  <2> HIDE DEF p
  <2>5. ClientType(p) /\ Waits(p) /\ p.writes = c.writes /\ p.consent = c.consent
      BY <1>1, <2>2, <2>4 DEF ClientType, ClientFields, JobType, Waits
  <2>6. Truthful(p, s, h)
    <3> HIDE DEF s, h
    <3> QED
        BY <1>2, <2>2, <2>3, <2>4, <2>5 DEF Truthful, HasIt, Recorded
  <2>7. NoMoreThan(p, Finished(p, TRUE))
      BY <1>4, <2>5, LessFacts
  <2> HIDE DEF s, h
  <2> QED
      BY <1>7, <1>8, <1>11, <2>6, <2>7 DEF p
<1> QED
    BY <1>5, <1>9, <1>10, <1>11

(* The remaining steps of a tab leave its decision and its reports alone.   *)
LEMMA SendTrusting ==
    ASSUME Orderly, Trusting, NEW t \in Tabs, NEW c \in {tab[t], Refreshed(tab[t])}, Send(t, c)
    PROVE  Trusting'
<1>1. TypeOK /\ RestType /\ ClientType(c)
    BY OrderlyTab
<1>2. UNCHANGED server
    BY <1>1, SendFacts
<1>3. PICK d : /\ Update(t, d) /\ d.writes = c.writes /\ d.trusted = c.trusted /\ d.under = c.under
               /\ \/ /\ WithIdentity(c).error /\ SameCore(WithIdentity(c), d)
                     /\ d.job = NoJob /\ UNCHANGED <<storage, wire>>
                  \/ \E i \in Identifiers : SendStep(t, c, i, d)
    BY <1>1, SendFacts, Zenon
<1>4. WithIdentity(c).consent = c.consent
    BY <1>1, WithIdentityFacts DEF ClientFields
<1>5. /\ d.consent = c.consent /\ storage'.consent = storage.consent
      /\ \A r \in wire' : r.kind = "choice" => r \in wire
  <2>1. CASE SameCore(WithIdentity(c), d) /\ UNCHANGED <<storage, wire>>
      BY <1>4, <2>1 DEF SameCore, CoreFields
  <2>2. ASSUME NEW i \in Identifiers, SendStep(t, c, i, d)
        PROVE  /\ d.consent = c.consent /\ storage'.consent = storage.consent
               /\ \A r \in wire' : r.kind = "choice" => r \in wire
      BY <1>1, <1>4, <2>2 DEF SendStep, CoreFields, BatchOf, RestType
  <2> QED
      BY <1>3, <2>1, <2>2
<1> QED
    BY <1>2, <1>3, <1>5, LessTrusting DEF Trusting, TrustsLess

LEMMA FlushTrusting ==
    ASSUME Orderly, Trusting, NEW t \in Tabs, Flush(t)
    PROVE  Trusting'
<1> DEFINE c == Refreshed(tab[t])
           w == [Write(c) EXCEPT !.flush = TRUE]
           p == Reported(c, w)
           j == [NoJob EXCEPT !.kind = "flush", !.step = "preferring"]
           d == [p EXCEPT !.job = j]
<1>1. /\ TypeOK /\ RestType /\ ClientType(c) /\ ClientType(tab[t])
      /\ Truthful(c, storage.consent, server.choice)
    BY OrderlyTab, ReadTruthful DEF Trusting
<1>2. CASE Send(t, c)
    BY <1>2, SendTrusting
<1>3. CASE Update(t, c) /\ UNCHANGED <<clock, cookie, storage, wire, server, tracked, lost, count>>
    BY <1>1, <1>3, LessTrusting DEF Trusting, TrustsLess
<1>4. CASE /\ Enabled(c) /\ Update(t, d)
           /\ UNCHANGED <<clock, cookie, storage, wire, server, tracked, lost, count>>
  <2>1. Write(c) \in WriteSet /\ c.consent # Null
      BY <1>1, <1>4, WriteFacts DEF Enabled
  <2>2. /\ w \in WriteSet /\ w.at = c.consent.at /\ w.enabled = c.consent.enabled
        /\ w.step = "queued"
    <3>1. /\ Write(c).at = c.consent.at /\ Write(c).enabled = c.consent.enabled
          /\ Write(c).step = "queued"
        BY DEF Write
    <3> QED
        BY <2>1, <3>1 DEF WriteSet
  <2>3. ClientType(p) /\ Truthful(p, storage.consent, server.choice)
    <3> HIDE DEF w, c
    <3> QED
        BY <1>1, <2>1, <2>2, ReportedFacts, ReportedTruthful
  <2> HIDE DEF p, j
  <2>4. d.consent = p.consent /\ d.writes = p.writes /\ d.trusted = p.trusted /\ d.under = p.under
      BY <2>3 DEF ClientType, ClientFields
  <2> HIDE DEF d
  <2>5. Truthful(d, storage.consent, server.choice)
      BY <2>3, <2>4, LessFacts, TruthfulLess DEF TrustsLess
  <2> QED
      BY <1>4, <2>5, UpdateTrusting DEF Trusting
<1> QED
    BY <1>2, <1>3, <1>4 DEF Flush

LEMMA AppliedTrusting ==
    ASSUME Orderly, Trusting, NEW t \in Tabs, NEW c, ClientType(c), NEW next \in Deletions,
           c.consent = tab[t].consent, c.writes = tab[t].writes, c.trusted = tab[t].trusted /\ c.under = tab[t].under,
           Applied(t, c, next), UNCHANGED <<wire, server>>
    PROVE  Trusting'
<1>1. RestType /\ TypeOK
    BY DEF Orderly, TypeOK
<1>2. Effective(c, next) \in Deletions
    BY <1>1, EffectiveFacts
<1>3. ASSUME NEW d, d \in {Failed(c), Advanced(c, Effective(c, next))}
      PROVE  /\ JobDone(d).consent = c.consent /\ JobDone(d).writes = c.writes
             /\ JobDone(d).trusted = c.trusted /\ JobDone(d).under = c.under
  <2>1. ClientType(d) /\ d.consent = c.consent /\ d.writes = c.writes /\ d.trusted = c.trusted /\ d.under = c.under
      BY <1>2, <1>3, FailedFacts, AdvancedFacts DEF ClientFields
  <2> QED
      BY <2>1, JobDoneFacts DEF ClientFields
<1>4. /\ \E d \in {Failed(c), Advanced(c, Effective(c, next))} : Update(t, JobDone(d))
      /\ \/ UNCHANGED storage
         \/ storage' = [storage EXCEPT !.deletion = Effective(c, next)]
    BY DEF Applied
<1>5. storage'.consent = storage.consent
    BY <1>1, <1>4 DEF RestType
<1> QED
    BY <1>3, <1>4, <1>5, LessTrusting DEF Trusting, TrustsLess

(* The answers of the server, which has a decision or a later one for good  *)
(* while the session lasts.                                                 *)
LEMMA TellTrusting ==
    ASSUME Orderly, Trusting, NEW r \in wire, NEW answer, AnswerTo(r, answer), Tell(r, answer),
           storage'.consent = storage.consent,
           \A s \in Cookies : \A d :
              d.at \in Nat /\ HasIt(server.choice[s], d) => HasIt(server'.choice[s], d),
           \A s \in Cookies :
              server'.choice[s] # Null => NotAfter(server'.choice[s], storage.consent),
           r.kind = "choice" /\ answer.status = "applied" => Recorded(server'.choice, r.cookie, r),
           \A q \in wire' : q.kind = "choice" => NotAfter(q, storage.consent)
    PROVE  Trusting'
<1> DEFINE s == storage.consent
           h == server'.choice
<1>1. ASSUME NEW u \in Tabs PROVE Truthful(tab[u], s, h)
  <2>1. ClientType(tab[u]) /\ Truthful(tab[u], s, server.choice)
      BY OrderlyTab DEF Trusting
  <2>2. tab[u].consent # Null => tab[u].consent.at \in Nat
      BY <2>1 DEF ClientType, Decisions
  <2>3. ASSUME NEW m \in 1 .. Len(tab[u].writes) PROVE tab[u].writes[m].at \in Nat
    <3>1. tab[u].writes[m] \in WriteSet
        BY <2>1, ElementOfSeq DEF ClientType
    <3> QED
        BY <3>1 DEF WriteSet
  <2> HIDE DEF s, h
  <2>4. \A x \in Cookies : \A d : d.at \in Nat /\ HasIt(server.choice[x], d) => HasIt(h[x], d)
      BY DEF h
  <2> QED
      BY <2>1, <2>2, <2>3, <2>4 DEF Truthful, Recorded
<1>2. CASE ~r.live
  <2>1. tab' = tab
      BY <1>2 DEF Tell
  <2> QED
      BY <1>1, <2>1 DEF Trusting
<1>3. CASE r.live
  <2> DEFINE c == tab[r.tab]
             d == Told(c, r, answer)
             v == [c.writes[1] EXCEPT !.step = "answered", !.answer = answer]
  <2>1. /\ r.tab \in Tabs /\ \A f \in ClientFields \ {"writes", "job"} : d[f] = c[f]
        /\ r.kind = "choice" => c.writes # <<>> /\ HeadIs(c, d, v)
        /\ r.kind # "choice" => d.writes = c.writes
      BY <1>3, ToldFacts
  <2>2. Update(r.tab, d) /\ Awaited(r, c) /\ ClientType(c) /\ Truthful(c, s, h)
      BY <1>1, <1>3, <2>1, OrderlyTab DEF Tell, Told, Orderly
  <2> HIDE DEF d
  <2>3. tab'[r.tab] = d /\ \A u \in Tabs \ {r.tab} : tab'[u] = tab[u]
      BY <2>1, <2>2 DEF Update, Orderly, TypeOK
  <2>4. d.consent = c.consent /\ d.trusted = c.trusted /\ d.under = c.under
      BY <2>1 DEF ClientFields
  <2>5. CASE r.kind = "choice"
    <3>1. c.writes[1] \in WriteSet /\ 1 \in 1 .. Len(c.writes)
        BY <2>1, <2>2, <2>5, HeadFacts
    <3>2. /\ v.at = c.writes[1].at /\ v.enabled = c.writes[1].enabled
          /\ v.current = c.writes[1].current /\ v.answer = answer
          /\ v.cookie = c.writes[1].cookie
        BY <3>1 DEF WriteSet
    <3>3. answer.status = "applied" => Recorded(h, v.cookie, v)
        BY <2>2, <2>5, <3>2 DEF Awaited, HasIt, Recorded
    <3>4. /\ NotAfter(v, s)
          /\ v.current => c.consent # Null /\ v.at = c.consent.at /\ v.enabled = c.consent.enabled
        BY <2>2, <3>1, <3>2 DEF Truthful, NotAfter
    <3> HIDE DEF v
    <3>5. \A m \in 1 .. Len(d.writes) :
             m \in 1 .. Len(c.writes) /\ d.writes[m] = IF m = 1 THEN v ELSE c.writes[m]
        BY <2>1, <2>2, <2>5, <3>1 DEF HeadIs
    <3> HIDE DEF s, h, c
    <3>6. Truthful(d, s, h)
        BY <2>2, <2>4, <3>2, <3>3, <3>4, <3>5 DEF Truthful
    <3> QED
        BY <1>1, <2>3, <3>6 DEF Trusting, s, h
  <2>6. CASE r.kind # "choice"
    <3>1. Truthful(d, s, h)
        BY <2>1, <2>2, <2>4, <2>6, LessFacts, TruthfulLess DEF TrustsLess
    <3> QED
        BY <1>1, <2>3, <3>1 DEF Trusting
  <2> QED
      BY <2>5, <2>6
<1> QED
    BY <1>2, <1>3

LEMMA DecidedLater ==
    ASSUME NEW c \in Decisions \cup {Null}, NEW r \in ChoiceRequests, Decided(c, r)
    PROVE  LET d == [enabled |-> r.enabled, at |-> r.at] IN
           /\ d # Null /\ HasIt(d, r) /\ \A e : e.at \in Nat /\ HasIt(c, e) => HasIt(d, e)
<1> DEFINE d == [enabled |-> r.enabled, at |-> r.at]
<1>1. d \in Decisions /\ d # Null /\ r.at \in Nat
    BY NullAssumption DEF Decisions, ChoiceRequests
<1>2. c = Null \/ (c.at \in Nat /\ r.at >= c.at)
    BY DEF Decided, Decisions, ChoiceRequests
<1> QED
    BY <1>1, <1>2 DEF HasIt

LEMMA ServeTrusting ==
    ASSUME Orderly, Trusting, NEW r \in wire, Serve(r)
    PROVE  Trusting'
<1>1. RestType /\ r \in Requests /\ server.choice \in [Cookies -> Decisions \cup {Null}]
    BY DEF Orderly, TypeOK, RestType
<1>2. PICK answer :
           /\ Tell(r, answer) /\ AnswerTo(r, answer)
           /\ wire' = wire \ {r} /\ UNCHANGED <<clock, cookie, storage, tracked, count>>
           /\ \/ UNCHANGED server /\ answer.status \in {"expired", "refused"}
              \/ /\ r.kind = "choice" /\ r.cookie \in server.alive
                 /\ answer.status = IF Decided(server.choice[r.cookie], r) THEN "applied"
                                    ELSE "not applied"
                 /\ server' = IF ~Decided(server.choice[r.cookie], r) THEN server
                              ELSE [server EXCEPT !.choice[r.cookie] =
                                      [enabled |-> r.enabled, at |-> r.at]]
              \/ /\ r.kind = "batch" /\ r.epoch <= TombOf(r.install).epoch
                 /\ LET tomb == TombOf(r.install)
                        wanted == {e \in r.events : tomb.before = 0 \/ e.at > tomb.before}
                    IN /\ server' = [server EXCEPT
                              !.tomb[r.install] = tomb,
                              !.stored = @ \cup {[id |-> e.id, at |-> e.at, install |-> r.install]
                                                    : e \in wanted}]
                       /\ answer = [status |-> "ok", epoch |-> tomb.epoch,
                                    before |-> IF tomb.before = 0 THEN Null ELSE tomb.before,
                                    discarded |-> Cardinality(r.events \ wanted)]
              \/ /\ r.kind = "delete"
                 /\ LET tomb == [epoch |-> TombOf(r.install).epoch + 1, before |-> clock] IN
                    /\ server' = [server EXCEPT !.tomb[r.install] = tomb,
                                                !.stored = {e \in @ : e.install # r.install}]
                    /\ answer = [status |-> "ok", epoch |-> tomb.epoch, before |-> clock]
    BY ServeFacts, Zenon
<1>3. DOMAIN server = {"alive", "over", "choice", "tomb", "stored"}
    BY <1>1 DEF RestType
<1>4. storage'.consent = storage.consent
      /\ \A q \in wire' : q.kind = "choice" => NotAfter(q, storage.consent)
    BY <1>2 DEF Trusting
<1>5. CASE r.kind # "choice"
  <2>1. server'.choice = server.choice
    <3>1. CASE UNCHANGED server
        BY <3>1
    <3>2. CASE r.kind = "batch" /\ ~UNCHANGED server
      <4> DEFINE W == {e \in r.events : TombOf(r.install).before = 0 \/ e.at > TombOf(r.install).before}
                 new == {[id |-> e.id, at |-> e.at, install |-> r.install] : e \in W}
      <4>1. server' = [server EXCEPT !.tomb[r.install] = TombOf(r.install), !.stored = @ \cup new]
          BY <1>2, <3>2
      <4> HIDE DEF new
      <4> QED
          BY <1>3, <4>1
    <3>3. CASE r.kind = "delete" /\ ~UNCHANGED server
      <4> DEFINE T == [epoch |-> TombOf(r.install).epoch + 1, before |-> clock]
                 kept == {e \in server.stored : e.install # r.install}
      <4>1. server' = [server EXCEPT !.tomb[r.install] = T, !.stored = kept]
          BY <1>2, <3>3
      <4> HIDE DEF T, kept
      <4> QED
          BY <1>3, <4>1
    <3> QED
        BY <1>2, <1>5, <3>1, <3>2, <3>3
  <2>2. \A s \in Cookies : server'.choice[s] # Null => NotAfter(server'.choice[s], storage.consent)
      BY <2>1 DEF Trusting
  <2> QED
      BY <1>2, <1>4, <1>5, <2>1, <2>2, TellTrusting
<1>6. CASE r.kind = "choice"
  <2> DEFINE d == [enabled |-> r.enabled, at |-> r.at]
  <2>1. r \in ChoiceRequests
      BY <1>1, <1>6 DEF Requests, ChoiceRequests, BatchRequests, DeleteRequests
  <2>2. NotAfter(r, storage.consent)
      BY <1>6 DEF Trusting
  <2>3. NotAfter(d, storage.consent)
      BY <2>2 DEF NotAfter
  <2>4. \/ server' = server /\ answer.status # "applied"
        \/ /\ r.cookie \in server.alive /\ Decided(server.choice[r.cookie], r)
           /\ server' = [server EXCEPT !.choice[r.cookie] = d]
    <3>1. "applied" \notin {"expired", "refused"} /\ "applied" # "not applied"
        OBVIOUS
    <3> HIDE DEF d
    <3> QED
        BY <1>2, <1>6, <3>1 DEF d
  <2>5. CASE server' = server /\ answer.status # "applied"
    <3>1. \A s \in Cookies : server'.choice[s] # Null => NotAfter(server'.choice[s], storage.consent)
        BY <2>5 DEF Trusting
    <3> QED
        BY <1>2, <1>4, <2>5, <3>1, TellTrusting
  <2>6. CASE /\ r.cookie \in server.alive /\ Decided(server.choice[r.cookie], r)
             /\ server' = [server EXCEPT !.choice[r.cookie] = d]
    <3> DEFINE x == r.cookie
    <3>1. x \in Cookies /\ server.choice[x] \in Decisions \cup {Null}
        BY <1>1, <2>6 DEF RestType
    <3>2. d # Null /\ HasIt(d, r)
          /\ \A e : e.at \in Nat /\ HasIt(server.choice[x], e) => HasIt(d, e)
        BY <2>1, <2>6, <3>1, DecidedLater
    <3> HIDE DEF d
    <3>3. server'.choice = [server.choice EXCEPT ![x] = d]
        BY <1>3, <2>6
    <3>4. server'.choice[x] = d /\ \A s \in Cookies \ {x} : server'.choice[s] = server.choice[s]
        BY <1>1, <3>1, <3>3
    <3>5. \A s \in Cookies : server'.choice[s] # Null => NotAfter(server'.choice[s], storage.consent)
        BY <2>3, <3>4 DEF Trusting
    <3>6. Recorded(server'.choice, r.cookie, r)
        BY <3>1, <3>2, <3>4 DEF Recorded
    <3>7. \A s \in Cookies : \A e :
             e.at \in Nat /\ HasIt(server.choice[s], e) => HasIt(server'.choice[s], e)
        BY <3>2, <3>4
    <3> QED
        BY <1>2, <1>4, <3>5, <3>6, <3>7, TellTrusting
  <2> QED
      BY <2>4, <2>5, <2>6
<1> QED
    BY <1>5, <1>6

LEMMA LoseTrusting ==
    ASSUME Orderly, Trusting, NEW r \in wire, Lose(r) \/ LoseAnswer(r)
    PROVE  Trusting'
<1>1. r \in Requests /\ RestType
    BY DEF Orderly, TypeOK
<1>2. /\ Tell(r, Answer("failed")) /\ UNCHANGED <<storage, server>>
      /\ wire' \subseteq (wire \ {r}) \cup {[r EXCEPT !.live = FALSE]}
    BY DEF Lose, LoseAnswer
<1>3. \A q \in wire' : q.kind = "choice" => NotAfter(q, storage.consent)
  <2>1. r.kind \in {"choice", "batch", "delete"}
      BY <1>1 DEF Requests, ChoiceRequests, BatchRequests, DeleteRequests
  <2> QED
      BY <1>1, <1>2, <2>1, DeadFacts DEF Trusting, NotAfter
<1>4. Answer("failed").status # "applied"
    BY DEF Answer
<1>5. server'.choice = server.choice /\ storage'.consent = storage.consent
    BY <1>2
<1> QED
    BY <1>2, <1>3, <1>4, <1>5, TellTrusting, FailedAnswer DEF Trusting

LEMMA ReloadTrusting ==
    ASSUME Orderly, Trusting, NEW t \in Tabs, Reload(t)
    PROVE  Trusting'
<1> DEFINE d == Constructed(tab[t].queue, tab[t].epoch)
<1>1. TypeOK /\ RestType /\ ClientType(tab[t])
    BY OrderlyTab
<1>2. d.writes = <<>> /\ d.trusted = Null /\ d.consent = storage.consent
    BY <1>1, ConstructedFacts DEF ClientType
<1>3. /\ Update(t, d) /\ UNCHANGED <<storage, server>>
      /\ wire' = {IF r.tab = t THEN [r EXCEPT !.live = FALSE] ELSE r : r \in wire}
    BY DEF Reload, Abandoned
<1> HIDE DEF d
<1>4. \A q \in wire' : q.kind = "choice" => NotAfter(q, storage.consent)
  <2>1. SUFFICES ASSUME NEW q \in wire', q.kind = "choice" PROVE NotAfter(q, storage.consent)
      OBVIOUS
  <2>2. PICK r \in wire : q = IF r.tab = t THEN [r EXCEPT !.live = FALSE] ELSE r
      BY <1>3
  <2>3. r \in Requests
      BY <1>1 DEF TypeOK
  <2>4. r.kind = "choice" /\ q.at = r.at /\ q.enabled = r.enabled
      BY <2>1, <2>2, <2>3, DeadFacts
  <2> QED
      BY <2>4 DEF Trusting, NotAfter
<1>5. Truthful(d, storage.consent, server.choice)
    BY <1>2 DEF Truthful, NotAfter
<1>6. storage'.consent = storage.consent /\ server'.choice = server.choice
    BY <1>3
<1> QED
    BY <1>3, <1>4, <1>5, <1>6, UpdateTrusting

LEMMA TabTrusting ==
    ASSUME Orderly, Trusting, NEW t \in Tabs,
           \/ \E enabled \in BOOLEAN : Choose(t, enabled)
           \/ ReportAgain(t) \/ Synchronize(t)
           \/ StartWrite(t) \/ SessionForWrite(t) \/ AnsweredWrite(t)
           \/ Track(t)
           \/ Flush(t) \/ FlushReported(t) \/ FlushAnswered(t)
           \/ Delete(t) \/ SessionForDelete(t) \/ DeleteAnswered(t)
           \/ Reload(t)
    PROVE  Trusting'
<1> DEFINE c == tab[t]
<1>1. TypeOK /\ RestType /\ ClientType(c)
    BY OrderlyTab
<1>2. ASSUME NEW enabled \in BOOLEAN, Choose(t, enabled) PROVE Trusting'
    BY <1>2, ChooseTrusting
<1>3. CASE ReportAgain(t) \/ Synchronize(t) \/ StartWrite(t) \/ SessionForWrite(t)
    BY <1>3, WriteTrusting
<1>4. CASE AnsweredWrite(t)
    BY <1>4, AnsweredTrusting
<1>5. CASE Track(t)
  <2> DEFINE p == Refreshed(c)
             e == [id |-> Cardinality(tracked) + 1, at |-> clock]
             d == IF Enabled(p) THEN [p EXCEPT !.queue = Trimmed(@ \cup {e})] ELSE p
  <2>1. Update(t, d) /\ UNCHANGED <<storage, wire, server>>
      BY <1>5 DEF Track
  <2>2. ClientType(p)
      BY OrderlyTab
  <2>3. d.consent = p.consent /\ d.writes = p.writes /\ d.trusted = p.trusted /\ d.under = p.under
      BY <2>2 DEF ClientType, ClientFields
  <2> HIDE DEF d
  <2> QED
      BY <2>1, <2>3, LessTrusting DEF Trusting, TrustsLess
<1>6. CASE Flush(t)
    BY <1>6, FlushTrusting
<1>7. CASE FlushReported(t)
    BY <1>7, SendTrusting DEF FlushReported
<1>8. CASE FlushAnswered(t)
  <2> DEFINE a == c.job.answer
             r == [c EXCEPT !.trusted = IF a.status = "failed" THEN @ ELSE Null,
                            !.ready = @ /\ a.status # "expired"]
  <2>1. /\ ClientType(r) /\ \A f \in ClientFields \ {"trusted", "ready"} : r[f] = c[f]
        /\ TrustsLess(c, r) /\ UNCHANGED <<wire, server>>
        /\ \/ Update(t, JobDone(r)) /\ UNCHANGED storage
           \/ Update(t, JobDone(c)) /\ UNCHANGED storage
           \/ Update(t, JobDone(WithoutSent(c))) /\ UNCHANGED storage
           \/ Applied(t, WithoutSent(c), NewBoundary(c)) /\ NewBoundary(c) \in Deletions
      BY <1>8, FlushAnsweredFacts DEF TrustsLess, ClientFields
  <2> HIDE DEF r
  <2>2. /\ ClientType(WithoutSent(c)) /\ WithoutSent(c).consent = c.consent
        /\ WithoutSent(c).writes = c.writes /\ WithoutSent(c).trusted = c.trusted /\ WithoutSent(c).under = c.under
        /\ r.consent = c.consent /\ r.writes = c.writes
      BY <1>1, <2>1, WithoutSentFacts DEF ClientFields
  <2>3. \A d \in {r, c, WithoutSent(c)} :
           /\ JobDone(d).consent = c.consent /\ JobDone(d).writes = c.writes
           /\ TrustsLess(c, JobDone(d))
    <3>1. \A d \in {r, c, WithoutSent(c)} : ClientType(d)
        BY <1>1, <2>1, <2>2
    <3> QED
        BY <2>1, <2>2, <3>1, JobDoneFacts DEF ClientFields, TrustsLess
  <2>4. CASE Applied(t, WithoutSent(c), NewBoundary(c)) /\ NewBoundary(c) \in Deletions
      BY <2>1, <2>2, <2>4, AppliedTrusting
  <2>5. ASSUME NEW d \in {r, c, WithoutSent(c)}, Update(t, JobDone(d)), UNCHANGED storage
        PROVE  Trusting'
      BY <2>1, <2>3, <2>5, LessTrusting DEF Trusting, TrustsLess
  <2> QED
      BY <2>1, <2>4, <2>5
<1>9. CASE Delete(t)
  <2> DEFINE p == WithIdentity(c)
             j == [NoJob EXCEPT !.kind = "delete", !.step = Entry(p)]
  <2>1. ClientType(p) /\ p.consent = c.consent /\ p.writes = c.writes /\ p.trusted = c.trusted /\ p.under = c.under
      BY <1>1, WithIdentityFacts
  <2>2. PICK i \in (IF p.identity = Null THEN Identities ELSE {p.identity}) :
           /\ storage' = IF p.identity = Null THEN [storage EXCEPT !.identity = i] ELSE storage
           /\ Update(t, [p EXCEPT !.identity = i, !.job = j])
      BY <1>9 DEF Delete
  <2>3. UNCHANGED <<wire, server>>
      BY <1>9 DEF Delete
  <2> HIDE DEF p, j
  <2> DEFINE d == [p EXCEPT !.identity = i, !.job = j]
  <2>4. d.consent = p.consent /\ d.writes = p.writes /\ d.trusted = p.trusted /\ d.under = p.under
      BY <2>1 DEF ClientType, ClientFields
  <2> HIDE DEF d
  <2>5. storage'.consent = storage.consent
      BY <1>1, <2>2, <2>3 DEF RestType
  <2>6. d.consent = c.consent /\ d.writes = c.writes /\ TrustsLess(c, d)
      BY <2>1, <2>4 DEF TrustsLess
  <2>7. Update(t, d)
      BY <2>2 DEF d
  <2> QED
      BY <2>3, <2>5, <2>6, <2>7, LessTrusting DEF Trusting, TrustsLess
<1>10. CASE SessionForDelete(t)
  <2> DEFINE d == [c EXCEPT !.job.step = "sent"]
  <2>1. /\ UNCHANGED <<storage, server>>
        /\ \A r \in wire' : r \in wire \/ r.kind = "delete"
        /\ Update(t, JobDone(c)) \/ Update(t, d)
      BY <1>10 DEF SessionForDelete
  <2>2. d.consent = c.consent /\ d.writes = c.writes /\ TrustsLess(c, d)
      BY <1>1 DEF ClientType, ClientFields, TrustsLess
  <2>3. JobDone(c).consent = c.consent /\ JobDone(c).writes = c.writes /\ TrustsLess(c, JobDone(c))
      BY <1>1, JobDoneFacts DEF ClientFields, TrustsLess
  <2> HIDE DEF d
  <2>4. \A r \in wire' : r.kind = "choice" => NotAfter(r, storage.consent)
      BY <2>1 DEF Trusting
  <2>5. server'.choice = server.choice /\ storage'.consent = storage.consent
      BY <2>1
  <2> QED
      BY <2>1, <2>2, <2>3, <2>4, <2>5, LessTrusting
<1>11. CASE DeleteAnswered(t)
  <2> DEFINE d == [c EXCEPT !.job.step = "session", !.job.again = TRUE, !.ready = FALSE]
  <2>1. UNCHANGED <<wire, server>>
      BY <1>11 DEF DeleteAnswered
  <2>2. \/ Update(t, d) /\ UNCHANGED storage
        \/ Update(t, JobDone(c)) /\ UNCHANGED storage
        \/ Applied(t, c, NewBoundary(c)) /\ c.job.answer.status = "ok"
      BY <1>11 DEF DeleteAnswered, NewBoundary
  <2>3. /\ d.consent = c.consent /\ d.writes = c.writes /\ d.trusted = c.trusted /\ d.under = c.under
        /\ JobDone(c).consent = c.consent /\ JobDone(c).writes = c.writes
        /\ JobDone(c).trusted = c.trusted /\ JobDone(c).under = c.under
      BY <1>1, JobDoneFacts DEF ClientType, ClientFields
  <2> HIDE DEF d
  <2>4. c.job.answer.status = "ok" => NewBoundary(c) \in Deletions
      BY <1>1, <1>11 DEF DeleteAnswered, ClientType, JobType, NewBoundary, Deletions
  <2>5. CASE Applied(t, c, NewBoundary(c)) /\ c.job.answer.status = "ok"
      BY <1>1, <2>1, <2>4, <2>5, AppliedTrusting
  <2>6. CASE (Update(t, d) \/ Update(t, JobDone(c))) /\ UNCHANGED storage
      BY <2>1, <2>3, <2>6, LessTrusting DEF Trusting, TrustsLess
  <2> QED
      BY <2>2, <2>5, <2>6
<1>12. CASE Reload(t)
    BY <1>12, ReloadTrusting
<1> QED
    BY <1>2, <1>3, <1>4, <1>5, <1>6, <1>7, <1>8, <1>9, <1>10, <1>11, <1>12

LEMMA OpenTrusting ==
    ASSUME Orderly, Trusting, NEW r \in asked, Open(r) \/ LoseOpening(r)
    PROVE  Trusting'
<1>1. /\ UNCHANGED <<storage, wire>>
      /\ \/ UNCHANGED server
         \/ \E s \in Cookies : server' = [server EXCEPT !.alive = @ \cup {s}]
      /\ \/ UNCHANGED tab
         \/ /\ r.tab \in Tabs
            /\ \E opened \in BOOLEAN : Update(r.tab, Resolved(tab[r.tab], opened))
    BY OpenFacts
<1>2. server'.choice = server.choice
    BY <1>1 DEF Orderly, TypeOK, RestType
<1>3. CASE UNCHANGED tab
    BY <1>1, <1>2, <1>3 DEF Trusting
<1>4. ASSUME r.tab \in Tabs, NEW opened \in BOOLEAN, Update(r.tab, Resolved(tab[r.tab], opened))
      PROVE  Trusting'
  <2>1. ClientType(tab[r.tab]) /\ Truthful(tab[r.tab], storage.consent, server.choice)
      BY <1>4, OrderlyTab DEF Trusting
  <2>2. NoMoreThan(tab[r.tab], Resolved(tab[r.tab], opened))
      BY <2>1, ResolvedLess
  <2>3. Truthful(Resolved(tab[r.tab], opened), storage.consent, server.choice)
      BY <2>1, <2>2, TruthfulLess
  <2>4. \A q \in wire' : q.kind = "choice" => NotAfter(q, storage.consent)
      BY <1>1 DEF Trusting
  <2> QED
      BY <1>1, <1>2, <1>4, <2>3, <2>4, UpdateTrusting
<1> QED
    BY <1>1, <1>3, <1>4

LEMMA StepTrusting == Orderly /\ Trusting /\ [ClientNext]_client => Trusting'
<1> SUFFICES ASSUME Orderly, Trusting, [ClientNext]_client PROVE Trusting'
    OBVIOUS
<1>1. ASSUME NEW r \in wire, Serve(r) \/ Lose(r) \/ LoseAnswer(r) PROVE Trusting'
    BY <1>1, ServeTrusting, LoseTrusting
<1>2. CASE ClockTicks \/ SessionExpires \/ UNCHANGED client
  <2>1. UNCHANGED <<storage, wire, tab>> /\ server'.choice = server.choice
      BY <1>2 DEF ClockTicks, SessionExpires, client, Orderly, TypeOK, RestType
  <2> QED
      BY <2>1 DEF Trusting
<1>3. ASSUME NEW r \in asked, Open(r) \/ LoseOpening(r) PROVE Trusting'
    BY <1>3, OpenTrusting
<1> QED
    BY <1>1, <1>2, <1>3, TabTrusting DEF ClientNext

(* What a tab holds recorded is what it has decided, and the session of its *)
(* report has it, whichever the browser is given: nothing later than what   *)
(* is stored was ever reported, and no session goes back, whatever arrives  *)
(* late.                                                                    *)
THEOREM TrustIsJustified == ClientSpec => []TrustedChoice
<1>1. ClientInit => Trusting
  <2> SUFFICES ASSUME ClientInit PROVE Trusting
      OBVIOUS
  <2>1. NewClient.consent = Null /\ NewClient.trusted = Null /\ NewClient.writes = <<>>
      BY DEF NewClient
  <2>2. \A s, h : Truthful(NewClient, s, h)
      BY <2>1 DEF Truthful
  <2> HIDE DEF NewClient
  <2>3. \A t \in Tabs : tab[t] = NewClient
      BY DEF ClientInit
  <2> QED
      BY <2>2, <2>3 DEF ClientInit, Trusting
<1>2. Orderly /\ Trusting => TrustedChoice
  <2> SUFFICES ASSUME Orderly, Trusting, NEW t \in Tabs, tab[t].trusted # Null,
                      tab[t].consent = storage.consent
               PROVE  /\ tab[t].trusted = tab[t].consent.enabled
                      /\ server.choice[tab[t].under] = tab[t].consent
      BY DEF TrustedChoice
  <2> DEFINE s == storage.consent
             x == tab[t].under
             h == server.choice[x]
  <2>1. Truthful(tab[t], s, server.choice)
      BY DEF Trusting
  <2>2. tab[t].trusted = s.enabled /\ s # Null /\ x \in Cookies /\ HasIt(h, s)
      BY <2>1 DEF Truthful, Recorded
  <2>3. h # Null /\ NotAfter(h, s)
      BY <2>2 DEF Trusting, HasIt
  <2>4. h \in Decisions /\ s \in Decisions /\ h.at >= s.at
      BY <2>2, <2>3 DEF HasIt, Orderly, TypeOK, RestType
  <2>5. h.at = s.at /\ h.enabled = s.enabled
      BY <2>3, <2>4 DEF NotAfter, Decisions
  <2>6. h = s
      BY <2>4, <2>5 DEF Decisions
  <2> QED
      BY <2>2, <2>6
<1> QED
    BY <1>1, <1>2, InitOrderly, StepOrderly, StepTrusting, PTL DEF ClientSpec

---------------------------------------------------------------------------
(* What the browser has heard of deletions: what is stored, what the tabs   *)
(* hold, and an answer that is yet to be read.                              *)
Says(c) == /\ c.job.kind # "none" /\ c.job.step = "answered"
           /\ c.job.answer.status = "ok" /\ c.job.answer.before # Null
Heard ==
    (({storage.deletion} \cup {tab[t].deletion : t \in Tabs}) \ {Null})
        \cup {tab[t].job.answer : t \in {u \in Tabs : Says(tab[u])}}

(* The tombstone of the identity that is stored.                            *)
Tomb == IF storage.identity = Null THEN [epoch |-> 0, before |-> 0]
        ELSE TombOf(storage.identity)

SameTime(d, e) == d.epoch = e.epoch /\ d.before = e.before

(* It is never more than what the server has, an epoch is of one moment     *)
(* only, and what is stored is of the identity that is stored.              *)
TombsPast ==
    \A i \in Identifiers :
        TombOf(i).before <= clock /\ (TombOf(i).epoch = 0 => TombOf(i).before = 0)
NotAhead ==
    \A d \in Heard :
        /\ d.epoch >= 1 /\ d.epoch <= Tomb.epoch /\ d.before <= Tomb.before
        /\ d.epoch = Tomb.epoch => d.before = Tomb.before
EpochsAgree == \A d, e \in Heard : d.epoch = e.epoch => d.before = e.before
Owned ==
    /\ storage.deletion # Null => storage.deletion.install = storage.identity
    /\ \A t \in Tabs : tab[t].deletion # Null => tab[t].deletion.install = storage.identity
Behind == TombsPast /\ NotAhead /\ EpochsAgree /\ Owned

(* The queue of c has nothing from before the deletion it knows of, which   *)
(* is no newer than the one that is stored.                                 *)
Kept(e, d) == d # Null => e.at >= d.before
NoNewer(d, e) == d # Null => e # Null /\ ~Newer(d, e)
Fits(c, stored) ==
    /\ ~c.error
    /\ NoNewer(c.deletion, stored)
    /\ c.epoch = EpochOf(c.deletion)
    /\ \A e \in c.queue : Kept(e, c.deletion)

(* A batch that is under way fits what is stored.                           *)
Sound(r, stored) == r.epoch = EpochOf(stored) /\ \A e \in r.events : Kept(e, stored)

Dated ==
    /\ Behind
    /\ \A t \in Tabs : /\ Fits(tab[t], storage.deletion)
                       /\ tab[t].job.kind = "flush" => tab[t].deletion = storage.deletion
    /\ \A r \in wire : r.kind = "batch" /\ r.live => Sound(r, storage.deletion)

LEMMA NothingHeard ==
    ASSUME Orderly, Named, Behind, storage.identity = Null
    PROVE  /\ Heard = {} /\ storage.deletion = Null /\ \A t \in Tabs : tab[t].deletion = Null
<1>1. \A t \in Tabs : ClientType(tab[t]) /\ tab[t].identity = Null
    BY OrderlyTab DEF Named
<1>2. storage.deletion \in Deletions \cup {Null}
    BY DEF Orderly, TypeOK, RestType
<1>3. \A d \in Deletions : d.install # Null
    BY NullAssumption DEF Deletions
<1>4. storage.deletion = Null /\ \A t \in Tabs : tab[t].deletion = Null
    BY <1>1, <1>2, <1>3 DEF Behind, Owned, ClientType
<1>5. \A t \in Tabs : ~Says(tab[t])
    BY <1>1 DEF Says, ClientType, JobType
<1> QED
    BY <1>4, <1>5 DEF Heard

(* A step of one tab, which may store a deletion it has heard of.           *)
LEMMA UpdateBehind ==
    ASSUME Orderly, Named, Behind, NEW t \in Tabs, NEW d, Update(t, d),
           server'.tomb = server.tomb, clock' = clock,
           storage'.identity = storage.identity \/ storage.identity = Null,
           d.deletion \in {Null, tab[t].deletion, storage.deletion, storage'.deletion},
           Says(d) => Says(tab[t]) /\ d.job.answer = tab[t].job.answer,
           \/ storage'.deletion = storage.deletion
           \/ \E h \in Heard : /\ SameTime(storage'.deletion, h)
                               /\ storage'.deletion.install = storage.identity
    PROVE  Behind'
<1>1. tab'[t] = d /\ \A u \in Tabs \ {t} : tab'[u] = tab[u]
    BY DEF Update, Orderly, TypeOK
<1>2. \A i \in Identifiers : TombOf(i)' = TombOf(i)
    BY DEF TombOf
<1>3. ASSUME NEW x \in Heard' PROVE \E h \in Heard : SameTime(x, h)
  <2>1. \A h \in Heard : SameTime(h, h)
      BY DEF SameTime
  <2>2. \A u \in Tabs : tab[u].deletion # Null => tab[u].deletion \in Heard
      BY DEF Heard
  <2>3. storage.deletion # Null => storage.deletion \in Heard
      BY DEF Heard
  <2>4. \A u \in Tabs : Says(tab[u]) => tab[u].job.answer \in Heard
      BY DEF Heard
  <2>5. storage'.deletion # Null => \E h \in Heard : SameTime(storage'.deletion, h)
      BY <2>1, <2>3
  <2>6. CASE x = storage'.deletion /\ x # Null
      BY <2>5, <2>6
  <2>7. ASSUME NEW u \in Tabs, x = tab'[u].deletion, x # Null
        PROVE  \E h \in Heard : SameTime(x, h)
      BY <1>1, <2>1, <2>2, <2>3, <2>5, <2>7
  <2>8. ASSUME NEW u \in Tabs, Says(tab'[u]), x = tab'[u].job.answer
        PROVE  \E h \in Heard : SameTime(x, h)
      BY <1>1, <2>1, <2>4, <2>8
  <2>9. Heard' = (({storage'.deletion} \cup {tab'[u].deletion : u \in Tabs}) \ {Null})
                    \cup {tab'[u].job.answer : u \in {v \in Tabs : Says(tab'[v])}}
      BY DEF Heard, Says
  <2> QED
      BY <2>6, <2>7, <2>8, <2>9
<1>4. ASSUME NEW x \in {storage'.deletion} \cup {tab'[u].deletion : u \in Tabs}, x # Null
      PROVE  x.install = storage'.identity
  <2>1. CASE storage.identity = Null
      BY <1>1, <1>4, <2>1, NothingHeard
  <2>2. CASE storage.identity # Null
    <3>1. storage'.identity = storage.identity
        BY <2>2
    <3>2. storage'.deletion # Null => storage'.deletion.install = storage.identity
        BY DEF Behind, Owned
    <3> QED
        BY <1>1, <1>4, <3>1, <3>2 DEF Behind, Owned
  <2> QED
      BY <2>1, <2>2
<1>5. Heard # {} => Tomb' = Tomb
  <2>1. ASSUME Heard # {} PROVE storage.identity # Null /\ storage'.identity = storage.identity
      BY <2>1, NothingHeard
  <2>2. storage.identity # Null => storage.identity \in Identifiers
      BY DEF Orderly, TypeOK, RestType
  <2> QED
      BY <1>2, <2>1, <2>2 DEF Tomb
<1>6. TombsPast'
    BY <1>2 DEF Behind, TombsPast
<1>7. NotAhead'
  <2> SUFFICES ASSUME NEW x \in Heard'
               PROVE  /\ x.epoch >= 1 /\ x.epoch <= Tomb'.epoch /\ x.before <= Tomb'.before
                      /\ x.epoch = Tomb'.epoch => x.before = Tomb'.before
      BY DEF NotAhead
  <2>1. PICK h \in Heard : SameTime(x, h)
      BY <1>3
  <2>2. Tomb' = Tomb
      BY <1>5
  <2> QED
      BY <2>1, <2>2 DEF Behind, NotAhead, SameTime
<1>8. EpochsAgree'
    BY <1>3 DEF Behind, EpochsAgree, SameTime
<1>9. Owned'
    BY <1>4 DEF Owned
<1> QED
    BY <1>6, <1>7, <1>8, <1>9 DEF Behind

LEMMA NewerFacts ==
    ASSUME NEW d \in Deletions, NEW e \in Deletions, NEW f \in Deletions
    PROVE  /\ ~Newer(d, d) /\ (Newer(d, e) => ~Newer(e, d))
           /\ ~Newer(d, e) /\ ~Newer(e, f) => ~Newer(d, f)
           /\ ~Newer(d, e) /\ ~Newer(e, d) => SameTime(d, e)
           /\ ~Newer(d, e) => d.epoch <= e.epoch
           /\ SameTime(d, e) /\ d.install = e.install => d = e
    BY DEF Newer, SameTime, Deletions

(* A client that has not failed and need not: it is of the identity that is *)
(* stored and knows of no deletion but by the same moment.                  *)
Fine(c) ==
    /\ ClientType(c) /\ Fits(c, storage.deletion) /\ c.identity \in {Null, storage.identity}
    /\ c.deletion # Null =>
          /\ c.deletion.install = storage.identity
          /\ c.deletion.epoch = storage.deletion.epoch => c.deletion.before = storage.deletion.before

LEMMA FineTab ==
    ASSUME Orderly, Named, Dated
    PROVE  /\ \A t \in Tabs : Fine(tab[t])
           /\ storage.deletion # Null => storage.deletion.install = storage.identity
<1> SUFFICES ASSUME NEW t \in Tabs PROVE Fine(tab[t])
    BY DEF Dated, Behind, Owned
<1>1. ClientType(tab[t]) /\ Fits(tab[t], storage.deletion) /\ tab[t].identity \in {Null, storage.identity}
  <2>1. ClientType(tab[t])
      BY OrderlyTab
  <2>2. Fits(tab[t], storage.deletion) /\ tab[t].identity \in {Null, storage.identity}
      BY DEF Dated, Named
  <2> QED
      BY <2>1, <2>2
<1>2. tab[t].deletion # Null => storage.deletion # Null
    BY <1>1 DEF Fits, NoNewer
<1>3. tab[t].deletion # Null => tab[t].deletion \in Heard /\ storage.deletion \in Heard
    BY <1>2 DEF Heard
<1> QED
    BY <1>1, <1>3 DEF Fine, Dated, Behind, EpochsAgree, Owned

LEMMA ReadConsentFine ==
    ASSUME TypeOK, NEW c, Fine(c)
    PROVE  LET d == WithConsent(c) IN
           /\ Fine(d) /\ d.deletion = c.deletion /\ d.queue \subseteq c.queue
           /\ d.queue = c.queue \/ ~On(storage.consent)
           /\ d.consent = storage.consent /\ ~d.error
<1> DEFINE d == WithConsent(c)
<1>0. ClientType(c) /\ ~c.error
    BY DEF Fine, Fits
<1>1. /\ ClientType(d) /\ d.identity = c.identity /\ d.deletion = c.deletion /\ d.error = c.error
      /\ ~c.error => d.consent = storage.consent
      /\ \/ d.queue = c.queue /\ d.epoch = c.epoch
         \/ /\ ~On(storage.consent) /\ d.queue = {}
            /\ d.epoch = IF c.deletion = Null THEN c.epoch ELSE c.deletion.epoch
    BY <1>0, WithConsentFacts
<1> HIDE DEF d
<1>2. d.epoch = EpochOf(d.deletion)
    BY <1>1 DEF Fine, Fits, EpochOf
<1>3. Fine(d)
    BY <1>1, <1>2 DEF Fine, Fits
<1> QED
    BY <1>0, <1>1, <1>3 DEF d

LEMMA ReadIdentityFine ==
    ASSUME TypeOK, NEW c, Fine(c)
    PROVE  LET d == WithIdentity(c) IN
           /\ Fine(d) /\ d.deletion = c.deletion /\ d.queue = c.queue /\ d.epoch = c.epoch
           /\ d.identity = storage.identity /\ ~d.error /\ d.consent = c.consent
<1> DEFINE d == WithIdentity(c)
<1>0. ClientType(c) /\ ~c.error
    BY DEF Fine, Fits
<1>1. /\ ClientType(d) /\ d.deletion = c.deletion /\ d.consent = c.consent
      /\ ~d.error => /\ ~c.error /\ d.identity = storage.identity
                     /\ d.queue = c.queue /\ d.epoch = c.epoch
    BY <1>0, WithIdentityFacts
<1>2. d = c \/ d = [c EXCEPT !.identity = storage.identity]
    BY <1>0 DEF Fine, WithIdentity
<1>3. ~d.error
    BY <1>0, <1>2 DEF ClientType, ClientFields
<1> HIDE DEF d
<1>4. Fine(d)
    BY <1>1, <1>3 DEF Fine, Fits
<1> QED
    BY <1>1, <1>3, <1>4 DEF d

LEMMA ReadDeletionFine ==
    ASSUME TypeOK, NEW c, Fine(c), c.identity = storage.identity,
           storage.deletion # Null => storage.deletion.install = storage.identity
    PROVE  LET d == WithDeletion(c) IN
           /\ Fine(d) /\ d.deletion = storage.deletion /\ d.queue \subseteq c.queue
           /\ ~d.error /\ d.consent = c.consent
           /\ \A e \in c.queue \ d.queue :
                storage.deletion # Null /\ e.at <= storage.deletion.before
<1> DEFINE d == WithDeletion(c)
           s == storage.deletion
<1>0. /\ ClientType(c) /\ ~c.error /\ c.epoch = EpochOf(c.deletion)
      /\ c.deletion \in Deletions \cup {Null} /\ s \in Deletions \cup {Null}
      /\ NoNewer(c.deletion, s) /\ \A e \in c.queue : Kept(e, c.deletion)
    BY DEF Fine, Fits, ClientType, TypeOK, RestType
<1>1. CASE s = Null
  <2>1. d = c /\ c.deletion = Null
      BY <1>0, <1>1 DEF WithDeletion, NoNewer
  <2> QED
      BY <1>0, <1>1, <2>1
<1>2. CASE s # Null /\ c.deletion # Null /\ ~Newer(s, c.deletion)
  <2>1. ~Newer(c.deletion, s) /\ s \in Deletions /\ c.deletion \in Deletions
      BY <1>0, <1>2 DEF NoNewer
  <2>2. c.deletion.install = s.install
      BY <1>2 DEF Fine
  <2>3. c.deletion = s
      BY <1>2, <2>1, <2>2, NewerFacts
  <2>4. d = c
      BY <1>0, <1>2, <2>1 DEF WithDeletion
  <2> QED
      BY <1>0, <1>2, <2>3, <2>4
<1>3. CASE s # Null /\ (c.deletion = Null \/ Newer(s, c.deletion))
  <2>1. s \in Deletions /\ (c.deletion # Null => ~Newer(c.deletion, s))
      BY <1>0, <1>3 DEF NoNewer
  <2>2. d = Advanced(c, s)
      BY <1>0, <1>3, <2>1 DEF WithDeletion
  <2>3. /\ ClientType(d) /\ d.deletion = s /\ d.epoch = s.epoch
        /\ d.queue = {e \in c.queue : e.at > s.before}
        /\ \A f \in ClientFields \ {"deletion", "queue", "epoch"} : d[f] = c[f]
      BY <1>0, <2>1, <2>2, AdvancedFacts
  <2>4. d.error = c.error /\ d.identity = c.identity /\ d.consent = c.consent
      BY <2>3 DEF ClientFields
  <2> HIDE DEF d
  <2>5. c.queue \subseteq EventSet /\ s.before \in Nat
      BY <1>0, <2>1 DEF ClientType, Deletions
  <2>6. \A e \in c.queue : e.at \in Nat
      BY <2>5 DEF EventSet
  <2>7. ~Newer(s, s)
      BY <2>1, NewerFacts
  <2>8. Fits(d, s)
      BY <1>0, <1>3, <2>3, <2>4, <2>5, <2>6, <2>7 DEF Fits, NoNewer, EpochOf, Kept
  <2>9. Fine(d)
      BY <1>3, <2>3, <2>4, <2>8 DEF Fine
  <2>10. \A e \in c.queue \ d.queue : e.at <= s.before
      BY <2>3, <2>5, <2>6
  <2> QED
      BY <1>0, <1>3, <2>3, <2>4, <2>9, <2>10 DEF d
<1> QED
    BY <1>1, <1>2, <1>3

(* Reading everything, a client comes to know of the stored deletion, and   *)
(* drops what it must.                                                      *)
LEMMA RefreshedFine ==
    ASSUME TypeOK, NEW c, Fine(c),
           storage.deletion # Null => storage.deletion.install = storage.identity
    PROVE  LET d == Refreshed(c) IN
           /\ Fine(d) /\ d.deletion = storage.deletion /\ d.queue \subseteq c.queue
           /\ ~d.error /\ d.consent = storage.consent
           /\ \A e \in c.queue \ d.queue :
                \/ ~On(storage.consent)
                \/ storage.deletion # Null /\ e.at <= storage.deletion.before
<1> DEFINE w == WithConsent(c)
           i == WithIdentity(w)
           d == WithDeletion(i)
<1>1. /\ Fine(w) /\ w.queue \subseteq c.queue /\ (w.queue = c.queue \/ ~On(storage.consent))
      /\ w.consent = storage.consent
    BY ReadConsentFine
<1> HIDE DEF w
<1>2. Fine(i) /\ i.queue = w.queue /\ i.identity = storage.identity /\ i.consent = w.consent
    BY <1>1, ReadIdentityFine
<1> HIDE DEF i
<1>3. /\ Fine(d) /\ d.deletion = storage.deletion /\ d.queue \subseteq i.queue
      /\ ~d.error /\ d.consent = i.consent
      /\ \A e \in i.queue \ d.queue :
           storage.deletion # Null /\ e.at <= storage.deletion.before
    BY <1>2, ReadDeletionFine
<1> HIDE DEF d
<1> QED
    BY <1>1, <1>2, <1>3 DEF Refreshed, w, i, d

(* What fits a deletion fits a newer one as long as nothing is sent.        *)
LEMMA FitsLater ==
    ASSUME NEW c, ClientType(c), NEW s \in Deletions \cup {Null}, NEW u \in Deletions,
           NoNewer(s, u), Fits(c, s)
    PROVE  Fits(c, u)
<1>1. c.deletion # Null => /\ c.deletion \in Deletions /\ s \in Deletions
                           /\ ~Newer(c.deletion, s) /\ ~Newer(s, u)
    BY DEF ClientType, Fits, NoNewer
<1>2. c.deletion # Null => ~Newer(c.deletion, u)
    BY <1>1, NewerFacts
<1>3. u # Null
    BY NullAssumption
<1> QED
    BY <1>2, <1>3 DEF Fits, NoNewer

(* A step of one tab: it stores no deletion, or one it has been waiting for *)
(* under the lock.                                                          *)
LEMMA UpdateDated ==
    ASSUME Orderly, Named, Dated, NEW t \in Tabs, NEW d, Update(t, d),
           server'.tomb = server.tomb, clock' = clock,
           storage'.identity = storage.identity \/ storage.identity = Null,
           d.deletion \in {Null, tab[t].deletion, storage.deletion, storage'.deletion},
           Says(d) => Says(tab[t]) /\ d.job.answer = tab[t].job.answer,
           Fits(d, storage'.deletion), d.job.kind = "flush" => d.deletion = storage'.deletion,
           \/ storage'.deletion = storage.deletion
           \/ /\ Idle(t) /\ UNCHANGED wire
              /\ storage'.deletion \in Deletions /\ NoNewer(storage.deletion, storage'.deletion)
              /\ \E h \in Heard : /\ SameTime(storage'.deletion, h)
                                  /\ storage'.deletion.install = storage.identity,
           \A r \in wire' : r.kind = "batch" /\ r.live =>
              r \in wire \/ Sound(r, storage'.deletion)
    PROVE  Dated'
<1>1. tab'[t] = d /\ \A u \in Tabs \ {t} : tab'[u] = tab[u]
    BY DEF Update, Orderly, TypeOK
<1>2. Behind'
  <2>1. Behind
      BY DEF Dated
  <2> QED
      BY <2>1, UpdateBehind
<1>3. \A u \in Tabs : Fits(tab[u], storage.deletion)
    BY DEF Dated
<1>4. CASE storage'.deletion = storage.deletion
    BY <1>1, <1>2, <1>3, <1>4 DEF Dated
<1>5. CASE /\ Idle(t) /\ UNCHANGED wire
           /\ storage'.deletion \in Deletions /\ NoNewer(storage.deletion, storage'.deletion)
  <2>1. \A r \in wire' : r.live => r.kind = "choice"
      BY <1>5, IdleFacts
  <2>2. \A u \in Tabs \ {t} : tab[u].job.kind = "none"
      BY <1>5 DEF Idle
  <2>3. storage.deletion \in Deletions \cup {Null}
      BY DEF Orderly, TypeOK, RestType
  <2>4. \A u \in Tabs \ {t} : Fits(tab[u], storage'.deletion)
      BY <1>3, <1>5, <2>3, FitsLater, OrderlyTab
  <2>5. \A u \in Tabs : /\ Fits(tab'[u], storage'.deletion)
                        /\ tab'[u].job.kind = "flush" => tab'[u].deletion = storage'.deletion
    <3>1. "none" # "flush"
        OBVIOUS
    <3> QED
        BY <1>1, <2>2, <2>4, <3>1
  <2>6. \A r \in wire' : ~(r.kind = "batch" /\ r.live)
      BY <2>1
  <2> QED
      BY <1>2, <2>5, <2>6 DEF Dated
<1> QED
    BY <1>4, <1>5

LEMMA FitsCore ==
    ASSUME NEW c, NEW d, NEW s, SameCore(c, d), Fits(c, s)
    PROVE  Fits(d, s) /\ d.deletion = c.deletion
    BY DEF SameCore, CoreFields, Fits

LEMMA JobSays ==
    ASSUME NEW c, NEW d, JobGoesOn(c, d) \/ d.job = NoJob
    PROVE  /\ Says(d) => Says(c) /\ d.job.answer = c.job.answer
           /\ d.job.kind = "flush" => c.job.kind = "flush"
    BY DEF JobGoesOn, Says, NoJob

LEMMA QuietDated ==
    ASSUME Orderly, Named, Dated, NEW t \in Tabs, QuietStep(t)
    PROVE  Dated'
<1> DEFINE c == tab[t]
           s == storage.deletion
<1>1. TypeOK /\ Fine(c) /\ (s # Null => s.install = storage.identity)
    BY OrderlyTab, FineTab
<1>2. /\ Fine(WithConsent(c)) /\ WithConsent(c).deletion = c.deletion
      /\ Fine(Refreshed(c)) /\ Refreshed(c).deletion = s
    BY <1>1, ReadConsentFine, RefreshedFine
<1>3. PICK d, e :
          /\ e \in {c, WithConsent(c), Refreshed(c)}
          /\ Update(t, d) /\ SameCore(e, d)
          /\ \/ JobGoesOn(c, d)
             \/ e = Refreshed(c) /\ d.job.step = "preferring" /\ d.job.batch = {}
    BY DEF QuietStep
<1>4. Fits(e, s) /\ e.deletion \in {c.deletion, s}
    BY <1>1, <1>2, <1>3 DEF Fine
<1>5. Fits(d, s) /\ d.deletion = e.deletion
    BY <1>3, <1>4, FitsCore
<1>6. /\ UNCHANGED <<clock, storage>> /\ server'.tomb = server.tomb
      /\ \A r \in wire' \ wire : r.kind # "batch"
    BY DEF QuietStep
<1>7. Says(d) => Says(c) /\ d.job.answer = c.job.answer
    BY <1>3, JobSays DEF Says
<1>8. d.job.kind = "flush" => d.deletion = s
  <2>1. CASE JobGoesOn(c, d)
      BY <1>2, <1>3, <1>5, <2>1, JobSays DEF Dated
  <2>2. CASE e = Refreshed(c)
      BY <1>2, <1>5, <2>2
  <2> QED
      BY <1>3, <2>1, <2>2
<1> QED
    BY <1>3, <1>4, <1>5, <1>6, <1>7, <1>8, UpdateDated

LEMMA SendDated ==
    ASSUME Orderly, Named, Dated, NEW t \in Tabs, NEW c, Fine(c), c.deletion = storage.deletion,
           Send(t, c)
    PROVE  Dated'
<1> DEFINE s == storage.deletion
           w == WithIdentity(c)
<1>1. TypeOK /\ RestType /\ ClientType(c)
    BY OrderlyTab DEF Fine
<1>2. /\ Fine(w) /\ w.deletion = s /\ ~w.error
    BY <1>1, ReadIdentityFine
<1>3. PICK d : /\ Update(t, d)
               /\ \/ /\ w.error /\ SameCore(w, d)
                     /\ d.job = NoJob /\ UNCHANGED <<storage, wire>>
                  \/ \E i \in Identifiers : SendStep(t, c, i, d)
    BY <1>1, SendFacts, Zenon
<1>4. PICK i \in Identifiers : SendStep(t, c, i, d)
    BY <1>2, <1>3
<1>5. UNCHANGED <<clock, cookie, server>>
    BY <1>1, SendFacts
<1>6. storage'.deletion = s /\ (storage'.identity = storage.identity \/ storage.identity = Null)
    BY <1>1, <1>4 DEF SendStep, FirstIdentity, RestType
<1> HIDE DEF w
<1>7. \A f \in CoreFields \ {"identity"} : d[f] = w[f]
    BY <1>4 DEF SendStep, w
<1>8. Fits(d, s) /\ d.deletion = s
    BY <1>2, <1>7 DEF CoreFields, Fits, Fine
<1>9. ~Says(d)
    BY <1>4 DEF SendStep, Says, NoJob
<1>10. ASSUME NEW r \in wire', r \notin wire PROVE Sound(r, s)
  <2>1. r = BatchOf(t, d, i) /\ d.job.batch \subseteq d.queue
      BY <1>4, <1>10 DEF SendStep
  <2>2. r.epoch = d.epoch /\ r.events = d.job.batch
      BY <2>1 DEF BatchOf
  <2> QED
      BY <1>8, <2>1, <2>2 DEF Sound, Fits
<1> QED
    BY <1>3, <1>5, <1>6, <1>8, <1>9, <1>10, UpdateDated

(* A deletion that was answered is stored unless a newer one is.            *)
LEMMA AppliedDated ==
    ASSUME Orderly, Named, Dated, NEW t \in Tabs, Says(tab[t]), Idle(t),
           NEW c, Fine(c), c.deletion = tab[t].deletion, c.identity = storage.identity,
           NEW next \in Deletions, next.install = c.identity, SameTime(next, tab[t].job.answer),
           Applied(t, c, next), UNCHANGED <<clock, cookie, wire, server>>
    PROVE  Dated'
<1> DEFINE s == storage.deletion
           e == Effective(c, next)
           a == Advanced(c, e)
           d == JobDone(a)
<1>1. TypeOK /\ RestType /\ ClientType(c) /\ s \in Deletions \cup {Null}
    BY OrderlyTab DEF Fine, RestType
<1>2. /\ Known(c) \subseteq Deletions /\ e \in Deletions /\ e \in Known(c) \cup {next}
      /\ \A f \in Known(c) \cup {next} : ~Newer(f, e)
    BY <1>1, EffectiveFacts
<1>3. \A f \in Known(c) : f.install = storage.identity
    BY FineTab DEF Known, Fine
<1>4. Update(t, d) /\ storage' = [storage EXCEPT !.deletion = e]
    BY <1>3 DEF Applied
<1> HIDE DEF e
<1>5. e.install = storage.identity
    BY <1>2, <1>3
<1>6. \E h \in Heard : SameTime(e, h)
  <2>1. \A f \in Known(c) : f \in Heard
      BY DEF Known, Heard
  <2>2. tab[t].job.answer \in Heard
      BY DEF Heard
  <2>3. \A f : SameTime(f, f)
      BY DEF SameTime
  <2> QED
      BY <1>2, <2>1, <2>2, <2>3
<1>7. NoNewer(s, e) /\ e # Null
    BY <1>1, <1>2, NullAssumption DEF NoNewer, Known
<1>8. /\ ClientType(a) /\ a.deletion = e /\ a.epoch = e.epoch
      /\ a.queue = {f \in c.queue : f.at > e.before}
      /\ \A f \in ClientFields \ {"deletion", "queue", "epoch"} : a[f] = c[f]
  <2>1. ClientType(c) /\ e \in Deletions
      BY <1>1, <1>2
  <2> QED
      BY <2>1, AdvancedFacts
<1> HIDE DEF a
<1>9. /\ d.job = NoJob /\ d.deletion = e /\ d.epoch = e.epoch /\ d.error = c.error
      /\ d.queue = {f \in c.queue : f.at > e.before}
    BY <1>8, JobDoneFacts DEF ClientFields
<1> HIDE DEF d
<1>10. Fits(d, e)
  <2>1. \A f \in c.queue : f.at \in Nat
      BY <1>1 DEF ClientType, EventSet
  <2>2. e.before \in Nat /\ ~Newer(e, e)
      BY <1>2, NewerFacts DEF Deletions
  <2>3. \A f \in d.queue : Kept(f, e)
      BY <1>9, <2>1, <2>2 DEF Kept
  <2>4. ~c.error
      BY DEF Fine, Fits
  <2> QED
      BY <1>7, <1>9, <2>2, <2>3, <2>4 DEF Fits, NoNewer, EpochOf
<1>11. storage'.deletion = e /\ storage'.identity = storage.identity
    BY <1>1, <1>4 DEF RestType
<1>12. ~Says(d) /\ d.job.kind # "flush"
    BY <1>9 DEF Says, NoJob
<1>13. \A r \in wire' : r \in wire
    OBVIOUS
<1>14. server'.tomb = server.tomb /\ clock' = clock /\ UNCHANGED wire
    OBVIOUS
<1> QED
    BY <1>2, <1>4, <1>5, <1>6, <1>7, <1>9, <1>10, <1>11, <1>12, <1>13, <1>14, UpdateDated

LEMMA HeardType ==
    ASSUME Orderly
    PROVE  /\ \A d \in Heard : d.epoch \in Nat /\ d.before \in Nat
           /\ Tomb.epoch \in Nat /\ Tomb.before \in Nat
<1>1. storage.deletion \in Deletions \cup {Null} /\ storage.identity \in Identifiers \cup {Null}
      /\ RestType
    BY DEF Orderly, TypeOK, RestType
<1>2. \A t \in Tabs : tab[t].deletion \in Deletions \cup {Null}
    BY OrderlyTab DEF ClientType
<1>3. \A t \in Tabs : Says(tab[t]) => tab[t].job.answer.epoch \in Nat /\ tab[t].job.answer.before \in Nat
    BY OrderlyTab DEF ClientType, JobType, Says
<1>4. \A d \in Deletions : d.epoch \in Nat /\ d.before \in Nat
    BY DEF Deletions
<1>5. \A i \in Identifiers : TombOf(i).epoch \in Nat /\ TombOf(i).before \in Nat
    BY <1>1, TombFacts DEF Tombs
<1> QED
    BY <1>1, <1>2, <1>3, <1>4, <1>5 DEF Heard, Tomb

(* An answer of the server, which may be of a deletion it has just made.    *)
LEMMA TellDated ==
    ASSUME Orderly, Orderly', Named, Dated, NEW r \in wire, NEW answer, AnswerTo(r, answer),
           Tell(r, answer), UNCHANGED <<clock, cookie, storage>>, TombsPast',
           \/ Tomb' = Tomb
           \/ Tomb'.epoch = Tomb.epoch + 1 /\ Tomb'.before = clock /\ storage.identity \in Identifiers,
           r.kind # "choice" /\ answer.status = "ok" /\ answer.before # Null =>
              SameTime(answer, Tomb') /\ Tomb'.epoch >= 1,
           \A q \in wire' : q.live => q \in wire
    PROVE  Dated'
<1>0. \A x \in Heard : /\ x.epoch >= 1 /\ x.epoch <= Tomb.epoch /\ x.before <= Tomb.before
                       /\ x.epoch = Tomb.epoch => x.before = Tomb.before
    BY DEF Dated, Behind, NotAhead
<1>1. \A x \in Heard : /\ x.epoch >= 1 /\ x.epoch <= Tomb'.epoch /\ x.before <= Tomb'.before
                       /\ x.epoch = Tomb'.epoch => x.before = Tomb'.before
  <2>1. CASE Tomb' = Tomb
      BY <1>0, <2>1
  <2>2. CASE Tomb'.epoch = Tomb.epoch + 1 /\ Tomb'.before = clock /\ storage.identity \in Identifiers
    <3>1. Tomb.before <= clock /\ clock \in Nat
        BY <2>2, NullAssumption DEF Dated, Behind, TombsPast, Tomb, Orderly, TypeOK, RestType
    <3> QED
        BY <1>0, <2>2, <3>1, HeardType
  <2> QED
      BY <2>1, <2>2
<1>2. CASE ~r.live
  <2>1. tab' = tab /\ storage' = storage
      BY <1>2 DEF Tell
  <2>2. Heard' = Heard
      BY <2>1 DEF Heard
  <2>3. NotAhead' /\ EpochsAgree' /\ Owned'
      BY <1>1, <2>1, <2>2 DEF NotAhead, EpochsAgree, Owned, Dated, Behind
  <2> QED
      BY <2>1, <2>3 DEF Dated, Behind
<1>3. CASE r.live
  <2> DEFINE t == r.tab
             c == tab[t]
             d == Told(c, r, answer)
  <2>1. /\ t \in Tabs /\ ClientType(d) /\ \A f \in ClientFields \ {"writes", "job"} : d[f] = c[f]
        /\ r.kind = "choice" => d.job = c.job
        /\ r.kind # "choice" => d.job = [c.job EXCEPT !.step = "answered", !.answer = answer]
      BY <1>3, ToldFacts
  <2>2. Update(t, d) /\ ClientType(c)
      BY <1>3, <2>1, OrderlyTab DEF Tell, Told
  <2> HIDE DEF d
  <2>3. tab'[t] = d /\ \A u \in Tabs \ {t} : tab'[u] = tab[u]
      BY <2>1, <2>2 DEF Update, Orderly, TypeOK
  <2>4. SameCore(c, d)
      BY <2>1 DEF SameCore, CoreFields, ClientFields
  <2>5. d.job.kind = c.job.kind
        /\ (r.kind # "choice" => d.job.step = "answered" /\ d.job.answer = answer)
    <3>1. CASE r.kind = "choice"
        BY <2>1, <3>1
    <3>2. CASE r.kind # "choice"
        BY <2>1, <2>2, <3>2 DEF ClientType, JobType, JobFields
    <3> QED
        BY <3>1, <3>2
  <2>6. d.deletion = c.deletion
      BY <2>4 DEF SameCore, CoreFields
  <2>7. Says(d) => \/ Says(c) /\ d.job.answer = c.job.answer
                   \/ SameTime(d.job.answer, Tomb') /\ Tomb'.epoch >= 1
    <3>1. CASE r.kind = "choice"
        BY <2>1, <3>1 DEF Says
    <3>2. CASE r.kind # "choice"
        BY <2>5, <3>2 DEF Says
    <3> QED
        BY <3>1, <3>2
  <2> HIDE DEF c
  <2>8. ASSUME NEW x \in Heard'
        PROVE  x \in Heard \/ (SameTime(x, Tomb') /\ Tomb'.epoch >= 1)
    <3>1. Heard' = (({storage.deletion} \cup {tab'[u].deletion : u \in Tabs}) \ {Null})
                    \cup {tab'[u].job.answer : u \in {v \in Tabs : Says(tab'[v])}}
        BY DEF Heard, Says
    <3>2. \A u \in Tabs : tab'[u].deletion = tab[u].deletion
        BY <2>3, <2>6 DEF c
    <3>3. CASE x # Null /\ (x = storage.deletion \/ \E u \in Tabs : x = tab'[u].deletion)
        BY <3>2, <3>3 DEF Heard
    <3>4. ASSUME NEW u \in Tabs, Says(tab'[u]), x = tab'[u].job.answer
          PROVE  x \in Heard \/ (SameTime(x, Tomb') /\ Tomb'.epoch >= 1)
      <4>1. CASE u = t
          BY <2>1, <2>3, <2>7, <3>4, <4>1 DEF Heard, c
      <4>2. CASE u # t
          BY <2>3, <3>4, <4>2 DEF Heard
      <4> QED
          BY <4>1, <4>2
    <3> QED
        BY <3>1, <3>3, <3>4
  <2>9. Tomb'.epoch \in Nat /\ Tomb'.before \in Nat
    <3>1. \A i \in Identifiers : TombOf(i)'.epoch \in Nat /\ TombOf(i)'.before \in Nat
      <4>1. \A i \in Identifiers : server'.tomb[i] \in Tombs \cup {Null}
          BY DEF Orderly, TypeOK, RestType
      <4> QED
          BY <4>1 DEF TombOf, Tombs
    <3>2. storage.identity \in Identifiers \cup {Null}
        BY DEF Orderly, TypeOK, RestType
    <3> QED
        BY <3>1, <3>2 DEF Tomb
  <2>10. ASSUME NEW x \in Heard'
         PROVE  /\ x.epoch >= 1 /\ x.epoch <= Tomb'.epoch /\ x.before <= Tomb'.before
                /\ x.epoch = Tomb'.epoch => x.before = Tomb'.before
      BY <1>1, <2>8, <2>9 DEF SameTime
  <2>11. NotAhead'
      BY <2>10 DEF NotAhead
  <2>12. EpochsAgree'
    <3> SUFFICES ASSUME NEW x \in Heard', NEW y \in Heard', x.epoch = y.epoch
                 PROVE  x.before = y.before
        BY DEF EpochsAgree
    <3> QED
        BY <2>8, <2>10 DEF SameTime, Dated, Behind, EpochsAgree
  <2>13. Owned'
    <3>1. \A u \in Tabs : tab'[u].deletion = tab[u].deletion
        BY <2>3, <2>6 DEF c
    <3> QED
        BY <3>1 DEF Owned, Dated, Behind
  <2>14. \A u \in Tabs : /\ Fits(tab'[u], storage.deletion)
                         /\ tab'[u].job.kind = "flush" => tab'[u].deletion = storage.deletion
      BY <2>1, <2>3, <2>4, <2>5, FitsCore DEF Dated, c
  <2>15. storage' = storage
      OBVIOUS
  <2>16. \A q \in wire' : q.kind = "batch" /\ q.live => Sound(q, storage.deletion)
      BY DEF Dated
  <2> QED
      BY <2>11, <2>12, <2>13, <2>14, <2>15, <2>16 DEF Dated, Behind
<1> QED
    BY <1>2, <1>3

LEMMA ServeDated ==
    ASSUME Orderly, Orderly', Named, Dated, NEW r \in wire, Serve(r)
    PROVE  Dated'
<1> DEFINE T == TombOf(r.install)
           N == [epoch |-> T.epoch + 1, before |-> clock]
<1>1. RestType /\ r \in Requests
    BY DEF Orderly, TypeOK
<1>2. PICK answer :
           /\ Tell(r, answer) /\ AnswerTo(r, answer)
           /\ wire' = wire \ {r} /\ UNCHANGED <<clock, cookie, storage, tracked, count>>
           /\ \/ UNCHANGED server /\ answer.status \in {"expired", "refused"}
              \/ /\ r.kind = "choice" /\ r.cookie \in server.alive
                 /\ answer.status = IF Decided(server.choice[r.cookie], r) THEN "applied"
                                    ELSE "not applied"
                 /\ server' = IF ~Decided(server.choice[r.cookie], r) THEN server
                              ELSE [server EXCEPT !.choice[r.cookie] =
                                      [enabled |-> r.enabled, at |-> r.at]]
              \/ /\ r.kind = "batch" /\ r.epoch <= TombOf(r.install).epoch
                 /\ LET tomb == TombOf(r.install)
                        wanted == {e \in r.events : tomb.before = 0 \/ e.at > tomb.before}
                    IN /\ server' = [server EXCEPT
                              !.tomb[r.install] = tomb,
                              !.stored = @ \cup {[id |-> e.id, at |-> e.at, install |-> r.install]
                                                    : e \in wanted}]
                       /\ answer = [status |-> "ok", epoch |-> tomb.epoch,
                                    before |-> IF tomb.before = 0 THEN Null ELSE tomb.before,
                                    discarded |-> Cardinality(r.events \ wanted)]
              \/ /\ r.kind = "delete"
                 /\ LET tomb == [epoch |-> TombOf(r.install).epoch + 1, before |-> clock] IN
                    /\ server' = [server EXCEPT !.tomb[r.install] = tomb,
                                                !.stored = {e \in @ : e.install # r.install}]
                    /\ answer = [status |-> "ok", epoch |-> tomb.epoch, before |-> clock]
    BY ServeFacts, Zenon
<1>3. /\ DOMAIN server = {"alive", "over", "choice", "tomb", "stored"}
      /\ server.tomb \in [Identifiers -> Tombs \cup {Null}] /\ clock \in Nat
    BY <1>1 DEF RestType
<1>4. \A q \in wire' : q.live => q \in wire
    BY <1>2
<1>5. TombsPast /\ UNCHANGED <<clock, cookie, storage>>
    BY <1>2 DEF Dated, Behind
<1>6. CASE \/ server'.tomb = server.tomb /\ ~(r.kind # "choice" /\ answer.status = "ok")
  <2>1. \A i \in Identifiers : TombOf(i)' = TombOf(i)
      BY <1>6 DEF TombOf
  <2>2. TombsPast'
      BY <1>5, <2>1 DEF TombsPast
  <2>3. Tomb' = Tomb
      BY <1>1, <1>5, <1>6 DEF Tomb, TombOf
  <2> QED
      BY <1>2, <1>4, <1>5, <1>6, <2>2, <2>3, TellDated
<1>7. CASE UNCHANGED server /\ answer.status \in {"expired", "refused"}
    BY <1>6, <1>7
<1>8. CASE r.kind = "choice"
  <2> DEFINE d == [enabled |-> r.enabled, at |-> r.at]
  <2>1. server' = server \/ server' = [server EXCEPT !.choice[r.cookie] = d]
      BY <1>2, <1>8
  <2> HIDE DEF d
  <2>2. server'.tomb = server.tomb
      BY <1>3, <2>1
  <2> QED
      BY <1>6, <1>8, <2>2
<1>9. ASSUME r.kind # "choice"
      PROVE  /\ r.install = storage.identity /\ r.install \in Identifiers /\ T = Tomb
             /\ T \in Tombs /\ T.before <= clock /\ (T.epoch = 0 => T.before = 0)
  <2>1. r.install \in Identifiers /\ r.install = storage.identity
      BY <1>1, <1>9 DEF Named, Requests, ChoiceRequests, BatchRequests, DeleteRequests
  <2> QED
      BY <1>1, <1>5, <2>1, TombFacts, NullAssumption DEF Tomb, TombsPast
<1>10. CASE r.kind = "batch" /\ ~(UNCHANGED server /\ answer.status \in {"expired", "refused"})
  <2> DEFINE W == {e \in r.events : T.before = 0 \/ e.at > T.before}
             new == {[id |-> e.id, at |-> e.at, install |-> r.install] : e \in W}
             n == Cardinality(r.events \ W)
  <2>1. /\ server' = [server EXCEPT !.tomb[r.install] = T, !.stored = @ \cup new]
        /\ answer = [status |-> "ok", epoch |-> T.epoch,
                     before |-> IF T.before = 0 THEN Null ELSE T.before, discarded |-> n]
      BY <1>2, <1>10
  <2> HIDE DEF new, n, T
  <2>2. server'.tomb = [server.tomb EXCEPT ![r.install] = T]
      BY <1>3, <2>1
  <2>3. /\ r.install = storage.identity /\ r.install \in Identifiers /\ T = Tomb
        /\ T \in Tombs /\ T.before <= clock /\ (T.epoch = 0 => T.before = 0) /\ T # Null
      BY <1>9, <1>10, NullAssumption
  <2>4. \A i \in Identifiers : server'.tomb[i] = IF i = r.install THEN T ELSE server.tomb[i]
      BY <1>3, <2>2
  <2>5. \A i \in Identifiers : TombOf(i)' = TombOf(i)
      BY <2>3, <2>4 DEF TombOf, T
  <2>6. TombsPast'
      BY <1>5, <2>5 DEF TombsPast
  <2>7. Tomb' = Tomb
      BY <1>5, <2>3, <2>5 DEF Tomb
  <2>8. answer.before # Null => SameTime(answer, Tomb') /\ Tomb'.epoch >= 1
    <3>1. T.epoch \in Nat /\ T.before \in Nat
        BY <2>3 DEF Tombs
    <3> QED
        BY <2>1, <2>3, <2>7, <3>1 DEF SameTime
  <2> QED
      BY <1>2, <1>4, <1>5, <2>6, <2>7, <2>8, TellDated
<1>11. CASE r.kind = "delete" /\ ~(UNCHANGED server /\ answer.status \in {"expired", "refused"})
  <2> DEFINE kept == {e \in server.stored : e.install # r.install}
  <2>1. /\ server' = [server EXCEPT !.tomb[r.install] = N, !.stored = kept]
        /\ answer = [status |-> "ok", epoch |-> T.epoch + 1, before |-> clock]
      BY <1>2, <1>11
  <2>2. /\ r.install = storage.identity /\ r.install \in Identifiers /\ T = Tomb
        /\ T \in Tombs /\ T.before <= clock
      BY <1>9, <1>11
  <2>3. T.epoch \in Nat
      BY <2>2 DEF Tombs
  <2> HIDE DEF kept, T
  <2>4. /\ N.epoch = T.epoch + 1 /\ N.before = clock /\ N # Null
      BY <1>3, <2>3, NullAssumption DEF Tombs
  <2> HIDE DEF N
  <2>5. server'.tomb = [server.tomb EXCEPT ![r.install] = N]
      BY <1>3, <2>1
  <2>6. \A i \in Identifiers : server'.tomb[i] = IF i = r.install THEN N ELSE server.tomb[i]
      BY <1>3, <2>5
  <2>7. \A i \in Identifiers : TombOf(i)' = IF i = r.install THEN N ELSE TombOf(i)
      BY <2>4, <2>6 DEF TombOf
  <2>8. TombsPast'
      BY <1>3, <1>5, <2>3, <2>4, <2>7 DEF TombsPast
  <2>9. Tomb' = N /\ storage.identity \in Identifiers
      BY <1>5, <2>2, <2>7, NullAssumption DEF Tomb
  <2>10. /\ Tomb'.epoch = Tomb.epoch + 1 /\ Tomb'.before = clock
         /\ SameTime(answer, Tomb') /\ Tomb'.epoch >= 1
      BY <2>1, <2>2, <2>3, <2>4, <2>9 DEF SameTime
  <2> QED
      BY <1>2, <1>4, <1>5, <2>8, <2>9, <2>10, TellDated
<1>12. r.kind \in {"choice", "batch", "delete"}
    BY <1>1 DEF Requests, ChoiceRequests, BatchRequests, DeleteRequests
<1> QED
    BY <1>7, <1>8, <1>10, <1>11, <1>12

LEMMA LoseDated ==
    ASSUME Orderly, Orderly', Named, Dated, NEW r \in wire, Lose(r) \/ LoseAnswer(r)
    PROVE  Dated'
<1>1. r \in Requests /\ RestType
    BY DEF Orderly, TypeOK
<1>2. /\ Tell(r, Answer("failed")) /\ UNCHANGED <<clock, cookie, storage, server>>
      /\ wire' \subseteq (wire \ {r}) \cup {[r EXCEPT !.live = FALSE]}
    BY DEF Lose, LoseAnswer
<1>3. \A q \in wire' : q.live => q \in wire
    BY <1>1, <1>2, DeadFacts
<1>4. TombsPast' /\ Tomb' = Tomb
    BY <1>2 DEF Dated, Behind, TombsPast, Tomb, TombOf
<1> QED
    BY <1>2, <1>3, <1>4, TellDated, FailedAnswer

LEMMA ChooseDated ==
    ASSUME Orderly, Named, Dated, NEW t \in Tabs, NEW enabled \in BOOLEAN, Choose(t, enabled)
    PROVE  Dated'
<1> DEFINE c == tab[t]
           e == Deciding(t, enabled)
           d == Reported(e, Write(e))
           s == storage.deletion
<1>1. /\ Update(t, d) /\ UNCHANGED <<clock, cookie, wire, server>> /\ SameCore(e, d)
      /\ storage' = [storage EXCEPT !.consent = Decision(t, enabled)]
      /\ e.deletion = c.deletion /\ ~e.error /\ d.job = c.job
      /\ \/ e.queue = c.queue /\ e.epoch = c.epoch
         \/ /\ e.queue = {}
            /\ e.epoch = IF e.deletion = Null THEN c.epoch ELSE e.deletion.epoch
    BY ChooseFacts
<1> HIDE DEF d, e
<1>2. Fits(c, s) /\ (c.job.kind = "flush" => c.deletion = s)
    BY DEF Dated
<1>3. Fits(e, s)
    BY <1>1, <1>2 DEF Fits, EpochOf
<1>4. Fits(d, s) /\ d.deletion = c.deletion
    BY <1>1, <1>3, FitsCore
<1>5. storage'.deletion = s /\ storage'.identity = storage.identity
    BY <1>1 DEF Orderly, TypeOK, RestType
<1>6. Says(d) => Says(c) /\ d.job.answer = c.job.answer
    BY <1>1 DEF Says
<1> QED
    BY <1>1, <1>2, <1>4, <1>5, <1>6, UpdateDated

LEMMA StoredPast ==
    ASSUME Orderly, Named, Behind, storage.deletion # Null
    PROVE  /\ storage.deletion \in Deletions /\ storage.deletion.epoch >= 1
           /\ storage.deletion.before <= clock
<1>1. storage.deletion \in Heard /\ storage.deletion \in Deletions
    BY DEF Heard, Orderly, TypeOK, RestType
<1>2. storage.identity # Null
    BY NothingHeard
<1>3. storage.identity \in Identifiers /\ clock \in Nat
    BY <1>2 DEF Orderly, TypeOK, RestType
<1>4. Tomb.before <= clock
    BY <1>2, <1>3 DEF Behind, TombsPast, Tomb
<1>5. storage.deletion.epoch >= 1 /\ storage.deletion.before <= Tomb.before
    BY <1>1 DEF Behind, NotAhead
<1> QED
    BY <1>1, <1>3, <1>4, <1>5, HeardType

LEMMA TrackDated ==
    ASSUME Orderly, Named, Dated, NEW t \in Tabs, Track(t)
    PROVE  Dated'
<1> DEFINE s == storage.deletion
           c == Refreshed(tab[t])
           e == [id |-> Cardinality(tracked) + 1, at |-> clock]
           q == Trimmed(c.queue \cup {e})
           d == IF Enabled(c) THEN [c EXCEPT !.queue = q] ELSE c
<1>1. /\ TypeOK /\ Fine(c) /\ c.deletion = s /\ c.job = tab[t].job
    BY OrderlyTab, FineTab, RefreshedFine DEF Same
<1>2. Update(t, d) /\ UNCHANGED <<clock, cookie, storage, wire, server>>
    BY DEF Track
<1>3. q \subseteq c.queue \cup {e}
    BY DEF Trimmed
<1>4. s # Null => s.before <= clock
    BY StoredPast DEF Dated
<1>5. Kept(e, s)
  <2>1. e.at = clock
      OBVIOUS
  <2>2. s # Null => s.before \in Nat /\ clock \in Nat
      BY <1>1 DEF TypeOK, RestType, Deletions
  <2> HIDE DEF e
  <2> QED
      BY <1>4, <2>1, <2>2 DEF Kept
<1> HIDE DEF q, e
<1>6. /\ d.queue \in {c.queue, q} /\ d.deletion = c.deletion /\ d.epoch = c.epoch
      /\ d.error = c.error /\ d.job = c.job
    BY <1>1 DEF Fine, ClientType, ClientFields
<1> HIDE DEF d, c
<1>7. Fits(d, s)
    BY <1>1, <1>3, <1>5, <1>6 DEF Fits, Fine
<1>8. Says(d) => Says(tab[t]) /\ d.job.answer = tab[t].job.answer
    BY <1>1, <1>6 DEF Says
<1> QED
    BY <1>1, <1>2, <1>6, <1>7, <1>8, UpdateDated

LEMMA FlushDated ==
    ASSUME Orderly, Named, Dated, NEW t \in Tabs, Flush(t) \/ FlushReported(t)
    PROVE  Dated'
<1>1. /\ TypeOK /\ Fine(tab[t]) /\ Fine(Refreshed(tab[t]))
      /\ Refreshed(tab[t]).deletion = storage.deletion
    BY OrderlyTab, FineTab, RefreshedFine
<1>2. CASE FlushReported(t)
  <2>1. Send(t, tab[t]) /\ tab[t].deletion = storage.deletion
      BY <1>2 DEF FlushReported, Dated
  <2> QED
      BY <1>1, <2>1, SendDated
<1>3. CASE Flush(t)
    BY <1>1, <1>3, QuietFlush, QuietDated, SendDated
<1> QED
    BY <1>2, <1>3

(* A job that ends with nothing more to be stored.                          *)
LEMMA JobDoneDated ==
    ASSUME Orderly, Named, Dated, NEW t \in Tabs, NEW c, ClientType(c),
           Fits(c, storage.deletion), c.deletion = tab[t].deletion,
           Update(t, JobDone(c)), UNCHANGED <<clock, cookie, storage, wire, server>>
    PROVE  Dated'
<1> DEFINE d == JobDone(c)
<1>1. d.job = NoJob /\ SameCore(c, d)
    BY JobDoneFacts, CoreFacts
<1> HIDE DEF d
<1>2. Fits(d, storage.deletion) /\ d.deletion = c.deletion
    BY <1>1, FitsCore
<1>3. ~Says(d) /\ d.job.kind # "flush"
    BY <1>1 DEF Says, NoJob
<1> QED
    BY <1>2, <1>3, UpdateDated DEF d

LEMMA FlushAnsweredDated ==
    ASSUME Orderly, Named, Dated, NEW t \in Tabs, FlushAnswered(t)
    PROVE  Dated'
<1> DEFINE c == tab[t]
           a == c.job.answer
           s == storage.deletion
           v == WithoutSent(c)
           r == [c EXCEPT !.trusted = IF a.status = "failed" THEN @ ELSE Null,
                          !.ready = @ /\ a.status # "expired"]
<1>1. /\ Idle(t) /\ ClientType(r) /\ \A f \in ClientFields \ {"trusted", "ready"} : r[f] = c[f]
      /\ UNCHANGED <<clock, cookie, wire, server>>
      /\ \/ Update(t, JobDone(r)) /\ UNCHANGED storage
         \/ Update(t, JobDone(c)) /\ UNCHANGED storage
         \/ Update(t, JobDone(v)) /\ UNCHANGED storage
         \/ /\ Applied(t, v, NewBoundary(c)) /\ NewBoundary(c) \in Deletions
            /\ a.status = "ok" /\ ValidAcknowledgement(c, a)
    BY FlushAnsweredFacts
<1>2. Fine(c) /\ c.job.kind = "flush" /\ c.job.step = "answered"
    BY FineTab DEF FlushAnswered
<1>3. /\ ClientType(v) /\ v.queue = c.queue \ c.job.batch
      /\ \A f \in ClientFields \ {"queue"} : v[f] = c[f]
    BY <1>2, WithoutSentFacts DEF Fine
<1> HIDE DEF r, v
<1>4. Fits(r, s) /\ r.deletion = c.deletion /\ Fits(c, s) /\ ClientType(c)
    BY <1>1, <1>2 DEF Fine, Fits, ClientFields
<1>5. Fine(v) /\ v.deletion = c.deletion /\ v.identity = c.identity
    BY <1>2, <1>3 DEF Fine, Fits, ClientFields
<1>6. Fits(v, s)
    BY <1>5 DEF Fine
<1>7. ASSUME NEW d \in {r, c, v}, Update(t, JobDone(d)), UNCHANGED storage PROVE Dated'
    BY <1>1, <1>3, <1>4, <1>5, <1>6, <1>7, JobDoneDated
<1>8. CASE /\ Applied(t, v, NewBoundary(c)) /\ NewBoundary(c) \in Deletions
           /\ a.status = "ok" /\ ValidAcknowledgement(c, a)
  <2>1. Says(c) /\ SameTime(NewBoundary(c), a) /\ NewBoundary(c).install = c.identity
      BY <1>2, <1>8 DEF Says, SameTime, NewBoundary, ValidAcknowledgement
  <2>2. c.identity = storage.identity
      BY <1>2 DEF Fine, ClientType, JobType
  <2> QED
      BY <1>1, <1>5, <1>8, <2>1, <2>2, AppliedDated
<1> QED
    BY <1>1, <1>7, <1>8

LEMMA DeleteDated ==
    ASSUME Orderly, Named, Dated, NEW t \in Tabs, Delete(t)
    PROVE  Dated'
<1> DEFINE s == storage.deletion
           c == WithIdentity(tab[t])
           j == [NoJob EXCEPT !.kind = "delete", !.step = Entry(c)]
<1>1. TypeOK /\ RestType /\ Fine(c) /\ c.deletion = tab[t].deletion /\ c.identity = storage.identity
    BY OrderlyTab, FineTab, ReadIdentityFine
<1>2. PICK i \in (IF c.identity = Null THEN Identities ELSE {c.identity}) :
           /\ storage' = IF c.identity = Null THEN [storage EXCEPT !.identity = i] ELSE storage
           /\ Update(t, [c EXCEPT !.identity = i, !.job = j])
    BY DEF Delete
<1>3. UNCHANGED <<clock, cookie, wire, server>>
    BY DEF Delete
<1>4. j.kind = "delete" /\ j.step # "answered"
    BY DEF NoJob, Entry
<1> HIDE DEF c, j
<1> DEFINE d == [c EXCEPT !.identity = i, !.job = j]
<1>5. /\ d.job = j /\ d.error = c.error /\ d.deletion = c.deletion /\ d.queue = c.queue
      /\ d.epoch = c.epoch
    BY <1>1 DEF Fine, ClientType, ClientFields
<1>6. Update(t, d)
    BY <1>2
<1> HIDE DEF d
<1>7. Fits(d, s)
    BY <1>1, <1>5 DEF Fine, Fits
<1>8. ~Says(d) /\ d.job.kind # "flush"
    BY <1>4, <1>5 DEF Says
<1>9. storage'.deletion = s /\ (storage'.identity = storage.identity \/ storage.identity = Null)
    BY <1>1, <1>2 DEF RestType
<1> QED
    BY <1>1, <1>3, <1>5, <1>6, <1>7, <1>8, <1>9, UpdateDated

LEMMA DeleteAnsweredDated ==
    ASSUME Orderly, Named, Dated, NEW t \in Tabs, DeleteAnswered(t)
    PROVE  Dated'
<1> DEFINE c == tab[t]
           a == c.job.answer
           s == storage.deletion
           d == [c EXCEPT !.job.step = "session", !.job.again = TRUE, !.ready = FALSE]
<1>1. /\ Fine(c) /\ ClientType(c) /\ Fits(c, s) /\ c.job.kind = "delete" /\ c.job.step = "answered"
    BY FineTab DEF DeleteAnswered, Fine
<1>2. /\ UNCHANGED <<clock, cookie, wire, server>>
      /\ \/ Update(t, d) /\ UNCHANGED storage
         \/ Update(t, JobDone(c)) /\ UNCHANGED storage
         \/ Applied(t, c, NewBoundary(c)) /\ a.status = "ok"
    BY DEF DeleteAnswered, NewBoundary
<1>3. CASE Update(t, d) /\ UNCHANGED storage
  <2>1. /\ d.job = [c.job EXCEPT !.step = "session", !.again = TRUE]
        /\ \A f \in ClientFields \ {"job", "ready"} : d[f] = c[f]
      BY <1>1 DEF ClientType, ClientFields
  <2> HIDE DEF d
  <2>2. d.job.kind = "delete" /\ d.job.step = "session"
      BY <1>1, <2>1 DEF ClientType, JobType, JobFields
  <2>3. SameCore(c, d)
      BY <2>1 DEF SameCore, CoreFields, ClientFields
  <2>4. Fits(d, s) /\ d.deletion = c.deletion
      BY <1>1, <2>3, FitsCore
  <2>5. ~Says(d) /\ d.job.kind # "flush"
      BY <2>2 DEF Says
  <2> QED
      BY <1>2, <1>3, <2>4, <2>5, UpdateDated
<1>4. CASE Update(t, JobDone(c)) /\ UNCHANGED storage
    BY <1>1, <1>2, <1>4, JobDoneDated
<1>5. CASE Applied(t, c, NewBoundary(c)) /\ a.status = "ok"
  <2>1. a.epoch \in Nat /\ a.before \in Nat /\ c.identity \in Identifiers
      BY <1>1, <1>5 DEF ClientType, JobType
  <2>2. /\ Says(c) /\ SameTime(NewBoundary(c), a) /\ NewBoundary(c).install = c.identity
        /\ NewBoundary(c) \in Deletions /\ c.identity = storage.identity
      BY <1>1, <1>5, <2>1, NullAssumption DEF Says, SameTime, NewBoundary, Deletions, Fine
  <2>3. Idle(t)
    <3>1. c.job.kind # "none"
        BY <1>1
    <3> QED
        BY <1>1, <3>1, AnsweredFacts
  <2> QED
      BY <1>1, <1>2, <1>5, <2>2, <2>3, AppliedDated
<1> QED
    BY <1>2, <1>3, <1>4, <1>5

(* No tab is ahead of what is stored.                                       *)
LEMMA NotAheadOfStored ==
    ASSUME TypeOK, NEW c, Fine(c)
    PROVE  c.epoch <= EpochOf(storage.deletion)
<1> DEFINE s == storage.deletion
<1>1. /\ c.epoch = EpochOf(c.deletion) /\ NoNewer(c.deletion, s)
      /\ c.deletion \in Deletions \cup {Null} /\ s \in Deletions \cup {Null}
    BY DEF Fine, Fits, ClientType, TypeOK, RestType
<1>2. CASE c.deletion = Null
    BY <1>1, <1>2 DEF EpochOf, Deletions
<1>3. CASE c.deletion # Null
  <2>1. c.deletion \in Deletions /\ s \in Deletions /\ ~Newer(c.deletion, s) /\ s # Null
      BY <1>1, <1>3 DEF NoNewer
  <2>2. c.deletion.epoch <= s.epoch
      BY <2>1, NewerFacts
  <2> QED
      BY <1>1, <1>3, <2>1, <2>2 DEF EpochOf
<1> QED
    BY <1>2, <1>3

LEMMA ReloadDated ==
    ASSUME Orderly, Named, Dated, NEW t \in Tabs, Reload(t)
    PROVE  Dated'
<1> DEFINE c == tab[t]
           s == storage.deletion
           d == Constructed(c.queue, c.epoch)
<1>1. TypeOK /\ RestType /\ Fine(c) /\ ClientType(c) /\ s \in Deletions \cup {Null}
    BY OrderlyTab, FineTab DEF RestType
<1>2. /\ d.job = NoJob /\ d.deletion = s /\ (d.error <=> c.queue # {} /\ c.epoch > EpochOf(s))
      /\ ClientType(d) /\ (~d.error => d.epoch = EpochOf(s))
      /\ d.queue = IF c.queue # {} /\ c.epoch = EpochOf(s) /\ On(storage.consent) THEN c.queue ELSE {}
    BY <1>1, ConstructedFacts DEF ClientType
<1>3. /\ Update(t, d) /\ UNCHANGED <<clock, cookie, storage, server>>
      /\ wire' = {IF r.tab = t THEN [r EXCEPT !.live = FALSE] ELSE r : r \in wire}
    BY DEF Reload, Abandoned
<1> HIDE DEF d
<1>4. c.epoch = EpochOf(c.deletion) /\ NoNewer(c.deletion, s)
      /\ c.deletion \in Deletions \cup {Null} /\ \A e \in c.queue : Kept(e, c.deletion)
    BY <1>1 DEF Fine, Fits, ClientType
<1>5. s # Null => s.epoch >= 1
    BY StoredPast DEF Dated
<1>6. c.epoch <= EpochOf(s)
    BY <1>1, NotAheadOfStored
<1>7. c.epoch \in Nat /\ EpochOf(s) \in Nat
    BY <1>1 DEF ClientType, EpochOf, Deletions
<1>8. ~d.error
    BY <1>2, <1>6, <1>7
<1>9. c.epoch = EpochOf(s) => \A e \in c.queue : Kept(e, s)
  <2>1. CASE s = Null
      BY <2>1 DEF Kept
  <2>2. CASE s # Null /\ c.deletion = Null
      BY <1>1, <1>4, <1>5, <2>2 DEF EpochOf, Deletions
  <2>3. CASE s # Null /\ c.deletion # Null
      BY <1>1, <1>4, <2>3 DEF EpochOf, Fine, Kept
  <2> QED
      BY <2>1, <2>2, <2>3
<1>10. Fits(d, s)
  <2>1. NoNewer(s, s)
      BY <1>1, NewerFacts DEF NoNewer
  <2>2. \A e \in d.queue : Kept(e, s)
      BY <1>2, <1>9
  <2> QED
      BY <1>2, <1>8, <2>1, <2>2 DEF Fits
<1>11. ~Says(d) /\ d.job.kind # "flush"
    BY <1>2 DEF Says, NoJob
<1>12. \A r \in wire' : r.live => r \in wire
    BY <1>1, <1>3, DeadFacts DEF TypeOK
<1> QED
    BY <1>2, <1>3, <1>10, <1>11, <1>12, UpdateDated

LEMMA OtherDated ==
    ASSUME Orderly, Named, Dated, UNCHANGED <<storage, tab, wire>>, server'.tomb = server.tomb,
           clock' \in {clock, clock + 1}
    PROVE  Dated'
<1>1. /\ UNCHANGED <<storage, tab, wire>> /\ server'.tomb = server.tomb
      /\ clock \in Nat /\ clock' \in {clock, clock + 1} /\ RestType
    BY DEF Orderly, TypeOK, RestType
<1>2. /\ Heard' = Heard /\ Tomb' = Tomb /\ \A i \in Identifiers : TombOf(i)' = TombOf(i)
    BY <1>1 DEF Heard, Says, Tomb, TombOf
<1>3. TombsPast'
  <2>1. \A i \in Identifiers : TombOf(i).before \in Nat
      BY <1>1, TombFacts DEF Tombs
  <2> QED
      BY <1>1, <1>2, <2>1 DEF TombsPast, Dated, Behind
<1>4. NotAhead' /\ EpochsAgree' /\ Owned'
    BY <1>1, <1>2 DEF NotAhead, EpochsAgree, Owned, Dated, Behind
<1> QED
    BY <1>1, <1>3, <1>4 DEF Dated, Behind

LEMMA StepDated == Orderly /\ Orderly' /\ Named /\ Dated /\ [ClientNext]_client => Dated'
<1> SUFFICES ASSUME Orderly, Orderly', Named, Dated, [ClientNext]_client PROVE Dated'
    OBVIOUS
<1>1. ASSUME NEW r \in wire, Serve(r) \/ Lose(r) \/ LoseAnswer(r) PROVE Dated'
    BY <1>1, ServeDated, LoseDated
<1>2. CASE SessionExpires \/ ClockTicks \/ UNCHANGED client
  <2>1. /\ UNCHANGED <<storage, tab, wire>> /\ server'.tomb = server.tomb
        /\ clock' \in {clock, clock + 1}
      BY <1>2 DEF SessionExpires, ClockTicks, client, Orderly, TypeOK, RestType
  <2> QED
      BY <2>1, OtherDated
<1>3. ASSUME NEW t \in Tabs,
             \/ \E enabled \in BOOLEAN : Choose(t, enabled)
             \/ ReportAgain(t) \/ Synchronize(t)
             \/ StartWrite(t) \/ SessionForWrite(t) \/ AnsweredWrite(t)
             \/ Track(t)
             \/ Flush(t) \/ FlushReported(t) \/ FlushAnswered(t)
             \/ Delete(t) \/ SessionForDelete(t) \/ DeleteAnswered(t)
             \/ Reload(t)
      PROVE  Dated'
  <2>1. ASSUME NEW enabled \in BOOLEAN, Choose(t, enabled) PROVE Dated'
      BY <2>1, ChooseDated
  <2>2. CASE \/ ReportAgain(t) \/ Synchronize(t)
             \/ StartWrite(t) \/ SessionForWrite(t) \/ AnsweredWrite(t) \/ SessionForDelete(t)
      BY <2>2, QuietWrite, QuietSession, QuietDated
  <2>3. CASE Track(t) \/ Flush(t) \/ FlushReported(t) \/ FlushAnswered(t)
      BY <2>3, TrackDated, FlushDated, FlushAnsweredDated
  <2>4. CASE Delete(t) \/ DeleteAnswered(t) \/ Reload(t)
      BY <2>4, DeleteDated, DeleteAnsweredDated, ReloadDated
  <2> QED
      BY <1>3, <2>1, <2>2, <2>3, <2>4
<1>4. ASSUME NEW r \in asked, Open(r) \/ LoseOpening(r) PROVE Dated'
  <2>1. /\ UNCHANGED <<clock, storage, wire>> /\ server'.tomb = server.tomb
        /\ UNCHANGED tab \/ \E t \in Tabs : QuietStep(t)
      BY <1>4, QuietOpen
  <2> QED
      BY <2>1, OtherDated, QuietDated
<1> QED
    BY <1>1, <1>2, <1>3, <1>4 DEF ClientNext

LEMMA InitDated == ClientInit => Dated
<1> SUFFICES ASSUME ClientInit PROVE Dated
    OBVIOUS
<1>1. /\ clock = 1 /\ storage.deletion = Null /\ storage.identity = Null /\ wire = {}
      /\ \A i \in Identifiers : server.tomb[i] = Null
      /\ \A t \in Tabs : /\ tab[t].deletion = Null /\ tab[t].queue = {} /\ tab[t].epoch = 0
                         /\ tab[t].error = FALSE /\ tab[t].job = NoJob
    BY DEF ClientInit, NewClient
<1>2. \A t \in Tabs : ~Says(tab[t]) /\ tab[t].job.kind # "flush"
    BY <1>1 DEF Says, NoJob
<1>3. Heard = {}
    BY <1>1, <1>2 DEF Heard
<1>4. TombsPast
    BY <1>1 DEF TombsPast, TombOf
<1>5. NotAhead /\ EpochsAgree /\ Owned
    BY <1>1, <1>3 DEF NotAhead, EpochsAgree, Owned
<1>6. \A t \in Tabs : Fits(tab[t], storage.deletion)
    BY <1>1 DEF Fits, NoNewer, EpochOf
<1> QED
    BY <1>1, <1>2, <1>4, <1>5, <1>6 DEF Dated, Behind

LEMMA AlwaysDated == ClientSpec => [](Orderly /\ Named /\ Dated)
<1>1. ClientInit => Named
    BY DEF ClientInit, Named, NewClient
<1> QED
    BY <1>1, InitOrderly, InitDated, StepOrderly, StepNamed, StepDated, PTL DEF ClientSpec

(* What an open tab has under way belongs to the newest deletion that any   *)
(* tab has been told of, and to no older one: the tab had read it under the *)
(* lock, and none is stored before the answer is there.                     *)
THEOREM NothingOlderIsSent == ClientSpec => []NothingDeletedIsSent
<1>1. Dated => NothingDeletedIsSent
    BY DEF Dated, Sound, Kept, EpochOf, NothingDeletedIsSent
<1> QED
    BY <1>1, AlwaysDated, PTL

---------------------------------------------------------------------------
(* An event need not be queued any longer: it may be missing, or a deletion *)
(* after it has been made.                                                  *)
Excused(e) == e \in lost \/ \E i \in Identifiers : e.at <= TombOf(i).before

(* The flush of c has been told that the server has its batch.              *)
Acknowledged(c) == c.job.kind = "flush" /\ c.job.step = "answered" /\ c.job.answer.status = "ok"

(* Whatever is queued, sent or acknowledged has been tracked, under numbers *)
(* that go up; an opt-out excuses everything; and what was acknowledged is  *)
(* excused before its tab knows.                                            *)
Numbered == \A e \in tracked : e.id <= Cardinality(tracked)
Traces(c) ==
    /\ c.queue \subseteq tracked
    /\ c.job.kind = "flush" => c.job.batch \subseteq tracked
    /\ Acknowledged(c) => \A e \in c.job.batch : Excused(e)
OptedOut == ~On(storage.consent) => tracked \subseteq lost
Somewhere(e) == Excused(e) \/ \E t \in Tabs : e \in tab[t].queue

Traced ==
    /\ Numbered /\ OptedOut
    /\ \A t \in Tabs : Traces(tab[t])
    /\ \A r \in wire : r.kind = "batch" => r.events \subseteq tracked
    /\ \A e \in tracked : Somewhere(e)

(* A step of one tab, which drops from its queue what is excused.           *)
LEMMA UpdateTraced ==
    ASSUME Orderly, Traced, NEW t \in Tabs, NEW d, Update(t, d), server'.tomb = server.tomb,
           lost \subseteq lost', tracked \subseteq tracked', Numbered', OptedOut',
           d.queue \subseteq tracked', d.job.kind = "flush" => d.job.batch \subseteq tracked',
           Acknowledged(d) => Acknowledged(tab[t]) /\ d.job.batch = tab[t].job.batch,
           \A e \in tab[t].queue \ d.queue : e \in lost' \/ Excused(e),
           \A e \in tracked' \ tracked : e \in d.queue,
           \A r \in wire' : r.kind = "batch" => r.events \subseteq tracked'
    PROVE  Traced'
<1>1. tab'[t] = d /\ \A u \in Tabs \ {t} : tab'[u] = tab[u]
    BY DEF Update, Orderly, TypeOK
<1>2. \A e : Excused(e) \/ e \in lost' => Excused(e)'
    BY DEF Excused, TombOf
<1>3. ASSUME NEW u \in Tabs
      PROVE  /\ tab'[u].queue \subseteq tracked'
             /\ tab'[u].job.kind = "flush" => tab'[u].job.batch \subseteq tracked'
             /\ Acknowledged(tab'[u]) => \A e \in tab'[u].job.batch : Excused(e)'
  <2>1. Traces(tab[u]) /\ Traces(tab[t])
      BY DEF Traced
  <2>2. CASE u # t
    <3>1. tab'[u] = tab[u]
        BY <1>1, <2>2
    <3> QED
        BY <1>2, <2>1, <3>1 DEF Traces
  <2>3. CASE u = t
    <3>1. Acknowledged(d) => \A e \in d.job.batch : Excused(e)'
        BY <1>2, <2>1 DEF Traces
    <3> QED
        BY <1>1, <2>3, <3>1
  <2> QED
      BY <2>2, <2>3
<1>4. ASSUME NEW e \in tracked' PROVE Somewhere(e)'
  <2>1. CASE e \notin tracked
      BY <1>1, <1>4, <2>1 DEF Somewhere
  <2>2. CASE e \in tracked
    <3>1. Excused(e) \/ \E u \in Tabs : e \in tab[u].queue
        BY <2>2 DEF Traced, Somewhere
    <3>2. CASE Excused(e)
        BY <1>2, <3>2 DEF Somewhere
    <3>3. ASSUME NEW u \in Tabs, e \in tab[u].queue PROVE Somewhere(e)'
        BY <1>1, <1>2, <3>3 DEF Somewhere
    <3> QED
        BY <3>1, <3>2, <3>3
  <2> QED
      BY <2>1, <2>2
<1>5. \A u \in Tabs : Traces(tab[u])'
    BY <1>3 DEF Traces, Acknowledged
<1> QED
    BY <1>4, <1>5 DEF Traced

(* Most of the time nothing is tracked and nothing decided.                 *)
LEMMA KeepTraced ==
    ASSUME Orderly, Traced, NEW t \in Tabs, NEW d, Update(t, d), server'.tomb = server.tomb,
           lost \subseteq lost', tracked' = tracked,
           storage'.consent = storage.consent \/ tracked \subseteq lost' \/ On(storage'.consent),
           d.queue \subseteq tab[t].queue,
           d.job.kind = "flush" => d.job.batch \subseteq tracked,
           Acknowledged(d) => Acknowledged(tab[t]) /\ d.job.batch = tab[t].job.batch,
           \A e \in tab[t].queue \ d.queue : e \in lost' \/ Excused(e),
           \A r \in wire' : r.kind = "batch" => r.events \subseteq tracked
    PROVE  Traced'
<1>1. Numbered'
    BY DEF Traced, Numbered
<1>2. OptedOut'
    BY DEF Traced, OptedOut, On
<1>3. d.queue \subseteq tracked'
    BY DEF Traced, Traces
<1> QED
    BY <1>1, <1>2, <1>3, UpdateTraced

(* What reading the storage drops.                                          *)
LEMMA DroppedExcused ==
    ASSUME Orderly, Named, Dated, Traced, NEW e \in tracked,
           \/ ~On(storage.consent)
           \/ \E h \in Heard : e.at <= h.before
    PROVE  Excused(e)
<1>1. CASE ~On(storage.consent)
    BY <1>1 DEF Traced, OptedOut, Excused
<1>2. ASSUME NEW h \in Heard, e.at <= h.before PROVE Excused(e)
  <2>1. storage.identity # Null /\ storage.identity \in Identifiers \cup {Null}
      BY <1>2, NothingHeard DEF Dated, Orderly, TypeOK, RestType
  <2>2. Tomb = TombOf(storage.identity) /\ h.before <= Tomb.before
      BY <2>1 DEF Tomb, Dated, Behind, NotAhead
  <2>3. e.at \in Nat
      BY DEF Orderly, TypeOK, RestType, EventSet
  <2>4. e.at <= TombOf(storage.identity).before
      BY <1>2, <2>2, <2>3, HeardType
  <2> QED
      BY <2>1, <2>4 DEF Excused
<1> QED
    BY <1>1, <1>2

LEMMA RefreshedExcused ==
    ASSUME Orderly, Named, Dated, Traced, NEW t \in Tabs
    PROVE  /\ Refreshed(tab[t]).queue \subseteq tab[t].queue
           /\ \A e \in tab[t].queue \ Refreshed(tab[t]).queue : Excused(e)
           /\ WithConsent(tab[t]).queue \subseteq tab[t].queue
           /\ \A e \in tab[t].queue \ WithConsent(tab[t]).queue : Excused(e)
           /\ tab[t].queue \subseteq tracked
<1>1. TypeOK /\ Fine(tab[t]) /\ (storage.deletion # Null => storage.deletion.install = storage.identity)
    BY OrderlyTab, FineTab
<1>2. tab[t].queue \subseteq tracked
    BY DEF Traced, Traces
<1>3. storage.deletion # Null => storage.deletion \in Heard
    BY DEF Heard
<1>4. /\ Refreshed(tab[t]).queue \subseteq tab[t].queue
      /\ \A e \in tab[t].queue \ Refreshed(tab[t]).queue :
            \/ ~On(storage.consent)
            \/ storage.deletion # Null /\ e.at <= storage.deletion.before
    BY <1>1, RefreshedFine
<1>5. /\ WithConsent(tab[t]).queue \subseteq tab[t].queue
      /\ WithConsent(tab[t]).queue = tab[t].queue \/ ~On(storage.consent)
    BY <1>1, ReadConsentFine
<1> QED
    BY <1>2, <1>3, <1>4, <1>5, DroppedExcused

LEMMA QuietTraced ==
    ASSUME Orderly, Named, Dated, Traced, NEW t \in Tabs, QuietStep(t)
    PROVE  Traced'
<1> DEFINE c == tab[t]
<1>1. PICK d, e :
          /\ e \in {c, WithConsent(c), Refreshed(c)}
          /\ Update(t, d) /\ SameCore(e, d)
          /\ \/ JobGoesOn(c, d)
             \/ e = Refreshed(c) /\ d.job.step = "preferring" /\ d.job.batch = {}
    BY DEF QuietStep
<1>2. e.queue \subseteq c.queue /\ (\A f \in c.queue \ e.queue : Excused(f)) /\ d.queue = e.queue
    BY <1>1, RefreshedExcused DEF SameCore, CoreFields
<1>3. /\ UNCHANGED <<clock, storage, tracked, lost>> /\ server'.tomb = server.tomb
      /\ \A r \in wire' \ wire : r.kind # "batch"
    BY DEF QuietStep
<1>4. /\ d.job.kind = "flush" => d.job.batch \subseteq tracked
      /\ Acknowledged(d) => Acknowledged(c) /\ d.job.batch = c.job.batch
  <2>1. CASE JobGoesOn(c, d)
      BY <2>1 DEF JobGoesOn, Acknowledged, Traced, Traces
  <2>2. CASE d.job.step = "preferring" /\ d.job.batch = {}
      BY <2>2 DEF Acknowledged
  <2> QED
      BY <1>1, <2>1, <2>2
<1>5. \A r \in wire' : r.kind = "batch" => r.events \subseteq tracked
    BY <1>3 DEF Traced
<1> QED
    BY <1>1, <1>2, <1>3, <1>4, <1>5, KeepTraced

LEMMA SendTraced ==
    ASSUME Orderly, Named, Dated, Traced, NEW t \in Tabs, NEW c \in {tab[t], Refreshed(tab[t])},
           Send(t, c)
    PROVE  Traced'
<1> DEFINE w == WithIdentity(c)
<1>1. /\ TypeOK /\ RestType /\ Fine(c) /\ ClientType(c)
    BY OrderlyTab, FineTab, RefreshedFine
<1>2. ~w.error /\ w.queue = c.queue
    BY <1>1, ReadIdentityFine
<1>3. PICK d : /\ Update(t, d)
               /\ \/ /\ w.error /\ SameCore(w, d)
                     /\ d.job = NoJob /\ UNCHANGED <<storage, wire>>
                  \/ \E i \in Identifiers : SendStep(t, c, i, d)
    BY <1>1, SendFacts, Zenon
<1>4. PICK i \in Identifiers : SendStep(t, c, i, d)
    BY <1>2, <1>3
<1>5. UNCHANGED <<clock, cookie, server, tracked, lost>>
    BY <1>1, SendFacts
<1>6. storage'.consent = storage.consent
    BY <1>1, <1>4 DEF SendStep, RestType
<1> HIDE DEF w
<1>7. d.queue = c.queue
    BY <1>2, <1>4 DEF SendStep, CoreFields, w
<1>8. /\ c.queue \subseteq tab[t].queue /\ tab[t].queue \subseteq tracked
      /\ \A f \in tab[t].queue \ c.queue : Excused(f)
    BY RefreshedExcused
<1>9. /\ d.job.kind = "flush" => d.job.batch \subseteq tracked
      /\ ~Acknowledged(d)
    BY <1>4, <1>7, <1>8 DEF SendStep, Acknowledged, NoJob
<1>10. ASSUME NEW r \in wire', r.kind = "batch" PROVE r.events \subseteq tracked
  <2>1. CASE r \in wire
      BY <1>10, <2>1 DEF Traced
  <2>2. CASE r \notin wire
      BY <1>4, <1>7, <1>8, <1>10, <2>2 DEF SendStep, BatchOf
  <2> QED
      BY <2>1, <2>2
<1> QED
    BY <1>3, <1>5, <1>6, <1>7, <1>8, <1>9, <1>10, KeepTraced

LEMMA ChooseTraced ==
    ASSUME Orderly, Named, Dated, Traced, NEW t \in Tabs, NEW enabled \in BOOLEAN,
           Choose(t, enabled)
    PROVE  Traced'
<1> DEFINE c == tab[t]
           consent == Decision(t, enabled)
           e == Deciding(t, enabled)
           d == Reported(e, Write(e))
<1>1. /\ e.queue = c.queue \/ (e.queue = {} /\ (~enabled \/ ~On(storage.consent)))
      /\ SameCore(e, d) /\ d.job = c.job /\ Update(t, d)
      /\ UNCHANGED <<wire, server, tracked>>
      /\ storage' = [storage EXCEPT !.consent = consent]
      /\ lost' = IF enabled THEN lost ELSE lost \cup tracked
      /\ consent \in Decisions
    BY ChooseFacts
<1>2. consent.enabled = enabled
    BY DEF Decision
<1> HIDE DEF consent, e, d
<1>3. d.queue = e.queue
    BY <1>1 DEF SameCore, CoreFields
<1>4. storage'.consent = consent
    BY <1>1 DEF Orderly, TypeOK, RestType
<1>5. consent # Null
    BY <1>1, NullAssumption
<1>6. tracked \subseteq lost' \/ On(storage'.consent)
    BY <1>1, <1>2, <1>4, <1>5 DEF On
<1>7. c.queue \subseteq tracked /\ \A f \in c.queue \ d.queue : f \in lost' \/ Excused(f)
    BY <1>1, <1>3 DEF Traced, Traces, OptedOut, Excused
<1>8. /\ d.job.kind = "flush" => d.job.batch \subseteq tracked
      /\ Acknowledged(d) => Acknowledged(c) /\ d.job.batch = c.job.batch
    BY <1>1 DEF Traced, Traces, Acknowledged
<1>9. \A r \in wire' : r.kind = "batch" => r.events \subseteq tracked
    BY <1>1 DEF Traced
<1>10. lost \subseteq lost' /\ server'.tomb = server.tomb /\ d.queue \subseteq c.queue
       /\ tracked' = tracked
    BY <1>1, <1>3
<1> QED
    BY <1>1, <1>6, <1>7, <1>8, <1>9, <1>10, KeepTraced

(* The event that is tracked is the newest of the queue.                    *)
LEMMA NewestKept ==
    ASSUME NEW queue, IsFiniteSet(queue), queue \subseteq EventSet, NEW n \in Nat, NEW e,
           e.id = n + 1, \A f \in queue : f.id <= n
    PROVE  e \in Trimmed(queue \cup {e})
<1>1. {f \in queue \cup {e} : f.id >= e.id} = {e}
    BY DEF EventSet
<1>2. Cardinality({e}) = 1
    BY FS_Singleton
<1> QED
    BY <1>1, <1>2, QueueAssumption DEF Trimmed

LEMMA TrackTraced ==
    ASSUME Orderly, Named, Dated, Traced, NEW t \in Tabs, Track(t)
    PROVE  Traced'
<1> DEFINE c == Refreshed(tab[t])
           e == [id |-> Cardinality(tracked) + 1, at |-> clock]
           q == Trimmed(c.queue \cup {e})
           d == IF Enabled(c) THEN [c EXCEPT !.queue = q] ELSE c
<1>1. /\ TypeOK /\ RestType /\ Fine(c) /\ ~c.error /\ c.consent = storage.consent
      /\ c.job = tab[t].job
    BY OrderlyTab, FineTab, RefreshedFine, RefreshedFacts DEF Same
<1>2. /\ c.queue \subseteq tab[t].queue /\ tab[t].queue \subseteq tracked
      /\ \A f \in tab[t].queue \ c.queue : Excused(f)
    BY RefreshedExcused
<1>3. /\ Update(t, d) /\ UNCHANGED <<clock, cookie, storage, wire, server>>
      /\ tracked' = IF Enabled(c) THEN tracked \cup {e} ELSE tracked
      /\ lost' = lost \cup (c.queue \ d.queue)
    BY DEF Track, Dropped
<1>4. /\ c.job.kind = "flush" => c.job.batch \subseteq tracked
      /\ Acknowledged(c) => Acknowledged(tab[t]) /\ c.job.batch = tab[t].job.batch
    BY <1>1 DEF Traced, Traces, Acknowledged
<1>5. \A r \in wire : r.kind = "batch" => r.events \subseteq tracked
    BY DEF Traced
<1>6. server'.tomb = server.tomb /\ storage'.consent = storage.consent /\ lost \subseteq lost'
    BY <1>3
<1>7. CASE ~Enabled(c)
  <2>1. d = c /\ tracked' = tracked
      BY <1>3, <1>7
  <2> HIDE DEF c, d
  <2> QED
      BY <1>2, <1>3, <1>4, <1>5, <1>6, <2>1, KeepTraced
<1>8. CASE Enabled(c)
  <2>1. tracked' = tracked \cup {e} /\ d = [c EXCEPT !.queue = q]
      BY <1>3, <1>8
  <2>2. /\ IsFiniteSet(tracked) /\ tracked \subseteq EventSet
        /\ \A f \in tracked : f.id <= Cardinality(tracked)
      BY <1>1 DEF Traced, Numbered, RestType
  <2>3. Cardinality(tracked) \in Nat /\ e.id = Cardinality(tracked) + 1
      BY <2>2, FS_CardinalityType
  <2>4. IsFiniteSet(c.queue) /\ c.queue \subseteq EventSet /\ \A f \in c.queue : f.id <= Cardinality(tracked)
      BY <1>2, <2>2, FS_Subset
  <2>5. e \notin tracked
      BY <2>2, <2>3 DEF EventSet
  <2> HIDE DEF e
  <2>6. e \in q /\ q \subseteq c.queue \cup {e}
    <3>1. e \in q
        BY <2>3, <2>4, NewestKept
    <3> QED
        BY <3>1 DEF Trimmed
  <2>7. Cardinality(tracked') = Cardinality(tracked) + 1
      BY <2>1, <2>2, <2>5, FS_AddElement
  <2>8. Numbered'
      BY <2>1, <2>2, <2>3, <2>7 DEF Numbered, EventSet
  <2>9. OptedOut'
      BY <1>1, <1>6, <1>8 DEF OptedOut, On, Enabled
  <2> HIDE DEF q
  <2>10. d.queue = q /\ d.job = c.job
      BY <1>1, <2>1 DEF Fine, ClientType, ClientFields
  <2> HIDE DEF d, c
  <2>11. \A f \in tab[t].queue \ d.queue : f \in lost' \/ Excused(f)
      BY <1>2, <1>3
  <2>12. /\ tracked \subseteq tracked' /\ d.queue \subseteq tracked'
         /\ d.job.kind = "flush" => d.job.batch \subseteq tracked'
         /\ Acknowledged(d) => Acknowledged(tab[t]) /\ d.job.batch = tab[t].job.batch
         /\ \A f \in tracked' \ tracked : f \in d.queue
         /\ \A r \in wire' : r.kind = "batch" => r.events \subseteq tracked'
      BY <1>2, <1>3, <1>4, <1>5, <2>1, <2>6, <2>10 DEF Acknowledged
  <2> QED
      BY <1>3, <1>6, <2>8, <2>9, <2>11, <2>12, UpdateTraced
<1> QED
    BY <1>7, <1>8

LEMMA FlushTraced ==
    ASSUME Orderly, Named, Dated, Traced, NEW t \in Tabs, Flush(t) \/ FlushReported(t)
    PROVE  Traced'
<1>1. CASE FlushReported(t)
  <2>1. Send(t, tab[t])
      BY <1>1 DEF FlushReported
  <2> QED
      BY <2>1, SendTraced
<1>2. CASE Flush(t)
    BY <1>2, QuietFlush, QuietTraced, SendTraced
<1> QED
    BY <1>1, <1>2

(* What a boundary drops was tracked before it.                             *)
LEMMA AppliedTraced ==
    ASSUME Orderly, Named, Dated, Traced, NEW t \in Tabs, Says(tab[t]),
           NEW c, Fine(c), c.deletion = tab[t].deletion,
           c.queue \subseteq tab[t].queue, \A e \in tab[t].queue \ c.queue : Excused(e),
           NEW next \in Deletions, next.install = storage.identity,
           SameTime(next, tab[t].job.answer),
           Applied(t, c, next), UNCHANGED <<clock, cookie, wire, server, tracked, lost>>
    PROVE  Traced'
<1> DEFINE e == Effective(c, next)
           a == Advanced(c, e)
           d == JobDone(a)
<1>1. TypeOK /\ RestType /\ ClientType(c) /\ storage.deletion \in Deletions \cup {Null}
    BY OrderlyTab DEF Fine, RestType
<1>2. /\ Known(c) \subseteq Deletions /\ e \in Deletions /\ e \in Known(c) \cup {next}
    BY <1>1, EffectiveFacts
<1>3. \A f \in Known(c) : f.install = storage.identity
    BY FineTab DEF Known, Fine
<1>4. Update(t, d) /\ storage' = [storage EXCEPT !.deletion = e]
    BY <1>3 DEF Applied
<1> HIDE DEF e
<1>5. \E h \in Heard : SameTime(e, h)
  <2>1. \A f \in Known(c) : f \in Heard
      BY DEF Known, Heard
  <2>2. tab[t].job.answer \in Heard
      BY DEF Heard
  <2>3. \A f : SameTime(f, f)
      BY DEF SameTime
  <2> QED
      BY <1>2, <2>1, <2>2, <2>3
<1>6. /\ ClientType(a)
      /\ a.queue = {f \in c.queue : f.at > e.before}
  <2>1. ClientType(c) /\ e \in Deletions
      BY <1>1, <1>2
  <2> QED
      BY <2>1, AdvancedFacts
<1> HIDE DEF a
<1>7. d.job = NoJob /\ d.queue = {f \in c.queue : f.at > e.before}
    BY <1>6, JobDoneFacts DEF ClientFields
<1> HIDE DEF d
<1>8. ASSUME NEW f \in tab[t].queue \ d.queue PROVE Excused(f)
  <2>1. CASE f \notin c.queue
      BY <1>8, <2>1
  <2>2. CASE f \in c.queue
    <3>1. f \in tracked
        BY <1>8 DEF Traced, Traces
    <3>2. f.at \in Nat /\ e.before \in Nat
        BY <1>1, <1>2, <2>2 DEF ClientType, EventSet, Deletions
    <3>3. f.at <= e.before
        BY <1>7, <1>8, <2>2, <3>2
    <3>4. PICK h \in Heard : SameTime(e, h)
        BY <1>5
    <3>5. f.at <= h.before
        BY <3>3, <3>4 DEF SameTime
    <3> QED
        BY <3>1, <3>5, DroppedExcused
  <2> QED
      BY <2>1, <2>2
<1>9. storage'.consent = storage.consent
    BY <1>1, <1>4 DEF RestType
<1>10. d.job.kind # "flush" /\ ~Acknowledged(d)
    BY <1>7 DEF Acknowledged, NoJob
<1>11. d.queue \subseteq tab[t].queue
    BY <1>7
<1>12. \A r \in wire' : r.kind = "batch" => r.events \subseteq tracked
    BY DEF Traced
<1>13. server'.tomb = server.tomb /\ lost \subseteq lost' /\ tracked' = tracked
    OBVIOUS
<1> QED
    BY <1>4, <1>8, <1>9, <1>10, <1>11, <1>12, <1>13, KeepTraced

LEMMA JobDoneTraced ==
    ASSUME Orderly, Named, Dated, Traced, NEW t \in Tabs, NEW c, ClientType(c),
           c.queue \subseteq tab[t].queue, \A e \in tab[t].queue \ c.queue : Excused(e),
           Update(t, JobDone(c)), UNCHANGED <<storage, wire, server, tracked, lost>>
    PROVE  Traced'
<1> DEFINE d == JobDone(c)
<1>1. d.job = NoJob /\ d.queue = c.queue
    BY JobDoneFacts DEF ClientFields
<1> HIDE DEF d
<1>2. d.job.kind # "flush" /\ ~Acknowledged(d)
    BY <1>1 DEF Acknowledged, NoJob
<1>3. Update(t, d)
    BY DEF d
<1>4. \A r \in wire' : r.kind = "batch" => r.events \subseteq tracked
    BY DEF Traced
<1> QED
    BY <1>1, <1>2, <1>3, <1>4, KeepTraced

LEMMA FlushAnsweredTraced ==
    ASSUME Orderly, Named, Dated, Traced, NEW t \in Tabs, FlushAnswered(t)
    PROVE  Traced'
<1> DEFINE c == tab[t]
           a == c.job.answer
           v == WithoutSent(c)
           r == [c EXCEPT !.trusted = IF a.status = "failed" THEN @ ELSE Null,
                          !.ready = @ /\ a.status # "expired"]
<1>1. /\ ClientType(r) /\ \A f \in ClientFields \ {"trusted", "ready"} : r[f] = c[f]
      /\ UNCHANGED <<clock, cookie, wire, server, tracked, lost>>
      /\ \/ Update(t, JobDone(r)) /\ UNCHANGED storage
         \/ Update(t, JobDone(c)) /\ UNCHANGED storage
         \/ Update(t, JobDone(v)) /\ UNCHANGED storage /\ a.status = "ok"
         \/ /\ Applied(t, v, NewBoundary(c)) /\ NewBoundary(c) \in Deletions
            /\ a.status = "ok" /\ ValidAcknowledgement(c, a)
    BY FlushAnsweredFacts
<1>2. Fine(c) /\ c.job.kind = "flush" /\ c.job.step = "answered"
    BY FineTab DEF FlushAnswered
<1>3. /\ ClientType(v) /\ v.queue = c.queue \ c.job.batch
      /\ \A f \in ClientFields \ {"queue"} : v[f] = c[f]
    BY <1>2, WithoutSentFacts DEF Fine
<1> HIDE DEF r, v
<1>4. r.queue = c.queue /\ ClientType(c)
    BY <1>1, <1>2 DEF Fine, ClientFields
<1>5. a.status = "ok" => \A e \in c.queue \ v.queue : Excused(e)
    BY <1>2, <1>3 DEF Traced, Traces, Acknowledged
<1>6. CASE (Update(t, JobDone(r)) \/ Update(t, JobDone(c))) /\ UNCHANGED storage
    BY <1>1, <1>4, <1>6, JobDoneTraced
<1>7. CASE Update(t, JobDone(v)) /\ UNCHANGED storage /\ a.status = "ok"
    BY <1>1, <1>3, <1>5, <1>7, JobDoneTraced
<1>8. CASE /\ Applied(t, v, NewBoundary(c)) /\ NewBoundary(c) \in Deletions
           /\ a.status = "ok" /\ ValidAcknowledgement(c, a)
  <2>1. Says(c) /\ SameTime(NewBoundary(c), a) /\ NewBoundary(c).install = c.identity
      BY <1>2, <1>8 DEF Says, SameTime, NewBoundary, ValidAcknowledgement
  <2>2. c.identity = storage.identity
      BY <1>2 DEF Fine, ClientType, JobType
  <2>3. Fine(v) /\ v.deletion = c.deletion
      BY <1>2, <1>3 DEF Fine, Fits, ClientFields
  <2>4. v.queue \subseteq c.queue
      BY <1>3
  <2> QED
      BY <1>1, <1>5, <1>8, <2>1, <2>2, <2>3, <2>4, AppliedTraced
<1> QED
    BY <1>1, <1>6, <1>7, <1>8

LEMMA DeleteTraced ==
    ASSUME Orderly, Named, Dated, Traced, NEW t \in Tabs, Delete(t)
    PROVE  Traced'
<1> DEFINE c == WithIdentity(tab[t])
           j == [NoJob EXCEPT !.kind = "delete", !.step = Entry(c)]
<1>1. TypeOK /\ RestType /\ Fine(c) /\ c.queue = tab[t].queue
    BY OrderlyTab, FineTab, ReadIdentityFine
<1>2. PICK i \in (IF c.identity = Null THEN Identities ELSE {c.identity}) :
           /\ storage' = IF c.identity = Null THEN [storage EXCEPT !.identity = i] ELSE storage
           /\ Update(t, [c EXCEPT !.identity = i, !.job = j])
    BY DEF Delete
<1>3. UNCHANGED <<clock, cookie, wire, server, tracked, lost>>
    BY DEF Delete
<1>4. j.kind = "delete"
    BY DEF NoJob
<1> HIDE DEF c, j
<1> DEFINE d == [c EXCEPT !.identity = i, !.job = j]
<1>5. d.job = j /\ d.queue = c.queue
    BY <1>1 DEF Fine, ClientType, ClientFields
<1>6. Update(t, d)
    BY <1>2
<1> HIDE DEF d
<1>7. d.job.kind # "flush" /\ ~Acknowledged(d)
    BY <1>4, <1>5 DEF Acknowledged
<1>8. storage'.consent = storage.consent
    BY <1>1, <1>2 DEF RestType
<1>9. \A r \in wire' : r.kind = "batch" => r.events \subseteq tracked
    BY <1>3 DEF Traced
<1> QED
    BY <1>1, <1>3, <1>5, <1>6, <1>7, <1>8, <1>9, KeepTraced

LEMMA DeleteAnsweredTraced ==
    ASSUME Orderly, Named, Dated, Traced, NEW t \in Tabs, DeleteAnswered(t)
    PROVE  Traced'
<1> DEFINE c == tab[t]
           a == c.job.answer
           d == [c EXCEPT !.job.step = "session", !.job.again = TRUE, !.ready = FALSE]
<1>1. /\ Fine(c) /\ ClientType(c) /\ c.job.kind = "delete" /\ c.job.step = "answered"
    BY FineTab DEF DeleteAnswered, Fine
<1>2. /\ UNCHANGED <<clock, cookie, wire, server, tracked, lost>>
      /\ \/ Update(t, d) /\ UNCHANGED storage
         \/ Update(t, JobDone(c)) /\ UNCHANGED storage
         \/ Applied(t, c, NewBoundary(c)) /\ a.status = "ok"
    BY DEF DeleteAnswered, NewBoundary
<1>3. CASE Update(t, d) /\ UNCHANGED storage
  <2>1. /\ d.job = [c.job EXCEPT !.step = "session", !.again = TRUE]
        /\ d.queue = c.queue
      BY <1>1 DEF ClientType, ClientFields
  <2> HIDE DEF d
  <2>2. d.job.kind = "delete"
      BY <1>1, <2>1 DEF ClientType, JobType, JobFields
  <2>3. d.job.kind # "flush" /\ ~Acknowledged(d)
      BY <2>2 DEF Acknowledged
  <2>4. \A r \in wire' : r.kind = "batch" => r.events \subseteq tracked
      BY <1>2 DEF Traced
  <2> QED
      BY <1>2, <1>3, <2>1, <2>3, <2>4, KeepTraced
<1>4. CASE Update(t, JobDone(c)) /\ UNCHANGED storage
    BY <1>1, <1>2, <1>4, JobDoneTraced
<1>5. CASE Applied(t, c, NewBoundary(c)) /\ a.status = "ok"
  <2>1. a.epoch \in Nat /\ a.before \in Nat /\ c.identity \in Identifiers
      BY <1>1, <1>5 DEF ClientType, JobType
  <2>2. /\ Says(c) /\ SameTime(NewBoundary(c), a) /\ NewBoundary(c).install = c.identity
        /\ NewBoundary(c) \in Deletions /\ c.identity = storage.identity
      BY <1>1, <1>5, <2>1, NullAssumption DEF Says, SameTime, NewBoundary, Deletions, Fine
  <2> QED
      BY <1>1, <1>2, <1>5, <2>2, AppliedTraced
<1> QED
    BY <1>2, <1>3, <1>4, <1>5

LEMMA ReloadTraced ==
    ASSUME Orderly, Named, Dated, Traced, NEW t \in Tabs, Reload(t)
    PROVE  Traced'
<1> DEFINE c == tab[t]
           s == storage.deletion
           d == Constructed(c.queue, c.epoch)
<1>1. TypeOK /\ RestType /\ Fine(c) /\ ClientType(c) /\ s \in Deletions \cup {Null}
    BY OrderlyTab, FineTab DEF RestType
<1>2. /\ d.job = NoJob
      /\ d.queue = IF c.queue # {} /\ c.epoch = EpochOf(s) /\ On(storage.consent) THEN c.queue ELSE {}
    BY <1>1, ConstructedFacts DEF ClientType
<1>3. /\ Update(t, d) /\ UNCHANGED <<clock, cookie, storage, server, tracked>>
      /\ wire' = {IF r.tab = t THEN [r EXCEPT !.live = FALSE] ELSE r : r \in wire}
      /\ lost' = IF c.epoch < EpochOf(s) THEN lost \cup c.queue ELSE lost
    BY DEF Reload, Abandoned
<1> HIDE DEF d
<1>4. c.epoch <= EpochOf(s)
    BY <1>1, NotAheadOfStored
<1>5. c.epoch \in Nat /\ EpochOf(s) \in Nat
    BY <1>1 DEF ClientType, EpochOf, Deletions
<1>6. d.queue \subseteq c.queue /\ c.queue \subseteq tracked
    BY <1>2 DEF Traced, Traces
<1>7. \A e \in c.queue \ d.queue : e \in lost' \/ Excused(e)
    BY <1>2, <1>3, <1>4, <1>5, <1>6 DEF Traced, OptedOut, Excused
<1>8. d.job.kind # "flush" /\ ~Acknowledged(d)
    BY <1>2 DEF Acknowledged, NoJob
<1>9. ASSUME NEW r \in wire', r.kind = "batch" PROVE r.events \subseteq tracked
  <2>1. PICK q \in wire : r = IF q.tab = t THEN [q EXCEPT !.live = FALSE] ELSE q
      BY <1>3, <1>9
  <2>2. r.kind = q.kind /\ (q.kind = "batch" => r.events = q.events)
      BY <1>1, <2>1, DeadFacts DEF TypeOK
  <2> QED
      BY <1>9, <2>2 DEF Traced
<1> QED
    BY <1>3, <1>6, <1>7, <1>8, <1>9, KeepTraced

(* The tab that is told what the server kept is told of what is excused.    *)
LEMMA TellTraced ==
    ASSUME Orderly, Traced, NEW r \in wire, NEW answer, AnswerTo(r, answer), Tell(r, answer),
           UNCHANGED <<storage, tracked>>, lost \subseteq lost',
           \A e \in EventSet : Excused(e) => Excused(e)',
           r.kind = "batch" /\ answer.status = "ok" => \A e \in r.events : Excused(e)',
           \A q \in wire' : q.kind = "batch" => q.events \subseteq tracked
    PROVE  Traced'
<1>1. tracked \subseteq EventSet /\ DOMAIN tab = Tabs
    BY DEF Orderly, TypeOK, RestType
<1>2. ASSUME NEW u \in Tabs
      PROVE  /\ tab'[u].queue = tab[u].queue
             /\ tab'[u].job.kind = "flush" => tab'[u].job.batch \subseteq tracked
             /\ Acknowledged(tab'[u]) => \A e \in tab'[u].job.batch : Excused(e)'
  <2>1. Traces(tab[u]) /\ (Acknowledged(tab[u]) => \A e \in tab[u].job.batch : Excused(e)')
      BY <1>1 DEF Traced, Traces, Acknowledged
  <2>2. CASE ~r.live \/ u # r.tab
    <3>1. tab'[u] = tab[u]
        BY <1>1, <2>2 DEF Tell, Update
    <3> QED
        BY <2>1, <3>1 DEF Traces
  <2>3. CASE r.live /\ u = r.tab
    <3> DEFINE c == tab[r.tab]
               d == Told(c, r, answer)
    <3>0. c = tab[u]
        BY <2>3
    <3>1. /\ ClientType(d) /\ \A f \in ClientFields \ {"writes", "job"} : d[f] = c[f]
          /\ r.kind = "choice" => d.job = c.job
          /\ r.kind # "choice" => d.job = [c.job EXCEPT !.step = "answered", !.answer = answer]
        BY <2>3, ToldFacts
    <3>2. tab'[u] = d /\ ClientType(c) /\ Awaited(r, c)
        BY <1>1, <2>3, OrderlyTab DEF Tell, Update, Told, Orderly
    <3> HIDE DEF d
    <3>3. d.queue = c.queue
        BY <3>1 DEF ClientFields
    <3>4. r.kind # "choice" => /\ d.job.kind = c.job.kind /\ d.job.batch = c.job.batch
                               /\ d.job.answer = answer
        BY <3>1, <3>2 DEF ClientType, JobType, JobFields
    <3> HIDE DEF c
    <3>5. d.job.kind = "flush" => d.job.batch \subseteq tracked
        BY <2>1, <3>0, <3>1, <3>4 DEF Traces
    <3>6. CASE r.kind = "choice"
        BY <2>1, <3>0, <3>1, <3>2, <3>3, <3>5, <3>6 DEF Acknowledged
    <3>7. CASE r.kind = "batch"
      <4>1. c.job.batch = r.events
          BY <3>2, <3>7 DEF Awaited
      <4> QED
          BY <3>2, <3>3, <3>4, <3>5, <3>7, <3>0, <4>1 DEF Acknowledged
    <3>8. CASE r.kind = "delete"
      <4>1. c.job.kind = "delete"
          BY <3>2, <3>8 DEF Awaited
      <4> QED
          BY <3>2, <3>3, <3>4, <3>5, <3>8, <3>0, <4>1 DEF Acknowledged
    <3>9. r.kind \in {"choice", "batch", "delete"}
        BY DEF Orderly, TypeOK, Requests, ChoiceRequests, BatchRequests, DeleteRequests
    <3> QED
        BY <3>6, <3>7, <3>8, <3>9
  <2> QED
      BY <2>2, <2>3
<1>3. \A u \in Tabs : Traces(tab[u])'
  <2>1. \A u \in Tabs : tab[u].queue \subseteq tracked
      BY DEF Traced, Traces
  <2> QED
      BY <1>2, <2>1 DEF Traces, Acknowledged
<1>4. ASSUME NEW e \in tracked PROVE Somewhere(e)'
  <2>1. Excused(e) \/ \E u \in Tabs : e \in tab[u].queue
      BY DEF Traced, Somewhere
  <2>2. e \in EventSet
      BY <1>1
  <2> QED
      BY <1>2, <2>1, <2>2 DEF Somewhere
<1>5. Numbered' /\ OptedOut'
    BY DEF Traced, Numbered, OptedOut, On
<1> QED
    BY <1>3, <1>4, <1>5 DEF Traced

LEMMA ServeTraced ==
    ASSUME Orderly, Orderly', Named, Dated, Traced, NEW r \in wire, Serve(r)
    PROVE  Traced'
<1> DEFINE T == TombOf(r.install)
           N == [epoch |-> T.epoch + 1, before |-> clock]
<1>1. RestType /\ r \in Requests
    BY DEF Orderly, TypeOK
<1>2. PICK answer :
           /\ Tell(r, answer) /\ AnswerTo(r, answer)
           /\ wire' = wire \ {r} /\ UNCHANGED <<clock, cookie, storage, tracked, count>>
           /\ \/ UNCHANGED server /\ answer.status \in {"expired", "refused"}
              \/ /\ r.kind = "choice" /\ r.cookie \in server.alive
                 /\ answer.status = IF Decided(server.choice[r.cookie], r) THEN "applied"
                                    ELSE "not applied"
                 /\ server' = IF ~Decided(server.choice[r.cookie], r) THEN server
                              ELSE [server EXCEPT !.choice[r.cookie] =
                                      [enabled |-> r.enabled, at |-> r.at]]
              \/ /\ r.kind = "batch" /\ r.epoch <= TombOf(r.install).epoch
                 /\ LET tomb == TombOf(r.install)
                        wanted == {e \in r.events : tomb.before = 0 \/ e.at > tomb.before}
                    IN /\ server' = [server EXCEPT
                              !.tomb[r.install] = tomb,
                              !.stored = @ \cup {[id |-> e.id, at |-> e.at, install |-> r.install]
                                                    : e \in wanted}]
                       /\ answer = [status |-> "ok", epoch |-> tomb.epoch,
                                    before |-> IF tomb.before = 0 THEN Null ELSE tomb.before,
                                    discarded |-> Cardinality(r.events \ wanted)]
              \/ /\ r.kind = "delete"
                 /\ LET tomb == [epoch |-> TombOf(r.install).epoch + 1, before |-> clock] IN
                    /\ server' = [server EXCEPT !.tomb[r.install] = tomb,
                                                !.stored = {e \in @ : e.install # r.install}]
                    /\ answer = [status |-> "ok", epoch |-> tomb.epoch, before |-> clock]
    BY ServeFacts, Zenon
<1>3. /\ DOMAIN server = {"alive", "over", "choice", "tomb", "stored"}
      /\ server.tomb \in [Identifiers -> Tombs \cup {Null}] /\ clock \in Nat
    BY <1>1 DEF RestType
<1>4. lost' = lost \cup {e \in tracked : e.id \in {s.id : s \in server'.stored}}
    BY DEF Serve
<1>5. \A q \in wire' : q.kind = "batch" => q.events \subseteq tracked
    BY <1>2 DEF Traced
<1>6. UNCHANGED <<storage, tracked>> /\ lost \subseteq lost'
    BY <1>2, <1>4
<1>7. CASE server'.tomb = server.tomb /\ ~(r.kind # "choice" /\ answer.status = "ok")
  <2>1. \A e \in EventSet : Excused(e) => Excused(e)'
      BY <1>6, <1>7 DEF Excused, TombOf
  <2>2. ~(r.kind = "batch" /\ answer.status = "ok")
      BY <1>7
  <2> QED
      BY <1>2, <1>5, <1>6, <2>1, <2>2, TellTraced
<1>8. CASE UNCHANGED server /\ answer.status \in {"expired", "refused"}
    BY <1>7, <1>8
<1>9. CASE r.kind = "choice"
  <2> DEFINE d == [enabled |-> r.enabled, at |-> r.at]
  <2>1. server' = server \/ server' = [server EXCEPT !.choice[r.cookie] = d]
      BY <1>2, <1>9
  <2> HIDE DEF d
  <2>2. server'.tomb = server.tomb
      BY <1>3, <2>1
  <2> QED
      BY <1>7, <1>9, <2>2
<1>10. ASSUME r.kind # "choice"
       PROVE  /\ r.install \in Identifiers /\ T \in Tombs /\ T.before <= clock
  <2>1. r.install \in Identifiers
      BY <1>1, <1>10 DEF Requests, ChoiceRequests, BatchRequests, DeleteRequests
  <2> QED
      BY <1>1, <2>1, TombFacts DEF Dated, Behind, TombsPast
<1>11. CASE r.kind = "batch" /\ ~(UNCHANGED server /\ answer.status \in {"expired", "refused"})
  <2> DEFINE W == {e \in r.events : T.before = 0 \/ e.at > T.before}
             new == {[id |-> e.id, at |-> e.at, install |-> r.install] : e \in W}
  <2>1. server' = [server EXCEPT !.tomb[r.install] = T, !.stored = @ \cup new]
      BY <1>2, <1>11
  <2>2. r.install \in Identifiers /\ T \in Tombs /\ T # Null
      BY <1>10, <1>11, NullAssumption
  <2>3. r.events \subseteq tracked /\ tracked \subseteq EventSet
      BY <1>1, <1>11 DEF Traced, RestType
  <2>4. ASSUME NEW e \in W PROVE \E s \in new : s.id = e.id
    <3> DEFINE s == [id |-> e.id, at |-> e.at, install |-> r.install]
    <3>1. s \in new /\ s.id = e.id
        BY <2>4
    <3> HIDE DEF s, new
    <3> QED
        BY <3>1
  <2> HIDE DEF new, T
  <2>5. server'.tomb = [server.tomb EXCEPT ![r.install] = T] /\ server'.stored = server.stored \cup new
      BY <1>3, <2>1
  <2>6. \A i \in Identifiers : server'.tomb[i] = IF i = r.install THEN T ELSE server.tomb[i]
      BY <1>3, <2>2, <2>5
  <2>7. \A i \in Identifiers : TombOf(i)' = TombOf(i)
      BY <2>2, <2>6 DEF TombOf, T
  <2>8. \A e \in EventSet : Excused(e) => Excused(e)'
      BY <1>6, <2>7 DEF Excused
  <2>9. ASSUME NEW e \in r.events PROVE Excused(e)'
    <3>1. CASE e \in W
      <4>1. e \in lost'
          BY <1>4, <2>3, <2>4, <2>5, <3>1
      <4> QED
          BY <4>1 DEF Excused
    <3>2. CASE e \notin W
      <4>1. T.before \in Nat /\ e.at \in Nat
          BY <2>2, <2>3 DEF Tombs, EventSet
      <4>2. e.at <= T.before
          BY <3>2, <4>1
      <4>3. e.at <= TombOf(r.install)'.before
          BY <2>2, <2>7, <4>2 DEF T
      <4> QED
          BY <2>2, <4>3 DEF Excused
    <3> QED
        BY <3>1, <3>2
  <2> QED
      BY <1>2, <1>5, <1>6, <2>8, <2>9, TellTraced
<1>12. CASE r.kind = "delete" /\ ~(UNCHANGED server /\ answer.status \in {"expired", "refused"})
  <2> DEFINE kept == {e \in server.stored : e.install # r.install}
  <2>1. server' = [server EXCEPT !.tomb[r.install] = N, !.stored = kept]
      BY <1>2, <1>12
  <2>2. r.install \in Identifiers /\ T \in Tombs /\ T.before <= clock
      BY <1>10, <1>12
  <2>3. T.epoch \in Nat /\ T.before \in Nat
      BY <2>2 DEF Tombs
  <2> HIDE DEF kept, T
  <2>4. N.before = clock /\ N # Null
      BY <1>3, <2>3, NullAssumption DEF Tombs
  <2> HIDE DEF N
  <2>5. server'.tomb = [server.tomb EXCEPT ![r.install] = N]
      BY <1>3, <2>1
  <2>6. \A i \in Identifiers : server'.tomb[i] = IF i = r.install THEN N ELSE server.tomb[i]
      BY <1>3, <2>5
  <2>7. \A i \in Identifiers : TombOf(i)' = IF i = r.install THEN N ELSE TombOf(i)
      BY <2>4, <2>6 DEF TombOf
  <2>8. ASSUME NEW e \in EventSet, Excused(e) PROVE Excused(e)'
    <3>1. CASE e \in lost
        BY <1>6, <3>1 DEF Excused
    <3>2. ASSUME NEW i \in Identifiers, e.at <= TombOf(i).before PROVE Excused(e)'
      <4>1. CASE i = r.install
        <5>1. e.at <= clock
            BY <1>3, <2>2, <2>3, <3>2, <4>1 DEF T, EventSet
        <5>2. e.at <= TombOf(i)'.before
            BY <2>4, <2>7, <4>1, <5>1
        <5> QED
            BY <5>2 DEF Excused
      <4>2. CASE i # r.install
          BY <2>7, <3>2, <4>2 DEF Excused
      <4> QED
          BY <4>1, <4>2
    <3> QED
        BY <2>8, <3>1, <3>2 DEF Excused
  <2> QED
      BY <1>2, <1>5, <1>6, <1>12, <2>8, TellTraced
<1>13. r.kind \in {"choice", "batch", "delete"}
    BY <1>1 DEF Requests, ChoiceRequests, BatchRequests, DeleteRequests
<1> QED
    BY <1>8, <1>9, <1>11, <1>12, <1>13

LEMMA LoseTraced ==
    ASSUME Orderly, Traced, NEW r \in wire, Lose(r) \/ LoseAnswer(r)
    PROVE  Traced'
<1> DEFINE answer == Answer("failed")
<1>1. r \in Requests
    BY DEF Orderly, TypeOK
<1>2. /\ Tell(r, answer) /\ UNCHANGED <<clock, cookie, storage, server, tracked, lost>>
      /\ wire' \subseteq (wire \ {r}) \cup {[r EXCEPT !.live = FALSE]}
    BY DEF Lose, LoseAnswer
<1>3. AnswerTo(r, answer) /\ answer.status # "ok"
    BY FailedAnswer DEF Answer
<1>4. \A e \in EventSet : Excused(e) => Excused(e)'
    BY <1>2 DEF Excused, TombOf
<1>5. ASSUME NEW q \in wire', q.kind = "batch" PROVE q.events \subseteq tracked
  <2>1. CASE q \in wire
      BY <1>5, <2>1 DEF Traced
  <2>2. CASE q = [r EXCEPT !.live = FALSE]
    <3>1. r.kind = "batch" /\ q.events = r.events
        BY <1>1, <1>5, <2>2, DeadFacts
    <3> QED
        BY <3>1 DEF Traced
  <2> QED
      BY <1>2, <2>1, <2>2
<1> HIDE DEF answer
<1>6. UNCHANGED <<storage, tracked>> /\ lost \subseteq lost'
    BY <1>2
<1> QED
    BY <1>2, <1>3, <1>4, <1>5, <1>6, TellTraced

LEMMA OtherTraced ==
    ASSUME Orderly, Traced, UNCHANGED <<storage, tab, wire, tracked, lost>>,
           server'.tomb = server.tomb
    PROVE  Traced'
<1>1. /\ UNCHANGED <<storage, tab, wire, tracked, lost>> /\ server'.tomb = server.tomb
    OBVIOUS
<1>2. \A e : Excused(e)' <=> Excused(e)
    BY <1>1 DEF Excused, TombOf
<1>3. \A t \in Tabs : Traces(tab[t])'
    BY <1>1, <1>2 DEF Traced, Traces, Acknowledged
<1>4. \A e \in tracked : Somewhere(e)'
    BY <1>1, <1>2 DEF Traced, Somewhere
<1> QED
    BY <1>1, <1>3, <1>4 DEF Traced, Numbered, OptedOut, On

LEMMA StepTraced == Orderly /\ Orderly' /\ Named /\ Dated /\ Traced /\ [ClientNext]_client => Traced'
<1> SUFFICES ASSUME Orderly, Orderly', Named, Dated, Traced, [ClientNext]_client PROVE Traced'
    OBVIOUS
<1>1. ASSUME NEW r \in wire, Serve(r) \/ Lose(r) \/ LoseAnswer(r) PROVE Traced'
    BY <1>1, ServeTraced, LoseTraced
<1>2. CASE SessionExpires \/ ClockTicks \/ UNCHANGED client
  <2>1. UNCHANGED <<storage, tab, wire, tracked, lost>> /\ server'.tomb = server.tomb
      BY <1>2 DEF SessionExpires, ClockTicks, client, Orderly, TypeOK, RestType
  <2> QED
      BY <2>1, OtherTraced
<1>3. ASSUME NEW t \in Tabs,
             \/ \E enabled \in BOOLEAN : Choose(t, enabled)
             \/ ReportAgain(t) \/ Synchronize(t)
             \/ StartWrite(t) \/ SessionForWrite(t) \/ AnsweredWrite(t)
             \/ Track(t)
             \/ Flush(t) \/ FlushReported(t) \/ FlushAnswered(t)
             \/ Delete(t) \/ SessionForDelete(t) \/ DeleteAnswered(t)
             \/ Reload(t)
      PROVE  Traced'
  <2>1. ASSUME NEW enabled \in BOOLEAN, Choose(t, enabled) PROVE Traced'
      BY <2>1, ChooseTraced
  <2>2. CASE \/ ReportAgain(t) \/ Synchronize(t)
             \/ StartWrite(t) \/ SessionForWrite(t) \/ AnsweredWrite(t) \/ SessionForDelete(t)
      BY <2>2, QuietWrite, QuietSession, QuietTraced
  <2>3. CASE Track(t) \/ Flush(t) \/ FlushReported(t) \/ FlushAnswered(t)
      BY <2>3, TrackTraced, FlushTraced, FlushAnsweredTraced
  <2>4. CASE Delete(t) \/ DeleteAnswered(t) \/ Reload(t)
      BY <2>4, DeleteTraced, DeleteAnsweredTraced, ReloadTraced
  <2> QED
      BY <1>3, <2>1, <2>2, <2>3, <2>4
<1>4. ASSUME NEW r \in asked, Open(r) \/ LoseOpening(r) PROVE Traced'
  <2>1. /\ UNCHANGED <<storage, wire, tracked, lost>> /\ server'.tomb = server.tomb
        /\ UNCHANGED tab \/ \E t \in Tabs : QuietStep(t)
      BY <1>4, QuietOpen
  <2> QED
      BY <2>1, OtherTraced, QuietTraced
<1> QED
    BY <1>1, <1>2, <1>3, <1>4 DEF ClientNext

LEMMA InitTraced == ClientInit => Traced
<1> SUFFICES ASSUME ClientInit PROVE Traced
    OBVIOUS
<1>1. /\ storage.consent = Null /\ wire = {} /\ tracked = {} /\ lost = {}
      /\ \A t \in Tabs : tab[t].queue = {} /\ tab[t].job = NoJob
    BY DEF ClientInit, NewClient
<1>2. \A t \in Tabs : Traces(tab[t])
    BY <1>1 DEF Traces, Acknowledged, NoJob
<1> QED
    BY <1>1, <1>2 DEF Traced, Numbered, OptedOut

(* Every event that was tracked is still queued in some tab, or missing for *)
(* one of the reasons that are allowed, or from before a deletion.          *)
THEOREM NothingIsLost == ClientSpec => []NothingLost
<1>1. Traced => NothingLost
    BY DEF Traced, Somewhere, Excused, NothingLost
<1> QED
    BY <1>1, InitTraced, StepTraced, AlwaysDated, PTL DEF ClientSpec
============================================================================
