-------------------------------- MODULE History --------------------------------
(***************************************************************************)
(* The histories of the browser, for standard games and for practices:     *)
(* the stores in IndexedDB (solo-history.ts, practice-history.ts), the     *)
(* panels that show, export, import and delete them (SoloHistory.tsx,      *)
(* PracticeHistory.tsx), the writes of ended games that wait in the memory *)
(* of a page, and the personal bests of older versions.                    *)
(*                                                                         *)
(* Several tabs share the database.  It runs a transaction when no earlier *)
(* one conflicts with it, as a whole or not at all, and tells its tab at   *)
(* once.  What a record says beyond its id is whether it has a replay:     *)
(* practices always have one, a game whose replay could not be stored has  *)
(* none.  The stores may hold a record or a replay that another version    *)
(* wrote and this one does not accept; a behaviour is about one of the two *)
(* histories.  MaxSteps bounds what users and failures do.                 *)
(***************************************************************************)
EXTENDS Integers, FiniteSets, Sequences, SequencesExt

CONSTANTS
    Tabs,
    Games,       \* ids of the games that end here, valid in this version
    Foreign,     \* ids of records that only come from files
    Old,         \* ids of records of another version, in the store from the beginning
    BadRuns,     \* ids whose record is not valid in this version
    BadReplays,  \* ids whose replay is not
    Loose,       \* ids whose replay is valid, but does not play back to the same game
    Large,       \* ids whose replay is large
    FileLimit,   \* so many of those fit into SOLO_HISTORY_IMPORT_MAX_BYTES
    Bests,     \* keys of personal bests in localStorage
    BadBests,  \* those whose key or value is not valid
    None,
    Limit,       \* SOLO_HISTORY_MAX_RECORDS
    MaxSteps

VARIABLES
    kind,        \* "STANDARD" or "PRACTICE"
    disk,        \* [runs, replays, bests]: the object stores
    queue,       \* transactions that were begun, in this order
    tab,         \* what a page keeps: see NewTab
    file,        \* the latest downloaded file, with torn (history), or None
    left,        \* games that have not ended yet
    steps

vars == <<kind, disk, queue, tab, file, left, steps>>

Standard == kind = "STANDARD"

NewTab ==
    [open |-> FALSE,      \* the panel is mounted
     view |-> {},         \* rawRecords, snapshot: the valid ones are shown
     failed |-> FALSE,    \* the latest reading failed
     reload |-> FALSE,    \* the refresh token has changed
     busy |-> FALSE,
     export |-> None,     \* [runs, got, torn]: an export that is reading replays
     pending |-> {},      \* pendingHistoryWrites: [id, state]
     run |-> None,        \* the ended practice on the screen
     behind |-> FALSE]    \* history: another tab has changed the store since

Step == steps < MaxSteps /\ steps' = steps + 1
----------------------------------------------------------------------------
(* The stores *)

\* validateSoloRunRecordV2, validateSoloReplayV1: the form.
ValidRun(r) == r.id \notin BadRuns
ValidReplay(id) == id \notin BadReplays

\* verifySoloReplay, verifyPracticeReplay: the actions lead from state to state as recorded.
\* One that was played with question marks switched in between may not, since a replay
\* has one setting.
PlaysBack(id) == id \notin Loose

\* readResult: the records, of all that are stored.
Shown(R) == {r \in R : ValidRun(r)}

Announced(R) == {r.id : r \in {r \in R : r.replay}}
Named(R, id) == {r \in R : r.id = id}

\* Every record has the replay it announces, and no replay is without its record:
\* replayIssueCount is zero.
Paired(d) == d.replays = Announced(Shown(d.runs))

\* validatePracticeDocumentCollections, and the same for games.
Whole(doc) ==
    /\ \A r, s \in doc.runs : r.id = s.id => r = s
    /\ \A r \in doc.runs : ValidRun(r)
    /\ \A id \in doc.replays : ValidReplay(id) /\ PlaysBack(id)
    /\ Paired(doc)

\* What an import refuses before it reads the file, and what parsing accepts.
TooLarge(doc) == Cardinality(doc.replays \cap Large) > FileLimit
Acceptable(doc) == Cardinality(doc.runs) <= Limit /\ Whole(doc)

SameAsStored(d, r) == r \in d.runs /\ (r.id \in d.replays <=> r.replay)

Added(d, R) == [d EXCEPT !.runs = @ \cup R, !.replays = @ \cup Announced(R)]

\* put and importDocument: records that are there already are left alone; another
\* record of the same id, or too many, and nothing is written.
New(d, R) == {r \in R : Named(d.runs, r.id) = {}}
Fits(d, R) ==
    /\ \A r \in R \ New(d, R) : SameAsStored(d, r)
    /\ \A r \in New(d, R) : r.id \notin d.replays
    /\ Cardinality(d.runs) + Cardinality(New(d, R)) <= Limit

\* prepareLegacyPersonalBestMigration
Prepared == Bests \ BadBests

Works(d, tx) == tx.op \in {"PUT", "IMPORT"} => Fits(d, tx.runs)

Effect(d, tx) ==
    CASE tx.op \in {"PUT", "IMPORT"} -> Added(d, New(d, tx.runs))
      [] tx.op = "CLEAR" -> [d EXCEPT !.runs = {}, !.replays = {}]
      [] tx.op = "MIGRATE" -> [d EXCEPT !.bests = @ \cup Prepared]
      [] OTHER -> d

\* Transactions on common object stores that do not both only read.
Writes(tx) == tx.op \in {"PUT", "IMPORT", "CLEAR"}
Conflict(a, b) ==
    IF "MIGRATE" \in {a.op, b.op} THEN a.op = b.op ELSE Writes(a) \/ Writes(b)

Ready(i) == \A j \in 1 .. i - 1 : ~Conflict(queue[j], queue[i])
----------------------------------------------------------------------------
(* Transactions that a tab begins, R is what is written or looked up. *)

Operations == {"READ", "REPLAY", "PUT", "IMPORT", "CLEAR", "MIGRATE"}
Tx(t, op, why, R) == [tab |-> t, op |-> op, why |-> why, runs |-> R]
Reading(t, why) == Tx(t, "READ", why, {})
Ended(id, whole) == [id |-> id, replay |-> whole]
Putting(t, id, whole) == Tx(t, "PUT", "end", {Ended(id, whole)})

\* store.readReplay for the records of an export: one after the other for games, all
\* at once for practices.
Lookups(t, R) == [i \in 1 .. Cardinality(R) |-> Tx(t, "REPLAY", "export", {SetToSeq(R)[i]})]

\* The queue without the transactions of a tab that are operations of these.
Without(q, t, ops) ==
    LET kept[n \in 0 .. Len(q)] ==
          IF n = 0 THEN <<>>
          ELSE IF q[n].tab = t /\ q[n].op \in ops THEN kept[n - 1]
          ELSE Append(kept[n - 1], q[n])
    IN kept[Len(q)]
----------------------------------------------------------------------------
(* The continuations: the tab afterwards, what it begins, what it downloads. *)

Goes(x) == [tab |-> x, begins |-> <<>>, file |-> None]

\* createPracticeHistoryExport refuses a file that lacks a replay or has one that does not
\* play back; the panel of games leaves out what it does not find and plays nothing back.
\* Neither looks at the size.
Complete_Always(doc) == TRUE
Complete(doc) == Standard \/ Whole(doc)

Downloads(x) ==
    LET doc == [runs |-> x.export.runs, replays |-> x.export.got]
    IN [Goes([x EXCEPT !.export = None, !.busy = FALSE]) EXCEPT
          !.file = IF Complete(doc) THEN [doc |-> doc, torn |-> x.export.torn] ELSE None]

AfterRead(t, x, tx, ok) ==
    LET records == Shown(disk.runs)
        shown == [x EXCEPT !.view = disk.runs, !.failed = FALSE, !.behind = FALSE]
        started == [x EXCEPT !.export = [runs |-> records, got |-> {}, torn |-> FALSE]]
        idle(y) == [y EXCEPT !.busy = IF tx.why = "refresh" THEN @ ELSE FALSE]
    IN CASE tx.why # "export" -> Goes(idle(IF ok THEN shown ELSE [x EXCEPT !.failed = TRUE]))
         [] tx.why = "export" /\ ok /\ records = disk.runs /\ Paired(disk) ->
              IF records = {} THEN Downloads(started)
              ELSE [Goes(started) EXCEPT !.begins = SubSeq(Lookups(t, records), 1, 1)]
         [] OTHER -> Goes(idle(x))

AfterReplay(t, x, tx, ok) ==
    LET id == (CHOOSE r \in tx.runs : TRUE).id
        read == ok /\ (id \in disk.replays => ValidReplay(id))
        y == [x EXCEPT !.export.got = @ \cup ({id} \cap disk.replays)]
        all == Lookups(t, x.export.runs)
        next == {i \in 2 .. Len(all) : all[i - 1] = tx}
        last == IF Standard THEN next = {} ELSE Len(queue) - Len(Without(queue, t, {"REPLAY"})) = 1
    IN CASE ~read -> Goes([x EXCEPT !.export = None, !.busy = FALSE])
         [] read /\ last -> Downloads(y)
         [] OTHER -> [Goes(y) EXCEPT !.begins = IF Standard THEN <<all[CHOOSE i \in next : TRUE]>> ELSE <<>>]

\* attemptPendingHistoryWrite: without the replay when it cannot be written with it,
\* and kept when that fails as well; the listeners of pending writes are told.
Settled_Quietly(x, id, rest) == [x EXCEPT !.pending = {p \in @ : p.id # id} \cup rest]
Settled(x, id, rest) == [x EXCEPT !.pending = {p \in @ : p.id # id} \cup rest, !.reload = TRUE]

AfterPut(t, x, tx, ok) ==
    LET r == CHOOSE r \in tx.runs : TRUE
    IN CASE ~Standard -> Goes([x EXCEPT !.reload = @ \/ (ok /\ x.open /\ x.run = r.id)])
         [] Standard /\ ok -> Goes(Settled(x, r.id, {}))
         [] Standard /\ ~ok /\ r.replay -> [Goes(x) EXCEPT !.begins = <<Putting(t, r.id, FALSE)>>]
         [] OTHER -> Goes(Settled(x, r.id, {[id |-> r.id, state |-> "failed"]}))

AfterImport(t, x, ok) ==
    IF ok THEN [Goes(x) EXCEPT !.begins = <<Reading(t, "import")>>]
    ELSE Goes([x EXCEPT !.busy = FALSE])

AfterClear(t, x, ok) ==
    CASE ok /\ Standard -> Goes([x EXCEPT !.view = {}, !.busy = FALSE, !.behind = FALSE])
      [] ok /\ ~Standard -> [Goes(x) EXCEPT !.begins = <<Reading(t, "refresh")>>]
      [] ~ok -> Goes([x EXCEPT !.busy = FALSE])

After(tx, ok) ==
    LET t == tx.tab x == tab[tx.tab]
    IN CASE tx.op = "READ" -> AfterRead(t, x, tx, ok)
         [] tx.op = "REPLAY" -> AfterReplay(t, x, tx, ok)
         [] tx.op = "PUT" -> AfterPut(t, x, tx, ok)
         [] tx.op = "IMPORT" -> AfterImport(t, x, ok)
         [] tx.op = "CLEAR" -> AfterClear(t, x, ok)
         [] tx.op = "MIGRATE" -> Goes(x)

\* What the other tabs do not know of a change, and the export it tears.
Overtaken(x, tx) ==
    [x EXCEPT !.behind = @ \/ Writes(tx),
              !.export = IF @ # None /\ tx.op = "CLEAR" THEN [@ EXCEPT !.torn = TRUE] ELSE @]

Answer(i, ok) ==
    LET tx == queue[i]
        next == After(tx, ok)
        rest == IF tx.op = "REPLAY" /\ next.tab.export = None THEN Without(queue, tx.tab, {"REPLAY"})
                ELSE RemoveAt(queue, i)
    IN /\ queue' = rest \o next.begins
       /\ tab' = [t \in Tabs |-> IF t = tx.tab THEN next.tab
                                 ELSE IF ok THEN Overtaken(tab[t], tx) ELSE tab[t]]
       /\ file' = IF next.file = None THEN file ELSE next.file

\* A transaction completes, or is aborted by what it finds.
Commit(i) ==
    LET ok == Works(disk, queue[i])
    IN /\ Ready(i)
       /\ disk' = IF ok THEN Effect(disk, queue[i]) ELSE disk
       /\ Answer(i, ok)
       /\ UNCHANGED <<kind, left, steps>>

\* A transaction is aborted by the browser: no space, no permission.
Abort(i) == Ready(i) /\ Step /\ Answer(i, FALSE) /\ UNCHANGED <<kind, disk, left>>
----------------------------------------------------------------------------
(* The pages *)

Becomes(t, x) == tab' = [tab EXCEPT ![t] = x]
Begins(txs) == queue' = queue \o txs
Rest == UNCHANGED <<kind, disk, file, left, steps>>

\* The panel is mounted, with the page or, for practices, when the result of one is
\* left or its history is asked for.
Open(t) ==
    /\ ~tab[t].open
    /\ \E run \in {tab[t].run, None} : Becomes(t, [tab[t] EXCEPT !.open = TRUE, !.run = run])
    /\ Begins(<<Reading(t, "refresh")>> \o
              (IF Standard THEN <<Tx(t, "MIGRATE", "mount", {})>> ELSE <<>>))
    /\ Rest

\* The effect on the refresh token.
Refresh(t) ==
    /\ tab[t].open /\ tab[t].reload
    /\ Becomes(t, [tab[t] EXCEPT !.reload = FALSE])
    /\ Begins(<<Reading(t, "refresh")>>)
    /\ Rest

\* put checks the form of a game's replay; that of a practice it plays back first.
Written(t, id) == IF Standard \/ PlaysBack(id) THEN <<Putting(t, id, TRUE)>> ELSE <<>>

\* A game ends and waits to be written; a practice ends and its panel is replaced by
\* the result.
GameEnds(t, id) ==
    /\ id \in left /\ left' = left \ {id} /\ tab[t].run = None /\ tab[t].open
    /\ Becomes(t, IF Standard
                  THEN [tab[t] EXCEPT !.pending = @ \cup {[id |-> id, state |-> "saving"]},
                                      !.reload = TRUE]
                  ELSE [tab[t] EXCEPT !.run = id, !.open = FALSE, !.view = {},
                                      !.failed = FALSE, !.reload = FALSE])
    /\ queue' = (IF Standard THEN queue ELSE Without(queue, t, {"READ"})) \o Written(t, id)
    /\ UNCHANGED <<kind, disk, file, steps>>

\* The result of a practice is left with the panel already open.
Leave(t) ==
    /\ tab[t].run # None /\ tab[t].open
    /\ Becomes(t, [tab[t] EXCEPT !.run = None])
    /\ UNCHANGED queue /\ Rest

Retry(t, p) ==
    /\ p.state = "failed"
    /\ Becomes(t, [tab[t] EXCEPT !.pending = (@ \ {p}) \cup {[p EXCEPT !.state = "saving"]},
                                 !.reload = TRUE])
    /\ Begins(<<Putting(t, p.id, TRUE)>>)
    /\ Rest

\* The buttons of the panel: those of games are disabled while one of them works.
Usable(t) == tab[t].open /\ ~tab[t].busy

ImportFile(t, doc) ==
    /\ Usable(t) /\ ~TooLarge(doc) /\ Acceptable(doc) /\ Step
    /\ Becomes(t, [tab[t] EXCEPT !.busy = Standard])
    /\ Begins(<<Tx(t, "IMPORT", "import", doc.runs)>>)
    /\ UNCHANGED <<kind, disk, file, left>>

ExportFile(t) ==
    LET started == [tab[t] EXCEPT !.export = [runs |-> Shown(tab[t].view), got |-> {}, torn |-> FALSE]]
    IN /\ Usable(t) /\ tab[t].export = None /\ tab[t].view # {} /\ Step
       /\ \/ /\ Standard /\ Shown(tab[t].view) # {}
             /\ Becomes(t, [tab[t] EXCEPT !.busy = TRUE])
             /\ Begins(<<Reading(t, "export")>>)
             /\ UNCHANGED file
          \/ /\ ~Standard /\ Lookups(t, started.export.runs) # <<>>
             /\ Becomes(t, started)
             /\ Begins(Lookups(t, started.export.runs))
             /\ UNCHANGED file
          \/ /\ ~Standard /\ Lookups(t, started.export.runs) = <<>>
             /\ file' = Downloads(started).file
             /\ UNCHANGED <<queue, tab>>
       /\ UNCHANGED <<kind, disk, left>>

Delete(t) ==
    /\ Usable(t) /\ tab[t].view # {} /\ Step
    /\ Becomes(t, [tab[t] EXCEPT !.busy = Standard])
    /\ Begins(<<Tx(t, "CLEAR", "delete", {})>>)
    /\ UNCHANGED <<kind, disk, file, left>>

\* A page is closed or loaded again: what it had not committed is gone, and what
\* waited in its memory.
Reload(t) ==
    /\ Step
    /\ Becomes(t, NewTab)
    /\ queue' = Without(queue, t, Operations)
    /\ UNCHANGED <<kind, disk, file, left>>
----------------------------------------------------------------------------
Init ==
    /\ kind \in {"STANDARD", "PRACTICE"}
    /\ disk \in {[runs |-> {}, replays |-> {}, bests |-> {}]} \cup
               {[runs |-> {Ended(id, TRUE)}, replays |-> {id}, bests |-> {}] : id \in Old}
    /\ queue = <<>> /\ tab = [t \in Tabs |-> NewTab]
    /\ file = None /\ left = Games /\ steps = 0

\* Files: of other browsers, with the record and the replay of one game, and the one that
\* was downloaded.
Documents ==
    LET ids == Foreign \cup Old
        whole == IF Standard THEN BOOLEAN ELSE {TRUE}
    IN [runs : {{}} \cup {{r} : r \in [id : ids, replay : whole]},
        replays : {{}} \cup {{id} : id \in ids}]
       \cup (IF file = None THEN {} ELSE {file.doc})

Next ==
    \/ \E i \in 1 .. Len(queue) : Commit(i) \/ Abort(i)
    \/ \E t \in Tabs :
         \/ Open(t) \/ Refresh(t) \/ Leave(t) \/ Reload(t)
         \/ \E id \in Games : GameEnds(t, id)
         \/ \E p \in tab[t].pending : Retry(t, p)
         \/ \E doc \in Documents : ImportFile(t, doc)
         \/ ExportFile(t) \/ Delete(t)

Spec == Init /\ [][Next]_vars
----------------------------------------------------------------------------
(* Properties *)

\* A panel that waits for nothing shows the store, unless the latest reading failed or
\* another tab has changed the store since: after a game was written in whichever way,
\* an import, a deletion, or a practice whose result was left before it was saved.
ViewIsCurrent ==
    \A t \in Tabs :
        /\ tab[t].open /\ ~tab[t].reload /\ ~tab[t].failed /\ ~tab[t].behind
        /\ \A i \in 1 .. Len(queue) : queue[i].tab # t
        => tab[t].view = disk.runs

\* The history is whole and can be carried elsewhere: the stores keep to the limit and
\* to each other, whatever tabs write at once, fail halfway or are closed, and a file
\* that was downloaded is one that an import accepts, with three exceptions.  It may be too
\* large, which no export looks at; another tab may have deleted the games during
\* their export; and a replay of a game may not play back, which only an import finds out.
HistoryIsWhole ==
    /\ Cardinality(disk.runs) <= Limit
    /\ \A r, s \in disk.runs : r.id = s.id => r = s
    /\ \A r \in disk.runs : r.replay <=> r.id \in disk.replays
    /\ disk.replays \subseteq Announced(disk.runs)
    /\ /\ file # None /\ ~TooLarge(file.doc)
       /\ Standard => ~file.torn /\ \A id \in file.doc.replays : PlaysBack(id)
       => Acceptable(file.doc)
=============================================================================
