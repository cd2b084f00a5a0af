# H-MineSweeper in TLA+

A verification development kept beside the code: TLA+ modules translated from
the source, TLC configurations that check them on small instances, and
machine-checked proofs (TLAPS) of what matters most for every value of the
parameters. Paths below are relative to the repository.

## 1. The system

H-MineSweeper is a browser Minesweeper with solo and practice modes and an
experimental two-player duel. A Node server keeps guest sessions, rooms and an
optional telemetry database; the duel runs over a WebSocket.

| Component | State it keeps | Operations | What makes it correct |
|---|---|---|---|
| `RoomActor`, the room (`apps/server/src/room-actor.ts`) | phase, two seats, round and match counters, wins, result, five timeouts, replays | join, connect, disconnect, READY, REMATCH, board actions, timeouts, close | a match always has both its players and ends by its rules; every round ends; timeouts never outlive their phase; votes, boards and replays keep their limits |
| `RoomActor`, the stream of a player (same file) | stream number, ring of 256 messages, ids of actions, cache of 2048 results | emit, catch up, snapshot, `handleAction` | an action takes effect once; what was missed is sent again or replaced by a snapshot; memory is bounded |
| Duel client (`App.tsx`, `lib/realtime.ts`, `lib/api.ts` of `apps/web/src`) | optimistic board, pending actions, processed number, phase; the state last rendered; the socket of the latest entry | enter, leave, messages, clicks, ends of sockets | the local board converges to the room's; no false integrity alarm; a duel ends only with its own socket |
| `RealtimeGateway` (`realtime-gateway.ts`) | one context per socket: authentication, activity | HELLO, ACTION, PING, heartbeat, close | only the newest connection of a player acts; a late close does no harm; nobody lingers |
| Guest sessions and tickets (`stores.ts`) | sessions, tickets, epochs, all with expiry | issue, consume, sweep | a ticket is used once; epochs only grow |
| `RoomManager` (`room-manager.ts`) | rooms by id and by code | create, join, lookup, sweep, close | both maps agree; a room in use is not swept; capacity |
| REST server (`app.ts`, `config.ts`) | the services it wires | the REST routes, maintenance, shutdown | order of session, room and ticket calls; the shutdown ends |
| `RestRateLimiter` (`rest-rate-limiter.ts`) | a bucket per key | consume, sweep | the rate holds although keys are forgotten; who obeys the advised wait is not refused again by his own bucket |
| `SqliteTelemetryStore` (`telemetry-store.ts`) | sessions, raw events, aggregates, deletion tombstones, preferences | createSession, ingest, delete, preference, sweep | nothing deleted returns; the latest decision wins; counts are not doubled |
| Telemetry client (`lib/telemetry.ts`) | queue, decision, identity and deletion in storage that all tabs share | track, flush, opt in and out, delete | tabs do not undo each other; nothing deleted is sent again, nothing else is dropped |
| Game core (`packages/game-core/src/index.ts`) | board, visibility, outcome | reveal, flag, chord, deduce, solve | counter and outcome are true; deductions are sound and complete; certified boards need no guess |
| Solo game (`components/SoloGame.tsx`, `lib/solo*.ts`) | board, status, replay, coach, requests to two workers | clicks, generation, coaching, saving | late answers of workers are ignored; the replay tells the game; a result is saved once |
| Histories (`lib/solo-history.ts`, `lib/practice-history.ts` and their panels) | IndexedDB records and replays | save, prune, import, export, delete | limits; the stores agree; an export has the replays of its records |
| Practice coach (`lib/practice-coach.ts`) | none: it answers what is seen | suggest a step | it is right about the board it was asked about |
| Presentation, release scripts, deployment | none, or one-shot | | outside a state-machine model |

How they interact: a browser creates or joins a room by REST and gets a ticket
with an epoch; the gateway consumes the ticket at HELLO and calls
`RoomActor.connect`; afterwards every message of the socket is one call of
`handleAction`, and its close one call of `disconnect`. The room answers
through the player's numbered stream. The room's timeouts and the sweep of the
manager are further callers of the same actor. Everything on the server runs
on one event loop: a handler is atomic, so one handler is one action here, and
the interleavings are those of handlers, timeouts, sockets, tabs and workers.
In the browser a handler runs from one `await` to the next; React renders
later, workers answer later, tabs share storage and the database.

The hard behaviours are listed at their lines in `PROJECT.json` under
`hazards`, each with the properties that guard it.

## 2. The modules

| Module | Models | Checked by | Proved in |
|---|---|---|---|
| `RoomActor` | the life of one room | `room`, `room_rematch` | `RoomActorProofs` |
| `BestOfThree` | what a match promises, without room or network | (refined by `RoomActor`) | |
| `ActionStream` | the room as one player sees it through his stream | `stream` | `DuelSessionProofs` |
| `DuelSession` | `ActionStream` and one browser, joined by a connection | `session` | `DuelSessionProofs` |
| `DuelConnection` | how a page enters and leaves duels, with the sockets of several entries | `session`, `duel_entry` | `DuelSessionProofs` |
| `Gateway` | REST routes, sessions, the manager's maps, sockets; extends `Tickets` | `gateway`, `gateway_live` | `GatewayProofs` |
| `Tickets` | what tickets promise | (refined by `TicketStore`) | |
| `TicketStore` | tickets and epochs against the clock | `server_tables` | `ServerTablesProofs` |
| `RateLimit` | what a limiter promises | (refined by `RestRateLimiter`) | |
| `RestRateLimiter` | the buckets of the REST limiter | `server_tables` | `ServerTablesProofs` |
| `TelemetryStore` | the database behind the telemetry routes | `telemetry` | `TelemetryStoreProofs` |
| `TelemetryLog` | a log in which deletion is final | (refined by `TelemetryStore`) | |
| `TelemetryClient` | several tabs of one browser over one storage | `telemetry` | `TelemetryClientProofs` |
| `GameCore` | rules of the board, 3BV | `game` | `GameCoreProofs` |
| `Deduction` | deductions, complete analysis, solver | `game` | `GameCoreProofs` |
| `SoloGame` | solo game and practice with their workers, coach, replay and saving | `solo`, `solo_practice` | `SoloGameProofs` |
| `History` | both histories: stores, panels, files, waiting writes | `solo` | `SoloGameProofs` |

The instances for TLC are `MCRoomActor`, `MCActionStream`, `MCDuelSession`,
`MCGateway`, `MCServerTables`, `MCTelemetry`, `MCDeduction` and `MCSoloGame`.
Where one of them holds two instances, a behaviour is of one of them (a
variable `part` or `table` says which) and the other stays as it began: two
separate searches in one run.

In a module, a definition named `X_Something` beside an `X` is not part of the model: it is
a plausible bug in `X`, used to see that some property notices it.

### RoomActor

One record `room` holds the actor's private fields: `#phase`, `#round`,
`#totalRoundsStarted`, `#board`, `#matchResult`, the fields of both
`PlayerRuntime`s and the replays. There is one action per public method and one
per timeout. A method that calls others is the composition of operators on the
record, in the code's order (`HandleReady` uses `StartCountdown`, which uses
`FinishMatch` or `Record`), so the middle of a handler can end the match as it
does in the code.

* A timeout has a handle and a firing. `UNSET`, `ARMED` and, after it ran
  without its field being cleared, `FIRED` are kept apart, because the code
  tests the handle (`if (this.#terminalTimer) return`).
* `record` may find the replay full (`maxReplayEvents`, `maxReplayBytes`)
  at any event; the constant `Overflows` says at which ones. Then the replay
  becomes UNAVAILABLE and the match ends in the middle of the handler.
* Boards are their outcome (playing, complete, mine) and which player is ahead;
  the clock is whether the deadline has passed.
* `Sweep` and `Shutdown` are what `RoomManager` does to one room.

### ActionStream, DuelSession and DuelConnection

`ActionStream` is the same file, seen from one player. `srv` holds his
`PlayerRuntime` and as much of the room as his messages depend on.
`handleAction` is kept check by check, in order: `Outdated` (epoch, match,
position), `FallenBehind` (the ring does not reach back), `Repeated` (a cached
result), `Declined` (a remembered id, or the action limit), `Misbased`
(another board) and `Dispatched`. What the opponent, the timers and the manager
do is `RoomMoves`, which may happen whenever this player's state permits it: a
superset of what `RoomActor` lets them do. A board stands for its hash and the
game core is the constant operator `Play`. `applied`, `sent` and `asked` are
history fields of the record.

`DuelSession` adds the browser of that player, with the queue of envelopes `up`
and the queue of messages `down`. `cli` holds the refs of `App.tsx` (`gameRef`,
`pendingActionsRef`, `snapshotRequiredRef`, `processedServerSeqRef`) and, under
`ui`, what the latest rendering captured. `sendAction` and the guard of
`handleBoardAction` read the rendered phase, match and position, `handleMessage`
writes the refs at once, and `Render` may come late: that is the stale closure
of React, modelled as it is. `failed` is `failIntegrity`. `late` is history: a round
has begun while an action of the one before was on its way, or its `COUNTDOWN`,
or while the browser still showed that one (`RoundLingers`); or an action came
from further behind than the ring reaches.

`DuelConnection` is about the page around it: `enterRoom` awaits a session, a
room and the handshake, each of which may succeed, fail or come after the page
has left or entered again; every entry has a socket of its own, and
`RealtimeClient` remembers the newest.

### Gateway, TicketStore and RestRateLimiter

`Gateway` has one action per REST route that changes something, per event of a
socket and per interval of the server. The two maps of `RoomManager` and its
rooms are separate variables, so that they can disagree; every lookup begins
with `Lookup` and `Swept`, as `getById`, `create` and `join` begin with
`sweepIdleRooms`. That a match is played only with both connected is
`MatchHasBothPlayers`, proved of `RoomActor`. A socket that is closed by the
server stays, as `CLOSING`, until its close event, and may deliver messages
until then: so does `ws`, whose behaviour is taken from how the gateway uses it.
No REST route gives a player a second ticket (`ALREADY_JOINED`), but the stores,
the room and the gateway are written for it, the stores' tests do it and the
exported `getServerServices` allows it; `Reissue` is that call.

`TicketStore` keeps `#tickets` and `#epochs` with their expiry against a clock
that ticks; every method begins with its sweep. `Tickets` is the same without a
clock: a ticket may expire at any time. `Gateway` relies on `Tickets` only.

In `RestRateLimiter` tokens are integer units, so that refilling needs no
fractions. The abstract `RateLimit` has a debt for every key that time pays
off; the debt of a key here is what its bucket lacks. `told` remembers the last
answer to a key: when it was refused, when it may come again, and whether the
table was full, in which case the wait is a constant (`CapacityWait`, 60 s). That
constant guarantees nothing: a key may find the table crowded as often as it comes
back, and so may one that was swept. `RetryIsEnough` says exactly who may be
refused again.

### TelemetryStore and TelemetryClient

Every route of the telemetry server runs to its end and is one action of
`TelemetryStore`: rows with their expiry, tombstones, preferences, aggregates,
capacities, the sweep, and a restart on the same file. `TelemetryLog` is a log
that may forget events and decisions but never a deletion.

`TelemetryClient` is the other end: tabs of one browser, each with its queue
and its chain of reports, over one storage, one cookie, one exclusive lock and one
server (the store without expiry and capacities, which `TelemetryStore` is about). A
step is what a tab runs between two awaits, and begins by reading the storage
again where the code does. A request is processed once or not at all; its
answer may be lost; a tab may be closed while it is under way. The queue is the
set of its events, which are numbered in the order they were tracked.

A tab that needs a session asks for it (`asked`, `Asking`) and waits; meanwhile
another tab may ask too, decide, report or delete. The server answers
a cookie of a living session with that session and any other with a new one
(`Given`), and the browser keeps the cookie of the answer that comes last, so that
two tabs that ask at once are given one session each. Choices are kept per
session. Every request carries the cookie the browser has when it is sent; the
history `under` says in which session a tab's report was recorded, which no tab knows.

### GameCore and Deduction

Reveal, flag, question mark, chord and 3BV as definitions over cells. The
region an opening reveals is a least set, a deduction follows from one clue or
two, the analysis enumerates the placements on the frontier that fit every
clue and the total of mines, and the solver is a player that may act on
deductions only. The same actions are taken by a person.

### SoloGame and History

`SoloGame` instantiates `Deduction` for the board on the screen. The refs of
`SoloGame.tsx` are its variables; a hash is the state it is taken of; a request
to a worker is a job that is live or late, and a late one may still answer.
`dirty` says that an effect has yet to run: React runs it before the next click
but not before the next answer of a worker.

`History` has the stores of IndexedDB with a queue of transactions, each of
which happens as a whole or fails; the panels of both histories with their
tokens, import, export and deletion; writes that wait in the memory of a page;
and the migration of personal bests. The store may hold a record or a replay
of another version from the beginning. Of a replay two things are told apart: its
form (`ValidReplay`) and that it plays back (`PlaysBack`), which a game recorded with
question marks switched in between need not. Every reading and writing of games checks the
first only, an import and everything about practices both. Of the size of a file
only how many large replays it has is modelled.

## 3. What the runs check

A passing run visits every state its bounds allow; `room_rematch`, `duel_entry` and
`solo_practice` are there to reproduce the disagreements below.

| Run | Question | Properties |
|---|---|---|
| `room` | Can any interleaving of joins, connections, votes, actions, timeouts, overflows and closes make the room inconsistent, break the rules of the match, or leave a round undecided? | `MatchHasBothPlayers` `TimersFitPhase` `ReplayFollowsMatch` `VotesBelongToWindow` `WinIsEarned` `ImplementsMatch` `RoomMovesOn` |
| `room_rematch` | Do two votes always start the rematch? (no) | `RematchStartsWhenAllVote` |
| `stream` | Can an action count twice or be confirmed without effect, can the stream have a hole? | `AppliedOnce` `AcceptedMeansApplied` `MissedEventsAreRecovered` |
| `session` | Does the optimistic board become the room's, without a false alarm? Does a late answer or socket of another entry end a duel? | `CopyAgrees` `NoFalseAlarm` `DuelEndsWithItsSocket` |
| `duel_entry` | Can a match always be played whose connection works? (no) | `MatchCanBePlayed` |
| `gateway` | Who speaks for a player while sockets overtake each other and close late, and what happens to rooms after each other? | `RoomsAreFound` `PresenceIsReal` `OnlyNewestSpeaks` `ClosedRoomsRest` |
| `gateway_live` | Do mute, silent and closing sockets and abandoned rooms go, does a shutdown end? | `NothingLingers` `ShutdownCompletes` |
| `server_tables` | Can a ticket be used twice or an epoch go back although records expire? Does forgetting idle keys admit anybody too much, or refuse anybody who obeyed and finds room? | `RetryIsEnough` `ImplementsTickets` `ImplementsLimit` |
| `telemetry` | Can anything deleted come back, be sent again, or anything else be dropped or counted twice, with two tabs that may be given a session each, losses, expiry and restarts? | `CountsAddUp` `DecisionsCommute` `ImplementsLog` `EverythingIsDeletable` `TrustedChoice` `NothingDeletedIsSent` `NothingLost` |
| `game` | Are counter and outcome true, is 3BV a lower bound, is the analysis sound and complete, does the solver guess? | `OutcomeIsTrue` `NoFasterThan3BV` `AnalysisIsExact` `SolverIsSafe` |
| `solo` | Do replay, coach, results, panels and histories stay true with late workers, failing stores and two pages? | `ReplayTellsTheGame` `CoachIsRight` `ResultsAreKept` `ViewIsCurrent` `HistoryIsWhole` `BoardIsWanted` `GenerationEnds` |
| `solo_practice` | Does the practice store accept every practice the game records? (no) | `PracticeIsAccepted` |

Every property of a passing run has a mutant in `PROJECT.json`: a definition
with a plausible bug under which TLC finds that property violated.

### Bounds, and why they are enough

* `room`: two guests, matches of at most three rounds (five in the code) that
  two wins decide, five boards for the room (fifteen), two replays (sixteen),
  two matches, two epochs. Three rounds are the fewest with a draw and a
  decider; five boards run out in the second match. Any event may overflow the
  replay. `room_rematch` has four rounds and overflows at actions only.
* `stream`: a ring of two messages, one cached result and a limit of two actions
  are all overrun within ten messages, on two connections, in two matches and
  two rounds.
* `session`: three actions, of which one is READY; two optimistic ones in
  flight are the least that makes the browser defer. Two rounds and two
  matches on one connection. The ring, the cache of boards and the limit of
  actions are larger than what is sent, as 256 messages and 50 000 actions are
  in the code. The page beside it makes two entries, with two messages on the way.
* `gateway`: three guests for two seats and two sessions, two rooms with space
  for one and two codes, three tickets with two epochs, two sockets. Either the
  seats are `Crowded` or the rooms have a `Turnover`; guests, rooms, sockets
  and tokens are interchangeable. `gateway_live`: one room, two guests,
  two tickets of one epoch.
* `server_tables`: two keys, three tickets and an epoch lifetime (3)
  configured below the ticket's (5), with a clock past both; three clients for two
  buckets, a burst of two, five units a request and two back in a millisecond
  (nothing divides evenly), a sweep exactly when a bucket is full again, and a wait at a
  full table that is shorter than the idle time.
* `telemetry`: three events of three moments, decisions at three, rows that live
  two to three moments, five moments in all. For the client two tabs, two
  identities, three sessions (two at once and one after one of them has ended), a queue and
  a batch of one event (so that both overflow), and one each of
  deletion, reload, session that ends and lost answer. `Logging`/`Choosing` and
  `Queueing`/`Deciding` are questions that share little state, taken one at a time:
  events and deletions after one decision, and decisions, reports and sessions
  before the first event. Two sessions at once come with events too (`Plain`), where
  nothing else goes wrong.
* `game`: three by three cells, started in the corner, with two or three mines, up
  to two marks; a person plays the boards with two mines, up to mirror image.
* `solo`: three cells in a row with one mine, two games or resumptions, a
  replay of three actions, a frontier of one cell above which the coach does not search.
  `Scope` and `Switching` keep second games short and marks few. Beside it two
  pages with two games of their own, histories limited to two, two steps by the
  users besides, and at most two transactions waiting; one of the games does not
  play back, and a file has space for one of two large replays; a store may begin with a record or a replay of
  another version. `solo_practice`: five cells and two mines, one practice.

The counters named `Max...` bound the search only, unless the code has the
limit. `CHECK_DEADLOCK FALSE` is set since every system here may stop: a closed
room accepts nothing, a browser may never click.

### Fairness and other assumptions

* The room (`TimerFairness`): an armed timeout eventually runs, which the event
  loop gives. Nothing is assumed of players, connections or actions; the
  progress timeout takes no part.
* `gateway_live` (`Fairness`): the hello timers, the heartbeat, the maintenance
  sweep, the close events (`ws` destroys a socket by a timeout of its own when the
  peer does not answer), the last step of the shutdown, and that time passes
  for an idle room. Nothing is assumed of guests and peers.
* `solo`: the timeout of the generation worker runs.
* Clocks never run backwards. A WebSocket keeps its order and may end at any time.
* `CopyAgrees` says nothing of the board once `late` is set, since it may differ
  then: the room refuses an action made on an old board and sends a snapshot; an action
  made before that arrives, on a copy that happens to have the hash of the room's board, is
  accepted; and then the snapshot, which is older, replaces the copy and the result
  no longer settles anything. The copy stays behind until the next action is
  refused. That takes a delivery or rendering slower than a countdown of three seconds, or 256 messages.
* `MaxActions <= ActionLimit`, a hypothesis of `NoAlarmIsFalse` and `CopiesAgree`: above the limit
  `Decline` answers an action that came late with the hash of whatever board
  the room has now, and the browser takes that for corruption. 50 000 actions in a room are
  far more than is played.
* `RateAssumption`: fewer tickets are issued in all than an epoch record
  lives milliseconds (a day by default). Epochs run ahead of the clock by one
  for each ticket of the same millisecond, so this is a weak bound on the rate.
* `LimiterAssumption`: a bucket is full again when it is swept, fifteen seconds
  against ten minutes by default. `config.ts:189` to `199` accepts any positive
  numbers; a burst above about ten times the rate per minute would violate it, and
  the limiter would then admit more.

### Disagreements found

1. `room_rematch`: `README.md:228` says that players can start a rematch from the
   result screen. When the match ended because its replay exceeded its
   budget, they cannot: `handleRematch` returns (`room-actor.ts:478`) after it has set
   the vote and the phase, before it counts the votes or arms the window. With
   both votes in, the room stays in REMATCH until it is swept.
2. `duel_entry`: the return key in the field of the room code enters again
   although the button beside it is disabled while an entry is under way
   (`App.tsx:1438` and `1444`). When the first is welcomed and the second is refused
   afterwards, the page shows an error and its board takes no action in the match that is dealt.
3. `solo_practice`: of the flags the coach sets, the game takes only automatic
   marks for proven, the practice store all of them (`SoloGame.tsx:1627`,
   `practice-history.ts:702`). A practice with one demonstrated flag and a later
   automatic mark is refused by the store and does not appear in its history.

Met while reading, not stated as properties:

* `solo-history.ts:1655` and `1778`: `versionchange` closes the connection but
  the promise of it stays cached. `deleteHistory` leaves `replayIssueCount` and
  `availableReplayIds` as they were.
* An export can be refused by the import of the same version: no export looks at the
  64 MiB an import accepts (`SoloHistory.tsx:349`), and of a game only the import plays the
  replay back (`solo-history.ts:1514`), while `put` and `readReplay` check its form
  (`1824`, `1836`). `HistoryIsWhole` excludes both cases by name. Practices are played back
  by every one of them.
* An export skips missing replays, so a file torn by the deletion of another
  tab cannot be imported again; a practice export leaves out invalid records
  without a word; an import reports success even if the reload after it fails.
* `SoloGame.tsx:2302`: question marks can be switched during a game, while the
  replay stores the last setting only. A rewind clears the evidence hash and
  does not restore `practiceSuppressedAutoFlags`.
* Two tabs that ask for a telemetry session at once are given one each
  (`telemetry.ts:1096`, `app.ts:522`), and the later cookie stays. A tab whose choice
  was recorded in the other session goes on taking it for recorded; its batches are
  judged by the browser's session, which may hold no choice yet or that of
  the other tab, and when they are refused the tab reports again. `TrustedChoice` is
  therefore about the session the report was made in, not about the browser's.
* `telemetry.ts:965`: a deletion without `deletedBefore` is ignored.
  `telemetry.ts:1150`: a queue can stay after the decision was taken back and again.
  `telemetry.ts:637`: a reload drops events after the cut of a deletion, the one
  exception in `NothingLost`. `telemetry-store.ts:535`: an expired tombstone refuses
  the newest epoch until it is swept.
* In the duel client: `leaveRoom` during a connection attempt leaves `busy` set;
  leaving while `enterRoom` awaits the server still connects afterwards; a
  close event before the lobby is rendered leaves the lobby with a dead
  connection; after `failIntegrity` the page still says "connected".

## 4. What is proved

`tlapm` checks every proof to its last leaf, for all values of the constants that
satisfy the named assumptions of the modules; TLC evaluates those assumptions in
the runs. A limit the code sets (256 messages, sixteen replays, ten minutes) is one
such value and so is the one of a run.

| Theorem | States | 
|---|---|
| `RoomActorProofs!TypeCorrect`, `MatchesAreAttended`, `TimersAreRight`, `ReplaysFollowMatches`, `VotesStayInWindow`, `BoardsAreDistinct` | types and limits, `MatchHasBothPlayers`, `TimersFitPhase`, `ReplayFollowsMatch`, `VotesBelongToWindow`, no board is dealt twice |
| `RoomActorProofs!WinsAreEarned`, `RoomImplementsMatch` | `WinIsEarned`, `ImplementsMatch` |
| `DuelSessionProofs!MemoryIsBounded`, `RingHasNoHole`, `ActionsApplyOnce`, `AcceptanceIsTrue`, `NothingStaysMissed` | limits, the ring is a suffix of the stream, `AppliedOnce`, `AcceptedMeansApplied`, `MissedEventsAreRecovered` |
| `DuelSessionProofs!NoAlarmIsFalse`, `CopiesAgree`, `DuelsEndWithTheirSockets` | `NoFalseAlarm`, `CopyAgrees`, `DuelEndsWithItsSocket` |
| `GatewayProofs!TypeCorrect`, `ManagerFindsRooms`, `PresenceHasASocket`, `EpochsTellWhoSpeaks`, `ClosedForGood`, `UsesTicketsAsPromised` | types, `RoomsAreFound`, `PresenceIsReal`, `OnlyNewestSpeaks`, `ClosedRoomsRest`, the gateway is a client of `Tickets` |
| `ServerTablesProofs!StoreTypeCorrect`, `RecordOutlivesTicket`, `EpochsAlwaysGrow`, `StoreImplementsTickets`, `WaitersAreAdmitted`, `TableImplementsLimit` | types, what `EpochKept` gives, `ImplementsTickets`, `RetryIsEnough`, `ImplementsLimit` |
| `TelemetryStoreProofs!StoreTypeCorrect`, `StoreImplementsLog`, `DecisionsInAnyOrder`, `NothingIsMiscounted` | types, `ImplementsLog`, `DecisionsCommute`, `CountsAddUp` |
| `TelemetryClientProofs!AllIsDeletable`, `TrustIsJustified`, `NothingOlderIsSent`, `NothingIsLost` | `EverythingIsDeletable`, `TrustedChoice`, `NothingDeletedIsSent`, `NothingLost` |
| `SoloGameProofs!InvariantHolds`, `EndedGamesAreKept`, `ReplaysTellTheirGame`, `BoardsAreWanted`, `CoachIsNeverWrong` | what the page relies on, `ResultsAreKept`, `ReplayTellsTheGame`, `BoardIsWanted`, `CoachIsRight` |
| `SoloGameProofs!ViewsAreCurrent`, `HistoriesAreWhole` | `ViewIsCurrent`, `HistoryIsWhole`, of `History` alone |
| `GameCoreProofs!OutcomesAreTrue`, `ProvablySafeIsSafe`, `SolverNeverGuesses`, `AnalysisIsComplete`, `NothingIsFaster` | `OutcomeIsTrue`, deductions are sound, `SolverIsSafe`, `AnalysisIsExact`, `NoFasterThan3BV` |

### The room

None of its invariants is inductive alone. The inductive invariant
is `Consistent(room)`, the conjunction of `Settled` (types, only connected
players are ready, only the current match is being recorded: true even between
the calls of a handler), `Seated` (who is there in which phase), `Timed` (which
timeout must be pending), `NotStray` (which may be), `Replayed` (phase, result
and replay agree), `Voted` and `Scored` (wins and rounds of an undecided
match). They need each other: that the round timer is pending in an active
round needs the handles to be clear before it, which needs the phase the
handles belong to; that a disconnection ends the match for the opponent needs
both seats attended.

One lemma per helper (`FinishMatch`, `Record`, `FinishRound`, ...) says that it
takes a room that is consistent, but for what its caller has just begun, to a
consistent one; the lemma of a handler combines those of the helpers it
calls; the step lemma has one case per action. For `WinIsEarned` and the
refinement, `Moves(r, s)` says which step of `BestOfThree` a call may make;
it composes along the calls in the same way.

### The stream and the browser

The inductive invariant of `ActionStream` is `Sound(srv)` with `Recovered(srv)`.
`Sound` holds between any two calls of a handler: the types, a board in every
countdown, consecutive numbers in the ring and in what was just sent, the
limits, an id not seen was never applied (`Once`), and every accepted result in the cache,
in the ring and among the messages sent names an applied action (`Honest`).
`AcceptedMeansApplied` is about the messages sent only, and needs the cache,
which `Repeat` answers from, and the ring, which `CatchUp` sends again. `Keeps(s, t)`
says that a call keeps `Sound`, and `Recovered` once that holds.

For `NoFalseAlarm` the messages on their way are read as a queue of bodies: what
is sent a second time is always old (`Carries`). Between two bodies stands a
mark: whether the round was dealt and not yet opened there, how many actions
have been answered, and whether a snapshot must come next. Each body leads from
its mark to the next (`Follows`), the first mark fits the browser (`Fits`), the last one the
room, and `Covers` relates the actions still going up to those the browser waits for.
`SessionInv` is the conjunction.

`CopyAgrees` needs more than marks, since the copy runs ahead of what the browser has
heard. Between two bodies stands a view: match and phase, the number of the last
action answered, whether a snapshot is owed, and the stage of the round. `DEALT`
has the board as dealt, which no action has touched. `DEAD` has a board that no
action will change any more: it is finished, or the time is up. `LIVE` is the hard one: there a script names the board after
the n-th action, the copy is the board of the last action sent, the room's
that of the last one answered, and every envelope still going up was made on the
script's board before it (`Obeys`). So the room plays the same moves on the same boards, a result can
only agree, and both boards are the same when nothing is under way. `OFF` claims
nothing; in an active round only delivery that lagged (`late`) leads there. `Stands`,
`Leads` and `Depicts` tie the first view to the browser, each to the next, and the last to
the room. `SessionView` is the inductive invariant, and `QuietAgrees` reads the property off it.

For `DuelEndsWithItsSocket` the page is connected only to a room that has
welcomed it through the socket it holds, and that socket is open or closing
(`Welcomed`). This holds over messages of older entries because a
protocol is refused only in the first message (`RefusedFirst`), which no welcome precedes.

### The gateway

`Sound` is `TicketsSound /\ GuestsSound /\ ManagerSound /\ VoicesSound`: a token
names one unused ticket; a seat belongs to a guest who was given it; both maps
and the rooms agree; and whoever speaks for a player has a socket that is still
here, with the epoch of the room's connection, which no second socket can have.
The parts only hold together: a room may be forgotten because nobody is
connected to it, and that is known because a connected player has a socket.

### The tables of the server

For tickets: `EpochKept` says that while a key has a record, its newest epoch is
less than the time it was issued plus the number of tickets issued so far. A
record lives longer than that, so the clock has passed the epoch when the record
is gone, and the next one, taken from the clock, is higher. `TicketKept` gives that
a record outlives its ticket, `Distinct` that `consume` finds one ticket. For the limiter
`Filled` says that what a bucket lacks now is the debt of its key: buckets are filled late, when
they are used, and forgotten when they are full. It also says what became of a
refused client: its bucket is as it was left and fills up to a token by the time
it was told (`WaitedFills`), or it has none, and then the table was full for it or it
stayed away beyond the idle time (`StaleMayGo`). `FullIsCrowded` is the rest of
`RetryIsEnough`, an action property.

### The telemetry

`TelemetryStoreProofs`: the tombstone of a deletion expires too, and an old
batch may arrive when it is gone. `Buried` says that the last deletion of an
installation is on its tombstone or longer ago than `RawTtl`; an event the
tombstone would have refused is then too old to count. `DecisionsInAnyOrder` shows
that the preference and the tombstones depend on the set of decisions heard, not
on their order.

`NothingIsMiscounted` adds `Tallied` to that: there is one row for an event, and the
numbers in `tally` are what the tables hold (`Balanced`). A count is a fold over
a set of buckets, so the module first proves of such sums that the order does not
matter (`SumOne`), that parts add up to the whole (`SumBoth`), and that the sizes of
the groups of a sweep add up to the rows it takes (`SumOfGroups`), each by the
smallest set for which it would fail. Then expired buckets move to what has left
(`PurgeBalances`), the upsert adds what it is given (`CountedAdds`), and a decision is
counted exactly when it is the first of its kind (`CountersAre`), for which
the row must say what was heard. `NameAssumption` says that no
event has the name of a counter of decisions (`telemetry-store.ts:15`), `LimitAssumption`
that the limits are numbers, and a batch is finite.

`TelemetryClientProofs` has five layers, each inductive given those before.
`Orderly`: what the calls of a tab wait for, and that one request at a time is
awaited under the lock. `Named`: there is one identity, the stored one, also
in every request under way. `Trusting`: no report is later than what is stored,
no session's choice goes back, and what a tab takes for recorded is in the session
its request was sent to. Each session has a choice of its own, because tabs that
ask at once are given several, and a tab that lost the race may still
trust the session that is no longer the browser's. `Dated`: the server's tombstone, the stored
deletion and what each tab has heard follow one another (`Behind`), and every queue
and batch is of the epoch its tab believes in (`Fits`), so that a batch
with a deleted event carries an epoch the server refuses. `Traced`: every event
that was tracked is in a queue, in a batch under way, accepted, deleted, or dropped
for one of the reasons the code gives. What makes them long is that the answer
of a request may come after the tab was opened again, the deletion was
repeated by another tab, or the session of the server has ended.

### The game

`GameCoreProofs` works for boards of every size. The region an opening reveals is
a least set; all the proofs need of it is that it is covered, safe and has the
opened cell in it. The soundness of a deduction is arithmetic on the sizes of
disjoint sets of cells. That the solver never opens a mine follows since it opens
only what is proved safe.

`AnalysisIsComplete` compares the placements the analysis searches, which are
sets of frontier cells, with the worlds: the sets of mines that agree with everything
in sight. The frontier part of a world fits every clue (`WorldsFit`, over the
splitting of a clue in `ClueSplits`). Conversely a placement that fits the clues and leaves
a number of mines between none and all of the free cells is completed to
a world by any choice of that size among them (`SizesBetween`, `PlacementsFit`); one
with and one without a given cell exist unless none or all of them are chosen (`WorldWith`,
`WorldWithout`). So what holds in every placement is what holds in every world
(`ForcedIsExact`), and a search without result means that the flags are wrong (`SearchIsExact`).

For `NothingIsFaster` a board has units: its openings, and its numbers next to none. Their
number is the 3BV (`UnitsCount`): an opening is closed under stepping on from its zeros,
so two of them are the same or apart (`OpeningsAreOne`). Whatever a reveal uncovers lies within
one opening of the whole board, marks or not, or is one number, so it touches one
unit more at most (`RevealTouches`). `PaceInv` says that no more units are touched than
reveals are made, and a board that is won has touched them all. A chord opens several
cells at once, so the benchmark says nothing of a game with one.

### The solo game

`SoloGameProofs!Inv` says what the page may rely on. `JobsFit`: a live request of
either worker belongs to what the page waits for, so an answer that is not live
is recognised and dropped. `Waiting`: before a game begins nothing is left of an
earlier one. `Backed`: what was kept before a mine is of the same board.
`Ends`: a game on the screen that has not been handled is in no store, and
every ended standard game, but for the one whose effect has yet to run, is in one place (`Lone`).
`Tale`: the replay, and the one kept before a mine, `Tells` its game.

`CoachIsRight` has an invariant of its own, `Wise`, beside `Inv`: the mines of
the board are one of the placements the analysis searches as long as what it takes for proved is
mined, so whatever it then calls safe or mined is; what was found (`Sane`) and the answers of
live requests (`LiveFit`) are right for the mines of the board on the screen, and what is kept before a mine
is of the same board. The lemmas on deductions are stated again here for `SoloGame`, which instantiates
`Deduction` once for every board and sight: facts proved of that module cannot be
cited through such an instance.

`Tale` needs what two loops compute: the check of a replay, over its events, and a batch
of automatic flags, over the cells. Both are recursive functions over numbers. `RunExists`
shows that such a function exists, and `VerifyAppend` and `BatchLeads` what one more turn makes
of it. The prover cannot use the induction rule of its library; these lemmas
take the least number for which the claim would fail instead.

### The histories

`ArchiveInv` is about `History` as `MCSoloGame` instantiates it: two pages, and
any limit, games, files and number of steps. `ArchiveAssumption` says that the
limit is positive and that no export is `None`. The part about the stores
(`Stored`) and the downloaded file (`Portable`, with `Sure` for what an export cannot
know) is what `HistoryIsWhole` says;
it needs to know of every transaction that waits what it will write
(`Carried`), and of every export that is under way how far it is.
The rest has one part per page. `Caught`: a panel that will not be read again shows the store.
`Awaits`: behind the write of a practice waits a reading of an open panel, for a panel of practices is
not told of it. `Single`: a panel of games has one thing to do, and is busy until it ends.
`Progress`: a look-up of an export is one of those the export has to make, what was read so
far is what the look-ups before it announced (`Placed`), and its games are in the store
unless another page has deleted them since. That is why the file can be imported:
it has the replays of its records and no others.

A step takes some transactions out of the queue and may append others. `Thins` says what is
left, `Derives` what the new queue is made of, and each part has a lemma that
carries it from the old queue to the new one (`CaughtDerives`, `AwaitsDerives`, ...). An answer is treated once
for the page that waited for it and once for the other (`OwnPage`, `OtherPage`);
`AnsweredKeeps` combines them and the actions of the pages have one lemma each.

### Only model-checked

* `RoomMovesOn`, `NothingLingers`, `ShutdownCompletes`, `GenerationEnds`:
  liveness under fairness, out of TLAPS's reach. Every other property of a passing
  run is one of the theorems above.

## 5. Not modelled

* The contents of messages, of replays and of boards in the room; PROGRESS
  messages, pings and the offset of clocks, which are outside the numbered stream; the
  decoder and protocol upgrades.
* The web client never reconnects to a room with a higher epoch; the room's own
  support for it is in `RoomActor` and `ActionStream`.
* The migration of the schemas of databases and stores; one practice is
  exported at a time; commit and answer of a transaction are one step; a file
  holds the records of one game.
* Routes and settings that only read; the probes of a proxy; logging.
* The components marked `not_modelled` in `PROJECT.json`: canvas, styles,
  translations, sounds, release scripts and deployment are output or one-shot
  programs without a state machine.

## 6. Plan

The model covers what was planned, and every invariant, action property and refinement that
the passing runs check is proved. The next steps are those under "Not modelled".

## 7. Running

    tlc -workers 2 -config MCRoomActor.cfg MCRoomActor
    tlc -workers 2 -config MCRoomActorRematch.cfg MCRoomActor
    tlc -workers 2 -config MCActionStream.cfg MCActionStream
    tlc -workers 2 -config MCDuelSession.cfg MCDuelSession
    tlc -workers 2 -config MCDuelEntry.cfg MCDuelSession
    tlc -workers 2 -config MCGateway.cfg MCGateway
    tlc -workers 2 -config MCGatewayLive.cfg MCGateway
    tlc -workers 2 -config MCServerTables.cfg MCServerTables
    tlc -workers 2 -config MCTelemetry.cfg MCTelemetry
    tlc -workers 2 -config MCDeduction.cfg MCDeduction
    tlc -workers 2 -config MCSoloGame.cfg MCSoloGame
    tlc -workers 2 -config MCSoloPractice.cfg MCSoloGame

and `tlapm X.tla` for every module `X` whose name ends in `Proofs`.

`PROJECT.json` lists every run with its properties, the mutant that shows that each
property can fail, and the source lines every definition stands for.
