---------------------------- MODULE DuelSessionProofs ----------------------------
(***************************************************************************)
(* Proofs about a player's stream, his browser and its connection, for     *)
(* every ring, cache and limit of actions, every finite set of ids, every  *)
(* set of boards and every game.                                           *)
(*                                                                         *)
(* ActionStream: an action takes effect once, an accepted one has, and     *)
(* nothing is missed for good.                                             *)
(*                                                                         *)
(* DuelSession: the browser raises no false alarm.  Seen from there, the   *)
(* messages on their way are a queue of bodies: what is sent once more is  *)
(* always old (Carries).  Between two bodies of the queue stands a mark:   *)
(* whether the round has been dealt and not yet opened there, how many     *)
(* actions have been answered, and whether the next body must be a         *)
(* snapshot.  Each body leads from its mark to the next (Follows), the     *)
(* first mark fits the browser (Fits), and the last one the room.          *)
(* With it, that the copy catches up.  Between the same bodies stand       *)
(* views: the match and the phase shown, the number of the last action     *)
(* heard of, whether a snapshot is owed, and how far the round is: dealt,  *)
(* played, or left without an action that changes its board.  The first    *)
(* view is where the browser stands (Stands), each body leads to the next  *)
(* (Leads), and the last is the room's (Depicts).  While the round is      *)
(* played a script names the board after each action: those on their way   *)
(* to the room obey it, and the copy is the board of the last one.         *)
(*                                                                         *)
(* DuelConnection, for any number of entries: a page that is connected has *)
(* been welcomed through the socket of its latest entry.                   *)
(***************************************************************************)
EXTENDS MCDuelSession, FiniteSetTheorems, SequenceTheorems, TLAPS

-----------------------------------------------------------------------------
(* The stream.                                                               *)

(* Consecutive messages up to the number `last`: the ring, and after an    *)
(* action what was sent, are such.                                         *)
EndOfStream(last, messages) ==
    \A i \in DOMAIN messages : messages[i].seq = last - Len(messages) + i

Streaming(s) ==
    /\ EndOfStream(s.seq, s.ring)
    /\ s.seq > 0 => s.ring # <<>>
    /\ s.connected => s.epoch > 0
    /\ s.asked >= 0 => s.connected /\ EndOfStream(s.seq, s.sent)

Limited(s) ==
    /\ Len(s.ring) <= RingLimit
    /\ Len(s.cache) <= CacheLimit
    /\ IsFiniteSet(s.seen) /\ Cardinality(s.seen) <= ActionLimit

Once(s) == \A id \in ActionIds : s.applied[id] <= IF id \in s.seen THEN 1 ELSE 0

(* A message tells the truth on actions: accepted in this match, applied.  *)
True(s, body) ==
    /\ body.match <= s.match
    /\ body.type = "ACTION_RESULT" /\ body.match = s.match /\ body.verdict.accepted
          => s.applied[body.id] = 1

Honest(s) ==
    /\ \A i \in DOMAIN s.cache :
          s.cache[i].verdict.accepted => s.applied[s.cache[i].id] = 1
    /\ \A i \in DOMAIN s.ring : True(s, s.ring[i].body)
    /\ \A i \in DOMAIN s.sent : True(s, s.sent[i].body)

Boarded(s) == s.phase = "COUNTDOWN" => s.board \in Boards

(* The inductive invariant.                                                *)
Sound(s) ==
    /\ s \in SrvType
    /\ Boarded(s)
    /\ Streaming(s)
    /\ Limited(s)
    /\ Once(s)
    /\ Honest(s)

(* What the action's sender missed has been sent, or a snapshot.           *)
Recovered(s) ==
    s.asked >= 0 =>
        \/ s.seq - Len(s.sent) <= s.asked
        \/ \E i \in DOMAIN s.sent : s.sent[i].body.type = "SNAPSHOT"

(* The state between two steps. *)
Complete(s) == Sound(s) /\ Recovered(s)

(* A call that keeps what its caller relies on.                            *)
Keeps(s, t) == Sound(t) /\ (Recovered(s) => Recovered(t))

SameStream(s, t) ==
    /\ t.match = s.match /\ t.connected = s.connected /\ t.epoch = s.epoch
    /\ t.seq = s.seq /\ t.ring = s.ring /\ t.sent = s.sent /\ t.asked = s.asked
    /\ t.seen = s.seen /\ t.cache = s.cache /\ t.applied = s.applied

SameRoom(s, t) ==
    /\ t.match = s.match /\ t.phase = s.phase /\ t.round = s.round /\ t.board = s.board
    /\ t.expired = s.expired /\ t.ready = s.ready /\ t.vote = s.vote
    /\ t.connected = s.connected /\ t.epoch = s.epoch /\ t.asked = s.asked
    /\ t.seen = s.seen /\ t.applied = s.applied
-----------------------------------------------------------------------------
(* Messages.                                                               *)

(* One more message at the end of the stream.                              *)
LEMMA AppendFacts ==
    ASSUME NEW q \in Seq(Messages), NEW n \in Nat, NEW m \in Messages, m.seq = n + 1
    PROVE  /\ Append(q, m) \in Seq(Messages) /\ Len(Append(q, m)) = Len(q) + 1
           /\ EndOfStream(n, q) => EndOfStream(n + 1, Append(q, m))
           /\ \A i \in DOMAIN q : i \in DOMAIN Append(q, m) /\ Append(q, m)[i] = q[i]
           /\ Len(q) + 1 \in DOMAIN Append(q, m) /\ Append(q, m)[Len(q) + 1] = m
           /\ \A i \in DOMAIN Append(q, m) :
                 Append(q, m)[i] = m \/ \E j \in DOMAIN q : Append(q, m)[i] = q[j]
<1>1. Append(q, m) \in Seq(Messages) /\ Len(Append(q, m)) = Len(q) + 1
      /\ Append(q, m)[Len(q) + 1] = m
      /\ \A i \in 1 .. Len(q) : Append(q, m)[i] = q[i]
  BY AppendProperties
<1>2. Len(q) \in Nat /\ DOMAIN q = 1 .. Len(q) /\ DOMAIN Append(q, m) = 1 .. Len(q) + 1
  BY <1>1
<1>3. ASSUME EndOfStream(n, q), NEW i \in DOMAIN Append(q, m)
      PROVE  Append(q, m)[i].seq = n + 1 - Len(Append(q, m)) + i
  <2>1. CASE i = Len(q) + 1
    <3>1. n + 1 = n + 1 - (Len(q) + 1) + i BY <2>1, <1>2
    <3> QED BY <3>1, <2>1, <1>1
  <2>2. CASE i # Len(q) + 1
    <3>1. i \in 1 .. Len(q) BY <2>2, <1>2, <1>3
    <3>2. q[i].seq = n - Len(q) + i BY <3>1, <1>2, <1>3 DEF EndOfStream
    <3>3. n - Len(q) + i = n + 1 - (Len(q) + 1) + i BY <3>1, <1>2
    <3> QED BY <3>1, <3>2, <3>3, <1>1
  <2> QED BY <2>1, <2>2
<1>4. \A i \in 1 .. Len(q) + 1 : i = Len(q) + 1 \/ i \in 1 .. Len(q) BY <1>2
<1>5. Len(q) + 1 \in 1 .. Len(q) + 1 /\ 1 .. Len(q) \subseteq 1 .. Len(q) + 1 BY <1>2
<1> QED BY <1>1, <1>2, <1>3, <1>4, <1>5 DEF EndOfStream

(* Trimming takes at most the oldest message.                              *)
LEMMA TrimFacts ==
    ASSUME NEW q \in Seq(Messages), NEW n \in Nat,
           Len(q) >= 1, Len(q) <= RingLimit + 1, EndOfStream(n, q)
    PROVE  /\ Trim(q) \in Seq(Messages) /\ EndOfStream(n, Trim(q))
           /\ Trim(q) # <<>> /\ Len(Trim(q)) <= RingLimit
           /\ \A i \in DOMAIN Trim(q) : \E j \in DOMAIN q : Trim(q)[i] = q[j]
<1>1. Len(q) \in Nat /\ RingLimit \in Nat \ {0} BY LimitAssumption
<1>2. CASE Len(q) <= RingLimit
  BY <1>1, <1>2 DEF Trim
<1>3. CASE Len(q) > RingLimit
  <2>1. Trim(q) = Tail(q) BY <1>1, <1>3 DEF Trim
  <2>2. /\ Tail(q) \in Seq(Messages) /\ Len(Tail(q)) = Len(q) - 1
        /\ \A i \in 1 .. Len(Tail(q)) : Tail(q)[i] = q[i + 1]
    BY <1>1, HeadTailProperties
  <2>3. ASSUME NEW i \in DOMAIN Tail(q)
        PROVE  /\ i + 1 \in DOMAIN q /\ Tail(q)[i] = q[i + 1]
               /\ Tail(q)[i].seq = n - Len(Tail(q)) + i
    <3>1. i \in 1 .. Len(q) - 1 BY <2>2, <2>3
    <3>2. i + 1 \in DOMAIN q BY <3>1, <1>1
    <3>3. q[i + 1].seq = n - Len(q) + (i + 1) BY <3>2 DEF EndOfStream
    <3>4. n - Len(q) + (i + 1) = n - (Len(q) - 1) + i BY <3>1, <1>1
    <3> QED BY <3>1, <3>2, <3>3, <3>4, <2>2
  <2> QED BY <2>1, <2>2, <2>3, <1>1, <1>3 DEF EndOfStream
<1> QED BY <1>1, <1>2, <1>3

(* emitTo numbers and keeps one message and touches nothing but the        *)
(* stream.                                                                 *)
LEMMA EmitSound ==
    ASSUME NEW s, Sound(s), NEW body \in Bodies, True(s, body)
    PROVE  /\ Sound(Emit(s, body))
           /\ Recovered(s) => Recovered(Emit(s, body))
           /\ s.asked >= 0 /\ body.type = "SNAPSHOT" => Recovered(Emit(s, body))
           /\ SameRoom(s, Emit(s, body))
<1> DEFINE n == Emit(s, body)
           message == [seq |-> s.seq + 1, body |-> body]
           longer == Append(s.ring, message)
           ring == Trim(longer)
           sent == IF s.connected THEN Append(s.sent, message) ELSE s.sent
<1>1. s \in SrvType BY DEF Sound
<1>2. CASE s.epoch = 0
  <2>1. n = s BY <1>2 DEF Emit
  <2>2. ~(s.asked >= 0) BY <1>1, <1>2 DEF Sound, Streaming, SrvType
  <2> QED BY <2>1, <2>2 DEF SameRoom
<1>3. CASE s.epoch # 0
  <2>1. /\ n.seq = s.seq + 1 /\ n.ring = ring /\ n.sent = sent
        /\ n = [s EXCEPT !.seq = s.seq + 1, !.ring = ring, !.sent = sent]
        /\ n.match = s.match /\ n.applied = s.applied /\ n.seen = s.seen
        /\ n.cache = s.cache /\ n.asked = s.asked /\ n.connected = s.connected
        /\ n.epoch = s.epoch
        /\ SameRoom(s, n)
    BY <1>1, <1>3 DEF Emit, SrvType, SameRoom
  <2>2. s.seq \in Nat /\ s.ring \in Seq(Messages) /\ s.sent \in Seq(Messages)
    BY <1>1 DEF SrvType
  <2>3. message \in Messages /\ message.seq = s.seq + 1 /\ message.body = body
    BY <2>2 DEF Messages
  <2> HIDE DEF n, message
  <2>4. /\ longer \in Seq(Messages) /\ Len(longer) >= 1 /\ Len(longer) <= RingLimit + 1
        /\ EndOfStream(s.seq + 1, longer)
        /\ \A i \in DOMAIN longer :
              longer[i] = message \/ \E j \in DOMAIN s.ring : longer[i] = s.ring[j]
    <3>1. Len(s.ring) \in Nat /\ Len(s.ring) <= RingLimit /\ RingLimit \in Nat
      BY <2>2, LimitAssumption DEF Sound, Limited
    <3>2. Len(s.ring) + 1 >= 1 /\ Len(s.ring) + 1 <= RingLimit + 1 BY <3>1
    <3> QED BY <2>2, <2>3, <3>2, AppendFacts DEF Sound, Streaming
  <2> HIDE DEF longer
  <2>5. /\ ring \in Seq(Messages) /\ EndOfStream(s.seq + 1, ring)
        /\ ring # <<>> /\ Len(ring) <= RingLimit
        /\ \A i \in DOMAIN ring : \E j \in DOMAIN longer : ring[i] = longer[j]
    <3>1. s.seq + 1 \in Nat BY <2>2
    <3> QED BY <2>4, <3>1, TrimFacts
  <2> HIDE DEF ring
  <2>6. /\ sent \in Seq(Messages)
        /\ \A i \in DOMAIN sent :
              sent[i] = message \/ \E j \in DOMAIN s.sent : sent[i] = s.sent[j]
        /\ s.connected =>
              /\ Len(sent) = Len(s.sent) + 1
              /\ EndOfStream(s.seq, s.sent) => EndOfStream(s.seq + 1, sent)
              /\ \A i \in DOMAIN s.sent : i \in DOMAIN sent /\ sent[i] = s.sent[i]
              /\ \E i \in DOMAIN sent : sent[i] = message
    <3>1. CASE ~s.connected BY <3>1, <2>2
    <3>2. CASE s.connected
      <4> DEFINE all == Append(s.sent, message)
      <4>1. sent = all BY <3>2
      <4>2. /\ all \in Seq(Messages) /\ Len(all) = Len(s.sent) + 1
            /\ EndOfStream(s.seq, s.sent) => EndOfStream(s.seq + 1, all)
            /\ \A i \in DOMAIN s.sent : i \in DOMAIN all /\ all[i] = s.sent[i]
            /\ Len(s.sent) + 1 \in DOMAIN all /\ all[Len(s.sent) + 1] = message
            /\ \A i \in DOMAIN all :
                  all[i] = message \/ \E j \in DOMAIN s.sent : all[i] = s.sent[j]
        BY <2>2, <2>3, AppendFacts
      <4> HIDE DEF all, sent
      <4> QED BY <4>1, <4>2
    <3> QED BY <3>1, <3>2
  <2> HIDE DEF sent
  <2>7. n \in SrvType
    <3>1. s.seq + 1 \in Nat BY <2>2
    <3> QED BY <3>1, <2>1, <2>5, <2>6, <1>1 DEF SrvType
  <2>8. Streaming(n)
    BY <2>1, <2>5, <2>6 DEF Sound, Streaming
  <2>9. Limited(n) /\ Once(n)
    BY <2>1, <2>5 DEF Sound, Limited, Once
  <2>10. Honest(n)
    <3>1. \A b : True(n, b) <=> True(s, b) BY <2>1 DEF True
    <3>2. \A i \in DOMAIN ring : True(n, ring[i].body)
      BY <3>1, <2>3, <2>4, <2>5 DEF Sound, Honest
    <3>3. \A i \in DOMAIN sent : True(n, sent[i].body)
      BY <3>1, <2>3, <2>6 DEF Sound, Honest
    <3> QED BY <3>2, <3>3, <2>1 DEF Sound, Honest
  <2>11. Sound(n) BY <2>1, <2>7, <2>8, <2>9, <2>10 DEF Sound, Boarded, SameRoom
  <2>12. ASSUME s.asked >= 0
         PROVE  /\ Recovered(s) => Recovered(n)
                /\ body.type = "SNAPSHOT" => Recovered(n)
    <3>1. s.connected BY <2>12 DEF Sound, Streaming
    <3>2. s.seq + 1 - Len(sent) = s.seq - Len(s.sent)
      <4>1. Len(s.sent) \in Nat /\ Len(sent) = Len(s.sent) + 1 BY <2>2, <2>6, <3>1
      <4> QED BY <4>1, <2>2
    <3>3. n.seq - Len(n.sent) = s.seq - Len(s.sent)
      <4>1. n.seq = s.seq + 1 /\ Len(n.sent) = Len(sent) BY <2>1
      <4>2. s.seq \in Nat /\ Len(sent) \in Nat /\ Len(s.sent) \in Nat BY <2>2, <2>6
      <4> QED BY <4>1, <4>2, <3>2
    <3>4. ASSUME NEW i \in DOMAIN s.sent, s.sent[i].body.type = "SNAPSHOT"
          PROVE  Recovered(n)
      BY <3>1, <3>4, <2>1, <2>6 DEF Recovered
    <3>5. body.type = "SNAPSHOT" => Recovered(n)
      BY <3>1, <2>1, <2>3, <2>6 DEF Recovered
    <3>6. s.seq - Len(s.sent) <= s.asked => Recovered(n)
      BY <3>3, <2>1, Zenon DEF Recovered
    <3> QED BY <3>4, <3>5, <3>6, <2>12 DEF Recovered
  <2>13. ~(s.asked >= 0) => Recovered(n) BY <2>1 DEF Recovered
  <2> QED BY <2>1, <2>11, <2>12, <2>13 DEF n
<1> QED BY <1>2, <1>3

(* An event of the room, and the room's state, may be told at any time.    *)
LEMMA TellKeeps ==
    ASSUME NEW s, Sound(s), NEW type \in EventTypes
    PROVE  Keeps(s, Tell(s, type)) /\ SameRoom(s, Tell(s, type))
<1> DEFINE body == Event(s, type)
<1>1. body \in Bodies BY DEF Sound, SrvType, Event, Bodies
<1>2. body.match = s.match /\ body.type # "ACTION_RESULT" BY DEF Event, EventTypes
<1>3. True(s, body) BY <1>2 DEF True, Sound, SrvType
<1> HIDE DEF body
<1>4. Keeps(s, Emit(s, body)) /\ SameRoom(s, Emit(s, body))
  BY <1>1, <1>3, EmitSound DEF Keeps
<1> QED BY <1>4 DEF Tell, body

LEMMA RoomStateKeeps ==
    ASSUME NEW s, Sound(s)
    PROVE  Keeps(s, RoomState(s)) /\ SameRoom(s, RoomState(s))
BY TellKeeps DEF RoomState, EventTypes

(* After a snapshot the player of an action has missed nothing.            *)
LEMMA SendSnapshotKeeps ==
    ASSUME NEW s, Sound(s)
    PROVE  /\ Keeps(s, SendSnapshot(s)) /\ SameRoom(s, SendSnapshot(s))
           /\ s.asked >= 0 => Recovered(SendSnapshot(s))
<1> DEFINE body == [type |-> "SNAPSHOT", match |-> s.match, phase |-> s.phase,
                    round |-> s.round, board |-> s.board]
<1>1. body \in Bodies BY DEF Sound, SrvType, Bodies
<1>2. body.match = s.match /\ body.type = "SNAPSHOT" OBVIOUS
<1>3. True(s, body) BY <1>2 DEF True, Sound, SrvType
<1> HIDE DEF body
<1>4. /\ Keeps(s, Emit(s, body)) /\ SameRoom(s, Emit(s, body))
      /\ s.asked >= 0 => Recovered(Emit(s, body))
  BY <1>1, <1>2, <1>3, EmitSound DEF Keeps
<1> QED BY <1>4 DEF SendSnapshot, body

(* A result tells the truth if what it accepts has been applied.           *)
LEMMA ResultKeeps ==
    ASSUME NEW s, Sound(s), NEW id \in ActionIds, NEW verdict \in Verdicts,
           NEW duplicate \in BOOLEAN, verdict.accepted => s.applied[id] = 1
    PROVE  /\ Keeps(s, Emit(s, Result(s, id, verdict, duplicate)))
           /\ SameRoom(s, Emit(s, Result(s, id, verdict, duplicate)))
<1> DEFINE body == Result(s, id, verdict, duplicate)
<1>1. body \in Bodies BY DEF Sound, SrvType, Result, Bodies
<1>2. body.match = s.match /\ body.id = id /\ body.verdict = verdict BY DEF Result
<1>3. True(s, body) BY <1>2 DEF True, Sound, SrvType
<1> HIDE DEF body
<1>4. Keeps(s, Emit(s, body)) /\ SameRoom(s, Emit(s, body))
  BY <1>1, <1>3, EmitSound DEF Keeps
<1> QED BY <1>4 DEF body

(* What moves only the game leaves the stream as it is.                    *)
LEMMA SameStreamKeeps ==
    ASSUME NEW s, Sound(s), NEW t \in SrvType, SameStream(s, t), Boarded(t)
    PROVE  Keeps(s, t)
<1>1. \A b : True(t, b) <=> True(s, b) BY DEF True, SameStream
<1>2. Streaming(t) /\ Limited(t) /\ Once(t)
  BY DEF Sound, Streaming, Limited, Once, SameStream
<1>3. Honest(t) BY <1>1 DEF Sound, Honest, SameStream
<1> QED BY <1>2, <1>3 DEF Keeps, Sound, Recovered, SameStream
-----------------------------------------------------------------------------
(* What the room does.                                                     *)

LEMMA EndMatchKeeps ==
    ASSUME NEW s, Sound(s)
    PROVE  Keeps(s, EndMatch(s))
<1> DEFINE t == [s EXCEPT !.phase = "MATCH_RESULT"]
<1>1. t \in SrvType /\ SameStream(s, t) /\ Boarded(t)
  BY DEF Sound, SrvType, Phases, SameStream, Boarded
<1>2. Keeps(s, t) BY <1>1, SameStreamKeeps
<1> HIDE DEF t
<1>3. Keeps(t, Tell(t, "MATCH_RESULT")) BY <1>2, TellKeeps DEF Keeps, EventTypes
<1>4. Keeps(Tell(t, "MATCH_RESULT"), RoomState(Tell(t, "MATCH_RESULT")))
  BY <1>3, RoomStateKeeps DEF Keeps
<1> QED BY <1>2, <1>3, <1>4 DEF Keeps, EndMatch, t

LEMMA DealingKeeps ==
    ASSUME NEW s, Sound(s), s.round < MaxRound
    PROVE  Keeps(s, Dealing(s))
<1> DEFINE t == [s EXCEPT !.phase = "COUNTDOWN", !.round = @ + 1,
                          !.board = Dealt(s.round + 1), !.ready = FALSE]
<1>1. s.round + 1 \in 1 .. MaxRound /\ s.round + 1 \in 0 .. MaxRound
  BY BoundAssumption DEF Sound, SrvType
<1>2. Dealt(s.round + 1) \in Boards /\ Boards \subseteq Hashes
  BY <1>1, GameAssumption DEF Hashes
<1>3. t \in SrvType /\ SameStream(s, t) /\ Boarded(t)
  BY <1>1, <1>2 DEF Sound, SrvType, Phases, SameStream, Boarded
<1>4. Keeps(s, t) BY <1>3, SameStreamKeeps
<1> HIDE DEF t
<1>5. Keeps(t, Tell(t, "COUNTDOWN")) BY <1>4, TellKeeps DEF Keeps, EventTypes
<1> QED BY <1>4, <1>5 DEF Keeps, Dealing, t

LEMMA ActivatingKeeps ==
    ASSUME NEW s, Sound(s), s.phase = "COUNTDOWN"
    PROVE  Keeps(s, Activating(s))
<1> DEFINE t == [s EXCEPT !.phase = "ACTIVE", !.board = Open(s.board), !.expired = FALSE]
<1>1. Open(s.board) \in Hashes BY GameAssumption DEF Hashes, Sound, Boarded
<1>2. t \in SrvType /\ SameStream(s, t) /\ Boarded(t)
  BY <1>1 DEF Sound, SrvType, Phases, SameStream, Boarded
<1>3. Keeps(s, t) BY <1>2, SameStreamKeeps
<1> HIDE DEF t
<1>4. Keeps(t, Tell(t, "ROUND_ACTIVE")) BY <1>3, TellKeeps DEF Keeps, EventTypes
<1> QED BY <1>3, <1>4 DEF Keeps, Activating, t

LEMMA EndRoundKeeps ==
    ASSUME NEW s, Sound(s)
    PROVE  Keeps(s, EndRound(s))
<1> DEFINE u == Tell(s, "ROUND_RESULT")
           t == [u EXCEPT !.phase = "ROUND_RESULT", !.ready = FALSE]
<1>1. Keeps(s, u) BY TellKeeps DEF EventTypes
<1> HIDE DEF u
<1>2. t \in SrvType /\ SameStream(u, t) /\ Boarded(t)
  BY <1>1 DEF Keeps, Sound, SrvType, Phases, SameStream, Boarded
<1>3. Keeps(u, t) BY <1>1, <1>2, SameStreamKeeps DEF Keeps
<1> HIDE DEF t
<1>4. Keeps(t, RoomState(t)) BY <1>3, RoomStateKeeps DEF Keeps
<1> QED BY <1>1, <1>3, <1>4 DEF Keeps, EndRound, t, u

(* Closing the room, and the rematch window opening or expiring.           *)
LEMMA PhaseKeeps ==
    ASSUME NEW s, Sound(s)
    PROVE  Keeps(s, Close(s)) /\ Keeps(s, ExpireRematch(s)) /\ Keeps(s, CallRematch(s))
<1> SUFFICES ASSUME NEW phase \in {"CLOSED", "MATCH_RESULT", "REMATCH"}, NEW vote \in BOOLEAN
             PROVE  Keeps(s, RoomState([s EXCEPT !.phase = phase, !.vote = vote]))
  <2>1. [s EXCEPT !.phase = "CLOSED"] = [s EXCEPT !.phase = "CLOSED", !.vote = s.vote]
        /\ [s EXCEPT !.phase = "REMATCH"] = [s EXCEPT !.phase = "REMATCH", !.vote = s.vote]
        /\ s.vote \in BOOLEAN
    BY DEF Sound, SrvType
  <2> QED BY <2>1 DEF Close, ExpireRematch, CallRematch
<1> DEFINE t == [s EXCEPT !.phase = phase, !.vote = vote]
<1>1. t \in SrvType /\ SameStream(s, t) /\ Boarded(t)
  BY DEF Sound, SrvType, Phases, SameStream, Boarded
<1>2. Keeps(s, t) BY <1>1, SameStreamKeeps
<1> HIDE DEF t
<1>3. Keeps(t, RoomState(t)) BY <1>2, RoomStateKeeps DEF Keeps
<1> QED BY <1>2, <1>3 DEF Keeps, t

(* A rematch forgets ids and results, and what was said of the old match   *)
(* says nothing of the new one.                                            *)
LEMMA RematchKeeps ==
    ASSUME NEW s, Sound(s), s.match < MaxMatch
    PROVE  Keeps(s, Rematch(s))
<1> DEFINE t == [s EXCEPT !.match = @ + 1, !.phase = "LOBBY", !.board = NoBoard,
                          !.ready = FALSE, !.vote = FALSE, !.seen = {}, !.cache = <<>>,
                          !.applied = [id \in ActionIds |-> 0]]
<1>1. s.match \in Nat /\ s.match + 1 \in 1 .. MaxMatch
  BY BoundAssumption DEF Sound, SrvType
<1>2. /\ t.match = s.match + 1 /\ t.connected = s.connected /\ t.epoch = s.epoch
      /\ t.seq = s.seq /\ t.ring = s.ring /\ t.sent = s.sent /\ t.asked = s.asked
      /\ t.seen = {} /\ t.cache = <<>> /\ t.applied = [id \in ActionIds |-> 0]
      /\ t.phase = "LOBBY"
  BY DEF Sound, SrvType
<1>3. t \in SrvType
  <2> DEFINE zero == [id \in ActionIds |-> 0]
             none == <<>>
  <2>1. zero \in [ActionIds -> Nat] OBVIOUS
  <2>2. none \in Seq([id : ActionIds, verdict : Verdicts]) OBVIOUS
  <2>3. t = [s EXCEPT !.match = s.match + 1, !.phase = "LOBBY", !.board = NoBoard,
                      !.ready = FALSE, !.vote = FALSE, !.seen = {}, !.cache = none,
                      !.applied = zero]
    BY DEF Sound, SrvType
  <2> HIDE DEF t, zero, none
  <2> QED BY <2>1, <2>2, <2>3, <1>1 DEF Sound, SrvType, Phases, Hashes
<1> HIDE DEF t
<1>4. Boarded(t) /\ Streaming(t) /\ Once(t)
  BY <1>2 DEF Sound, Boarded, Streaming, Once
<1>5. Limited(t)
  BY <1>2, FS_EmptySet, LimitAssumption DEF Sound, Limited
<1>6. \A b : True(s, b) /\ b.match \in Nat => True(t, b)
  BY <1>1, <1>2 DEF True
<1>7. \A m \in Messages : m.body.match \in Nat
  BY BoundAssumption DEF Messages, Bodies
<1>8. Honest(t)
  <2>1. \A i \in DOMAIN s.ring : s.ring[i] \in Messages BY DEF Sound, SrvType
  <2>2. \A i \in DOMAIN s.sent : s.sent[i] \in Messages BY DEF Sound, SrvType
  <2> QED BY <2>1, <2>2, <1>2, <1>6, <1>7 DEF Sound, Honest
<1>9. Keeps(s, t) BY <1>2, <1>3, <1>4, <1>5, <1>8 DEF Keeps, Sound, Recovered
<1>10. Keeps(t, Tell(t, "REMATCH_STARTED")) BY <1>9, TellKeeps DEF Keeps, EventTypes
<1>11. Keeps(Tell(t, "REMATCH_STARTED"), RoomState(Tell(t, "REMATCH_STARTED")))
  BY <1>10, RoomStateKeeps DEF Keeps
<1> QED BY <1>9, <1>10, <1>11 DEF Keeps, Rematch, t

(* Whatever the room does to the player when it may.                       *)
LEMMA RoomMoveKeeps ==
    ASSUME NEW s, Sound(s), NEW move \in RoomMoves, MayMove(s, move)
    PROVE  Keeps(s, RoomMove(s, move))
<1>1. CASE move = "STATE" BY <1>1, RoomStateKeeps DEF RoomMove
<1>2. CASE move \in {"DEAL", "DEAL_OVER"}
  <2>1. s.round < MaxRound BY <1>2 DEF MayMove
  <2>2. Keeps(s, Dealing(s)) BY <2>1, DealingKeeps
  <2>3. Keeps(Dealing(s), RoomState(Dealing(s))) /\ Keeps(Dealing(s), EndMatch(Dealing(s)))
    BY <2>2, RoomStateKeeps, EndMatchKeeps DEF Keeps
  <2> QED BY <1>2, <2>2, <2>3 DEF RoomMove, Keeps
<1>3. CASE move \in {"ACTIVATE", "ACTIVATE_OVER"}
  <2>1. s.phase = "COUNTDOWN" BY <1>3 DEF MayMove
  <2>2. Keeps(s, Activating(s)) BY <2>1, ActivatingKeeps
  <2>3. /\ Keeps(Activating(s), RoomState(Activating(s)))
        /\ Keeps(Activating(s), EndMatch(Activating(s)))
    BY <2>2, RoomStateKeeps, EndMatchKeeps DEF Keeps
  <2> QED BY <1>3, <2>2, <2>3 DEF RoomMove, Keeps
<1>4. CASE move = "END_ROUND" BY <1>4, EndRoundKeeps DEF RoomMove
<1>5. CASE move = "END_LAST_ROUND"
  <2>1. Keeps(s, Tell(s, "ROUND_RESULT")) BY TellKeeps DEF EventTypes
  <2>2. Keeps(Tell(s, "ROUND_RESULT"), EndMatch(Tell(s, "ROUND_RESULT")))
    BY <2>1, EndMatchKeeps DEF Keeps
  <2> QED BY <1>5, <2>1, <2>2 DEF RoomMove, Keeps
<1>6. CASE move = "END_MATCH" BY <1>6, EndMatchKeeps DEF RoomMove
<1>7. CASE move \in {"CALL_REMATCH", "EXPIRE_REMATCH", "CLOSE"}
  BY <1>7, PhaseKeeps DEF RoomMove
<1>8. CASE move = "REMATCH"
  <2>1. s.match < MaxMatch BY <1>8 DEF MayMove
  <2> QED BY <1>8, <2>1, RematchKeeps DEF RoomMove
<1> QED BY <1>1, <1>2, <1>3, <1>4, <1>5, <1>6, <1>7, <1>8 DEF RoomMoves

LEMMA ThenKeeps ==
    ASSUME NEW s, Sound(s), NEW moves \in SUBSET RoomMoves, NEW move
    PROVE  Keeps(s, Then(s, move, moves))
<1>1. CASE move \in moves /\ MayMove(s, move)
  BY <1>1, RoomMoveKeeps DEF Then
<1>2. CASE ~(move \in moves /\ MayMove(s, move))
  BY <1>2 DEF Then, Keeps
<1> QED BY <1>1, <1>2
-----------------------------------------------------------------------------
(* Answers to actions.                                                     *)

(* An action that none of the checks on ids stops.                         *)
Fresh(s, e) ==
    e.id \in ActionIds /\ e.id \notin s.seen /\ Cardinality(s.seen) < ActionLimit

(* Remembering a new id keeps the memory within its limits; only its own   *)
(* result is added to the cache.                                           *)
LEMMA RememberFacts ==
    ASSUME NEW s, Sound(s), NEW e, Fresh(s, e), NEW verdict \in Verdicts
    PROVE  LET t == Remember(s, e, verdict) IN
           /\ t \in SrvType /\ Limited(t) /\ Streaming(t) /\ Boarded(t)
           /\ t.seen = s.seen \cup {e.id} /\ t.applied = s.applied
           /\ t.match = s.match /\ t.ring = s.ring /\ t.sent = s.sent
           /\ t.seq = s.seq /\ t.asked = s.asked
           /\ \A i \in DOMAIN t.cache :
                 \/ t.cache[i] = [id |-> e.id, verdict |-> verdict]
                 \/ \E j \in DOMAIN s.cache : t.cache[i] = s.cache[j]
<1> DEFINE A == [id : ActionIds, verdict : Verdicts]
           new == [id |-> e.id, verdict |-> verdict]
           longer == Append(s.cache, new)
           cache == IF Len(longer) > CacheLimit THEN Tail(longer) ELSE longer
           t == Remember(s, e, verdict)
<1>1. /\ t = [s EXCEPT !.seen = s.seen \cup {e.id}, !.cache = cache]
      /\ t.seen = s.seen \cup {e.id} /\ t.cache = cache /\ t.applied = s.applied
      /\ t.match = s.match /\ t.ring = s.ring /\ t.sent = s.sent
      /\ t.seq = s.seq /\ t.asked = s.asked /\ t.connected = s.connected
      /\ t.epoch = s.epoch /\ t.phase = s.phase /\ t.board = s.board
  BY DEF Remember, Sound, SrvType
<1>2. s.cache \in Seq(A) /\ new \in A /\ Len(s.cache) <= CacheLimit
  BY DEF Sound, SrvType, Limited, Fresh
<1>3. s \in SrvType BY DEF Sound
<1> HIDE DEF A, new, t
<1>4. longer \in Seq(A) /\ Len(longer) = Len(s.cache) + 1
      /\ longer[Len(s.cache) + 1] = new
      /\ \A i \in 1 .. Len(s.cache) : longer[i] = s.cache[i]
  BY <1>2, AppendProperties
<1>5. Len(s.cache) \in Nat /\ CacheLimit \in Nat /\ DOMAIN s.cache = 1 .. Len(s.cache)
  BY <1>2, LimitAssumption
<1>6. \A i \in 1 .. Len(s.cache) + 1 :
         longer[i] = new \/ \E j \in DOMAIN s.cache : longer[i] = s.cache[j]
  <2>1. \A i \in 1 .. Len(s.cache) + 1 : i = Len(s.cache) + 1 \/ i \in 1 .. Len(s.cache)
    BY <1>5
  <2> QED BY <2>1, <1>4, <1>5
<1> HIDE DEF longer
<1>7. /\ cache \in Seq(A) /\ Len(cache) <= CacheLimit
      /\ \A i \in DOMAIN cache :
            cache[i] = new \/ \E j \in DOMAIN s.cache : cache[i] = s.cache[j]
  <2>1. CASE Len(longer) > CacheLimit
    <3>1. cache = Tail(longer) BY <2>1
    <3>2. /\ Tail(longer) \in Seq(A) /\ Len(Tail(longer)) = Len(longer) - 1
          /\ \A i \in 1 .. Len(Tail(longer)) : Tail(longer)[i] = longer[i + 1]
      BY <1>4, <1>5, HeadTailProperties
    <3>3. Len(Tail(longer)) = Len(s.cache) /\ DOMAIN Tail(longer) = 1 .. Len(s.cache)
      BY <3>2, <1>4, <1>5
    <3>4. \A i \in 1 .. Len(s.cache) : i + 1 \in 1 .. Len(s.cache) + 1 BY <1>5
    <3>5. ASSUME NEW i \in DOMAIN cache
          PROVE  cache[i] = new \/ \E j \in DOMAIN s.cache : cache[i] = s.cache[j]
      <4>1. i \in 1 .. Len(s.cache) BY <3>1, <3>3
      <4>2. cache[i] = longer[i + 1] BY <3>1, <3>2, <3>3, <4>1
      <4> QED BY <4>1, <4>2, <3>4, <1>6
    <3>6. cache \in Seq(A) /\ Len(cache) <= CacheLimit BY <3>1, <3>2, <3>3, <1>2
    <3> QED BY <3>5, <3>6
  <2>2. CASE ~(Len(longer) > CacheLimit)
    <3>1. cache = longer BY <2>2
    <3> QED BY <3>1, <2>2, <1>4, <1>5, <1>6
  <2> QED BY <2>1, <2>2
<1> HIDE DEF cache
<1>8. s.seen \cup {e.id} \in SUBSET ActionIds BY <1>3 DEF SrvType, Fresh
<1>9. t \in SrvType BY <1>1, <1>3, <1>7, <1>8 DEF SrvType, A
<1>10. IsFiniteSet(t.seen) /\ Cardinality(t.seen) <= ActionLimit
  <2>1. IsFiniteSet(s.seen) /\ Cardinality(s.seen) \in Nat /\ ActionLimit \in Nat
    BY FS_CardinalityType, LimitAssumption DEF Sound, Limited
  <2>2. /\ IsFiniteSet(s.seen \cup {e.id})
        /\ Cardinality(s.seen \cup {e.id}) = Cardinality(s.seen) + 1
    BY <2>1, FS_AddElement DEF Fresh
  <2> QED BY <2>1, <2>2, <1>1 DEF Fresh
<1>11. Limited(t) /\ Streaming(t) /\ Boarded(t)
  BY <1>1, <1>7, <1>10 DEF Sound, Limited, Streaming, Boarded
<1> QED BY <1>1, <1>7, <1>9, <1>11 DEF t, new

(* A rejection that is remembered.                                         *)
LEMMA RejectKeeps ==
    ASSUME NEW s, Sound(s), NEW e, Fresh(s, e), NEW verdict \in Verdicts, ~verdict.accepted
    PROVE  Keeps(s, Reject(s, e, verdict))
<1> DEFINE t == Remember(s, e, verdict)
<1>1. /\ t \in SrvType /\ Limited(t) /\ Streaming(t) /\ Boarded(t)
      /\ t.seen = s.seen \cup {e.id} /\ t.applied = s.applied
      /\ t.match = s.match /\ t.ring = s.ring /\ t.sent = s.sent
      /\ t.seq = s.seq /\ t.asked = s.asked
      /\ \A i \in DOMAIN t.cache :
            \/ t.cache[i] = [id |-> e.id, verdict |-> verdict]
            \/ \E j \in DOMAIN s.cache : t.cache[i] = s.cache[j]
  BY RememberFacts
<1> HIDE DEF t
<1>2. Once(t) BY <1>1 DEF Sound, Once, SrvType
<1>3. Honest(t)
  <2>1. \A b : True(t, b) <=> True(s, b) BY <1>1 DEF True
  <2> QED BY <2>1, <1>1 DEF Sound, Honest
<1>4. Keeps(s, t) BY <1>1, <1>2, <1>3 DEF Keeps, Sound, Recovered
<1>5. Keeps(t, Answer(t, e, verdict))
  BY <1>4, ResultKeeps DEF Keeps, Answer, Fresh
<1> QED BY <1>4, <1>5 DEF Keeps, Reject, t

(* An action that takes effect: for the first time, and remembered.        *)
LEMMA AcceptKeeps ==
    ASSUME NEW s, Sound(s), NEW e, Fresh(s, e), NEW hash \in Hashes
    PROVE  Keeps(s, Accept(s, e, hash))
<1> DEFINE verdict == Verdict(TRUE, "NONE", hash)
           r == Remember(s, e, verdict)
           t == Apply(r, e)
<1>1. verdict \in Verdicts BY DEF Verdict, Verdicts, Reconciles
<1> HIDE DEF verdict
<1>2. /\ r \in SrvType /\ Limited(r) /\ Streaming(r) /\ Boarded(r)
      /\ r.seen = s.seen \cup {e.id} /\ r.applied = s.applied
      /\ r.match = s.match /\ r.ring = s.ring /\ r.sent = s.sent
      /\ r.seq = s.seq /\ r.asked = s.asked
      /\ \A i \in DOMAIN r.cache :
            \/ r.cache[i] = [id |-> e.id, verdict |-> verdict]
            \/ \E j \in DOMAIN s.cache : r.cache[i] = s.cache[j]
  BY <1>1, RememberFacts
<1> HIDE DEF r
<1>3. s.applied[e.id] = 0
  BY DEF Sound, Once, Fresh, SrvType
<1>4. /\ t.applied[e.id] = 1
      /\ \A id \in ActionIds \ {e.id} : t.applied[id] = s.applied[id]
      /\ t.applied \in [ActionIds -> Nat]
      /\ t = [r EXCEPT !.applied = t.applied]
      /\ t.match = r.match /\ t.connected = r.connected /\ t.epoch = r.epoch
      /\ t.seq = r.seq /\ t.ring = r.ring /\ t.sent = r.sent /\ t.asked = r.asked
      /\ t.seen = r.seen /\ t.cache = r.cache /\ t.phase = r.phase /\ t.board = r.board
  BY <1>2, <1>3 DEF Apply, SrvType, Fresh
<1> HIDE DEF t
<1>5. t \in SrvType BY <1>2, <1>4 DEF SrvType
<1>6. Limited(t) /\ Streaming(t) /\ Boarded(t)
  BY <1>2, <1>4 DEF Limited, Streaming, Boarded
<1>7. Once(t)
  BY <1>2, <1>4 DEF Sound, Once, Fresh
<1>8. \A id \in ActionIds : s.applied[id] = 1 => t.applied[id] = 1
  BY <1>4
<1>9. Honest(t)
  <2>1. \A m \in Messages : True(s, m.body) => True(t, m.body)
    <3>1. \A m \in Messages : m.body.type = "ACTION_RESULT" => m.body.id \in ActionIds
      BY DEF Messages, Bodies, EventTypes
    <3> QED BY <3>1, <1>2, <1>4, <1>8 DEF True
  <2>2. \A i \in DOMAIN s.ring : s.ring[i] \in Messages BY DEF Sound, SrvType
  <2>3. \A i \in DOMAIN s.sent : s.sent[i] \in Messages BY DEF Sound, SrvType
  <2>4. \A i \in DOMAIN s.cache : s.cache[i].id \in ActionIds
    <3> DEFINE A == [id : ActionIds, verdict : Verdicts]
    <3>1. s.cache \in Seq(A) BY DEF Sound, SrvType
    <3>2. \A a \in A : a.id \in ActionIds OBVIOUS
    <3> HIDE DEF A
    <3>3. \A i \in DOMAIN s.cache : s.cache[i] \in A BY <3>1
    <3> QED BY <3>2, <3>3
  <2>5. \A i \in DOMAIN t.cache : t.cache[i].verdict.accepted => t.applied[t.cache[i].id] = 1
    BY <2>4, <1>2, <1>4, <1>8 DEF Sound, Honest
  <2> QED BY <2>1, <2>2, <2>3, <2>5, <1>2, <1>4 DEF Sound, Honest
<1>10. Keeps(s, t) BY <1>2, <1>4, <1>5, <1>6, <1>7, <1>9 DEF Keeps, Sound, Recovered
<1>11. Keeps(t, Answer(t, e, verdict))
  BY <1>1, <1>4, <1>10, ResultKeeps DEF Keeps, Answer, Fresh
<1> QED BY <1>10, <1>11 DEF Keeps, Accept, t, r, verdict
-----------------------------------------------------------------------------
(* The handlers.                                                           *)

LEMMA HandleReadyKeeps ==
    ASSUME NEW s, Sound(s), NEW e, Fresh(s, e), NEW room
    PROVE  Keeps(s, HandleReady(s, e, room))
<1> DEFINE r == [s EXCEPT !.ready = TRUE]
           taken == Accept(r, e, NoBoard)
           refused == Reject(s, e, Rejected("NONE", NoBoard))
           moves == {"DEAL", "DEAL_OVER", "END_MATCH"}
<1>1. r \in SrvType /\ SameStream(s, r) /\ Boarded(r)
  BY DEF Sound, SrvType, SameStream, Boarded
<1>2. Keeps(s, r) BY <1>1, SameStreamKeeps
<1>3. Fresh(r, e) /\ NoBoard \in Hashes BY <1>1 DEF Fresh, SameStream, Hashes
<1> HIDE DEF r
<1>4. Keeps(r, taken) BY <1>2, <1>3, AcceptKeeps DEF Keeps
<1> HIDE DEF taken
<1>5. Keeps(taken, EndMatch(taken)) /\ Keeps(taken, RoomState(taken))
  BY <1>4, EndMatchKeeps, RoomStateKeeps DEF Keeps
<1>6. Keeps(RoomState(taken), Then(RoomState(taken), room, moves))
  <2>1. moves \in SUBSET RoomMoves BY DEF RoomMoves
  <2> HIDE DEF moves
  <2> QED BY <2>1, <1>5, ThenKeeps DEF Keeps
<1>7. Keeps(s, refused)
  <2>1. /\ Rejected("NONE", NoBoard) \in Verdicts
        /\ ~Rejected("NONE", NoBoard).accepted
    BY DEF Rejected, Verdict, Verdicts, Reconciles, Hashes
  <2> QED BY <2>1, RejectKeeps
<1>8. \/ HandleReady(s, e, room) = refused
      \/ HandleReady(s, e, room) = EndMatch(taken)
      \/ HandleReady(s, e, room) = Then(RoomState(taken), room, moves)
  BY DEF HandleReady, taken, r
<1> QED BY <1>2, <1>4, <1>5, <1>6, <1>7, <1>8 DEF Keeps

LEMMA HandleRematchKeeps ==
    ASSUME NEW s, Sound(s), NEW e, Fresh(s, e), NEW room
    PROVE  Keeps(s, HandleRematch(s, e, room))
<1> DEFINE r == [s EXCEPT !.phase = "REMATCH", !.vote = TRUE]
           taken == Accept(r, e, NoBoard)
           refused == Reject(s, e, Rejected("NONE", NoBoard))
           moves == {"REMATCH"}
<1>1. r \in SrvType /\ SameStream(s, r) /\ Boarded(r)
  BY DEF Sound, SrvType, Phases, SameStream, Boarded
<1>2. Keeps(s, r) BY <1>1, SameStreamKeeps
<1>3. Fresh(r, e) /\ NoBoard \in Hashes BY <1>1 DEF Fresh, SameStream, Hashes
<1> HIDE DEF r
<1>4. Keeps(r, taken) BY <1>2, <1>3, AcceptKeeps DEF Keeps
<1> HIDE DEF taken
<1>5. Keeps(taken, RoomState(taken)) BY <1>4, RoomStateKeeps DEF Keeps
<1>6. Keeps(RoomState(taken), Then(RoomState(taken), room, moves))
  <2>1. moves \in SUBSET RoomMoves BY DEF RoomMoves
  <2> HIDE DEF moves
  <2> QED BY <2>1, <1>5, ThenKeeps DEF Keeps
<1>7. Keeps(s, refused)
  <2>1. /\ Rejected("NONE", NoBoard) \in Verdicts
        /\ ~Rejected("NONE", NoBoard).accepted
    BY DEF Rejected, Verdict, Verdicts, Reconciles, Hashes
  <2> QED BY <2>1, RejectKeeps
<1>8. \/ HandleRematch(s, e, room) = refused
      \/ HandleRematch(s, e, room) = taken
      \/ HandleRematch(s, e, room) = Then(RoomState(taken), room, moves)
  BY DEF HandleRematch, taken, r
<1> QED BY <1>2, <1>4, <1>5, <1>6, <1>7, <1>8 DEF Keeps

(* A move that changes the board is accepted, one that does not is refused *)
(* and remembered all the same.                                            *)
LEMMA HandleBoardActionKeeps ==
    ASSUME NEW s, Sound(s), NEW e, Fresh(s, e), NEW room, e.do \in BoardActions
    PROVE  Keeps(s, HandleBoardAction(s, e, room))
<1> DEFINE rejected == Reject(s, e, Rejected("ROLLBACK", s.board))
           refused == SendSnapshot(rejected)
           board == Play(s.board, e.do)
           r == [s EXCEPT !.board = board]
           logged == IF board = s.board
                     THEN Reject(s, e, Rejected("NONE", board))
                     ELSE Accept(r, e, board)
<1>1. Keeps(s, refused) /\ Keeps(refused, Then(refused, room, Settlements))
  <2>1. /\ Rejected("ROLLBACK", s.board) \in Verdicts
        /\ ~Rejected("ROLLBACK", s.board).accepted
    BY DEF Rejected, Verdict, Verdicts, Reconciles, Sound, SrvType
  <2>2. Keeps(s, rejected) BY <2>1, RejectKeeps
  <2> HIDE DEF rejected
  <2>3. Keeps(rejected, refused) BY <2>2, SendSnapshotKeeps DEF Keeps
  <2> HIDE DEF refused
  <2>4. Settlements \in SUBSET RoomMoves BY DEF Settlements, RoomMoves
  <2> QED BY <2>2, <2>3, <2>4, ThenKeeps DEF Keeps
<1>2. ASSUME s.phase = "ACTIVE", s.board # NoBoard, e.do # NoCell
      PROVE  Keeps(s, logged) /\ Keeps(logged, EndMatch(logged))
  <2>1. s.board \in Boards /\ e.do \in Moves
    BY <1>2 DEF Sound, SrvType, Hashes, BoardActions
  <2>2. board \in Boards BY <2>1, GameAssumption
  <2>3. r \in SrvType /\ SameStream(s, r) /\ Boarded(r)
    <3> HIDE DEF board
    <3> QED BY <2>2 DEF Sound, SrvType, Hashes, SameStream, Boarded
  <2>4. Keeps(s, r) /\ Fresh(r, e) BY <2>3, SameStreamKeeps DEF SameStream, Fresh
  <2> HIDE DEF board, r
  <2>5. Keeps(r, Accept(r, e, board)) BY <2>2, <2>4, AcceptKeeps DEF Keeps, Hashes
  <2>6. Rejected("NONE", board) \in Verdicts /\ ~Rejected("NONE", board).accepted
    BY <2>2 DEF Rejected, Verdict, Verdicts, Reconciles, Hashes
  <2>7. Keeps(s, Reject(s, e, Rejected("NONE", board))) BY <2>6, RejectKeeps
  <2>8. Keeps(s, logged) BY <2>4, <2>5, <2>7 DEF Keeps
  <2> HIDE DEF logged
  <2> QED BY <2>8, EndMatchKeeps DEF Keeps
<1>3. \/ HandleBoardAction(s, e, room) = refused
      \/ HandleBoardAction(s, e, room) = Then(refused, room, Settlements)
      \/ /\ s.phase = "ACTIVE" /\ s.board # NoBoard /\ e.do # NoCell
         /\ HandleBoardAction(s, e, room) \in {logged, EndMatch(logged)}
  BY DEF HandleBoardAction
<1> HIDE DEF refused, logged
<1> QED BY <1>1, <1>2, <1>3 DEF Keeps

LEMMA DispatchKeeps ==
    ASSUME NEW s, Sound(s), NEW e, Fresh(s, e), NEW room,
           e.do \in Controls \cup BoardActions
    PROVE  Keeps(s, Dispatch(s, e, room))
<1>1. BoardActions \cap {"READY", "REMATCH"} = {} BY GameAssumption DEF BoardActions
<1>2. CASE e.do = "READY"
  <2>1. ~IsBoardAction(e) BY <1>1, <1>2 DEF IsBoardAction
  <2>2. Dispatch(s, e, room) = HandleReady(s, e, room) BY <1>2, <2>1 DEF Dispatch
  <2> QED BY <2>2, HandleReadyKeeps
<1>3. CASE e.do = "REMATCH"
  <2>1. ~IsBoardAction(e) BY <1>1, <1>3 DEF IsBoardAction
  <2>2. Dispatch(s, e, room) = HandleRematch(s, e, room) BY <1>3, <2>1 DEF Dispatch
  <2> QED BY <2>2, HandleRematchKeeps
<1>4. CASE e.do \in BoardActions
  <2>1. IsBoardAction(e) /\ e.do # "READY" /\ e.do # "REMATCH"
    BY <1>1, <1>4 DEF IsBoardAction
  <2> QED BY <1>4, <2>1, HandleBoardActionKeeps DEF Dispatch
<1> QED BY <1>2, <1>3, <1>4 DEF Controls

(* A verdict of this match once more: it was true when it was given.       *)
LEMMA RepeatKeeps ==
    ASSUME NEW s, Sound(s), NEW e, Cached(s, e.id) # {}
    PROVE  Keeps(s, Repeat(s, e))
<1> DEFINE A == [id : ActionIds, verdict : Verdicts]
           i == CHOOSE j \in Cached(s, e.id) : TRUE
           verdict == s.cache[i].verdict
           told == Emit(s, Result(s, e.id, verdict, TRUE))
<1>1. i \in DOMAIN s.cache /\ s.cache[i].id = e.id BY DEF Cached
<1> HIDE DEF i
<1>2. s.cache[i].id \in ActionIds /\ verdict \in Verdicts
  <2>1. s.cache \in Seq(A) BY DEF Sound, SrvType
  <2>2. \A a \in A : a.id \in ActionIds /\ a.verdict \in Verdicts OBVIOUS
  <2> HIDE DEF A
  <2>3. s.cache[i] \in A BY <1>1, <2>1
  <2> QED BY <2>2, <2>3
<1>3. verdict.accepted => s.applied[e.id] = 1 BY <1>1 DEF Sound, Honest
<1> HIDE DEF verdict
<1>4. Keeps(s, told) BY <1>1, <1>2, <1>3, ResultKeeps
<1> HIDE DEF told
<1>5. Keeps(told, SendSnapshot(told)) BY <1>4, SendSnapshotKeeps DEF Keeps
<1>6. Repeat(s, e) \in {told, SendSnapshot(told)} BY DEF Repeat, told, verdict, i
<1> QED BY <1>4, <1>5, <1>6 DEF Keeps

(* A refusal that is not remembered.                                       *)
LEMMA RefusalKeeps ==
    ASSUME NEW s, Sound(s), NEW e, e.id \in ActionIds,
           NEW reconcile \in Reconciles, NEW hash \in Hashes
    PROVE  Keeps(s, Answer(s, e, Rejected(reconcile, hash)))
<1>1. /\ Rejected(reconcile, hash) \in Verdicts
      /\ ~Rejected(reconcile, hash).accepted
  BY DEF Rejected, Verdict, Verdicts
<1> QED BY <1>1, ResultKeeps DEF Answer

(* What the room answers with: a board of the player, or none.             *)
LEMMA BaseStateHashType ==
    ASSUME NEW s \in SrvType, NEW e
    PROVE  BaseStateHash(s, e) \in Hashes
BY DEF BaseStateHash, SrvType, Hashes

LEMMA DeclineKeeps ==
    ASSUME NEW s, Sound(s), NEW e, e.id \in ActionIds
    PROVE  Keeps(s, Decline(s, e))
<1> DEFINE hash == BaseStateHash(s, e)
           told(reconcile) == Answer(s, e, Rejected(reconcile, hash))
<1>1. hash \in Hashes BY BaseStateHashType DEF Sound
<1> HIDE DEF hash
<1>2. \A reconcile \in Reconciles : Keeps(s, told(reconcile)) BY <1>1, RefusalKeeps
<1>3. Keeps(s, told("ROLLBACK")) /\ Keeps(s, told("NONE")) BY <1>2 DEF Reconciles
<1> HIDE DEF told
<1>4. Keeps(told("ROLLBACK"), SendSnapshot(told("ROLLBACK")))
  BY <1>3, SendSnapshotKeeps DEF Keeps
<1>5. Decline(s, e) \in {told("NONE"), SendSnapshot(told("ROLLBACK"))}
  BY DEF Decline, told, hash
<1> QED BY <1>3, <1>4, <1>5 DEF Keeps
-----------------------------------------------------------------------------
(* How a step begins.                                                      *)

(* Nothing has been sent yet, and the stream and the memory are as before. *)
LEMMA StartSound ==
    ASSUME Sound(srv), NEW t \in SrvType, Boarded(t),
           t.match = srv.match, t.seq = srv.seq, t.ring = srv.ring, t.seen = srv.seen,
           t.cache = srv.cache, t.applied = srv.applied, t.sent = <<>>,
           t.connected => t.epoch > 0, t.asked >= 0 => t.connected
    PROVE  Sound(t) /\ (t.asked < 0 => Recovered(t))
<1>1. DOMAIN t.sent = {} OBVIOUS
<1>2. Streaming(t) BY <1>1 DEF Sound, Streaming, EndOfStream
<1>3. Limited(t) /\ Once(t) BY DEF Sound, Limited, Once
<1>4. Honest(t)
  <2>1. \A b : True(t, b) <=> True(srv, b) BY DEF True
  <2> QED BY <1>1, <2>1 DEF Sound, Honest
<1> QED BY <1>2, <1>3, <1>4 DEF Sound, Recovered, SrvType

LEMMA BeginFacts ==
    ASSUME Sound(srv), NEW last \in Int, last >= 0 => srv.connected
    PROVE  /\ Sound(Begin(last)) /\ (last < 0 => Recovered(Begin(last)))
           /\ Begin(last).asked = last /\ Begin(last).sent = <<>>
           /\ \A move : MayMove(srv, move) => MayMove(Begin(last), move)
           /\ \A e : BaseStateHash(Begin(last), e) = BaseStateHash(srv, e)
<1> DEFINE none == <<>>
           t == [srv EXCEPT !.sent = none, !.asked = last]
<1>1. none \in Seq(Messages) OBVIOUS
<1>2. t.sent = <<>> OBVIOUS
<1> HIDE DEF none
<1>3. /\ t \in SrvType
      /\ t.match = srv.match /\ t.seq = srv.seq /\ t.ring = srv.ring /\ t.seen = srv.seen
      /\ t.cache = srv.cache /\ t.applied = srv.applied
      /\ t.connected = srv.connected /\ t.epoch = srv.epoch /\ t.asked = last
      /\ t.phase = srv.phase /\ t.board = srv.board /\ t.ready = srv.ready
      /\ t.vote = srv.vote /\ t.round = srv.round
  BY <1>1 DEF Sound, SrvType
<1>4. Begin(last) = t BY DEF Begin, none
<1> HIDE DEF t
<1>5. Boarded(t) /\ (t.connected => t.epoch > 0)
  BY <1>3 DEF Sound, Boarded, Streaming
<1>6. Sound(t) /\ (t.asked < 0 => Recovered(t)) BY <1>2, <1>3, <1>5, StartSound
<1>7. \A move : MayMove(srv, move) => MayMove(t, move) BY <1>3 DEF MayMove
<1>8. \A e : BaseStateHash(t, e) = BaseStateHash(srv, e) BY <1>3 DEF BaseStateHash
<1> QED BY <1>2, <1>3, <1>4, <1>6, <1>7, <1>8

(* What follows a position that the ring reaches goes on from it.          *)
LEMMA FollowingFacts ==
    ASSUME NEW s, Sound(s), NEW last \in Nat, Reaches(s, last)
    PROVE  /\ Following(s, last) \in Seq(Messages)
           /\ EndOfStream(s.seq, Following(s, last))
           /\ s.seq - Len(Following(s, last)) <= last
           /\ \A i \in DOMAIN Following(s, last) :
                 \E j \in DOMAIN s.ring : Following(s, last)[i] = s.ring[j]
<1> DEFINE L == Len(s.ring)
           first == s.seq - L
           known == Cardinality({i \in DOMAIN s.ring : s.ring[i].seq <= last})
           f == SubSeq(s.ring, known + 1, L)
<1>1. s.ring \in Seq(Messages) /\ s.seq \in Nat BY DEF Sound, SrvType
<1>2. L \in Nat /\ DOMAIN s.ring = 1 .. L /\ first \in Int BY <1>1
<1>3. \A i \in 1 .. L : s.ring[i].seq = first + i
  BY <1>2 DEF Sound, Streaming, EndOfStream
<1>4. Following(s, last) = f BY DEF Following
<1> SUFFICES /\ f \in Seq(Messages) /\ EndOfStream(s.seq, f) /\ s.seq - Len(f) <= last
             /\ \A i \in DOMAIN f : \E j \in DOMAIN s.ring : f[i] = s.ring[j]
  BY <1>4
<1>5. CASE last >= s.seq
  <2>1. {i \in DOMAIN s.ring : s.ring[i].seq <= last} = 1 .. L
    <3> HIDE DEF L
    <3> QED BY <1>1, <1>2, <1>3, <1>5 DEF L
  <2>2. known = L
    <3>1. Cardinality(1 .. L) = L
      <4> HIDE DEF L
      <4> QED BY <1>2, FS_Interval
    <3> QED BY <3>1, <2>1
  <2> HIDE DEF known
  <2>3. f = <<>> BY <2>2, <1>2, SubSeqEmpty
  <2> HIDE DEF f
  <2>4. f \in Seq(Messages) /\ Len(f) = 0 /\ DOMAIN f = {} BY <2>3
  <2> QED BY <2>4, <1>1, <1>5 DEF EndOfStream
<1>6. CASE last < s.seq
  <2>1. s.ring # <<>> /\ last >= Head(s.ring).seq - 1 BY <1>6, <1>1 DEF Reaches
  <2>2. 1 \in 1 .. L /\ Head(s.ring) = s.ring[1] BY <2>1, <1>1, <1>2
  <2> DEFINE k == last - first
  <2>3. k \in 0 .. L - 1
    <3>1. Head(s.ring).seq = first + 1 BY <2>2, <1>3
    <3> HIDE DEF first
    <3>2. last >= first BY <3>1, <2>1, <1>2
    <3>3. s.seq = first + L BY <1>1, <1>2 DEF first
    <3> QED BY <3>2, <3>3, <1>2, <1>6
  <2>4. {i \in DOMAIN s.ring : s.ring[i].seq <= last} = 1 .. k
    <3>1. \A i \in 1 .. L : s.ring[i].seq <= last <=> i <= k
      <4> HIDE DEF first
      <4>1. \A i \in 1 .. L : first + i <= last <=> i <= last - first BY <1>2
      <4> QED BY <4>1, <1>3
    <3>2. 1 .. k = {i \in 1 .. L : i <= k}
      <4> HIDE DEF k
      <4> QED BY <2>3, <1>2
    <3> QED BY <3>1, <3>2, <1>2
  <2>5. known = k
    <3> HIDE DEF k
    <3>1. Cardinality(1 .. k) = k
      BY <2>3, <1>2, FS_Interval
    <3> QED BY <3>1, <2>4
  <2> HIDE DEF known
  <2>6. /\ f \in Seq(Messages) /\ Len(f) = L - k
        /\ \A i \in 1 .. L - k : k + i \in 1 .. L /\ f[i] = s.ring[k + i]
    <3> HIDE DEF k, L
    <3>1. k + 1 \in Int /\ L \in Int /\ k + 1 <= L /\ \A i \in k + 1 .. L : i \in 1 .. L
      BY <2>3, <1>2
    <3>2. \A i \in k + 1 .. L : s.ring[i] \in Messages BY <3>1, <1>1, <1>2
    <3> DEFINE g == SubSeq(s.ring, k + 1, L)
    <3>3. /\ g \in Seq(Messages) /\ Len(g) = L - (k + 1) + 1
          /\ \A i \in 1 .. L - (k + 1) + 1 : g[i] = s.ring[k + 1 + i - 1]
      BY <3>1, <3>2, SubSeqProperties
    <3>4. f = g BY <2>5
    <3> HIDE DEF g, f
    <3>5. L - (k + 1) + 1 = L - k BY <2>3, <1>2
    <3>6. \A i \in 1 .. L - k : k + 1 + i - 1 = k + i /\ k + i \in 1 .. L BY <2>3, <1>2
    <3> QED BY <3>3, <3>4, <3>5, <3>6
  <2> HIDE DEF f
  <2>7. DOMAIN f = 1 .. L - k BY <2>6
  <2>8. s.seq - (L - k) = last
    <3> HIDE DEF L
    <3> QED BY <1>1, <1>2
  <2>9. \A i \in 1 .. L - k : f[i].seq = s.seq - (L - k) + i
    <3> SUFFICES ASSUME NEW i \in 1 .. L - k PROVE f[i].seq = last + i BY <2>8
    <3>1. f[i].seq = first + (k + i) BY <2>6, <1>3
    <3>2. first + (k + i) = last + i
      <4> HIDE DEF first
      <4>1. L - k \in Int /\ i \in Int BY <2>3, <1>2
      <4> QED BY <4>1, <1>2
    <3> QED BY <3>1, <3>2
  <2> HIDE DEF k, L
  <2>10. s.seq - Len(f) <= last BY <2>6, <2>8
  <2> QED BY <2>6, <2>7, <2>9, <2>10, <1>2 DEF EndOfStream
<1>7. last >= s.seq \/ last < s.seq BY <1>1
<1> HIDE DEF f
<1> QED BY <1>5, <1>6, <1>7

(* After the missed messages the player has missed nothing, and the memory *)
(* is as it was.                                                           *)
LEMMA CaughtUpFacts ==
    ASSUME Sound(srv), srv.connected, NEW e, e.last \in Nat, Reaches(srv, e.last)
    PROVE  /\ Sound(CaughtUp(e)) /\ Recovered(CaughtUp(e))
           /\ CaughtUp(e).seen = srv.seen /\ CaughtUp(e).cache = srv.cache
           /\ BaseStateHash(CaughtUp(e), e) = BaseStateHash(srv, e)
<1> DEFINE b == Begin(e.last)
           f == Following(srv, e.last)
           t == [b EXCEPT !.sent = f]
<1>1. Sound(b) /\ b.asked = e.last /\ b.sent = <<>> BY BeginFacts
<1>2. /\ b.seq = srv.seq /\ b.ring = srv.ring /\ b.seen = srv.seen
      /\ b.cache = srv.cache /\ b.board = srv.board /\ b.connected = srv.connected
      /\ b \in SrvType
  BY <1>1 DEF Begin, Sound, SrvType
<1>3. /\ f \in Seq(Messages) /\ EndOfStream(b.seq, f) /\ b.seq - Len(f) <= e.last
      /\ \A i \in DOMAIN f : \E j \in DOMAIN b.ring : f[i] = b.ring[j]
  BY <1>2, FollowingFacts
<1>4. CaughtUp(e) = t
  <2>1. Following(b, e.last) = f BY <1>2 DEF Following
  <2>2. CaughtUp(e) = [b EXCEPT !.sent = b.sent \o f] BY <2>1 DEF CaughtUp, CatchUp
  <2>3. <<>> \o f = f
    <3> HIDE DEF f
    <3> QED BY <1>3, ConcatEmptySeq
  <2> HIDE DEF b, f
  <2> QED BY <2>2, <2>3, <1>1
<1> HIDE DEF b, f
<1>5. /\ t \in SrvType
      /\ t.sent = f /\ t.asked = b.asked /\ t.seq = b.seq /\ t.ring = b.ring
      /\ t.seen = b.seen /\ t.cache = b.cache /\ t.applied = b.applied
      /\ t.match = b.match /\ t.connected = b.connected /\ t.epoch = b.epoch
      /\ t.phase = b.phase /\ t.board = b.board
  BY <1>2, <1>3 DEF SrvType
<1> HIDE DEF t
<1>6. Boarded(t) /\ Limited(t) /\ Once(t) BY <1>1, <1>5 DEF Sound, Boarded, Limited, Once
<1>7. Streaming(t) BY <1>1, <1>3, <1>5 DEF Sound, Streaming
<1>8. Honest(t)
  <2>1. \A m : True(t, m) <=> True(b, m) BY <1>5 DEF True
  <2> QED BY <2>1, <1>1, <1>3, <1>5 DEF Sound, Honest
<1>9. Recovered(t)
  <2>1. t.seq - Len(t.sent) <= t.asked BY <1>1, <1>3, <1>5
  <2> QED BY <2>1, Zenon DEF Recovered
<1>10. BaseStateHash(t, e) = BaseStateHash(srv, e) BY <1>2, <1>5 DEF BaseStateHash
<1> QED BY <1>2, <1>4, <1>5, <1>6, <1>7, <1>8, <1>9, <1>10 DEF Sound
-----------------------------------------------------------------------------
(* The steps.                                                              *)

(* A snapshot leaves nothing to recover, whatever came before it.          *)
LEMMA SnapshotRecovers ==
    ASSUME NEW s, Sound(s)
    PROVE  Sound(SendSnapshot(s)) /\ Recovered(SendSnapshot(s))
<1>1. CASE s.asked >= 0 BY <1>1, SendSnapshotKeeps DEF Keeps
<1>2. CASE ~(s.asked >= 0)
  BY <1>2, SendSnapshotKeeps DEF Keeps, Recovered
<1> QED BY <1>1, <1>2

LEMMA ArrivingFacts ==
    ASSUME srv \in SrvType, NEW e \in Arriving
    PROVE  e.id \in ActionIds /\ e.last \in Nat /\ e.do \in Controls \cup BoardActions
<1> DEFINE ids == IF srv.seen = ActionIds THEN srv.seen
                  ELSE srv.seen \cup {CHOOSE id \in ActionIds : id \notin srv.seen}
           lasts == {n \in 0 .. srv.seq + 1 : n >= srv.seq - RingLimit - 1}
<1>1. ids \subseteq ActionIds
  <2>1. srv.seen \subseteq ActionIds BY DEF SrvType
  <2>2. srv.seen # ActionIds => \E id \in ActionIds : id \notin srv.seen BY <2>1
  <2> QED BY <2>1, <2>2
<1>2. \A n \in lasts : n \in Nat BY DEF SrvType
<1> HIDE DEF ids, lasts
<1>3. \/ e \in [id : ids, epoch : {srv.epoch}, match : {srv.match}, last : lasts,
                base : {srv.board, NoBoard}, do : BoardActions]
      \/ e \in [id : ids, epoch : {srv.epoch}, match : {srv.match}, last : lasts,
                base : {NoBoard}, do : Controls]
      \/ e \in [id : ids, epoch : 1 .. srv.epoch, match : 1 .. srv.match,
                last : {0}, base : {NoBoard}, do : {"READY"}]
  BY DEF Arriving, ids, lasts
<1>4. /\ e.id \in ids /\ e.last \in lasts \cup {0}
      /\ e.do \in Controls \cup BoardActions \cup {"READY"}
  BY <1>3
<1>5. e.id \in ActionIds BY <1>1, <1>4
<1>6. e.last \in Nat
  <2>1. e.last \in lasts \/ e.last = 0 BY <1>4
  <2>2. CASE e.last = 0 BY <2>2
  <2>3. CASE e.last \in lasts BY <2>3, <1>2, Zenon
  <2> QED BY <2>1, <2>2, <2>3
<1>7. e.do \in Controls \cup BoardActions BY <1>4 DEF Controls
<1> QED BY <1>5, <1>6, <1>7

(* Every way an action may be answered.                                    *)
LEMMA HandleActionSound ==
    ASSUME Complete(srv), NEW e, HandleAction(e),
           e.id \in ActionIds, e.last \in Nat, e.do \in Controls \cup BoardActions
    PROVE  Complete(srv')
<1>1. e.id \in ActionIds /\ e.last \in Nat /\ e.do \in Controls \cup BoardActions
  OBVIOUS
<1>2. Sound(srv) /\ srv.connected BY DEF Complete, HandleAction
<1>3. Sound(Begin(e.last)) BY <1>1, <1>2, BeginFacts
<1>4. BaseStateHash(srv, e) \in Hashes /\ NoBoard \in Hashes
  BY <1>2, BaseStateHashType DEF Sound, Hashes
<1>5. "SNAPSHOT_REQUIRED" \in Reconciles BY DEF Reconciles
<1>6. ASSUME InTouch(e)
      PROVE  /\ Sound(CaughtUp(e)) /\ Recovered(CaughtUp(e))
             /\ CaughtUp(e).seen = srv.seen /\ CaughtUp(e).cache = srv.cache
  BY <1>1, <1>2, <1>6, CaughtUpFacts DEF InTouch
<1>7. CASE Outdated(e)
  BY <1>1, <1>3, <1>4, <1>5, <1>7, RefusalKeeps, SnapshotRecovers
  DEF Outdated, Keeps, Complete
<1>8. CASE FallenBehind(e)
  BY <1>1, <1>3, <1>4, <1>5, <1>8, RefusalKeeps, SnapshotRecovers
  DEF FallenBehind, Keeps, Complete
<1>9. CASE Repeated(e)
  <2>1. InTouch(e) /\ Cached(srv, e.id) # {} /\ srv' = Repeat(CaughtUp(e), e)
    BY <1>9 DEF Repeated
  <2>2. Cached(CaughtUp(e), e.id) # {} BY <2>1, <1>6 DEF Cached
  <2>3. Keeps(CaughtUp(e), Repeat(CaughtUp(e), e)) BY <2>1, <2>2, <1>6, RepeatKeeps
  <2> QED BY <2>1, <2>3, <1>6 DEF Keeps, Complete
<1>10. CASE Declined(e)
  <2>1. InTouch(e) /\ srv' = Decline(CaughtUp(e), e) BY <1>10 DEF Declined
  <2>2. Keeps(CaughtUp(e), Decline(CaughtUp(e), e)) BY <2>1, <1>1, <1>6, DeclineKeeps
  <2> QED BY <2>1, <2>2, <1>6 DEF Keeps, Complete
<1>11. ASSUME New(e) PROVE InTouch(e) /\ Fresh(CaughtUp(e), e)
  <2>1. InTouch(e) /\ ~Exhausted(srv, e) BY <1>11 DEF New
  <2>2. Cardinality(srv.seen) \in Nat /\ ActionLimit \in Nat
    BY <1>2, FS_CardinalityType, LimitAssumption DEF Sound, Limited
  <2>3. e.id \notin srv.seen /\ Cardinality(srv.seen) < ActionLimit
    BY <2>1, <2>2 DEF Exhausted
  <2> QED BY <2>1, <2>3, <1>1, <1>6 DEF Fresh
<1>12. CASE Misbased(e)
  <2> DEFINE verdict == Rejected("SNAPSHOT_REQUIRED", BaseStateHash(srv, e))
  <2>1. New(e) /\ srv' = SendSnapshot(Reject(CaughtUp(e), e, verdict))
    BY <1>12 DEF Misbased
  <2>2. verdict \in Verdicts /\ ~verdict.accepted
    BY <1>4, <1>5 DEF Rejected, Verdict, Verdicts
  <2> HIDE DEF verdict
  <2>3. Sound(CaughtUp(e)) /\ Fresh(CaughtUp(e), e) BY <2>1, <1>6, <1>11
  <2>4. Sound(Reject(CaughtUp(e), e, verdict)) BY <2>2, <2>3, RejectKeeps DEF Keeps
  <2> QED BY <2>1, <2>4, SnapshotRecovers DEF Complete
<1>13. CASE Dispatched(e)
  <2>1. New(e) BY <1>13 DEF Dispatched
  <2>2. PICK room : srv' = Dispatch(CaughtUp(e), e, room) BY <1>13 DEF Dispatched
  <2>3. Sound(CaughtUp(e)) /\ Recovered(CaughtUp(e)) /\ Fresh(CaughtUp(e), e)
    BY <2>1, <1>6, <1>11
  <2>4. Keeps(CaughtUp(e), Dispatch(CaughtUp(e), e, room))
    BY <2>3, <1>1, DispatchKeeps
  <2> QED BY <2>2, <2>3, <2>4 DEF Keeps, Complete
<1> QED BY <1>7, <1>8, <1>9, <1>10, <1>12, <1>13 DEF HandleAction

LEMMA ConnectSound ==
    ASSUME Complete(srv), NEW epoch \in 1 .. MaxEpoch, NEW room, Connect(epoch, room)
    PROVE  Complete(srv')
<1> DEFINE b == Begin(-1)
           there == [b EXCEPT !.connected = TRUE, !.epoch = epoch]
           logged == Then(there, room, {"END_MATCH"})
           welcomed == Tell(logged, "WELCOME")
<1>1. Sound(srv) /\ Sound(b) /\ b.asked = -1 /\ b.sent = <<>>
  BY BeginFacts DEF Complete, Sound, Streaming
<1>2. /\ b \in SrvType /\ b.match = srv.match /\ b.seq = srv.seq /\ b.ring = srv.ring
      /\ b.seen = srv.seen /\ b.cache = srv.cache /\ b.applied = srv.applied
  BY <1>1 DEF Begin, Sound, SrvType
<1>3. Boarded(b) BY <1>1 DEF Sound
<1> HIDE DEF b
<1>4. /\ there \in SrvType /\ there.match = srv.match /\ there.seq = srv.seq
      /\ there.ring = srv.ring /\ there.seen = srv.seen /\ there.cache = srv.cache
      /\ there.applied = srv.applied /\ there.asked = -1 /\ there.sent = <<>>
      /\ there.epoch > 0 /\ Boarded(there)
  <2>1. epoch \in 0 .. MaxEpoch /\ epoch > 0 BY BoundAssumption
  <2>2. there.epoch = epoch /\ there.phase = b.phase /\ there.board = b.board
    BY <1>2 DEF SrvType
  <2>3. there \in SrvType BY <2>1, <1>2 DEF SrvType
  <2> QED BY <2>1, <2>2, <2>3, <1>1, <1>2, <1>3 DEF SrvType, Boarded
<1> HIDE DEF there
<1>5. Complete(there) BY <1>1, <1>4, StartSound DEF Complete
<1>6. Complete(logged)
  <2>1. {"END_MATCH"} \in SUBSET RoomMoves BY DEF RoomMoves
  <2> QED BY <2>1, <1>5, ThenKeeps DEF Complete, Keeps
<1> HIDE DEF logged
<1>7. Complete(welcomed) BY <1>6, TellKeeps DEF Complete, Keeps, EventTypes
<1> HIDE DEF welcomed
<1>8. Complete(SendSnapshot(welcomed)) BY <1>7, SnapshotRecovers DEF Complete
<1>9. Complete(RoomState(SendSnapshot(welcomed)))
  BY <1>8, RoomStateKeeps DEF Complete, Keeps
<1> QED BY <1>9 DEF Connect, welcomed, logged, there, b

LEMMA DisconnectSound ==
    ASSUME Complete(srv), NEW epoch, NEW room, Disconnect(epoch, room)
    PROVE  Complete(srv')
<1> DEFINE b == Begin(-1)
           gone == [b EXCEPT !.connected = FALSE, !.ready = FALSE]
           logged == Then(gone, room, {"END_MATCH"})
<1>1. Sound(srv) /\ Sound(b) /\ b.asked = -1 /\ b.sent = <<>>
  BY BeginFacts DEF Complete, Sound, Streaming
<1>2. /\ b \in SrvType /\ b.match = srv.match /\ b.seq = srv.seq /\ b.ring = srv.ring
      /\ b.seen = srv.seen /\ b.cache = srv.cache /\ b.applied = srv.applied
  BY <1>1 DEF Begin, Sound, SrvType
<1>3. Boarded(b) BY <1>1 DEF Sound
<1> HIDE DEF b
<1>4. /\ gone \in SrvType /\ gone.match = srv.match /\ gone.seq = srv.seq
      /\ gone.ring = srv.ring /\ gone.seen = srv.seen /\ gone.cache = srv.cache
      /\ gone.applied = srv.applied /\ gone.asked = -1 /\ gone.sent = <<>>
      /\ ~gone.connected /\ Boarded(gone)
  BY <1>1, <1>2, <1>3 DEF SrvType, Boarded
<1> HIDE DEF gone
<1>5. Complete(gone) BY <1>1, <1>4, StartSound DEF Complete
<1>6. Complete(logged)
  <2>1. {"END_MATCH"} \in SUBSET RoomMoves BY DEF RoomMoves
  <2> QED BY <2>1, <1>5, ThenKeeps DEF Complete, Keeps
<1> HIDE DEF logged
<1>7. Complete(EndMatch(logged)) /\ Complete(RoomState(logged))
  BY <1>6, EndMatchKeeps, RoomStateKeeps DEF Complete, Keeps
<1> QED BY <1>7 DEF Disconnect, logged, gone, b

LEMMA RoomActsSound ==
    ASSUME Complete(srv), NEW move \in RoomMoves, RoomActs(move)
    PROVE  Complete(srv')
<1>1. Sound(Begin(-1)) /\ Recovered(Begin(-1)) /\ MayMove(Begin(-1), move)
  BY BeginFacts DEF Complete, RoomActs
<1>2. Keeps(Begin(-1), RoomMove(Begin(-1), move)) BY <1>1, RoomMoveKeeps
<1> QED BY <1>1, <1>2 DEF RoomActs, Complete, Keeps

LEMMA DeadlineSound ==
    ASSUME Complete(srv), DeadlinePasses
    PROVE  Complete(srv')
<1> DEFINE b == Begin(-1)
           t == [b EXCEPT !.expired = TRUE]
<1>1. Sound(b) /\ Recovered(b) BY BeginFacts DEF Complete
<1> HIDE DEF b
<1>2. t \in SrvType /\ SameStream(b, t) /\ Boarded(t)
  BY <1>1 DEF Sound, SrvType, SameStream, Boarded
<1>3. Keeps(b, t) BY <1>1, <1>2, SameStreamKeeps
<1> QED BY <1>1, <1>3 DEF DeadlinePasses, Complete, Keeps, b

LEMMA NewPlayerSound == Complete(NewPlayer)
<1> DEFINE none == <<>>
           nobody == {}
           zero == [id \in ActionIds |-> 0]
           p == NewPlayer
<1>1. /\ none \in Seq(Messages) /\ none \in Seq([id : ActionIds, verdict : Verdicts])
      /\ Len(none) = 0 /\ DOMAIN none = {}
  OBVIOUS
<1>2. nobody \in SUBSET ActionIds /\ IsFiniteSet(nobody) /\ Cardinality(nobody) = 0
  BY FS_EmptySet
<1>3. zero \in [ActionIds -> Nat] /\ \A id \in ActionIds : zero[id] = 0 OBVIOUS
<1>4. p = [match |-> 1, phase |-> "LOBBY", round |-> 0, board |-> NoBoard,
           expired |-> FALSE, ready |-> FALSE, vote |-> FALSE, connected |-> FALSE,
           epoch |-> 0, seq |-> 0, ring |-> none, seen |-> nobody, cache |-> none,
           sent |-> none, asked |-> -1, applied |-> zero]
  BY DEF NewPlayer
<1> HIDE DEF none, nobody, zero, p
<1>5. /\ p.phase = "LOBBY" /\ p.connected = FALSE /\ p.epoch = 0 /\ p.seq = 0
      /\ p.ring = none /\ p.seen = nobody /\ p.cache = none /\ p.sent = none
      /\ p.asked = -1 /\ p.applied = zero
  BY <1>4
<1>6. p \in SrvType
  BY <1>1, <1>2, <1>3, <1>4, BoundAssumption DEF SrvType, Phases, Hashes
<1>7. Boarded(p) /\ Recovered(p) BY <1>5 DEF Boarded, Recovered
<1>8. Streaming(p) BY <1>1, <1>5 DEF Streaming, EndOfStream
<1>9. Limited(p) BY <1>1, <1>2, <1>5, LimitAssumption DEF Limited
<1>10. Once(p) BY <1>3, <1>5 DEF Once
<1>11. Honest(p) BY <1>1, <1>5 DEF Honest
<1> QED BY <1>6, <1>7, <1>8, <1>9, <1>10, <1>11 DEF Complete, Sound, p

Inv == Complete(srv) /\ srv.seq <= MaxSeq

LEMMA InitInv ==
    ASSUME Init
    PROVE  Inv
<1>1. srv = NewPlayer /\ NewPlayer.seq = 0 BY DEF Init, NewPlayer
<1> QED BY <1>1, NewPlayerSound, BoundAssumption DEF Inv

LEMMA NextInv ==
    ASSUME Inv, [Next]_srv
    PROVE  Inv'
<1>1. Complete(srv) BY DEF Inv
<1>2. ASSUME NEW epoch \in 1 .. MaxEpoch, NEW room, Connect(epoch, room)
      PROVE  Inv'
  BY <1>1, <1>2, ConnectSound DEF Inv, Complete, Connect, Bounded
<1>3. ASSUME NEW epoch \in 1 .. MaxEpoch, NEW room, Disconnect(epoch, room)
      PROVE  Inv'
  BY <1>1, <1>3, DisconnectSound DEF Inv, Complete, Disconnect, Bounded
<1>4. ASSUME NEW e \in Arriving, HandleAction(e)
      PROVE  Inv'
  <2>1. e.id \in ActionIds /\ e.last \in Nat /\ e.do \in Controls \cup BoardActions
    BY <1>1, ArrivingFacts DEF Complete, Sound
  <2> QED BY <2>1, <1>1, <1>4, HandleActionSound DEF Inv, Complete, HandleAction, Bounded
<1>5. ASSUME NEW move \in RoomMoves, RoomActs(move)
      PROVE  Inv'
  BY <1>1, <1>5, RoomActsSound DEF Inv, Complete, RoomActs, Bounded
<1>6. CASE DeadlinePasses
  <2>1. srv'.seq = srv.seq
    BY <1>1, <1>6 DEF DeadlinePasses, Begin, Complete, Sound, SrvType
  <2> QED BY <2>1, <1>1, <1>6, DeadlineSound DEF Inv, Complete
<1>7. CASE UNCHANGED srv
  BY <1>7 DEF Inv, Complete, Sound, Boarded, Streaming, Limited, Once, Honest, True,
     Recovered, EndOfStream
<1> QED BY <1>2, <1>3, <1>4, <1>5, <1>6, <1>7 DEF Next

(* The invariant of every behaviour.                                       *)
LEMMA InvAlways == Spec => []Inv
<1>1. Init => Inv BY InitInv
<1>2. Inv /\ [Next]_srv => Inv' BY NextInv
<1> QED BY <1>1, <1>2, PTL DEF Spec
-----------------------------------------------------------------------------
(* A player costs no more memory than the ring, cache and action limits    *)
(* allow, however many actions, duplicates, rounds and rematches there are *)
(* (Trim, Remember, Exhausted).                                            *)
THEOREM MemoryIsBounded == Spec => []TypeOK
<1>1. Inv => TypeOK BY DEF Inv, Complete, Sound, Limited, TypeOK
<1> QED BY <1>1, InvAlways, PTL

(* The ring of emitTo is at every moment the unbroken end of the stream:   *)
(* through disconnections, rematches and trimming, for any ring size.      *)
THEOREM RingHasNoHole == Spec => []RingIsSuffix
<1>1. Inv => RingIsSuffix
  BY DEF Inv, Complete, Sound, Streaming, EndOfStream, RingIsSuffix
<1> QED BY <1>1, InvAlways, PTL

(* No action takes effect twice in a match: an id stays refused after its  *)
(* result has left the cache of handleAction, whatever the cache's size.   *)
THEOREM ActionsApplyOnce == Spec => []AppliedOnce
<1>1. Inv => AppliedOnce BY DEF Inv, Complete, Sound, Once, AppliedOnce
<1> QED BY <1>1, InvAlways, PTL

(* What handleAction reports as accepted has taken effect in this match,   *)
(* in the first answer, in a repeated one and in a message sent again.     *)
THEOREM AcceptanceIsTrue == Spec => []AcceptedMeansApplied
<1>1. Inv => AcceptedMeansApplied
  BY DEF Inv, Complete, Sound, Honest, True, AcceptedMeansApplied
<1> QED BY <1>1, InvAlways, PTL

(* Whoever sends an action has, when it has been answered, been sent all   *)
(* the messages after the position he gave, or a snapshot and all after    *)
(* it: catchUp and sendSnapshot leave no gap, for any ring size.           *)
THEOREM NothingStaysMissed == Spec => []MissedEventsAreRecovered
<1>1. ASSUME Inv PROVE MissedEventsAreRecovered
  <2> DEFINE L == Len(srv.sent)
             allSent(p) == \A n \in p + 1 .. srv.seq :
                              \E i \in DOMAIN srv.sent : srv.sent[i].seq = n
  <2> SUFFICES ASSUME srv.asked >= 0
               PROVE  \/ allSent(srv.asked)
                      \/ \E i \in DOMAIN srv.sent :
                            srv.sent[i].body.type = "SNAPSHOT" /\ allSent(srv.sent[i].seq)
    BY DEF MissedEventsAreRecovered
  <2>1. Sound(srv) /\ Recovered(srv) BY <1>1 DEF Inv, Complete
  <2>2. /\ srv.sent \in Seq(Messages) /\ srv.seq \in Nat /\ srv.asked \in Int
        /\ EndOfStream(srv.seq, srv.sent)
    BY <2>1 DEF Sound, SrvType, Streaming
  <2>3. /\ L \in Nat /\ DOMAIN srv.sent = 1 .. L
        /\ \A i \in 1 .. L : srv.sent[i].seq = srv.seq - L + i
    BY <2>2 DEF EndOfStream
  <2> HIDE DEF L
  <2>4. ASSUME NEW p \in Int, srv.seq - L <= p
        PROVE  allSent(p)
    <3> SUFFICES ASSUME NEW n \in p + 1 .. srv.seq
                 PROVE  \E i \in 1 .. L : srv.sent[i].seq = n
      BY <2>3
    <3> DEFINE i == n - (srv.seq - L)
    <3>1. i \in 1 .. L /\ srv.seq - L + i = n BY <2>2, <2>3, <2>4
    <3> HIDE DEF i
    <3> QED BY <3>1, <2>3
  <2>5. ASSUME NEW i \in DOMAIN srv.sent
        PROVE  allSent(srv.sent[i].seq)
    <3>1. i \in 1 .. L BY <2>3, <2>5
    <3>2. srv.sent[i].seq = srv.seq - L + i BY <3>1, <2>3
    <3>3. srv.seq - L + i \in Int /\ srv.seq - L <= srv.seq - L + i BY <3>1, <2>2, <2>3
    <3> HIDE DEF allSent
    <3> QED BY <3>2, <3>3, <2>4
  <2> HIDE DEF allSent
  <2> QED BY <2>1, <2>2, <2>4, <2>5 DEF Recovered, L
<1> QED BY <1>1, InvAlways, PTL
-----------------------------------------------------------------------------
(* The browser.                                                              *)

(* The wire, up to message number `last`, carries `queue` to a browser     *)
(* that has processed `seen` messages.                                     *)
Carries(wire, last, seen, queue) ==
    /\ wire \in Seq(Messages) /\ queue \in Seq(Bodies)
    /\ seen \in Nat /\ last = seen + Len(queue)
    /\ \A k \in DOMAIN wire : wire[k].seq <= last
    /\ last = seen \/ \E k \in DOMAIN wire : wire[k].seq = last
    /\ \A k \in DOMAIN wire :
          \/ wire[k].seq <= seen + 1
          \/ \E j \in DOMAIN wire : j < k /\ wire[j].seq >= wire[k].seq - 1
    /\ \A k \in DOMAIN wire :
          wire[k].seq > seen /\ (\A j \in DOMAIN wire : j < k => wire[j].seq < wire[k].seq)
             => wire[k].body = queue[wire[k].seq - seen]

LEMMA MessageFacts ==
    ASSUME NEW m \in Messages
    PROVE  m.seq \in Nat /\ m.seq >= 1 /\ m.body \in Bodies
BY DEF Messages

LEMMA WireFacts ==
    ASSUME NEW wire \in Seq(Messages)
    PROVE  /\ Len(wire) \in Nat /\ DOMAIN wire = 1 .. Len(wire)
           /\ \A k \in 1 .. Len(wire) :
                wire[k] \in Messages /\ wire[k].seq \in Nat /\ wire[k].body \in Bodies
BY MessageFacts

(* A new message lengthens the queue.                                      *)
LEMMA CarriesNew ==
    ASSUME NEW wire, NEW last, NEW seen, NEW queue, Carries(wire, last, seen, queue),
           NEW body \in Bodies
    PROVE  Carries(Append(wire, [seq |-> last + 1, body |-> body]), last + 1, seen,
                   Append(queue, body))
<1> DEFINE m == [seq |-> last + 1, body |-> body]
           w == Append(wire, m)
           q == Append(queue, body)
           L == Len(wire)
           Q == Len(queue)
<1>1. /\ wire \in Seq(Messages) /\ queue \in Seq(Bodies) /\ seen \in Nat
      /\ last = seen + Q /\ L \in Nat /\ Q \in Nat /\ last \in Nat
      /\ DOMAIN wire = 1 .. L /\ \A k \in 1 .. L : wire[k].seq \in Nat
  BY WireFacts DEF Carries
<1>2. m \in Messages /\ m.seq = last + 1 /\ m.body = body BY <1>1 DEF Messages
<1> HIDE DEF m
<1>3. /\ w \in Seq(Messages) /\ Len(w) = L + 1 /\ DOMAIN w = 1 .. L + 1
      /\ w[L + 1] = m /\ \A k \in 1 .. L : w[k] = wire[k]
  <2>1. /\ w \in Seq(Messages) /\ Len(w) = L + 1
        /\ w[L + 1] = m /\ \A k \in 1 .. L : w[k] = wire[k]
    BY <1>1, <1>2, AppendProperties
  <2> QED BY <2>1
<1>4. /\ q \in Seq(Bodies) /\ Len(q) = Q + 1
      /\ q[Q + 1] = body /\ \A n \in 1 .. Q : q[n] = queue[n]
  BY <1>1, AppendProperties
<1> HIDE DEF w, q, L, Q
<1>5. \A k \in 1 .. L + 1 : k \in 1 .. L \/ k = L + 1 BY <1>1
<1>6. \A k \in 1 .. L : wire[k].seq <= last /\ k < L + 1
  <2>1. \A k \in DOMAIN wire : wire[k].seq <= last BY DEF Carries
  <2> QED BY <1>1, <2>1
<1>7. \A k \in DOMAIN w : w[k].seq <= last + 1
  BY <1>1, <1>2, <1>3, <1>5, <1>6
<1>8. \E k \in DOMAIN w : w[k].seq = last + 1
  BY <1>1, <1>2, <1>3
<1>9. ASSUME NEW k \in DOMAIN w
      PROVE  \/ w[k].seq <= seen + 1
             \/ \E j \in DOMAIN w : j < k /\ w[j].seq >= w[k].seq - 1
  <2>1. CASE k = L + 1
    <3>1. CASE last = seen BY <1>1, <1>2, <1>3, <2>1, <3>1
    <3>2. CASE last # seen
      <4>1. PICK j \in 1 .. L : wire[j].seq = last
        BY <1>1, <3>2 DEF Carries
      <4>2. j \in DOMAIN w /\ j < k /\ w[j].seq = last BY <1>1, <1>3, <2>1, <4>1
      <4>3. w[k].seq - 1 = last BY <1>1, <1>2, <1>3, <2>1
      <4> QED BY <1>1, <4>2, <4>3
    <3> QED BY <3>1, <3>2
  <2>2. CASE k \in 1 .. L
    <3>1. \/ wire[k].seq <= seen + 1
          \/ \E j \in 1 .. L : j < k /\ wire[j].seq >= wire[k].seq - 1
      BY <1>1, <2>2 DEF Carries
    <3>2. w[k] = wire[k] BY <1>3, <2>2
    <3>3. \A j \in 1 .. L : j \in DOMAIN w /\ w[j] = wire[j] BY <1>1, <1>3
    <3> QED BY <3>1, <3>2, <3>3
  <2> QED BY <1>3, <1>5, <2>1, <2>2
<1>10. ASSUME NEW k \in DOMAIN w, w[k].seq > seen,
              \A j \in DOMAIN w : j < k => w[j].seq < w[k].seq
       PROVE  w[k].body = q[w[k].seq - seen]
  <2>1. CASE k = L + 1
    <3>1. w[k].seq - seen = Q + 1 BY <1>1, <1>2, <1>3, <2>1
    <3> QED BY <3>1, <1>2, <1>3, <1>4, <2>1
  <2>2. CASE k \in 1 .. L
    <3>1. wire[k].seq > seen /\ \A j \in DOMAIN wire : j < k => wire[j].seq < wire[k].seq
      BY <1>1, <1>3, <1>10, <2>2
    <3>2. wire[k].body = queue[wire[k].seq - seen]
      BY <1>1, <2>2, <3>1 DEF Carries
    <3>3. wire[k].seq - seen \in 1 .. Q
      BY <1>1, <1>6, <2>2, <3>1
    <3> QED BY <1>3, <1>4, <2>2, <3>2, <3>3
  <2> QED BY <1>3, <1>5, <2>1, <2>2
<1>11. last + 1 = seen + Len(q) BY <1>1, <1>4
<1> QED BY <1>1, <1>3, <1>4, <1>7, <1>8, <1>9, <1>10, <1>11 DEF Carries, w, q, m

(* What is sent again does not change the queue.                           *)
LEMMA CarriesAgain ==
    ASSUME NEW wire, NEW last, NEW seen, NEW queue, Carries(wire, last, seen, queue),
           NEW old \in Seq(Messages), \A i \in DOMAIN old : old[i].seq <= last
    PROVE  Carries(wire \o old, last, seen, queue)
<1> DEFINE w == wire \o old
           L == Len(wire)
           O == Len(old)
<1>1. /\ wire \in Seq(Messages) /\ queue \in Seq(Bodies) /\ seen \in Nat
      /\ last = seen + Len(queue) /\ L \in Nat /\ O \in Nat /\ Len(queue) \in Nat /\ last \in Nat
      /\ DOMAIN wire = 1 .. L /\ DOMAIN old = 1 .. O
      /\ \A k \in 1 .. L : wire[k].seq \in Nat
      /\ \A k \in 1 .. O : old[k].seq \in Nat /\ old[k].seq <= last
  <2>1. /\ wire \in Seq(Messages) /\ queue \in Seq(Bodies) /\ seen \in Nat
        /\ last = seen + Len(queue)
    BY DEF Carries
  <2>2. /\ L \in Nat /\ DOMAIN wire = 1 .. L /\ \A k \in 1 .. L : wire[k].seq \in Nat
    BY <2>1, WireFacts
  <2>3. /\ O \in Nat /\ DOMAIN old = 1 .. O /\ \A k \in 1 .. O : old[k].seq \in Nat
    BY WireFacts
  <2>4. Len(queue) \in Nat /\ last \in Nat BY <2>1
  <2> HIDE DEF L, O
  <2>5. \A k \in 1 .. O : old[k].seq <= last BY <2>3
  <2> QED BY <2>1, <2>2, <2>3, <2>4, <2>5
<1>2. /\ w \in Seq(Messages) /\ Len(w) = L + O /\ DOMAIN w = 1 .. L + O
      /\ \A k \in 1 .. L + O : w[k] = IF k <= L THEN wire[k] ELSE old[k - L]
  BY <1>1, ConcatProperties
<1> HIDE DEF w, L, O
<1>3. \A k \in 1 .. L + O : \/ k \in 1 .. L /\ w[k] = wire[k]
                            \/ k > L /\ k - L \in 1 .. O /\ w[k] = old[k - L]
  BY <1>1, <1>2
<1>4. \A k \in 1 .. L : k \in DOMAIN w /\ w[k] = wire[k]
  BY <1>1, <1>2
<1>5. \A k \in DOMAIN w : w[k].seq <= last
  BY <1>1, <1>2, <1>3 DEF Carries
<1>6. last = seen \/ \E k \in DOMAIN w : w[k].seq = last
  BY <1>1, <1>4 DEF Carries
<1>7. ASSUME NEW k \in DOMAIN w
      PROVE  /\ \/ w[k].seq <= seen + 1
                \/ \E j \in DOMAIN w : j < k /\ w[j].seq >= w[k].seq - 1
             /\ w[k].seq > seen /\ (\A j \in DOMAIN w : j < k => w[j].seq < w[k].seq)
                  => w[k].body = queue[w[k].seq - seen]
  <2>1. CASE k \in 1 .. L /\ w[k] = wire[k]
    <3>1. \/ wire[k].seq <= seen + 1
          \/ \E j \in 1 .. L : j < k /\ wire[j].seq >= wire[k].seq - 1
      BY <1>1, <2>1 DEF Carries
    <3>2. wire[k].seq > seen /\ (\A j \in 1 .. L : j < k => wire[j].seq < wire[k].seq)
            => wire[k].body = queue[wire[k].seq - seen]
      BY <1>1, <2>1 DEF Carries
    <3> QED BY <1>4, <2>1, <3>1, <3>2
  <2>2. CASE k > L /\ k - L \in 1 .. O /\ w[k] = old[k - L]
    <3>1. w[k].seq \in Nat /\ w[k].seq <= last BY <1>1, <2>2
    <3>2. CASE last = seen BY <1>1, <3>1, <3>2
    <3>3. CASE last # seen
      <4>1. PICK j \in 1 .. L : wire[j].seq = last
        BY <1>1, <3>3 DEF Carries
      <4>2. j \in DOMAIN w /\ j < k /\ w[j].seq = last
        <5>1. j < k
          <6>1. j <= L /\ j \in Int /\ k \in Int BY <1>1, <1>2, <4>1, <1>7
          <6> QED BY <6>1, <1>1, <2>2
        <5> QED BY <1>4, <4>1, <5>1
      <4> QED BY <1>1, <3>1, <4>2
    <3> QED BY <3>2, <3>3
  <2> QED BY <1>2, <1>3, <2>1, <2>2
<1> QED BY <1>1, <1>2, <1>5, <1>6, <1>7 DEF Carries, w

(* The next message is one already processed, or the head of the queue.    *)
LEMMA CarriesNext ==
    ASSUME NEW wire, NEW last, NEW seen, NEW queue, Carries(wire, last, seen, queue),
           wire # <<>>
    PROVE  /\ Head(wire) \in Messages
           /\ \/ /\ Head(wire).seq <= seen
                 /\ Carries(Tail(wire), last, seen, queue)
              \/ /\ Head(wire).seq = seen + 1 /\ queue # <<>>
                 /\ Head(wire).body = Head(queue)
                 /\ Carries(Tail(wire), last, seen + 1, Tail(queue))
<1> DEFINE m == Head(wire)
           w == Tail(wire)
           L == Len(wire)
           Q == Len(queue)
<1>1. /\ wire \in Seq(Messages) /\ queue \in Seq(Bodies) /\ seen \in Nat
      /\ last = seen + Q /\ L \in Nat /\ Q \in Nat /\ last \in Nat
      /\ DOMAIN wire = 1 .. L
      /\ \A k \in 1 .. L : wire[k] \in Messages /\ wire[k].seq \in Nat
  <2>1. /\ wire \in Seq(Messages) /\ queue \in Seq(Bodies) /\ seen \in Nat
        /\ last = seen + Q
    BY DEF Carries
  <2>2. /\ L \in Nat /\ DOMAIN wire = 1 .. L
        /\ \A k \in 1 .. L : wire[k] \in Messages /\ wire[k].seq \in Nat
    BY <2>1, WireFacts
  <2>3. Q \in Nat BY <2>1
  <2> HIDE DEF L, Q
  <2> QED BY <2>1, <2>2, <2>3
<1>2. /\ L >= 1 /\ m = wire[1] /\ 1 \in 1 .. L
      /\ w \in Seq(Messages) /\ Len(w) = L - 1 /\ DOMAIN w = 1 .. L - 1
      /\ \A k \in 1 .. L - 1 : w[k] = wire[k + 1] /\ k + 1 \in 1 .. L
  <2>1. /\ m = wire[1] /\ w \in Seq(Messages) /\ Len(w) = L - 1
        /\ \A k \in 1 .. Len(w) : w[k] = wire[k + 1]
    BY <1>1, HeadTailProperties
  <2>2. L >= 1 BY <1>1
  <2> HIDE DEF w, L
  <2> QED BY <1>1, <2>1, <2>2
<1> HIDE DEF m, w, L, Q
<1>3. m \in Messages /\ m.seq \in Nat /\ m.seq <= seen + 1 /\ m.seq <= last
  <2>1. ~ \E j \in 1 .. L : j < 1 BY <1>1
  <2> QED BY <1>1, <1>2, <2>1 DEF Carries
<1>4. \A j \in 1 .. L : j = 1 \/ (j - 1 \in 1 .. L - 1 /\ w[j - 1] = wire[j])
  <2> SUFFICES ASSUME NEW j \in 1 .. L, j # 1
               PROVE  j - 1 \in 1 .. L - 1 /\ w[j - 1] = wire[j]
    OBVIOUS
  <2>1. j - 1 \in 1 .. L - 1 /\ (j - 1) + 1 = j BY <1>1, <1>2
  <2>2. w[j - 1] = wire[(j - 1) + 1] BY <1>2, <2>1
  <2> QED BY <2>1, <2>2
<1>5. \A k \in DOMAIN w : w[k].seq \in Nat /\ w[k].seq <= last
  BY <1>1, <1>2 DEF Carries
<1>6. ASSUME NEW k \in DOMAIN w
      PROVE  \/ w[k].seq <= seen + 1
             \/ m.seq >= w[k].seq - 1
             \/ \E j \in DOMAIN w : j < k /\ w[j].seq >= w[k].seq - 1
  <2>1. k \in 1 .. L - 1 /\ k + 1 \in 1 .. L /\ w[k] = wire[k + 1] BY <1>2, <1>6
  <2>2. CASE wire[k + 1].seq <= seen + 1 BY <2>1, <2>2
  <2>3. CASE \E j \in 1 .. L : j < k + 1 /\ wire[j].seq >= wire[k + 1].seq - 1
    <3>1. PICK j \in 1 .. L : j < k + 1 /\ wire[j].seq >= wire[k + 1].seq - 1
      BY <2>3
    <3>2. CASE j = 1 BY <1>2, <2>1, <3>1, <3>2
    <3>3. CASE j - 1 \in 1 .. L - 1 /\ w[j - 1] = wire[j]
      <4>1. j - 1 \in DOMAIN w /\ j - 1 < k /\ w[j - 1].seq >= w[k].seq - 1
        BY <1>1, <1>2, <2>1, <3>1, <3>3
      <4> QED BY <4>1
    <3> QED BY <1>4, <3>2, <3>3
  <2> QED BY <1>1, <2>1, <2>2, <2>3 DEF Carries
<1>7. ASSUME NEW k \in DOMAIN w, w[k].seq > seen, w[k].seq > m.seq,
             \A j \in DOMAIN w : j < k => w[j].seq < w[k].seq
      PROVE  w[k].body = queue[w[k].seq - seen]
  <2>1. k \in 1 .. L - 1 /\ k + 1 \in 1 .. L /\ w[k] = wire[k + 1] BY <1>2, <1>7
  <2>2. ASSUME NEW j \in DOMAIN wire, j < k + 1
        PROVE  wire[j].seq < wire[k + 1].seq
    <3>1. CASE j = 1 BY <1>2, <1>7, <2>1, <3>1
    <3>2. CASE j - 1 \in 1 .. L - 1 /\ w[j - 1] = wire[j]
      <4>1. j - 1 \in DOMAIN w /\ j - 1 < k BY <1>1, <1>2, <2>1, <2>2, <3>2
      <4>2. w[j - 1].seq < w[k].seq BY <1>7, <4>1
      <4> QED BY <2>1, <3>2, <4>2
    <3> QED BY <1>1, <1>4, <3>1, <3>2
  <2>3. wire[k + 1].body = queue[wire[k + 1].seq - seen]
    BY <1>1, <1>7, <2>1, <2>2 DEF Carries
  <2> QED BY <2>1, <2>3
<1>8. last = seen \/ last = m.seq \/ \E k \in DOMAIN w : w[k].seq = last
  <2>1. CASE \E k \in 1 .. L : wire[k].seq = last
    <3>1. PICK k \in 1 .. L : wire[k].seq = last BY <2>1
    <3>2. k = 1 \/ (k - 1 \in DOMAIN w /\ w[k - 1] = wire[k]) BY <1>2, <1>4
    <3> QED BY <1>2, <3>1, <3>2
  <2> QED BY <1>1, <2>1 DEF Carries
<1>9. CASE m.seq <= seen
  <2>1. last = seen \/ \E k \in DOMAIN w : w[k].seq = last
    <3>1. last = m.seq => last = seen BY <1>1, <1>3, <1>9
    <3> QED BY <1>8, <3>1
  <2>2. \A k \in DOMAIN w : \/ w[k].seq <= seen + 1
                            \/ \E j \in DOMAIN w : j < k /\ w[j].seq >= w[k].seq - 1
    BY <1>1, <1>3, <1>5, <1>6, <1>9
  <2>3. \A k \in DOMAIN w :
          w[k].seq > seen /\ (\A j \in DOMAIN w : j < k => w[j].seq < w[k].seq)
             => w[k].body = queue[w[k].seq - seen]
    <3> SUFFICES ASSUME NEW k \in DOMAIN w, w[k].seq > seen,
                        \A j \in DOMAIN w : j < k => w[j].seq < w[k].seq
                 PROVE  w[k].body = queue[w[k].seq - seen]
      OBVIOUS
    <3>1. w[k].seq \in Nat BY <1>5
    <3>2. w[k].seq > m.seq BY <1>1, <1>3, <1>9, <3>1
    <3> QED BY <1>7, <3>2
  <2>4. last = seen + Len(queue) BY <1>1 DEF Q
  <2>5. Carries(w, last, seen, queue)
    BY <1>1, <1>2, <1>5, <2>1, <2>2, <2>3, <2>4 DEF Carries
  <2> QED BY <1>3, <1>9, <2>5 DEF w, m
<1>10. CASE m.seq = seen + 1
  <2> DEFINE q == Tail(queue)
  <2>1. Q >= 1 BY <1>1, <1>3, <1>10
  <2>2. queue # <<>> BY <2>1 DEF Q
  <2>3. /\ Head(queue) = queue[1] /\ q \in Seq(Bodies) /\ Len(q) = Q - 1
        /\ \A n \in 1 .. Q - 1 : q[n] = queue[n + 1]
    <3>1. /\ Head(queue) = queue[1] /\ q \in Seq(Bodies) /\ Len(q) = Len(queue) - 1
          /\ \A n \in 1 .. Len(q) : q[n] = queue[n + 1]
      BY <1>1, <2>2, HeadTailProperties
    <3> HIDE DEF q
    <3> QED BY <3>1 DEF Q
  <2> HIDE DEF q
  <2>4. m.body = Head(queue)
    <3>1. \A j \in DOMAIN wire : ~(j < 1) BY <1>1
    <3>2. wire[1].body = queue[wire[1].seq - seen]
      <4>1. 1 \in DOMAIN wire BY <1>1, <1>2
      <4>2. wire[1].seq > seen BY <1>1, <1>2, <1>10
      <4>3. \A j \in DOMAIN wire : j < 1 => wire[j].seq < wire[1].seq BY <3>1
      <4> QED BY <4>1, <4>2, <4>3 DEF Carries
    <3>3. wire[1].seq - seen = 1 BY <1>1, <1>2, <1>10
    <3> QED BY <1>2, <2>3, <3>2, <3>3
  <2>5. last = seen + 1 \/ \E k \in DOMAIN w : w[k].seq = last
    <3>1. last # seen BY <1>1, <1>3, <1>10
    <3> QED BY <1>8, <1>10, <3>1
  <2>6. \A k \in DOMAIN w : \/ w[k].seq <= seen + 1 + 1
                            \/ \E j \in DOMAIN w : j < k /\ w[j].seq >= w[k].seq - 1
    <3> TAKE k \in DOMAIN w
    <3>1. w[k].seq \in Nat BY <1>5
    <3>2. w[k].seq <= seen + 1 \/ m.seq >= w[k].seq - 1 => w[k].seq <= seen + 1 + 1
      BY <1>1, <1>10, <3>1
    <3> QED BY <1>6, <3>2
  <2>7. \A k \in DOMAIN w :
          w[k].seq > seen + 1 /\ (\A j \in DOMAIN w : j < k => w[j].seq < w[k].seq)
             => w[k].body = q[w[k].seq - (seen + 1)]
    <3> SUFFICES ASSUME NEW k \in DOMAIN w, w[k].seq > seen + 1,
                        \A j \in DOMAIN w : j < k => w[j].seq < w[k].seq
                 PROVE  w[k].body = q[w[k].seq - (seen + 1)]
      OBVIOUS
    <3>1. w[k].seq \in Nat /\ w[k].seq <= last BY <1>5
    <3>2. w[k].body = queue[w[k].seq - seen] BY <1>1, <1>7, <1>10, <3>1
    <3> DEFINE n == w[k].seq - (seen + 1)
    <3>3. n \in 1 .. Q - 1 /\ n + 1 = w[k].seq - seen BY <1>1, <3>1
    <3> HIDE DEF n
    <3>4. q[n] = queue[n + 1] BY <2>3, <3>3
    <3> QED BY <3>2, <3>3, <3>4 DEF n
  <2>8. seen + 1 \in Nat /\ last = seen + 1 + Len(q) BY <1>1, <2>1, <2>3
  <2>9. Carries(w, last, seen + 1, q)
    BY <1>1, <1>2, <1>5, <2>3, <2>5, <2>6, <2>7, <2>8 DEF Carries
  <2> QED BY <1>3, <1>10, <2>2, <2>4, <2>9 DEF q, m, w
<1> QED BY <1>1, <1>3, <1>9, <1>10 DEF m
-----------------------------------------------------------------------------
(* What the browser knows of its pending actions.                          *)

(* The first action was made on a board that had not been opened: the room *)
(* does not take it.                                                       *)
FirstUnopened(c) ==
    \A p \in c.pending : (\A q \in c.pending : p.id <= q.id) => p.pre \notin Opened

(* The copy is what the last action left.                                  *)
LastPlayed(c) ==
    \A p \in c.pending : (\A q \in c.pending : q.id <= p.id) => c.game = p.optimistic

(* Whatever has been played so far was played before the opening.          *)
Unopened(c) ==
    \/ c.snap
    \/ IF c.pending = {} THEN c.game \notin Opened ELSE FirstUnopened(c)

Actions == [id : Nat, pre : Hashes, optimistic : Hashes]
CliType ==
    [game : Hashes, pending : SUBSET Actions, snap : BOOLEAN, processed : Nat,
     phase : UiPhases, match : 1 .. MaxMatch, count : Nat, failed : BOOLEAN,
     ui : [phase : UiPhases, match : 1 .. MaxMatch, processed : Nat]]

CliSound(c) ==
    /\ c \in CliType
    /\ IsFiniteSet(c.pending) /\ ~c.failed
    /\ \A p \in c.pending : p.id <= c.count
    /\ c.snap \/ FirstUnopened(c) \/ LastPlayed(c)

Marks == [window : BOOLEAN, answers : Nat, owed : BOOLEAN]

(* A result that the browser will find to agree with its action.           *)
Agrees(p, verdict) ==
    CASE verdict.reconcile = "NONE" -> verdict.hash = p.optimistic /\ p.pre \in Opened
      [] verdict.reconcile = "ROLLBACK" -> verdict.hash = p.pre
      [] OTHER -> TRUE

(* The body b leads from the mark x to the mark y.                         *)
Follows(b, x, y, c) ==
    /\ x.owed => b.type = "SNAPSHOT"
    /\ b.type = "ROUND_ACTIVE" => x.window
    /\ b.type = "COUNTDOWN" => b.round \in 1 .. MaxRound
    /\ y.window => \/ b.type = "COUNTDOWN"
                   \/ /\ x.window /\ b.type \notin {"ROUND_ACTIVE", "REMATCH_STARTED"}
                      /\ b.type = "SNAPSHOT" => b.board \in Boards \ Opened
    /\ IF b.type = "ACTION_RESULT"
       THEN /\ b.id = x.answers + 1 /\ y.answers = b.id /\ b.id <= c.count
            /\ b.verdict.reconcile # "NONE" => y.owed
            /\ \A p \in c.pending : p.id = b.id => Agrees(p, b.verdict)
       ELSE y.answers = x.answers

(* The browser stands at the mark x.                                       *)
Fits(c, x) ==
    /\ c.snap => x.owed
    /\ x.window => Unopened(c)
    /\ x.answers <= c.count
    /\ \A p \in c.pending : p.id > x.answers

(* The room stands at the mark x, as far as it matters.                    *)
Covers(mark, x) ==
    (x.window => mark.window) /\ mark.answers = x.answers /\ mark.owed = x.owed

Joined(last, wire, c, x) ==
    \E queue \in Seq(Bodies), marks \in [Nat -> Marks] :
        /\ Carries(wire, last, c.processed, queue)
        /\ \A i \in 1 .. Len(queue) : Follows(queue[i], marks[i], marks[i + 1], c)
        /\ Fits(c, marks[1])
        /\ Covers(marks[Len(queue) + 1], x)

(* The room emits one more body.                                           *)
LEMMA JoinedNew ==
    ASSUME NEW last, NEW wire, NEW c, NEW x \in Marks, Joined(last, wire, c, x),
           NEW body \in Bodies, NEW y \in Marks, Follows(body, x, y, c)
    PROVE  Joined(last + 1, Append(wire, [seq |-> last + 1, body |-> body]), c, y)
<1>1. PICK queue \in Seq(Bodies), marks \in [Nat -> Marks] :
        /\ Carries(wire, last, c.processed, queue)
        /\ \A i \in 1 .. Len(queue) : Follows(queue[i], marks[i], marks[i + 1], c)
        /\ Fits(c, marks[1])
        /\ Covers(marks[Len(queue) + 1], x)
  BY DEF Joined
<1> DEFINE L == Len(queue)
           w == Append(wire, [seq |-> last + 1, body |-> body])
           q == Append(queue, body)
           m == [i \in Nat |-> IF i = L + 2 THEN y ELSE marks[i]]
<1>2. L \in Nat BY <1>1
<1>3. /\ q \in Seq(Bodies) /\ Len(q) = L + 1
      /\ q[L + 1] = body /\ \A i \in 1 .. L : q[i] = queue[i]
  BY AppendProperties
<1>4. Carries(w, last + 1, c.processed, q) BY <1>1, CarriesNew
<1> HIDE DEF L, w, q
<1>5. /\ m \in [Nat -> Marks] /\ m[L + 2] = y
      /\ \A i \in Nat : i # L + 2 => m[i] = marks[i]
  BY <1>2
<1> HIDE DEF m
<1>6. Follows(body, marks[L + 1], y, c)
  BY <1>1 DEF Follows, Covers, L
<1>7. ASSUME NEW i \in 1 .. L + 1
      PROVE  Follows(q[i], m[i], m[i + 1], c)
  <2>1. CASE i = L + 1
    <3>1. i + 1 = L + 2 /\ i # L + 2 /\ i \in Nat BY <1>2, <2>1
    <3>2. q[i] = body /\ m[i] = marks[L + 1] /\ m[i + 1] = y BY <1>3, <1>5, <2>1, <3>1
    <3> QED BY <1>6, <3>2
  <2>2. CASE i # L + 1
    <3>1. i \in 1 .. L /\ i \in Nat /\ i + 1 \in Nat /\ i # L + 2 /\ i + 1 # L + 2
      BY <1>2, <2>2
    <3>2. q[i] = queue[i] /\ m[i] = marks[i] /\ m[i + 1] = marks[i + 1] BY <1>3, <1>5, <3>1
    <3> QED BY <1>1, <3>1, <3>2 DEF L
  <2> QED BY <2>1, <2>2
<1>8. m[1] = marks[1]
  <2>1. 1 \in Nat /\ 1 # L + 2 BY <1>2
  <2> QED BY <1>5, <2>1
<1>9. Len(q) + 1 = L + 2 BY <1>2, <1>3
<1>10. Covers(m[Len(q) + 1], y) BY <1>5, <1>9 DEF Covers
<1> QED BY <1>1, <1>3, <1>4, <1>5, <1>7, <1>8, <1>10 DEF Joined, w

(* The room sends again what it has sent before.                           *)
LEMMA JoinedAgain ==
    ASSUME NEW last, NEW wire, NEW c, NEW x, Joined(last, wire, c, x),
           NEW old \in Seq(Messages), \A i \in DOMAIN old : old[i].seq <= last
    PROVE  Joined(last, wire \o old, c, x)
BY CarriesAgain DEF Joined

(* The room's mark may only weaken.                                        *)
LEMMA JoinedCovers ==
    ASSUME NEW last, NEW wire, NEW c, NEW x, Joined(last, wire, c, x),
           NEW y, Covers(x, y)
    PROVE  Joined(last, wire, c, y)
BY DEF Joined, Covers

(* The browser moves without a message.                                    *)
LEMMA JoinedClient ==
    ASSUME NEW last, NEW wire, NEW c, NEW x, Joined(last, wire, c, x), NEW d,
           d.processed = c.processed, c.count <= d.count, c.count \in Nat, d.count \in Nat,
           \A p \in d.pending : p \in c.pending \/ p.id = c.count + 1,
           \A mark \in Marks : Fits(c, mark) => Fits(d, mark)
    PROVE  Joined(last, wire, d, x)
<1>1. PICK queue \in Seq(Bodies), marks \in [Nat -> Marks] :
        /\ Carries(wire, last, c.processed, queue)
        /\ \A i \in 1 .. Len(queue) : Follows(queue[i], marks[i], marks[i + 1], c)
        /\ Fits(c, marks[1])
        /\ Covers(marks[Len(queue) + 1], x)
  BY DEF Joined
<1>2. ASSUME NEW b, NEW m \in Marks, NEW n, Follows(b, m, n, c)
      PROVE  Follows(b, m, n, d)
  <2>1. CASE b.type # "ACTION_RESULT" BY <1>2, <2>1 DEF Follows
  <2>2. CASE b.type = "ACTION_RESULT"
    <3>1. /\ b.id = m.answers + 1 /\ m.answers \in Nat /\ b.id <= c.count
          /\ \A p \in c.pending : p.id = b.id => Agrees(p, b.verdict)
      BY <1>2, <2>2 DEF Follows, Marks
    <3>2. b.id <= d.count /\ b.id # c.count + 1 BY <3>1
    <3>3. \A p \in d.pending : p.id = b.id => Agrees(p, b.verdict) BY <3>1, <3>2
    <3> QED BY <1>2, <2>2, <3>2, <3>3 DEF Follows
  <2> QED BY <2>1, <2>2
<1>3. \A i \in 1 .. Len(queue) : i \in Nat /\ marks[i] \in Marks
  BY <1>1
<1>4. Fits(d, marks[1]) BY <1>1
<1>5. \A i \in 1 .. Len(queue) : Follows(queue[i], marks[i], marks[i + 1], d)
  BY <1>1, <1>2, <1>3
<1> QED BY <1>1, <1>4, <1>5 DEF Joined

(* The browser takes the next message: it is old, or it leads on.          *)
LEMMA JoinedNext ==
    ASSUME NEW last, NEW wire, NEW c, NEW x, Joined(last, wire, c, x), wire # <<>>
    PROVE  LET m == Head(wire) IN
           /\ m \in Messages
           /\ \/ m.seq <= c.processed /\ Joined(last, Tail(wire), c, x)
              \/ /\ m.seq = c.processed + 1
                 /\ \E y, z \in Marks :
                      /\ Fits(c, y) /\ Follows(m.body, y, z, c)
                      /\ \A d : /\ d.processed = m.seq /\ d.count = c.count
                                /\ d.pending \subseteq c.pending /\ Fits(d, z)
                                => Joined(last, Tail(wire), d, x)
<1> DEFINE m == Head(wire)
           w == Tail(wire)
<1>1. PICK queue \in Seq(Bodies), marks \in [Nat -> Marks] :
        /\ Carries(wire, last, c.processed, queue)
        /\ \A i \in 1 .. Len(queue) : Follows(queue[i], marks[i], marks[i + 1], c)
        /\ Fits(c, marks[1])
        /\ Covers(marks[Len(queue) + 1], x)
  BY DEF Joined
<1>2. /\ m \in Messages
      /\ \/ m.seq <= c.processed /\ Carries(w, last, c.processed, queue)
         \/ /\ m.seq = c.processed + 1 /\ queue # <<>> /\ m.body = Head(queue)
            /\ Carries(w, last, c.processed + 1, Tail(queue))
  BY <1>1, CarriesNext
<1> HIDE DEF m, w
<1>3. CASE m.seq <= c.processed /\ Carries(w, last, c.processed, queue)
  <2>1. Joined(last, w, c, x) BY <1>1, <1>3 DEF Joined
  <2> QED BY <1>2, <1>3, <2>1 DEF m, w
<1>4. CASE /\ m.seq = c.processed + 1 /\ queue # <<>> /\ m.body = Head(queue)
           /\ Carries(w, last, c.processed + 1, Tail(queue))
  <2> DEFINE L == Len(queue)
             q == Tail(queue)
             n == [i \in Nat |-> marks[i + 1]]
  <2>1. L \in Nat /\ L >= 1 BY <1>4
  <2>2. /\ Head(queue) = queue[1] /\ q \in Seq(Bodies) /\ Len(q) = L - 1
        /\ \A i \in 1 .. L - 1 : q[i] = queue[i + 1]
    <3>1. /\ Head(queue) = queue[1] /\ q \in Seq(Bodies) /\ Len(q) = L - 1
          /\ \A i \in 1 .. Len(q) : q[i] = queue[i + 1]
      BY <1>4, HeadTailProperties
    <3> HIDE DEF q, L
    <3> QED BY <3>1
  <2> HIDE DEF L, q
  <2>3. n \in [Nat -> Marks] /\ \A i \in Nat : n[i] = marks[i + 1] OBVIOUS
  <2> HIDE DEF n
  <2>4. ASSUME NEW d, d.processed = m.seq, d.count = c.count,
               d.pending \subseteq c.pending, Fits(d, marks[2])
        PROVE  Joined(last, w, d, x)
    <3>1. ASSUME NEW b, NEW mark, NEW next, Follows(b, mark, next, c)
          PROVE  Follows(b, mark, next, d)
      BY <2>4, <3>1 DEF Follows
    <3>2. ASSUME NEW i \in 1 .. L - 1
          PROVE  Follows(q[i], n[i], n[i + 1], d)
      <4>1. i \in Nat /\ i + 1 \in Nat /\ i + 1 \in 1 .. L BY <2>1
      <4>2. Follows(queue[i + 1], marks[i + 1], marks[i + 1 + 1], d)
        BY <1>1, <3>1, <4>1 DEF L
      <4>3. q[i] = queue[i + 1] /\ n[i] = marks[i + 1] /\ n[i + 1] = marks[i + 1 + 1]
        BY <2>2, <2>3, <4>1
      <4> QED BY <4>2, <4>3
    <3>3. n[1] = marks[2] /\ n[Len(q) + 1] = marks[L + 1]
      <4>1. 1 + 1 = 2 /\ Len(q) + 1 = L /\ 1 \in Nat BY <2>1, <2>2
      <4> QED BY <2>1, <2>3, <4>1
    <3>4. Carries(w, last, d.processed, q) BY <1>4, <2>4 DEF q
    <3> QED BY <1>1, <2>2, <2>3, <2>4, <3>2, <3>3, <3>4 DEF Joined, L
  <2>5. Follows(m.body, marks[1], marks[2], c)
    <3>1. 1 \in 1 .. L /\ 1 + 1 = 2 BY <2>1
    <3> QED BY <1>1, <1>4, <2>2, <3>1 DEF L
  <2>6. marks[1] \in Marks /\ marks[2] \in Marks BY <1>1
  <2> QED BY <1>1, <1>2, <1>4, <2>4, <2>5, <2>6 DEF m, w
<1> QED BY <1>2, <1>3, <1>4
-----------------------------------------------------------------------------
(* The browser takes a message.                                            *)

LEMMA BodyFacts ==
    ASSUME NEW b \in Bodies
    PROVE  /\ b.type \in EventTypes \cup {"SNAPSHOT", "ACTION_RESULT"}
           /\ b.match \in 1 .. MaxMatch
           /\ b.type # "ACTION_RESULT" => b.phase \in Phases
           /\ b.type = "SNAPSHOT" => b.board \in Hashes
           /\ b.type = "ACTION_RESULT" => b.id \in Nat /\ b.verdict \in Verdicts
BY SessionAssumption DEF Bodies, EventTypes

LEMMA ShownType ==
    ASSUME NEW c \in CliType, NEW phase \in Phases
    PROVE  Shown(c, phase) \in UiPhases
BY DEF Shown, UiPhases, CliType, Phases

(* What leads on from one step of the browser.                             *)
Advances(c, d, z) ==
    /\ CliSound(d) /\ Fits(d, z)
    /\ d.processed = c.processed /\ d.count = c.count /\ d.pending \subseteq c.pending

(* The phases, and a new match.                                            *)
LEMMA OnEventAdvances ==
    ASSUME NEW c, CliSound(c), NEW y \in Marks, NEW z \in Marks, NEW body \in Bodies,
           Fits(c, y), Follows(body, y, z, c),
           body.type \in {"WELCOME", "ROOM_STATE", "ROUND_RESULT", "MATCH_RESULT"}
    PROVE  Advances(c, OnMessage(c, body), z)
<1> DEFINE d == OnMessage(c, body)
<1>1. /\ body.match \in 1 .. MaxMatch /\ Shown(c, body.phase) \in UiPhases
      /\ {"LOBBY", "ROUND_RESULT", "MATCH_RESULT"} \subseteq UiPhases
  BY BodyFacts, ShownType DEF CliSound, UiPhases, Phases
<1>2. \E match \in 1 .. MaxMatch, phase \in UiPhases :
         d = [c EXCEPT !.match = match, !.phase = phase]
  <2>1. c.match \in 1 .. MaxMatch /\ c = [c EXCEPT !.match = c.match]
    BY DEF CliSound, CliType
  <2>2. CASE body.type = "WELCOME" BY <1>1, <2>2 DEF OnMessage
  <2>3. CASE body.type = "ROOM_STATE" BY <1>1, <2>3 DEF OnMessage
  <2>4. CASE body.type \in {"ROUND_RESULT", "MATCH_RESULT"}
    <3>1. d = [c EXCEPT !.phase = body.type] BY <2>4 DEF OnMessage
    <3>2. d = [c EXCEPT !.match = c.match, !.phase = body.type]
      BY <3>1 DEF CliSound, CliType
    <3> QED BY <1>1, <2>1, <2>4, <3>2
  <2> QED BY <2>2, <2>3, <2>4
<1> HIDE DEF d
<1>3. /\ d \in CliType /\ d.processed = c.processed /\ d.count = c.count
      /\ d.pending = c.pending /\ d.snap = c.snap /\ d.game = c.game /\ d.failed = c.failed
  BY <1>2 DEF CliSound, CliType
<1>4. CliSound(d) BY <1>3 DEF CliSound, FirstUnopened, LastPlayed
<1>5. z.answers = y.answers /\ (z.window => y.window) /\ (c.snap => FALSE)
  BY DEF Follows, Fits
<1>6. Fits(d, z) BY <1>3, <1>5 DEF Fits, Unopened, FirstUnopened
<1> QED BY <1>3, <1>4, <1>6 DEF Advances, d

(* A board is dealt, or there is none until the next one.                  *)
LEMMA OnDealAdvances ==
    ASSUME NEW c, CliSound(c), NEW y \in Marks, NEW z \in Marks, NEW body \in Bodies,
           Fits(c, y), Follows(body, y, z, c),
           body.type \in {"COUNTDOWN", "REMATCH_STARTED"}
    PROVE  Advances(c, OnMessage(c, body), z)
<1> DEFINE d == OnMessage(c, body)
<1>1. /\ body.match \in 1 .. MaxMatch /\ NoBoard \in Hashes
      /\ {"COUNTDOWN", "LOBBY"} \subseteq UiPhases
  BY BodyFacts DEF UiPhases, Phases, Hashes
<1>2. body.type = "COUNTDOWN" =>
         Dealt(body.round) \in Hashes /\ Dealt(body.round) \notin Opened
  BY GameAssumption, OpeningAssumption DEF Follows, Hashes
<1>3. /\ d \in CliType /\ d.processed = c.processed /\ d.count = c.count
      /\ d.pending = {} /\ d.snap = FALSE /\ d.failed = c.failed
      /\ body.type = "COUNTDOWN" => d.game = Dealt(body.round)
  <2>1. CASE body.type = "COUNTDOWN"
    <3>1. d = [c EXCEPT !.game = Dealt(body.round), !.pending = {}, !.snap = FALSE,
                        !.phase = "COUNTDOWN"]
      BY <2>1 DEF OnMessage
    <3> HIDE DEF d
    <3> QED BY <1>1, <1>2, <2>1, <3>1 DEF CliSound, CliType
  <2>2. CASE body.type = "REMATCH_STARTED"
    <3>1. d = [c EXCEPT !.match = body.match, !.game = NoBoard, !.pending = {},
                        !.snap = FALSE, !.phase = "LOBBY"]
      BY <2>2 DEF OnMessage
    <3> HIDE DEF d
    <3> QED BY <1>1, <2>2, <3>1 DEF CliSound, CliType
  <2> QED BY <2>1, <2>2
<1> HIDE DEF d
<1>4. CliSound(d) BY <1>3, FS_EmptySet DEF CliSound, LastPlayed
<1>5. z.answers = y.answers /\ (z.window => body.type = "COUNTDOWN")
  BY DEF Follows
<1>6. Fits(d, z) BY <1>2, <1>3, <1>5 DEF Fits, Unopened
<1> QED BY <1>3, <1>4, <1>6 DEF Advances, d

(* The round opens: what was played before on the copy is lost.            *)
LEMMA OnOpeningAdvances ==
    ASSUME NEW c, CliSound(c), NEW y \in Marks, NEW z \in Marks, NEW body \in Bodies,
           Fits(c, y), Follows(body, y, z, c), body.type = "ROUND_ACTIVE"
    PROVE  Advances(c, OnMessage(c, body), z)
<1> DEFINE d == OnMessage(c, body)
           game == IF c.game = NoBoard THEN c.game ELSE Open(c.game)
<1>1. d = [c EXCEPT !.game = game, !.phase = "ACTIVE"]
  BY DEF OnMessage, CliSound, CliType
<1>2. game \in Hashes BY GameAssumption DEF Hashes, CliSound, CliType
<1> HIDE DEF d, game
<1>3. /\ d \in CliType /\ d.processed = c.processed /\ d.count = c.count
      /\ d.pending = c.pending /\ d.snap = c.snap /\ d.failed = c.failed
  BY <1>1, <1>2 DEF CliSound, CliType, UiPhases, Phases
<1>4. ~c.snap /\ Unopened(c) /\ ~z.window /\ z.answers = y.answers
  BY DEF Follows, Fits, Marks
<1>5. FirstUnopened(d) BY <1>3, <1>4 DEF Unopened, FirstUnopened
<1>6. CliSound(d) BY <1>3, <1>5 DEF CliSound
<1>7. Fits(d, z) BY <1>3, <1>4 DEF Fits
<1> QED BY <1>3, <1>6, <1>7 DEF Advances, d

LEMMA OnSnapshotAdvances ==
    ASSUME NEW c, CliSound(c), NEW y \in Marks, NEW z \in Marks, NEW body \in Bodies,
           Fits(c, y), Follows(body, y, z, c), body.type = "SNAPSHOT"
    PROVE  Advances(c, OnMessage(c, body), z)
<1> DEFINE d == OnMessage(c, body)
           game == IF body.board = NoBoard THEN c.game ELSE body.board
<1>1. /\ body.match \in 1 .. MaxMatch /\ Shown(c, body.phase) \in UiPhases
      /\ body.board \in Hashes
  BY BodyFacts, ShownType DEF CliSound
<1>2. d = [c EXCEPT !.snap = FALSE, !.pending = {}, !.match = body.match,
                    !.game = game, !.phase = Shown(c, body.phase)]
  BY DEF OnMessage, OnSnapshot
<1>3. game \in Hashes BY <1>1 DEF CliSound, CliType
<1>4. z.window => game \notin Opened BY GameAssumption DEF Follows
<1> HIDE DEF d, game
<1>5. /\ d \in CliType /\ d.processed = c.processed /\ d.count = c.count
      /\ d.pending = {} /\ d.snap = FALSE /\ d.failed = c.failed /\ d.game = game
  BY <1>1, <1>2, <1>3 DEF CliSound, CliType
<1>6. CliSound(d) BY <1>5, FS_EmptySet DEF CliSound, LastPlayed
<1>7. z.answers = y.answers BY DEF Follows
<1>8. Fits(d, z) BY <1>4, <1>5, <1>7 DEF Fits, Unopened
<1> QED BY <1>5, <1>6, <1>8 DEF Advances, d

(* A result is verified or rolled back only when it is that of the last    *)
(* pending action, and then the copy is the room's board.                  *)
LEMMA OnResultAdvances ==
    ASSUME NEW c, CliSound(c), NEW y \in Marks, NEW z \in Marks, NEW body \in Bodies,
           Fits(c, y), Follows(body, y, z, c), body.type = "ACTION_RESULT"
    PROVE  Advances(c, OnMessage(c, body), z)
<1> DEFINE own == Pending(c, body.id)
           rest == c.pending \ own
           settled == Settled(c, body.id)
           reconcile == body.verdict.reconcile
           plan == Plan(reconcile, Cardinality(rest))
           action == CHOOSE p \in own : TRUE
           waiting == [settled EXCEPT !.snap = TRUE]
           back == [settled EXCEPT !.game = action.pre]
<1>1. body.verdict \in Verdicts /\ reconcile \in Reconciles
  BY BodyFacts DEF Verdicts
<1>2. /\ body.id \in Nat /\ body.id = y.answers + 1 /\ z.answers = body.id
      /\ body.id <= c.count /\ (reconcile # "NONE" => z.owed)
      /\ \A p \in own : Agrees(p, body.verdict)
      /\ z.window => y.window
      /\ ~c.snap
  BY BodyFacts DEF Follows, Fits, Pending
<1>3. /\ c.pending \subseteq Actions /\ c.count \in Nat
      /\ \A p \in c.pending : p.id \in Nat /\ p.id >= body.id
  <2>1. c.pending \subseteq Actions /\ c.count \in Nat BY DEF CliSound, CliType
  <2>2. \A p \in c.pending : p.id \in Nat /\ p.id > y.answers
    BY <2>1 DEF Fits, Actions
  <2> QED BY <2>1, <2>2, <1>2 DEF Marks
<1>4. own \subseteq c.pending /\ \A p \in c.pending : p \in own <=> p.id = body.id
  BY DEF Pending
<1> HIDE DEF own
<1>5. IsFiniteSet(rest) /\ (Cardinality(rest) > 0 <=> rest # {})
  <2>1. IsFiniteSet(rest) BY FS_Subset DEF CliSound
  <2> QED BY <2>1, FS_EmptySet, FS_CardinalityType
<1>6. \A p \in rest : p.id \in Nat /\ p.id > body.id /\ p \in c.pending
  BY <1>2, <1>3, <1>4
<1>7. own # {} => action \in own OBVIOUS
<1>8. settled = [c EXCEPT !.pending = rest]
  BY DEF Settled, CliSound, CliType, own
<1> HIDE DEF rest, settled, action
<1>9. /\ settled \in CliType /\ settled.pending = rest /\ settled.game = c.game
      /\ settled.snap = FALSE /\ settled.failed = FALSE
      /\ settled.processed = c.processed /\ settled.count = c.count
  <2>1. rest \subseteq Actions BY <1>3, <1>6
  <2>2. c \in CliType /\ c.failed = FALSE /\ c.snap = FALSE
    BY <1>2 DEF CliSound, CliType
  <2> QED BY <2>1, <2>2, <1>8 DEF CliType
<1>10. \A p \in rest : p.id <= c.count BY <1>6 DEF CliSound
<1>11. own # {} /\ reconcile = "NONE" => LastPlayed(c) /\ ~y.window
  <2> SUFFICES ASSUME own # {}, reconcile = "NONE" PROVE LastPlayed(c) /\ ~y.window
    OBVIOUS
  <2>1. action \in c.pending /\ action.pre \in Opened
    BY <1>2, <1>4, <1>7 DEF Agrees
  <2>2. \A q \in c.pending : action.id <= q.id BY <1>2, <1>3, <1>4, <1>7
  <2>3. ~FirstUnopened(c) BY <2>1, <2>2 DEF FirstUnopened
  <2>4. c.pending # {} BY <2>1
  <2> QED BY <1>2, <2>3, <2>4 DEF CliSound, Fits, Unopened
<1>12. LastPlayed(c) => LastPlayed(settled)
  <2> SUFFICES ASSUME LastPlayed(c), NEW p \in rest, \A q \in rest : q.id <= p.id
               PROVE  c.game = p.optimistic
    BY <1>9 DEF LastPlayed
  <2>1. \A q \in c.pending : q.id <= p.id BY <1>2, <1>3, <1>4, <1>6 DEF rest
  <2> QED BY <1>6, <2>1 DEF LastPlayed
<1>13. ASSUME reconcile # "NONE"
       PROVE  Advances(c, waiting, z)
  <2>1. /\ waiting \in CliType /\ waiting.pending = rest /\ waiting.snap = TRUE
        /\ waiting.failed = FALSE /\ waiting.processed = c.processed
        /\ waiting.count = c.count
    BY <1>9 DEF CliType
  <2>2. CliSound(waiting) BY <1>5, <1>10, <2>1 DEF CliSound
  <2>3. Fits(waiting, z) BY <1>2, <1>6, <1>13, <2>1 DEF Fits, Unopened
  <2> QED BY <2>1, <2>2, <2>3, <1>6 DEF Advances
<1>14. ASSUME own = {} \/ reconcile = "NONE" \/ (c.game = NoBoard /\ rest = {})
       PROVE  Advances(c, settled, z)
  <2>1. own = {} => rest = c.pending BY DEF rest
  <2>2. FirstUnopened(settled) \/ LastPlayed(settled)
    <3>1. CASE own = {}
      BY <1>2, <1>9, <2>1, <3>1 DEF CliSound, FirstUnopened, LastPlayed
    <3>2. CASE own # {} /\ reconcile = "NONE" BY <1>11, <1>12, <3>2
    <3>3. CASE own # {} /\ reconcile # "NONE" BY <1>9, <1>14, <3>3 DEF FirstUnopened
    <3> QED BY <3>1, <3>2, <3>3
  <2>3. CliSound(settled) BY <1>5, <1>9, <1>10, <2>2 DEF CliSound
  <2>4. ASSUME z.window PROVE Unopened(settled)
    <3>1. Unopened(c) BY <1>2, <2>4 DEF Fits
    <3>2. CASE own = {}
      BY <1>2, <1>9, <2>1, <3>1, <3>2 DEF Unopened, FirstUnopened
    <3>3. CASE own # {} /\ reconcile = "NONE" BY <1>2, <1>11, <2>4, <3>3
    <3>4. CASE own # {} /\ reconcile # "NONE"
      BY <1>9, <1>14, <3>4, GameAssumption, OpeningAssumption DEF Unopened
    <3> QED BY <3>2, <3>3, <3>4
  <2>5. Fits(settled, z) BY <1>2, <1>6, <1>9, <2>4 DEF Fits
  <2> QED BY <2>3, <2>5, <1>6, <1>9 DEF Advances
<1>15. ASSUME own # {}, reconcile = "ROLLBACK", rest = {}
       PROVE  Advances(c, back, z) /\ back.game = body.verdict.hash
  <2>1. action \in c.pending /\ action.pre = body.verdict.hash /\ action.pre \in Hashes
    BY <1>2, <1>3, <1>4, <1>7, <1>15 DEF Agrees, Actions
  <2>2. /\ back \in CliType /\ back.pending = {} /\ back.game = action.pre
        /\ back.snap = FALSE /\ back.failed = FALSE
        /\ back.processed = c.processed /\ back.count = c.count
    BY <1>9, <1>15, <2>1 DEF CliType
  <2>3. CliSound(back) BY <2>2, FS_EmptySet DEF CliSound, LastPlayed
  <2>4. ASSUME z.window PROVE action.pre \notin Opened
    <3>1. Unopened(c) BY <1>2, <2>4 DEF Fits
    <3>2. FirstUnopened(c) BY <1>2, <2>1, <3>1 DEF Unopened
    <3>3. \A q \in c.pending : action.id <= q.id BY <1>2, <1>3, <1>4, <1>7, <1>15
    <3> QED BY <2>1, <3>2, <3>3 DEF FirstUnopened
  <2>5. Fits(back, z) BY <1>2, <2>2, <2>4 DEF Fits, Unopened
  <2> QED BY <2>1, <2>2, <2>3, <2>5 DEF Advances
<1>16. ASSUME own # {}, reconcile = "NONE", rest = {}
       PROVE  c.game = action.optimistic /\ c.game = body.verdict.hash
  <2>1. action \in c.pending /\ action.optimistic = body.verdict.hash
    BY <1>2, <1>4, <1>7, <1>16 DEF Agrees
  <2>2. \A q \in c.pending : q.id <= action.id
    BY <1>2, <1>4, <1>7, <1>16 DEF rest
  <2> QED BY <1>11, <1>16, <2>1, <2>2 DEF LastPlayed
<1> DEFINE d == OnMessage(c, body)
           checked == own # {} /\ c.game # NoBoard /\ plan # "DEFER"
           then == IF checked /\ plan = "ROLLBACK" THEN back ELSE settled
<1>17. d = IF plan = "WAIT" THEN waiting
           ELSE IF /\ checked
                   /\ \/ then.game # body.verdict.hash
                      \/ plan = "VERIFY" /\ then.game # action.optimistic
                THEN FailIntegrity(then)
           ELSE then
  <2>1. Cardinality(settled.pending) = Cardinality(rest) BY <1>9
  <2> QED BY <2>1 DEF OnMessage, OnResult, settled, own, action
<1> HIDE DEF d, waiting, back
<1>18. /\ plan = "WAIT" => reconcile # "NONE"
       /\ plan = "ROLLBACK" => reconcile = "ROLLBACK" /\ rest = {}
       /\ plan = "VERIFY" => reconcile = "NONE" /\ rest = {}
       /\ plan = "DEFER" => reconcile = "NONE"
       /\ plan \in {"WAIT", "ROLLBACK", "VERIFY", "DEFER"}
  BY <1>1, <1>5 DEF Plan, Reconciles
<1> HIDE DEF plan, reconcile
<1>19. CASE plan = "WAIT" BY <1>13, <1>17, <1>18, <1>19 DEF d
<1>20. CASE plan = "DEFER"
  <2>1. d = settled BY <1>17, <1>20
  <2> QED BY <1>14, <1>18, <1>20, <2>1 DEF d
<1>21. CASE plan = "VERIFY"
  <2>1. d = settled BY <1>9, <1>16, <1>17, <1>18, <1>21
  <2> QED BY <1>14, <1>18, <1>21, <2>1 DEF d
<1>22. CASE plan = "ROLLBACK"
  <2>1. CASE checked
    <3>1. d = back BY <1>15, <1>17, <1>18, <1>22, <2>1
    <3> QED BY <1>15, <1>18, <1>22, <2>1, <3>1 DEF d
  <2>2. CASE ~checked
    <3>1. d = settled BY <1>17, <1>22, <2>2
    <3> QED BY <1>14, <1>18, <1>22, <2>2, <3>1 DEF d
  <2> QED BY <2>1, <2>2
<1> QED BY <1>18, <1>19, <1>20, <1>21, <1>22 DEF d

LEMMA OnMessageAdvances ==
    ASSUME NEW c, CliSound(c), NEW y \in Marks, NEW z \in Marks, NEW body \in Bodies,
           Fits(c, y), Follows(body, y, z, c)
    PROVE  Advances(c, OnMessage(c, body), z)
<1>1. body.type \in EventTypes \cup {"SNAPSHOT", "ACTION_RESULT"} BY BodyFacts
<1> QED BY <1>1, OnEventAdvances, OnDealAdvances, OnOpeningAdvances, OnSnapshotAdvances,
           OnResultAdvances DEF EventTypes

(* handleMessage finds no gap, and nothing to complain of.                 *)
LEMMA HandleMessageSound ==
    ASSUME NEW last, NEW wire, NEW c, NEW x, Joined(last, wire, c, x), wire # <<>>,
           CliSound(c)
    PROVE  LET d == HandleMessage(c, Head(wire)) IN
           /\ CliSound(d) /\ Joined(last, Tail(wire), d, x)
           /\ d.count = c.count /\ d.pending \subseteq c.pending
<1> DEFINE m == Head(wire)
           d == HandleMessage(c, m)
<1>1. /\ m \in Messages
      /\ \/ m.seq <= c.processed /\ Joined(last, Tail(wire), c, x)
         \/ /\ m.seq = c.processed + 1
            /\ \E y, z \in Marks :
                 /\ Fits(c, y) /\ Follows(m.body, y, z, c)
                 /\ \A e : /\ e.processed = m.seq /\ e.count = c.count
                           /\ e.pending \subseteq c.pending /\ Fits(e, z)
                           => Joined(last, Tail(wire), e, x)
  BY JoinedNext
<1> HIDE DEF m
<1>2. m.seq \in Nat /\ m.body \in Bodies /\ c.processed \in Nat
  BY <1>1, MessageFacts DEF CliSound, CliType
<1>3. CASE m.seq <= c.processed /\ Joined(last, Tail(wire), c, x)
  <2>1. d = c BY <1>3 DEF HandleMessage, Duplicate
  <2> QED BY <1>3, <2>1 DEF d, m
<1>4. CASE ~(m.seq <= c.processed /\ Joined(last, Tail(wire), c, x))
  <2>1. PICK y \in Marks, z \in Marks :
           /\ m.seq = c.processed + 1
           /\ Fits(c, y) /\ Follows(m.body, y, z, c)
           /\ \A e : /\ e.processed = m.seq /\ e.count = c.count
                     /\ e.pending \subseteq c.pending /\ Fits(e, z)
                     => Joined(last, Tail(wire), e, x)
    BY <1>1, <1>4
  <2> DEFINE b == [c EXCEPT !.processed = m.seq]
  <2>2. d = OnMessage(b, m.body) BY <1>2, <2>1 DEF HandleMessage, Duplicate, Gap
  <2>3. /\ b \in CliType /\ b.processed = m.seq /\ b.count = c.count
        /\ b.pending = c.pending /\ b.snap = c.snap /\ b.game = c.game
        /\ b.failed = c.failed
    BY <1>2 DEF CliSound, CliType
  <2> HIDE DEF b, d
  <2>4. CliSound(b) /\ Fits(b, y) /\ Follows(m.body, y, z, b)
    BY <2>1, <2>3
    DEF CliSound, Fits, Follows, Unopened, FirstUnopened, LastPlayed
  <2>5. Advances(b, d, z) BY <1>2, <2>2, <2>4, OnMessageAdvances
  <2> QED BY <2>1, <2>3, <2>5 DEF Advances, d, m
<1> QED BY <1>3, <1>4
-----------------------------------------------------------------------------
(* The room, as it stands to a browser: what has been sent, `seen` by the  *)
(* wire, leads to the mark of the room, which has answered the actions up  *)
(* to `answers` and remembers none beyond `known`.                         *)
RoomOk(s) ==
    /\ s.phase = "COUNTDOWN" => \E n \in 1 .. MaxRound : s.board = Dealt(n)
    /\ s.phase = "ACTIVE" => s.board \in Opened

Remembers(s, known) ==
    /\ \A id \in s.seen : id <= known
    /\ \A i \in DOMAIN s.cache : s.cache[i].id <= known

RoomMark(s, answers, owed) ==
    [window |-> s.phase = "COUNTDOWN", answers |-> answers, owed |-> owed]

Wired(s) == s \in SrvType /\ s.connected /\ s.epoch # 0

Tied(s, w, c, known, answers, owed) ==
    /\ Wired(s) /\ RoomOk(s) /\ Remembers(s, known)
    /\ w \in Seq(Messages) /\ answers \in Nat
    /\ Joined(s.seq, w \o s.sent, c, RoomMark(s, answers, owed))

Linked(s, w, c, known, answers) == Tied(s, w, c, known, answers, FALSE)

LEMMA MarkType ==
    ASSUME NEW s, NEW answers \in Nat, NEW owed \in BOOLEAN
    PROVE  RoomMark(s, answers, owed) \in Marks
BY DEF RoomMark, Marks

(* One more at the end of the second of two sequences.                     *)
LEMMA ConcatAppends ==
    ASSUME NEW S, NEW u \in Seq(S), NEW v \in Seq(S), NEW e \in S
    PROVE  u \o Append(v, e) = Append(u \o v, e)
<1>1. <<e>> \in Seq(S) /\ u \o v \in Seq(S) BY ConcatProperties
<1>2. Append(v, e) = v \o <<e>> BY AppendIsConcat
<1>3. Append(u \o v, e) = (u \o v) \o <<e>> BY <1>1, AppendIsConcat
<1>4. (u \o v) \o <<e>> = u \o (v \o <<e>>) BY <1>1, ConcatAssociative
<1> QED BY <1>2, <1>3, <1>4

(* emitTo numbers and sends one more body, and the room is as it was.      *)
LEMMA EmitWired ==
    ASSUME NEW s, Wired(s), NEW w \in Seq(Messages), NEW body \in Bodies
    PROVE  LET t == Emit(s, body) IN
           /\ Wired(t) /\ SameRoom(s, t) /\ t.cache = s.cache /\ t.seq = s.seq + 1
           /\ w \o t.sent = Append(w \o s.sent, [seq |-> s.seq + 1, body |-> body])
<1> DEFINE t == Emit(s, body)
           m == [seq |-> s.seq + 1, body |-> body]
           ring == Trim(Append(s.ring, m))
           sent == Append(s.sent, m)
<1>1. s.seq \in Nat /\ s.sent \in Seq(Messages) /\ s.ring \in Seq(Messages)
  BY DEF Wired, SrvType
<1>2. m \in Messages BY <1>1 DEF Messages
<1>3. t = [s EXCEPT !.seq = s.seq + 1, !.ring = ring, !.sent = sent]
  BY DEF Emit, Wired, SrvType
<1> HIDE DEF m
<1>4. sent \in Seq(Messages) BY <1>1, <1>2
<1>5. ring \in Seq(Messages)
  <2> DEFINE longer == Append(s.ring, m)
  <2>1. longer \in Seq(Messages) /\ longer # <<>> BY <1>1, <1>2, AppendProperties
  <2> HIDE DEF longer
  <2>2. Tail(longer) \in Seq(Messages) BY <2>1
  <2> QED BY <2>1, <2>2 DEF Trim, longer
<1> HIDE DEF ring, sent, t
<1>6. Wired(t) /\ SameRoom(s, t) /\ t.cache = s.cache
      /\ t.seq = s.seq + 1 /\ t.sent = sent
  <2>1. s \in SrvType /\ s.seq + 1 \in Nat BY <1>1 DEF Wired
  <2>2. t \in SrvType BY <1>3, <1>4, <1>5, <2>1 DEF SrvType
  <2> QED BY <1>3, <2>1, <2>2 DEF Wired, SrvType, SameRoom
<1>7. w \o sent = Append(w \o s.sent, m) BY <1>1, <1>2, ConcatAppends DEF sent
<1> QED BY <1>6, <1>7 DEF t, m

LEMMA EmitJoined ==
    ASSUME NEW s, Wired(s), NEW w \in Seq(Messages), NEW c, NEW x \in Marks,
           Joined(s.seq, w \o s.sent, c, x),
           NEW body \in Bodies, NEW y \in Marks, Follows(body, x, y, c)
    PROVE  LET t == Emit(s, body) IN
           /\ Wired(t) /\ SameRoom(s, t) /\ t.cache = s.cache
           /\ Joined(t.seq, w \o t.sent, c, y)
<1> DEFINE t == Emit(s, body)
           m == [seq |-> s.seq + 1, body |-> body]
<1>1. /\ Wired(t) /\ SameRoom(s, t) /\ t.cache = s.cache /\ t.seq = s.seq + 1
      /\ w \o t.sent = Append(w \o s.sent, m)
  BY EmitWired
<1> HIDE DEF t
<1>2. Joined(s.seq + 1, Append(w \o s.sent, m), c, y)
  BY JoinedNew
<1> HIDE DEF m
<1> QED BY <1>1, <1>2 DEF t

(* An event that neither deals, opens nor answers.                         *)
LEMMA TellLinked ==
    ASSUME NEW s, NEW w, NEW c, NEW n, NEW a, Linked(s, w, c, n, a),
           NEW type \in EventTypes \ {"COUNTDOWN", "ROUND_ACTIVE"},
           type = "REMATCH_STARTED" => s.phase # "COUNTDOWN"
    PROVE  Linked(Tell(s, type), w, c, n, a)
<1> DEFINE body == Event(s, type)
           x == RoomMark(s, a, FALSE)
           t == Emit(s, body)
<1>1. body \in Bodies BY DEF Linked, Tied, Wired, SrvType, Event, Bodies
<1>2. body.type = type BY DEF Event
<1>3. x \in Marks BY MarkType DEF Linked, Tied
<1>4. Follows(body, x, x, c) BY <1>2 DEF Follows, RoomMark, EventTypes
<1> HIDE DEF body
<1>5. /\ Wired(t) /\ SameRoom(s, t) /\ t.cache = s.cache
      /\ Joined(t.seq, w \o t.sent, c, x)
  BY <1>1, <1>3, <1>4, EmitJoined DEF Linked, Tied
<1> HIDE DEF t
<1>6. RoomMark(t, a, FALSE) = x BY <1>5 DEF RoomMark, SameRoom
<1>7. RoomOk(t) /\ Remembers(t, n)
  BY <1>5 DEF Linked, Tied, RoomOk, Remembers, SameRoom
<1>8. Linked(t, w, c, n, a) BY <1>5, <1>6, <1>7 DEF Linked, Tied
<1> QED BY <1>8 DEF Tell, t, body

LEMMA RoomStateLinked ==
    ASSUME NEW s, NEW w, NEW c, NEW n, NEW a, Linked(s, w, c, n, a)
    PROVE  Linked(RoomState(s), w, c, n, a)
BY TellLinked DEF RoomState, EventTypes

(* A snapshot, owed or not.                                                *)
LEMMA SnapshotLinked ==
    ASSUME NEW s, NEW w, NEW c, NEW n, NEW a, NEW owed \in BOOLEAN, Tied(s, w, c, n, a, owed)
    PROVE  Linked(SendSnapshot(s), w, c, n, a)
<1> DEFINE body == [type |-> "SNAPSHOT", match |-> s.match, phase |-> s.phase,
                    round |-> s.round, board |-> s.board]
           x == RoomMark(s, a, owed)
           y == RoomMark(s, a, FALSE)
           t == Emit(s, body)
<1>1. body \in Bodies BY DEF Tied, Wired, SrvType, Bodies
<1>2. body.type = "SNAPSHOT" /\ body.board = s.board OBVIOUS
<1>3. x \in Marks /\ y \in Marks BY MarkType DEF Tied
<1>4. Follows(body, x, y, c)
  <2>1. y.window => s.board \in Boards \ Opened
    BY GameAssumption, OpeningAssumption DEF Tied, RoomOk, RoomMark
  <2>2. x.window = y.window /\ x.answers = y.answers BY DEF RoomMark
  <2> QED BY <1>2, <2>1, <2>2 DEF Follows
<1> HIDE DEF body
<1>5. /\ Wired(t) /\ SameRoom(s, t) /\ t.cache = s.cache
      /\ Joined(t.seq, w \o t.sent, c, y)
  BY <1>1, <1>3, <1>4, EmitJoined DEF Tied
<1> HIDE DEF t
<1>6. RoomMark(t, a, FALSE) = y BY <1>5 DEF RoomMark, SameRoom
<1>7. RoomOk(t) /\ Remembers(t, n)
  BY <1>5 DEF Tied, RoomOk, Remembers, SameRoom
<1>8. Linked(t, w, c, n, a) BY <1>5, <1>6, <1>7 DEF Linked, Tied
<1> QED BY <1>8 DEF SendSnapshot, t, body

(* What moves only the room's own fields, and deals no board.              *)
LEMMA ChangeLinked ==
    ASSUME NEW s, NEW w, NEW c, NEW n, NEW a, Linked(s, w, c, n, a),
           NEW t \in SrvType, t.seq = s.seq, t.sent = s.sent, t.connected = s.connected,
           t.epoch = s.epoch, NEW m, Remembers(t, m), RoomOk(t),
           t.phase = "COUNTDOWN" => s.phase = "COUNTDOWN"
    PROVE  Linked(t, w, c, m, a)
<1>1. Covers(RoomMark(s, a, FALSE), RoomMark(t, a, FALSE)) BY DEF Covers, RoomMark
<1>2. Joined(t.seq, w \o t.sent, c, RoomMark(t, a, FALSE))
  BY <1>1, JoinedCovers DEF Linked, Tied
<1> QED BY <1>2 DEF Linked, Tied, Wired
-----------------------------------------------------------------------------
(* What the room does.                                                     *)

LEMMA EndMatchLinked ==
    ASSUME NEW s, NEW w, NEW c, NEW n, NEW a, Linked(s, w, c, n, a)
    PROVE  Linked(EndMatch(s), w, c, n, a)
<1> DEFINE t == [s EXCEPT !.phase = "MATCH_RESULT"]
<1>1. /\ t \in SrvType /\ t.seq = s.seq /\ t.sent = s.sent /\ t.connected = s.connected
      /\ t.epoch = s.epoch /\ t.seen = s.seen /\ t.cache = s.cache
      /\ t.phase = "MATCH_RESULT"
  BY DEF Linked, Tied, Wired, SrvType, Phases
<1> HIDE DEF t
<1>2. Remembers(t, n) /\ RoomOk(t) BY <1>1 DEF Linked, Tied, Remembers, RoomOk
<1>3. Linked(t, w, c, n, a) BY <1>1, <1>2, ChangeLinked
<1>4. Linked(Tell(t, "MATCH_RESULT"), w, c, n, a) BY <1>3, TellLinked DEF EventTypes
<1> QED BY <1>4, RoomStateLinked DEF EndMatch, t

LEMMA DealingLinked ==
    ASSUME NEW s, NEW w, NEW c, NEW n, NEW a, Linked(s, w, c, n, a), s.round < MaxRound
    PROVE  Linked(Dealing(s), w, c, n, a)
<1> DEFINE t == [s EXCEPT !.phase = "COUNTDOWN", !.round = s.round + 1,
                          !.board = Dealt(s.round + 1), !.ready = FALSE]
           body == Event(t, "COUNTDOWN")
           x == RoomMark(s, a, FALSE)
           y == RoomMark(t, a, FALSE)
           u == Emit(t, body)
<1>1. s \in SrvType /\ s.round + 1 \in 1 .. MaxRound /\ s.round + 1 \in 0 .. MaxRound
  <2>1. s \in SrvType BY DEF Linked, Tied, Wired
  <2>2. s.round \in 0 .. MaxRound BY <2>1 DEF SrvType
  <2> QED BY <2>1, <2>2, BoundAssumption
<1>2. Dealt(s.round + 1) \in Hashes BY <1>1, GameAssumption DEF Hashes
<1>3. /\ t \in SrvType /\ t.seq = s.seq /\ t.sent = s.sent /\ t.connected = s.connected
      /\ t.epoch = s.epoch /\ t.seen = s.seen /\ t.cache = s.cache
      /\ t.phase = "COUNTDOWN" /\ t.round = s.round + 1 /\ t.board = Dealt(s.round + 1)
  BY <1>1, <1>2 DEF SrvType, Phases
<1>4. Dealing(s) = u
  <2>1. t = [s EXCEPT !.phase = "COUNTDOWN", !.round = @ + 1, !.board = Dealt(s.round + 1),
                      !.ready = FALSE]
    BY <1>1 DEF SrvType
  <2> QED BY <2>1 DEF Dealing, Tell
<1> HIDE DEF t
<1>5. body \in Bodies BY <1>3 DEF Event, Bodies, EventTypes, SrvType
<1>6. body.type = "COUNTDOWN" /\ body.round = s.round + 1 BY <1>3 DEF Event
<1> HIDE DEF body
<1>7. x \in Marks /\ y \in Marks BY MarkType DEF Linked, Tied
<1>8. Follows(body, x, y, c) BY <1>1, <1>6 DEF Follows, RoomMark
<1>9. Wired(t) /\ w \in Seq(Messages) /\ Joined(t.seq, w \o t.sent, c, x)
  BY <1>3 DEF Linked, Tied, Wired
<1>10. /\ Wired(u) /\ SameRoom(t, u) /\ u.cache = t.cache
       /\ Joined(u.seq, w \o u.sent, c, y)
  BY <1>5, <1>7, <1>8, <1>9, EmitJoined
<1> HIDE DEF u
<1>11. RoomMark(u, a, FALSE) = y BY <1>10 DEF RoomMark, SameRoom
<1>12. RoomOk(u) /\ Remembers(u, n)
  BY <1>1, <1>3, <1>10 DEF Linked, Tied, RoomOk, Remembers, SameRoom
<1> QED BY <1>4, <1>9, <1>10, <1>11, <1>12 DEF Linked, Tied

LEMMA ActivatingLinked ==
    ASSUME NEW s, NEW w, NEW c, NEW n, NEW a, Linked(s, w, c, n, a), s.phase = "COUNTDOWN"
    PROVE  Linked(Activating(s), w, c, n, a)
<1> DEFINE t == [s EXCEPT !.phase = "ACTIVE", !.board = Open(s.board), !.expired = FALSE]
           body == Event(t, "ROUND_ACTIVE")
           x == RoomMark(s, a, FALSE)
           y == RoomMark(t, a, FALSE)
           u == Emit(t, body)
<1>1. s \in SrvType /\ Open(s.board) \in Opened
  BY OpeningAssumption DEF Linked, Tied, Wired, RoomOk
<1>2. Open(s.board) \in Hashes BY <1>1, OpeningAssumption DEF Hashes
<1>3. /\ t \in SrvType /\ t.seq = s.seq /\ t.sent = s.sent /\ t.connected = s.connected
      /\ t.epoch = s.epoch /\ t.seen = s.seen /\ t.cache = s.cache
      /\ t.phase = "ACTIVE" /\ t.board \in Opened
  BY <1>1, <1>2 DEF SrvType, Phases
<1>4. Activating(s) = u BY DEF Activating, Tell
<1> HIDE DEF t
<1>5. body \in Bodies BY <1>3 DEF Event, Bodies, EventTypes, SrvType
<1>6. body.type = "ROUND_ACTIVE" BY DEF Event
<1> HIDE DEF body
<1>7. x \in Marks /\ y \in Marks BY MarkType DEF Linked, Tied
<1>8. Follows(body, x, y, c) BY <1>3, <1>6 DEF Follows, RoomMark
<1>9. Wired(t) /\ w \in Seq(Messages) /\ Joined(t.seq, w \o t.sent, c, x)
  BY <1>3 DEF Linked, Tied, Wired
<1>10. /\ Wired(u) /\ SameRoom(t, u) /\ u.cache = t.cache
       /\ Joined(u.seq, w \o u.sent, c, y)
  BY <1>5, <1>7, <1>8, <1>9, EmitJoined
<1> HIDE DEF u
<1>11. RoomMark(u, a, FALSE) = y BY <1>10 DEF RoomMark, SameRoom
<1>12. RoomOk(u) /\ Remembers(u, n)
  BY <1>3, <1>10 DEF Linked, Tied, RoomOk, Remembers, SameRoom
<1> QED BY <1>4, <1>9, <1>10, <1>11, <1>12 DEF Linked, Tied

LEMMA EndRoundLinked ==
    ASSUME NEW s, NEW w, NEW c, NEW n, NEW a, Linked(s, w, c, n, a)
    PROVE  Linked(EndRound(s), w, c, n, a)
<1> DEFINE u == Tell(s, "ROUND_RESULT")
           t == [u EXCEPT !.phase = "ROUND_RESULT", !.ready = FALSE]
<1>1. Linked(u, w, c, n, a) BY TellLinked DEF EventTypes
<1> HIDE DEF u
<1>2. /\ t \in SrvType /\ t.seq = u.seq /\ t.sent = u.sent /\ t.connected = u.connected
      /\ t.epoch = u.epoch /\ t.seen = u.seen /\ t.cache = u.cache
      /\ t.phase = "ROUND_RESULT"
  BY <1>1 DEF Linked, Tied, Wired, SrvType, Phases
<1> HIDE DEF t
<1>3. Remembers(t, n) /\ RoomOk(t) BY <1>1, <1>2 DEF Linked, Tied, Remembers, RoomOk
<1>4. Linked(t, w, c, n, a) BY <1>1, <1>2, <1>3, ChangeLinked
<1> QED BY <1>4, RoomStateLinked DEF EndRound, t, u

LEMMA PhaseLinked ==
    ASSUME NEW s, NEW w, NEW c, NEW n, NEW a, Linked(s, w, c, n, a)
    PROVE  /\ Linked(Close(s), w, c, n, a)
           /\ Linked(ExpireRematch(s), w, c, n, a) /\ Linked(CallRematch(s), w, c, n, a)
<1> SUFFICES ASSUME NEW phase \in {"CLOSED", "MATCH_RESULT", "REMATCH"}, NEW vote \in BOOLEAN
             PROVE  Linked(RoomState([s EXCEPT !.phase = phase, !.vote = vote]), w, c, n, a)
  <2>1. [s EXCEPT !.phase = "CLOSED"] = [s EXCEPT !.phase = "CLOSED", !.vote = s.vote]
        /\ [s EXCEPT !.phase = "REMATCH"] = [s EXCEPT !.phase = "REMATCH", !.vote = s.vote]
        /\ s.vote \in BOOLEAN
    BY DEF Linked, Tied, Wired, SrvType
  <2> QED BY <2>1 DEF Close, ExpireRematch, CallRematch
<1> DEFINE t == [s EXCEPT !.phase = phase, !.vote = vote]
<1>1. /\ t \in SrvType /\ t.seq = s.seq /\ t.sent = s.sent /\ t.connected = s.connected
      /\ t.epoch = s.epoch /\ t.seen = s.seen /\ t.cache = s.cache /\ t.phase = phase
  BY DEF Linked, Tied, Wired, SrvType, Phases
<1> HIDE DEF t
<1>2. Remembers(t, n) /\ RoomOk(t) BY <1>1 DEF Linked, Tied, Remembers, RoomOk
<1>3. Linked(t, w, c, n, a) BY <1>1, <1>2, ChangeLinked
<1> QED BY <1>3, RoomStateLinked DEF t

LEMMA RematchLinked ==
    ASSUME NEW s, NEW w, NEW c, NEW n, NEW a, Linked(s, w, c, n, a), s.match < MaxMatch
    PROVE  Linked(Rematch(s), w, c, n, a)
<1> DEFINE zero == [id \in ActionIds |-> 0]
           none == <<>>
           nobody == {}
           t == [s EXCEPT !.match = s.match + 1, !.phase = "LOBBY", !.board = NoBoard,
                          !.ready = FALSE, !.vote = FALSE, !.seen = nobody, !.cache = none,
                          !.applied = zero]
<1>1. s \in SrvType /\ s.match + 1 \in 1 .. MaxMatch
  <2>1. s \in SrvType BY DEF Linked, Tied, Wired
  <2>2. s.match \in 1 .. MaxMatch BY <2>1 DEF SrvType
  <2> QED BY <2>1, <2>2, BoundAssumption
<1>2. /\ zero \in [ActionIds -> Nat] /\ none \in Seq([id : ActionIds, verdict : Verdicts])
      /\ DOMAIN none = {} /\ nobody \in SUBSET ActionIds
  OBVIOUS
<1>3. Rematch(s) = RoomState(Tell(t, "REMATCH_STARTED"))
  <2>1. t = [s EXCEPT !.match = @ + 1, !.phase = "LOBBY", !.board = NoBoard,
                      !.ready = FALSE, !.vote = FALSE, !.seen = {}, !.cache = <<>>,
                      !.applied = [id \in ActionIds |-> 0]]
    BY <1>1 DEF SrvType
  <2> QED BY <2>1 DEF Rematch
<1> HIDE DEF zero, none
<1>4. t \in SrvType BY <1>1, <1>2 DEF SrvType, Phases, Hashes
<1>5. /\ t.seq = s.seq /\ t.sent = s.sent /\ t.connected = s.connected /\ t.epoch = s.epoch
      /\ t.seen = nobody /\ t.cache = none /\ t.phase = "LOBBY"
  BY <1>1 DEF SrvType
<1> HIDE DEF t
<1>6. Remembers(t, n) /\ RoomOk(t) BY <1>2, <1>5 DEF Remembers, RoomOk
<1>7. Linked(t, w, c, n, a) BY <1>4, <1>5, <1>6, ChangeLinked
<1>8. Linked(Tell(t, "REMATCH_STARTED"), w, c, n, a)
  BY <1>5, <1>7, TellLinked DEF EventTypes
<1> QED BY <1>3, <1>8, RoomStateLinked

LEMMA RoomMoveLinked ==
    ASSUME NEW s, NEW w, NEW c, NEW n, NEW a, Linked(s, w, c, n, a),
           NEW move \in RoomMoves, MayMove(s, move)
    PROVE  Linked(RoomMove(s, move), w, c, n, a)
<1>1. CASE move = "STATE" BY <1>1, RoomStateLinked DEF RoomMove
<1>2. CASE move \in {"DEAL", "DEAL_OVER"}
  <2>1. s.round < MaxRound BY <1>2 DEF MayMove
  <2>2. Linked(Dealing(s), w, c, n, a) BY <2>1, DealingLinked
  <2> QED BY <1>2, <2>2, RoomStateLinked, EndMatchLinked DEF RoomMove
<1>3. CASE move \in {"ACTIVATE", "ACTIVATE_OVER"}
  <2>1. s.phase = "COUNTDOWN" BY <1>3 DEF MayMove
  <2>2. Linked(Activating(s), w, c, n, a) BY <2>1, ActivatingLinked
  <2> QED BY <1>3, <2>2, RoomStateLinked, EndMatchLinked DEF RoomMove
<1>4. CASE move = "END_ROUND" BY <1>4, EndRoundLinked DEF RoomMove
<1>5. CASE move = "END_LAST_ROUND"
  <2>1. Linked(Tell(s, "ROUND_RESULT"), w, c, n, a) BY TellLinked DEF EventTypes
  <2> QED BY <1>5, <2>1, EndMatchLinked DEF RoomMove
<1>6. CASE move = "END_MATCH" BY <1>6, EndMatchLinked DEF RoomMove
<1>7. CASE move \in {"CALL_REMATCH", "EXPIRE_REMATCH", "CLOSE"}
  BY <1>7, PhaseLinked DEF RoomMove
<1>8. CASE move = "REMATCH"
  <2>1. s.match < MaxMatch BY <1>8 DEF MayMove
  <2> QED BY <1>8, <2>1, RematchLinked DEF RoomMove
<1> QED BY <1>1, <1>2, <1>3, <1>4, <1>5, <1>6, <1>7, <1>8 DEF RoomMoves

LEMMA ThenLinked ==
    ASSUME NEW s, NEW w, NEW c, NEW n, NEW a, Linked(s, w, c, n, a),
           NEW moves \in SUBSET RoomMoves, NEW move
    PROVE  Linked(Then(s, move, moves), w, c, n, a)
<1>1. CASE move \in moves /\ MayMove(s, move)
  BY <1>1, RoomMoveLinked DEF Then
<1>2. CASE ~(move \in moves /\ MayMove(s, move))
  BY <1>2 DEF Then
<1> QED BY <1>1, <1>2
-----------------------------------------------------------------------------
(* How the room answers an action.                                         *)

(* What the browser remembers of the action e.                             *)
Asked(p, e) ==
    /\ e.do \in Moves /\ e.base = p.pre /\ p.pre \in Boards
    /\ p.optimistic = IF p.pre \in Finished THEN p.pre ELSE Play(p.pre, e.do)

(* The action is the next to be answered.                                  *)
Heard(e, c, a) ==
    /\ e.id \in ActionIds /\ e.id = a + 1 /\ e.id <= c.count
    /\ e.do \in Controls \cup BoardActions
    /\ \A p \in c.pending : p.id = e.id => Asked(p, e)

(* The browser will find the answer to agree with what it remembers.       *)
Answers(e, c, verdict) ==
    verdict \in Verdicts /\ \A p \in c.pending : p.id = e.id => Agrees(p, verdict)

LEMMA AnswerLinked ==
    ASSUME NEW s, NEW w, NEW c, NEW n, NEW a, Linked(s, w, c, n, a),
           NEW e, Heard(e, c, a), NEW verdict, Answers(e, c, verdict)
    PROVE  Tied(Answer(s, e, verdict), w, c, n, a + 1, verdict.reconcile # "NONE")
<1> DEFINE body == Result(s, e.id, verdict, FALSE)
           owed == verdict.reconcile # "NONE"
           x == RoomMark(s, a, FALSE)
           y == RoomMark(s, a + 1, owed)
           t == Emit(s, body)
<1>1. body \in Bodies
  BY DEF Linked, Tied, Wired, SrvType, Heard, Answers, Result, Bodies
<1>2. body.type = "ACTION_RESULT" /\ body.id = e.id /\ body.verdict = verdict
  BY DEF Result
<1>3. a \in Nat /\ a + 1 \in Nat BY DEF Linked, Tied
<1>4. x \in Marks /\ y \in Marks BY <1>3, MarkType
<1>5. /\ x.window = y.window /\ x.answers = a /\ y.answers = a + 1
      /\ x.owed = FALSE /\ y.owed = owed
  BY DEF RoomMark
<1> HIDE DEF body, x, y
<1>6. Follows(body, x, y, c) BY <1>2, <1>5 DEF Follows, Heard, Answers
<1>7. /\ Wired(t) /\ SameRoom(s, t) /\ t.cache = s.cache
      /\ Joined(t.seq, w \o t.sent, c, y)
  BY <1>1, <1>4, <1>6, EmitJoined DEF Linked, Tied, x
<1> HIDE DEF t
<1>8. RoomMark(t, a + 1, owed) = y BY <1>7 DEF RoomMark, SameRoom, y
<1>9. RoomOk(t) /\ Remembers(t, n)
  BY <1>7 DEF Linked, Tied, RoomOk, Remembers, SameRoom
<1>10. Tied(t, w, c, n, a + 1, owed) BY <1>3, <1>7, <1>8, <1>9 DEF Linked, Tied
<1> QED BY <1>10 DEF Answer, t, body

LEMMA IdsAreNumbers ==
    ASSUME NEW s \in SrvType
    PROVE  /\ \A id \in s.seen : id \in Nat
           /\ \A i \in DOMAIN s.cache : s.cache[i].id \in Nat
<1> DEFINE A == [id : ActionIds, verdict : Verdicts]
<1>1. s.seen \subseteq ActionIds /\ s.cache \in Seq(A) BY DEF SrvType
<1>2. \A id \in ActionIds : id \in Nat BY SessionAssumption
<1>3. \A x \in A : x.id \in ActionIds OBVIOUS
<1> HIDE DEF A
<1>4. \A i \in DOMAIN s.cache : s.cache[i].id \in ActionIds BY <1>1, <1>3
<1> QED BY <1>1, <1>2, <1>4

(* What is remembered is the action's own result.                          *)
LEMMA RememberLinked ==
    ASSUME NEW s, NEW w, NEW c, NEW a, Linked(s, w, c, a, a),
           NEW e, Heard(e, c, a), NEW verdict \in Verdicts
    PROVE  Linked(Remember(s, e, verdict), w, c, a + 1, a)
<1> DEFINE A == [id : ActionIds, verdict : Verdicts]
           new == [id |-> e.id, verdict |-> verdict]
           longer == Append(s.cache, new)
           cache == IF Len(longer) > CacheLimit THEN Tail(longer) ELSE longer
           t == Remember(s, e, verdict)
<1>1. /\ s \in SrvType /\ s.cache \in Seq(A) /\ new \in A /\ new.id = a + 1 /\ a \in Nat
      /\ e.id = a + 1 /\ e.id \in ActionIds
      /\ \A id \in s.seen : id \in Nat /\ id <= a
      /\ \A i \in DOMAIN s.cache : s.cache[i].id \in Nat /\ s.cache[i].id <= a
  <2>1. s \in SrvType /\ Remembers(s, a) /\ a \in Nat BY DEF Linked, Tied, Wired
  <2>2. s.cache \in Seq(A) BY <2>1 DEF SrvType
  <2> QED BY <2>1, <2>2, IdsAreNumbers DEF Heard, Remembers
<1>2. /\ t = [s EXCEPT !.seen = s.seen \cup {e.id}, !.cache = cache]
      /\ t.seen = s.seen \cup {e.id} /\ t.cache = cache
      /\ t.seq = s.seq /\ t.sent = s.sent /\ t.connected = s.connected
      /\ t.epoch = s.epoch /\ t.phase = s.phase /\ t.board = s.board
  BY <1>1 DEF Remember, SrvType
<1> HIDE DEF new, t
<1>3. /\ longer \in Seq(A) /\ longer # <<>>
      /\ \A i \in DOMAIN longer : longer[i].id <= a + 1
  <2>1. /\ longer \in Seq(A) /\ Len(longer) = Len(s.cache) + 1
        /\ longer[Len(s.cache) + 1] = new
        /\ \A i \in 1 .. Len(s.cache) : longer[i] = s.cache[i]
    BY <1>1, AppendProperties
  <2>2. Len(s.cache) \in Nat /\ DOMAIN s.cache = 1 .. Len(s.cache) BY <1>1
  <2> HIDE DEF longer
  <2>3. ASSUME NEW i \in DOMAIN longer PROVE longer[i].id <= a + 1
    <3>1. i = Len(s.cache) + 1 \/ i \in DOMAIN s.cache BY <2>1, <2>2, <2>3
    <3>2. a <= a + 1 BY <1>1
    <3>3. i \in DOMAIN s.cache => s.cache[i].id <= a + 1 BY <1>1
    <3> QED BY <1>1, <2>1, <2>2, <3>1, <3>3
  <2> QED BY <2>1, <2>2, <2>3
<1> HIDE DEF longer
<1>4. cache \in Seq(A) /\ \A i \in DOMAIN cache : cache[i].id <= a + 1
  <2>1. /\ Tail(longer) \in Seq(A) /\ Len(Tail(longer)) = Len(longer) - 1
        /\ \A i \in 1 .. Len(Tail(longer)) : Tail(longer)[i] = longer[i + 1]
    BY <1>3, HeadTailProperties
  <2>2. Len(longer) \in Nat /\ DOMAIN longer = 1 .. Len(longer) BY <1>3
  <2>3. \A i \in 1 .. Len(longer) - 1 : i + 1 \in DOMAIN longer BY <2>2
  <2>4. \A i \in DOMAIN Tail(longer) : Tail(longer)[i].id <= a + 1
    BY <1>3, <2>1, <2>3
  <2> QED BY <1>3, <2>1, <2>4
<1> HIDE DEF cache, A
<1>5. t \in SrvType
  <2>1. s.seen \cup {e.id} \in SUBSET ActionIds BY <1>1 DEF SrvType
  <2> QED BY <1>1, <1>2, <1>4, <2>1 DEF SrvType, A
<1>6. Remembers(t, a + 1) BY <1>1, <1>2, <1>4 DEF Remembers
<1>7. RoomOk(t) BY <1>2 DEF Linked, Tied, RoomOk
<1>8. Linked(t, w, c, a + 1, a) BY <1>2, <1>5, <1>6, <1>7, ChangeLinked
<1> QED BY <1>8 DEF t

LEMMA RejectLinked ==
    ASSUME NEW s, NEW w, NEW c, NEW a, Linked(s, w, c, a, a),
           NEW e, Heard(e, c, a), NEW verdict, Answers(e, c, verdict)
    PROVE  Tied(Reject(s, e, verdict), w, c, a + 1, a + 1, verdict.reconcile # "NONE")
BY RememberLinked, AnswerLinked DEF Reject, Answers

(* A refusal without being remembered, from a state that is.               *)
LEMMA RefuseLinked ==
    ASSUME NEW s, NEW w, NEW c, NEW n, NEW a, Tied(s, w, c, n, a + 1, TRUE),
           n = a \/ n = a + 1, a \in Nat
    PROVE  Linked(SendSnapshot(s), w, c, a + 1, a + 1)
<1>1. Linked(SendSnapshot(s), w, c, n, a + 1) BY SnapshotLinked
<1>2. n = a => Remembers(SendSnapshot(s), a + 1)
  <2>1. ASSUME NEW t \in SrvType, Remembers(t, a) PROVE Remembers(t, a + 1)
    BY <2>1, IdsAreNumbers DEF Remembers
  <2> QED BY <1>1, <2>1 DEF Linked, Tied, Wired
<1> QED BY <1>1, <1>2 DEF Linked, Tied

LEMMA AcceptLinked ==
    ASSUME NEW s, NEW w, NEW c, NEW a, Linked(s, w, c, a, a), NEW e, Heard(e, c, a),
           NEW hash, Answers(e, c, Verdict(TRUE, "NONE", hash))
    PROVE  Linked(Accept(s, e, hash), w, c, a + 1, a + 1)
<1> DEFINE verdict == Verdict(TRUE, "NONE", hash)
           r == Remember(s, e, verdict)
           t == Apply(r, e)
<1>1. verdict \in Verdicts /\ verdict.reconcile = "NONE" BY DEF Answers, Verdict
<1> HIDE DEF verdict
<1>2. Linked(r, w, c, a + 1, a) BY <1>1, RememberLinked
<1> HIDE DEF r
<1>3. /\ t \in SrvType /\ t.seq = r.seq /\ t.sent = r.sent /\ t.connected = r.connected
      /\ t.epoch = r.epoch /\ t.seen = r.seen /\ t.cache = r.cache
      /\ t.phase = r.phase /\ t.board = r.board
  <2>1. r \in SrvType /\ e.id \in ActionIds BY <1>2 DEF Linked, Tied, Wired, Heard
  <2> DEFINE applied == [r.applied EXCEPT ![e.id] = @ + 1]
  <2>2. applied \in [ActionIds -> Nat] BY <2>1 DEF SrvType
  <2>3. t = [r EXCEPT !.applied = applied] BY <2>1 DEF Apply, SrvType
  <2> HIDE DEF applied, t
  <2> QED BY <2>1, <2>2, <2>3 DEF SrvType
<1> HIDE DEF t
<1>4. Remembers(t, a + 1) /\ RoomOk(t)
  BY <1>2, <1>3 DEF Linked, Tied, Remembers, RoomOk
<1>5. Linked(t, w, c, a + 1, a) BY <1>2, <1>3, <1>4, ChangeLinked
<1>6. Tied(Answer(t, e, verdict), w, c, a + 1, a + 1, verdict.reconcile # "NONE")
  BY <1>5, AnswerLinked DEF verdict
<1>7. (verdict.reconcile # "NONE") = FALSE BY <1>1
<1> QED BY <1>6, <1>7 DEF Linked, Accept, t, r, verdict
-----------------------------------------------------------------------------
(* The handlers.  No move is READY or REMATCH: nothing is pending for them. *)
LEMMA ControlAnswers ==
    ASSUME NEW c, NEW a, NEW e, Heard(e, c, a), e.do \in Controls, NEW accepted \in BOOLEAN
    PROVE  Answers(e, c, Verdict(accepted, "NONE", NoBoard))
<1>1. \A p : ~Asked(p, e) BY GameAssumption DEF Asked, Controls
<1>2. Verdict(accepted, "NONE", NoBoard) \in Verdicts
  BY DEF Verdict, Verdicts, Reconciles, Hashes
<1> QED BY <1>1, <1>2 DEF Heard, Answers

LEMMA ControlRefused ==
    ASSUME NEW s, NEW w, NEW c, NEW a, Linked(s, w, c, a, a),
           NEW e, Heard(e, c, a), e.do \in Controls
    PROVE  Linked(Reject(s, e, Rejected("NONE", NoBoard)), w, c, a + 1, a + 1)
<1> DEFINE verdict == Rejected("NONE", NoBoard)
<1>1. Answers(e, c, verdict) BY ControlAnswers DEF Rejected
<1>2. (verdict.reconcile # "NONE") = FALSE BY DEF Rejected, Verdict
<1> HIDE DEF verdict
<1>3. Tied(Reject(s, e, verdict), w, c, a + 1, a + 1, verdict.reconcile # "NONE")
  BY <1>1, RejectLinked
<1> QED BY <1>2, <1>3 DEF Linked, verdict

LEMMA HandleReadyLinked ==
    ASSUME NEW s, NEW w, NEW c, NEW a, Linked(s, w, c, a, a),
           NEW e, Heard(e, c, a), e.do \in Controls, NEW room
    PROVE  Linked(HandleReady(s, e, room), w, c, a + 1, a + 1)
<1> DEFINE r == [s EXCEPT !.ready = TRUE]
           taken == Accept(r, e, NoBoard)
           refused == Reject(s, e, Rejected("NONE", NoBoard))
           moves == {"DEAL", "DEAL_OVER", "END_MATCH"}
<1>1. /\ r \in SrvType /\ r.seq = s.seq /\ r.sent = s.sent /\ r.connected = s.connected
      /\ r.epoch = s.epoch /\ r.seen = s.seen /\ r.cache = s.cache /\ r.phase = s.phase
      /\ r.board = s.board
  BY DEF Linked, Tied, Wired, SrvType
<1> HIDE DEF r
<1>2. Remembers(r, a) /\ RoomOk(r) BY <1>1 DEF Linked, Tied, Remembers, RoomOk
<1>3. Linked(r, w, c, a, a) BY <1>1, <1>2, ChangeLinked
<1>4. Linked(taken, w, c, a + 1, a + 1) BY <1>3, ControlAnswers, AcceptLinked
<1> HIDE DEF taken
<1>5. Linked(RoomState(taken), w, c, a + 1, a + 1) BY <1>4, RoomStateLinked
<1>6. Linked(Then(RoomState(taken), room, moves), w, c, a + 1, a + 1)
  <2>1. moves \in SUBSET RoomMoves BY DEF RoomMoves
  <2> HIDE DEF moves
  <2> QED BY <1>5, <2>1, ThenLinked
<1>7. Linked(refused, w, c, a + 1, a + 1) BY ControlRefused
<1>8. \/ HandleReady(s, e, room) = refused
      \/ HandleReady(s, e, room) = EndMatch(taken)
      \/ HandleReady(s, e, room) = Then(RoomState(taken), room, moves)
  BY DEF HandleReady, taken, r
<1> HIDE DEF refused, moves
<1> QED BY <1>4, <1>6, <1>7, <1>8, EndMatchLinked

LEMMA HandleRematchLinked ==
    ASSUME NEW s, NEW w, NEW c, NEW a, Linked(s, w, c, a, a),
           NEW e, Heard(e, c, a), e.do \in Controls, NEW room
    PROVE  Linked(HandleRematch(s, e, room), w, c, a + 1, a + 1)
<1> DEFINE r == [s EXCEPT !.phase = "REMATCH", !.vote = TRUE]
           taken == Accept(r, e, NoBoard)
           refused == Reject(s, e, Rejected("NONE", NoBoard))
           moves == {"REMATCH"}
<1>1. /\ r \in SrvType /\ r.seq = s.seq /\ r.sent = s.sent /\ r.connected = s.connected
      /\ r.epoch = s.epoch /\ r.seen = s.seen /\ r.cache = s.cache /\ r.phase = "REMATCH"
  BY DEF Linked, Tied, Wired, SrvType, Phases
<1> HIDE DEF r
<1>2. Remembers(r, a) /\ RoomOk(r) BY <1>1 DEF Linked, Tied, Remembers, RoomOk
<1>3. Linked(r, w, c, a, a) BY <1>1, <1>2, ChangeLinked
<1>4. Linked(taken, w, c, a + 1, a + 1) BY <1>3, ControlAnswers, AcceptLinked
<1> HIDE DEF taken
<1>5. Linked(RoomState(taken), w, c, a + 1, a + 1) BY <1>4, RoomStateLinked
<1>6. Linked(Then(RoomState(taken), room, moves), w, c, a + 1, a + 1)
  <2>1. moves \in SUBSET RoomMoves BY DEF RoomMoves
  <2> HIDE DEF moves
  <2> QED BY <1>5, <2>1, ThenLinked
<1>7. Linked(refused, w, c, a + 1, a + 1) BY ControlRefused
<1>8. \/ HandleRematch(s, e, room) = refused
      \/ HandleRematch(s, e, room) = taken
      \/ HandleRematch(s, e, room) = Then(RoomState(taken), room, moves)
  BY DEF HandleRematch, taken, r
<1> HIDE DEF refused, moves
<1> QED BY <1>4, <1>6, <1>7, <1>8

(* A move made on the room's board: what is accepted, or changes nothing,  *)
(* is what the browser has played; what is refused is taken back to the    *)
(* board it was made on.                                                   *)
LEMMA HandleBoardActionLinked ==
    ASSUME NEW s, NEW w, NEW c, NEW a, Linked(s, w, c, a, a),
           NEW e, Heard(e, c, a), e.do \in BoardActions, e.base = s.board, NEW room
    PROVE  Linked(HandleBoardAction(s, e, room), w, c, a + 1, a + 1)
<1> DEFINE no == Rejected("ROLLBACK", s.board)
           refused == SendSnapshot(Reject(s, e, no))
           board == Play(s.board, e.do)
           r == [s EXCEPT !.board = board]
           same == Rejected("NONE", board)
           kept == Reject(s, e, same)
           moved == Accept(r, e, board)
           logged == IF board = s.board THEN kept ELSE moved
<1>1. /\ s \in SrvType /\ s.board \in Hashes /\ a \in Nat
      /\ \A p \in c.pending : p.id = e.id => Asked(p, e)
  BY DEF Linked, Tied, Wired, SrvType, Heard
<1>2. Linked(refused, w, c, a + 1, a + 1)
  <2>1. no \in Verdicts BY <1>1 DEF Rejected, Verdict, Verdicts, Reconciles
  <2>2. no.reconcile = "ROLLBACK" /\ no.hash = s.board BY DEF Rejected, Verdict
  <2> HIDE DEF no
  <2>3. Answers(e, c, no) BY <1>1, <2>1, <2>2 DEF Answers, Agrees, Asked
  <2>4. Tied(Reject(s, e, no), w, c, a + 1, a + 1, no.reconcile # "NONE")
    BY <2>3, RejectLinked
  <2>5. (no.reconcile # "NONE") = TRUE BY <2>2
  <2> QED BY <1>1, <2>4, <2>5, RefuseLinked
<1> HIDE DEF refused
<1>3. Linked(Then(refused, room, Settlements), w, c, a + 1, a + 1)
  <2>1. Settlements \in SUBSET RoomMoves BY DEF Settlements, RoomMoves
  <2> QED BY <1>2, <2>1, ThenLinked
<1>4. ASSUME s.phase = "ACTIVE", s.board \notin Finished \cup {NoBoard}, e.do # NoCell
      PROVE  Linked(logged, w, c, a + 1, a + 1)
  <2>1. s.board \in Opened /\ e.do \in Moves
    BY <1>4 DEF Linked, Tied, RoomOk, BoardActions
  <2>2. board \in Opened /\ board \in Boards /\ board \in Hashes
    BY <2>1, OpeningAssumption DEF Hashes
  <2>3. \A p \in c.pending : p.id = e.id => p.optimistic = board /\ p.pre \in Opened
    BY <1>1, <1>4, <2>1 DEF Asked
  <2>4. /\ r \in SrvType /\ r.seq = s.seq /\ r.sent = s.sent /\ r.connected = s.connected
        /\ r.epoch = s.epoch /\ r.seen = s.seen /\ r.cache = s.cache
        /\ r.phase = "ACTIVE" /\ r.board = board
    <3> HIDE DEF board
    <3> QED BY <1>1, <1>4, <2>2 DEF SrvType
  <2> HIDE DEF board, r
  <2>5. ASSUME NEW accepted \in BOOLEAN
        PROVE  Answers(e, c, Verdict(accepted, "NONE", board))
    BY <2>2, <2>3 DEF Answers, Agrees, Verdict, Verdicts, Reconciles
  <2>6. Linked(kept, w, c, a + 1, a + 1)
    <3>1. Answers(e, c, same) BY <2>5 DEF Rejected
    <3>2. (same.reconcile # "NONE") = FALSE BY DEF Rejected, Verdict
    <3> HIDE DEF same
    <3>3. Tied(kept, w, c, a + 1, a + 1, same.reconcile # "NONE")
      BY <3>1, RejectLinked
    <3> QED BY <3>2, <3>3 DEF Linked
  <2>7. Linked(moved, w, c, a + 1, a + 1)
    <3>1. Remembers(r, a) /\ RoomOk(r)
      BY <2>2, <2>4 DEF Linked, Tied, Remembers, RoomOk
    <3>2. Linked(r, w, c, a, a) BY <2>4, <3>1, ChangeLinked
    <3> QED BY <2>5, <3>2, AcceptLinked
  <2> HIDE DEF kept, moved
  <2> QED BY <2>6, <2>7
<1>5. \/ HandleBoardAction(s, e, room) = refused
      \/ HandleBoardAction(s, e, room) = Then(refused, room, Settlements)
      \/ /\ s.phase = "ACTIVE" /\ s.board \notin Finished \cup {NoBoard} /\ e.do # NoCell
         /\ HandleBoardAction(s, e, room) \in {logged, EndMatch(logged)}
  BY DEF HandleBoardAction, refused
<1> HIDE DEF logged
<1> QED BY <1>2, <1>3, <1>4, <1>5, EndMatchLinked

LEMMA DispatchLinked ==
    ASSUME NEW s, NEW w, NEW c, NEW a, Linked(s, w, c, a, a),
           NEW e, Heard(e, c, a), NEW room, IsBoardAction(e) => e.base = s.board
    PROVE  Linked(Dispatch(s, e, room), w, c, a + 1, a + 1)
<1>1. BoardActions \cap Controls = {} BY GameAssumption DEF BoardActions, Controls
<1>2. CASE e.do = "READY"
  <2>1. e.do \in Controls BY <1>2 DEF Controls
  <2>2. Dispatch(s, e, room) = HandleReady(s, e, room)
    BY <1>1, <1>2, <2>1 DEF Dispatch, IsBoardAction
  <2> QED BY <2>1, <2>2, HandleReadyLinked
<1>3. CASE e.do = "REMATCH"
  <2>1. e.do \in Controls BY <1>3 DEF Controls
  <2>2. Dispatch(s, e, room) = HandleRematch(s, e, room)
    BY <1>1, <1>3, <2>1 DEF Dispatch, IsBoardAction
  <2> QED BY <2>1, <2>2, HandleRematchLinked
<1>4. CASE e.do \in BoardActions
  <2>1. IsBoardAction(e) /\ e.do # "READY" /\ e.do # "REMATCH"
    BY <1>1, <1>4 DEF Controls, IsBoardAction
  <2>2. Dispatch(s, e, room) = HandleBoardAction(s, e, room) BY <2>1 DEF Dispatch
  <2> QED BY <1>4, <2>1, <2>2, HandleBoardActionLinked
<1> QED BY <1>2, <1>3, <1>4 DEF Heard, Controls
-----------------------------------------------------------------------------
(* The session between two steps, with `a` actions answered.               *)
Standing(a) ==
    /\ Complete(srv) /\ Wired(srv) /\ RoomOk(srv) /\ Remembers(srv, a)
    /\ a \in Nat /\ down \in Seq(Messages)
    /\ Joined(srv.seq, down, cli, RoomMark(srv, a, FALSE))

LEMMA BeginLinked ==
    ASSUME NEW a, Standing(a), NEW last \in Int
    PROVE  /\ Linked(Begin(last), down, cli, a, a)
           /\ Begin(last).phase = srv.phase /\ Begin(last).board = srv.board
           /\ Begin(last).seq = srv.seq
<1> DEFINE b == Begin(last)
<1>1. Sound(b) /\ srv \in SrvType
  BY BeginFacts DEF Standing, Complete, Sound, Wired
<1>2. /\ b.seq = srv.seq /\ b.sent = <<>> /\ b.connected = srv.connected
      /\ b.epoch = srv.epoch /\ b.seen = srv.seen /\ b.cache = srv.cache
      /\ b.phase = srv.phase /\ b.board = srv.board
  BY <1>1 DEF Begin, SrvType
<1> HIDE DEF b
<1>3. Wired(b) /\ RoomOk(b) /\ Remembers(b, a)
  BY <1>1, <1>2 DEF Standing, Wired, RoomOk, Remembers, Sound
<1>4. down \o b.sent = down /\ RoomMark(b, a, FALSE) = RoomMark(srv, a, FALSE)
  BY <1>2, ConcatEmptySeq DEF Standing, RoomMark
<1> QED BY <1>2, <1>3, <1>4 DEF Standing, Linked, Tied, b

LEMMA CaughtUpLinked ==
    ASSUME NEW a, Standing(a), NEW e, e.last \in Nat, Reaches(srv, e.last)
    PROVE  Linked(CaughtUp(e), down, cli, a, a) /\ CaughtUp(e).board = srv.board
<1> DEFINE b == Begin(e.last)
           t == CaughtUp(e)
<1>1. Sound(t) /\ t.seen = srv.seen /\ t.cache = srv.cache
  BY CaughtUpFacts DEF Standing, Complete, Wired
<1>2. /\ b \in SrvType /\ Linked(b, down, cli, a, a)
      /\ b.phase = srv.phase /\ b.board = srv.board /\ b.seq = srv.seq
  <2>1. e.last \in Int OBVIOUS
  <2>2. /\ Linked(b, down, cli, a, a)
        /\ b.phase = srv.phase /\ b.board = srv.board /\ b.seq = srv.seq
    BY <2>1, BeginLinked
  <2> QED BY <2>2 DEF Linked, Tied, Wired
<1>3. b.asked = e.last BY DEF Begin, Standing, Wired, SrvType
<1>4. \E sent : t = [b EXCEPT !.sent = sent] BY DEF CaughtUp, CatchUp
<1> HIDE DEF b, t
<1>5. /\ t.phase = srv.phase /\ t.board = srv.board /\ t.seq = srv.seq
      /\ t.connected = b.connected /\ t.epoch = b.epoch /\ t.asked = e.last
  BY <1>2, <1>3, <1>4 DEF SrvType
<1>6. t.sent \in Seq(Messages) /\ \A i \in DOMAIN t.sent : t.sent[i].seq <= srv.seq
  <2>1. EndOfStream(t.seq, t.sent) /\ t.sent \in Seq(Messages) /\ t.seq \in Nat
    BY <1>1, <1>5 DEF Sound, Streaming, SrvType
  <2>2. Len(t.sent) \in Nat /\ DOMAIN t.sent = 1 .. Len(t.sent) BY <2>1
  <2>3. \A i \in DOMAIN t.sent : t.seq - Len(t.sent) + i <= t.seq BY <2>1, <2>2
  <2> QED BY <1>5, <2>1, <2>3 DEF EndOfStream
<1>7. Joined(t.seq, down \o t.sent, cli, RoomMark(t, a, FALSE))
  <2>1. RoomMark(t, a, FALSE) = RoomMark(srv, a, FALSE) BY <1>5 DEF RoomMark
  <2> QED BY <1>5, <1>6, <2>1, JoinedAgain DEF Standing
<1>8. Wired(t) /\ RoomOk(t) /\ Remembers(t, a)
  BY <1>1, <1>2, <1>5 DEF Standing, Linked, Tied, Wired, RoomOk, Remembers, Sound
<1> QED BY <1>5, <1>7, <1>8 DEF Standing, Linked, Tied, t

(* An id that the room has not met, while there are few enough.            *)
LEMMA IdIsNew ==
    ASSUME NEW a, Standing(a), NEW e, Heard(e, cli, a), MaxActions <= ActionLimit
    PROVE  Cached(srv, e.id) = {} /\ ~Exhausted(srv, e)
<1>1. srv \in SrvType /\ a \in Nat /\ e.id = a + 1 /\ e.id \in 1 .. MaxActions
  BY SessionAssumption DEF Standing, Wired, Heard
<1>2. Cached(srv, e.id) = {}
  BY <1>1, IdsAreNumbers DEF Standing, Remembers, Cached
<1>3. srv.seen \subseteq 1 .. a
  <2>1. \A id \in srv.seen : id \in 1 .. MaxActions
    BY <1>1, SessionAssumption DEF SrvType
  <2> QED BY <1>1, <2>1 DEF Standing, Remembers
<1>4. Cardinality(srv.seen) <= a
  <2>1. IsFiniteSet(1 .. a) /\ Cardinality(1 .. a) = a BY <1>1, FS_Interval
  <2> QED BY <1>3, <2>1, FS_Subset
<1>5. Cardinality(srv.seen) \in Nat
  <2>1. IsFiniteSet(1 .. a) BY <1>1, FS_Interval
  <2> QED BY <1>3, <2>1, FS_Subset, FS_CardinalityType
<1>6. e.id \notin srv.seen BY <1>1, <1>3
<1>7. ~(Cardinality(srv.seen) >= ActionLimit)
  BY <1>1, <1>4, <1>5, SessionAssumption, LimitAssumption
<1> QED BY <1>2, <1>6, <1>7 DEF Exhausted

LEMMA HandleActionLinked ==
    ASSUME NEW a, Standing(a), NEW e, Heard(e, cli, a), e.last \in Nat,
           MaxActions <= ActionLimit, HandleAction(e)
    PROVE  Linked(srv', down, cli, a + 1, a + 1)
<1> DEFINE need(hash) == Rejected("SNAPSHOT_REQUIRED", hash)
           hash == BaseStateHash(srv, e)
<1>1. a \in Nat /\ hash \in Hashes /\ NoBoard \in Hashes
  BY BaseStateHashType DEF Standing, Wired, Hashes
<1>2. ASSUME NEW h \in Hashes
      PROVE  Answers(e, cli, need(h)) /\ (need(h).reconcile # "NONE") = TRUE
  BY DEF Answers, Agrees, Rejected, Verdict, Verdicts, Reconciles
<1>3. Linked(Begin(e.last), down, cli, a, a) BY BeginLinked
<1> HIDE DEF need, hash
<1>4. ASSUME NEW h \in Hashes
      PROVE  Linked(SendSnapshot(Answer(Begin(e.last), e, need(h))), down, cli, a + 1, a + 1)
  <2>1. Tied(Answer(Begin(e.last), e, need(h)), down, cli, a, a + 1,
             need(h).reconcile # "NONE")
    BY <1>2, <1>3, AnswerLinked
  <2> QED BY <1>1, <1>2, <2>1, RefuseLinked
<1>5. CASE Outdated(e) BY <1>1, <1>4, <1>5 DEF Outdated, need
<1>6. CASE FallenBehind(e) BY <1>1, <1>4, <1>6 DEF FallenBehind, need, hash
<1>7. ~Repeated(e) /\ ~Declined(e) BY IdIsNew DEF Repeated, Declined
<1>8. ASSUME New(e)
      PROVE  Linked(CaughtUp(e), down, cli, a, a) /\ CaughtUp(e).board = srv.board
  BY <1>8, CaughtUpLinked DEF New, InTouch
<1>9. CASE Misbased(e)
  <2>1. New(e) /\ srv' = SendSnapshot(Reject(CaughtUp(e), e, need(hash)))
    BY <1>9 DEF Misbased, need, hash
  <2>2. Tied(Reject(CaughtUp(e), e, need(hash)), down, cli, a + 1, a + 1,
             need(hash).reconcile # "NONE")
    BY <1>1, <1>2, <1>8, <2>1, RejectLinked
  <2> QED BY <1>1, <1>2, <2>1, <2>2, RefuseLinked
<1>10. CASE Dispatched(e)
  <2>1. New(e) /\ (IsBoardAction(e) => e.base = srv.board)
    BY <1>10 DEF Dispatched, BaseDiffers, BaseStateHash
  <2>2. PICK room : srv' = Dispatch(CaughtUp(e), e, room) BY <1>10 DEF Dispatched
  <2> QED BY <1>8, <2>1, <2>2, DispatchLinked
<1> QED BY <1>5, <1>6, <1>7, <1>9, <1>10 DEF HandleAction
-----------------------------------------------------------------------------
(* The envelopes on their way carry the numbers that follow those answered,*)
(* and ask for what the browser has played.                                *)
Letters ==
    [id : Nat, epoch : {1}, match : 1 .. MaxMatch, last : Nat, base : Hashes,
     do : Controls \cup Moves]

Sending(u, c, a) ==
    /\ u \in Seq(Letters)
    /\ c.count = a + Len(u) /\ c.count <= MaxActions
    /\ \A i \in DOMAIN u :
          u[i].id = a + i /\ \A p \in c.pending : p.id = u[i].id => Asked(p, u[i])

LEMMA SendingMore ==
    ASSUME NEW u, NEW c, NEW a \in Nat, Sending(u, c, a), CliSound(c), c.count < MaxActions,
           NEW l \in Letters, l.id = c.count + 1, NEW d, d.count = c.count + 1,
           \A p \in d.pending : p \in c.pending \/ (p.id = c.count + 1 /\ Asked(p, l))
    PROVE  Sending(Append(u, l), d, a)
<1> DEFINE v == Append(u, l)
           L == Len(u)
<1>1. /\ u \in Seq(Letters) /\ L \in Nat /\ DOMAIN u = 1 .. L /\ c.count = a + L
      /\ c.count \in Nat /\ MaxActions \in Nat
      /\ \A p \in c.pending : p.id \in Nat /\ p.id <= c.count
  <2>1. c.pending \subseteq Actions BY DEF CliSound, CliType
  <2> QED BY <2>1, SessionAssumption DEF Sending, CliSound, CliType, Actions
<1>2. /\ v \in Seq(Letters) /\ Len(v) = L + 1 /\ v[L + 1] = l
      /\ \A i \in 1 .. L : v[i] = u[i]
  BY <1>1, AppendProperties
<1>3. DOMAIN v = 1 .. L + 1 BY <1>1, <1>2
<1> HIDE DEF v, L
<1>4. ASSUME NEW i \in DOMAIN v
      PROVE  v[i].id = a + i /\ \A p \in d.pending : p.id = v[i].id => Asked(p, v[i])
  <2>1. CASE i = L + 1
    <3>1. v[i] = l /\ l.id = a + i BY <1>1, <1>2, <2>1
    <3>2. \A p \in c.pending : p.id # l.id BY <1>1
    <3> QED BY <3>1, <3>2
  <2>2. CASE i # L + 1
    <3>1. i \in 1 .. L BY <1>1, <1>3, <2>2
    <3>2. v[i] = u[i] /\ u[i].id = a + i /\ a + i # c.count + 1 BY <1>1, <1>2, <3>1 DEF Sending
    <3> QED BY <1>1, <3>1, <3>2 DEF Sending
  <2> QED BY <2>1, <2>2
<1>5. d.count = a + Len(v) /\ d.count <= MaxActions
  <2>1. d.count = c.count + 1 /\ c.count = a + L /\ Len(v) = L + 1 BY <1>1, <1>2
  <2>2. c.count + 1 <= MaxActions BY <1>1
  <2>3. a + L + 1 = a + (L + 1) BY <1>1
  <2> QED BY <2>1, <2>2, <2>3
<1> QED BY <1>2, <1>4, <1>5 DEF Sending, v

LEMMA SendingFewer ==
    ASSUME NEW u, NEW c, NEW a \in Nat, Sending(u, c, a), u # <<>>
    PROVE  /\ Sending(Tail(u), c, a + 1)
           /\ Heard(Head(u), c, a) /\ Head(u).last \in Nat
<1> DEFINE v == Tail(u)
           L == Len(u)
<1>1. /\ u \in Seq(Letters) /\ L \in Nat /\ L >= 1 /\ DOMAIN u = 1 .. L
      /\ c.count = a + L /\ c.count <= MaxActions
  BY DEF Sending
<1>2. /\ v \in Seq(Letters) /\ Len(v) = L - 1 /\ Head(u) = u[1]
      /\ \A i \in 1 .. Len(v) : v[i] = u[i + 1]
  BY <1>1, HeadTailProperties
<1>3. DOMAIN v = 1 .. L - 1 BY <1>1, <1>2
<1>4. u[1] \in Letters /\ u[1].id = a + 1
      /\ \A p \in c.pending : p.id = u[1].id => Asked(p, u[1])
  BY <1>1 DEF Sending
<1> HIDE DEF v, L
<1>5. ASSUME NEW i \in DOMAIN v
      PROVE  v[i].id = a + 1 + i /\ \A p \in c.pending : p.id = v[i].id => Asked(p, v[i])
  <2>1. i \in 1 .. L - 1 /\ i + 1 \in 1 .. L BY <1>1, <1>3
  <2>2. i + 1 \in DOMAIN u /\ v[i] = u[i + 1]
    <3>1. i \in 1 .. Len(v) BY <1>2, <2>1
    <3> QED BY <1>1, <1>2, <2>1, <3>1
  <2>3. a + (i + 1) = a + 1 + i BY <1>1, <2>1
  <2> QED BY <2>2, <2>3 DEF Sending
<1>6. c.count = a + 1 + Len(v) BY <1>1, <1>2
<1>7. Sending(v, c, a + 1) BY <1>1, <1>2, <1>5, <1>6 DEF Sending
<1>8. Heard(u[1], c, a)
  <2>1. a + 1 \in 1 .. MaxActions /\ a + 1 <= c.count BY <1>1, SessionAssumption
  <2>2. u[1].do \in Controls \cup BoardActions BY <1>4 DEF Letters, BoardActions
  <2> QED BY <1>4, <2>1, <2>2, SessionAssumption DEF Heard
<1> QED BY <1>2, <1>4, <1>7, <1>8 DEF v, Letters

SessionInv == \E a \in Nat : Standing(a) /\ CliSound(cli) /\ Sending(up, cli, a)

(* What the room has sent goes on the wire.                                *)
LEMMA WireStanding ==
    ASSUME NEW a, Complete(srv'), Linked(srv', down, cli, a, a), Wire, cli' = cli
    PROVE  Standing(a)'
<1>1. down' = down \o srv'.sent /\ down' \in Seq(Messages)
  BY DEF Wire, Linked, Tied, Wired, SrvType
<1> QED BY <1>1
    DEF Standing, Linked, Tied, Complete, Sound, Boarded, Streaming, Limited, Once, Honest,
        True, Recovered, EndOfStream, Wired, RoomOk, Remembers, RoomMark

LEMMA RoomStep ==
    ASSUME NEW a, Standing(a), Sending(up, cli, a), NEW move \in Proceedings,
           RoomProceeds(move)
    PROVE  Standing(a)'
<1>1. move \in RoomMoves /\ RoomActs(move) /\ Wire /\ cli' = cli
  BY SessionAssumption DEF RoomProceeds
<1>2. Complete(srv') BY <1>1, RoomActsSound DEF Standing
<1>3. srv' = RoomMove(Begin(-1), move) /\ MayMove(Begin(-1), move)
  BY <1>1, BeginFacts DEF RoomActs, Standing, Complete
<1>4. Linked(srv', down, cli, a, a) BY <1>1, <1>3, BeginLinked, RoomMoveLinked
<1> QED BY <1>1, <1>2, <1>4, WireStanding

LEMMA ExpiryStep ==
    ASSUME NEW a, Standing(a), RoundExpires
    PROVE  Standing(a)'
<1> DEFINE b == Begin(-1)
<1>1. Complete(srv') BY DeadlineSound DEF RoundExpires, Standing
<1>2. Linked(b, down, cli, a, a) /\ b.sent = <<>>
  <2>1. Linked(b, down, cli, a, a) BY BeginLinked
  <2>2. b.sent = <<>> BY BeginFacts DEF Standing, Complete
  <2> QED BY <2>1, <2>2
<1>3. srv' = [b EXCEPT !.expired = TRUE] BY DEF RoundExpires, DeadlinePasses
<1> HIDE DEF b
<1>4. /\ srv' \in SrvType /\ srv'.seq = b.seq /\ srv'.sent = b.sent
      /\ srv'.connected = b.connected /\ srv'.epoch = b.epoch /\ srv'.seen = b.seen
      /\ srv'.cache = b.cache /\ srv'.phase = b.phase /\ srv'.board = b.board
  BY <1>2, <1>3 DEF Linked, Tied, Wired, SrvType
<1>5. Remembers(srv', a) /\ RoomOk(srv')
  BY <1>2, <1>4 DEF Linked, Tied, Remembers, RoomOk
<1>6. Linked(srv', down, cli, a, a) BY <1>2, <1>4, <1>5, ChangeLinked
<1>7. Wire /\ cli' = cli
  BY <1>2, <1>4, ConcatEmptySeq DEF Wire, RoundExpires, Standing
<1> QED BY <1>1, <1>6, <1>7, WireStanding

LEMMA ReceiptStep ==
    ASSUME NEW a, Standing(a), Sending(up, cli, a), MaxActions <= ActionLimit, RoomReceives
    PROVE  Standing(a + 1)' /\ Sending(up', cli', a + 1)
<1>1. /\ up # <<>> /\ HandleAction(Head(up)) /\ up' = Tail(up) /\ Wire /\ cli' = cli
      /\ a \in Nat
  BY DEF RoomReceives, Standing
<1>2. /\ Sending(up', cli', a + 1)
      /\ Heard(Head(up), cli, a) /\ Head(up).last \in Nat
  BY <1>1, SendingFewer
<1>3. Linked(srv', down, cli, a + 1, a + 1) BY <1>1, <1>2, HandleActionLinked
<1>4. Complete(srv') BY <1>1, <1>2, HandleActionSound DEF Standing, Heard
<1> QED BY <1>1, <1>2, <1>3, <1>4, WireStanding

LEMMA MessageStep ==
    ASSUME NEW a, Standing(a), CliSound(cli), Sending(up, cli, a), BrowserReceives
    PROVE  Standing(a)' /\ CliSound(cli') /\ Sending(up', cli', a)
<1>1. /\ down # <<>> /\ cli' = HandleMessage(cli, Head(down)) /\ down' = Tail(down)
      /\ srv' = srv /\ up' = up
  BY DEF BrowserReceives
<1>2. /\ CliSound(cli')
      /\ Joined(srv.seq, Tail(down), cli', RoomMark(srv, a, FALSE))
      /\ cli'.count = cli.count /\ cli'.pending \subseteq cli.pending
  <2> DEFINE x == RoomMark(srv, a, FALSE)
             d == HandleMessage(cli, Head(down))
  <2>1. Joined(srv.seq, down, cli, x) BY DEF Standing
  <2> HIDE DEF x
  <2>2. /\ CliSound(d) /\ Joined(srv.seq, Tail(down), d, x)
        /\ d.count = cli.count /\ d.pending \subseteq cli.pending
    BY <1>1, <2>1, HandleMessageSound
  <2> HIDE DEF d
  <2>3. cli' = d BY <1>1 DEF d
  <2> QED BY <2>2, <2>3 DEF x
<1>3. down' \in Seq(Messages) BY <1>1 DEF Standing
<1>4. Sending(up', cli', a) BY <1>1, <1>2 DEF Sending
<1>5. Standing(a)'
  BY <1>1, <1>2, <1>3
  DEF Standing, Complete, Sound, Boarded, Streaming, Limited, Once, Honest, True, Recovered,
      EndOfStream, Wired, RoomOk, Remembers, RoomMark
<1> QED BY <1>2, <1>4, <1>5

(* A step of the browser on its own.                                       *)
LEMMA ClientStanding ==
    ASSUME NEW a, Standing(a), UNCHANGED <<srv, down>>,
           Joined(srv.seq, down, cli', RoomMark(srv, a, FALSE))
    PROVE  Standing(a)'
BY DEF Standing, Complete, Sound, Boarded, Streaming, Limited, Once, Honest, True, Recovered,
       EndOfStream, Wired, RoomOk, Remembers, RoomMark

LEMMA RenderStep ==
    ASSUME NEW a, Standing(a), CliSound(cli), Sending(up, cli, a), Render
    PROVE  Standing(a)' /\ CliSound(cli') /\ Sending(up', cli', a)
<1> DEFINE c == cli
           d == cli'
<1>1. /\ d = [c EXCEPT !.ui = [phase |-> c.phase, match |-> c.match,
                               processed |-> c.processed]]
      /\ UNCHANGED <<srv, up, down>>
  BY DEF Render
<1>2. /\ d \in CliType /\ d.processed = c.processed /\ d.count = c.count /\ c.count \in Nat
      /\ d.pending = c.pending /\ d.snap = c.snap /\ d.game = c.game /\ d.failed = c.failed
  BY <1>1 DEF CliSound, CliType
<1>3. CliSound(d) BY <1>2 DEF CliSound, FirstUnopened, LastPlayed
<1>4. \A mark \in Marks : Fits(c, mark) => Fits(d, mark)
  BY <1>2 DEF Fits, Unopened, FirstUnopened
<1>5. Joined(srv.seq, down, d, RoomMark(srv, a, FALSE))
  <2>1. c.count <= d.count BY <1>2
  <2> HIDE DEF d, c
  <2>2. Joined(srv.seq, down, c, RoomMark(srv, a, FALSE)) BY DEF Standing, c
  <2> QED BY <1>2, <1>4, <2>1, <2>2, JoinedClient
<1>6. Sending(up', d, a) BY <1>1, <1>2 DEF Sending
<1> QED BY <1>1, <1>3, <1>5, <1>6, ClientStanding

(* READY and REMATCH: one more envelope, and nothing to remember.          *)
LEMMA ControlStep ==
    ASSUME NEW a, Standing(a), CliSound(cli), Sending(up, cli, a), ClickReady \/ ClickRematch
    PROVE  Standing(a)' /\ CliSound(cli') /\ Sending(up', cli', a)
<1> DEFINE c == cli
           d == cli'
<1>1. PICK do \in Controls :
        /\ Send(c, NoBoard, do)
        /\ d = [c EXCEPT !.count = c.count + 1]
        /\ UNCHANGED <<srv, down>>
  BY DEF ClickReady, ClickRematch, Controls
<1> DEFINE l == [id |-> c.count + 1, epoch |-> 1, match |-> c.ui.match,
                 last |-> c.ui.processed, base |-> NoBoard, do |-> do]
<1>2. c.count < MaxActions /\ up' = Append(up, l) BY <1>1 DEF Send
<1>3. c \in CliType /\ c.count \in Nat /\ c.count + 1 \in Nat /\ a \in Nat
  BY DEF CliSound, CliType, Standing
<1>4. l \in Letters /\ l.id = c.count + 1 BY <1>1, <1>3 DEF Letters, CliType, Hashes
<1> HIDE DEF l
<1>5. /\ d \in CliType /\ d.processed = c.processed /\ d.count = c.count + 1
      /\ d.pending = c.pending /\ d.snap = c.snap /\ d.game = c.game /\ d.failed = c.failed
  BY <1>1, <1>3 DEF CliType
<1>6. \A p \in c.pending : p.id \in Nat /\ p.id <= c.count
  BY <1>3 DEF CliSound, CliType, Actions
<1>7. CliSound(d)
  <2>1. \A p \in d.pending : p.id <= d.count BY <1>3, <1>5, <1>6
  <2> QED BY <1>5, <2>1 DEF CliSound, FirstUnopened, LastPlayed
<1>8. ASSUME NEW mark \in Marks, Fits(c, mark)
      PROVE  Fits(d, mark)
  <2>1. mark.answers <= d.count BY <1>3, <1>5, <1>8 DEF Fits, Marks
  <2> QED BY <1>5, <1>8, <2>1 DEF Fits, Unopened, FirstUnopened
<1>9. Joined(srv.seq, down, d, RoomMark(srv, a, FALSE))
  <2>1. c.count <= d.count /\ d.count \in Nat BY <1>3, <1>5
  <2> HIDE DEF d, c
  <2>2. Joined(srv.seq, down, c, RoomMark(srv, a, FALSE)) BY DEF Standing, c
  <2> QED BY <1>3, <1>5, <1>8, <2>1, <2>2, JoinedClient
<1>10. Sending(up', d, a)
  <2> HIDE DEF d, c
  <2>1. Sending(up, c, a) /\ CliSound(c) BY DEF c
  <2> QED BY <1>2, <1>3, <1>4, <1>5, <2>1, SendingMore
<1> QED BY <1>1, <1>7, <1>9, <1>10, ClientStanding

(* A move: it is remembered with the board it was made on.                 *)
LEMMA MoveStep ==
    ASSUME NEW a, Standing(a), CliSound(cli), Sending(up, cli, a), NEW move \in Moves,
           ClickBoard(move)
    PROVE  Standing(a)' /\ CliSound(cli') /\ Sending(up', cli', a)
<1> DEFINE c == cli
           d == cli'
           optimistic == IF c.game \in Finished THEN c.game ELSE Play(c.game, move)
           new == [id |-> c.count + 1, pre |-> c.game, optimistic |-> optimistic]
           l == [id |-> c.count + 1, epoch |-> 1, match |-> c.ui.match,
                 last |-> c.ui.processed, base |-> c.game, do |-> move]
<1>1. /\ c.game # NoBoard /\ ~c.snap
      /\ c.count < MaxActions /\ up' = Append(up, l)
      /\ d = [c EXCEPT !.count = c.count + 1, !.game = optimistic,
                       !.pending = c.pending \cup {new}]
      /\ UNCHANGED <<srv, down>>
  BY DEF ClickBoard, Send
<1>2. c \in CliType /\ c.count \in Nat /\ c.count + 1 \in Nat /\ a \in Nat
  BY DEF CliSound, CliType, Standing
<1>3. c.game \in Boards /\ c.game \in Hashes /\ optimistic \in Hashes
  BY <1>1, <1>2, GameAssumption DEF CliType, Hashes
<1>4. l \in Letters /\ l.id = c.count + 1 BY <1>2, <1>3 DEF Letters, CliType
<1>5. /\ new \in Actions /\ new.id = c.count + 1 /\ new.pre = c.game
      /\ new.optimistic = optimistic
  BY <1>2, <1>3 DEF Actions
<1>6. Asked(new, l) BY <1>3, <1>5 DEF Asked
<1> HIDE DEF l, new, optimistic
<1>7. /\ d \in CliType /\ d.processed = c.processed /\ d.count = c.count + 1
      /\ d.pending = c.pending \cup {new} /\ d.snap = FALSE /\ d.game = optimistic
      /\ d.failed = c.failed
  <2>1. c.pending \cup {new} \in SUBSET Actions BY <1>2, <1>5 DEF CliType
  <2>2. c.snap = FALSE BY <1>1, <1>2 DEF CliType
  <2> QED BY <1>1, <1>2, <1>3, <2>1, <2>2 DEF CliType
<1>8. \A p \in c.pending : p.id \in Nat /\ p.id <= c.count
  BY <1>2 DEF CliSound, CliType, Actions
<1>9. CliSound(d)
  <2>1. \A p \in d.pending : p.id <= d.count BY <1>2, <1>5, <1>7, <1>8
  <2>2. IsFiniteSet(d.pending) BY <1>7, FS_AddElement DEF CliSound
  <2>3. LastPlayed(d)
    <3> SUFFICES ASSUME NEW p \in d.pending, \A q \in d.pending : q.id <= p.id
                 PROVE  d.game = p.optimistic
      BY DEF LastPlayed
    <3>1. new.id <= p.id BY <1>7
    <3>2. p = new BY <1>2, <1>5, <1>7, <1>8, <3>1
    <3> QED BY <1>5, <1>7, <3>2
  <2>4. ~d.failed BY <1>7 DEF CliSound
  <2> QED BY <1>7, <2>1, <2>2, <2>3, <2>4 DEF CliSound
<1>10. ASSUME NEW mark \in Marks, Fits(c, mark)
       PROVE  Fits(d, mark)
  <2>1. mark.answers \in Nat /\ mark.answers <= c.count BY <1>10 DEF Fits, Marks
  <2>2. mark.answers <= d.count /\ new.id > mark.answers BY <1>2, <1>5, <1>7, <2>1
  <2>3. ASSUME mark.window PROVE FirstUnopened(d)
    <3>1. IF c.pending = {} THEN c.game \notin Opened ELSE FirstUnopened(c)
      BY <1>1, <1>10, <2>3 DEF Fits, Unopened
    <3> SUFFICES ASSUME NEW p \in d.pending, \A q \in d.pending : p.id <= q.id
                 PROVE  p.pre \notin Opened
      BY DEF FirstUnopened
    <3>2. CASE c.pending = {} BY <1>5, <1>7, <3>1, <3>2
    <3>3. CASE c.pending # {}
      <4>1. PICK q \in c.pending : p.id <= q.id BY <1>7, <3>3
      <4>2. p \in c.pending BY <1>2, <1>5, <1>7, <1>8, <4>1
      <4> QED BY <1>7, <3>1, <3>3, <4>2 DEF FirstUnopened
    <3> QED BY <3>2, <3>3
  <2> QED BY <1>5, <1>7, <1>10, <2>2, <2>3 DEF Fits, Unopened
<1>11. Joined(srv.seq, down, d, RoomMark(srv, a, FALSE))
  <2>1. c.count <= d.count /\ d.count \in Nat BY <1>2, <1>7
  <2> HIDE DEF d, c
  <2>2. Joined(srv.seq, down, c, RoomMark(srv, a, FALSE)) BY DEF Standing, c
  <2> QED BY <1>2, <1>5, <1>7, <1>10, <2>1, <2>2, JoinedClient
<1>12. Sending(up', d, a)
  <2> HIDE DEF d, c
  <2>1. Sending(up, c, a) /\ CliSound(c) BY DEF c
  <2>2. \A p \in d.pending : p \in c.pending \/ (p.id = c.count + 1 /\ Asked(p, l))
    BY <1>5, <1>6, <1>7
  <2> QED BY <1>1, <1>2, <1>4, <1>7, <2>1, <2>2, SendingMore
<1> QED BY <1>1, <1>9, <1>11, <1>12, ClientStanding

-----------------------------------------------------------------------------
(* The browser has just been welcomed: three messages are on their way.    *)
LEMMA EnteredStands ==
    ASSUME SessionInit
    PROVE  Standing(0)
<1> DEFINE p == NewPlayer
           none == <<>>
           q == [p EXCEPT !.connected = TRUE, !.epoch = 1]
           x == RoomMark(q, 0, FALSE)
           marks == [i \in Nat |-> x]
           welcomed == Tell(q, "WELCOME")
           entered == RoomState(SendSnapshot(welcomed))
<1>1. Sound(p) BY NewPlayerSound DEF Complete
<1>2. /\ p.phase = "LOBBY" /\ p.seq = 0 /\ p.seen = {} /\ p.cache = none /\ p.sent = none
      /\ p.asked = -1
  BY DEF NewPlayer
<1> HIDE DEF p
<1>3. /\ none \in Seq(Messages) /\ none \in Seq(Bodies) /\ Len(none) = 0
      /\ DOMAIN none = {} /\ none \o none = none
  <2>1. none \in Seq(Messages) /\ none \in Seq(Bodies) /\ Len(none) = 0 OBVIOUS
  <2> QED BY <2>1, ConcatEmptySeq
<1>4. /\ q \in SrvType /\ q.connected = TRUE /\ q.epoch = 1 /\ q.phase = p.phase
      /\ q.seq = p.seq /\ q.seen = p.seen /\ q.cache = p.cache /\ q.sent = p.sent
      /\ q.asked = p.asked /\ q.match = p.match /\ q.ring = p.ring
      /\ q.applied = p.applied /\ q.board = p.board
  <2>1. 1 \in 0 .. MaxEpoch BY SessionAssumption, BoundAssumption
  <2> QED BY <1>1, <2>1 DEF Sound, SrvType
<1> HIDE DEF q, none
<1>5. Complete(q)
  <2>1. Streaming(q) BY <1>1, <1>2, <1>4 DEF Sound, Streaming
  <2>2. Limited(q) /\ Once(q) /\ Boarded(q)
    BY <1>1, <1>2, <1>4 DEF Sound, Limited, Once, Boarded
  <2>3. \A b : True(p, b) <=> True(q, b) BY <1>4 DEF True
  <2>4. Honest(q) BY <1>1, <1>4, <2>3 DEF Sound, Honest
  <2>5. Recovered(q) BY <1>2, <1>4 DEF Recovered
  <2> QED BY <1>4, <2>1, <2>2, <2>4, <2>5 DEF Complete, Sound
<1>6. /\ cli.processed = 0 /\ cli.pending = {} /\ cli.snap = FALSE /\ cli.count = 0
      /\ srv = [entered EXCEPT !.sent = none] /\ down = entered.sent
  BY DEF SessionInit, Entered, none, q, p
<1>7. Linked(q, none, cli, 0, 0)
  <2>1. Carries(none, 0, 0, none) BY <1>3 DEF Carries
  <2>2. x \in Marks BY MarkType
  <2>3. ~x.window /\ x.answers = 0 BY <1>2, <1>4 DEF RoomMark
  <2> HIDE DEF x
  <2>4. marks \in [Nat -> Marks] /\ marks[1] = x BY <2>2
  <2>8. Fits(cli, x) BY <1>6, <2>3 DEF Fits
  <2>9. Covers(x, x) /\ Len(none) + 1 = 1 BY <1>3 DEF Covers
  <2> HIDE DEF marks
  <2>5. \A i \in 1 .. Len(none) : Follows(none[i], marks[i], marks[i + 1], cli)
    BY <1>3
  <2>6. Joined(0, none, cli, x)
    BY <1>3, <1>6, <2>1, <2>4, <2>5, <2>8, <2>9 DEF Joined
  <2>7. Wired(q) /\ RoomOk(q) /\ Remembers(q, 0)
    BY <1>2, <1>3, <1>4 DEF Wired, RoomOk, Remembers
  <2> QED BY <1>2, <1>3, <1>4, <2>6, <2>7 DEF Linked, Tied, x
<1>8. Linked(welcomed, none, cli, 0, 0) /\ Complete(welcomed)
  <2>1. Linked(welcomed, none, cli, 0, 0) BY <1>7, TellLinked DEF EventTypes
  <2>2. Complete(welcomed) BY <1>5, TellKeeps DEF Complete, Keeps, EventTypes
  <2> QED BY <2>1, <2>2
<1> HIDE DEF welcomed
<1>9. Linked(SendSnapshot(welcomed), none, cli, 0, 0) /\ Complete(SendSnapshot(welcomed))
  BY <1>8, SnapshotLinked, SendSnapshotKeeps DEF Linked, Complete, Keeps
<1>10. Linked(entered, none, cli, 0, 0) /\ Complete(entered)
  BY <1>9, RoomStateLinked, RoomStateKeeps DEF Complete, Keeps
<1>11. entered.asked = -1
  <2>1. welcomed.asked = q.asked
    BY <1>5, TellKeeps DEF Complete, SameRoom, EventTypes, welcomed
  <2>2. SendSnapshot(welcomed).asked = welcomed.asked
    BY <1>8, SendSnapshotKeeps DEF Complete, SameRoom
  <2>3. entered.asked = SendSnapshot(welcomed).asked
    BY <1>9, RoomStateKeeps DEF Complete, SameRoom
  <2> QED BY <1>2, <1>4, <2>1, <2>2, <2>3
<1> HIDE DEF entered
<1>12. /\ srv \in SrvType /\ srv.phase = entered.phase /\ srv.board = entered.board
       /\ srv.seq = entered.seq /\ srv.connected = entered.connected
       /\ srv.epoch = entered.epoch /\ srv.asked = -1 /\ srv.ring = entered.ring
       /\ srv.seen = entered.seen /\ srv.cache = entered.cache /\ srv.match = entered.match
       /\ srv.applied = entered.applied /\ srv.sent = none
  BY <1>3, <1>6, <1>10, <1>11 DEF Linked, Tied, Wired, SrvType
<1>13. Complete(srv)
  <2>1. Streaming(srv) /\ Limited(srv) /\ Once(srv) /\ Boarded(srv)
    BY <1>10, <1>12 DEF Complete, Sound, Streaming, Limited, Once, Boarded
  <2>2. \A b : True(entered, b) <=> True(srv, b) BY <1>12 DEF True
  <2>3. Honest(srv) BY <1>3, <1>10, <1>12, <2>2 DEF Complete, Sound, Honest
  <2>4. Recovered(srv) BY <1>12 DEF Recovered
  <2> QED BY <1>12, <2>1, <2>3, <2>4 DEF Complete, Sound
<1>14. down \in Seq(Messages) /\ none \o entered.sent = down
  <2>1. entered.sent \in Seq(Messages) BY <1>10 DEF Linked, Tied, Wired, SrvType
  <2> QED BY <1>6, <2>1, ConcatEmptySeq DEF none
<1>15. RoomMark(entered, 0, FALSE) = RoomMark(srv, 0, FALSE) BY <1>12 DEF RoomMark
<1>16. Wired(srv) /\ RoomOk(srv) /\ Remembers(srv, 0)
  BY <1>10, <1>12 DEF Linked, Tied, Wired, RoomOk, Remembers
<1> QED BY <1>10, <1>12, <1>13, <1>14, <1>15, <1>16 DEF Standing, Linked, Tied

LEMMA SessionInitInv ==
    ASSUME SessionInit
    PROVE  SessionInv
<1>1. Standing(0) BY EnteredStands
<1>2. CliSound(cli)
  <2>1. cli = [game |-> NoBoard, pending |-> {}, snap |-> FALSE, processed |-> 0,
               phase |-> "HOME", match |-> 1, count |-> 0, failed |-> FALSE,
               ui |-> [phase |-> "HOME", match |-> 1, processed |-> 0]]
    BY DEF SessionInit
  <2>2. 1 \in 1 .. MaxMatch /\ "HOME" \in UiPhases /\ NoBoard \in Hashes
    BY BoundAssumption DEF UiPhases, Hashes
  <2>3. cli \in CliType BY <2>1, <2>2 DEF CliType
  <2> QED BY <2>1, <2>3, FS_EmptySet DEF CliSound, LastPlayed
<1>3. Sending(up, cli, 0)
  BY SessionAssumption DEF SessionInit, Sending
<1> QED BY <1>1, <1>2, <1>3 DEF SessionInv

LEMMA SessionNextInv ==
    ASSUME MaxActions <= ActionLimit, SessionInv, [SessionNext]_vars
    PROVE  SessionInv'
<1>1. PICK a \in Nat : Standing(a) /\ CliSound(cli) /\ Sending(up, cli, a)
  BY DEF SessionInv
<1>2. ASSUME NEW move \in Proceedings, RoomProceeds(move)
      PROVE  SessionInv'
  <2>1. Standing(a)' BY <1>1, <1>2, RoomStep
  <2>2. cli' = cli /\ up' = up BY <1>2 DEF RoomProceeds
  <2> QED BY <1>1, <2>1, <2>2
      DEF SessionInv, CliSound, FirstUnopened, LastPlayed, Sending, Asked
<1>3. CASE RoundExpires
  <2>1. Standing(a)' BY <1>1, <1>3, ExpiryStep
  <2>2. cli' = cli /\ up' = up BY <1>3 DEF RoundExpires
  <2> QED BY <1>1, <2>1, <2>2
      DEF SessionInv, CliSound, FirstUnopened, LastPlayed, Sending, Asked
<1>4. CASE RoomReceives
  <2>1. Standing(a + 1)' /\ Sending(up', cli', a + 1) BY <1>1, <1>4, ReceiptStep
  <2>2. cli' = cli BY <1>4 DEF RoomReceives
  <2>3. a + 1 \in Nat BY <1>1
  <2> QED BY <1>1, <2>1, <2>2, <2>3 DEF SessionInv, CliSound, FirstUnopened, LastPlayed
<1>5. CASE BrowserReceives BY <1>1, <1>5, MessageStep DEF SessionInv
<1>6. CASE Render BY <1>1, <1>6, RenderStep DEF SessionInv
<1>7. CASE ClickReady \/ ClickRematch BY <1>1, <1>7, ControlStep DEF SessionInv
<1>8. ASSUME NEW move \in Moves, ClickBoard(move)
      PROVE  SessionInv'
  BY <1>1, <1>8, MoveStep DEF SessionInv
<1>9. CASE UNCHANGED vars
  <2>1. srv' = srv /\ cli' = cli /\ up' = up /\ down' = down BY <1>9 DEF vars
  <2>2. Standing(a)' BY <1>1, <2>1, ClientStanding DEF Standing
  <2> QED BY <1>1, <2>1, <2>2
      DEF SessionInv, CliSound, FirstUnopened, LastPlayed, Sending, Asked
<1> QED BY <1>2, <1>3, <1>4, <1>5, <1>6, <1>7, <1>8, <1>9 DEF SessionNext

(* Over a connection that loses nothing, the browser never ends a duel for *)
(* a loss of integrity that is its own (handleMessage and                  *)
(* planActionReconciliation of the browser, handleAction of the room):     *)
(* there is no gap, and a result it verifies or rolls back agrees with its *)
(* copy, for every game and however the actions, the end of the round and  *)
(* late renderings cross.  It is proved while the browser has sent no more *)
(* actions than the room takes in a match: the refusal beyond that limit   *)
(* names the room's board and not the one the action was made on.          *)
THEOREM NoAlarmIsFalse ==
    ASSUME MaxActions <= ActionLimit
    PROVE  SessionSpec => []NoFalseAlarm
<1>1. SessionInit => SessionInv BY SessionInitInv
<1>2. SessionInv /\ [SessionNext]_vars => SessionInv' BY SessionNextInv
<1>3. SessionInv => NoFalseAlarm BY DEF SessionInv, CliSound, NoFalseAlarm
<1> QED BY <1>1, <1>2, <1>3, PTL DEF SessionSpec
-----------------------------------------------------------------------------
(* The browser's copy.                                                     *)

(* A set of numbers has a least one.                                       *)
LEMMA LeastOf ==
    ASSUME NEW S \in SUBSET Nat, S # {}
    PROVE  \E m \in S : \A n \in S : ~(n < m)
<1>1. PICK m \in S : \A y \in S : ~(<<y, m>> \in OpToRel(<, Nat))
  BY NatLessThanWellFounded, WFMin, Zenon
<1> QED BY <1>1 DEF OpToRel

(* Every body of the queue is on the wire.                                 *)
LEMMA CarriesAll ==
    ASSUME NEW wire, NEW last, NEW seen, NEW queue, Carries(wire, last, seen, queue),
           NEW n \in 1 .. Len(queue)
    PROVE  \E k \in DOMAIN wire : wire[k].body = queue[n]
<1> DEFINE S == {k \in DOMAIN wire : wire[k].seq >= seen + n}
<1>1. /\ wire \in Seq(Messages) /\ seen \in Nat /\ Len(queue) \in Nat
      /\ last = seen + Len(queue) /\ n \in Nat /\ n >= 1 /\ n <= Len(queue)
  BY DEF Carries
<1>2. /\ Len(wire) \in Nat /\ DOMAIN wire = 1 .. Len(wire)
      /\ \A k \in 1 .. Len(wire) : wire[k].seq \in Nat
  BY <1>1, WireFacts
<1>3. S \subseteq Nat BY <1>2
<1>4. S # {}
  <2>1. last # seen /\ last >= seen + n BY <1>1
  <2>2. PICK k \in DOMAIN wire : wire[k].seq = last BY <2>1 DEF Carries
  <2>3. k \in S BY <2>1, <2>2
  <2> QED BY <2>3
<1>5. PICK k \in S : \A j \in S : ~(j < k) BY <1>3, <1>4, LeastOf
<1>6. k \in 1 .. Len(wire) /\ wire[k].seq \in Nat /\ wire[k].seq >= seen + n BY <1>2, <1>5
<1>7. \A j \in DOMAIN wire : j < k => wire[j].seq < seen + n
  BY <1>1, <1>2, <1>5
<1>8. wire[k].seq = seen + n
  <2>1. CASE wire[k].seq <= seen + 1 BY <1>1, <1>6, <2>1
  <2>2. ASSUME NEW j \in DOMAIN wire, j < k, wire[j].seq >= wire[k].seq - 1
        PROVE  wire[k].seq = seen + n
    <3>1. wire[j].seq < seen + n /\ wire[j].seq \in Nat BY <1>2, <1>7, <2>2
    <3> QED BY <1>1, <1>6, <2>2, <3>1
  <2> QED BY <1>2, <1>6, <2>1, <2>2 DEF Carries
<1>9. wire[k].seq > seen /\ wire[k].seq - seen = n BY <1>1, <1>8
<1>10. \A j \in DOMAIN wire : j < k => wire[j].seq < wire[k].seq BY <1>7, <1>8
<1>11. wire[k].body = queue[wire[k].seq - seen] BY <1>2, <1>6, <1>9, <1>10 DEF Carries
<1> QED BY <1>2, <1>6, <1>9, <1>11

(* What a browser that has read the bodies up to some point shows: `heard` *)
(* is the last action it has a result of, `owed` a snapshot it waits for.  *)
(* The stage of the round: nothing is claimed of its board (OFF), it is    *)
(* dealt and not opened (DEALT), it is played by the script (LIVE), or no  *)
(* action will change its board any more (DEAD).                           *)
Stages == {"OFF", "DEALT", "LIVE", "DEAD"}
Views ==
    [match : 1 .. MaxMatch, phase : UiPhases, heard : Nat, owed : BOOLEAN,
     stage : Stages, board : Hashes]

(* The board that the n-th action of the browser leads to, while one is on. *)
Scripts == [on : BOOLEAN, board : [Nat -> Hashes]]

(* What the browser shows after the body b.                                *)
NamesMatch == {"WELCOME", "ROOM_STATE", "SNAPSHOT", "REMATCH_STARTED"}
Seen(b, phase) ==
    CASE b.type \in {"WELCOME", "REMATCH_STARTED"} -> "LOBBY"
      [] b.type \in {"ROOM_STATE", "SNAPSHOT"} ->
            IF b.phase \in UiPhases THEN b.phase ELSE phase
      [] b.type = "ROUND_ACTIVE" -> "ACTIVE"
      [] b.type \in {"COUNTDOWN", "ROUND_RESULT", "MATCH_RESULT"} -> b.type
      [] OTHER -> phase

(* A body that leaves a board that no action changes.                      *)
Rests(b, x, c) ==
    \/ b.type = "ROOM_STATE"
    \/ b.type = "SNAPSHOT" /\ b.board = x.board
    \/ /\ b.type = "ACTION_RESULT"
       /\ b.verdict.reconcile = "NONE" => \A p \in c.pending : p.id # b.id

(* How a body moves the stage of the round.                                *)
Turns(b, x, y, c) ==
    \/ y.stage = "OFF"
    \/ /\ y.stage = "DEALT" /\ b.type = "COUNTDOWN"
       /\ b.round \in 1 .. MaxRound /\ y.board = Dealt(b.round)
    \/ /\ y.stage = x.stage /\ x.stage \in {"DEALT", "DEAD"}
       /\ y.board = x.board /\ Rests(b, x, c)
    \/ x.stage = "DEALT" /\ y.stage = "LIVE" /\ b.type = "ROUND_ACTIVE" /\ ~x.owed
    \/ /\ x.stage = "LIVE" /\ y.stage = "LIVE"
       /\ \/ b.type = "ROOM_STATE"
          \/ b.type = "ACTION_RESULT" /\ b.verdict.reconcile = "NONE"
    \/ /\ x.stage = "LIVE" /\ y.stage = "DEAD"
       /\ b.type = "ACTION_RESULT" /\ b.verdict.reconcile # "NONE"

(* The body b leads from the view x to the view y.                         *)
Leads(b, x, y, c) ==
    /\ y.match = (IF b.type \in NamesMatch THEN b.match ELSE x.match) /\ x.match <= y.match
    /\ y.phase = Seen(b, x.phase)
    /\ IF b.type = "ACTION_RESULT"
       THEN /\ b.id = x.heard + 1 /\ y.heard = b.id /\ b.id <= c.count
            /\ y.owed = (x.owed \/ b.verdict.reconcile # "NONE")
       ELSE y.heard = x.heard /\ y.owed = (x.owed /\ b.type # "SNAPSHOT")
    /\ Turns(b, x, y, c)

(* The browser stands at the view x.                                       *)
Stands(c, x) ==
    /\ c.match = x.match /\ c.phase = x.phase
    /\ x.heard <= c.count /\ \A p \in c.pending : p.id > x.heard
    /\ x.stage \in {"DEALT", "DEAD"} /\ ~x.owed /\ c.pending = {} => c.game = x.board

(* A view on the way to the view x.                                        *)
Within(v, x) ==
    /\ v.match <= x.match
    /\ v.stage = "DEALT" => v.phase = "COUNTDOWN"
    /\ v.stage \in {"DEALT", "DEAD"} => v.board \in Boards

(* No view before the last one, back to the latest countdown, knows of     *)
(* anything but the board as dealt.                                        *)
StillDealt(queue, views, n, x) ==
    \A i \in 1 .. n + 1 :
        (\A k \in i .. n : queue[k].type # "COUNTDOWN")
            => views[i].stage = "DEALT" /\ views[i].board = x.board

(* The round is played by the script: the n-th action leads to its n-th    *)
(* board, and the copy is the board of the latest action.                  *)
Played(queue, views, n, c, script) ==
    /\ \A k \in 1 .. n : queue[k].type # "COUNTDOWN"
    /\ \A i \in 1 .. n + 1 : views[i].stage \in {"DEALT", "LIVE"}
    /\ views[1].stage = "LIVE" => c.game = script.board[c.count]
    /\ views[1].stage = "DEALT" =>
          /\ c.ui.phase # "ACTIVE" /\ Open(views[1].board) = script.board[c.count]
          /\ \A i \in 1 .. n + 1 :
                views[i].stage = "LIVE" => \A p \in c.pending : p.id <= views[i].heard

(* What is on the wire leads the browser to the view x.                    *)
Reading(last, wire, c, x, script) ==
    \E queue \in Seq(Bodies), views \in [Nat -> Views] :
        /\ Carries(wire, last, c.processed, queue)
        /\ \A i \in 1 .. Len(queue) : Leads(queue[i], views[i], views[i + 1], c)
        /\ Stands(c, views[1]) /\ views[Len(queue) + 1] = x
        /\ \A i \in 1 .. Len(queue) + 1 : Within(views[i], x)
        /\ x.stage = "DEALT" => StillDealt(queue, views, Len(queue), x)
        /\ x.stage = "LIVE" => Played(queue, views, Len(queue), c, script)

(* The round opens, and the browser has not played since it was dealt.     *)
Opens(wire, c, x, y, script) ==
    /\ \A k \in DOMAIN wire : wire[k].body.type # "COUNTDOWN"
    /\ c.ui.phase # "ACTIVE" /\ Open(x.board) = script.board[c.count]
    /\ \A p \in c.pending : p.id <= y.heard

LEMMA ViewFacts ==
    ASSUME NEW x \in Views
    PROVE  /\ x.match \in Nat /\ x.heard \in Nat /\ x.owed \in BOOLEAN
           /\ x.match \in 1 .. MaxMatch /\ x.phase \in UiPhases
<1>1. MaxMatch \in Nat BY BoundAssumption
<1>2. x.match \in 1 .. MaxMatch /\ x.heard \in Nat /\ x.owed \in BOOLEAN /\ x.phase \in UiPhases
  BY DEF Views
<1> QED BY <1>1, <1>2

(* The room emits one more body.                                           *)
LEMMA ReadingNew ==
    ASSUME NEW last, NEW wire, NEW c, NEW x \in Views, NEW script,
           Reading(last, wire, c, x, script),
           NEW body \in Bodies, NEW y \in Views, Leads(body, x, y, c), Within(y, y),
           y.stage = "LIVE" => x.stage = "LIVE" \/ Opens(wire, c, x, y, script),
           c \in CliType
    PROVE  Reading(last + 1, Append(wire, [seq |-> last + 1, body |-> body]), c, y, script)
<1>1. PICK queue \in Seq(Bodies), views \in [Nat -> Views] :
        /\ Carries(wire, last, c.processed, queue)
        /\ \A i \in 1 .. Len(queue) : Leads(queue[i], views[i], views[i + 1], c)
        /\ Stands(c, views[1]) /\ views[Len(queue) + 1] = x
        /\ \A i \in 1 .. Len(queue) + 1 : Within(views[i], x)
        /\ x.stage = "DEALT" => StillDealt(queue, views, Len(queue), x)
        /\ x.stage = "LIVE" => Played(queue, views, Len(queue), c, script)
  BY DEF Reading
<1> DEFINE L == Len(queue)
           w == Append(wire, [seq |-> last + 1, body |-> body])
           q == Append(queue, body)
           v == [i \in Nat |-> IF i = L + 2 THEN y ELSE views[i]]
<1>2. L \in Nat BY <1>1
<1>3. /\ q \in Seq(Bodies) /\ Len(q) = L + 1
      /\ q[L + 1] = body /\ \A i \in 1 .. L : q[i] = queue[i]
  BY AppendProperties
<1>4. Carries(w, last + 1, c.processed, q) BY <1>1, CarriesNew
<1>30. \A n \in 1 .. L : \E k \in DOMAIN wire : wire[k].body = queue[n]
  BY <1>1, CarriesAll
<1> HIDE DEF L, w, q
<1>5. /\ v \in [Nat -> Views] /\ v[L + 2] = y
      /\ \A i \in Nat : i # L + 2 => v[i] = views[i]
  BY <1>2
<1> HIDE DEF v
<1>31. \A i \in 1 .. L + 1 : i \in Nat /\ i # L + 2 /\ v[i] = views[i] /\ views[i] \in Views
  BY <1>1, <1>2, <1>5
<1>32. \A i \in 1 .. L + 2 : i = L + 2 \/ i \in 1 .. L + 1 BY <1>2
<1>33. v[L + 1] = x /\ views[L + 1] = x BY <1>1, <1>2, <1>31 DEF L
<1>7. ASSUME NEW i \in 1 .. L + 1
      PROVE  Leads(q[i], v[i], v[i + 1], c)
  <2>1. CASE i = L + 1
    <3>1. i + 1 = L + 2 BY <1>2, <2>1
    <3> QED BY <1>3, <1>5, <1>33, <2>1, <3>1
  <2>2. CASE i # L + 1
    <3>1. i \in 1 .. L /\ i \in 1 .. L + 1 /\ i + 1 \in 1 .. L + 1 BY <1>2, <2>2
    <3>2. q[i] = queue[i] /\ v[i] = views[i] /\ v[i + 1] = views[i + 1]
      BY <1>3, <1>31, <3>1
    <3> QED BY <1>1, <3>1, <3>2 DEF L
  <2> QED BY <2>1, <2>2
<1>8. v[1] = views[1] BY <1>2, <1>31
<1>9. Len(q) + 1 = L + 2 BY <1>2, <1>3
<1>10. x.match <= y.match /\ x.match \in Nat /\ y.match \in Nat
  <2>1. x.match <= y.match BY DEF Leads
  <2>2. x.match \in Nat /\ y.match \in Nat BY ViewFacts
  <2> QED BY <2>1, <2>2
<1>11. ASSUME NEW i \in 1 .. L + 2
       PROVE  Within(v[i], y)
  <2>1. CASE i = L + 2 BY <1>5, <2>1
  <2>2. CASE i # L + 2
    <3>1. i \in 1 .. L + 1 /\ v[i] = views[i] /\ views[i].match \in Nat
      BY <1>31, <1>32, <2>2, ViewFacts
    <3>2. Within(views[i], x) BY <1>1, <3>1 DEF L
    <3> QED BY <1>10, <3>1, <3>2 DEF Within
  <2> QED BY <2>1, <2>2
<1>12. ASSUME y.stage = "DEALT"
       PROVE  StillDealt(q, v, L + 1, y)
  <2> SUFFICES ASSUME NEW i \in 1 .. L + 2,
                      \A k \in i .. L + 1 : q[k].type # "COUNTDOWN"
               PROVE  v[i].stage = "DEALT" /\ v[i].board = y.board
    BY <1>2 DEF StillDealt
  <2>1. CASE i = L + 2 BY <1>5, <1>12, <2>1
  <2>2. CASE i # L + 2
    <3>1. i \in 1 .. L + 1 /\ L + 1 \in i .. L + 1 BY <1>2, <1>32, <2>2
    <3>2. body.type # "COUNTDOWN" BY <1>3, <3>1
    <3>3. x.stage = "DEALT" /\ y.board = x.board
      BY <1>12, <3>2 DEF Leads, Turns
    <3>4. \A k \in i .. L : queue[k].type # "COUNTDOWN"
      <4>1. \A k \in i .. L : k \in 1 .. L /\ k \in i .. L + 1 BY <1>2, <3>1
      <4> QED BY <1>3, <4>1
    <3>5. views[i].stage = "DEALT" /\ views[i].board = x.board
      BY <1>1, <3>1, <3>3, <3>4 DEF StillDealt, L
    <3> QED BY <1>31, <3>1, <3>3, <3>5
  <2> QED BY <2>1, <2>2
<1>13. ASSUME y.stage = "LIVE"
       PROVE  Played(q, v, L + 1, c, script)
  <2>1. body.type # "COUNTDOWN" BY <1>13 DEF Leads, Turns
  <2>2. CASE x.stage = "LIVE"
    <3>1. Played(queue, views, L, c, script) BY <1>1, <2>2 DEF L
    <3>2. \A k \in 1 .. L + 1 : q[k].type # "COUNTDOWN"
      <4>1. \A k \in 1 .. L + 1 : k = L + 1 \/ k \in 1 .. L BY <1>2
      <4> QED BY <1>3, <2>1, <3>1, <4>1 DEF Played
    <3>3. \A i \in 1 .. L + 2 : v[i].stage \in {"DEALT", "LIVE"}
      BY <1>5, <1>13, <1>31, <1>32, <3>1 DEF Played
    <3>4. ASSUME v[1].stage = "DEALT", NEW i \in 1 .. L + 2, v[i].stage = "LIVE",
                 NEW p \in c.pending
          PROVE  p.id <= v[i].heard
      <4>1. \A j \in 1 .. L + 1 : views[j].stage = "LIVE" => p.id <= views[j].heard
        BY <1>8, <3>1, <3>4 DEF Played
      <4>2. L + 1 \in 1 .. L + 1 BY <1>2
      <4>3. p.id <= x.heard BY <1>33, <2>2, <4>1, <4>2
      <4>4. p.id \in Nat /\ x.heard \in Nat /\ y.heard \in Nat
        BY DEF CliType, Actions, Views
      <4>5. y.heard >= x.heard BY <4>4 DEF Leads
      <4>6. CASE i = L + 2 BY <1>5, <4>3, <4>4, <4>5, <4>6
      <4>7. CASE i # L + 2 BY <1>31, <1>32, <3>4, <4>1, <4>7
      <4> QED BY <4>6, <4>7
    <3>5. L + 1 + 1 = L + 2 BY <1>2
    <3> HIDE DEF L
    <3>6. \A i \in 1 .. L + 1 + 1 : v[i].stage \in {"DEALT", "LIVE"} BY <3>3, <3>5
    <3>7. \A i \in 1 .. L + 1 + 1 : v[1].stage = "DEALT" /\ v[i].stage = "LIVE"
             => \A p \in c.pending : p.id <= v[i].heard
      BY <3>4, <3>5
    <3> QED BY <1>8, <3>1, <3>2, <3>6, <3>7 DEF Played
  <2>3. CASE x.stage # "LIVE"
    <3>1. x.stage = "DEALT" /\ body.type = "ROUND_ACTIVE"
      BY <1>13, <2>3 DEF Leads, Turns
    <3>2. Opens(wire, c, x, y, script) BY <1>13, <2>3
    <3>3. \A k \in 1 .. L : queue[k].type # "COUNTDOWN" BY <1>30, <3>2 DEF Opens
    <3>4. \A i \in 1 .. L + 1 : \A k \in i .. L : k \in 1 .. L BY <1>2
    <3>5. \A i \in 1 .. L + 1 : views[i].stage = "DEALT" /\ views[i].board = x.board
      <4>1. StillDealt(queue, views, L, x) BY <1>1, <3>1 DEF L
      <4> QED BY <3>3, <3>4, <4>1 DEF StillDealt
    <3>6. v[1].stage = "DEALT" /\ v[1].board = x.board BY <1>2, <1>8, <3>5
    <3>7. \A k \in 1 .. L + 1 : q[k].type # "COUNTDOWN"
      <4>1. \A k \in 1 .. L + 1 : k = L + 1 \/ k \in 1 .. L BY <1>2
      <4> QED BY <1>3, <2>1, <3>3, <4>1
    <3>8. L + 1 + 1 = L + 2 BY <1>2
    <3>9. \A i \in 1 .. L + 1 + 1 : v[i].stage \in {"DEALT", "LIVE"}
      BY <1>5, <1>13, <1>31, <1>32, <3>5, <3>8
    <3>10. \A i \in 1 .. L + 1 + 1 : v[i].stage = "LIVE" => v[i] = y
      <4> SUFFICES ASSUME NEW i \in 1 .. L + 2, i # L + 2 PROVE v[i].stage # "LIVE"
        BY <1>5, <3>8
      <4>1. i \in 1 .. L + 1 BY <1>32
      <4> QED BY <1>31, <3>5, <4>1
    <3> QED BY <3>2, <3>6, <3>7, <3>9, <3>10 DEF Played, Opens
  <2> QED BY <2>2, <2>3
<1>14. \A i \in 1 .. Len(q) : Leads(q[i], v[i], v[i + 1], c) BY <1>3, <1>7
<1>15. v[Len(q) + 1] = y BY <1>5, <1>9
<1>16. \A i \in 1 .. Len(q) + 1 : Within(v[i], y) BY <1>9, <1>11
<1>17. Stands(c, v[1]) BY <1>1, <1>8
<1>18. /\ y.stage = "DEALT" => StillDealt(q, v, Len(q), y)
       /\ y.stage = "LIVE" => Played(q, v, Len(q), c, script)
  BY <1>3, <1>12, <1>13
<1> QED BY <1>3, <1>4, <1>5, <1>14, <1>15, <1>16, <1>17, <1>18 DEF Reading, w

(* The room sends again what it has sent before.                           *)
LEMMA ReadingAgain ==
    ASSUME NEW last, NEW wire, NEW c, NEW x, NEW script, Reading(last, wire, c, x, script),
           NEW old \in Seq(Messages), \A i \in DOMAIN old : old[i].seq <= last
    PROVE  Reading(last, wire \o old, c, x, script)
BY CarriesAgain DEF Reading

(* The script matters while the round is played.                           *)
LEMMA ReadingScript ==
    ASSUME NEW last, NEW wire, NEW c, NEW x, NEW script, Reading(last, wire, c, x, script),
           x.stage # "LIVE", NEW other
    PROVE  Reading(last, wire, c, x, other)
BY DEF Reading

(* What is known of the round may be forgotten.                            *)
LEMMA ReadingOff ==
    ASSUME NEW last, NEW wire, NEW c, NEW x \in Views, NEW script,
           Reading(last, wire, c, x, script)
    PROVE  Reading(last, wire, c, [x EXCEPT !.stage = "OFF"], script)
<1>1. PICK queue \in Seq(Bodies), views \in [Nat -> Views] :
        /\ Carries(wire, last, c.processed, queue)
        /\ \A i \in 1 .. Len(queue) : Leads(queue[i], views[i], views[i + 1], c)
        /\ Stands(c, views[1]) /\ views[Len(queue) + 1] = x
        /\ \A i \in 1 .. Len(queue) + 1 : Within(views[i], x)
  BY DEF Reading
<1> DEFINE L == Len(queue)
           y == [x EXCEPT !.stage = "OFF"]
           v == [i \in Nat |-> IF i = L + 1 THEN y ELSE views[i]]
<1>2. L \in Nat BY <1>1
<1>3. /\ y \in Views /\ y.stage = "OFF" /\ y.match = x.match /\ y.phase = x.phase
      /\ y.heard = x.heard /\ y.owed = x.owed
  BY DEF Views, Stages
<1> HIDE DEF y, L
<1>4. /\ v \in [Nat -> Views] /\ v[L + 1] = y
      /\ \A i \in Nat : i # L + 1 => v[i] = views[i]
  BY <1>2, <1>3
<1> HIDE DEF v
<1>5. ASSUME NEW i \in 1 .. L
      PROVE  Leads(queue[i], v[i], v[i + 1], c)
  <2>1. i \in Nat /\ i # L + 1 /\ i + 1 \in Nat BY <1>2
  <2>2. Leads(queue[i], views[i], views[i + 1], c) BY <1>1 DEF L
  <2>3. CASE i = L
    <3>1. views[i + 1] = x /\ v[i + 1] = y BY <1>1, <1>4, <2>3 DEF L
    <3> QED BY <1>3, <1>4, <2>1, <2>2, <3>1 DEF Leads, Turns
  <2>4. CASE i # L
    <3>1. i + 1 # L + 1 BY <1>2, <2>4
    <3> QED BY <1>4, <2>1, <2>2, <3>1
  <2> QED BY <2>3, <2>4
<1>6. Stands(c, v[1])
  <2>1. CASE L = 0
    <3>1. views[1] = x /\ v[1] = y BY <1>1, <1>4, <2>1 DEF L
    <3> QED BY <1>1, <1>3, <3>1 DEF Stands
  <2>2. CASE L # 0
    <3>1. 1 # L + 1 BY <1>2, <2>2
    <3> QED BY <1>1, <1>4, <3>1
  <2> QED BY <2>1, <2>2
<1>7. ASSUME NEW i \in 1 .. L + 1
      PROVE  Within(v[i], y)
  <2>1. i \in Nat BY <1>2
  <2>2. Within(views[i], x) BY <1>1 DEF L
  <2>3. CASE i = L + 1
    <3>1. v[i] = y /\ views[i] = x BY <1>1, <1>4, <2>3 DEF L
    <3> QED BY <1>3, <2>2, <3>1 DEF Within
  <2>4. CASE i # L + 1 BY <1>3, <1>4, <2>1, <2>2, <2>4 DEF Within
  <2> QED BY <2>3, <2>4
<1>8. Reading(last, wire, c, y, script)
  BY <1>1, <1>3, <1>4, <1>5, <1>6, <1>7 DEF Reading, L
<1> QED BY <1>8 DEF y

-----------------------------------------------------------------------------
(* The browser takes a message.                                            *)

(* What a result changes.                                                  *)
LEMMA OnResultFacts ==
    ASSUME NEW c, CliSound(c), NEW body \in Bodies, body.type = "ACTION_RESULT",
           ~OnMessage(c, body).failed
    PROVE  LET d == OnMessage(c, body) IN
           /\ d.match = c.match /\ d.phase = c.phase /\ d.ui = c.ui
           /\ d.processed = c.processed /\ d.count = c.count
           /\ d.pending = c.pending \ Pending(c, body.id)
           /\ body.verdict.reconcile = "NONE" => d.game = c.game
<1> DEFINE settled == Settled(c, body.id)
           reconcile == body.verdict.reconcile
           own == Pending(c, body.id)
           action == CHOOSE p \in own : TRUE
           plan == Plan(reconcile, Cardinality(settled.pending))
           checked == own # {} /\ c.game # NoBoard /\ plan # "DEFER"
           pre == action.pre
           back == IF checked /\ plan = "ROLLBACK"
                   THEN [settled EXCEPT !.game = pre] ELSE settled
           d == OnMessage(c, body)
<1>1. d = IF plan = "WAIT" THEN [settled EXCEPT !.snap = TRUE]
          ELSE IF /\ checked
                  /\ \/ back.game # body.verdict.hash
                     \/ plan = "VERIFY" /\ back.game # action.optimistic
               THEN FailIntegrity(back)
          ELSE back
  BY DEF OnMessage, OnResult
<1>2. reconcile = "NONE" => plan # "ROLLBACK" /\ plan # "WAIT" BY DEF Plan
<1>3. settled = [c EXCEPT !.pending = c.pending \ own] BY DEF Settled, CliSound, CliType
<1> HIDE DEF settled, own, plan, pre, d, action
<1>4. c \in CliType BY DEF CliSound
<1>5. /\ settled.match = c.match /\ settled.phase = c.phase /\ settled.ui = c.ui
      /\ settled.processed = c.processed /\ settled.count = c.count
      /\ settled.pending = c.pending \ own /\ settled.game = c.game
      /\ DOMAIN settled = DOMAIN c
  BY <1>3, <1>4 DEF CliType
<1>6. DOMAIN c = {"game", "pending", "snap", "processed", "phase", "match", "count",
                  "failed", "ui"}
  BY <1>4 DEF CliType
<1>7. /\ back.match = c.match /\ back.phase = c.phase /\ back.ui = c.ui
      /\ back.processed = c.processed /\ back.count = c.count
      /\ back.pending = c.pending \ own /\ DOMAIN back = DOMAIN c
      /\ plan # "ROLLBACK" => back.game = c.game
  BY <1>5, <1>6
<1> HIDE DEF checked, back
<1>8. d = FailIntegrity(back) => d.failed = TRUE BY <1>6, <1>7 DEF FailIntegrity
<1>9. (d = [settled EXCEPT !.snap = TRUE] /\ plan = "WAIT") \/ d = back
  BY <1>1, <1>8 DEF d
<1> QED BY <1>2, <1>5, <1>6, <1>7, <1>9 DEF d, own

LEMMA OnMessageFacts ==
    ASSUME NEW c, CliSound(c), NEW body \in Bodies, ~OnMessage(c, body).failed
    PROVE  LET d == OnMessage(c, body) IN
           /\ d.match = IF body.type \in NamesMatch THEN body.match ELSE c.match
           /\ d.phase = Seen(body, c.phase) /\ d.ui = c.ui
           /\ d.processed = c.processed /\ d.count = c.count
           /\ d.pending \subseteq c.pending
           /\ body.type = "ROOM_STATE" => d.game = c.game /\ d.pending = c.pending
           /\ body.type = "COUNTDOWN" => d.game = Dealt(body.round) /\ d.pending = {}
           /\ body.type = "ROUND_ACTIVE" => d.game = IF c.game = NoBoard THEN c.game
                                                     ELSE Open(c.game)
           /\ body.type = "SNAPSHOT" => /\ d.pending = {}
                                        /\ body.board # NoBoard => d.game = body.board
           /\ body.type = "ACTION_RESULT" =>
                 /\ d.pending = c.pending \ Pending(c, body.id)
                 /\ body.verdict.reconcile = "NONE" => d.game = c.game
<1> DEFINE d == OnMessage(c, body)
<1>1. c \in CliType BY DEF CliSound
<1>2. body.type \in EventTypes \cup {"SNAPSHOT", "ACTION_RESULT"} BY BodyFacts
<1>3. CASE body.type = "ACTION_RESULT"
  BY <1>3, OnResultFacts DEF Seen, NamesMatch
<1>4. CASE body.type = "WELCOME"
  <2>1. d = [c EXCEPT !.match = body.match, !.phase = "LOBBY"] BY <1>4 DEF OnMessage
  <2> QED BY <1>1, <1>4, <2>1 DEF CliType, Seen, NamesMatch
<1>5. CASE body.type = "ROOM_STATE"
  <2>1. d = [c EXCEPT !.match = body.match, !.phase = Shown(c, body.phase)]
    BY <1>5 DEF OnMessage
  <2> QED BY <1>1, <1>5, <2>1 DEF CliType, Seen, NamesMatch, Shown
<1>6. CASE body.type = "COUNTDOWN"
  <2>1. d = [c EXCEPT !.game = Dealt(body.round), !.pending = {}, !.snap = FALSE,
                      !.phase = "COUNTDOWN"]
    BY <1>6 DEF OnMessage
  <2> QED BY <1>1, <1>6, <2>1 DEF CliType, Seen, NamesMatch
<1>7. CASE body.type = "ROUND_ACTIVE"
  <2> DEFINE game == IF c.game = NoBoard THEN c.game ELSE Open(c.game)
  <2>1. d = [c EXCEPT !.game = game, !.phase = "ACTIVE"]
    BY <1>1, <1>7 DEF OnMessage, CliType
  <2> HIDE DEF game, d
  <2>2. d.game = game /\ d.phase = "ACTIVE" /\ d.match = c.match /\ d.ui = c.ui
        /\ d.processed = c.processed /\ d.count = c.count /\ d.pending = c.pending
    BY <1>1, <2>1 DEF CliType
  <2> QED BY <1>7, <2>2 DEF Seen, NamesMatch, game, d
<1>8. CASE body.type \in {"ROUND_RESULT", "MATCH_RESULT"}
  <2>1. d = [c EXCEPT !.phase = body.type] BY <1>8 DEF OnMessage
  <2> QED BY <1>1, <1>8, <2>1 DEF CliType, Seen, NamesMatch
<1>9. CASE body.type = "REMATCH_STARTED"
  <2>1. d = [c EXCEPT !.match = body.match, !.game = NoBoard, !.pending = {},
                      !.snap = FALSE, !.phase = "LOBBY"]
    BY <1>9 DEF OnMessage
  <2> QED BY <1>1, <1>9, <2>1 DEF CliType, Seen, NamesMatch
<1>10. CASE body.type = "SNAPSHOT"
  <2> DEFINE game == IF body.board = NoBoard THEN c.game ELSE body.board
  <2>1. d = [c EXCEPT !.snap = FALSE, !.pending = {}, !.match = body.match,
                      !.game = game, !.phase = Shown(c, body.phase)]
    BY <1>1, <1>10 DEF OnMessage, OnSnapshot, CliType
  <2> HIDE DEF game, d
  <2>2. /\ d.game = game /\ d.phase = Shown(c, body.phase) /\ d.match = body.match
        /\ d.pending = {} /\ d.ui = c.ui
        /\ d.processed = c.processed /\ d.count = c.count
    BY <1>1, <2>1 DEF CliType
  <2> QED BY <1>10, <2>2 DEF Seen, NamesMatch, Shown, game, d
<1> QED BY <1>2, <1>3, <1>4, <1>5, <1>6, <1>7, <1>8, <1>9, <1>10 DEF EventTypes

(* The browser stands at the next view.                                    *)
LEMMA OnMessageStands ==
    ASSUME NEW c, CliSound(c), NEW body \in Bodies, NEW x \in Views, NEW y \in Views,
           Stands(c, x), Leads(body, x, y, c), Within(y, y),
           CliSound(OnMessage(c, body))
    PROVE  Stands(OnMessage(c, body), y)
<1> DEFINE d == OnMessage(c, body)
<1>1. ~d.failed BY DEF CliSound
<1>2. /\ d.match = IF body.type \in NamesMatch THEN body.match ELSE c.match
      /\ d.phase = Seen(body, c.phase)
      /\ d.count = c.count /\ d.pending \subseteq c.pending
      /\ body.type = "ROOM_STATE" => d.game = c.game /\ d.pending = c.pending
      /\ body.type = "COUNTDOWN" => d.game = Dealt(body.round) /\ d.pending = {}
      /\ body.type = "SNAPSHOT" => /\ d.pending = {}
                                   /\ body.board # NoBoard => d.game = body.board
      /\ body.type = "ACTION_RESULT" =>
            /\ d.pending = c.pending \ Pending(c, body.id)
            /\ body.verdict.reconcile = "NONE" => d.game = c.game
  BY <1>1, OnMessageFacts
<1> HIDE DEF d
<1>4. d.match = y.match /\ d.phase = y.phase BY <1>2 DEF Stands, Leads
<1>5. /\ x.heard \in Nat /\ y.heard \in Nat /\ c.count \in Nat
      /\ \A p \in c.pending : p.id \in Nat
  BY DEF Views, CliSound, CliType, Actions
<1>6. y.heard <= d.count /\ \A p \in d.pending : p.id > y.heard
  <2>1. CASE body.type = "ACTION_RESULT"
    <3>1. y.heard = x.heard + 1 /\ body.id = y.heard /\ y.heard <= c.count
      BY <2>1 DEF Leads
    <3>2. \A p \in d.pending : p \in c.pending /\ p.id # body.id
      BY <1>2, <2>1 DEF Pending
    <3> QED BY <1>2, <1>5, <3>1, <3>2 DEF Stands
  <2>2. CASE body.type # "ACTION_RESULT"
    <3>1. y.heard = x.heard BY <2>2 DEF Leads
    <3> QED BY <1>2, <3>1 DEF Stands
  <2> QED BY <2>1, <2>2
<1>7. ASSUME y.stage \in {"DEALT", "DEAD"}, ~y.owed, d.pending = {}
      PROVE  d.game = y.board
  <2>1. y.board \in Boards /\ y.board # NoBoard BY <1>7, GameAssumption DEF Within
  <2>2. CASE body.type = "COUNTDOWN"
    <3>1. y.stage = "DEALT" /\ y.board = Dealt(body.round)
      BY <1>7, <2>2 DEF Leads, Turns, Rests
    <3> QED BY <1>2, <2>2, <3>1
  <2>3. CASE body.type # "COUNTDOWN"
    <3>1. /\ x.stage = y.stage /\ y.board = x.board /\ Rests(body, x, c)
      <4>1. ~(body.type = "ACTION_RESULT" /\ body.verdict.reconcile # "NONE")
        BY <1>7 DEF Leads
      <4> QED BY <1>7, <2>3, <4>1 DEF Leads, Turns
    <3>2. CASE body.type = "SNAPSHOT"
      BY <1>2, <2>1, <3>1, <3>2 DEF Rests
    <3>3. CASE body.type = "ROOM_STATE"
      <4>1. ~x.owed BY <1>7, <3>3 DEF Leads, Views
      <4> QED BY <1>2, <1>7, <3>1, <3>3, <4>1 DEF Stands
    <3>4. CASE body.type = "ACTION_RESULT"
      <4>1. ~x.owed /\ body.verdict.reconcile = "NONE" BY <1>7, <3>4 DEF Leads, Views
      <4>2. Pending(c, body.id) = {} BY <3>1, <3>4, <4>1 DEF Rests, Pending
      <4>3. c.pending = {} /\ d.game = c.game BY <1>2, <1>7, <3>4, <4>1, <4>2
      <4> QED BY <1>7, <3>1, <4>1, <4>3 DEF Stands
    <3> QED BY <3>1, <3>2, <3>3, <3>4 DEF Rests
  <2> QED BY <2>2, <2>3
<1> QED BY <1>4, <1>6, <1>7 DEF Stands, d

(* While the round is played, the next message keeps to the script.        *)
LEMMA OnMessagePlays ==
    ASSUME NEW c, CliSound(c), NEW body \in Bodies, NEW x \in Views, NEW y \in Views,
           Stands(c, x), Leads(body, x, y, c), Within(x, x),
           CliSound(OnMessage(c, body)), body.type # "COUNTDOWN",
           x.stage \in {"DEALT", "LIVE"}, y.stage \in {"DEALT", "LIVE"}, NEW script,
           x.stage = "LIVE" => c.game = script.board[c.count],
           x.stage = "DEALT" => Open(x.board) = script.board[c.count],
           x.stage = "DEALT" /\ y.stage = "LIVE" => \A p \in c.pending : p.id <= y.heard
    PROVE  LET d == OnMessage(c, body) IN
           /\ y.stage = "LIVE" => d.game = script.board[d.count]
           /\ y.stage = "DEALT" => x.stage = "DEALT" /\ y.board = x.board
<1> DEFINE d == OnMessage(c, body)
<1>1. ~d.failed BY DEF CliSound
<1>2. /\ d.count = c.count
      /\ body.type = "ROOM_STATE" => d.game = c.game
      /\ body.type = "ROUND_ACTIVE" => d.game = IF c.game = NoBoard THEN c.game
                                                ELSE Open(c.game)
      /\ body.type = "ACTION_RESULT" /\ body.verdict.reconcile = "NONE" => d.game = c.game
  BY <1>1, OnMessageFacts
<1> HIDE DEF d
<1>3. ASSUME y.stage = "LIVE" PROVE d.game = script.board[d.count]
  <2>1. CASE x.stage = "LIVE"
    <3>1. d.game = c.game BY <1>2, <1>3, <2>1 DEF Leads, Turns
    <3> QED BY <1>2, <2>1, <3>1
  <2>2. CASE x.stage = "DEALT"
    <3>1. body.type = "ROUND_ACTIVE" /\ ~x.owed BY <1>3, <2>2 DEF Leads, Turns
    <3>2. y.heard = x.heard BY <3>1 DEF Leads
    <3>3. \A p \in c.pending : p.id \in Nat /\ p.id > x.heard /\ p.id <= x.heard
      BY <1>3, <2>2, <3>2 DEF Stands, CliSound, CliType, Actions
    <3>4. c.pending = {} BY <3>3, ViewFacts
    <3>5. c.game = x.board /\ x.board \in Boards BY <2>2, <3>1, <3>4 DEF Stands, Within
    <3> QED BY <1>2, <2>2, <3>1, <3>5, GameAssumption
  <2> QED BY <2>1, <2>2
<1>4. ASSUME y.stage = "DEALT" PROVE x.stage = "DEALT" /\ y.board = x.board
  BY <1>4 DEF Leads, Turns
<1> QED BY <1>3, <1>4 DEF d

(* The browser takes the next message: it is old, or leads to the next     *)
(* view.                                                                   *)
LEMMA ReadingMessage ==
    ASSUME NEW last, NEW wire, NEW c, NEW x \in Views, NEW script,
           Reading(last, wire, c, x, script), wire # <<>>, CliSound(c),
           CliSound(HandleMessage(c, Head(wire)))
    PROVE  LET d == HandleMessage(c, Head(wire)) IN
           /\ Reading(last, Tail(wire), d, x, script)
           /\ d.ui = c.ui /\ c.match <= d.match /\ c.processed <= d.processed
<1> DEFINE m == Head(wire)
           w == Tail(wire)
           d == HandleMessage(c, m)
<1>1. PICK queue \in Seq(Bodies), views \in [Nat -> Views] :
        /\ Carries(wire, last, c.processed, queue)
        /\ \A i \in 1 .. Len(queue) : Leads(queue[i], views[i], views[i + 1], c)
        /\ Stands(c, views[1]) /\ views[Len(queue) + 1] = x
        /\ \A i \in 1 .. Len(queue) + 1 : Within(views[i], x)
        /\ x.stage = "DEALT" => StillDealt(queue, views, Len(queue), x)
        /\ x.stage = "LIVE" => Played(queue, views, Len(queue), c, script)
  BY DEF Reading
<1>2. /\ m \in Messages
      /\ \/ m.seq <= c.processed /\ Carries(w, last, c.processed, queue)
         \/ /\ m.seq = c.processed + 1 /\ queue # <<>> /\ m.body = Head(queue)
            /\ Carries(w, last, c.processed + 1, Tail(queue))
  BY <1>1, CarriesNext
<1> HIDE DEF m, w
<1>3. c \in CliType /\ c.processed \in Nat /\ c.match \in Nat /\ m.body \in Bodies
  <2>1. c \in CliType BY DEF CliSound
  <2>2. c.match \in 1 .. MaxMatch /\ MaxMatch \in Nat BY <2>1, BoundAssumption DEF CliType
  <2> QED BY <1>2, <2>1, <2>2, MessageFacts DEF CliType
<1>4. CASE m.seq <= c.processed /\ Carries(w, last, c.processed, queue)
  <2>1. d = c BY <1>4 DEF HandleMessage, Duplicate
  <2>2. Reading(last, w, c, x, script) BY <1>1, <1>4 DEF Reading
  <2> QED BY <1>3, <2>1, <2>2 DEF m, w
<1>5. CASE /\ m.seq = c.processed + 1 /\ queue # <<>> /\ m.body = Head(queue)
           /\ Carries(w, last, c.processed + 1, Tail(queue))
  <2> DEFINE L == Len(queue)
             q == Tail(queue)
             v == [i \in Nat |-> views[i + 1]]
             b == [c EXCEPT !.processed = m.seq]
             body == m.body
  <2>1. L \in Nat /\ L >= 1 BY <1>5
  <2>2. /\ body = queue[1] /\ q \in Seq(Bodies) /\ Len(q) = L - 1
        /\ \A i \in 1 .. L - 1 : q[i] = queue[i + 1]
    <3>1. /\ Head(queue) = queue[1] /\ q \in Seq(Bodies) /\ Len(q) = L - 1
          /\ \A i \in 1 .. Len(q) : q[i] = queue[i + 1]
      BY <1>5, HeadTailProperties
    <3> HIDE DEF q, L
    <3> QED BY <1>5, <3>1
  <2> HIDE DEF L, q
  <2>3. v \in [Nat -> Views] /\ \A i \in Nat : v[i] = views[i + 1] BY <1>1
  <2> HIDE DEF v
  <2>4. d = OnMessage(b, body)
    BY <1>2, <1>3, <1>5, MessageFacts DEF HandleMessage, Duplicate, Gap
  <2>5. /\ b \in CliType /\ b.processed = m.seq /\ b.count = c.count /\ b.ui = c.ui
        /\ b.pending = c.pending /\ b.snap = c.snap /\ b.game = c.game
        /\ b.failed = c.failed /\ b.match = c.match /\ b.phase = c.phase
    BY <1>2, <1>3, MessageFacts DEF CliType
  <2> HIDE DEF b, body
  <2>6. CliSound(b) BY <2>5 DEF CliSound, FirstUnopened, LastPlayed
  <2>7. body \in Bodies /\ CliSound(d) BY <1>3 DEF body, m
  <2> HIDE DEF d
  <2>8. /\ views[1] \in Views /\ views[2] \in Views /\ 1 \in 1 .. L /\ 1 + 1 = 2
        /\ 1 \in 1 .. L + 1 /\ 2 \in 1 .. L + 1
    BY <1>1, <2>1
  <2>9. Leads(body, views[1], views[2], c) /\ Stands(c, views[1])
        /\ Within(views[1], x) /\ Within(views[2], x)
    BY <1>1, <2>2, <2>8 DEF L
  <2>10. Leads(body, views[1], views[2], b) /\ Stands(b, views[1])
         /\ Within(views[1], views[1]) /\ Within(views[2], views[2])
    BY <2>5, <2>8, <2>9, ViewFacts DEF Leads, Turns, Rests, Stands, Within
  <2>11. Stands(d, views[2]) BY <2>4, <2>6, <2>7, <2>8, <2>10, OnMessageStands
  <2>12. /\ d.ui = c.ui /\ d.processed = m.seq /\ d.count = c.count
         /\ d.pending \subseteq c.pending
    BY <2>4, <2>5, <2>6, <2>7, OnMessageFacts DEF CliSound
  <2>13. c.match <= d.match BY <2>9, <2>11 DEF Stands, Leads
  <2>14. ASSUME NEW i \in 1 .. L - 1
         PROVE  Leads(q[i], v[i], v[i + 1], d)
    <3>1. i \in Nat /\ i + 1 \in Nat /\ i + 1 \in 1 .. L BY <2>1
    <3>2. Leads(queue[i + 1], views[i + 1], views[i + 1 + 1], c) BY <1>1, <3>1 DEF L
    <3>3. q[i] = queue[i + 1] /\ v[i] = views[i + 1] /\ v[i + 1] = views[i + 1 + 1]
      BY <2>2, <2>3, <3>1
    <3> HIDE DEF q
    <3> QED BY <2>12, <3>2, <3>3 DEF Leads, Turns, Rests
  <2>15. v[1] = views[2] /\ v[Len(q) + 1] = x
    <3>1. v[1] = views[1 + 1] /\ v[L] = views[L + 1] BY <2>1, <2>3
    <3>2. Len(q) + 1 = L BY <2>1, <2>2
    <3>3. views[L + 1] = x BY <1>1 DEF L
    <3> QED BY <2>8, <3>1, <3>2, <3>3
  <2>16. ASSUME NEW i \in 1 .. L PROVE i + 1 \in 1 .. L + 1 /\ v[i] = views[i + 1]
    <3>1. i \in Nat /\ i + 1 \in 1 .. L + 1 BY <2>1
    <3> QED BY <2>3, <3>1
  <2>17. ASSUME NEW i \in 1 .. L PROVE Within(v[i], x) BY <1>1, <2>16 DEF L
  <2>18. ASSUME x.stage = "DEALT" PROVE StillDealt(q, v, L - 1, x)
    <3> SUFFICES ASSUME NEW i \in 1 .. L, \A k \in i .. L - 1 : q[k].type # "COUNTDOWN"
                 PROVE  v[i].stage = "DEALT" /\ v[i].board = x.board
      BY <2>1 DEF StillDealt
    <3>1. \A k \in i + 1 .. L : k - 1 \in i .. L - 1 /\ k - 1 \in 1 .. L - 1 /\ k - 1 + 1 = k
      BY <2>1
    <3>2. \A k \in i + 1 .. L : queue[k].type # "COUNTDOWN" BY <2>2, <3>1
    <3> QED BY <1>1, <2>16, <2>18, <3>2 DEF StillDealt, L
  <2>19. ASSUME x.stage = "LIVE" PROVE Played(q, v, L - 1, d, script)
    <3>1. Played(queue, views, L, c, script) BY <1>1, <2>19 DEF L
    <3>2. \A k \in 1 .. L - 1 : q[k].type # "COUNTDOWN"
      <4>1. \A k \in 1 .. L - 1 : k + 1 \in 1 .. L BY <2>1
      <4> QED BY <2>2, <3>1, <4>1 DEF Played
    <3>3. \A i \in 1 .. L : v[i].stage \in {"DEALT", "LIVE"} BY <2>16, <3>1 DEF Played
    <3>4. /\ body.type # "COUNTDOWN"
          /\ views[1].stage \in {"DEALT", "LIVE"} /\ views[2].stage \in {"DEALT", "LIVE"}
          /\ views[1].stage = "LIVE" => c.game = script.board[c.count]
          /\ views[1].stage = "DEALT" => Open(views[1].board) = script.board[c.count]
          /\ views[1].stage = "DEALT" /\ views[2].stage = "LIVE"
                => \A p \in c.pending : p.id <= views[2].heard
      BY <2>2, <2>8, <3>1 DEF Played
    <3>5. /\ views[2].stage = "LIVE" => d.game = script.board[d.count]
          /\ views[2].stage = "DEALT" =>
                views[1].stage = "DEALT" /\ views[2].board = views[1].board
      BY <2>4, <2>5, <2>6, <2>7, <2>8, <2>10, <3>4, OnMessagePlays
    <3>6. ASSUME v[1].stage = "DEALT"
          PROVE  /\ d.ui.phase # "ACTIVE" /\ Open(v[1].board) = script.board[d.count]
                 /\ \A i \in 1 .. L :
                       v[i].stage = "LIVE" => \A p \in d.pending : p.id <= v[i].heard
      <4>1. views[1].stage = "DEALT" /\ v[1].board = views[1].board BY <2>15, <3>5, <3>6
      <4> QED BY <2>12, <2>16, <3>1, <4>1 DEF Played
    <3>7. L - 1 + 1 = L BY <2>1
    <3> QED BY <2>15, <3>2, <3>3, <3>5, <3>6, <3>7 DEF Played
  <2>20. Reading(last, w, d, x, script)
    <3>1. L - 1 + 1 = L BY <2>1
    <3>2. Carries(w, last, d.processed, q) BY <1>5, <2>12 DEF q
    <3>3. \A i \in 1 .. Len(q) : Leads(q[i], v[i], v[i + 1], d) BY <2>2, <2>14
    <3>4. \A i \in 1 .. Len(q) + 1 : Within(v[i], x) BY <2>2, <2>17, <3>1
    <3> QED BY <2>2, <2>3, <2>11, <2>15, <2>18, <2>19, <3>2, <3>3, <3>4 DEF Reading
  <2> QED BY <1>3, <1>5, <2>12, <2>13, <2>20 DEF d, m, w
<1> QED BY <1>2, <1>4, <1>5

(* The browser sends an action: what has been said of it is of the past.   *)
LEMMA ReadingSends ==
    ASSUME NEW last, NEW wire, NEW c, CliSound(c), NEW x \in Views, NEW script,
           Reading(last, wire, c, x, script),
           NEW d, d.processed = c.processed, d.match = c.match, d.phase = c.phase,
           d.ui = c.ui, d.count = c.count + 1, NEW other,
           \/ /\ d.pending = c.pending /\ d.game = c.game
              /\ other.board[d.count] = script.board[c.count]
           \/ /\ \E new : new.id = c.count + 1 /\ d.pending = c.pending \cup {new}
              /\ c.ui.phase = "ACTIVE" /\ other.board[d.count] = d.game
    PROVE  Reading(last, wire, d, x, other)
<1>1. PICK queue \in Seq(Bodies), views \in [Nat -> Views] :
        /\ Carries(wire, last, c.processed, queue)
        /\ \A i \in 1 .. Len(queue) : Leads(queue[i], views[i], views[i + 1], c)
        /\ Stands(c, views[1]) /\ views[Len(queue) + 1] = x
        /\ \A i \in 1 .. Len(queue) + 1 : Within(views[i], x)
        /\ x.stage = "DEALT" => StillDealt(queue, views, Len(queue), x)
        /\ x.stage = "LIVE" => Played(queue, views, Len(queue), c, script)
  BY DEF Reading
<1> DEFINE L == Len(queue)
<1>2. c.count \in Nat /\ views[1] \in Views /\ L \in Nat
  BY <1>1 DEF CliSound, CliType
<1>3. \/ d.pending = c.pending
      \/ \E new : new.id = c.count + 1 /\ d.pending = c.pending \cup {new}
  OBVIOUS
<1>4. ASSUME NEW i \in 1 .. L
      PROVE  Leads(queue[i], views[i], views[i + 1], d)
  <2> DEFINE b == queue[i]
             v == views[i]
             z == views[i + 1]
  <2>1. Leads(b, v, z, c) /\ b \in Bodies /\ v \in Views /\ z \in Views
    <3>1. i \in Nat /\ i + 1 \in Nat BY <1>2
    <3> QED BY <1>1, <3>1
  <2> HIDE DEF b, v, z
  <2>2. b.type = "ACTION_RESULT" => b.id \in Nat /\ b.id <= c.count
    BY <2>1, BodyFacts DEF Leads
  <2>3. b.type = "ACTION_RESULT" => b.id <= d.count /\ b.id # c.count + 1
    BY <1>2, <2>2
  <2>4. Rests(b, v, c) => Rests(b, v, d) BY <1>3, <2>3 DEF Rests
  <2>5. Turns(b, v, z, c) => Turns(b, v, z, d) BY <2>4 DEF Turns
  <2> QED BY <2>1, <2>3, <2>5 DEF Leads, b, v, z
<1>5. Stands(d, views[1])
  <2>1. views[1].heard \in Nat /\ views[1].heard <= c.count BY <1>1, <1>2, ViewFacts DEF Stands
  <2>2. views[1].heard <= d.count /\ c.count + 1 > views[1].heard BY <1>2, <2>1
  <2>3. \A p \in d.pending : p.id > views[1].heard
    BY <1>1, <1>3, <2>2 DEF Stands
  <2>4. d.pending = {} => c.pending = {} /\ d.game = c.game OBVIOUS
  <2> QED BY <1>1, <2>2, <2>3, <2>4 DEF Stands
<1>6. ASSUME x.stage = "LIVE"
      PROVE  Played(queue, views, L, d, other)
  <2>1. Played(queue, views, L, c, script) BY <1>1, <1>6
  <2> HIDE DEF L
  <2>2. views[1].stage = "LIVE" => d.game = other.board[d.count] BY <2>1 DEF Played
  <2>3. views[1].stage = "DEALT" =>
           d.pending = c.pending /\ other.board[d.count] = script.board[c.count]
    BY <2>1 DEF Played
  <2> QED BY <2>1, <2>2, <2>3 DEF Played
<1> QED BY <1>1, <1>4, <1>5, <1>6 DEF Reading

(* The browser shows what it has read: never a dealt round as active.      *)
LEMMA ReadingRender ==
    ASSUME NEW last, NEW wire, NEW c, NEW x \in Views, NEW script,
           Reading(last, wire, c, x, script),
           NEW d, d.processed = c.processed, d.match = c.match, d.phase = c.phase,
           d.ui.phase = c.phase, d.count = c.count, d.pending = c.pending, d.game = c.game
    PROVE  Reading(last, wire, d, x, script)
<1>1. PICK queue \in Seq(Bodies), views \in [Nat -> Views] :
        /\ Carries(wire, last, c.processed, queue)
        /\ \A i \in 1 .. Len(queue) : Leads(queue[i], views[i], views[i + 1], c)
        /\ Stands(c, views[1]) /\ views[Len(queue) + 1] = x
        /\ \A i \in 1 .. Len(queue) + 1 : Within(views[i], x)
        /\ x.stage = "DEALT" => StillDealt(queue, views, Len(queue), x)
        /\ x.stage = "LIVE" => Played(queue, views, Len(queue), c, script)
  BY DEF Reading
<1> DEFINE L == Len(queue)
<1>2. \A i \in 1 .. L : Leads(queue[i], views[i], views[i + 1], d)
  BY <1>1 DEF Leads, Turns, Rests
<1>3. Stands(d, views[1]) BY <1>1 DEF Stands
<1>4. views[1].stage = "DEALT" => d.ui.phase # "ACTIVE"
  <2>1. 1 \in 1 .. L + 1 BY <1>1
  <2> QED BY <1>1, <2>1 DEF Within, Stands
<1>5. x.stage = "LIVE" => Played(queue, views, L, d, script)
  <2> HIDE DEF L
  <2> SUFFICES ASSUME x.stage = "LIVE" PROVE Played(queue, views, L, d, script)
    OBVIOUS
  <2>1. Played(queue, views, L, c, script) BY <1>1 DEF L
  <2> QED BY <1>4, <2>1 DEF Played
<1> QED BY <1>1, <1>2, <1>3, <1>5 DEF Reading

-----------------------------------------------------------------------------
(* The room, as the browser will see it.                                   *)

(* The player is ready, or his round is dealt or played.                   *)
Engaged(s) == s.ready \/ s.phase \in {"COUNTDOWN", "ACTIVE"}

(* The room on its first connection, in the match k if it is engaged.      *)
Based(s, w, c, k) ==
    /\ Wired(s) /\ s.epoch = 1
    /\ Engaged(s) => s.match = k
    /\ w \in Seq(Messages) /\ c \in CliType

(* The view x is that of the room; z: delivery may have lagged behind.     *)
Depicts(x, s, z, script) ==
    /\ x.match = s.match
    /\ s.phase \in UiPhases => x.phase = s.phase
    /\ x.stage = "OFF" => z \/ s.phase \notin {"COUNTDOWN", "ACTIVE"}
    /\ x.stage = "DEALT" => s.phase = "COUNTDOWN"
    /\ x.stage \in {"LIVE", "DEAD"} => s.phase = "ACTIVE"
    /\ x.stage \in {"DEALT", "DEAD"} => x.board = s.board
    /\ x.stage = "DEAD" => s.expired \/ s.board \in Finished
    /\ x.stage = "LIVE" => script.on /\ s.board = script.board[x.heard]
    /\ x.stage # "OFF" => s.board \in Boards

(* Once the browser has read all it has been sent, it shows the room.      *)
Shows(s, w, c, a, z, k, script) ==
    /\ Based(s, w, c, k)
    /\ \E x \in Views :
          /\ x.heard = a /\ ~x.owed /\ Depicts(x, s, z, script)
          /\ Reading(s.seq, w \o s.sent, c, x, script)

(* ... or it will, once the room has told it its state.                    *)
Loose(s, w, c, a, k, script) ==
    /\ Based(s, w, c, k)
    /\ \E x \in Views :
          /\ x.heard = a /\ ~x.owed /\ x.stage = "OFF" /\ x.match <= s.match
          /\ Reading(s.seq, w \o s.sent, c, x, script)

LEMMA EmitReads ==
    ASSUME NEW s, NEW w, NEW c, NEW k, Based(s, w, c, k),
           NEW x \in Views, NEW script, Reading(s.seq, w \o s.sent, c, x, script),
           NEW body \in Bodies, NEW y \in Views, Leads(body, x, y, c), Within(y, y),
           y.stage = "LIVE" => x.stage = "LIVE" \/ Opens(w \o s.sent, c, x, y, script)
    PROVE  LET t == Emit(s, body) IN
           /\ Based(t, w, c, k) /\ SameRoom(s, t)
           /\ Reading(t.seq, w \o t.sent, c, y, script)
<1> DEFINE t == Emit(s, body)
           m == [seq |-> s.seq + 1, body |-> body]
           wire == w \o s.sent
<1>1. /\ Wired(t) /\ SameRoom(s, t) /\ t.seq = s.seq + 1
      /\ w \o t.sent = Append(wire, m)
  BY EmitWired DEF Based
<1> HIDE DEF t, wire
<1>2. Reading(s.seq + 1, Append(wire, m), c, y, script)
  BY ReadingNew DEF wire, Based
<1>3. Based(t, w, c, k) BY <1>1 DEF Based, SameRoom, Engaged
<1> QED BY <1>1, <1>2, <1>3 DEF t

(* What the room knows of the board may be forgotten.                      *)
LEMMA ShowsLoose ==
    ASSUME NEW s, NEW w, NEW c, NEW a, NEW z, NEW k, NEW script,
           Shows(s, w, c, a, z, k, script)
    PROVE  Loose(s, w, c, a, k, script)
<1>1. PICK x \in Views :
          /\ x.heard = a /\ ~x.owed /\ Depicts(x, s, z, script)
          /\ Reading(s.seq, w \o s.sent, c, x, script)
  BY DEF Shows
<1> DEFINE y == [x EXCEPT !.stage = "OFF"]
<1>2. Reading(s.seq, w \o s.sent, c, y, script) BY <1>1, ReadingOff
<1>3. /\ y \in Views /\ y.heard = x.heard /\ y.owed = x.owed /\ y.match = x.match
      /\ y.stage = "OFF"
  BY DEF Views, Stages
<1> HIDE DEF y
<1>4. y.match <= s.match
  <2>1. y.match \in Nat BY <1>3, ViewFacts
  <2> QED BY <1>1, <1>3, <2>1 DEF Depicts
<1> QED BY <1>1, <1>2, <1>3, <1>4 DEF Shows, Loose

(* The browser is not ahead of what it is sent.                            *)
LEMMA ReadingEnds ==
    ASSUME NEW last, NEW wire, NEW c \in CliType, NEW x \in Views, NEW script,
           Reading(last, wire, c, x, script)
    PROVE  Within(x, x) /\ c.match <= x.match /\ c.processed <= last
<1>1. PICK queue \in Seq(Bodies), views \in [Nat -> Views] :
        /\ Carries(wire, last, c.processed, queue)
        /\ Stands(c, views[1]) /\ views[Len(queue) + 1] = x
        /\ \A i \in 1 .. Len(queue) + 1 : Within(views[i], x)
  BY DEF Reading
<1>2. 1 \in 1 .. Len(queue) + 1 /\ Len(queue) + 1 \in 1 .. Len(queue) + 1 BY <1>1
<1>3. Within(views[1], x) /\ Within(x, x) BY <1>1, <1>2
<1>4. c.match <= x.match BY <1>1, <1>3 DEF Within, Stands
<1>5. c.processed \in Nat /\ last = c.processed + Len(queue) /\ Len(queue) \in Nat
  BY <1>1 DEF Carries
<1> QED BY <1>3, <1>4, <1>5

LEMMA SeenType ==
    ASSUME NEW b \in Bodies, NEW phase \in UiPhases
    PROVE  Seen(b, phase) \in UiPhases
<1>1. /\ {"LOBBY", "ACTIVE", "COUNTDOWN", "ROUND_RESULT", "MATCH_RESULT"} \subseteq UiPhases
  BY DEF UiPhases, Phases
<1>2. b.type \in EventTypes \cup {"SNAPSHOT", "ACTION_RESULT"} BY BodyFacts
<1> QED BY <1>1, <1>2 DEF Seen, EventTypes

(* Anything but an answer, while nothing is claimed of the board; the      *)
(* state of the room, or a snapshot, brings the browser up to date.        *)
LEMMA LooseTold ==
    ASSUME NEW s, NEW w, NEW c, NEW a, NEW k, NEW script, Loose(s, w, c, a, k, script),
           NEW body \in Bodies, body.type # "ACTION_RESULT", body.match = s.match, NEW z
    PROVE  /\ Loose(Emit(s, body), w, c, a, k, script)
           /\ /\ body.type \in {"ROOM_STATE", "SNAPSHOT"} /\ body.phase = s.phase
              /\ z \/ s.phase \notin {"COUNTDOWN", "ACTIVE"}
              => Shows(Emit(s, body), w, c, a, z, k, script)
<1>1. PICK x \in Views :
          /\ x.heard = a /\ ~x.owed /\ x.stage = "OFF" /\ x.match <= s.match
          /\ Reading(s.seq, w \o s.sent, c, x, script)
  BY DEF Loose
<1> DEFINE match == IF body.type \in NamesMatch THEN s.match ELSE x.match
           phase == Seen(body, x.phase)
           y == [match |-> match, phase |-> phase, heard |-> a, owed |-> FALSE,
                 stage |-> "OFF", board |-> x.board]
           t == Emit(s, body)
<1>2. Based(s, w, c, k) /\ s.match \in 1 .. MaxMatch /\ s.match \in Nat
  <2>1. Based(s, w, c, k) /\ s.match \in 1 .. MaxMatch
    BY DEF Loose, Based, Wired, SrvType
  <2> QED BY <2>1, BoundAssumption
<1>3. /\ x.match \in 1 .. MaxMatch /\ x.match \in Nat /\ x.phase \in UiPhases
      /\ a \in Nat /\ x.board \in Hashes
  BY <1>1, ViewFacts DEF Views
<1>4. phase \in UiPhases BY <1>3, SeenType
<1>5. y \in Views BY <1>2, <1>3, <1>4 DEF Views, Stages
<1>6. /\ y.heard = a /\ y.owed = FALSE /\ y.stage = "OFF"
      /\ y.match = match /\ y.phase = phase
  OBVIOUS
<1> HIDE DEF y, t
<1>7. Leads(body, x, y, c)
  <2>1. match = IF body.type \in NamesMatch THEN body.match ELSE x.match OBVIOUS
  <2>2. x.match <= match BY <1>1, <1>2, <1>3
  <2> HIDE DEF match
  <2> QED BY <1>1, <1>6, <2>1, <2>2 DEF Leads, Turns
<1>8. Within(y, y)
  <2>1. y.match \in Nat BY <1>2, <1>3, <1>6
  <2> QED BY <1>6, <2>1 DEF Within
<1>9. /\ Based(t, w, c, k) /\ SameRoom(s, t)
      /\ Reading(t.seq, w \o t.sent, c, y, script)
  BY <1>1, <1>2, <1>5, <1>7, <1>8, <1>6, EmitReads DEF t
<1>10. y.match <= t.match BY <1>1, <1>2, <1>3, <1>6, <1>9 DEF SameRoom
<1>11. Loose(t, w, c, a, k, script) BY <1>5, <1>6, <1>9, <1>10 DEF Loose
<1>12. ASSUME body.type \in {"ROOM_STATE", "SNAPSHOT"}, body.phase = s.phase,
              z \/ s.phase \notin {"COUNTDOWN", "ACTIVE"}
       PROVE  Shows(t, w, c, a, z, k, script)
  <2>1. t.match = s.match /\ t.phase = s.phase BY <1>9 DEF SameRoom
  <2>2. y.match = s.match BY <1>6, <1>12 DEF NamesMatch
  <2>3. s.phase \in UiPhases => y.phase = s.phase BY <1>6, <1>12 DEF Seen
  <2>4. Depicts(y, t, z, script) BY <1>6, <1>12, <2>1, <2>2, <2>3 DEF Depicts
  <2> QED BY <1>5, <1>6, <1>9, <2>4 DEF Shows
<1> QED BY <1>11, <1>12 DEF t

LEMMA LooseTell ==
    ASSUME NEW s, NEW w, NEW c, NEW a, NEW k, NEW script, Loose(s, w, c, a, k, script),
           NEW type \in EventTypes
    PROVE  Loose(Tell(s, type), w, c, a, k, script)
<1> DEFINE body == Event(s, type)
<1>1. /\ body \in Bodies /\ body.type # "ACTION_RESULT" /\ body.match = s.match
  BY DEF Event, Bodies, EventTypes, Loose, Based, Wired, SrvType
<1> HIDE DEF body
<1> QED BY <1>1, LooseTold DEF Tell, body

LEMMA LooseState ==
    ASSUME NEW s, NEW w, NEW c, NEW a, NEW k, NEW script, Loose(s, w, c, a, k, script),
           NEW z, z \/ s.phase \notin {"COUNTDOWN", "ACTIVE"}
    PROVE  Shows(RoomState(s), w, c, a, z, k, script)
<1> DEFINE body == Event(s, "ROOM_STATE")
<1>1. /\ body \in Bodies /\ body.type = "ROOM_STATE" /\ body.match = s.match
      /\ body.phase = s.phase
  BY DEF Event, Bodies, EventTypes, Loose, Based, Wired, SrvType
<1> HIDE DEF body
<1> QED BY <1>1, LooseTold DEF RoomState, Tell, body

LEMMA LooseSnapshot ==
    ASSUME NEW s, NEW w, NEW c, NEW a, NEW k, NEW script, Loose(s, w, c, a, k, script)
    PROVE  Loose(SendSnapshot(s), w, c, a, k, script)
<1> DEFINE body == [type |-> "SNAPSHOT", match |-> s.match, phase |-> s.phase,
                    round |-> s.round, board |-> s.board]
<1>1. /\ body \in Bodies /\ body.type # "ACTION_RESULT" /\ body.match = s.match
  BY DEF Bodies, Loose, Based, Wired, SrvType
<1> HIDE DEF body
<1> QED BY <1>1, LooseTold DEF SendSnapshot, body

(* The state of the room tells nothing new to a browser that knows it.     *)
LEMMA ShowsState ==
    ASSUME NEW s, NEW w, NEW c, NEW a, NEW z, NEW k, NEW script,
           Shows(s, w, c, a, z, k, script)
    PROVE  Shows(RoomState(s), w, c, a, z, k, script)
<1>1. PICK x \in Views :
          /\ x.heard = a /\ ~x.owed /\ Depicts(x, s, z, script)
          /\ Reading(s.seq, w \o s.sent, c, x, script)
  BY DEF Shows
<1> DEFINE body == Event(s, "ROOM_STATE")
           t == Emit(s, body)
<1>2. /\ body \in Bodies /\ body.type = "ROOM_STATE" /\ body.match = s.match
      /\ body.phase = s.phase
  BY DEF Event, Bodies, EventTypes, Shows, Based, Wired, SrvType
<1>3. Based(s, w, c, k) /\ c \in CliType BY DEF Shows, Based
<1> HIDE DEF body
<1>4. Within(x, x) BY <1>1, <1>3, ReadingEnds
<1>5. Leads(body, x, x, c)
  <2>1. x.match = body.match /\ x.match \in Nat /\ x.phase = Seen(body, x.phase)
    BY <1>1, <1>2, ViewFacts DEF Depicts, Seen
  <2>2. Turns(body, x, x, c) BY <1>2 DEF Turns, Rests, Views, Stages
  <2>3. x.owed = (x.owed /\ body.type # "SNAPSHOT")
    <3>1. x.owed \in BOOLEAN BY ViewFacts
    <3> QED BY <1>2, <3>1
  <2> QED BY <1>2, <2>1, <2>2, <2>3 DEF Leads
<1> HIDE DEF t
<1>6. /\ Based(t, w, c, k) /\ SameRoom(s, t)
      /\ Reading(t.seq, w \o t.sent, c, x, script)
  BY <1>1, <1>2, <1>3, <1>4, <1>5, EmitReads DEF t
<1>7. Depicts(x, t, z, script) BY <1>1, <1>6 DEF Depicts, SameRoom
<1>8. Shows(t, w, c, a, z, k, script) BY <1>1, <1>6, <1>7 DEF Shows
<1> QED BY <1>8 DEF RoomState, Tell, t, body

(* What moves only the room's own fields.                                  *)
LEMMA LooseChange ==
    ASSUME NEW s, NEW w, NEW c, NEW a, NEW k, NEW script, Loose(s, w, c, a, k, script),
           NEW t \in SrvType, t.seq = s.seq, t.sent = s.sent, t.connected = s.connected,
           t.epoch = s.epoch, s.match <= t.match, Engaged(t) => t.match = k
    PROVE  Loose(t, w, c, a, k, script)
<1>1. PICK x \in Views :
          /\ x.heard = a /\ ~x.owed /\ x.stage = "OFF" /\ x.match <= s.match
          /\ Reading(s.seq, w \o s.sent, c, x, script)
  BY DEF Loose
<1>2. x.match <= t.match
  <2>1. s.match \in 1 .. MaxMatch /\ t.match \in 1 .. MaxMatch /\ MaxMatch \in Nat
    BY BoundAssumption DEF Loose, Based, Wired, SrvType
  <2>2. x.match \in Nat BY ViewFacts
  <2> QED BY <1>1, <2>1, <2>2
<1>3. Based(t, w, c, k) BY DEF Loose, Based, Wired
<1> QED BY <1>1, <1>2, <1>3 DEF Loose

LEMMA ShowsChange ==
    ASSUME NEW s, NEW w, NEW c, NEW a, NEW z, NEW k, NEW script,
           Shows(s, w, c, a, z, k, script),
           NEW t \in SrvType, t.seq = s.seq, t.sent = s.sent, t.connected = s.connected,
           t.epoch = s.epoch, t.match = s.match, t.phase = s.phase, t.board = s.board,
           s.expired => t.expired, Engaged(t) => t.match = k
    PROVE  Shows(t, w, c, a, z, k, script)
<1>1. Based(t, w, c, k) BY DEF Shows, Based, Wired
<1>2. \A x : Depicts(x, s, z, script) => Depicts(x, t, z, script) BY DEF Depicts
<1> QED BY <1>1, <1>2 DEF Shows

LEMMA LooseRoom ==
    ASSUME NEW s, NEW w, NEW c, NEW a, NEW k, NEW script, Loose(s, w, c, a, k, script)
    PROVE  s \in SrvType /\ s.epoch = 1 /\ (Engaged(s) => s.match = k)
BY DEF Loose, Based, Wired

LEMMA EndMatchShows ==
    ASSUME NEW s, NEW w, NEW c, NEW a, NEW k, NEW script, Loose(s, w, c, a, k, script),
           NEW z
    PROVE  Shows(EndMatch(s), w, c, a, z, k, script)
<1> DEFINE t == [s EXCEPT !.phase = "MATCH_RESULT"]
           u == Tell(t, "MATCH_RESULT")
<1>1. s \in SrvType /\ (Engaged(s) => s.match = k) BY LooseRoom
<1>2. /\ t \in SrvType /\ t.seq = s.seq /\ t.sent = s.sent /\ t.connected = s.connected
      /\ t.epoch = s.epoch /\ t.match = s.match /\ t.ready = s.ready
      /\ t.phase = "MATCH_RESULT" /\ s.match \in 1 .. MaxMatch /\ MaxMatch \in Nat
  BY <1>1, BoundAssumption DEF SrvType, Phases
<1> HIDE DEF t
<1>3. Engaged(t) => t.match = k BY <1>1, <1>2 DEF Engaged
<1>4. s.match <= t.match BY <1>2
<1>5. Loose(t, w, c, a, k, script) BY <1>2, <1>3, <1>4, LooseChange
<1>6. Loose(u, w, c, a, k, script) BY <1>5, LooseTell DEF EventTypes
<1>7. u.phase = "MATCH_RESULT"
  BY <1>2, <1>5 DEF Tell, Emit, Loose, Based, Wired, SrvType
<1> HIDE DEF u
<1>8. Shows(RoomState(u), w, c, a, z, k, script) BY <1>6, <1>7, LooseState
<1> QED BY <1>8 DEF EndMatch, t, u

LEMMA EndRoundShows ==
    ASSUME NEW s, NEW w, NEW c, NEW a, NEW k, NEW script, Loose(s, w, c, a, k, script),
           NEW z
    PROVE  Shows(EndRound(s), w, c, a, z, k, script)
<1> DEFINE u == Tell(s, "ROUND_RESULT")
           t == [u EXCEPT !.phase = "ROUND_RESULT", !.ready = FALSE]
<1>1. Loose(u, w, c, a, k, script) /\ u \in SrvType BY LooseTell, LooseRoom DEF EventTypes
<1> HIDE DEF u
<1>2. /\ t \in SrvType /\ t.seq = u.seq /\ t.sent = u.sent /\ t.connected = u.connected
      /\ t.epoch = u.epoch /\ t.match = u.match /\ t.ready = FALSE
      /\ t.phase = "ROUND_RESULT" /\ u.match \in 1 .. MaxMatch /\ MaxMatch \in Nat
  BY <1>1, BoundAssumption DEF SrvType, Phases
<1> HIDE DEF t
<1>3. ~Engaged(t) BY <1>2 DEF Engaged
<1>4. u.match <= t.match BY <1>2
<1>5. Loose(t, w, c, a, k, script) BY <1>1, <1>2, <1>3, <1>4, LooseChange
<1>6. Shows(RoomState(t), w, c, a, z, k, script) BY <1>2, <1>5, LooseState
<1> QED BY <1>6 DEF EndRound, t, u

LEMMA PhaseShows ==
    ASSUME NEW s, NEW w, NEW c, NEW a, NEW k, NEW script, Loose(s, w, c, a, k, script),
           NEW z
    PROVE  /\ Shows(Close(s), w, c, a, z, k, script)
           /\ Shows(ExpireRematch(s), w, c, a, z, k, script)
           /\ Shows(CallRematch(s), w, c, a, z, k, script)
<1>1. s \in SrvType /\ (Engaged(s) => s.match = k) BY LooseRoom
<1> SUFFICES ASSUME NEW phase \in {"CLOSED", "MATCH_RESULT", "REMATCH"}, NEW vote \in BOOLEAN
             PROVE  Shows(RoomState([s EXCEPT !.phase = phase, !.vote = vote]),
                          w, c, a, z, k, script)
  <2>1. [s EXCEPT !.phase = "CLOSED"] = [s EXCEPT !.phase = "CLOSED", !.vote = s.vote]
        /\ [s EXCEPT !.phase = "REMATCH"] = [s EXCEPT !.phase = "REMATCH", !.vote = s.vote]
        /\ s.vote \in BOOLEAN
    BY <1>1 DEF SrvType
  <2> QED BY <2>1 DEF Close, ExpireRematch, CallRematch
<1> DEFINE t == [s EXCEPT !.phase = phase, !.vote = vote]
<1>2. /\ t \in SrvType /\ t.seq = s.seq /\ t.sent = s.sent /\ t.connected = s.connected
      /\ t.epoch = s.epoch /\ t.match = s.match /\ t.ready = s.ready /\ t.phase = phase
      /\ s.match \in 1 .. MaxMatch /\ MaxMatch \in Nat
  BY <1>1, BoundAssumption DEF SrvType, Phases
<1> HIDE DEF t
<1>3. Engaged(t) => t.match = k BY <1>1, <1>2 DEF Engaged
<1>4. s.match <= t.match BY <1>2
<1>5. Loose(t, w, c, a, k, script) BY <1>2, <1>3, <1>4, LooseChange
<1>6. t.phase \notin {"COUNTDOWN", "ACTIVE"} BY <1>2
<1>7. Shows(RoomState(t), w, c, a, z, k, script) BY <1>5, <1>6, LooseState
<1> QED BY <1>7 DEF t

LEMMA RematchShows ==
    ASSUME NEW s, NEW w, NEW c, NEW a, NEW k, NEW script, Loose(s, w, c, a, k, script),
           s.match < MaxMatch, NEW z
    PROVE  Shows(Rematch(s), w, c, a, z, k, script)
<1> DEFINE zero == [id \in ActionIds |-> 0]
           none == <<>>
           nobody == {}
           t == [s EXCEPT !.match = s.match + 1, !.phase = "LOBBY", !.board = NoBoard,
                          !.ready = FALSE, !.vote = FALSE, !.seen = nobody, !.cache = none,
                          !.applied = zero]
           u == Tell(t, "REMATCH_STARTED")
<1>1. s \in SrvType /\ s.match + 1 \in 1 .. MaxMatch /\ s.match \in Nat
  <2>1. s \in SrvType BY LooseRoom
  <2>2. s.match \in 1 .. MaxMatch BY <2>1 DEF SrvType
  <2> QED BY <2>1, <2>2, BoundAssumption
<1>2. /\ zero \in [ActionIds -> Nat] /\ none \in Seq([id : ActionIds, verdict : Verdicts])
      /\ nobody \in SUBSET ActionIds
  OBVIOUS
<1>3. Rematch(s) = RoomState(u)
  <2>1. t = [s EXCEPT !.match = @ + 1, !.phase = "LOBBY", !.board = NoBoard,
                      !.ready = FALSE, !.vote = FALSE, !.seen = {}, !.cache = <<>>,
                      !.applied = [id \in ActionIds |-> 0]]
    BY <1>1 DEF SrvType
  <2> QED BY <2>1 DEF Rematch
<1> HIDE DEF zero, none, nobody
<1>4. t \in SrvType BY <1>1, <1>2 DEF SrvType, Phases, Hashes
<1>5. /\ t.seq = s.seq /\ t.sent = s.sent /\ t.connected = s.connected /\ t.epoch = s.epoch
      /\ t.match = s.match + 1 /\ t.phase = "LOBBY" /\ t.ready = FALSE
  BY <1>1 DEF SrvType
<1> HIDE DEF t
<1>6. ~Engaged(t) /\ s.match <= t.match BY <1>1, <1>5 DEF Engaged
<1>7. Loose(t, w, c, a, k, script) BY <1>4, <1>5, <1>6, LooseChange
<1>8. Loose(u, w, c, a, k, script) BY <1>7, LooseTell DEF EventTypes
<1>9. u.phase = "LOBBY" BY <1>4, <1>5 DEF Tell, Emit, SrvType
<1> HIDE DEF u
<1>10. Shows(RoomState(u), w, c, a, z, k, script) BY <1>8, <1>9, LooseState
<1> QED BY <1>3, <1>10

(* A countdown tells the board, whatever the round before has left.        *)
LEMMA DealingShows ==
    ASSUME NEW s, NEW w, NEW c, NEW a, NEW z, NEW k, NEW script,
           Shows(s, w, c, a, z, k, script), s.round < MaxRound, s.ready
    PROVE  Shows(Dealing(s), w, c, a, z, k, script)
<1>1. PICK x \in Views :
          /\ x.heard = a /\ ~x.owed /\ Depicts(x, s, z, script)
          /\ Reading(s.seq, w \o s.sent, c, x, script)
  BY DEF Shows
<1> DEFINE board == Dealt(s.round + 1)
           t == [s EXCEPT !.phase = "COUNTDOWN", !.round = s.round + 1,
                          !.board = board, !.ready = FALSE]
           body == Event(t, "COUNTDOWN")
           y == [match |-> x.match, phase |-> "COUNTDOWN", heard |-> a, owed |-> FALSE,
                 stage |-> "DEALT", board |-> board]
           u == Emit(t, body)
<1>2. Based(s, w, c, k) /\ s \in SrvType /\ s.match = k
  BY DEF Shows, Based, Wired, Engaged
<1>3. s.round + 1 \in 1 .. MaxRound /\ s.round + 1 \in 0 .. MaxRound
  <2>1. s.round \in 0 .. MaxRound BY <1>2 DEF SrvType
  <2> QED BY <2>1, BoundAssumption
<1>4. board \in Boards /\ board \in Hashes BY <1>3, GameAssumption DEF Hashes
<1>5. Dealing(s) = u
  <2>1. t = [s EXCEPT !.phase = "COUNTDOWN", !.round = @ + 1, !.board = Dealt(s.round + 1),
                      !.ready = FALSE]
    BY <1>2 DEF SrvType
  <2> QED BY <2>1 DEF Dealing, Tell
<1>6. board = Dealt(s.round + 1) OBVIOUS
<1> HIDE DEF board
<1>7. /\ t \in SrvType /\ t.seq = s.seq /\ t.sent = s.sent /\ t.connected = s.connected
      /\ t.epoch = s.epoch /\ t.match = s.match /\ t.phase = "COUNTDOWN"
      /\ t.round = s.round + 1 /\ t.board = board
  BY <1>2, <1>3, <1>4 DEF SrvType, Phases
<1> HIDE DEF t
<1>8. /\ body \in Bodies /\ body.type = "COUNTDOWN" /\ body.round = s.round + 1
  BY <1>7 DEF Event, Bodies, EventTypes, SrvType
<1> HIDE DEF body
<1>9. /\ x.match \in 1 .. MaxMatch /\ x.match \in Nat /\ a \in Nat
  BY <1>1, ViewFacts
<1>10. y \in Views BY <1>4, <1>9 DEF Views, Stages, UiPhases, Phases, Hashes
<1>11. /\ y.match = x.match /\ y.phase = "COUNTDOWN" /\ y.heard = a /\ y.owed = FALSE
       /\ y.stage = "DEALT" /\ y.board = board
  OBVIOUS
<1> HIDE DEF y
<1>12. Leads(body, x, y, c)
  <2>1. Turns(body, x, y, c) BY <1>3, <1>6, <1>8, <1>11 DEF Turns
  <2>2. Seen(body, x.phase) = "COUNTDOWN" /\ body.type \notin NamesMatch
    BY <1>8 DEF Seen, NamesMatch
  <2>3. x.match <= y.match BY <1>9, <1>11
  <2> QED BY <1>1, <1>8, <1>11, <2>1, <2>2, <2>3 DEF Leads
<1>13. Within(y, y) BY <1>4, <1>9, <1>11 DEF Within
<1>14. Based(t, w, c, k) /\ Reading(t.seq, w \o t.sent, c, x, script)
  BY <1>1, <1>2, <1>7 DEF Based, Wired
<1> HIDE DEF u
<1>15. /\ Based(u, w, c, k) /\ SameRoom(t, u)
       /\ Reading(u.seq, w \o u.sent, c, y, script)
  BY <1>8, <1>10, <1>11, <1>12, <1>13, <1>14, EmitReads DEF u
<1>16. Depicts(y, u, z, script)
  BY <1>1, <1>4, <1>7, <1>11, <1>15 DEF Depicts, SameRoom
<1> QED BY <1>5, <1>10, <1>11, <1>15, <1>16 DEF Shows

(* The opening of the round, while nothing is claimed of the board.        *)
LEMMA ActivatingLoose ==
    ASSUME NEW s, NEW w, NEW c, NEW a, NEW k, NEW script, Loose(s, w, c, a, k, script),
           s.phase = "COUNTDOWN", s.board \in Boards
    PROVE  Loose(Activating(s), w, c, a, k, script)
<1> DEFINE t == [s EXCEPT !.phase = "ACTIVE", !.board = Open(s.board), !.expired = FALSE]
<1>1. s \in SrvType /\ s.match = k BY LooseRoom DEF Engaged
<1>2. Open(s.board) \in Hashes BY GameAssumption DEF Hashes
<1>3. /\ t \in SrvType /\ t.seq = s.seq /\ t.sent = s.sent /\ t.connected = s.connected
      /\ t.epoch = s.epoch /\ t.match = s.match /\ s.match \in 1 .. MaxMatch
      /\ MaxMatch \in Nat
  BY <1>1, <1>2, BoundAssumption DEF SrvType, Phases
<1> HIDE DEF t
<1>4. (Engaged(t) => t.match = k) /\ s.match <= t.match BY <1>1, <1>3
<1>5. Loose(t, w, c, a, k, script) BY <1>3, <1>4, LooseChange
<1>6. Loose(Tell(t, "ROUND_ACTIVE"), w, c, a, k, script)
  BY <1>5, LooseTell DEF EventTypes
<1> QED BY <1>6 DEF Activating, t

(* The opening of a round that the browser knows as dealt, and has not     *)
(* played in: from now on the script tells its board.                      *)
LEMMA OpeningShows ==
    ASSUME NEW s, NEW w, NEW c, NEW a, NEW k, NEW other,
           Shows(s, w, c, a, FALSE, k, other), s.phase = "COUNTDOWN",
           \A n \in DOMAIN (w \o s.sent) : (w \o s.sent)[n].body.type # "COUNTDOWN",
           c.ui.phase # "ACTIVE", \A p \in c.pending : p.id <= a,
           NEW script, script.on, \A n \in Nat : script.board[n] = Open(s.board)
    PROVE  Shows(Activating(s), w, c, a, FALSE, k, script)
<1>1. PICK x \in Views :
          /\ x.heard = a /\ ~x.owed /\ Depicts(x, s, FALSE, other)
          /\ Reading(s.seq, w \o s.sent, c, x, other)
  BY DEF Shows
<1> DEFINE board == Open(s.board)
           t == [s EXCEPT !.phase = "ACTIVE", !.board = board, !.expired = FALSE]
           body == Event(t, "ROUND_ACTIVE")
           y == [match |-> x.match, phase |-> "ACTIVE", heard |-> a, owed |-> FALSE,
                 stage |-> "LIVE", board |-> x.board]
           u == Emit(t, body)
<1>2. Based(s, w, c, k) /\ s \in SrvType /\ s.match = k /\ c \in CliType
  BY DEF Shows, Based, Wired, Engaged
<1>3. x.stage = "DEALT" /\ x.board = s.board /\ s.board \in Boards
  BY <1>1 DEF Depicts, Views, Stages
<1>4. board \in Boards /\ board \in Hashes BY <1>3, GameAssumption DEF Hashes
<1>5. Activating(s) = u BY DEF Activating, Tell
<1>6. board = Open(s.board) OBVIOUS
<1> HIDE DEF board
<1>7. /\ t \in SrvType /\ t.seq = s.seq /\ t.sent = s.sent /\ t.connected = s.connected
      /\ t.epoch = s.epoch /\ t.match = s.match /\ t.phase = "ACTIVE" /\ t.board = board
  BY <1>2, <1>4 DEF SrvType, Phases
<1> HIDE DEF t
<1>8. body \in Bodies /\ body.type = "ROUND_ACTIVE"
  BY <1>7 DEF Event, Bodies, EventTypes, SrvType
<1> HIDE DEF body
<1>9. /\ x.match \in 1 .. MaxMatch /\ x.match \in Nat /\ a \in Nat /\ x.board \in Hashes
  BY <1>1, ViewFacts DEF Views
<1>10. y \in Views BY <1>9 DEF Views, Stages, UiPhases, Phases
<1>11. /\ y.match = x.match /\ y.phase = "ACTIVE" /\ y.heard = a /\ y.owed = FALSE
       /\ y.stage = "LIVE"
  OBVIOUS
<1> HIDE DEF y
<1>12. Leads(body, x, y, c)
  <2>1. Turns(body, x, y, c) BY <1>1, <1>3, <1>8, <1>11 DEF Turns
  <2>2. Seen(body, x.phase) = "ACTIVE" /\ body.type \notin NamesMatch
    BY <1>8 DEF Seen, NamesMatch
  <2>3. x.match <= y.match BY <1>9, <1>11
  <2> QED BY <1>1, <1>8, <1>11, <2>1, <2>2, <2>3 DEF Leads
<1>13. Within(y, y) BY <1>9, <1>11 DEF Within
<1>14. Based(t, w, c, k) /\ Reading(t.seq, w \o t.sent, c, x, script)
  <2>1. Reading(s.seq, w \o s.sent, c, x, script) BY <1>1, <1>3, ReadingScript
  <2> QED BY <1>2, <1>7, <2>1 DEF Based, Wired
<1>15. Opens(w \o t.sent, c, x, y, script)
  <2>1. c.count \in Nat BY <1>2 DEF CliType
  <2> QED BY <1>3, <1>7, <1>11, <2>1 DEF Opens
<1> HIDE DEF u
<1>16. /\ Based(u, w, c, k) /\ SameRoom(t, u)
       /\ Reading(u.seq, w \o u.sent, c, y, script)
  BY <1>8, <1>10, <1>12, <1>13, <1>14, <1>15, EmitReads DEF u
<1>17. Depicts(y, u, FALSE, script)
  BY <1>1, <1>4, <1>6, <1>7, <1>9, <1>11, <1>16 DEF Depicts, SameRoom
<1> QED BY <1>5, <1>10, <1>11, <1>16, <1>17 DEF Shows

(* A move of the room; the round opens to a browser that may have lagged.  *)
LEMMA RoomMoveShows ==
    ASSUME NEW s, NEW w, NEW c, NEW a, NEW z, NEW k, NEW script,
           Shows(s, w, c, a, z, k, script), NEW move \in RoomMoves, MayMove(s, move),
           move \in {"ACTIVATE", "ACTIVATE_OVER"} => s.board \in Boards,
           move = "ACTIVATE" => z
    PROVE  Shows(RoomMove(s, move), w, c, a, z, k, script)
<1>1. Loose(s, w, c, a, k, script) BY ShowsLoose
<1>2. CASE move = "STATE" BY <1>2, ShowsState DEF RoomMove
<1>3. CASE move \in {"DEAL", "DEAL_OVER"}
  <2>1. s.round < MaxRound /\ s.ready BY <1>3 DEF MayMove
  <2>2. Shows(Dealing(s), w, c, a, z, k, script) BY <2>1, DealingShows
  <2>3. Loose(Dealing(s), w, c, a, k, script) BY <2>2, ShowsLoose
  <2> QED BY <1>3, <2>2, <2>3, ShowsState, EndMatchShows DEF RoomMove
<1>4. CASE move \in {"ACTIVATE", "ACTIVATE_OVER"}
  <2>1. s.phase = "COUNTDOWN" BY <1>4 DEF MayMove
  <2>2. Loose(Activating(s), w, c, a, k, script) BY <1>1, <1>4, <2>1, ActivatingLoose
  <2> QED BY <1>4, <2>2, LooseState, EndMatchShows DEF RoomMove
<1>5. CASE move = "END_ROUND" BY <1>1, <1>5, EndRoundShows DEF RoomMove
<1>6. CASE move = "END_LAST_ROUND"
  <2>1. Loose(Tell(s, "ROUND_RESULT"), w, c, a, k, script)
    BY <1>1, LooseTell DEF EventTypes
  <2> QED BY <1>6, <2>1, EndMatchShows DEF RoomMove
<1>7. CASE move = "END_MATCH" BY <1>1, <1>7, EndMatchShows DEF RoomMove
<1>8. CASE move \in {"CALL_REMATCH", "EXPIRE_REMATCH", "CLOSE"}
  BY <1>1, <1>8, PhaseShows DEF RoomMove
<1>9. CASE move = "REMATCH"
  <2>1. s.match < MaxMatch BY <1>9 DEF MayMove
  <2> QED BY <1>1, <1>9, <2>1, RematchShows DEF RoomMove
<1> QED BY <1>2, <1>3, <1>4, <1>5, <1>6, <1>7, <1>8, <1>9 DEF RoomMoves

LEMMA ThenShows ==
    ASSUME NEW s, NEW w, NEW c, NEW a, NEW z, NEW k, NEW script,
           Shows(s, w, c, a, z, k, script),
           NEW moves \in SUBSET (RoomMoves \ {"ACTIVATE", "ACTIVATE_OVER"}), NEW move
    PROVE  Shows(Then(s, move, moves), w, c, a, z, k, script)
<1>1. CASE move \in moves /\ MayMove(s, move) BY <1>1, RoomMoveShows DEF Then
<1>2. CASE ~(move \in moves /\ MayMove(s, move)) BY <1>2 DEF Then
<1> QED BY <1>1, <1>2

(* The action e is the next line of the script.                            *)
Obeys(e, script) ==
    script.on =>
        /\ e.do \in Controls => script.board[e.id] = script.board[e.id - 1]
        /\ e.do \in Moves =>
              /\ e.base = script.board[e.id - 1]
              /\ script.board[e.id] = IF e.base \in Finished THEN e.base
                                      ELSE Play(e.base, e.do)

(* Two states of the room that differ in what it remembers of actions.     *)
Alike(s, t) ==
    /\ t \in SrvType /\ t.seq = s.seq /\ t.sent = s.sent /\ t.connected = s.connected
    /\ t.epoch = s.epoch /\ t.match = s.match /\ t.phase = s.phase /\ t.board = s.board
    /\ t.expired = s.expired /\ t.ready = s.ready

LEMMA AlikeShows ==
    ASSUME NEW s, NEW w, NEW c, NEW a, NEW z, NEW k, NEW script,
           Shows(s, w, c, a, z, k, script), NEW t, Alike(s, t)
    PROVE  Shows(t, w, c, a, z, k, script)
<1>1. Engaged(t) => t.match = k BY DEF Shows, Based, Engaged, Alike
<1> QED BY <1>1, ShowsChange DEF Alike

LEMMA RememberAlike ==
    ASSUME NEW s \in SrvType, NEW e, e.id \in ActionIds, NEW verdict \in Verdicts
    PROVE  Alike(s, Remember(s, e, verdict)) /\ Alike(s, Apply(Remember(s, e, verdict), e))
<1> DEFINE A == [id : ActionIds, verdict : Verdicts]
           new == [id |-> e.id, verdict |-> verdict]
           longer == Append(s.cache, new)
           kept == IF Len(longer) > CacheLimit THEN Tail(longer) ELSE longer
           seen == s.seen \cup {e.id}
           r == Remember(s, e, verdict)
           t == Apply(r, e)
<1>1. new \in A /\ s.cache \in Seq(A) /\ seen \in SUBSET ActionIds BY DEF SrvType
<1>2. r = [s EXCEPT !.seen = seen, !.cache = kept] BY DEF Remember, SrvType
<1> HIDE DEF new
<1>3. longer \in Seq(A) /\ longer # <<>> BY <1>1, AppendProperties
<1> HIDE DEF longer
<1>4. kept \in Seq(A)
  <2>1. Tail(longer) \in Seq(A) BY <1>3
  <2> QED BY <1>3, <2>1
<1> HIDE DEF kept, seen, r
<1>5. r \in SrvType BY <1>1, <1>2, <1>4 DEF SrvType
<1>6. Alike(s, r) BY <1>2, <1>5 DEF Alike, SrvType
<1> DEFINE applied == [r.applied EXCEPT ![e.id] = @ + 1]
<1>7. applied \in [ActionIds -> Nat]
  <2>1. r.applied \in [ActionIds -> Nat] BY <1>5 DEF SrvType
  <2> QED BY <2>1
<1>8. t = [r EXCEPT !.applied = applied] BY <1>5 DEF Apply, SrvType
<1> HIDE DEF applied, t
<1>9. Alike(r, t) BY <1>5, <1>7, <1>8 DEF Alike, SrvType
<1>10. Alike(s, t) BY <1>6, <1>9 DEF Alike
<1> QED BY <1>6, <1>10 DEF t, r

(* A result that agrees: the room stands where the script has led it.      *)
LEMMA AnswerShows ==
    ASSUME NEW s, NEW w, NEW c, NEW a, NEW z, NEW k, NEW script,
           Shows(s, w, c, a, z, k, script), NEW t \in SrvType, t.seq = s.seq, t.sent = s.sent,
           t.connected = s.connected, t.epoch = s.epoch, Engaged(t) => t.match = k,
           NEW e, Heard(e, c, a), NEW verdict \in Verdicts, verdict.reconcile = "NONE",
           \A x \in Views : x.heard = a /\ Depicts(x, s, z, script)
              => /\ Depicts([x EXCEPT !.heard = a + 1], t, z, script)
                 /\ x.stage \in {"DEALT", "DEAD"} => \A p \in c.pending : p.id # e.id
    PROVE  Shows(Answer(t, e, verdict), w, c, a + 1, z, k, script)
<1>1. PICK x \in Views :
          /\ x.heard = a /\ ~x.owed /\ Depicts(x, s, z, script)
          /\ Reading(s.seq, w \o s.sent, c, x, script)
  BY DEF Shows
<1> DEFINE y == [x EXCEPT !.heard = a + 1]
           body == Result(t, e.id, verdict, FALSE)
           u == Emit(t, body)
<1>2. /\ Depicts(y, t, z, script)
      /\ x.stage \in {"DEALT", "DEAD"} => \A p \in c.pending : p.id # e.id
  BY <1>1
<1>3. a \in Nat /\ a + 1 \in Nat /\ e.id = a + 1 /\ e.id <= c.count /\ e.id \in ActionIds
  BY <1>1, ViewFacts DEF Heard
<1>4. /\ y \in Views /\ y.heard = a + 1 /\ y.owed = x.owed /\ y.match = x.match
      /\ y.phase = x.phase /\ y.stage = x.stage /\ y.board = x.board
  BY <1>3 DEF Views
<1> HIDE DEF y
<1>5. /\ body \in Bodies /\ body.type = "ACTION_RESULT" /\ body.id = e.id
      /\ body.verdict = verdict
  BY <1>3 DEF Result, Bodies, SrvType
<1> HIDE DEF body
<1>6. Based(s, w, c, k) /\ Based(t, w, c, k) /\ c \in CliType
  BY DEF Shows, Based, Wired
<1>7. Within(x, x) /\ x.match \in Nat BY <1>1, <1>6, ReadingEnds, ViewFacts
<1>8. Leads(body, x, y, c)
  <2>1. Turns(body, x, y, c) BY <1>2, <1>4, <1>5 DEF Turns, Rests, Views, Stages
  <2>2. Seen(body, x.phase) = x.phase /\ body.type \notin NamesMatch
    BY <1>5 DEF Seen, NamesMatch
  <2>3. x.match <= y.match BY <1>4, <1>7
  <2>4. y.owed = (x.owed \/ body.verdict.reconcile # "NONE")
    <3>1. x.owed \in BOOLEAN BY ViewFacts
    <3> QED BY <1>4, <1>5, <3>1
  <2> QED BY <1>1, <1>3, <1>4, <1>5, <2>1, <2>2, <2>3, <2>4 DEF Leads
<1>9. Within(y, y)
  <2>1. y.match <= y.match BY <1>4, <1>7
  <2> QED BY <1>4, <1>7, <2>1 DEF Within
<1>10. Reading(t.seq, w \o t.sent, c, x, script) BY <1>1
<1> HIDE DEF u
<1>11. /\ Based(u, w, c, k) /\ SameRoom(t, u)
       /\ Reading(u.seq, w \o u.sent, c, y, script)
  BY <1>4, <1>5, <1>6, <1>8, <1>9, <1>10, EmitReads DEF u
<1>12. Depicts(y, u, z, script) BY <1>2, <1>11 DEF Depicts, SameRoom, y
<1>13. Shows(u, w, c, a + 1, z, k, script) BY <1>1, <1>4, <1>11, <1>12 DEF Shows
<1> QED BY <1>13 DEF Answer, u, body

(* A refusal, and the snapshot that follows it.                            *)
LEMMA RefusalReads ==
    ASSUME NEW s, NEW w, NEW c, NEW k, Based(s, w, c, k), NEW x \in Views, NEW script,
           Reading(s.seq, w \o s.sent, c, x, script), ~x.owed, x.match <= s.match,
           NEW stage \in {"OFF", "DEALT", "DEAD"},
           stage # "OFF" => /\ s.board \in Boards
                            /\ \/ x.stage = stage /\ x.board = s.board
                               \/ x.stage = "LIVE" /\ stage = "DEAD",
           stage = "DEALT" => s.phase = "COUNTDOWN",
           NEW e, Heard(e, c, x.heard), NEW verdict \in Verdicts, verdict.reconcile # "NONE"
    PROVE  LET t == SendSnapshot(Answer(s, e, verdict)) IN
           /\ Based(t, w, c, k) /\ SameRoom(s, t)
           /\ \E y \in Views :
                 /\ y.heard = x.heard + 1 /\ ~y.owed /\ y.stage = stage
                 /\ y.match = s.match
                 /\ s.phase \in UiPhases => y.phase = s.phase
                 /\ y.board = s.board /\ Reading(t.seq, w \o t.sent, c, y, script)
<1> DEFINE a == x.heard + 1
           first == Result(s, e.id, verdict, FALSE)
           y == [match |-> x.match, phase |-> x.phase, heard |-> a, owed |-> TRUE,
                 stage |-> stage, board |-> s.board]
           u == Emit(s, first)
           second == [type |-> "SNAPSHOT", match |-> s.match, phase |-> s.phase,
                      round |-> s.round, board |-> s.board]
           phase == Seen(second, x.phase)
           v == [match |-> s.match, phase |-> phase, heard |-> a, owed |-> FALSE,
                 stage |-> stage, board |-> s.board]
           t == SendSnapshot(Answer(s, e, verdict))
<1>1. s \in SrvType /\ c \in CliType BY DEF Based, Wired
<1>2. /\ s.match \in 1 .. MaxMatch /\ s.match \in Nat /\ s.board \in Hashes
      /\ s.phase \in Phases
  <2>1. s.match \in 1 .. MaxMatch /\ s.board \in Hashes /\ s.phase \in Phases
    BY <1>1 DEF SrvType
  <2> QED BY <2>1, BoundAssumption
<1>3. /\ x.match \in 1 .. MaxMatch /\ x.match \in Nat /\ x.phase \in UiPhases
      /\ x.heard \in Nat /\ a \in Nat /\ x.owed = FALSE
  BY ViewFacts
<1>4. e.id = a /\ e.id <= c.count /\ e.id \in ActionIds BY DEF Heard
<1>5. y \in Views BY <1>2, <1>3 DEF Views, Stages
<1>6. /\ y.match = x.match /\ y.phase = x.phase /\ y.heard = a /\ y.owed = TRUE
      /\ y.stage = stage /\ y.board = s.board
  OBVIOUS
<1>7. second \in Bodies BY <1>1, <1>2 DEF Bodies, SrvType
<1>8. second.type = "SNAPSHOT" /\ second.match = s.match /\ second.board = s.board
      /\ second.phase = s.phase
  OBVIOUS
<1>9. phase \in UiPhases /\ (s.phase \in UiPhases => phase = s.phase)
  BY <1>3, <1>7, <1>8, SeenType DEF Seen
<1> HIDE DEF y, second
<1>10. v \in Views BY <1>2, <1>3, <1>9 DEF Views, Stages
<1>11. /\ v.match = s.match /\ v.phase = phase /\ v.heard = a /\ v.owed = FALSE
       /\ v.stage = stage /\ v.board = s.board
  OBVIOUS
<1>12. /\ first \in Bodies /\ first.type = "ACTION_RESULT" /\ first.id = e.id
       /\ first.verdict = verdict
  BY <1>1, <1>4 DEF Result, Bodies, SrvType
<1> HIDE DEF a, first, u, v
<1>13. Within(x, x) BY <1>1, ReadingEnds
<1>14. Leads(first, x, y, c)
  <2>1. Turns(first, x, y, c) BY <1>6, <1>12 DEF Turns, Rests
  <2>2. Seen(first, x.phase) = x.phase /\ first.type \notin NamesMatch
    BY <1>12 DEF Seen, NamesMatch
  <2>3. x.match <= y.match BY <1>3, <1>6
  <2> QED BY <1>3, <1>4, <1>6, <1>12, <2>1, <2>2, <2>3 DEF Leads, a
<1>15. Within(y, y)
  <2>1. y.match <= y.match BY <1>3, <1>6
  <2>2. stage = "DEALT" => x.phase = "COUNTDOWN" BY <1>13 DEF Within
  <2> QED BY <1>6, <2>1, <2>2 DEF Within
<1>16. y.stage # "LIVE" /\ v.stage # "LIVE" BY <1>6, <1>11
<1>17. /\ Based(u, w, c, k) /\ SameRoom(s, u)
       /\ Reading(u.seq, w \o u.sent, c, y, script)
  BY <1>5, <1>12, <1>14, <1>15, <1>16, EmitReads DEF u
<1>18. Leads(second, y, v, c)
  <2>1. Turns(second, y, v, c) BY <1>6, <1>8, <1>11 DEF Turns, Rests
  <2>2. v.phase = Seen(second, y.phase) BY <1>6, <1>11
  <2>3. second.type \in NamesMatch BY <1>8 DEF NamesMatch
  <2> QED BY <1>6, <1>8, <1>11, <2>1, <2>2, <2>3 DEF Leads
<1>19. Within(v, v)
  <2>1. v.match <= v.match BY <1>2, <1>11
  <2>2. stage = "DEALT" => phase = "COUNTDOWN"
    <3>1. "COUNTDOWN" \in UiPhases BY DEF UiPhases, Phases
    <3> QED BY <1>9, <3>1
  <2> QED BY <1>11, <2>1, <2>2 DEF Within
<1>20. t = Emit(u, second)
  BY <1>17 DEF SendSnapshot, Answer, SameRoom, second, u, first
<1> HIDE DEF t, phase
<1>21. /\ Based(t, w, c, k) /\ SameRoom(u, t)
       /\ Reading(t.seq, w \o t.sent, c, v, script)
  BY <1>5, <1>7, <1>10, <1>16, <1>17, <1>18, <1>19, <1>20, EmitReads
<1>22. SameRoom(s, t) BY <1>17, <1>21 DEF SameRoom
<1> QED BY <1>9, <1>10, <1>11, <1>21, <1>22 DEF a, t

LEMMA LooseRefused ==
    ASSUME NEW s, NEW w, NEW c, NEW a, NEW k, NEW script, Loose(s, w, c, a, k, script),
           NEW e, Heard(e, c, a), NEW verdict \in Verdicts, verdict.reconcile # "NONE",
           NEW z, z \/ s.phase \notin {"COUNTDOWN", "ACTIVE"}
    PROVE  Shows(SendSnapshot(Answer(s, e, verdict)), w, c, a + 1, z, k, script)
<1> DEFINE t == SendSnapshot(Answer(s, e, verdict))
<1>1. PICK x \in Views :
          /\ x.heard = a /\ ~x.owed /\ x.stage = "OFF" /\ x.match <= s.match
          /\ Reading(s.seq, w \o s.sent, c, x, script)
  BY DEF Loose
<1>2. Based(s, w, c, k) BY DEF Loose
<1>3. "OFF" \in {"OFF", "DEALT", "DEAD"} OBVIOUS
<1> HIDE DEF t
<1>4. /\ Based(t, w, c, k) /\ SameRoom(s, t)
      /\ \E y \in Views :
            /\ y.heard = a + 1 /\ ~y.owed /\ y.stage = "OFF" /\ y.match = s.match
            /\ s.phase \in UiPhases => y.phase = s.phase
            /\ Reading(t.seq, w \o t.sent, c, y, script)
  BY <1>1, <1>2, <1>3, RefusalReads DEF t
<1>5. \A y : /\ y.stage = "OFF" /\ y.match = s.match
             /\ s.phase \in UiPhases => y.phase = s.phase
             => Depicts(y, t, z, script)
  BY <1>4 DEF Depicts, SameRoom
<1>6. Shows(t, w, c, a + 1, z, k, script) BY <1>4, <1>5 DEF Shows
<1> QED BY <1>6 DEF t

(* In a round that is played, only what can no longer change is refused.   *)
LEMMA ShowsRefused ==
    ASSUME NEW s, NEW w, NEW c, NEW a, NEW z, NEW k, NEW script,
           Shows(s, w, c, a, z, k, script),
           NEW e, Heard(e, c, a), NEW verdict \in Verdicts, verdict.reconcile # "NONE",
           script.on /\ s.phase = "ACTIVE" /\ s.board \in Boards
              /\ s.board = script.board[a]
              => s.expired \/ s.board \in Finished
    PROVE  Shows(SendSnapshot(Answer(s, e, verdict)), w, c, a + 1, z, k, script)
<1> DEFINE t == SendSnapshot(Answer(s, e, verdict))
<1>1. PICK x \in Views :
          /\ x.heard = a /\ ~x.owed /\ Depicts(x, s, z, script)
          /\ Reading(s.seq, w \o s.sent, c, x, script)
  BY DEF Shows
<1> DEFINE stage == IF x.stage = "LIVE" THEN "DEAD" ELSE x.stage
<1>2. Based(s, w, c, k) BY DEF Shows
<1>3. stage \in {"OFF", "DEALT", "DEAD"} /\ x.match <= s.match
  <2>1. x.match \in Nat BY ViewFacts
  <2> QED BY <1>1, <2>1 DEF Depicts, Views, Stages
<1>4. stage # "OFF" => /\ s.board \in Boards
                       /\ \/ x.stage = stage /\ x.board = s.board
                          \/ x.stage = "LIVE" /\ stage = "DEAD"
  BY <1>1, <1>3 DEF Depicts
<1>5. stage = "DEALT" => s.phase = "COUNTDOWN" BY <1>1 DEF Depicts
<1>6. /\ stage = "OFF" => z \/ s.phase \notin {"COUNTDOWN", "ACTIVE"}
      /\ stage = "DEAD" => s.phase = "ACTIVE" /\ (s.expired \/ s.board \in Finished)
  BY <1>1 DEF Depicts
<1> HIDE DEF t, stage
<1>7. /\ Based(t, w, c, k) /\ SameRoom(s, t)
      /\ \E y \in Views :
            /\ y.heard = a + 1 /\ ~y.owed /\ y.stage = stage /\ y.match = s.match
            /\ s.phase \in UiPhases => y.phase = s.phase
            /\ y.board = s.board /\ Reading(t.seq, w \o t.sent, c, y, script)
  BY <1>1, <1>2, <1>3, <1>4, <1>5, RefusalReads DEF t
<1>8. \A y : /\ y.stage = stage /\ y.match = s.match /\ y.board = s.board
             /\ s.phase \in UiPhases => y.phase = s.phase
             => Depicts(y, t, z, script)
  BY <1>3, <1>4, <1>5, <1>6, <1>7 DEF Depicts, SameRoom
<1>9. Shows(t, w, c, a + 1, z, k, script) BY <1>7, <1>8 DEF Shows
<1> QED BY <1>9 DEF t

-----------------------------------------------------------------------------
(* The handlers.                                                           *)

(* No board action is READY or REMATCH: nothing is pending for them.       *)
LEMMA ControlPending ==
    ASSUME NEW e, NEW c, NEW a, Heard(e, c, a), e.do \in Controls
    PROVE  \A p \in c.pending : p.id # e.id
BY GameAssumption DEF Heard, Asked, Controls

(* READY or REMATCH, taken or refused, in a round or out of it.            *)
LEMMA ControlShows ==
    ASSUME NEW s, NEW w, NEW c, NEW a, NEW z, NEW k, NEW script,
           Shows(s, w, c, a, z, k, script),
           NEW t \in SrvType, t.seq = s.seq, t.sent = s.sent, t.connected = s.connected,
           t.epoch = s.epoch, t.match = s.match, t.board = s.board, t.expired = s.expired,
           \/ t.phase = s.phase
           \/ t.phase = "REMATCH" /\ s.phase \in {"MATCH_RESULT", "REMATCH"},
           Engaged(t) => t.match = k,
           NEW e, Heard(e, c, a), e.do \in Controls, Obeys(e, script),
           NEW verdict \in Verdicts, verdict.reconcile = "NONE"
    PROVE  Shows(Answer(t, e, verdict), w, c, a + 1, z, k, script)
<1>1. e.id = a + 1 BY DEF Heard
<1>2. \A p \in c.pending : p.id # e.id BY ControlPending
<1>3. ASSUME NEW x \in Views, x.heard = a, Depicts(x, s, z, script)
      PROVE  Depicts([x EXCEPT !.heard = a + 1], t, z, script)
  <2> DEFINE y == [x EXCEPT !.heard = a + 1]
  <2>1. a \in Nat BY <1>3, ViewFacts
  <2>2. /\ y.heard = a + 1 /\ y.match = x.match /\ y.phase = x.phase
        /\ y.stage = x.stage /\ y.board = x.board
    BY DEF Views
  <2>3. script.on => script.board[a + 1] = script.board[a] BY <1>1, <2>1 DEF Obeys
  <2> SUFFICES Depicts(y, t, z, script) OBVIOUS
  <2> HIDE DEF y
  <2>4. CASE t.phase = s.phase BY <1>3, <2>2, <2>3, <2>4 DEF Depicts
  <2>5. CASE t.phase = "REMATCH" /\ s.phase \in {"MATCH_RESULT", "REMATCH"}
    <3>1. x.stage = "OFF" BY <1>3, <2>5 DEF Depicts, Views, Stages
    <3>2. "REMATCH" \notin UiPhases BY DEF UiPhases
    <3> QED BY <1>3, <2>2, <2>5, <3>1, <3>2 DEF Depicts
  <2> QED BY <2>4, <2>5
<1> QED BY <1>2, <1>3, AnswerShows

LEMMA ControlRefusedShows ==
    ASSUME NEW s, NEW w, NEW c, NEW a, NEW z, NEW k, NEW script,
           Shows(s, w, c, a, z, k, script),
           NEW e, Heard(e, c, a), e.do \in Controls, Obeys(e, script)
    PROVE  Shows(Reject(s, e, Rejected("NONE", NoBoard)), w, c, a + 1, z, k, script)
<1> DEFINE verdict == Rejected("NONE", NoBoard)
           t == Remember(s, e, verdict)
<1>1. verdict \in Verdicts /\ verdict.reconcile = "NONE"
  BY DEF Rejected, Verdict, Verdicts, Reconciles, Hashes
<1> HIDE DEF verdict
<1>2. Alike(s, t) BY <1>1, RememberAlike DEF Shows, Based, Wired, Heard
<1> HIDE DEF t
<1>3. /\ t \in SrvType /\ t.seq = s.seq /\ t.sent = s.sent /\ t.connected = s.connected
      /\ t.epoch = s.epoch /\ t.match = s.match /\ t.board = s.board
      /\ t.expired = s.expired /\ t.phase = s.phase /\ (Engaged(t) => t.match = k)
  BY <1>2 DEF Alike, Engaged, Shows, Based
<1>4. Shows(Answer(t, e, verdict), w, c, a + 1, z, k, script)
  BY <1>1, <1>3, ControlShows
<1> QED BY <1>4 DEF Reject, t, verdict

LEMMA HandleReadyShows ==
    ASSUME NEW s, NEW w, NEW c, NEW a, NEW z, NEW k, NEW script,
           Shows(s, w, c, a, z, k, script), s.match = k,
           NEW e, Heard(e, c, a), e.do \in Controls, Obeys(e, script), NEW room
    PROVE  Shows(HandleReady(s, e, room), w, c, a + 1, z, k, script)
<1> DEFINE r == [s EXCEPT !.ready = TRUE]
           verdict == Verdict(TRUE, "NONE", NoBoard)
           t == Apply(Remember(r, e, verdict), e)
           taken == Accept(r, e, NoBoard)
           refused == Reject(s, e, Rejected("NONE", NoBoard))
           moves == {"DEAL", "DEAL_OVER", "END_MATCH"}
<1>1. verdict \in Verdicts /\ verdict.reconcile = "NONE"
  BY DEF Verdict, Verdicts, Reconciles, Hashes
<1>2. s \in SrvType /\ e.id \in ActionIds BY DEF Shows, Based, Wired, Heard
<1>3. /\ r \in SrvType /\ r.seq = s.seq /\ r.sent = s.sent /\ r.connected = s.connected
      /\ r.epoch = s.epoch /\ r.match = s.match /\ r.board = s.board
      /\ r.expired = s.expired /\ r.phase = s.phase
  BY <1>2 DEF SrvType
<1>4. Accept(r, e, NoBoard) = Answer(t, e, verdict) BY DEF Accept
<1> HIDE DEF r, verdict
<1>5. Alike(r, t) BY <1>1, <1>2, <1>3, RememberAlike
<1> HIDE DEF t
<1>6. Shows(Answer(t, e, verdict), w, c, a + 1, z, k, script)
  BY <1>1, <1>3, <1>5, ControlShows DEF Alike
<1>7. Shows(taken, w, c, a + 1, z, k, script) BY <1>4, <1>6
<1> HIDE DEF taken
<1>8. Shows(RoomState(taken), w, c, a + 1, z, k, script) BY <1>7, ShowsState
<1>9. Shows(EndMatch(taken), w, c, a + 1, z, k, script)
  BY <1>7, ShowsLoose, EndMatchShows
<1>10. Shows(Then(RoomState(taken), room, moves), w, c, a + 1, z, k, script)
  <2>1. moves \in SUBSET (RoomMoves \ {"ACTIVATE", "ACTIVATE_OVER"}) BY DEF RoomMoves
  <2> HIDE DEF moves
  <2> QED BY <1>8, <2>1, ThenShows
<1>11. Shows(refused, w, c, a + 1, z, k, script) BY ControlRefusedShows
<1>12. \/ HandleReady(s, e, room) = refused
       \/ HandleReady(s, e, room) = EndMatch(taken)
       \/ HandleReady(s, e, room) = Then(RoomState(taken), room, moves)
  BY DEF HandleReady, taken, r
<1> HIDE DEF refused, moves
<1> QED BY <1>9, <1>10, <1>11, <1>12

LEMMA HandleRematchShows ==
    ASSUME NEW s, NEW w, NEW c, NEW a, NEW z, NEW k, NEW script,
           Shows(s, w, c, a, z, k, script), s.match = k,
           NEW e, Heard(e, c, a), e.do \in Controls, Obeys(e, script), NEW room
    PROVE  Shows(HandleRematch(s, e, room), w, c, a + 1, z, k, script)
<1> DEFINE r == [s EXCEPT !.phase = "REMATCH", !.vote = TRUE]
           verdict == Verdict(TRUE, "NONE", NoBoard)
           t == Apply(Remember(r, e, verdict), e)
           taken == Accept(r, e, NoBoard)
           refused == Reject(s, e, Rejected("NONE", NoBoard))
           moves == {"REMATCH"}
<1>1. verdict \in Verdicts /\ verdict.reconcile = "NONE"
  BY DEF Verdict, Verdicts, Reconciles, Hashes
<1>2. s \in SrvType /\ e.id \in ActionIds BY DEF Shows, Based, Wired, Heard
<1>3. /\ r \in SrvType /\ r.seq = s.seq /\ r.sent = s.sent /\ r.connected = s.connected
      /\ r.epoch = s.epoch /\ r.match = s.match /\ r.board = s.board
      /\ r.expired = s.expired /\ r.phase = "REMATCH"
  BY <1>2 DEF SrvType, Phases
<1>4. Accept(r, e, NoBoard) = Answer(t, e, verdict) BY DEF Accept
<1> HIDE DEF r, verdict
<1>5. Alike(r, t) BY <1>1, <1>2, <1>3, RememberAlike
<1> HIDE DEF t
<1>6. ASSUME s.phase \in {"MATCH_RESULT", "REMATCH"}
      PROVE  Shows(Answer(t, e, verdict), w, c, a + 1, z, k, script)
  BY <1>1, <1>3, <1>5, <1>6, ControlShows DEF Alike
<1>7. ASSUME s.phase \in {"MATCH_RESULT", "REMATCH"}
      PROVE  /\ Shows(taken, w, c, a + 1, z, k, script)
             /\ Shows(RoomState(taken), w, c, a + 1, z, k, script)
  <2>1. Shows(taken, w, c, a + 1, z, k, script) BY <1>4, <1>6, <1>7
  <2> HIDE DEF taken
  <2> QED BY <2>1, ShowsState
<1> HIDE DEF taken
<1>8. ASSUME s.phase \in {"MATCH_RESULT", "REMATCH"}
      PROVE  Shows(Then(RoomState(taken), room, moves), w, c, a + 1, z, k, script)
  <2>1. moves \in SUBSET (RoomMoves \ {"ACTIVATE", "ACTIVATE_OVER"}) BY DEF RoomMoves
  <2> HIDE DEF moves
  <2> QED BY <1>7, <1>8, <2>1, ThenShows
<1>9. Shows(refused, w, c, a + 1, z, k, script) BY ControlRefusedShows
<1>10. \/ HandleRematch(s, e, room) = refused
       \/ /\ s.phase \in {"MATCH_RESULT", "REMATCH"}
          /\ HandleRematch(s, e, room) \in {taken, Then(RoomState(taken), room, moves)}
  BY DEF HandleRematch, taken, r
<1> HIDE DEF refused, moves
<1> QED BY <1>7, <1>8, <1>9, <1>10

LEMMA RejectedShows ==
    ASSUME NEW s, NEW w, NEW c, NEW a, NEW z, NEW k, NEW script,
           Shows(s, w, c, a, z, k, script),
           NEW e, Heard(e, c, a), NEW verdict \in Verdicts, verdict.reconcile # "NONE",
           script.on /\ s.phase = "ACTIVE" /\ s.board \in Boards
              /\ s.board = script.board[a]
              => s.expired \/ s.board \in Finished
    PROVE  Shows(SendSnapshot(Reject(s, e, verdict)), w, c, a + 1, z, k, script)
<1> DEFINE t == Remember(s, e, verdict)
<1>1. s \in SrvType /\ e.id \in ActionIds BY DEF Shows, Based, Wired, Heard
<1>2. Alike(s, t) BY <1>1, RememberAlike
<1> HIDE DEF t
<1>3. Shows(t, w, c, a, z, k, script) BY <1>2, AlikeShows
<1>4. script.on /\ t.phase = "ACTIVE" /\ t.board \in Boards /\ t.board = script.board[a]
         => t.expired \/ t.board \in Finished
  BY <1>2 DEF Alike
<1>5. Shows(SendSnapshot(Answer(t, e, verdict)), w, c, a + 1, z, k, script)
  BY <1>3, <1>4, ShowsRefused
<1> QED BY <1>5 DEF Reject, t

(* A move taken on a board in play, or one that changes nothing there.     *)
LEMMA MoveShows ==
    ASSUME NEW s, NEW w, NEW c, NEW a, NEW z, NEW k, NEW script,
           Shows(s, w, c, a, z, k, script),
           s.phase = "ACTIVE", s.board \in Boards \ Finished, ~s.expired,
           NEW e, Heard(e, c, a), e.do \in Moves, e.base = s.board, Obeys(e, script),
           NEW t \in SrvType, t.seq = s.seq, t.sent = s.sent, t.connected = s.connected,
           t.epoch = s.epoch, t.match = s.match, t.phase = s.phase, t.expired = s.expired,
           t.ready = s.ready, t.board = Play(s.board, e.do),
           NEW verdict \in Verdicts, verdict.reconcile = "NONE"
    PROVE  Shows(Answer(t, e, verdict), w, c, a + 1, z, k, script)
<1>1. e.id = a + 1 BY DEF Heard
<1>2. t.board \in Boards BY GameAssumption
<1>3. ASSUME NEW x \in Views, x.heard = a, Depicts(x, s, z, script)
      PROVE  /\ Depicts([x EXCEPT !.heard = a + 1], t, z, script)
             /\ x.stage \notin {"DEALT", "DEAD"}
  <2> DEFINE y == [x EXCEPT !.heard = a + 1]
  <2>1. a \in Nat BY <1>3, ViewFacts
  <2>2. /\ y.heard = a + 1 /\ y.match = x.match /\ y.phase = x.phase
        /\ y.stage = x.stage /\ y.board = x.board
    BY DEF Views
  <2>3. script.on => script.board[a + 1] =
           IF s.board \in Finished THEN s.board ELSE Play(s.board, e.do)
    BY <1>1, <2>1 DEF Obeys
  <2>4. script.on => t.board = script.board[a + 1] BY <2>3
  <2> HIDE DEF y
  <2>5. x.stage \notin {"DEALT", "DEAD"} BY <1>3 DEF Depicts
  <2>6. Depicts(y, t, z, script) BY <1>2, <1>3, <2>2, <2>4, <2>5 DEF Depicts
  <2> QED BY <2>5, <2>6 DEF y
<1>4. Engaged(t) => t.match = k BY DEF Shows, Based, Engaged
<1> QED BY <1>3, <1>4, AnswerShows

LEMMA HandleBoardActionShows ==
    ASSUME NEW s, NEW w, NEW c, NEW a, NEW z, NEW k, NEW script,
           Shows(s, w, c, a, z, k, script),
           NEW e, Heard(e, c, a), e.do \in Moves, e.base = s.board, Obeys(e, script),
           NEW room
    PROVE  Shows(HandleBoardAction(s, e, room), w, c, a + 1, z, k, script)
<1> DEFINE no == Rejected("ROLLBACK", s.board)
           refused == SendSnapshot(Reject(s, e, no))
           board == Play(s.board, e.do)
           same == Rejected("NONE", board)
           yes == Verdict(TRUE, "NONE", board)
           r == [s EXCEPT !.board = board]
           kept == Reject(s, e, same)
           moved == Accept(r, e, board)
           logged == IF board = s.board THEN kept ELSE moved
           over == s.phase # "ACTIVE" \/ s.board \in Finished \cup {NoBoard} \/ s.expired
<1>1. s \in SrvType /\ e.id \in ActionIds /\ s.board \in Hashes
  BY DEF Shows, Based, Wired, SrvType, Heard
<1>2. e.do # NoCell BY GameAssumption
<1>3. no \in Verdicts /\ no.reconcile # "NONE"
  BY <1>1 DEF Rejected, Verdict, Verdicts, Reconciles
<1>4. \/ over /\ HandleBoardAction(s, e, room) \in {refused, Then(refused, room, Settlements)}
      \/ ~over /\ HandleBoardAction(s, e, room) \in {logged, EndMatch(logged)}
  BY <1>2 DEF HandleBoardAction
<1> HIDE DEF no, same, yes, board, r
<1>5. CASE over
  <2>1. script.on /\ s.phase = "ACTIVE" /\ s.board \in Boards /\ s.board = script.board[a]
           => s.expired \/ s.board \in Finished
    BY <1>5, GameAssumption
  <2>2. Shows(refused, w, c, a + 1, z, k, script) BY <1>3, <2>1, RejectedShows
  <2>3. Settlements \in SUBSET (RoomMoves \ {"ACTIVATE", "ACTIVATE_OVER"})
    BY DEF Settlements, RoomMoves
  <2> HIDE DEF refused, logged
  <2>4. Shows(Then(refused, room, Settlements), w, c, a + 1, z, k, script)
    BY <2>2, <2>3, ThenShows
  <2> QED BY <1>4, <1>5, <2>2, <2>4
<1>6. CASE ~over
  <2>1. s.phase = "ACTIVE" /\ s.board \in Boards \ Finished /\ ~s.expired
    BY <1>1, <1>6 DEF Hashes
  <2>2. board \in Boards /\ board \in Hashes BY <2>1, GameAssumption DEF Hashes, board
  <2>3. /\ same \in Verdicts /\ same.reconcile = "NONE"
        /\ yes \in Verdicts /\ yes.reconcile = "NONE"
    BY <2>2 DEF Rejected, Verdict, Verdicts, Reconciles, same, yes
  <2>4. /\ r \in SrvType /\ r.seq = s.seq /\ r.sent = s.sent /\ r.connected = s.connected
        /\ r.epoch = s.epoch /\ r.match = s.match /\ r.phase = s.phase
        /\ r.expired = s.expired /\ r.ready = s.ready /\ r.board = board
    BY <1>1, <2>2 DEF SrvType, r
  <2>5. ASSUME board = s.board
        PROVE  Shows(kept, w, c, a + 1, z, k, script)
    <3> DEFINE t == Remember(s, e, same)
    <3>1. Alike(s, t) BY <1>1, <2>3, RememberAlike
    <3> HIDE DEF t
    <3>2. Shows(Answer(t, e, same), w, c, a + 1, z, k, script)
      BY <2>1, <2>3, <2>5, <3>1, MoveShows DEF Alike, board
    <3> QED BY <3>2 DEF Reject, t
  <2>6. Shows(moved, w, c, a + 1, z, k, script)
    <3> DEFINE t == Apply(Remember(r, e, yes), e)
    <3>1. Alike(r, t) BY <1>1, <2>3, <2>4, RememberAlike
    <3> HIDE DEF t
    <3>2. Shows(Answer(t, e, yes), w, c, a + 1, z, k, script)
      BY <2>1, <2>3, <2>4, <3>1, MoveShows DEF Alike, board
    <3> QED BY <3>2 DEF Accept, t, yes
  <2> HIDE DEF kept, moved
  <2>7. Shows(logged, w, c, a + 1, z, k, script) BY <2>5, <2>6
  <2> HIDE DEF logged
  <2>8. Shows(EndMatch(logged), w, c, a + 1, z, k, script)
    BY <2>7, ShowsLoose, EndMatchShows
  <2> QED BY <1>4, <1>6, <2>7, <2>8
<1> QED BY <1>5, <1>6

LEMMA DispatchShows ==
    ASSUME NEW s, NEW w, NEW c, NEW a, NEW z, NEW k, NEW script,
           Shows(s, w, c, a, z, k, script), s.match = k,
           NEW e, Heard(e, c, a), e.do \in Controls \cup Moves, Obeys(e, script),
           IsBoardAction(e) => e.base = s.board, NEW room
    PROVE  Shows(Dispatch(s, e, room), w, c, a + 1, z, k, script)
<1>1. BoardActions \cap Controls = {} BY GameAssumption DEF BoardActions, Controls
<1>2. CASE e.do = "READY"
  <2>1. e.do \in Controls BY <1>2 DEF Controls
  <2>2. Dispatch(s, e, room) = HandleReady(s, e, room)
    BY <1>1, <1>2, <2>1 DEF Dispatch, IsBoardAction
  <2> QED BY <2>1, <2>2, HandleReadyShows
<1>3. CASE e.do = "REMATCH"
  <2>1. e.do \in Controls BY <1>3 DEF Controls
  <2>2. Dispatch(s, e, room) = HandleRematch(s, e, room)
    BY <1>1, <1>3, <2>1 DEF Dispatch, IsBoardAction
  <2> QED BY <2>1, <2>2, HandleRematchShows
<1>4. CASE e.do \in Moves
  <2>1. IsBoardAction(e) /\ e.do # "READY" /\ e.do # "REMATCH"
    BY <1>1, <1>4 DEF Controls, IsBoardAction, BoardActions
  <2>2. Dispatch(s, e, room) = HandleBoardAction(s, e, room) BY <2>1 DEF Dispatch
  <2> QED BY <1>4, <2>1, <2>2, HandleBoardActionShows
<1> QED BY <1>2, <1>3, <1>4 DEF Controls

(* The session between two steps: once the browser has read what is on the *)
(* wire, it shows the room.                                                *)
Visible(s, w, c, a, z, script) ==
    /\ s.epoch = 1
    /\ \E x \in Views :
          /\ x.heard = a /\ ~x.owed /\ Depicts(x, s, z, script)
          /\ Reading(s.seq, w, c, x, script)

LEMMA VisibleShows ==
    ASSUME NEW a, Standing(a), CliSound(cli), NEW z, NEW y, z => y, NEW script,
           Visible(srv, down, cli, a, z, script), NEW k, Engaged(srv) => srv.match = k,
           NEW t \in SrvType, t.seq = srv.seq, t.connected = srv.connected,
           t.epoch = srv.epoch, t.match = srv.match, t.phase = srv.phase,
           t.board = srv.board, t.expired = srv.expired, t.ready = srv.ready,
           \A i \in DOMAIN t.sent : t.sent[i].seq <= srv.seq
    PROVE  Shows(t, down, cli, a, y, k, script)
<1>1. PICK x \in Views :
          /\ x.heard = a /\ ~x.owed /\ Depicts(x, srv, z, script)
          /\ Reading(srv.seq, down, cli, x, script)
  BY DEF Visible
<1>2. Based(t, down, cli, k)
  BY DEF Based, Standing, Wired, Engaged, Visible, CliSound
<1>3. t.sent \in Seq(Messages) BY DEF SrvType
<1>4. Reading(srv.seq, down \o t.sent, cli, x, script) BY <1>1, <1>3, ReadingAgain
<1>5. Depicts(x, t, y, script) BY <1>1 DEF Depicts
<1> QED BY <1>1, <1>2, <1>4, <1>5 DEF Shows

LEMMA BeginRoom ==
    ASSUME srv \in SrvType, NEW last \in Int
    PROVE  LET t == Begin(last) IN
           /\ t \in SrvType /\ t.seq = srv.seq /\ t.connected = srv.connected
           /\ t.epoch = srv.epoch /\ t.match = srv.match /\ t.phase = srv.phase
           /\ t.board = srv.board /\ t.expired = srv.expired /\ t.ready = srv.ready
           /\ t.sent = <<>>
<1> DEFINE none == <<>>
           t == [srv EXCEPT !.sent = none, !.asked = last]
<1>1. none \in Seq(Messages) OBVIOUS
<1> HIDE DEF none
<1>2. /\ t \in SrvType /\ t.seq = srv.seq /\ t.connected = srv.connected
      /\ t.epoch = srv.epoch /\ t.match = srv.match /\ t.phase = srv.phase
      /\ t.board = srv.board /\ t.expired = srv.expired /\ t.ready = srv.ready
      /\ t.sent = none
  BY <1>1 DEF SrvType
<1> QED BY <1>2 DEF Begin, none

LEMMA BeginShows ==
    ASSUME NEW a, Standing(a), CliSound(cli), NEW z, NEW y, z => y, NEW script,
           Visible(srv, down, cli, a, z, script), NEW k, Engaged(srv) => srv.match = k,
           NEW last \in Int
    PROVE  Shows(Begin(last), down, cli, a, y, k, script)
<1> DEFINE t == Begin(last)
<1>1. /\ t \in SrvType /\ t.seq = srv.seq /\ t.connected = srv.connected
      /\ t.epoch = srv.epoch /\ t.match = srv.match /\ t.phase = srv.phase
      /\ t.board = srv.board /\ t.expired = srv.expired /\ t.ready = srv.ready
      /\ t.sent = <<>>
  BY BeginRoom DEF Standing, Wired
<1>2. \A i \in DOMAIN t.sent : t.sent[i].seq <= srv.seq BY <1>1
<1> HIDE DEF t
<1>3. Shows(t, down, cli, a, y, k, script) BY <1>1, <1>2, VisibleShows
<1> QED BY <1>3 DEF t

LEMMA CaughtUpShows ==
    ASSUME NEW a, Standing(a), CliSound(cli), NEW z, NEW y, z => y, NEW script,
           Visible(srv, down, cli, a, z, script), NEW k, Engaged(srv) => srv.match = k,
           NEW e, e.last \in Nat, Reaches(srv, e.last)
    PROVE  /\ Shows(CaughtUp(e), down, cli, a, y, k, script)
           /\ CaughtUp(e).board = srv.board /\ CaughtUp(e).match = srv.match
<1> DEFINE b == Begin(e.last)
           t == CaughtUp(e)
<1>1. Sound(t) BY CaughtUpFacts DEF Standing, Complete, Wired
<1>2. /\ b \in SrvType /\ b.seq = srv.seq /\ b.connected = srv.connected
      /\ b.epoch = srv.epoch /\ b.match = srv.match /\ b.phase = srv.phase
      /\ b.board = srv.board /\ b.expired = srv.expired /\ b.ready = srv.ready
      /\ b.asked = e.last
  <2>1. e.last \in Int OBVIOUS
  <2>2. b.asked = e.last BY DEF Begin, Standing, Wired, SrvType
  <2> QED BY <2>1, <2>2, BeginRoom DEF Standing, Wired
<1>3. \E sent : t = [b EXCEPT !.sent = sent] BY DEF CaughtUp, CatchUp
<1> HIDE DEF b, t
<1>4. /\ t.seq = srv.seq /\ t.connected = srv.connected
      /\ t.epoch = srv.epoch /\ t.match = srv.match /\ t.phase = srv.phase
      /\ t.board = srv.board /\ t.expired = srv.expired /\ t.ready = srv.ready
      /\ t.asked = e.last
  BY <1>2, <1>3 DEF SrvType
<1>5. \A i \in DOMAIN t.sent : t.sent[i].seq <= srv.seq
  <2>1. EndOfStream(t.seq, t.sent) /\ t.sent \in Seq(Messages) /\ t.seq \in Nat
    BY <1>1, <1>4 DEF Sound, Streaming, SrvType
  <2>2. Len(t.sent) \in Nat /\ DOMAIN t.sent = 1 .. Len(t.sent) BY <2>1
  <2>3. \A i \in DOMAIN t.sent : t.seq - Len(t.sent) + i <= t.seq BY <2>1, <2>2
  <2> QED BY <1>4, <2>1, <2>3 DEF EndOfStream
<1>6. t \in SrvType BY <1>1 DEF Sound
<1>7. Shows(t, down, cli, a, y, k, script) BY <1>4, <1>5, <1>6, VisibleShows
<1> QED BY <1>4, <1>7 DEF t

(* An envelope arrives.  One of an earlier match meets a room at rest, and *)
(* one from before the ring is delivery lagging behind.                    *)
LEMMA HandleActionShows ==
    ASSUME NEW a, Standing(a), CliSound(cli), NEW z, NEW y, z => y, NEW script,
           Visible(srv, down, cli, a, z, script),
           NEW e, Heard(e, cli, a), e.do \in Controls \cup Moves, e.epoch = 1,
           e.last \in Nat, e.last <= srv.seq, Obeys(e, script),
           Engaged(srv) => srv.match = e.match, ~Reaches(srv, e.last) => y,
           MaxActions <= ActionLimit, HandleAction(e)
    PROVE  Shows(srv', down, cli, a + 1, y, e.match, script)
<1> DEFINE need(hash) == Rejected("SNAPSHOT_REQUIRED", hash)
           hash == BaseStateHash(srv, e)
           b == Begin(e.last)
           t == CaughtUp(e)
<1>1. srv \in SrvType /\ hash \in Hashes /\ NoBoard \in Hashes /\ srv.epoch = 1
  BY BaseStateHashType DEF Standing, Wired, Hashes, Visible
<1>2. ASSUME NEW h \in Hashes
      PROVE  need(h) \in Verdicts /\ need(h).reconcile # "NONE"
  BY DEF Rejected, Verdict, Verdicts, Reconciles
<1>3. /\ Shows(b, down, cli, a, y, e.match, script) /\ b.phase = srv.phase
  <2>1. e.last \in Int OBVIOUS
  <2> QED BY <1>1, <2>1, BeginShows, BeginRoom
<1>4. Loose(b, down, cli, a, e.match, script) BY <1>3, ShowsLoose
<1> HIDE DEF need, hash, b, t
<1>5. ASSUME NEW h \in Hashes, y \/ ~Engaged(srv)
      PROVE  Shows(SendSnapshot(Answer(b, e, need(h))), down, cli, a + 1, y, e.match, script)
  <2>1. y \/ b.phase \notin {"COUNTDOWN", "ACTIVE"} BY <1>3, <1>5 DEF Engaged
  <2> QED BY <1>2, <1>4, <2>1, LooseRefused
<1>6. CASE Outdated(e)
  <2>1. ~Engaged(srv) BY <1>1, <1>6 DEF Outdated, Current
  <2> QED BY <1>1, <1>5, <1>6, <2>1 DEF Outdated, need, b
<1>7. CASE FallenBehind(e) BY <1>1, <1>5, <1>7 DEF FallenBehind, need, hash, b
<1>8. ~Repeated(e) /\ ~Declined(e) BY IdIsNew DEF Repeated, Declined
<1>9. ASSUME New(e)
      PROVE  /\ Shows(t, down, cli, a, y, e.match, script)
             /\ t.board = srv.board /\ t.match = e.match
  BY <1>9, CaughtUpShows DEF New, InTouch, Current, t
<1>10. CASE Misbased(e)
  <2>1. /\ New(e) /\ srv' = SendSnapshot(Reject(t, e, need(hash)))
        /\ e.do \in Moves /\ e.base # srv.board
    BY <1>10, GameAssumption
    DEF Misbased, need, hash, t, BaseDiffers, BaseStateHash, IsBoardAction, BoardActions, Controls
  <2>2. ~(script.on /\ t.board = script.board[a])
    <3>1. a \in Nat /\ e.id - 1 = a BY DEF Heard, Standing
    <3> QED BY <1>9, <2>1, <3>1 DEF Obeys
  <2> QED BY <1>1, <1>2, <1>9, <2>1, <2>2, RejectedShows
<1>11. CASE Dispatched(e)
  <2>1. New(e) /\ (IsBoardAction(e) => e.base = srv.board)
    BY <1>11 DEF Dispatched, BaseDiffers, BaseStateHash
  <2>2. PICK room : srv' = Dispatch(t, e, room) BY <1>11 DEF Dispatched, t
  <2>3. Shows(Dispatch(t, e, room), down, cli, a + 1, y, e.match, script)
    BY <1>9, <2>1, DispatchShows
  <2> QED BY <2>2, <2>3
<1> QED BY <1>6, <1>7, <1>8, <1>10, <1>11 DEF HandleAction

(* What an envelope says of the browser is of the past, and the later ones *)
(* say no less.                                                            *)
Posted(u, c) ==
    /\ c.ui.processed <= c.processed /\ c.ui.match <= c.match
    /\ \A i \in DOMAIN u : u[i].last <= c.ui.processed /\ u[i].match <= c.ui.match
    /\ \A i, j \in DOMAIN u : i <= j => u[i].match <= u[j].match

(* A room that is engaged has nobody left in an earlier match.             *)
InMatch(s, u, c) ==
    Engaged(s) => c.ui.match = s.match /\ \A i \in DOMAIN u : u[i].match = s.match

Scripted(u, script) == \A i \in DOMAIN u : Obeys(u[i], script)

LEMMA LateShows ==
    ASSUME NEW s, NEW w, NEW c, NEW a, NEW z, NEW k, NEW script,
           Shows(s, w, c, a, z, k, script), NEW y, z => y
    PROVE  Shows(s, w, c, a, y, k, script)
<1>1. \A x : Depicts(x, s, z, script) => Depicts(x, s, y, script) BY DEF Depicts
<1> QED BY <1>1 DEF Shows

(* What the room has sent goes on the wire.                                *)
LEMMA WireVisible ==
    ASSUME NEW a, NEW k, NEW script, Shows(srv', down, cli, a, late', k, script), Wire,
           cli' = cli
    PROVE  /\ Visible(srv', down', cli', a, late', script)
           /\ Engaged(srv') => srv'.match = k
BY DEF Shows, Based, Visible, Wire

(* Which actions the room has answered: before a round opens in time, all  *)
(* that were played.                                                       *)
LEMMA NothingPlayed ==
    ASSUME NEW a \in Nat, CliSound(cli), Sending(up, cli, a), ~RoundLingers
    PROVE  /\ \A p \in cli.pending : p.id <= a
           /\ \A i \in DOMAIN up : up[i].do \in Controls
<1>1. \A i \in DOMAIN up : up[i].do \notin Moves /\ up[i].do \in Controls
  <2> SUFFICES ASSUME NEW i \in DOMAIN up
               PROVE  up[i].do \notin Moves /\ up[i].do \in Controls
    OBVIOUS
  <2>1. ~IsBoardAction(up[i]) BY DEF RoundLingers
  <2>2. up[i] \in Letters BY DEF Sending
  <2> QED BY <2>1, <2>2 DEF IsBoardAction, BoardActions, Letters
<1>2. ASSUME NEW p \in cli.pending, ~(p.id <= a)
      PROVE  FALSE
  <2>1. p.id \in Nat /\ p.id <= cli.count /\ cli.count \in Nat
    BY DEF CliSound, CliType, Actions
  <2>2. cli.count = a + Len(up) /\ Len(up) \in Nat /\ DOMAIN up = 1 .. Len(up)
    BY DEF Sending
  <2>3. p.id - a \in DOMAIN up BY <1>2, <2>1, <2>2
  <2>4. up[p.id - a].id = p.id
    <3>1. a + (p.id - a) = p.id BY <2>1
    <3> QED BY <2>3, <3>1 DEF Sending
  <2>5. Asked(p, up[p.id - a]) BY <2>3, <2>4 DEF Sending
  <2> QED BY <1>1, <2>3, <2>5 DEF Asked
<1> QED BY <1>1, <1>2

LEMMA RoomView ==
    ASSUME NEW a, NEW script \in Scripts, Standing(a), CliSound(cli), Sending(up, cli, a),
           Visible(srv, down, cli, a, late, script), InMatch(srv, up, cli),
           Scripted(up, script), NEW move \in Proceedings, RoomProceeds(move)
    PROVE  /\ InMatch(srv', up', cli')
           /\ \E other \in Scripts :
                 Visible(srv', down', cli', a, late', other) /\ Scripted(up', other)
<1> DEFINE k == IF Engaged(srv) THEN srv.match ELSE 0
           b == Begin(-1)
<1>1. /\ move \in RoomMoves /\ RoomActs(move) /\ Wire /\ cli' = cli /\ up' = up
      /\ late => late'
      /\ move \in {"ACTIVATE", "ACTIVATE_OVER"} /\ RoundLingers => late'
  BY SessionAssumption DEF RoomProceeds
<1>2. srv' = RoomMove(b, move) /\ MayMove(b, move)
  BY <1>1, BeginFacts DEF RoomActs, Standing, Complete
<1>3. /\ b \in SrvType /\ b.sent = <<>> /\ b.phase = srv.phase /\ b.board = srv.board
  <2>1. -1 \in Int OBVIOUS
  <2> QED BY <2>1, BeginRoom DEF Standing, Wired
<1>4. Engaged(srv) => srv.match = k OBVIOUS
<1>5. k # 0 => Engaged(srv) /\ k = srv.match OBVIOUS
<1>6. srv.match \in 1 .. MaxMatch BY DEF Standing, Wired, SrvType
<1>7. srv.phase = "COUNTDOWN" => srv.board \in Boards
  BY GameAssumption DEF Standing, RoomOk
<1> HIDE DEF k, b
<1>8. ASSUME NEW other, Shows(srv', down, cli, a, late', k, other)
      PROVE  /\ InMatch(srv', up', cli')
             /\ Visible(srv', down', cli', a, late', other)
  <2>1. /\ Visible(srv', down', cli', a, late', other)
        /\ Engaged(srv') => srv'.match = k
    BY <1>1, <1>8, WireVisible
  <2>2. srv'.match # 0
    <3>1. srv'.match \in 1 .. MaxMatch BY <1>8 DEF Shows, Based, Wired, SrvType
    <3> QED BY <3>1, BoundAssumption
  <2> QED BY <1>1, <1>5, <2>1, <2>2 DEF InMatch
<1>9. CASE move = "ACTIVATE" /\ ~late'
  <2> DEFINE board == Open(srv.board)
             other == [on |-> TRUE, board |-> [n \in Nat |-> board]]
  <2>1. srv.phase = "COUNTDOWN" BY <1>2, <1>3, <1>9 DEF MayMove
  <2>2. ~RoundLingers /\ ~late BY <1>1, <1>9
  <2>3. board \in Hashes BY <1>7, <2>1, GameAssumption DEF Hashes
  <2> HIDE DEF board
  <2>4. other \in Scripts /\ other.on /\ \A n \in Nat : other.board[n] = board
    BY <2>3 DEF Scripts
  <2> HIDE DEF other
  <2>5. Shows(b, down, cli, a, FALSE, k, script)
    <3>1. -1 \in Int /\ (late => FALSE) BY <2>2
    <3> QED BY <1>4, <3>1, BeginShows DEF b
  <2>6. a \in Nat /\ down \o b.sent = down BY <1>3, ConcatEmptySeq DEF Standing
  <2>7. /\ \A n \in DOMAIN down : down[n].body.type # "COUNTDOWN"
        /\ cli.ui.phase # "ACTIVE"
    BY <2>2 DEF RoundLingers
  <2>8. /\ \A p \in cli.pending : p.id <= a
        /\ \A i \in DOMAIN up : up[i].do \in Controls
    BY <2>2, <2>6, NothingPlayed
  <2>9. \A n \in Nat : other.board[n] = Open(b.board) BY <1>3, <2>4 DEF board
  <2>10. Shows(Activating(b), down, cli, a, FALSE, k, other)
    BY <1>3, <2>1, <2>4, <2>5, <2>6, <2>7, <2>8, <2>9, OpeningShows
  <2>11. Shows(RoomState(Activating(b)), down, cli, a, FALSE, k, other)
    BY <2>10, ShowsState
  <2>12. Shows(srv', down, cli, a, FALSE, k, other) BY <1>2, <1>9, <2>11 DEF RoomMove
  <2>13. Shows(srv', down, cli, a, late', k, other) BY <2>12, LateShows
  <2>14. Scripted(up, other)
    <3> SUFFICES ASSUME NEW i \in DOMAIN up PROVE Obeys(up[i], other) BY DEF Scripted
    <3>1. up[i].do \in Controls /\ up[i].do \notin Moves BY <2>8, GameAssumption DEF Controls
    <3>2. up[i].id \in Nat /\ up[i].id - 1 \in Nat
      <4>1. i \in 1 .. Len(up) /\ Len(up) \in Nat /\ up[i].id = a + i BY DEF Sending
      <4> QED BY <2>6, <4>1
    <3> QED BY <2>4, <3>1, <3>2 DEF Obeys
  <2> QED BY <1>1, <1>8, <2>4, <2>13, <2>14
<1>10. CASE ~(move = "ACTIVATE" /\ ~late')
  <2>1. Shows(b, down, cli, a, late', k, script)
    <3>1. -1 \in Int OBVIOUS
    <3> QED BY <1>1, <1>4, <3>1, BeginShows DEF b
  <2>2. move \in {"ACTIVATE", "ACTIVATE_OVER"} => b.board \in Boards
    BY <1>2, <1>3, <1>7 DEF MayMove
  <2>3. Shows(srv', down, cli, a, late', k, script)
    BY <1>1, <1>2, <1>10, <2>1, <2>2, RoomMoveShows
  <2> QED BY <1>1, <1>8, <2>3
<1> QED BY <1>9, <1>10

LEMMA ExpiryView ==
    ASSUME NEW a, NEW script \in Scripts, Standing(a), CliSound(cli),
           Visible(srv, down, cli, a, late, script), InMatch(srv, up, cli), RoundExpires
    PROVE  InMatch(srv', up', cli') /\ Visible(srv', down', cli', a, late', script)
<1> DEFINE k == srv.match
           b == Begin(-1)
<1>1. /\ srv' = [b EXCEPT !.expired = TRUE]
      /\ cli' = cli /\ up' = up /\ down' = down /\ late' = late
  BY DEF RoundExpires, DeadlinePasses
<1>2. /\ b \in SrvType /\ b.sent = <<>> /\ b.match = srv.match /\ b.ready = srv.ready
      /\ b.phase = srv.phase
  <2>1. -1 \in Int OBVIOUS
  <2> QED BY <2>1, BeginRoom DEF Standing, Wired
<1>3. Shows(b, down, cli, a, late, k, script)
  <2>1. -1 \in Int OBVIOUS
  <2> QED BY <2>1, BeginShows
<1> HIDE DEF b
<1>4. /\ srv' \in SrvType /\ srv'.seq = b.seq /\ srv'.sent = b.sent
      /\ srv'.connected = b.connected /\ srv'.epoch = b.epoch /\ srv'.match = b.match
      /\ srv'.phase = b.phase /\ srv'.board = b.board /\ srv'.expired /\ srv'.ready = b.ready
  BY <1>1, <1>2 DEF SrvType
<1>5. Shows(srv', down, cli, a, late, k, script)
  BY <1>2, <1>3, <1>4, ShowsChange
<1>6. Shows(srv', down, cli, a, late', k, script) BY <1>1, <1>5
<1>7. Wire BY <1>1, <1>2, <1>4, ConcatEmptySeq DEF Wire, Standing
<1>8. Visible(srv', down', cli', a, late', script) BY <1>1, <1>6, <1>7, WireVisible
<1>9. InMatch(srv', up', cli') BY <1>1, <1>2, <1>4 DEF InMatch, Engaged
<1> QED BY <1>8, <1>9

LEMMA VisibleEnds ==
    ASSUME NEW s, NEW w, NEW c \in CliType, NEW a, NEW z, NEW script,
           Visible(s, w, c, a, z, script)
    PROVE  c.match <= s.match /\ c.processed <= s.seq
<1>1. PICK x \in Views : Depicts(x, s, z, script) /\ Reading(s.seq, w, c, x, script)
  BY DEF Visible
<1> QED BY <1>1, ReadingEnds DEF Depicts

(* Numbers of the browser.                                                 *)
LEMMA ClientNumbers ==
    ASSUME NEW c \in CliType
    PROVE  /\ c.match \in Nat /\ c.match \in 1 .. MaxMatch
           /\ c.ui.match \in Nat /\ c.ui.match \in 1 .. MaxMatch
           /\ c.processed \in Nat /\ c.ui.processed \in Nat /\ c.count \in Nat
           /\ c.ui.phase \in UiPhases
<1>1. MaxMatch \in Nat BY BoundAssumption
<1>2. c.match \in 1 .. MaxMatch /\ c.processed \in Nat /\ c.count \in Nat BY DEF CliType
<1>3. c.ui \in [phase : UiPhases, match : 1 .. MaxMatch, processed : Nat] BY DEF CliType
<1>4. c.ui.match \in 1 .. MaxMatch /\ c.ui.processed \in Nat /\ c.ui.phase \in UiPhases
  BY <1>3
<1> QED BY <1>1, <1>2, <1>4

LEMMA LetterNumbers ==
    ASSUME NEW l \in Letters
    PROVE  l.match \in Nat /\ l.last \in Nat /\ l.id \in Nat
<1>1. l.match \in 1 .. MaxMatch /\ l.last \in Nat /\ l.id \in Nat BY DEF Letters
<1> QED BY <1>1, BoundAssumption

LEMMA ReceiptView ==
    ASSUME NEW a, NEW script, Standing(a), CliSound(cli), Sending(up, cli, a),
           Visible(srv, down, cli, a, late, script), Posted(up, cli),
           InMatch(srv, up, cli), Scripted(up, script), MaxActions <= ActionLimit,
           RoomReceives
    PROVE  /\ Visible(srv', down', cli', a + 1, late', script)
           /\ Posted(up', cli') /\ InMatch(srv', up', cli') /\ Scripted(up', script)
<1> DEFINE e == Head(up)
           L == Len(up)
<1>1. /\ up # <<>> /\ HandleAction(e) /\ up' = Tail(up) /\ Wire /\ cli' = cli
      /\ (late => late') /\ (~Reaches(srv, e.last) => late') /\ a \in Nat
  BY DEF RoomReceives, Standing
<1>2. /\ up \in Seq(Letters) /\ L \in Nat /\ L >= 1 /\ DOMAIN up = 1 .. L
      /\ e = up[1] /\ 1 \in DOMAIN up /\ e \in Letters
  BY <1>1 DEF Sending
<1>3. /\ up' \in Seq(Letters) /\ Len(up') = L - 1
      /\ \A i \in 1 .. Len(up') : up'[i] = up[i + 1]
  BY <1>1, <1>2, HeadTailProperties
<1>4. \A i \in DOMAIN up' : i \in Nat /\ i + 1 \in DOMAIN up /\ up'[i] = up[i + 1]
  <2>1. DOMAIN up' = 1 .. L - 1 BY <1>2, <1>3
  <2> QED BY <1>2, <1>3, <2>1
<1>5. Heard(e, cli, a) BY <1>1, SendingFewer
<1>6. e.do \in Controls \cup Moves /\ e.epoch = 1 /\ e.last \in Nat /\ e.match \in Nat
  BY <1>2, LetterNumbers DEF Letters
<1>7. cli \in CliType /\ srv \in SrvType BY DEF CliSound, Standing, Wired
<1>8. e.last <= srv.seq
  <2>1. e.last <= cli.ui.processed /\ cli.ui.processed <= cli.processed
    BY <1>2 DEF Posted
  <2>2. cli.processed <= srv.seq /\ srv.seq \in Nat BY <1>7, VisibleEnds DEF SrvType
  <2>3. cli.ui.processed \in Nat /\ cli.processed \in Nat BY <1>7, ClientNumbers
  <2> QED BY <1>6, <2>1, <2>2, <2>3
<1>9. Obeys(e, script) BY <1>2 DEF Scripted
<1>10. Engaged(srv) => srv.match = e.match BY <1>2 DEF InMatch
<1> HIDE DEF e, L
<1>11. Shows(srv', down, cli, a + 1, late', e.match, script)
  BY <1>1, <1>5, <1>6, <1>8, <1>9, <1>10, HandleActionShows
<1>12. /\ Visible(srv', down', cli', a + 1, late', script)
       /\ Engaged(srv') => srv'.match = e.match
  BY <1>1, <1>11, WireVisible
<1>13. Posted(up', cli')
  <2>1. \A i, j \in DOMAIN up' : i <= j => i + 1 <= j + 1 BY <1>4
  <2> QED BY <1>1, <1>4, <2>1 DEF Posted
<1>14. Scripted(up', script) BY <1>4 DEF Scripted
<1>15. InMatch(srv', up', cli')
  <2> SUFFICES ASSUME Engaged(srv')
               PROVE  /\ cli.ui.match = srv'.match
                      /\ \A i \in DOMAIN up' : up'[i].match = srv'.match
    BY <1>1 DEF InMatch
  <2>1. srv'.match = e.match BY <1>12
  <2>2. cli.match <= srv'.match BY <1>1, <1>7, <1>12, VisibleEnds
  <2>3. cli.match \in Nat /\ cli.ui.match \in Nat BY <1>7, ClientNumbers
  <2>4. ASSUME NEW i \in DOMAIN up
        PROVE  up[i].match = srv'.match /\ cli.ui.match = srv'.match
    <3>1. up[i].match \in Nat BY <1>2, LetterNumbers
    <3>2. 1 <= i BY <1>2
    <3>3. e.match <= up[i].match /\ up[i].match <= cli.ui.match /\ cli.ui.match <= cli.match
      BY <1>2, <3>2 DEF Posted
    <3> QED BY <1>6, <2>1, <2>2, <2>3, <3>1, <3>3
  <2> QED BY <1>2, <1>4, <2>4
<1> QED BY <1>12, <1>13, <1>14, <1>15

LEMMA MessageView ==
    ASSUME NEW a, NEW script, CliSound(cli), CliSound(cli'),
           Visible(srv, down, cli, a, late, script), Posted(up, cli),
           InMatch(srv, up, cli), BrowserReceives
    PROVE  /\ Visible(srv', down', cli', a, late', script)
           /\ Posted(up', cli') /\ InMatch(srv', up', cli')
<1> DEFINE c == cli
           d == cli'
<1>1. /\ down # <<>> /\ d = HandleMessage(c, Head(down)) /\ down' = Tail(down)
      /\ srv' = srv /\ up' = up /\ late' = late
  BY DEF BrowserReceives
<1>2. PICK x \in Views :
          /\ x.heard = a /\ ~x.owed /\ Depicts(x, srv, late, script)
          /\ Reading(srv.seq, down, c, x, script)
  BY DEF Visible
<1>3. CliSound(c) /\ CliSound(d) OBVIOUS
<1> HIDE DEF c, d
<1>4. /\ Reading(srv.seq, Tail(down), d, x, script)
      /\ d.ui = c.ui /\ c.match <= d.match /\ c.processed <= d.processed
  <2>1. CliSound(HandleMessage(c, Head(down))) BY <1>1, <1>3
  <2> QED BY <1>1, <1>2, <1>3, <2>1, ReadingMessage
<1>5. Visible(srv', down', d, a, late', script)
  BY <1>1, <1>2, <1>4 DEF Visible
<1>6. Posted(up', d)
  <2>1. /\ c.match \in Nat /\ c.processed \in Nat /\ c.ui.match \in Nat
        /\ c.ui.processed \in Nat /\ d.match \in Nat /\ d.processed \in Nat
    BY <1>3, ClientNumbers DEF CliSound
  <2>2. Posted(up, c) BY DEF c
  <2>3. d.ui.processed <= d.processed /\ d.ui.match <= d.match
    BY <1>4, <2>1, <2>2 DEF Posted
  <2> QED BY <1>1, <1>4, <2>2, <2>3 DEF Posted
<1>7. InMatch(srv', up', d) BY <1>1, <1>4 DEF InMatch, c
<1> QED BY <1>5, <1>6, <1>7 DEF d

LEMMA RenderView ==
    ASSUME NEW a, NEW script, Standing(a), CliSound(cli), Sending(up, cli, a),
           Visible(srv, down, cli, a, late, script), Posted(up, cli),
           InMatch(srv, up, cli), Render
    PROVE  /\ Visible(srv', down', cli', a, late', script)
           /\ Posted(up', cli') /\ InMatch(srv', up', cli')
<1> DEFINE c == cli
           d == cli'
           ui == [phase |-> c.phase, match |-> c.match, processed |-> c.processed]
<1>1. d = [c EXCEPT !.ui = ui] /\ UNCHANGED <<srv, up, down, late>> BY DEF Render
<1>2. c \in CliType /\ srv \in SrvType BY DEF CliSound, Standing, Wired
<1>3. ui.phase = c.phase /\ ui.match = c.match /\ ui.processed = c.processed OBVIOUS
<1>4. PICK x \in Views :
          /\ x.heard = a /\ ~x.owed /\ Depicts(x, srv, late, script)
          /\ Reading(srv.seq, down, c, x, script)
  BY DEF Visible
<1>5. /\ c.match <= srv.match /\ Posted(up, c) /\ InMatch(srv, up, c)
      /\ up \in Seq(Letters)
  BY <1>2, VisibleEnds DEF Sending
<1> HIDE DEF ui, c
<1>6. /\ d.processed = c.processed /\ d.match = c.match /\ d.phase = c.phase
      /\ d.ui = ui /\ d.count = c.count /\ d.pending = c.pending /\ d.game = c.game
  BY <1>1, <1>2 DEF CliType
<1> HIDE DEF d
<1>7. Reading(srv.seq, down, d, x, script)
  BY <1>3, <1>4, <1>6, ReadingRender
<1>8. Visible(srv', down', d, a, late', script) BY <1>1, <1>4, <1>7 DEF Visible
<1>9. /\ c.match \in Nat /\ c.processed \in Nat /\ c.ui.match \in Nat
      /\ c.ui.processed \in Nat /\ srv.match \in Nat
  <2>1. srv.match \in 1 .. MaxMatch BY <1>2 DEF SrvType
  <2> QED BY <1>2, <2>1, ClientNumbers, BoundAssumption
<1>10. Posted(up, d)
  <2>1. d.ui.processed <= d.processed /\ d.ui.match <= d.match
    BY <1>3, <1>6, <1>9
  <2>2. ASSUME NEW i \in DOMAIN up
        PROVE  up[i].last <= d.ui.processed /\ up[i].match <= d.ui.match
    <3>1. up[i].match \in Nat /\ up[i].last \in Nat BY <1>5, LetterNumbers
    <3>2. /\ up[i].last <= c.ui.processed /\ up[i].match <= c.ui.match
          /\ c.ui.processed <= c.processed /\ c.ui.match <= c.match
      BY <1>5 DEF Posted
    <3> QED BY <1>3, <1>6, <1>9, <3>1, <3>2
  <2> QED BY <1>5, <2>1, <2>2 DEF Posted
<1>11. InMatch(srv, up, d)
  <2>1. c.ui.match <= c.match BY <1>5 DEF Posted
  <2>2. c.ui.match = srv.match => c.match = srv.match BY <1>5, <1>9, <2>1
  <2> QED BY <1>3, <1>5, <1>6, <2>2 DEF InMatch
<1> QED BY <1>1, <1>8, <1>10, <1>11 DEF d

(* One more envelope, which says what the browser shows.                   *)
LEMMA PostedMore ==
    ASSUME NEW u, NEW c \in CliType, NEW a \in Nat, Sending(u, c, a), NEW s,
           Posted(u, c), InMatch(s, u, c), NEW script, Scripted(u, script),
           NEW l \in Letters, l.match = c.ui.match, l.last = c.ui.processed,
           NEW d, d.ui = c.ui, d.match = c.match, d.processed = c.processed, NEW other,
           other.on => script.on,
           \A n \in Nat : n # c.count + 1 => other.board[n] = script.board[n],
           Obeys(l, other)
    PROVE  LET v == Append(u, l) IN
           Posted(v, d) /\ InMatch(s, v, d) /\ Scripted(v, other)
<1> DEFINE v == Append(u, l)
           L == Len(u)
<1>1. /\ u \in Seq(Letters) /\ L \in Nat /\ DOMAIN u = 1 .. L /\ c.count = a + L
  BY DEF Sending
<1>2. /\ v \in Seq(Letters) /\ Len(v) = L + 1 /\ v[L + 1] = l
      /\ \A i \in 1 .. L : v[i] = u[i]
  BY <1>1, AppendProperties
<1>3. DOMAIN v = 1 .. L + 1 BY <1>1, <1>2
<1> HIDE DEF v, L
<1>4. \A i \in DOMAIN v :
         /\ i \in Nat
         /\ \/ i = L + 1 /\ v[i] = l
            \/ i < L + 1 /\ i \in DOMAIN u /\ v[i] = u[i]
  BY <1>1, <1>2, <1>3
<1>5. /\ c.ui.match \in Nat /\ c.ui.processed \in Nat /\ l.match \in Nat
      /\ l.last \in Nat
  BY ClientNumbers, LetterNumbers
<1>6. Posted(v, d)
  <2>1. \A i \in DOMAIN v : v[i].last <= d.ui.processed /\ v[i].match <= d.ui.match
    BY <1>4, <1>5 DEF Posted
  <2>2. ASSUME NEW i \in DOMAIN v, NEW j \in DOMAIN v, i <= j
        PROVE  v[i].match <= v[j].match
    <3>1. CASE v[j] = l BY <2>1, <3>1
    <3>2. CASE v[j] # l
      <4>1. j < L + 1 /\ j \in DOMAIN u /\ v[j] = u[j] BY <1>4, <3>2
      <4>2. i < L + 1 BY <1>1, <1>4, <2>2, <4>1
      <4>3. i \in DOMAIN u /\ v[i] = u[i] BY <1>1, <1>4, <4>2
      <4> QED BY <2>2, <4>1, <4>3 DEF Posted
    <3> QED BY <3>1, <3>2
  <2> QED BY <2>1, <2>2 DEF Posted
<1>7. InMatch(s, v, d) BY <1>4 DEF InMatch
<1>8. Scripted(v, other)
  <2> SUFFICES ASSUME NEW i \in DOMAIN v PROVE Obeys(v[i], other) BY DEF Scripted
  <2>1. CASE v[i] = l BY <2>1
  <2>2. CASE v[i] # l
    <3>1. i \in DOMAIN u /\ v[i] = u[i] BY <1>4, <2>2
    <3>2. i \in 1 .. L /\ u[i].id = a + i BY <1>1, <3>1 DEF Sending
    <3>3. /\ u[i].id \in Nat /\ u[i].id - 1 \in Nat
          /\ u[i].id # c.count + 1 /\ u[i].id - 1 # c.count + 1
      BY <1>1, <3>2
    <3>4. Obeys(u[i], script) BY <3>1 DEF Scripted
    <3> QED BY <3>1, <3>3, <3>4 DEF Obeys
  <2> QED BY <2>1, <2>2
<1> QED BY <1>6, <1>7, <1>8 DEF v

LEMMA ControlView ==
    ASSUME NEW a, NEW script \in Scripts, Standing(a), CliSound(cli), Sending(up, cli, a),
           Visible(srv, down, cli, a, late, script), Posted(up, cli),
           InMatch(srv, up, cli), Scripted(up, script), ClickReady \/ ClickRematch
    PROVE  \E other \in Scripts :
              /\ Visible(srv', down', cli', a, late', other)
              /\ Posted(up', cli') /\ InMatch(srv', up', cli') /\ Scripted(up', other)
<1> DEFINE c == cli
           d == cli'
<1>1. PICK do \in Controls :
        /\ Send(c, NoBoard, do)
        /\ d = [c EXCEPT !.count = c.count + 1]
        /\ UNCHANGED <<srv, down, late>>
  BY DEF ClickReady, ClickRematch, Controls
<1> DEFINE l == [id |-> c.count + 1, epoch |-> 1, match |-> c.ui.match,
                 last |-> c.ui.processed, base |-> NoBoard, do |-> do]
           boards == [n \in Nat |-> IF n = c.count + 1 THEN script.board[c.count]
                                    ELSE script.board[n]]
           other == [on |-> script.on, board |-> boards]
<1>2. up' = Append(up, l) BY <1>1 DEF Send
<1>3. CliSound(c) /\ c \in CliType /\ c.count \in Nat /\ c.count + 1 \in Nat /\ a \in Nat
  BY ClientNumbers DEF CliSound, Standing
<1>4. /\ l \in Letters /\ l.id = c.count + 1 /\ l.match = c.ui.match
      /\ l.last = c.ui.processed /\ l.do = do
  BY <1>1, <1>3, ClientNumbers DEF Letters, Hashes
<1>5. other \in Scripts /\ other.on = script.on /\ other.board = boards
  BY <1>3 DEF Scripts
<1>6. /\ other.board[c.count + 1] = other.board[c.count]
      /\ other.board[c.count] = script.board[c.count]
      /\ \A n \in Nat : n # c.count + 1 => other.board[n] = script.board[n]
  BY <1>3, <1>5
<1> HIDE DEF l, other, boards
<1>7. /\ d.processed = c.processed /\ d.match = c.match /\ d.phase = c.phase
      /\ d.ui = c.ui /\ d.count = c.count + 1 /\ d.pending = c.pending /\ d.game = c.game
  BY <1>1, <1>3 DEF CliType
<1>8. Obeys(l, other)
  <2>1. l.id - 1 = c.count /\ do \notin Moves BY <1>3, <1>4, GameAssumption DEF Controls
  <2> QED BY <1>4, <1>6, <2>1 DEF Obeys
<1>9. PICK x \in Views :
          /\ x.heard = a /\ ~x.owed /\ Depicts(x, srv, late, script)
          /\ Reading(srv.seq, down, c, x, script)
  BY DEF Visible
<1>10. Sending(up, c, a) /\ Posted(up, c) /\ InMatch(srv, up, c) /\ srv.epoch = 1
  BY DEF Visible
<1> HIDE DEF c, d
<1>11. Reading(srv.seq, down, d, x, other)
  BY <1>3, <1>6, <1>7, <1>9, ReadingSends
<1>12. Depicts(x, srv, late, other)
  <2>1. a # c.count + 1
    <3>1. c.count = a + Len(up) /\ Len(up) \in Nat BY <1>10 DEF Sending
    <3> QED BY <1>3, <3>1
  <2> QED BY <1>3, <1>5, <1>6, <1>9, <2>1 DEF Depicts
<1>13. Visible(srv', down', d, a, late', other)
  BY <1>1, <1>9, <1>10, <1>11, <1>12 DEF Visible
<1>14. Posted(up', d) /\ InMatch(srv, up', d) /\ Scripted(up', other)
  BY <1>2, <1>3, <1>4, <1>5, <1>6, <1>7, <1>8, <1>10, PostedMore
<1> QED BY <1>1, <1>5, <1>13, <1>14 DEF d

(* What is played while the round is active is played by the script.       *)
LEMMA ReadingPlayed ==
    ASSUME NEW last, NEW wire, NEW c, NEW x, NEW script,
           Reading(last, wire, c, x, script), x.stage = "LIVE", c.ui.phase = "ACTIVE"
    PROVE  c.game = script.board[c.count]
<1>1. PICK queue \in Seq(Bodies), views \in [Nat -> Views] :
         Played(queue, views, Len(queue), c, script)
  BY DEF Reading
<1>2. 1 \in 1 .. Len(queue) + 1 BY <1>1
<1> QED BY <1>1, <1>2 DEF Played

LEMMA MoveView ==
    ASSUME NEW a, NEW script \in Scripts, Standing(a), CliSound(cli), Sending(up, cli, a),
           Visible(srv, down, cli, a, late, script), Posted(up, cli),
           InMatch(srv, up, cli), Scripted(up, script), NEW move \in Moves, ClickBoard(move)
    PROVE  \E other \in Scripts :
              /\ Visible(srv', down', cli', a, late', other)
              /\ Posted(up', cli') /\ InMatch(srv', up', cli') /\ Scripted(up', other)
<1> DEFINE c == cli
           d == cli'
           optimistic == IF c.game \in Finished THEN c.game ELSE Play(c.game, move)
           new == [id |-> c.count + 1, pre |-> c.game, optimistic |-> optimistic]
           l == [id |-> c.count + 1, epoch |-> 1, match |-> c.ui.match,
                 last |-> c.ui.processed, base |-> c.game, do |-> move]
<1>1. /\ c.game # NoBoard /\ c.ui.phase = "ACTIVE" /\ up' = Append(up, l)
      /\ d = [c EXCEPT !.count = c.count + 1, !.game = optimistic,
                       !.pending = c.pending \cup {new}]
      /\ UNCHANGED <<srv, down, late>>
  BY DEF ClickBoard, Send
<1>2. PICK x \in Views :
          /\ x.heard = a /\ ~x.owed /\ Depicts(x, srv, late, script)
          /\ Reading(srv.seq, down, c, x, script)
  BY DEF Visible
<1> DEFINE on == script.on /\ x.stage = "LIVE"
           boards == [n \in Nat |-> IF n = c.count + 1 THEN optimistic ELSE script.board[n]]
           other == [on |-> on, board |-> boards]
<1>3. CliSound(c) /\ c \in CliType /\ c.count \in Nat /\ c.count + 1 \in Nat /\ a \in Nat
  BY ClientNumbers DEF CliSound, Standing
<1>4. c.game \in Boards /\ c.game \in Hashes /\ optimistic \in Hashes
  BY <1>1, <1>3, GameAssumption DEF CliType, Hashes
<1>5. /\ l \in Letters /\ l.id = c.count + 1 /\ l.match = c.ui.match
      /\ l.last = c.ui.processed /\ l.do = move /\ l.base = c.game
  BY <1>3, <1>4, ClientNumbers DEF Letters
<1>6. optimistic = IF c.game \in Finished THEN c.game ELSE Play(c.game, move) OBVIOUS
<1>7. new.id = c.count + 1 OBVIOUS
<1> HIDE DEF l, new, optimistic
<1>8. other \in Scripts /\ other.on = on /\ other.board = boards
  BY <1>3, <1>4 DEF Scripts
<1>9. /\ other.board[c.count + 1] = optimistic
      /\ other.board[c.count] = script.board[c.count]
      /\ \A n \in Nat : n # c.count + 1 => other.board[n] = script.board[n]
  BY <1>3, <1>8
<1>10. other.on => script.on /\ x.stage = "LIVE" BY <1>8
<1>11. x.stage = "LIVE" => (other.on <=> script.on) BY <1>8
<1> HIDE DEF other, boards, on
<1>12. /\ d.processed = c.processed /\ d.match = c.match /\ d.phase = c.phase
       /\ d.ui = c.ui /\ d.count = c.count + 1 /\ d.pending = c.pending \cup {new}
       /\ d.game = optimistic
  BY <1>1, <1>3 DEF CliType
<1>13. Sending(up, c, a) /\ Posted(up, c) /\ InMatch(srv, up, c) /\ srv.epoch = 1
  BY DEF Visible
<1> HIDE DEF c, d
<1>14. Obeys(l, other)
  <2> SUFFICES ASSUME other.on
               PROVE  /\ l.do \notin Controls /\ l.base = other.board[l.id - 1]
                      /\ other.board[l.id] = IF l.base \in Finished THEN l.base
                                             ELSE Play(l.base, l.do)
    BY DEF Obeys
  <2>1. l.id - 1 = c.count /\ move \notin Controls BY <1>3, <1>5, GameAssumption DEF Controls
  <2>2. c.game = script.board[c.count] BY <1>1, <1>2, <1>10, ReadingPlayed
  <2> QED BY <1>5, <1>6, <1>9, <2>1, <2>2
<1>15. Reading(srv.seq, down, d, x, other)
  <2>1. other.board[d.count] = d.game BY <1>9, <1>12
  <2>2. c.ui.phase = "ACTIVE" BY <1>1
  <2>3. /\ d.processed = c.processed /\ d.match = c.match /\ d.phase = c.phase
        /\ d.ui = c.ui /\ d.count = c.count + 1
    BY <1>12
  <2>4. \E p : p.id = c.count + 1 /\ d.pending = c.pending \cup {p} BY <1>7, <1>12
  <2>5. Reading(srv.seq, down, c, x, script) BY <1>2
  <2>6. CliSound(c) BY <1>3
  <2> QED BY <2>1, <2>2, <2>3, <2>4, <2>5, <2>6, ReadingSends
<1>16. Depicts(x, srv, late, other)
  <2>1. a # c.count + 1
    <3>1. c.count = a + Len(up) /\ Len(up) \in Nat BY <1>13 DEF Sending
    <3> QED BY <1>3, <3>1
  <2>2. x.stage = "LIVE" => other.on /\ srv.board = other.board[x.heard]
    BY <1>2, <1>3, <1>9, <1>11, <2>1 DEF Depicts
  <2> QED BY <1>2, <2>2 DEF Depicts
<1>17. Visible(srv', down', d, a, late', other)
  BY <1>1, <1>2, <1>13, <1>15, <1>16 DEF Visible
<1>18. Posted(up', d) /\ InMatch(srv, up', d) /\ Scripted(up', other)
  <2>1. up' = Append(up, l) BY <1>1
  <2>2. other.on => script.on BY <1>10
  <2>3. d.ui = c.ui /\ d.match = c.match /\ d.processed = c.processed BY <1>12
  <2>4. Posted(Append(up, l), d) /\ InMatch(srv, Append(up, l), d)
        /\ Scripted(Append(up, l), other)
    BY <1>3, <1>5, <1>9, <1>13, <1>14, <2>2, <2>3, PostedMore
  <2> QED BY <2>1, <2>4
<1> QED BY <1>1, <1>8, <1>17, <1>18 DEF d

(* The inductive invariant: the room has answered the first a actions, and *)
(* what is under way leads the browser to the room.                        *)
InStep(a, script) ==
    /\ Standing(a) /\ CliSound(cli) /\ Sending(up, cli, a)
    /\ Visible(srv, down, cli, a, late, script)
    /\ Posted(up, cli) /\ InMatch(srv, up, cli) /\ Scripted(up, script)
SessionView == \E a \in Nat, script \in Scripts : InStep(a, script)

LEMMA EnteredVisible ==
    ASSUME SessionInit, CliSound(cli), NEW script
    PROVE  Visible(srv, down, cli, 0, late, script) /\ ~Engaged(srv)
<1> DEFINE p == NewPlayer
           none == <<>>
           q == [p EXCEPT !.connected = TRUE, !.epoch = 1]
           x == [match |-> 1, phase |-> "HOME", heard |-> 0, owed |-> FALSE,
                 stage |-> "OFF", board |-> NoBoard]
           views == [i \in Nat |-> x]
           told == SendSnapshot(Tell(q, "WELCOME"))
           entered == RoomState(told)
<1>1. p \in SrvType BY NewPlayerSound DEF Complete, Sound
<1>2. /\ p.phase = "LOBBY" /\ p.seq = 0 /\ p.sent = none /\ p.ready = FALSE /\ p.match = 1
  BY DEF NewPlayer
<1> HIDE DEF p
<1>3. /\ none \in Seq(Messages) /\ none \in Seq(Bodies) /\ Len(none) = 0
      /\ DOMAIN none = {} /\ none \o none = none
  <2>1. none \in Seq(Messages) /\ none \in Seq(Bodies) /\ Len(none) = 0 OBVIOUS
  <2> QED BY <2>1, ConcatEmptySeq
<1>4. /\ q \in SrvType /\ q.connected = TRUE /\ q.epoch = 1 /\ q.phase = "LOBBY"
      /\ q.seq = 0 /\ q.sent = none /\ q.ready = FALSE /\ q.match = 1
  <2>1. 1 \in 0 .. MaxEpoch BY SessionAssumption, BoundAssumption
  <2> QED BY <1>1, <1>2, <2>1 DEF SrvType
<1> HIDE DEF q, none
<1>5. /\ cli.processed = 0 /\ cli.pending = {} /\ cli.count = 0 /\ cli.match = 1
      /\ cli.phase = "HOME" /\ cli \in CliType
      /\ srv = [entered EXCEPT !.sent = none] /\ down = entered.sent
  BY DEF SessionInit, Entered, CliSound, none, q, p
<1>6. /\ x.match = 1 /\ x.phase = "HOME" /\ x.heard = 0 /\ x.owed = FALSE
      /\ x.stage = "OFF" /\ x \in Views
  BY BoundAssumption DEF Views, Stages, UiPhases, Hashes
<1> HIDE DEF x, entered
<1>7. views \in [Nat -> Views] /\ views[1] = x /\ Len(none) + 1 = 1 BY <1>3, <1>6
<1> HIDE DEF views
<1>8. Reading(0, none, cli, x, script)
  <2>1. Carries(none, 0, 0, none) BY <1>3 DEF Carries
  <2>2. Stands(cli, x) BY <1>5, <1>6 DEF Stands
  <2>3. Within(x, x) BY <1>6 DEF Within
  <2>4. \A i \in 1 .. Len(none) : Leads(none[i], views[i], views[i + 1], cli) BY <1>3
  <2>5. \A i \in 1 .. Len(none) + 1 : Within(views[i], x) BY <1>7, <2>3
  <2> QED BY <1>3, <1>5, <1>6, <1>7, <2>1, <2>2, <2>4, <2>5 DEF Reading
<1>9. Loose(q, none, cli, 0, 0, script)
  <2>1. Based(q, none, cli, 0) BY <1>3, <1>4, <1>5 DEF Based, Wired, Engaged
  <2>2. Reading(q.seq, none \o q.sent, cli, x, script) BY <1>3, <1>4, <1>8
  <2>3. x.match <= q.match BY <1>4, <1>6
  <2> QED BY <1>6, <2>1, <2>2, <2>3 DEF Loose
<1>10. Loose(told, none, cli, 0, 0, script)
  BY <1>9, LooseTell, LooseSnapshot DEF EventTypes
<1>11. told.phase = "LOBBY" /\ told.ready = FALSE
  <2> DEFINE r == Tell(q, "WELCOME")
  <2>1. r \in SrvType BY <1>9, LooseTell, LooseRoom DEF EventTypes
  <2>2. r.phase = "LOBBY" /\ r.ready = FALSE BY <1>4 DEF Tell, Emit, SrvType
  <2> HIDE DEF r
  <2>3. SendSnapshot(r).phase = "LOBBY" /\ SendSnapshot(r).ready = FALSE
    BY <2>1, <2>2 DEF SendSnapshot, Emit, SrvType
  <2> QED BY <2>3 DEF r
<1>12. told \in SrvType BY <1>10, LooseRoom
<1> HIDE DEF told
<1>13. /\ Shows(entered, none, cli, 0, late, 0, script)
       /\ entered.phase = "LOBBY" /\ entered.ready = FALSE
  <2>1. Shows(RoomState(told), none, cli, 0, late, 0, script) BY <1>10, <1>11, LooseState
  <2>2. RoomState(told).phase = "LOBBY" /\ RoomState(told).ready = FALSE
    BY <1>11, <1>12 DEF RoomState, Tell, Emit, SrvType
  <2> QED BY <2>1, <2>2 DEF entered
<1>14. /\ srv.phase = entered.phase /\ srv.board = entered.board /\ srv.seq = entered.seq
       /\ srv.epoch = entered.epoch /\ srv.match = entered.match
       /\ srv.expired = entered.expired /\ srv.ready = FALSE /\ srv.sent = none
  BY <1>5, <1>13 DEF Shows, Based, Wired, SrvType
<1>15. none \o entered.sent = down
  <2>1. entered.sent \in Seq(Messages) BY <1>13 DEF Shows, Based, Wired, SrvType
  <2> QED BY <1>5, <2>1, ConcatEmptySeq DEF none
<1>16. \A v \in Views : Depicts(v, entered, late, script) => Depicts(v, srv, late, script)
  BY <1>14 DEF Depicts
<1>17. Visible(srv, down, cli, 0, late, script)
  BY <1>13, <1>14, <1>15, <1>16 DEF Shows, Based, Visible
<1> QED BY <1>13, <1>14, <1>17 DEF Engaged

LEMMA SessionInitView ==
    ASSUME SessionInit
    PROVE  SessionView
<1> DEFINE script == [on |-> FALSE, board |-> [n \in Nat |-> NoBoard]]
<1>1. script \in Scripts BY DEF Scripts, Hashes
<1> HIDE DEF script
<1>2. Standing(0) BY EnteredStands
<1>3. CliSound(cli)
  <2>1. cli = [game |-> NoBoard, pending |-> {}, snap |-> FALSE, processed |-> 0,
               phase |-> "HOME", match |-> 1, count |-> 0, failed |-> FALSE,
               ui |-> [phase |-> "HOME", match |-> 1, processed |-> 0]]
    BY DEF SessionInit
  <2>2. 1 \in 1 .. MaxMatch /\ "HOME" \in UiPhases /\ NoBoard \in Hashes
    BY BoundAssumption DEF UiPhases, Hashes
  <2>3. cli \in CliType BY <2>1, <2>2 DEF CliType
  <2> QED BY <2>1, <2>3, FS_EmptySet DEF CliSound, LastPlayed
<1>4. up = <<>> /\ Sending(up, cli, 0) BY SessionAssumption DEF SessionInit, Sending
<1>5. Visible(srv, down, cli, 0, late, script) /\ ~Engaged(srv) BY <1>3, EnteredVisible
<1>6. Posted(up, cli) BY <1>4 DEF Posted, SessionInit
<1>7. InMatch(srv, up, cli) /\ Scripted(up, script) BY <1>4, <1>5 DEF InMatch, Scripted
<1>8. InStep(0, script) BY <1>2, <1>3, <1>4, <1>5, <1>6, <1>7 DEF InStep
<1> QED BY <1>1, <1>8 DEF SessionView

LEMMA SessionNextView ==
    ASSUME MaxActions <= ActionLimit, SessionView, [SessionNext]_vars
    PROVE  SessionView'
<1>1. PICK a \in Nat, script \in Scripts : InStep(a, script) BY DEF SessionView
<1>2. /\ Standing(a) /\ CliSound(cli) /\ Sending(up, cli, a)
      /\ Visible(srv, down, cli, a, late, script)
      /\ Posted(up, cli) /\ InMatch(srv, up, cli) /\ Scripted(up, script)
  BY <1>1 DEF InStep
<1>3. ASSUME NEW b \in Nat, NEW other \in Scripts,
             Standing(b)', CliSound(cli'), Sending(up', cli', b),
             Visible(srv', down', cli', b, late', other),
             Posted(up', cli'), InMatch(srv', up', cli'), Scripted(up', other)
      PROVE  SessionView'
  BY <1>3 DEF SessionView, InStep
<1>4. ASSUME NEW move \in Proceedings, RoomProceeds(move)
      PROVE  SessionView'
  <2>1. Standing(a)' BY <1>2, <1>4, RoomStep
  <2>2. cli' = cli /\ up' = up BY <1>4 DEF RoomProceeds
  <2>3. /\ InMatch(srv', up', cli')
        /\ \E other \in Scripts :
              Visible(srv', down', cli', a, late', other) /\ Scripted(up', other)
    BY <1>2, <1>4, RoomView
  <2>4. CliSound(cli') /\ Sending(up', cli', a) /\ Posted(up', cli') BY <1>2, <2>2
  <2> QED BY <1>3, <2>1, <2>3, <2>4
<1>5. CASE RoundExpires
  <2>1. Standing(a)' BY <1>2, <1>5, ExpiryStep
  <2>2. cli' = cli /\ up' = up BY <1>5 DEF RoundExpires
  <2>3. InMatch(srv', up', cli') /\ Visible(srv', down', cli', a, late', script)
    BY <1>2, <1>5, ExpiryView
  <2>4. /\ CliSound(cli') /\ Sending(up', cli', a) /\ Posted(up', cli')
        /\ Scripted(up', script)
    BY <1>2, <2>2
  <2> QED BY <1>3, <2>1, <2>3, <2>4
<1>6. CASE RoomReceives
  <2>1. Standing(a + 1)' /\ Sending(up', cli', a + 1) BY <1>2, <1>6, ReceiptStep
  <2>2. cli' = cli /\ CliSound(cli') /\ a + 1 \in Nat BY <1>2, <1>6 DEF RoomReceives
  <2>3. /\ Visible(srv', down', cli', a + 1, late', script)
        /\ Posted(up', cli') /\ InMatch(srv', up', cli') /\ Scripted(up', script)
    BY <1>2, <1>6, ReceiptView
  <2> QED BY <1>3, <2>1, <2>2, <2>3
<1>7. CASE BrowserReceives
  <2>1. Standing(a)' /\ CliSound(cli') /\ Sending(up', cli', a) BY <1>2, <1>7, MessageStep
  <2>2. up' = up /\ Scripted(up', script) BY <1>2, <1>7 DEF BrowserReceives
  <2>3. /\ Visible(srv', down', cli', a, late', script)
        /\ Posted(up', cli') /\ InMatch(srv', up', cli')
    BY <1>2, <1>7, <2>1, MessageView
  <2> QED BY <1>3, <2>1, <2>2, <2>3
<1>8. CASE Render
  <2>1. Standing(a)' /\ CliSound(cli') /\ Sending(up', cli', a) BY <1>2, <1>8, RenderStep
  <2>2. up' = up /\ Scripted(up', script) BY <1>2, <1>8 DEF Render
  <2>3. /\ Visible(srv', down', cli', a, late', script)
        /\ Posted(up', cli') /\ InMatch(srv', up', cli')
    BY <1>2, <1>8, RenderView
  <2> QED BY <1>3, <2>1, <2>2, <2>3
<1>9. CASE ClickReady \/ ClickRematch
  <2>1. Standing(a)' /\ CliSound(cli') /\ Sending(up', cli', a) BY <1>2, <1>9, ControlStep
  <2> QED BY <1>2, <1>3, <1>9, <2>1, ControlView
<1>10. ASSUME NEW move \in Moves, ClickBoard(move)
       PROVE  SessionView'
  <2>1. Standing(a)' /\ CliSound(cli') /\ Sending(up', cli', a) BY <1>2, <1>10, MoveStep
  <2> QED BY <1>2, <1>3, <1>10, <2>1, MoveView
<1>11. CASE UNCHANGED vars
  <2>1. srv' = srv /\ cli' = cli /\ up' = up /\ down' = down /\ late' = late
    BY <1>11 DEF vars
  <2>2. Standing(a)' BY <1>2, <2>1, ClientStanding DEF Standing
  <2> QED BY <1>2, <1>3, <2>1, <2>2
<1> QED BY <1>4, <1>5, <1>6, <1>7, <1>8, <1>9, <1>10, <1>11 DEF SessionNext

(* An empty wire: the browser has read everything.                         *)
LEMMA NothingCarried ==
    ASSUME NEW last, NEW seen, NEW queue, Carries(<<>>, last, seen, queue)
    PROVE  Len(queue) = 0
BY DEF Carries

LEMMA QuietAgrees ==
    ASSUME SessionView, Quiet
    PROVE  /\ ~cli.snap /\ cli.pending = {}
           /\ cli.match = srv.match /\ (srv.phase \in UiPhases => cli.phase = srv.phase)
           /\ srv.phase = "ACTIVE" /\ ~late => cli.game = srv.board
<1>1. PICK a \in Nat, script \in Scripts : InStep(a, script) BY DEF SessionView
<1>2. up = <<>> /\ down = <<>> BY DEF Quiet
<1>3. PICK x \in Views :
          /\ x.heard = a /\ ~x.owed /\ Depicts(x, srv, late, script)
          /\ Reading(srv.seq, <<>>, cli, x, script)
  BY <1>1, <1>2 DEF InStep, Visible
<1>4. PICK queue \in Seq(Bodies), views \in [Nat -> Views] :
        /\ Carries(<<>>, srv.seq, cli.processed, queue)
        /\ Stands(cli, views[1]) /\ views[Len(queue) + 1] = x
        /\ x.stage = "LIVE" => Played(queue, views, Len(queue), cli, script)
  BY <1>3 DEF Reading
<1>5. Len(queue) = 0 /\ Len(queue) + 1 = 1 BY <1>4, NothingCarried
<1>6. views[1] = x /\ Stands(cli, x) BY <1>4, <1>5
<1>7. cli.count = a
  <2>1. cli.count = a + Len(up) /\ Len(up) = 0 BY <1>1, <1>2 DEF InStep, Sending
  <2> QED BY <2>1
<1>8. cli.pending = {}
  <2>1. \A p \in cli.pending : p.id \in Nat /\ p.id <= a
    BY <1>1, <1>7 DEF InStep, CliSound, CliType, Actions
  <2>2. \A p \in cli.pending : p.id > a BY <1>3, <1>6 DEF Stands
  <2> QED BY <2>1, <2>2
<1>9. ~cli.snap
  <2>1. Joined(srv.seq, <<>>, cli, RoomMark(srv, a, FALSE)) BY <1>1, <1>2 DEF InStep, Standing
  <2>2. PICK other \in Seq(Bodies), marks \in [Nat -> Marks] :
          /\ Carries(<<>>, srv.seq, cli.processed, other)
          /\ Fits(cli, marks[1])
          /\ Covers(marks[Len(other) + 1], RoomMark(srv, a, FALSE))
    BY <2>1 DEF Joined
  <2>3. Len(other) + 1 = 1 BY <2>2, NothingCarried
  <2> QED BY <2>2, <2>3 DEF Fits, Covers, RoomMark
<1>10. /\ cli.match = srv.match /\ (srv.phase \in UiPhases => cli.phase = srv.phase)
  BY <1>3, <1>6 DEF Stands, Depicts
<1>11. ASSUME srv.phase = "ACTIVE", ~late
       PROVE  cli.game = srv.board
  <2>1. x.stage \in {"LIVE", "DEAD"} BY <1>3, <1>11 DEF Depicts, Views, Stages
  <2>2. CASE x.stage = "LIVE"
    <3>1. cli.game = script.board[cli.count] BY <1>4, <1>6, <2>2 DEF Played
    <3>2. srv.board = script.board[a] BY <1>3, <2>2 DEF Depicts
    <3> QED BY <1>7, <3>1, <3>2
  <2>3. CASE x.stage = "DEAD" BY <1>3, <1>6, <1>8, <2>3 DEF Depicts, Stands
  <2> QED BY <2>1, <2>2, <2>3
<1> QED BY <1>8, <1>9, <1>10, <1>11

(* When nothing is left on the wire in either direction, the browser shows *)
(* the room's match and phase, no action is unanswered and no snapshot     *)
(* awaited, and in an active round its copy of the board is the room's,    *)
(* unless delivery or rendering has lagged behind by a countdown or by the *)
(* ring (handleMessage, handleBoardAction and planActionReconciliation of  *)
(* the browser, handleAction and sendSnapshot of the room): whatever was   *)
(* predicted, refused, rolled back or late on the way. As above, while the *)
(* browser has sent no more actions than the room takes in a match.        *)
THEOREM CopiesAgree ==
    ASSUME MaxActions <= ActionLimit
    PROVE  SessionSpec => []CopyAgrees
<1>1. SessionInit => SessionView BY SessionInitView
<1>2. SessionView /\ [SessionNext]_vars => SessionView' BY SessionNextView
<1>3. SessionView => CopyAgrees BY QuietAgrees DEF CopyAgrees
<1> QED BY <1>1, <1>2, <1>3, PTL DEF SessionSpec
-----------------------------------------------------------------------------
(* The connection.                                                           *)

Told == {"WELCOME", "UPGRADE", "COUNTDOWN", "ACTIVE", "RESULT", "REMATCH"}

PagePhases == {"HOME", "LOBBY", "MATCH", "MATCH_RESULT"}
Statuses == {"disconnected", "connecting", "connected", "error"}
PageSet ==
    [phase : PagePhases, seen : PagePhases, solo : BOOLEAN, connection : Statuses, once : BOOLEAN,
     busy : BOOLEAN, lost : BOOLEAN, blocked : BOOLEAN, socket : Link!Entries \cup {0}]
EntrySet ==
    [stage : {"NONE", "ASKING", "CONNECTING", "DONE"},
     ready : {"NONE", "CONNECTING", "OPEN", "CLOSING", "CLOSED"}, hello : BOOLEAN, room : Told \cup {"NONE"},
     wire : Seq(Told)]

(* The gateway only refuses a protocol as the first thing it says.           *)
RefusedFirst(e) == \A i \in 1 .. Len(e.wire) : e.wire[i] = "UPGRADE" => i = 1 /\ e.room = "NONE"

(* A page is connected to a room that has welcomed it.                       *)
Welcomed(p, f) ==
    p.connection = "connected" =>
        /\ p.socket # 0 /\ f[p.socket].ready \in {"OPEN", "CLOSING"}
        /\ f[p.socket].room \notin {"NONE", "UPGRADE"}

LinkSound ==
    /\ page \in PageSet /\ entry \in [Link!Entries -> EntrySet]
    /\ \A n \in Link!Entries : RefusedFirst(entry[n])
    /\ Welcomed(page, entry)

Lost ==
    (~page.lost /\ page'.lost) \/ (page.phase = "LOBBY" /\ page'.phase = "HOME" /\ page'.socket # 0)
        => page.socket # 0 /\ entry'[page.socket].ready # "OPEN"

LEMMA EntriesAreNot0 == 0 \notin Link!Entries
BY LinkAssumption DEF Link!Entries

LEMMA GivenUpFacts ==
    ASSUME NEW p \in PageSet
    PROVE  /\ Link!GivenUp(p) \in PageSet
           /\ Link!GivenUp(p).connection = p.connection
           /\ Link!GivenUp(p).socket = p.socket /\ Link!GivenUp(p).phase \in {p.phase, "MATCH_RESULT"}
<1> DEFINE q == [p EXCEPT !.seen = "MATCH_RESULT", !.phase = "MATCH_RESULT", !.lost = TRUE]
<1>1. /\ q \in PageSet /\ q.connection = p.connection /\ q.socket = p.socket
      /\ q.phase = "MATCH_RESULT"
    BY DEF PageSet, PagePhases, Statuses
<1> HIDE DEF q
<1>2. Link!GivenUp(p) \in {p, q}
    BY DEF Link!GivenUp, q
<1> QED
    BY <1>1, <1>2

LEMMA StatusFacts ==
    ASSUME NEW p \in PageSet, NEW status \in Statuses
    PROVE  /\ Link!Status(p, status) \in PageSet
           /\ Link!Status(p, status).connection = status
           /\ Link!Status(p, status).socket = p.socket
           /\ status \notin {"disconnected", "error"} =>
                 Link!Status(p, status).lost = p.lost /\ Link!Status(p, status).phase = p.phase
<1> DEFINE q == [p EXCEPT !.connection = status, !.once = @ \/ status = "connected"]
           h == [q EXCEPT !.phase = "HOME"]
<1>1. /\ q \in PageSet /\ q.connection = status /\ q.socket = p.socket /\ q.lost = p.lost
      /\ q.phase = p.phase
    BY DEF PageSet, PagePhases, Statuses
<1>2. \/ Link!Status(p, status) = q
      \/ /\ status \in {"disconnected", "error"}
         /\ Link!Status(p, status) \in {h, Link!GivenUp(q)}
  <2> HIDE DEF q
  <2> QED
      BY DEF Link!Status, q
<1> HIDE DEF q
<1>3. h \in PageSet /\ h.connection = status /\ h.socket = p.socket
    BY <1>1 DEF PageSet, PagePhases, Statuses
<1>4. /\ Link!GivenUp(q) \in PageSet /\ Link!GivenUp(q).connection = status
      /\ Link!GivenUp(q).socket = p.socket
    BY <1>1, GivenUpFacts
<1> HIDE DEF h
<1> QED
    BY <1>1, <1>2, <1>3, <1>4

LEMMA ToldFacts ==
    ASSUME NEW p \in PageSet, NEW m \in Told
    PROVE  /\ Link!Told(p, m) \in PageSet
           /\ Link!Told(p, m).connection = p.connection
           /\ Link!Told(p, m).socket = p.socket
           /\ Link!Told(p, m).lost => p.lost
           /\ Link!Told(p, m).phase \in {p.phase, "LOBBY", "MATCH", "MATCH_RESULT"}
<1>1. CASE m = "UPGRADE"
    BY <1>1 DEF Link!Told, PageSet, PagePhases, Statuses
<1>2. CASE m # "UPGRADE" /\ p.blocked
  <2>1. Link!Told(p, m) = p
      BY <1>2 DEF Link!Told
  <2> QED
      BY <2>1
<1>3. CASE m # "UPGRADE" /\ ~p.blocked
  <2>1. CASE m = "WELCOME"
      BY <1>3, <2>1 DEF Link!Told, PageSet, PagePhases, Statuses
  <2>2. CASE m = "REMATCH"
      BY <1>3, <2>2 DEF Link!Told, PageSet, PagePhases, Statuses
  <2>3. CASE m = "COUNTDOWN"
      BY <1>3, <2>3 DEF Link!Told, PageSet, PagePhases, Statuses
  <2>4. CASE m = "ACTIVE"
      BY <1>3, <2>4 DEF Link!Told, PageSet, PagePhases, Statuses
  <2>5. CASE m = "RESULT"
      BY <1>3, <2>5 DEF Link!Told, PageSet, PagePhases, Statuses
  <2> QED
      BY <1>3, <2>1, <2>2, <2>3, <2>4, <2>5 DEF Told
<1> QED
    BY <1>1, <1>2, <1>3

LEMMA SettledFacts ==
    ASSUME NEW p \in PageSet, NEW n \in Link!Entries, NEW q \in {Link!Resolved(p, n), Link!Rejected(p, n)}
    PROVE  /\ q \in PageSet /\ q.connection \in {p.connection, "error"}
           /\ q.socket = p.socket /\ q.lost = p.lost /\ q.phase = p.phase
<1> DEFINE free == [p EXCEPT !.busy = FALSE]
           bad == [p EXCEPT !.busy = FALSE, !.connection = "error"]
<1>1. q \in {p, free, bad}
    BY DEF Link!Resolved, Link!Rejected
<1>2. CASE q = free
    BY <1>2 DEF PageSet, PagePhases, Statuses
<1>3. CASE q = bad
    BY <1>3 DEF PageSet, PagePhases, Statuses
<1> HIDE DEF free, bad
<1> QED
    BY <1>1, <1>2, <1>3

(* The page closes its socket.                                               *)
LEMMA DisconnectedFacts ==
    ASSUME LinkSound
    PROVE  /\ Link!Disconnected \in [Link!Entries -> EntrySet]
           /\ \A n \in Link!Entries : RefusedFirst(Link!Disconnected[n])
<1>1. ASSUME NEW e \in EntrySet, RefusedFirst(e)
      PROVE  Link!Closed(e) \in EntrySet /\ RefusedFirst(Link!Closed(e))
  <2>1. CASE e.ready \in {"CONNECTING", "OPEN"}
    <3> DEFINE d == [e EXCEPT !.ready = "CLOSING", !.wire = <<>>]
    <3>1. d \in EntrySet /\ d.wire = <<>>
      <4>1. <<>> \in Seq(Told)
          OBVIOUS
      <4> QED
          BY <1>1, <4>1 DEF EntrySet
    <3>2. Len(d.wire) = 0
        BY <3>1
    <3> QED
        BY <2>1, <3>1, <3>2 DEF Link!Closed, RefusedFirst
  <2>2. CASE e.ready \notin {"CONNECTING", "OPEN"}
      BY <1>1, <2>2 DEF Link!Closed
  <2> QED
      BY <2>1, <2>2
<1> QED
    BY <1>1 DEF Link!Disconnected, LinkSound

(* Only the entry of the page's socket and what that says of it matter.      *)
LEMMA KeepsWelcomed ==
    ASSUME LinkSound, page' = page,
           \A n \in Link!Entries : entry'[n].room = entry[n].room
                                   /\ (entry'[n].ready = entry[n].ready
                                        \/ entry'[n].ready \in {"OPEN", "CLOSING"})
    PROVE  Welcomed(page', entry')
BY DEF LinkSound, Welcomed, PageSet

(* Steps of the user and answers of the server that tell of no socket.       *)
LEMMA UserStep ==
    ASSUME LinkSound,
           \/ \E n \in Link!Entries, key \in {"BUTTON", "RETURN"} : Link!Enter(n, key)
           \/ \E n \in Link!Entries : Link!Denied(n)
           \/ Link!Leave \/ Link!GoSolo \/ Link!ReturnHome \/ Link!Render
    PROVE  LinkSound' /\ Lost
<1>1. /\ page \in PageSet /\ entry \in [Link!Entries -> EntrySet] /\ Welcomed(page, entry)
      /\ \A n \in Link!Entries : RefusedFirst(entry[n])
    BY DEF LinkSound
<1>2. ASSUME NEW n \in Link!Entries, NEW stage \in {"ASKING", "DONE"},
             entry' = [entry EXCEPT ![n].stage = stage]
      PROVE  /\ entry' \in [Link!Entries -> EntrySet]
             /\ \A k \in Link!Entries : /\ entry'[k].ready = entry[k].ready
                                       /\ entry'[k].room = entry[k].room
                                       /\ entry'[k].wire = entry[k].wire
  <2> DEFINE e == [entry[n] EXCEPT !.stage = stage]
  <2>1. e \in EntrySet /\ e.ready = entry[n].ready /\ e.room = entry[n].room
        /\ e.wire = entry[n].wire
    <3>1. entry[n] \in EntrySet BY <1>1
    <3> QED BY <1>2, <3>1 DEF EntrySet
  <2>2. entry' = [entry EXCEPT ![n] = e] BY <1>2
  <2> HIDE DEF e
  <2> QED BY <1>1, <2>1, <2>2
<1>3. CASE \E n \in Link!Entries, key \in {"BUTTON", "RETURN"} : Link!Enter(n, key)
  <2>1. PICK n \in Link!Entries : /\ page' = [page EXCEPT !.busy = TRUE]
                                  /\ entry' = [entry EXCEPT ![n].stage = "ASKING"]
      BY <1>3 DEF Link!Enter
  <2>2. /\ page' \in PageSet /\ page'.connection = page.connection /\ page'.socket = page.socket
        /\ page'.lost = page.lost /\ page'.phase = page.phase
      BY <1>1, <2>1 DEF PageSet
  <2>3. /\ entry' \in [Link!Entries -> EntrySet]
        /\ \A k \in Link!Entries : RefusedFirst(entry'[k])
    <3>1. /\ entry' \in [Link!Entries -> EntrySet]
          /\ \A k \in Link!Entries : entry'[k].room = entry[k].room /\ entry'[k].wire = entry[k].wire
        BY <1>2, <2>1
    <3> QED
        BY <1>1, <3>1 DEF RefusedFirst
  <2>4. Welcomed(page', entry')
      BY <1>1, <1>2, <2>1, <2>2 DEF Welcomed, PageSet
  <2> QED
      BY <2>2, <2>3, <2>4 DEF LinkSound, Lost
<1>4. CASE \E n \in Link!Entries : Link!Denied(n)
  <2>1. PICK n \in Link!Entries : /\ page' = [page EXCEPT !.busy = FALSE, !.connection = "error"]
                                  /\ entry' = [entry EXCEPT ![n].stage = "DONE"]
      BY <1>4 DEF Link!Denied
  <2>2. /\ page' \in PageSet /\ page'.connection = "error" /\ page'.socket = page.socket
        /\ page'.lost = page.lost /\ page'.phase = page.phase
      BY <1>1, <2>1 DEF PageSet, Statuses
  <2>3. /\ entry' \in [Link!Entries -> EntrySet]
        /\ \A k \in Link!Entries : RefusedFirst(entry'[k])
    <3>1. /\ entry' \in [Link!Entries -> EntrySet]
          /\ \A k \in Link!Entries : entry'[k].room = entry[k].room /\ entry'[k].wire = entry[k].wire
        BY <1>2, <2>1
    <3> QED
        BY <1>1, <3>1 DEF RefusedFirst
  <2>4. Welcomed(page', entry')
      BY <1>1, <1>2, <2>1, <2>2 DEF Welcomed
  <2> QED
      BY <2>2, <2>3, <2>4 DEF LinkSound, Lost
<1>5. CASE Link!Leave \/ Link!GoSolo
  <2>1. /\ page' \in {Link!Left, [Link!Left EXCEPT !.solo = TRUE]}
        /\ entry' = Link!Disconnected
      BY <1>5 DEF Link!Leave, Link!GoSolo
  <2>2. /\ page' \in PageSet /\ page'.connection = "disconnected" /\ page'.socket = 0
        /\ page'.lost = FALSE
      BY <1>1, <2>1 DEF Link!Left, Link!NewPage, PageSet, Statuses, PagePhases
  <2> QED
      BY <2>1, <2>2, DisconnectedFacts DEF LinkSound, Welcomed, Lost
<1>6. CASE Link!ReturnHome \/ Link!Render
  <2>1. /\ page' \in {[page EXCEPT !.solo = FALSE], [page EXCEPT !.seen = page.phase]}
        /\ UNCHANGED entry
      BY <1>6 DEF Link!ReturnHome, Link!Render
  <2>2. /\ page' \in PageSet /\ page'.connection = page.connection /\ page'.socket = page.socket
        /\ page'.lost = page.lost /\ page'.phase = page.phase
      BY <1>1, <2>1 DEF PageSet
  <2> QED
      BY <1>1, <2>1, <2>2 DEF LinkSound, RefusedFirst, Welcomed, Lost, PageSet
<1> QED
    BY <1>3, <1>4, <1>5, <1>6

(* The board gives the duel up when its socket takes no more actions.        *)
LEMMA ActInVainStep ==
    ASSUME LinkSound, Link!ActInVain
    PROVE  LinkSound' /\ Lost
<1>1. /\ page \in PageSet /\ Welcomed(page, entry) /\ UNCHANGED entry
      /\ page.connection = "connected" /\ page' = Link!GivenUp(page)
      /\ page.socket = 0 \/ entry[page.socket].ready # "OPEN"
    BY DEF LinkSound, Link!ActInVain
<1>2. /\ page' \in PageSet /\ page'.connection = page.connection
      /\ page'.socket = page.socket
    BY <1>1, GivenUpFacts
<1> QED
    BY <1>1, <1>2 DEF LinkSound, Welcomed, RefusedFirst, Lost

(* An entry is granted and its socket opens.                                 *)
LEMMA GrantedStep ==
    ASSUME LinkSound, NEW n \in Link!Entries, Link!Granted(n)
    PROVE  LinkSound' /\ Lost
<1> DEFINE p == [page EXCEPT !.once = FALSE, !.blocked = FALSE, !.socket = n]
<1>1. /\ page' = Link!Status(p, "connecting")
      /\ entry' = [Link!Disconnected EXCEPT ![n].stage = "CONNECTING", ![n].ready = "CONNECTING"]
    BY DEF Link!Granted
<1>2. p \in PageSet /\ p.lost = page.lost /\ p.phase = page.phase
    BY DEF LinkSound, PageSet
<1> HIDE DEF p
<1>3. /\ page' \in PageSet /\ page'.connection = "connecting"
      /\ page'.lost = page.lost /\ page'.phase = page.phase
    BY <1>1, <1>2, StatusFacts DEF Statuses
<1>4. /\ entry' \in [Link!Entries -> EntrySet]
      /\ \A k \in Link!Entries : /\ entry'[k].wire = Link!Disconnected[k].wire
                                /\ entry'[k].room = Link!Disconnected[k].room
  <2>1. Link!Disconnected \in [Link!Entries -> EntrySet] BY DisconnectedFacts
  <2> DEFINE d == Link!Disconnected
             e == [d[n] EXCEPT !.stage = "CONNECTING", !.ready = "CONNECTING"]
  <2>2. e \in EntrySet /\ e.room = d[n].room /\ e.wire = d[n].wire
    <3>1. d[n] \in EntrySet BY <2>1
    <3> HIDE DEF d
    <3> QED BY <3>1 DEF EntrySet
  <2>3. entry' = [d EXCEPT ![n] = e] BY <1>1
  <2> HIDE DEF d, e
  <2>4. d \in [Link!Entries -> EntrySet] BY <2>1 DEF d
  <2>5. entry' \in [Link!Entries -> EntrySet]
        /\ \A k \in Link!Entries : entry'[k].wire = d[k].wire /\ entry'[k].room = d[k].room
    BY <2>2, <2>3, <2>4
  <2> QED BY <2>5 DEF d
<1> QED
    BY <1>3, <1>4, DisconnectedFacts DEF LinkSound, Welcomed, RefusedFirst, Lost

LEMMA OpensStep ==
    ASSUME LinkSound, NEW n \in Link!Entries, Link!Opens(n) \/ Link!ServerCloses(n)
    PROVE  LinkSound' /\ Lost
<1>1. /\ entry \in [Link!Entries -> EntrySet] /\ UNCHANGED page
      /\ \E ready \in {"OPEN", "CLOSING"}, hello \in BOOLEAN :
            entry' = [entry EXCEPT ![n] = [@ EXCEPT !.ready = ready, !.hello = hello]]
  <2>1. CASE Link!Opens(n)
      BY <2>1 DEF LinkSound, Link!Opens, Link!IsCurrent
  <2>2. CASE Link!ServerCloses(n)
    <3>1. entry[n].hello \in BOOLEAN /\ [entry[n] EXCEPT !.ready = "CLOSING"] = [entry[n] EXCEPT !.ready = "CLOSING", !.hello = entry[n].hello]
        BY DEF LinkSound, EntrySet
    <3> QED
        BY <2>2, <3>1 DEF LinkSound, Link!ServerCloses
  <2> QED
      BY <2>1, <2>2
<1>2. /\ entry' \in [Link!Entries -> EntrySet]
      /\ \A k \in Link!Entries : /\ entry'[k].wire = entry[k].wire /\ entry'[k].room = entry[k].room
                                /\ (entry'[k].ready = entry[k].ready
                                     \/ entry'[k].ready \in {"OPEN", "CLOSING"})
  <2>1. PICK ready \in {"OPEN", "CLOSING"}, hello \in BOOLEAN :
          entry' = [entry EXCEPT ![n] = [@ EXCEPT !.ready = ready, !.hello = hello]]
      BY <1>1
  <2> DEFINE e == [entry[n] EXCEPT !.ready = ready, !.hello = hello]
  <2>2. /\ e \in EntrySet /\ e.wire = entry[n].wire /\ e.room = entry[n].room
        /\ e.ready \in {"OPEN", "CLOSING"}
      BY <1>1 DEF EntrySet
  <2> HIDE DEF e
  <2>3. entry' = [entry EXCEPT ![n] = e]
      BY <2>1 DEF e
  <2> QED
      BY <1>1, <2>2, <2>3
<1>3. Welcomed(page', entry')
    BY <1>1, <1>2, KeepsWelcomed
<1> QED
    BY <1>1, <1>2, <1>3 DEF LinkSound, RefusedFirst, Lost

(* The server says what follows on what it said last.                        *)
LEMMA SendsStep ==
    ASSUME LinkSound, NEW n \in Link!Entries, NEW m \in Link!Follows(Link!Last(entry[n])),
           Link!ServerSends(n, m)
    PROVE  LinkSound' /\ Lost
<1> DEFINE e == entry[n]
           d == [e EXCEPT !.wire = Append(@, m)]
<1>1. /\ entry' = [entry EXCEPT ![n] = d] /\ UNCHANGED page
    BY DEF Link!ServerSends
<1>2. /\ entry \in [Link!Entries -> EntrySet] /\ e \in EntrySet /\ RefusedFirst(e)
      /\ e.wire \in Seq(Told) /\ e.room \in Told \cup {"NONE"}
    BY DEF LinkSound, EntrySet
<1>3. /\ Link!Last(e) \in Told \cup {"NONE"}
      /\ Link!Last(e) = "NONE" => e.wire = <<>> /\ e.room = "NONE"
  <2>1. CASE e.wire = <<>>
      BY <1>2, <2>1 DEF Link!Last
  <2>2. CASE e.wire # <<>>
    <3>1. Len(e.wire) \in 1 .. Len(e.wire)
        BY <1>2, <2>2, EmptySeq, LenProperties
    <3>2. e.wire[Len(e.wire)] \in Told
        BY <1>2, <3>1, ElementOfSeq
    <3> QED
        BY <2>2, <3>2 DEF Link!Last, Told
  <2> QED
      BY <2>1, <2>2
<1>4. m \in Told /\ (m = "UPGRADE" => e.wire = <<>> /\ e.room = "NONE")
    BY <1>3 DEF Link!Follows, Told
<1>5. /\ d \in EntrySet /\ d.wire = Append(e.wire, m) /\ d.room = e.room /\ d.ready = e.ready
    BY <1>2, <1>4, AppendProperties DEF EntrySet
<1>6. RefusedFirst(d)
  <2> HIDE DEF d
  <2> SUFFICES ASSUME NEW i \in 1 .. Len(d.wire), d.wire[i] = "UPGRADE"
               PROVE  i = 1 /\ e.room = "NONE"
      BY <1>5 DEF RefusedFirst
  <2>1. Len(d.wire) = Len(e.wire) + 1 /\ Len(e.wire) \in Nat
      BY <1>2, <1>4, <1>5, AppendProperties
  <2>2. CASE i = Len(e.wire) + 1
    <3>1. m = "UPGRADE"
        BY <1>2, <1>4, <1>5, <2>2, AppendProperties
    <3> QED
        BY <1>4, <2>2, <3>1
  <2>3. CASE i # Len(e.wire) + 1
    <3>1. i \in 1 .. Len(e.wire)
        BY <2>1, <2>3
    <3>2. e.wire[i] = "UPGRADE"
        BY <1>2, <1>4, <1>5, <3>1, AppendProperties
    <3> QED
        BY <1>2, <3>1, <3>2 DEF RefusedFirst
  <2> QED
      BY <2>2, <2>3
<1> HIDE DEF d
<1>7. /\ entry' \in [Link!Entries -> EntrySet]
      /\ \A k \in Link!Entries : RefusedFirst(entry'[k])
      /\ \A k \in Link!Entries : entry'[k].room = entry[k].room /\ entry'[k].ready = entry[k].ready
    BY <1>1, <1>2, <1>5, <1>6 DEF LinkSound
<1>8. Welcomed(page', entry')
    BY <1>1, <1>7, KeepsWelcomed
<1> QED
    BY <1>1, <1>7, <1>8 DEF LinkSound, Lost

(* A message is heard, or comes too late.                                    *)
LEMMA ReceivesStep ==
    ASSUME LinkSound, NEW n \in Link!Entries, Link!Receives(n)
    PROVE  LinkSound' /\ Lost
<1> DEFINE e == entry[n]
           m == Head(e.wire)
           stage == IF Link!IsCurrent(n) /\ m \in {"WELCOME", "UPGRADE"} THEN "DONE" ELSE e.stage
           d == [e EXCEPT !.wire = Tail(@), !.room = m, !.stage = stage]
           p == CASE m = "WELCOME" -> Link!Resolved(Link!Status(page, "connected"), n)
                  [] m = "UPGRADE" -> Link!Rejected(page, n)
                  [] OTHER -> page
<1>1. /\ e.ready = "OPEN" /\ e.wire # <<>>
      /\ page' = IF Link!IsCurrent(n) THEN Link!Told(p, m) ELSE page
      /\ entry' = [entry EXCEPT ![n] = d]
    BY DEF Link!Receives
<1>2. /\ entry \in [Link!Entries -> EntrySet] /\ e \in EntrySet /\ RefusedFirst(e)
      /\ e.wire \in Seq(Told) /\ page \in PageSet /\ Welcomed(page, entry)
      /\ e.stage \in {"NONE", "ASKING", "CONNECTING", "DONE"}
    BY DEF LinkSound, EntrySet
<1>3. /\ m \in Told /\ m = e.wire[1] /\ Tail(e.wire) \in Seq(Told)
      /\ Len(e.wire) \in Nat /\ Len(e.wire) >= 1 /\ Len(Tail(e.wire)) = Len(e.wire) - 1
      /\ \A i \in 1 .. Len(Tail(e.wire)) : Tail(e.wire)[i] = e.wire[i + 1]
    BY <1>1, <1>2, HeadTailProperties, EmptySeq, LenProperties, ElementOfSeq
<1>4. m = "UPGRADE" => e.room = "NONE"
    BY <1>2, <1>3 DEF RefusedFirst
<1>5. d \in EntrySet /\ d.wire = Tail(e.wire) /\ d.room = m /\ d.ready = "OPEN"
    BY <1>1, <1>2, <1>3 DEF EntrySet
<1>6. RefusedFirst(d)
  <2> HIDE DEF d
  <2>1. \A i \in 1 .. Len(d.wire) : d.wire[i] # "UPGRADE"
      BY <1>2, <1>3, <1>5 DEF RefusedFirst
  <2> QED
      BY <2>1 DEF RefusedFirst
<1>7. /\ p \in PageSet /\ p.socket = page.socket /\ p.lost = page.lost /\ p.phase = page.phase
      /\ p.connection \in {page.connection, "error", "connected"}
      /\ p.connection = "connected" => page.connection = "connected" \/ m = "WELCOME"
  <2>1. CASE m = "WELCOME"
    <3>1. /\ Link!Status(page, "connected") \in PageSet
          /\ Link!Status(page, "connected").connection = "connected"
          /\ Link!Status(page, "connected").socket = page.socket
          /\ Link!Status(page, "connected").lost = page.lost
          /\ Link!Status(page, "connected").phase = page.phase
        BY <1>2, StatusFacts DEF Statuses
    <3>2. p = Link!Resolved(Link!Status(page, "connected"), n)
        BY <2>1
    <3> HIDE DEF p
    <3> QED
        BY <2>1, <3>1, <3>2, SettledFacts
  <2>2. CASE m = "UPGRADE"
    <3>1. p = Link!Rejected(page, n)
        BY <2>2
    <3> HIDE DEF p
    <3> QED
        BY <1>2, <2>2, <3>1, SettledFacts
  <2>3. CASE m \notin {"WELCOME", "UPGRADE"}
    <3>1. p = page
        BY <2>3
    <3> QED
        BY <1>2, <3>1
  <2> QED
      BY <2>1, <2>2, <2>3
<1> HIDE DEF p, d
<1>8. CASE Link!IsCurrent(n)
  <2>1. /\ page' \in PageSet /\ page'.connection = p.connection /\ page'.socket = n
        /\ page'.lost => page.lost
        /\ page.phase = "LOBBY" => page'.phase # "HOME"
      BY <1>1, <1>3, <1>7, <1>8, ToldFacts DEF Link!IsCurrent
  <2>2. m = "UPGRADE" => page.connection # "connected"
      BY <1>2, <1>4, <1>8 DEF Welcomed, Link!IsCurrent
  <2>3. Welcomed(page', entry')
      BY <1>1, <1>2, <1>3, <1>5, <1>7, <2>1, <2>2, EntriesAreNot0 DEF Welcomed, Told
  <2> QED
      BY <1>1, <1>2, <1>5, <1>6, <2>1, <2>3 DEF LinkSound, Lost
<1>9. CASE ~Link!IsCurrent(n)
  <2>1. page' = page /\ page.socket # n
      BY <1>1, <1>9 DEF Link!IsCurrent
  <2>2. Welcomed(page', entry')
      BY <1>1, <1>2, <2>1 DEF Welcomed, PageSet
  <2> QED
      BY <1>1, <1>2, <1>5, <1>6, <2>1, <2>2 DEF LinkSound, Lost
<1> QED
    BY <1>8, <1>9

(* A socket has ended: the only way to lose a duel with it.                  *)
LEMMA EndsStep ==
    ASSUME LinkSound, NEW n \in Link!Entries, NEW failed \in BOOLEAN, Link!Ends(n, failed)
    PROVE  LinkSound' /\ Lost
<1> DEFINE e == entry[n]
           d == [e EXCEPT !.ready = "CLOSED", !.stage = IF Link!IsCurrent(n) THEN "DONE" ELSE e.stage]
<1>1. entry' = [entry EXCEPT ![n] = d]
    BY DEF Link!Ends
<1>2. /\ entry \in [Link!Entries -> EntrySet] /\ e \in EntrySet /\ RefusedFirst(e)
      /\ page \in PageSet /\ Welcomed(page, entry)
    BY DEF LinkSound
<1>3. d \in EntrySet /\ d.wire = e.wire /\ d.room = e.room /\ d.ready = "CLOSED"
    BY <1>2 DEF EntrySet
<1> HIDE DEF d
<1>4. RefusedFirst(d)
    BY <1>2, <1>3 DEF RefusedFirst
<1>5. /\ entry' \in [Link!Entries -> EntrySet]
      /\ \A k \in Link!Entries : RefusedFirst(entry'[k])
      /\ entry'[n].ready = "CLOSED" /\ \A k \in Link!Entries \ {n} : entry'[k] = entry[k]
    BY <1>1, <1>2, <1>3, <1>4 DEF LinkSound
<1>6. CASE Link!IsCurrent(n)
  <2>1. page' \in {Link!Rejected(Link!Status(page, "disconnected"), n),
                  Link!Status(Link!Rejected(Link!Status(page, "error"), n), "disconnected")}
      BY <1>6 DEF Link!Ends
  <2>2. \A status \in {"disconnected", "error"} :
          /\ Link!Status(page, status) \in PageSet
          /\ Link!Status(page, status).connection = status
          /\ Link!Status(page, status).socket = page.socket
      BY <1>2, StatusFacts DEF Statuses
  <2>3. /\ Link!Rejected(Link!Status(page, "error"), n) \in PageSet
        /\ Link!Rejected(Link!Status(page, "error"), n).socket = page.socket
        /\ Link!Rejected(Link!Status(page, "disconnected"), n) \in PageSet
        /\ Link!Rejected(Link!Status(page, "disconnected"), n).socket = page.socket
        /\ Link!Rejected(Link!Status(page, "disconnected"), n).connection # "connected"
      BY <2>2, SettledFacts
  <2>4. page' \in PageSet /\ page'.connection # "connected" /\ page'.socket = page.socket
      BY <2>1, <2>3, StatusFacts DEF Statuses
  <2>5. Lost
      BY <1>5, <1>6, EntriesAreNot0 DEF Lost, Link!IsCurrent
  <2> QED
      BY <1>5, <2>4, <2>5 DEF LinkSound, Welcomed
<1>7. CASE ~Link!IsCurrent(n)
  <2>1. page' = page /\ page.socket # n
      BY <1>7 DEF Link!Ends, Link!IsCurrent
  <2>2. Welcomed(page', entry')
      BY <1>2, <1>5, <2>1 DEF Welcomed, PageSet
  <2> QED
      BY <1>2, <1>5, <2>1, <2>2 DEF LinkSound, Lost
<1> QED
    BY <1>6, <1>7

(* A page loses a duel, or leaves its lobby, only when the socket of that    *)
(* duel has ended, and it says it is connected only when the room its socket *)
(* leads to has welcomed it: whatever entries it made before, and whenever   *)
(* their answers and ends arrive (enterRoom, handleConnectionStatus).        *)
THEOREM DuelsEndWithTheirSockets == Link!Spec => DuelEndsWithItsSocket
<1>1. Link!Init => LinkSound
  <2> SUFFICES ASSUME Link!Init PROVE LinkSound
      OBVIOUS
  <2>1. <<>> \in Seq(Told) /\ Len(<<>>) = 0
      OBVIOUS
  <2>2. /\ Link!NoEntry \in EntrySet /\ Link!NoEntry.wire = <<>>
      BY <2>1 DEF Link!NoEntry, EntrySet
  <2>3. Link!NewPage \in PageSet /\ Link!NewPage.connection = "disconnected"
      BY DEF Link!NewPage, PageSet, PagePhases, Statuses
  <2> QED
      BY <2>1, <2>2, <2>3 DEF Link!Init, LinkSound, RefusedFirst, Welcomed
<1>2. LinkSound /\ [Link!Next]_<<page, entry>> => LinkSound' /\ [Lost]_<<page, entry>>
  <2> SUFFICES ASSUME LinkSound, [Link!Next]_<<page, entry>> PROVE LinkSound' /\ [Lost]_<<page, entry>>
      OBVIOUS
  <2>1. CASE UNCHANGED <<page, entry>>
      BY <2>1 DEF LinkSound
  <2>2. CASE Link!Next
      BY <2>2, UserStep, ActInVainStep, GrantedStep, OpensStep, SendsStep, ReceivesStep, EndsStep
         DEF Link!Next
  <2> QED
      BY <2>1, <2>2
<1>3. LinkSound => (page.connection = "connected" /\ ~page.lost
          => Link!Alive(page.socket) /\ entry[page.socket].room \notin {"NONE", "UPGRADE"})
    BY DEF LinkSound, Welcomed, Link!Alive
<1> QED
    BY <1>1, <1>2, <1>3, PTL DEF Link!Spec, Link!vars, DuelEndsWithItsSocket, Link!DuelEndsWithItsSocket, Lost
=============================================================================
