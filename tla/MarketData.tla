----------------------------- MODULE MarketData -----------------------------
(***************************************************************************)
(* One symbol's order book, from the venue to the strategies.  The venue   *)
(* changes its book and sends every change; the runner (live/runner.py)    *)
(* holds the connection; the feed (live/binance_live.py) keeps the book    *)
(* and decides what a discontinuity is; the feature engine keeps a second  *)
(* copy, from the events the feed lets through, and the pipeline hands     *)
(* that one to the strategies.                                             *)
(*                                                                         *)
(* A message is handled to its end before the next is read: the snapshot   *)
(* is fetched with a blocking call.  An update sets a price level's        *)
(* quantity, named by the update's id, or takes the level away.  Levels are *)
(* those of one side, 1 the best; both sides are treated alike.  A snapshot *)
(* shows the best of them only: a hundred, however deep the venue's book.   *)
(***************************************************************************)
EXTENDS Integers, Sequences, FiniteSets, FiniteSetsExt

CONSTANTS
  Level,       \* the price levels of one side of the book, 1 the best
  SnapshotLevels, \* BinanceFeed.snapshot_depth
  MaxUpdates,  \* the venue changes its book this often
  MaxQueue,    \* messages under way
  MaxDials     \* LiveConfig.max_connections

ASSUME MarketAssumption ==
  /\ Level \subseteq Nat /\ IsFiniteSet(Level) /\ SnapshotLevels \in Nat
  /\ MaxUpdates \in Nat /\ MaxQueue \in Nat /\ MaxDials \in Nat

None == -1               \* BookSequencer.last_applied_id is None
NoBook == [l \in Level |-> 0]
NoResync == [first |-> 0, final |-> 0, id |-> None]

VARIABLES
  log,     \* the venue's updates so far: a level, and whether it went away
  queue,   \* messages sent and not yet read
  sent,    \* the last update that was put into a message, or skipped
  phase,   \* where _market_loop is
  dials,   \* RunReport.connections
  seq,     \* BookSequencer: last_applied_id and resync_required
  feed,    \* BinanceFeed: its book and _synced
  engine,  \* FeatureEngine.book
  resync   \* history: the latest snapshot, and the message that asked for it

marketVars == <<log, queue, sent, phase, dials, seq, feed, engine, resync>>

\* the venue's book after n updates
BookAt(n) == [l \in Level |->
  LET last == Max({0} \cup {i \in 1..n : log[i].level = l})
  IN IF last = 0 \/ log[last].gone THEN 0 ELSE last]
Touched(first, final) == {log[i].level : i \in first..final}
\* what a snapshot of that book shows: its best levels
TopOf(n) == {l \in Level :
  BookAt(n)[l] # 0 /\ Cardinality({k \in Level : k < l /\ BookAt(n)[k] # 0}) < SnapshotLevels}
Snapshot(n) == [l \in Level |-> IF l \in TopOf(n) THEN BookAt(n)[l] ELSE 0]

-----------------------------------------------------------------------------
(* The venue.                                                              *)

Publishes(l, gone) ==
  /\ Len(log) < MaxUpdates
  /\ log' = Append(log, [level |-> l, gone |-> gone])
  /\ UNCHANGED <<queue, sent, phase, dials, seq, feed, engine, resync>>

\* a depth message covers every update since the last one; a venue that skips
\* updates for a slow reader leaves a gap
Sends ==
  /\ phase = "open" /\ sent < Len(log) /\ Len(queue) < MaxQueue
  /\ \E first \in sent + 1 .. Len(log) :
       queue' = Append(queue, [kind |-> "depth", first |-> first, final |-> Len(log)])
  /\ sent' = Len(log)
  /\ UNCHANGED <<log, phase, dials, seq, feed, engine, resync>>

\* trades, marks and liquidations carry no book
SendsTrade ==
  /\ phase = "open" /\ Len(queue) < MaxQueue
  /\ queue' = Append(queue, [kind |-> "trade"])
  /\ UNCHANGED <<log, sent, phase, dials, seq, feed, engine, resync>>

-----------------------------------------------------------------------------
(* BookSequencer.                                                          *)

NewSequencer == [last |-> None, resync |-> FALSE]
Reset(id) == [last |-> id, resync |-> FALSE]

Answer(s, applied) == [seq |-> s, applied |-> applied]

AcceptOverGaps(s, first, final) ==
  CASE s.last = None -> Answer([s EXCEPT !.resync = TRUE], FALSE)
    [] s.last # None /\ final <= s.last -> Answer(s, FALSE)
    [] OTHER -> Answer([s EXCEPT !.last = final], TRUE)
\* accept: the sequencer after the message, and whether to apply it
Accept(s, first, final) ==
  CASE s.last = None -> Answer([s EXCEPT !.resync = TRUE], FALSE)
    [] s.last # None /\ final <= s.last -> Answer(s, FALSE)
    [] s.last # None /\ first > s.last + 1 -> Answer([last |-> None, resync |-> TRUE], FALSE)
    [] OTHER -> Answer([s EXCEPT !.last = final], TRUE)

\* LocalBook.apply_delta: a level takes its quantity as of the message
ApplyDelta(b, first, final) ==
  [l \in Level |-> IF l \in Touched(first, final) THEN BookAt(final)[l] ELSE b[l]]

-----------------------------------------------------------------------------
(* What a message makes of the feed: its sequencer, its book, and the       *)
(* events handed on.  The quality flags of an event are left out: what they *)
(* hold back is the pipeline's.                                            *)

DeltaEvent(m) == [kind |-> "delta", first |-> m.first, final |-> m.final]
SnapshotEvent(id) == [kind |-> "snapshot", id |-> id]
TradeEvent == [kind |-> "trade"]

Updated(f, m) == [f EXCEPT !.book = ApplyDelta(@, m.first, m.final)]
Handled(s, f, events) == [seq |-> s, feed |-> f, events |-> events]

\* resync, with the answer of the venue: the best of its book as of some update
Resynced(f, id) ==
  [book |-> Snapshot(id), synced |-> TRUE]

\* _on_depth: applied, dropped as stale, or the reason to resync, in which case
\* the message is offered once more after the snapshot
OfferNoMore(m, id) == Answer(Reset(id), FALSE)
OfferAgain(m, id) == Accept(Reset(id), m.first, m.final)
OnDepth(m, id) ==
  LET offer == Accept(seq, m.first, m.final)
      again == OfferAgain(m, id)
  IN
  CASE offer.applied ->
         Handled(offer.seq, Updated(feed, m), <<DeltaEvent(m)>>)
    [] ~offer.applied /\ ~offer.seq.resync -> Handled(offer.seq, feed, <<>>)
    [] OTHER ->
         IF again.applied
           THEN Handled(again.seq, Updated(Resynced(feed, id), m), <<SnapshotEvent(id), DeltaEvent(m)>>)
           ELSE Handled(again.seq, Resynced(feed, id), <<SnapshotEvent(id)>>)

AsksFor(m) == m.kind = "depth" /\
  LET offer == Accept(seq, m.first, m.final) IN ~offer.applied /\ offer.seq.resync

Decoded(m, id) ==
  IF m.kind = "trade" THEN Handled(seq, feed, <<TradeEvent>>)
  ELSE OnDepth(m, id)

-----------------------------------------------------------------------------
(* FeatureEngine.on_event: the copy of the book the strategies are shown.  *)

AbsorbMerging(b, e) ==
  CASE e.kind = "snapshot" -> [l \in Level |-> IF Snapshot(e.id)[l] = 0 THEN b[l] ELSE Snapshot(e.id)[l]]
    [] e.kind = "delta" -> ApplyDelta(b, e.first, e.final)
    [] OTHER -> b
Absorb(b, e) ==
  CASE e.kind = "snapshot" -> Snapshot(e.id)
    [] e.kind = "delta" -> ApplyDelta(b, e.first, e.final)
    [] OTHER -> b

EngineAfter(events, n) ==
  LET books[i \in 0..n] == IF i = 0 THEN engine ELSE Absorb(books[i - 1], events[i])
  IN books[n]
\* on_market_message: decode, then dispatch each event
Handle(m, id) ==
  LET done == Decoded(m, id) IN
  /\ seq' = done.seq
  /\ feed' = done.feed
  /\ engine' = EngineAfter(done.events, Len(done.events))
  /\ resync' = IF AsksFor(m) THEN [first |-> m.first, final |-> m.final, id |-> id] ELSE resync

Receive ==
  /\ phase = "open" /\ queue # <<>>
  /\ queue' = Tail(queue)
  /\ \E id \in 0..Len(log) : Handle(Head(queue), id)
  /\ \/ phase' = "open"          \* and _should_rotate may be true by now
     \/ phase' = "rotated"
  /\ UNCHANGED <<log, sent, dials>>

\* the snapshot is refused: the error is none that _market_loop catches, so it
\* ends the loop, and run() with it
SnapshotRaises ==
  /\ phase = "open" /\ queue # <<>>
  /\ LET m == Head(queue) IN
     /\ AsksFor(m)
     /\ seq' = Accept(seq, m.first, m.final).seq
  /\ feed' = [feed EXCEPT !.book = NoBook]
  /\ phase' = "ended"
  /\ queue' = <<>>
  /\ resync' = NoResync
  /\ UNCHANGED <<log, sent, dials, engine>>

-----------------------------------------------------------------------------
(* The connection: _market_loop.                                           *)

\* on_disconnect, called after every connect
Forgotten == [book |-> NoBook, synced |-> FALSE]

Connect ==
  /\ phase = "dial" /\ dials < MaxDials
  /\ phase' = "open"
  /\ dials' = dials + 1
  /\ feed' = Forgotten /\ seq' = NewSequencer
  /\ sent' = Len(log)
  /\ resync' = NoResync
  /\ UNCHANGED <<log, queue, engine>>

ConnectFails ==
  /\ phase = "dial" /\ dials < MaxDials
  /\ phase' = "backoff"
  /\ UNCHANGED <<log, queue, sent, dials, seq, feed, engine, resync>>

\* the stream is dropped or comes to its end; what was under way is lost
Drop ==
  /\ phase = "open"
  /\ phase' = "backoff"
  /\ queue' = <<>>
  /\ UNCHANGED <<log, sent, dials, seq, feed, engine, resync>>

\* a rotation is our own choice and earns no back-off
Rotate ==
  /\ phase = "rotated"
  /\ phase' = "dial" /\ queue' = <<>>
  /\ UNCHANGED <<log, sent, dials, seq, feed, engine, resync>>

Backoff ==
  /\ phase = "backoff"
  /\ phase' = "dial"
  /\ UNCHANGED <<log, queue, sent, dials, seq, feed, engine, resync>>

\* the connections allowed are used up
Exhausted ==
  /\ phase = "dial" /\ dials = MaxDials
  /\ phase' = "stopped"
  /\ UNCHANGED <<log, queue, sent, dials, seq, feed, engine, resync>>

\* stop() gives up waiting for the stream at once
Stop ==
  /\ phase \notin {"ended", "stopped"}
  /\ phase' = "stopped" /\ queue' = <<>>
  /\ UNCHANGED <<log, sent, dials, seq, feed, engine, resync>>

MarketInit ==
  /\ log = <<>> /\ queue = <<>> /\ sent = 0
  /\ phase = "dial" /\ dials = 0
  /\ seq = NewSequencer
  /\ feed = Forgotten
  /\ engine = NoBook
  /\ resync = NoResync

MarketNext ==
  \/ \E l \in Level, gone \in BOOLEAN : Publishes(l, gone)
  \/ Sends \/ SendsTrade \/ Receive \/ SnapshotRaises
  \/ Connect \/ ConnectFails \/ Drop \/ Rotate \/ Backoff \/ Exhausted \/ Stop

MarketSpec == MarketInit /\ [][MarketNext]_marketVars

-----------------------------------------------------------------------------
(* Properties.                                                             *)

\* The feed's book is what the latest snapshot and the updates since make of it, as
\* of the last update the sequencer counts: a level that the snapshot reached, or
\* that changed since, is the venue's; any other is the venue's or missing, never
\* wrong.  So through gaps, stale messages, late snapshots and reconnects; before
\* the first snapshot of a connection the book is empty.
BookIsVenues ==
  /\ seq.last # None => \A l \in Level :
       /\ feed.book[l] \in {0, BookAt(seq.last)[l]}
       /\ l \in TopOf(resync.id) \cup Touched(resync.id + 1, seq.last) =>
            feed.book[l] = BookAt(seq.last)[l]
  /\ ~feed.synced => feed.book = NoBook

\* Whenever the feed is in sequence, the copy the strategies see is the feed's.
EngineAgrees == seq.last # None => engine = feed.book

\* A snapshot that reaches back to the message that asked for it closes the
\* gap: the message is never lost between the two, to be the next gap.
CatchesUp ==
  (resync # NoResync /\ resync.id >= resync.first - 1) => seq.last >= resync.final
=============================================================================
