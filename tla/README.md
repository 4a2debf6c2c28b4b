# Verification of `tradesys`

TLA+ models of the trading system under `src/src/tradesys`, the TLC
configurations that check them on small instances, and theorems about them
that TLAPS proves for every value of the constants. Paths below are relative to
`src/src/tradesys` unless they start with `src/`.

    tlasany M.tla                      parse a module
    tlc -workers 2 -config X.cfg M     check a run (table in section 4)
    tlapm M.tla                        check the proofs of M

Contents: 1 the system, 2 the modules, 3 properties and what they are for,
4 the runs, 5 fairness, 6 proofs, 7 where the code departs from its own words,
8 what is not modelled, 9 what could follow.

---

## 1. The system

One asyncio process trades one account. Market data comes in on one stream,
executions on another (the *user stream*), and requests go out over REST. The
REST adapters **block the event loop**: while a handler waits for the venue no
other coroutine of the process runs. So the process itself is almost
sequential, and what is hard is everything around it: the venue trades while a
handler runs, the answer of a request and the report of the same fill travel on
different channels, requests time out after the venue acted, the user stream
drops and is never back-filled, and the process dies and comes back knowing
nothing.

### Components

| Component | State it keeps | Operations that change it | Correct when |
|---|---|---|---|
| Order machine, `layers/l6_execution/fsm.py` | status, filled quantity, reject reason | `on_sent`, `on_ack`, `on_fill`, `on_reject`, `on_unknown`, `on_query_result`, `on_not_found`, `on_cancel_ack` | never asked for a transition its table lacks; its filled quantity is the venue's up to reports in transit |
| Executor, `layers/l6_execution/executor.py` | a machine per client order id, `reconciliation_clean`, the id sequence | `submit`, `cancel`, `resolve_unknown`, `on_fill`, `in_flight` | `in_flight` covers everything that can still trade; an order is written off only if the venue has nothing of it |
| Venue adapters, `adapters/binance.py`, `bybit.py`, `base.py` | none | `place`, `cancel`, `query`, `positions`, `open_orders`; tables of errors and of status words | what happened at the venue is never taken for its opposite |
| Simulated venue, `adapters/sim.py` | book, resting orders with their queue, positions, clock | `place`, `cancel`, `step`, `observe_trade`, `apply_market_event` | an order fills by what traded beyond its queue, once |
| Pipeline, `pipeline.py` | `_fallbacks`, the books, references to all layers | `on_market_event`, `on_fill`, `_process_taker_fallbacks`, `_process_unwinds` | the same change of position is never ordered twice; every fill is booked once |
| Leg groups, `layers/l6_execution/legs.py` | groups of legs with their fills and timeout | `open`, `on_fill`, `on_status`, `evaluate`, `due_for_unwind`, `mark_unwinding`, `mark_unwound` | no group stays incomplete; a whole trade is kept; an unwind opens nothing |
| Reconciler, startup gate, `layers/l6_execution/reconcile.py`, `startup.py` | none | `reconcile`, the gate's steps | trading starts, and goes on, only on a known position |
| Kill switch, `layers/l5_risk/killswitch.py` | engaged triggers with approvals and clearing time, heartbeat | `engage`, `condition_cleared`, `condition_returned`, `approve`, `try_clear`, `try_clear_all`, `check_deadman`, `heartbeat` | a trigger is released as its row of the matrix says, and not otherwise |
| Risk service, `layers/l5_risk/service.py`, `state.py` | equity, peak, day's and week's start, positions, refusals in a row, disabled strategies | `evaluate` (13 checks), `mark`, `roll_day`, `check_drawdown_ladder`, `manual_kill` | limits hold over sequences of orders; what is approved is never more than asked |
| Trading session, `session.py` | NEW to HALTED, counts of failed cycles, times of the last heartbeat and reconciliation | `start`, `on_event`, `tick`, `reconcile`, `_flatten`, `manual_kill`, `on_fill` | no new position on top of an unknown one; a trigger that flattens ends flat |
| Live runner, `live/runner.py` | streams, token, stop flag | tick loop, market loop, user loop, reconnects, keepalive, rotation, final flush | a lost stream is noticed, a token outlives reconnects, a capture ends written |
| Books, `accounting.py` | positions, cash, a ledger per strategy | `on_fill`, `mark`, `apply_to`, `accrue_funding`, `settle_funding`, `accrue_borrow`, `book_internal_cross` | equity is what trading made; the ledgers add up to the account |
| Limits and approval, `layers/l5_risk/limits.py`, `approval.py` | approvals by digest, the limit register | `from_mapping`, `approve`, `check`, `load_limits` | limits change only behind approval of exactly these limits |
| Portfolio, `layers/l4_portfolio/*` | weights, time of the last solve | `net_targets`, `Allocator.observe`, `solve` | what is asked for is what is held, at its weight |
| Strategies, `layers/l3_strategy/*` | open position, episode, funding of each venue, windows | `on_features` | a position is remembered until its close was asked for |
| Features, `layers/l2_features/*` | numeric windows, a copy of the book | `on_event` | the copy is the feed's book |
| Book feed, `live/binance_live.py`, `layers/l1_data/book.py` | book, sequence, buffered deltas | snapshot, delta, resync | never applies a delta twice or across a gap |
| Audit trail, `layers/l7_observability/audit.py` | hash chain, backlog, halt | `record`, drain in `_emit`, `recover`, `verify` | nothing recorded is lost |
| Metrics and alerts, `layers/l7_observability/*` | registry, open alerts | `gauge`, `observe`, `raise_all`, `raise_alert`, `resolve` | money at risk pages, once |
| Capture, `live/capture.py`, `layers/l1_data/archive.py` | buffers, part files | `offer`, `flush`, `check_disk`, `close` | what is on disk is what arrived, in order |
| Shadow and wiring, `live/shadow.py`, `live/wiring.py` | recorded orders | build, place, cancel | a shadow order exists nowhere |
| Research, `research/*` | table of trials, table of holdout reads | `start`, `finish`, `abandon`, `count`, the harness's checks, `read`, folds | every run counts; a holdout is seen once; no fold leaks |
| Streams, `live/streams.py`, `websocket.py` | sockets, back-off | connect, read, drop | (I/O) |
| Security, cost analysis, command line, demo, chaos | — | — | (stateless, offline, or text) |
| `src/games/legends-road` | — | — | an unrelated game |

### How they interact

    venue --> market stream --> Runner --> Feed --> Session.on_event --> Pipeline.on_market_event
                                  |          |         |        FeatureEngine -> strategies -> netting -> target
                                  |       Capture      |        target - booked - in_flight = delta
                                  |                    |        RiskService.evaluate --- KillSwitch
                                  |                    |        Executor.submit ------ adapter ---> venue
                                  |                    |        taker fallbacks, unwinds of leg groups
                                  |                    |        Books.mark, funding; audit.record
                                  |                    +- tick: heartbeat, dead-man, reconcile, ladder,
                                  |                       flatten, alerts
    venue --> user stream ----> Runner --> Session.on_fill --> Executor, Unwinder, Books, risk state
    timer --------------------> Runner --> Session.tick, keepalive of the token
    limits file --> (approval chain) --> LimitRegister --> RiskService
    archive, scenario --> Harness --> Backtester (a trial) --> Pipeline over SimAdapter

### What is hard

* **Two channels for one fact.** A query's answer and a fill's report state the
  same execution, in either order (`fsm.py:127`).
* **Unknown outcomes.** A request that times out may have worked; a cancel that
  is refused may mean the order just filled.
* **State read before a call and used after it** (`pipeline.py:372`).
* **Moving targets.** Every event names a new target while orders for the last
  one are at work.
* **Multi-leg trades**: one leg fills, the other does not; the timeout and the
  last fill come together; a leg fills while it is cancelled.
* **Crash and restart** with no memory, while the venue keeps orders.
* **Lost reports** that nobody fetches again.
* **Stopping**: several triggers at once, cleared by different people, while
  strategies go on asking for orders.
* **Sequences of legal orders** that together pass a limit each one respects.
* **Two copies of one fact**: the feed's book and the engine's, the books' equity
  and the risk state's, the account's position and the strategies' views of it, a
  strategy's memory and what it asked for.
* **Gaps and late snapshots** of the book; **reconnects** that fall together with
  keepalives of the token.
* **Half-done writes**: a crash in a flush, a full disk, an audit path that fails
  while its backlog is drained.
* **Failing servers** that acted, and codes and words no table knows.

`PROJECT.json` lists forty such places with their lines under `hazards`, each
with the properties that catch it going wrong, or the reason none does yet.

---

## 2. The modules

| Module | Models | Built on |
|---|---|---|
| `Exposure` | abstract: an order may trade only out of room opened for it | |
| `Execution` | `fsm.py`, `executor.py`, the venue, fills in transit | implements `Exposure` |
| `Pipeline` | the order path of `pipeline.py` for one instrument | extends `Execution` |
| `LegGroups` | `legs.py` and its driver in `pipeline.py` | extends `Execution` |
| `KillSwitch` | `killswitch.py` as functions of the switch's value | |
| `Recovery` | a kill switch in use, with operators and a clock | extends `KillSwitch` |
| `RiskService` | `service.py`, `state.py` | instance of `KillSwitch` |
| `Session` | `session.py`, `reconcile.py`, `startup.py`, the loops of `runner.py` | extends `Execution`, instance of `KillSwitch` |
| `VenueErrors` | `binance.py`, `bybit.py`, `shadow.py`, and what `executor.py` makes of their errors | |
| `Matching` | `adapters/sim.py` | |
| `UserStream` | the user loop and the keepalive of `runner.py`, `decode_fill` | |
| `MarketData` | the market loop of `runner.py`, `binance_live.py`, `book.py`, `engine.py`'s book | |
| `Strategies` | the five of `layers/l3_strategy` | |
| `Portfolio` | `netting.py`, `allocator.py` and the pipeline around them | |
| `Books` | `accounting.py`, funding in `pipeline.py` | |
| `Approvals` | `approval.py`, `limits.py`, `config.load_limits` | |
| `Capture` | `capture.py`, the raw half of `archive.py` | |
| `AuditLog` | `audit.py` | |
| `Alerts` | `alerts.py`, `metrics.py`, what `session.py` publishes | |
| `Research` | `registry.py`, `harness.py`, `backtest.py`, folds of `validation.py` | |
| `Desk` | all of the parts that share no state, in one model | extends the above but `Pipeline`, `LegGroups`, `RiskService`, `Session` |
| `MCSession`, `MCRisk`, `MCPortfolio`, `MCLegGroups` | symmetry and values a configuration cannot write | |
| `ExecutionProofs`, `PipelineProofs`, `LegGroupsProofs`, `RiskProofs`, `SessionProofs` | theorems about the module of that name | extend it |
| `DeskProofs`, `VenueProofs` | theorems about the parts of `Desk`: `VenueProofs` those of the venue's side (`VenueErrors`, `Matching`, `UserStream`) | extend the parts they are about |
| `FiniteProofs` | lemmas about sums over finite sets and about counting the places of a sequence | |

`Desk` puts the parts that share no state beside each other: `part` names the
one whose behaviour this is, its actions are the next-state relation, and the
others rest in an initial state. So one configuration explores all of them, and a
state costs no more than the part's own. Parts that do share state are composed
where they meet: executor, venue and books in `Pipeline`, risk service and switch
in `RiskService`, executor, venue, switch, gate and runner in `Session`.

`PROJECT.json` maps every definition that stands for code to its lines. A few
definitions beside the ones they resemble (`CancelFailedAsCancelled` beside
`CancelWorking`, `ReplaceWhole` beside `Replace`, `OfferNoMore` beside
`OfferAgain`, ...) are plausible wrong versions of the code. No specification uses
them: each is substituted for the right one to see that the property it threatens
then fails.

### Execution

`machine[c]` is `Executor.machines[c]`; `venue[c]` is the venue's record;
`transit[c]` is what the venue executed and has not reported. One handler of the
executor is one action, the venue's answer included, because the call blocks.
`Submit` has one disjunct per way `place` can end (acknowledged, unknown though
taken, unknown and never arrived, refused); `CancelWorking` and `CancelRefused`
likewise; `Resolved` is what `resolve_unknown` can leave. `DeliverFill` is one
report of the user stream. `VenueFill`, `VenueExpire`, `StreamDrop` are the
environment.

`raised` records that a handler ended in `IllegalTransition`: the code adds the
fill's quantity before the transition is tried, and so does `OnFill`.

Three sets say what the venue of an order may do, so that one run mixes venues,
as one executor does:

* `Overtakes`: a REST answer may overtake a fill in transit. Live venues do.
  Paper trading and a backtest with an order latency do not: `live/runner.py:288-293`
  hands over every simulated fill before the next event, and `live/wiring.py:220`
  gives the simulator its latency.
* `Lossy`: fills in transit may vanish with the user stream, which no
  reconnect back-fills (`live/runner.py:334-366`).
* `Instant`: a crossing order trades inside `place` (`SimAdapter` with
  `order_latency_ns` 0, the backtest), and `step` never hands that fill over.

An order outside all three is *Reliable*.

Bounds and simplifications: the set `Order` bounds the ids; an id is retried
only with its own quantity; ids spent on orders refused before the venue saw
them are not counted; a request that the client gave up on does not arrive
later, because the venue's `recvWindow` (5 s) is shorter than the transport's
timeout (10 s). `timed_out_orders` and `unresolved_queries` only read.

### Pipeline

One instrument. `handler` says how far the handler of an event has come:
`Begin` (an event, with the resting orders that are past their deadline),
`Replace` for each of those (drop the entry, remember the remaining quantity,
cancel), `Cross` (place the taker), `Trade` (order the difference between
target, booked position and `in_flight`). `Fill` is `Pipeline.on_fill`: executor,
then books; a fill that the order machine refuses is never booked, and the error
ends the loop that delivered it (`Dead`). Between the calls of one handler a
live venue trades (`Venue`), but no fill is delivered. The quantity approved is
any from one lot to what was asked, or none: filters and the risk service.

### LegGroups

One group from its signal to its end, each leg with an order that opens it and
one that would unwind it. `PlaceLeg`, `SkipLeg`, `Placed` are the submission of
a signal's legs; `Evaluate` and `Sweep` are `LegGroup.evaluate` and
`due_for_unwind`; `CancelLeg`, `StartUnwind`, `UnwindLeg`, `MarkUnwound` are
`_process_unwinds`. A leg joins with the quantity asked for, not the one
approved, as in the code. `OpenRaises` is a leg that was sent, or refused, and whose
group is then refused by `Unwinder.open`, because events once came further apart than
the timeout (`Gaps`): the error ends the loop, and the leg has no group. The venue trades
on. The taker that replaces a resting leg is not composed in. The module extends
`Execution` with `Order` standing for the pairs of a leg and `"open"` or `"unwind"`
(`GroupAssumption`; `MCLegGroups` gives the pairs), so that its steps are the executor's
own and its theorems rest on the executor's.

### KillSwitch and Recovery

`KillSwitch` has no variable: the recovery matrix and every method, as functions
from a switch's value to the next. `Recovery` holds a switch, a clock and a
history variable `signed` (who approved since the trigger was engaged).
`Session` and `RiskService` hold switches of their own. The module contains the
whole matrix; a run names the triggers it uses.

### RiskService

An order `x` passes the checks in the code's order. `Entitled` is checks 1 to 7,
`OverCap` and `Room` check 8, `Concentrated` and `OverGross` 9 and 10, `Losing`
13. `Refuse` and `Permit` are the two ends of `evaluate` with every state they
change. A cut order is approved at once and skips 9 to 13, as in the code.
`Traded` and `Withdrawn` are what becomes of an approved order; `Mark`,
`RollDay`, `CheckDrawdownLadder` and `ManualKill` the rest. `roll_week` has no
caller. Check 11 only throttles, and check 12 receives no data from any caller.

Prices are 1, quantities whole lots, limits per cent of equity; each instrument
trades at one venue; the account starts with positive equity; the count of
refusals stops at its limit, past which the code never reads it.
`Serial` is the set of instruments whose orders trade within `submit` (the
backtest's venue), so that none is on its way when the next is judged. Check 8
looks at the position alone, so the cap is promised only there.

### Session

One venue, one instrument. `Start`, `ReadPositions`, `ReadOrders`, `Gate` are the
startup gate; the two reads are separate actions because a live venue trades
between them. `Event`, `Timer`, `Tick`, `Ladder` are an event and the tick that
follows it, in the order the code has: heartbeat, dead-man, reconciliation, day
roll, drawdown, flatten. `FlattenCancel` and `FlattenPlace` are `_flatten`, which
asks the risk service once. `Restart` forgets all but the venue. The user stream
opens after the gate (`live/runner.py:171-190`), so fills in transit are gone by
then. `Reports` is whether `positions()` returns what the venue holds. The simulator
(`sim.py:615`), Bybit (`bybit.py:374`) and the shadow venue in front of them do. The
Binance adapter returns an empty list (`binance.py:531`), and it is the one live wiring with a
user stream. With it a position the books do hold differs from none, and a cycle that completes
halts; a position the books do not hold is never seen. The checks that this
module's state does not decide are assumed to pass. `Fresh` uses each id once;
that the id sequence starts over with the process is not modelled here.

### VenueErrors

One order at Binance, at Bybit or in a shadow run. `truth` is what it is at the
venue, `believed` the machine's status. A request is lost before or after the
venue acted, or answered by any status and code the venue may give for what it
did, failing servers that acted among them; `Outcome` is the way from there to
the class of the error (`_call`, the two tables, `map_error`, the transport), and
`PlaceCall`, `QueryCall`, `CancelCall` what the executor makes of that class.
`Escapes` is the error that leaves `cancel`. Codes stand for their class: a member of
each entry of a table, and two that are in none.

### Matching

One symbol of `SimAdapter`. `Place` covers market and limit orders, post-only or
not, with and without latency and with a fault that fills one half; `Match` is
`step` over every order; `BookMoves` and `Trades` are the market. `model_queue`
off, cost and slippage of a walk, and prices of fills are left out. What
`place` answers, and whether the answer is lost, is Execution's.

### UserStream

`Issue`, `Open`, `DropStream`, `BackedOff`, `Message`, `MessageRaises` are
`_user_loop`; `TimerTick` is one pass of `_tick_loop` with its keepalive; the venue executes
and lets a token die `Validity` after it was last extended. Validity is twice the
keepalive interval, as 60 minutes to 30. Time between ticks (a second) is short
against both, so the clock's unit is long against a tick.

### MarketData

The venue numbers its updates and sends each depth message with all updates since
the last; `Sends` may skip some, which is a gap. `Receive` is a message handled to its
end: `Accept` is the sequencer, `OnDepth` applies, drops, or resyncs from a
snapshot as of *any* update the venue has made, and offers the message again; a
snapshot shows the best `SnapshotLevels` levels (`TopOf`; a hundred in the code) and the
deeper ones are missing until an update touches them;
`Absorb` is the second copy of the book, the engine's. `Connect`, `Drop`, `Rotate`,
`Backoff`, `Exhausted`, `Stop`, `SnapshotRaises` are `_market_loop`. A level holds the id of the update
that set it, so a book that is off by one update differs. One side of one symbol; the
quality of an event and the staleness of the feed are not here.

### Strategies

One behaviour is of one strategy. A feature is a point on a small scale, on each
side of every threshold it is compared with, or absent; a target is its sign. The
cascade's levels are kept doubled so that they stay whole. Sizes are left out:
each strategy fixes its size at the entry. Of the pairs' hedge ratio `beta` the sign is
kept, because the second leg is the first one times `-beta` and nothing checks it. Health and enabling are Session's.

### Portfolio

`MarketEvent` is one event from the signals of all strategies to the positions:
`Solved` is the allocator (when it is due, over all books of weights its solver, its
rounding and the correlation cuts can produce), `NetTargets` the pass of `net_targets`
over the signals, of which the last word of a strategy on an instrument remains, and an
order fills whole or is refused. A strategy may say nothing at an event. `wants` is what each
strategy last asked for, `holds` what the account has, `unmet` the instruments whose latest target was
refused. The code rounds each weight to six decimals (`allocator.py:112`), so a book of weights may be off
the whole by half a last unit for each; `Solutions` allows that of its own unit, an
eighth. How urgent a signal is, and the tags of its legs, are left out.

### Books

`Fill`, `Mark`, `Funding` are the pipeline's calls into the ledger; `InternalCross` and
`AccrueBorrow` have no caller yet. Quantities, prices and averages are whole
numbers: a fill or crossing whose average would leave a fraction is not among the
inputs (`WholeAverage`, part of `Fits`), so the quotient of `accounting.py`'s averaging is
exact, as it is up to rounding in the code. One unit of fees per fill stands for the fee
schedule.

### Approvals

A document is its limits, so its digest is itself and an edit is another document.
`FromMapping` asks the chain and then builds; `LoadLimits` builds only, as every
entry point does. A document out of order and one out of its bounds are among the
inputs.

### Capture

`Offer` is a record's way into its buffer, the disk check and the flush. `Flush` ends in
one of three ways: every stream that is ready has its part; the disk is found full
before one of them and the writer stops; the process dies on the way, between two
streams or between a part and its checksum (`torn`). `Close` is the runner's last
flush, after which the process ends however the flush went, and `Crash` an end
anywhere else. A part file is where it lies (stream, hour, index), its rows, and
whether its checksum is there; a part without one is refused when read back.
`Free` is the first index its directory has free, as `_next_part` counts up to it. The
code reads parts in the order of their names, which is the order of their indexes up to
10 000 parts of a stream in an hour (`part-%04d`); the model orders by index. The
clock that stamps records does not go back.

`ArchiveIsTheStream` compares sets: the union of the rows, with every part and the
buffer rising and each part wholly before the parts its path precedes. A rising
sequence is determined by its set, so this says that the parts, joined in the order of their
paths, are the sequence of arrivals.

### AuditLog, Alerts, Research

`AuditLog`: `Record` is `record` with `_emit`; `written` is how many writes of the
drain succeed. `Alerts`: `TimedTick` and `Event` publish and judge the targets;
`Demand`, `Release`, `ManuallyKilled`, `Books` are the switch, people and fills.
`Research`: `StartTrial` to `Abandon` are the registry, a trial being open while
its backtest runs; `Validate` and `Advance` walk the harness's checks in their order
(those that make no trials and decide nothing about the count are skipped);
`ReadHoldout` and `Fold` are the holdout and `purged_kfold_splits`, which splits no
sample smaller than its number of folds.

---

## 3. Properties

| Property | Module | Says |
|---|---|---|
| `TypeOK` | Execution | shapes; no venue executes more than it was sent |
| `InFlightCovers` | Execution | what can still trade is covered by `in_flight` |
| `AccountsConsistent` | Execution | local and venue account agree up to fills in transit, and every order that can trade has an open machine |
| `CancelledIsClosed` | Execution | a failed or refused cancel is never taken for a cancelled order, at any venue |
| `WrittenOffOnlyIfAbsent` | Execution | an unknown order is written off only if nothing of it traded or can |
| `RefinesExposure` | Execution | the executor implements the ledger of `Exposure` |
| `NoOvershoot` | Pipeline | a kept target is never passed, whichever orders fill |
| `CommittedWithinTargets` | Pipeline | booked and in flight stay within the targets asked for, however they move |
| `BooksMatchVenue` | Pipeline | every fill is booked exactly once, but for the one whose refusal ended the loop |
| `TakerFits` | Pipeline | a replacement asks for at most what was left |
| `FallbackFires` | Pipeline | every resting order is looked at after its deadline, once |
| `UnwindWithinFill` | LegGroups | an unwind sells back at most what was bought |
| `LegsAgree` | LegGroups | a held group knows what its orders filled |
| `WholeTradeKept` | LegGroups | a whole trade is not torn down |
| `GroupsClose` | LegGroups | no group stays incomplete for ever |
| `ReleasedByPeople` | Recovery | as many different people as the matrix names, since this outage began |
| `FlattenOutlasts` | Recovery | the milder of two states never wins |
| `RiskTypeOK` | RiskService | shapes; no equity lies above the peak |
| `NeverEnlarged` | RiskService | approved quantity is between nothing and what was asked, from any position |
| `PositionWithinCap` | RiskService | check 8's cap holds over sequences of orders and of equities |
| `DisabledByCount` | RiskService | disabled exactly at the limit of refusals |
| `OnlyReducesOnceEngaged` | RiskService | once stopped, only orders against a position get through |
| `TradesInformed` | Session | no order opens a position the process does not know it adds to |
| `OpensKnowingOrders` | Session | no order is placed while one works at the venue that the process does not hold as open, whatever the adapter reports |
| `DesyncDetected` | Session | a position that cannot be explained stops trading; false behind the Binance adapter |
| `NeverWrittenOffAlive` | VenueErrors | no lost request, failing server, unknown code or unknown word makes a working order one that is over |
| `FillsAreEarned` | Matching | a resting order has what traded beyond its queue, no lot twice; the position is the fills |
| `TokenOutlivesSilence` | UserStream | a token dies only after a keepalive failed; every execution is booked, on its way, or lost with a socket |
| `BookIsVenues` | MarketData | as of the update it counts, a level of the feed's book that the snapshot reached or that changed since is the venue's, any other the venue's or missing |
| `CatchesUp` | MarketData | a snapshot that reaches the message which asked for it closes the gap with it |
| `EngineAgrees` | MarketData | the strategies' copy is the feed's book whenever the feed is in sequence |
| `MemoryIsAsked` | Strategies | a position is remembered exactly as it was asked for, the legs of a dispersion and of a hedged carry are opposite, a pair is closed whole, stops are where it loses |
| `NeverAgainst` | Portfolio | the account is never on a side of an instrument that no strategy is on, unless its latest target there was refused |
| `EquityIsTrading` | Books | averaging and realising make no money; cash reconciles; a booking reaches the risk state |
| `AttributedWhole` | Books | the strategies' positions add up to the account's, and funding finds its owner |
| `LoadedByApproval` | Approvals | limits a chain let through were approved as they are, by two or for long enough; the ladder is in order |
| `ArchiveIsTheStream` | Capture | parts and buffer, read back, are what arrived, but for the buffers of a process that ended |
| `NothingForgotten` | AuditLog | every record is in the file or in the backlog; full is halted; the file verifies exactly if no write of the process failed |
| `PagedWhileAtRisk` | Alerts | a breach while a position is held is open at its own severity, whatever went out before; nothing twice; a flatten pages |
| `EveryTrialCounts` | Research | the deflated Sharpe's count is every run until then; a holdout is shown once |
| `SplitsDoNotLeak` | Research | folds test every sample once and train on exactly what purge and embargo leave |

`NoIllegalTransition` and `FilledAgrees` are parts of what `AccountsConsistent`
implies and, like `KillTypeOK`, are proved and not checked apart. `GateExplains`
and `QuietReads` of Session are what `TradesInformed` stands on: the first is proved
of an adapter that reports and a venue that is quiet while the gate reads, which is the second.

Three properties state what a line of the repository says and the code does not do:
`AbandonedIsDead`, `FlattenEnds`, `DesiresStand`. `TakerFits` holds in the paper wiring and not
at a live venue, and `DesyncDetected` not behind the adapter that has a user stream;
`TradesInformed` needs an adapter that reports positions and a venue that is quiet while the gate
reads (section 7).

---

## 4. The runs

| Run | Module | Shows | Bounds |
|---|---|---|---|
| `Desk` | Desk | all properties of Execution, Recovery, VenueErrors, Matching, UserStream, Books, Portfolio, Strategies, Approvals, MarketData, Capture, AuditLog, Alerts and Research | below |
| `Pipeline_steady` | Pipeline | simulated venue, one target, resting orders with takers: position, what is committed, and the liveness of fallbacks | 3 orders, 2 lots |
| `Pipeline_live` | Pipeline | the books at a live venue, with resting orders, cancels, takers and fills that end the loop | 3 orders, targets 0 and 2 |
| `Pipeline_stale` | Pipeline | **violation** of `TakerFits` at a live venue | 2 orders |
| `LegGroups` | MCLegGroups | a group of two legs, one at a live venue | 2 legs, 2 lots, cuts, skips and a timeout that is refused |
| `LegGroups_abandoned` | MCLegGroups | **violation** of `AbandonedIsDead` | 2 legs, 1 lot |
| `Risk` | MCRisk | the checks over sequences of orders, fills, losses and triggers | equities 7 and 10, orders to 2, 2 instruments, 2 strategies |
| `Session_gate` | MCSession | start, death, rebirth and the gate, with an adapter that reports | 2 orders of 1 lot, dead-man reachable |
| `Session_orders` | MCSession | the same for open orders, with an adapter that reports no positions, lost fills and overtaking answers | 2 orders of 2 lots |
| `Session_blind` | MCSession | **violation** of `DesyncDetected` behind the Binance adapter | 1 order, 2 lots |
| `Session_unflat` | MCSession | **violation** of `FlattenEnds` | 2 orders, one kept for the flatten |
| `Portfolio_wired` | MCPortfolio | **violation** of `DesiresStand` in the default wiring | 1 strategy, 1 instrument, 2 events |

Why the bounds are enough to be interesting:

* *Two lots* is the least quantity with a partial fill; *two orders* the least in
  which one is at work while the next is sized, and *three* the least with an
  order, its taker and the order of the next event.
* Two legs are the least with a naked one. One of them is at a live venue, so that
  an answer can overtake a fill during an unwind.
* The clock of the kill switch in `Desk` reaches 2, past the settle time of `order_rate` (1), so
  both sides of the comparison occur. `order_rate` is automatic, `drawdown_soft`
  needs one person, `drawdown_hard` two and demands a flatten.
* Of `Desk`, part by part. *Execution*: a reliable order beside one whose venue
  overtakes, loses and trades at once, two lots. *VenueErrors*: four requests, so
  that an order is placed, asked about twice and cancelled. *Matching*: an
  order of two lots, depth two, three market events: a queue is joined, traded
  through and filled in two parts, with latency 0 and 1. *UserStream*: validity 4,
  keepalive 2, six units of time, so that a failed keepalive, a reconnect and a
  second interval fit. *Books*: three entries of two strategies, over two prices and
  positions to two: opened, added to or reduced, turned over. *Portfolio*: two
  strategies on one instrument over two events, at each of which either may be silent, over
  every book of weights: a position is taken at the first and netted, refused or
  forgotten at the second; the property is of each instrument by itself, and trades of
  two legs are in `Portfolio_wired` and in the theorem.
  *Strategies*: four ticks, longer than the longest holding time (2), and prices
  on each side of a fade's entry, stop and target. *Approvals*: two people, three
  documents, two approvals, a delay of one day. *MarketData*: three updates of two
  levels of which a snapshot shows one, two messages under way, two connections: a gap, a late or early snapshot
  and a reconnect. *Capture*: two streams, three records, batch 3, minimum part 2,
  disk checked at every second record, two hours. *AuditLog*: five records, a backlog of
  three, two processes. *Alerts*: three targets (one of the events, one of
  reconciliation, one that never pages), three ticks. *Research*: two trials, samples of 4,
  5 and 7 in two or three folds with purge and embargo to 2.
* In `Risk` the two equities are 30 % apart: a fall passes the day's (15), the
  week's (20) and the soft (20) limit, and `b` can fill after equity fell, so
  that positions over their cap occur. `trend` may hold 20 % of equity (2 lots at
  10, 1 at 7), the flatten's share is 10 %; concentration (15) and gross (30) both
  refuse something. The hard limit (40) is not reached by the ladder; its trigger
  differs from the soft one in the matrix, which `Desk` covers.
* In `Session_gate` the heartbeat interval (2) is longer than the tolerance (0), so
  the dead-man's branch of a tick is explored. The venue is quiet between the
  gate's two reads (`Overtakes` empty) and the adapter reports; with `Reports` false, or `Overtakes`
  both orders, TLC refutes `TradesInformed` (section 7, items 10 and 11). `Session_orders` has both.
* `Pipeline_steady` has one target. Moving targets are in `Pipeline_live`, for the books; that what
  is committed stays within them is proved for takers (`TakersStayWithinTargets`).
* `Pipeline_live` reaches what ends a loop: an order rests, fills, its cancel is refused,
  the query counts the fill, and the late report finds a terminal machine.
* `Session_unflat` keeps an id for the flatten (`Reserve`), so the flatten does not
  fail for want of an id.

`CHECK_DEADLOCK FALSE` stands where a run may really stop: the ids, records or
requests of the model are used up, or the handler died of an illegal transition. `SYMMETRY` is used in
`Session_gate` and `Session_orders`; their properties do not depend on which id is which and none of
them is a liveness property.

---

## 5. Fairness

Fairness stands only for what the process or its environment keeps doing.

* `PipelineFairSpec`: market events keep coming and time passes, so an event
  after a deadline comes again and again (strong fairness of `BeginLate`, because
  fills in transit disable it from time to time); a handler that started goes on
  (weak fairness of `Replace`, `Cross`, `Trade`); the user stream is read (`Fill`).
  Nothing makes the venue trade.
* `GroupFairSpec`: the same for the steps of a group, the timeout (`Expire`), and the
  sweep at each event (strong, for the same reason).
* `SessionFairSpec`: the timer fires (`_tick_loop` sleeps and ticks for ever); every
  reconciliation interval elapses again and again (strong fairness of a `Tick` that
  reconciles, which other ticks may precede); handlers return; `Venue` moves at
  some time. The last is an assumption about the market that helps the system:
  `Session_unflat` fails in spite of it.

Nobody calls `resolve_unknown` for an order that timed out, so no fairness is
assumed of `ResolveUnknown`, and nothing that needs it is claimed. `Desk` and its
parts are checked for safety alone and state no fairness.

---

## 6. Proofs

TLAPS checks these for every value of the constants that satisfies the module's
named assumptions. An assumption says what a constant is (a set is finite, a
limit is a natural number), what the code makes of it, or which case a theorem is
about; the cases are named here. Every inductive invariant below was checked by TLC
on the runs' instances before it was proved.

### Sums and counts (`FiniteProofs`)

A balance, a position or what is in flight is a sum over all orders, strategies or
instruments (`SumFunctionOnSet`), and the installed provers have no induction over a
predicate. What replaces it is the smallest counterexample: among the finite subsets on
which a claim about one given function fails, there is one of least size
(`SmallestSubset`, from the library's theorem on the least natural number), and taking an element out of it
contradicts that. In this way: a sum is an integer, taking a member out takes its term out
(`SumTakeOut`), changing one term changes the sum by as much (`SumChange`), sums add
(`SumAdds`), and are monotonic in the terms (`SumMonotonic`). The same argument gives least and greatest
elements of a finite set (`LeastElement`, `Extremes`). `CountAppend`, `CountTail` and
`CountReplace` say how the number of places of a sequence that hold something changes.

### Execution (`ExecutionProofs`, assumption `ExecutionAssumption`)

* `TypeCorrect`: `Spec => []TypeOK`.
* `ReliableConsistent`: `Spec => []AccountsConsistent`. The three safety
  invariants are not inductive: that `in_flight` covers what can trade is lost
  by a query whose answer is not known to equal the machine's account. The
  strengthening `Consistent` says of one order that whatever can still trade
  belongs to an open machine with the same account, and that a machine between
  two handlers is never `INTENT` or `PENDING`. Since no handler touches two
  orders, each action is treated for one order at a time: a lemma about the
  operator (`OnFill`, `Resolved`, ...) first, then the action.
* `ReliableSafe`: `[]NoIllegalTransition`, `[]InFlightCovers`, `[]FilledAgrees`
  follow from it.
* `ReliableRefines`: `Spec => RefinesExposure`. Submitting opens room, a report
  books against it, a cancel or an answer withdraws it, and everything else is a
  stutter of the ledger.
* `CancelledStaysClosed` (`CancelledIsClosed`) and `WriteOffsAreAbsent`
  (`WrittenOffOnlyIfAbsent`), at every kind of venue, unreliable ones too: neither needs
  the accounts to agree, because both answers are read off the venue's record at the
  moment the handler has it.

### Pipeline (`PipelineProofs`, assumptions of `Execution`, `PipelineAssumption`)

`PipelineAssumption` says that ids are handed out in order, that no order is larger than
`Qty`, and that no report is lost. The theorems leave out a venue that trades inside
`place` (`Instant = {}`).

* `BooksFollowVenue` (`BooksMatchVenue`): answers may overtake fills, and everything may
  fail. A fill that a machine refuses ends the loop in the same step, and nothing is booked after
  that; so what the books miss is that fill and no other. `BooksInv` carries the types of the orders' records and that ids not yet used have none,
  without which a submission could replace an order that traded.
* `TakersStayWithinTargets` (`CommittedWithinTargets`, `Maker = FALSE`), however the target
  moves. `TakerInv` says that nothing rests, that each settled account agrees (`Agrees`), and that booked
  and in flight together lie between the least and the greatest target. The sum is what makes it hold:
  each handler changes the share of one order (`ShareChange`), a fill moves quantity from in flight to
  booked, and an order is cut to the difference before it is sent.
* `TakersReplaceOnce` (`TakerFits`), at venues whose answers do not overtake fills (`Overtakes = {}`),
  however the target moves and whatever the order of events and timeouts. `FitsInv` says of
  each order that what it executed is known to its machine or in transit (`Accounted`): a cancel
  that is answered when nothing is in transit then leaves the machine's fill, and so the
  quantity read before it, as they were. At a live venue it is false: `Pipeline_stale`.
* `SteadyNeverOvershoots` (`NoOvershoot`, `TakerFits`, `CommittedWithinTargets`) for one target,
  with makers and takers, at venues whose answers do not overtake fills (`Overtakes = {}`, paper
  and backtests with latency). `SteadyInv` adds that all orders point one way (`OneSided`)
  and, between the cancel and the taker, that the taker's quantity is at most what the
  replaced order left and fits (`TakerPending`). At a live venue it is false: `Pipeline_stale`.

* `PipelineExecutes`: `PipelineSpec => Spec`, for a strategy that only takes, at any venue, and for one that
  keeps its target where answers do not overtake fills. Each event, fill and move of the venue is one
  operation of the executor or none, so the theorems about single orders (`CancelledStaysClosed`,
  `ReliableRefines`, ...) hold of the pipeline's. What has to be shown is that no
  order is asked for that is larger than an order can be (`AsksFit`), which needs the invariants of
  `TakersStayWithinTargets` and `SteadyNeverOvershoots`.

Left out on purpose: `CommittedWithinTargets` for makers under a moving target. A fill that comes
between a cancel and its taker sends a taker sized for a target that has moved since.
The run that checks it, `Pipeline_steady`, has makers and one target; targets that move are in
`TakersStayWithinTargets` only.

### LegGroups (`LegGroupsProofs`, `GroupAssumption`)

* `GroupExecutes`: `GroupSpec => Spec`. A group drives the executor by its own operations only,
  so what is proved of single orders holds of a trade's.
* `GroupCorrect`, with the inductive invariant `GroupInv`: types, where the loop is in its
  handling (`HandlerSound`), and of each leg (`LegSound`) that an unwind is no larger than what
  the opening order filled, that a held leg's fills are the executor's, and, at a venue that
  answers in order, the executor's own `Consistent`. It gives
  `UnwindsOnlyClose` (`UnwindWithinFill`), `HeldLegsAgree` (`LegsAgree`) and
  `WholeTradesStand` (`WholeTradeKept`), for any number of legs. A leg of which the group knows nothing has an
  order only after `OpenRaises`, and then the loop is over.

### Session (`SessionProofs`, `SessionAssumption`, assumptions of `Execution`)

Three theorems, for any number of orders, deaths and restarts. `TradesInformed` is false behind an
adapter that reports nothing, and at a venue where an order trades between the gate's two reads; what
these share is a gate that lets a process in with a position it cannot explain. So the question is cut there.

* `TradesAreInformed`: `SessionSpec /\ GateExplains => TradesInformed`, for any adapter, any
  overtaking, and people who acknowledge, over a stream that loses no fill and a venue that does not
  trade inside `place`. Once in, the position stays explained: an order this process sent is in its
  books or on its way, and a handler that dies of an illegal transition trades no more.
  `KnownInv` is that the position is explained (`Explained`) while the session runs or is halted.
* `GateKnowsThePosition`: `SessionSpec /\ QuietReads => GateExplains`, where the adapter reports
  (`Reports`) and nobody overrules the gate (`~Attended`). `ReadInv` is that what the gate read of the
  positions is what the venue still holds when it compares. With people who acknowledge it is
  model-checked only (`Session_gate`).
* `OrdersAreKnown`: `SessionSpec => OpensKnowingOrders`, with no hypothesis at all: of orders, the gate's
  comparison is enough for the Binance adapter too, for a venue that trades while it reads and for
  a stream that loses fills. `OrdersInv` is that, once a comparison was clean (`Trusted`), every order at work at the
  venue is held as open. An acknowledged gate does not make it clean, and until a later cycle does the risk
  service refuses every order. Orders are read and compared in one step, and the venue starts
  no order by itself, so none can come to work behind the verdict.

All three stand on `BaseInv` (types, and which place of a handler belongs to which state of the
session, `InSession`). The position is a sum over all orders, of which each step changes one term (`Sums`,
`SumsChange`).

### Switch and risk (`DeskProofs`, `RiskProofs`; `TriggerAssumption`, `RecoveryAssumption`, `RiskAssumption`)

* `SwitchTypeCorrect`, `TwoPeople` (`ReleasedByPeople`) and `FlattenHolds`
  (`FlattenOutlasts`), for any set of triggers and any number of operators. The
  inductive invariant `RecoveryInv` joins `KillTypeOK` and `ApprovalsAreOfThisOutage`:
  what the switch holds as approvals is the history since the trigger was engaged.
* `RiskTypeCorrect`, `RiskOnlyReduces` (`NeverEnlarged`), `CapHolds`
  (`PositionWithinCap`), `CountDisables` (`DisabledByCount`), `KillOnlyReduces`
  (`OnlyReducesOnceEngaged`). The inductive invariant `RiskInv` joins types,
  cap, count and `OneAtATime` (of a serial instrument only one direction is on its
  way), without which two orders that each fit could trade to more than the cap.
  The cap moves with equity, and is measured at the peak, which only grows
  (`CapAt` is monotone). The cut fits because the room is what the position
  leaves.

### Books (`DeskProofs`, `BooksAssumption`)

`EquityConserved` (`EquityIsTrading`) and `PositionsHaveOwners` (`AttributedWhole`), for any
strategies, instruments, prices and positions. The inductive invariant `LedgerInv`: the
account is `Balanced` (cash, less what is borrowed, is the starting cash less what was paid, plus
what is held at its average, less costs, plus funding), the strategies' positions sum to the account's, everybody who holds something is
known, and the risk state has the equity it was last told. One fill changes the terms of one
instrument; that `Applied`, which averages, reduces, closes or turns over, changes
realised profit and cost by exactly the cash that moved is the lemma the rest stands on.

### The other parts of `Desk` (`DeskProofs`, `VenueProofs`)

| Theorem | States | Inductive invariant, and why it is needed |
|---|---|---|
| `LivingNeverWrittenOff` | `NeverWrittenOffAlive` | `VenueInv`: with where the order is; `OutcomeTruth` is the fact about the error tables: an answer of a venue that did not act is never taken for success, nor one of a venue that acted for a refusal |
| `WaitingEarns` | `FillsAreEarned` | `MatchingInv`: of each order, that what it got by waiting moved its place in the queue by as much and never beyond the volume traded (`Earned`), and that the position is a sum of fills |
| `TokensOutlive` | `TokenOutlivesSilence` | `ClockInv` (the token was extended at the last attempt or later) and `FillsInv`; for a keepalive interval below the token's life |
| `MemoryMatches` | `MemoryIsAsked` | `StrategyInv`: a case for each of the five strategies, with the shape of its memory; for every hedge ratio, so of a pair's legs no more than that they are closed together |
| `NoSideOfItsOwn` | `NeverAgainst` | `PortfolioInv`: also that no weight is negative (`Weighted`), without which a cut or a rounded book could turn a side over. Where no trade has both legs on one instrument (`~SharedLegs`; else see `Portfolio_wired`), each term of a netted target has the side of what its strategy wants, and a strategy that is silent adds no term |
| `LimitsAreApproved` | `LoadedByApproval` | `SignedInv`: no signature is dated after today |
| `BookFollowsVenue`, `CopiesAgree`, `SnapshotCloses` | `BookIsVenues`, `EngineAgrees`, `CatchesUp` | `MarketInv`: types, each message in flight carries the venue's levels of its span, no counting while a resync is due; for every `SnapshotLevels` |
| `ArchiveKeepsTheStream` | `ArchiveIsTheStream` | `CaptureInv`: records are stamped by a clock that does not go back, and of each stream a ledger (`StreamLedger`): every part, torn ones too, holds records of that stream older than those in the buffer, and lies in the hour of its first record; a directory has no gap below an index that is taken (`NoGaps`), without which the first free index could come before a part that is older; every record is lost, in the buffer, or in a part with its checksum. That a free index exists is the pigeonhole principle (`FreeIndex`) |
| `NothingIsForgotten` | `NothingForgotten` | `AuditInv`: of a first life, ids are sequence numbers and each line links to the one before |
| `BreachesPage` | `PagedWhileAtRisk` | is inductive |
| `RunsAreTrials` | `EveryTrialCounts` | `ResearchInv`: each run is a row, each look a line of the log |
| `FoldsDoNotLeak`, `SplitsStayApart` | `SplitsDoNotLeak` | arithmetic of the blocks' bounds, for any sample and number of folds |

### Only model-checked

* Liveness (`FallbackFires`, `GroupsClose`), out of the prover's reach, as is `ENABLED`:
  that the groups' and the pipeline's handlers do happen, hence every `~>`. The safety
  invariants and action properties of the passing runs are all stated by a theorem.
* The properties that TLC refutes (section 7) are, of course, not theorems: `TakerFits` at a
  live venue, `AbandonedIsDead`, `FlattenEnds`, `DesiresStand`, and `DesyncDetected` behind an adapter
  that reports no positions.

---

## 7. Where the code departs from its own words

The first five have a run in which TLC finds the behaviour. The others were met
while modelling: the model has the behaviour, and the property named states what
holds instead.

1. **The taker buys again** (`Pipeline_stale`). `pipeline.py:372` reads the remaining quantity
   before the cancel and uses it afterwards. The order fills while the cancel is on its way, the
   refused cancel resolves to a terminal machine, and the taker is sent. `pipeline.py:376-378`
   means to prevent it.
2. **An abandoned group leaves orders at work** (`LegGroups_abandoned`). `legs.py:156`: "Cancel
   what is left and walk away." `due_for_unwind` drops the group without a cancel.
3. **A flatten that is refused is not tried again** (`Session_unflat`). The risk service refuses
   the flatten's own order if the executor is not reconciled or a loss limit is reached, and a
   halted session does not flatten in a later tick. `session.py:459`: "One command that flattens
   everything".
4. **A hedge that is a naked leg** (`Portfolio_wired`). `wiring.py:172` gives the carry trade of
   a futures session one venue for both legs; netting keys by venue, symbol and strategy, so the
   second leg replaces the first. `funding_carry.py:219`: "the pair is delta-neutral";
   `wiring.py:168` expects the strategy to "decline every signal" on one venue.
5. **A lost fill that nobody finds** (`Session_blind`). `BinanceAdapter.positions()` returns
   nothing (`binance.py:531`), so flat books always agree with it. `binance.py:292`: "the
   independent REST reconciliation poll does".
6. **A fill counted twice** (`BooksMatchVenue`). `on_query_result` sets the filled quantity from
   the answer, `on_fill` adds the report of the same fill, and `FILLED` is asked for a
   transition. `fsm.py:54`: "Always a defect, never a market event." The error leaves
   `Pipeline.on_fill` before the books are told, and ends the loop: the books lack that fill and
   no other.
7. **Silence is netted as zero** (`NeverAgainst`). `net_targets` sees the signals of one event
   (`netting.py:75`), so a strategy that returns nothing while it holds a position, and another
   that speaks of the instrument, close that position. `base.py:63`: "an empty sequence for no
   opinion".
8. **A spread of two legs on one side** (`MemoryIsAsked`). `stat_arb.py:181` sizes the second
   leg by a regression slope that may be negative, or zero. `stat_arb.py:73`: "Trades the spread
   between two instruments, never either one alone"; `src/tests/test_stat_arb.py:103` asserts
   that the legs do not point the same way. What is promised of a pair is that both its legs are
   closed.
9. **The book is cut at a hundred levels** (`BookIsVenues`). `binance_live.py:313` asks for
   `snapshot_depth` levels after clearing the book; deeper ones are missing until touched, in
   sequence and unmarked. `src/SPEC.md:404`: "Full L2 order book".
10. **A restart that is told of no position** (`TradesInformed`). As in item 5, the gate
    is clean on top of whatever the process before it left. `session.py:10`: "this gate is the
    whole defence".
11. **A trade between the gate's reads** (`TradesInformed`). Positions are read before open
    orders (`session.py:368`); an order that trades in between is in neither answer.
    `session.py:139`: "A session that starts with an unexplained position is a session that will
    trade around it."
12. **A leg with no group** (`GroupsClose`). The group is opened after the leg was submitted
    (`pipeline.py:302`, `:312`), and may be refused with a `ValueError` (`legs.py:228`) that the
    market loop does not catch. `legs.py:11`: "A leg group that cannot complete is flattened".
    The leg it leaves is `OpenRaises`, and in no group.
13. **An outage breaks the audit chain for good** (`NothingForgotten`). `_emit` (`audit.py:126`)
    writes the new record before the backlog, so the file no longer verifies, which
    `audit.py:5-8` reads as tampering or a defect; and `recover` can never succeed, because only
    `_emit` drains and a halted log refuses records.
14. **One failed keepalive kills the stream** (`TokenOutlivesSilence`). The clock moves before
    the attempt (`runner.py:422`), the next one comes with the token's end; `binance.py:288`: "a
    single failed request is survivable".
15. **No chain in production** (`LoadedByApproval`). `config.load_limits` passes none;
    `limits.py:57`: "a production risk service always passes a chain".
16. **Failing reconciliations do not page** (`PagedWhileAtRisk`). The gauge is set by a cycle
    that completed (`session.py:399`); `metrics.py:214`: "pages on the second consecutive
    failure". The third does stop trading (`CycleFails`).
17. **The costless run is not counted** (`EveryTrialCounts`). It is registered under another
    name (`backtest.py:205`), the deflated Sharpe counts by name (`harness.py:300`);
    `backtest.py:199`: the count "has to include it". And the check counts before the sweeps
    after it have run.
18. **A cancel that is not found raises** (`NeverWrittenOffAlive`): an acknowledged machine has
    no transition for it (`executor.py:242`).
19. **Two equities** (`EquityIsTrading`): a mark moves the books and not the risk state
    (`pipeline.py:199`), until the next booking. `accounting.py:14`: "cannot disagree".

---

## 8. What is not modelled, and why

* **Real arithmetic**: the estimators of features, the weights the solver chooses,
  sizing, fee schedules, the statistics of research. The models take every
  outcome of a small set as an input.
* **Quality of events and staleness** (`quality.py`, the flags of an event): they hold
  an event back from trading, and everything in the models may be held back already.
* **The normaliser** of the archive, **replay** and **viability**: functions of
  files, offline.
* **Wording, logging, redaction, exposition of metrics, command line, scripted
  scenarios and chaos runs, cost analysis.**
* **Signing, HTTP and web-socket framing.** What a drop, a timeout or an error
  does to orders and fills is modelled; how bytes travel is not. The signer is a
  stateless filter of endpoint names.
* **Ids across restarts**: a new process starts the id sequence over; `Session`
  uses each id once.
* **Compositions left out**: the taker that replaces a leg's order (`Pipeline` with
  `LegGroups`), and the audit records an event leaves (`Pipeline` with `AuditLog`).

The component list of `PROJECT.json` states it part by part.

---

## 9. What could follow

Proofs: `CommittedWithinTargets` for makers, and with it `PipelineExecutes`, under an
assumption on how the target moves that the strategies justify.

Runs: an order whose fate is unknown and stays so, checks 9 to 13 of a cut order, a
position over its cap that cannot be reduced in small steps, a group that ends with a
naked leg.
