# Verification of QuantTradingV2

TLA+ models of the trading system in `src/`, TLC configurations that check them
on small instances, and proofs checked by TLAPS. Paths below are relative to
`src/`.

Contents: 1 the system; 2 the modules and how they correspond to the code;
3 the runs; 4 the proofs; 5 disagreements with docs and tests; 6 what is not modelled;
7 disagreements read in the code that no run shows; 8 the plan.

## 1. The system

QuantTradingV2 trades crypto assets by strategies that look at closed bars. One
code base serves backtests and live trading. Live trading is one Python process
per account and strategy set: a loop of *ticks* (`live_trading/engine.py`)
reconciles orders, claims newly closed bars, runs the strategies on them, sends
orders through a broker with a durable ledger, and exports its state. Durable
state is in several SQLite files; the venue (through ccxt) is the other half of
the truth and can lose, delay or contradict anything. A web dashboard runs
backtests as child processes.

| component | state | operations | hard behaviour |
|---|---|---|---|
| live order path: `core/live_broker/{safe,submission,reconciler}.py`, `core/trading/{orders,order_store}.py`, `core/risk/persistent_guard.py`, `resolve_live_order.py` | `orders.db`: orders, fills, operator resolutions; `safety.db`: daily risk | submit_intent, cancel_order, reconcile_order, recover_open_orders, record_local_rejection, resolve_as_unsubmitted | a crash between any two writes or calls; requests lost or late; old snapshots; several transactions for one event |
| closed-bar claims: `core/trading/state_store_v2.py`, part of `live_trading/tick_orchestrator.py` | table processed_bars | claim_bar, complete_bar, release_bar | leases, read-then-write, batches that fail half way |
| request budget: `core/market/request_budget.py` | one row per venue, shared by processes | wait | contention, clock set back, starvation of critical requests |
| dashboard jobs: `dashboard/backtest_jobs.py`, `dashboard/experiment_store.py` | manager in memory (slot, process, jobs), experiments table, completion marker | submit, cancel, close, worker, log reader, restart | threads, kill against start, failing saves |
| risk reservations: `core/risk/reservation.py`, `core/risk/drawdown_budget.py` | in memory: what is left of each order's reservation | reserve, consume on a fill, release on a final status, restore | events in any order or lost; admission reads positions, lots and reservations of different ages |
| fill projection: `core/live_broker/fill_projection.py`, parts of `core/trading/order_store.py` | checkpoint, cursors, close events on disk; books in memory, shared with the portfolio | update, load, save | four reads while fills change; a save that raises; another process |
| lots and portfolio: `core/trading/{lots,portfolio}.py` | lots, positions, cash | apply fill | consumption order, late fills |
| account synchronisation: `core/live_broker/account_sync.py`, `core/trading/account_*.py` | last verified account facts | sync, reconcile, gate | facts that are stale when used |
| portfolio risk actions: `live_trading/risk_actions.py`, _submit_risk_exit | checkpoint and active index, two keys of the state store | begin, freeze, supersede, exit, complete, clear | crash between the two writes; a stronger action replaces one under way; exits tried again |
| protective stops: `core/trading/protective_*.py`, `live_trading/protection_schedule.py`, part of the tick | levels in memory, resident stop orders at the venue | place, replace, cancel, flatten | a moment without protection, two stops at once, a ratchet lost in a crash |
| circuit breaker: `core/risk/circuit_breaker.py`, part of the tick | breaker in memory, its checkpoint, the day's baseline | check, save, restore, change of day, manual resume | changes that are lost before they are saved; clocks |
| event store: `core/events/store.py` | append-only events | append, replay | duplicates, order |
| tick, engine: `live_trading/{engine,tick_orchestrator}.py` | health, gates, caches | one tick | early exits and their order |
| supervision: `ops/supervisor.py`, `ops/gray_release.py` | restart counters, stages | restart, promote | backoff, gates |
| alerting: `core/foundation/alerting.py` | delivery queue | emit, deliver | retries and deduplication |
| simulated broker, backtest: `core/broker/`, `backtest/` | pending orders, positions | match a bar | stops and limits within one bar |
| strategies: `strategies/{base,trend_breakout,mean_reversion}.py` | cursor and queues of close events, lots of running positions, context and exit latch; rows strategy_close_cursor and strategy_runtime | consume closes, propose, submit and track exits, allocate | one symbol's batch moves a cursor of all; rollbacks; two rows that are restored one over the other |
| strategy health: `core/analytics/strategy_health.py` | machine in memory, row strategy_health:<name> | ingest_close, evaluate, load, operator lock and resume | halts that must outlive crashes, evidence that must count once |
| state and routing: `router/` | regime | update | hysteresis |
| market data, exchange boundary, planning, factors, metrics, research, configuration | caches, tables | read, compute | numerical or pure I/O |

How they interact. A tick calls the order path synchronously; the order path
asks the guard (in its own database) and the reservations (a projection of
events in memory) before it writes its ledger and calls the venue; fills found
by reconciliation are written to the ledger, projected into lots and published
as events, which the reservations consume. The breaker is checked and saved
before an action is planned; the action cancels, freezes and sells through the
order path, and stops are seen to after it, with the same orders and lots. REST calls wait on the request budget,
which processes on the same host share. The bar claims decide which bars a tick
may evaluate, and look at the order ledger (an UNKNOWN order stops new risk).
Close events of the projection are consumed by the strategies when their bar is
evaluated; what a completed position earned goes to the health of its strategy,
which is asked before an entry is proposed and again when it is sized.
The dashboard is separate from live trading; it shares files with its child
processes only.

What makes each part correct, in a sentence: an order goes out at most once and
is settled in the end (order path); a bar is processed once and none is
forgotten (claims); requests are spaced and a critical one gets through
(budget); one child at a time, and a cancel counts (jobs); what may still be
bought is reserved and the budget is kept (reservations); books and closes are
those of the venue's trades in order, over any process and crash (projection);
an action that was begun is finished or superseded, sells what it froze and no
more (risk actions); a position is covered again and again and never sold twice
(protection); a halt outlives every restart, and no two changes act under one id
(breaker); every close is counted once and in the end (strategies); a halt on
record is served, and risk comes back step by step (health).

`PROJECT.json` lists all components with their status and the hazards, each at
the line where it bites.

## 2. Modules

`OrderLifecycle` - statuses, the transition table `_ALLOWED` and the parser of
`core/exchange/parsers.py` as a function of raw status, filled and requested
quantity.

`LiveOrders` - opening orders, from SafeLiveBroker down to the venue. The broker
is one sequential process; `pc` is the point it has reached between two durable
writes or network calls, so `Crash` may fall anywhere between them. The
correspondence of its state:

| model | code |
|---|---|
| `ledger`, `row` | the orders table; `attempted` is submission_attempted, `absent` the CONFIRMED_ABSENT label with its evidence, `expired` says that updated_at is submitting_ttl old |
| `fills` | the fills table: quantity in trades and in synthetic fills made from an average price |
| `resolution` | operator_order_resolutions, with who confirmed |
| `dailyUsed` | daily_risk of `PersistentOrderSafetyGuard`, in orders' worth |
| `venue`, `inFlight`, `sent` | the venue's own fact, requests under way, calls made |
| `op`, `cur`, `pay`, `todo`, `raised` | locals of the call in progress: what was called, the order, the payload in hand, what recovery still visits, an exception that left the broker |

Actions carry the names of the code where there is one: `Reserve`/`Block` are
the two outcomes of SafeLiveBroker.submit_intent, `Resume`, `CreateIntent`,
`CheckBlocks`, `mark_submission_attempted`, `Send` and the three
`CreateOrder...` are submit_intent in order, `RejectLocally` is the second
write of record_local_rejection (the first is in `Block` and `PrepareFails`;
`CheckBlocks` needs none), the `Fetch...` actions are the outcomes of
_fetch_exchange_order, the `Store...` actions are _persist_exchange_payload one
transaction at a time, `Cancel...` is cancel_order with the reconciliation it
makes first, `Recover...` is the loop of recover_open_orders. A transition
`_ALLOWED` forbids raises, as in the code, and abandons the whole call (`Raise`).
`Faults` names what the environment may do; the constant is read by guards and
nothing else.

`OrderPromise` - what the order path promises for each client order id, without
the way it does: five phases, one request, executed quantity that only grows. `LiveOrders!Promise`
instantiates it with a refinement mapping read off the ledger.

`BarClaims` - claim_bar, complete_bar, release_bar and the part of a tick that
uses them. A SQL statement is atomic; claim_bar is a SELECT and then an INSERT or
UPDATE in a transaction of its own, so two actions. Bars close one after the other
(`BarCloses`) and a tick visits the newest of each symbol alone
(tick_orchestrator.py:337), so a bar that was left behind is not offered again once the next
has closed. Ages replace time stamps: `age` is the time since
processed_at of a claim, `lag` the time since the tick read its clock, and claims are
stamped with the lagging clock as in the code. `LateFailures` allows the look at
the order ledger (tick_orchestrator.py:375) to raise after the key joined the
batch at 371: then the bar is released, stays in the batch and is completed
without a row. Runtime controls, off by default, are not in it: with their
catch-up older bars are replayed for state alone, and no order comes of them.

`RequestBudget` - `wait` as a loop of BEGIN IMMEDIATE transactions and sleeps.
The row holds times of a wall clock; the model holds the clock's distance from
each, so it needs no end of time. `elapsed` and `ordinary` are history
variables: real time since the last grant, and the ordinary cost granted in the
window. Fractions are kept as ReserveNum / ReserveDen.

`BacktestJobs` - a step is what a thread does while it has the manager's lock or
between two such sections. Worker states follow _run: start, wait, judge,
finish, ended, and beside them the ways out: abort (the save after the start of
the child raised), lost (the log reader could not be started), leave and done
(a job that never had a reader), dead (a thread that died with the slot taken).
`End` is the end of the service, with or without the marker of a finishing job;
`Start` is the next service with interrupt_active.

`OwnedLots` - pure operators: LotBook.apply_fill (`OpenLots`, `CloseLots`),
and `_apply_fill` of the projection on top of it (`Applied`), which also says
which fills are an issue and which symbols become invalid. Beside them a
reference definition that knows nothing of lots: `Bought` lists the units of a
symbol in the order they were bought, and `UnitsClosed` and `UnitsOpen` read off
that list what a sale closes and what is left. Longs only: the short half of
the code is the mirror image.

`FillProjection` - IncrementalFillProjection.update with each SQL statement a
step, for any number of processes on one database.

| model | code |
|---|---|
| `ledger`, `rowFilled` | fills by rowid; orders.filled_qty |
| `lastChange`, `changeSeq` | projection_order_changes, written by triggers |
| `saved`, `closes` | fill_projection_state; projected_close_events |
| `mem`, `got`, `delta` | the object's checkpoint, its event_cursor, the answer of projection_delta as far as it has been read |
| `held`, `alias` | how many fills are in the books the portfolio has, and whether these are the very books an update works on |

The statements of projection_delta are `ReadFills`, `ReadChanges`, `ReadRows`
and `ReadSums`; `Save` is save_projection, `SaveRaises` its failures with and
without the commit, `LoadCheckpoint` and `LoadEvents` are _load. `Drill` is a
process that opens the ledger, projects it and ends (the offline recovery
drill).

`FillFlow` - what becomes of the risk of an order, from the approval by the
budget guard over reservation, venue, ledger, projection and lots to the exit,
tick by tick. It composes `OwnedLots` and `OrderLifecycle` with coarser
versions of the handlers `LiveOrders` has in full (one read instead of three
lookups, no daily budget, no operator) and with what those leave out: exits,
FillEvents, OrderEvents, the account sync. `mode` is the phase of the tick, `pc`
the point an operation of the broker has reached; `Approve`, `Send`, `Answer`,
`AddFill`, `PublishFill`, `FinishPersist` and `SyncAfter` are submit_intent and
_persist_exchange_payload in order, `StartTick`, `CheckAccount` and
`StartBatch` the gates of the tick. Risk is counted in units bought.

`RiskActions` - _reconcile_portfolio_risk_action with each durable write and
each call to the venue a step, and _submit_risk_exit. `index` and `checkpoint` are the
keys portfolio_risk_action_active and portfolio_risk_action:<id>; `tick` holds
what the local variables plan, symbol, done and performed hold. The loop
_cancel_risk_orders is one pc for each of its four uses (openings, the
superseded action's remainder, competing exits, trimmed stops). An order is on
record as an "intent" before it is marked as being sent. `Recover` ends an intent whose
time has passed and reads the others; one the venue does not have becomes or stays UNKNOWN
(reconciler.py:167-194) until an operator confirms that it was not submitted
(`Confirm`). The other way out, a proof of absence after its time, is in `LiveOrders`.
`BreakerMoves`
is what plan_risk_action may ask for next: `transition` is the action of the
breaker's ladder, and a daily halt (`DailyHalts`) has an id of its own and goes
before it, so that the transition is there again when the halt is over.

`ProtectiveStops` - ProtectiveOrderManager.evaluate as the function `Evaluate` of
position, wanted level and known stops, restore_confirmed_stop (`Restored`), and the
way the tick carries intents out: `ApplyCancel`, `Resync`, `Place`, `Send`,
`Answer`, `StartFlatten` with the exit behind it. Intents, UNKNOWN orders and
`Confirm` are as in `RiskActions`. What the venue holds and the lots do not account for
is an external position, which the tick sells (`StartExternal`) before it looks at
protection again (`Review`); a stop's fill that is read after an entry's is older than the
lots and leaves them as they are (`late`). The wanted level is any level at any time. An order has quantity, level and the position it was made for;
`manager` is what the manager remembers, lost in a crash.

`CircuitBreaker` - check_circuit_breaker as the function `Checked`, from its parts
in the code's order (`Marked`, `Cooled`, `OnProbation`, `Escalated`,
`DailyChecked`), and the tick around it: `NewDay`, `Baseline`, `Check`, `Save`, `Act`.
`breaker` is in memory and `stored` on disk; `move` and `since` number a change
and date a block, which the code does not keep: `acted` and `halts` are made of
them and are history variables, read by properties and by nothing else.

`StrategyCloses` - Strategy._consume_execution_trades and what hangs on it.

| model | code |
|---|---|
| `lots`, `closed`, `stream` | lots of a position by who opened them, how many are closed, portfolio.close_events |
| `memory` | cursor, queues and totals (_pending_close_events, _position_close_accumulator), _completed_position_ids, context, results |
| `checkpoint`, `runtime`, `health` | the rows strategy_close_cursor, strategy_runtime and strategy_health |
| `previous` | the local that a failed write restores when there is no row yet |
| `told` | history: the calls of on_trade_closed |

`Deliver` and `WriteCheckpoint` are the two halves of a consumption, with
`DeliverRaises` and `WriteRaises` for their failures; a write of the checkpoint fails
before or after its commit, here and at the latch; `NoLatch`, `Reconcile`, `SubmitExit`, `Track` are the exit latch,
`Propose` and `Allocate` the entry, `FinishTick` writes the runtime row, `Crash`
restores the rows as _ensure_state_store does. `KeepsHealth` tells a strategy with
a health machine (TrendBreakout) from one that keeps its losing streak in
trade_state (RangeMeanReversion). Positions change between ticks only, because the projection is
rebuilt at the sync a tick begins with (account_sync.py:119, 180).

`StrategyHealth` - StrategyHealthMachine with its row: `Evaluate` is evaluate with
its three cases, `load` the restore with its migration of old rows, `Persist` the
write that may fail, `ingest_close`, `check_health` and `Allocate` the callers. A
cohort is a day's closes by one controller, the strategy or the router. Times are
days since or until. `fresh` is what may still be judged, `base` what of the baseline
may still get a close, and one unit of profit or loss stands for R, of which the code
reads the sign. `judged`, `rest`, `owed` and `locked` are history: read by
properties and by nothing else.

`MC...` modules define the constants of instances; `..._proofs` hold the proofs.
`FaultBound`, `StrategyParameters` and the `...State` modules declare what components
share: constants with their assumptions, and for `BarClaims`, `BacktestJobs`,
`CircuitBreaker` and `StrategyCloses` also the variables and the safety properties,
apart from the steps. So one proof module can extend the states of several components
and prove their properties of the specification of each: `SharedRows_proofs` extends
`RequestBudget` and has `Claims`, `Service` and `Circuit` as instances of `BarClaims`,
`BacktestJobs` and `CircuitBreaker`; `StrategyHealth_proofs` extends `StrategyHealth`
and has `Memory`, an instance of `StrategyCloses`. What is bought and sold is counted in units, so
that a total over orders is the size of a set (`Units`).
Definitions named `X_Something`, before `X`, are plausible wrong versions of
`X`: each property is also run against one of them and found violated.

## 3. Runs

A run asks the questions of one component, safety and liveness together. TypeOK is
checked in the run of `FillFlow`; nearly every type invariant is a theorem (section 4), and
the other runs leave it out, as they do with other properties that
are theorems and say little that the run's others do not: `TtlExpiredNeverSent`,
`FrozenOnce`, `SummaryAgrees`. `FilledNeverShrinks` is one of the steps
`KeepsPromise` forbids.

**one_order** (`LiveOrders_one.cfg`, 54 180 states). One order of two lots, one
crash; stale snapshots, bare statuses, wrong identities, late fills, proofs of
absence, an operator who misreads the venue; trades in one answer and an average
price in the next. It shows that
- `AtMostOneSubmission`: create_order is called at most once for a client order id;
- `LedgerSound`: the row's filled quantity has fill records behind it at every
  crash point, and neither row nor trades show more than the venue executed;
- `EverySubmissionReserved`: the orders that went out are no more than the shares
  taken of the daily budget and the crashes that came between the two writes of a local
  rejection (`crashes.torn`). Such a crash can come in every run; what it does to the
  documented rule is in section 5;
- `EventuallySettled` (liveness): an order that ended at the venue is settled in
  the ledger, and an intent that a crash left unsent does not hold its symbol
  for ever. The exception it names is in section 7. Late rejections are left out:
  with them it fails (section 7).

**two_orders** (`LiveOrders_two.cfg`, 899 622 states with symmetry). Two orders of
one symbol, two lots each, two crashes, those that tear a rejection included, late
rejections.
`OneWorkingOpening`: at most one opening order of a symbol is on its way to or
working at the venue, although the check reads a ledger that trails the venue.
`KeepsPromise`: both orders implement `OrderPromise`. The properties above speak
of states; the promise forbids steps: an intent that was withdrawn never becomes
an attempt, and a settled order is open again only in a step that also shows more
of it executed, whichever call takes that step. The mapping reads executed
quantity from the row, `asked` from the calls made. Left out are an operator who
confirms as unsubmitted what was sent and proofs of absence: the code
trusts both, and frees the symbol for another order by them. With
`Details = {"trades"}` there are no synthetic fills; with them a settled
order is reopened by an old snapshot (section 7).

**two_engines_live** (`BarClaims_live.cfg`, 55 597 states). Two engines with one
database, a symbol of which two bars close, two faults, an order ledger that may be
unreadable at the worst place (`LateFailures`), a lease as long as a tick may lag.
`EventuallyProcessed`: a bar is processed unless the next one closes first, whatever
claims crashes, an IntegrityError or a failed batch leave behind, or else an order of the
account stays UNKNOWN for ever. With two symbols and two closes the graph is past what the run
may take; what a batch of several bars does to a row is proved (`OneEngineFindsItsRows`).

**budget** (`RequestBudget.cfg`, 56 085 states). A critical client of cost 2, an
ordinary one of cost 1 and one whose cost is more than a window has room for.
Window of 6 units, reserve 1/3, a clock set back by one. `Spaced`: a request
follows the one before it by its cost times the interval of real time.
`ReserveKept`: ordinary requests do not use the reserve (stated for clients with
one interval: a stricter interval that arrives in the middle of a window makes
the capacity smaller than what was already granted). `CriticalServed`: the
critical client is served although leases, others' requests and locked
databases keep it waiting; it rests on the others running out of room before
the window does.

**jobs** (`BacktestJobs_service.cfg`, 197 116 states). Two jobs, a restart,
failing saves, markers, spawns and threads. `ChildrenHeld`: one child at a time,
and none of a cancelled job or after a close. `CancelledNeverSucceeds`: an
accepted cancel is never shown, saved or published as success, even if the child
had ended well. `EndedForGood`: the record of an ended job is never written over
by the reader, a late cancel, a close or a restart. `SlotFreed` (liveness): the
slot is freed, unless a thread could not be started. Deadlock is off in this run:
after close and the last restart the service may stop for good.

**projection** (`FillProjection.cfg`, 978 821 states). Two orders that buy and one
sale that closes the first lot and part of the second; the fills arrive in any
order; one engine with one crash, saves that fail before or after they commit,
and a drill process that projects in between. `ValidSymbolsReplay`: in a symbol
not marked invalid, books and close events are those of the reference
definition over all its trades in the venue's order. `CaughtUpIssuesExact`: once
the cursors have caught up, the orders reported are exactly those whose trades do
not account for their row; it depends on the cursor of changes being read
before the rows. `NoCloseMissing`: a portfolio that lost lots to a close has been
given the close.

**fill_flow** (`FillFlow.cfg`, 2 445 046 states). Entries of two and one units in
two symbols under a budget of two, an exit of one unit, one fault: a crash, a
failed sync or a failed save of the projection. `BudgetKeptWithTrades`: what is
held plus what working orders may still buy is within the budget, as long as no
fill had to be inferred from an average price; without that condition it fails
(section 7). `RiskCovered`: when nothing blocks new risk, every unit that may still
be bought or was bought unrecorded is reserved. `FinishedHoldsNothing`: a
finished order keeps no reservation.

**risk_actions** (`RiskActions.cfg`, 298 094 states). One symbol, an entry of two
units, a reduction and a liquidation that may be a daily halt, two exits of each, a
stop, one fault (crash, lost request or answer, refused cancellation, failed sync, an
order the venue ends). `NothingOpensWhileFrozen`: from the moment an action has
targets until it is over - a liquidation too, and a reduction that is being
superseded - no opening order works, and none has fills that are not on record.
`ReductionBounded`: the exits of a reduction together sell no more than it froze above
the target, over crashes and retries. `NoneOrphaned`: a reduction with targets is never
left behind by what takes its place; with two liquidations it is (section 5).
`ReductionsFinish` (liveness): a reduction, or anything
being prepared, is finished or superseded, wherever a crash cut it off and
although the breaker may have stopped asking - unless an order that was marked as being sent and
never arrived waits for an operator for ever: nothing else ends it, and the
exit is neither counted nor repeated until then.

**protective_stops** (`ProtectiveStops.cfg`, 274 144 states). Two entries of one
unit, so that a position is added to or opened anew; two levels, four stops,
four market exits, one fault. `NeverOversold`: stops and exits at the
venue together never ask for more than is held. `NeverLoosened`: no stop is sent
with a level below a confirmed one of the same position; with two faults it
fails (section 7), and what it needs is a theorem's hypothesis (section 4). `ProtectedAgain` (liveness): again and again the position is
flat or one stop covers all of it, with the same exception: while an order that was lost on
the way is UNKNOWN, neither a stop nor an exit is placed beside it.

**circuit_breaker** (`CircuitBreaker.cfg`, 2 890 000 states). An account of 64,
78, 88 or 100, one value for each action, free to move from tick to tick; two days of two
ticks, a cooldown of two, four changes, one operator resume, one fault (crash,
failed write, clock set back). `HaltsHold`: a halt that was acted upon outlives
everything but an operator (two faults break its daily half, section 7). `CooldownServed`: a block lasts its cooldown.
`OneChangePerId`: two changes never plan under one id, though a change made in
memory may be lost before it is saved. Deadlock is off: time is bounded.

**closes** (`StrategyCloses.cfg`, 349 048 states). Two symbols of one strategy: one
with a position of two lots, own and foreign, and an exit, a small one whose closes
come in between; one fault (a crash, a write of the checkpoint that fails before or
after the commit, a failed write of the health, an entry without an answer).
`NoCloseSkipped`: what the cursor has passed waits in a queue, is in a total or
belongs to a completed position, in memory and in the checkpoint. `CountedOnce`:
a result enters the health once, however often its delivery is rolled back, and what
counts as delivered has been counted. `ToldInFull`: a completion is told when all
lots are closed and with all of the strategy's. `EveryResultCounted` and
`LatchesReleased` (liveness): again and again every result due is counted and no
exit is latched. Deadlock is off: orders and lots are bounded.

**health** (`StrategyHealth.cfg`, 318 038 states). Two symbols, closes by strategy and
router, three recovery levels of two days each, a losing streak of two, rows of the older schema, one
fault (a crash, a failed write, a lock by the operator). `HaltServed`: a cooldown or lock on
disk is served, also by a symbol that asked before another one's losses. `EvidenceCountsOnce`: what
was part of a verdict is no evidence of the next epoch. `RecoveryTakesTime`: no
stage is reached before the days of those below it. `NeverOffForGood`
(liveness): a strategy that is evaluated may open positions again and again, unless
an operator locked it.

**Bounds.** Orders of two lots have every kind of fill: none, part, all. Two
orders are enough for every relation between an order and *another one*: the
properties speak of pairs, and OneWorkingOpening of pairs of one symbol; symmetry is
sound since the two orders are interchangeable and that run checks safety
properties only. One or two crashes: after a crash nothing of the process is left but the
durable state, and a further crash starts from a state of the same kind; two of
them cover a crash in the recovery from a crash. Two engines cover a race between
a SELECT and one other writer; ages are cut where no reading differs (`MaxAge`),
like time spans in the budget (`Horizon`, which an assumption puts beyond all
intervals). In the projection three fills are enough for one to arrive before,
between and after the two it must be ordered with, and the sale spans two lots. In
`FillFlow` two symbols are needed for risk that one order frees and another takes;
a budget of two cannot hold all three units, so the guard must refuse. A
reduction of two or three units keeps one, so that a second exit of the same size would
be seen; the liquidation is the only action that supersedes, and a third action is
what `RiskActions_chain.cfg` adds (section 5). In `StrategyCloses` two
lots are the least that one fill may close together and the least of which one
may be foreign; the second symbol is what a batch of the first may lose. Two
cohorts are what a streak, a verdict and "without the best" need in
`StrategyHealth`. Two levels are
enough to loosen a stop, four stops to replace one after each entry and after a
fault. `MaxFaults`, `MaxRestarts`, `MaxBack`, `MaxTime`, `MaxMoves`,
`MaxResumes`, `MaxStops`, `MaxExits` count what could go on for ever and appear in guards
only. One fault in the newer runs means one crash *or* one lost answer
at any place, not both; two of them were tried where the state space allowed it, and
what came of it is in section 7. Properties that are also theorems (section 4) do
not depend on any of these.

**Fairness.** Stated in `FairSpec` of each module.
- LiveOrders: a call in progress goes on (weak; it is a sequential program). Recovery is
  started again and again (strong), since each tick begins by it
  (tick_orchestrator.py:190) and so does each start. Time passes for a row
  that nobody writes (strong on `TtlElapses`). A lookup asked again and again is
  answered some day with the venue's present fact (strong on `LookupAnswered`):
  without it a venue that answers nothing keeps any program from knowing. Not
  assumed: that requests arrive, that orders end, that the process stays up.
- BarClaims: time passes and ticks go on (weak). Nothing is assumed of the closes, which
  may come before the lease is over, nor that an UNKNOWN order is ever resolved: the
  property excepts both.
- RequestBudget: time passes, each attempt is made, and a client that can be
  granted infinitely often does not find the database locked each time (strong).
- BacktestJobs: threads run. That covers a wait for the child, which a timeout
  ends in any case (backtest_jobs.py:501); no child is assumed to end.
- RiskActions, ProtectiveStops: a tick goes on and the next one begins (weak);
  one with a reconciliation run begins infinitely often (strong), since a run
  is due after an interval and whenever an order is UNKNOWN, and the time of an order
  that was not sent passes (strong on `Recover` of all of them, since it ends in a run
  after its time). Nothing makes an operator act on an UNKNOWN one. A market order at the venue
  sells while there is something to sell (weak). A stop may never trigger, and an entry
  never come.
- StrategyCloses: a tick goes on (weak), one with the bars of all symbols begins
  again and again (strong: bars close together, and a released bar is claimed
  again), and an exit ends at the venue (strong). No entry need end.
- StrategyHealth: days go by and a flat symbol is evaluated (weak).
- FillProjection, FillFlow, CircuitBreaker: safety only, no fairness.

## 4. Proofs

All theorems hold for every value of the constants that satisfies the named
assumptions of the modules (finite sets of orders, symbols and actions, quantities
that are natural numbers, and the like), and of every finite number of crashes and
faults: the bounds of section 3 are parameters. TLAPS checks each leaf with SMT, Zenon or LS4.

`LiveOrders_proofs`
- `TypeCorrect`: `Spec => []TypeOK`, with `CurOK` (a call in progress has an
  order) as the strengthening, one step per action.
- `NeverSentTwice`: `Spec => []AtMostOneSubmission`, and `ExpiredIntentNeverSent`:
  `Spec => []TtlExpiredNeverSent`. Neither is inductive: that a sent order is
  not sent again depends on what the ledger says of it. `SubmissionInv` is the
  inductive form. Its parts: an order without the attempt on record was not sent;
  the call that may send works on a SUBMITTING row, has not sent it yet, and has
  the attempt on record when it is about to; rows outside the ledger are as new;
  an order with a resolution is on the ledger and is no longer SUBMITTING, so
  it cannot be resumed; what the pre-submit TTL wrote off was not sent. Most actions
  leave all that alone; `QuietStep` says so
  once, so that the step of such an action only shows that it is `Quiet`.
- `FillsAreNeverTakenBack`: `Spec => FilledNeverShrinks`, from `ControlInv`, which says
  what the row of a call looks like at each point of it.
- `LedgerNeverAhead`: what ledger, trades and the payload in hand show, the venue did
  (`FactsInv`). `LedgerIsSound`: `Priced /\ Spec => []LedgerSound`. `Priced` says that
  an answer with a fill has trades or an average price; without either the row is
  written with nothing behind it, which is why the property needs the condition and
  the run is of such a venue.
- `SubmissionsAreReserved`: `Spec => []EverySubmissionReserved`. `ReserveInv` counts: the
  orders that are spoken for - attempted, about to be, or resumable - are no more than the
  budget taken and the rejections torn. The set grows in two steps only: the one that
  reserves, and a crash between the two writes of a local rejection.
- `OpeningsWorkAlone`: `OneWorkingOpening` when `EvidenceIsSound` - no lookup proves an
  absence wrongly, no operator writes off what works. `SettledInv`: what works at the
  venue has no settled row, though the ledger may trail in all else; so the look before
  the mark sees it. Of a payload in hand `PayloadInv` says that it settles a row only if
  the venue is through with the order.
- `OrderPathKeepsPromise`: the refinement, `NoReopening /\ Spec => KeepsPromise`, for
  any orders, quantities, crashes and late rejections. Each action maps to a step of
  `OrderPromise` or to a stutter, from `PromiseInv`. `NoReopening` is needed: with fills by average price
  *and* stale or incomplete snapshots a settled order is opened again (section 7).

`SharedRows_proofs`, claims of bars - `ClaimsTyped`: the state is well typed, for any
number of engines. `OneEngineProcessedForever`: with one engine, any bars, lease and faults
(LateFailures included), a processed bar stays processed. claim_bar updates by
key alone; what protects the row is `Held`: between the SELECT and the UPDATE the
row still is a running claim. With two engines `Held` fails (section 5). `OneEngineFindsItsRows`: with one engine and a readable order
ledger, a bar that a tick gave back is not in a batch it then completes, although
a release leaves the key in the batch when an order is UNKNOWN: the completion
then sees the UNKNOWN order too and releases.

`SharedRows_proofs`, budget - `TypeCorrect`. `RequestsAreSpaced`: `Spec => Spaced`. The
invariant `Trailing`: the row never shows more time since the last request than
has really gone by, since a clock set back only makes it show less and a new
window cuts last_start to now at the latest. It holds for different costs and
intervals, which the run has not got. `ReserveIsKept`: with one interval for all,
ordinary requests leave the reserve alone, for any costs, clients and clocks: what
they were granted is part of `used`, and each grant was admitted against the same
capacity.

`SharedRows_proofs`, jobs - `ChildrenAreHeld`: a service that is not killed keeps
`ChildrenHeld`, for any number of jobs and restarts. `SlotHeld`: a worker at work
has the slot. `ChildHeld`: a running child belongs to a worker at work, is the
process that cancel would kill, and nobody has asked for its end. The assumption
`"crash" \notin Faults` is needed: the child of a killed service goes on, and the
next service does not know it. `HistoryTyped`, `CancelIsKept` and `EndedStaysEnded`
(`EndedForGood`) need no assumption. `RowsInv` ties memory, record and marker
together: while a job can be cancelled its record is open and nothing is published
(`OpenRows`), a record that has ended is what the service shows (`EndedRows`), and an
accepted cancel leaves "succeeded" nowhere (`CancelsKept`); `SlotHeld` keeps a second
thread from the rows.

`SharedRows_proofs`, breaker - `BreakerTyped`: the breaker is well typed *and* every
checkpoint it saves is one that a restart accepts (`Restorable`: a probation goes
with REDUCE and nothing else). `SummaryNeverDisagrees`: `triggered` is kept in step
by four functions, each for its own reason; `Sound` says with what. Since a crash
puts the saved state back in memory, it must hold of both. `IdsNeverReused`: an id
is made of an epoch and a sequence number that are both restored from a
checkpoint older than what was last in memory, so numbers do come back. What
saves uniqueness is the order of save and act: the invariant `IdInv` says that
whatever was acted upon is not beyond what is stored (`Follows`), and that
what comes back under the same number is the same change (`EarlierKept`). All
three hold for any equities, thresholds, limits, cooldowns and bounds.
`CooldownsAreServed` and `LiquidationsAreFinal` (one half of `HaltsHold`) rest on
`HaltInv`: what was acted upon is in the checkpoint *and* in memory, as a
terminal action, or as a block that ends no earlier than the one it was acted
upon with (`Serving`), and every block of either carries an end (`Dated`).
`BlockServed` is the argument: before its end a block is left for something more
severe only. The other half of `HaltsHold` is the halt of a day, and holds under
conditions: `HaltsOutliveAFault` with one fault, `HaltsOutliveCrashes` with any number of
crashes and failed writes as long as the clock is not set back. What
neither covers is a clock set back after another fault, and section 7 has such a pair. `DayInv`: a halted day is on disk until a later day is,
and in memory unless it was `Lifted` there by a change of the day that is not yet
written - when the clock stands beyond that day, and with one fault stays there,
since the fault was spent on the write.

`RiskActions_proofs` - `TargetsAreFrozenOnce`: `FrozenOnce` for any symbols,
actions, order sizes and faults. Of three dozen steps few write a
checkpoint; the lemma `QuietStep` disposes of the others together (`Quiet`: the
store is left alone, and the tick goes on with its action or drops it). What
remains rests on `PlanOK`: a tick that prepares or freezes works on an action
without targets (`Begin` looked, nothing else writes them), and the
key of an action just begun is still empty when its index copy is written to it.
`FrozenStaysClosed`: `NothingOpensWhileFrozen` for any number of faults. `NInv` adds who has
the tick (`IndexKept`: an unfinished action in the index is the one at hand, or a
liquidation is about to take its place, and no tick reaches its openings past it), and what
is known of orders (`OpeningRows`: one that is final on record has ended and has all its
fills; `Hand`: at the freeze every opening is final, since the loop of cancellations has
every live one before it).

`ReductionsStayBounded`: `Spec /\ []NoneOrphaned => []ReductionBounded`. What was sold
cannot be the induction: an order that works may sell all of its size later, and
its fills may be on record only after the next exit was sent. `BInv` bounds what is
*committed*, the size of an order that may trade and the trades of one that cannot
(`Within`), and says why the next exit fits below the bound: it is made out
for what the venue holds at a moment when nothing of the symbol can trade any more
(`AtExit`), and the venue holds what was frozen, less all that was sold since
(`Backed`), because nothing opens in between (`NInv`). The hypothesis is `NoneOrphaned`:
a reduction that was left behind and is asked for again goes on with targets
that know nothing of what was sold in the meantime. `NoneIsOrphaned` shows the
hypothesis where one liquidation at most can be asked for, from `OInv`: a reduction with
targets that is not at an end is the one in the index, or is named as superseded by the
liquidation that took its place (`Accounted`), and that one is not asked for after it is
complete (`NotAskedAgain`). `OneLiquidationBounded` is what follows. With two liquidations the
hypothesis fails (`RiskActions_chain.cfg`, section 5).

`ProtectiveStops_proofs` - `TypeCorrect`, and `StopsNeverOversell`: `Spec =>
[]NeverOversold`, for any number of entries, stops, exits, crashes and lost answers. Its
invariant, too, is about what is committed: all of an order while the venue works on it,
what it traded before and after. `Backed`: what is committed was bought. `NeverOversold`
alone forgets the order that is about to be sent, and `Sending` says that there is room
for it. There is, because a new order is made out for the position less the
outstanding part of the orders on record, and a row only counts as ended when everything
that was traded is on record (`Rows`): what the book takes off is at least what the venue
may still sell. `StopsOnlyMoveUp`: `Spec /\ []RestoresSettled => NeverLoosened`. The
invariant (`LevelInv`) is that a manager remembers at least the level of every stop of
the position that was ever sent (`Remembers`), and that a plan asks for the level
it has in mind and for nothing lower (`Asks`, `AboutToSend`); a new position has a number
that no stop has yet (`InPlace`), so that forgetting is safe then. `Evaluate` keeps this
in each of its branches (`EvaluateHolds`). A crash forgets the manager, and the stops on
record bring the levels back only if none of those that reached the venue is UNKNOWN: that is
`RestoresSettled`. `OneFaultRestoresSettled` shows that with one fault at most it is so.
A crash between the mark and create_order does leave a stop UNKNOWN, for as long as no
operator acts, but that stop was never at the venue; and those that were have been read by
the reconciliation of the start, which no second fault cuts short (`Starting`, with
`Steady` for what a step may do to a stop). `OneFaultNeverLoosened` follows; with two
faults, section 7.

`OwnedLots_proofs` has the facts about books of lots. Each is about a fold over a
sequence of fills. Induction theorems that take a predicate as a parameter
cannot be used here, so a fold is unfolded as the recursive function it is and a fact is
carried along the positions from the least one that would break it
(`Smallest`, `AlongPrefix`). `AppliedTyped`: applying fills keeps books typed.
`AppliedInOrder`: when no fill is an issue, they were applied in the order of
their keys. `DocumentedGrows`: what trades document of an order only grows.

`FillProjection_proofs` - `TypeCorrect`, `ReportsAreExact` (`CaughtUpIssuesExact`) and
`ClosesArrive` (`NoCloseMissing`), for any fills in any order, any number of processes, crashes
and failed saves. `Cursors`: cursors trail what they point to, and a process
that knows the version of the saved checkpoint knows that checkpoint, so a save
from an older one is refused. `IssuesInv`: what a checkpoint says of an order is right as long as
neither a fill nor a change of the order is behind its cursors. That also holds of an
update half-way: it has looked at each order that changed before its cursor of
changes was read (`LooksAtAll`), and what it read of a row is still there,
or the change is behind that cursor (`RowsAsRead`). `Delivery`: an object that is not
loading events has been given the closes of all fills its checkpoint covers, and
the books a portfolio holds are those of that checkpoint.

`FillFlow_proofs` - `TypeCorrect` (`TypeOK`); `NothingIsHeldBack`
(`FinishedHoldsNothing`): a final status releases the reservation, is never left again, and
neither a restart nor a late fill brings the reservation back; `RiskStaysCovered`
(`RiskCovered`). All use `Base`, which says how far what is recorded trails the
venue: rows show no more than was executed, an operation under way knows its order, and
what is not on the ledger is in the batch that is being written. The
difficulty of the third is an average price: its inferred fill consumes the
reservation, no lot is opened, and the trades come later. `Coverage` says that each order that
may still buy was filled; or its reservation and its projected trades add up to its
size; or its reservation and what it had bought by some trade u do *and* the
projection has passed the key of u. In the last case a trade that is
published later in place of the inferred fill is late, which is an issue, and `RiskCovered`
is not asked for any more.

`BudgetIsKept`: `Spec => []BudgetKeptWithTrades`, for any orders and symbols (finitely
many, `FiniteAssumption`), sizes, budget, crashes and failed writes. The exposure -
what is bought and not sold, and what working orders may still buy - has to be held against
what the guard looks at, which is lots and reservations, and these are out of
date: trades go on while nothing is synchronised. `Synchronised` says how far. As
long as approvals may rely on it, the positions are the venue's after *some* trade n, and
what each order bought since or may still buy is reserved (`Backed`). `GuardCovers`
follows: a sale since n only lowers the exposure, each unit bought since is in a
reservation, so that open risk and pending risk are no less than the exposure. A fill of
after n takes its units off the reservation while the positions stay old; that this is not
relied upon needs `RiskCovered` - it is published and an issue blocks the guard until the
next sync, or its publication failed and nothing that ends the order is under
way in this tick (`Settled`). `Budgeted` adds the order that was approved and not yet
sent (`Sent`). Totals are counted as sets of units, and one changed term as a
lemma (`SumChanges`), so that no induction over sets is needed; that trades sum to
positions (`NetKept`) is carried trade by trade.

`StrategyHealth_proofs`, closes - `ClosesAreNeverSkipped`: `Spec => []NoCloseSkipped`. The
invariant `MemoryInv` is about rows: what a strategy has in memory, what is in the
checkpoint, and the local copy a failed write goes back to all cover what is before
their cursor (`Sound`), and `Known` orders them, so that going back to an older one skips
nothing. `CompletionsAreWhole`: `Spec => []ToldInFull`. `CompletionInv`: closes, lots and
stream agree (`EventsAgree`: each closed lot has its event, and after the final one no lot
is open), and in each row a total has lots of its own position and is empty once the
position is complete (`Totals`). `ResultsCountOnce`: `ResultsSurvive /\ Spec =>
[]CountedOnce`, from `CountInv`: results and completed positions are the same thing in
every row of a strategy without a health machine; with one, results are written
apart and no row has completed what was not counted. `ResultsSurvive` says what
that needs: no crash, or a health machine whose write does not fail before the crash.
The other cases are the counterexample of `StrategyCloses_streak.cfg` and the two faults
of section 7.

`StrategyHealth_proofs`, health - one invariant over memory and disk (`RowSane`): a machine
is well typed, has no judged evidence where entries are allowed (`Clean`), and has
spent the days of the stages behind it (`Climbed`); a row of the old schema is as it was
found (`Inherited`) until the first write. `Halts`: a halt that is owed is in the
record. The evaluation, the restore with its migration and the passing of days each keep
a machine `Sane` by a lemma of their own, so that the steps need not open them.
`TypeCorrect`, `HaltsAreServed`, `EvidenceIsUsedOnce` and `RecoveryIsSlow` follow, with no
hypothesis on faults, for any policy.

Only model-checked are
- every liveness property: TLAPS 1.4.5 does not reason about ENABLED;
- `ValidSymbolsReplay` of `FillProjection`: it compares two algorithms, the fold of
  `OwnedLots` over the fills as they are projected with the reference definition over all
  trades in the venue's order. That the two agree on every input is an induction
  over data with lists of lots on one side and lists of units on the other.

No definition in the modules is recursive but by the folds of the library.

## 5. Disagreements with docs and tests

Seven properties were taken from a sentence, an assertion or a test of the repository
and do not hold. They are not among the runs of `PROJECT.json`; each is shown by
`tlc` with the configuration named here, which ends in a counterexample.

- `LiveOrders_torn.cfg`, `WithinBudget`. docs/modules/core.md:151 says every live
  order passes the guard first. record_local_rejection writes two
  transactions (submission.py:236-242); after a crash in between, a replay finds a row (no
  guard, safe.py:58-59) that is an unattempted intent (resumed, submission.py:104-107), and
  sends what the guard refused.
- `BarClaims_engines.cfg`, `ProcessedForever`. docs/live_safety.md:170 says a processed
  bar is never claimed again. Two engines that see the same expired lease both
  update by key alone (state_store_v2.py:59-76); the second may come after the first
  completed the bar.
- `StrategyCloses_latch.cfg`, `ExitLatched`. tests/test_strategy_p0_p1.py:97-114 restarts a
  strategy and finds its exit again. The engine overwrites the restored context with
  the strategy_runtime row (engine.py:340-342), which is as old as the last finished
  tick: after a crash in the tick of the exit the latch is gone. The order path's limit
  on exits (submission.py:352-358) still keeps a second one from being sent.
- `StrategyCloses_streak.cfg`, `CountedOnce`. tests/test_sys02_incremental_projection.py:275
  expects the losing streak of before the restart. The same row overwrites trade_state
  (engine.py:344-345), while cursor and completed positions stay: a loss saved in the
  tick of the crash is never counted again.
- `StrategyCloses_context.cfg`, `StopKnown`. docs/modules/strategies.md:144 says context
  keeps state across bars by symbol. When the checkpoint of one symbol's closes cannot
  be written, the context of *every* symbol goes back to the last saved row
  (base.py:299-300), and what submit_entry_candidate put there (820-827) was not saved.
- `StrategyHealth_whole.cfg`, `JudgedWhole`. strategy_health.py:319 says transitions are
  evaluated lazily so that every close of an exit action is in its cohort before it is
  judged. Closes come symbol by symbol (base.py:285) and each flat symbol evaluates
  (strategy_health.py:671-674): the day's cohort may be judged before the second
  symbol's close is in it.
- `RiskActions_chain.cfg`, `NoneOrphaned`. tests/test_live_risk_action_lifecycle.py:273-282
  expects a reduction that a liquidation supersedes to be completed as superseded. A
  liquidation still in preparation may be superseded by another one (a daily halt,
  while the ladder's liquidation cancels openings), and then the second names the first as what it supersedes (risk_actions.py:139-140, 152):
  the checkpoint of the reduction stays "active". Nothing reads it again, unless
  the breaker asks for the same transition once more: that goes on with the old targets.

## 6. Not modelled

`LiveOrders` has opening orders only; exits and their inventory are in `FillFlow`
and `RiskActions`, resident stops in `ProtectiveStops`, the publication of
fill events in `FillFlow`. The change of the risk day, cancel_symbol_orders and the
engine's health states are in none. `orders.db` has one writer:
resolve_live_order is run with the engine stopped, and OrderStore.update, which
reads a row and writes all of it back, is taken as atomic. A request is under
way for less than the submitting TTL. Prices are left out throughout: a unit of
quantity carries the same risk all its life, so what depends on marks, fees,
cash or rounding to venue steps is not seen. A kill of a child is taken to end it.
In the dashboard, forms, presets, command lines and bounded caches are data.

In `RiskActions` actions recorded by the version before checkpoints
(_legacy_portfolio_risk_action) are left out; in `ProtectiveStops` where the wanted
level comes from (`protective_stops.py`) is a free choice, and the schedule that
picks slots is left out; in `CircuitBreaker` checkpoints of an older schema. Of the
drawdown budget only the admission of an order is modelled, not the reduction of
positions that exceed it (tick_orchestrator.py:909-979), nor the portfolio governor.

Of the strategies `StrategyCloses` leaves out signals, sizing, bar counters, the 2048
ids the deduplication is bounded by, and a stream that is replaced
(base.py:262-278); `StrategyHealth` leaves out controllers that are not counted, the trim at
500 cohorts, the migrations of cohort keys and of rows without a streak baseline with
their archives, and a disabled policy; rows of schema v2 come without cohorts.

Factors, metrics, research and planning are numerical programs
without shared state; market data and the exchange boundary are I/O and rounding;
the simulated broker and the backtest engine are sequential over large
numerical state. `PROJECT.json` gives the reason for each component.

## 7. Read in the code or met in larger instances

None of these is a listed finding; each was met while a property was stated, and
says which fault or condition that property leaves out.

Orders and the ledger
- docs/live_safety.md:167 says later ticks and starts recover all orders that are
  not terminal. `_ALLOWED` has no way from PARTIAL or CANCEL_PENDING to REJECTED; a
  venue that rejects such an order makes transition raise in every recovery, and
  the orders behind it in the loop are not looked at either (fault "late_reject"
  breaks `EventuallySettled`).
- safe.py:57 says a replay must not reserve the limit twice. The reservation is
  committed in `safety.db`, the row that would tell the replay of it in `orders.db`
  later (run_live.py:225 and 241): a crash in between, and it does.
- docs/live_safety.md:144 says a terminal order is returned as it is. With a
  synthetic fill it is asked for again, and a snapshot older than its end makes it
  PARTIAL (breaks `KeepsPromise` with `Details = {"average"}`).
- An order proven absent (AUTHORITATIVE_ABSENCE) that has a fill on record, because
  the crash came between add_fill and the row, cannot be resolved as unsubmitted
  (order_store.py:302-305): every recovery raises at it. `EventuallySettled`
  excepts it (`AbsentWithFills`).
- reconciler.py:167-188 writes off an UNKNOWN order after *one* stored
  AUTHORITATIVE_ABSENCE and the TTL, although the recorded reason says
  "repeatedly confirmed". The lookups in the source never yield that
  disposition, so it needs an adapter that does (the fault "absence").
- orders.py:43 and docs/live_safety.md:153 speak of late fills of terminal orders.
  The transitions are allowed, but recovery reads non-terminal rows only and
  reconcile_order returns early (reconciler.py:66-69): nothing asks for them
  unless the order has a synthetic fill or is replayed with one.

Fills, lots and reservations
- `BudgetKept` fails without any fault when an order whose cancel answer
  (submission.py:254-268), or whose end after a partial fill
  (reconciler.py:140-141), reports its fill by average price only. The synthetic
  FillEvent consumes or releases the reservation, the fill opens no lot yet, and
  positions are not synced after these statuses (drawdown_budget.py:134-146 counts the
  lots of positions): the allocation of the same tick approves another
  symbol. docs/development_details.md:1459 says the budget is kept from approval to exit.
- A synthetic FillEvent and the trades that replace it later consume the
  reservation twice (docs/research/strategy_remediation_contract_20260914.md:44 speaks
  of exactly once); the block on issues hides it, which is why `RiskCovered`
  is stated without issues.
- reconciler.py:374-389 stamps synthetic fills with the time of the read. When the
  trades arrive they are older, count as out of order, and the symbol stays invalid
  for good, against what
  tests/test_sys02_incremental_projection.py:103-113 expects of details that arrive later.
- last_ordering is one for all symbols: a late fill of one symbol is out of order
  against a fill of another.
- Two lots of one order closed by one fill get the same close_event_id; the UNIQUE
  constraint then makes every later save fail. It takes two openings of one order with a
  fill of another between them (`IdsUnique` in `Savable`).
- fill_projection.py:221 speaks of a failed save that leaves nothing behind;
  the books it worked on are the portfolio's (core/live_broker/__init__.py:212-217), which
  keep the fill until the next update (`PublishRaises`).
- EXPIRED_UNSUBMITTED and NO_POSITION are terminal but free no reservation: it stays
  until a restart (docs/modules/core.md:196, docs/backtest_assumptions.md:32 say
  that ends release it).
- reconcile_full_account (account_sync.py:119) rebuilds the projection, which drops
  the unowned_position issues sync has just added (191); the report still denies
  new risk.

Risk actions, stops, breaker
- A completed liquidation that is repeated writes its key as "active"
  (risk_actions.py:205) before the index (206); a crash in between leaves it so.
  `ReductionsFinish` speaks of reductions and of what is being prepared.
- A stop can be loosened by two faults: a crash, and a failed read of the stop
  in the recovery after it. The stop is UNKNOWN while the manager is restored
  without it (protective_orders.py:24-27), and a lower one may be placed once it is
  found ended.
- An order that was marked as being sent and never reached the venue - a request lost, or a
  crash before create_order - stays UNKNOWN (reconciler.py:167-194). Until an operator
  acts its symbol gets neither a stop nor an exit: a position may stay uncovered, and a
  reduction pending, for as long as that takes. `ReductionsFinish` and
  `ProtectedAgain` except it.
- A daily halt is forgotten by two faults: the change of the day lifts it in memory,
  the write of that fails, and the clock is set back to the halted day. SameDay
  (engine.py:370, 414) then finds the day in memory and no halt in the
  breaker, and entries are open as soon as the equity has recovered. `HaltsHold`
  is checked with one fault, and proved with one, or without a clock set back.
- manual_resume with an equity that is not positive makes a checkpoint that a
  restore refuses. Nothing in the live code calls manual_resume.

Strategies and their health
- A result is lost by two faults: the write of the health fails after the close was folded in
  memory (trend_breakout.py:199-229), the second delivery is a duplicate and writes
  nothing, and a crash comes before the next write. `CountedOnce` is checked with one
  fault, and proved where no crash can follow such a failure (`ResultsSurvive`).
- An entry whose answer was lost is not accepted and gets no context (base.py:820): if it
  fills, the strategy holds a position without its stop_loss. The resident stop reads the
  order ledger and is there all the same (`ProtectiveStops`).
- What _reconcile_exit and _track_exit put in the context is not rolled back when
  their write fails (base.py:350-359, 310-327).
- An entry approved before a later close of the same tick completed the streak is still sent
  when no symbol was checked after it (tick_orchestrator.py:399): `HaltServed` speaks of
  halts that were decided and saved.
- manual_lock and manual_resume do not save; the next check does.

Claims, engine, dashboard
- backtest_jobs.py:517 says a worker failure always releases the slot. A
  worker thread that cannot be started (413), and a log reader that cannot, whose
  join in the finally block (524) raises RuntimeError in CPython, keep it.
- backtest_jobs.py:547-551 publishes the marker before the record; a service killed in
  between has a complete report that the next start calls interrupted
  (experiment_store.py:206).
- The child of a killed service goes on beside the next one's
  (experiment_store.py:202 says as much).
- tick_orchestrator.py:375 may raise after the key joined the batch at 371: the bar
  is released, and completed later without a row, which complete_bar does not
  notice.
- The health set at tick_orchestrator.py:210-215 for an UNKNOWN order is set again
  without it at 242 and 261; new risk is blocked by the broker itself all the same.

## 8. Plan

Done: `OrderLifecycle`, `LiveOrders` with `OrderPromise`, `BarClaims`,
`RequestBudget`, `BacktestJobs`, then `OwnedLots`, `FillProjection`, `FillFlow`,
`RiskActions`, `ProtectiveStops`, `CircuitBreaker`, `StrategyCloses`, `StrategyHealth`, the most
important behaviour first.

Modules that would come next:
1. The drawdown-budget reduction (tick_orchestrator.py:909-979), which shares
   exits and stops with `RiskActions`.
2. `Regime` (router.py:130-200): hysteresis and the switch of strategies.
3. `Matching` of the simulated broker against a reference definition; `EventStore`,
   `Alerting`, supervisor backoff.

Runs stay few, one for each component with its safety and liveness together.

Proofs to add: `ValidSymbolsReplay` for one fill at a time, if the two definitions can
be compared position by position.
