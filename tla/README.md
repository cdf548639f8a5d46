# TreasuryForge in TLA+

TreasuryForge (`src/treasuryforge/`, with `scripts/`, `api/` and `deploy/`) is an
autonomous trading agent: a strategy proposes an `Intent`, a deterministic
`PolicyEngine` allows or denies it, an executor carries it out, a wallet changes.
Live, the same intent goes through a crash-safe order manager to an exchange, under
a dead-man's switch, a staleness gate and a preflight. This directory holds TLA+
models of that system, TLC configurations that check them on small instances, and
TLAPS proofs.

## 1. Inventory

### 1.1 Parts, the state they keep, their operations

| Part | Source | State | Operations | Correct means | Module |
|---|---|---|---|---|---|
| Idempotent order manager | `treasuryforge/orders.py` | `_orders`: origin_id -> record (state, oid, attempts, fill) | `submit`, `recover` | an intent is executed at most once; what it records is what happened | `OrderManager`, `ExactlyOnce` |
| Journal | `journal.py` | `ledger.jsonl` (append only), `state.json` (replaced atomically) | `append_event`, `checkpoint`, `load_state`, `read_ledger` | the checkpoint is whole; the ledger is ahead of it; an append that goes wrong costs one line at most | `Journal`, and in `OrderManager`, `PolicyRunner` and every paper book |
| Venue executors | `exchanges/bitso/executor.py`, `exchanges/hyperliquid/live_executor.py` | none (a nonce in the signer) | `place_order`, `reconcile` | every failure is classed so that the manager may act on it | `OrderManager`, `HlDesk` |
| Dead-man's switch | `watchdog.py` | heartbeat file (ts, seq, tripped) | `beat`, `supervise`, `reset`, `tripped` | the fail-safe fires once, then nothing trades until a reset | `Watchdog` |
| Live supervisor, service | `live.py`, `service.py` | the parts above | `start`, `step`, `supervise`, `Service.run` | at most one order once the switch fired; a service that halts for good leaves nothing its fail-safe never saw | `LiveService` |
| Staleness gate | `staleness.py` | stamp of the data, last pair of clocks | `check`, `observe_data` | what is acted on is young, although clocks drift and step | `Staleness` |
| Preflight, arm check | `preflight.py`, `scripts/preflight_arm.py` | none | `run_preflight`, `main` | every blocking fact blocks | `LiveGates`, `RiskVerdicts` |
| Policy engine | `policy.py` | anchor equity, breaker latch, two rolling windows | `evaluate`, `register_fill`, `snapshot`, `restore` | the breaker latches through restarts; caps hold in every window | `PolicyRunner` |
| Wallet, executor, runner | `wallet.py`, `executor.py`, `runner.py` | balances; the pending intent | `apply_fill`, `execute`, `run` | balances never negative; a crash loses no latched state | `PolicyRunner` |
| Autonomous loop | `scripts/run_autonomous.py` | scalp book, log files, order manager | one poll: gate, breaker, signal, order | a live position is closed, or left for a known reason | `Autonomous` |
| Hyperliquid desk | `scripts/hl_scalp.py`, `hl_live_order.py` | the account and its stops | entry, stop, close | the position is covered by its stops | `HlDesk` |
| Audit log | `audit.py` | hash chain file, head | `record`, `verify_chain` | a file that verifies is the recorded history or the beginning of it | `AuditChain` |
| Tax ledger | `risk/tax.py` | fills, lots, the file | `add_fill`, `save`, `load`, `report` | a lot is consumed once; what was acknowledged is in the file | `TaxLedger` |
| Nonces | `exchanges/bitso/signer.py` | the last nonce | one nonce per request | they rise | `NonceSource` |
| Market store, fill engine | `marketlab/store.py`, `marketlab/fills.py` | table of candles | `sync`, `walk_book` | stored candles are the venue's; a walk is the cheapest fill | `MarketStore`, `FillEngine` |
| Shadow books | `shadow.py`, `shadow_basis.py`, `scalp_shadow.py` and their scripts | position, ledger | one interval, replay | a book is the backtest of what it saw, and adds up over the lines that read | `FundingShadow`, `BasisShadow`, `ScalpShadow`, `Journal` |
| Backtests, signals | `backtest/`, `signals/`, `*_backtest.py` | windows, a position | one bar | the incremental value is the batch value; nothing looks ahead | `ScalpSignal`, `MrScalp`, `PairsTrade` and the shadow modules |
| Forward test of the picks | `scripts/ignition_detector.py`, `mark_pick.py`, `_coinbase.py` | a shared ledger | passes, picks, outcomes | one bet at a time, one outcome each, on all its candles | `IgnitionLedger` |
| Graveyard, provenance | `risk/graveyard.py`, `risk/provenance.py` | burials | `bury`, `is_buried`, `can_revive` | a corpse is caught under another name | `Graveyard` |
| Capital gates | `deployment_gate.py`, `consultants.py`, `broker.py`, `analyst.py`, `scripts/run_orchestrator.py` | paper records, staged ledger | one verdict, one cycle | money is staged only for what earned it | `CapitalGates` |
| Risk monitors and stages | `risk/*.py`, `loss_limits.py`, `maturity.py`, `promotion_gate.py`, `economic_gate.py` | drift statistics | verdicts | a worse measurement never gets a better verdict | `RiskVerdicts` |
| Allocation and legging | `carry_portfolio_allocator.py`, `cross_venue_legger.py`, `sizing.py` | none | `allocate`, leg plan | budgets hold; legs stay balanced | `RiskVerdicts` |
| Relay and spread log | `relay_feed.py`, `venue_spread.py`, two scripts | snapshot file, log | snapshot, load, log | a logged spread is within the budget, and no venue asked disappears from it unmentioned | `LiveGates` |
| Validation ladder, emulator | `exchanges/bitso/validation.py`, `mock.py`, `client.py`, `transport.py` | the exchange's account | six rungs | nothing unarmed is placed, nothing with a key that was shown to withdraw; nothing is left behind unless a call failed | `BitsoLadder` |
| Agents, market simulator | `agents.py`, `strategies.py`, `market.py` | internal | one proposal per tick | - | a free choice |
| API, demo, deploy | `api/`, `demo/`, `deploy/` | none | views and unit files | - | its audit sample in `AuditChain` |

### 1.2 How they interact

* A bot process runs `Service.run`: preflight, then `recover()`, then for each tick
  `step()`: tripped? - beat - staleness - `decide` - `evaluate` - `submit`. All calls
  are synchronous; the process is single threaded and may die anywhere.
* A supervisor process runs `supervise()` on a timer. It shares only the heartbeat
  file with the bot, and each side reads the file, thinks, and replaces it.
* The order manager shares with the exchange nothing but the origin_id: POSTs may
  be lost, answered late or land late; reads may fail.
* The runner drives policy, executor and wallet in one process and checkpoints
  policy and wallet together after a fill, or after a denial by a tripped breaker.
* The carry and basis books are hourly processes: each call rebuilds the book from its ledger,
  takes one reading and appends one line. The scalper is one long process that begins with an
  empty book and appends one line per completed trade. The gates read those ledgers; the
  orchestrator stages what gate, committee and broker agree on, and the autonomous loop
  asks the gate before every order.
* Two hosts share the relay's file through an ssh pipe; the detector of ignitions and a
  command of the owner share a ledger without a lock.

### 1.3 What is hard

Crashes between the two writes of `_persist`, and between a POST and its answer;
timeouts whose order lands later; a rest-then-fill between a read and a re-POST; two
processes replacing one heartbeat file; decisions made at tick t and filled at t+1;
latches that must survive a restart; books that are rebuilt from ledgers with torn lines;
statistics kept incrementally; cascades of thresholds whose order matters; answers of an
exchange that are lost between two rungs; clocks that drift and step. The list, line by
line, with the properties that cover it, is `hazards` in `PROJECT.json`.

## 2. Plan

The order of work was: orders; switch and service; policy and runner; the autonomous loop;
then the records (audit, tax, nonces, store), the paper books with their backtests, the
gates and judges, the validation ladder and the desk, the clocks. All of it is done. What
is worth doing next:

1. The parts of `RecordsAgree` that section 6 lists as only model-checked.
2. The executors apart from `OrderManager`: rounding and sizing against a venue's minimum.
3. Two detectors over one ignition ledger, and the exit rule of `ScalpShadow` run on the
   path that `IgnitionLedger` fetches.

## 3. Modules

Each component has a module, the proved ones a module of proofs, and an `MC` module adds only
what TLC needs. Constants carry their assumptions in the module that declares them.
Components that share no state are checked in one run: `MCBooks` and `MCGates` compose them
under a variable `part` that says whose behaviour it is, and each of their properties names the
parts it is about.

### 3.1 OrderManager, ExactlyOnce

State. `mem` is `_orders`, `disk` the checkpoint and `logged` the last ledger line of each
order; `pc`, `op`, `cur`, `todo` say where the one running call is; `wire`, `active`,
`traded`, `copies` are the exchange (POSTs under way, lots resting, lots traded, orders
created under the origin_id). `posts`, `asked`, `told`, `crashes` are history.

Actions. A call is cut at every point where something else may happen: `SubmitNew`,
`SubmitAgain` and `SubmitSettled` are the three ways into `submit`; `Append` and `Checkpoint`
are the two writes of `_persist`; `Post`, `Answered`, `TimedOut` are `_place_once` around
the request; `ReconcileFill`, `ReconcileEmpty`, `ReconcilePending` are `_try_fill`; `Recover`, `RecoverNext`, `RecoverDone` are `recover`. `DiskError`,
`PlaceRaises` and `AnswerRaises` are the exceptions that leave a call. `Crash` loses
`mem`; `Restart` loads the checkpoint. `AnswerRaises` may also follow a POST that landed: a body
that breaks off or is no object raises what nobody classed, and the record stays as it was. `Accept`, `Refuse`, `RateLimit`, `Lose`, `Execute`
and `Cancel` are the exchange, as `exchanges/bitso/mock.py` emulates it: an origin_id is
deduplicated among ACTIVE orders only. `Faults` says which of this the environment does,
so that one module serves a benign and a hostile venue.

`ExactlyOnce` is the promise of the docstring: register, execute at most once, record the
outcome that really happened. `OrderManager` implements it with `phase` read off the
checkpoint and `executed` off the exchange, at a benign venue.

Abstracted: sizes are lots; an order's price, fees and reason text are left out; the
executors' sizing and payloads are the choice between `Post` and `RefusedLocally`.

### 3.2 Watchdog

State. `file` is the heartbeat file; `bot`, `sup` and `oper` are a call of `beat`,
`supervise` and `reset` in progress, each with the argument it was given and what it
read. A replacement of the file is atomic, a call is not, so every call is a read action
and a write action, with the fail-safe (`TripFires`, `TripRaises`) in the middle of
`supervise`. `Serialised` says that calls never overlap, as when one loop makes them all;
with it FALSE the supervisor is the separate process the module's docstring asks for.
`Punctual` restricts the clock so that no beat grows older than the timeout.

The wall clock does not step backward.

### 3.3 LiveService

Extends `Watchdog` with the process of `Service.run`: `Boot` (systemd, at most
`MaxStarts` starts), `Preflight`, `Recovered`/`RecoverRaises`, then per tick `CheckTripped`,
`Beat` (the three steps of `Watchdog`'s beat), `Gate` (staleness, strategy and policy as a
choice), `Submit`; `Raises` is the except clause; `Halt` and `HaltRaises` the fail-safe on
the way out; `Kill` a SIGKILL anywhere. A submit may leave an order resting and a POST in flight
that lands at any later time (`Lands`), also after a halt. `FailSafe` composes the supervisor's
`TripFires` with the cancel of the resting orders, which the exchange may carry out for some or
for none: nobody looks at its answer. `spared` counts what rests and was in the last cancel or
landed after it. `AfterExit` is `RestartPreventExitStatus`.

### 3.4 PolicyRunner

State. `policy` is the engine (anchor, latch, the two windows), `wallet` the balances,
`pending` the intent allowed at the last tick, `fill` the fill being journaled; `disk`,
`ledger` and `torn` are the journal directory. `first`, `lost` and `crashes` are history.

Actions. `Tick` moves the market; `Settle` or `AbortFill` settles the pending intent at
the new price; `Append` and `Save` journal it; then one action per outcome of `evaluate`:
`Hold` (not called), `DenyKilled`, `DenyBreaker`, `DenySize`, `DenyRate`, `DenyFunds`,
`Allow`, in the order of the rules, each with what it leaves in the engine. `Crash` and
`Restart` lose and restore everything that is not in the files; the market goes on.

The deques are sets of entries: the runner's tick numbers grow and there is at most one
fill per tick, so that dropping from the left is dropping what is old. Money is integer,
the strategy may propose any listed or unlisted intent, `execution_delay` is 1, the
staleness rule is inert because the runner passes no data age.

### 3.5 Autonomous

State. `watched` and `todo` are the coins of the process and those left in this poll; `book`
the paper book of each coin, reduced to the bars it has held; `job` the `_maybe_execute` in
progress and `pc` where it is (`entry`, `exit`, `buy`, `close`); `engine`, `col0` and `saved`
the policy engine, the collateral its caps are anchored to and the last `policy_state` event;
`open` the verdict of the gate; `col`, `pos` and `late` the account: its collateral, its
positions, and the orders nobody follows any more. `loose` and `entered` are history.

Actions. `Start` is `main` up to the loop; `Poll` begins a pass over the coins; for each coin
one of `SameBar`, `Quiet`, `Enter`, `Exit` or `ExitUnrecorded` (the append raises after the book
went flat). `_maybe_execute` is `GateShut`, then for an entry `TooSmall`, `DenyBreaker`, `Deny`
or `Allow` and the order, for an exit `FindPosition` and the reduce-only order, or
`FindNothing`. A `submit` ends as `Bought` or `Closed` (an IOC close may fill in part), as
`Refused`, or as `OutOfSight`: its order lands later (`Land`) or never (`Vanish`), and nothing in
the loop will ask about it. `Raises` is the except clause of `main`, `Crash` a death.

Abstracted: the gate and the committee are a fixed function of the journals, so their verdict
may change only when a trade was recorded, for the coin at once and for the others at the next
poll, through the Sharpe ratios of all coins; prices and the sizes of entries are left out (one
lot each); a unit of the policy's window is one poll; the order manager is its outcomes.

### 3.6 The records: TaxLedger, AuditChain, NonceSource, MarketStore, FillEngine, Graveyard, IgnitionLedger

* `TaxLedger`. A fill enters memory, is matched against the oldest lots and is then saved by a
  replacement that may fail, or that the process may not survive; at a start the file is loaded,
  and a garbled one is an empty book that the next save writes back. `TaxAckedIsKept`: a sale
  that was acknowledged is in the file; `TaxBooksAgree`: book and file are what selling the same
  fills unit by unit, oldest first, gives, with their fees, profits, cost basis and total. Quantities are whole and fees proportional, so the float tolerance
  plays no part.
* `AuditChain`. A seal is what it was computed from. Writes fail and are cut short, a restarted
  log begins at any seal, and `Tamper` changes the file after the fact: it replaces, inserts, removes
  or exchanges lines, with any of the seals ever written and none of its own. `AuditTells`: a file
  that verifies is one history; if no write slipped, it is the acknowledged one or the beginning
  of it, so that a line edited, inserted, exchanged or taken from the middle is told, and a missing
  tail is not (4.2). An untouched file that verifies holds all that was acknowledged, and one that
  once failed to verify never does again.
* `NonceSource`. `NextNonce` over a clock that is set back, and processes that are given the last
  nonce or are not.
* `MarketStore`. The venue's last candle moves while it is stored; syncs are paged, overlap and
  raise. `StoreIsVenue`: closed candles are those of the venue, without gaps below the newest.
* `FillEngine`. One walk of a book, any levels, both sides; `WalkIsBest`: no other way to take the
  same depth is cheaper.
* `Graveyard`. A corpse is found by its data, its strategy or its report; a metric may be
  unmeasured. `CorpsesAreCaught`: the question answers for every burial so far.
* `IgnitionLedger`. A pass of the detector reads the ledger, logs an ignition, resolves what is
  due, one append at a time; meanwhile the owner marks picks, and lines are torn. The candles of
  a bet are fetched backward by pages, over hours without trades. `BetsAreSeparate`: one bet a
  token, one outcome a bet; `PathIsWhole`: a fetched path lacks no candle but those next to a hole
  larger than a page.

### 3.7 The paper books: FundingShadow, BasisShadow, ScalpShadow, ScalpSignal, MrScalp, PairsTrade

`Journal` says what an append can leave of its line (all of it, all but the newline, a part,
nothing, whether it raised or not) and what a reader makes of the file: bytes without a newline are
one line with whatever comes next, and a line that is no JSON is skipped. `BasisShadow` and
`ScalpShadow` write through it; `FundingShadow` tears the line of a call, and the one after it.

`FundingShadow` and `BasisShadow` book one reading per call and are rebuilt from the ledger by the
next call; the history of what was lost stays in the model. `ScalpShadow` is one process: it keeps its
book in memory, logs a row per completed trade, carries a trade whose append raised into the next
row, and `ScalpRestart` loses the open trade. The backtests of the same rules are operators over the
whole series, so that the properties compare the two:

* `BookIsContinuous`, `EpisodesAgree`: the carry, rebuilt by every call, is the backtest of the
  same readings; the episodes, the duty cycle, the predictor's conditional reach and the
  decomposition of the return are four readings of one series. `BookIsBacktest`: so is the scalper,
  for as long as a process runs.
* `ConvergenceTelescopes`, `RowsCompound`: over torn and merged lines, appends that raise before or
  after their line landed, and restarts, the lines that read are a well-formed sequence of positions
  or trades, and what is reported of them adds up; each fault makes one line at most missing
  or too many.
* `ScalpAccounts` are the counters of the maker backtest, `PairsTelescope` the trades of the pairs.
* `ScalpSignal` streams the indicators of `mr_scalp.py` through its windows and recursions;
  `StreamIsBatch` says that they are those of the whole history.
* `FoldsAreClean`: no fold of `backtest/cv.py` trains, at or after its test, on a sample whose label
  reads what a test label reads within the embargo; before the test it does (4.2).
  `PositionsLookBack`: the close that pays a position of `tsmom_backtest.py` is varied over all
  spreads, and the position stays what it is.

Fractions are whole parts: a return is a numerator and a denominator, a mean a sum.
In `MrScalp` what the indicators say is one choice per bar; a z-score in `PairsTrade` is a
distance from a mean that stands still, because the regression behind it is over floats.

### 3.8 The gates: CapitalGates, RiskVerdicts, LiveGates, Staleness

* `CapitalGates`. A strategy's paper record grows; the gate, the four consultants, the broker, the
  orchestrator (with its ledger, its restarts and appends that raise), the digest and the risk
  report each work their verdict out of it, as in the code. Drawdown, concentration, consistency
  and variance ratio are computed; the deflated Sharpe ratio is an input, and so is what the
  bootstrap answers when some paths breach and others do not.
* `RiskVerdicts`. Twelve judges, each a cascade of thresholds over a vector of measurements, asked
  about every vector on the scales around the code's thresholds, and about ever worse ones.
  The Page-Hinkley statistics of the drift monitor, updated one observation at a time, against
  their meaning over the whole stream. The allocator, one candidate at a time.
* `LiveGates`. Preflight and arm check as judges of probed facts; the relay's snapshot, the file
  that the shell truncates before it is filled, the pipe that breaks, the two hosts' clocks. A venue
  whose fetch failed is in the snapshot without a rate. `SpreadIsLive`: no rate is older than the
  budget, and every venue asked has its rate or is listed as missing.
* `Staleness`. A tick moves the monotonic clock by one and the wall clock by any listed amount;
  data are stamped and checks are made at any moment. `arrival` is history: how long ago the data
  really arrived, how many checks were made since, whether one of them doubted the clock.

### 3.9 The venues: BitsoLadder, HlDesk

* `BitsoLadder`. The six rungs of `run_ladder`, one action per call of the transport; every call
  may be answered, lost, late, refused, garbled, not found (404) or not authenticated, and the
  owner trades by hand. The emulator's endpoints are operators on the account. `LadderIsSafe`:
  nothing is placed unarmed; nothing with a key that can withdraw, unless the probe was not heard,
  and then rung 3 is a WARN (4.2); nothing rests after a run whose order calls were answered; a
  fill it reports is its own. `EmulatorBalances`: balances are what the trade log says.
* `HlDesk`. `hl_scalp.py` (entry and stop, or `--close`) and `hl_live_order.py` to their end, one
  process at a time: guard, leverage, POST, what was filled, reconcile by listed fills, stop.
  Stops fire in between, answers are lost, processes die. `PositionIsGuarded`: the position is
  covered by stops but for what a named reason excuses; `ReducesOnly`: no close or stop opens a
  position.

## 4. Runs

| Run | Bounds | Shows |
|---|---|---|
| `OrdersBenign` | 2 orders, 2 attempts, 2 crashes, HTTP 420 | at-most-once, reconcile before retry, agreement of books and venue, write-ahead, refinement of `ExactlyOnce`; every call ends; recovery learns hidden executions |
| `OrdersHostile` | 1 order of 2 lots, 2 attempts, 1 crash, every venue fault | durability before a POST, durable outcomes, bounded POSTs, backed fills, no re-POST of an accepted order |
| `OrdersDisk` | 1 order, writes fail, reads fail, executor raises | a settled record never changes |
| `WatchdogSerial` | timeout 2, clock to 7, 4 beats, 2 faults | the switch keeps its promises when calls do not overlap |
| `LiveLoop` | timeout 1, clock to 3, 3 beats, 2 faults, 2 resting orders, 3 starts | at most one late order; what rests after a halt was in a cancel that was not carried out, or landed later; a hung bot's orders are cancelled, or in such a cancel |
| `PolicyLoop` | 2 prices, sizes 1 and 2, 6 ticks, 2 crashes, windows of 3 | balances, limits, checkpoint, latch and anchor over restarts |
| `AutoLoop` | 1 coin, 3 collaterals, time stop at 3 bars, 3 lots, 2 faults, 2 crashes, a window of 1 poll | never short; every position closed in the end or left for a known reason; a tripped breaker buys nothing |
| `Books` | thirteen parts, each with 2 to 3 values, 3 to 6 steps, 1 or 2 faults | records survive and agree, paper books are backtests, their figures add up, nothing looks ahead |
| `Gates` | six parts: 2 strategies with 4 intervals, 12 judges, streams of 3, 4 relay ticks, 2 transport faults, 3 desk processes, 5 clock ticks | capital is earned, worse is never better, limits hold, data are young, the venue is left safe |
| `RestingDuplicate`, `SilentUntrip`, `Uncounted` | the smallest instance that shows it | a disagreement between the code and what it says, see 4.2 |

### 4.1 Why the bounds are enough

Two orders are what the checkpoint's rewriting of the whole map needs; two attempts are one
retry, and every hazard of a retry shows at the first; two crashes allow one during the
recovery from another. Two lots are what a partial fill needs. For the switch, a clock of a
few timeouts lets it trip, be reset and trip again. Six ticks are two windows of three; the
second price is low enough to breach the drawdown and to make a fill unaffordable.
For the loop, one coin is what its properties speak of: coins meet only in the policy engine and
in the gate's verdict, and the proofs cover any set of them; three collaterals are one that
breaches the drawdown, one that does not and one too small to trade; three lots are a position
enlarged by an entry that landed late.

In `Books`, three fills are two lots and a sale across both; three audit lines and two faults are a
cut line and a restart, or two changes after the fact (a line taken from the middle and one put at
the end); three candles with pages of two are a page boundary, an overlap and a moving last candle;
five observations with a minimum age of two are an entry, a lost line, an exit and a re-entry; two
faults of the basis ledger are a part of a line and the line it swallows; six minute bars are an
ignition, a hold to its limit and the next trade, so that one fault is a row that was lost, or
written and not reported, before the next trade's, or a restart with four bars more, which are one
more trade; one fault of the tax ledger is a refused save, a death inside it or a file spoilt
between two processes (the theorems of section 6 take any number of faults of both); six closes are
two positions of the momentum backtest, the warm-up being a lookback of two; five bars of the
indicators fill each of the windows (of 2 and 3) and drop from it. The thresholds of signals are
chosen so that each branch of entry and exit is taken on these prices.
In `Gates`, the scales of a judge hold the values on both sides of each of its thresholds; four
intervals are the minimum of the gate and two more, so that a record may earn a verdict and lose
it; two transport faults are one answer lost and one lost on the way to repair it, or a probe not
heard and a fault of an order rung; the amounts of
the desk are below, at and above its cap and its leverage; five ticks with steps of -1 and -3
are a drift, a step and a return of the clock.

Every bound is a constant and appears in a guard (`MaxCrashes`, `MaxTime`, `MaxBeats`,
`MaxFaults`, `MaxTicks`, `MaxBook`, `MaxLots`, `MaxFills`, `MaxObs`, `MaxSeen` and so on, each
marked as a bound where it is declared); the number of attempts and of starts are limits of the
program itself. Runs with `CHECK_DEADLOCK FALSE` are those whose clock, feed or series ends.

### 4.2 Where the code and its documentation part

Three are runs that expect a violation:

* `RestingDuplicate`: the manager re-POSTs an UNKNOWN order that a read showed unfilled. If
  it rests and fills before the re-POST arrives, the exchange no longer deduplicates it.
  `orders.py:21-22` says a re-post cannot duplicate it.
* `SilentUntrip`: a beat that read the file before the trip replaces it afterwards;
  `watchdog.py:66-67` says the switch never silently un-trips. The same overlap lets the
  fail-safe fire twice and the beat number fall.
* `Uncounted`: the autonomous loop registers an entry whose state is `FILLED` or `OPEN`, in
  capitals; the states are spelled in lower case, so that rules 6 and 7 count nothing
  (`run_autonomous.py:266`). The test of that line passes a mock in capitals.

The others are formulas stated in the modules that fail when added to the run named:

| Formula | Run | What the code does |
|---|---|---|
| `AnchorSurvives` | `PolicyLoop` | the drawdown anchor is first checkpointed after a fill or a trip; a crash before that re-anchors it (`policy.py:168-169`) |
| `CompleteLinesAreRead` | `PolicyLoop` | an append after a torn line loses a complete, fsync'd event (`journal.py:73`) |
| `NeverStranded` | `AutoLoop` | the gate is asked before an exit too, and a position whose gate shut stays open with nothing watching it (`run_autonomous.py:233-236`) |
| `TripIsDurable` | `AutoLoop` | a trip of the breaker is written nowhere: the engine is saved only after a registered entry, which a tripped engine never has; `run_autonomous.py:115-116` says a restart cannot un-trip it |
| `EntriesPay` | `Books` | the cost gate vetoes an ENTER that does not pay (`run_shadow.py:89-93`), but the age rule of `shadow.py:81-83` enters after the rate has sunk |
| `RowIsItsTrade` | `Books` | "one ledger row per COMPLETED trade = its net return" (`run_scalp_shadow.py:68`): an append that raises, its line landed or not, leaves the finished trade in `trade_eq`, and the next row carries both (81-85) |
| `PicksAreForesight` | `Books` | a pick is to be marked BEFORE the outcome is known (`mark_pick.py:3`); the command asks only whether the outcome was booked when it read |
| `KillPathProven` | `Gates` | the kill-path rung passes on a read of the open orders that failed, so it may pass while the order rests (`validation.py:118`) |
| `TighterCap` | `Gates` | the allocator's comment takes the tighter of two caps (`carry_portfolio_allocator.py:52-53`); the code takes the candidate's own wherever it has one |

The models show more of the kind.

* Audit: `audit.py:4-6` says that any delete breaks the chain; a file that lost its tail is a shorter
  good chain, and verifies. `AuditTells` states what is told and what is not.
* Folds: `cv.py:3-6` says that training samples too close to the test fold are purged; the code
  starts the gap at the first test sample (`purge_lo = test_start`, line 31) and drops only the
  embargo after it, so a sample just before the test is trained on although its label may reach
  into it. `FoldsAreClean` says what holds.
* Ladder: rung 3 is headed `fail-closed` (`validation.py:75`), but a probe that answers 404 or an
  authentication error is a WARN (90-95), the ladder goes on to place orders, and
  `validate_live.py:78` prints ALL GREEN. `LadderIsSafe` holds with that exception, and with the
  WARN.
* Panic channel: `client.py:58` says a cancel always lands; `cancel_all` answers any failed status
  to callers that do not look at it, so orders may rest after a fail-safe (`CancelAll`).
* Relay: while the snapshot file is absent or torn the relayed venues are neither in a logged spread
  nor among the missing.
* Live loop: `LiveSupervisor.step` never calls `register_fill`, so rules 6 and 7 of the policy
  count nothing there, and `LiveService` has no window.
* Orders: an exception after a POST left (a body that breaks off is no `OSError`, `transport.py:79`;
  one that is no object has no field to read, `bitso/executor.py:106`) leaves the record PLACING,
  and a later `submit` in the same process POSTs again without a read (`orders.py:170-180`); a
  PLACING record left by a crash is re-POSTed by `submit` without a read
  (`SubmitAgain`; `orders.py:142` says an in-flight record is reconciled first, and a caller that
  recovers first is safe); a failed read counts as no fill (`ReconcilePending`,
  `bitso/executor.py:127`); a refusal of a retry is recorded as REJECTED although the first POST
  may still land; a record whose first persist raised is POSTed by the next `submit` with nothing
  on disk (`DiskError`); the retry loop waits nowhere, not even after HTTP 420, of which
  `errors.py:51` says otherwise; an order cancelled at the venue stays OPEN in the books.
* Service: what `recover()` raises ends the service without its fail-safe (`RecoverRaises`); an
  order placed after a trip by a service whose feed then ends is watched by nobody (`FeedEnds`).
* Arm check: it reads the latch from `state/policy/state.json`, while the loop keeps its engine in
  the ledger of `state/policy_live`, so that line 106 of `preflight_arm.py` never refuses.
* Predictor: `funding_predictor.py:27` calls age 0 or 1 the base rate of a fresh entry, while age 1
  asks for one hour more than age 0.
* Nonces: a signer built without the last nonce after the clock was set back repeats them.
* Staleness gate: after one halted check, data stamped before the step of the clock are trusted
  again; a step there and back between two checks is not seen, nor a drift below the budget per
  check. `FreshIsYoung` says how much that can add up to.
* Desk: the safety cap binds a close too, so that a position larger than `--cap` cannot be closed
  by the script; the leverage guard looks at this order only, not at the position; the policy
  window is not enforced; a close leaves its stops resting.
* Ledgers: overlapping detectors book an outcome twice; a restarted orchestrator stages again what
  is pending, so that the staged total may exceed the cap; a vetoed strategy is APPROACH in the
  orchestrator and HOLD in the digest; the pairs signal re-enters in the interval after a stop-out.

## 5. Fairness

`FairSpec` of `OrderManager`: weak fairness of the steps of a running call (the process is
synchronous and nothing blocks it), of delivery (a request on the wire is processed or
lost), of `Restart` (systemd restarts the unit) and of the first `Recover` of a process
(`Service.run` calls it before the loop). Nothing forces a caller to submit.
`LiveFairSpec`: weak fairness of the supervisor's steps (a timer) and of time. The bot has
none: hanging is what the switch is for.
`AutoFairSpec`: weak fairness of `Start` (systemd, `Restart=always`), of the loop's own steps
(requests have a timeout) and strong fairness of a new bar for each watched coin (a market
prints one every minute; the same bar may be seen several times in between). Nothing makes an
order out of sight land or vanish.
`Books` and `Gates` check safety only and state no fairness: an hourly process that is never
started owes nothing.

## 6. Proofs

| Module | Theorems | Assumptions |
|---|---|---|
| `OrderManagerProofs` | `TypeCorrect`, `SettledForever` | none |
| | `FillsAreBacked` | none |
| | `NoUnrecordedPost`, `ToldSurvives`, `PostsBounded`, `LedgerFirst`, `AcceptedIsNotReposted` | the disk works (`DiskWorks`) |
| | `ExecutedAtMostOnce`, `RejectedIsTrue`, `RetriesAreInformed`, `ImplementsExactlyOnce` | the disk works, a benign venue and a caller that recovers first (`Benign`) |
| | `BooksAgreeBetweenCalls` | the same, and nothing raises (`Quiet`) |
| `LiveServiceProofs` | `WatchdogTypes` | none |
| | `FiresExactlyOnce`, `LatchIsBacked`, `NeverSilentlyUntrips`, `SeqNeverFalls` | calls do not overlap |
| | `PunctualIsSafe` | the bot is punctual, nobody resets |
| | `AtMostOneLateOrder`, `HaltLeavesNothingUnseen` | natural bounds (`ServiceAssumption`) |
| `PolicyRunnerProofs` | `NeverOverdrawn`, `BreakerStaysLatched`, `AnchorNeverMoves`, `CheckpointIsExplained`, `WindowsAreKept` | none |
| `AutonomousProofs` | `NeverShort`, `StrandedIsExplained`, `TripHoldsInProcess` | none |
| `BooksProofs` | `NoncesNeverRepeat` | at least one salt per millisecond (`NonceAssumption`) |
| | `AcknowledgedSurvives` | the same |
| | `NothingLooksAheadEver` | integer spreads, a positive lookback, natural bounds (`SeriesAssumption`) |
| | `MakerAccountsHold` | positive prices, percentages below 100, a target that pays its fees (`CostsAssumption`) |
| | `PairTradesTelescope` | bands in order (`BandsAssumption`) |
| | `ReturnsAlwaysAddUp` | these, a trail and a stop of less than the price (`ScalpAssumption`), integer premiums and a natural fee (`BasisAssumption`, `BasisHysteresisAssumption`) |
| | `CorpsesAlwaysCaught` | none |
| | `SyncedStaysVenue` | a page holds a candle (`PageAssumption`) |
| | `BetsStaySeparate`, `PathsAreWhole` | a hold window of some hours, natural pages (`WindowAssumption`) |
| `ReplayProofs` | `BookStaysContinuous`, `EpisodesAlwaysAgree` | integer rates and ages, an exit not above the entry (`HysteresisAssumption`) |
| | `ScalperIsBacktest` | a trail and a stop of less than the price (`ScalpAssumption`) |
| | `BooksAreAlwaysBacktests` | both |
| | `TaxBooksAlwaysAgree` | natural prices and quantities (`TaxAssumption`) |
| `GatesProofs` | `FreshDataIsYoung` | natural budgets (`StalenessAssumption`) |
| | `NothingOldIsUsed` | and finitely many venues, integer rates, and no skew that makes a snapshot older than the budget when it is taken (`RelayAssumption`) |
| | `DeskIsGuarded` | natural amounts (`DeskAssumption`) |
| | `VenuesAreSafe` | and natural prices, fees and amounts (`LadderAssumption`) |
| | `CapitalGoesToTheEarned` | finitely many strategies, integer returns and scores (`CapAssumption`) |
| | `LimitsAreKept` | integer streams, natural scores and caps, a fixed point that every number of observations divides (`VerdictAssumption`) |
| | `WorseEarnsNoMore` | none of its own |
| `Sums` | lemmas only: sums over finite sets, folds, extrema, runs of a recursion | none |

All hold for every value of the constants that their `ASSUME`s allow.

* Orders. Types first. Settled records are final because memory and disk agree on them
  (`SettledInv`) and no call writes a settled order. With a working disk, `DurableOK`
  says how far memory may be ahead of the checkpoint at each point of a call; that gives
  durability. `BudgetOK` counts the POSTs of a process in its memory and those of the processes before
  it as `max_attempts` each, since a crash, after a call that raised, may forget several. At a benign
  venue `OnceInv` says at each point of a call what the exchange can hold for the order: a
  POST is only sent when nothing was executed and nothing is under way. The refinement maps
  every step to one of `ExactlyOnce` or to a stutter.
  `BackedOK` bounds every fill in memory, on disk and on its way by what the venue traded, so
  that a partial reading may be short but never too long. `FateOK` ties the last ledger line to
  memory and checkpoint at each point of `_persist`; write-ahead follows. `AskedOK` says that an
  order with a POST behind it and another one to come was asked about in between, and
  `LearnedOK` what a recovery has still to learn: when it has been through all orders, nothing.
* Switch. With serialised calls what a call read is still in the file when it writes. A
  punctual bot is safe because every beat, written or under way, is younger than the
  timeout at every moment, and an argument `now` is never later than the clock.
* Loop. `HaltedIsSwept` needs that a service which halts for good fired its fail-safe after the last
  order it or any process before it placed: what lands later is counted as it lands. `OneLateOrder` needs that a late order leaves the loop past its check: the stages
  after the check hold `late` at zero until the order is placed.
* Runner. `PendingOK` ties the pending intent to an untripped engine, `LatchOK` says that a
  running process knows of the breaker and the anchor what the checkpoint knows. `JournalInv`
  says at each point of the loop which fills of the ledger the wallet holds, so that the wallet
  is a sum over them and the checkpoint one over a prefix. `WindowsInv` says that the two
  windows hold every fill the engine knows of that is young enough, that a fill lost in a crash
  is older than all that follow, and how much room `evaluate` left for the pending one.

* Autonomous. `NeverShort` is type correctness: reduce-only keeps every position natural.
  `StrandedIsExplained` is inductive with `OrphanInv`: a coin with an order out of sight is
  already loose, an entry under way still has its paper trade, and a close under way covers the
  whole position unless the coin is loose.
* Audit. `verify_chain`, the API's sample and the search for what was acknowledged are folds over
  the file; the lemmas say that each is a run, what type its states have, and what one more line
  does to it (`VerdictOfAppend`, `FoundOfAppend`). `AuditInv` then relates the file to what was
  acknowledged: a file that verifies holds every acknowledged entry in order, each line sealed
  over the entries up to it (`Sound`); as long as no write slipped and nobody touched the file it does
  verify and the log's head is its last seal. With `Tamper` the argument is about seals: every seal
  ever written is a beginning of what was acknowledged if no write slipped, so whatever lines are put
  where, a file whose links and seals check out is such a beginning.
* Tax. `TaxInv`: whose sale was acknowledged is among the fills behind the file, and behind the
  book whenever a process runs, unless the file was spoilt. `TaxAgreeInv` adds that book and file
  are what the reference makes of the fills behind them. A sell matches lot by lot and the
  reference sells unit by unit: `SoldAlike` relates the two after each lot passed, for every
  number of units still to come behind it (`LotPassedBy`, `LotTaken`), and `LotSells` is the
  inner induction, over the units of one lot. It rests on an invariant of the data: a lot's fee
  is a multiple of its quantity, and stays one when a part of the lot is sold (`LotIsMatched`).
  Total and cost basis then agree because units repeat (`PnlSame`, `CostSame`).
* Folds. A label that reaches h beyond its sample meets one of the test only if the samples are within
  h of each other, so beyond the embargo none does. `BoundsRise` and `BoundsCover` are the arithmetic of `purged_kfold`: the bounds rise by
  the quotient or one more, from 0 to n, so every index falls between exactly two of them. That a
  training set is the complement of test and embargo follows per fold.
* Momentum. `TargetOfPrefix`: a position is worked out of the closes up to the one it is decided at,
  so that any other close may follow; `TargetIs` bounds it through the square of
  its size, kept as the exact quotient of target and realised variance.
* Maker backtest. `MrOK` relates the counters, the open position, the resting bid and the trades to
  the bars behind them: an open position has seen no bar that would have ended it, and the next
  trade begins after the last one. That a stop never gains and a target never loses is
  arithmetic on the percentages of `CostsAssumption`.
* Pairs. `PairOK` cuts the series into trades: within one the position has one sign and the z-score
  is inside its bands, so the differences of the spread telescope to exit less entry. Only with
  the bands in order does no trade turn over.
* Basis and scalper. Whatever an append leaves, the lines that read grow by one or lose the last one
  that lacked its newline, and the book a call starts from is that of the lines that read. `BasisOK`
  says what the convergence of an episode has added up to since its entry on them. `ScalpOK` keeps the compounded rows as two products that
  balance (`num * u = den * t`); an append that raises moves a factor from one side to the other.
* Graveyard. What is buried under a strategy's contents is the least burial with these contents,
  so the question answers for a set of burials and not for the order they came in.
* Market store. `StoreInv`: below the cursor of a running sync every candle of the window is stored,
  and all but the newest as the venue has it; a page that overlaps overwrites like with like.
* Picks. `IgnInv`: the open bets a pass has read are those booked by no line; a detector about to
  log an ignition knows every bet of the token; and the hour in the name of a bet is never the
  hour of its own outcome, which is why the name is enough to tell outcomes apart. The lines are
  read by a fold, so `WrittenOver` says once what one more line does to what was read. The proof
  found that the reader of the ledger had been written as a `CASE` with overlapping guards.
* Paths. The search backward is a recursive function on the hours; `PagesThere` shows that it has a
  value, from its lower end up. `PageLeavesOut` is its induction: what a search up to an hour
  leaves out lies more than a page before that hour, and before all it found. That holds of a
  booked line for good (`PathInv`), since a later candle is later than the line.
* Paper carry. `CarryInv`: the age handed from call to call by the last line is the age of the
  episode worked out of the rates alone. A line lost in a torn append takes its rate with it, so
  the book and the rates still speak of the same hours.
* Episodes. The backtests, the persistence statistic and the decomposition are folds over the rates;
  each is a run (`PassRuns`), and `FoldedAppend` says what one more rate does to it. `EpisodesKept`
  then relates them prefix by prefix: the backtest is in a position when the book is, what is being
  held is the running episode less its youth, and funding, fees and reports are sums over the
  same hours. The theorem closes the episode still open (`BooksClose`).
* Scalper. The book decides bar by bar; the backtest jumps from an entry to the bar at which
  its scan ends the trade. `BookIsTraced` remembers at which bar each trade began: no bar between two
  trades enters, none before a trade's end hits a level, and the open trade has met no hit yet.
  `ScanFinds` shows that a list with these properties is the one the scan produces, because
  the end of a trade is the lowest bar that hits.
* Nonces. What was sent under a kept chain never exceeds `last`, and the next nonce does, whether
  it comes from the clock or is one more than `last`.
* Staleness. `DriftIsBounded`: since the data arrived the wall clock has run away from the
  monotonic one by what was unseen at the stamp plus one budget per check; each sane check adds at
  most its own budget, by the triangle inequality. A fresh verdict bounds the age by the wall
  clock, and the two together the real age.
* Relay. `RelayInv`: the file holds a snapshot of the past, stamped with the relay's own clock, and
  what a row journals was within the budget of the reader's clock when it was read; the skew of
  the two clocks bounds the rest. The widest spread is one of finitely many.
* Desk. `DeskInv` keeps an account of the position: what is held is what the stops cover, what is
  `bare` for a named reason, and what the running process has filled and not yet protected. A
  reduce-only order executes no more than is held, which is why nothing turns a position round.
* Ladder. `BookOK` is the emulator's promise (each balance is the opening one and a sum over the
  trades), proved over every endpoint; `LadInv` says
  per rung what the answers so far imply of the venue, fault or no fault.
* Capital. `Ranked` determines the broker's pass, so that `BrokerOK` can be stated by position: what
  it funds precedes what it passes over, and it passes over only when the portfolio is full.
  `CapInv` adds what the orchestrator remembers against its ledger. That a strategy the
  committee approved has a positive total, which the risk report asks, needs the fold over its
  returns to be a sum, and the sum of two halves to be that of the whole.
* Limits. `SwitchOK` states the detector without its increments: after any stream the kept
  statistic is the drift of that stream, the kept extreme its best value, the alarm its history
  (`DetectorOK`, `BestOK`). The switch's reason is the first alarm in the order of its guards. The
  allocator's shares are compared as fractions: scaling a cluster down keeps each share below
  its cap, and the clusters' sums below the whole.

* Judges. A lemma per judge says that no respect in which a measurement gets worse improves the
  verdict, for all integers and not only for those on the scales (`StageFalls`, `EconomicsFall`,
  `SizesFall` and so on): the branches of a cascade are ordered, and products and quotients of
  naturals are monotonic. `PolicyIs` finds that a quarter of Kelly already excludes every leverage
  at which growth would not be positive, so that raising the leverage never lets a refused
  one in. `IsQuestion` is the invariant: what is asked is on the scales.

`Sums` replaces induction over data. A claim about all subsets of a finite set is refuted at a
smallest one (`MinimalSubset`), one about the prefixes of a sequence at the first (`FirstBad`), and
both follow from facts of the library that take no operator as a parameter. The community
modules define their folds by `CHOOSE` over recursive functions on the subsets of a finite set;
the lemmas show that such a function exists and is unique, and so what the fold is. `IterIsRun`
says that a fold over indices is a run, one step after the other over the prefixes, and
`RunsAgree` that two runs which take the same steps are at the same place.

`WatchdogTypes`, `SeqNeverFalls` and `PunctualIsSafe` prove formulas that no run lists:
TLC agreed with them, and the theorems made the runs redundant. `NoncesNeverRepeat`,
`FreshDataIsYoung`, `DeskIsGuarded`, `MakerAccountsHold`, `PairTradesTelescope`, those of the last
sections of `BooksProofs` and those of `ReplayProofs` prove what a property of `Books` or
`Gates` checks of one part of its run.

Only model-checked: liveness (`CallEnds`, `CrashedFillIsLearned`, `WedgedIsCancelled`,
`PositionIsClosed`), which is out of this prover's reach, and one property of `Books`,
`RecordsAgree`, a conjunction of which some parts are proved: `StoreIsVenue`, `CorpsesAreCaught`,
`BetsAreSeparate`, `PathIsWhole` and `TaxBooksAgree` are theorems; `WalkIsBest` (a
rearrangement of sorted levels) and `StreamIsBatch` (weights that are powers, which the provers
do not support) are not.

## 7. Not modelled

* Agents, strategies and the market simulator: the models let a strategy propose anything and the
  market do anything listed, which is more than any of them does.
* `GatedStrategy` (`deployment_gate.py`): only tests build one. It caps each order by the stage's
  tier, not the position.
* Statistics over floats: the Sharpe ratios and their deflation, the bootstrap's quantiles, the
  cointegration regression, the selection score, the scorecard's z, the exponential average of the
  volatility. Where a verdict depends on one, it is an input of the model.
* Encodings: HMAC and EIP-712 signatures, the wire format, the reading of secrets,
  `make_origin_id`; of the transports only what they answer for each fate of a request.
* `klines_1h` caches an empty answer for good; the caches of fetched data are left out.
* The staleness rule of the policy engine, which is inert in the runner, and same-tick execution.
* The screeners and research scripts that run once, print a table and keep nothing; the alerting
  of `scalp_alert` and the loggers' mirrors; the API's views and the demo.

`components` in `PROJECT.json` lists every part with its status.
