# Vertexa in TLA+

TLA+ models of the Vertexa trading bot, the TLC runs that check them on small instances, and theorems about them
checked by TLAPS. Source paths are relative to the repository root. `PROJECT.json` maps every definition to the
lines it translates.

## 1. The system

The binary `bin/vertexa.rs` starts a handful of tokio tasks that share state behind locks and atomics, and then runs
the main loop. One loop iteration decides on at most one trade and sees it through.

| Part | State it keeps | Operations | Talks to |
|---|---|---|---|
| Event stream, `ingestion/pool_events.rs` | the pool's price, liquidity and tick, each behind its own lock | subscribe with replay, apply a log cell by cell, back off, restart when notified | writes the cells the loop reads; takes a `Notify` permit from the poller |
| Poller, `ingestion/pool_reader.rs` | the same price and liquidity cells | read `slot0`, compare, overwrite, read liquidity, overwrite | gives the permit |
| Price feed, `ingestion/price_feed.rs` | the series of closes and volumes | push, at every update of a candle; connect again after an error | read by the context builder |
| Mempool monitor, `mev_guard/detector.rs` | a queue of at most 500 pending swaps, the reconnection delay | connect, fetch, queue, drop the oldest, sleep | queue read by guard and context builder |
| Context builder, `ingestion/context_builder.rs`, `orderbook.rs` | none | reads each cell under its own lock, picks the whales from the queue, makes up an order book | feeds the consensus |
| Consensus, `consensus/engine.rs`, `signals/*.rs` | the history of volatilities | classify the regime, gate, vote, break ties, gate on confidence | decision to the loop |
| MEV guard, `mev_guard/guard.rs`, `split_executor.rs` | none | score, route, chunks | reads the queue |
| Profitability gate and fee cap, `risk/profitability.rs`, `bin/vertexa.rs` | none | edge against costs; highest gas price | loop; the cap goes to the actor |
| Risk checker, `risk/checker.rs` | position, day's loss, circuit breaker (three atomics), day of the last reset | check, check_slippage, record_trade; midnight reset in a task of its own | loop, midnight task, state file |
| Executor actor, `executor/actor.rs` | the account's nonce | prepare, sign, send, wait, escalate, give up | mpsc channel in, oneshot answer out, node |
| Broadcaster and signer, `executor/broadcaster.rs`, `signer.rs`, `mev_guard/flashbots.rs` | none | sign with the chain's nonce, submit a bundle or one per chunk | relay, node |
| Main loop, `bin/vertexa.rs` | where the iteration is; the shutdown permit; `vertexa_state.json` | select, the gates in order, dispatch, book, log, notify, save, load | all of the above |
| Event logger, `ingestion/event_logger.rs` | the day's CSV file and its writer, the day it was made on | create, rotate, write a row, flush | called by the loop |
| Notifier, `notify/notifier.rs` | none | spawn a webhook call and forget it | called by the loop; Discord |

What makes it hard: the cells, the queue and the counters are written by one task while another reads or writes them;
every RPC call can fail, also after it took effect; a transaction that was given up can be mined later; two parts
of the program own the account's nonce; a signal, a crash or midnight can come between any two steps; a gate's
guarantee (the risk limit, the gas budget) must still hold several awaits later, when it is used.

What must be right, per part:

* **market data**: restarts, replays and late answers never leave the cells behind the pool for good; a divergence is
  always answered by a restart.
* **mempool, guard, gates**: the guard sees the latest swaps; more threat never means more exposure; an order that is
  handed over can pay for its gas, slippage and MEV losses out of its edge; chunks make up the trade.
* **consensus**: a trade is backed by the votes it names; neither side is favoured; the adaptive gate reopens.
* **strategy**: whatever mixture of old and new readings a context is, each signal casts a vote the engine can use; the
  signals on prices take no side, and a whale that was decoded never turns the vote against its own side.
* **reports**: a file holds the rows of its day in order, and a flush that fails costs its own row only; with a webhook, no
  trade is logged that nobody was told of; no alert is posted twice.
* **risk checker**: limits hold although checked and recorded at different times, and although the midnight task
  clears counters between the stores of `record_trade`.
* **execution**: a trade takes effect at most once; "filled" is true; each order is answered.
* **loop and process**: each order is booked exactly once, told of exactly once and never logged twice; halts survive restarts; a signal stops the
  process but never tears an iteration.

## 2. The modules

```
RiskChecker ---------------------------+
  RiskCheckerProofs                    |
Account  Dispatch                      +--> TradingLoop
   \      /    \                       |      TradingLoopProofs
ExecutorActor  Broadcaster             |
      \         /                      |
       Execution ---implements---> OrderLifecycle
         ExecutionProofs
MempoolMonitor --> TradeGates          MarketData                 VotingSignals
                     TradeGatesProofs    MarketDataProofs               |
EventLogger --> Reports                                 Consensus --> Strategy <-- MCStrategy
                  ReportsProofs                             |           StrategyProofs
                                                        MCConsensus

SumTheorems: sums over finite sets, for TradingLoopProofs, TradeGatesProofs and StrategyProofs
```

`Strategy` extends `Consensus` and, with the votes of `VotingSignals` in the place of free ones, implements it.

| Module | Code | State and actions |
|---|---|---|
| `RiskChecker` | `risk/checker.rs` | the atomics are variables; each load or store of `record_trade` and of the midnight reset is an action, so that the two tasks interleave as in the program. `check` reads the breaker and the position with nothing in between that matters, and is one action; a refusal changes nothing. |
| `Account` | external | the account on the chain, the node's pool, the relay's bundles: what the code may assume of them |
| `Dispatch` | `bin/vertexa.rs` 580-649 | the order the loop waits for and the answers it got |
| `ExecutorActor` | `executor/actor.rs` | `nonce` is `self.nonce`; `actor` is the place in `execute_real`; a fee is the number of escalations, clamped to the cap |
| `Broadcaster` | `broadcaster.rs`, `signer.rs`, `flashbots.rs` | sign once, submit once or once per chunk |
| `Execution` | the four together | `Loop`, `Act`, `ActFails`, `Broadcast`, `Block` |
| `OrderLifecycle` | abstract | what the execution side promises: an order is opened and closed once, takes effect at most once - perhaps after it was closed as failed - and only "filled" says that it did |
| `TradingLoop` | `bin/vertexa.rs` | the select loop, one action per way out of the iteration, the state file in its two steps, signals, crashes, restarts; instantiates `RiskChecker` and `OrderLifecycle` |
| `MempoolMonitor` | `mev_guard/detector.rs` | the connection loop and the bounded queue |
| `TradeGates` | `guard.rs`, `split_executor.rs`, `profitability.rs`, `bin/vertexa.rs` 429-593, 721-761 | the arithmetic between decision and hand-over, beside a monitor that keeps changing the queue |
| `MarketData` | `pool_events.rs`, `pool_reader.rs` | each cell holds the block its value is of; each store under a lock is an action; `Notified` drops the stream at any await |
| `Consensus` | `engine.rs`, `volatility_regime.rs` | `Classify` then `Vote` on any votes, with thresholds that follow the remembered volatilities |
| `VotingSignals` | `signals/rsi.rs`, `ema.rs`, `orderbook.rs`, `onchain_flow.rs`, `volatility_regime.rs` | no state: what each voter and `atr_pct` compute, in exact arithmetic over a common denominator; both kinds of average are `Smoothed`, a recursive function that applies `Blend` value by value |
| `Strategy` | `context_builder.rs`, `price_feed.rs`, `PriceSeries` in `core/types.rs`, `engine.rs` | the feeds write while `ReadCloses`, `ReadPrice` and `ReadSwaps` take one lock after the other (`builder` is the lock it takes next); `ClassifyContext`, `GateBlocksContext` and `DecideOnContext` are the engine with the real votes, in the variables of `Consensus` and with its operators; `prices` is what the engine will find of the closes read |
| `EventLogger` | `event_logger.rs` | one action per step of `log`: the date, `File::create`, the write to the buffer, the flush, which may fail and then loses what it did not write |
| `Reports` | `notifier.rs`, `bin/vertexa.rs` 386-704 | what an iteration notifies and then logs, the calls in flight, crashes and restarts around them |

Abstractions that run through the modules:

* **Money and time.** `RiskChecker` and `TradingLoop` count whole units and UTC days, `TradeGates` counts costs in
  1e-5 dollars and ratios in thousandths, `Consensus` and `Strategy` count confidences in thousandths and volatilities in
  millionths, both rounded down; floating-point rounding below these units is not modelled.
* **Calls.** An RPC call returns, with an answer or an error; the code sets no timeout on most of them, and a call
  that never returns would stop its task.
* **The chain.** A transaction is mined at its nonce only; an accepted one may be mined at any time or never. The node
  honours the `from_block` of a log subscription. `MarketData` has a log of the pool in every block; blocks without
  one do nothing to the cells.
* **Amount out.** What a receipt says about the output is a free "short" or "enough" in `TradingLoop`.
* **Swaps.** Any may carry ETH, whatever its direction: the code values a swap by what it carries and asks no more. In
  `Strategy` no swap leaves the queue, which `MempoolMonitor` models.
* **Files.** A dropped tokio `BufWriter` does not flush. A flush that succeeds writes all of the buffer. One that fails loses
  it: `BufWriter` hands its bytes to `tokio::fs::File`, which takes them and reports the error only when it is flushed
  itself, with its own buffer already cleared. So a failed flush leaves some of the lines, perhaps a piece of the next
  one (`Fragment`), and nothing to be written later; if it was the first of its file, the header is gone too. A file
  that cannot be created panics, which in `Reports` is one of the ways in which the process ends.
* **Paper mode** is in `ExecutorActor` and `Broadcaster` ("simulated"). In `TradingLoop` it would behave as "accepted".
* **Macro regimes.** The binary never sets one, so `TradingLoop` uses a scaling of 100 %. `RiskChecker` takes any natural
  number of percent, above 100 too, as `check` multiplies the limits by whatever override it is given
  (`checker.rs:126-132`): `PositionWithinLimit` speaks of the largest limit that follows. `Consensus` takes any modifier;
  `TradesAreBacked` speaks of those up to 1.0.

## 3. What the runs check

| Run | Checks | Bounds, and why they are enough |
|---|---|---|
| `limits` | `RiskChecker`: position limit, daily-loss halt, the breaker is cleared only for a new day, a reset follows every midnight | 3 days, so that a reset can be late, straddled and followed by another; losses below, at and above the limit; position limit reached by several trades; scalings of half, all and one and a half, so that a check can allow what the next one refuses |
| `execution` | three trades, all routes, four attempts: mined at most once, nonce ownership, truth of "filled", every order answered, refinement of `OrderLifecycle` | three trades are the least with a third order after a collision of two; four attempts are the code's; fee cap 1 clamps every escalation, so that no replacement pays more, and 3 lets two of them raise the fee and clamps the third |
| `trading` | `TradingLoop`: books against orders, limits for what is booked, kill-switch over restarts, one alert and at most one row per order, a signal stops the process | two orders and a limit that only one and a half fit in; two restarts and three days put every save, load, reset and crash in every order |
| `market` | restarts, replays and the poller against the pool | a replay of one block (ten in the code) with three blocks: outages shorter than, as long as and longer than the replay; two prices within 0.1 % of each other and one outside |
| `gates` | the arithmetic gates and the queue | queue of two (500 in the code) and four swaps: filled and overrun; trades and liquidities that reach every route and one, two and three chunks |
| `consensus` | four signals, majority of three | history of four with percentiles from the third on (100 and 50 in the code): warming up, warm and full; a volatility in each default regime |
| `strategy` | a context read cell by cell while the feeds go on, and the four real signals on it: refinement of `Consensus`, no side taken on prices, whales pull the vote their own way | five closes and a series of four (100 in the code): filled and overrun; periods of two and three, so that smoothing and seeding each take a step of their own; two swaps out of a sale, a purchase and one nothing decodes, two of them whales at the higher price only: flows of one side, of both, balanced and absorbed; buys, sales, every regime and both gates are reached |
| `reports` | files readable but for failed flushes, no row of the first day lost with another's, newest row on the disk, trades announced before they are logged, no alert twice | three iterations over three days, any flush failing, and a restart: a row before, on and after each midnight, a file made twice on a day, a failed flush with and without the header, before and after one that succeeds |
| `nonce_collision`, `exposure`, `real_loss`, `lost_rows` | a statement of the documentation that the code does not keep (section 5) | the smallest instances that show it |

Every bound is a constant named in its module (`MaxDay`, `MaxTrades`, `MaxIterations`, `MaxStarts`, `MaxBlocks`,
`MaxSwaps`, `MaxCloses`) and appears in a guard. Runs switch deadlock checking off where the system really may stop: at the last
bounded day, trade or block, or once the process is down for good. `gates`, `consensus` and `strategy` can always go on and check deadlock.

**Fairness.** `RiskChecker`: the ticker of the midnight task never stops, so `WF(MidnightReset)`. `Execution`: the
actor, the broadcaster call and the loop are tasks that run when they can, an RPC call returns, and `tokio::time::timeout`
fires, so `WF` on each; the chain is not fair at all, and a failed receipt lookup is never owed. `TradingLoop`:
`WF(MainTask)`, which includes the answer of the execution side, justified by `OrderAnswered`; neither the timer nor signals,
crashes, midnight and blocks are fair. `MarketData`: `WF(Poller)`, `SF` on the two reads, which says that neither call fails for
ever, and `WF(Notified)`, as `select!` takes a permit in the end; the event stream itself is owed nothing.
`Consensus`: `WF(Evaluate)`, as the loop evaluates again and again. `TradeGates`, `Strategy` and `Reports` have safety properties only.

Each property has a mutant in its module, marked "Mutant", that changes a definition the way a plausible bug would and makes TLC
find the property violated.

## 4. What is proved

TLAPS checks these for every value of the constants that satisfies the named assumptions.

`RiskCheckerProofs` (from `RiskConfig`): `TypeCorrect`, `PositionStaysWithinLimit`, `LossLimitHaltsTrading`,
`BreakerHolds`. The scalings are any set of naturals. The invariant is `IInv`: the position limit is not inductive, because `record_trade` adds to a
position that was checked earlier; `RoomForTrade` says that the room, under the scaling of that check, stays free between the two. The halt needs
`LimitAccounted` (the breaker is set, about to be set, or was cleared by a reset that losses straddled) for every
place of the caller, and `BreakerHolds` needs `ResetIsDue`, which ties a reset under way to a day after the last one.

`ExecutionProofs` (from `DispatchConfig`, `Retries`, `Chunks`): `TypeCorrect`, `MinedOnce`, `ActorNonceOwned`,
`FilledExecuted`, `ImplementsOrderLifecycle`, `AnswersComeCloser` and `PaperSignsNothing`. The invariant is the conjunction of
`HandOver` (the route says who works on an order, and nobody works without one), `OwnTrades` (transactions belong to
dispatched trades; an order not begun has none), `OneNoncePerTrade`, `ActorNonces` (the actor's nonce is above those of
the trades it is done with), `OneReceiptPerNonce` (the chain's side) and `AnswersTrue`. A trade is mined once because its
transactions share a nonce and the chain takes one per nonce; "filled" is true because it is only answered for a
receipt; every step maps to a step of `OrderLifecycle` or to a stutter because opened, closed and executed trades are
functions of the order counter, the answers and the ledger. `AnswersComeCloser` is the safety half of `OrderAnswered`:
`StepsLeft`, a natural, counts two steps for each attempt that is left or one for each chunk, and goes down at every step
but a block's as long as an order is out, whichever of them fail.

`TradeGatesProofs` (from `MempoolConfig`, `GatesConfig`): `TypeCorrect`, `QueueIsRecent`, `GasBudgetHolds`,
`GuardFollows`, `ChunksWorth`, every invariant of the `gates` run. The invariant has a half for each process, so that a
step of one leaves the other's alone. `Recent` states the queue place by place, which is what a push preserves;
`SwapsCounted` gives the swap that waits for the lock a sender. `GatesPassed` carries what the profitability gate
established to the cap: an edge of at least twice the costs leaves half of it for gas, so that the budget is positive
and the cap is never "none". `GuardFollows` is the monotony of each step of `assess` put together: quotient, impact,
score, risk, route. The chunks add up because they are equal (`SumConstant`). The arithmetic is over integers, so the
rounding of the code's `f64` is outside it.

`TradingLoopProofs` (from `LoopConfig`):
`TypeCorrect`, `PositionAccounts`, `TrackedExposureBounded`, `KillSwitchHolds`, `OrdersReported`, every safety property of the
`trading` run, with `PositionBounded`, `OneOrderOut` and `StopComesCloser`. The position alone is not inductive: an order is on the
chain before it is booked, and a restart replaces the counters by the file's. `PositionAccounted` adds what waits to
be booked, `RoomKept` bounds position, snapshot and file alike and keeps the room of the approved trade free while
the loop awaits its answer, `Saved` says that a graceful stop leaves what it had, `CallerInStep` ties the risk checker
to the place of the loop, and `HaltHolds` says that no reset is due for the rest of the day of a kill-switch.
The loop's actions take the steps of `OrderLifecycle` by name, so that to implement it shows nothing of the
loop; what the loop owes is never to be held up by them. `OneOrderOut` says so: the only order that is opened and not
answered is the one it waits for (from `OrdersInLine`: orders are numbered in turn and only the last is open). That the
execution side keeps its half is `ImplementsOrderLifecycle`. Orders interleave with midnights, signals and crashes: `lossy`
exempts what a crash lost, as in the run. `StopComesCloser` is the safety half of `SignalStops`: a process that was signalled
keeps the permit until it takes it, and its stages only go down, through the iteration in progress and the save; a timer
that wins over the signal costs one iteration and no more.

`MarketDataProofs` (from `MarketConfig`): `TypeCorrect`, `TickSurvives`, `NoSwapSkipped`, `DivergenceOnRecord`.
`TickSurvivesRestarts` speaks of a stream that has caught up; what carries it through the replays is `NothingSkipped`:
no swap lies between the tick and the last block applied, and no subscription starts beyond the next block, unless an
outage was too long. `DivergenceOnRecord` is the safety half of `DivergenceRestartsStream`: as long as a restart is owed,
`Notified` can be taken, so that its fairness is enough.

`StrategyProofs` (from `ConsensusConfig`, `SignalsConfig`, `StrategyConfig`) is about `Consensus` first: `TypeCorrect`,
`TradesBacked`, `NeitherFavoured`, the invariants of the `consensus` run. The invariant ties the decision to the votes at
hand (`Reached`). `TypeCorrect` needs that a value of every rank exists (`RankedIsOne`), which makes each volatility fall into
one regime. `TradesBacked` and `NeitherFavoured` have a hypothesis, `Majority`: `required_votes` is more than half of the
signals, as the shipped configuration has it (3 of 4, `config/default.toml:31`). The code does not check it; with 2 of 4
both sides can have their votes, and `evaluate` looks for buyers first (`engine.rs:89`). `TradesBacked` also takes no macro
regime that raises confidence (`NoneRaises`); the binary has none at all.

Then it is about the engine on the votes the signals compute, for all periods and all lengths of the series:
`StrategyTypeCorrect`, `ImplementsConsensus`, `BothWays`, `WhalesPull`, every property of the `strategy` run, and
`StrategyTradesBacked`. The invariant `StrategyInv` says among others that the closes that were read do not outnumber those
of the series, which never gets shorter: closes that were enough once are never too few again, as `Consensus` has it. `ImplementsConsensus` rests on the types of the four votes, which give every signal a confidence
in 0..1000 (the clamp of `SignalResult::new`), and of `atr_pct`, whose divisor is positive as closes are. `BothWays` has two
arguments. A series turned upside down exchanges RSI's gains and losses (`RsiFlips`). On a series that only rose the fast
average is never behind the slow one (`FastLeadsSlow`): where the slow one starts, as a mean, the fast one is ahead of it
(`AverageLeadsMean`), and a close that leads both moves the fast one further (`BlendOrder`). The averages are
recursive functions of the place in the series; the lemmas about them are proved by showing that the set of places
where they hold contains 0 and with each place the next (`NaturalsClosed`), a form of induction that takes no operator.
`WhalesPull`: a whale fewer takes volume from its own side and none from the other (`VolumeWithout`), and the share that
decides the vote is monotone in both (`FlowFollows`); `StrategyInv` carries that a whale of the context is a swap of the
queue on the side that was decoded (`WhalesOf`), while the queue grows.

`SumTheorems` is about `SumFunctionOnSet`, not about the code: what it is of a set with one more or one fewer member, that it
is a natural, monotone, and equal for equal functions. It rests on `MinimalSet`, induction over the subsets of a finite
set with a set of counterexamples in the place of a predicate, from the well-foundedness of strict inclusion.

`ReportsProofs` (from `LoggerConfig`, `ReportsConfig`): `TypeCorrect`, `FilesStayReadable`, `StartDayKept`,
`NewestRowFlushed`, `TradesAnnouncedFirst`, `AlertsPostedOnce`, every invariant of the `reports` run. The invariant speaks of each
file together with what the writer's buffer will add to it: `HeaderFirst` (a file without a failed flush begins with
its header, there or still in the buffer), `Files` (rows of the day, in order), `Newest` and `Kept`. `Buffered` says what
can be in the buffer at each place of `log`, which is where a failed flush loses it, and `Dates` why the writer's file is
the right one: it is never of a day before the logger's, and a row that waits for its write is of the writer's day.
`RowsInTurn` numbers rows and calls by their iteration; `RowsAnnounced` follows a trade's row from the call of `log` through
the buffer to the disk, or to its loss. An alert is posted once because a call in flight has not been taken and an iteration calls once (`CalledOnce`).

Only model-checked: the liveness properties `OrderAnswered`, `ResetFollowsMidnight`, `SignalStops`,
`DivergenceRestartsStream`, `CellsKeepUp` and `RegimeGateReopens`, which the prover cannot do under fairness. For three of them
the safety half is proved (`AnswersComeCloser`, `StopComesCloser`, `DivergenceOnRecord`); that a step which
brings the end closer is in the end taken is what TLC adds. Every other property of a passing run is a theorem.

## 5. Where code and documentation part

Shown by a run:

* `nonce_collision`: the actor counts its own nonce, the broadcaster asks the chain; both sign for the same one.
* `exposure`: an order given up after four attempts is answered as failed, not recorded, and mined later.
* `real_loss`: `record_trade` is always called with a PnL of 0.0, so the daily-loss breaker cannot trip.
* `lost_rows`: `log` compares with a date that is never updated, so that from the first midnight on every row empties
  the day's file and writes itself into it.

Seen while modelling, without a run:

* README:140 "Every loop iteration is logged" (also BUILD.md:79): iterations whose context fails (`bin/vertexa.rs:381`)
  and short fills (`:676`), which are trades, leave no row; a row whose flush failed is lost without a word
  (`event_logger.rs:114`); a build error (`:461`) is not notified. `OrderReportedOnce` does not ask for the missing row of
  a short fill and would hold if the code wrote one: it says that no order is logged twice or told of twice, and that
  every other order is logged.
* README:181-182 has the iteration log (11) and then notify (12); the code notifies first and then logs, on every way out,
  which is the order `TradesAnnouncedBeforeLogged` relies on.
* README's fixed regime thresholds apply to the first 49 evaluations only; then percentiles decide
  (`volatility_regime.rs:59`), so that a market that stays flat counts as trending. `log_regime` is never "Ranging".
* ARCHITECTURE "requires minimum votes": a plurality below `required_votes` also decides (`engine.rs:107`).
* The README's ratio of 1.5 is 2.0 in the loop, because the simulator's confidence is always Low
  (`simulator.rs`, `profitability.rs:52`). With the shipped slippages no split order passes that ratio, since a
  risk above 0.45 implies an estimated loss the edge cannot cover; the `gates` run uses a smaller slippage to reach it.
* `max_slippage_split` and `mempool_buffer_size` are read from the configuration and not used.
* `build_planned_trade` counts `amount_in` in wei of ETH for both sides (`bin/vertexa.rs:728`), while a buy pays in USDC.
* For the split route the same full-size transaction is submitted once per chunk (`broadcaster.rs:167-181`).
* `slot0` is polled every 12 s whatever the events do, and a slow answer overwrites a newer price. Mint and Burn logs
  are parsed as if their ticks were in the data, while the pool has them as indexed topics; nothing reads the result.
* Updates are per cell, so a context can mix two swaps (README: "atomically").
* The event logger creates the day's file with truncation, so that a restart loses the rows before it. A file that
  cannot be created panics (`event_logger.rs:45`), at a rotation also: the process ends without saving its state.
* Losses recorded between the two stores of a midnight reset lose their breaker (`checker.rs:235`), which
  `LossLimitHalts` exempts. The binary cannot get there, as its losses are always 0.
* A restart takes the day of the last reset to be now (`checker.rs:48`): with state saved before midnight and loaded after
  it, the loss and the breaker of the old day stay for the whole new one (ARCHITECTURE.md:149 "Resets daily loss
  counter at midnight"). A reset that is late clears a kill-switch of the new day (`checker.rs:236`). `KillSwitchLastsTheDay`
  and `BreakerHoldsUntilMidnight` claim nothing of either.
* An order whose sends all failed still spends its nonce (`actor.rs:257`), and later transactions wait for it.
* The gas cost handed to the profitability gate lacks the gas price (`bin/vertexa.rs:503`), and the gas
  estimator that README:58 names is not asked.
* The delay before a mempool connection doubles for the life of the process (`detector.rs:117`), as no connection resets
  it: after a few outages each costs half a minute.
* Swaps leave the mempool queue only when it is full (`guard.rs:37`): what was mined long ago still counts as a bot.
* Every update of a candle is pushed, while `is_final` is only logged (`price_feed.rs:57-71`): the periods of the
  indicators count updates, not minutes.
* The order book is made up from price and liquidity, alike on both sides (`ingestion/orderbook.rs`): its signal never
  votes. A swap is valued at the ETH it carries (`context_builder.rs:109`) and counts as a sale unless decoded as a purchase
  (`:118`), where BUILD.md:184 and README:114-121 have whales counted by direction: a purchase paid in USDC carries no ETH
  unless its sender adds some, so that it weighs nothing, and what could not be decoded weighs as a sale.
* Absorption sets the confidence of a one-sided flow to 0.9 (`onchain_flow.rs:69-75`), where ENHANCEMENTS.md:27 calls it
  a stronger signal. In a market that does not move, RSI is 100, a sale with confidence 1.0. RSI smooths the window it
  has just averaged once more, all of it but the first move.
* `backtester.rs:162-181` reads every value as a string, so that no `EventRow` loads (README:146). Its drawdown starts from
  a peak of 0.0, and a purchase over an open trade counts as a loss. `backtest_historical.rs:140` takes the larger of equity
  and capital, which hides open losses, and counts the last open position as a loss.

## 6. Not modelled, and why

The calldata of the swap builder (pure encoding; it can fail in the models) and of the simulator; calldata decoding in
the mempool monitor, which `Strategy` has as a free direction; the gas estimator (never consulted), the macro regime
client (never stores a regime); the map of ticks, the block number, the volumes of the series and
`VolatilityRegimeSignal` (nothing reads them); the reconnection of the price feed (no close arrives meanwhile); the
token amounts of a plan (section 5); `broadcast_public` and `simulate_bundle` (never called); the backtesters (offline
and sequential, without state that outlives a run).

## 7. Plan

Written, in this order: `RiskChecker` and its proofs, the execution side with `OrderLifecycle`, `TradingLoop`,
`MarketData`, `Consensus`, `TradeGates`, `ExecutionProofs`, `TradeGatesProofs`, `EventLogger` with `Reports`,
`VotingSignals` with `Strategy`, `ReportsProofs`, `MarketDataProofs`, `SumTheorems`, `TradingLoopProofs`, `StrategyProofs`. Next:

1. Proofs: what the loop keeps of a halt over a crash, by what has reached the file; the safety halves of the other
   liveness properties.
2. Composition of `TradeGates` with the actor: what an order pays for gas over its escalations stays within its cap.
