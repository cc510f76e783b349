# CryptoEdge: a TLA+ verification project

CryptoEdge is a Python trading program: a bot thread reads market data, looks
for signals and opens and closes positions, while an operator commands it from
an HTTP API and from desktop user interfaces. By default it trades on PAPER: its
own book stands in for the exchange. The path to a real exchange (BloFin) exists
and is switched off by `LIVE_EXECUTION_ENABLED`.

This directory models the parts of the program that decide what happens to
money when threads, messages and restarts interleave. TLC checks the models on
small instances, TLAPS proves the safety properties for all of them.

## 1. Inventory

| Component | State it keeps | Operations | Interacts with |
|---|---|---|---|
| Order record (`order_models.py`) | state, executed quantity, fill events, timeout flag | `transition`, `record_fill` | used by the executor only |
| BloFin executor (`blofin_executor.py`) | orders by client id | place, poll, refresh, cancel, emergency close | HTTP to BloFin; reconciler, recovery and ports call it |
| Risk manager (`risk_manager.py`) | halt and its reason, pause, reduce-only, slot counter, capital, day | halts, day change, booking, `can_open_position`, `apply_demo_capital` | shared by the bot and all commands, no lock |
| Paper trader (`paper_trader.py`) | the book, closed positions, limit queue, re-entrant lock | open, partial close, close, close all, limit queue, export and restore | risk manager, protection, reservations |
| Bot loop (`app.py`) | the kind of tick, cached prices and signals | watch, fast tick, full scan | everything |
| Runtime (`runtime.py`) | engine and trading flags | start, stop, pause, resume, close, kill, reconcile | HTTP threads and UIs call it, it calls the trader |
| Entry reservations (`entry_reservations.py`) | reserved slots with expiry | reserve, release | paper trader |
| Protection (`protection.py`) | attachment per symbol and side, kill flag, a file | attach, disarm, trail, replace at the exchange, kill | paper trader, recovery |
| Restart recovery (`restart_recovery.py`) | a report | load protection, restore, re-arm, reconcile, cancel orphans, refresh orders | all of the above, once |
| Position reconciler (`position_reconciler.py`), account sync (`account_sync.py`) | drift verdict, cached account | fetch, compare, confirm flat | executor, risk manager |
| Exit ladder (`v2_trade_lifecycle.py`, `exit_rules.py`, `Position`) | stages, stop, trail | decide, partial, tighten | paper trader, protection |
| Warm-up (`warmup.py`), backfill queue (`backfill_queue.py`), frame store | phases, queue and its memory | start, tick, enqueue, drain | bot loop, `start_trading` |
| Execution ports (`cryptoedge/execution`) | client ids seen | submit, reduce | runtime, trader |
| Candle feed (`blofin_ws.py`, `blofin_feed.py`, `market_data.py`, `disk_cache.py`, `market_store.py`) | last and last closed candle of the WebSocket, caches in memory and on disk, the store | push, reconnect, fetch (hit, delta, full), seed | scan and warm-up read it |
| Other feeds, signal engines, UIs, research tools, logging | tickers, scores, views | | not about state that money depends on |

What is hard in this code:

* **Interleavings.** Commands run in HTTP threads beside the bot, and screens sync the account. `trader.lock`
  guards closing and the append of a new position; the flags, the halt, the slot
  counter, the capital, the attachments, the warm-up and the kill flag are read
  and written without it.
* **Checks that age.** `open_position` asks the kill flag, then sizes, reserves,
  asks the risk gate and only then appends; `start_trading` decides on a reason
  it read before; the account sync writes back a capital it read before; the
  warm-up judges by the age it read at the start of its tick.
* **Uncertain calls.** A submit, a cancel or a protective stop may time out and
  still be carried out; a status row may be old, belong to another order, or lack
  its price; a missing answer about the account looks like an empty account.
* **Series from two sources.** Closed candles come from a push of the WebSocket or a
  page of a REST reply; either may be late, lost or half-seen, and a bar may end
  while a reply is under way.
* **Restarts.** A PAPER restart forgets the book but loads the attachments and
  the kill flag; a LIVE start restores a book that is older than its attachments,
  beside an account that moved on.

What must hold, by component: an order record never runs ahead of the exchange
and a settled one stays settled; a timeout is never a refusal; each realised leg
is booked once; a position that is open is watched by a local stop; a stop only
tightens and survives a restart; a kill stops entries and outlives restarts; a
halt is lifted by midnight only, and has a reason; a daily halt flattens the book; drift between book and account blocks entries and
passes; nothing is entered on cold data; a series of candles is closed, final and
without holes; every command returns.

## 2. Modules

| Module | Models | How |
|---|---|---|
| `OrderModel` | `order_models.py` and the row logic of `refresh_order` | pure operators on a record |
| `OrderExecution` | `place_order`, `_wait_fill`, `refresh_order`, `cancel_order` | `pc[o]` is the place of the handler between two HTTP calls; `post` and `cancel` are requests on the wire; `ex` and `exFilled` are the exchange |
| `OrderPromise` | nothing in the code: the abstract specification | what the holder of a record may rely on |
| `BookPromise` | nothing in the code: the abstract specification | what an account statement may show of the book |
| `SeriesPromise` | nothing in the code: the abstract specification | what a reader of candles may rely on |
| `RiskManager` | `risk_manager.py`, halt state, slots, capital | pure operators on a record, one per method |
| `HaltFlags` | the halt of `risk_manager.py` and its writers in `app.py`, `runtime.py`, recovery | the same methods, one unlocked read or write per action; `pc[c]` is the place of a thread between two of them |
| `PaperEngine` | `paper_trader.py`, `app.py`, `runtime.py`, with the parts of protection, reservations, account sync and recovery they use | composes `RiskManager`; `pc[c]` is the place of the bot or of a command thread |
| `ExitLadder` | one position after its entry: `Position`, `check_exits`, both decision functions, its attachment, a LIVE restart | prices in steps of profit; one action per handler under the lock |
| `LiveVenue` | LIVE: protection at the exchange, reconciler, kill and close_all, recovery, against an account others move | requests with four outcomes; `doing` is the stop that is being replaced, `cmd` the command that empties the account, `pc` the place of recovery |
| `EntryIntake` | warm-up, backfill queue, gate, limit queue and entries of a full scan; `start_trading` under its feet | `tick` is the bot, `starting` the half-done start |
| `CandleFeed` | the candles of one symbol and interval from WebSocket and REST to the store | a frame is a set of bars, some perhaps not final; `fetch[n]` is the place of the call for `n` candles between two requests |
| `MCOrderExecution`, `MCPaperEngine` | | symmetry and model values for TLC |
| `OrderExecutionProofs`, `PaperEngineProofs`, `BookPromiseProofs`, `HaltFlagsProofs`, `ExitLadderProofs`, `LiveVenueProofs`, `EntryIntakeProofs`, `CandleFeedProofs` | | theorems, section 4 |

### OrderExecution

`Faults` says what the exchange may do wrong: `stale` rows, `priceless` rows,
`word`s outside `BLOFIN_STATE_MAP`, `async` cancels (accepted, the order still
works for a while) and `gateway` errors (an error reply for a request that was
carried out). Lost and late requests, lost replies, and rows of other orders are
always possible. Quantities are whole contracts up to `Size`. An order is driven
by the one thread that placed it, as in the code; `RecoveryRefresh` is step 6 of
`RestartRecovery.run`, which compares `str(order.state)` with bare names and so
really selects the orders with the timeout flag. The three endpoints a status
query tries in turn only decide which of `Answers` comes back.

### PaperEngine

Trades are numbered in the order they are opened; `pos` keeps their history so
that properties can speak of the past (`late` marks a position appended after the
kill flag). A command is split where another thread can get in between:

* closing: wait for the lock, `TakeBook`, then for each position `CloseOne`
  (removal from the list) and `BookClose` (counter, disarm, capital),
  `ReleaseBook`;
* opening: `Look` (kill flag, counter), `Reserve` (symbol and slot), `RiskGate`,
  `Append` (needs the lock), `Void` or `Register`, `Attach`;
* `start_trading`: reading the reason (`StartTrading`), clearing (`StartClears`);
* `kill_switch`: halt and close (`KillSwitch`), then the flag (`KillFlag`);
* the bot's tick: the account sync, exits, `DrawdownCheck`, `DailyCheck`, `Scan`, the
  entries;
* the account sync of a fast tick (`TickStarts`) and of a screen that is refreshed
  (`RefreshScreen`): `BeginSync` reads the capital, `SyncAccount` writes it back.

The sync is part of the program, so the books are stated with it. `missed` counts the
legs booked between the two halves of a sync: by so many units the capital may be
off (`CapitalAddsUp`), however often a wrong capital is synced again, and `BookPromise`
allows exactly this. That a leg is really lost is `engine_lost_leg`.

A method of the risk manager is one step here, except the two reads of `start_trading`;
`HaltFlags` takes them apart. Also one step: `update_capital` writes `current_capital`
and then `paper_capital`, and a sync may fall between them; it then writes the old
capital, as it does when it reads before the leg and writes after it.

Money is counted in units: a leg earns or loses one. Prices do not appear; what a
price decides is a choice. Left out: LIVE branches, the drop-file `KILL_SWITCH`,
the kill reason `manual_close_all` that a PAPER restart clears (an API kill says
`api`), and `apply_demo_capital` when less than a dollar is left. Several entries
of the V2 engine per symbol and side are off in the default configuration (one
per swing), and so they are here.

### HaltFlags

`is_halted` and `halt_reason` are two attributes that the bot, the commands and every
reader of the status write without a lock. A raise writes the halt, then its reason:
`CheckDrawdown`, `BookLeg` (a leg that reaches the day's loss) and `KillSwitch`, each
followed by `WriteReason`, which overwrites the reason already there. A clear reads
first: `CheckNewDay` (is it a new day), `RollDay` (write the day, is the reason
daily), `Lift`, `ForgetDaily`; and `StartTrading` (is the reason hard), `StartFinds` (is
there a halt), `Lift`, `StartForgets`. Legs are booked under `trader.lock`, so one
thread at a time is in `booking`. `kill_switch` closes the book leg by leg and may
reach the day's loss itself: its halt is then a daily one. Which legs are booked and
how deep the drawdown is are a choice, so the model does not need the book; PAPER
and LIVE have all of this in common, only the orphan halt of `Restart` is LIVE.

`crossed` records that a raise was under way together with a clear. Then anything may
happen: a halt may end with no reason and a reason with no halt. The properties
speak of the rest, where the order of kills, losses, drawdowns, starts and midnights
is still free.

### ExitLadder

A price is a number of steps of profit from the entry, which makes a LONG and a
SHORT the same; distances that depend on volatility are a choice. `Quote` is
`update_positions`, `CheckExits` is `check_exits` for one of the four engines with
`decide_v2_lifecycle` (stop first) or `decide_price_exit` (partials first) and the
local emergency stop; time stops, invalidations and opposite signals are one
choice to close. The attachment follows the stop by the callback. `Restart` is a
LIVE start, which restores what an earlier session saved and re-arms it (steps 4a
and 4b of recovery); a PAPER start restores nothing. The restored position computes its
initial risk anew from the restored stop (`paper_trader.py:117-121`); here the risk that
scales the levels stays the same, which the properties of the stop do not depend on. Each handler runs under
`trader.lock`, so one action each.

### LiveVenue

LIVE opens no positions of its own: the simulator may not, and nothing else does.
So the model begins as a LIVE start with a restored book, and the account moves by
its owner, by working orders of the program (prefix `CE`), and by stops that fire.
A request is `ok`, `refused`, `silent` (done, not answered) or `lost`.

The update of a stop goes request by request: `Trail` or `Attach` sets the level in
memory (`Begin`), `Cancel` is sent and saved only if it is answered with ok, `Place` is
sent, `Answer` records and saves. In between stops fire, the account moves, and the
process dies: `Boot` takes the attachments from `disk`, where an unanswered cancel was
never noted, so such a stop is still reported (`ghosts`, `NoGhostStop`). The bot holds
`trader.lock` all the while. `close_all` and the last part of a kill wait for it
(`KillBooks`, `CloseAll`); the kill's requests do not (`EmergencyClose`). The halts are
in `HaltFlags`.

Assumed of
the environment: nobody but the program cancels its stops, the exchange keeps a
stop until it fires, one direction per symbol, no quantisation of prices. Two
things of the code show here: every recovery that sees a position ends with drift,
because the test for a missing attachment compares `(symbol, direction)` tuples
with `"SYMBOL:DIRECTION"` keys; and `fetch_open_orders` and `fetch_open_positions`
turn no answer into an empty list.

### EntryIntake

A warm-up's age is what it allows (`Young`, `Drains`, `Early`, `Due`). The tick reads
the age once and is split at every access to shared state: an enqueue asks the memory,
remembers the job, and appends it, as `backfill_queue.py` does without a lock.
`start_trading` resets the controller, then the queue, then its memory, in three steps.
The reset itself is one: the code sets `active` before it clears `ready`, and who reads
both in between sees a warm-up that has ended, as before the start. What is left to
choice: which coins a scan brings, whether fetches succeed, whether the feed is
healthy and the token bucket full, which signals come, and whether trading is on
(`PaperEngine` has the halts). The engine stays on and the V2 engine is active, so
the warm-up applies. The model shows three things a reader of the code may not
expect, and its properties name them as exceptions: a failed job is not queued again, so a warm-up may
wait for ever (`Lost`); a job queued between the two clears of a start, or remembered
before and appended after them, is forgotten while it waits and may be fetched twice (`torn`); a tick whose age was read before a start may end the new
warm-up (`WarmupIsOwn`); and a start between the two halves of a verdict leaves the
controller neither active nor ready, so the next gate lets the scan pass
(`GateHolds` counts it to the era it began in) and the scan after it begins anew.

### CandleFeed

Bars are numbered; `bar` is the one that is forming and `opened` the tick it began.
What indicators must not see is a bar that is not over, a bar whose copy lacks
trades, and a gap: so a frame is its set of bars and the subset `soft` whose
content may not be final. A cache key of the code names symbol, interval and number of
candles, and here is that number. `Look` is `fetch_klines_ohlcv` up to its first
request: the entry in memory or on disk, answered if young or if the token bucket
is low. Then follow pages (`DeltaPage` forward from the last candle, `FullPage`
backward from now), which may fail, and `EndDelta` or `EndFull` parse, join, keep and
publish in one step; the write to disk may fail. `Push` and `Trade` are `_store_candle`, which
closes a candle when the next one is pushed; a trade nobody is subscribed for makes the
copy of the WebSocket incomplete. `Stall` is a dead connection the watchdog has
not closed: it still counts as connected. The intervals are three kinds: `5m` (not on
disk, never too old), `15m` with 1H and 4H (both), `1D` with 1W (on disk only).
For 1W the code checks the end of the last candle with a default of one hour
(`market_data.py:18-37` does not list it); rows the exchange marks as forming are
dropped before, so `Settled` is right for it too.

Assumed: one call per key at a time; a call is shorter than a bar (each request has
timeouts); the clocks of program and exchange agree; the exchange has all bars. The
documentation of the exchange says that `before` asks for newer rows, the code takes
the reply's newest row for the next cursor: `NewestFirst` says whether a reply that
cannot hold them all leaves out the oldest. If it does, a delta of more than one
page has holes (`CandleNewestFirst.cfg`). A page has 300 rows; the V2 engine asks
for no more, the signal engine and the charts for 380. The run and
the theorems on holes take the exchange not to.

`SeriesPromise` forgets rows, requests and lifetimes: each key knows a series of closed
candles and has one on disk; the strategy is shown the series of one key, or that and
the candle that follows. A key learns a series that reaches as far as the old ones,
recalls the one on disk, or loses its memory with the process. `CandleFeed` is mapped to
it by the bars of each frame.

## 3. Runs

| Run | Instance | Shows |
|---|---|---|
| `order_honest` | 1 order, 2 contracts, no faults, fair | `KeepsPromise` (refines `OrderPromise`), `FilledIsComplete`, `SettledStays`, `HandlerReturns` |
| `order_uncertain` | 1 order, 3 contracts, stale, unpriced and unknown rows | `TypeOK`, `FillsBacked`, `NoBlindTerminal`, `FilledNeverShrinks` |
| `engine_kill` | 1 symbol, 2 trades with a partial, 1 midnight, 1 restart, syncs of the loop | `KillStopsEntries`, `KeepsBook` (refines `BookPromise`) |
| `engine_live` | 2 symbols, 2 trades, 1 commander, syncs of the loop and of a screen, fair | `TypeOK`, `CapitalAddsUp`, `ProtectedWhileOpen`, `DailyHaltFlattens`, `CommandsReturn` |
| `halt_flags` | the bot and 2 commanders, 2 midnights, 1 restart | `HaltExplained`, `HaltIsKept` |
| `exit_ladder` | all four engines, prices -3..5, 2 distances, 1 restart | `TypeOK`, `StopWithinReach`, `AttachedAsTight`, `StopOnlyTightens`, `RecoveryKeepsStop`, `StopIsHonoured` |
| `live_venue` | 1 symbol, 2 contracts, 2 stop levels, 2 moves of others, 1 restart, fair | `VenueTypeOK`, `ReportedStopRests`, `LocalStopKept`, `DriftIsNoticed`, `DriftIsForgotten` |
| `entry_intake` | 1 symbol, 2 frames, 1 start under the scan, fair | `IntakeTypeOK`, `FetchedOnce`, `WarmupIsOwn`, `GateHolds`, `WarmupEnds`, `LimitSettles` |
| `candle_feed` | 1 key of 3 candles, pages of 2, 3 kinds of interval, bars of 2 ticks up to bar 4, 1 restart | `CandleTypeOK`, `NoHoles`, `OnlyClosed`, `KeptIsFinal`, `KnowledgeGrows`, `KeepsSeries` (refines `SeriesPromise`) |
| `engine_halt_cleared`, `engine_lost_leg`, `venue_flat_unknown` | smallest that shows it | three disagreements of the code with its own words, section 5 |

**Bounds.** No action of `OrderExecution` touches two orders, so one order shows
all behaviours of the handlers. A partial fill needs two contracts, a row older
than a booked partial fill three. In `PaperEngine` every race is between the
bot and one command, or two threads over one lock; a second commander repeats what
the first does. Two trades are needed for a position to meet the remains of an
earlier one, two symbols for two open positions. `DailyLimit = 1`: one losing leg
halts the day, also one a command closes while the other position stays open. Stages
is 1 in `engine_kill` and 0 elsewhere. Each engine run names the commands it lets the
operator give; together they give all of them. Two more bounds keep the runs short:
in `engine_kill` a command that only sets a flag is given before or during the first
entry (`FlagsEarly`), in `engine_live` a screen is refreshed before the second position
is opened (`RefreshesEarly`; the loop syncs at any time). The proofs know no such
bound. In `HaltFlags` a raise and a clear meet with two threads; the third is the next
Start, or a reader of the status. Two midnights tell a halt of an earlier day from
one of this day.
In `ExitLadder` the prices reach both sides of every level, and two distances are
a volatility that changes. In `LiveVenue` symbols share only the commands, the
drift verdict and the one update at a time, each a disjunction over symbols; two contracts tell a wrong size from a
missing position, two stop levels a replacement from a placement, one restart
finds every place between two requests and saves. In `EntryIntake` two frames make a pair half ready,
`MaxJobs = 1` makes a drain stop before the queue is empty, one start meets every
point of the scan. In `CandleFeed` keys meet in the store only; three candles in
pages of two need a second page, both ways; two ticks a bar put the lag and the
slack inside a bar; bars 2 to 4 let an outage miss a whole bar, a fetch span the end
of one, and an entry grow too old. `Newest < MaxTrades` and the day, boot, start and move bounds
stop the instances, and a settled order has nothing left to do, so the runs do not
ask about deadlock.

**Fairness.** `OrderExecution`: each HTTP call has a timeout and `_wait_fill` a
deadline, so a thread inside a handler goes on (weak fairness of `HandlerStep`);
the exchange and the operator owe nothing. `PaperEngine`: a thread goes on with
what it began (weak fairness of `Proceeds` and `BotProceeds`); a thread that keeps
asking for `trader.lock` gets it (strong fairness of taking it). `threading.RLock`
promises no order, but every holder lets go after one command and the bot sleeps
between ticks, so nobody can hold it against a waiting thread for ever. The loop
comes round while it is on, with fresh prices at least now and then (strong
fairness of the managing ticks): with a dead feed the daily halt really does not
flatten anything. `LiveVenue`: the loop reconciles again and again and the exchange
answers again and again (strong fairness of `Reconcile(TRUE)`; restarts interrupt
it); an update and a recovery run on (weak), and so does a command, whose kill gets
`trader.lock` from a bot that trails again and again (strong fairness of `Commands`). `EntryIntake`: the loop
and time go on, `start_trading` returns (weak fairness of `Tick`, `Scan`,
`TimePasses`, the clears); no scan has signals without end (strong, `ScanEnds`); the
bucket refills and the feed is healthy again and again (strong, `DrainGoes` and
`Judge(TRUE, TRUE)`).

**Symmetry** over symbols, which are only compared, is used in `engine_lost_leg`, which
checks an invariant.

## 4. Proofs

The theorems hold for every value of the constants within the named assumptions:
any number of orders, symbols, commanders, trades, contracts, levels, restarts.
The argument is the same each time: a property alone says too little of the states
between two steps of a handler, so it is strengthened to an inductive invariant,
checked by TLC first; then one step of the proof per action.

* **`OrderExecutionProofs`** (`SizeAssumption`, `FaultsAssumption`, any faults):
  `TypeCorrect`, `FillsAreBacked`, `FilledIsMonotone`. `FillsBacked` needs the types
  (an own row never exceeds `exFilled`) and that a foreign row does not match: the
  invariant is `Backed`, the work is in the lemmas on `ApplyRow` and `Refreshed`.
  Without `gateway` and `async` faults: `CallsAreNotBlind` (what a handler knows at
  each HTTP call, `NoBlindInductive`) and `TimeoutIsNotFailed`, which rests on it. The
  assumption is needed (`OrderGateway.cfg`). Without `priceless` faults:
  `FilledMeansComplete`, even with stale rows, and `PricedFillsAreBooked`: such a record
  lacks nothing the exchange executed. For a `Truthful` exchange (only `priceless` faults) `SettledIsFinal`, and
  `ExecutorKeepsPromise`: the refinement. `SettledOf` is why: a settled record
  says what the exchange's order became, and an accepted cancel means that it was
  canceled. A step of the executor is then a lost request, an abandoned order or a
  record that learns; a step of the exchange is progress or a stutter.
* **`PaperEngineProofs`** (`EngineAssumption`, `RiskAssumption`): `EngineTypes`,
  `OpenIsProtected`, `KillStops`, `OnePositionASymbol`. The invariant `EngineInv` says
  that a thread inside a locked section holds the lock and closes only what is
  open, that a half-closed position is the one the holder books, that no symbol has
  two live positions (the reservation covers the gap between check and append), so
  a late disarm takes nothing from a newer position; and that the entries past the
  kill check when the flag rises are at most one, the bot's.
  `PositionsWithinLimit`: between the gate of the risk manager and the append a place stays
  free for the entry (`SlotsKeptFree`), because only the bot opens and `Reserve` counts book
  and reservations; neither the counter nor the expiry of reservations matters.
  `HolderGoesOn` and `HolderGetsDone` are the safety half of `CommandsReturn`: the holder
  of the lock always has a step, each lowers `StepsLeft`, no other thread raises it.
  `AttachmentStaysOwn` says what is true of `AttachmentIsOwn`: without closes by hand and
  restarts.
* **`BookPromiseProofs`** (the same): `BookKeepsPromise`, the refinement
  of the book, with account syncs. `BookInv` adds to `EngineInv` that only the bot checks
  exits, so an entry that may still be taken back has earned nothing, and that a
  half-closed position waits for one leg. A partial is then `Earns`, the end of a close
  `Settles`, the append `Opens` (its symbol is free by `OneASymbol` and the lock), a
  void `TakenBack`, a restart `Forgets`, the halves of a sync `BeginsSync`
  and `EndsSync`; every other step is a stutter. The invariant for the capital, `AllNear`, says
  that all numbers a sync can write are off by at most `missed`: `profit`, `paper` and
  what each syncing thread has read. `CapitalIsTheSum` is that for `profit`.
  `SumFunction` unfolds to a recursive function on the subsets of a finite set; that
  changing one summand changes the sum by as much is shown by the least size of a
  counterexample, which needs no induction theorem with an operator.
  `NoLegLostUnlessOvertaken`: no leg is lost unless one was booked beside a sync.
* **`HaltFlagsProofs`** (`HaltAssumption`, any threads): `HaltsAreExplained`,
  `HaltsAreKept`. While nothing has `crossed`, a halt that is being written stands and
  nobody is about to lift one (`Raised`); a reason without a halt is one that a thread
  has just lifted and is about to forget; and each thread between two writes knows
  what it has read is still so: the reason it lifts is daily and of an earlier day,
  or there was no halt.
* **`ExitLadderProofs`** (`LadderAssumption`): `LadderTypes`, `StopsStayBehind`,
  `AttachmentFollows`, `StopsOnlyTighten`, `RestartsKeepStops`, `StopsAreHonoured`. The
  invariant `LadderInv` adds to the types where stop, trail and best price lie
  (`Sane`), also in what was saved (`SavedIsBehind`). `StopsAreKeptUntilRestart` (until
  then attachment and stop agree, `InStep`), `V2WaitsForTp1` (also in what was saved) and
  `StopTpCountsOutsideV2` are what is true of three sentences of section 5.
* **`LiveVenueProofs`** (`VenueAssumption`): `VenueTypes`, `ReportedStopsRest`,
  `LocalStopsKept`. The invariant `VenueInv`: what the protection file reports rests, has
  fired or is a ghost (`FileRests`); memory differs from the file only for the symbol
  whose stop is being replaced (`FileInStep`), so a crash anywhere in a replacement
  leaves a true file; ids of stops come from a counter, so a cancel by id takes only
  the stop it names; attachments are not behind the book, nor the book behind what was
  saved (`StopsInOrder`), and until it is re-armed the book is a restored one
  (`BookIsRestored`). `SilenceBlocksHeldBook`: an unanswered query blocks entries if the
  book holds anything.
* **`EntryIntakeProofs`** (`IntakeAssumption`): `IntakeTypes`, `FramesAreFetchedOnce`,
  `WarmupsAreOwn`, `TheGateHolds`. The invariant `IntakeInv`: what is queued or was
  tried is remembered, but for the jobs of `torn`: queued between the two clears of a start, or
  forgotten by it before they were queued; a tick's
  age is that of the warm-up it saw, or an older one; a scan past the gate began
  when nothing was warming. `ParkedLimitsRunOut` is the safety half of `LimitSettles`: a
  deadline only comes nearer, and each look at the queue clears what is past it.
* **`CandleFeedProofs`** (`FeedAssumption`): `CandleTypes`, `ClosedCandles`,
  `FinalCandles`, `Knowledge`, and with `~NewestFirst` `UnbrokenCandles`. The invariant
  `FeedInv` follows a call from its beginning: the entry it began with is still the
  cached one, the disk is not ahead of the memory, the bar a row was forming in is
  this one or, in a call older than this bar, the one before (a call is shorter than a
  bar), so parsing drops every such row; and a full fetch reaches as far as the
  entry it replaces. Holes need more: the rows of a delta begin right behind the
  entry, those of a full fetch have none, and the candle of the WebSocket goes only
  right behind the last. `FeedKeepsPromise` (with `~NewestFirst`) is the refinement: the end
  of a call is `Learns`, or a stutter if it got nothing; a look at the entry and the seed
  are `Recalls`, a bar that ends is `BarCloses`, a restart `Restarts`; pages, pushes and
  trades are stutters.

Only model-checked: liveness under fairness and ENABLED, which the prover cannot
reach (`HandlerReturns`, `DailyHaltFlattens`, `CommandsReturn`, `DriftIsNoticed`,
`DriftIsForgotten`, `WarmupEnds`, `LimitSettles`). Every safety property of a passing
run is proved.

## 5. Where the code and its words disagree

Runs that end with a counterexample:

* `engine_halt_cleared`: Start "must never clear" a hard halt, but a halt written
  between its two reads is cleared.
* `engine_lost_leg`: each leg is booked when it fills, but the account sync of a
  fast tick writes back the capital it has read before, and the leg booked in
  between is gone.
* `venue_flat_unknown`: no answer "is no proof of a flat account", LIVE fails closed:
  the client answers an unreachable endpoint with an empty list, and a flat book
  then counts as in sync.

Further disagreements the modules state as properties, each with a configuration
to run by hand (`tlc -config <cfg> <module>`):

| Property | Configuration | What happens |
|---|---|---|
| `OrderExecution.TerminalIsFinal` | `OrderExpired.cfg` | EXPIRED is listed as terminal; an unanswered refresh moves it to UNKNOWN |
| `OrderExecution.NoBlindTerminal` | `OrderGateway.cfg` | any error reply that is not a network error becomes REJECTED, though the order may work |
| `OrderExecution.FilledLacksNothing` | `OrderPriceless.cfg` | an increment without a price waits for the next query, but the same row may move the record to FILLED, which is not queried again |
| `HaltFlags.HaltHasReason` | `HaltReason.cfg` | a kill that meets midnight's clear ends halted without a reason; the next Start would lift it |
| `HaltFlags.KillHaltStays` | `HaltKill.cfg` | the kill closes a losing leg, the daily halt overwrites its reason, midnight lifts it: of the kill only the flag stays, which still stops entries |
| `PaperEngine.NothingOpensAfterKill` | `EngineKillLate.cfg` | an entry past its last check is appended after the kill |
| `PaperEngine.AttachmentIsOwn` | `EngineStaleStop.cfg` | a later position inherits the structural stop of an earlier one |
| `ExitLadder.PersistedStopKept` | `ExitStopWeakened.cfg` | a persisted stop is "never weakened with an older position snapshot" (`restart_recovery.py:198`): recovery keeps to it, but the first tightening of the restored position sets the attachment to the snapshot's stop plus a step |
| `ExitLadder.TrailsAfterTp2` | `ExitTrailsEarly.cfg` | V2 trails after TP1 already, a partial sets the trail |
| `ExitLadder.StopTpCounts` | `ExitStopTp.cfg` | the take-profit `on_engine_stop` sets is never looked at for V2 |
| `LiveVenue.NoGhostStop` | `VenueGhost.cfg` | a cancel is carried out and not answered, the process dies before it saves the new stop: after the restart the attachment reports the cancelled one |
| `EntryIntake.NoLateFill` | `LimitLate.cfg` | a limit past its deadline that was not cancelled in time is filled when its price is touched |
| `CandleFeed.StoreIsFinal` | `CandleHalf.cfg` | the last closed candle is "safe for indicators" (`blofin_ws.py:267`), but after a reconnect it is what was seen before the outage |
| `CandleFeed.CloseIsRemembered` | `CandleForgotten.cfg` | a closed candle is "not something that should expire": after 30 seconds it does, and the next call publishes a frame without it |
| `CandleFeed.OldBeatsNothing` | `CandleNothing.cfg` | "an old list is better than an empty one" (`disk_cache.py:3`): when delta and full fetch get no answer the caller gets nothing although there is an entry |
| `CandleFeed.NoHoles` | `CandleNewestFirst.cfg` | what would happen if the exchange answered `before` with its newest rows |

Theorems bound most of these: what the sentence says does hold short of the case the
counterexample needs. A leg is lost only beside an account sync
(`NoLegLostUnlessOvertaken`); a hard halt is lifted only by a Start or a midnight that met
it half-written, or as a daily one by the next midnight (`HaltsAreKept`); a reported stop is
missing only after an unanswered cancel and a crash (`ReportedStopsRest`); silence passes for a flat account with an empty book only
(`SilenceBlocksHeldBook`); an attachment outlives its position only after a close by hand
or a restart (`AttachmentStaysOwn`); a stop is weakened only after a restart
(`StopsAreKeptUntilRestart`); V2 never trails before TP1 (`V2WaitsForTp1`) and is the only
engine to ignore the take-profit of an engine stop (`StopTpCountsOutsideV2`); an executed
quantity is lost through rows without a price only (`PricedFillsAreBooked`); a late limit
is filled at the first look after its deadline or not at all (`ParkedLimitsRunOut`).

(`OrderExecution` is run through `MCOrderExecution`, `PaperEngine` through
`MCPaperEngine`.)

## 6. Not modelled, and why

* The fill ledger and the order lifecycle of `cryptoedge/execution`: nothing in the
  running program creates one, only tests and the offline fill gate.
* Sizing, correlation, portfolio limits and the signal engines: floating-point
  arithmetic over market data without concurrency. The models let every answer of
  theirs happen. Together with the user interfaces, backtests, replay, research
  tools and tickers they are most of the program's lines, which is why the map covers
  only a small share of the files: what is mapped is the part that keeps state
  about money.
* Of the feeds, tickers, order books, the Binance and Bybit clients, the retries and
  cooldowns inside one request; and the event bus: transports whose loss shows in
  the models as prices that are not fresh and fetches that fail. What is sent to
  the screens is not read back. Two threads that fetch the same key at once are left
  out: the one that ends later may put an older frame over a newer one.
* The HTTP transport of the API, settings, secrets, logging, telemetry: input and
  output.
* Left out of modelled parts: take-profits kept locally or at the exchange as an
  option, quantisation of prices, the margin call, fees, request signing, the
  paper port's own answers to repeated client ids, several V2 entries per symbol,
  and `confirm_flat`'s verdict, which no caller acts on.

## 7. Plan

Done: orders, the book and the candles with their refinements, the engine, the halts, the exit ladder, the LIVE venue,
the intake of entries, and the safety theorems of all of them. What a next step
could take up, in this order:

1. LIVE entries, once the program opens positions through the executor: then
   `OrderExecution` and `LiveVenue` compose over `acct` and `working`;
2. the fill ledger with its deduplication, once the running program uses it;
3. the token bucket and the feeds' reconnection as a source of the fairness that
   `EntryIntake` assumes, and `CandleFeed` with concurrent calls for one key.
