# Verification of the corridor trading system

This directory holds TLA+ models of the corridor strategy of this repository (`corridor/`,
`weekly_corridor/` and the `run_*.py` scripts): a program that keeps a small book of SPX
butterflies centred on the market, on history (`run_backtest.py`) and on an Interactive Brokers
paper account (`run_paper_corridor.py`). The models are checked with TLC on small instances,
and the properties that matter most are proved with TLAPS for every instance.

Run a model with `tlc -config <Run>.cfg <Module>.tla` and check proofs with
`tlapm <Module>Proofs.tla`. `PROJECT.json` maps every definition to the lines it stands for.

## The system

| Component | State it keeps | Operations | Interacts with |
|---|---|---|---|
| Corridor state machine (`corridor/strategy/corridor_state_machine.py`, `models.py`) | control state, active layers, layer ids, drift count, session and its filters, dates of last entry, take-profit and rebuild | `process_bar`, `flatten_positions`, `close_layers`, `sync_session_context` | called once per bar by the backtest and by the paper runner, which carry out the actions it returns |
| Drift and abort rules (`recenter_rules.py`) | none | `evaluate` | called by `process_bar` |
| Regime detector, center estimator | none | statistics over the last bars | their results are inputs of `process_bar` |
| Backtest engine (`corridor/backtest/engine.py`) | open layers with entry cost and marks, actions, realized results | `run`: protective exits, machine, entry gates, rollback of refused entries, ledger | replaces `process_bar` by an exit on the bar where one fires; edits the machine's context |
| Paper runner (`corridor/execution/paper.py`) | tracked positions, halt flag, history, recovery file, smoke sleeve, report state | start, replay, restore, `poll_once`, orders, account refresh, retries, snapshot | owns a machine, sends combo orders, reads the account, writes files |
| Combo order chase (in `paper.py`) | current attempt and limit, the trade it watches | `_place_combo_order_with_chase` | the broker, asynchronously |
| Paper diagnostics (`paper_diagnostics.py`) | counters per event, session validity | `emit_*` | called by the runner |
| Discord reports (`discord.py`, in `paper.py`) | dates and signatures of sent reports | schedule, send | called by the snapshot |
| Options (`corridor/options/`) | caches | candidate selection, pricing, chains | called by the runner and the engine |
| Backfill (`corridor/data/massive_options.py`) | contracts file, part files, checkpoint, dataset | `backfill_massive_spx_options`, resumed or started over | the data service; its earlier runs, through the files |
| Flat-file backfill, loaders | one file per day | downloads | offline |
| Weekly corridor (`weekly_corridor/`) | its own state machine, one campaign per week; the backtest's ledger | `process_bar`, weekly backtest | independent of `corridor/` |

`.vendor/`, `research/`, `legacy/`, artifacts and data files are left aside.

### What is hard in it

* **Sequences.** Eight ways to open or close layers change the book, the control state, the
  drift count and three session dates separately. Whether they still agree depends on the order
  of bars over several sessions, which unit tests sample thinly.
* **Asynchrony.** An order is answered by the broker when it likes; cancelling is a request. The
  chase looks only at its last attempt, and its caller only at the trade it is given.
* **Two records of the same thing.** The machine's layers, the runner's positions, the account
  and the recovery file each say what is open. The machine changes its mind before the order is
  sent, the account before the runner learns of it, and the file last of all.
* **Crashes.** The process can stop between any two of these changes, also inside an order and
  inside the write of the file, and has to start again from the account and the file.
* **Retries and liveness.** A close that finds no buyer is retried only under some conditions; the
  backfill counts errors and rate limits apart.
* **Engines that look at differences.** Both backtests learn what a machine did by comparing the
  ids of its layers before and after a bar, while gates edit the book in between, or a bar both
  closes one week and opens the next.

`PROJECT.json` lists these hazards at their lines, with the properties that cover each.

### What makes each component correct

* Machine: state and book agree; never more layers than the cap; nothing open outside the window
  unless held overnight; rebuilds are earned and spaced; a take-profit ends the session; one
  batch of additions per session; the returned actions say exactly what changed.
* Chase: at most one order works that was not told to stop; limits stay in their bounds and
  never move away from the market; the caller is answered after a bounded number of steps, and
  "filled" is true; what one signal trades is bounded.
* Runner: its positions are what the account holds or the difference is noticed, and only a trade
  behind its back makes one; between two polls the recovery file is current; no position is forgotten, and each one that was given up is closed in the end; ids stay unique over
  restarts; a halted runner sends nothing.
* Engine: a refused entry leaves state and book in agreement; ledger and actions account for the book.
* Weekly: one campaign a week, within its week, with limited adjustments, held its minimum; the
  ledger misses nothing.
* Backfill: what is counted as completed is stored; a complete dataset covers its contracts, and for a
  single request is exactly what was asked for; every run ends.

## The modules

`LayerBook`, `OrderAttempt` and `WeeklyCampaign` are abstract specifications; `MC*` choose small
inputs for TLC; `*Proofs` and `PaperRunnerTypes` hold the theorems; the others are the program.

    LayerBook       <--implements--  CorridorMachine  <--extends--  PaperRunner, BacktestEngine
    OrderAttempt    <--implements--  ComboChase        (PaperRunner's orders behave as OrderAttempt)
    WeeklyCampaign  <--implements--  WeeklyMachine    <--extends--  WeeklyBacktest
    ChainBackfill

### `CorridorMachine`

One action per branch of `process_bar`, with its whole body: the session context is updated in
every action (`UpdateSession`), the assessment of the bar is evaluated where the code does it,
and the returned actions appear as `toClose` and `toOpen`. `FlattenPositions` and `CloseLayers`
are the two calls made instead of `process_bar` when a protective exit fires; which exit fires
depends on option prices and is free.

| Code | Model |
|---|---|
| `context.state`, `drift_count`, `next_layer_id`, `last_rebuild_at`, the session dates | `state`, `drift`, `nextId`, `lastRebuild`, `session`, `lastEntry`, `lastTakeProfit` |
| `context.active_layers` | `layers` (ids; the list order is the order of the ids) and `primary` |
| `current_center is None` | `~ centered` |
| `step.actions` | `toClose`, `toOpen` |
| time of a bar | a slot; `Day` and `Slot` give the New York date and time |
| close, center estimate, regime metrics | a record `Bar` of a distance and of thresholds reached |

Prices, strikes, profit and the wording of actions are left out. The whole configuration that
influences control is a CONSTANT.

### `ComboChase`

`_place_combo_order_with_chase` against a broker that fills one butterfly at a time, refuses and
cancels when it likes, and whose `Report` reaches the runner any time it sleeps. The limits are
computed in cents from the quote (`FirstLimit`, `NextLimit`, `MaxDebit`), rounded where the code
rounds and half a cent to the even one (`Cents`). Half a cent is seldom exact as a floating-point number, whose
error then decides; the quotes of the runs avoid such amounts, and the proofs
use only that rounding moves an amount by half a cent at most. `result` is what `_open_position`
and `_close_position` conclude from the trade they are given. `Place` is `_place_combo_order_once` as it
is called with all its arguments; that `_invoke_place_combo_order_once` calls it again without quantity and sleeve
after a `TypeError` (`paper.py:2660`) serves replacements of the method that take three arguments, as
`tests/test_paper_runner.py` installs them, and is left out.

### `PaperRunner`

The machine with everything around it. A poll is a sequence of steps: bars are fed to the machine
(`FeedMachine`, or `ExitOnSignal` when the tracked primary gives an exit signal), each action of a
bar is carried out by itself (`HandleClose`, `HandleOpen`), and the poll ends with the comparison
with the account and the write of the file (`EndPoll`). Between any two steps the process can
stop; `Start`, `SeedBar`, `BeginWithFile` and `FailToStart` are the way back. Each order is
filled, or not filled (as `OrderAttempt` allows), or interrupted by a crash with the trade done or
not; an order that was given up may trade later (`LateTrade`).

| Code | Model |
|---|---|
| `self.positions` | `positions`: contract, whether it was opened as PRIMARY, day, and `asked`: no close, one that a dry run only recorded (`close_requested_at`), or one that was sent (`close_order_id`) |
| `paper_execution` | `paper`, chosen among `Modes` at each start; without it a process is a dry run |
| `execution_halted_reason` | `halted` |
| `self.machine` | the variables of `CorridorMachine` |
| `ib.positions()` | `held`: butterflies by contract |
| recovery file | `saved` ("none", "saved", "torn") and `file` |
| where the program is | `pc`, `bar`, and what is left of `toClose` and `toOpen` |

Abstractions: one butterfly per layer; the account is counted in whole butterflies of a few
contracts instead of legs (two positions may share one, which is what matters for the flat
confirmation); whether the wall clock is past the window, and which positions still wait for their
next retry, is free in every poll without new bars, since bars may be late (`RetryCloses`), so that
positions of the machine's present layers can be closed as well; an exception of the broker ends the
process and is a `Crash`; positions traded by hand in the account are left out. `unsure` is not in the
code: it remembers that the account changed behind the runner's back since the last comparison.

### `BacktestEngine`

`CorridorBacktestEngine.run` around the machine. `TakeBar` lets the machine act and compares the
book with its copy (`before`); each gate (`StartGate`) judges the opened layers in the order of
their ids, keeping (`Keep`) or refusing them (`Refuse`); `BookBar` books entry costs and results. The
three gates of the code differ in what they look at, which is free, and not in what they do; at
most two run on one bar, which is the CONSTANT `Gates`. `Refuse` removes the layer and its action
and, as `_rollback_filtered_entry_state` does, takes the control state back only when the refused layer
was a primary and nothing is left. `ledger` is the set of layers with an entry cost and no result.

### `WeeklyMachine` and `WeeklyBacktest`

One action per branch of the weekly `process_bar`. A bar of a new week closes and resets first and
then may deploy at once, so the actions read the context through `StateIn` and `SameWeek`. A time is a
week, a weekday and a slot; the feed may miss any bar. `DteLow`, `HeldLong` and `WeekEnds` are the
three exits in their order. `DteBuffer` is `default_dte - min_remaining_dte`, all that matters of the two. With
the default configuration the forced exit always comes first; the run uses smaller limits so that the
other two exits happen as well. `WeeklyBacktest` adds what the engine learns from comparing ids:
`priced` and `realized`. The setting `min_hold_trading_days` is read by no code; `HoldsItsMinimum` says
under which settings (`Patient`) the rest of the configuration keeps it.

### `ChainBackfill`

The steps of `backfill_massive_spx_options` over a directory. A process ends between any two steps or while
a file is written; a csv file that ends early can be read as far as it goes, a parquet file or a
checkpoint cannot be read. Each start is for one of several requests, resumed (`Resume`) or with
`--no-resume` (`StartOver`). The disk is `listed`, `list` (contracts file), `rows`, `unreadable` (parts), `saved*`
(checkpoint) and `dataset`; the rest is lost when the process ends. `startedOver` is not in the code: it
marks a directory in which a run with `--no-resume` has not yet written a checkpoint, where the
properties do not hold (below). Every page of the list of contracts and the bars of every contract are a
request with retries of its own (`Requesting`, `RetryError`, `RetryRateLimit`, `GiveUp`). A row stands for a contract's history, which may be empty.

## The runs

| Run | Question | Bounds |
|---|---|---|
| `machine_intraday` | Do the book, drift, rebuild and session rules hold in every order of bars and exits? Does every drift and requested rebuild end? | two sessions of nine slots, ladder of two, 27 kinds of bars |
| `gate_overnight` | Do state, book, ledger and actions agree however layers are refused? One batch per session? Does the engine implement `LayerBook`? | three sessions, cap three, edge layers and daily additions, one blocked day, two gates, exits of single layers |
| `chase_orders` | Is every interleaving of chase and broker safe? Does it implement `OrderAttempt`? Is the caller always answered? | quantity two (partial fills), three attempts, three quotes, both sides |
| `runner_poll` | Do positions and account agree; is nothing forgotten; is the recovery file current; are ids unique; does a halt hold; what makes a difference? In paper mode, as a dry run, and across a restart in the other mode | two layers, two contracts (interchangeable: symmetry), three slots, one fault: a late trade or a crash (`MaxFaults`) |
| `runner_liveness` | Is every position that was given up closed in the end? | one layer, one session of six slots |
| `weekly` | Are week, ledger, adjustments and holding time kept; does the machine implement `WeeklyCampaign`? | three weeks of five days with four slots, the last week with an event, three prices, two centers |
| `backfill` | Is anything lost; does a complete dataset cover its contracts; does every run end? | three starts, two requests with three and two contracts (one shared, one without a window), batches of one or two, two pages, two errors and one rate limit per request to the service |

Why the bounds are enough. Distances and tolerances matter only through five comparisons, and
`MCBars` has a bar on each side of each. A drift needs two bars and a rebuild a third; a session
of nine slots leaves room for two rebuilds, so that a cooldown of five slots, more than the three
bars a rebuild takes at least, decides when the second may come; the second session shows what
the first one leaves behind (a take-profit, a gap day, a date of entry). With positions held overnight
three sessions add one that blocks entries between two that do not. A cap of three is the
smallest at which ladder, daily batch and edge layer can compete, and two gates are as many as the code
puts in a row. The chase needs a first, a middle and a last attempt, and two lots to be partly filled.
The runner needs two layers for one action of a bar to disturb the other, two contracts for positions
that share one or do not, and one fault: a second crash meets only states that `Start` reaches after
the first, and for any number of both the properties are theorems. Its short run has no bars that only
postpone an entry, or ask for a rebuild or refuse it (`MCShortBars`); `runner_liveness` has them. The weekly run needs a
week that follows one without a forced exit, and a third that may not be entered. Three starts of the
backfill are an early end, a second one while the first is repaired, and a run that completes.

`CHECK_DEADLOCK FALSE`: the feed ends at the horizon, a chase ends, a runner that halted or
crashed for good stays where it is, and a backfill is not started for ever.

### Runs that show a disagreement

| Run | What the code does | Who says otherwise |
|---|---|---|
| `gate_ladder` | a ladder refused primary first leaves the machine ACTIVE_CENTERED without a layer, and no entry follows until something ends that state | `tests/test_backtest_execution_gate.py` |
| `chase_overfill` | an attempt that fills while it is cancelled is followed by one for the whole quantity | help of `--quantity` |
| `runner_last_entry` | a restart with positions overwrites the restored session of the last entry | `tests/test_paper_runner.py` |
| `runner_start` | an account without options passes the startup guard whatever was restored | the guard's own message |
| `backfill_requests` | a contracts file that was cut short, or left by a run for another request before its first checkpoint, is taken as this request's enumeration | description of `run_massive_spx_backfill.py` |

More was met while modelling and has no run of its own:

* With individual exits, a rebuild opens layers in a session whose take-profit was to block entries
  (`corridor_state_machine.py:208`); `TakeProfitBlocks` therefore assumes that exits follow the primary.
* An aborted corridor re-enters on a bar that itself meets an abort condition, since the state turns
  IDLE after the bar was assessed (`corridor_state_machine.py:104`).
* The first limit of a BUY is not cut to the maximum total debit (`paper.py:2491`);
  `ChasedWithinMaxDebit` is about the later limits only.
* A close that is not filled stays tracked beside the next corridor, so that more butterflies may be
  open than `--max-layers` (`paper.py:2106`), and while it stays, its exit signal, being that of the oldest
  primary, closes the present corridor (`paper.py:1721`).
* After `--no-resume`, an early end before the first checkpoint leaves the old checkpoint beside parts
  that were written again: a resumed run then lacks contracts it counts as completed
  (`massive_options.py:361`).
* A checkpoint cut short stops every later resumed run (`massive_options.py:914`), as a recovery file
  does for the runner (`paper.py:596`).
* The rollback of a refused entry removes its transition from a list that was already copied into the
  result (`engine.py:725`).

### Fairness

* `machine_intraday` (`DriftEnds`) assumes that the feed goes on until the horizon: bars are history, or come
  from a market that is open.
* `chase_orders` (`Answered`) assumes that every sleep of the runner ends (`WF(Runner)`). Nothing is assumed
  of the broker: orders may never be filled, cancelled or reported.
* `runner_liveness` (`OrphansEnd`) assumes that a poll runs to its end (weak fairness of its steps), and strong
  fairness of three things: bars arrive, since `run` polls for ever; a poll without new bars comes
  after the last bar of the window and late enough for every retry, since each attempt only delays the next by `retry_delay_seconds`;
  and a close that is sent again and again is filled at some time, which is the only assumption
  about the broker and the reason why the code retries. No crash is allowed in this run: a process
  that stops for good closes nothing.
* `backfill` (`RunsEnd`) assumes that a running program goes on (`WF(Step)`): every request to the
  service has a timeout. Of the answers only one thing is assumed, that a list of contracts ends after `MaxPages`
  pages: `iter_paginated` follows `next_url` as long as there is one (`massive_options.py:197`).

## What is proved

`CorridorMachineProofs` proves for every feed, clock and configuration (from the named
assumptions: bars are well typed, times and rules are naturals, there are not more distinct DTE
targets than configured ones):

* `TypeCorrect`, `BookIsSound` (state and book agree), `CapIsKept`, `PrimaryIsOldest`,
  `NoExposureOutsideWindow`, `RebuildIsEarned` and `DriftIsForgotten`, as invariants;
* `CooldownRespected`, `TakeProfitBlocks`, `OneBatchASession`, `ActionsAreComplete`, as properties of
  every step;
* `MachineKeepsBook`: the machine implements `LayerBook` with `open <- layers` and
  `issued <- nextId - 1`.

They rest on one inductive invariant, `IInv`. None of the safety properties is inductive alone:
the cap needs to know that fresh ids are not open (`IdsIssued`), the cooldown needs that a pending rebuild
was already granted (`PendingRebuildEarned`, which needs `NoStaleDrift`), and the re-entry block needs
that the session of the last take-profit never lies ahead (`SessionCurrent`) and that the book stays
empty after it (`FlatAfterTakeProfit`). `TakeProfitBlocks` assumes that exits follow the primary:
without it the property is false (see above). Each lemma shows one part of `IInv` for the
steps of a bar (`BarStep*`) and of an exit (`ExitStep*`).

`ComboChaseProofs` proves for every set of quotes, quantity, number of attempts and pricing
parameter: `ChaseTypeCorrect`, `OneOrderLive`, `LimitsBounded`, `DebitBounded`, `TowardsMarket` and `PromiseKept`
(the chase implements `OrderAttempt`). The inductive invariant adds that attempts not yet made left
no trace at the broker, that the runner moves on only from an attempt it told to stop, and that
what is reported as filled is filled. `LimitsBounded` needs that the buffer of the first limit is
within the buffer of the chase, up to rounding, which holds because the chase may always use half of the
spread and the first limit only a quarter.
`OverfillBounded` counts the fills: the butterflies an attempt has traded are pairs of an attempt and a lot,
so that a sum over the attempts becomes the cardinality of a set (`CountsFills`), which is at most the
number of attempts made times the quantity. `SingleAttemptKeepsQuantity` is its other side: with one
attempt the quantity is kept, so that `chase_overfill` needs a second one. `ChaseEnds` is what can be proved of
`Answered`: `StepsLeft`, a natural number, falls with every step of the runner.

`PaperRunnerProofs` proves for every number of layers, contracts, crashes, restarts and late trades,
in both modes: `DivergenceNoticed`, `OrphansRemembered`, `NewIdsUntracked` and
`RecoveryFileCurrent`. The
inductive invariant `RInv` says, beside the properties themselves, that every id in use was given out by the
counter of the process, and every id of the recovery file by the counter saved with it; that
what is still to be opened is a layer the machine has not taken back; that nothing is tracked
before the start; and that an IDLE or ABORT machine has no layers. The machine's own invariant cannot be
reused here: restored positions may outnumber the cap, and a restored state may be that of a corridor
whose positions are gone. So `BarBook` proves again, from the parts of it that survive, what a bar does to the
book. That `Min` and `Max` exist follows from the well-foundedness of strict inclusion between finite
sets (`LeastNatural`), since induction is out of the provers' reach. `PaperRunnerTypes` adds
`RunnerTypeCorrect`: what is restored can be the state of a machine, and the primary is one of its
layers or none, though not always the oldest; and `OnlyLateTradesDiverge`: the difference between account
and positions (`Surplus`) is changed by a late trade or a new start alone, and otherwise stays or is closed.
Orders change both sides together (`Tracked` is a cardinality per contract, followed by the lemmas on adding
and removing a position); the confirmation of closes removes at most one position per contract. `HaltStops` says
that a halted process sends no order: the account then changes by late trades alone.

`BacktestEngineProofs` proves for any number of gates and any refusals: `EngineTypes` (with the cap),
`LedgerIsTheBook`, `ReportIsComplete`, `EngineOneBatch`, `GatesKeepExposure` and `EngineKeepsBook` (the
engine implements `LayerBook`). While the layers of a bar are judged (`Judging`), the ledger still shows the book before
the bar, and the actions, which are what is awaited or has passed, explain the book so far. `EngineInv`
holds for every ladder, and so leaves out that a corridor has layers, which the gates can refuse.
`GatesKeepExposure` assumes a ladder of one layer (`EntryBatch = 1`) and adds `LoneEntry`: a bar that opens
layers beside no other opens the primary alone, so that refusing it takes the state back. Without the
assumption the property is false (`gate_ladder`). The steps of the machine are taken from
`CorridorMachineProofs` where the parts of its invariant survive the refusals.

`WeeklyProofs` proves for every calendar, market and configuration: `WeeklyTypeCorrect`,
`LayersStayInTheirWeek`, `LedgerIsComplete`, `AdjustmentsAreLimited`, `PatientCorridors` and
`ImplementsCampaign`. The invariant adds that the context is that of the week of the last bar and says
truly whether layers are open (`Calendar`), that no id is used twice (`FreshIds`), and that the counter of
the adjustments is right (`Counted`); cardinalities are counted with the facts of `FiniteSetTheorems`.

`ChainBackfillProofs` proves for every set of requests, contracts and batch sizes, and any number of
starts: `BackfillTypeCorrect`, `NothingIsLost`, `DatasetIsCovered` and `CheckpointIsKept`. The last three are
not inductive: what the checkpoint counts is safe because the running program, which will overwrite it, is never behind it
(`AheadOfCheckpoint`) and has itself stored what it counts (`MemoryStored`). All is qualified by
`startedOver`; without it the first two of them are false. `OneRequestIsAnswered` assumes that there is only one
request, and concludes that a complete dataset is exactly what was asked for unless the contracts file was
cut short; `backfill_requests` shows that both conditions are needed. `RunsEndInTime` is what can be proved of
`RunsEnd`: `WorkLeft` falls with every step of a running program. It weighs a page or a contract that is still to be asked for with
`MaxRetries + MaxRateLimits + 3`, which pays for all retries of its request, and adds the batch to be written
and the retries left of the present request. It is a natural number because the contracts of a run are finitely
many and pages and retries are within their limits (`Countable`).

Only model-checked: the liveness properties `DriftEnds`, `Answered`, `OrphansEnd` and `RunsEnd`, since liveness under
fairness is out of the provers' reach. For `Answered` and `RunsEnd` the variants that decrease are theorems
(`ChaseEnds`, `RunsEndInTime`), so that what remains is the step from a decreasing variant and fairness to the
end. `DriftEnds` and `OrphansEnd` have no such variant: they end because the feed, or the
broker, does something at some time. The properties that runs violate are not theorems, except
under an assumption: `GatedExposure` for a ladder of one layer, `TradesQuantity` for a single attempt.

Only proved: the types of the chase, of the weekly backtest and of the backfill (`ChaseTypeCorrect`,
`WeeklyTypeCorrect`, `BackfillTypeCorrect`), the two variants, and `OneRequestIsAnswered`, whose assumption
the instance of `backfill` does not meet. Termination itself is still checked by runs, as `Answered` and `RunsEnd`.

## Not modelled

* Floating-point statistics and pricing: regime detector, center estimators, payoffs, candidate
  ranking. Their results are inputs, chosen freely; so is which exit fires and which layer passes a gate.
* The smoke sleeve of the runner, a connection test that is off unless asked for; warmup bars sampled
  from ticks; `--once` and `--check-only`, which are prefixes of a run; diagnostics and Discord reports,
  which nothing that trades reads.
* Metrics, plots and reports: arithmetic over a finished run. The list of transitions, the equity curve
  and all amounts of money in both backtests.
* `run_massive_spx_flatfiles_backfill.py`, whose only state is whether a day's file exists, and the
  loaders, which are pure I/O.
* Vendored libraries, research scripts and `legacy/`.

Each is listed with its reason in `PROJECT.json`.
