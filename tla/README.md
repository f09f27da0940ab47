# A TLA+ development of the billuonaire trading engine

The program under `src/app/trader` replays one-minute (M1) candles of a set of
stocks, follows price levels and zones, scores setups, and paper-trades them
intraday.
This directory holds TLA+ models of the parts of it that keep state, the TLC
configurations that check them on small instances, and TLAPS proofs of what
matters most for every instance.

Quick start, in this directory:

    tlc -workers 2 -config TradeSymbols.cfg MCTradeFlow   # one run
    tlapm TradeFlowProofs.tla                             # one module of proofs

`PROJECT.json` lists the runs, the mutant of the code each property catches,
the source lines each definition translates, the hazards and the theorems.

## 1. Inventory

### How a candle travels

One thread does everything. `Orchestrator.run` takes the candles of all
symbols from the feed in time order. The first candle of a date, of whichever
symbol, force-closes every open position into the old day's ledger and resets
the ledger (`RiskState.reset_day`). Then the candle goes to its symbol's
`SymbolPipeline.on_m1`, which

1. closes each M5 boundary passed since the symbol's last candle
   (`_on_m5_close`): `LevelEngine.update`, the detectors (some of which write
   level objects themselves, some of which keep zones of their own), day
   template, exits (`PositionManager.on_candle`), and the entry flow: score or
   decide, gates, grade, the entry FSM (`arm`, `step`), whose trigger leaves a
   *resting limit*;
2. ends a finished session (`_end_session`: write `levels.json` and
   `watermark.json`, drop intents);
3. lets the candle fill the resting limit (`_fill_pending`, under
   `fill_time_caps`), and otherwise run the queued exits at its open
   (`_run_exits`);
4. stores the candle (`CandleStore.add`).

A gap in the feed therefore moves work: boundaries are closed late, by the
candle after the gap, and *before* that candle is stored. Days roll when the
first complete bar of a date closes, which a gap can postpone. Rows at or
before the watermark that the last run left behind are only replayed into the
candle store. At the end of the feed `finalize` settles and saves.

### Components

| component (code) | state | operations | interacts through |
|---|---|---|---|
| Level engine, level store (`engine/levels.py`, `models/level.py`, the writing detectors) | the level list; `_pending_break`, `_since_swept`, `_pending_invert`, `_prev_close`; `levels.json` | `update`/`_step`, session end, load, detector writes | level objects shared with the detectors; file |
| Risk ledger and caps (`engine/gates.py`) | `RiskState`: counts, pnl, open risk, directions, lock, last stop | `record_open`, `record_close`, `reset_day`, gates, `fill_time_caps` | one object shared by all pipelines |
| Orchestrator and trading pipeline (`engine/pipeline.py`) | session date, day state, resting limit, position, exit queue | see above | calls everything else |
| Watermark and resume (`engine/pipeline.py`, `engine/levels.py`) | `_watermark`, `_wm_ts`, `_last_c5`; `watermark.json` | skip old rows, session end, finalize, restart | files between runs |
| Entry FSM (`engine/entry.py`) | IDLE/ARMED, the plan, its ttl | `arm`, `step` | zones, candle store |
| Position manager, paper broker (`execution/`) | stop, rungs taken, remaining shares | `on_candle`, the exits it returns | exit queue of the pipeline |
| Candle store (`store/candles.py`) | M1 rows, derived buckets | `add`, `closed`, save/load | read by everything |
| Stateless gates (`engine/gates.py`) | the event gate: bars it saw an event on | template, regime, event, chase vetoes | entry flow |
| Incremental detectors (`detectors/taught.py`, `fvg_n.py`, `ob_taught.py`, `propulsion2.py`, `inducement.py`, `breaker_msb.py`) | a cursor, zones with flags, a swing latch, boxes | read the unseen bars, session end | evidence for the scorer |
| Other detectors (`detectors/`) | little or none | evidence of one bar | evidence; level objects |
| Confluence, decision (`engine/confluence.py`, `decision.py`) | - | cluster and score; the taught tree | scored zones |
| Template classifier, PO3 (`engine/template.py`, `po3.py`) | the lock, the day's phase | classify | gates, multipliers |
| Ladder, grade (`engine/ladder.py`, `grade.py`) | nests and swept pools of H1 | rung, grade of a zone | entry flow |
| Scanner, context | - | ranking, accessors | - |
| Journal (`store/journal.py`) | append-only files | append | - |
| Feeds, replay, metrics | - | candles, reports | - |
| Calibration (`learn/`) | weights file | offline fit | - |
| CLI, configuration, data tools, research scripts | - | - | - |

### What is hard, and what makes each part correct

* *Levels.* Memory kept beside the level objects (a pending break, an open
  reclaim window) can go stale when a detector moves the level or removes it
  and makes it again, at a session end or at a restart. Two writers touch one
  level on one bar.
  Correct: a break is confirmed only by two closes of one session in a row among
  those the level was there for, a window closes on time, one transition per
  bar, the transition graph of the docstring.
* *Risk ledger.* Counters kept up by five call sites in two places, read by one
  gate when a setup is armed and another when its limit fills, while other
  symbols trade in between. Correct: counters equal the book, caps hold at
  every moment, a locked day stays shut.
* *Trading loop.* Missing minutes, missing bars at a date's start, a date that
  begins on another symbol's candle, a queue of exits that waits for a next
  candle. Correct: no position and no plan crosses a date, one intent per
  symbol, nothing open after the squareoff, every position settles.
* *Watermark.* Two files written one after the other at a few points only; runs
  may die anywhere; boundaries closed late. Correct: no row lost, no row traded
  twice.
* *Detectors.* Flags are updated bar by bar, with orders that matter (break
  before touch, parent before kid, latch before re-arm); session ends prune the
  lists; a restart re-reads a long history at once. Correct: what a zone, box or
  latch says is what the tape says, and what was pruned never mattered.
* *Judging chain.* Evidence of one bar passes a sweep that merges bands, five
  multipliers, gates, two grades, and an arithmetic of stop, targets and size in
  which later steps move what earlier ones set. Correct: a plan is sound on
  whichever path it was made, and what is armed is backed by one group of
  evidence that no veto was raised against.
* *Position.* A ladder of exits, a stop that moves, orders counted by a cost
  gate before the trade. Correct: shares and orders add up, the stop only
  tightens, exits happen at prices the market offered.

## 2. Plan

Built, in this order: (1) level lifecycle, (2) ledger and trading loop,
(3) watermark over several runs, (4) the life of one position, (5) the candle
store and its cache, (6) the detectors that keep zones, (7) the judging chain
from evidence to plan, composed with (4); each with its runs, and with proofs
where the prover can follow.

Left, most important first:

1. `TemplateClassifier` and `po3` over a day: the lock at `lock_min`, lost on a
   restart, and the phases of the PO3 machine.
2. `RiskState` over several runs of the program on one date.
3. The structure detector with its `evidence_history`, and the ladder trackers;
   both are inputs of the judging chain now.
4. Other detectors with a memory (`ob_lux`, `wyckoff`, compression).
5. Journal metrics and calibration bounds.

Proofs: every safety and action property that a passing run checks is a theorem
(section 6). Left are properties of the judges that no run states yet: the rung
and the grade of a zone, the day template, the permit of the taught tree.

## 3. Modules

| module | models | composed of |
|---|---|---|
| `LevelLifecycle` | one level id: `LevelEngine._step`, detector writes, session end, restart | - |
| `LevelHistory` | history of sweeps, moves, last close and absence; the properties and the invariant `HInv` | extends `LevelLifecycle`; implements `LevelAutomaton` |
| `LevelAutomaton` | abstract: which state changes a level may make | - |
| `RiskLedger` | `RiskState` and the caps, as operators on a ledger record | - |
| `TradeFlow` | `Orchestrator.run` and the trading half of every pipeline | extends `RiskLedger`; implements `TradingDay` |
| `TradingDay` | abstract: a book that grows inside the caps and starts each date flat | extends `RiskLedger` for its constants |
| `WatermarkResume` | one symbol over several runs, files and crashes | - |
| `CandleStore` | one symbol's candles over several runs: the data file, the series in memory, the cache files | - |
| `Tape` | a tape of bars: extremes and ATR of a window, the depth of a break | - |
| `TaughtZones` | the zone law, and the zones of fvg_n, ob_taught, propulsion2 | extends `Tape` |
| `MarketStructure` | the swings and grabs of inducement, the boxes of breaker_msb | extends `Tape` |
| `DetectorChain` | the five detectors with cursors, session ends, restarts | extends `TaughtZones`, `MarketStructure` |
| `Setting` | what the judges of a setup look at, as one record | - |
| `Scoring` | `ConfluenceEngine.score`, `_classify` | extends `Setting` |
| `DecisionTree` | `decide`, the taught engine | extends `Setting` |
| `Grading` | rung and grade of a zone | extends `Setting` |
| `EntryPlan` | `EntryFSM.arm` and `step` | extends `Setting` |
| `PositionManager` | one position from resting limit to closed | - |
| `PositionHistory` | the best price seen since the fill | extends `PositionManager` |
| `PlannedPosition` | `_entry_flow`, and the position that comes of it | extends `Scoring`, `Grading`, `DecisionTree`, `EntryPlan`, `PositionManager` |
| `FiniteOrder` | lemmas the proofs share: extremes and folds of finite sets, induction | - |
| `*Proofs` | the theorems of the module named (`LevelLifecycleProofs`: of `LevelHistory`; `PlannedPositionProofs`: of `PositionManager` too); `TradeDayProofs` builds on `TradeFlowProofs` | extends it and `FiniteOrder` or TLAPS |
| `MC*` | constants for TLC | extends the module named |

### Levels: `LevelLifecycle`

`_step` reads and writes only entries of the id it is given, so one id is the
whole story; `kind` ranges over the classes of kinds that are
treated differently. A bar is two steps, `phase`: the engine first (one action
per branch of `_step`), then the detectors (create, touch, move, evict,
make again, retract, fill). The session end writes `levels.json` and drops what is not
carried; a restart reloads it with an empty memory. Prices are five integers,
zones pairs of them, ATR enters only as a tolerance. Touch counts saturate at
`TouchCap`, because the code compares them with 2 only.

The engine's memory is keyed by id and survives the object. Within a session
only order blocks leave the list: `RivalEvicts` (`orderblock.py:82-92`) removes
an ACTIVE one and leaves the memory as it is, and `Recreated` is the same
`_upsert` on a later pass, while the evicted block's candle is still among the
last `lookback + 2`: a new object under the old id. `rescan` counts the passes
that will still read the candle; it is what `born` and the candles say, so the
file keeps it. The blocks of ob_lux are born with `rescan = 0`: it decides an
id once (`_decided`). `Born` is a level under an id the engine has never seen.
An evictor that is evicted or tested in its turn, or an ATR that reorders the
qualities, is what lets a block come back; the model lets it on any pass.

### Trading: `RiskLedger`, `TradeFlow`

`stage` is the program counter of the one thread, between steps at which
another symbol or a gap can make a difference. What the judging chain answers
is a free choice here (`PlannedPosition` says what it is); the clock gates, the
caps and every early return are kept. Minutes count from the open; a date is a number, 0 is the date of
cached history bars. A plan is its direction and the moment it was armed, a
position its plan, its fill time and its risk. The exit queue is one flag, as a
partial exit never empties a position (`PositionManager` shows that:
`OpenHasShares`). The index pipeline never trades and is left out; the file
feed sorts by time, so candles come in order, at most one per symbol and minute.

### Several runs: `WatermarkResume`

`csv` is the file, which grows between runs with any gaps; a run reads all of it
from the top. `disk` is what the two files hold. A run can die at any step, also
between the two files; the history variable `crashed` says whether one has.
`seen`, `traded` and `closed` count what the rows and bars did to levels, orders
and boundaries. What the code does promise whatever happens (`RowsNotLost`,
`BarsNotLost`) is stated without condition; what it keeps only as long as runs
are finalized (`RowsTradedOnce`, `BoundariesClosedOnce`) holds until `crashed`;
`RestartNeverDuplicates` is the claim without the condition, and finding 3. A
session is a whole number of bars (75 in the program), assumed in
`RowsAssumption`.

### One position: `PositionManager`

Prices are favourable distances from the entry, so long and short are one model
and the limit fills at 0. A boundary runs the checks of `on_candle` in the
code's order: squareoff and stop exits return early, the ladder appends
partials and closes, moves the stop to breakeven and trails it. The queue is
kept as what `_run_exits` can still see of it: partials before the first full
exit, and whether there is one. `orders` counts what the broker is sent.

### Candles: `CandleStore`

A run loads the cached series, adds the rows of the data file one by one and
saves a file per timeframe, M1 first. Between runs the data file grows or is
corrected, and never loses a row. A run can die anywhere, also between two
files, and the next one then loads bars that are older than the rows they are
audited against. A series, which the code keeps as a sorted list without
duplicates, is a function of the timestamp. A row is one price, so a bar still
has its four prices; volume is left out. Time runs on over night, since a
bucket cut short by the close is visible only its full length later. A replay
of a date range, which does not read older rows again, is not modelled.

### Detectors: `Tape`, `TaughtZones`, `MarketStructure`, `DetectorChain`

All five detectors read the same tape of closed bars, each bar once, with a
cursor; the window the code hands them is the whole tape, and `i` is the bar
being read. A zone is a record of its band, the bars it was born from and three
flags; a list of zones is a set, as no zone looks at its place in the list.
`Bar` closes a bar, `Read` is one turn of the loops of all five over one unread
bar (they run in one call, nothing comes between), `SessionEnd` prunes as the
`on_session_end` of each does, `Restart` makes fresh instances that read the
whole tape again before they answer. `out` is the evidence of one call.
Left out are the optional floors on the size of a gap and of a break, which are
off by default; the label that tells a breaker from a mitigation block; the
collapse of evidence at equal bands; stops and strengths. Propulsion2 keeps its
own copy of the blocks that ob_taught keeps, over the same bars: one set stands
for both. `leg` and `grabs` are history variables.

### The judging chain: `Setting` to `PlannedPosition`

A *setting* is one record of everything a pipeline looks at on a bar: prices,
ATR, levels with their pasts, evidence with times to live, readings of other
frames, what the ladder trackers hold. The judges are operators on it: clusters
and score, day template, taught tree, rung and grade, and the plan `arm` makes
with every refusal in the code's order. Numbers are exact: prices in ticks,
weights in points, coefficients in percent, so a tie that binary floats break
either way goes up. `PlannedPosition` composes them as `_entry_flow` does, and
hands what triggers to `PositionManager`. The event gate remembers only the
bars it was asked on, as in the code (`asked`). The clock and budget gates are
`TradeFlow`'s. Beside the reading of it, the code's answers on 1500 random
settings were compared with these definitions (that script is not kept here).

Not in a setting: context tags and pivot distances, which only the journal
shows, and the parent of a level in the zone graph: no `LevelKind` is a
propulsion, so that part of the grade is always satisfied (`grade.py`). Three
more abstractions: the levels of a setting are all of the five-minute frame, so
`FragmentOf` measures nearness of birth in its bars (`grade.py:90` uses the
level's own frame); the event cooldown counts the bars of a setting, the code
the minutes between two bars divided by five (`gates.py:148`), which differ
across the night and over missing bars; and `Step` looks at the levels and the
evidence of the setting it was armed on, where the code looks at those of the
bar it steps on.

## 4. Runs

All runs finish in less than five minutes on two cores.

| run | properties | shows |
|---|---|---|
| `level_lifecycle` | TypeOK, OneTransitionPerBar, FvgNeverInverts, DeadNeedsTwoCloses, ReclaimedInWindow, ImplementsAutomaton | every bar, detector write, eviction, re-creation, session end and restart of a level id of any kind |
| `level_fvg_inversion` | ReclaimedLeavesOnlyInverted (violated) | finding 1 |
| `trade_symbols` | TypeOK, OneIntent, NoOvernight, NoStaleIntent, FlatAfterSquareoff, LedgerMatchesBook, CapsHold, HeatIsOpenRisk, ImplementsTradingDay, LockedDayStaysShut | two symbols compete for tight caps while any minutes may be missing, over a date change; one locks the day while the other's limit rests |
| `trade_life` | TradesAreFresh, PositionsSettle | one symbol over longer sessions: age of a trade, liveness |
| `watermark_runs` | TypeOK, RowsNotLost, BarsNotLost, RowsTradedOnce, BoundariesClosedOnce | any number of runs, finalized or dying anywhere |
| `watermark_rebar` | BarsSeenOnce (violated) | finding 2 |
| `watermark_duplicate` | RestartNeverDuplicates (violated) | finding 3 |
| `candle_store` | TypeOK, ViewsExact, SavedFilesAgree | growth, correction, crash between two cache files |
| `detector_chain` | TypeOK, ZonesObeyTheLaw, NoOrphans, RestartFindsTheSame, BoxesObeyTheTape, GrabsAreRearmed | five detectors on one tape, session ends, a restart |
| `detector_catch_up` | EvidenceIsCurrent (violated) | finding 5 |
| `position_life` | TypeOK, BreakevenAfterOneR, OpenHasShares, OrdersWithinEstimate, PlanIsSound, ArmedWithBacking, StopOnlyTightens | every plan the settings come to; three of them through every path of bars |
| `position_targets` | TargetsTradedWhileOpen (violated) | finding 4 |

### Bounds, and why they are enough

* *Levels.* Five prices leave room on both sides of either zone, so every
  comparison of `_step` has all its outcomes, wicks and closes apart; two
  overlapping zones let a zone move; a window of two bars opens, counts and
  closes; a rescan window of three passes, the code's default, is long enough
  for a block to be evicted with a break pending, miss two bars and come back;
  tolerance 0 and 1 tell a touch from a near miss. The number of bars,
  sessions and restarts is unbounded: the state space is finite without a cap.
* *Trading.* Two symbols are enough for one to use up what the other was
  checked against; caps of 2 trades, 2 per stock, 1 per direction, heat for one
  more budget and a lock after two losses all bind. Bars are of two minutes, so
  that a bar can be incomplete and a boundary can be missed. Two dates have one
  change between them. Risk amounts 1 and 2, results -1R and +2R reach each
  lock, loss stop and profit stop. `trade_symbols` has sessions of eight minutes
  and no cooldown between trades (it can be configured so, and it lets more
  happen): a position fills, is taken out after the next bar and locks the day,
  while the limit of the other symbol, armed with it, is still young enough to
  fill but for the lock. `trade_life` has a cooldown of one minute, and the
  proofs hold for any. `trade_symbols` uses the symmetry of the symbols (its
  properties are safety properties, and a step of the abstract day is the same
  for either symbol); `trade_life`, which
  checks a liveness property, does not, and has one symbol and sessions of
  twelve minutes, long enough for both times to live to run out.
* *Watermark.* Two dates of two or three bars of two rows: gaps inside a bar, of
  a whole bar, and at both ends of a date; runs are unlimited.
* *Candles.* Two sessions of three minutes, a frame of two minutes, so that each
  session has a whole and a truncated bucket, and the session's own; one minute
  can be corrected (`MCQuotes`), the others only appear. Runs, saves and crashes
  are unlimited.
* *Detectors.* What needs a long approach is on three cached tapes of nine bars
  (two grabs of one leg; a kid wider than its parent, which breaks first; a box
  that fires and dies); from there every continuation by five shapes of a bar,
  up to fourteen bars and the price 12. An ATR of two bars, bursts up to two,
  swings of two and one and a zigzag of two keep the windows of the code in
  their order of size. One restart, any number of session ends.
* *Judging chain.* One bullish setting, varied along the axes the judges tell
  apart, a few at a time: the paths of the stop (signal, floor, traps, round
  levels, no ATR), what lies ahead for the targets, the day and its range edges,
  up to three more voices around the cluster, rungs, grades and triggers,
  events, the taught tree with something old in its window; and the mirror image
  of every one of them. `VerdictsAreTried` checks that every plan they come to
  lies in the plans `PositionManager` is typed for.
* *Position.* Bars of two minutes over four bars; the plans followed to the end
  (`Followed`) have a ladder, too few shares to split (3), and a mapped goal.
  `position_targets` takes its triggering bars from a set of two.

`CHECK_DEADLOCK FALSE` stands where the program really stops: the feed is
exhausted and every pipeline finalized, the file is complete, the position is
closed or the day over. The level engine and the candle store never stop, and
their runs check for deadlock.

### Fairness

Only `TradeFlow` assumes any: `WF_vars(Next)`, one thread that goes on until
`run` returns. The feed is a finite file, in time order, so the code justifies
it without fairness of any single action; an action the thread has a choice
about (a gate's answer) is not assumed to be taken.

### Mutants

Each property of a passing run has a mutant: an operator written next to the
definition it replaces, under a comment that says which slip it stands for (a
reset without settling, a pending break that survives a session end, rungs
that take half the shares, ...). Under the mutant TLC finds the property
violated.

## 5. Findings

Each is a run that TLC ends with a counterexample to what the repository says.

1. **A fair value gap can never invert** (`level_fvg_inversion`). The engine
   takes the first close through a reclaimed gap as the first of two; the fvg
   detector, on the same bar, writes DEAD. `levels.py:52-54` and
   `dev/plan/02-DETECTOR-SPECS.md:39` promise INVERTED; `dev/plan/14-IDEA-LEDGER.md:20`
   records that the iFVG never fired. `FvgNeverInverts` is proved.
2. **A bar is applied to the levels twice after a resume across a gap**
   (`watermark_rebar`). `_last_c5` is memory only (`pipeline.py:252`).
3. **A killed run's rows are traded again** (`watermark_duplicate`). The
   watermark is written at session ends and in `finalize` only, while the
   comment at `pipeline.py:116-118` says a restart cannot duplicate.
   `RowsTradedOnce` is proved until a run dies before it is finalized.
4. **A target can be sold that the market did not touch since the fill**
   (`position_targets`). `on_candle` judges a new position on the last complete
   bar, which may lie before its fill (`manager.py:126`).
5. **After a restart old grabs and breaks count as new** (`detector_catch_up`).
   A fresh inducement or breaker_msb walks the whole cached history on its first
   call and stamps an evidence for every past signal with the current time
   (`inducement.py:148`, `breaker_msb.py:182`); the comment at
   `pipeline.py:116-118` excludes that. The other three hold back all but the
   last bar.

One more deviation has no run of its own, since `DeadNeedsTwoCloses` states it
as the code has it. `levels.py:33-40` says the *next closed candle* resolves a
pending break. An order block that is evicted with a break pending and made
again under its id keeps the break (`orderblock.py:88` removes the object only,
`levels.py:191-194` looks up the id): the first close it sees resolves it, up to
`lookback - 1` bars later, whatever the closes in between were. A close beyond
then kills the new block at once, a close on the origin side makes it SWEPT
without a wick. The guard in `ob_lux.py:191-202` is against just such a
re-creation; `orderblock` has none. The property bounds what can happen: no
other kind, no other session, no further than the rescan window.

## 6. Proofs

The proofs hold for every value of the constants that meets the named
assumptions of each module (`PricesAssumption`, `LimitsAssumption`, ...), which
state what configuration and types admit; TLC evaluates them in every run.

* `LevelLifecycleProofs`. None of the level properties is inductive alone: what
  kills a level on this bar is a mark left on an earlier one. `HInv` says what
  each mark stands for: a pending break means the last close the level was there
  for was beyond its far edge, in this session and run; for every kind but an
  order block that is the previous close, for an order block at most
  `RescanBars - 1` bars went by without it (`MissedMeaning`: what it has missed
  and what its candle has left never exceed the window). Nothing else is open on
  a level that has not been swept (`UnsweptMeaning`), so a break is all an
  evicted block can bring back. An open window has counted the bars since the
  sweep, and a gap's pending inversion lives only until the detectors run.
  `HInv` is shown inductive action by action; the action properties
  `DeadNeedsTwoCloses` and `ReclaimedInWindow` and the implementation of
  `LevelAutomaton` follow from it and one step.
* `TradeFlowProofs`. `FInv` adds to the checked invariants where the dates of
  candle, day, plan and position stand: the candle in hand is of the session's
  date; a position can be priced by its symbol's last candle; intents are dated
  by the last stored candle; days never run ahead of it. From it, for any
  number of symbols and any caps: `LedgerMatchesBook`, `CapsHold`, `OneIntent`,
  `NoOvernight`, `NoStaleIntent`, `LockedDayStaysShut`.
  `TradesAreFresh` and `FlatAfterSquareoff`, in the same module, are about ages,
  counted in bars over gaps. `CInv` adds to `FInv` that boundaries are whole
  bars, from the end of the last candle's bar on (`BoundaryAligned`), that a
  plan is armed inside the window and rests at most `ArmTTL` bars later
  (`IntentsTimed`), and that a boundary at or past the squareoff has queued the
  exit of an open position, so that the candle which closed it, however late,
  takes it out (`ExitIsQueued`).
* `TradeDayProofs`. `HeatIsOpenRisk` and `ImplementsTradingDay` are about sums
  over a changing set of symbols. The sum of the community modules recurses over
  subsets and nothing is known of it until that function is shown to exist
  (`SumsExist`). Then a sum does not depend on the order
  (`AnyOrder`) and changes by what one symbol changes (`TotalUpdate`).
  `CountersAddUp`: the ledger's open risk is the total of its entries and its
  trades the total per symbol. Every step of the loop is a new date, a fill, a
  settlement or leaves the book alone (`BookCases`), and each of them is that
  step, or a stutter, of `TradingDay`.
* `WatermarkResumeProofs`. `WInv`: nothing at or before a mark on disk or in
  memory is undone (`MarksWorked`), and until a run crashes nothing beyond it
  is done (`NothingAhead`). Hence `RowsNotLost` always and `RowsTradedOnce` until
  `crashed`; finding 3 shows that the hypothesis is needed. `BarsInv` says the
  same of bars: a closed boundary lies behind the last row worked on, or is the
  one the row in hand closes; every whole bar behind a mark is seen; the bar of
  the last row is seen when its boundary closes, which rests on sessions that
  end on whole bars. Hence `BarsNotLost` and `BoundariesClosedOnce`.
* `PlannedPositionProofs`, the position. `PInv` ties remaining shares to the
  rungs taken (`SharesAccounted`), which makes `OpenHasShares` a fact about thirds
  of a quantity, for every quantity. `OrdersWithinEstimate`, `BreakevenAfterOneR`
  and the action property `StopOnlyTightens` follow, for every plan there may be;
  a position whose plan comes out of the judging chain is one of these
  (`FollowsPosition`).
* `PlannedPositionProofs`, the plan. `VerdictInv`: what is traded is what the
  chain handed over for a setting. All else is about the operators, for every
  setting of any length (`IsSetting` says what is taken for granted of one).
  `PlanIsSound`: rounding away from round numbers never pulls the stop to the
  near side of the zone (`SnapFacts`, `StopFacts`), of every fallback the targets
  come in order and beyond 1.5R (`TargetsFacts`), the quantity fits its budgets
  after any throttles (`QtyFacts`, `EffQtyFacts`; it is at most `MaxQty` when no
  throttle exceeds 100%).
  `ArmedWithBacking`: the sweep over sorted evidence finds exactly the components
  (`ClusterIsComponent`). Its invariant `SweepInv` says, of any part of the
  evidence swept so far, that the groups cover it, are each led from bottom to
  top, and lie further than `merge_atr` apart; each piece of evidence merges
  into the last group (`SweepMerges`) or opens one (`SweepAppends`). Then a veto
  multiplier that is zero makes the score zero (`FinalFacts`), and a detector
  votes once (`BestFacts`), so enough votes are enough detectors.
* `CandleStoreProofs`. `ViewsExact` alone is not inductive: the bucket that is
  over before the next row was rebuilt by an earlier one. `CInv` says of every
  bucket without unread rows that it is what the file says (`ReadExact`), and of
  memory and cache that they hold nothing the file has no row for
  (`NothingInvented`); the latter is why a stale bar of a bucket that is never
  read again cannot exist. Type correctness needs that a finite set of prices
  has its extremes, again by a least counterexample. `SavedFilesAgree` rests on
  `FilesFollow`: memory never knows less than the files, so a timeframe that
  `save` skips as empty has no stale file behind it; and when it runs, every row
  of the data file has been read.
* `DetectorChainProofs`. What one bar does to one zone keeps what the tape says
  of it (`StepKeepsLaw`), the bar appended later takes nothing back
  (`LawOnPrefix`). With them `ZonesObeyTheLaw`, `NoOrphans` and
  `BoxesObeyTheTape`, for any tape, period and number of restarts.
  `RestartFindsTheSame` compares two histories: `ScanInv` says there is a run over
  the bars read, never pruned, whose live structure is the one that is held
  (`SameLife`). One bar keeps two states alike (`ScanSameLife`), pruning too
  (`PrunedIsAlike`), and what a detector reads of a tape it reads of a longer one
  (`ScanAgrees`). `GrabsAreRearmed`: while a leg lasts, `maxv` and `minv` are its
  extremes on the tape (`LegInv`), and a latch that is open again has seen a
  close beyond them since the last grab (`GrabInv`). `TypeOK` says of every zone
  its band is the right way up; its invariant says of every swing and origin that
  it is a bar that was read.
* `FiniteOrder`. The induction theorems of the library take an operator, which
  the provers cannot instantiate. Here the hypothesis is a *set*: of a finite
  set's bad subsets there is a smallest (`SmallestSubset`), so a property that
  passes from the proper subsets of a set to the set holds (`SubsetInduction`).
  `FoldExists` shows that the recursive function inside a fold of the community
  modules is one, so the fold may be unrolled. This is why the sweep over the
  evidence, the votes, the throttles and the sums are folds in the model: of
  `SelectSeq` and `SortSeq` nothing can be learned.

Model-checked only: the liveness property `PositionsSettle`, as liveness under
fairness is out of the prover's reach, and every violation. That the judges'
formulas are the code's is not a matter of proof; section 3 says how they were
compared.

## 7. Not modelled, and why

* The lock of the template, the gap it looks at and the PO3 machine; the
  structure detector with its history; the ladder trackers; the other detectors:
  planned (section 2). A setting gives the judges what they would say, in every
  combination along an axis, so nothing is assumed of them; but properties over
  a day that depend on them are not checked.
* Fill prices, costs paid, `hunt_survived` and journal text: they change no
  decision that is modelled. The journal is append-only output of actions that
  are.
* Volume, and prices within a minute, in the candle store.
* Candles out of order: the file feed sorts. Reading half-written cache files
  belongs to the library that reads them.
* Scanner, calibration, report metrics, CLI, configuration, data tools and the
  research scripts, which are most of the repository's lines: read-only,
  offline, or input and output. They keep no state that a later step reads
  back, and a model of them would be a list of formulas.

Hazards without a property, as `PROJECT.json` lists them:

* `gates.py:31`: `RiskState` is memory only, so a run that resumes on the same
  date counts its caps from zero. The orchestrator is modelled for one run.
* `pipeline.py:220`: `finalize` leaves an armed or resting plan unreported. The
  model does the same; no document says what should happen to it.
* `gates.py:143`: the event gate learns only of events on bars it is asked on.
  The model has it (`Events`); a property would restate it or contradict it, and
  no document takes a side.
* `pipeline.py:302`: the window of the taught tree is oldest first and knows no
  time to live. The model does the same (`Window`, `First`).
* `pipeline.py:262`, `template.py:80`: memory lost on a restart, of parts that
  are not modelled over time (structure's history, the lock).
