# A verification project for kairos-backtest

kairos-backtest is an offline research program: it records public market tape,
downloads and checks archives, evaluates trading ideas against them under a
frozen protocol, and decides whether an idea may be promoted. Most of its lines
are numeric studies. What is hard to get right is around them: records that must
survive crashes, attempts that may be made only once, processes that must not
work on one directory, and a position state machine that every evaluation
trusts. This project models those parts in TLA+, checks them with TLC and proves
what matters most with TLAPS.

Paths below are relative to `src/`; `K/` stands for `src/kairos_backtest/`.

## 1. The system

| Component | Source | State it keeps | Operations | What is hard |
|---|---|---|---|---|
| Capture tape | `K/liquidation_absorption_capture.py` | SQLite `segments` and `metadata`, one gzip file per segment; in memory a chain, a buffer, the open segment | `open`, `record_text`, `record_barrier`, `close`, `verify`, `run_for` | two processes and one directory; a kill between two writes; a lease judged by a clock read earlier; failure inside a close |
| Trial registry | `K/trial_registry.py` | a JSONL hash chain, a sidecar anchor, a lock file | `append_*`, `finalize_*`, `snapshot` | torn lines, a crash between record and anchor, rollback by someone without the lock |
| Managed position | `K/barrier_engine.py` | one `ManagedPositionState`: barriers, trailing stop, pending exit, remaining quantity | `on_candle`, `apply_exit_fill` | order of barriers within a candle, gaps, partial fills and retries over many candles |
| Managed cell evaluator | `K/managed_evaluation.py`, `K/execution.py` | the candle loop's local state: position, scheduled exit, capacity, equity, one disposition per intent | `evaluate_sleeve_cell` and the validator of its result | three kinds of exit at three points of the loop, latency, capacity shared by entry and exit, funding |
| Forward observation ledger | `K/forward_observation.py`, `K/forward_collection.py` | SQLite bars, intents and symbol states; an archive cache; backups | `ingest_bar`, `ingest_atomic`, `verify_integrity`, `backup_to`, `recovery_drill`, the daily sync | crash between days and symbols, duplicates, a block recorded apart from the failure it records, a backup of a ledger that moves |
| Quarter-hour features | `K/quarter_hour_features.py`, `K/aggtrades.py`, `scripts/recover_quarter_hour.py` | a SQLite ledger of monthly batches, chained | extract windows, corroborate gaps, `append`, `verify`, collect, recover | gaps at window, day and month edges; collectors that race, die and resume |
| Research recovery supervisor | `scripts/Invoke-ResearchRecovery.ps1` and its children | a status file and a lock file per track, child processes, ledgers, one result | scan, reconcile, start, record, wait, publish | start and save are two steps; children outlive their supervisor; two lineages, one result |
| One-shot evaluations and the screens' evidence | `K/*_screen.py`, `K/forward_evaluation.py`, `K/factor_study.py` and others | plan, attempt, result and summary files; the worktree | register, claim, open the data, publish | a crash must not give an attempt back; check and act are apart; overlapping runs |
| Campaigns and screens | `K/*_campaign.py`, `K/*_screen.py` | none beyond a run: request, intents by partition, cells, trials | slice, generate, partition, evaluate, verify evidence, gate, rank | roles and embargoes to the minute; the partition and the evaluator must agree on every lawful intent |
| Research protocol, cost and scenarios | `K/research_protocol.py`, `K/cost_risk.py`, `K/execution.py`, `K/scenarios.py` | none | windows, access, hurdles, funding | rounding of horizons and of settlements |
| Promotion gate | `K/promotion_v2.py` | registries, a freeze, a holdout run, evidence | declare, capture, freeze, assemble, evaluate | schedules that touch; files replaced between two reads |
| Portfolio and event engine | `K/engine.py`, `K/portfolio.py`, `K/clock.py` | cash, positions, an event heap | deliver events, apply fills | ties between events |
| Archive downloads | `K/data.py`, `K/aggtrades.py`, `K/factor_data.py` | a file cache | download, check, parse | a partial file in the cache |
| Statistics and reports, sleeve adapters | the remaining modules | none | pure functions | numeric |

How they interact: a campaign evaluates cells (each a candle loop over one managed
position) under two scenarios; a screen runs three campaigns, consumes its one
attempt before it opens the data, and publishes a result. Trials go into
registries, which are sealed, and which the promotion gate captures and reads
again. The forward ledger and the capture tape are fed by the outside and read by
later evaluations. The supervisor restarts the long quarter-hour and forward jobs.

## 2. Modules

| Module | Models | Composed with |
|---|---|---|
| `CaptureTape` | recorder processes over one capture directory | |
| `TrialLog` | what the registry promises (abstract) | |
| `TrialRegistry` | processes over a registry file, its anchor and lock | refines `TrialLog` |
| `ExitRequest` | what a managed position promises its owner (abstract) | |
| `ManagedPosition` | `on_candle` and `apply_exit_fill` | refines `ExitRequest` |
| `ManagedCell` | the candle loop of `evaluate_sleeve_cell` | uses its position as `ExitRequest` |
| `CellReplay` | `ManagedCellResult.__post_init__`, and what must hold of the ledgers | extends `ManagedCell` |
| `ObservationLog` | what the forward ledger promises an evaluation (abstract) | |
| `ForwardLedger` | processes over one SQLite ledger, with the daily sync | refines `ObservationLog` |
| `PeakWindows` | a month of trades: windows, gaps and their proof by daily archives | |
| `FeatureLedger` | what the feature ledger accepts, stores and is read for | extends `PeakWindows` |
| `FeatureCollection` | collectors and recovery scripts over one feature ledger | extends `FeatureLedger` |
| `ResearchRecovery` | supervisors, their children, locks and status files | |
| `StudyRun` | the files of every study, of the forward evaluation and of a ledger's backup | |
| `ResearchProtocol` | windows, roles, access, purge | |
| `ScenarioPair` | executions, hurdles, funding, what a pair of scenarios must satisfy | extends `ResearchProtocol` |
| `Campaign` | three campaigns and their screens | extends `ScenarioPair` |
| `Promotion` | plan, registries, freeze, holdout, evidence, report | extends `ResearchProtocol` |
| `*_proofs` | theorems | extend the component; `CellReplay_proofs` has those of `ManagedCell` too, `Recovery_proofs` those of `ResearchRecovery` and `FeatureCollection`, `Selection_proofs` those of `Campaign` and `Promotion` |
| `MC*` | constants for TLC | extend the component |

### CaptureTape

A row of `segments` is a row of the SQLite table together with the bytes of its
file; `sealed`, `lease` and `age` are the `metadata` rows (`age` is the wall
clock minus the heartbeat, so that no absolute time is needed and the state stays
finite); `rec[p]` is the in-memory state of recorder process `p`, lost by a
`Crash`. A hash is modelled by what it identifies, the sequence of events hashed,
so "the chain continues" means exactly what it means for SHA-256 without
collisions. Every SQLite transaction, file write and in-memory append is a step
of its own, and any other process may run between two of them. `open()` is three
phases: it reads the clock and the sealed head, then takes the lease in one
`BEGIN IMMEDIATE` transaction, then recovers (a `SELECT` and an `UPDATE`).
`_append` pushes one event and flushes or seals at its thresholds; `run_for` is
the set of things the WebSocket loop can ask of an open tape, and a call is never
started before the previous one has returned (it is one asyncio task).
Not modelled: how a frame is classified into event or barrier (the loop chooses
freely), the JSON status, byte-level gzip framing.

### TrialRegistry and TrialLog

`file` is the sequence of complete lines, `torn` says that an incomplete one
follows; each record carries the entries its `previous_hash` identifies. An
operation takes the lock and verifies, checks the size again under `O_APPEND`,
writes the line in two parts, and for a final record creates and fills the anchor
with `O_EXCL`. A process may be killed between any two of these. Someone without
the lock may cut the registry file back to any shorter prefix (`RollBack`).
`TrialLog` is a log that only grows and is frozen once by one outcome, or else is
known to be damaged; before the seal a rollback may pass unnoticed, after it never.

### ManagedPosition and ExitRequest

`state` has the fields of `ManagedPositionState`. `OnCandle` splits into the
branches of `on_candle` in their order: a pending exit retries at the open, then
stop gap, target gap, timeout, stop inside the candle (ambiguous when the target
is inside too), target, and a surviving close, which moves the trailing stop.
`raised` is set when the trailing candidate is not a price, which `on_candle`
reports by raising before it changes anything. `closes` and `fills` are history.
Fees, implementation shortfall and carry are sums that no decision reads and are
left out. `ExitRequest` is the owner's view: open until one candle asks for an
exit, no later than the deadline; then pending for that one reason until fills,
each against its own offer, have taken the whole quantity.

### ManagedCell and CellReplay

Candle `i` opens at time `2i` and closes at `2i + 1`, and latencies are in the same
ticks, so that a wait may end before, at or after an open. `pc` is the place in the
loop body: `open` (funding, capacity), `barrier` (`on_candle` of a held position),
`resting` and `application` (the exits filled before any entry), `entries` (the
intents due at this open, in their order), `entered` and `last` (the entry candle,
the exit known only at the close); `done` is the flat end, and `overrun`, `held` and
`illiquid` are the three ways in which the evaluation raises. Prices are left out:
`on_candle` may give any answer that `ExitRequest` allows, an admission may size
any quantity, a candle may leave any capacity. Equity is named by the trades whose
results it contains, so that "point in time" is a statement about sets.
Quantities are integers. Daily snapshots, cost sums, the position limit of
`AdmissionController` and the seeded fill jitter are not modelled.

`CellReplay` states the validator of the result, which shares no state with the
loop: it recomputes schedules, deadlines, capacity, retries and funding from the
arguments. `ReplayIsAccepted` says that the two tellings agree when no entry is stopped
at its own open (finding 4).

The composition is by promise. `Engine` instantiates `ExitRequest` with what the
loop sees of its position; `PositionKeepsPromise` says that every step of the loop
is an entry or a step of `ExitRequest`, and `ManagedPosition` is proved to
implement the same module.

### ForwardLedger and ObservationLog

`ledger[s]` is what is committed for one symbol: its row of `symbol_state`, its bars
and its intents. `tx` is the write transaction, of which SQLite (`BEGIN IMMEDIATE`)
allows one at a time, and which works on a copy of one symbol. `run[p]` is the
command process `p` executes: a sync, an explicit collection, an import of months,
one submitted bar, or a verification. Archive commands read every file of what they
stage first (a sync a day of all symbols, a collection all days of all symbols, an
import all days of one symbol), then ingest symbol by symbol, each in a transaction
of its own, and verify. Every bar is a step, and so is each of the three reads of
`verify_integrity`, which share no snapshot. A process may die or give up waiting
for the lock at any point (`Fail`), which rolls `tx` back. Minutes are counted from
the warm-up start; a bar is its content and a record hash the contents it chains. The
strategy is a set of windows it emits an intent on (`Signals`), so that a repeated,
missing or early intent shows. Archives appear in any order and never change.
`effective_today` is read once, at the start of a sync; a missing archive ends a
command, whether `FileNotFoundError` is tolerated within the grace period or raised
after it, since both leave the ledger as it is. `ObservationLog` is one log per
symbol that only grows and that a violation freezes for good.
Not modelled: the archive cache and its checksums, and tampering with the file, which
`verify_integrity` also detects. Backup, recovery drill and the sealed dataset of an
evaluation are in `StudyRun`.

### PeakWindows, FeatureLedger and FeatureCollection

Time is counted in ticks, and prices and quantities are left out: a window keeps
which trades it was computed from. `PeakWindows` is one pass over a month: at every
planned phase the window `(T, T + Window]`, its reference trade, which may be the
last of the previous month, the gaps in the trade numbers, the window each gap is
charged to, and the corroboration of a gap by the daily archives, inside one day or
across midnight. `FeatureLedger` is what `append` accepts and `verify` asks, over a
sequence of rows that stands for the hash chain. `FeatureCollection` adds the
processes: collectors that open the ledger, take batches one by one or a month in
parallel, check and insert in separate transactions, and the recovery script that
prepares a month and starts a bounded collector, which outlives it. A collector has a
range of the plan left to do, and holds the last trades it has read for the batches of
its month: what it extracts may be old when it is inserted. The archives
are an input: `Feeds` names which trades the monthly and the daily files withhold,
swap or spoil. The verification and the count on opening are one step.

### ResearchRecovery

One record per supervisor (`sup`), per child process (`proc`), per status file
(`status`), and per ledger the number of committed batches. A supervisor takes the
lock of its track, reconciles the status file (a live or unreadable child is a hard
stop), scans the process table, and then for each phase saves the status, starts a
child, records it and waits. Any supervisor and any process may die at any step;
children live on. The two lineages lock separately and share the result path, where
only the exclusive link decides.

The scan's pattern is `-m`, white space and the bare name of a module (220-227), and
`Invoke-Phase` puts every argument of a child in double quotes (180-188). The scan
therefore matches no child that a supervisor started, of any track (`Seen`): it
matches the collectors that the recovery script starts, of either lineage. It matches
commands typed by hand as well, which are not modelled. What keeps a second writer
away from a supervisor's own child is thus the lock and the status file, and these
lose a child in two ways, which the history variable `escaped` records: its
supervisor dies between `Start-Process` and `Save-State`, or a later run refuses
because the child lives and saves `FAILED`, with no child, over the record that named
it. `scripts/README.md` says that a track has one writer; `OneWriterPerLedger` states
that and is refuted (finding 6). What holds is relative to these escapes: a living
phase is remembered or has escaped (`Remembered`), and whatever works beside another
writer or another supervisor's phases has escaped, or was started by a recovery script
that had (`SecondWriterEscaped`, `StrangerEscaped`).

The hash of the V4 ledger is compared only after the publication. The forward track
is in the module but not in the run's instance.

### StudyRun

A study is a list of file operations (`Do`), translated from its command line in the
order of its calls: exists-checks, environment capture, exclusive link or replace,
create and fill in place, read back, open the data. `Program` says which list a
study and its mode run. A run dies at any step, and a check that raises ends it like
a death; the source may be edited and committed meanwhile, and the forward ledger
may seal further minutes or be quarantined. A file is who wrote it, from which
source, at which watermark, and whether its bytes are complete. What is computed
between opening and publishing is one step (`Campaign` and `ManagedCell` have it).

The forward ledger's `backup_to` and `recovery_drill` are two modes of one more such
study: read the evidence, reserve an empty file exclusively, copy, compare, and
remove what one has reserved when anything fails. The evidence is read at one
instant here, while the code verifies and reads in several statements; a backup
whose own run is still comparing may be removed after a drill has already passed
over it, and the drill then reports evidence of a file that is gone.

What the code does and a reader may not expect, all visible in the properties'
exceptions: the development screen, when told to overwrite, replaces its plan before
it removes the stale result, and a run that dies in between leaves a result beside a
plan that never produced it (`K/development_screen.py:866-869`; the order-flow
screen does it the other way round, and `tests/test_orderflow_screen.py:664` tests
that). The factor study and the market anatomy look for their result, then write a
temporary file of a fixed name and rename it: two overlapping runs replace or tear a
result despite the refusal to overwrite. The quarter-hour screen has no attempt file:
its result is exclusive, its look is not. The forward evaluation does not look at the
quarantine again after it has counted.

### ResearchProtocol, ScenarioPair and Campaign

`ResearchProtocol` translates windows, roles, purposes and access. `ScenarioPair` has
executions, the all-in cost hurdle and the funding a position may owe, with which
each campaign builds its two scenarios and refuses those that do not dominate each
other; costs are in eighths of a basis point. `Campaign` is one campaign from request
to evidence and one screen from three campaigns to a selection. The generators are
outside and may return any list; a cell's trading is a `Book` of what the gates read.
Days, units and windows are constants; `Lists`, what the generators may return for a
request, is one too, so that the theorems are about any generator and the run about
lists around every boundary. A bar is a minute here and intents never expire before their entry (the bars last
longer than a minute's latency). The evaluator's own checks of order, costs and
funding are in `CellTakes`, next to the campaign's own: `NoLookIsWasted` is about
their agreement. The cache's manifest checks are reduced to a missing minute, the
finiteness of metrics is left out, and so are labels and notionals. Left as the code
has them: a profit factor that does not exist passes the quarter-hour screen and
fails the others; the directly called campaign has no terminal embargo; the
development campaign does not compare the scenarios' inventories. The embargo of the
regime/retest campaign, 152 minutes, is exactly tight.

### Promotion

`disk` are the sealed registries' files, known by the number of their content, which
somebody may replace; `final` and `inner` are captures, checked against the disk
whenever the code reads again. `Declare` is the plan's validation, `Seal` the
operator's sealing of every registry in one step, then capture, freeze (of a
selection or of a rejection of all), the holdout run, `Assemble` and `Evaluate`.
The report never names a target, since two reasons against one are fixed. Folds'
registries are distinct from each other but nothing compares them with the final one,
and nothing checks that the final freeze is dated after its selection window (the
folds' freezes are checked). Not modelled: the statistical gates (plateau, CSCV, DSR),
the policy's thresholds, and the provenance of the terminal run.

## 3. Runs

| Run | Shows | Bounds, and why they are enough |
|---|---|---|
| `tape_one` | what `verify` accepts, gaps, final evidence, liveness for one recorder over a crash, restarts, disconnects and rotations | 3 segments of 3 events with a checkpoint every 2: a rotation, a partial checkpoint and a recovered segment all occur; 2 connections; 1 crash at any step |
| `tape_pair` | who ends a lease; exclusion and one active segment as long as nobody overran | 2 recorders, a stale limit of 2 ticks that a quiet holder may reach, so that takeovers, their conflicts and refused recoveries occur; 870,640 states |
| `registry` | `TrialRegistry` implements `TrialLog` | 2 processes, 4 records, 2 crashes, 2 rollbacks: a torn line, then a rollback of it, then another crash |
| `position` | every history of 3 candles over 5 prices, long and short plans, partial fills and retries | quantity 2: a decision, a partial fill, a retry and a final fill fit; gaps in the candle numbers are allowed |
| `cell` | the loop against its validator, ownership, deadlines, funding and the use of the position | 6 candles, capacity and requests up to 2, settlements at candles 2 and 3; intents that share an open, follow a trade, or come too late, under three latencies and graces: a partial fill, two retries and a second trade fit |
| `ledger` | the chains verify and only grow, intents are those of the chain, verification fails only beside a commit, the watermark catches up | 2 symbols, 2 days of 2 minutes, a window of 2 bars and decisions every 2: warm-up and blind days, a window across midnight, a day committed for one symbol only, gap, boundary and conflict all occur; 2 processes and 1 death or lock timeout |
| `features` | the ledger is one undisturbed pass, windows are causal, accepted gaps are the daily archives' too | 2 symbols, 2 months of 2 days, 2 phases; 37 feeds that drop, swap or spoil one or two trades around each kind of edge; 2 collectors and a recovery script; 68,040 states |
| `features_clean` | the finding of section 4 | as `features` |
| `recovery` | a living phase is remembered or has escaped, a second writer or a stranger is such an escapee or its collector, `COMPLETED` has published | 2 supervisors on both lineages, 3 processes, 3 supervisor starts, ledgers of one batch: a dead supervisor, its orphan, the orphan's child and a successor fit; 4,731,207 states |
| `studies` | attempts, looks, publications, backups | 3 runs of any one study, 1 edit, 3 minutes whose closed trades go 0, 2, 1, 3 (a position liquidated at one watermark is open at a later one): two overlapping runs and a restart after both; 704,785 states |
| `campaign` | embargo, wasted looks, selection | 3 minutes a day of 3 units, a latency that is no whole minute, so that every rounding shows; 2 intents, 3 trials, 4 books, 5 markets with 3 candidates, windows of 4, 2 and 2 days, lists of up to two intents at every boundary; 1,484,212 states |
| `promotion` | fresh days, the rule, one candidate | 16 plans that differ in purge, horizon and place, 2 folds, 8 registries that each break one rule, one replacement at any time; 188,984 states |

Deadlock is not checked (`CHECK_DEADLOCK FALSE`) because each system stops: a
closed position takes no more calls, a damaged or finalized registry refuses
everything, the bounds on events, segments and connections end a capture, and a
study, a campaign and a promotion end. The bound on days ends nothing in the ledger,
but a quarantined one refuses every sync.

`studies` and `features` use the symmetry of runs and of collectors, which the modules
never tell apart; no run with liveness uses one.

### Fairness

`tape_one` and `ledger` check liveness, under their `FairSpec`. On the tape, a started call runs on (each
`WF` is over the steps of one process that is not waiting for anything outside),
and the wall clock advances. `OpenTape` is in the fair part of `Open`: it says
that a recorder that stopped is started again, which is the operator's part and
not the program's; `LeaseNeverLost` needs it, since a refused `open()` gives up
and does not wait. Nothing is assumed of the exchange (no fairness on `Feed`) nor of crashes.

In the ledger a command goes on as long as its process lives (`WF` of `Continue`); the
lock is granted to a process that keeps asking while it is free again and again (`SF`
of `Begin` and `Block`: SQLite polls until `busy_timeout`, and a process that gives up
is one of the bounded `Fail`s); and a sync is started again whenever it may be (`SF` of
`StartSync`, the daily task around the command). `StartSync` needs `SF` because another
command of the same process takes turns with it. Nothing is assumed of publication:
`CatchesUp` speaks of days that are available.

The other modules have no liveness: a supervisor, a study and a collector are started
by a person, and nothing in the code promises that they come to an end.

## 4. Findings

**A withheld trade inside a clean target** (`features_clean`, `K/aggtrades.py:778`).
`README.md:295-297` says that affected targets are removed from authoritative metrics.
A gap is charged only to the window in which the next present trade falls. When the
trades missing from the end of a window are followed by a trade outside it, that
window stays clean although a withheld trade lies in its own span.

Six more divergences were met while modelling. They are described and not kept as
runs; each can be seen again by changing the instance that is named.

1. *A stale sealed head* (`K/liquidation_absorption_capture.py:459`). `open()` reads
   the sealed head before it takes the lease. If another recorder seals its last
   segment and releases the lease in between, the new one extends a chain that is no
   longer the head, and `verify` rejects the sealed directory.
   (`CaptureTape_pair.cfg` with `VerifyAcceptsQuiescentTape`.) That nobody does this, and
   that heartbeats are in time, is what `QuiescentTapeVerifies` needs of the operator.
2. *A quiet holder loses its lease and does not notice* (`:468`). The heartbeat moves
   only with a flush. A holder that appends nothing for the stale limit is taken over
   and goes on writing: two active segments, the state `_recover_open_segment` calls
   impossible. (`CaptureTape_pair.cfg` with `[]OneActive`, without the premise.)
3. *CAPTURE_STOPPED at a boundary* (`:633`). When that event is the one that fills a
   segment, the rotation leaves an empty segment to the final seal, which raises;
   `run_for` asserts that a clean close returns a status.
   (One recorder, `StaleAfter` 1, `MaxLag` 0, `MaxQuiet` 3, segments of 3, 4 events, with
   `CleanCloseReturnsStatus`.)
4. *A stop at the entry's own open* (`K/managed_evaluation.py:735`). A stop that the
   entry's own open has crossed closes the trade at the entry's timestamp. The
   validator counts that trade among those its own admission had seen closed and
   rejects a result the loop had computed. It takes costs at least as large as the
   stop's distance, which the configuration allows and the shipped one avoids; `cell`
   therefore has `OpenStops = FALSE`. (`ManagedCell.cfg` with `OpenStops = TRUE` and no
   settlements.)
5. *A quarantine can be lost* (`K/forward_observation.py:592`). `README.md:450` says
   that a gap, reorder or conflicting final bar permanently quarantines its symbol.
   `ingest_bar` and `ingest_atomic` roll back first and record the quarantine in a
   second transaction. If the process is killed in between, or the second
   `BEGIN IMMEDIATE` waits longer than `busy_timeout`, the symbol stays open.
   (`ForwardLedger.cfg` with `Commands <- CollectsAndLines` and `ViolationQuarantines`.)
6. *A second collector beside an orphan* (`scripts/Invoke-ResearchRecovery.ps1:184`).
   `scripts/README.md:4-5` says "Each track owns an exclusive OS lock and refuses an
   existing live child or an independently running command for the same research track",
   and lines 27-28 "A live child or an unreadable identity remains a hard stop". The child
   is started before it is recorded (186-193), and the scan matches no command line in
   quotes. A supervisor that dies in between leaves a collector that nobody knows, and the
   next one starts another on the same ledger. A refusal leads there too: the catch block
   (306-310) saves `FAILED` without a child, so the run after the one that refused finds
   nothing to refuse. `LedgerIsReplay` holds for any number of collectors, so the committed
   rows stay those of one pass; the cost is work done twice and a collector that stops on
   a batch the other has committed. (`ResearchRecovery.cfg` with `OneWriterPerLedger`.)

Also worth knowing: a gap across midnight that complete daily archives contradict is
accepted when a whole day lies inside it, and refused when it spans two days only; the
exception is spelled out in `GapsAreReproduced`.

## 5. Theorems

All are proved for every value of the constants that satisfies the named
assumptions.

**CaptureTape** (assumption `TapeBounds`). `TypeCorrect`, `LeaseExcludes` and
`OneActiveSegment`. The last two say what holds *as long as* whoever runs on its
lease has flushed within the stale limit (`[]HeartbeatsInTime`): the code does not see
to that, and finding 2 shows what happens without it, so the premise is part of the
property and not an assumption on constants. Neither property is inductive.
`RunningHoldsLease` needs that the holder's heartbeat is fresh as well (`FreshHolder`),
or the next lease step could take it over;
`AtMostOneOpenSegment` needs which row is open at each program counter: none once
recovery is past, exactly the recorder's own while it is live. `ExclusionInv` is
that conjunction, kept by every step between two states with timely heartbeats;
each action has one step.

`LeaseEnds` (only its holder or its age ends a lease) and `GapsStayBarriered` have no
premise. The second needs more than the chains of the ledger: `GapInv` adds that what a
running call has yet to append fits the end of its chain (`Fits`), because a disconnect
and the frame after it are two calls with a rotation or a crash between them, and that
the sealed head and the first chain of every row, from which recorders resume, have no
gap either.

`QuiescentTapeVerifies` and `SealedIsFinal` hold as long as the directory is
`Undisturbed`: no two recorders are past `_acquire_lease`, and each took the lease on
the head it had read. Timely heartbeats give the first (`LeaseExcludes`), nothing in the
code gives the second (finding 1), and TLC refutes both properties without it.
`SeparateRunsVerify` has the premise an operator can see to: one capture process at a
time, whatever kills it. The invariant is `SealInv`: the sealed rows form one chain that
leads to the head and replay from file to file, an active row is the newest and
continues the head, and a recorder at work continues them (`Evidence`, `Continues`).

**TrialRegistry** (assumption `RegistryBounds`), for any processes, records, crashes and
rollbacks: `TypeCorrect`, `TornLinesStay` and `Implements`, the refinement of `TrialLog`.
`RegistryInv` says that an operation in progress holds the lock (`Locked`); what it still
knows of the file it has read (`Operations`: no seal and no torn line has appeared, and
the file has at most grown by its own line, though it may have been rolled back); that
nothing is added behind a seal (`SealStays`); and that the intact trials are a beginning
of the file (`IntactFirst`), without which a line after a rolled-back one could count. In
the refinement a complete line of a trial is an `attempt`, the filling of the anchor a
`select` or `reject`, a rollback or a torn line that verification finds is damage, and
one that it does not find only shortens the log before it is frozen.

**ManagedPosition** (assumption `PositionBounds`). `TypeCorrect` needs `Links`:
remaining and filled add up, a pending position has a reason, an offer belongs to
the candle last seen. On top of it `StopCorrect` (the trailing stop is the best
candidate since activation), `OpenInside` (an unasked position is strictly between
its barriers), `FillsOnce` (strengthened by `FillsPast`: past fills precede the
offer in force) and `OfferCovered` (`OfferInv`). `Implements` is the refinement to
`ExitRequest`: initial states map to initial states, and every step to a step or a
stutter. The proofs hold for any prices, plans and number of candles.

**ManagedCell** (assumptions `CellBounds`, `NoneIsNoValue`). `IInv` adds to the
properties where a position may exist (`Where`), what the held one was promised at
entry (`Held`: room for its holding time and the grace, a scheduled exit no later
than that), what is still due of it at each place of the loop (`Stage`), and that
what is closed was closed by now (`Past`). `Stage` is the heart: an unasked position
meets its timeout in the candle it is due, and an asked one is filled in this
candle or has a schedule that is not behind; without it `NeverHeldTooLong` and
`OnePositionAtATime` are not inductive. From it follow `TypeCorrect`, `OnlyOne`,
`InTime` and `OnlyIlliquid`.

**CellReplay.** `FundingComplete` needs `Paid`: the position that is held has paid
every settlement since its entry, so that the exit that closes it finds the ledger
complete. `KeepsPromise` needs `Bars`: which candle the position was shown, by the
place of the loop, without which a candle could be shown twice. `Accepted` proves
`ReplayIsAccepted` under the one hypothesis `OpenStops = FALSE` (finding 4 is what happens
without it). Its invariant, `ReplayInv`, is what the validator asks for, said of a
ledger that is not finished: every trade, closed or held, has its one entry fill
(`EntriesTold`, with `Considered` for which intents are disposed of by when, and
`Outside`, that none is held at the end); the
capacity ledger balances and ends with the latest fill (`CapacityLedgerHolds`,
`LedgerEnds`); a disposition was true when it was written and stays so
(`DispositionsTold`); the attempts to leave are in order, follow from each other's
remainders and schedules (`Story` of the position, `TradesTold` of what is closed), and
charges lie inside a trade or the position (`ChargesTold`). `Story` is the part that
cannot be dropped: an exit in several attempts is judged by its whole list, of which the
loop keeps only the remainder and the next schedule. That the latest attempt of a list is
its largest index rests on well-foundedness (`WFMin`, in `LeastOf`), which needs no induction
over data. With
`ManagedPosition`'s `Implements` this composes the two: the loop relies on nothing
the position does not keep, and asks nothing of it that it does not offer.

**ForwardLedger** (assumptions `LedgerBounds`, `NoneIsNoTransaction`), for any
processes, symbols, archives, strategy and failures. None of the properties speaks of
a transaction under way, so none is inductive. `IInv` says: an entry is `Sound` when
rows, counters and intents are all computed from its chain, and so is every committed
entry and the one of the transaction (`TxOK`, which also says that it continues the
committed one, and does not grow a quarantined one); `Progress`, where a sync has
brought the symbols by its place in the day, which a death leaves behind for the
watermark to find; `Blocking`, what is still true of a violation between the rollback
and the quarantine; and `Reading`, that what a verification has read is still so
unless someone has committed. The core is `StoredSound`: appending one bar to a sound
entry adds the row and the intents that its chain then has, because the strategy
reads no more than the latest `Window` bars. From `IInv` follow `TypeCorrect`,
`Verifies`, `Replays`, `SyncResumes`, `AlarmsOverlap`, and `Implements`, the
refinement of `ObservationLog`: a commit observes or, quarantined, changes nothing; a
block quarantines; nothing else touches the ledger.

**ResearchRecovery** (assumptions `TrackAssumption`, `BatchAssumption`), for any
supervisors, processes, batches and deaths: `PhasesAreRemembered`, `SecondWriterHasEscaped`
and `StrangersHaveEscaped`. The scan happens once, before the first phase of a run; that
what it showed is still true when a collector starts needs more than the three
properties. `IInv` adds one supervisor per track (`Locked`), what a supervisor knows of
its child (`Supervised`), which processes can belong to a track and that one with a
parent is a collector of a recovery script (`Placed`), that beside a recovery script
that has not escaped only its own collector touches the ledger (`RecoversAlone`), and
what the status file still names while a supervisor reconciles and after (`Filed`).
`CompletedMeansPublished` adds `Publication`: a replication that
ended well has published a complete ledger of its track (`Replicated`), a supervisor's
child is the phase it has recorded (`Phased`), and a run of V4 has its replication
before it until the result is there (`Ends`).

**StudyRun** (assumptions on the watermark and the bounds), for any number of runs,
edits, deaths and minutes. The studies are fixed lists of file operations, so the proofs
first state what stands where in a list (`Claiming`, `Registering`, `Linking`, `Renaming`,
`BackingUp`) and then argue about any run at any place of it. `Base` has the types, that
a run is inside its list (`Sited`), and that two live runs know that they overlap
(`Overlapping`). Each theorem adds one fact about what the other runs can do meanwhile.

| Theorem | Needs, beside `Base` |
|---|---|
| `OneLook` | `Claimed`: who looked or published owns the attempt, and so does every run past its claim |
| `JudgedIsCounted` | `Counted`: past the gate the watermark has enough, past the claim it is the attempt's |
| `EvidenceStaysTogether` | `Together`: past its plan a run has its plan on disk, and stale evidence is gone first |
| `BackupIsComplete` | `Backed`: a file that was reserved stays its run's own |
| `ResultsAreWhole` | `Published`: a linked result is whole, a renamed one is whole or its file was shared |
| `WhatIsPublishedStays` | `Backed`, and `Looked`: what appears after a run looked came from a run it overlaps with |

**FeatureCollection** (assumptions `GridAssumption`: phases fit their quarter and do not
overlap; `PlanAssumption`; `FeedAssumption`: an archive is a list of trades with natural
numbers, ordered or not), for any symbols, months, archives, collectors, scripts and
deaths.

- `LedgerReplays`. `CollectionInv` says that every row is what its batch extracts behind
  the last trade of the row before it in its symbol (`Replayed`), and that a collector
  which read its last trade earlier is still `Honest`: what it holds is stale only where
  the ledger has its row already, and is refused there.
- `GapsReproduced` needs `GapProofsHold`: the proofs of every row, and of every batch on
  its way into one, name its gaps and reach over each of them. The rest is about the
  daily archives: what a proof inside a day or across midnights shows is that the days
  it joins are dense but for the gap (`SameDayHolds`, `CrossDayHolds`, `Contiguous`).
- `WindowsCausal` relates the scan of one month to the trades of all: those of earlier
  months lie before (`EarlierMonths`), a month that passed its checks is ascending in
  number and time (`PassedKnows`), and a window of a clean target has every trade of its
  span (`CleanIsWhole`).

The lists a pass builds are folds of the library, whose recursive functions mean something
only if they exist: `RecursionExists` shows that from well-foundedness, for the lists that
are filtered (`KeptFrom`) and joined (`FlattenIs`).

**Campaign** (assumptions `CampaignUnits`: a day, and the warm-up, are whole; `DatesAreDays`;
`BooksCount`: books count in integers; `ListsAreTyped`: generators return lists of intents
with integer times, nothing more; `SetupsAreTyped`; `HorizonIsShort`), for any symbols,
windows, generators, executions, candidates, thresholds, books and number of trials. Two of the
assumptions say something of the configuration that the code does not check: a
settlement interval is a whole number of minutes (`FundingConfig` checks its sign, and
an hour is the only value anywhere), and the terminal embargo, 152 minutes, is not
longer than the two days a campaign has at least.

`CampaignInv` says, by the stage of the campaign: what was admitted and that the data are
whole (`Gated`), that what was kept is the partition of what was made and accepted
(`Kept`), that every cell disposed of what its partition gives (`CellsFit`, which outlives
the stage, because a refused or finished campaign still has its cells), that only a
broken generator stops it once the data are open (`Blamed`), and that the ranking is that
of all planned trials (`RankFits`). `Blamed` is the heart, and rests on three arguments:

- a partition loses and reorders nothing it should not. `InOrder` of a strict order on a
  finite set names every member once (`PlacesAreTaken`, `InOrderAt`), so a filtered
  list is drawn from its source and a sorted one has its members; the warm-up, evaluated
  and embargoed parts of an ascending list are consecutive stretches of it (`CutsJoin`);
- a charge never exceeds its hurdle: the settlements after the open and up to the deadline
  are no more than the hurdle counts, whatever the interval and the horizon
  (`SettlementsAreFew`, by an injection into quotients; `FundingIsCovered`,
  `CostsAreCovered`);
- what a stage checks was implied by the stage before it.

From it follow `RoleStays`, `LooksCount`, `EmbargoCovers` (rounding up once to the minute
covers latency, label and holding, `EmbargoFits`) and `SelectionHolds`, which needs that
the ranking is a strict order, that sums of books are integers whatever the order they are
taken in (`SumIsInt`), and that the first of an ordered list beats every other.

**Promotion** (assumptions `PlansAreDated`: dates are integers; `RegistriesAreSealed`: a
registry's trials are a list and what it chose is one of them or none), for any plans,
number of folds, registries and replacements of files. `JudgedFresh` and
`CandidateIsOne` need `Assembled`: what the evidence was made of still fits together,
though the files it was read from may have been replaced since, because every action
that could change the plan, a capture, the freeze or the holdout is over by then.
`PlansFit` is the arithmetic of an accepted plan: every fold trains, purges and tests in
order and ends a purge before the holdout, and a purge is no shorter than an outcome.
`ChosenByRule` needs `FrozenByRule`, and that the best passing trial exists in a list of
any length (`BestExists`); without that, what `RuleSelected` chooses would mean nothing.

The type invariants of the modules with proofs are proved and not run (those of
`FeatureCollection` and `Campaign` as parts of their invariants), except `Promotion`'s,
whose types are those that `Base` needs.

## 6. Only model-checked

Every invariant and every action property that a passing run checks is proved, and so are
the refinements. Only liveness is not (`CatchesUp`, `LeaseNeverLost`, `StopCompletes`):
fairness and `ENABLED` are out of the prover's reach. `RoleStays` is the one property that
is proved and not run. The property of `features_clean` is refuted by its run. The numeric
bounds of the runs are no part of the theorems; what a module leaves out (sections 2 and 7)
is left out of its theorems too.

## 7. Not modelled

- **Portfolio and event engine.** Decimal bookkeeping over one sorted list of events,
  in one process and one pass, with no state that outlives it. The managed evaluator,
  which every current study uses, has replaced it and is modelled.
- **Numeric code**: statistics, regressions, position sizing, profit factors, reports,
  the screens' metric formulas. Straight-line float arithmetic; the properties would be
  about rounding. The rounding that decides something (horizons, settlements, costs) is
  in `ScenarioPair` and `Campaign`.
- **Archive caches and candle archives** (`K/data.py`, `K/forward_collection.py:118`).
  Input. A file that fails its checksum stays in the cache and is refused again.
- **Sleeve adapters and generators.** They live in an external package; `Campaign`
  takes any list they may return.
- **The environment pins of the regime/retest screen** (`K/regime_retest_screen.py:361-660`)
  beyond capture and stability, and the preflight receipts: folded into `Capture`.

Hazards that are known and that no property covers: a crash while a gzip member is
appended (`K/liquidation_absorption_capture.py:619`), `verify` reading rows and
metadata without a transaction (`:371`), a depth update without a sequence number that
resets the remembered one (`:345`), the directory entry of a registry file after a
power loss (`K/trial_registry.py:1002`), a trailing distance larger than the close
(`K/barrier_engine.py:517`), the archive caches (`K/forward_collection.py:118`,
`K/data.py:279`), and the preflight's rename
(`scripts/quarter_hour_recovery_preflight.py:130`). They need byte-level files, a disk
that forgets, or floats.

What could come next: the archive caches, and the statistical gates of the promotion.
