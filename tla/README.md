# A formal model of fno-ai-paper-trading

The repository trades NIFTY options and futures on paper and, behind gates, against a real broker. It
decides when a bar is complete, turns signals into orders, keeps positions and money, stores what it
did so that a restart can go on, and refuses what it cannot confirm. This directory models the parts
that keep state and decide what happens next, checks them with TLC on small instances, and proves
with TLAPS, for all instances, every safety property that the passing runs check.

Source paths are relative to `src/src/fno_ai_paper_trading/` unless they start with `docs/` or
`scripts/`, which are relative to `src/`.

## 1. The system

| component | state it keeps | operations | what is hard about it |
|---|---|---|---|
| **vNext execution** `execution/vnext/` | per run: believed position, transition in flight, guard; shared: slot registry | `on_signal`, construction on a broker snapshot | each broker call may raise; orders fill between calls; two runs share an account; machines are rebuilt, processes die |
| **Live execution test** `execution/manager.py`, `state.py`, `risk.py`, `gate.py` | lifecycle state machine, deadline, acks, audit file | one `run()` of twelve steps | lost acknowledgements, cancels that come late, audit writes that raise, consent that expires, time before the close |
| **Daily paper track** `paper_track/` | engine memory; per day a checkpoint and a report, one manifest, each with a sha256 sidecar | `step` per tick, `live-daily` per day | death between two writes, late and missing bars, the flatten window overlapping the last bar, days resumed by other processes |
| **Paper track lock** `paper_track/lock.py` | a lock file with pid and heartbeat | acquire, heartbeat, release | read-then-write, wall-clock staleness |
| **Fresh OOS collection** `fresh_oos/` | per day three files; manifest file and a copy in each process; lock file; failure counters | collect pass, scheduler loop | concurrent processes, takeover of a lock, half-written days, provider drift, escalation |
| **Single-use validation** `fresh_oos_validation/` | consumption record, results | `run_controlled_validation` | reads manifest and files without the lock; used once |
| **Paper session** `services/paper_session.py`, `trading_service.py`, `portfolio/`, `broker/`, `risk/` | consumed candles, entry candle, counters; cash, position, trades; the broker's fills | `poll` (per candle: signal, then stop), `snapshot`, `restore` | limits that refuse an exit, fills the books may refuse, slippage the sizer leaves out, candles decided twice |
| **Options paper simulation** `paper_track/options_paper/` | lifecycle records in memory; a file with sidecar for each, an index | `submit_entry`, `request_exit`, `mark_market`, `reconcile`, `restore` | an event repeated, or with the same id and another content; death between the four writes of a save |
| **Autonomous paper agent** `agent/`, `scripts/run_paper_agent.py` | agent state, session, last run of each job; session and record checkpointed one after the other; the trade ledger | `start`, `cycle`, `halt`, `resume`, ledger sync | death at or inside any write, jobs at most once in their interval, a ledger ahead of or behind the session |
| **Promotion** `promotion/` | append-only JSONL log, replayed into versions, chain and active index | `start`, `promote`, `rollback`, `rollback_to` | one champion; memory changes before the log is appended; promotions after rollbacks; two writers |
| **Learning loop, experience store** `learning/`, `persistence/experience_store.py` | stored experiences, comparison, gate result | `run_cycle` per batch of days: capture, store, compare, gate, registry | a cycle that stops half-way, a store rewritten in place, the registry it writes |
| Autonomous research loop `autonomous/` | loop state, ledger of decisions | one decision from the loop state, recorded | the same stage decided twice, stop conditions |
| Alerting and health `alerting/` | bounded alert history in memory | evaluate, send to sinks | repeated alerts, a sink that raises |
| Observability `observability/` | run ledger in SQLite | ingest, migrate | ingest again after a failure |
| Walk-forward, backtest, discovery, evaluation, research, options research, experiments, strategies, data providers, reporting, models, configuration | none beyond a call or a file | batch computations | numeric, not stateful |

How they interact. Strategies (pure functions) give signals to the paper session, the paper track or a
vNext machine. The paper track and the options simulation read the same candles. The live test and
vNext use separate broker adapters for the same venue. The agent starts paper sessions and reads the
registry that promotion writes; alerting reads the agent's heartbeat. Fresh OOS collection feeds the
single-use validation through files alone. Apart from the slot registry shared in one process, all
sharing between components is through files (the run ledger of observability is the only SQLite
database), and through the broker account.

What makes each correct:

- *vNext*: never two legs; never a sell beyond the holding; the slot covers whatever is at the venue,
  and is given up only on a flat account; an idle machine believes what the account holds; a
  transition ends unless its order's final status is not one the adapter knows.
- *Live test*: one entry and one exit at the venue; the exit covered by the completed entry; PASS leaves
  nothing of the entry behind; exits before the close; every run ends.
- *Paper track*: the account on disk is that of one uninterrupted run; a day is flat when reported, and
  reported once; a report matches the account; no entry in the flatten window; every day
  gets reported.
- *Fresh OOS*: passes do not overlap; accepted means stored and whole, and stays; bars never change;
  the pool is used once; failing passes do not go on in silence.
- *Options paper*: no event is filled twice; what was saved is not lost and does not make a later
  start refuse; an exit that was asked for again completes.
- *Paper session*: the books balance to the last commission; every fill is booked once and on its own
  candle; a stop is honoured whatever was refused before; the loss cap never holds a position.
- *Agent*: the account on disk only goes on; the trade ledger keeps up and repeats nothing; a job keeps
  its interval over restarts.
- *Promotion and learning*: memory is what the log loads as; one champion, whose title passes on or back
  along the chain; what a promotion rests on is stored.
- *Still to come* (section 13): one holder of the paper track lock.

## 2. Modules

| module | what it is |
|---|---|
| `VNextMachine` | vNext machines, guards, registry, account and orders |
| `SingleSlot` | abstract: one slot, one leg, given up when flat |
| `VNextMachine_proofs` | theorems about `VNextMachine`: first under any faults, then with answers that are the venue's |
| `ExecutionTestState` | the lifecycle object of `execution/state.py` |
| `LiveExecutionTest` | the manager that drives it, composed with venue, clock and operator (extends `ExecutionTestState`) |
| `LiveExecutionTest_proofs` | theorems about both |
| `PaperTrack` | engine, store and runner of the daily track |
| `DurableLedger` | abstract: the account as one uninterrupted run writes it |
| `PaperTrack_proofs` | theorems about `PaperTrack` |
| `FreshOos` | collectors, scheduler, store, manifest, lock, validation |
| `SingleUsePool` | abstract: bars written once, pool used once |
| `FreshOos_proofs` | theorems about `FreshOos` |
| `OptionsPaper` | engine and store of the options paper simulation |
| `PositionBook` | abstract: each event filled at most once, and closed at most once |
| `OptionsPaper_proofs` | theorems about `OptionsPaper` |
| `PaperSession` | one candle of the paper session and the account behind it, in exact amounts |
| `PaperSession_proofs` | theorems about `PaperSession` |
| `PaperAgent` | the agent around the session: cycles, checkpoints, ledger, jobs, deaths |
| `RestartableAccount` | abstract: an account on disk that only goes on |
| `PaperAgent_proofs` | theorems about `PaperAgent` |
| `ModelRegistry` | the version registry of `promotion/registry.py`, as operators on a log |
| `LearningLoop` | the learning loop and the operator's commands over that registry (extends it) |
| `Championship` | abstract: a title that passes on to a new champion or back along the chain |
| `LearningLoop_proofs` | theorems about `LearningLoop` and its registry |
| `MC*` | instances for TLC (symmetry sets only) |

Every module cuts the code where something else can happen: at a broker call, a file write, a clock
read. Between two such points the code runs as one action. Operators named as mutants in a comment are
altered copies of the definition after them; no specification uses them. They record which plausible
bug each property is able to see. `TypeOK` gives the shape of the state of each module; the runs list
it where it is also proved, and otherwise spend their properties on what could go wrong.

## 3. vNext (`VNextMachine`)

| variable | code |
|---|---|
| `pos`, `orders` | the account and orders at the venue (what `VNextUpstoxBroker` talks to) |
| `slot`, `guard` | `SlotRegistry` and `SingleSlotGuard._expected_contract_type` |
| `state`, `tr` | `_state`, `_transition` with its close and open order ids |
| `pc` | the next broker call of `on_signal`; "idle" between calls, "off" without a machine |

`OnSignal` and `Poll` are the two ways into `on_signal`; `Size`, `Claim`, `Precheck`, `Submit`,
`Status`, `Confirm`, `Fail` are its steps, `Abort` and `Release` its two except clauses. `Post` and
`Settle` are the venue: an order trades unit by unit, may be refused after a partial fill, and, with
fault "lag", is reported FILLED before the position shows it. With fault "unmapped" a final order gets
a status that `_map_order_status` reads as a working one: a token it does not know, or a completed order
that filled short. `Construct` is `__init__` with
`_adopt_broker_position`. `Faults` selects which broker calls may fail and whether machines are
rebuilt or the process dies.

Abstracted: strikes, expiries, prices and instrument keys (a leg is CE or PE); the three working statuses
and the three refusals (of which the adapter raises one and returns two); reasons and logging. `reconcile` is an atomic read of the account.

| run | instance | shows |
|---|---|---|
| `vnext_reliable` | 2 runs, 3 orders, lot 2, a submission may be refused, a final status unread | `NeverOversold`, `SlotCoversAccount` (so never two legs), `BeliefMatchesAccount`, refinement `SlotSpec` |
| `vnext_faulty` | 1 run, 2 orders, all faults, fair | `TypeOK`, `ReservationHeld`, `ReleasedOnlyWhenFlat`, `TransitionSettles` |
| `vnext_oversell` | 1 run, only status calls fail | violates `NeverShort` |

The first run has two faults, a submission that the venue refuses and a final status that is not read as
final, because its properties survive no other: `vnext_oversell` shows what a lost status call does, and a crash alone leads to both legs
(section 12). The second run has one machine, because liveness with two
is out of reach; that several machines under faults keep their types and reservations is what the
theorems of section 11 add. With lot 2 a partial fill exists; three ids let a close, its reversal and
another run's order coexist; two runs are the first interesting number of holders, and `MaxPos` 3 lets
a third unit be bought if a bug allowed it. Order ids are recycled once nothing refers to them, so behaviours are not bounded in
length. Runs are interchangeable (symmetry, in `vnext_reliable` only).

*Fairness* (`vnext_faulty`): a call that started returns (`Work`), the venue finishes each order
(`Settle`), and the caller calls again with the signal in flight: bars keep coming and the signal
repeats until it completes, which is how `on_signal` is meant to be polled. Strategy signals
themselves are not fair. `TransitionSettles` excepts an order that ends unmapped: the machine then polls
it for ever and refuses every other signal, with its reservation held. *Deadlock* is not checked in two runs: an account that is short or holds both
legs makes every construction refuse, and a caller need never give another signal.

## 4. Live execution test (`LiveExecutionTest`, `ExecutionTestState`)

`ExecutionTestState` has the edge table and the counted `give_entry` and `give_exit`. The manager is a
straight line of actions named after its steps (`Start`, `Authenticate`, ... `Finish`), with `Caught`
for the handler in `run()`; `MoveAnd` is a transition that raises if its edge is missing, and
`Recorded` an audit record that may raise. `order`, `placed` are the venue; `now` is the clock, `spent`
the part of it consumed by calls; `consent` what the gate would say now, `gateOk` what it said at the
start. `Keying` is the id the venue answers status calls for.

| run | shows |
|---|---|
| `live_test_faulty` | eleven faults at once, every mode, every starting time, an account that held the contract before: `TypeOK`, `OneOrderPerLeg`, `ExitCoveredByEntry`, `PassLeavesNothing`, `ExitBeforeClose`, `RunEnds` |
| `live_test_order_ids` | violates `CompletedIsConfirmed` without any fault |

Bounds: lot 2 allows a partial entry; one unit of latency is enough for a deadline to be passed between
two calls; the session of 8 leaves both accepted and refused starts with hold 2 and buffer 3. The
assumption `Timeout + Poll + MaxLatency <= Buffer` names what the code relies on: 60 s of waiting and
the calls around it fit into the buffer (30 s against 900 s by default, `config/settings.py:181` and
`execution/risk.py:31`). *Fairness*: the manager is a running thread whose clock
advances by its own sleeps; venue and operator owe nothing. *Deadlock*: a run is over.

## 5. Daily paper track (`PaperTrack`)

`eng` is the memory of `TrackEngine` (session day, last consumed bar, open position, fills, end-of-day
status, finalized days); `ckpt`, `report`, `manifest` are files with sidecars; `todo` lists the files
the engine still writes at this tick. `Start(d)` is `live-daily`, which refuses a day with a report and
resumes the latest checkpoint; `Skip`, `Process`, `Idle`, `IdleFlatten` are the outcomes of `step`;
`WriteCheckpoint`, `WriteReport`, `WriteRun` replace a payload, `Hash` its sidecar. `Crash` is a death
anywhere. Prices, sizing, costs and risk limits are abstracted: any signal may come with any bar, any
bar may reach the stop, and an entry that the code refuses is one whose signal did not come.

| run | shows |
|---|---|
| `track_day` | 2 days of 4 bars, bars late or missing, one death: `ReportMatchesLedger`, `ReportedFlat`, `EntriesBeforeFlatten`, `Durable` (refines `DurableLedger`), `DayEnds` |

Four bars are two trading ticks, then a flatten window holding the last bars, so that entry, stop, exit
and flatten meet on one tick; the second day exercises the roll-over; one death already reaches every
pair of writes, since the restarted process starts from the disk alone. *Fairness*: `WF(Step)`, the
process runs on; `SF(Start(d))`, the scheduler invokes `live-daily` again as long as the day can be
started. *Deadlock*: when all days are reported, or a torn checkpoint cannot be loaded, nothing runs.
The model runs one process per account and the days in calendar order.

## 6. Fresh OOS (`FreshOos`)

Collectors are the resident scheduler and manual `collect` commands. `mem` is the manifest that each
loaded when it was constructed, `manifest` the file, `files` the three artifacts of each day, `lock`
the lock file (`Dead`: its creator is gone). A pass is `Acquire` and `Write`, or, when the lock file
exists, `FindStale`, `Break`, `Create`, or `Busy`; then per day `Examine` and `Verify`, or `Fetch`
and three `Replace`, then `Save`. `PassOver` holds retries, failure count and stall of the scheduler.
A validation is `Invoke`, `LoadManifest`, `Load`, `Evaluate`, `CheckRecord`, `Consume`, `WriteResults`.
Bars are a hash; what the provider serves is any hash, any error, or nothing.

| run | shows |
|---|---|
| `fresh_oos` | a scheduler, a command, a validation, two days (one with an established dataset), a death anywhere, any lock found stale at any time: `OnePass`, `AcceptedIsStored`, `SingleUse` (refines `SingleUsePool`), `KeepsWorkingOrStalls` |

`lock.py` reads whether a lock is stale, then unlinks whatever lock file is there, then creates its own;
nothing excludes another process in between, and the model has no clock, so an existing lock may be
found stale at any time: old because its holder died, old because a pass takes more than 15 minutes,
missing by now, or not written yet. So passes do overlap in this run, against `lock.py:1`, and the
history variable `robbed` says when: a take-over removed the lock file of a live process. `OnePass` is
that nothing else makes passes overlap, and `AcceptedIsStored` and the content of the pool in `SingleUse`
hold until then; the single use of the pool and `KeepsWorkingOrStalls` hold in any case. A command runs
once; a second one would be another element of `Manuals`. Two hashes let the provider disagree with itself; two days
of which one is established cover both sources of the pool; two retries and two failures reach every
branch of the scheduler. There is one validation, because it is a command given by hand. *Fairness*:
the scheduler is a loop that is started again after a death; a command that was started runs to its
end, but need not be started. *Deadlock*: the scheduler stalls by design, and everything else may
then be finished.

## 7. Options paper simulation (`OptionsPaper`)

`mem` and `order` are the two dictionaries of `OptionsPaperEngine`: the records by id, and the events
in the order in which they were first seen, which decides the record an exit finds. `file` and `index`
are the files of the store with their sidecars. `SubmitEntry`, `Exit`, `MarkMarket`, `Reconcile` are the
calls of the engine; each hands back a record, and the caller saves it: four `Write` steps. `Crash` is a
death between any two of them, `Restart` the new engine, which restores or refuses. `acked` is a history
variable: what the last save that returned had kept of each event. `OpenIn` is the record an
exit finds: the first seen of those that are open in the contract. `Requested` files a request; `WriteBody`, `WriteSha`, `WriteIndex` and `Saved` are the pieces of a save.
The phases that one call passes through, all prices and the identities over them are left out; `notes`
counts what is appended to a record without a change of its phase.

| run | shows |
|---|---|
| `options_paper` | 2 events, one contract, one death: `AckedKept`, `RefusesOnlyCut`, `SavedBook` (refines `PositionBook`), `ExitsComplete` |

Two events on one contract compete for one exit; two instants, one with trading and both with exits,
give late decisions, conflicting repetitions and entries that are rejected; one note is enough for
each appending branch. `AckedKept` would hold of an engine that never starts again, which is why
`RefusesOnlyCut` limits when it may refuse. Its `cut` is history: the files whose sidecar a death kept
from being written. One that no save has finished since, and the index, or a file the index
lists, is the only thing that keeps an engine from starting; in particular `restore` never takes a record
and its ".dup" for rivals, because of the order in which the index lists them. *Fairness*: a save goes on, a restart happens, and the
caller keeps asking for the exit with a usable quote; the position then closes even if an earlier
request was filed without data. *Deadlock*: an engine that refused to start stays off.

## 8. Paper session (`PaperSession`)

One step is one candle: `Candle` is `_process_candle` with a signal, the sizer, the limits, the order,
the fill, the booking and the stop, in the order of the code; `SkipCandle` a candle taken up outside the
open phase; `NewDay` the clock; `Save` a snapshot; `Restart` a new process on the last one. `session`
is the session with its portfolio and its broker. Amounts are exact integers in units of
1/`Den`^4, as the code's `Decimal` is exact: slippage, commission, stop price and profit are computed,
not abstracted. The signal is any; the candle's prices are any of `Prices`. Left out: short positions,
signal blending and reversal, which the long-only session never meets.

| run | shows |
|---|---|
| `paper_session` | 4 candles in any order, 2 days, 1 restart: `BooksBalance`, `EveryFillBooked`, `OneFillPerCandle`, `StopHolds`, `NoPositionOverCap` |

The prices 8, 10 and 20 are a stop, an entry and a rise that makes `max_order_notional` refuse a sale;
the loss cap of 8 is reached by one stopped position; four candles allow entry, refused sale, stop and
another entry, also split by a restart. Each of these situations was confirmed to be reached.
*Deadlock*: the candles are used up. There is no liveness: a session owes no trade.

## 9. Paper agent (`PaperAgent`)

`Boot` is `scripts/run_paper_agent.py` with `start`. `Cycle` is `cycle`, in its closed branch (a due
job) or its open one up to the poll, which takes up the bars in `eligible`; `Candle` decides the first
of them, `PollFails` is a candle that raises, after which what was decided before it stays decided, and
`Sync` is `_sync_ledger` once no candle is left. `Ends` leads to the checkpoint, whose up to four writes
are `Write`: `pc` names the file that is next. `Halt` and `Resume` are the operator. `sessFile` and
`agentFile` hold a payload and what its metadata describes. `Crash` may strike at or inside any write,
which leaves files that do not parse, and between any two candles. The bars a poll takes up, and which
of them trade, are left open (section 8 has what decides); `at` is the time of a fill, which differs
between processes, because the clock of a fill is the wall clock. `name` says whether the session's
name is one that `_safe_name` leaves as it is, since the session is saved under the changed name and
looked up under the one given; a run keeps one name. `lost` is a history variable.

| run | shows |
|---|---|
| `paper_agent` | 4 bars in 7 instants, late or out of order, one death: `StopArmed`, `DuplicatesFromDeaths`, `LedgerKeepsUp`, `AccountGoesOn` (refines `RestartableAccount`), `JobsSpaced` |

Four bars give two round trips; the three closed instants and an interval of 3 let a job be due, not
due, and due again around a death. Both kinds of name are initial states. `AccountGoesOn` exempts a
death inside a session checkpoint and, under a name that is changed, every end of a process;
`DuplicatesFromDeaths` exempts trades of two processes; section 12 says what happens then. *Deadlock*:
the instants are used up.

## 10. Promotion and learning loop (`ModelRegistry`, `LearningLoop`)

`ModelRegistry` has the registry as operators on a log: `Applied` is `_apply`, which both the memory
and a replay use, and the `...Line` operators are the entries. A process of `LearningLoop` is a run of
`run_learning_loop.py` or of one command of `manage_model_versions.py`: it reads log and store when it
begins and then works from memory. `Cycle` is `run_cycle` up to the stored experiences, `Truncate`,
`WriteRecords` and `WriteMeta` the flush of the store, `Gate` the next candidate that is promoted.
`record` is what the log loads as (its lines determine it). A change of the registry takes two steps, as
in the code: `Applies` changes memory and leaves the line in the process's `line`, `Persist` appends it
to whatever the log holds by then, in the log's text: `AsText` turns the parameters that JSON does not
have (the frozenset and the Decimal that `_params_for` keeps) into strings, as `json.dumps(default=str)`
does. A death in between leaves the log without the line, and `Clips` what a death inside the append
leaves: a part of the line, which no load accepts, or all of it but its end, so that the next line makes
it one (`clipped`). The outcome of a comparison is left open, except that a strategy does not fall short
of itself.

| run | shows |
|---|---|
| `learning_loop` | 2 processes, 2 runs of the loop and 2 commands in any order, 2 batches, 3 versions, one death: `MemoryIsLog`, `EvidenceStored`, `TitlePassesOn` (refines `Championship`) |
| `promotion_evidence` | violates `PromotedOnItsOwn` with the script's default candidates |

Two runs of the loop, two commands and three versions are what promotion, rollback, promotion and
rollback take, after which a version that was rolled back is champion again: TLC reaches this (20
steps). Two batches let the champion of the second be the one the first promoted. Nothing locks the two
files, and history variables say how far the properties go: `behind` are the processes another one's
line has overtaken since they read the log, `raced` says that one of these appended a line all the same,
`shared` that two processes were at work at once, `cut` that a death cut a flush. `MemoryIsLog` and
`TitlePassesOn` hold for overlapping processes until `raced`; `EvidenceStored` is about one at a time.
`TitlePassesOn` says that a rollback goes back along the chain, not that it goes to the previous
champion in time: section 12. Without liveness: a run may be stopped at any time. *Deadlock*: the runs
are used up.

## 11. What is proved

Each proof module is for any values of the constants within the named assumption of its model: any
number of runs, days, events, bars or deaths, where TLC sees two. The argument has one form throughout.
The checked properties are seldom inductive, so an invariant `IInv` adds what each place of the program
implies about memory and files; it holds initially, every action keeps it (one lemma per action), and
the properties follow from it. Each `IInv` was checked by TLC
on the run's instance before it was proved. A refinement maps each action to a step of the abstract
specification or to a stutter.

| module | theorems | hypothesis |
|---|---|---|
| `VNextMachine_proofs` | `Typing`, `Reservation`, `FlatRelease`: types, `ReservationHeld`, `ReleasedOnlyWhenFlat` | none |
| | `NoOversell`, `Covering`, `Belief`, `Refinement`: `NeverOversold`, `SlotCoversAccount`, `BeliefMatchesAccount`, `SlotSpec` | `Faults \subseteq {"submit", "unmapped"}` |
| `LiveExecutionTest_proofs` | `Typing`, `OneEach`, `Covered`, `RoundTrip`, `NoOvernight`, `Passing`: types, `OneOrderPerLeg`, `ExitCoveredByEntry`, `SingleRoundTrip`, `ExitBeforeClose`, `PassLeavesNothing` | `LiveTestAssumption` has the timing |
| `PaperTrack_proofs` | `Typing`, `Flatness`, `Reporting`, `Timing`, `Durability`: types, `ReportedFlat`, `ReportMatchesLedger`, `EntriesBeforeFlatten`, `Durable` | none |
| `FreshOos_proofs` | `Typing`, `Exclusion`, `Stored`: types, `OnePass`, `AcceptedIsStored` | in the properties: `robbed` |
| | `Used`: `SingleUse` | one validation |
| `OptionsPaper_proofs` | `Typing`, `Recovery`, `Refusal`, `Positions`: types, `AckedKept`, `RefusesOnlyCut`, `SavedBook` | none |
| `PaperSession_proofs` | `Typing`, `Balance`, `Booking`, `OneTrade`, `Stopped`, `CapLeavesExits`: types, `BooksBalance`, `EveryFillBooked`, `OneFillPerCandle`, `StopHolds`, `NoPositionOverCap` | none |
| `PaperAgent_proofs` | `Typing`, `Armed`, `NoDuplicates`, `KeepsUp`, `Intervals`, `Restartable`: types, `StopArmed`, `DuplicatesFromDeaths`, `LedgerKeepsUp`, `JobsSpaced`, `AccountGoesOn` | none |
| `LearningLoop_proofs` | `Memory`, `Evidence`, `Succession`: `MemoryIsLog`, `EvidenceStored`, `TitlePassesOn` | in the properties: `raced`, `clipped`; `~shared`, `~cut` |

A hypothesis is there because the property fails without it, and section 12 says how: a lost status call
or a crash breaks the vNext properties, a live process robbed of its lock gives two passes, two
validations both write the record. The code does not rule these out, so the theorems say what holds until they
happen.

Why the invariants are what they are:

- *vNext, any faults.* Nothing in `ReservationHeld` says that a run about to submit an opening order has
  recorded it. `Secured(m)` does: what the place of a run implies about its plan, its step and its guard.
- *vNext, reliable calls.* Overselling is a matter of all orders at once. `Claimed` says that an order
  that can still trade is the one the holder of the slot waits for, on the reserved leg, and sells no
  more than the account has; `Outside` and `Inside` say what a run without and with the slot believes
  and is about to do; `Finished` that an order the machines take for final never trades again.
- *Live test.* `Stage` (the place in `run()` determines the state), `Counts`, `Unsent`, `Books` (a
  completed order traded all of it), and `Timing`: the clock less latency is what the guard allowed, plus
  the wait, plus the hold. `Passing` needs one more invariant, `Confirmed`: what the reads before PASS
  established about the venue.
- *Paper track.* Between two ticks the engine mirrors the latest checkpoint; while a tick is being
  written it is one bar, or one flatten, ahead of it (`Ahead`), and never two. `Paced` ties the list of
  pending files to engine and tick; `Reported` says which checkpoint a report shows; `Settled` that no
  trade follows a report. `Durability` maps the write of a checkpoint's sidecar to the one ledger step.
- *Fresh OOS.* `Locked` says that, until a live process is robbed of its lock file, whoever holds or
  creates the lock owns the file, so that a take-over finds nobody in a pass; `Storing` says that of a day being written exactly the first artifacts are
  there; a refinement step of a pass may only add files.
- *Options paper.* `acked` is only kept if the index lists the record (`OnDisk`), what is listed has been
  written (`Listed`), and a save that is interrupted has left a file that carries the old one on
  (`Underway`). `Shapes` has the order of the fills. `Refusal` needs `Accounted`: a file that does not
  match its sidecar is being saved or was cut.
- *Paper session.* `Sound` is a predicate of a session record, because it must hold of the snapshot too:
  balance, alternation of purchases and sales, one fill per candle, the entry candle, the cap. The
  arithmetic of `Balance` is in the lemmas from `Rates` to `Proceeds`.
- *Paper agent.* `DuplicatesFromDeaths` needs that exits tell round trips apart in ledger, memory and
  snapshot together (`Unique`), that this process knows all it closed (`Current`), and for `KeepsUp` that
  the counter of synced fills never passes the ledger (`UpToDate`). `Ahead` relates the snapshot, the
  session and what the metadata vouches for; `Dated` the agent's last job and its record's.
- *Learning loop.* `Numbered`: the registry is numbered by position, which makes the next number new and
  the target of a rollback unique; `Written`: a line does to a registry in the log's text what it did in
  memory; `Fresh`: the log with the pending line is the memory of a process nobody has overtaken;
  `Backed`: while the store is rewritten, the memory it is rewritten from has the evidence.

Only model-checked: the liveness properties `TransitionSettles`, `RunEnds`, `DayEnds`,
`KeepsWorkingOrStalls` and `ExitsComplete`, since liveness under fairness and ENABLED are out of the
prover's reach; and the three violations, which are single behaviours. The only
recursion in the models is the fold that sums the notes for the bound `MaxNotes`, which no proof needs.


## 12. Where code and documents disagree

Runs that find a violation:

1. `live_test_order_ids`: the manager polls and cancels with the internal order id, the REST adapter
   needs the provider's; a completed entry is timed out (`execution/manager.py:505`).
2. `vnext_oversell`: a status call that fails drops the transition and not the order; the next close
   is sized without it (`execution/vnext/machine.py:378` against `:374`).
3. `promotion_evidence`: of candidates that share a name, the comparison of the last decides about all
   (`promotion/gate.py:223`, `scripts/run_learning_loop.py:102` against `PROGRESS.md:699`).

Noticed while modelling; in the models where they concern modelled code, without a run of their own:

- live test: a lost entry acknowledgement may leave a working entry, against "a failed entry => no
  position" (`manager.py:400`); after the timeout a completed entry has no exit (`manager.py:546`); the
  gate's decision is taken once (`manager.py:210`); an answer for the positions without a
  readable row of the contract reads as flat, so that PASS may overlook what the account held before
  (`execution/upstox.py:479`; `misread` in `PassLeavesNothing`).
- vNext: a restart adopts positions and not working orders, after which both legs may be owned
  (`machine.py:123` against `docs/execution_semantics_vnext_design.md:87`); an order whose final status
  the adapter does not map is in flight for ever, since only "completed" is a fill, a "completed" order
  that filled short is partially filled, and any other token is submitted
  (`vnext/upstox_broker.py:190`); a reversal may meet a slot
  violation after its close was sent (`machine.py:206`).
- paper track: the stop skips the first candle after the entry (`paper_track/engine.py:588` against
  `risk/stop_loss.py:6`); the tick at 15:36 named "post-close finalize" (`runner.py:49`) is skipped when
  flat; in a run over several days a day whose last bar is missing gets no report; after a death between
  checkpoint and finalization the reported status is NONE where an uninterrupted run has FLAT
  (`docs/paper_track_runbook.md:150`); a death between a checkpoint and its sidecar leaves an account
  that cannot be loaded, against "a restart at any point resumes deterministically" (`:34`); the other
  commands start a fresh engine over an existing store (`runner.py:282`).
- fresh OOS: two passes overlap once a take-over removes the lock file of a live process
  (`fresh_oos/lock.py:66` against `:1`): a lock file that is created and not written yet reads as stale
  (`:123`), a pass may outlive the 15 minutes, and two processes may find one lock stale and the second
  unlink the first one's new lock. TLC reaches all three in `fresh_oos`, and then two passes may mix
  their artifacts of one day, so that an accepted day is not whole; a resident scheduler saves the manifest it loaded when it was built and drops what a manual
  collect accepted since (`fresh_oos/collector.py:129` against `fresh_oos/manifest.py:143`); a death between two of the three
  replaces leaves a day that is an error until somebody removes it, against `store.py:16`; two
  validations at once may both write the consumption record (`consume.py:54`); the validation never
  compares a file with the hash its manifest entry records; the scheduled task may run for 30 minutes, a
  lock is stale after 15 (`docs/fresh_oos_collector.md:25`).
- options paper: a death between a record's sidecar and the index leaves an open position that is not
  restored (`docs/options_paper_simulation.md:88`), which the next save's glob brings back into the
  index; a death between the record and its sidecar makes the next start refuse, at once if the index lists
  the record, and otherwise after the next save of another record has listed it (`persistence.py:76`, `:105`); a second conflicting repetition overwrites the first `.dup`; nothing refuses a second position
  in a contract; of two open records of a contract the exit takes the first seen; reconciling a
  reconciled record notes a failure.
- paper session: a sale is refused by `max_order_notional` when the price rose since the entry, so that
  only the stop still closes it; an entry sized by the cash is overdrawn by its slippage, after which a
  snapshot raises (`portfolio/portfolio.py:48`; out of reach with the default 1% at risk and 2% stop);
  candles polled outside the open phase are consumed without a look at the stop; the forced close at the
  loss cap is unreachable, because a position is never open when it is hit; the risk manager dates a
  loss by the wall clock, the session by its own; the cap leaves commissions out.
- agent: a halt is not in any record, since a halted cycle returns before the checkpoint
  (`agent/agent.py:334` against `docs/ARCHITECTURE.md:358`); the script's "checkpointing final state"
  writes nothing (`scripts/run_paper_agent.py:217`); a death after the ledger and before the session's
  checkpoint gives a round trip twice (`agent/ledger.py:95`), a death inside the ledger's write ends all
  syncs; after a failed sync and a restart a round trip is missing until the next fill (`agent.py:719`);
  a session checkpoint that is torn, or saved under another name than it is looked up by, makes the next
  process start a fresh account whose first checkpoint replaces the old one, against `agent.py:20`. The
  names differ whenever one has a blank (`persistence/session_store.py:118` against `agent.py:713`), as
  "Nifty 50_5m" has, the name `scripts/run_paper_agent.py` uses with `--smoke` or `--upstox` unless one
  is given; no run of it resumes then.
- learning loop: a rollback after a promotion that followed a rollback activates the version that had
  been rolled back, which was not the "last previous champion" (`promotion/registry.py:185`, and "Rollback
  restores the previous approved version", `PROGRESS.md:691`); two writers choose the same id, and the log
  never loads again; memory changes before the append (`registry.py:180`), so a failed write leaves a
  champion that no restart knows; parameters that are a frozenset or a Decimal come back from the log as
  strings (`registry.py:293` against "fully deterministic given the log", `:8`); a death inside the append
  leaves a log that is refused, at once or after the next line (`registry.py:309`); a death inside a later
  flush of the store may leave a prefix of whole lines under the old metadata, which loads in silence
  (`persistence/experience_store.py:235` against `:10`); the champion that is compared against is built by name, whatever its parameters
  (`learning/loop.py:158`); of two candidates that beat the champion both are promoted, one after the
  other, without a comparison between them; a death inside the first flush of the store leaves a log
  without metadata that is refused from then on.

## 13. Plan

Done: sections 3 to 10, and a theorem for every safety invariant, action property and refinement of the
passing runs. Left, most important first:

1. **What the hypotheses exclude.** For vNext, what a status fault or a death still leaves true beyond
   `ReservationHeld`: how far an account can be short. For fresh OOS, what stays true of the pool when
   two passes overlap (an accepted day is whole, whoever wrote it).
2. **Registry lemmas** for a log that is written past a process: which entries a replay refuses.
3. **`TrackLock`**: read-then-write and heartbeats between two processes, to state what the exclusion
   assumed in section 5 rests on.
4. **Proofs for the reader**: shorter case analyses where a lemma about an operator replaces them.


## 14. Not modelled, and why

Broker HTTP, OAuth, credentials and instrument keys are I/O and parsing; their outcomes are the faults
and inputs of the modules. Strategies, features, metrics, walk-forward, backtests and the research
iterations are numeric batch computations without state between calls: a model would transcribe
formulas, and floating point is out of TLC's reach; modules take any signal instead. They, with the
scripts that validate them and the reports and dashboards that render results, are more than nine tenths
of the repository's lines, so a model of everything that keeps state still maps a small share of them.
Wall-clock staleness is a choice (the collector's lock may be found stale at any time) or an assumption
(the heartbeat of the track's lock). The autonomous research loop takes one decision per call from files it is handed, and
alerting keeps a bounded history in memory: both are sequential and shallow. The run ledger of
observability rests on the transactions of SQLite. `PROJECT.json` lists every component with its status.
