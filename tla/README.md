# Models and proofs for state-benchmarks

This directory holds TLA+ models of the state-benchmarks harness, the TLC
configurations that check them, and TLAPS proofs about all of them. The harness
syncs an execution client (EL) on an overlay over a snapshot, drives it with a mock
consensus client, replays recorded blocks through its Engine API,
loads its user RPC with Locust, and compares the numbers with those of an
earlier milestone. The numbers are only worth something if the machinery around
them does what it says when nodes restart, calls time out, processes are killed
and runs are repeated. That machinery is what is modelled here.

Paths below are relative to the repository root. `PROJECT.json` lists the runs,
the source lines of every definition (`map`), the mutants, hazards and findings.

- [The system](#the-system)
- [Plan](#plan)
- [Modules](#modules)
- [What the runs check](#what-the-runs-check)
- [Bounds](#bounds)
- [Fairness](#fairness)
- [What is proved](#what-is-proved)
- [Where code and documentation disagree](#where-code-and-documentation-disagree)
- [What is not modelled](#what-is-not-modelled)
- [Running it](#running-it)

## The system

| component | state it keeps | operations | what makes it correct |
|---|---|---|---|
| Replay driver (`src/mock_cl/drivers.py`, `ReplayDriver`) | rows measured, `prev_hash`, the report file and its `.tmp` | base check, newPayload, forkchoice poll, per-block rewrite of the report | a row says "landed" only for an imported block; nothing is driven past a failure; the report on disk is at most a row behind; it always ends |
| Engine client (`src/mock_cl/engine.py`, `jwt_auth.py`) | deadline of a call, the current attempt and its token | `_rpc` with retries, `make_jwt`, `load_secret` | a call ends close to its budget, unless the EL trickles; every attempt's token is fresh; the EL gets a bounded number of copies |
| Pivot driver (`drivers.py`, `PivotDriver`) | none but the loop | forkchoiceUpdated to a fixed pivot, two-call status check | it leaves only when the pivot is reached |
| Sync wait (`src/orchestrator/runner.py`) | `saw_syncing`, `consecutive_synced` | `wait_for_rpc`, `check_sync_status`, `sync_head_ok`, `measure_sync_time` | a wait that ends well found a synced node; a duration is only returned for one that did sync; the wait ends |
| Overlay (`src/orchestrator/overlay.py`) | the host's mount table, the scratch directory | `up`, `down`: umount with retries, lazy umount, wipe, mount | each run starts on a pristine layer; nothing in use is wiped; mounts never stack |
| Client matrix (`runner.py`) | `MOCK_CL_PROC`, containers, drivers | `start_infrastructure`, the run, `stop_infrastructure`, `main`'s loop | a client's failure stays its own; a result is about the client it names; `--stop-monitoring` leaves nothing |
| Run of a client, aggregator (`runner.py`, `src/metrics/aggregator.py`) | files under `benchmarks/<milestone>/` | sync measurement, capture, db size, Locust, report, comparison | what a report holds belongs together; it is compared with the latest other one |
| Block window of the load test (`src/load_tests/locustfile.py`) | `RECENT_BLOCKS`, the clamp, the refresher thread | bisection for the served depth, pin, refresh | pinned blocks are servable; the bisection is exact; the thread ends with the test |
| Load test users and events (`locustfile.py`) | the proof-size file and its lock, the unflushed rows, the gas sender, the heads at both ends | locust's init, test_start, test_stop, the users' requests | no row of a successful request is lost but by a crash, and then few; the logged block range is the node's |
| Payload recorder and converter (`src/mock_cl/payloads.py`, `scripts/rlp_to_mocks.py`) | the read offset, the output file | RLP decoding, both framings of a stream, recording from a node, loading | the file holds the blocks asked for, in order and whole; each gets the newPayload version of its fork |
| Snapshot sweep, benchmark script (`templates/<client>/*.sh`) | the snapshot base directory, the `snap_dl` container, `.env`, the runs' metrics files, the replay and runner of a script | fetch, point the templates at a snapshot, infra down and up, run, prune, summary | a row of the summary that reads OK is true; no snapshot goes away under its node; no replay outlives its script |
| Seed script, mock-CL command line, compose files | see [what is not modelled](#what-is-not-modelled) | | |

How they interact:

- The runner starts the overlay as a process, then the containers with
  `docker compose`, then (in mock mode) the pivot driver in the background. It
  meets the latter two again only through the node's RPC and, at the end, through
  `MOCK_CL_PROC` and `compose down`.
- The pivot driver and the sync wait look at the same node in separate calls and
  never at each other. Either may see the node in a phase the other did not.
- The replay driver meets the EL only through `_rpc`. An attempt that times out
  may still be executed by the EL, after the driver has sent it again.
- The load test's refresher reads the node's head and state while the replay
  moves the head and the node drops old state.
- The users of the load test, its refresher and its event handlers are greenlets of
  one process. They switch at every call to the node and share the proof-size file.
- The benchmark script runs the replay beside the runner and kills it on exit. The
  sweep runs that script for one snapshot after another, in the same directories.
- Consecutive runs meet through files (sync measurements, Locust CSVs, reports)
  and through what a run leaves on the host (mounts, layers, containers, drivers).

The hard part is accordingly in interleavings with a node that nobody controls,
late execution of abandoned requests, kills in the middle of a file or a mount that
leave other processes at work, and long legal sequences of runs. `PROJECT.json` lists
each such hazard at its line.

## Plan

Order: what the harness measures first, then what surrounds it.

1. **Replay**: `ExecutionLayer`, `ReplayDriver`, the abstract `ReplayPromise`,
   refinement and proofs.
2. **Engine client**: `EngineRpc`, the channel of `ExecutionLayer` with its clock,
   the abstract `EngineCall`, refinement and proofs.
3. **Sync**: `SyncTarget`, `PivotDriver`, `SyncPhase`, and proofs.
4. **Host**: `Overlay`, `Orchestrator`, the abstract `TenantPromise`, refinement
   and proofs.
5. **Load test window**: `BlockWindow`, and proofs.
6. **Files of a run**: `Milestones`, and proofs.
7. **Template scripts**: `BenchmarkScript`, `SnapshotSweep`, and proofs.
8. **Payload files**: `Rlp`, `PayloadFile`, and proofs.
9. **Load test users**: `LoadRun`, and proofs.

All of it is done. What could still be added, in this order: a composition of
`LoadRun` with `BlockWindow` and of `Orchestrator` with `SyncPhase` at full detail
(today each abstracts the other to one step); the seed script.

## Modules

```
ReplayPromise <--implements-- ReplayDriver --EXTENDS--> ExecutionLayer
                                                           ^ its channel, with a clock:
                                EngineCall <--implements-- EngineRpc
SyncPhase --EXTENDS--> PivotDriver --EXTENDS--> SyncTarget
TenantPromise <--implements-- Orchestrator --EXTENDS--> Overlay
SnapshotSweep --EXTENDS--> BenchmarkScript
PayloadFile --EXTENDS--> Rlp
BlockWindow          LoadRun          Milestones
```

`MC*.tla` give the constants small values; `*_proofs.tla` hold the theorems.

### ExecutionLayer (external)

The EL as the drivers rely on it. It has imported, queued and refused blocks and
a head. newPayload imports, refuses or queues; forkchoiceUpdated to an imported
block moves the head; queued blocks may be executed at any time; a restart
forgets the queue. `orphans` are attempts whose caller has given up. They are
executed later, in order, before the live attempt: the comment at
`engine.py:49-53` describes exactly this ("a retried call just blocks on the
chain lock"). The caller's side (`Send`, `Retry`, `Abandon`) is `_rpc` seen without
its clock.

### ReplayDriver

`pc` is the place in `run()`: `next` (loop head), `base`, `np`, `fcu` (in an engine
call), `write`, `filling`, `rename` (in `_maybe_write_csv`), `return`, `raise`, and
the three ends. `Index` is the number of rows plus one, since every iteration
appends a row or raises. `LoopEnds` leaves the loop through the flush after it.
`OpenTmp` leaves any prefix of the rows in the `.tmp` file, and `Rename` is
`os.replace`. `Kill` is the exit trap of `run_benchmark.sh`, at any place.
Latencies are left out. The poll deadline may pass at any poll.

### ReplayPromise

What a reader of `replay_latency.csv` may rely on, without an engine or a disk:
blocks are measured one at a time, the report is replaced as a whole and is up to
date before the next block is measured, nothing is measured after a block that
failed, and a replay that ends well has reported everything. `ImplementsPromise`
is `ReplayDriver`'s refinement of it.

### EngineRpc

One `_rpc` call with a clock of `Second` ticks to the second, starting at 0, with
its deadline at `Budget`. Each attempt mints its own token (`make_jwt` truncates to
whole seconds), checks the budget, posts with a timeout of
`max(1, remaining)`, and on a transport error or a -32002 sleeps a second and
starts again. `LoadSecret` looks at the length of the decoded secret.

That timeout is one number given to `requests.post`, which makes it a limit on the
connection and then on every read, and not on the attempt. So `Tick` never passes
`heard + reqTimeout`, and `Progress`, a sign of life of the EL (the connection is made, a
part of the answer comes), sets `heard` anew. An answer has an end: `MaxParts`
bounds the signs of life of one attempt.

### EngineCall

What a call is to the driver that makes it: one request (`Send`), posted again while
attempts fit in the budget (`Retry`), until it is over (`Over`), after which the
request is not posted any more. There is no clock, token or sleep in it. It is the
contract on which the channel of `ExecutionLayer` is built (`Send`, `Retry`, and
`EndCall` or `Abandon` there), and `EngineRpc` implements it with as many attempts as
there are seconds in the budget, a part of a second counted as one.

### SyncTarget (external), PivotDriver, SyncPhase

`SyncTarget` is the node through `eth_syncing` and its head: cold, syncing or synced,
up or down. A cold node says `false` to `eth_syncing`, which is the trap
`runner.py:338-339` guards against. Under the mock CL it only starts to sync after a
forkchoiceUpdated. `PivotDriver` ticks, reads `eth_syncing`, reads the head, in
three steps between which the node may move. `SyncPhase` adds the runner: `rpc` is
`wait_for_rpc`, `poll` and `head` are the two reads of a poll, `cap` is the check of
the timeout and the sleep. `everSynced` is history, used only by
properties. The configuration is a variable that no step changes, so that one run
covers the three consensus modes.

### Overlay, Orchestrator

`Overlay` is the overlay process. Each mount is a generation with a layer of its
own; `mounts` is the mount table, `bind` the generation a container was started on.
A container keeps its generation whether or not it is still in the mount table,
which is what a lazy umount leads to. `attempt` counts `umount`s. Each runner has an
overlay process of its own (`opc`, `attempt` by runner), since that of a runner that was
killed goes on. An `umount` may be busy with no container running: the source names
"a lagging containerd shim". `Orchestrator` is `main`'s loop: for each client the
overlay's `up`, compose, the driver, the run, and in the `finally` the stop of driver,
clients and overlay. The host may reboot, and another runner may start. The sync wait,
the load test and the aggregator are one step here.

A runner may be killed anywhere, in two ways. `KillGroup` is a signal to its process
group (Ctrl-C, a lost session), which takes the command it waits for along. `Kill` is a
SIGKILL or SIGTERM of the runner alone: it has no handler, and the child of its
`subprocess.run`, here or at the other end of an ssh, goes on. An overlay command then does
what is left of it; a compose command (`strays`) does its work or fails later. `crossed` is
history: a turn was begun while such a command was still at work.

`Settings` says how the matrix may be run: which faults the host has, what
`--stop-monitoring` may be, and whether the mode is mock. One is chosen in the
initial state and no step changes it, so that one run covers several. A *tidy* host
(`TidyHost`) is one where compose's `down` works, no runner is killed, and every
run has `--stop-monitoring`. `faulty` is history: the turns in which the
host misbehaved.

### TenantPromise

What the matrix promises about the snapshot, without mounts, `umount`, `rm -rf` or
compose: clients have it one at a time, each from a clean layer that no client had
before, and nobody but the client that has a layer changes what is in it.
`KeepsTenancies` is `Orchestrator`'s refinement of it: a tenant is a running
container with its layer and what is in it, and a layer counts from when a container
is started on it, or from when the turn it was mounted for has failed. It holds for
a host that was allowed to tidy up and where `rm -rf` works, so the abstract steps
appear under that condition.

### BlockWindow

`pc` walks through `on_test_start` (fetch the head, check "latest", check the head),
the probe (`depth` asks for the whole window, `bisect` halves `lo..hi`, `derive` turns
the depth found into a window) and the refresher's loop. `Process` is the node's:
the head moves on, and the edge of the served state may follow. `Unanswered` calls
count as "no state", as in `_state_available`. `pinned = {}` is `["latest"]`.

### Milestones

One client's directory per milestone. A run either measures its sync and captures
the sync phase, or with `--skip-sync` reuses the earlier measurement; it then
measures the size, writes the sync metrics, starts Locust and aggregates. Locust may
exit with an error after it has written its CSVs, which is its default when a
request failed; the run then ends without a report. A measurement is the number of the
run it was made in, so that "these belong together" can be said, and so is a report's
timestamp. `measure_db_size` catches three exceptions, and another one
(`MeasureDbRaises`) ends the run between its two sync files. A file whose writer dies is
torn; a kill takes the run's whole process group. A report records which report
it was compared with, and of which run that one was: the readable one of another milestone
with the last timestamp. What comes out of comparing two floats is left out.

### BenchmarkScript, SnapshotSweep

`BenchmarkScript` is `run_benchmark.sh`: preflight, the replay started in the
background, the runner, and the exit trap that kills the replay; the script may
fail at any of these. A signal to its process group (`Signalled`) ends it before the trap
is set; later the command it is at dies and with it, after the trap, the script, or, between
two commands, the handler runs and the script goes on, since the handler does not exit.
SIGKILL (`ScriptKilled`) runs no trap: replay and runner live on.

`SnapshotSweep` is `run_snapshot_matrix.sh` around it: for each line of the manifest
take the infra down, reuse or fetch the snapshot, point the templates at it, and compare
its payloads with its head (`HeadsRead`: `SNAP_HEAD`, or what the extract says, or the
name where the extract does not say it, which half an extract may not); then for each
duration take the infra down and up, run, and judge; at the end of a line prune. The
body runs with `set -e` suspended (it is the condition of an `if`), so a command that
fails is ignored unless the script looks at it, and that is how the actions are written.
The download is a container of its own, `snap_dl`, which outlives a sweep that gives up
waiting for it. A directory is `"absent"`, `"partial"` or `"whole"`; a metrics file is
what it was measured on: the run (with its payloads and `SNAP_HEAD`), the snapshot under
the node and how whole it was, the overlay.

Failures that the scripts swallow leave things as they were: `docker rm -f ... || true`
may leave `snap_dl` with the exit code of an earlier fetch (`Fetch`) or the node
(`CleanStaleContainers`), a `mkdir` that fails before it the same, and the `eval` of an
`overlay env` that fails is an `eval` of nothing, after which the node runs on the
snapshot itself (`InfraUpRaw`).

A sweep may be killed with its script or alone (`Kill`), and another one started. The
script, its runner and its replay then go on beside it (`Straggle`), each sweep with a place
of its own in `bpc` and `run`. A shorter command of the killed sweep (`compose`, `rm`,
`sed`) is taken to have ended before the next one starts.

History variables, used only by properties: `fresh` (the container's overlay was
made for it), `pulled` (a snapshot went away under its container), `early`
(`SKIP_FETCH` took half an extract, or one that was being fetched), `swallowed` (a command
whose failure nobody looks at failed), `crossed` (infra was taken down under what was left of
an earlier run) and `killed` (scripts that got a SIGKILL).

### Rlp, PayloadFile

`Rlp` is the decoder of `rlp_to_mocks.py`, byte by byte with Python's slices, both
framings of a record stream (`ReadRecord` from the open file, `IterRecords` in
memory) and the mapping of the seventeen fields. Where the code recurses or loops it
has recursive functions, over the places of the stream (`DecodeItems`) and over the
turns of a loop (`IterTurns`), not `RECURSIVE` operators, so that it can be proved
about. `PayloadFile` reads a
stream with it (`convert`), or a live node (`record_from_el`) whose branch may change
between two `eth_getBlockByNumber` calls, and writes a file; `Version` is the
engine client's choice of newPayload version for a record. A job says what its
stream holds: its blocks, the offset `at` which the record of each starts, and how the
stream ends. `HoldsBlocks`, in the module's `ASSUME`, makes the decoder agree with
that; TLC evaluates it on streams made by the encoder of `MCPayloads`.

### LoadRun

`phase` is the test's: `init` (locust's event, which refuses a master and a worker),
`refused`, `start` and `head` (on_test_start before and after it has the gas
sender), `run`, `stopping` (on_test_stop, which asks for the head, and which the
`runner.quit()` of an aborted start fires too), `stopped`, and `crashed`. Each user is idle, in a call, or holds a row that it is about
to write under the lock. Users that are in a call when test_stop fires finish
later, when the file is closed. `head` is the node's; `initial` and `latest` are the
globals that on_test_start and the refresher set; `known` and `final` are what
on_test_stop knew before it asked and was answered.

## What the runs check

Every property of a passing run has a mutant in `PROJECT.json`: a plausible change
to a modelled operation (defined beside it, under a comment "Mutant:") that makes
TLC find the property violated.

| run | shows |
|---|---|
| `replay` | Over every payload file of a small set (good, from inside the snapshot, from past it, with a gap, with a bad line, empty), `--count` cutting it short or not, with and without `--no-advance-head`, a stop request and a kill anywhere: rows are about imported blocks (`LandedRowsImported`) and chained (`RowsChained`), nothing is sent across a gap (`NeverPollsAcrossAGap`), the report is at most one row behind (`ReportIsFresh`), the EL's head is the last reported block (`HeadFollowsReport`), the driver implements `ReplayPromise` (`ImplementsPromise`), and every replay ends, whatever the EL and the channel do (`ReplayEnds`) |
| `engine_rpc` | One call against the clock, with every mix of time-outs, connection errors, -32002 answers and answers that come in parts: it ends (`CallEnds`), less than two seconds past its budget against a silent EL, and one timeout of its last attempt later for each sign of life (`OverrunBounded`); tokens are fresh (`TokenFresh`); to its caller it is what `EngineCall` says, with as many copies of the request as the budget has seconds at most (`ImplementsCall`) |
| `sync` | Six configurations (a pivot number with and without a cap, one within the margin of genesis, no pivot number, mode `none`, mode `lighthouse`) over cold, half-synced and synced nodes that may restart once and fall silent: the wait ends well only on a node that has been synced or is within the margin of the pivot, although each poll reads in two calls, and at block 0 only for the pivot near genesis (`FinishedMeansSynced`); a duration means that a sync took place (`TimedMeansSynced`); with a cap the wait ends whatever the node does (`MeasurementEnds`); without one a healthy node driven by the pivot driver is measured in the end, a restart included (`SyncEventuallyMeasured`) |
| `matrix` | Two runners one after the other, over two settings. On any host, with every fault, kills of a runner with its command or without it, and runs that leave the stack up: as long as no turn is begun beside a command of a killed runner, overlays are never stacked (`NoStackedMounts`) and a run only ever measures its own client (`AttributedToItsClient`). On a tidy one with `--stop-monitoring`, where mounts, containers and work fail and the host reboots: clients have the snapshot one after another, each on a new clean layer that nobody else touches (`KeepsTenancies`), no live layer is wiped (`NoLiveWipe`), no old driver drives another client's engine (`DriverServesCurrent`), clients fail only by faults of their own turn (`OnlyOwnFaults`), and nothing is left at the end (`StoppedLeavesNothing`) |
| `window` | A node advancing between any two calls, two calls unanswered: a clamped window stays servable (`ClampedServable`), the bisection is exact when undisturbed (`DepthIsExact`), pinned blocks are given up only for a band that is too narrow (`FallBackOnlyIfShrunk`), and the refresher ends with the test (`RefresherEnds`) |
| `load` | Two users, the refresher and the events of one test in every interleaving, and a crash: no task dies on the proof file, every row is about a success, a stopped test loses no row written before it, a crash fewer than a flush interval (`RowsAreKept`); the block range logged is ordered and not older than the end of the test (`RangeIsTrue`) |
| `milestones` | Three runs over three milestones, with failing syncs, captures, sizes and load tests, and kills in the middle of a file: a report's load numbers are its own run's (`ReportedLoadIsItsOwn`), its sync time and sync-phase metrics come from the same sync (`SyncPartsAgree`), `--skip-sync` keeps measurements (`SkipSyncKeeps`), and a report is compared with the latest readable one of another milestone, also where reports were torn or made anew since (`BaselineIsLatest`) |
| `sweep` | Two sweeps over two snapshots with different knobs, fetches that fail or time out and go on in the background, `docker rm` that leaves things, infra that does not come down or up or comes up without its overlay, a script that fails or gets a SIGKILL, and kills of the sweep with its script or without it: an OK row is about the snapshot, the payloads, the duration and the clean overlay it should be about (`OkRowsAreTrue`), no snapshot is removed or wiped under its node where compose can take containers down (`NodeKeepsItsSnapshot`), no replay outlives its script but by SIGKILL (`NoStrayReplay`), and a sweep that is not killed accounts for every line (`EverySnapshotReported`) |
| `payloads` | A stream of three blocks cut at every byte, streams with a record of another fork or of no RLP at all, converted with every start and count: the streaming and the whole-file framing agree (`FramingsAgree`), and the file is the slice that was asked for, or none is claimed (`ConvertedIsSlice`). Recordings of a chain of four forks that reorganises between two calls: they are consecutive from the first block, with a gap in the parent hashes only where the chain reorganised (`RecordedIsChain`), and each record is sent with the version of its fork (`VersionFitsFork`) |
| `sync_already`, `matrix_default`, `matrix_live` | expected violations, [below](#where-code-and-documentation-disagree) |

Some properties are claimed only where the code promises them, and each says so
where it is stated. `TimedMeansSynced` speaks of nodes that do not restart: in mode
`none` a node that restarts half way through its sync looks synced to anyone who
polls it, and in mode `mock` one that restarts inside the pivot's margin does; for the
same reason `FinishedMeansSynced` names those two cases.
`KeepsTenancies` is not claimed when `rm -rf` fails, since `restore` does not look at
its exit code. `NoStackedMounts` and `AttributedToItsClient` exempt what comes after a turn
that was begun beside a command of a killed runner (`crossed`), and TLC violates both
without that: the `up` of the killed runner and the `up` of the next one both find nothing
mounted, and both mount. `SyncPartsAgree` is not claimed of a milestone where a capture
failed, which the code calls non-fatal, or a run ended between its two sync files.
`OkRowsAreTrue` has these exceptions, and TLC violates it without each: a snapshot reused
while its download was under way or left half, which line 157 of the script offers by name;
a command whose failure the script swallows; infra taken down under the script of a
killed sweep; and rows whose metrics file is an earlier sweep's, which are then about that
sweep's run. `NoStrayReplay` exempts SIGKILL, which no trap hears.
`NodeKeepsItsSnapshot` is not claimed where `down` fails, which the script ignores.

`CHECK_DEADLOCK FALSE` is set everywhere, because every modelled activity
ends: a replay, a call, a measurement, a matrix, a test, the last run.

## Bounds

| constants | values | why they are enough |
|---|---|---|
| `Hash`, `Files` | five blocks, files of up to two records | the driver relates a record only to the one before it; two records have a first one (base check) and a chained one, and the set has each way a file can be wrong |
| `MaxAttempts`, `MaxRestarts`, `MaxPolls` | 2, 1, 1 | a second attempt is the first that can overtake an abandoned one; one restart is enough to lose an answer, a queue or an orphan; one poll is the difference between "landed at once" and "waited" |
| `Second`, `Budget`, `Window` (JWT) | 2 ticks, 5 s, 2 s | two ticks show truncation to whole seconds; the budget holds several attempts and outlasts the token window |
| `MaxCopies`, `MaxParts` | 8, 2 | the attempts counter saturates there, and a call of 5 s has at most 5 attempts; two signs of life are a connection and one part of an answer |
| `Target`, `StartHeads`, `Margin`, `Confirmations`, `RpcCap`, the cap in `Configs` | 3; 0, 2, 3; 1; 2 (3 in `sync_already`); 2 polls; none or 3 polls | heads below, inside and past the margin, and a pivot of 1 that genesis is within the margin of; caps just above the confirmations, so that both ends of the wait are met |
| `Clients`, `MaxRunners`, `MaxGens`, `Attempts` | 2, 2, 4, 2 | the second client meets what the first left, the second runner what the first left; each turn mounts once, so that four turns need four generations; two attempts are the first retry |
| `Settings` | tidy, untidy | tidy: containers, mounts and work fail and the host reboots, with `--stop-monitoring` and the mock CL. Untidy: every fault with both values of the flag, without the pivot driver, which only properties of tidy hosts are about |
| `Window`, `Margin`, `MinPinned`, `MaxHead` | 6, 2, 2, 12 | the window bisects in three steps; start heads below, at and past it, with every edge |
| `MaxAdvance` | 2, the margin | the assumption under which the margin is meant to hold: `Paced` in the proofs |
| `Hiccups` | 2 | two unanswered probes in a row are what turns a wide band into a narrow one |
| `Dirs`, `MaxRuns` | 3, 3 | a measured run, one that reuses it, and one in another milestone; with three milestones a report has two to choose its baseline from, and either may be torn or made anew. The milestones are symmetric: nothing orders them but the runs |
| `Snapshots`, `SnapHead`, `Manifests` | 10 and 20 with heads 10 and 18; two manifests | the second snapshot has its head below its name, as the EF snapshots have; one manifest is in order, the other has payloads that fit the name and not the head, and a bad URL |
| `Durations`, `MaxSweeps`, `MaxKilled`, `Knobs`, `FaultSets` | 2, 2, 1; 3; 7 | the second duration meets the first one's node and metrics, the second sweep (with knobs of its own) what the first left; a sweep is killed only where another one may follow. The knobs include a `SNAP_HEAD` that fits the payloads and not the snapshot. The fault sets are a kill, a fetch that fails, containers that stick with infra that does not come up, no cAdvisor, each with a second sweep; `docker rm` that fails with containers that stick and fetches that fail; `overlay env` that fails; SIGKILL; each meets each knob |
| `Jobs`, `Fork`, `Tip` | every cut of a stream of three blocks, starts before, at, in and past them, counts 0 to 2; recordings of 0, 2, 5 blocks from 0, 1, 3; four forks in five blocks | a short and a long list, a long bloom, a quantity of one and of two bytes, transactions and withdrawals; block numbers on both sides of the one-byte bound; recordings that end before, at and past the tip |
| `Users`, `FlushEvery`, `MaxRows`, `MaxHead` of `LoadRun` | 2, 3, 7, 3 | two users race for the lock and with the end; seven rows are two flushes and one more; users are symmetric |

## Fairness

Fairness is only ever assumed of the harness's own loops, whose every wait has a
timeout in the code; what it waits for gets none unless said so.

- `ReplayDriver`: weak fairness of `DriverStep`. Attempts have HTTP timeouts, calls
  a budget, polls a deadline; the driver can always give up. The EL and the channel
  get none.
- `EngineRpc`: weak fairness of the call with its clock: time passes, the HTTP
  client honours its timeouts, and an answer has an end (`MaxParts`).
- `SyncPhase`: weak fairness of the runner and of the pivot driver separately; both
  sleep and poll, and neither waits for the other. `HealthyNode`, the hypothesis
  of `SyncEventuallyMeasured` and of nothing else, is weak fairness of the node's
  progress: it comes up, and syncs when driven.
- `BlockWindow`: weak fairness of the thread (each call has a timeout of five
  seconds) and of `TestStop` (Locust is given a run time).
- `SnapshotSweep`: weak fairness of `SweepStep`, the sweep with the script inside it.
  Every wait of the scripts has a cap: `FETCH_POLL_TIMEOUT`, `RPC_READY_TIMEOUT`,
  Locust's run time. The download gets none.
- `Overlay`, `Orchestrator`, `Milestones`, `PayloadFile`, `LoadRun`: no liveness is
  claimed.

What fairness adds to these properties is little: [every loop but one](#every-loop-is-finite)
is proved to come nearer to its end with each step, so that it is enough that the next one
is taken.

## What is proved

The theorems hold for every value of the constants that satisfies the `ASSUME`s of
the modules: any set of blocks, any payload files, any number of attempts, restarts
and polls; any budget, clock rate and token window of at least a second; any window,
margin and chain; streams and recordings of any length.

**`ReplayDriver_proofs`.** The inductive invariant `IInv` is
`Typed /\ ReportInv /\ ChainInv /\ EngineInv`:

- `Typed` adds to `TypeOK` that, inside an engine call, the index is within the file
  and the record is not malformed; without it a row has no type.
- `ReportInv` says for each place how far the disk may lag behind the rows and
  which rows may have failed. `ReportIsFresh` is not inductive by itself: a
  second row could be collected while the disk lags. It gives `ReportFresh`,
  `ReportComplete`, `NothingAfterFailure` and the refinement.
- `ChainInv` ties `prev_hash` to the last row between records and to the current
  record inside a call. It gives `ReportChained`.
- `EngineInv` ties the call under way to the place, and says of an answered
  forkchoiceUpdated with VALID that its block is imported, is the head, and that no
  abandoned request is left. It gives `LandedImported`, `NoGapReachesTheEngine` and
  `HeadFollows`. The last needs the EL to execute requests in the order in which
  they were sent, see [ExecutionLayer](#executionlayer-external).

`HeadLeftAlone` has an invariant of its own, `NoFcu`: with `--no-advance-head` no
forkchoiceUpdated is under way or abandoned. `Refinement` maps the rows to what is
measured, the file on disk to the report and the end of `run()` to the outcome;
initial states map to initial states and every step to a step or a stutter.

**`MockCl_proofs`, the engine call.** `IInv` says at each place how the clock stands to the last
attempt, to its timeout, to when the EL was last heard of, and to the sleep. `Overrun`
follows since the last attempt starts within the budget, is silent for at most its timeout
after each sign of life, of which the first timeout ends at most a second past the budget,
and is followed by one second of sleep. `FreshTokens` follows since a token is minted and
sent in the same instant of the model and is at most a second old by truncation; `Copies` since
attempts are a second apart. `CallIsImplemented` follows from the same invariant: `Post`
is `Send` or, since the attempts before it took a second each and time is left, a
`Retry` that `EngineCall` still allows (`AttemptFits`); an end is `Over`; and the
token, the sleep and the clock are stutters. It needs nothing of `MaxCopies`: where
the count stops, a `Post` is a stutter.

**`MockCl_proofs`, the payload files.** `FileInv` is `FileTypeOK`, `FramingInv`,
`SliceInv` and `ChainInv`:

- `FramingInv` says that the streaming reader, as long as it reads, is where
  `iter_records` is after some number of turns. The two readers look at different
  things (a short read of the prefix or the body; the length left in memory), and
  `ReadIsTurn` is the lemma that a step of the one is a turn of the other.
  `FramingsAgree` is not inductive: it compares what was read with the end of the
  other reader's loop, and says nothing of where either of them is.
- `SliceInv` says that a conversion has consumed the records of the first blocks and
  written those of them that were wanted, or all of them and the record after them that is no
  payload. It gives `ConvertedIsSlice` and the `convert` half of `VersionFitsFork`.
- `ChainInv` ties a recording's next block to the length of the file, and the hash and
  the parent of each record to the branches as they are now. A block is on the second
  branch for good once it is there, and with it all after it; so a record whose
  parent is not the one before it was read after a reorganisation that took in its
  parent, and that parent is still on the second branch.

`FramesAreRead` closes the circle with a writer. Nothing in the repository writes streams; the format
is the one `rlp_to_mocks.py:6-7` describes. Whatever records a stream frames,
of any length that fits four bytes, and wherever it is cut, `iter_records`
yields exactly the whole ones, and raises unless the cut is between two records.
Together with `FramingsAlwaysAgree` this holds of both readers.

What these proofs need by induction over data is done over sets of numbers:
`Smallest`, `Induct` and `Steps` are stated for a set, and follow from the
well-foundedness of `<`, since the library's induction theorems take an operator.
The item decoder is a hypothesis and not proved to be the inverse of an encoder:
`HoldsBlocks` says of a job that its records decode to its blocks, and TLC
evaluates that on encoded streams.

**`SyncPhase_proofs`.** `WaitInv` adds to the types that a wait that goes on still
lacks a confirmation. `HistoryInv` ties `sawSyncing` and the result to what the node
has really been through, as long as it has not restarted: a wait that saw it sync
and then saw it not syncing has seen it synced. `FreshInv` says that a recent head is that
of a node that has been synced. `FinishedSynced` follows from all three, for every margin and
every pivot: near genesis it says that block 0 is accepted only where the pivot is that near.

**`Orchestrator_proofs`.** `HostInv` holds on any host: `TypeOK`; `CommandInv` (where
the overlay commands are, given the runner's place); `SoleInv` (as long as no turn was begun
beside a stray command, one overlay command runs at a time, and none but the runner's own in
a turn); `MountInv` (then at most one generation is mounted, and none under a wipe or a
mount to come); `GenerationInv` (containers are bound to
generations that exist); `AloneInv` (then, in a run only the current client is up,
since compose checks the ports). It gives `NeverStacked` and `Attributed`. The rest
is relative to a tidy host and each adds what it needs: `QuietInv` (no command outlives its
runner); `ClearedInv` (between turns nothing runs, and in a turn only its own client) with
`~liveWiped`, `DriverInv`, `BlameInv`; `FreshInv` (what is about to be started is on the newest
layer, which is clean) where `rm -rf` works; `GoneInv` where the lazy umount works
too, for `NothingLeft`. `ClearedInv` is why a tidy host needs `down` to work and no
kills: each of these leaves a container under the next turn. `TenancyStep` maps
every step, from any state with `ClearedInv` and `FreshInv`, to a step of
`TenantPromise` or a stutter: `ComposeUp` is `Arrive`, a compose that fails or a
reboot before it is `SetAside`, a write is `Write`, the end of a container (its crash,
`down`, a reboot) is `Leave`, and everything the overlay command does is a stutter.
`TenanciesAreKept` is that property of the run, for every client set, matrix and
bound, and `ImplementsTenancy` says that the matrix on such a host implements
`TenantPromise`.

**`BlockWindow_proofs`.** `ProbeInv` says that while a probe is under way the edge
has moved past the deepest block seen served by no more than the blocks processed
since the head was fetched; `PinInv` says the same of the pinned window with the
margin; `DepthInv` is the invariant of the bisection. `BisectionExact` needs nothing of
the node but that it holds still meanwhile (`quiet`). `ClampedStaysServable` is proved
under `Paced`: no more blocks are processed than the margin between the head fetch a
window is derived from and its replacement. That is what the margin is for; the code
neither measures nor enforces it, so it is a hypothesis of the theorem and not an
assumption of the module. The run `window` has it in its bounds.
`FallsBackOnlyIfShrunk`, an action property, has `NarrowInv`: as long as every call
was answered, the block under the depth found really is below the edge.

**`LoadRun_proofs`.** `FileInv` ties the open file and its unflushed rows to the phase;
`CountInv` bounds the rows and those about to be written by the successful requests;
`HeadInv` orders the heads read. They hold for any number of users and any
flush interval. A straggler after test_stop finds no writer under the same
lock, and that is why `RowsKept` holds.

**`Milestones_proofs`.** `RunInv` says of each place which files are the current
run's; since locust's CSVs are only read by the run that wrote them,
`LoadIsItsOwn` follows for every sequence of runs. `SyncInv(d)` says of an undisturbed
milestone that its sync time and captured metrics come from one sync; its cases
are the four places between the measurement and the write. `SkipKeeps` has
`CarryInv`: a run that skips the sync carries what it read. `BaselineLatest` has `AgeInv`:
the run in progress has not reported yet, so the report it writes is the youngest, and one
that is there when it is written is a candidate.

**`SnapshotSweep_proofs`.** `SweepInv` is `TypeOK`; `ControlInv` (line and duration are
within the manifest wherever they are used, and the script of this sweep runs only inside a
run, or after its sweep was killed); `ReplayInv` (every replay has its script, or that got
a SIGKILL); and, as long as nothing was swallowed, taken early or crossed, `NodeInv` (the node a
run finds is its own, on a clean overlay), `FetchInv` and `ExtractInv` (the
snapshot a sweep works on is whole or gone, and no download is about to wipe it) and
`AliveInv` (so long a run of a killed sweep still has the node it was started on); and
`DownInv` (where compose takes containers down, no node runs while directories move). It gives `ReplayIsOwn`
and `NodeKeepsSnapshot`. `ReportInv` adds that the payloads start after the head they were
compared with (`PayloadsInv`), that every run alive is known to its sweep and every metrics file
is about the milestone it is named for, whichever sweep wrote it; `OkIsTrue` assumes
`Operator`: a manifest names a snapshot once, and one that does not describe its
head is named for it. Without either the script cannot know better.

### Every loop is finite

Liveness under fairness is beyond the prover. Its safety half is not: a measure in the
naturals that every step of a loop brings down, whatever its environment does. The
fairness that is left to assume is that a step which can be taken is taken.

| theorem | loop | what goes down with every step, the first that changes counting |
|---|---|---|
| `ReplayIsFinite` | the replay, for `ReplayEnds` | records left, places left in a record, polls left, attempts left |
| `CallIsFinite` | an engine call, for `CallEnds` | one number: the ticks left to the latest end a call may have, the signs of life left, and the places left of an attempt |
| `MeasurementIsFinite` | a sync wait with a cap, for `MeasurementEnds` | the calls left to the cap |
| `ProbesAreFinite` | the refresher between two turns of its loop, for `RefresherEnds` | places left to the head of the loop, depths in question. Every bisection halves these; the loop goes round only while the test runs |
| `SweepIsFinite` | the sweeps with the script in them, for `EverySnapshotReported` | sweeps left, lines left, places left on a line, durations left, places left in a run |

`SummaryIsComplete` is what `EverySnapshotReported` asks of a sweep that gets to its
end: every line has a row for each duration, or one that says why it has none.

`SyncEventuallyMeasured` has none. Without a cap a wait may poll any number of times,
and that it ends depends on the node.

Only model-checked: liveness (`ReplayEnds`, `CallEnds`, `MeasurementEnds`,
`SyncEventuallyMeasured`, `RefresherEnds`, `EverySnapshotReported`), and that the RLP
decoder is the inverse of an encoder.

## Where code and documentation disagree

Three of these have a run that TLC finds violated, and are quoted in full under
`findings` in `PROJECT.json`:

| run | what the code does |
|---|---|
| `sync_already` | in mode `none` a node synced from the start makes the wait raise at its cap, instead of returning null (`runner.py:385`) |
| `matrix_default` | without `--stop-monitoring` the second client of the matrix finds its ports taken by the first (`runner.py:219`) |
| `matrix_live` | in a second default run, after a lazy umount, `restore` wipes a layer that the container of the first still writes to (`overlay.py:184`; README.md:356 says that the next `up` "restores it to pristine anyway") |

Others were met while reading the code. They are modelled as the code has them
where the models go that deep, and no property is claimed against them:

- A block that newPayload calls VALID or ACCEPTED and whose forkchoice poll sleeps
  gets no `sync_wait_ms` (`drivers.py:269-273`).
- The budget of a call is called "total wall-clock" and each retry's timeout "capped to the
  remaining budget" (`engine.py:54-56`). The floor of one second lets an attempt outlast it
  (`engine.py:79`), and an EL that trickles its answer, or takes long to accept the
  connection, outlasts it by more: the timeout is one for each of these waits. This is why
  `OverrunBounded` allows two seconds and a timeout for every sign of life.
- A secret that is not 32 bytes long is accepted (`jwt_auth.py:62`).
- An unreachable poll between two good ones does not break the "consecutive" polls
  of `measure_sync_time` (`runner.py:410`, `SeesUnreachable`).
- With a pivot inside the margin of genesis the runner accepts block 0 (`runner.py:372`),
  and the pivot driver does not (`drivers.py:72`), though the one is said to have the "same
  convention" as the other (`runner.py:362`). `FinishedMeansSynced` has it as an exception.
- With no pivot number, the default, the pivot driver leaves a cold node that has
  any block (`drivers.py:73`).
- A probe that times out counts as a block without state: two of them turn a wide
  band into "latest" for the rest of the test (`locustfile.py:140`). This is why
  `FallBackOnlyIfShrunk` asks for answered calls.
- A window that just fits the band gets no margin, so its oldest block is gone with
  the next one processed (`locustfile.py:193`). This is why `ClampedServable` speaks
  of clamped windows.
- An answer the refresher was waiting for when the test stopped may overwrite the
  final head of on_test_stop (`locustfile.py:216-218`, `422`).
- A report above the failure ratio is the baseline of the next milestone
  (`aggregator.py:213`), whose RPC metrics are then compared with nothing; the gate is said to
  keep it from becoming one (`aggregator.py:177-178`).
- The change of a metric whose previous value is negative is judged in the wrong
  direction (`aggregator.py:266`). No metric of the harness is negative today.
- One failed request makes Locust exit with 1 by default, and the runner raises
  long before the failure ratio is looked at (`runner.py:550`).
- `rlp_to_mocks.py --count 0` writes one record (`222`).
- `KEEP_SNAPSHOTS=1` is described as "keep extracts" (`run_snapshot_matrix.sh:71`), but
  the fetch of the next snapshot removes the previous one's directory (`161-172`).
- `SKIP_FETCH=1` takes any directory that is not empty, what a fetch that timed out
  or was killed left included (`run_snapshot_matrix.sh:156-158`).
- A run that fails reads as OK in the summary when an earlier sweep left metrics for
  the same name (`run_snapshot_matrix.sh:282`).
- The snapshot is removed under its node when `down` fails (`run_snapshot_matrix.sh:154`).
- The row count `run_benchmark.sh:182-185` prints may be of an earlier run's
  `replay_latency.csv`.
- A runner that gets a SIGTERM leaves its command, its pivot driver and its containers
  behind: it has no handler. The next runner may mount beside the command.
- `docker rm -f` and the `eval` of `overlay env` fail in silence
  (`run_snapshot_matrix.sh:129-130`, `fetch_snapshot.sh:30`, `start_infra.sh:45`); after the
  last one the node runs on the snapshot itself, and changes it.
- The handler of `run_benchmark.sh:118` does not exit: between two commands a signal stops
  the replay and the script goes on without it.
- `start_infra.sh:6` calls `up` idempotent; on a running client it wipes the layer.

## What is not modelled

- **Formats**: CSV and JSON layout, Prometheus queries, percentile parsing, the CSV
  summary, compose files, dashboards, parsing of the overlay's configuration. No
  property here is about them.
- **`--max-seconds` of the pivot driver**: the runner never passes it.
- **`exchange_capabilities`, the export of the database size**: one more call, one
  more file, without state that anything else reads.
- **The comparison of two milestones, and the failure gate** (`compare_against_previous`,
  `locust_aggregate_metrics`): pure functions of floats. A table of values in a unit test
  reaches the zero, the exact threshold and the metrics where more is better.
- **Load tests and aggregators of a killed runner** in `Orchestrator` and `Milestones`: they do
  nothing to mounts or containers; in `Milestones` a kill takes the whole process group.
- **Between an `umount` and the look at `/proc/mounts` after it**: one step in `Overlay`.
- **Lighthouse and the monitoring stack**: the runner starts them and looks at
  nothing they do.
- **Prometheus counters and the user-count thread of the load test**: nothing reads
  them back.
- **Seed script** (`scripts/seed_test_node.py`): a straight line of transactions on a
  private dev node, each awaited before the next. Nothing runs beside it, every
  failure ends it, and it may be started again: it has no interleavings to check.
- **Mock-CL command line** (`src/mock_cl/__main__.py`): argument parsing. The wiring of
  the drivers is in their modules.
- **Scripts of the other client**: they differ from the modelled ones in defaults.
- **Real time** outside `EngineRpc`: waits are counted in polls, deadlines may pass
  at any poll.

## Running it

```
tlc -workers 2 -config MCReplay.cfg MCReplay     # one run; PROJECT.json lists them all
tlapm ReplayDriver_proofs.tla                     # the proofs of a module
```
