---------------------------- MODULE SnapshotSweep ---------------------------
(***************************************************************************)
(* templates/<client>/run_snapshot_matrix.sh: for each snapshot of a       *)
(* manifest fetch it, point the templates at it, and run the benchmark at  *)
(* each duration on a pristine overlay.  A sweep may be killed, and        *)
(* another one be started with other knobs; a command of it that is still  *)
(* at work has ended by then, but for the script and what it started.      *)
(*                                                                         *)
(* The body runs with set -e suspended: a command that fails is ignored    *)
(* unless the script looks at it.  start_infra.sh and fetch_snapshot.sh,   *)
(* which do stop at a failure, are what InfraDown, InfraUp and the snap_dl *)
(* container below make of them; overlays are in Overlay.                  *)
(***************************************************************************)
EXTENDS BenchmarkScript

CONSTANTS
    Snapshots,     \* blocks that name a snapshot and its directory
    SnapHead,          \* the head a snapshot really has
    Described,     \* snapshots that ship a _snapshot_eth_getBlockByNumber.json
    Durations,     \* how many DURATIONS
    Manifests,     \* manifests: sequences of [block, payloads]
    Knobs,         \* settings of KEEP_SNAPSHOTS, SKIP_FETCH, KEEP_INFRA and SNAP_HEAD
    FaultSets      \* what may happen on the host, another sweep included

Nowhere == 0       \* no directory under SNAP_BASE; no container; a bad URL
NoPayloads == 0    \* no such payloads file
NoHead == 0        \* SNAP_HEAD not set

ASSUME SweepAssumption ==
    /\ Snapshots \subseteq Nat \ {Nowhere}
    /\ SnapHead \in [Snapshots -> Nat] /\ Described \subseteq Snapshots
    /\ Durations \in Nat \ {0} /\ MaxSweeps \in Nat \ {0}
    /\ \A m \in Manifests : m \in Seq([block : Snapshots \cup {Nowhere}, payloads : Nat])
    /\ Knobs \subseteq [keepSnapshots : BOOLEAN, skipFetch : BOOLEAN, keepInfra : BOOLEAN,
                        snapHead : Nat]
    /\ FaultSets \subseteq
          SUBSET {"stuck", "rm", "fetch", "up", "env", "kill", "oom", "cadvisor", "again"}
    /\ Milestones = Snapshots \X (1..Durations)

VARIABLES
    faults, manifest, knobs,
    sweep,         \* sweeps so far
    pc, line, dur, \* where the sweep is
    summary,       \* SUMMARY
    config,        \* the snapshot lowerdir and <client>_DB_PATH point at
    mockClPayloads, \* MOCK_CL_PAYLOADS: the first block of the file
    disk,          \* snapshot directories; a partial one is not what the URL has
    dl,            \* the snap_dl container
    node,          \* the snapshot the running container is on
    fresh,         \* history: the container's overlay was made for it
    pulled,        \* history: a snapshot went away under its container
    early,         \* history: SKIP_FETCH took a directory being fetched, or half of one
    swallowed,     \* history: a failed command that nobody looks at left things as they were
    crossed        \* history: infra taken down under what was left of an earlier run

fileVars == <<config, mockClPayloads, disk>>
history == <<pulled, early, swallowed, crossed>>
hostVars == <<dl, node, fresh, history>>
where == <<faults, manifest, knobs, sweep>>
vars == <<where, pc, line, dur, summary, fileVars, hostVars, scriptVars>>

NoFetch == [block |-> Nowhere, state |-> "missing"]

Init ==
    /\ faults \in FaultSets /\ manifest \in Manifests /\ knobs \in Knobs
    /\ sweep = 1
    /\ pc = "line" /\ line = 0 /\ dur = 0
    /\ summary = {}
    /\ config = Nowhere /\ mockClPayloads = NoPayloads
    /\ disk = [s \in Snapshots |-> "absent"]
    /\ dl = NoFetch
    /\ node = Nowhere /\ fresh = FALSE
    /\ pulled = FALSE /\ early = FALSE /\ swallowed = FALSE /\ crossed = FALSE
    /\ ScriptInit

Fault(f) == f \in faults
Block == manifest[line].block
Target == Block

GoTo(p) == pc' = p /\ UNCHANGED <<where, line, scriptVars>>

Row(d, status) == [line |-> line, dur |-> d, status |-> status, on |-> NoFile]

\* One line for the whole snapshot, and on to the next one.
Skip(why) ==
    /\ summary' = summary \cup {Row(0, why)}
    /\ GoTo("line")

Remove(s) ==
    /\ disk' = IF s \in Snapshots THEN [disk EXCEPT ![s] = "absent"] ELSE disk
    /\ pulled' = (pulled \/ (s # Nowhere /\ node = s))

-----------------------------------------------------------------------------
NextLine ==
    /\ pc = "line" /\ line < Len(manifest)
    /\ line' = line + 1 /\ dur' = 0
    /\ IF manifest[line + 1].block = Nowhere
       THEN /\ pc' = "line"
            /\ summary' = summary \cup {[Row(0, "SKIP:bad-url") EXCEPT !.line = line + 1]}
       ELSE pc' = "down" /\ UNCHANGED summary
    /\ UNCHANGED <<where, fileVars, hostVars, scriptVars>>

PrintSummary ==
    /\ pc = "line" /\ line = Len(manifest)
    /\ GoTo("printed")
    /\ UNCHANGED <<dur, summary, fileVars, hostVars>>

\* What is left of runs whose sweep or script is gone.
Left(s) == bpc[s] # "off" /\ (s < sweep \/ pc = "dead")
Straggling == runners # {} \/ \E s \in Sweeps : Left(s)

\* start_infra.sh down, under "|| true": compose down, which may fail with
\* the container still there.  An overlay that stays is the next up's to
\* restore.
InfraDown(from, to) ==
    /\ pc = from /\ GoTo(to)
    /\ node' \in {Nowhere} \cup (IF Fault("stuck") THEN {node} ELSE {})
    /\ crossed' = (crossed \/ Straggling)
    /\ UNCHANGED <<dur, summary, fileVars, dl, fresh, pulled, early, swallowed>>

\* Mutant: the stack that KEEP_INFRA left up is kept for the next snapshot.
StopInfra_KeepInfra ==
    /\ pc = "down" /\ GoTo("extract")
    /\ IF knobs.keepInfra THEN UNCHANGED node ELSE node' = Nowhere
    /\ UNCHANGED <<dur, summary, fileVars, dl, fresh, history>>

StopInfra == InfraDown("down", "extract")

Fetching(s) == dl.block = s /\ dl.state \in {"started", "extracting"}
Reusable == knobs.skipFetch /\ disk[Target] # "absent"

ReuseExtract ==
    /\ pc = "extract" /\ Reusable
    /\ early' = (early \/ disk[Target] # "whole" \/ Fetching(Target))
    /\ GoTo("point")
    /\ UNCHANGED <<dur, summary, fileVars, dl, node, fresh, pulled, swallowed, crossed>>

RemovePrevious ==
    /\ pc = "extract" /\ ~Reusable
    /\ IF config # Target THEN Remove(config) ELSE UNCHANGED <<disk, pulled>>
    /\ GoTo("fetch")
    /\ UNCHANGED <<dur, summary, config, mockClPayloads, dl, node, fresh, early, swallowed, crossed>>

\* fetch_snapshot.sh: mkdir, docker rm -f, docker run.  Its exit code is
\* ignored; without a container the poll below reads "missing", and one that
\* mkdir did not come to or rm could not remove is read in place of the new.
Fetch ==
    /\ pc = "fetch" /\ GoTo("poll")
    /\ LET made == IF disk[Target] = "absent" THEN [disk EXCEPT ![Target] = "partial"] ELSE disk
       IN \/ /\ dl' \in {[block |-> Target, state |-> "started"]}
                         \cup (IF Fault("fetch") THEN {NoFetch} ELSE {})
             /\ disk' = made /\ UNCHANGED swallowed
          \/ /\ Fault("fetch") /\ disk[Target] = "absent"
             /\ UNCHANGED <<dl, disk, swallowed>>
          \/ /\ Fault("rm") /\ dl.state # "missing"
             /\ disk' = made /\ swallowed' = TRUE /\ UNCHANGED dl
    /\ UNCHANGED <<dur, summary, config, mockClPayloads, node, fresh, pulled, early, crossed>>

FetchDone ==
    /\ pc = "poll" /\ dl.state = "exited_0"
    /\ GoTo("point")
    /\ UNCHANGED <<dur, summary, fileVars, hostVars>>

FetchFailed ==
    /\ pc = "poll" /\ dl.state = "exited_1"
    /\ Skip("SKIP:fetch-failed")
    /\ UNCHANGED <<dur, fileVars, hostVars>>

\* Mutant: only a container that runs is timed.
FetchTimeout_Running ==
    /\ pc = "poll" /\ dl.state \in {"started", "extracting"}
    /\ Skip("SKIP:fetch-timeout")
    /\ UNCHANGED <<dur, fileVars, hostVars>>

FetchTimeout ==
    /\ pc = "poll" /\ dl.state \in {"started", "extracting", "missing"}
    /\ Skip("SKIP:fetch-timeout")
    /\ UNCHANGED <<dur, fileVars, hostVars>>

PointAt ==
    /\ pc = "point"
    /\ config' = Target
    /\ GoTo("payloads")
    /\ UNCHANGED <<dur, summary, mockClPayloads, disk, hostVars>>

\* Heads line 230 may come to: SNAP_HEAD; what the extract says, which half
\* an extract may not; or else the URL.
HeadsRead ==
    IF knobs.snapHead # NoHead THEN {knobs.snapHead}
    ELSE (IF Block \in Described THEN {SnapHead[Block]} ELSE {})
         \cup (IF Block \notin Described \/ disk[Block] # "whole" THEN {Block} ELSE {})

PayloadsOk ==
    /\ pc = "payloads" /\ \E h \in HeadsRead : manifest[line].payloads = h + 1
    /\ mockClPayloads' = manifest[line].payloads
    /\ dur' = 1 /\ GoTo("run")
    /\ UNCHANGED <<summary, config, disk, hostVars>>

PayloadsBad ==
    /\ pc = "payloads" /\ \E h \in HeadsRead : manifest[line].payloads # h + 1
    /\ Skip(IF manifest[line].payloads = NoPayloads THEN "SKIP:no-payloads"
                                                    ELSE "SKIP:payloads-not-head+1")
    /\ UNCHANGED <<dur, fileVars, hostVars>>

-----------------------------------------------------------------------------
(* One duration.                                                           *)
Milestone == <<Block, dur>>

\* The run, with what its script reads of the env file as it starts.
ThisRun == [sweep |-> sweep, line |-> line, dur |-> dur, block |-> Block,
            payloads |-> mockClPayloads, given |-> knobs.snapHead]

NextDuration(row) ==
    /\ summary' = summary \cup {row}
    /\ IF dur < Durations THEN pc' = "run" /\ dur' = dur + 1
                          ELSE pc' = "end" /\ dur' = dur
    /\ UNCHANGED <<where, line>>

StopForRun == InfraDown("run", "clean")

\* Mutant: what compose did not take down stays up.
CleanStaleContainers_None ==
    /\ pc = "clean" /\ GoTo("up")
    /\ UNCHANGED <<dur, summary, fileVars, hostVars>>

\* docker rm -f by name, under "|| true".
CleanStaleContainers ==
    /\ pc = "clean" /\ GoTo("up")
    /\ \/ node' = Nowhere /\ UNCHANGED swallowed
       \/ Fault("rm") /\ node # Nowhere /\ swallowed' = TRUE /\ UNCHANGED node
    /\ UNCHANGED <<dur, summary, fileVars, dl, fresh, pulled, early, crossed>>

\* start_infra.sh: overlay up restores before it mounts, then compose up,
\* whose exit code is ignored once the node runs.  A node that is still there
\* stays as it is, on what is left of its overlay.
InfraUp ==
    /\ pc = "up" /\ disk[config] # "absent"
    /\ IF node = Nowhere THEN node' = config /\ fresh' = TRUE
                         ELSE fresh' = FALSE /\ UNCHANGED node
    /\ GoTo("rpc")
    /\ UNCHANGED <<dur, summary, fileVars, dl, history>>

\* eval of an "overlay env" that failed is eval of nothing (line 45): the
\* node comes up on the snapshot itself, and changes it.
InfraUpRaw ==
    /\ pc = "up" /\ Fault("env") /\ node = Nowhere /\ disk[config] # "absent"
    /\ node' = config /\ fresh' = FALSE
    /\ disk' = [disk EXCEPT ![config] = "partial"]
    /\ swallowed' = TRUE
    /\ GoTo("rpc")
    /\ UNCHANGED <<dur, summary, config, mockClPayloads, dl, pulled, early, crossed>>

\* The mount, or compose up, fails: "continuing to RPC wait".
InfraUpFails ==
    /\ pc = "up" /\ (Fault("up") \/ disk[config] = "absent")
    /\ GoTo("rpc")
    /\ UNCHANGED <<dur, summary, fileVars, hostVars>>

RpcReady ==
    /\ pc = "rpc" /\ node # Nowhere
    /\ StartScript(sweep, ThisRun)
    /\ pc' = "bench"
    /\ UNCHANGED <<where, line, dur, summary, fileVars, hostVars>>

RpcNotReady ==
    /\ pc = "rpc"
    /\ NextDuration(Row(dur, "SKIP:rpc-not-ready"))
    /\ UNCHANGED <<fileVars, hostVars, scriptVars>>

\* What a report that run r writes now is about; it is full when cAdvisor
\* knows the container by name.
Measured(r) ==
    [run |-> r, on |-> node, whole |-> node # Nowhere /\ disk[node] = "whole",
     pristine |-> fresh, full |-> ~Fault("cadvisor")]

ScriptRuns(s) == ScriptStep(s) \/ RunnerEnds(s, Measured(run[s]))

Bench ==
    /\ pc = "bench" /\ ScriptRuns(sweep)
    /\ UNCHANGED <<where, pc, line, dur, summary, fileVars, hostVars>>

\* The row is about the metrics file that is there, whoever wrote it.
Status(file) ==
    IF file = NoFile THEN "FAIL:no-metrics"
    ELSE IF file.full THEN "OK" ELSE "PARTIAL:no-resource-metrics"

Judge ==
    /\ pc = "bench" /\ bpc[sweep] = "off"
    /\ LET file == metrics[Milestone]
       IN NextDuration([Row(dur, Status(file)) EXCEPT !.on = file])
    /\ UNCHANGED <<fileVars, hostVars, scriptVars>>

-----------------------------------------------------------------------------
LeaveUp ==
    /\ pc = "end" /\ knobs.keepInfra
    /\ GoTo("line")
    /\ UNCHANGED <<dur, summary, fileVars, hostVars>>

TearDown == ~knobs.keepInfra /\ InfraDown("end", "free")

Free ==
    /\ pc = "free"
    /\ IF knobs.keepSnapshots THEN UNCHANGED <<disk, pulled>> ELSE Remove(Target)
    /\ GoTo("line")
    /\ UNCHANGED <<dur, summary, config, mockClPayloads, dl, node, fresh, early, swallowed, crossed>>

-----------------------------------------------------------------------------
(* The snap_dl container, and the operator.                                *)

\* It installs its tools, wipes the directory, downloads and extracts.
DlWipes ==
    /\ dl.state = "started"
    /\ dl' = [dl EXCEPT !.state = "extracting"]
    /\ disk' = IF disk[dl.block] = "whole" THEN [disk EXCEPT ![dl.block] = "partial"] ELSE disk
    /\ pulled' = (pulled \/ node = dl.block)

\* A directory that was removed meanwhile does not come back.
DlEnds ==
    /\ dl.state = "extracting"
    /\ dl' = [dl EXCEPT !.state = "exited_0"]
    /\ disk' = IF disk[dl.block] = "partial" THEN [disk EXCEPT ![dl.block] = "whole"] ELSE disk
    /\ UNCHANGED pulled

DlFails ==
    /\ Fault("fetch") /\ dl.state \in {"started", "extracting"}
    /\ dl' = [dl EXCEPT !.state = "exited_1"]
    /\ UNCHANGED <<disk, pulled>>

\* What was left of earlier runs goes on.
Straggle ==
    /\ \/ \E s \in Sweeps : Left(s) /\ ScriptRuns(s)
       \/ \E r \in runners : RunnerLeftEnds(r, Measured(r))
    /\ UNCHANGED <<where, pc, line, dur, summary, fileVars, hostVars>>

\* A signal to the sweep and what it runs, or to the sweep alone; not to the
\* last one, which leaves nobody anything to meet (a bound).
Kill ==
    /\ Fault("kill") /\ sweep < MaxSweeps /\ pc \notin {"printed", "dead"}
    /\ pc' = "dead"
    /\ IF pc = "bench" /\ bpc[sweep] # "off" THEN Signalled(sweep) \/ UNCHANGED scriptVars
                                              ELSE UNCHANGED scriptVars
    /\ UNCHANGED <<where, line, dur, summary, fileVars, hostVars>>

OutOfMemory ==
    /\ Fault("oom") /\ \E s \in Sweeps : ScriptKilled(s)
    /\ UNCHANGED <<where, pc, line, dur, summary, fileVars, hostVars>>

NewSweep ==
    /\ Fault("again") /\ sweep < MaxSweeps /\ pc \in {"printed", "dead"}
    /\ sweep' = sweep + 1
    /\ knobs' \in Knobs /\ manifest' \in Manifests
    /\ pc' = "line" /\ line' = 0 /\ dur' = 0 /\ summary' = {}
    /\ UNCHANGED <<faults, fileVars, hostVars, scriptVars>>

SweepStep ==
    \/ NextLine \/ PrintSummary \/ StopInfra \/ ReuseExtract \/ RemovePrevious
    \/ Fetch \/ FetchDone \/ FetchFailed \/ FetchTimeout
    \/ PointAt \/ PayloadsOk \/ PayloadsBad
    \/ StopForRun \/ CleanStaleContainers \/ InfraUp \/ InfraUpRaw \/ InfraUpFails
    \/ RpcReady \/ RpcNotReady \/ Bench \/ Judge
    \/ LeaveUp \/ TearDown \/ Free

Next ==
    \/ SweepStep
    \/ /\ DlWipes \/ DlEnds \/ DlFails
       /\ UNCHANGED <<where, pc, line, dur, summary, config, mockClPayloads,
                      node, fresh, early, swallowed, crossed, scriptVars>>
    \/ ReplayExits /\ UNCHANGED <<where, pc, line, dur, summary, fileVars, hostVars>>
    \/ Straggle \/ Kill \/ OutOfMemory \/ NewSweep

\* Every wait of the scripts is capped (FETCH_POLL_TIMEOUT, RPC_READY_TIMEOUT,
\* the run time of the load test).
Spec == Init /\ [][Next]_vars /\ WF_vars(SweepStep)

-----------------------------------------------------------------------------
(* Properties.                                                             *)

HeadFor(given, s) == IF given # NoHead THEN given ELSE SnapHead[s]

\* A row that reads OK is about a load on the snapshot the row names, on a
\* whole extract of it, on an overlay made for that run and with payloads
\* that start right after the head SNAP_HEAD gives or that snapshot has, and
\* is the row's own unless an earlier sweep left its metrics there: what
\* failed on the way was noticed by somebody.  But SKIP_FETCH takes any
\* "prior/in-flight download" that is not empty (line 157), and then the
\* label for its head; "docker rm -f || true" and the eval of "overlay env"
\* are noticed by nobody; and runs whose infra was taken down under them, for
\* what was killed was not gone, are about nothing.
OkRowsAreTrue ==
    swallowed \/ crossed \/ \A r \in summary : r.status = "OK" =>
        LET s == manifest[r.line].block
            of == r.on.run
        IN /\ r.on.on = s /\ r.on.pristine
           /\ early \/ (r.on.whole /\ of.payloads = HeadFor(of.given, s) + 1)
           /\ <<of.sweep, of.line, of.dur>> = <<sweep, r.line, r.dur>> \/ of.sweep < sweep

\* "Stop node + drop overlay so the old lowerdir is free to replace" (line
\* 152): no snapshot directory is removed or wiped while a node runs on it,
\* as long as compose can take the containers down, with the same exception.
NodeKeepsItsSnapshot == Fault("stuck") \/ early \/ ~pulled

\* A replay drives the engine only while the script that started it is there:
\* "trap cleanup_replay EXIT INT TERM" (run_benchmark.sh:118) comes to every
\* way a script ends, the death of its runner, a signal at any of its commands
\* and that of its sweep, but for SIGKILL.
NoStrayReplay == replays \ killed \subseteq {run[s] : s \in {x \in Sweeps : bpc[x] # "off"}}

\* "never abort the sweep" (line 318): whatever fails, a sweep that is left
\* alone ends, with a row for each snapshot that was skipped and for each
\* duration of the others.
Reported(l) == {r.dur : r \in {x \in summary : x.line = l}}
Accounted(l) == Reported(l) = {0} \/ Reported(l) = 1..Durations
EverySnapshotReported ==
    pc = "line" ~> pc = "dead" \/ (pc = "printed" /\ \A l \in 1..Len(manifest) : Accounted(l))
=============================================================================
