------------------------ MODULE SnapshotSweep_proofs ------------------------
(***************************************************************************)
(* Proofs about SnapshotSweep, for every set of snapshots, manifest,       *)
(* setting of the knobs, host and number of durations and of sweeps.       *)
(***************************************************************************)
EXTENDS SnapshotSweep, TLAPS

\* What the operator vouches for: a manifest names a snapshot once, and a
\* snapshot that does not say its head is named for it.
Operator ==
    /\ \A m \in Manifests : \A i, j \in DOMAIN m :
          m[i].block = m[j].block /\ m[i].block # Nowhere => i = j
    /\ \A s \in Snapshots \ Described : SnapHead[s] = s

Idle == {"line", "printed", "dead"}
Pointed == {"payloads", "run", "clean", "up", "rpc", "bench", "end", "free"}
Runs == {"run", "clean", "up", "rpc", "bench"}
Stages == Idle \cup {"down", "extract", "fetch", "poll", "point"} \cup Pointed

AllRuns == [sweep : Sweeps, line : Nat, dur : 1..Durations, block : Snapshots,
            payloads : Nat, given : Nat]

Reports == [run : AllRuns, on : Snapshots \cup {Nowhere}, whole : BOOLEAN,
            pristine : BOOLEAN, full : BOOLEAN]

Downloads == [block : Snapshots \cup {Nowhere},
              state : {"missing", "started", "extracting", "exited_0", "exited_1"}]

ScriptTypeOK ==
    /\ bpc \in [Sweeps -> {"off", "preflight", "launch", "sanity", "runner", "exit"}]
    /\ run \in [Sweeps -> AllRuns \cup {NoRun}]
    /\ \A s \in Sweeps : bpc[s] # "off" => run[s] \in AllRuns
    /\ runners \subseteq AllRuns
    /\ metrics \in [Milestones -> Reports \cup {NoFile}]

SweepTypeOK ==
    /\ pc \in Stages
    /\ manifest \in Manifests /\ knobs \in Knobs /\ sweep \in Sweeps
    /\ line \in 0..Len(manifest) /\ dur \in 0..Durations
    /\ config \in Snapshots \cup {Nowhere} /\ node \in Snapshots \cup {Nowhere}
    /\ disk \in [Snapshots -> {"absent", "partial", "whole"}]
    /\ dl \in Downloads
    /\ dl.block \in Snapshots \/ dl.state = "missing"
    /\ fresh \in BOOLEAN
    /\ mockClPayloads \in Nat

TypeOK == SweepTypeOK /\ ScriptTypeOK

\* Where the sweep is says what it works on.
ControlInv ==
    /\ pc \notin Idle => line # 0 /\ Block \in Snapshots
    /\ pc \in Pointed => config = Block
    /\ pc \in Runs => dur # 0
    /\ bpc[sweep] # "off" => pc \in {"bench", "dead"}
    /\ \A s \in Sweeps : s > sweep => bpc[s] = "off"

\* The node a run is about to find is its own, where nobody looked away.
NodeInv ==
    /\ pc = "up" => node = Nowhere
    /\ pc = "rpc" => node = Nowhere \/ (node = config /\ fresh /\ disk[config] # "absent")
    /\ pc = "bench" => node = config /\ fresh /\ disk[config] # "absent"

\* No download is about to wipe what the sweep goes on with.
FetchInv == pc \in Pointed \cup {"point"} => ~Fetching(Block)

\* What the sweep goes on with is whole, or is not there.
ExtractInv ==
    /\ dl.state = "extracting" => disk[dl.block] # "whole"
    /\ pc = "poll" /\ disk[Block] # "absent" =>
          /\ dl.state = "missing" \/ dl.block = Block
          /\ dl.state = "exited_0" => disk[Block] = "whole"
    /\ pc \in Pointed \cup {"point"} => disk[Block] # "partial"

\* As long as compose takes containers down, nothing runs where things move.
DownInv ==
    /\ pc \in {"extract", "fetch", "poll", "point", "payloads", "clean", "up", "free"} =>
          node = Nowhere
    /\ ~early => ~pulled /\ (dl.state = "started" => node # dl.block)

\* A replay has its script, and a script that has not launched one has none.
ReplayInv ==
    /\ NoStrayReplay
    /\ \A s \in Sweeps : bpc[s] # "off" => run[s].sweep = s
    /\ \A s \in Sweeps : bpc[s] \in {"preflight", "launch"} => run[s] \notin replays \ killed

\* The runs that may still write a report.
Alive == runners \cup {run[s] : s \in {x \in Sweeps : bpc[x] # "off"}}

\* Until infra is taken down under them they find the node they were started
\* on, and what it was started on.
Resting == {"bench", "run", "end", "down"} \cup Idle

AliveInv ==
    \A r \in Alive :
        /\ pc \in Resting
        /\ node = r.block /\ fresh
        /\ early \/ (disk[r.block] = "whole" /\ ~Fetching(r.block))

\* The payloads were compared with the head of the snapshot, if one is there.
PayloadsInv ==
    pc \in Pointed \ {"payloads"} =>
        early \/ disk[Block] = "absent" \/ mockClPayloads = HeadFor(knobs.snapHead, Block) + 1

\* A run is one of its sweep's, and has the payloads of its snapshot.
Known(r) ==
    /\ r.sweep <= sweep
    /\ r.sweep = sweep => r.line \in DOMAIN manifest /\ manifest[r.line].block = r.block

Fit(r) == early \/ r.payloads = HeadFor(r.given, r.block) + 1

RunInv == \A r \in Alive : Known(r) /\ (swallowed \/ Fit(r))

\* A metrics file is about its milestone, whichever sweep wrote it.
Holds(f) ==
    swallowed \/ crossed
    \/ (f.on = f.run.block /\ f.pristine /\ (f.whole \/ early) /\ Fit(f.run))

About(f, m) == f.run.block = m[1] /\ f.run.dur = m[2] /\ Known(f.run) /\ Holds(f)

FileInv == \A m \in Milestones : metrics[m] # NoFile => About(metrics[m], m)

\* Of every sweep.
SweepInv ==
    /\ TypeOK /\ ControlInv /\ ReplayInv
    /\ ~swallowed => NodeInv
    /\ ~early => FetchInv
    /\ ~early /\ ~swallowed => ExtractInv
    /\ ~swallowed /\ ~crossed => AliveInv
    /\ ~Fault("stuck") => DownInv

\* And where the operator is right.
ReportInv == (~swallowed => PayloadsInv) /\ RunInv /\ FileInv /\ OkRowsAreTrue

-----------------------------------------------------------------------------
(* The steps, by what they may change.                                     *)

Fetches == ReuseExtract \/ RemovePrevious \/ Fetch \/ FetchDone \/ FetchFailed \/ FetchTimeout
Points == PointAt \/ PayloadsOk \/ PayloadsBad
Downs == StopInfra \/ StopForRun \/ TearDown
Ups == InfraUp \/ InfraUpRaw \/ InfraUpFails
Infra == Downs \/ CleanStaleContainers \/ Ups
Download == DlWipes \/ DlEnds \/ DlFails
SameSweep == UNCHANGED <<where, pc, line, dur, summary, fileVars, hostVars>>
\* The steps of scripts and of what they leave, and of the downloads.
OfScripts == Bench \/ Straggle \/ OutOfMemory \/ (ReplayExits /\ SameSweep)
OfDownload ==
    Download /\ UNCHANGED <<where, pc, line, dur, summary, config, mockClPayloads,
                            node, fresh, early, swallowed, crossed, scriptVars>>

LEMMA Sums ==
    /\ 0 \in 0..Durations /\ 1 \in 0..Durations /\ Nowhere \notin Snapshots
    /\ \A d \in 0..Durations : d < Durations => d + 1 \in 0..Durations /\ d + 1 # 0
BY SweepAssumption DEF Nowhere

LEMMA Element ==
    ASSUME NEW S, NEW s \in Seq(S), NEW i \in 1..Len(s)
    PROVE  s[i] \in S
OBVIOUS

LEMMA OnBlock ==
    ASSUME SweepTypeOK, ControlInv, pc \notin Idle
    PROVE  /\ Block \in Snapshots /\ Block # Nowhere
           /\ line \in 1..Len(manifest) /\ line \in DOMAIN manifest
           /\ disk[Block] \in {"absent", "partial", "whole"}
           /\ manifest[line].payloads \in Nat
<1>1. manifest \in Seq([block : Snapshots \cup {Nowhere}, payloads : Nat])
  BY SweepAssumption DEF SweepTypeOK
<1>2. Block \in Snapshots /\ line # 0 /\ line \in 0..Len(manifest)
  BY DEF SweepTypeOK, ControlInv
<1>3. line \in 1..Len(manifest) /\ DOMAIN manifest = 1..Len(manifest)
  BY <1>1, <1>2
<1>4. manifest[line].payloads \in Nat
  <2>1. manifest[line] \in [block : Snapshots \cup {Nowhere}, payloads : Nat]
    BY <1>1, <1>3, Element
  <2>2. QED
    BY <2>1
<1>5. QED
  BY <1>2, <1>3, <1>4, Sums DEF SweepTypeOK

LEMMA SameBlock ==
    ASSUME UNCHANGED <<manifest, line>>
    PROVE  Block' = Block
BY DEF Block

-----------------------------------------------------------------------------
(* The scripts.                                                            *)

LEMMA ReportType ==
    ASSUME SweepTypeOK, NEW r \in AllRuns
    PROVE  Measured(r) \in Reports /\ <<r.block, r.dur>> \in Milestones
BY SweepAssumption DEF SweepTypeOK, AllRuns, Reports, Measured

\* What the script of one sweep may change, on its own or under a signal.
LEMMA ScriptEffect ==
    ASSUME TypeOK, NEW s \in Sweeps, ScriptRuns(s) \/ Signalled(s) \/ ScriptKilled(s)
    PROVE  /\ bpc[s] # "off" /\ run[s] \in AllRuns
           /\ bpc' \in [Sweeps -> {"off", "preflight", "launch", "sanity", "runner", "exit"}]
           /\ run' \in [Sweeps -> AllRuns \cup {NoRun}]
           /\ \A x \in Sweeps : x # s => bpc'[x] = bpc[x] /\ run'[x] = run[x]
           /\ bpc'[s] # "off" => run'[s] = run[s]
           /\ runners' \subseteq runners \cup {run[s]}
           /\ UNCHANGED metrics \/ Writes(run[s], Measured(run[s]))
<1> USE DEF Goes, Ends
<1>1. /\ bpc \in [Sweeps -> {"off", "preflight", "launch", "sanity", "runner", "exit"}]
      /\ run \in [Sweeps -> AllRuns \cup {NoRun}]
      /\ bpc[s] # "off" => run[s] \in AllRuns
  BY DEF TypeOK, ScriptTypeOK
<1>2. CASE Preflight(s) \/ LaunchReplay(s) \/ SanityOk(s) \/ RunnerFails(s)
  BY <1>1, <1>2 DEF Preflight, LaunchReplay, SanityOk, RunnerFails
<1>3. CASE PreflightFails(s) \/ SanityFails(s) \/ CleanupReplay(s)
  BY <1>1, <1>3 DEF PreflightFails, SanityFails, CleanupReplay
<1>4. CASE RunnerEnds(s, Measured(run[s]))
  BY <1>1, <1>4 DEF RunnerEnds
<1>5. CASE Signalled(s)
  BY <1>1, <1>5 DEF Signalled
<1>6. CASE ScriptKilled(s)
  BY <1>1, <1>6 DEF ScriptKilled
<1>7. QED
  BY <1>2, <1>3, <1>4, <1>5, <1>6 DEF ScriptRuns, ScriptStep

\* What all of them, and a kill of the sweep, leave alone.
LEMMA Scripts ==
    ASSUME TypeOK, OfScripts \/ Kill
    PROVE  /\ UNCHANGED <<where, line, dur, summary, fileVars, hostVars>>
           /\ pc' = IF OfScripts THEN pc ELSE "dead"
           /\ ScriptTypeOK' /\ Alive' \subseteq Alive
           /\ \A s \in Sweeps : bpc'[s] # "off" => bpc[s] # "off" /\ run'[s] = run[s]
           /\ UNCHANGED metrics \/ \E r \in Alive : Writes(r, Measured(r))
<1> DEFINE Moved(s) == ScriptRuns(s) \/ Signalled(s) \/ ScriptKilled(s)
<1> HIDE DEF Moved
<1>1. /\ UNCHANGED <<where, line, dur, summary, fileVars, hostVars>>
      /\ pc' = IF OfScripts THEN pc ELSE "dead"
  <2>1. OfScripts => SameSweep
    BY DEF OfScripts, Bench, Straggle, OutOfMemory, SameSweep
  <2>2. CASE OfScripts
    BY <2>1, <2>2 DEF SameSweep
  <2>3. CASE ~OfScripts
    BY <2>3 DEF Kill
  <2>4. QED
    BY <2>2, <2>3
<1>2. CASE \E s \in Sweeps : Moved(s)
  <2>1. PICK s \in Sweeps : Moved(s)
    BY <1>2
  <2>2. /\ bpc[s] # "off" /\ run[s] \in AllRuns
        /\ bpc' \in [Sweeps -> {"off", "preflight", "launch", "sanity", "runner", "exit"}]
        /\ run' \in [Sweeps -> AllRuns \cup {NoRun}]
        /\ \A x \in Sweeps : x # s => bpc'[x] = bpc[x] /\ run'[x] = run[x]
        /\ bpc'[s] # "off" => run'[s] = run[s]
        /\ runners' \subseteq runners \cup {run[s]}
        /\ UNCHANGED metrics \/ Writes(run[s], Measured(run[s]))
    BY <2>1, ScriptEffect DEF Moved
  <2>3. \A x \in Sweeps : bpc'[x] # "off" => bpc[x] # "off" /\ run'[x] = run[x]
    BY <2>2
  <2>4. run[s] \in Alive /\ runners \subseteq Alive
    BY <2>2 DEF Alive
  <2>5. Alive' \subseteq Alive
    BY <2>2, <2>3, <2>4 DEF Alive
  <2>6. metrics' \in [Milestones -> Reports \cup {NoFile}]
    <3>1. /\ Measured(run[s]) \in Reports /\ <<run[s].block, run[s].dur>> \in Milestones
          /\ metrics \in [Milestones -> Reports \cup {NoFile}]
      BY <2>2, ReportType DEF TypeOK, ScriptTypeOK
    <3>2. CASE UNCHANGED metrics
      BY <3>1, <3>2
    <3>3. CASE Writes(run[s], Measured(run[s]))
      BY <3>1, <3>3 DEF Writes
    <3>4. QED
      BY <2>2, <3>2, <3>3
  <2>7. ScriptTypeOK'
    <3>1. runners' \subseteq AllRuns
      BY <2>2 DEF TypeOK, ScriptTypeOK
    <3>2. \A x \in Sweeps : bpc'[x] # "off" => run'[x] \in AllRuns
      BY <2>3 DEF TypeOK, ScriptTypeOK
    <3>3. QED
      BY <2>2, <2>6, <3>1, <3>2 DEF ScriptTypeOK
  <2>8. QED
    BY <1>1, <2>2, <2>3, <2>4, <2>5, <2>7
<1>3. CASE \E r \in runners : RunnerLeftEnds(r, Measured(r))
  <2>1. PICK r \in runners : RunnerLeftEnds(r, Measured(r))
    BY <1>3
  <2>2. /\ runners' \subseteq runners /\ UNCHANGED <<bpc, run>>
        /\ UNCHANGED metrics \/ Writes(r, Measured(r))
    BY <2>1 DEF RunnerLeftEnds
  <2>3. r \in Alive /\ Alive' \subseteq Alive
    BY <2>2 DEF Alive
  <2>4. metrics' \in [Milestones -> Reports \cup {NoFile}]
    <3>1. /\ Measured(r) \in Reports /\ <<r.block, r.dur>> \in Milestones
          /\ metrics \in [Milestones -> Reports \cup {NoFile}]
      BY ReportType DEF TypeOK, ScriptTypeOK
    <3>2. CASE UNCHANGED metrics
      BY <3>1, <3>2
    <3>3. CASE Writes(r, Measured(r))
      BY <3>1, <3>3 DEF Writes
    <3>4. QED
      BY <2>2, <3>2, <3>3
  <2>5. ScriptTypeOK'
    BY <2>2, <2>4 DEF TypeOK, ScriptTypeOK
  <2>6. QED
    BY <1>1, <2>2, <2>3, <2>5
<1>4. CASE UNCHANGED <<bpc, run, runners, metrics>>
  <2>1. Alive' = Alive /\ ScriptTypeOK'
    BY <1>4 DEF Alive, TypeOK, ScriptTypeOK
  <2>2. QED
    BY <1>1, <1>4, <2>1
<1>5. \/ \E s \in Sweeps : Moved(s)
      \/ \E r \in runners : RunnerLeftEnds(r, Measured(r))
      \/ UNCHANGED <<bpc, run, runners, metrics>>
  <2>1. sweep \in Sweeps
    BY DEF TypeOK, SweepTypeOK
  <2>2. CASE Bench \/ Kill
    BY <2>1, <2>2 DEF Bench, Kill, Moved, scriptVars
  <2>3. CASE Straggle \/ OutOfMemory
    BY <2>3 DEF Straggle, OutOfMemory, Moved
  <2>4. CASE ReplayExits
    BY <2>4 DEF ReplayExits
  <2>5. QED
    BY <2>2, <2>3, <2>4 DEF OfScripts
<1>6. QED
  BY <1>2, <1>3, <1>4, <1>5

\* A sweep that starts a script, and all its other steps.
LEMMA SameScripts ==
    ASSUME Next, ~(OfScripts \/ Kill \/ RpcReady)
    PROVE  UNCHANGED scriptVars
<1> USE DEF GoTo
<1>1. CASE NextLine \/ PrintSummary \/ Free \/ LeaveUp
  BY <1>1 DEF NextLine, PrintSummary, Free, LeaveUp
<1>2. CASE Fetches
  BY <1>2 DEF Fetches, ReuseExtract, RemovePrevious, Fetch, FetchDone, FetchFailed,
         FetchTimeout, Skip
<1>3. CASE Points
  BY <1>3 DEF Points, PointAt, PayloadsOk, PayloadsBad, Skip
<1>4. CASE Infra
  BY <1>4 DEF Infra, Downs, Ups, StopInfra, StopForRun, TearDown, InfraDown, CleanStaleContainers,
         InfraUp, InfraUpRaw, InfraUpFails
<1>5. CASE RpcNotReady \/ Judge
  BY <1>5 DEF RpcNotReady, Judge
<1>6. CASE Next /\ ~SweepStep
  BY <1>6 DEF Next, NewSweep, OfScripts, SameSweep, Bench
<1>7. QED
  BY <1>1, <1>2, <1>3, <1>4, <1>5, <1>6
     DEF SweepStep, Fetches, Points, Infra, Downs, Ups, OfScripts

LEMMA SameAlive ==
    ASSUME UNCHANGED scriptVars
    PROVE  Alive' = Alive
BY DEF scriptVars, Alive

LEMMA Start ==
    ASSUME TypeOK, ControlInv, RpcReady
    PROVE  /\ UNCHANGED <<where, line, dur, summary, fileVars, hostVars, metrics, runners>>
           /\ pc = "rpc" /\ pc' = "bench" /\ node # Nowhere
           /\ ThisRun \in AllRuns /\ ScriptTypeOK'
           /\ bpc[sweep] = "off" /\ bpc' = [bpc EXCEPT ![sweep] = "preflight"]
           /\ run' = [run EXCEPT ![sweep] = ThisRun]
           /\ Alive' \subseteq Alive \cup {ThisRun}
<1>1. /\ UNCHANGED <<where, line, dur, summary, fileVars, hostVars, metrics, runners>>
      /\ pc = "rpc" /\ pc' = "bench" /\ node # Nowhere
      /\ bpc[sweep] = "off" /\ bpc' = [bpc EXCEPT ![sweep] = "preflight"]
      /\ run' = [run EXCEPT ![sweep] = ThisRun]
  BY DEF RpcReady, StartScript, Goes
<1>2. ThisRun \in AllRuns
  <2>1. Block \in Snapshots /\ line \in Nat
    BY <1>1, OnBlock DEF TypeOK, Idle
  <2>2. dur \in 1..Durations
    BY <1>1, SweepAssumption DEF TypeOK, SweepTypeOK, ControlInv, Runs
  <2>3. knobs.snapHead \in Nat
    BY SweepAssumption DEF TypeOK, SweepTypeOK
  <2>4. QED
    BY <2>1, <2>2, <2>3 DEF ThisRun, AllRuns, TypeOK, SweepTypeOK
<1>3. /\ bpc \in [Sweeps -> {"off", "preflight", "launch", "sanity", "runner", "exit"}]
      /\ run \in [Sweeps -> AllRuns \cup {NoRun}] /\ sweep \in Sweeps
  BY DEF TypeOK, SweepTypeOK, ScriptTypeOK
<1>4. ScriptTypeOK'
  BY <1>1, <1>2, <1>3 DEF TypeOK, ScriptTypeOK
<1>5. Alive' \subseteq Alive \cup {ThisRun}
  BY <1>1, <1>3 DEF Alive
<1>6. QED
  BY <1>1, <1>2, <1>4, <1>5

-----------------------------------------------------------------------------
(* Every sweep.                                                            *)

LEMMA SweepTypeStep ==
    ASSUME TypeOK, ControlInv, Next
    PROVE  SweepTypeOK'
<1> USE Sums DEF SweepTypeOK, Stages, Idle, Pointed
<1>0. SweepTypeOK
  BY DEF TypeOK
<1>1. CASE NextLine
  <2>1. line + 1 \in 0..Len(manifest)
    BY <1>0, <1>1, SweepAssumption DEF NextLine
  <2>2. QED
    BY <1>0, <1>1, <2>1 DEF NextLine, where, fileVars, hostVars, history
<1>2. CASE PrintSummary \/ LeaveUp
  BY <1>0, <1>2 DEF PrintSummary, LeaveUp, GoTo, where, fileVars, hostVars, history
<1>3. CASE Fetches
  <2> USE DEF GoTo, Skip, where, fileVars, hostVars, history
  <2>1. CASE ReuseExtract \/ FetchDone \/ FetchFailed \/ FetchTimeout
    BY <1>0, <2>1 DEF ReuseExtract, FetchDone, FetchFailed, FetchTimeout
  <2>2. CASE RemovePrevious
    BY <1>0, <2>2 DEF RemovePrevious, Remove
  <2>3. CASE Fetch
    <3>1. Target \in Snapshots
      BY <1>0, <2>3, OnBlock DEF Fetch, Target
    <3>2. disk' \in [Snapshots -> {"absent", "partial", "whole"}]
      BY <1>0, <2>3, <3>1 DEF Fetch
    <3>3. dl' \in Downloads /\ (dl'.block \in Snapshots \/ dl'.state = "missing")
      BY <1>0, <2>3, <3>1 DEF Fetch, NoFetch, Downloads
    <3>4. QED
      BY <1>0, <2>3, <3>2, <3>3 DEF Fetch
  <2>4. QED
    BY <1>3, <2>1, <2>2, <2>3 DEF Fetches
<1>4. CASE Points
  <2> USE DEF GoTo, Skip, where, fileVars, hostVars, history
  <2>1. CASE PointAt
    <3>1. Target \in Snapshots
      BY <1>0, <2>1, OnBlock DEF PointAt, Target
    <3>2. QED
      BY <1>0, <2>1, <3>1 DEF PointAt
  <2>2. CASE PayloadsOk
    <3>1. manifest[line].payloads \in Nat
      BY <1>0, <2>2, OnBlock DEF PayloadsOk
    <3>2. QED
      BY <1>0, <2>2, <3>1 DEF PayloadsOk
  <2>3. CASE PayloadsBad
    BY <1>0, <2>3 DEF PayloadsBad
  <2>4. QED
    BY <1>4, <2>1, <2>2, <2>3 DEF Points
<1>5. CASE Downs \/ CleanStaleContainers
  BY <1>0, <1>5 DEF Downs, StopInfra, StopForRun, TearDown, InfraDown, CleanStaleContainers,
         GoTo, where, fileVars, hostVars, history
<1>6. CASE Ups
  <2> USE DEF GoTo, where, fileVars, hostVars, history
  <2>1. CASE InfraUp \/ InfraUpFails
    BY <1>0, <2>1 DEF InfraUp, InfraUpFails
  <2>2. CASE InfraUpRaw
    BY <1>0, <2>2 DEF InfraUpRaw
  <2>3. QED
    BY <1>6, <2>1, <2>2 DEF Ups
<1>7. CASE RpcReady
  BY <1>0, <1>7, Start DEF where, fileVars, hostVars, history
<1>8. CASE RpcNotReady \/ Judge
  BY <1>0, <1>8 DEF RpcNotReady, Judge, NextDuration, where, fileVars, hostVars, history
<1>9. CASE Free
  BY <1>0, <1>9 DEF Free, Remove, GoTo, where, fileVars, hostVars, history
<1>10. CASE OfDownload
  <2> USE DEF where, scriptVars, OfDownload
  <2>1. CASE DlWipes \/ DlEnds
    <3>1. disk' \in [Snapshots -> {"absent", "partial", "whole"}]
      BY <1>0, <2>1 DEF DlWipes, DlEnds
    <3>2. dl' \in Downloads /\ dl'.block = dl.block /\ dl.state # "missing"
      BY <1>0, <2>1 DEF DlWipes, DlEnds, Downloads
    <3>3. QED
      BY <1>0, <1>10, <3>1, <3>2
  <2>2. CASE DlFails
    <3>1. dl' \in Downloads /\ dl'.block = dl.block /\ dl.state # "missing"
      BY <1>0, <2>2 DEF DlFails, Downloads
    <3>2. QED
      BY <1>0, <1>10, <2>2, <3>1 DEF DlFails
  <2>3. QED
    BY <1>10, <2>1, <2>2 DEF Download
<1>11. CASE OfScripts \/ Kill
  BY <1>0, <1>11, Scripts DEF where, fileVars, hostVars, history
<1>12. CASE NewSweep
  <2>1. sweep' \in Sweeps
    BY <1>0, <1>12, SweepAssumption DEF NewSweep, Sweeps
  <2>2. QED
    BY <1>0, <1>12, <2>1 DEF NewSweep, fileVars, hostVars, history
<1>13. QED
  BY <1>1, <1>2, <1>3, <1>4, <1>5, <1>6, <1>7, <1>8, <1>9, <1>10, <1>11, <1>12
     DEF Next, SweepStep, Fetches, Points, Downs, Ups, OfScripts, OfDownload, SameSweep, Download

LEMMA TypeStep ==
    ASSUME TypeOK, ControlInv, Next
    PROVE  TypeOK'
<1>1. SweepTypeOK'
  BY SweepTypeStep
<1>2. CASE OfScripts \/ Kill \/ RpcReady
  BY <1>1, <1>2, Scripts, Start DEF TypeOK
<1>3. CASE ~(OfScripts \/ Kill \/ RpcReady)
  <2>1. UNCHANGED scriptVars
    BY <1>3, SameScripts
  <2>2. QED
    BY <1>1, <2>1 DEF TypeOK, ScriptTypeOK, scriptVars
<1>4. QED
  BY <1>2, <1>3

\* Where a sweep goes on to, and that it keeps the scripts out.
LEMMA ControlStep ==
    ASSUME TypeOK, ControlInv, Next
    PROVE  ControlInv'
<1> USE Sums DEF ControlInv, Idle, Pointed, Runs
<1>0. sweep \in Sweeps /\ (bpc \in [Sweeps -> {"off", "preflight", "launch", "sanity", "runner", "exit"}])
  BY DEF TypeOK, SweepTypeOK, ScriptTypeOK
<1>1. CASE NextLine
  <2>1. CASE manifest[line + 1].block = Nowhere
    BY <1>1, <2>1 DEF NextLine, scriptVars, where
  <2>2. CASE manifest[line + 1].block # Nowhere
    <3>1. line + 1 \in 1..Len(manifest) /\ line + 1 # 0
      BY <1>1, SweepAssumption DEF NextLine, TypeOK, SweepTypeOK
    <3>2. manifest \in Seq([block : Snapshots \cup {Nowhere}, payloads : Nat])
      BY SweepAssumption DEF TypeOK, SweepTypeOK
    <3>3. manifest[line + 1] \in [block : Snapshots \cup {Nowhere}, payloads : Nat]
      BY <3>1, <3>2, Element
    <3>4. manifest[line + 1].block \in Snapshots
      BY <2>2, <3>3
    <3>5. Block' = manifest[line + 1].block
      BY <1>1 DEF NextLine, Block, where
    <3>6. QED
      BY <1>1, <2>2, <3>1, <3>4, <3>5 DEF NextLine, scriptVars, where
  <2>3. QED
    BY <2>1, <2>2
<1>2. CASE PrintSummary \/ LeaveUp \/ Judge \/ RpcNotReady \/ Free \/ Fetches
  <2> USE SameBlock DEF GoTo, Skip, NextDuration, where, fileVars, hostVars, scriptVars
  <2>1. CASE PrintSummary \/ LeaveUp
    BY <2>1 DEF PrintSummary, LeaveUp
  <2>2. CASE Judge \/ RpcNotReady
    <3>1. dur \in 0..Durations
      BY DEF TypeOK, SweepTypeOK
    <3>2. (pc' = "run" /\ dur' # 0) \/ pc' = "end"
      BY <2>2, <3>1 DEF Judge, RpcNotReady
    <3>3. pc \in {"rpc", "bench"} /\ UNCHANGED <<line, manifest, config, sweep, bpc>>
          /\ bpc[sweep] = "off"
      BY <2>2 DEF Judge, RpcNotReady
    <3>4. QED
      BY <3>2, <3>3
  <2>3. CASE Free
    BY <2>3 DEF Free
  <2>4. CASE Fetches
    BY <2>4 DEF Fetches, ReuseExtract, RemovePrevious, Fetch, FetchDone, FetchFailed, FetchTimeout
  <2>5. QED
    BY <1>2, <2>1, <2>2, <2>3, <2>4
<1>3. CASE Points
  BY <1>3, SameBlock DEF Points, PointAt, PayloadsOk, PayloadsBad, Target, Skip,
         GoTo, where, fileVars, hostVars, scriptVars
<1>4. CASE Infra
  <2> USE SameBlock DEF GoTo, where, fileVars, hostVars, scriptVars
  <2>1. CASE Downs
    BY <2>1 DEF Downs, StopInfra, StopForRun, TearDown, InfraDown
  <2>2. CASE CleanStaleContainers \/ Ups
    BY <2>2 DEF CleanStaleContainers, Ups, InfraUp, InfraUpRaw, InfraUpFails
  <2>3. QED
    BY <1>4, <2>1, <2>2 DEF Infra
<1>5. CASE RpcReady
  <2>1. \A s \in Sweeps : s > sweep => bpc'[s] = bpc[s]
    <3>1. bpc' = [bpc EXCEPT ![sweep] = "preflight"]
      BY <1>5, Start
    <3>2. \A s \in Sweeps : s > sweep => s # sweep
      BY <1>0, SweepAssumption DEF Sweeps
    <3>3. QED
      BY <1>0, <3>1, <3>2
  <2>2. Block' = Block
    BY <1>5, SameBlock, Start DEF where
  <2>3. pc = "rpc" /\ pc' = "bench" /\ UNCHANGED <<line, dur, config, sweep>>
    BY <1>5, Start DEF where, fileVars
  <2>4. QED
    BY <2>1, <2>2, <2>3
<1>6. CASE OfScripts \/ Kill
  <2>1. /\ UNCHANGED <<sweep, manifest, line, dur, config>> /\ pc' \in {pc, "dead"}
        /\ \A s \in Sweeps : bpc'[s] # "off" => bpc[s] # "off"
    BY <1>6, Scripts DEF where, fileVars
  <2>2. bpc'[sweep] # "off" => pc' \in {"bench", "dead"}
    BY <1>0, <2>1
  <2>3. QED
    BY <2>1, <2>2, SameBlock
<1>7. CASE OfDownload
  BY <1>7, SameBlock DEF OfDownload, where, scriptVars
<1>8. CASE NewSweep
  <2>1. sweep' = sweep + 1 /\ UNCHANGED bpc /\ pc' = "line"
    BY <1>8 DEF NewSweep, scriptVars
  <2>2. sweep' \in Sweeps /\ sweep \in Nat /\ Sweeps \subseteq Nat
    BY <1>0, <1>8, SweepAssumption DEF NewSweep, Sweeps
  <2>3. \A s \in Sweeps : s > sweep' => s > sweep
    BY <2>1, <2>2
  <2>4. sweep' > sweep
    BY <2>1, <2>2
  <2>5. QED
    BY <2>1, <2>2, <2>3, <2>4
<1>9. QED
  BY <1>1, <1>2, <1>3, <1>4, <1>5, <1>6, <1>7, <1>8
     DEF Next, SweepStep, Fetches, Points, Infra, Downs, Ups, Download, OfScripts, OfDownload, SameSweep

\* What was looked away from is not made good again.
LEMMA Histories ==
    ASSUME Next
    PROVE  (early => early') /\ (swallowed => swallowed') /\ (crossed => crossed')
<1> USE DEF hostVars, history, GoTo, Skip
<1>1. CASE NextLine \/ PrintSummary \/ LeaveUp \/ Free
  BY <1>1 DEF NextLine, PrintSummary, LeaveUp, Free
<1>2. CASE Fetches
  <2>1. CASE ReuseExtract
    <3>1. (early => early') /\ UNCHANGED <<swallowed, crossed>>
      BY <2>1 DEF ReuseExtract
    <3>2. QED
      BY <3>1
  <2>2. CASE Fetch
    <3>1. UNCHANGED <<early, crossed>> /\ (swallowed' = TRUE \/ UNCHANGED swallowed)
      BY <2>2 DEF Fetch
    <3>2. QED
      BY <3>1
  <2>3. CASE RemovePrevious \/ FetchDone \/ FetchFailed \/ FetchTimeout
    BY <2>3 DEF RemovePrevious, FetchDone, FetchFailed, FetchTimeout
  <2>4. QED
    BY <1>2, <2>1, <2>2, <2>3 DEF Fetches
<1>3. CASE Points
  BY <1>3 DEF Points, PointAt, PayloadsOk, PayloadsBad
<1>4. CASE Downs
  <2>1. (crossed => crossed') /\ UNCHANGED <<early, swallowed>>
    BY <1>4 DEF Downs, StopInfra, StopForRun, TearDown, InfraDown
  <2>2. QED
    BY <2>1
<1>5. CASE CleanStaleContainers \/ Ups
  <2>1. UNCHANGED <<early, crossed>> /\ (swallowed' = TRUE \/ UNCHANGED swallowed)
    BY <1>5 DEF CleanStaleContainers, Ups, InfraUp, InfraUpRaw, InfraUpFails
  <2>2. QED
    BY <2>1
<1>6. CASE RpcReady \/ RpcNotReady \/ Judge \/ OfScripts \/ Kill \/ NewSweep \/ OfDownload
  <2>1. UNCHANGED <<early, swallowed, crossed>>
    BY <1>6 DEF RpcReady, RpcNotReady, Judge, OfScripts, Bench, Straggle, OutOfMemory, SameSweep, Kill,
           NewSweep, OfDownload
  <2>2. QED
    BY <2>1
<1>7. QED
  BY <1>1, <1>2, <1>3, <1>4, <1>5, <1>6
     DEF Next, SweepStep, Fetches, Points, Downs, Ups, Download, OfScripts, OfDownload, SameSweep

LEMMA Downloading ==
    ASSUME TypeOK, OfDownload
    PROVE  /\ UNCHANGED <<manifest, sweep, pc, line, config, mockClPayloads, node, fresh,
                          early, swallowed, crossed, knobs>>
           /\ dl.block \in Snapshots /\ dl'.block = dl.block
           /\ dl'.state \in {"extracting", "exited_0", "exited_1"}
           /\ \A s \in Snapshots : s # dl.block => disk'[s] = disk[s]
           /\ disk'[dl.block] = "absent" <=> disk[dl.block] = "absent"
           /\ \A s : Fetching(s)' => Fetching(s)
<1> USE DEF Downloads, TypeOK, SweepTypeOK, Fetching
<1>1. UNCHANGED <<manifest, sweep, pc, line, config, mockClPayloads, node, fresh,
                  early, swallowed, crossed, knobs>>
  BY DEF OfDownload, where
<1>2. dl.block \in Snapshots /\ dl'.block = dl.block /\ dl.state \in {"started", "extracting"}
      /\ dl'.state \in {"extracting", "exited_0", "exited_1"}
  BY DEF OfDownload, Download, DlWipes, DlEnds, DlFails
<1>3. /\ \A s \in Snapshots : s # dl.block => disk'[s] = disk[s]
      /\ disk'[dl.block] = "absent" <=> disk[dl.block] = "absent"
  BY <1>2 DEF OfDownload, Download, DlWipes, DlEnds, DlFails
<1>4. QED
  BY <1>1, <1>2, <1>3

LEMMA NodeStep ==
    ASSUME TypeOK, ControlInv, ~swallowed => NodeInv, Next, ~swallowed'
    PROVE  NodeInv'
<1> USE DEF NodeInv
<1>1. ~swallowed
  BY Histories
<1>2. CASE NextLine \/ PrintSummary \/ LeaveUp \/ Free \/ Fetches \/ Points
  BY <1>2 DEF NextLine, PrintSummary, LeaveUp, Free, Fetches, ReuseExtract, RemovePrevious, Fetch,
         FetchDone, FetchFailed, FetchTimeout, Points, PointAt, PayloadsOk, PayloadsBad, GoTo, Skip
<1>3. CASE Downs
  BY <1>3 DEF Downs, StopInfra, StopForRun, TearDown, InfraDown, GoTo
<1>4. CASE CleanStaleContainers
  BY <1>4 DEF CleanStaleContainers, GoTo
<1>5. CASE Ups
  <2>1. pc = "up" /\ pc' = "rpc" /\ node = Nowhere
    BY <1>1, <1>5 DEF Ups, InfraUp, InfraUpRaw, InfraUpFails, GoTo
  <2>2. CASE InfraUp
    BY <2>1, <2>2 DEF InfraUp, fileVars
  <2>3. CASE InfraUpFails
    BY <2>1, <2>3 DEF InfraUpFails, hostVars
  <2>4. QED
    BY <1>5, <2>2, <2>3 DEF Ups, InfraUpRaw
<1>6. CASE RpcReady
  BY <1>1, <1>6, Start DEF hostVars, fileVars
<1>7. CASE RpcNotReady \/ Judge
  BY <1>7 DEF RpcNotReady, Judge, NextDuration
<1>8. CASE OfScripts \/ Kill
  BY <1>1, <1>8, Scripts DEF hostVars, fileVars
<1>9. CASE OfDownload
  <2>1. pc \in {"rpc", "bench"} => config \in Snapshots
    BY DEF ControlInv, Idle, Pointed
  <2>2. pc \in {"rpc", "bench"} => (disk'[config] = "absent" <=> disk[config] = "absent")
    BY <1>9, <2>1, Downloading
  <2>3. QED
    BY <1>1, <1>9, <2>2, Downloading
<1>10. CASE NewSweep
  BY <1>10 DEF NewSweep
<1>11. QED
  BY <1>2, <1>3, <1>4, <1>5, <1>6, <1>7, <1>8, <1>9, <1>10
     DEF Next, SweepStep, Fetches, Points, Downs, Ups, Download, OfScripts, OfDownload, SameSweep

LEMMA FetchStep ==
    ASSUME TypeOK, ControlInv, ~early => FetchInv, Next, ~early'
    PROVE  FetchInv'
<1> USE DEF FetchInv, Pointed
<1>1. ~early
  BY Histories
<1>2. CASE NextLine \/ PrintSummary \/ LeaveUp \/ Free \/ FetchFailed \/ FetchTimeout
           \/ RemovePrevious \/ Fetch \/ NewSweep
  BY <1>2 DEF NextLine, PrintSummary, LeaveUp, Free, FetchFailed, FetchTimeout, RemovePrevious,
         Fetch, NewSweep, GoTo, Skip
<1>3. CASE ReuseExtract
  <2>1. Block' = Block /\ UNCHANGED dl /\ ~Fetching(Block)
    BY <1>3, SameBlock DEF ReuseExtract, GoTo, where, Target
  <2>2. QED
    BY <2>1 DEF Fetching
<1>4. CASE FetchDone
  <2>1. UNCHANGED dl /\ dl.state = "exited_0"
    BY <1>4 DEF FetchDone, hostVars
  <2>2. QED
    BY <2>1 DEF Fetching
<1>5. CASE Points \/ Infra \/ RpcReady \/ RpcNotReady \/ Judge \/ OfScripts \/ Kill
  <2>1. Block' = Block /\ UNCHANGED dl
    <3>1. CASE OfScripts \/ Kill \/ RpcReady
      BY <3>1, Scripts, Start, SameBlock DEF where, hostVars
    <3>2. CASE Points \/ Infra \/ RpcNotReady \/ Judge
      BY <3>2, SameBlock DEF Points, PointAt, PayloadsOk, PayloadsBad, Infra, Downs, StopInfra,
             StopForRun, TearDown, InfraDown, CleanStaleContainers, Ups, InfraUp, InfraUpRaw,
             InfraUpFails, RpcNotReady, Judge, NextDuration, GoTo, Skip, where, hostVars
    <3>3. QED
      BY <1>5, <3>1, <3>2
  <2>2. pc \in Pointed \cup {"point"} \/ pc' \notin Pointed \cup {"point"}
    <3>1. CASE OfScripts \/ Kill \/ RpcReady
      BY <3>1, Scripts, Start
    <3>2. CASE Points \/ Infra \/ RpcNotReady \/ Judge
      BY <3>2 DEF Points, PointAt, PayloadsOk, PayloadsBad, Infra, Downs, StopInfra, StopForRun,
             TearDown, InfraDown, CleanStaleContainers, Ups, InfraUp, InfraUpRaw, InfraUpFails,
             RpcNotReady, Judge, GoTo, Skip
    <3>3. QED
      BY <1>5, <3>1, <3>2
  <2>3. QED
    BY <1>1, <2>1, <2>2 DEF Fetching
<1>6. CASE OfDownload
  BY <1>1, <1>6, Downloading, SameBlock
<1>7. QED
  BY <1>2, <1>3, <1>4, <1>5, <1>6
     DEF Next, SweepStep, Fetches, Points, Infra, Downs, Ups, Download, OfScripts, OfDownload, SameSweep

\* The steps along a line that leave disk and download as they are.
LEMMA Steady ==
    ASSUME TypeOK, ControlInv,
           Points \/ (Infra /\ ~InfraUpRaw) \/ RpcReady \/ RpcNotReady \/ Judge \/ OfScripts \/ Kill
    PROVE  /\ Block' = Block /\ UNCHANGED <<disk, dl>>
           /\ pc' = pc \/ pc' \notin {"poll", "point"}
           /\ pc \in Pointed \cup {"point"} \/ pc' \notin Pointed \cup {"point"}
<1> USE DEF Pointed
<1>1. CASE OfScripts \/ Kill
  BY <1>1, Scripts, SameBlock DEF where, hostVars, fileVars
<1>2. CASE RpcReady
  BY <1>2, Start, SameBlock DEF where, hostVars, fileVars
<1>3. CASE Points
  BY <1>3, SameBlock DEF Points, PointAt, PayloadsOk, PayloadsBad, GoTo, Skip, where, hostVars, fileVars
<1>4. CASE Infra /\ ~InfraUpRaw
  BY <1>4, SameBlock DEF Infra, Downs, StopInfra, StopForRun, TearDown, InfraDown,
         CleanStaleContainers, Ups, InfraUp, InfraUpFails, GoTo, where, hostVars, fileVars
<1>5. CASE RpcNotReady \/ Judge
  BY <1>5, SameBlock DEF RpcNotReady, Judge, NextDuration, where, hostVars, fileVars
<1>6. QED
  BY <1>1, <1>2, <1>3, <1>4, <1>5

LEMMA ExtractStep ==
    ASSUME TypeOK, ControlInv, ~early => FetchInv, ~early /\ ~swallowed => ExtractInv, Next,
           ~early', ~swallowed'
    PROVE  ExtractInv'
<1> USE DEF ExtractInv, Pointed
<1>1. ~early /\ ~swallowed
  BY Histories
<1>2. CASE NextLine \/ PrintSummary \/ LeaveUp \/ FetchFailed \/ FetchTimeout \/ NewSweep
  BY <1>1, <1>2 DEF NextLine, PrintSummary, LeaveUp, FetchFailed, FetchTimeout, NewSweep, Skip, GoTo,
         fileVars, hostVars
<1>3. CASE ReuseExtract
  <2>1. Block' = Block /\ UNCHANGED <<disk, dl>> /\ pc' = "point" /\ disk[Block] = "whole"
    BY <1>3, SameBlock DEF ReuseExtract, GoTo, where, fileVars, Target
  <2>2. QED
    BY <1>1, <2>1
<1>4. CASE FetchDone
  <2>1. Block' = Block /\ UNCHANGED <<disk, dl>> /\ pc' = "point" /\ pc = "poll" /\ dl.state = "exited_0"
    BY <1>4, SameBlock DEF FetchDone, GoTo, where, fileVars, hostVars
  <2>2. QED
    BY <1>1, <2>1
<1>5. CASE RemovePrevious \/ Free
  <2>1. UNCHANGED dl /\ pc' \in {"fetch", "line"}
    BY <1>5 DEF RemovePrevious, Free, GoTo
  <2>2. \A s \in Snapshots : disk'[s] \in {disk[s], "absent"}
    BY <1>5 DEF RemovePrevious, Free, Remove, TypeOK, SweepTypeOK
  <2>3. dl.state = "extracting" => dl.block \in Snapshots
    BY DEF TypeOK, SweepTypeOK
  <2>4. QED
    BY <1>1, <2>1, <2>2, <2>3
<1>6. CASE Fetch
  <2>1. Block \in Snapshots /\ Target = Block /\ disk[Block] \in {"absent", "partial", "whole"}
        /\ disk \in [Snapshots -> {"absent", "partial", "whole"}]
    BY <1>6, OnBlock DEF TypeOK, SweepTypeOK, Fetch, Idle, Target
  <2>2. Block' = Block /\ pc' = "poll"
    BY <1>6, SameBlock DEF Fetch, GoTo, where
  <2>3. CASE UNCHANGED <<dl, disk>> /\ disk[Block] = "absent"
    BY <1>1, <2>2, <2>3
  <2>4. CASE dl' \in {NoFetch, [block |-> Block, state |-> "started"]}
    <3>1. dl'.state = "missing" \/ (dl'.block = Block /\ dl'.state = "started")
      BY <2>4 DEF NoFetch
    <3>2. QED
      BY <2>2, <3>1
  <2>5. QED
    BY <1>6, <2>1, <2>3, <2>4 DEF Fetch
<1>7. CASE Points \/ Infra \/ RpcReady \/ RpcNotReady \/ Judge \/ OfScripts \/ Kill
  <2>1. ~InfraUpRaw
    BY DEF InfraUpRaw
  <2>2. QED
    BY <1>1, <1>7, <2>1, Steady
<1>8. CASE OfDownload
  <2>1. Block' = Block /\ pc' = pc
    BY <1>8, Downloading, SameBlock
  <2>2. /\ dl.block \in Snapshots /\ dl'.block = dl.block
        /\ \A s \in Snapshots : s # dl.block => disk'[s] = disk[s]
        /\ disk'[dl.block] = "absent" <=> disk[dl.block] = "absent"
        /\ dl.state # "missing"
    BY <1>8, Downloading DEF OfDownload, Download, DlWipes, DlEnds, DlFails
  <2>3. /\ dl'.state \in {"extracting", "exited_0", "exited_1"}
        /\ dl'.state = "extracting" => disk'[dl.block] # "whole"
        /\ dl'.state = "exited_0" => disk'[dl.block] \in {"whole", "absent"}
    BY <1>1, <1>8, <2>2 DEF OfDownload, Download, DlWipes, DlEnds, DlFails, TypeOK, SweepTypeOK, Downloads
  <2>4. pc \notin Idle => Block \in Snapshots
    BY DEF ControlInv
  <2>5. pc \in Pointed \cup {"point"} => Block # dl.block
    <3>1. Fetching(dl.block)
      BY <1>8 DEF Fetching, OfDownload, Download, DlWipes, DlEnds, DlFails
    <3>2. QED
      BY <1>1, <3>1 DEF FetchInv
  <2>6. CASE pc = "poll"
    BY <1>1, <2>1, <2>2, <2>3, <2>4, <2>6 DEF Idle
  <2>7. CASE pc # "poll"
    BY <1>1, <2>1, <2>2, <2>3, <2>4, <2>5, <2>7 DEF Idle
  <2>8. QED
    BY <2>6, <2>7
<1>9. QED
  BY <1>2, <1>3, <1>4, <1>5, <1>6, <1>7, <1>8
     DEF Next, SweepStep, Fetches, Points, Infra, Downs, Ups, Download, OfScripts, OfDownload, SameSweep

LEMMA DownStep ==
    ASSUME TypeOK, ControlInv, ~early => FetchInv, DownInv, ~Fault("stuck"), Next
    PROVE  DownInv'
<1> USE DEF DownInv
<1>0. (early => early') /\ (dl.state = "started" => dl.block # Nowhere)
  BY Histories, Sums DEF TypeOK, SweepTypeOK
<1>1. CASE NextLine \/ PrintSummary \/ LeaveUp \/ FetchFailed \/ FetchTimeout
  BY <1>1 DEF NextLine, PrintSummary, LeaveUp, FetchFailed, FetchTimeout, Skip, GoTo, hostVars, history
<1>2. CASE ReuseExtract
  <2>1. /\ UNCHANGED <<node, pulled, dl>> /\ pc = "extract"
    BY <1>2 DEF ReuseExtract, fileVars
  <2>2. QED
    BY <1>0, <1>2, <2>1
<1>3. CASE FetchDone \/ Points
  <2>1. UNCHANGED <<node, pulled, dl, early>>
    BY <1>3 DEF FetchDone, Points, PointAt, PayloadsOk, PayloadsBad, hostVars, history
  <2>2. node = Nowhere
    BY <1>3 DEF FetchDone, Points, PointAt, PayloadsOk, PayloadsBad
  <2>3. QED
    BY <2>1, <2>2
<1>4. CASE RemovePrevious \/ Free
  <2>1. UNCHANGED <<node, dl, early>> /\ node = Nowhere
    BY <1>4 DEF RemovePrevious, Free
  <2>2. pulled' => pulled
    BY <1>4, <2>1 DEF RemovePrevious, Free, Remove
  <2>3. QED
    BY <2>1, <2>2
<1>5. CASE Fetch
  <2>1. node = Nowhere /\ UNCHANGED <<node, pulled, early>>
    BY <1>5 DEF Fetch
  <2>2. Target # Nowhere
    BY <1>5, OnBlock DEF Fetch, Target, Idle, TypeOK
  <2>3. dl'.state = "started" => dl'.block # Nowhere
    BY <1>0, <1>5, <2>2 DEF Fetch, NoFetch
  <2>4. QED
    BY <2>1, <2>3
<1>6. CASE Downs \/ CleanStaleContainers
  <2>1. UNCHANGED <<pulled, dl, early>> /\ node' = Nowhere
    BY <1>6 DEF Downs, StopInfra, StopForRun, TearDown, CleanStaleContainers, InfraDown
  <2>2. QED
    BY <1>0, <2>1
<1>7. CASE Ups
  <2>1. UNCHANGED <<pulled, dl, early>> /\ node' \in {Nowhere, Block} /\ pc' = "rpc"
    BY <1>7 DEF Ups, InfraUp, InfraUpRaw, InfraUpFails, ControlInv, Pointed, GoTo, hostVars, history
  <2>2. ~early /\ dl.state = "started" => dl.block # Block
    BY <1>7 DEF Ups, InfraUp, InfraUpRaw, InfraUpFails, FetchInv, Pointed, Fetching
  <2>3. QED
    BY <1>0, <2>1, <2>2
<1>8. CASE RpcReady \/ OfScripts \/ Kill
  <2>1. UNCHANGED <<node, pulled, dl, early>>
    BY <1>8, Start, Scripts DEF hostVars, history
  <2>2. pc' \in {pc, "bench", "dead"}
    BY <1>8, Start, Scripts
  <2>3. QED
    BY <2>1, <2>2
<1>9. CASE RpcNotReady \/ Judge
  <2>1. UNCHANGED <<node, pulled, dl, early>> /\ pc' \in {"run", "end"}
    BY <1>9 DEF RpcNotReady, Judge, NextDuration, hostVars, history
  <2>2. QED
    BY <2>1
<1>10. CASE OfDownload
  <2>1. ~early => ~pulled'
    BY <1>10 DEF OfDownload, Download, DlWipes, DlEnds, DlFails
  <2>2. QED
    BY <1>10, <2>1, Downloading
<1>11. CASE NewSweep
  BY <1>11 DEF NewSweep, hostVars, history
<1>12. QED
  BY <1>1, <1>2, <1>3, <1>4, <1>5, <1>6, <1>7, <1>8, <1>9, <1>10, <1>11
     DEF Next, SweepStep, Points, Downs, Ups, Download, OfScripts, OfDownload, SameSweep

\* What one script does to the replays: it adds its own, and does not leave
\* that behind.
LEMMA OwnReplay ==
    ASSUME TypeOK, ReplayInv, NEW s \in Sweeps, ScriptRuns(s) \/ Signalled(s) \/ ScriptKilled(s)
    PROVE  /\ replays' \ killed' \subseteq (replays \ killed) \cup {run[s]}
           /\ bpc'[s] \in {"off", "preflight", "launch"} => run[s] \notin replays' \ killed'
<1> USE DEF Goes, Ends
<1>1. /\ bpc \in [Sweeps -> {"off", "preflight", "launch", "sanity", "runner", "exit"}]
      /\ bpc[s] \in {"preflight", "launch"} => run[s] \notin replays \ killed
  BY DEF TypeOK, ScriptTypeOK, ReplayInv
<1>2. CASE ScriptRuns(s)
  BY <1>1, <1>2 DEF ScriptRuns, ScriptStep, Preflight, PreflightFails, LaunchReplay, SanityOk,
         SanityFails, RunnerFails, CleanupReplay, RunnerEnds
<1>3. CASE Signalled(s)
  BY <1>1, <1>3 DEF Signalled
<1>4. CASE ScriptKilled(s)
  BY <1>1, <1>4 DEF ScriptKilled
<1>5. QED
  BY <1>2, <1>3, <1>4

LEMMA ReplayStep ==
    ASSUME TypeOK, ControlInv, ReplayInv, Next
    PROVE  ReplayInv'
<1> USE DEF ReplayInv, NoStrayReplay
<1> DEFINE Moved(s) == ScriptRuns(s) \/ Signalled(s) \/ ScriptKilled(s)
<1>1. CASE \E s \in Sweeps : Moved(s)
  <2>1. PICK s \in Sweeps : Moved(s)
    BY <1>1
  <2> HIDE DEF Moved
  <2>2. /\ bpc[s] # "off"
        /\ \A x \in Sweeps : x # s => bpc'[x] = bpc[x] /\ run'[x] = run[x]
        /\ bpc'[s] # "off" => run'[s] = run[s]
    BY <2>1, ScriptEffect DEF Moved
  <2>3. /\ replays' \ killed' \subseteq (replays \ killed) \cup {run[s]}
        /\ bpc'[s] \in {"off", "preflight", "launch"} => run[s] \notin replays' \ killed'
    BY <2>1, OwnReplay DEF Moved
  <2>4. \A x \in Sweeps : x # s /\ bpc[x] # "off" => run[x] # run[s]
    BY <2>2
  <2>5. NoStrayReplay'
    <3>1. SUFFICES ASSUME NEW r \in replays' \ killed'
                   PROVE  \E x \in Sweeps : bpc'[x] # "off" /\ r = run'[x]
      OBVIOUS
    <3>2. CASE r = run[s]
      BY <2>2, <2>3, <3>2
    <3>3. CASE r # run[s]
      <4>1. PICK x \in Sweeps : bpc[x] # "off" /\ r = run[x]
        BY <2>3, <3>3
      <4>2. x # s
        BY <3>3, <4>1
      <4>3. QED
        BY <2>2, <4>1, <4>2
    <3>4. QED
      BY <3>2, <3>3
  <2>6. \A x \in Sweeps : bpc'[x] # "off" => run'[x].sweep = x
    BY <2>2
  <2>7. \A x \in Sweeps : bpc'[x] \in {"preflight", "launch"} => run'[x] \notin replays' \ killed'
    BY <2>2, <2>3, <2>4
  <2>8. QED
    BY <2>5, <2>6, <2>7
<1>2. CASE UNCHANGED <<bpc, run, killed>> /\ replays' \subseteq replays
  BY <1>2
<1>3. CASE RpcReady
  <2>1. UNCHANGED <<replays, killed>>
    BY <1>3 DEF RpcReady, StartScript
  <2>2. /\ bpc[sweep] = "off" /\ bpc' = [bpc EXCEPT ![sweep] = "preflight"]
        /\ run' = [run EXCEPT ![sweep] = ThisRun]
        /\ bpc \in [Sweeps -> {"off", "preflight", "launch", "sanity", "runner", "exit"}]
        /\ run \in [Sweeps -> AllRuns \cup {NoRun}] /\ sweep \in Sweeps
        /\ ThisRun.sweep = sweep
    BY <1>3, Start DEF TypeOK, SweepTypeOK, ScriptTypeOK, ThisRun
  <2>3. \A x \in Sweeps : x # sweep => bpc'[x] = bpc[x] /\ run'[x] = run[x]
    BY <2>2
  <2>4. bpc'[sweep] = "preflight" /\ run'[sweep] = ThisRun
    BY <2>2
  <2>5. ThisRun \notin replays \ killed
    <3>1. ASSUME ThisRun \in replays \ killed PROVE FALSE
      <4>1. PICK x \in Sweeps : bpc[x] # "off" /\ ThisRun = run[x]
        BY <3>1
      <4>2. x = sweep
        BY <2>2, <4>1
      <4>3. QED
        BY <2>2, <4>1, <4>2
    <3>2. QED
      BY <3>1
  <2>6. \A x \in Sweeps : bpc[x] # "off" => bpc'[x] # "off" /\ run'[x] = run[x]
    BY <2>2, <2>3
  <2>7. NoStrayReplay'
    BY <2>1, <2>6
  <2>8. QED
    BY <2>1, <2>2, <2>3, <2>4, <2>5, <2>7
<1>4. CASE UNCHANGED scriptVars
  BY <1>4 DEF scriptVars
<1>5. QED
  <2>1. sweep \in Sweeps
    BY DEF TypeOK, SweepTypeOK
  <2>2. CASE Bench \/ Kill
    BY <1>1, <1>4, <2>1, <2>2 DEF Bench, Kill
  <2>3. CASE OutOfMemory
    BY <1>1, <2>3 DEF OutOfMemory
  <2>4. CASE Straggle
    BY <1>1, <1>2, <2>4 DEF Straggle, RunnerLeftEnds
  <2>5. CASE ReplayExits
    BY <1>2, <2>5 DEF ReplayExits
  <2>6. QED
    BY <1>3, <1>4, <2>2, <2>3, <2>4, <2>5, SameScripts DEF OfScripts

LEMMA NobodyLeft ==
    ASSUME TypeOK, ControlInv, pc \notin {"bench", "dead"}, ~Straggling
    PROVE  Alive = {}
<1>1. \A s \in Sweeps : bpc[s] = "off"
  <2>1. \A s \in Sweeps : s < sweep \/ s = sweep \/ s > sweep
    BY SweepAssumption DEF TypeOK, SweepTypeOK, Sweeps
  <2>2. QED
    BY <2>1 DEF ControlInv, Straggling, Left
<1>2. QED
  BY <1>1 DEF Alive, Straggling

LEMMA AliveStep ==
    ASSUME TypeOK, ControlInv, ~swallowed => NodeInv, ~early => FetchInv,
           ~early /\ ~swallowed => ExtractInv, ~swallowed /\ ~crossed => AliveInv, Next,
           ~swallowed', ~crossed'
    PROVE  AliveInv'
<1> USE DEF AliveInv
<1>1. ~swallowed /\ ~crossed /\ (early => early')
  BY Histories
<1>2. AliveInv
  BY <1>1
<1>3. \A r \in Alive : r.block \in Snapshots
  BY DEF TypeOK, ScriptTypeOK, Alive, AllRuns
<1>4. CASE UNCHANGED <<node, fresh, disk, dl>> /\ Alive' \subseteq Alive
           /\ (pc \in Resting => pc' \in Resting)
  <2>1. \A r : Fetching(r.block)' <=> Fetching(r.block)
    BY <1>4 DEF Fetching
  <2>2. QED
    BY <1>1, <1>2, <1>4, <2>1
<1>5. CASE OfScripts \/ Kill
  BY <1>4, <1>5, Scripts DEF Resting, Idle, hostVars, fileVars
<1>6. CASE RpcReady
  <2>1. Alive = {} /\ Alive' \subseteq {ThisRun} /\ ThisRun.block = Block
    BY <1>2, <1>6, Start DEF Resting, Idle, ThisRun
  <2>2. UNCHANGED <<node, fresh, disk, dl, early>> /\ pc = "rpc" /\ pc' = "bench"
    BY <1>6, Start DEF hostVars, fileVars, history
  <2>3. node = Block /\ fresh /\ disk[Block] # "absent"
    BY <1>1, <1>6, <2>2, Start DEF NodeInv, ControlInv, Pointed
  <2>4. early \/ (disk[Block] = "whole" /\ ~Fetching(Block))
    BY <1>1, <2>2, <2>3, OnBlock DEF ExtractInv, FetchInv, Pointed, TypeOK, Idle
  <2>5. Fetching(Block) <=> Fetching(ThisRun.block)'
    BY <2>1, <2>2, <1>6, Start, SameBlock DEF Fetching, ThisRun, where, fileVars
  <2>6. \A r \in Alive' : r.block = Block
    BY <2>1
  <2>7. QED
    BY <2>2, <2>3, <2>4, <2>6 DEF Resting, Fetching
<1>7. CASE ~(OfScripts \/ Kill \/ RpcReady)
  <2>1. UNCHANGED scriptVars /\ Alive' = Alive
    BY <1>7, SameScripts, SameAlive
  <2>2. CASE pc \notin Resting
    BY <1>2, <2>1, <2>2
  <2>3. CASE NextLine \/ PrintSummary \/ LeaveUp \/ Judge \/ NewSweep
    BY <1>4, <2>1, <2>3 DEF NextLine, PrintSummary, LeaveUp, Judge, NextDuration, NewSweep, GoTo,
           Resting, Idle, hostVars, fileVars
  <2>4. CASE Downs
    <3>1. ~Straggling /\ pc \notin {"bench", "dead"}
      BY <2>4 DEF Downs, StopInfra, StopForRun, TearDown, InfraDown
    <3>2. QED
      BY <2>1, <3>1, NobodyLeft
  <2>5. CASE OfDownload
    <3>1. \A r \in Alive : ~Fetching(r.block) => r.block # dl.block
      BY <2>5 DEF Fetching, OfDownload, Download, DlWipes, DlEnds, DlFails
    <3>2. QED
      BY <1>2, <1>3, <2>1, <2>5, <3>1, Downloading
  <2>6. QED
    <3>1. pc \in Resting => \/ NextLine \/ PrintSummary \/ LeaveUp \/ Judge \/ NewSweep
                            \/ Downs \/ OfDownload
      BY <1>7 DEF Next, SweepStep, Downs, Download, OfScripts, OfDownload, SameSweep, Resting, Idle,
             ReuseExtract, RemovePrevious, Fetch, FetchDone, FetchFailed, FetchTimeout, PointAt,
             PayloadsOk, PayloadsBad, CleanStaleContainers, InfraUp, InfraUpRaw, InfraUpFails,
             RpcNotReady, Free
    <3>2. QED
      BY <2>2, <2>3, <2>4, <2>5, <3>1
<1>8. QED
  BY <1>5, <1>6, <1>7

-----------------------------------------------------------------------------
(* What the reports are about.                                             *)

LEMMA SameManifest ==
    ASSUME TypeOK, Next
    PROVE  UNCHANGED <<sweep, manifest>> \/ NewSweep
<1> USE DEF where, GoTo, Skip
<1>1. CASE OfScripts \/ Kill
  BY <1>1, Scripts
<1>2. CASE NextLine \/ PrintSummary \/ LeaveUp \/ Free \/ Fetches \/ Points
  BY <1>2 DEF NextLine, PrintSummary, LeaveUp, Free, Fetches, ReuseExtract, RemovePrevious, Fetch,
         FetchDone, FetchFailed, FetchTimeout, Points, PointAt, PayloadsOk, PayloadsBad
<1>3. CASE Infra \/ RpcReady \/ RpcNotReady \/ Judge \/ OfDownload
  BY <1>3 DEF Infra, Downs, StopInfra, StopForRun, TearDown, InfraDown, CleanStaleContainers, Ups,
         InfraUp, InfraUpRaw, InfraUpFails, RpcReady, RpcNotReady, Judge, NextDuration, OfDownload
<1>4. QED
  BY <1>1, <1>2, <1>3
     DEF Next, SweepStep, Fetches, Points, Infra, Downs, Ups, Download, OfScripts, OfDownload, SameSweep

LEMMA KnownStep ==
    ASSUME TypeOK, Next, NEW r \in AllRuns, Known(r)
    PROVE  Known(r)'
<1>1. CASE UNCHANGED <<sweep, manifest>>
  BY <1>1 DEF Known
<1>2. CASE NewSweep
  <2>1. sweep' = sweep + 1 /\ sweep \in Nat /\ r.sweep \in Nat
    BY <1>2, SweepAssumption DEF NewSweep, TypeOK, SweepTypeOK, Sweeps, AllRuns
  <2>2. r.sweep <= sweep' /\ r.sweep # sweep'
    BY <2>1 DEF Known
  <2>3. QED
    BY <2>2 DEF Known
<1>3. QED
  BY <1>1, <1>2, SameManifest

LEMMA PayloadsStep ==
    ASSUME Operator, TypeOK, ControlInv, ~early /\ ~swallowed => ExtractInv,
           ~swallowed => PayloadsInv, Next, ~swallowed'
    PROVE  PayloadsInv'
<1> USE DEF PayloadsInv, Pointed
<1>1. ~swallowed /\ (early => early')
  BY Histories
<1>2. CASE NextLine \/ PrintSummary \/ LeaveUp \/ Fetches \/ PointAt \/ PayloadsBad \/ Free \/ NewSweep
  BY <1>2 DEF NextLine, PrintSummary, LeaveUp, Fetches, ReuseExtract, RemovePrevious, Fetch, FetchDone,
         FetchFailed, FetchTimeout, PointAt, PayloadsBad, Free, NewSweep, Skip, GoTo
<1>3. CASE PayloadsOk
  <2>1. Block' = Block /\ UNCHANGED <<disk, early, knobs>> /\ pc = "payloads"
    BY <1>3, SameBlock DEF PayloadsOk, GoTo, where, hostVars, history
  <2>2. Block \in Snapshots /\ disk[Block] \in {"absent", "partial", "whole"}
    BY <2>1, OnBlock DEF TypeOK, Idle
  <2>3. early \/ disk[Block] # "partial"
    BY <1>1, <2>1 DEF ExtractInv
  <2>4. ASSUME disk[Block] = "whole"
        PROVE  HeadsRead = {HeadFor(knobs.snapHead, Block)}
    BY <2>2, <2>4 DEF HeadsRead, HeadFor, Operator
  <2>5. mockClPayloads' = manifest[line].payloads /\ \E h \in HeadsRead : manifest[line].payloads = h + 1
    BY <1>3 DEF PayloadsOk
  <2>6. QED
    BY <2>1, <2>2, <2>3, <2>4, <2>5
<1>4. CASE Infra \/ RpcReady \/ RpcNotReady \/ Judge \/ OfScripts \/ Kill
  <2>1. Block' = Block /\ UNCHANGED disk /\ (pc \in Pointed \cup {"point"} \/ pc' \notin Pointed \cup {"point"})
    BY <1>4, Steady DEF InfraUpRaw
  <2>2. /\ UNCHANGED <<mockClPayloads, knobs>>
        /\ pc' \in Pointed \ {"payloads"} => pc \in Pointed \ {"payloads"}
    <3>1. CASE OfScripts \/ Kill \/ RpcReady
      BY <3>1, Scripts, Start DEF where, fileVars
    <3>2. CASE Infra \/ RpcNotReady \/ Judge
      BY <3>2 DEF Infra, Downs, StopInfra, StopForRun, TearDown, InfraDown, CleanStaleContainers, Ups,
             InfraUp, InfraUpRaw, InfraUpFails, RpcNotReady, Judge, NextDuration, GoTo, where, fileVars
    <3>3. QED
      BY <1>4, <3>1, <3>2
  <2>3. QED
    BY <1>1, <2>1, <2>2
<1>5. CASE OfDownload
  <2>1. pc \in Pointed => Block \in Snapshots
    BY DEF ControlInv, Idle
  <2>2. QED
    BY <1>1, <1>5, <2>1, Downloading, SameBlock
<1>6. QED
  BY <1>2, <1>3, <1>4, <1>5
     DEF Next, SweepStep, Fetches, Points, Infra, Downs, Ups, Download, OfScripts, OfDownload, SameSweep

LEMMA RunStep ==
    ASSUME TypeOK, ControlInv, ~swallowed => NodeInv, ~swallowed => PayloadsInv, RunInv, Next
    PROVE  RunInv'
<1>1. (early => early') /\ (swallowed => swallowed')
  BY Histories
<1>2. \A r \in Alive : Known(r)' /\ (swallowed' \/ Fit(r)')
  <2>1. Alive \subseteq AllRuns
    BY DEF TypeOK, ScriptTypeOK, Alive
  <2>2. ASSUME NEW r \in Alive PROVE Known(r)'
    BY <2>1, KnownStep DEF RunInv
  <2>3. QED
    BY <1>1, <2>2 DEF RunInv, Fit
<1>3. CASE RpcReady
  <2>1. pc = "rpc" /\ node # Nowhere /\ UNCHANGED <<sweep, manifest, early, swallowed>>
    BY <1>3, Start DEF where, hostVars, history
  <2>2. PICK t : t = ThisRun
    OBVIOUS
  <2>3. Known(t)'
    <3>1. line \in DOMAIN manifest /\ manifest[line].block = Block /\ sweep \in Nat
      BY <2>1, OnBlock, SweepAssumption DEF TypeOK, SweepTypeOK, Idle, Block, Sweeps
    <3>2. t.sweep = sweep /\ t.line = line /\ t.block = Block
      BY <2>2 DEF ThisRun
    <3>3. QED
      BY <2>1, <3>1, <3>2 DEF Known
  <2>4. swallowed' \/ Fit(t)'
    <3>1. swallowed \/ Fit(t)
      BY <2>1, <2>2 DEF NodeInv, PayloadsInv, Pointed, ControlInv, Fit, ThisRun
    <3>2. QED
      BY <2>1, <3>1 DEF Fit
  <2>5. Alive' \subseteq Alive \cup {t}
    BY <1>3, <2>2, Start
  <2>6. QED
    BY <1>2, <2>3, <2>4, <2>5 DEF RunInv
<1>4. CASE ~RpcReady
  <2>1. Alive' \subseteq Alive
    BY <1>4, Scripts, SameScripts, SameAlive
  <2>2. QED
    BY <1>2, <2>1 DEF RunInv
<1>5. QED
  BY <1>3, <1>4

LEMMA FileStep ==
    ASSUME TypeOK, ~swallowed /\ ~crossed => AliveInv, RunInv, FileInv, ControlInv, Next
    PROVE  FileInv'
<1>1. (early => early') /\ (swallowed => swallowed') /\ (crossed => crossed')
  BY Histories
<1>2. metrics \in [Milestones -> Reports \cup {NoFile}] /\ Alive \subseteq AllRuns
  BY DEF TypeOK, ScriptTypeOK, Alive
<1>3. ASSUME NEW m \in Milestones, NEW f, f = metrics[m], f # NoFile
      PROVE  About(f, m)'
  <2>1. About(f, m) /\ f.run \in AllRuns
    BY <1>2, <1>3 DEF FileInv, Reports
  <2>2. Known(f.run)'
    BY <2>1, KnownStep DEF About
  <2>3. Holds(f)'
    BY <1>1, <2>1 DEF About, Holds, Fit
  <2>4. QED
    BY <2>1, <2>2, <2>3 DEF About
<1>4. CASE UNCHANGED metrics
  BY <1>3, <1>4 DEF FileInv
<1>5. CASE OfScripts \/ Kill
  <2>1. ASSUME NEW r \in Alive, Writes(r, Measured(r))
        PROVE  FileInv'
    <3>1. PICK g : g = Measured(r)
      OBVIOUS
    <3>2. r \in AllRuns /\ r.block \in Snapshots
      BY <1>2 DEF AllRuns
    <3>3. g.run = r /\ Holds(g)
      BY <2>1, <3>1, <3>2, Sums DEF Measured, Holds, AliveInv, RunInv
    <3>4. Known(r)' /\ Holds(g)'
      BY <1>1, <2>1, <3>2, <3>3, KnownStep DEF RunInv, Holds, Fit
    <3>5. metrics' = [metrics EXCEPT ![<<r.block, r.dur>>] = g]
      BY <2>1, <3>1 DEF Writes
    <3>6. ASSUME NEW m \in Milestones, metrics'[m] # NoFile
          PROVE  About(metrics[m], m)'
      <4>1. CASE m = <<r.block, r.dur>>
        <5>1. metrics'[m] = g
          BY <1>2, <3>5, <4>1
        <5>2. About(g, m)'
          BY <3>3, <3>4, <4>1 DEF About
        <5>3. QED
          BY <5>1, <5>2 DEF About, Holds, Known, Fit
      <4>2. CASE m # <<r.block, r.dur>>
        <5>1. metrics'[m] = metrics[m]
          BY <1>2, <3>5, <4>2
        <5>2. PICK f : f = metrics[m]
          OBVIOUS
        <5>3. About(f, m)'
          BY <1>3, <3>6, <5>1, <5>2
        <5>4. QED
          BY <5>1, <5>2, <5>3 DEF About, Holds, Known, Fit
      <4>3. QED
        BY <4>1, <4>2
    <3>7. QED
      BY <3>6 DEF FileInv
  <2>2. QED
    BY <1>4, <1>5, <2>1, Scripts
<1>6. CASE ~(OfScripts \/ Kill)
  BY <1>4, <1>6, SameScripts, Start DEF scriptVars
<1>7. QED
  BY <1>5, <1>6

\* The row a step adds to the summary, if any.
LEMMA NewRows ==
    ASSUME TypeOK, ControlInv, Next
    PROVE  \/ summary' = {}
           \/ /\ \A r \in summary' : r \in summary \/ r.status # "OK" \/ Judge
              /\ UNCHANGED <<sweep, manifest>>
<1>1. CASE NextLine
  <2>1. \A d : Row(d, "SKIP:bad-url").status # "OK"
    BY DEF Row
  <2>2. [Row(0, "SKIP:bad-url") EXCEPT !.line = line + 1].status # "OK"
    BY DEF Row
  <2>3. QED
    BY <1>1, <2>2 DEF NextLine, where
<1>2. CASE FetchFailed \/ FetchTimeout \/ PayloadsBad
  <2>1. \A r \in summary' : r \in summary \/ r.status # "OK"
    BY <1>2 DEF FetchFailed, FetchTimeout, PayloadsBad, Skip, Row
  <2>2. QED
    BY <1>2, <2>1 DEF FetchFailed, FetchTimeout, PayloadsBad, Skip, GoTo, where
<1>3. CASE RpcNotReady
  <2>1. \A r \in summary' : r \in summary \/ r.status # "OK"
    BY <1>3 DEF RpcNotReady, NextDuration, Row
  <2>2. QED
    BY <1>3, <2>1 DEF RpcNotReady, NextDuration, where
<1>4. CASE Judge
  BY <1>4 DEF Judge, NextDuration, where
<1>5. CASE NewSweep
  BY <1>5 DEF NewSweep
<1>6. CASE UNCHANGED summary
  BY <1>5, <1>6, SameManifest
<1>7. QED
  <2>1. UNCHANGED summary \/ NextLine \/ FetchFailed \/ FetchTimeout \/ PayloadsBad
        \/ RpcNotReady \/ Judge \/ NewSweep
    BY DEF Next, SweepStep, PrintSummary, StopInfra, ReuseExtract, RemovePrevious, Fetch, FetchDone,
           PointAt, PayloadsOk, StopForRun, CleanStaleContainers, InfraUp, InfraUpRaw, InfraUpFails,
           RpcReady, Bench, LeaveUp, TearDown, Free, InfraDown, Kill, Straggle, OutOfMemory
  <2>2. QED
    BY <1>1, <1>2, <1>3, <1>4, <1>5, <1>6, <2>1

LEMMA RowStep ==
    ASSUME Operator, TypeOK, ControlInv, FileInv, OkRowsAreTrue, Next
    PROVE  OkRowsAreTrue'
<1> DEFINE Good(r) ==
             LET s == manifest[r.line].block
                 of == r.on.run
             IN /\ r.on.on = s /\ r.on.pristine
                /\ early \/ (r.on.whole /\ of.payloads = HeadFor(of.given, s) + 1)
                /\ <<of.sweep, of.line, of.dur>> = <<sweep, r.line, r.dur>> \/ of.sweep < sweep
<1>0. OkRowsAreTrue <=> swallowed \/ crossed \/ \A r \in summary : r.status = "OK" => Good(r)
  BY DEF OkRowsAreTrue
<1>1. (early => early') /\ (swallowed => swallowed') /\ (crossed => crossed')
  BY Histories
<1>2. CASE summary' = {}
  BY <1>2 DEF OkRowsAreTrue
<1>3. CASE /\ \A r \in summary' : r \in summary \/ r.status # "OK"
           /\ UNCHANGED <<sweep, manifest>>
  BY <1>1, <1>3 DEF OkRowsAreTrue
<1>4. CASE Judge
  <2> DEFINE file == metrics[Milestone]
             row == [Row(dur, Status(file)) EXCEPT !.on = file]
  <2>1. summary' = summary \cup {row} /\ UNCHANGED <<sweep, manifest, early, swallowed, crossed>>
    BY <1>4 DEF Judge, NextDuration, where, hostVars, history
  <2>2. row.line = line /\ row.dur = dur /\ row.status = Status(file) /\ row.on = file
    BY DEF Row
  <2>3. ASSUME Status(file) = "OK", ~swallowed, ~crossed
        PROVE  Good(row)
    <3>1. file # NoFile
      BY <2>3 DEF Status
    <3>2. line \in DOMAIN manifest /\ manifest[line].block = Block /\ Block # Nowhere
          /\ Block \in Snapshots /\ pc = "bench"
      BY <1>4, OnBlock DEF Judge, Idle, Block, TypeOK
    <3>3. Milestone \in Milestones /\ Milestone[1] = Block /\ Milestone[2] = dur
      BY <3>2, SweepAssumption DEF TypeOK, SweepTypeOK, ControlInv, Runs, Milestone
    <3>4. file.run.block = Block /\ file.run.dur = dur /\ Known(file.run)
          /\ file.on = Block /\ file.pristine /\ (file.whole \/ early) /\ Fit(file.run)
      BY <2>3, <3>1, <3>3 DEF FileInv, About, Holds
    <3>5. file.run \in AllRuns /\ sweep \in Nat
      BY <3>1, <3>3, SweepAssumption DEF TypeOK, ScriptTypeOK, SweepTypeOK, Reports, Sweeps
    <3>6. file.run.sweep = sweep => file.run.line = line
      BY <3>2, <3>4 DEF Known, Operator, TypeOK, SweepTypeOK
    <3>7. file.run.sweep = sweep \/ file.run.sweep < sweep
      BY <3>4, <3>5, SweepAssumption DEF Known, AllRuns, Sweeps
    <3>8. QED
      BY <2>2, <3>2, <3>4, <3>6, <3>7 DEF Fit
  <2>4. ASSUME NEW r \in summary, r.status = "OK", ~swallowed, ~crossed
        PROVE  Good(r)
    BY <1>0, <2>4
  <2> HIDE DEF Good, row, file
  <2>5. ~swallowed /\ ~crossed => \A r \in summary' : r.status = "OK" => Good(r)
    BY <2>1, <2>2, <2>3, <2>4
  <2>6. (\A r \in summary' : r.status = "OK" => Good(r)) => OkRowsAreTrue'
    BY <2>1 DEF OkRowsAreTrue, Good, HeadFor
  <2>7. QED
    BY <2>1, <2>5, <2>6 DEF OkRowsAreTrue
<1>5. QED
  BY <1>2, <1>3, <1>4, NewRows

-----------------------------------------------------------------------------
(* What the summary says, line by line.                                    *)

Before == {"down", "extract", "fetch", "poll", "point", "payloads"}
After == {"end", "free"}

\* The lines behind the sweep are accounted for; the line it is on has a row
\* for each duration behind it, and none until it is known not to be skipped.
RowsInv ==
    /\ \A r \in summary : r.line \in 1..line
    /\ \A l \in 1..(line - 1) : Accounted(l)
    /\ pc \in Before => Reported(line) = {}
    /\ pc \in Runs => Reported(line) = 1..(dur - 1)
    /\ pc \in After => Reported(line) = 1..Durations
    /\ pc \in {"line", "printed"} /\ line # 0 => Accounted(line)

\* The ways of a sweep: along a line, from line to line, past a line, along
\* the durations, and to another sweep.
Along ==
    /\ UNCHANGED <<line, summary>>
    /\ \/ pc \in Before /\ pc' \in Before
       \/ pc \in Before /\ pc' = "run" /\ dur' = 1
       \/ pc \in Runs /\ pc' \in Runs /\ dur' = dur
       \/ pc \in After /\ pc' \in After \cup {"line"}
       \/ pc' = pc /\ dur' = dur
       \/ pc = "line" /\ pc' = "printed"
       \/ pc' = "dead"
Past ==
    /\ pc \in Before /\ pc' = "line" /\ UNCHANGED line
    /\ \E r : r.line = line /\ r.dur = 0 /\ summary' = summary \cup {r}
Further ==
    /\ pc \in Runs /\ UNCHANGED line
    /\ \E r : r.line = line /\ r.dur = dur /\ summary' = summary \cup {r}
    /\ IF dur < Durations THEN pc' = "run" /\ dur' = dur + 1 ELSE pc' = "end"

LEMMA Ways ==
    ASSUME TypeOK, ControlInv, Next
    PROVE  Along \/ NextLine \/ Past \/ Further \/ NewSweep
<1> USE DEF Along, Past, Further, Before, Runs, After, Row
<1>1. CASE PrintSummary \/ LeaveUp \/ Free
  BY <1>1 DEF PrintSummary, LeaveUp, Free, GoTo
<1>2. CASE Fetches
  <2>1. CASE FetchFailed
    BY <2>1 DEF FetchFailed, Skip, GoTo
  <2>2. CASE FetchTimeout
    BY <2>2 DEF FetchTimeout, Skip, GoTo
  <2>3. CASE ReuseExtract \/ RemovePrevious \/ Fetch \/ FetchDone
    BY <2>3 DEF ReuseExtract, RemovePrevious, Fetch, FetchDone, GoTo
  <2>4. QED
    BY <1>2, <2>1, <2>2, <2>3 DEF Fetches
<1>3. CASE Points
  BY <1>3 DEF Points, PointAt, PayloadsOk, PayloadsBad, Skip, GoTo
<1>4. CASE Infra
  BY <1>4 DEF Infra, Downs, Ups, StopInfra, StopForRun, TearDown, InfraDown, CleanStaleContainers,
         InfraUp, InfraUpRaw, InfraUpFails, GoTo
<1>5. CASE RpcReady \/ OfScripts \/ Kill
  BY <1>5, Scripts, Start
<1>6. CASE RpcNotReady
  BY <1>6 DEF RpcNotReady, NextDuration
<1>7. CASE Judge
  BY <1>7 DEF Judge, NextDuration
<1>8. CASE OfDownload
  BY <1>8 DEF OfDownload
<1>9. QED
  BY <1>1, <1>2, <1>3, <1>4, <1>5, <1>6, <1>7, <1>8
     DEF Next, SweepStep, Fetches, Points, Infra, Downs, Ups, Download, OfScripts, OfDownload, SameSweep

\* The durations of the rows of a line, and Reported and Accounted in their terms.
DursOf(rows, l) == {r.dur : r \in {x \in rows : x.line = l}}

LEMMA ReportedDurs ==
    /\ \A l : Reported(l) = DursOf(summary, l)
    /\ \A l : Accounted(l) <=> DursOf(summary, l) = {0} \/ DursOf(summary, l) = 1..Durations
BY DEF Reported, Accounted, DursOf

LEMMA ReportedDursNext ==
    /\ Reported(line)' = DursOf(summary', line')
    /\ \A l : Accounted(l)' <=> DursOf(summary', l) = {0} \/ DursOf(summary', l) = 1..Durations
    /\ Accounted(line)' <=> DursOf(summary', line') = {0} \/ DursOf(summary', line') = 1..Durations
BY DEF Reported, Accounted, DursOf

LEMMA RowsStep ==
    ASSUME TypeOK, ControlInv, RowsInv, Next
    PROVE  RowsInv'
<1> USE DEF RowsInv, Before, Runs, After
<1>0. line \in Nat /\ dur \in 0..Durations /\ Durations \in Nat \ {0}
  BY SweepAssumption DEF TypeOK, SweepTypeOK
<1>1. CASE Along
  <2>1. \A l : Reported(l)' = Reported(l) /\ (Accounted(l)' <=> Accounted(l))
    BY <1>1 DEF Along, Reported, Accounted
  <2>2. pc \in After => Accounted(line)
    BY DEF Accounted
  <2>3. 1..(1 - 1) = {}
    OBVIOUS
  <2>4. QED
    BY <1>1, <2>1, <2>2, <2>3 DEF Along
<1>2. CASE NextLine
  <2>1. line' = line + 1 /\ \A l \in 1..line : Accounted(l)
    BY <1>0, <1>2 DEF NextLine
  <2>2. \A r \in summary : r.line # line + 1
    BY <1>0
  <2>3. Reported(line + 1) = {}
    BY <2>2 DEF Reported
  <2>4. CASE pc' = "down" /\ UNCHANGED summary
    <3>1. \A l : Reported(l)' = Reported(l) /\ (Accounted(l)' <=> Accounted(l))
      BY <2>4 DEF Reported, Accounted
    <3>2. QED
      BY <1>0, <2>1, <2>3, <2>4, <3>1
  <2>5. CASE pc' = "line" /\ summary' = summary \cup {[Row(0, "SKIP:bad-url") EXCEPT !.line = line + 1]}
    <3> DEFINE r == [Row(0, "SKIP:bad-url") EXCEPT !.line = line + 1]
    <3>1. r.line = line + 1 /\ r.dur = 0
      BY DEF Row
    <3>2. summary' = summary \cup {r}
      BY <2>5 DEF r
    <3> HIDE DEF r
    <3>3. /\ DursOf(summary', line + 1) = DursOf(summary, line + 1) \cup {0}
          /\ \A l : l # line + 1 => DursOf(summary', l) = DursOf(summary, l)
      BY <3>1, <3>2 DEF DursOf
    <3>4. \A l \in 1..line : DursOf(summary', l) = DursOf(summary, l)
      <4>1. \A l \in 1..line : l # line + 1
        BY <1>0
      <4>2. QED
        BY <3>3, <4>1
    <3>5. \A l \in 1..line : Accounted(l)'
      BY <2>1, <3>4, ReportedDurs, ReportedDursNext
    <3>6. Accounted(line)'
      <4>1. DursOf(summary', line + 1) = {0}
        BY <2>3, <3>3, ReportedDurs
      <4>2. QED
        BY <2>1, <4>1, ReportedDursNext
    <3>7. \A x \in summary' : x.line \in 1..(line + 1)
      BY <1>0, <3>1, <3>2
    <3>8. 1..(line' - 1) = 1..line
      BY <1>0, <2>1
    <3>9. QED
      BY <2>1, <2>5, <3>5, <3>6, <3>7, <3>8
  <2>6. QED
    BY <1>2, <2>4, <2>5 DEF NextLine
<1>3. CASE Past \/ Further
  <2>1. line # 0 /\ line \in 1..line /\ line' = line
    BY <1>0, <1>3 DEF Past, Further, ControlInv, Idle
  <2>2. PICK r : r.line = line /\ summary' = summary \cup {r} /\ r.dur = (IF pc \in Runs THEN dur ELSE 0)
    BY <1>3 DEF Past, Further
  <2>3. /\ DursOf(summary', line) = DursOf(summary, line) \cup {r.dur}
        /\ \A l : l # line => DursOf(summary', l) = DursOf(summary, l)
    BY <2>2 DEF DursOf
  <2>4. \A l \in 1..(line - 1) : Accounted(l)'
    <3>1. \A l \in 1..(line - 1) : l # line
      BY <1>0
    <3>2. QED
      BY <2>3, <3>1, ReportedDurs, ReportedDursNext
  <2>5. \A x \in summary' : x.line \in 1..line
    BY <2>1, <2>2
  <2>6. CASE Past
    <3>1. Accounted(line)'
      <4>1. DursOf(summary, line) = {} /\ r.dur = 0
        BY <2>2, <2>6, ReportedDurs DEF Past
      <4>2. QED
        BY <2>1, <2>3, <4>1, ReportedDursNext
    <3>2. QED
      BY <2>1, <2>4, <2>5, <2>6, <3>1 DEF Past
  <2>7. CASE Further
    <3>1. dur # 0 /\ Reported(line)' = 1..(dur - 1) \cup {dur}
      BY <2>1, <2>2, <2>3, <2>7, ReportedDurs, ReportedDursNext DEF Further, ControlInv
    <3>2. Reported(line)' = 1..dur
      BY <1>0, <3>1
    <3>3. CASE dur < Durations
      <4>1. pc' = "run" /\ 1..(dur' - 1) = 1..dur
        BY <1>0, <2>7, <3>3 DEF Further
      <4>2. QED
        BY <2>1, <2>4, <2>5, <3>2, <4>1
    <3>4. CASE dur = Durations
      <4>1. pc' = "end" /\ Reported(line)' = 1..Durations
        BY <1>0, <2>7, <3>2, <3>4 DEF Further
      <4>2. QED
        BY <2>1, <2>4, <2>5, <4>1
    <3>5. QED
      BY <1>0, <3>3, <3>4
  <2>8. QED
    BY <1>3, <2>6, <2>7
<1>4. CASE NewSweep
  <2>1. summary' = {} /\ line' = 0 /\ pc' = "line"
    BY <1>4 DEF NewSweep
  <2>2. 1..(0 - 1) = {}
    OBVIOUS
  <2>3. QED
    BY <2>1, <2>2
<1>5. QED
  BY <1>1, <1>2, <1>3, <1>4, Ways

\* The summary is printed after the last line.
PrintedInv == pc = "printed" => line = Len(manifest)

LEMMA PrintedStep ==
    ASSUME TypeOK, ControlInv, PrintedInv, Next
    PROVE  PrintedInv'
<1> USE DEF PrintedInv
<1>1. CASE PrintSummary
  BY <1>1 DEF PrintSummary, GoTo, where
<1>2. CASE OfScripts \/ Kill \/ RpcReady
  BY <1>2, Scripts, Start DEF where
<1>3. CASE ~PrintSummary /\ ~(OfScripts \/ Kill \/ RpcReady) /\ pc' = "printed"
  <2>1. OfDownload
    BY <1>3 DEF Next, SweepStep, NextLine, StopInfra, ReuseExtract, RemovePrevious, Fetch, FetchDone,
           FetchFailed, FetchTimeout, PointAt, PayloadsOk, PayloadsBad, Skip, StopForRun,
           CleanStaleContainers, InfraUp, InfraUpRaw, InfraUpFails, RpcNotReady, Judge,
           NextDuration, LeaveUp, TearDown, Free, InfraDown, GoTo, OfScripts, SameSweep, Download,
           OfDownload, NewSweep
  <2>2. QED
    BY <2>1 DEF OfDownload, where
<1>4. QED
  BY <1>1, <1>2, <1>3

-----------------------------------------------------------------------------
LEMMA Initially == Init => SweepInv /\ ReportInv
<1> SUFFICES ASSUME Init PROVE SweepInv /\ ReportInv
  OBVIOUS
<1> USE DEF Init, ScriptInit
<1>1. TypeOK
  <2>1. line \in 0..Len(manifest) /\ sweep \in Sweeps
    BY SweepAssumption DEF Sweeps
  <2>2. dl \in Downloads /\ dl.state = "missing"
    BY DEF NoFetch, Downloads
  <2>3. ScriptTypeOK
    BY DEF ScriptTypeOK
  <2>4. QED
    BY <2>1, <2>2, <2>3, Sums DEF TypeOK, SweepTypeOK, Stages, Idle, NoPayloads
<1>2. sweep \in Sweeps /\ Alive = {}
  BY <1>1 DEF TypeOK, SweepTypeOK, Alive
<1>3. ControlInv /\ PayloadsInv /\ NodeInv
  BY <1>2 DEF ControlInv, PayloadsInv, NodeInv, Idle, Pointed, Runs
<1>4. RunInv /\ AliveInv
  BY <1>2 DEF RunInv, AliveInv
<1>5. FileInv /\ OkRowsAreTrue
  BY DEF FileInv, OkRowsAreTrue
<1>6. FetchInv /\ ExtractInv /\ DownInv
  BY DEF FetchInv, ExtractInv, DownInv, Pointed, NoFetch
<1>7. ReplayInv
  BY DEF ReplayInv, NoStrayReplay
<1>8. QED
  BY <1>1, <1>3, <1>4, <1>5, <1>6, <1>7 DEF SweepInv, ReportInv

LEMMA SameFaults ==
    ASSUME TypeOK, ControlInv, Next
    PROVE  UNCHANGED faults
<1> USE DEF where, GoTo, Skip
<1>1. CASE OfScripts \/ Kill \/ RpcReady
  BY <1>1, Scripts, Start
<1>2. CASE NextLine \/ PrintSummary \/ LeaveUp \/ Free \/ Fetches \/ Points \/ NewSweep
  BY <1>2 DEF NextLine, PrintSummary, LeaveUp, Free, Fetches, ReuseExtract, RemovePrevious, Fetch,
         FetchDone, FetchFailed, FetchTimeout, Points, PointAt, PayloadsOk, PayloadsBad, NewSweep
<1>3. CASE Infra \/ RpcNotReady \/ Judge \/ OfDownload
  BY <1>3 DEF Infra, Downs, StopInfra, StopForRun, TearDown, InfraDown, CleanStaleContainers, Ups,
         InfraUp, InfraUpRaw, InfraUpFails, RpcNotReady, Judge, NextDuration, OfDownload
<1>4. QED
  BY <1>1, <1>2, <1>3
     DEF Next, SweepStep, Fetches, Points, Infra, Downs, Ups, Download, OfScripts, OfDownload, SameSweep

LEMMA SameKnown ==
    ASSUME UNCHANGED vars, NEW r
    PROVE  (Known(r)' <=> Known(r)) /\ (Fit(r)' <=> Fit(r))
BY DEF vars, where, hostVars, history, Known, Fit

LEMMA SweepInductive == SweepInv /\ [Next]_vars => SweepInv'
<1> SUFFICES ASSUME SweepInv, [Next]_vars PROVE SweepInv'
  OBVIOUS
<1> USE DEF SweepInv
<1>1. CASE Next
  <2>1. TypeOK' /\ ControlInv' /\ ReplayInv'
    BY <1>1, TypeStep, ControlStep, ReplayStep
  <2>2. /\ ~swallowed' => NodeInv'
        /\ ~early' => FetchInv'
        /\ ~early' /\ ~swallowed' => ExtractInv'
    BY <1>1, NodeStep, FetchStep, ExtractStep
  <2>3. ~swallowed' /\ ~crossed' => AliveInv'
    BY <1>1, AliveStep
  <2>4. ~Fault("stuck")' => DownInv'
    BY <1>1, SameFaults, DownStep DEF Fault
  <2>5. QED
    BY <2>1, <2>2, <2>3, <2>4
<1>2. CASE UNCHANGED vars
  <2> USE <1>2 DEF vars, where, fileVars, hostVars, history, scriptVars
  <2>1. TypeOK' /\ ControlInv' /\ ReplayInv'
    BY DEF TypeOK, SweepTypeOK, ScriptTypeOK, ControlInv, Block, ReplayInv, NoStrayReplay
  <2>2. /\ ~swallowed' => NodeInv'
        /\ ~early' => FetchInv'
        /\ ~early' /\ ~swallowed' => ExtractInv'
    BY DEF NodeInv, FetchInv, ExtractInv, Block, Fetching
  <2>3. ~swallowed' /\ ~crossed' => AliveInv'
    BY DEF AliveInv, Alive, Fetching
  <2>4. ~Fault("stuck")' => DownInv'
    BY DEF DownInv, Fault
  <2>5. QED
    BY <2>1, <2>2, <2>3, <2>4
<1>3. QED
  BY <1>1, <1>2

LEMMA ReportInductive ==
    ASSUME Operator
    PROVE  SweepInv /\ ReportInv /\ [Next]_vars => ReportInv'
<1> SUFFICES ASSUME SweepInv, ReportInv, [Next]_vars PROVE ReportInv'
  OBVIOUS
<1> USE DEF SweepInv, ReportInv
<1>1. CASE Next
  BY <1>1, PayloadsStep, RunStep, FileStep, RowStep
<1>2. CASE UNCHANGED vars
  <2> USE DEF vars, where, fileVars, hostVars, history, scriptVars
  <2>1. (~swallowed' => PayloadsInv') /\ OkRowsAreTrue'
    BY <1>2 DEF PayloadsInv, Block, OkRowsAreTrue
  <2>2. RunInv'
    BY <1>2, SameKnown DEF RunInv, Alive
  <2>3. FileInv'
    BY <1>2, SameKnown DEF FileInv, About, Holds
  <2>4. QED
    BY <2>1, <2>2, <2>3
<1>3. QED
  BY <1>1, <1>2

-----------------------------------------------------------------------------
\* What a sweep works on, what it may count on and what runs meanwhile, in
\* every reachable state.
THEOREM Invariance == Spec => []SweepInv
<1>1. Init => SweepInv
  BY Initially
<1>2. QED
  BY <1>1, SweepInductive, PTL DEF Spec

\* run_benchmark.sh:118: whichever way a script ends but for SIGKILL, the
\* replay it started ends with it, for every number of sweeps that are killed
\* with their script or without it.
THEOREM ReplayIsOwn == Spec => []NoStrayReplay
<1>1. SweepInv => NoStrayReplay
  BY DEF SweepInv, ReplayInv
<1>2. QED
  BY <1>1, Invariance, PTL

\* run_snapshot_matrix.sh:152: where compose can take containers down, no
\* snapshot is removed, or wiped by a download, under a node.
THEOREM NodeKeepsSnapshot == Spec => []NodeKeepsItsSnapshot
<1>1. SweepInv => NodeKeepsItsSnapshot
  BY DEF SweepInv, DownInv, NodeKeepsItsSnapshot
<1>2. QED
  BY <1>1, Invariance, PTL

\* A row that reads OK is about what it says, unless something was looked away
\* from, for every manifest that names a snapshot once and every snapshot that
\* says its head or is named for it.
THEOREM OkIsTrue == Operator => (Spec => []OkRowsAreTrue)
<1> SUFFICES ASSUME Operator PROVE Spec => []OkRowsAreTrue
  OBVIOUS
<1>1. Init => ReportInv
  BY Initially
<1>2. SweepInv /\ ReportInv /\ [Next]_vars => ReportInv'
  BY ReportInductive
<1>3. ReportInv => OkRowsAreTrue
  BY DEF ReportInv
<1>4. QED
  BY <1>1, <1>2, <1>3, Invariance, PTL DEF Spec

\* The safety half of EverySnapshotReported: a sweep that has come to a line
\* has accounted for every line before it, and one that prints its summary for
\* all, whatever failed, was skipped, or was left by an earlier sweep.
THEOREM SummaryIsComplete ==
    Spec => [](/\ \A l \in 1..(line - 1) : Accounted(l)
               /\ pc = "printed" => \A l \in 1..Len(manifest) : Accounted(l))
<1>1. Init => RowsInv /\ PrintedInv
  <2>1. 1..(0 - 1) = {}
    OBVIOUS
  <2>2. QED
    BY <2>1 DEF Init, RowsInv, PrintedInv, Before, Runs, After
<1>2. SweepInv /\ RowsInv /\ PrintedInv /\ [Next]_vars => RowsInv' /\ PrintedInv'
  <2>1. SUFFICES ASSUME SweepInv, RowsInv, PrintedInv, [Next]_vars PROVE RowsInv' /\ PrintedInv'
    OBVIOUS
  <2>2. CASE Next
    BY <2>1, <2>2, RowsStep, PrintedStep DEF SweepInv
  <2>3. CASE UNCHANGED vars
    BY <2>1, <2>3 DEF vars, where, RowsInv, PrintedInv, Reported, Accounted
  <2>4. QED
    BY <2>1, <2>2, <2>3
<1>3. SweepInv /\ RowsInv /\ PrintedInv =>
         /\ \A l \in 1..(line - 1) : Accounted(l)
         /\ pc = "printed" => \A l \in 1..Len(manifest) : Accounted(l)
  <2>1. SUFFICES ASSUME SweepInv, RowsInv, PrintedInv, pc = "printed",
                        NEW l \in 1..Len(manifest)
                 PROVE  Accounted(l)
    BY DEF RowsInv
  <2>2. line \in Nat /\ line = Len(manifest)
    BY <2>1 DEF SweepInv, TypeOK, SweepTypeOK, PrintedInv
  <2>3. l \in 1..(line - 1) \/ (l = line /\ line # 0)
    BY <2>2
  <2>4. QED
    BY <2>1, <2>3 DEF RowsInv
<1>4. QED
  BY <1>1, <1>2, <1>3, Invariance, PTL DEF Spec

-----------------------------------------------------------------------------
(* EverySnapshotReported, but for fairness: what a sweep has left to do     *)
(* shrinks with every step, in this order: sweeps, lines, stages of a line, *)
(* durations, stages of a duration with those of its script.                *)

SweepsLeft == MaxSweeps - sweep
LinesLeft == Len(manifest) - line
StagesLeft ==
    CASE pc = "down"  -> 10 [] pc = "extract"  -> 9 [] pc = "fetch" -> 8 [] pc = "poll" -> 7
      [] pc = "point" -> 6  [] pc = "payloads" -> 5 [] pc \in Runs  -> 4
      [] pc = "end"   -> 3  [] pc = "free"     -> 2 [] pc = "line"  -> 1 [] OTHER -> 0
DursLeft == Durations - dur
StepsOf(p) ==
    CASE p = "preflight" -> 5 [] p = "launch" -> 4 [] p = "sanity" -> 3
      [] p = "runner"    -> 2 [] p = "exit"   -> 1 [] OTHER -> 0
ScriptLeft == StepsOf(bpc[sweep])
RunLeft ==
    CASE pc = "run" -> 9 [] pc = "clean" -> 8 [] pc = "up" -> 7 [] pc = "rpc" -> 6
      [] pc = "bench" -> ScriptLeft [] OTHER -> 0

Nearer ==
    \/ SweepsLeft' < SweepsLeft
    \/ UNCHANGED SweepsLeft /\ LinesLeft' < LinesLeft
    \/ UNCHANGED <<SweepsLeft, LinesLeft>> /\ StagesLeft' < StagesLeft
    \/ UNCHANGED <<SweepsLeft, LinesLeft, StagesLeft>> /\ DursLeft' < DursLeft
    \/ UNCHANGED <<SweepsLeft, LinesLeft, StagesLeft, DursLeft>> /\ RunLeft' < RunLeft
AsFar == UNCHANGED <<SweepsLeft, LinesLeft, StagesLeft, DursLeft, RunLeft>>

\* A step along the stages of a line, and one along those of a duration.
LEMMA StageNearer ==
    ASSUME UNCHANGED <<sweep, manifest, line>>, StagesLeft' < StagesLeft
    PROVE  Nearer
BY DEF Nearer, SweepsLeft, LinesLeft

LEMMA RunNearer ==
    ASSUME UNCHANGED <<sweep, manifest, line, dur>>, pc \in Runs, pc' \in Runs, RunLeft' < RunLeft
    PROVE  Nearer
BY DEF Nearer, SweepsLeft, LinesLeft, StagesLeft, DursLeft, Runs

LEMMA DurationNearer ==
    ASSUME TypeOK, pc \in {"rpc", "bench"}, NEW row, NextDuration(row)
    PROVE  Nearer
<1>1. UNCHANGED <<sweep, manifest, line>> /\ dur \in 0..Durations /\ Durations \in Nat
  BY SweepAssumption DEF NextDuration, where, TypeOK, SweepTypeOK
<1>2. CASE dur < Durations
  <2>1. pc' = "run" /\ dur' = dur + 1
    BY <1>2 DEF NextDuration
  <2>2. DursLeft' < DursLeft
    BY <1>1, <2>1 DEF DursLeft
  <2>3. QED
    BY <1>1, <2>1, <2>2 DEF Nearer, SweepsLeft, LinesLeft, StagesLeft, Runs
<1>3. CASE ~(dur < Durations)
  <2>1. pc' = "end"
    BY <1>3 DEF NextDuration
  <2>2. QED
    BY <1>1, <2>1, StageNearer DEF StagesLeft, Runs
<1>4. QED
  BY <1>2, <1>3

\* A script comes nearer to its end with each of its steps, whoever takes it.
LEMMA ScriptNearer ==
    ASSUME TypeOK, NEW s \in Sweeps, ScriptRuns(s) \/ ScriptKilled(s)
    PROVE  StepsOf(bpc'[s]) < StepsOf(bpc[s])
<1> USE DEF Goes, Ends, StepsOf
<1>1. bpc \in [Sweeps -> {"off", "preflight", "launch", "sanity", "runner", "exit"}]
  BY DEF TypeOK, ScriptTypeOK
<1>2. CASE ScriptRuns(s)
  BY <1>1, <1>2 DEF ScriptRuns, ScriptStep, Preflight, PreflightFails, LaunchReplay, SanityOk,
         SanityFails, RunnerFails, CleanupReplay, RunnerEnds
<1>3. CASE ScriptKilled(s)
  BY <1>1, <1>3 DEF ScriptKilled
<1>4. QED
  BY <1>2, <1>3

\* What leaves the script of the sweep alone leaves it as far as it is.
LEMMA OtherScripts ==
    ASSUME UNCHANGED <<sweep, manifest, line, dur, pc>>, pc = "bench" => bpc'[sweep] = bpc[sweep]
    PROVE  AsFar
BY DEF AsFar, SweepsLeft, LinesLeft, StagesLeft, DursLeft, RunLeft, ScriptLeft

\* A script killed for its memory, and what goes on of earlier runs.
LEMMA KilledNearer ==
    ASSUME TypeOK, Straggle \/ OutOfMemory
    PROVE  Nearer \/ AsFar
<1>1. UNCHANGED <<sweep, manifest, line, dur, pc>> /\ sweep \in Sweeps
  BY DEF Straggle, OutOfMemory, where, TypeOK, SweepTypeOK
<1>2. CASE Straggle
  <2>1. PICK s \in Sweeps : bpc' = bpc \/ (Left(s) /\ ScriptRuns(s))
    BY <1>1, <1>2 DEF Straggle, RunnerLeftEnds
  <2>2. pc = "bench" /\ Left(s) => s # sweep
    BY <1>1, SweepAssumption DEF Left, Sweeps
  <2>3. pc = "bench" => bpc'[sweep] = bpc[sweep]
    BY <1>1, <2>1, <2>2, ScriptEffect
  <2>4. QED
    BY <1>1, <2>3, OtherScripts
<1>3. CASE OutOfMemory
  <2>1. PICK s \in Sweeps : ScriptKilled(s)
    BY <1>3 DEF OutOfMemory
  <2>2. CASE s = sweep /\ pc = "bench"
    <3>1. ScriptLeft' < ScriptLeft
      BY <1>1, <2>1, <2>2, ScriptNearer DEF ScriptLeft
    <3>2. RunLeft' < RunLeft
      BY <1>1, <2>2, <3>1 DEF RunLeft
    <3>3. QED
      BY <1>1, <2>2, <3>2, RunNearer DEF Runs
  <2>3. CASE s # sweep \/ pc # "bench"
    <3>1. pc = "bench" => bpc'[sweep] = bpc[sweep]
      BY <1>1, <2>1, <2>3, ScriptEffect
    <3>2. QED
      BY <1>1, <3>1, OtherScripts
  <2>4. QED
    BY <2>2, <2>3
<1>4. QED
  BY <1>2, <1>3

\* Each step of the scripts, and of whoever kills a sweep and starts another.
LEMMA SweepNearer ==
    ASSUME TypeOK, ControlInv, SweepStep \/ Kill \/ NewSweep
    PROVE  Nearer
<1>1. CASE NextLine
  <2>1. line' = line + 1 /\ UNCHANGED <<sweep, manifest>> /\ line \in Nat /\ Len(manifest) \in Nat
    BY <1>1, SweepAssumption DEF NextLine, where, TypeOK, SweepTypeOK
  <2>2. QED
    BY <2>1 DEF Nearer, SweepsLeft, LinesLeft
<1>2. CASE PrintSummary \/ LeaveUp \/ Free \/ TearDown
  <2>1. /\ UNCHANGED <<sweep, manifest, line>>
        /\ \/ pc = "line" /\ pc' = "printed"
           \/ pc = "end" /\ pc' \in {"line", "free"}
           \/ pc = "free" /\ pc' = "line"
    BY <1>2 DEF PrintSummary, LeaveUp, Free, TearDown, InfraDown, GoTo, where
  <2>2. QED
    BY <2>1, StageNearer DEF StagesLeft, Runs
<1>3. CASE StopInfra \/ Fetches
  <2>1. /\ UNCHANGED <<sweep, manifest, line>>
        /\ \/ pc = "down" /\ pc' = "extract"
           \/ pc = "extract" /\ pc' \in {"point", "fetch"}
           \/ pc = "fetch" /\ pc' = "poll"
           \/ pc = "poll" /\ pc' \in {"point", "line"}
    BY <1>3 DEF StopInfra, InfraDown, Fetches, ReuseExtract, RemovePrevious, Fetch, FetchDone,
           FetchFailed, FetchTimeout, Skip, GoTo, where
  <2>2. QED
    BY <2>1, StageNearer DEF StagesLeft, Runs
<1>4. CASE Points
  <2>1. /\ UNCHANGED <<sweep, manifest, line>>
        /\ \/ pc = "point" /\ pc' = "payloads"
           \/ pc = "payloads" /\ pc' \in {"run", "line"}
    BY <1>4 DEF Points, PointAt, PayloadsOk, PayloadsBad, Skip, GoTo, where
  <2>2. QED
    BY <2>1, StageNearer DEF StagesLeft, Runs
<1>5. CASE StopForRun \/ CleanStaleContainers \/ Ups
  <2>1. /\ UNCHANGED <<sweep, manifest, line, dur>>
        /\ \/ pc = "run" /\ pc' = "clean"
           \/ pc = "clean" /\ pc' = "up"
           \/ pc = "up" /\ pc' = "rpc"
    BY <1>5 DEF StopForRun, InfraDown, CleanStaleContainers, Ups, InfraUp, InfraUpRaw, InfraUpFails,
           GoTo, where
  <2>2. RunLeft' < RunLeft
    BY <2>1 DEF RunLeft
  <2>3. QED
    BY <2>1, <2>2, RunNearer DEF Runs
<1>6. CASE RpcReady
  <2>1. UNCHANGED <<sweep, manifest, line, dur>> /\ pc = "rpc" /\ pc' = "bench"
    BY <1>6, Start DEF where
  <2>2. ScriptLeft' = 5
    <3>1. bpc'[sweep'] = "preflight"
      BY <1>6, <2>1, Start DEF TypeOK, SweepTypeOK, ScriptTypeOK
    <3>2. QED
      BY <3>1 DEF ScriptLeft, StepsOf
  <2>3. RunLeft' < RunLeft
    BY <2>1, <2>2 DEF RunLeft
  <2>4. QED
    BY <2>1, <2>3, RunNearer DEF Runs
<1>7. CASE RpcNotReady \/ Judge
  BY <1>7, DurationNearer DEF RpcNotReady, Judge
<1>8. CASE Bench
  <2>1. UNCHANGED <<sweep, manifest, line, dur, pc>> /\ pc = "bench" /\ ScriptRuns(sweep)
    BY <1>8 DEF Bench, where
  <2>2. sweep \in Sweeps
    BY DEF TypeOK, SweepTypeOK
  <2>3. ScriptLeft' < ScriptLeft
    BY <2>1, <2>2, ScriptNearer DEF ScriptLeft
  <2>4. RunLeft' < RunLeft
    BY <2>1, <2>3 DEF RunLeft
  <2>5. QED
    BY <2>1, <2>4, RunNearer DEF Runs
<1>9. CASE Kill
  <2>1. UNCHANGED <<sweep, manifest, line>> /\ pc \notin {"printed", "dead"} /\ pc' = "dead"
    BY <1>9 DEF Kill, where
  <2>2. StagesLeft' = 0 /\ StagesLeft > 0
    BY <2>1 DEF StagesLeft, TypeOK, SweepTypeOK, Stages, Idle, Pointed, Runs
  <2>3. QED
    BY <2>1, <2>2, StageNearer
<1>10. CASE NewSweep
  <2>1. sweep' = sweep + 1 /\ sweep \in Nat /\ MaxSweeps \in Nat
    BY <1>10, SweepAssumption DEF NewSweep, TypeOK, SweepTypeOK, Sweeps
  <2>2. QED
    BY <2>1 DEF Nearer, SweepsLeft
<1>11. QED
  BY <1>1, <1>2, <1>3, <1>4, <1>5, <1>6, <1>7, <1>8, <1>9, <1>10
     DEF SweepStep, Fetches, Points, Ups

\* The safety half of "never abort the sweep" (line 318) and of every wait in
\* it: a sweep, as each of the scripts it runs, comes nearer to its summary
\* with every step, whatever fails; downloads and replays do not set it back.
THEOREM SweepIsFinite ==
    Spec => /\ [](/\ SweepsLeft \in Nat /\ LinesLeft \in Nat /\ StagesLeft \in Nat
                  /\ DursLeft \in Nat /\ RunLeft \in Nat)
            /\ [][(SweepStep => Nearer) /\ (Nearer \/ AsFar)]_vars
<1>1. SweepInv /\ [Next]_vars => [(SweepStep => Nearer) /\ (Nearer \/ AsFar)]_vars
  <2>1. SUFFICES ASSUME SweepInv, Next PROVE (SweepStep => Nearer) /\ (Nearer \/ AsFar)
    OBVIOUS
  <2>2. SweepStep \/ Kill \/ NewSweep => Nearer
    BY <2>1, SweepNearer DEF SweepInv
  <2>3. SweepStep \/ Kill \/ NewSweep \/ Nearer \/ AsFar
    <3>1. CASE OfDownload
      BY <3>1, OtherScripts DEF OfDownload, where, scriptVars
    <3>2. CASE ReplayExits /\ SameSweep
      BY <3>2, OtherScripts DEF ReplayExits, SameSweep, where
    <3>3. CASE Straggle \/ OutOfMemory
      BY <2>1, <3>3, KilledNearer DEF SweepInv
    <3>4. QED
      BY <2>1, <3>1, <3>2, <3>3 DEF Next, Download, OfDownload, SameSweep
  <2>4. QED
    BY <2>2, <2>3
<1>2. SweepInv =>
         /\ SweepsLeft \in Nat /\ LinesLeft \in Nat /\ StagesLeft \in Nat
         /\ DursLeft \in Nat /\ RunLeft \in Nat
  <2>1. SUFFICES ASSUME SweepInv
                 PROVE  SweepsLeft \in Nat /\ LinesLeft \in Nat /\ DursLeft \in Nat
    <3>1. StagesLeft \in Nat
      BY DEF StagesLeft
    <3>2. ScriptLeft \in Nat
      BY DEF ScriptLeft, StepsOf
    <3>3. RunLeft \in Nat
      BY <3>2 DEF RunLeft
    <3>4. QED
      BY <3>1, <3>3
  <2>2. Len(manifest) \in Nat
    BY SweepAssumption DEF SweepInv, TypeOK, SweepTypeOK
  <2>3. QED
    BY <2>1, <2>2, SweepAssumption DEF SweepInv, TypeOK, SweepTypeOK, Sweeps, SweepsLeft, LinesLeft, DursLeft
<1>3. QED
  BY <1>1, <1>2, Invariance, PTL DEF Spec
=============================================================================
