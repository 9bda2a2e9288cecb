----------------------------- MODULE Milestones -----------------------------
(***************************************************************************)
(* What a client's runs leave under benchmarks/<milestone>/, and what the  *)
(* aggregator makes of it: run_benchmark_for_client (runner.py) writes the *)
(* sync measurements and starts Locust; aggregator.py captures the sync    *)
(* phase, and at the end assembles the report and picks the report of      *)
(* another milestone it is compared with.                                  *)
(*                                                                         *)
(* The files of one client never meet those of another, so there is one    *)
(* client.  A measurement is the number of the run it was made in, and so  *)
(* is the timestamp of a report: runs follow one another.  The comparison  *)
(* itself, float by float, is left out.  A file being written when its     *)
(* process dies is torn: it exists and does not parse.                     *)
(***************************************************************************)
EXTENDS Integers

CONSTANTS
    Dirs,          \* milestones
    MaxRuns,       \* bound on runs
    Faults         \* what may go wrong

ASSUME MilestoneAssumption ==
    /\ MaxRuns \in Nat \ {0}
    /\ "none" \notin Dirs
    /\ Faults \subseteq {"sync", "capture", "du", "locust", "kill"}

VARIABLES
    runs,          \* runs so far
    pc,            \* where the current run is
    dir,           \* its milestone
    skipSync,      \* --skip-sync
    syncTime,      \* sync_time; None when no sync was seen
    dbSize,        \* db_size
    syncFile,      \* sync_metrics_<client>.json
    phaseFile,     \* sync_phase_metrics_<client>.json
    statsFile,     \* locust_stats_stats.csv
    report,        \* metrics_<client>.json
    disturbed      \* history: milestones where a capture failed, or a run
                   \* ended between its capture and its sync file

vars == <<runs, pc, dir, skipSync, syncTime, dbSize, syncFile, phaseFile, statsFile, report,
          disturbed>>

None == 0
Torn == -1
Missing == [kind |-> "missing"]
TornFile == [kind |-> "torn"]
Is(f, k) == f.kind = k

SyncFiles == {Missing, TornFile}
             \cup [kind : {"sync"}, time : 0..MaxRuns, db : 0..MaxRuns]
StatsFiles == {Missing} \cup [kind : {"stats"}, run : 1..MaxRuns]
\* base is the milestone compared with, baseRun the run its report was of.
Reports == {Missing, TornFile}
           \cup [kind : {"report"}, run : 1..MaxRuns, stats : 1..MaxRuns,
                 sync : 0..MaxRuns, phase : 0..MaxRuns,
                 base : Dirs \cup {"none"}, baseRun : 0..MaxRuns]

TypeOK ==
    /\ runs \in 0..MaxRuns
    /\ pc \in {"idle", "sync", "capture", "reuse", "du", "write", "locust", "aggregate"}
    /\ dir \in Dirs
    /\ skipSync \in BOOLEAN
    /\ syncTime \in 0..MaxRuns /\ dbSize \in 0..MaxRuns
    /\ syncFile \in [Dirs -> SyncFiles]
    /\ phaseFile \in [Dirs -> -1..MaxRuns]
    /\ statsFile \in [Dirs -> StatsFiles]
    /\ report \in [Dirs -> Reports]
    /\ disturbed \subseteq Dirs

Init ==
    /\ runs = 0 /\ pc = "idle"
    /\ dir \in Dirs
    /\ skipSync = FALSE
    /\ syncTime = None /\ dbSize = None
    /\ syncFile = [d \in Dirs |-> Missing]
    /\ phaseFile = [d \in Dirs |-> None]
    /\ statsFile = [d \in Dirs |-> Missing]
    /\ report = [d \in Dirs |-> Missing]
    /\ disturbed = {}

Fault(f) == f \in Faults
UnchangedFiles == UNCHANGED <<syncFile, phaseFile, statsFile, report>>
UnchangedRun == UNCHANGED <<runs, dir, skipSync, disturbed>>

\* The run is over, and its local variables with it.
EndRun == pc' = "idle" /\ syncTime' = None /\ dbSize' = None

-----------------------------------------------------------------------------
(* run_benchmark_for_client.                                               *)
StartRun(d, skip) ==
    /\ pc = "idle" /\ runs < MaxRuns
    /\ runs' = runs + 1 /\ dir' = d /\ skipSync' = skip
    /\ syncTime' = None /\ dbSize' = None
    /\ pc' = IF skip THEN "reuse" ELSE "sync"
    /\ UnchangedFiles /\ UNCHANGED disturbed

\* measure_sync_time: a duration, None, or an exception.
MeasureSync ==
    /\ pc = "sync"
    /\ syncTime' \in {None, runs}
    /\ pc' = "capture"
    /\ UNCHANGED dbSize /\ UnchangedRun /\ UnchangedFiles

SyncRaises ==
    /\ Fault("sync") /\ pc = "sync"
    /\ EndRun
    /\ UnchangedRun /\ UnchangedFiles

\* aggregator.py --phase sync, whose failure is not fatal: it may fail before
\* it writes, or die while it does.
CaptureSyncPhase ==
    /\ pc = "capture"
    /\ phaseFile' = [phaseFile EXCEPT ![dir] = runs]
    /\ pc' = "du"
    /\ UNCHANGED <<syncTime, dbSize, syncFile, statsFile, report>> /\ UnchangedRun

CaptureFails ==
    /\ Fault("capture") /\ pc = "capture"
    /\ phaseFile' \in {phaseFile, [phaseFile EXCEPT ![dir] = Torn]}
    /\ pc' = "du"
    /\ disturbed' = disturbed \cup {dir}
    /\ UNCHANGED <<runs, dir, skipSync, syncTime, dbSize, syncFile, statsFile, report>>

\* Mutant: a run without the sync phase captures it all the same.
ReuseSync_Capture ==
    /\ pc = "reuse" /\ ~Is(syncFile[dir], "torn")
    /\ IF Is(syncFile[dir], "sync")
       THEN syncTime' = syncFile[dir].time /\ dbSize' = syncFile[dir].db
       ELSE UNCHANGED <<syncTime, dbSize>>
    /\ phaseFile' = [phaseFile EXCEPT ![dir] = runs]
    /\ pc' = "du"
    /\ UNCHANGED <<syncFile, statsFile, report>> /\ UnchangedRun

\* Mutant: the earlier measurement is not looked for.
ReuseSync_Forget ==
    /\ pc = "reuse" /\ ~Is(syncFile[dir], "torn")
    /\ pc' = "du"
    /\ UNCHANGED <<syncTime, dbSize>> /\ UnchangedRun /\ UnchangedFiles

\* --skip-sync: what an earlier run measured.  Nothing guards the parse.
ReuseSync ==
    /\ pc = "reuse" /\ ~Is(syncFile[dir], "torn")
    /\ IF Is(syncFile[dir], "sync")
       THEN syncTime' = syncFile[dir].time /\ dbSize' = syncFile[dir].db
       ELSE UNCHANGED <<syncTime, dbSize>>
    /\ pc' = "du"
    /\ UnchangedRun /\ UnchangedFiles

ReuseRaises ==
    /\ pc = "reuse" /\ Is(syncFile[dir], "torn")
    /\ EndRun
    /\ UnchangedRun /\ UnchangedFiles

\* measure_db_size: None falls back on what an earlier run measured.
MeasureDb ==
    /\ pc = "du"
    /\ dbSize' = runs \/ (Fault("du") /\ dbSize' = dbSize)
    /\ pc' = "write"
    /\ UNCHANGED syncTime /\ UnchangedRun /\ UnchangedFiles

\* Only three kinds of exception are caught: an OSError of the command (no
\* docker or ssh to run) ends the run.
MeasureDbRaises ==
    /\ Fault("du") /\ pc = "du"
    /\ EndRun
    /\ disturbed' = disturbed \cup {dir}
    /\ UNCHANGED <<runs, dir, skipSync>> /\ UnchangedFiles

WriteSyncMetrics ==
    /\ pc = "write"
    /\ syncFile' = [syncFile EXCEPT ![dir] = [kind |-> "sync", time |-> syncTime, db |-> dbSize]]
    /\ pc' = "locust"
    /\ UNCHANGED <<syncTime, dbSize, phaseFile, statsFile, report>> /\ UnchangedRun

\* Locust's CSVs.
WriteStats == statsFile' = [statsFile EXCEPT ![dir] = [kind |-> "stats", run |-> runs]]

RunLocust ==
    /\ pc = "locust"
    /\ WriteStats
    /\ pc' = "aggregate"
    /\ UNCHANGED <<syncTime, dbSize, syncFile, phaseFile, report>> /\ UnchangedRun

\* Mutant: the exit code is not checked, and the report is made anyway.
LocustFails_GoOn ==
    /\ Fault("locust") /\ pc = "locust"
    /\ WriteStats \/ (UNCHANGED statsFile /\ ~Is(statsFile[dir], "missing"))
    /\ pc' = "aggregate"
    /\ UNCHANGED <<syncTime, dbSize, syncFile, phaseFile, report>> /\ UnchangedRun

\* A non-zero exit raises (check=True), whether its CSVs were written or not.
\* It is Locust's default when a request failed.
LocustFails ==
    /\ Fault("locust") /\ pc = "locust"
    /\ WriteStats \/ UNCHANGED statsFile
    /\ EndRun
    /\ UNCHANGED <<syncFile, phaseFile, report>> /\ UnchangedRun

-----------------------------------------------------------------------------
(* aggregator.py, --phase load.                                            *)

\* find_previous_milestone: the readable reports of other milestones.
Candidates == {d \in Dirs \ {dir} : Is(report[d], "report")}

\* Mutant: the first of the sorted candidates is taken.
Previous_First == CHOOSE d \in Candidates : \A e \in Candidates : report[e].run >= report[d].run

\* The last one, sorted by timestamp.
Previous == CHOOSE d \in Candidates : \A e \in Candidates : report[e].run <= report[d].run

\* A sync-phase file that does not parse is left out.
PhasePart == IF phaseFile[dir] = Torn THEN None ELSE phaseFile[dir]

Report ==
    [kind |-> "report", run |-> runs, stats |-> statsFile[dir].run,
     sync |-> IF Is(syncFile[dir], "sync") THEN syncFile[dir].time ELSE None,
     phase |-> PhasePart,
     base |-> IF Candidates # {} THEN Previous ELSE "none",
     baseRun |-> IF Candidates # {} THEN report[Previous].run ELSE None]

Aggregate ==
    /\ pc = "aggregate"
    /\ report' = [report EXCEPT ![dir] = Report]
    /\ EndRun
    /\ UNCHANGED <<syncFile, phaseFile, statsFile>> /\ UnchangedRun

\* The run is killed with its subprocesses (a signal to their process group),
\* while one of them writes a file or elsewhere.
Kill ==
    /\ Fault("kill") /\ pc # "idle"
    /\ EndRun
    /\ \/ UnchangedFiles
       \/ /\ pc = "capture" /\ phaseFile' = [phaseFile EXCEPT ![dir] = Torn]
          /\ UNCHANGED <<syncFile, statsFile, report>>
       \/ /\ pc = "write" /\ syncFile' = [syncFile EXCEPT ![dir] = TornFile]
          /\ UNCHANGED <<phaseFile, statsFile, report>>
       \/ /\ pc = "aggregate" /\ report' = [report EXCEPT ![dir] = TornFile]
          /\ UNCHANGED <<syncFile, phaseFile, statsFile>>
    /\ disturbed' = disturbed \cup {dir}
    /\ UNCHANGED <<runs, dir, skipSync>>

Next ==
    \/ \E d \in Dirs, skip \in BOOLEAN : StartRun(d, skip)
    \/ MeasureSync \/ SyncRaises \/ CaptureSyncPhase \/ CaptureFails
    \/ ReuseSync \/ ReuseRaises \/ MeasureDb \/ MeasureDbRaises \/ WriteSyncMetrics
    \/ RunLocust \/ LocustFails \/ Aggregate \/ Kill

Spec == Init /\ [][Next]_vars

-----------------------------------------------------------------------------
(* Properties.                                                             *)
Reported(d) == Is(report[d], "report")

\* A report's RPC numbers are those of its own run's load test, never what an
\* earlier or a failed load test of the milestone left in the directory.
ReportedLoadIsItsOwn == \A d \in Dirs : Reported(d) => report[d].stats = report[d].run

\* The sync time and the sync-phase metrics of a report were taken in the same
\* sync, over any number of runs with and without --skip-sync in between, as
\* long as no capture of the milestone failed ("Non-fatal", runner.py:581) and
\* no run of it was killed, or ended by measure_db_size, after its capture.
SyncPartsAgree ==
    \A d \in Dirs \ disturbed :
        Reported(d) /\ report[d].sync # None => report[d].phase = report[d].sync

\* A run with --skip-sync never loses what an earlier run measured: "Honor an
\* existing snapshot if --skip-sync is set" (runner.py:588).
SkipSyncKeeps ==
    [][\A d \in Dirs :
          skipSync /\ Is(syncFile[d], "sync") /\ Is(syncFile'[d], "sync") =>
              /\ syncFile'[d].time = syncFile[d].time
              /\ syncFile[d].db # None => syncFile'[d].db # None]_vars

\* "The most recent prior run for this client" (aggregator.py:214): whatever
\* reports were made, torn and made anew before it, a report is compared with
\* one of another milestone, and no report that was there when it was made is
\* more recent than that one.
BaselineIsLatest ==
    \A d, e \in Dirs :
        Reported(d) /\ Reported(e) /\ d # e /\ report[e].run < report[d].run =>
            /\ report[d].base \notin {d, "none"}
            /\ report[e].run <= report[d].baseRun
=============================================================================
