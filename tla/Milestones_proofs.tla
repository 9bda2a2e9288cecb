-------------------------- MODULE Milestones_proofs -------------------------
(***************************************************************************)
(* Proofs about Milestones, for any milestones and number of runs.         *)
(***************************************************************************)
EXTENDS Milestones, WellFoundedInduction, TLAPS

\* What the run in progress knows of its own files.
RunInv ==
    /\ TypeOK
    /\ pc \in {"sync", "capture"} => ~skipSync
    /\ pc = "reuse" => skipSync /\ syncTime = None
    /\ pc = "capture" => syncTime \in {None, runs}
    /\ pc # "idle" => runs > 0
    /\ pc = "aggregate" => Is(statsFile[dir], "stats") /\ statsFile[dir].run = runs

\* Between the capture of the sync phase and the sync measurements of the
\* same run, the two files of a milestone may disagree; otherwise they do not.
Capturing(d) == dir = d /\ pc \in {"du", "write"} /\ ~skipSync
SyncInv(d) ==
    /\ Capturing(d) => phaseFile[d] = runs /\ syncTime \in {None, runs}
    /\ ~Capturing(d) /\ Is(syncFile[d], "sync") /\ syncFile[d].time # None =>
          phaseFile[d] = syncFile[d].time
    /\ dir = d /\ pc \in {"du", "write"} /\ skipSync /\ syncTime # None => phaseFile[d] = syncTime
    /\ Reported(d) /\ report[d].sync # None => report[d].phase = report[d].sync

\* The report that is being assembled.
LEMMA StatsHere ==
    ASSUME TypeOK, Is(statsFile[dir], "stats")
    PROVE  statsFile[dir] \in [kind : {"stats"}, run : 1..MaxRuns]
BY DEF TypeOK, StatsFiles, Is, Missing

\* There is a latest candidate.
LEMMA PreviousIsCandidate ==
    ASSUME TypeOK, Candidates # {}
    PROVE  Previous \in Candidates /\ \A e \in Candidates : report[e].run <= report[Previous].run
<1> DEFINE Ages == {MaxRuns - report[d].run : d \in Candidates}
<1>1. \A d \in Candidates : report[d].run \in 1..MaxRuns
  BY DEF Candidates, TypeOK, Reports, Is, Missing, TornFile
<1>2. MaxRuns \in Nat
  BY MilestoneAssumption
<1>3. Ages \subseteq Nat /\ Ages # {}
  BY <1>1, <1>2
<1>4. PICK x \in Ages : \A y \in Ages : ~(<<y, x>> \in OpToRel(<, Nat))
  BY <1>3, NatLessThanWellFounded, WFMin
<1>5. PICK d \in Candidates : x = MaxRuns - report[d].run
  OBVIOUS
<1>6. \A e \in Candidates : report[e].run <= report[d].run
  <2> TAKE e \in Candidates
  <2>1. MaxRuns - report[e].run \in Ages /\ x \in Nat /\ MaxRuns - report[e].run \in Nat
    BY <1>3
  <2>2. ~(MaxRuns - report[e].run < x)
    BY <1>4, <2>1 DEF OpToRel
  <2>3. QED
    BY <1>1, <1>2, <1>5, <2>1, <2>2
<1>7. QED
  BY <1>6 DEF Previous

\* What a report says, without the definitions it is built from.
LEMMA ReportType ==
    ASSUME TypeOK, Is(statsFile[dir], "stats"), statsFile[dir].run = runs, runs > 0
    PROVE  /\ Report \in Reports /\ Report.kind = "report"
           /\ Report.run = runs /\ Report.stats = runs
           /\ Report.sync = IF Is(syncFile[dir], "sync") THEN syncFile[dir].time ELSE None
           /\ Report.phase = PhasePart
           /\ Candidates # {} =>
                /\ Report.base \in Candidates
                /\ \A e \in Candidates : report[e].run <= Report.baseRun
<1> USE MilestoneAssumption
<1>1. /\ statsFile[dir] \in [kind : {"stats"}, run : 1..MaxRuns]
      /\ dir \in Dirs /\ runs \in 1..MaxRuns
  BY StatsHere DEF TypeOK
<1>2. PhasePart \in 0..MaxRuns
  <2>1. phaseFile[dir] \in -1..MaxRuns
    BY DEF TypeOK
  <2>2. QED
    BY <2>1 DEF PhasePart, Torn, None
<1>3. (IF Is(syncFile[dir], "sync") THEN syncFile[dir].time ELSE None) \in 0..MaxRuns
  BY <1>1 DEF TypeOK, SyncFiles, Is, Missing, TornFile, None
<1>4. ASSUME Candidates # {}
      PROVE  /\ Previous \in Candidates /\ Previous \in Dirs
             /\ report[Previous].run \in 0..MaxRuns
             /\ \A e \in Candidates : report[e].run <= report[Previous].run
  <2>1. Previous \in Candidates /\ \A e \in Candidates : report[e].run <= report[Previous].run
    BY <1>4, PreviousIsCandidate
  <2>2. QED
    BY <2>1 DEF Candidates, TypeOK, Reports, Is, Missing, TornFile
<1>5. /\ (IF Candidates # {} THEN Previous ELSE "none") \in Dirs \cup {"none"}
      /\ (IF Candidates # {} THEN report[Previous].run ELSE None) \in 0..MaxRuns
  BY <1>4 DEF None
<1>6. Report \in [kind : {"report"}, run : 1..MaxRuns, stats : 1..MaxRuns,
                  sync : 0..MaxRuns, phase : 0..MaxRuns,
                  base : Dirs \cup {"none"}, baseRun : 0..MaxRuns]
  BY <1>1, <1>2, <1>3, <1>5 DEF Report
<1>7. Report \in Reports
  BY <1>6 DEF Reports
<1>8. Candidates # {} => Report.base = Previous /\ Report.baseRun = report[Previous].run
  BY DEF Report
<1>9. QED
  BY <1>4, <1>7, <1>8 DEF Report

\* The files that no step but the named one touches.
LEMMA TypeStep == TypeOK /\ RunInv /\ [Next]_vars => TypeOK'
<1> USE MilestoneAssumption
<1> SUFFICES ASSUME TypeOK, RunInv, [Next]_vars PROVE TypeOK'
  OBVIOUS
<1> /\ runs \in 0..MaxRuns /\ dir \in Dirs /\ syncTime \in 0..MaxRuns /\ dbSize \in 0..MaxRuns
    /\ None \in 0..MaxRuns
  BY DEF TypeOK, None
<1>1. ASSUME NEW d \in Dirs, NEW skip \in BOOLEAN, StartRun(d, skip) PROVE TypeOK'
  BY <1>1 DEF TypeOK, StartRun, UnchangedFiles
<1>2. CASE MeasureSync \/ SyncRaises
  BY <1>2 DEF TypeOK, MeasureSync, SyncRaises, EndRun, UnchangedFiles, UnchangedRun
<1>3. CASE CaptureSyncPhase
  BY <1>3 DEF TypeOK, CaptureSyncPhase, UnchangedRun
<1>4. CASE CaptureFails
  <2>1. Torn \in -1..MaxRuns
    BY DEF Torn
  <2>2. phaseFile' \in [Dirs -> -1..MaxRuns]
    BY <1>4, <2>1 DEF TypeOK, CaptureFails
  <2>3. QED
    BY <1>4, <2>2 DEF TypeOK, CaptureFails
<1>5. CASE ReuseSync
  <2>1. syncTime' \in 0..MaxRuns /\ dbSize' \in 0..MaxRuns
    BY <1>5 DEF TypeOK, ReuseSync, SyncFiles, Is, Missing, TornFile
  <2>2. QED
    BY <1>5, <2>1 DEF TypeOK, ReuseSync, UnchangedFiles, UnchangedRun
<1>6. CASE ReuseRaises
  BY <1>6 DEF TypeOK, ReuseRaises, EndRun, UnchangedFiles, UnchangedRun
<1>7. CASE MeasureDb \/ MeasureDbRaises
  BY <1>7 DEF TypeOK, MeasureDb, MeasureDbRaises, EndRun, UnchangedFiles, UnchangedRun
<1>8. CASE WriteSyncMetrics
  <2>1. [kind |-> "sync", time |-> syncTime, db |-> dbSize] \in SyncFiles
    BY DEF SyncFiles
  <2>2. QED
    BY <1>8, <2>1 DEF TypeOK, WriteSyncMetrics, UnchangedRun
<1>9. ASSUME WriteStats \/ UNCHANGED statsFile, runs > 0
      PROVE  statsFile' \in [Dirs -> StatsFiles]
  <2>1. [kind |-> "stats", run |-> runs] \in StatsFiles
    BY <1>9 DEF StatsFiles
  <2>2. QED
    BY <1>9, <2>1 DEF WriteStats, TypeOK
<1>10. CASE RunLocust
  BY <1>9, <1>10 DEF TypeOK, RunLocust, UnchangedRun, RunInv
<1>11. CASE LocustFails
  BY <1>9, <1>11 DEF TypeOK, LocustFails, EndRun, UnchangedRun, RunInv
<1>12. CASE Aggregate
  <2>1. Report \in Reports
    BY <1>12, ReportType DEF RunInv, Aggregate
  <2>2. QED
    BY <1>12, <2>1 DEF TypeOK, Aggregate, EndRun, UnchangedRun
<1>13. CASE Kill
  <2>1. TornFile \in SyncFiles /\ TornFile \in Reports /\ Torn \in -1..MaxRuns
    BY DEF SyncFiles, Reports, Torn
  <2>2. /\ syncFile' \in [Dirs -> SyncFiles] /\ phaseFile' \in [Dirs -> -1..MaxRuns]
        /\ report' \in [Dirs -> Reports] /\ statsFile' = statsFile
    BY <1>13, <2>1 DEF TypeOK, Kill, UnchangedFiles
  <2>3. QED
    BY <1>13, <2>2 DEF TypeOK, Kill, EndRun
<1>14. CASE UNCHANGED vars
  BY <1>14 DEF TypeOK, vars
<1>15. QED
  BY <1>1, <1>2, <1>3, <1>4, <1>5, <1>6, <1>7, <1>8, <1>10, <1>11, <1>12, <1>13, <1>14 DEF Next

LEMMA RunStep == RunInv /\ [Next]_vars => RunInv'
<1> SUFFICES ASSUME RunInv, [Next]_vars PROVE RunInv'
  OBVIOUS
<1>1. TypeOK /\ TypeOK'
  BY TypeStep DEF RunInv
<1>2. runs \in Nat /\ syncTime \in Nat /\ dir \in Dirs /\ statsFile \in [Dirs -> StatsFiles]
  BY <1>1, MilestoneAssumption DEF TypeOK
<1>3. ASSUME NEW d \in Dirs, NEW skip \in BOOLEAN, StartRun(d, skip) PROVE RunInv'
  BY <1>1, <1>2, <1>3 DEF RunInv, StartRun
<1>4. CASE MeasureSync
  BY <1>1, <1>4 DEF RunInv, MeasureSync, UnchangedRun
<1>5. ASSUME pc' = "idle" PROVE RunInv'
  BY <1>1, <1>5 DEF RunInv
<1>6. CASE SyncRaises \/ ReuseRaises \/ MeasureDbRaises \/ LocustFails \/ Aggregate \/ Kill
  BY <1>5, <1>6 DEF SyncRaises, MeasureDbRaises, ReuseRaises, LocustFails, Aggregate, Kill, EndRun
<1>7. CASE CaptureSyncPhase \/ CaptureFails \/ ReuseSync \/ MeasureDb \/ WriteSyncMetrics
  BY <1>1, <1>7 DEF RunInv, CaptureSyncPhase, CaptureFails, ReuseSync, MeasureDb, WriteSyncMetrics,
     UnchangedRun
<1>8. CASE RunLocust
  <2>1. Is(statsFile'[dir], "stats") /\ statsFile'[dir].run = runs
    BY <1>2, <1>8 DEF RunLocust, WriteStats, Is
  <2>2. QED
    BY <1>1, <1>8, <2>1 DEF RunInv, RunLocust, UnchangedRun, Is
<1>9. CASE UNCHANGED vars
  BY <1>1, <1>9 DEF RunInv, vars
<1>10. QED
  BY <1>3, <1>4, <1>6, <1>7, <1>8, <1>9 DEF Next

LEMMA RunInductive == Spec => []RunInv
<1>1. Init => TypeOK
  <2>1. 0 \in 0..MaxRuns /\ 0 \in -1..MaxRuns
    BY MilestoneAssumption
  <2>2. Missing \in SyncFiles /\ Missing \in StatsFiles /\ Missing \in Reports
    BY DEF SyncFiles, StatsFiles, Reports
  <2>3. QED
    BY <2>1, <2>2 DEF Init, TypeOK, None
<1>2. Init => RunInv
  BY <1>1 DEF Init, RunInv
<1>3. QED
  BY <1>2, RunStep, PTL DEF Spec

\* Type correctness of a client's files, torn ones included.
THEOREM TypeCorrect == Spec => []TypeOK
<1>1. RunInv => TypeOK
  BY DEF RunInv
<1>2. QED
  BY <1>1, RunInductive, PTL

\* A step leaves the reports alone, tears one, or adds that of its own run.
LEMMA ReportMoves ==
    ASSUME RunInv, [Next]_vars, NEW d \in Dirs, Reported(d)'
    PROVE  \/ Reported(d) /\ report'[d] = report[d]
           \/ Aggregate /\ d = dir /\ report'[d] = Report
<1>1. TypeOK /\ dir \in Dirs /\ report \in [Dirs -> Reports]
  BY DEF RunInv, TypeOK
<1>2. CASE UNCHANGED report
  BY <1>2 DEF Reported, Is
<1>3. CASE Aggregate
  BY <1>1, <1>3 DEF Aggregate, Reported, Is
<1>4. CASE Kill
  <2>1. UNCHANGED report \/ report' = [report EXCEPT ![dir] = TornFile]
    BY <1>4 DEF Kill, UnchangedFiles
  <2>2. QED
    BY <1>1, <1>2, <2>1 DEF Reported, Is, TornFile
<1>5. QED
  BY <1>2, <1>3, <1>4 DEF Next, StartRun, MeasureSync, SyncRaises, CaptureSyncPhase, CaptureFails,
     ReuseSync, ReuseRaises, MeasureDb, MeasureDbRaises, WriteSyncMetrics, RunLocust, LocustFails, UnchangedFiles, vars

\* Over any number of runs, kills and failed load tests, a report's RPC numbers
\* are those of its own run.
THEOREM LoadIsItsOwn == Spec => []ReportedLoadIsItsOwn
<1>1. Init => ReportedLoadIsItsOwn
  BY DEF Init, ReportedLoadIsItsOwn, Reported, Is, Missing
<1>2. RunInv /\ ReportedLoadIsItsOwn /\ [Next]_vars => ReportedLoadIsItsOwn'
  <2> SUFFICES ASSUME RunInv, ReportedLoadIsItsOwn, [Next]_vars, NEW d \in Dirs, Reported(d)'
               PROVE  report'[d].stats = report'[d].run
    BY DEF ReportedLoadIsItsOwn
  <2>1. CASE Reported(d) /\ report'[d] = report[d]
    BY <2>1 DEF ReportedLoadIsItsOwn
  <2>2. CASE Aggregate /\ report'[d] = Report
    BY <2>2, ReportType DEF RunInv, Aggregate
  <2>3. QED
    BY <2>1, <2>2, ReportMoves
<1>3. QED
  BY <1>1, <1>2, RunInductive, PTL DEF Spec

\* Reports are of runs that are over, but for the last step of one.
AgeInv ==
    \A d \in Dirs : Reported(d) =>
        report[d].run <= runs /\ (pc # "idle" => report[d].run < runs)

\* A run in progress has not reported.
LEMMA AgeStep == RunInv /\ AgeInv /\ [Next]_vars => AgeInv'
<1> SUFFICES ASSUME RunInv, AgeInv, [Next]_vars, NEW d \in Dirs, Reported(d)'
             PROVE  report'[d].run <= runs' /\ (pc' # "idle" => report'[d].run < runs')
  BY DEF AgeInv
<1>1. /\ TypeOK /\ runs \in Nat
      /\ Reported(d) => report[d].run \in Nat
  BY MilestoneAssumption DEF RunInv, TypeOK, Reports, Reported, Is, Missing, TornFile
<1>2. CASE Aggregate /\ d = dir /\ report'[d] = Report
  <2>1. Report.run = runs
    BY <1>1, <1>2, ReportType DEF RunInv, Aggregate
  <2>2. QED
    BY <1>1, <1>2, <2>1 DEF Aggregate, EndRun, UnchangedRun
<1>3. CASE Reported(d) /\ report'[d] = report[d]
  <2>1. report[d].run <= runs /\ (pc # "idle" => report[d].run < runs) /\ report[d].run \in Nat
    BY <1>1, <1>3 DEF AgeInv
  <2>2. \/ runs' = runs + 1 /\ pc = "idle"
        \/ runs' = runs /\ (pc = "idle" => pc' = "idle")
    BY DEF Next, StartRun, MeasureSync, SyncRaises, CaptureSyncPhase, CaptureFails, ReuseSync,
       ReuseRaises, MeasureDb, MeasureDbRaises, WriteSyncMetrics, RunLocust, LocustFails, Aggregate,
       Kill, UnchangedRun, EndRun, vars
  <2>3. QED
    BY <1>1, <1>3, <2>1, <2>2
<1>4. QED
  BY <1>2, <1>3, ReportMoves

\* Over any number of runs, torn reports and reports made anew, a report is
\* compared with the most recent of another milestone.
THEOREM BaselineLatest == Spec => []BaselineIsLatest
<1>1. Init => BaselineIsLatest /\ AgeInv
  BY DEF Init, BaselineIsLatest, AgeInv, Reported, Is, Missing
<1>2. RunInv /\ AgeInv /\ BaselineIsLatest /\ [Next]_vars => BaselineIsLatest'
  <2> SUFFICES ASSUME RunInv, AgeInv, BaselineIsLatest, [Next]_vars, NEW d \in Dirs, NEW e \in Dirs,
                      Reported(d)', Reported(e)', d # e, report'[e].run < report'[d].run
               PROVE  report'[d].base \notin {d, "none"} /\ report'[e].run <= report'[d].baseRun
    BY DEF BaselineIsLatest
  <2>1. /\ runs \in Nat /\ dir \in Dirs /\ "none" \notin Dirs
        /\ Reported(d) => report[d].run \in Nat /\ report[d].run <= runs
    BY MilestoneAssumption DEF RunInv, TypeOK, Reports, Reported, Is, Missing, TornFile, AgeInv
  <2>2. CASE Aggregate /\ d = dir /\ report'[d] = Report
    <3>1. Reported(e) /\ report'[e] = report[e]
      BY <2>2, ReportMoves
    <3>2. e \in Candidates
      BY <2>2, <3>1 DEF Candidates, Reported
    <3>3. Report.base \in Candidates /\ report[e].run <= Report.baseRun
      BY <2>2, <3>2, ReportType DEF RunInv, Aggregate
    <3>4. Report.base \in Dirs /\ Report.base # d
      BY <2>2, <3>3 DEF Candidates
    <3>5. QED
      BY <2>1, <2>2, <3>1, <3>3, <3>4
  <2>3. CASE Reported(d) /\ report'[d] = report[d]
    <3>1. CASE Reported(e) /\ report'[e] = report[e]
      BY <2>3, <3>1 DEF BaselineIsLatest
    <3>2. CASE Aggregate /\ report'[e] = Report
      <4>1. Report.run = runs
        BY <3>2, ReportType DEF RunInv, Aggregate
      <4>2. QED
        BY <2>1, <2>3, <3>2, <4>1
    <3>3. QED
      BY <3>1, <3>2, ReportMoves
  <2>4. QED
    BY <2>2, <2>3, ReportMoves
<1>3. QED
  BY <1>1, <1>2, AgeStep, RunInductive, PTL DEF Spec

SyncPartsInv == \A d \in Dirs \ disturbed : SyncInv(d)

LEMMA PhaseTyped ==
    ASSUME TypeOK, NEW d \in Dirs
    PROVE  /\ phaseFile[d] \in -1..MaxRuns
           /\ Is(syncFile[d], "sync") => syncFile[d].time \in 0..MaxRuns
           /\ runs \in 0..MaxRuns /\ syncTime \in 0..MaxRuns
           /\ syncFile \in [Dirs -> SyncFiles] /\ phaseFile \in [Dirs -> -1..MaxRuns]
           /\ report \in [Dirs -> Reports]
BY DEF TypeOK, SyncFiles, Is, Missing, TornFile

\* A step of another milestone's run, or one that touches none of the files
\* and stays outside the window, says nothing new.
LEMMA SyncUntouched ==
    ASSUME NEW d \in Dirs, SyncInv(d),
           UNCHANGED <<phaseFile, syncFile, report>>,
           ~Capturing(d),
           ~(dir' = d /\ pc' \in {"du", "write"})
    PROVE  SyncInv(d)'
BY DEF SyncInv, Capturing, Reported, Is

LEMMA SyncStep == RunInv /\ SyncPartsInv /\ [Next]_vars => SyncPartsInv'
<1> SUFFICES ASSUME RunInv, SyncPartsInv, [Next]_vars, NEW d \in Dirs, d \notin disturbed'
             PROVE  SyncInv(d)'
  BY DEF SyncPartsInv
<1>1. d \notin disturbed
  BY DEF Next, StartRun, MeasureSync, SyncRaises, CaptureSyncPhase, CaptureFails, ReuseSync,
     ReuseRaises, MeasureDb, MeasureDbRaises, WriteSyncMetrics, RunLocust, LocustFails, Aggregate, Kill, UnchangedRun, vars
<1>2. SyncInv(d) /\ TypeOK
  BY <1>1 DEF SyncPartsInv, RunInv
<1> /\ phaseFile[d] \in -1..MaxRuns /\ runs \in 0..MaxRuns /\ syncTime \in 0..MaxRuns
    /\ syncFile \in [Dirs -> SyncFiles] /\ phaseFile \in [Dirs -> -1..MaxRuns]
    /\ report \in [Dirs -> Reports]
  BY <1>2, PhaseTyped
<1>3. ASSUME NEW e \in Dirs, NEW skip \in BOOLEAN, StartRun(e, skip) PROVE SyncInv(d)'
  BY <1>2, <1>3, SyncUntouched DEF StartRun, UnchangedFiles, Capturing
<1>4. CASE MeasureSync \/ SyncRaises \/ ReuseRaises
  BY <1>2, <1>4, SyncUntouched DEF MeasureSync, SyncRaises, ReuseRaises, EndRun, UnchangedFiles, Capturing
<1>5. CASE CaptureSyncPhase
  <2>1. ~skipSync /\ syncTime \in {None, runs} /\ UNCHANGED <<syncFile, report, dir, skipSync, runs, syncTime>>
    BY <1>5 DEF RunInv, CaptureSyncPhase, UnchangedRun
  <2>2. CASE d = dir
    BY <1>2, <1>5, <2>1, <2>2 DEF SyncInv, Capturing, CaptureSyncPhase, Reported, Is
  <2>3. CASE d # dir
    BY <1>2, <1>5, <2>1, <2>3 DEF SyncInv, Capturing, CaptureSyncPhase, Reported, Is
  <2>4. QED
    BY <2>2, <2>3
<1>6. CASE CaptureFails
  <2>1. d # dir
    BY <1>6 DEF CaptureFails
  <2>2. phaseFile'[d] = phaseFile[d]
    BY <1>6, <2>1 DEF CaptureFails
  <2>3. QED
    BY <1>2, <1>6, <2>1, <2>2 DEF CaptureFails, SyncInv, Capturing, Reported, Is
<1>7. CASE ReuseSync
  <2>1. /\ skipSync /\ pc = "reuse" /\ syncTime = None
        /\ UNCHANGED <<phaseFile, syncFile, report, dir, skipSync, runs>>
    BY <1>7 DEF RunInv, ReuseSync, UnchangedFiles, UnchangedRun
  <2>2. ~Capturing(d) /\ ~Capturing(d)'
    BY <2>1 DEF Capturing
  <2>3. ASSUME d = dir, syncTime' # None PROVE phaseFile[d] = syncTime'
    <3>1. Is(syncFile[d], "sync") /\ syncTime' = syncFile[d].time
      BY <1>7, <2>1, <2>3 DEF ReuseSync
    <3>2. QED
      BY <1>2, <2>2, <2>3, <3>1 DEF SyncInv
  <2>4. QED
    BY <1>2, <2>1, <2>2, <2>3 DEF SyncInv, Reported, Is
<1>8. CASE MeasureDb
  BY <1>2, <1>8 DEF SyncInv, Capturing, MeasureDb, UnchangedFiles, UnchangedRun, Reported, Is
<1>14. CASE MeasureDbRaises
  <2>1. d # dir
    BY <1>14 DEF MeasureDbRaises
  <2>2. QED
    BY <1>2, <1>14, <2>1, SyncUntouched DEF MeasureDbRaises, EndRun, UnchangedFiles, Capturing
<1>9. CASE WriteSyncMetrics
  <2>1. UNCHANGED <<phaseFile, report, dir, skipSync, runs, syncTime>> /\ pc = "write" /\ pc' = "locust"
    BY <1>9 DEF WriteSyncMetrics, UnchangedRun
  <2>2. CASE d = dir
    <3>1. syncFile'[d].time = syncTime
      BY <1>9, <2>2 DEF WriteSyncMetrics
    <3>2. syncTime # None => phaseFile[d] = syncTime
      BY <1>2, <2>1, <2>2 DEF SyncInv, Capturing
    <3>3. QED
      BY <1>2, <2>1, <3>1, <3>2 DEF SyncInv, Capturing, Reported, Is
  <2>3. CASE d # dir
    <3>1. syncFile'[d] = syncFile[d]
      BY <1>9, <2>3 DEF WriteSyncMetrics
    <3>2. QED
      BY <1>2, <2>1, <2>3, <3>1 DEF SyncInv, Capturing, Reported, Is
  <2>4. QED
    BY <2>2, <2>3
<1>10. CASE RunLocust \/ LocustFails
  BY <1>2, <1>10, SyncUntouched DEF RunLocust, LocustFails, EndRun, Capturing
<1>11. CASE Aggregate
  <2>1. UNCHANGED <<phaseFile, syncFile, dir, skipSync, runs>> /\ pc = "aggregate" /\ pc' = "idle"
    BY <1>11 DEF Aggregate, EndRun, UnchangedRun
  <2>2. Reported(d)' /\ report'[d].sync # None => report'[d].phase = report'[d].sync
    <3>1. ASSUME Reported(d), report'[d] = report[d], report'[d].sync # None
          PROVE  report'[d].phase = report'[d].sync
      BY <1>2, <3>1 DEF SyncInv
    <3>2. ASSUME d = dir, report'[d] = Report, report'[d].sync # None
          PROVE  report'[d].phase = report'[d].sync
      <4>1. report'[d].sync = (IF Is(syncFile[d], "sync") THEN syncFile[d].time ELSE None)
            /\ report'[d].phase = PhasePart
        BY <2>1, <3>2, ReportType DEF RunInv
      <4>2. Is(syncFile[d], "sync") /\ syncFile[d].time # None /\ report'[d].sync = syncFile[d].time
        BY <3>2, <4>1
      <4>3. phaseFile[d] = syncFile[d].time
        BY <1>2, <2>1, <4>2 DEF SyncInv, Capturing
      <4>4. syncFile[d].time \in 0..MaxRuns
        BY <1>2, <4>2, PhaseTyped
      <4>5. phaseFile[d] # Torn
        BY <4>3, <4>4, MilestoneAssumption DEF Torn
      <4>6. QED
        BY <3>2, <4>1, <4>2, <4>3, <4>5 DEF PhasePart
    <3>3. QED
      BY <1>2, <3>1, <3>2, ReportMoves
  <2>3. QED
    BY <1>2, <2>1, <2>2 DEF SyncInv, Capturing, Is
<1>12. CASE Kill
  <2>1. d # dir /\ dir' = dir /\ pc' = "idle"
    BY <1>12 DEF Kill, EndRun
  <2>2. phaseFile'[d] = phaseFile[d] /\ syncFile'[d] = syncFile[d] /\ report'[d] = report[d]
    BY <1>12, <2>1 DEF Kill, UnchangedFiles
  <2>3. QED
    BY <1>2, <2>1, <2>2 DEF SyncInv, Capturing, Reported, Is
<1>13. CASE UNCHANGED vars
  BY <1>2, <1>13 DEF vars, SyncInv, Capturing, Reported, Is
<1>15. QED
  BY <1>3, <1>4, <1>5, <1>6, <1>7, <1>8, <1>9, <1>10, <1>11, <1>12, <1>13, <1>14 DEF Next

\* The sync time and the sync-phase metrics of a report come from one sync, for
\* any sequence of runs with and without --skip-sync.
THEOREM SyncAgrees == Spec => []SyncPartsAgree
<1>1. Init => SyncPartsInv
  <2> SUFFICES ASSUME Init, NEW d \in Dirs PROVE SyncInv(d)
    BY DEF SyncPartsInv
  <2>1. ~Reported(d) /\ ~Capturing(d) /\ ~Is(syncFile[d], "sync") /\ pc = "idle"
    BY DEF Init, Capturing, Reported, Is, Missing
  <2>2. QED
    BY <2>1 DEF SyncInv
<1>2. SyncPartsInv => SyncPartsAgree
  BY DEF SyncPartsInv, SyncInv, SyncPartsAgree
<1>3. QED
  BY <1>1, <1>2, SyncStep, RunInductive, PTL DEF Spec

-----------------------------------------------------------------------------
\* A run with --skip-sync carries the earlier measurement until it writes it.
CarryInv ==
    pc \in {"du", "write"} /\ skipSync /\ Is(syncFile[dir], "sync") =>
        /\ syncTime = syncFile[dir].time
        /\ syncFile[dir].db # None => dbSize # None

\* Sync measurements are written by WriteSyncMetrics, or torn.
LEMMA SyncFileMoves ==
    ASSUME RunInv, [Next]_vars
    PROVE  \/ UNCHANGED syncFile
           \/ WriteSyncMetrics
           \/ Kill /\ syncFile' = [syncFile EXCEPT ![dir] = TornFile]
BY DEF Next, StartRun, MeasureSync, SyncRaises, CaptureSyncPhase, CaptureFails, ReuseSync,
       ReuseRaises, MeasureDb, MeasureDbRaises, RunLocust, LocustFails, Aggregate, Kill, UnchangedFiles, vars

LEMMA CarryStep == RunInv /\ CarryInv /\ [Next]_vars => CarryInv'
<1> SUFFICES ASSUME RunInv, CarryInv, [Next]_vars PROVE CarryInv'
  OBVIOUS
<1>1. CASE MeasureDb
  <2>1. runs # None
    BY <1>1 DEF MeasureDb, RunInv, TypeOK, None
  <2>2. /\ pc \in {"du", "write"} /\ UNCHANGED <<syncFile, dir, skipSync, syncTime>>
        /\ dbSize' = runs \/ dbSize' = dbSize
    BY <1>1 DEF MeasureDb, UnchangedFiles, UnchangedRun
  <2>3. QED
    BY <2>1, <2>2 DEF CarryInv
<1>2. CASE ReuseSync
  BY <1>2 DEF CarryInv, ReuseSync, UnchangedFiles, UnchangedRun
<1>3. CASE CaptureSyncPhase \/ CaptureFails
  BY <1>3 DEF CarryInv, RunInv, CaptureSyncPhase, CaptureFails, UnchangedRun
<1>4. ASSUME pc' \notin {"du", "write"} PROVE CarryInv'
  BY <1>4 DEF CarryInv
<1>5. CASE MeasureSync \/ SyncRaises \/ ReuseRaises \/ MeasureDbRaises \/ WriteSyncMetrics
           \/ RunLocust \/ LocustFails \/ Aggregate \/ Kill
  BY <1>4, <1>5 DEF MeasureSync, SyncRaises, ReuseRaises, MeasureDbRaises, WriteSyncMetrics, RunLocust,
         LocustFails, Aggregate, Kill, EndRun
<1>6. ASSUME NEW d \in Dirs, NEW skip \in BOOLEAN, StartRun(d, skip) PROVE CarryInv'
  BY <1>4, <1>6 DEF StartRun
<1>7. CASE UNCHANGED vars
  BY <1>7 DEF CarryInv, vars
<1>8. QED
  BY <1>1, <1>2, <1>3, <1>5, <1>6, <1>7 DEF Next

\* runner.py:588: over any runs, whatever fails in them, a run with --skip-sync
\* does not lose what an earlier one measured.
THEOREM SkipKeeps == Spec => SkipSyncKeeps
<1>1. Init => CarryInv
  BY DEF Init, CarryInv
<1>2. RunInv /\ CarryInv /\ [Next]_vars =>
        [\A d \in Dirs :
            skipSync /\ Is(syncFile[d], "sync") /\ Is(syncFile'[d], "sync") =>
                /\ syncFile'[d].time = syncFile[d].time
                /\ syncFile[d].db # None => syncFile'[d].db # None]_vars
  <2> SUFFICES ASSUME RunInv, CarryInv, [Next]_vars, NEW d \in Dirs,
                      skipSync, Is(syncFile[d], "sync"), Is(syncFile'[d], "sync")
               PROVE  /\ syncFile'[d].time = syncFile[d].time
                      /\ syncFile[d].db # None => syncFile'[d].db # None
    OBVIOUS
  <2>1. dir \in Dirs /\ syncFile \in [Dirs -> SyncFiles]
    BY DEF RunInv, TypeOK
  <2>2. CASE UNCHANGED syncFile \/ d # dir
    BY <2>1, <2>2, SyncFileMoves DEF WriteSyncMetrics
  <2>3. CASE WriteSyncMetrics /\ d = dir
    BY <2>1, <2>3 DEF WriteSyncMetrics, CarryInv
  <2>4. CASE Kill /\ syncFile' = [syncFile EXCEPT ![dir] = TornFile] /\ d = dir
    BY <2>1, <2>4 DEF Is, TornFile
  <2>5. QED
    BY <2>2, <2>3, <2>4, SyncFileMoves
<1>3. QED
  BY <1>1, <1>2, CarryStep, RunInductive, PTL DEF Spec, SkipSyncKeeps
=============================================================================
