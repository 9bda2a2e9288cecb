---------------------------- MODULE ReplayDriver ----------------------------
(***************************************************************************)
(* ReplayDriver.run (src/mock_cl/drivers.py): drives recorded payloads     *)
(* through newPayload and forkchoiceUpdated, one block after another, and  *)
(* keeps the latency report on disk after every block, whatever the EL,    *)
(* the channel, or a kill of the process does in between.                  *)
(*                                                                         *)
(* Times are left out: a row is a block and how it ended.  The report and  *)
(* its .tmp file are sequences of rows.  The poll deadline may pass at any *)
(* poll, and has passed after MaxPolls of them.                            *)
(***************************************************************************)
EXTENDS ExecutionLayer

CONSTANTS
    Malformed,       \* a line load_payloads rejects
    NoFile,          \* the report before it was ever written
    NoHash,          \* prev_hash = None
    Files,           \* the payload files replayed
    Counts,          \* values of --count
    MaxPolls         \* polls that fit in fcu_wait_seconds

Record == [hash : Hash, parent : Hash]
Line == Record \cup {Malformed}

ASSUME FilesAssumption == Files \subseteq Seq(Line) /\ Counts \subseteq Nat
ASSUME MarkerAssumption ==
    /\ Malformed \notin Record
    /\ NoHash \notin Hash
    /\ MaxPolls \in Nat

VARIABLES
    pc,         \* where run() is
    after,      \* where run() continues once the report is written
    file,       \* the lines of the payload file
    count,      \* --count
    advance,    \* not --no-advance-head
    stop,       \* stop_event
    rows,       \* the rows collected so far
    prev,       \* prev_hash
    npStatus,   \* status of the newPayload of the current record
    polls,      \* sleeps of the forkchoice poll of the current record
    csv,        \* the report on disk
    tmp         \* its temporary file

runVars == <<file, count, advance>>
loopVars == <<rows, prev, npStatus, polls>>
diskVars == <<csv, tmp>>
vars == <<elVars, rpcVars, pc, after, runVars, stop, loopVars, diskVars>>

LandedStatus == {"VALID", "ACCEPTED", "SYNCING", "SYNCING_LANDED"}
FailedStatus == {"INVALID", "OTHER", "FCU_INVALID", "FCU_TIMEOUT"}
Row == [hash : Hash, status : LandedStatus \cup FailedStatus]

ASSUME NoFileAssumption == NoFile \notin Seq(Row)

Writing == {"write", "filling", "rename"}
Calling == {"base", "np", "fcu"}
Ended == {"done", "failed", "killed"}

TypeOK ==
    /\ ELTypeOK
    /\ pc \in {"next", "return", "raise"} \cup Calling \cup Writing \cup Ended
    /\ after \in {"next", "return", "raise"}
    /\ file \in Seq(Line)
    /\ count \in Nat
    /\ advance \in BOOLEAN
    /\ stop \in BOOLEAN
    /\ rows \in Seq(Row)
    /\ prev \in Hash \cup {NoHash}
    /\ npStatus \in Status
    /\ polls \in 0..MaxPolls
    /\ csv \in Seq(Row) \cup {NoFile}
    /\ tmp \in Seq(Row)

Init ==
    /\ ELInit
    /\ pc = "next"
    /\ after = "next"
    /\ file \in Files
    /\ count \in Counts
    /\ advance \in BOOLEAN
    /\ stop = FALSE
    /\ rows = <<>>
    /\ prev = NoHash
    /\ npStatus = "VALID"
    /\ polls = 0
    /\ csv = NoFile
    /\ tmp = <<>>

-----------------------------------------------------------------------------
\* The loop head: which record is next, and may it be sent?

\* Every iteration appends one row or raises: the index is the row count.
Index == Len(rows) + 1
Current == file[Index]

GoTo(l) == pc' = l /\ UNCHANGED <<after, runVars, stop>>

\* The line is read before --count and stop_event are looked at.
BadLine ==
    /\ pc = "next"
    /\ Index <= Len(file) /\ Current = Malformed
    /\ GoTo("failed")
    /\ UNCHANGED <<elVars, rpcVars, loopVars, diskVars>>

LoopEnds ==
    /\ pc = "next"
    /\ \/ Index > Len(file)
       \/ /\ Index <= Len(file) /\ Current # Malformed
          /\ Len(rows) >= count \/ stop
    /\ pc' = "write" /\ after' = "return"
    /\ UNCHANGED <<elVars, rpcVars, runVars, stop, loopVars, diskVars>>

Proceeds ==
    /\ pc = "next"
    /\ Index <= Len(file) /\ Current # Malformed
    /\ Len(rows) < count /\ ~stop

SendPayload ==
    /\ Send(NewPayload(Current.hash, Current.parent))
    /\ prev' = Current.hash
    /\ polls' = 0
    /\ GoTo("np")

\* The file must start at a block whose parent the EL knows: ask it.
CheckBase ==
    /\ Proceeds
    /\ prev = NoHash /\ advance
    /\ Send(Fcu(Current.parent))
    /\ GoTo("base")
    /\ UNCHANGED <<elVars, loopVars, diskVars>>

ChainGap ==
    /\ Proceeds
    /\ prev # NoHash /\ Current.parent # prev
    /\ GoTo("failed")
    /\ UNCHANGED <<elVars, rpcVars, loopVars, diskVars>>

\* Mutant: the parent is not compared with prev_hash.
NextPayload_Unchecked ==
    /\ Proceeds
    /\ prev = NoHash => ~advance
    /\ SendPayload
    /\ UNCHANGED <<elVars, rows, npStatus, diskVars>>

NextPayload ==
    /\ Proceeds
    /\ IF prev = NoHash THEN ~advance ELSE Current.parent = prev
    /\ SendPayload
    /\ UNCHANGED <<elVars, rows, npStatus, diskVars>>

\* Mutant: any answer to the base check will do.
BaseAnswer_AnyStatus ==
    /\ pc = "base"
    /\ attempt = "answered"
    /\ SendPayload
    /\ UNCHANGED <<elVars, rows, npStatus, diskVars>>

BaseAnswer ==
    /\ pc = "base"
    /\ \E s \in Status :
          /\ Receive(s)
          /\ \/ s = "VALID" /\ SendPayload
             \/ s # "VALID" /\ EndCall /\ GoTo("failed") /\ UNCHANGED <<prev, polls>>
    /\ UNCHANGED <<elVars, rows, npStatus, diskVars>>

-----------------------------------------------------------------------------
\* The answers of newPayload and forkchoiceUpdated.

NewRow(status) == [hash |-> Current.hash, status |-> status]

\* Mutant: only the final flush writes the rows of blocks that landed.
Collect_NoFlush(row, next) ==
    /\ rows' = Append(rows, row)
    /\ pc' = (IF next = "raise" THEN "write" ELSE "next") /\ after' = next
    /\ EndCall
    /\ UNCHANGED <<runVars, stop, prev>>

\* The row is collected, the call is over, and the report is written next.
Collect(row, next) ==
    /\ rows' = Append(rows, row)
    /\ pc' = "write" /\ after' = next
    /\ EndCall
    /\ UNCHANGED <<runVars, stop, prev>>

\* Mutant: a block that newPayload found VALID gets no forkchoiceUpdated.
PayloadAnswer_FcuIfQueued ==
    /\ pc = "np"
    /\ \E s \in Status :
          /\ Receive(s)
          /\ npStatus' = s
          /\ \/ /\ s \in {"ACCEPTED", "SYNCING"} /\ advance
                /\ Send(Fcu(Current.hash))
                /\ GoTo("fcu")
                /\ UNCHANGED <<rows, prev>>
             \/ /\ s = "VALID" \/ (s \in {"ACCEPTED", "SYNCING"} /\ ~advance)
                /\ Collect(NewRow(s), "next")
             \/ /\ s \in {"INVALID", "OTHER"}
                /\ Collect(NewRow(s), "raise")
    /\ UNCHANGED <<elVars, polls, diskVars>>

PayloadAnswer ==
    /\ pc = "np"
    /\ \E s \in Status :
          /\ Receive(s)
          /\ npStatus' = s
          /\ \/ /\ s \in {"VALID", "ACCEPTED", "SYNCING"} /\ advance
                /\ Send(Fcu(Current.hash))
                /\ GoTo("fcu")
                /\ UNCHANGED <<rows, prev>>
             \/ /\ s \in {"VALID", "ACCEPTED", "SYNCING"} /\ ~advance
                /\ Collect(NewRow(s), "next")
             \/ /\ s \in {"INVALID", "OTHER"}
                /\ Collect(NewRow(s), "raise")
    /\ UNCHANGED <<elVars, polls, diskVars>>

\* Mutant: SYNCING is taken for a block that landed.
FcuLanded_OnSyncing ==
    /\ pc = "fcu"
    /\ Receive("VALID") \/ Receive("SYNCING")
    /\ Collect(NewRow(IF npStatus = "SYNCING" THEN "SYNCING_LANDED" ELSE npStatus), "next")
    /\ UNCHANGED <<elVars, npStatus, polls, diskVars>>

FcuLanded ==
    /\ pc = "fcu"
    /\ Receive("VALID")
    /\ Collect(NewRow(IF npStatus = "SYNCING" THEN "SYNCING_LANDED" ELSE npStatus), "next")
    /\ UNCHANGED <<elVars, npStatus, polls, diskVars>>

FcuInvalid ==
    /\ pc = "fcu"
    /\ Receive("INVALID")
    /\ Collect(NewRow("FCU_INVALID"), "raise")
    /\ UNCHANGED <<elVars, npStatus, polls, diskVars>>

FcuDeadline ==
    /\ pc = "fcu"
    /\ \E s \in Status \ {"VALID", "INVALID"} : Receive(s)
    /\ Collect(NewRow("FCU_TIMEOUT"), "raise")
    /\ UNCHANGED <<elVars, npStatus, polls, diskVars>>

\* Mutant: the deadline moves with every poll.
FcuPoll_NoDeadline ==
    /\ pc = "fcu"
    /\ \E s \in Status \ {"VALID", "INVALID"} : Receive(s)
    /\ Send(Fcu(Current.hash))
    /\ GoTo("fcu")
    /\ UNCHANGED <<elVars, loopVars, diskVars>>

FcuPoll ==
    /\ pc = "fcu"
    /\ \E s \in Status \ {"VALID", "INVALID"} : Receive(s)
    /\ polls < MaxPolls
    /\ polls' = polls + 1
    /\ Send(Fcu(Current.hash))
    /\ GoTo("fcu")
    /\ UNCHANGED <<elVars, rows, prev, npStatus, diskVars>>

\* The engine call raises: run() ends, without a row for the block.
EngineRaises ==
    /\ pc \in Calling
    /\ Abandon
    /\ GoTo("failed")
    /\ UNCHANGED <<loopVars, diskVars>>

EngineRetries ==
    /\ pc \in Calling
    /\ Retry
    /\ UNCHANGED <<pc, after, runVars, stop, loopVars, diskVars>>

-----------------------------------------------------------------------------
\* _maybe_write_csv: open and fill the .tmp file, then rename it.

Prefixes(s) == {SubSeq(s, 1, n) : n \in 0..Len(s)}

\* Mutant: the report is rewritten in place.
OpenTmp_InPlace ==
    /\ pc = "write"
    /\ tmp' \in Prefixes(rows)
    /\ csv' = tmp'
    /\ GoTo("filling")
    /\ UNCHANGED <<elVars, rpcVars, loopVars>>

OpenTmp ==
    /\ pc = "write"
    /\ tmp' \in Prefixes(rows)
    /\ UNCHANGED csv
    /\ GoTo("filling")
    /\ UNCHANGED <<elVars, rpcVars, loopVars>>

FillTmp ==
    /\ pc = "filling"
    /\ tmp' = rows
    /\ GoTo("rename")
    /\ UNCHANGED <<elVars, rpcVars, loopVars, csv>>

Rename ==
    /\ pc = "rename"
    /\ csv' = tmp
    /\ GoTo(after)
    /\ UNCHANGED <<elVars, rpcVars, loopVars, tmp>>

WriteFails ==
    /\ pc \in Writing
    /\ GoTo("failed")
    /\ UNCHANGED <<elVars, rpcVars, loopVars, diskVars>>

Finish ==
    /\ \/ pc = "return" /\ GoTo("done")
       \/ pc = "raise" /\ GoTo("failed")
    /\ UNCHANGED <<elVars, rpcVars, loopVars, diskVars>>

-----------------------------------------------------------------------------
\* The environment: the exit trap kills the process, stop_event is set.

Kill ==
    /\ pc \notin Ended
    /\ Abandon
    /\ GoTo("killed")
    /\ UNCHANGED <<loopVars, diskVars>>

RequestStop ==
    /\ pc \notin Ended /\ ~stop
    /\ stop' = TRUE
    /\ UNCHANGED <<elVars, rpcVars, pc, after, runVars, loopVars, diskVars>>

DriverStep ==
    \/ BadLine \/ LoopEnds \/ CheckBase \/ ChainGap \/ NextPayload
    \/ BaseAnswer \/ PayloadAnswer
    \/ FcuLanded \/ FcuInvalid \/ FcuDeadline \/ FcuPoll
    \/ EngineRaises \/ EngineRetries
    \/ OpenTmp \/ FillTmp \/ Rename \/ WriteFails \/ Finish

ELMoves ==
    /\ ELStep
    /\ UNCHANGED <<pc, after, runVars, stop, loopVars, diskVars>>

Next == DriverStep \/ ELMoves \/ Kill \/ RequestStop

\* The driver never blocks for ever: each HTTP attempt has a timeout, each
\* call a budget and each poll a deadline.  Nothing is assumed of the EL.
Spec == Init /\ [][Next]_vars
FairSpec == Spec /\ WF_vars(DriverStep)

-----------------------------------------------------------------------------
\* Properties.

Landed(row) == row.status \in LandedStatus
Recorded == {rows[k] : k \in 1..Len(rows)}

\* A row that says a block landed is about a block the EL has imported,
\* whatever was lost, repeated or restarted on the way (drivers.py:274-285).
\* Without the head being advanced a row only repeats newPayload's answer.
LandedRowsImported ==
    advance => \A row \in Recorded : Landed(row) => row.hash \in imported

\* The rows are the first records of the file, each the child of the one
\* before: a gap in the file ends the replay before the block is sent.
RowsChained ==
    \A k \in 1..Len(rows) :
        /\ k <= Len(file) /\ file[k] # Malformed
        /\ rows[k].hash = file[k].hash
        /\ k > 1 => file[k].parent = rows[k - 1].hash

\* A block that failed is the last one sent: no block is driven past it.
FailureIsLast ==
    \A k \in 1..Len(rows) :
        ~Landed(rows[k]) =>
            /\ k = Len(rows)
            /\ pc \notin Calling \cup {"next", "return", "done"}

\* The comment above the base check: no block is ever sent, let alone polled
\* for, whose parent the EL does not have ("the FCU poll spin
\* fcu_wait_seconds per block", drivers.py:169-172).
NeverPollsAcrossAGap ==
    advance /\ pc \in {"np", "fcu"} => Current.parent \in imported

\* What a reader of the disk sees at any instant, a kill included: no file,
\* or all the rows but at most the last one.
ReportIsFresh ==
    \/ csv = NoFile /\ Len(rows) <= 1
    \/ csv = rows
    \/ csv # NoFile /\ \E row \in Recorded : rows = Append(csv, row)

\* Once run() has returned or raised for a block, the report is complete:
\* with no record at all it exists all the same (drivers.py:291-293).
ReportIsComplete ==
    pc \in {"return", "done", "raise"} => csv = rows

\* Between two blocks and at the end, the EL's head is the last block of the
\* report, and no abandoned forkchoiceUpdated can move it back.
HeadFollowsReport ==
    advance /\ rows # <<>> /\ pc \in {"next", "return", "done"} =>
        /\ elHead = rows[Len(rows)].hash
        /\ orphans = <<>>

\* With --no-advance-head no step moves the EL's head (drivers.py:177-178).
HeadUntouched == [][~advance => elHead' = elHead]_vars

\* Every replay ends: no file, EL or channel keeps it going for ever.
ReplayEnds == <>(pc \in Ended)

-----------------------------------------------------------------------------
\* What the replay promises to whoever reads its report (ReplayPromise).

Outcome == CASE pc = "done" -> "ok"
             [] pc = "failed" -> "failed"
             [] pc = "killed" -> "killed"
             [] OTHER -> "running"

Promise == INSTANCE ReplayPromise
    WITH measured <- rows, report <- csv, outcome <- Outcome

ImplementsPromise == Promise!Spec
=============================================================================
