------------------------ MODULE ReplayDriver_proofs -------------------------
(***************************************************************************)
(* Proofs about ReplayDriver, for every file, chain, EL and bound.         *)
(***************************************************************************)
EXTENDS ReplayDriver, SequenceTheorems, TLAPS

-----------------------------------------------------------------------------
(* Types. *)

\* The record the driver stands at is one of its file.
LEMMA CurrentType ==
    ASSUME TypeOK, Index <= Len(file), Current # Malformed
    PROVE  /\ Index \in 1..Len(file)
           /\ Current \in Record
           /\ Current.hash \in Hash /\ Current.parent \in Hash
<1>1. Index \in 1..Len(file)
  BY DEF TypeOK, Index
<1>2. Current \in Line
  BY <1>1 DEF TypeOK, Current
<1>3. QED
  BY <1>1, <1>2 DEF Line, Record

\* The two requests the driver builds are requests.
LEMMA RequestType ==
    ASSUME NEW h \in Hash, NEW p \in Hash
    PROVE  NewPayload(h, p) \in Request /\ Fcu(h) \in Request
BY DEF NewPayload, Fcu, Request

\* Executing any request, at once or late, leaves the EL well typed.
LEMMA ExecuteType ==
    ASSUME ELTypeOK, NEW req \in Request, NEW ans, Execute(req, ans)
    PROVE  /\ imported' \subseteq Hash /\ queued' \subseteq Pending
           /\ refused' \subseteq Hash /\ elHead' \in Hash
<1>1. Block(req) \in Pending
  BY DEF Block, Request, Pending
<1>2. \A b \in Pending : b.hash \in Hash
  BY DEF Pending
<1>3. req.hash \in Hash
  BY DEF Request
<1>4. CASE ExecuteNewPayload(req, ans)
  BY <1>1, <1>2, <1>3, <1>4 DEF ExecuteNewPayload, ELTypeOK, Unmoved, Import, Refuse, Enqueue
<1>5. CASE ExecuteFcu(req, ans)
  BY <1>2, <1>3, <1>5 DEF ExecuteFcu, ELTypeOK, Unmoved, Import, Refuse
<1>6. QED
  BY <1>4, <1>5 DEF Execute

\* Abandoning the request under way keeps the abandoned ones well typed.
LEMMA OrphanedType == ASSUME ELTypeOK PROVE Orphaned \in Seq(Request)
BY DEF ELTypeOK, Orphaned

\* What the EL does by itself leaves it well typed.
LEMMA ELStepType == ASSUME ELTypeOK, ELStep PROVE ELTypeOK'
<1>1. CASE ExecuteOrphan
  <2>1. /\ Head(orphans) \in Request
        /\ Tail(orphans) \in Seq(Request)
    BY <1>1 DEF ExecuteOrphan, ELTypeOK
  <2>2. PICK ans \in Status : Execute(Head(orphans), ans)
    BY <1>1 DEF ExecuteOrphan
  <2>3. /\ imported' \subseteq Hash /\ queued' \subseteq Pending
        /\ refused' \subseteq Hash /\ elHead' \in Hash
    BY <2>1, <2>2, ExecuteType
  <2>4. QED
    BY <1>1, <2>1, <2>3 DEF ExecuteOrphan, ELTypeOK
<1>2. CASE ExecuteLive
  <2>1. PICK ans \in Status : Execute(call, ans) /\ reply' = ans
    BY <1>2 DEF ExecuteLive
  <2>2. /\ imported' \subseteq Hash /\ queued' \subseteq Pending
        /\ refused' \subseteq Hash /\ elHead' \in Hash
    BY <2>1, ExecuteType DEF ELTypeOK
  <2>3. QED
    BY <1>2, <2>1, <2>2 DEF ExecuteLive, ELTypeOK
<1>3. CASE ImportQueued
  <2>1. PICK b \in queued : Import(b) \/ Refuse(b)
    BY <1>3 DEF ImportQueued
  <2>2. b.hash \in Hash
    BY <2>1 DEF ELTypeOK, Pending
  <2>3. imported' \subseteq Hash /\ queued' \subseteq Pending /\ refused' \subseteq Hash
    BY <2>1, <2>2 DEF ELTypeOK, Import, Refuse
  <2>4. QED
    BY <1>3, <2>3 DEF ImportQueued, ELTypeOK, rpcVars
<1>4. CASE Restart
  BY <1>4, ChannelAssumption DEF Restart, ELTypeOK
<1>5. CASE LoseAttempt
  BY <1>5 DEF LoseAttempt, ELTypeOK, elVars
<1>6. QED
  BY <1>1, <1>2, <1>3, <1>4, <1>5 DEF ELStep

\* Sending a request, answered or not, leaves the channel well typed.
LEMMA SendType ==
    ASSUME ELTypeOK, UNCHANGED elVars, NEW req \in Request, Send(req)
    PROVE  ELTypeOK'
BY ChannelAssumption DEF ELTypeOK, elVars, Send

\* The end of a call, answered or given up, leaves the channel well typed.
LEMMA EndCallType ==
    ASSUME ELTypeOK, UNCHANGED elVars, EndCall
    PROVE  ELTypeOK'
BY DEF ELTypeOK, elVars, EndCall

\* An attempt that times out for good leaves the channel well typed.
LEMMA AbandonType == ASSUME ELTypeOK, Abandon PROVE ELTypeOK'
BY OrphanedType DEF ELTypeOK, elVars, Abandon

\* An attempt that is sent again leaves the channel well typed.
LEMMA RetryType == ASSUME ELTypeOK, Retry PROVE ELTypeOK'
BY OrphanedType, ChannelAssumption DEF ELTypeOK, elVars, Retry

\* A step of the driver alone leaves the EL and the channel well typed.
LEMMA UnchangedType == ASSUME ELTypeOK, UNCHANGED <<elVars, rpcVars>> PROVE ELTypeOK'
BY DEF ELTypeOK, elVars, rpcVars

\* The row collected for a record has the type of a row.
LEMMA RowType ==
    ASSUME TypeOK, Index <= Len(file), Current # Malformed,
           NEW status \in LandedStatus \cup FailedStatus
    PROVE  NewRow(status) \in Row
BY CurrentType DEF NewRow, Row, TypeOK

\* While a call for it is under way, the current line is a record; it is
\* polled for only if newPayload did not turn it down.
InRecord ==
    /\ pc \in Calling => Index <= Len(file) /\ Current # Malformed
    /\ pc = "fcu" => npStatus \in {"VALID", "ACCEPTED", "SYNCING"}

\* The rows are records of the file: what is left of the driver's types.
Typed == TypeOK /\ InRecord

\* The types hold at the start.
LEMMA TypeInit == Init => Typed
<1> SUFFICES ASSUME Init PROVE Typed
  OBVIOUS
<1>1. SnapshotHead \in Hash /\ Fcu(SnapshotHead) \in Request
  BY ChainAssumption, RequestType
<1>2. ELTypeOK
  BY <1>1, ChainAssumption, ChannelAssumption DEF Init, ELInit, ELTypeOK
<1>3. /\ pc = "next" /\ after = "next" /\ file \in Seq(Line) /\ count \in Nat
      /\ advance \in BOOLEAN /\ stop = FALSE /\ rows = <<>> /\ prev = NoHash
      /\ npStatus \in Status /\ polls \in 0..MaxPolls /\ csv = NoFile /\ tmp = <<>>
  BY FilesAssumption, MarkerAssumption DEF Init, Status
<1>4. <<>> \in Seq(Row)
  OBVIOUS
<1>5. TypeOK
  BY <1>2, <1>3, <1>4 DEF TypeOK
<1>6. QED
  BY <1>3, <1>5 DEF Typed, InRecord, Calling

LEMMA CollectType ==
    ASSUME Typed, pc \in Calling, UNCHANGED <<elVars, polls, diskVars>>,
           npStatus' \in Status,
           NEW status \in LandedStatus \cup FailedStatus,
           NEW next \in {"next", "raise"}, Collect(NewRow(status), next)
    PROVE  Typed'
<1>1. NewRow(status) \in Row
  BY RowType DEF Typed, InRecord
<1>2. ELTypeOK'
  BY EndCallType DEF Collect, Typed, TypeOK
<1>3. QED
  BY <1>1, <1>2
     DEF Typed, InRecord, Collect, TypeOK, runVars, diskVars, Calling, Writing

\* Every step of the driver, the EL and the channel keeps the types.
LEMMA TypeStep == Typed /\ [Next]_vars => Typed'
<1> SUFFICES ASSUME Typed, [Next]_vars PROVE Typed'
  OBVIOUS
<1> USE DEF Typed, InRecord
<1>0. /\ TypeOK /\ ELTypeOK /\ Len(rows) \in Nat /\ Len(file) \in Nat
  BY DEF TypeOK
<1>s. \A r : Len(Append(rows, r)) = Len(rows) + 1
  BY DEF TypeOK
<1>1. CASE BadLine
  BY <1>0, <1>1, UnchangedType
     DEF BadLine, GoTo, TypeOK, runVars, loopVars, diskVars, Calling, Ended
<1>2. CASE LoopEnds
  BY <1>0, <1>2, UnchangedType
     DEF LoopEnds, TypeOK, runVars, loopVars, diskVars, Calling, Writing, Ended
<1>3. CASE CheckBase
  <2>1. Index <= Len(file) /\ Current # Malformed
    BY <1>3 DEF CheckBase, Proceeds
  <2>2. ELTypeOK'
    BY <1>0, <1>3, <2>1, CurrentType, RequestType, SendType DEF CheckBase
  <2>3. QED
    BY <1>0, <1>3, <2>1, <2>2
       DEF CheckBase, GoTo, TypeOK, runVars, loopVars, diskVars, Calling, Current, Index
<1>4. CASE ChainGap
  BY <1>0, <1>4, UnchangedType
     DEF ChainGap, GoTo, TypeOK, runVars, loopVars, diskVars, Calling, Ended
<1>5. CASE NextPayload
  <2>1. Index <= Len(file) /\ Current # Malformed
    BY <1>5 DEF NextPayload, Proceeds
  <2>2. Current.hash \in Hash
    BY <1>0, <2>1, CurrentType
  <2>3. ELTypeOK'
    BY <1>0, <1>5, <2>1, CurrentType, RequestType, SendType DEF NextPayload, SendPayload
  <2>4. QED
    BY <1>0, <1>5, <2>1, <2>2, <2>3, MarkerAssumption
       DEF NextPayload, SendPayload, GoTo, TypeOK, runVars, diskVars, Calling, Current, Index
<1>6. CASE BaseAnswer
  <2>1. Index <= Len(file) /\ Current # Malformed
    BY <1>6 DEF BaseAnswer, Calling
  <2>2. Current.hash \in Hash
    BY <1>0, <2>1, CurrentType
  <2>3. CASE SendPayload
    <3>1. ELTypeOK'
      BY <1>0, <1>6, <2>1, <2>3, CurrentType, RequestType, SendType DEF BaseAnswer, SendPayload
    <3>2. QED
      BY <1>0, <1>6, <2>1, <2>2, <2>3, <3>1, MarkerAssumption
         DEF BaseAnswer, SendPayload, GoTo, TypeOK, runVars, diskVars, Calling, Current, Index
  <2>4. CASE EndCall /\ GoTo("failed") /\ UNCHANGED <<prev, polls>>
    BY <1>0, <1>6, <2>4, EndCallType
       DEF BaseAnswer, GoTo, TypeOK, runVars, diskVars, Calling, Ended
  <2>5. QED
    BY <1>6, <2>3, <2>4 DEF BaseAnswer
<1>7. CASE PayloadAnswer
  <2>1. Index <= Len(file) /\ Current # Malformed
    BY <1>7 DEF PayloadAnswer, Calling
  <2>2. PICK s \in Status :
          /\ Receive(s) /\ npStatus' = s
          /\ \/ /\ Send(Fcu(Current.hash)) /\ GoTo("fcu") /\ UNCHANGED <<rows, prev>>
                /\ s \in {"VALID", "ACCEPTED", "SYNCING"}
             \/ /\ s \in {"VALID", "ACCEPTED", "SYNCING"}
                /\ Collect(NewRow(s), "next")
             \/ /\ s \in {"INVALID", "OTHER"}
                /\ Collect(NewRow(s), "raise")
    BY <1>7 DEF PayloadAnswer
  <2>3. UNCHANGED <<elVars, polls, diskVars>>
    BY <1>7 DEF PayloadAnswer
  <2>4. CASE /\ Send(Fcu(Current.hash)) /\ GoTo("fcu") /\ UNCHANGED <<rows, prev>>
             /\ s \in {"VALID", "ACCEPTED", "SYNCING"}
    <3>1. ELTypeOK'
      BY <1>0, <2>1, <2>3, <2>4, CurrentType, RequestType, SendType
    <3>2. QED
      BY <1>0, <2>1, <2>2, <2>3, <2>4, <3>1
         DEF GoTo, TypeOK, runVars, diskVars, Calling, Current, Index
  <2>5. s \in LandedStatus \cup FailedStatus /\ npStatus' \in Status
    BY <2>2 DEF Status, LandedStatus, FailedStatus
  <2>6. ASSUME NEW next \in {"next", "raise"}, Collect(NewRow(s), next)
        PROVE  Typed'
    BY <1>7, <2>3, <2>5, <2>6, CollectType DEF PayloadAnswer, Calling
  <2>7. QED
    BY <2>2, <2>4, <2>6
<1>8. ASSUME pc = "fcu", UNCHANGED <<elVars, npStatus, polls, diskVars>>,
             NEW status \in LandedStatus \cup FailedStatus,
             NEW next \in {"next", "raise"}, Collect(NewRow(status), next)
      PROVE  Typed'
  BY <1>0, <1>8, CollectType DEF Calling, TypeOK
<1>9. CASE FcuLanded
  <2>1. npStatus \in LandedStatus \cup FailedStatus
    BY <1>0 DEF TypeOK, Status, LandedStatus, FailedStatus
  <2>2. QED
    BY <1>8, <1>9, <2>1 DEF FcuLanded, LandedStatus
<1>10. CASE FcuInvalid
  BY <1>8, <1>10 DEF FcuInvalid, FailedStatus
<1>11. CASE FcuDeadline
  BY <1>8, <1>11 DEF FcuDeadline, FailedStatus
<1>12. CASE FcuPoll
  <2>1. Index <= Len(file) /\ Current # Malformed
    BY <1>12 DEF FcuPoll, Calling
  <2>2. ELTypeOK'
    BY <1>0, <1>12, <2>1, CurrentType, RequestType, SendType DEF FcuPoll
  <2>3. QED
    BY <1>0, <1>12, <2>1, <2>2, MarkerAssumption
       DEF FcuPoll, GoTo, TypeOK, runVars, diskVars, Calling, Current, Index
<1>13. CASE EngineRaises
  BY <1>0, <1>13, AbandonType
     DEF EngineRaises, GoTo, TypeOK, runVars, loopVars, diskVars, Calling, Ended
<1>14. CASE EngineRetries
  BY <1>0, <1>14, RetryType
     DEF EngineRetries, TypeOK, runVars, loopVars, diskVars, Calling, Current, Index
<1>15. CASE OpenTmp
  <2>1. \A n \in 0..Len(rows) : SubSeq(rows, 1, n) \in Seq(Row)
    BY <1>0, SubSeqProperties DEF TypeOK
  <2>2. tmp' \in Seq(Row)
    BY <1>15, <2>1 DEF OpenTmp, Prefixes
  <2>3. QED
    BY <1>0, <1>15, <2>2, UnchangedType
       DEF OpenTmp, GoTo, TypeOK, runVars, loopVars, Calling, Writing
<1>16. CASE FillTmp
  BY <1>0, <1>16, UnchangedType
     DEF FillTmp, GoTo, TypeOK, runVars, loopVars, Calling, Writing
<1>17. CASE Rename
  BY <1>0, <1>17, UnchangedType
     DEF Rename, GoTo, TypeOK, runVars, loopVars, Calling, Writing
<1>18. CASE WriteFails
  BY <1>0, <1>18, UnchangedType
     DEF WriteFails, GoTo, TypeOK, runVars, loopVars, diskVars, Calling, Ended
<1>19. CASE Finish
  BY <1>0, <1>19, UnchangedType
     DEF Finish, GoTo, TypeOK, runVars, loopVars, diskVars, Calling, Ended
<1>20. CASE ELMoves
  BY <1>0, <1>20, ELStepType
     DEF ELMoves, TypeOK, runVars, loopVars, diskVars, Current, Index
<1>21. CASE Kill
  BY <1>0, <1>21, AbandonType
     DEF Kill, GoTo, TypeOK, runVars, loopVars, diskVars, Calling, Ended
<1>22. CASE RequestStop
  BY <1>0, <1>22, UnchangedType
     DEF RequestStop, TypeOK, runVars, loopVars, diskVars, Current, Index
<1>23. CASE UNCHANGED vars
  BY <1>0, <1>23, UnchangedType
     DEF vars, TypeOK, runVars, loopVars, diskVars, Current, Index
<1>24. QED
  BY <1>1, <1>2, <1>3, <1>4, <1>5, <1>6, <1>7, <1>9, <1>10, <1>11, <1>12, <1>13, <1>14,
     <1>15, <1>16, <1>17, <1>18, <1>19, <1>20, <1>21, <1>22, <1>23 DEF Next, DriverStep

\* Every variable keeps its type in every reachable state (TypeOK).
THEOREM TypeCorrect == Spec => []TypeOK
<1>1. Spec => []Typed
  BY TypeInit, TypeStep, PTL DEF Spec
<1>2. QED
  BY <1>1, PTL DEF Typed

-----------------------------------------------------------------------------
(* The report: FailureIsLast, ReportIsFresh, ReportIsComplete.             *)
(* The inductive invariant says for each place of run() how far the disk   *)
(* may lag behind the rows, and which rows may have failed.                *)

LastRow == rows[Len(rows)]
OnDisk == IF csv = NoFile THEN <<>> ELSE csv

\* The disk holds every row.
Quiet == csv = rows \/ (rows = <<>> /\ csv = NoFile)

\* The disk holds every row but the last.
Lags == rows # <<>> /\ rows = Append(OnDisk, LastRow)

AllLanded == \A k \in 1..Len(rows) : Landed(rows[k])
AllButLastLanded == \A k \in 1..(Len(rows) - 1) : Landed(rows[k])

ReportInv ==
    /\ Quiet \/ Lags
    /\ AllButLastLanded
    /\ pc \in {"next", "return", "done"} \cup Calling => AllLanded
    /\ pc \in Writing /\ after # "raise" => AllLanded
    /\ pc \in {"next"} \cup Calling => Quiet
    /\ pc \in {"return", "done", "raise"} => csv = rows
    /\ pc = "rename" => tmp = rows

\* The variables ReportInv is about.
reportVars == <<pc, after, rows, csv, tmp>>

\* The report agrees with the rows at the start: both are empty.
LEMMA ReportInit == Init => ReportInv
BY DEF Init, ReportInv, Quiet, AllLanded, AllButLastLanded, Calling, Writing

\* Collecting a row: the disk was level with the rows, and now lags by one.
LEMMA CollectReport ==
    ASSUME Typed, ReportInv, pc \in Calling, UNCHANGED diskVars,
           NEW status \in LandedStatus \cup FailedStatus,
           NEW next \in {"next", "raise"}, Collect(NewRow(status), next),
           next = "next" => status \in LandedStatus
    PROVE  ReportInv'
<1>1. NewRow(status) \in Row /\ NewRow(status).status = status
  BY RowType DEF Typed, InRecord, NewRow
<1>2. /\ rows \in Seq(Row) /\ rows' = Append(rows, NewRow(status))
      /\ pc' = "write" /\ after' = next /\ UNCHANGED <<csv, tmp>>
  BY DEF Typed, TypeOK, Collect, diskVars
<1>3. /\ rows' \in Seq(Row) /\ Len(rows') = Len(rows) + 1 /\ Len(rows) \in Nat
      /\ rows'[Len(rows')] = NewRow(status)
      /\ \A k \in 1..Len(rows) : rows'[k] = rows[k]
  BY <1>1, <1>2
<1>4. Quiet /\ AllLanded
  BY DEF ReportInv
<1>5. OnDisk = rows
  BY <1>2, <1>4, NoFileAssumption DEF Quiet, OnDisk
<1>6. Lags'
  BY <1>2, <1>3, <1>5 DEF Lags, LastRow, OnDisk
<1>7. AllButLastLanded'
  BY <1>3, <1>4 DEF AllButLastLanded, AllLanded, Landed
<1>8. next = "next" => AllLanded'
  BY <1>1, <1>3, <1>4 DEF AllLanded, Landed
<1>9. QED
  BY <1>2, <1>6, <1>7, <1>8 DEF ReportInv, Calling, Writing

\* Every step keeps what the report invariant says of the file on disk.
LEMMA ReportStep == Typed /\ ReportInv /\ [Next]_vars => ReportInv'
<1> SUFFICES ASSUME Typed, ReportInv, [Next]_vars PROVE ReportInv'
  OBVIOUS
<1>0. TypeOK
  BY DEF Typed
<1>1. ASSUME UNCHANGED <<rows, csv, tmp>>
      PROVE  UNCHANGED <<Quiet, Lags, AllLanded, AllButLastLanded>>
  BY <1>1 DEF Quiet, Lags, LastRow, OnDisk, AllLanded, AllButLastLanded, Landed
<1>2. ASSUME UNCHANGED <<rows, csv, tmp>>,
             \/ pc \in {"next"} \cup Calling /\ pc' \in Calling
             \/ pc' \in {"failed", "killed"}
      PROVE  ReportInv'
  BY <1>1, <1>2 DEF ReportInv, Calling, Writing
<1>3. ASSUME UNCHANGED reportVars PROVE ReportInv'
  BY <1>1, <1>3 DEF ReportInv, reportVars
<1>4. CASE BadLine \/ ChainGap \/ EngineRaises \/ WriteFails
  BY <1>2, <1>4
     DEF BadLine, ChainGap, EngineRaises, WriteFails, GoTo, loopVars, diskVars
<1>5. CASE LoopEnds
  BY <1>1, <1>5 DEF LoopEnds, ReportInv, loopVars, diskVars, Calling, Writing
<1>6. CASE CheckBase \/ NextPayload \/ BaseAnswer \/ FcuPoll
  BY <1>2, <1>6 DEF CheckBase, NextPayload, Proceeds, BaseAnswer, FcuPoll, SendPayload,
     GoTo, loopVars, diskVars, Calling
<1>7. CASE PayloadAnswer
  <2>1. PICK s \in Status :
          \/ GoTo("fcu") /\ UNCHANGED <<rows, prev>>
          \/ s \in {"VALID", "ACCEPTED", "SYNCING"} /\ Collect(NewRow(s), "next")
          \/ s \in {"INVALID", "OTHER"} /\ Collect(NewRow(s), "raise")
    BY <1>7 DEF PayloadAnswer
  <2>2. pc = "np" /\ UNCHANGED diskVars
    BY <1>7 DEF PayloadAnswer
  <2>3. CASE GoTo("fcu") /\ UNCHANGED <<rows, prev>>
    BY <1>2, <2>2, <2>3 DEF GoTo, diskVars, Calling
  <2>4. CASE s \in {"VALID", "ACCEPTED", "SYNCING"} /\ Collect(NewRow(s), "next")
    BY <2>2, <2>4, CollectReport DEF LandedStatus, Calling
  <2>5. CASE s \in {"INVALID", "OTHER"} /\ Collect(NewRow(s), "raise")
    BY <2>2, <2>5, CollectReport DEF FailedStatus, Calling
  <2>6. QED
    BY <2>1, <2>3, <2>4, <2>5
<1>8. CASE FcuLanded
  <2>1. /\ pc = "fcu" /\ UNCHANGED diskVars
        /\ Collect(NewRow(IF npStatus = "SYNCING" THEN "SYNCING_LANDED" ELSE npStatus), "next")
    BY <1>8 DEF FcuLanded
  <2>2. npStatus \in {"VALID", "ACCEPTED", "SYNCING"}
    BY <2>1 DEF Typed, InRecord
  <2>3. (IF npStatus = "SYNCING" THEN "SYNCING_LANDED" ELSE npStatus) \in LandedStatus
    BY <2>2 DEF LandedStatus
  <2>4. QED
    BY <2>1, <2>3, CollectReport DEF Calling
<1>9. CASE FcuInvalid
  BY <1>9, CollectReport DEF FcuInvalid, FailedStatus, Calling
<1>10. CASE FcuDeadline
  BY <1>10, CollectReport DEF FcuDeadline, FailedStatus, Calling
<1>11. CASE EngineRetries \/ ELMoves \/ RequestStop \/ UNCHANGED vars
  BY <1>3, <1>11 DEF EngineRetries, ELMoves, RequestStop, vars, loopVars, diskVars, reportVars
<1>12. CASE OpenTmp
  BY <1>1, <1>12
     DEF OpenTmp, GoTo, ReportInv, Quiet, Lags, LastRow, OnDisk, AllLanded,
         AllButLastLanded, Landed, loopVars, Calling, Writing
<1>13. CASE FillTmp
  BY <1>13
     DEF FillTmp, GoTo, ReportInv, Quiet, Lags, LastRow, OnDisk, AllLanded,
         AllButLastLanded, Landed, loopVars, Calling, Writing
<1>14. CASE Rename
  <2>1. csv' = rows /\ UNCHANGED rows /\ pc' = after
    BY <1>14 DEF Rename, GoTo, ReportInv, loopVars
  <2>2. Quiet' /\ UNCHANGED <<AllLanded, AllButLastLanded>>
    BY <2>1 DEF Quiet, AllLanded, AllButLastLanded, Landed
  <2>3. pc' # "raise" => AllLanded
    BY <1>14, <2>1 DEF Rename, ReportInv, Writing
  <2>4. pc' \in {"next", "return", "raise"}
    BY <1>0, <2>1 DEF TypeOK
  <2>5. QED
    BY <2>1, <2>2, <2>3, <2>4 DEF ReportInv, Calling, Writing
<1>15. CASE Finish
  BY <1>1, <1>15 DEF Finish, GoTo, ReportInv, loopVars, diskVars, Calling, Writing
<1>16. CASE Kill
  BY <1>2, <1>16 DEF Kill, GoTo, loopVars, diskVars
<1>17. QED
  BY <1>4, <1>5, <1>6, <1>7, <1>8, <1>9, <1>10, <1>11, <1>12, <1>13, <1>14, <1>15, <1>16
     DEF Next, DriverStep

\* The report on disk, its temporary file and the rows in memory agree at every
\* step of _maybe_write_csv, a kill in any place included.
THEOREM ReportInvariant == Spec => [](Typed /\ ReportInv)
BY TypeInit, TypeStep, ReportInit, ReportStep, PTL DEF Spec

\* A reader of the disk misses at most the last row, at any instant.
THEOREM ReportFresh == Spec => []ReportIsFresh
<1>1. Typed /\ ReportInv => ReportIsFresh
  <2> SUFFICES ASSUME Typed, ReportInv PROVE ReportIsFresh
    OBVIOUS
  <2>1. rows \in Seq(Row)
    BY DEF Typed, TypeOK
  <2>2. CASE Quiet
    BY <2>2 DEF Quiet, ReportIsFresh
  <2>3. CASE Lags /\ csv = NoFile
    <3>1. Len(rows) = 1
      BY <2>3 DEF Lags, OnDisk
    <3>2. QED
      BY <2>3, <3>1 DEF ReportIsFresh
  <2>4. CASE Lags /\ csv # NoFile
    <3>1. LastRow \in Recorded
      BY <2>1, <2>4 DEF Lags, LastRow, Recorded
    <3>2. QED
      BY <2>4, <3>1 DEF Lags, OnDisk, ReportIsFresh
  <2>5. QED
    BY <2>2, <2>3, <2>4 DEF ReportInv
<1>2. QED
  BY <1>1, ReportInvariant, PTL

\* When run() returns, or raises for a block, the report holds every row.
THEOREM ReportComplete == Spec => []ReportIsComplete
<1>1. ReportInv => ReportIsComplete
  BY DEF ReportInv, ReportIsComplete
<1>2. QED
  BY <1>1, ReportInvariant, PTL

\* No block is driven past one that failed.
THEOREM NothingAfterFailure == Spec => []FailureIsLast
<1>1. Typed /\ ReportInv => FailureIsLast
  <2> SUFFICES ASSUME Typed, ReportInv, NEW k \in 1..Len(rows), ~Landed(rows[k])
               PROVE  /\ k = Len(rows)
                      /\ pc \notin Calling \cup {"next", "return", "done"}
    BY DEF FailureIsLast
  <2>1. Len(rows) \in Nat
    BY DEF Typed, TypeOK
  <2>2. QED
    BY <2>1 DEF ReportInv, AllLanded, AllButLastLanded
<1>2. QED
  BY <1>1, ReportInvariant, PTL

-----------------------------------------------------------------------------
(* The chain: RowsChained.  prev_hash is the hash of the last row between  *)
(* two records, and of the current record once newPayload is under way.    *)

ChainInv ==
    /\ RowsChained
    /\ pc \in {"next", "base"} =>
           prev = IF rows = <<>> THEN NoHash ELSE LastRow.hash
    /\ pc = "base" => rows = <<>>
    /\ pc \in {"np", "fcu"} =>
           prev = Current.hash /\ (rows # <<>> => Current.parent = LastRow.hash)
    /\ pc \in Writing /\ after = "next" => rows # <<>> /\ prev = LastRow.hash

chainVars == <<pc, after, file, rows, prev>>

\* The rows are chained at the start: there are none.
LEMMA ChainInit == Init => ChainInv
BY DEF Init, ChainInv, RowsChained, Writing

\* The row collected for a record extends the chain of the rows before it.
LEMMA CollectChain ==
    ASSUME Typed, ChainInv, pc \in {"np", "fcu"},
           NEW status \in LandedStatus \cup FailedStatus,
           NEW next, Collect(NewRow(status), next)
    PROVE  ChainInv'
<1>1. Index <= Len(file) /\ Current # Malformed
  BY DEF Typed, InRecord, Calling
<1>2. /\ NewRow(status) \in Row /\ NewRow(status).hash = Current.hash
      /\ Index \in 1..Len(file)
  BY <1>1, RowType, CurrentType DEF Typed, NewRow
<1>3. /\ rows' = Append(rows, NewRow(status)) /\ rows \in Seq(Row)
      /\ pc' = "write" /\ prev' = prev /\ file' = file
  BY DEF Collect, runVars, Typed, TypeOK
<1>4. /\ Len(rows') = Len(rows) + 1 /\ Len(rows) \in Nat
      /\ rows'[Len(rows')] = NewRow(status)
      /\ \A k \in 1..Len(rows) : rows'[k] = rows[k]
  BY <1>2, <1>3
<1>5. prev = Current.hash /\ (rows # <<>> => Current.parent = LastRow.hash)
  BY DEF ChainInv
<1>6. RowsChained'
  <2> SUFFICES ASSUME NEW k \in 1..(Len(rows) + 1)
               PROVE  /\ k <= Len(file) /\ file[k] # Malformed
                      /\ rows'[k].hash = file[k].hash
                      /\ k > 1 => file[k].parent = rows'[k - 1].hash
    BY <1>3, <1>4 DEF RowsChained
  <2>1. CASE k \in 1..Len(rows)
    <3>1. k > 1 => k - 1 \in 1..Len(rows)
      BY <1>4, <2>1
    <3>2. QED
      BY <1>4, <2>1, <3>1 DEF ChainInv, RowsChained
  <2>2. CASE k = Len(rows) + 1
    <3>1. k > 1 => rows # <<>> /\ k - 1 \in 1..Len(rows)
      BY <1>3, <1>4, <2>2
    <3>2. QED
      BY <1>1, <1>2, <1>4, <1>5, <2>2, <3>1 DEF Current, Index, LastRow
  <2>3. QED
    BY <1>4, <2>1, <2>2
<1>7. rows' # <<>> /\ LastRow'.hash = Current.hash
  BY <1>2, <1>3, <1>4 DEF LastRow
<1>8. QED
  BY <1>3, <1>5, <1>6, <1>7 DEF ChainInv, Writing

\* Every step keeps the rows the first records of the file, chained.
LEMMA ChainStep == Typed /\ ChainInv /\ [Next]_vars => ChainInv'
<1> SUFFICES ASSUME Typed, ChainInv, [Next]_vars PROVE ChainInv'
  OBVIOUS
<1>0. TypeOK
  BY DEF Typed
<1>1. ASSUME UNCHANGED chainVars PROVE ChainInv'
  BY <1>1 DEF chainVars, ChainInv, RowsChained, LastRow, Current, Index
<1>2. ASSUME UNCHANGED <<file, rows, prev>>,
             \/ pc' \in {"failed", "killed", "return", "raise", "done"}
             \/ pc' \in Writing /\ after' # "next"
             \/ pc' \in Writing /\ pc \in Writing /\ after' = after
             \/ pc' = "next" /\ pc \in Writing /\ after = "next"
             \/ pc' = "fcu" /\ pc \in {"np", "fcu"}
      PROVE  ChainInv'
  BY <1>2 DEF ChainInv, RowsChained, LastRow, Current, Index, Writing
<1>3. CASE BadLine \/ ChainGap \/ EngineRaises \/ WriteFails \/ Finish \/ Kill \/ LoopEnds
  BY <1>2, <1>3 DEF BadLine, ChainGap, EngineRaises, WriteFails, Finish, Kill, LoopEnds,
     GoTo, loopVars, runVars, Writing
<1>4. CASE CheckBase
  <2>1. pc = "next" /\ prev = NoHash /\ pc' = "base" /\ UNCHANGED <<file, rows, prev>>
    BY <1>4 DEF CheckBase, Proceeds, GoTo, runVars, loopVars
  <2>2. rows = <<>>
    <3>1. SUFFICES ASSUME rows # <<>> PROVE LastRow.hash \in Hash
      BY <2>1, <3>1, MarkerAssumption DEF ChainInv
    <3>2. LastRow \in Row
      BY <1>0, <3>1 DEF TypeOK, LastRow
    <3>3. QED
      BY <3>2 DEF Row
  <2>3. QED
    BY <2>1, <2>2 DEF ChainInv, RowsChained, Writing
<1>5. ASSUME pc \in {"next", "base"}, SendPayload, UNCHANGED rows,
             rows # <<>> => Current.parent = prev
      PROVE  ChainInv'
  <2>1. /\ pc' = "np" /\ prev' = Current.hash /\ UNCHANGED <<file, rows>>
        /\ UNCHANGED Current
    BY <1>5 DEF SendPayload, GoTo, runVars, Current, Index
  <2>2. UNCHANGED LastRow
    BY <1>5 DEF LastRow
  <2>3. QED
    BY <1>5, <2>1, <2>2 DEF ChainInv, RowsChained, Writing
<1>6. CASE NextPayload
  <2>1. pc = "next" /\ SendPayload /\ UNCHANGED rows /\ (prev # NoHash => Current.parent = prev)
    BY <1>6 DEF NextPayload, Proceeds
  <2>2. rows # <<>> => prev # NoHash
    <3>1. SUFFICES ASSUME rows # <<>> PROVE LastRow.hash \in Hash
      BY <2>1, <3>1, MarkerAssumption DEF ChainInv
    <3>2. LastRow \in Row
      BY <1>0, <3>1 DEF TypeOK, LastRow
    <3>3. QED
      BY <3>2 DEF Row
  <2>3. QED
    BY <1>5, <2>1, <2>2
<1>7. CASE BaseAnswer
  BY <1>2, <1>5, <1>7 DEF BaseAnswer, GoTo, runVars, ChainInv
<1>8. CASE PayloadAnswer
  <2>1. PICK s \in Status :
          \/ GoTo("fcu") /\ UNCHANGED <<rows, prev>>
          \/ \E next \in {"next", "raise"} : Collect(NewRow(s), next)
    BY <1>8 DEF PayloadAnswer
  <2>2. CASE GoTo("fcu") /\ UNCHANGED <<rows, prev>>
    BY <1>2, <1>8, <2>2 DEF GoTo, runVars, PayloadAnswer
  <2>3. CASE \E next \in {"next", "raise"} : Collect(NewRow(s), next)
    <3>1. s \in LandedStatus \cup FailedStatus
      BY DEF Status, LandedStatus, FailedStatus
    <3>2. QED
      BY <1>8, <2>3, <3>1, CollectChain DEF PayloadAnswer
  <2>4. QED
    BY <2>1, <2>2, <2>3
<1>9. CASE FcuLanded
  <2>1. (IF npStatus = "SYNCING" THEN "SYNCING_LANDED" ELSE npStatus)
           \in LandedStatus \cup FailedStatus
    BY <1>0 DEF TypeOK, Status, LandedStatus, FailedStatus
  <2>2. QED
    BY <1>9, <2>1, CollectChain DEF FcuLanded
<1>10. CASE FcuInvalid \/ FcuDeadline
  BY <1>10, CollectChain DEF FcuInvalid, FcuDeadline, FailedStatus
<1>11. CASE FcuPoll
  BY <1>2, <1>11 DEF FcuPoll, GoTo, runVars
<1>12. CASE OpenTmp \/ FillTmp
  BY <1>2, <1>12 DEF OpenTmp, FillTmp, GoTo, runVars, loopVars, Writing
<1>13. CASE Rename
  BY <1>0, <1>2, <1>13 DEF Rename, GoTo, runVars, loopVars, Writing, TypeOK
<1>14. CASE EngineRetries \/ ELMoves \/ RequestStop \/ UNCHANGED vars
  BY <1>1, <1>14 DEF EngineRetries, ELMoves, RequestStop, vars, loopVars, runVars, chainVars
<1>15. QED
  BY <1>3, <1>4, <1>6, <1>7, <1>8, <1>9, <1>10, <1>11, <1>12, <1>13, <1>14
     DEF Next, DriverStep

\* The report covers the first records of the file, each the child of the
\* one before it.
THEOREM ReportChained == Spec => []RowsChained
<1>1. Spec => [](Typed /\ ChainInv)
  BY TypeInit, TypeStep, ChainInit, ChainStep, PTL DEF Spec
<1>2. QED
  BY <1>1, PTL DEF ChainInv

-----------------------------------------------------------------------------
(* The engine: LandedRowsImported, NeverPollsAcrossAGap, HeadFollowsReport.*)
(* A VALID answer to a forkchoiceUpdated means that the block is imported  *)
(* and is the head, and no abandoned attempt is left that could move it.   *)

Standing == {"next", "return", "done"}

EngineInv ==
    /\ pc \in Calling <=> attempt # "idle"
    /\ pc = "base" => call = Fcu(Current.parent)
    /\ pc = "fcu" => call = Fcu(Current.hash)
    /\ attempt = "answered" /\ call.kind = "fcu" /\ reply = "VALID" =>
           call.hash \in imported /\ elHead = call.hash /\ orphans = <<>>
    /\ LandedRowsImported
    /\ NeverPollsAcrossAGap
    /\ advance /\ rows # <<>>
       /\ (pc \in Standing \/ (pc \in Writing /\ after # "raise")) =>
           elHead = LastRow.hash /\ orphans = <<>>

engineVars == <<elVars, rpcVars, pc, after, file, advance, rows>>

\* Executing a request never forgets an imported block; a forkchoiceUpdated
\* answered VALID leaves its block imported and the head.
LEMMA ExecuteEffect ==
    ASSUME NEW req, NEW ans, Execute(req, ans)
    PROVE  /\ imported \subseteq imported'
           /\ req.kind = "fcu" /\ ans = "VALID" =>
                 req.hash \in imported' /\ elHead' = req.hash
BY DEF Execute, ExecuteNewPayload, ExecuteFcu, Unmoved, Import, Refuse, Enqueue, Block

\* The EL agrees with the report at the start.
LEMMA EngineInit == Init => EngineInv
BY DEF Init, ELInit, EngineInv, LandedRowsImported, NeverPollsAcrossAGap, Recorded,
   Calling, Standing, Writing

\* The rows and the current record are the driver's: the EL only adds to
\* what is imported, and does not touch the head while no call is under way.
LEMMA EngineELStep ==
    ASSUME TypeOK, EngineInv, ELMoves
    PROVE  EngineInv'
<1>1. UNCHANGED <<pc, after, file, advance, rows>> /\ ELStep
  BY DEF ELMoves, runVars, loopVars
<1>2. UNCHANGED <<Current, LastRow, Recorded>>
  BY <1>1 DEF Current, Index, LastRow, Recorded
<1>3. imported \subseteq imported'
  BY <1>1, ExecuteEffect
     DEF ELStep, ExecuteOrphan, ExecuteLive, ImportQueued, Restart, LoseAttempt,
         Import, Refuse, elVars
<1>4. LandedRowsImported' /\ NeverPollsAcrossAGap'
  BY <1>1, <1>2, <1>3 DEF EngineInv, LandedRowsImported, NeverPollsAcrossAGap, Landed
<1>5. ASSUME attempt = "idle", orphans = <<>>
      PROVE  elHead' = elHead /\ orphans' = <<>>
  BY <1>1, <1>5
     DEF ELStep, ExecuteOrphan, ExecuteLive, ImportQueued, Restart, LoseAttempt, elVars, rpcVars
<1>6. call' = call /\ (attempt' = "idle" <=> attempt = "idle")
  BY <1>1 DEF ELStep, ExecuteOrphan, ExecuteLive, ImportQueued, Restart, LoseAttempt, rpcVars
<1>7. attempt' = "answered" /\ call'.kind = "fcu" /\ reply' = "VALID" =>
           call'.hash \in imported' /\ elHead' = call'.hash /\ orphans' = <<>>
  <2>1. CASE ExecuteLive
    BY <2>1, ExecuteEffect DEF ExecuteLive
  <2>2. CASE ExecuteOrphan
    BY <2>2 DEF ExecuteOrphan, EngineInv
  <2>3. CASE ImportQueued
    BY <1>3, <2>3 DEF ImportQueued, EngineInv, rpcVars
  <2>4. CASE Restart \/ LoseAttempt
    BY <2>4 DEF Restart, LoseAttempt
  <2>5. QED
    BY <1>1, <2>1, <2>2, <2>3, <2>4 DEF ELStep
<1>8. QED
  BY <1>1, <1>2, <1>4, <1>5, <1>6, <1>7
     DEF EngineInv, Calling, Standing, Writing

\* The row collected says landed only for a block the EL has imported.
LEMMA CollectEngine ==
    ASSUME Typed, EngineInv, pc \in Calling, UNCHANGED elVars,
           NEW status \in LandedStatus \cup FailedStatus,
           NEW next \in {"next", "raise"}, Collect(NewRow(status), next),
           next = "next" <=> status \in LandedStatus,
           advance /\ status \in LandedStatus =>
               /\ Current.hash \in imported /\ elHead = Current.hash
               /\ orphans = <<>>
    PROVE  EngineInv'
<1>1. /\ NewRow(status) \in Row /\ NewRow(status).hash = Current.hash
      /\ NewRow(status).status = status
  BY RowType DEF Typed, InRecord, NewRow
<1>2. /\ rows' = Append(rows, NewRow(status)) /\ rows \in Seq(Row)
      /\ pc' = "write" /\ after' = next /\ advance' = advance
      /\ attempt' = "idle" /\ orphans' = orphans
      /\ imported' = imported /\ elHead' = elHead
  BY DEF Collect, EndCall, runVars, elVars, Typed, TypeOK
<1>3. /\ Len(rows') = Len(rows) + 1 /\ Len(rows) \in Nat
      /\ rows'[Len(rows')] = NewRow(status)
      /\ \A k \in 1..Len(rows) : rows'[k] = rows[k]
  BY <1>1, <1>2
<1>4. \A row \in Recorded' : row \in Recorded \/ row = NewRow(status)
  <2> SUFFICES ASSUME NEW k \in 1..(Len(rows) + 1)
               PROVE  rows'[k] \in Recorded \/ rows'[k] = NewRow(status)
    BY <1>3 DEF Recorded
  <2>1. k \in 1..Len(rows) \/ k = Len(rows')
    BY <1>3
  <2>2. QED
    BY <1>3, <2>1 DEF Recorded
<1>5. LandedRowsImported'
  BY <1>1, <1>2, <1>4 DEF EngineInv, LandedRowsImported, Landed
<1>6. LastRow' = NewRow(status)
  BY <1>3 DEF LastRow
<1>7. QED
  BY <1>1, <1>2, <1>5, <1>6
     DEF EngineInv, NeverPollsAcrossAGap, Calling, Standing, Writing

\* Every step keeps the agreement of the EL with the report.
LEMMA EngineStep == Typed /\ ReportInv /\ ChainInv /\ EngineInv /\ [Next]_vars => EngineInv'
<1> SUFFICES ASSUME Typed, ReportInv, ChainInv, EngineInv, [Next]_vars PROVE EngineInv'
  OBVIOUS
<1>0. TypeOK
  BY DEF Typed
<1>1. ASSUME UNCHANGED engineVars PROVE EngineInv'
  BY <1>1 DEF engineVars, elVars, rpcVars, EngineInv, LandedRowsImported,
     NeverPollsAcrossAGap, Recorded, LastRow, Current, Index
\* Steps that keep the rows and the EL, and make no call.
<1>2. ASSUME UNCHANGED <<elVars, orphans, advance, rows>>, attempt' = "idle",
             pc' \notin Calling,
             \/ pc' \in {"failed", "killed", "raise"}
             \/ pc' \in Standing \cup Writing /\ pc \in Standing
             \/ pc' \in Standing \cup Writing /\ pc \in Writing /\ after # "raise"
             \/ pc' \in Writing /\ after' = "raise"
      PROVE  EngineInv'
  <2>1. LandedRowsImported' /\ NeverPollsAcrossAGap' /\ LastRow' = LastRow
    BY <1>2 DEF EngineInv, LandedRowsImported, NeverPollsAcrossAGap, Recorded, Landed,
       LastRow, elVars, Calling
  <2>2. QED
    BY <1>2, <2>1 DEF EngineInv, elVars, Calling, Standing, Writing
<1>3. ASSUME UNCHANGED <<imported, advance, rows>>, attempt' = "idle",
             pc' \in {"failed", "killed"}
      PROVE  EngineInv'
  <2>1. LandedRowsImported' /\ NeverPollsAcrossAGap'
    BY <1>3 DEF EngineInv, LandedRowsImported, NeverPollsAcrossAGap, Recorded, Landed
  <2>2. QED
    BY <1>3, <2>1 DEF EngineInv, Calling, Standing, Writing
\* Steps that send a request.
<1>4. ASSUME UNCHANGED <<elVars, file, advance, rows>>, NEW req, Send(req),
             \/ pc' = "base" /\ req = Fcu(Current.parent)
             \/ pc' = "np" /\ (advance => Current.parent \in imported)
             \/ /\ pc' = "fcu" /\ req = Fcu(Current.hash)
                /\ (advance => Current.parent \in imported)
      PROVE  EngineInv'
  <2>1. UNCHANGED <<Current, Recorded>>
    BY <1>4 DEF Current, Index, Recorded
  <2>2. LandedRowsImported' /\ NeverPollsAcrossAGap'
    BY <1>4, <2>1 DEF EngineInv, LandedRowsImported, NeverPollsAcrossAGap, Landed, elVars
  <2>3. QED
    BY <1>4, <2>1, <2>2 DEF EngineInv, Send, Calling, Standing, Writing
<1>5. CASE BadLine \/ ChainGap \/ WriteFails
  BY <1>3, <1>5 DEF BadLine, ChainGap, Proceeds, WriteFails, GoTo, EngineInv, elVars,
     rpcVars, runVars, loopVars, Calling, Writing
<1>6. CASE EngineRaises \/ Kill
  BY <1>3, <1>6 DEF EngineRaises, Kill, Abandon, GoTo, elVars, runVars, loopVars
<1>7. CASE LoopEnds
  BY <1>2, <1>7 DEF LoopEnds, EngineInv, rpcVars, runVars, loopVars, Calling, Standing, Writing
<1>8. CASE CheckBase
  BY <1>4, <1>8 DEF CheckBase, GoTo, runVars, loopVars
<1>9. CASE NextPayload
  <2>1. advance => Current.parent \in imported
    <3> SUFFICES ASSUME advance PROVE Current.parent \in imported
      OBVIOUS
    <3>1. pc = "next" /\ prev # NoHash /\ Current.parent = prev
      BY <1>9 DEF NextPayload, Proceeds
    <3>2. rows # <<>> /\ Current.parent = LastRow.hash
      BY <3>1 DEF ChainInv
    <3>3. Len(rows) \in 1..Len(rows)
      BY <1>0, <3>2 DEF TypeOK
    <3>4. LastRow \in Recorded /\ Landed(LastRow)
      BY <3>1, <3>3 DEF LastRow, Recorded, ReportInv, AllLanded
    <3>5. QED
      BY <3>2, <3>4 DEF EngineInv, LandedRowsImported
  <2>2. QED
    BY <1>4, <1>9, <2>1 DEF NextPayload, SendPayload, GoTo, runVars
<1>10. CASE BaseAnswer
  <2>1. PICK s \in Status :
          /\ Receive(s)
          /\ \/ s = "VALID" /\ SendPayload
             \/ EndCall /\ GoTo("failed")
    BY <1>10 DEF BaseAnswer
  <2>2. UNCHANGED <<elVars, rows>> /\ pc = "base"
    BY <1>10 DEF BaseAnswer
  <2>3. CASE s = "VALID" /\ SendPayload
    <3>1. Current.parent \in imported
      BY <2>1, <2>2, <2>3 DEF EngineInv, Receive, Fcu
    <3>2. QED
      BY <1>4, <2>2, <2>3, <3>1 DEF SendPayload, GoTo, runVars
  <2>4. CASE EndCall /\ GoTo("failed")
    BY <1>3, <2>2, <2>4 DEF EndCall, GoTo, elVars, runVars
  <2>5. QED
    BY <2>1, <2>3, <2>4
<1>11. CASE PayloadAnswer
  <2>1. PICK s \in Status :
          \/ Send(Fcu(Current.hash)) /\ GoTo("fcu") /\ UNCHANGED <<rows, prev>>
          \/ /\ s \in {"VALID", "ACCEPTED", "SYNCING"} /\ ~advance
             /\ Collect(NewRow(s), "next")
          \/ s \in {"INVALID", "OTHER"} /\ Collect(NewRow(s), "raise")
    BY <1>11 DEF PayloadAnswer
  <2>2. UNCHANGED elVars /\ pc = "np"
    BY <1>11 DEF PayloadAnswer
  <2>3. CASE Send(Fcu(Current.hash)) /\ GoTo("fcu") /\ UNCHANGED <<rows, prev>>
    <3>1. advance => Current.parent \in imported
      BY <2>2 DEF EngineInv, NeverPollsAcrossAGap
    <3>2. QED
      BY <1>4, <2>2, <2>3, <3>1 DEF GoTo, runVars
  <2>4. CASE /\ s \in {"VALID", "ACCEPTED", "SYNCING"} /\ ~advance
             /\ Collect(NewRow(s), "next")
    BY <2>2, <2>4, CollectEngine DEF LandedStatus, Calling
  <2>5. CASE s \in {"INVALID", "OTHER"} /\ Collect(NewRow(s), "raise")
    BY <2>2, <2>5, CollectEngine DEF LandedStatus, FailedStatus, Calling
  <2>6. QED
    BY <2>1, <2>3, <2>4, <2>5
<1>12. CASE FcuLanded
  <2>1. /\ pc = "fcu" /\ UNCHANGED elVars /\ Receive("VALID")
        /\ Collect(NewRow(IF npStatus = "SYNCING" THEN "SYNCING_LANDED" ELSE npStatus), "next")
    BY <1>12 DEF FcuLanded
  <2>2. npStatus \in {"VALID", "ACCEPTED", "SYNCING"}
    BY <2>1 DEF Typed, InRecord
  <2>3. (IF npStatus = "SYNCING" THEN "SYNCING_LANDED" ELSE npStatus) \in LandedStatus
    BY <2>2 DEF LandedStatus
  <2>4. Current.hash \in imported /\ elHead = Current.hash /\ orphans = <<>>
    BY <2>1 DEF EngineInv, Receive, Fcu
  <2>5. QED
    BY <2>1, <2>3, <2>4, CollectEngine DEF Calling
<1>13. CASE FcuInvalid \/ FcuDeadline
  BY <1>13, CollectEngine DEF FcuInvalid, FcuDeadline, LandedStatus, FailedStatus, Calling
<1>14. CASE FcuPoll
  <2>1. advance => Current.parent \in imported
    BY <1>14 DEF FcuPoll, EngineInv, NeverPollsAcrossAGap
  <2>2. QED
    BY <1>4, <1>14, <2>1 DEF FcuPoll, GoTo, runVars
<1>15. CASE EngineRetries
  <2>1. UNCHANGED <<elVars, call, pc, after, file, advance, rows>>
    BY <1>15 DEF EngineRetries, Retry, runVars, loopVars
  <2>2. UNCHANGED <<Current, Recorded, LastRow>>
    BY <2>1 DEF Current, Index, Recorded, LastRow
  <2>3. /\ LandedRowsImported' /\ NeverPollsAcrossAGap'
        /\ pc \in Calling /\ attempt' = "sent"
    BY <1>15, <2>1, <2>2 DEF EngineRetries, Retry, EngineInv, LandedRowsImported,
       NeverPollsAcrossAGap, Landed, elVars
  <2>4. QED
    BY <2>1, <2>2, <2>3 DEF EngineInv, Calling, Standing, Writing
<1>16. CASE OpenTmp \/ FillTmp
  BY <1>2, <1>16 DEF OpenTmp, FillTmp, GoTo, EngineInv, rpcVars, runVars, loopVars,
     Calling, Standing, Writing
<1>17. CASE Rename
  BY <1>0, <1>2, <1>17 DEF Rename, GoTo, EngineInv, TypeOK, rpcVars, runVars, loopVars,
     Calling, Standing, Writing
<1>18. CASE Finish
  BY <1>2, <1>18 DEF Finish, GoTo, EngineInv, rpcVars, runVars, loopVars, Calling, Standing
<1>19. CASE ELMoves
  BY <1>0, <1>19, EngineELStep
<1>20. CASE RequestStop \/ UNCHANGED vars
  BY <1>1, <1>20 DEF RequestStop, vars, runVars, loopVars, engineVars
<1>21. QED
  BY <1>5, <1>6, <1>7, <1>8, <1>9, <1>10, <1>11, <1>12, <1>13, <1>14, <1>15, <1>16, <1>17,
     <1>18, <1>19, <1>20 DEF Next, DriverStep

IInv == Typed /\ ReportInv /\ ChainInv /\ EngineInv

\* The inductive invariant of the replay driver: types, report on disk, chain
\* of rows and agreement with the EL together.
THEOREM EngineInvariant == Spec => []IInv
<1>1. Init => IInv
  BY TypeInit, ReportInit, ChainInit, EngineInit DEF IInv
<1>2. IInv /\ [Next]_vars => IInv'
  BY TypeStep, ReportStep, ChainStep, EngineStep DEF IInv
<1>3. QED
  BY <1>1, <1>2, PTL DEF Spec

\* A block the report says landed is one the EL has imported, whatever was
\* lost, repeated or restarted.
THEOREM LandedImported == Spec => []LandedRowsImported
BY EngineInvariant, PTL DEF IInv, EngineInv

\* No block is sent, let alone polled for, whose parent the EL does not have.
THEOREM NoGapReachesTheEngine == Spec => []NeverPollsAcrossAGap
BY EngineInvariant, PTL DEF IInv, EngineInv

\* Between blocks and at the end the EL's head is the last reported block,
\* and no abandoned request is left that could move it.
THEOREM HeadFollows == Spec => []HeadFollowsReport
<1>1. IInv => HeadFollowsReport
  BY DEF IInv, EngineInv, HeadFollowsReport, Standing, LastRow
<1>2. QED
  BY <1>1, EngineInvariant, PTL

-----------------------------------------------------------------------------
(* HeadUntouched: with --no-advance-head no forkchoiceUpdated is ever sent, *)
(* so none is left among the abandoned attempts either.                     *)

NoFcu ==
    ~advance =>
        /\ pc \notin {"base", "fcu"}
        /\ attempt # "idle" => call.kind = "newPayload"
        /\ \A k \in 1..Len(orphans) : orphans[k].kind = "newPayload"

\* With --no-advance-head every request abandoned is a newPayload.
LEMMA OrphanedNoFcu ==
    ASSUME TypeOK, NoFcu, ~advance
    PROVE  \A k \in 1..Len(Orphaned) : Orphaned[k].kind = "newPayload"
<1>1. CASE attempt = "sent"
  <2>1. call \in Request /\ orphans \in Seq(Request)
    BY DEF TypeOK, ELTypeOK
  <2>2. QED
    BY <1>1, <2>1 DEF Orphaned, NoFcu
<1>2. CASE attempt # "sent"
  BY <1>2 DEF Orphaned, NoFcu
<1>3. QED
  BY <1>1, <1>2

\* With --no-advance-head no step sends a forkchoiceUpdated.
LEMMA NoFcuStep == Typed /\ NoFcu /\ [Next]_vars => NoFcu'
<1> SUFFICES ASSUME Typed, NoFcu, [Next]_vars, ~advance' PROVE NoFcu'
  BY DEF NoFcu
<1>0. TypeOK /\ advance' = advance
  BY DEF Typed, Next, DriverStep, BadLine, LoopEnds, CheckBase, ChainGap, NextPayload,
     BaseAnswer, SendPayload, PayloadAnswer, Collect, FcuLanded, FcuInvalid, FcuDeadline,
     FcuPoll, EngineRaises, EngineRetries, OpenTmp, FillTmp, Rename, WriteFails, Finish,
     ELMoves, Kill, RequestStop, GoTo, runVars, vars
<1>1. ASSUME UNCHANGED orphans, pc' \notin {"base", "fcu"},
             attempt' = "idle" \/ (call' = call /\ attempt # "idle") \/ call'.kind = "newPayload"
      PROVE  NoFcu'
  BY <1>0, <1>1 DEF NoFcu
<1>2. CASE BadLine \/ LoopEnds \/ CheckBase \/ ChainGap \/ FcuLanded \/ FcuInvalid
           \/ FcuDeadline \/ FcuPoll \/ OpenTmp \/ FillTmp \/ WriteFails \/ Finish
           \/ RequestStop \/ UNCHANGED vars
  BY <1>0, <1>2 DEF NoFcu, BadLine, LoopEnds, CheckBase, ChainGap, FcuLanded, FcuInvalid,
     FcuDeadline, FcuPoll, OpenTmp, FillTmp, WriteFails, Finish, RequestStop, vars,
     GoTo, rpcVars
<1>3. CASE Rename
  BY <1>0, <1>3 DEF NoFcu, Rename, GoTo, rpcVars, TypeOK
<1>4. CASE NextPayload
  BY <1>0, <1>1, <1>4 DEF NextPayload, SendPayload, Send, NewPayload, GoTo
<1>5. CASE BaseAnswer
  BY <1>0, <1>5 DEF BaseAnswer, NoFcu
<1>6. CASE PayloadAnswer
  <2>1. ~advance
    BY <1>0
  <2>2. PICK s \in Status :
          \/ Collect(NewRow(s), "next")
          \/ Collect(NewRow(s), "raise")
    BY <1>6, <2>1 DEF PayloadAnswer
  <2>3. pc' = "write" /\ UNCHANGED orphans /\ attempt' = "idle"
    BY <2>2 DEF Collect, EndCall
  <2>4. QED
    BY <1>0, <2>3 DEF NoFcu
<1>7. CASE EngineRaises \/ Kill
  BY <1>0, <1>7, OrphanedNoFcu DEF EngineRaises, Kill, Abandon, GoTo, NoFcu
<1>8. CASE EngineRetries
  BY <1>0, <1>8, OrphanedNoFcu DEF EngineRetries, Retry, NoFcu
<1>9. CASE ELMoves
  <2>1. pc' = pc /\ ELStep
    BY <1>9 DEF ELMoves
  <2>2. CASE ExecuteOrphan
    <3>1. /\ orphans \in Seq(Request) /\ orphans # <<>> /\ orphans' = Tail(orphans)
          /\ UNCHANGED <<call, attempt>>
      BY <1>0, <2>2 DEF ExecuteOrphan, TypeOK, ELTypeOK
    <3>2. \A k \in 1..Len(orphans') : orphans'[k] = orphans[k + 1] /\ k + 1 \in 1..Len(orphans)
      BY <3>1
    <3>3. QED
      BY <1>0, <2>1, <3>1, <3>2 DEF NoFcu
  <2>3. CASE Restart
    <3>1. orphans' = <<>> /\ call' = call /\ (attempt' = "idle" <=> attempt = "idle")
      BY <2>3 DEF Restart
    <3>2. 1..Len(orphans') = {}
      BY <3>1
    <3>3. QED
      BY <1>0, <2>1, <3>1, <3>2 DEF NoFcu
  <2>4. CASE ExecuteLive \/ ImportQueued \/ LoseAttempt
    BY <1>0, <2>1, <2>4 DEF ExecuteLive, ImportQueued, LoseAttempt, rpcVars, NoFcu
  <2>5. QED
    BY <2>1, <2>2, <2>3, <2>4 DEF ELStep
<1>10. QED
  BY <1>2, <1>3, <1>4, <1>5, <1>6, <1>7, <1>8, <1>9 DEF Next, DriverStep

\* With --no-advance-head no step of anyone moves the EL's head.
THEOREM HeadLeftAlone == Spec => HeadUntouched
<1>1. Init => NoFcu
  BY DEF Init, ELInit, NoFcu
<1>2. Spec => [](Typed /\ NoFcu)
  BY <1>1, TypeInit, TypeStep, NoFcuStep, PTL DEF Spec
<1>3. Typed /\ NoFcu /\ [Next]_vars => [~advance => elHead' = elHead]_vars
  <2> SUFFICES ASSUME Typed, NoFcu, Next, ~advance PROVE elHead' = elHead
    BY DEF vars, elVars
  <2>1. CASE ELMoves
    <3>1. ELStep
      BY <2>1 DEF ELMoves
    <3>2. CASE ExecuteOrphan
      <4>1. orphans \in Seq(Request) /\ orphans # <<>>
        BY <3>2 DEF ExecuteOrphan, Typed, TypeOK, ELTypeOK
      <4>2. Head(orphans).kind = "newPayload"
        BY <4>1 DEF NoFcu
      <4>3. QED
        BY <3>2, <4>2 DEF ExecuteOrphan, Execute, ExecuteNewPayload
    <3>3. CASE ExecuteLive
      BY <3>3 DEF ExecuteLive, NoFcu, Execute, ExecuteNewPayload
    <3>4. CASE ImportQueued \/ Restart \/ LoseAttempt
      BY <3>4 DEF ImportQueued, Restart, LoseAttempt, elVars
    <3>5. QED
      BY <3>1, <3>2, <3>3, <3>4 DEF ELStep
  <2>2. CASE DriverStep \/ Kill \/ RequestStop
    BY <2>2 DEF DriverStep, BadLine, LoopEnds, CheckBase, ChainGap, NextPayload,
     BaseAnswer, PayloadAnswer, FcuLanded, FcuInvalid, FcuDeadline,
     FcuPoll, EngineRaises, EngineRetries, Abandon, Retry, OpenTmp, FillTmp, Rename,
     WriteFails, Finish, Kill, RequestStop, elVars
  <2>3. QED
    BY <2>1, <2>2 DEF Next
<1>4. QED
  BY <1>2, <1>3, PTL DEF Spec, HeadUntouched

-----------------------------------------------------------------------------
(* ReplayDriver implements ReplayPromise.                                  *)

\* A row collected in ReplayDriver is a row measured in ReplayPromise.
LEMMA PromiseMeasure ==
    ASSUME Typed, ReportInv, pc \in Calling, UNCHANGED diskVars,
           NEW status \in LandedStatus \cup FailedStatus,
           NEW next, Collect(NewRow(status), next)
    PROVE  Promise!Measure
<1>1. NewRow(status) \in Row
  BY RowType DEF Typed, InRecord
<1>2. /\ rows' = Append(rows, NewRow(status)) /\ pc' = "write" /\ csv' = csv
  BY DEF Collect, diskVars
<1>3. Promise!AllLanded /\ Promise!UpToDate
  BY DEF Promise!AllLanded, Promise!UpToDate, ReportInv, AllLanded, Landed, Quiet
<1>4. Outcome = "running" /\ Outcome' = "running"
  BY <1>2 DEF Outcome, Calling
<1>5. QED
  BY <1>1, <1>2, <1>3, <1>4 DEF Promise!Measure

\* Every step of ReplayDriver is a step of ReplayPromise, or a stutter.
LEMMA PromiseStep == Typed /\ ReportInv /\ [Next]_vars => [Promise!Next]_(Promise!pvars)
<1> SUFFICES ASSUME Typed, ReportInv, [Next]_vars
             PROVE  Promise!Next \/ UNCHANGED <<rows, csv, Outcome>>
  BY DEF Promise!pvars
<1>0. TypeOK
  BY DEF Typed
<1>1. ASSUME UNCHANGED <<rows, csv>>, pc \notin Ended, pc' \notin Ended
      PROVE  UNCHANGED <<rows, csv, Outcome>>
  BY <1>1 DEF Outcome, Ended
<1>2. ASSUME UNCHANGED <<rows, csv>>, pc \notin Ended, pc' \in {"failed", "killed"}
      PROVE  Promise!Break
  BY <1>2 DEF Promise!Break, Outcome, Ended
<1>3. CASE BadLine \/ ChainGap \/ EngineRaises \/ WriteFails \/ Kill
  BY <1>2, <1>3 DEF BadLine, ChainGap, Proceeds, EngineRaises, WriteFails, Kill, GoTo,
     loopVars, diskVars, Calling, Writing, Ended, Promise!Next
<1>4. CASE LoopEnds \/ CheckBase \/ NextPayload \/ FcuPoll \/ OpenTmp \/ FillTmp
  BY <1>1, <1>4 DEF LoopEnds, CheckBase, NextPayload, Proceeds, SendPayload, FcuPoll,
     OpenTmp, FillTmp, GoTo, loopVars, diskVars, Ended
<1>5. CASE BaseAnswer
  BY <1>1, <1>2, <1>5 DEF BaseAnswer, SendPayload, GoTo, diskVars, Ended, Promise!Next
<1>6. CASE PayloadAnswer
  <2>1. PICK s \in Status :
          \/ GoTo("fcu") /\ UNCHANGED <<rows, prev>>
          \/ \E next \in {"next", "raise"} : Collect(NewRow(s), next)
    BY <1>6 DEF PayloadAnswer
  <2>2. CASE GoTo("fcu") /\ UNCHANGED <<rows, prev>>
    BY <1>1, <1>6, <2>2 DEF GoTo, PayloadAnswer, diskVars, Ended
  <2>3. CASE \E next \in {"next", "raise"} : Collect(NewRow(s), next)
    <3>1. s \in LandedStatus \cup FailedStatus
      BY DEF Status, LandedStatus, FailedStatus
    <3>2. QED
      BY <1>6, <2>3, <3>1, PromiseMeasure DEF PayloadAnswer, Calling, Promise!Next
  <2>4. QED
    BY <2>1, <2>2, <2>3
<1>7. CASE FcuLanded
  <2>1. (IF npStatus = "SYNCING" THEN "SYNCING_LANDED" ELSE npStatus)
           \in LandedStatus \cup FailedStatus
    BY <1>0 DEF TypeOK, Status, LandedStatus, FailedStatus
  <2>2. QED
    BY <1>7, <2>1, PromiseMeasure DEF FcuLanded, Calling, Promise!Next
<1>8. CASE FcuInvalid \/ FcuDeadline
  BY <1>8, PromiseMeasure DEF FcuInvalid, FcuDeadline, FailedStatus, Calling, Promise!Next
<1>9. CASE Rename
  <2>1. csv' = rows /\ rows' = rows /\ pc' \in {"next", "return", "raise"}
    BY <1>0, <1>9 DEF Rename, GoTo, ReportInv, loopVars, TypeOK
  <2>2. Outcome = "running" /\ Outcome' = "running"
    BY <1>9, <2>1 DEF Outcome, Rename
  <2>3. QED
    BY <2>1, <2>2 DEF Promise!Publish, Promise!Next
<1>10. CASE Finish
  <2>1. CASE pc = "return" /\ pc' = "done"
    <3>1. UNCHANGED <<rows, csv>> /\ csv = rows
      BY <1>10, <2>1 DEF Finish, loopVars, diskVars, ReportInv
    <3>2. Promise!AllLanded
      BY <2>1 DEF Promise!AllLanded, ReportInv, AllLanded, Landed
    <3>3. Outcome = "running" /\ Outcome' = "ok"
      BY <2>1 DEF Outcome
    <3>4. QED
      BY <3>1, <3>2, <3>3 DEF Promise!Succeed, Promise!Next
  <2>2. CASE pc = "raise" /\ pc' = "failed"
    BY <1>2, <1>10, <2>2 DEF Finish, loopVars, diskVars, Ended, Promise!Next
  <2>3. QED
    BY <1>10, <2>1, <2>2 DEF Finish, GoTo
<1>11. CASE EngineRetries \/ ELMoves \/ RequestStop \/ UNCHANGED vars
  BY <1>11 DEF EngineRetries, ELMoves, RequestStop, vars, loopVars, diskVars, Outcome
<1>12. QED
  BY <1>3, <1>4, <1>5, <1>6, <1>7, <1>8, <1>9, <1>10, <1>11 DEF Next, DriverStep

\* The driver, with its engine calls, temporary file and failures, implements
\* the promise it makes to the reader of the report.
THEOREM Refinement == Spec => ImplementsPromise
<1>1. Init => Promise!Init
  BY DEF Init, Promise!Init, Outcome
<1>2. QED
  BY <1>1, PromiseStep, ReportInvariant, PTL DEF Spec, Promise!Spec, ImplementsPromise

-----------------------------------------------------------------------------
(* ReplayEnds, but for fairness: what a replay has left to do shrinks with  *)
(* every step of the driver and is never added to, in this order: records,  *)
(* stages of a record and of the end, polls of a stage, retries of a call.  *)

RecordsLeft == Len(file) - Len(rows)
WritesLeft == CASE pc = "write" -> 3 [] pc = "filling" -> 2 [] pc = "rename" -> 1 [] OTHER -> 0
StagesLeft ==
    CASE pc \in Writing /\ after = "next" -> 8 + WritesLeft
      [] pc = "next" -> 8
      [] pc = "base" -> 7
      [] pc = "np" -> 6
      [] pc = "fcu" -> 5
      [] pc \in Writing /\ after # "next" -> 1 + WritesLeft
      [] pc \in {"return", "raise"} -> 1
      [] OTHER -> 0
PollsLeft == MaxPolls - polls
TriesLeft == MaxAttempts - tries

Nearer ==
    \/ RecordsLeft' < RecordsLeft
    \/ UNCHANGED RecordsLeft /\ StagesLeft' < StagesLeft
    \/ UNCHANGED <<RecordsLeft, StagesLeft>> /\ PollsLeft' < PollsLeft
    \/ UNCHANGED <<RecordsLeft, StagesLeft, PollsLeft>> /\ TriesLeft' < TriesLeft
AsFar == UNCHANGED <<RecordsLeft, StagesLeft, PollsLeft, TriesLeft>>

\* No more rows than records, no more polls than the deadline allows and no
\* more attempts than the budget.
LEMMA LeftNat ==
    Typed /\ ChainInv =>
        RecordsLeft \in Nat /\ StagesLeft \in Nat /\ PollsLeft \in Nat /\ TriesLeft \in Nat
<1> SUFFICES ASSUME Typed, ChainInv
             PROVE  RecordsLeft \in Nat /\ StagesLeft \in Nat /\ PollsLeft \in Nat /\ TriesLeft \in Nat
  OBVIOUS
<1>1. Len(rows) \in Nat /\ Len(file) \in Nat /\ polls \in 0..MaxPolls /\ tries \in 0..MaxAttempts
  BY DEF Typed, TypeOK, ELTypeOK
<1>2. RecordsLeft \in Nat
  <2>1. CASE Len(rows) = 0
    BY <1>1, <2>1 DEF RecordsLeft
  <2>2. CASE Len(rows) # 0
    <3>1. Len(rows) \in 1..Len(rows)
      BY <1>1, <2>2
    <3>2. Len(rows) <= Len(file)
      BY <3>1 DEF ChainInv, RowsChained
    <3>3. QED
      BY <1>1, <3>2 DEF RecordsLeft
  <2>3. QED
    BY <2>1, <2>2
<1>3. WritesLeft \in Nat
  BY DEF WritesLeft
<1>4. StagesLeft \in Nat
  BY <1>3 DEF StagesLeft
<1>5. PollsLeft \in Nat /\ TriesLeft \in Nat
  BY <1>1, MarkerAssumption, ChannelAssumption DEF PollsLeft, TriesLeft
<1>6. QED
  BY <1>2, <1>4, <1>5

\* A collected row is a record less.
LEMMA CollectNearer ==
    ASSUME Typed, NEW row, NEW next, Collect(row, next)
    PROVE  Nearer
<1>1. Len(rows') = Len(rows) + 1 /\ Len(rows) \in Nat /\ Len(file) \in Nat /\ file' = file
  BY DEF Collect, Typed, TypeOK, runVars
<1>2. QED
  BY <1>1 DEF Nearer, RecordsLeft

\* A step that stays at the record and goes to a later stage.
LEMMA StageNearer ==
    ASSUME Typed, UNCHANGED <<file, rows>>, StagesLeft' < StagesLeft
    PROVE  Nearer
BY DEF Nearer, RecordsLeft

\* Each step of the driver, and the signal that kills it.
LEMMA StepNearer == Typed /\ (DriverStep \/ Kill) => Nearer
<1> SUFFICES ASSUME Typed, DriverStep \/ Kill PROVE Nearer
  OBVIOUS
<1> USE DEF Writing, Calling, Ended
<1>0. after \in {"next", "return", "raise"} /\ (pc = "rename" => WritesLeft = 1)
  BY DEF Typed, TypeOK, WritesLeft
<1>1. CASE BadLine \/ ChainGap
  <2>1. UNCHANGED <<file, rows>> /\ pc = "next" /\ pc' = "failed"
    BY <1>1 DEF BadLine, ChainGap, Proceeds, GoTo, runVars, loopVars
  <2>2. QED
    BY <2>1, StageNearer DEF StagesLeft
<1>2. CASE LoopEnds
  <2>1. UNCHANGED <<file, rows>> /\ pc = "next" /\ pc' = "write" /\ after' = "return"
    BY <1>2 DEF LoopEnds, runVars, loopVars
  <2>2. WritesLeft' = 3
    BY <2>1 DEF WritesLeft
  <2>3. QED
    BY <2>1, <2>2, StageNearer DEF StagesLeft
<1>3. CASE CheckBase \/ NextPayload
  <2>1. UNCHANGED <<file, rows>> /\ pc = "next" /\ pc' \in {"base", "np"}
    BY <1>3 DEF CheckBase, NextPayload, Proceeds, SendPayload, GoTo, runVars, loopVars
  <2>2. QED
    BY <2>1, StageNearer DEF StagesLeft
<1>4. CASE BaseAnswer
  <2>1. UNCHANGED <<file, rows>> /\ pc = "base" /\ pc' \in {"np", "failed"}
    BY <1>4 DEF BaseAnswer, SendPayload, GoTo, runVars
  <2>2. QED
    BY <2>1, StageNearer DEF StagesLeft
<1>5. CASE PayloadAnswer
  <2>1. CASE \E s \in Status, next \in {"next", "raise"} : Collect(NewRow(s), next)
    BY <2>1, CollectNearer
  <2>2. CASE UNCHANGED <<file, rows>> /\ pc = "np" /\ pc' = "fcu"
    BY <2>2, StageNearer DEF StagesLeft
  <2>3. QED
    BY <1>5, <2>1, <2>2 DEF PayloadAnswer, GoTo, runVars
<1>6. CASE FcuLanded \/ FcuInvalid \/ FcuDeadline
  BY <1>6, CollectNearer DEF FcuLanded, FcuInvalid, FcuDeadline
<1>7. CASE FcuPoll
  <2>1. UNCHANGED <<file, rows, pc, after>> /\ polls' = polls + 1
    BY <1>7 DEF FcuPoll, GoTo, runVars
  <2>2. polls \in 0..MaxPolls
    BY DEF Typed, TypeOK
  <2>3. PollsLeft' < PollsLeft
    BY <2>1, <2>2, MarkerAssumption DEF PollsLeft
  <2>4. QED
    BY <2>1, <2>3 DEF Nearer, RecordsLeft, StagesLeft, WritesLeft
<1>8. CASE EngineRaises \/ Finish \/ Kill
  <2>1. /\ UNCHANGED <<file, rows>> /\ pc' \in {"failed", "done", "killed"}
        /\ pc \in Calling \cup {"return", "raise"} \/ (pc \notin Ended /\ Kill)
    BY <1>8 DEF EngineRaises, Finish, Kill, GoTo, runVars, loopVars
  <2>2. StagesLeft' = 0
    BY <2>1 DEF StagesLeft
  <2>3. StagesLeft > 0
    <3>1. pc \in {"next", "return", "raise"} \cup Calling \cup Writing
      BY <2>1 DEF Typed, TypeOK
    <3>2. WritesLeft \in Nat
      BY DEF WritesLeft
    <3>3. QED
      BY <3>1, <3>2 DEF StagesLeft
  <2>4. QED
    BY <2>1, <2>2, <2>3, StageNearer
<1>9. CASE EngineRetries
  <2>1. UNCHANGED <<file, rows, pc, after, polls>> /\ tries' = tries + 1
    BY <1>9 DEF EngineRetries, Retry, runVars, loopVars
  <2>2. tries \in 0..MaxAttempts
    BY DEF Typed, TypeOK, ELTypeOK
  <2>3. TriesLeft' < TriesLeft
    BY <2>1, <2>2, ChannelAssumption DEF TriesLeft
  <2>4. QED
    BY <2>1, <2>3 DEF Nearer, RecordsLeft, StagesLeft, WritesLeft, PollsLeft
<1>10. CASE OpenTmp \/ FillTmp
  <2>1. UNCHANGED <<file, rows, after>>
    BY <1>10 DEF OpenTmp, FillTmp, GoTo, runVars, loopVars
  <2>2. \/ pc = "write" /\ pc' = "filling" /\ WritesLeft = 3 /\ WritesLeft' = 2
        \/ pc = "filling" /\ pc' = "rename" /\ WritesLeft = 2 /\ WritesLeft' = 1
    BY <1>10 DEF OpenTmp, FillTmp, GoTo, WritesLeft
  <2>3. QED
    BY <2>1, <2>2, StageNearer DEF StagesLeft
<1>11. CASE Rename
  <2>1. UNCHANGED <<file, rows, after>> /\ pc = "rename" /\ pc' = after
    BY <1>11 DEF Rename, GoTo, runVars, loopVars
  <2>2. QED
    BY <1>0, <2>1, StageNearer DEF StagesLeft
<1>12. CASE WriteFails
  <2>1. UNCHANGED <<file, rows>> /\ pc \in Writing /\ pc' = "failed"
    BY <1>12 DEF WriteFails, GoTo, runVars, loopVars
  <2>2. WritesLeft \in Nat
    BY DEF WritesLeft
  <2>3. QED
    BY <2>1, <2>2, StageNearer DEF StagesLeft
<1>13. QED
  BY <1>1, <1>2, <1>3, <1>4, <1>5, <1>6, <1>7, <1>8, <1>9, <1>10, <1>11, <1>12 DEF DriverStep

\* The EL and the channel leave the driver where it is.
LEMMA EnvironmentAsFar == ELMoves \/ RequestStop => AsFar
<1>1. ELMoves \/ RequestStop => UNCHANGED <<file, rows, pc, after, polls, tries>>
  BY DEF ELMoves, RequestStop, ELStep, ExecuteOrphan, ExecuteLive, ImportQueued, Restart,
         LoseAttempt, runVars, loopVars, rpcVars
<1>2. QED
  BY <1>1 DEF AsFar, RecordsLeft, StagesLeft, WritesLeft, PollsLeft, TriesLeft

\* The safety half of ReplayEnds: whatever the file, the EL and the channel
\* do, no step of the driver leaves it with as much to do as before, and
\* nothing else gives it more; so only a driver that takes no step at all
\* could go on for ever.
THEOREM ReplayIsFinite ==
    Spec => /\ [](/\ RecordsLeft \in Nat /\ StagesLeft \in Nat
                  /\ PollsLeft \in Nat /\ TriesLeft \in Nat)
            /\ [][(DriverStep => Nearer) /\ (Nearer \/ AsFar)]_vars
<1>1. IInv /\ [Next]_vars => [(DriverStep => Nearer) /\ (Nearer \/ AsFar)]_vars
  <2>1. SUFFICES ASSUME IInv, Next PROVE (DriverStep => Nearer) /\ (Nearer \/ AsFar)
    OBVIOUS
  <2>2. QED
    BY <2>1, StepNearer, EnvironmentAsFar DEF IInv, Next
<1>2. IInv => RecordsLeft \in Nat /\ StagesLeft \in Nat /\ PollsLeft \in Nat /\ TriesLeft \in Nat
  BY LeftNat DEF IInv
<1>3. QED
  BY <1>1, <1>2, EngineInvariant, PTL DEF Spec
=============================================================================
