--------------------------- MODULE LoadRun_proofs ---------------------------
(***************************************************************************)
(* Proofs about LoadRun, for every number of users, flush interval and     *)
(* node: TypeCorrect, RowsKept, RangeTrue.                                 *)
(***************************************************************************)
EXTENDS LoadRun, FiniteSetTheorems, TLAPS

Early == phase \in {"init", "refused", "start", "head"}
Pending(state) == {u \in Users : state[u] = "row"}

\* The counter is what a crash would lose while the file is open; outside the
\* lock the writer is set exactly while it is.
FileInv ==
    /\ writer <=> open
    /\ ~raised
    /\ Early => ~open /\ unflushed = 0
    /\ phase \in {"stopping", "stopped"} => ~open
    /\ unflushed < FlushEvery
    /\ open => rows = disk + unflushed
    /\ ~open => rows = disk

\* A row still to be written has been counted as a success.
CountInv == rows + Cardinality(Pending(user)) <= succeeded

\* The heads are read in the order they are kept, the last one after all those
\* that the test knew when it stopped.
HeadInv ==
    /\ Early => initial = None /\ latest = None /\ refresher = None /\ final = None
    /\ phase \in {"run", "stopping"} => report = None
    /\ Early => report = None
    /\ phase = "run" => final = None
    /\ initial # None => latest # None /\ initial <= latest
    /\ latest # None => latest <= head
    /\ refresher # None => refresher <= head /\ (latest # None => latest <= refresher)
    /\ phase \in {"stopping", "stopped"} =>
        /\ atStop \in Heads /\ atStop <= head
        /\ initial # None => known # None /\ initial <= known /\ initial <= atStop
        /\ final # None => atStop <= final
    /\ RangeIsTrue

\* The steps of Next, action by action.
LEMMA TypeStep == TypeOK /\ [Next]_vars => TypeOK'
<1> USE LoadAssumption DEF TypeOK, Heads, Methods, headVars, proofVars
<1> SUFFICES ASSUME TypeOK, [Next]_vars PROVE TypeOK'
  OBVIOUS
<1>1. CASE Process
  BY <1>1 DEF Process
<1>2. CASE LocustInit \/ FetchGasSender
  BY <1>2 DEF LocustInit, FetchGasSender
<1>3. CASE HeadFetched \/ HeadUnknown \/ AbortTest
  BY <1>3 DEF HeadFetched, HeadUnknown, AbortTest, StartTest
<1>4. CASE AskHead \/ HeadAnswer
  BY <1>4 DEF AskHead, HeadAnswer
<1>5. ASSUME NEW u \in Users, Call(u) \/ NoRow(u) \/ ProofSucceeds(u)
      PROVE  TypeOK'
  BY <1>5 DEF Call, NoRow, ProofSucceeds, Tasks
<1>6. ASSUME NEW u \in Users, WriteRow(u)
      PROVE  TypeOK'
  BY <1>6 DEF WriteRow, AppendRow
<1>7. CASE StopTest \/ AskFinalHead \/ Crash
  BY <1>7 DEF StopTest, AskFinalHead, Crash
<1>8. CASE FinalHead \/ NoFinalHead
  <2>1. ASSUME NEW end \in Heads \cup {None}, LogRange(end)
        PROVE  TypeOK'
    BY <2>1 DEF LogRange
  <2>2. QED
    BY <1>8, <2>1 DEF FinalHead, NoFinalHead
<1>9. CASE UNCHANGED vars
  BY <1>9 DEF vars
<1>10. QED
  BY <1>1, <1>2, <1>3, <1>4, <1>5, <1>6, <1>7, <1>8, <1>9 DEF Next

LEMMA FileStep == TypeOK /\ FileInv /\ [Next]_vars => FileInv'
<1> USE LoadAssumption DEF TypeOK, FileInv, Early, Running, proofVars
<1> SUFFICES ASSUME TypeOK, FileInv, [Next]_vars PROVE FileInv'
  OBVIOUS
<1>1. CASE Process \/ AskHead \/ HeadAnswer
  BY <1>1 DEF Process, AskHead, HeadAnswer
<1>8. CASE LocustInit \/ FetchGasSender \/ AbortTest
  <2>1. UNCHANGED <<writer, open, unflushed, rows, disk, raised>>
    BY <1>8 DEF LocustInit, FetchGasSender, AbortTest
  <2>2. Early
    BY <1>8 DEF LocustInit, FetchGasSender, AbortTest
  <2>3. QED
    BY <2>1, <2>2
<1>2. CASE HeadFetched \/ HeadUnknown
  BY <1>2 DEF HeadFetched, HeadUnknown, StartTest
<1>3. ASSUME NEW u \in Users, Call(u) \/ NoRow(u) \/ ProofSucceeds(u)
      PROVE  FileInv'
  BY <1>3 DEF Call, NoRow, ProofSucceeds
<1>4. ASSUME NEW u \in Users, WriteRow(u)
      PROVE  FileInv'
  BY <1>4 DEF WriteRow, AppendRow
<1>5. CASE StopTest \/ AskFinalHead \/ Crash
  BY <1>5 DEF StopTest, AskFinalHead, Crash
<1>6. CASE FinalHead \/ NoFinalHead
  BY <1>6 DEF FinalHead, NoFinalHead, LogRange
<1>7. CASE UNCHANGED vars
  BY <1>7 DEF vars
<1>9. QED
  BY <1>1, <1>2, <1>3, <1>4, <1>5, <1>6, <1>7, <1>8 DEF Next

\* The users with a row to write, after a step of one of them.
LEMMA PendingMoves ==
    ASSUME NEW before \in [Users -> {"idle", "row"} \cup Methods], NEW u \in Users, NEW s
    PROVE  LET after == [before EXCEPT ![u] = s]
           IN  /\ Cardinality(Pending(before)) \in Nat
               /\ Cardinality(Pending(after)) \in Nat
               /\ s = "row" => Cardinality(Pending(after)) <= Cardinality(Pending(before)) + 1
               /\ s # "row" /\ before[u] # "row" => Pending(after) = Pending(before)
               /\ s # "row" /\ before[u] = "row" =>
                     Cardinality(Pending(after)) = Cardinality(Pending(before)) - 1
<1> DEFINE after == [before EXCEPT ![u] = s]
<1>1. IsFiniteSet(Pending(before)) /\ IsFiniteSet(Pending(after))
  BY LoadAssumption, FS_Subset DEF Pending
<1>2. Cardinality(Pending(before)) \in Nat /\ Cardinality(Pending(after)) \in Nat
  BY <1>1, FS_CardinalityType
<1>3. ASSUME s = "row" PROVE Cardinality(Pending(after)) <= Cardinality(Pending(before)) + 1
  <2>1. Pending(after) = Pending(before) \cup {u}
    BY <1>3 DEF Pending
  <2>2. \/ Cardinality(Pending(before) \cup {u}) = Cardinality(Pending(before))
        \/ Cardinality(Pending(before) \cup {u}) = Cardinality(Pending(before)) + 1
    BY <1>1, FS_AddElement
  <2>3. \A n \in Nat : n <= n + 1
    OBVIOUS
  <2>4. CASE Cardinality(Pending(after)) = Cardinality(Pending(before))
    BY <1>2, <2>3, <2>4
  <2>5. CASE Cardinality(Pending(after)) = Cardinality(Pending(before)) + 1
    BY <1>2, <2>5
  <2>6. QED
    BY <2>1, <2>2, <2>4, <2>5
<1>4. ASSUME s # "row", before[u] # "row" PROVE Pending(after) = Pending(before)
  BY <1>4 DEF Pending
<1>5. ASSUME s # "row", before[u] = "row"
      PROVE  Cardinality(Pending(after)) = Cardinality(Pending(before)) - 1
  <2>1. Pending(after) = Pending(before) \ {u} /\ u \in Pending(before)
    BY <1>5 DEF Pending
  <2>2. Cardinality(Pending(before) \ {u}) = Cardinality(Pending(before)) - 1
    BY <1>1, <2>1, FS_RemoveElement
  <2>3. QED
    BY <2>1, <2>2
<1>6. QED
  BY <1>2, <1>3, <1>4, <1>5

LEMMA CountStep == TypeOK /\ CountInv /\ [Next]_vars => CountInv'
<1> SUFFICES ASSUME TypeOK, CountInv, [Next]_vars PROVE CountInv'
  OBVIOUS
<1> rows \in Nat /\ succeeded \in Nat /\ user \in [Users -> {"idle", "row"} \cup Methods]
  BY DEF TypeOK
<1>1. CASE UNCHANGED <<user, succeeded, rows>>
  BY <1>1 DEF CountInv
<1>2. ASSUME NEW u \in Users, Call(u) \/ NoRow(u) \/ ProofSucceeds(u) \/ WriteRow(u)
      PROVE  CountInv'
  <2>1. CASE Call(u)
    <3>1. PICK method \in Tasks : user' = [user EXCEPT ![u] = method]
      BY <2>1 DEF Call
    <3>2. method # "row" /\ user[u] # "row"
      BY <2>1 DEF Call, Tasks, Methods
    <3>3. Pending(user') = Pending(user)
      BY <3>1, <3>2, PendingMoves
    <3>4. QED
      BY <2>1, <3>3 DEF Call, CountInv, proofVars
  <2>2. CASE NoRow(u)
    <3>1. user[u] # "row" /\ user' = [user EXCEPT ![u] = "idle"]
      BY <2>2 DEF NoRow, Methods
    <3>2. Pending(user') = Pending(user)
      BY <3>1, PendingMoves
    <3>3. QED
      BY <2>2, <3>2 DEF NoRow, CountInv, proofVars
  <2>3. CASE ProofSucceeds(u)
    <3>1. /\ Cardinality(Pending(user)) \in Nat /\ Cardinality(Pending(user')) \in Nat
          /\ Cardinality(Pending(user')) <= Cardinality(Pending(user)) + 1
      BY <2>3, PendingMoves DEF ProofSucceeds
    <3>2. QED
      BY <2>3, <3>1 DEF ProofSucceeds, CountInv, proofVars
  <2>4. CASE WriteRow(u)
    <3>1. user[u] = "row" /\ user' = [user EXCEPT ![u] = "idle"]
      BY <2>4 DEF WriteRow
    <3>2. /\ Cardinality(Pending(user)) \in Nat
          /\ Cardinality(Pending(user')) = Cardinality(Pending(user)) - 1
      BY <3>1, PendingMoves
    <3>3. rows' \in {rows, rows + 1} /\ succeeded' = succeeded
      BY <2>4 DEF WriteRow, AppendRow, proofVars
    <3>4. QED
      BY <3>2, <3>3 DEF CountInv
  <2>5. QED
    BY <1>2, <2>1, <2>2, <2>3, <2>4
<1>3. QED
  BY <1>1, <1>2 DEF Next, vars, Process, LocustInit, FetchGasSender, HeadFetched, HeadUnknown,
     AbortTest, StartTest, AskHead, HeadAnswer, StopTest, AskFinalHead, FinalHead, NoFinalHead,
     LogRange, Crash, proofVars

LEMMA HeadStep == TypeOK /\ HeadInv /\ [Next]_vars => HeadInv'
<1> USE LoadAssumption DEF TypeOK, HeadInv, RangeIsTrue, Early, Heads, Running
<1> SUFFICES ASSUME TypeOK, HeadInv, [Next]_vars PROVE HeadInv'
  OBVIOUS
<1>1. CASE Process
  BY <1>1 DEF Process
<1>2. CASE LocustInit \/ FetchGasSender
  BY <1>2 DEF LocustInit, FetchGasSender, headVars
<1>3. CASE HeadFetched \/ HeadUnknown \/ AbortTest
  BY <1>3 DEF HeadFetched, HeadUnknown, AbortTest, StartTest, headVars
<1>4. CASE AskHead \/ HeadAnswer
  BY <1>4 DEF AskHead, HeadAnswer
<1>5. ASSUME NEW u \in Users, Call(u) \/ NoRow(u) \/ ProofSucceeds(u) \/ WriteRow(u)
      PROVE  HeadInv'
  BY <1>5 DEF Call, NoRow, ProofSucceeds, WriteRow, headVars
<1>6. CASE StopTest \/ AskFinalHead
  BY <1>6 DEF StopTest, AskFinalHead
<1>7. CASE FinalHead
  BY <1>7 DEF FinalHead, LogRange
<1>8. CASE NoFinalHead
  BY <1>8 DEF NoFinalHead, LogRange
<1>9. CASE Crash
  BY <1>9 DEF Crash, headVars
<1>10. CASE UNCHANGED vars
  BY <1>10 DEF vars, headVars
<1>11. QED
  BY <1>1, <1>2, <1>3, <1>4, <1>5, <1>6, <1>7, <1>8, <1>9, <1>10 DEF Next

IInv == TypeOK /\ FileInv /\ CountInv /\ HeadInv

LEMMA Inductive == Spec => []IInv
<1>1. Init => TypeOK
  <2>1. Init => user \in [Users -> {"idle", "row"} \cup Methods]
    BY DEF Init
  <2>2. Init => /\ sender \in BOOLEAN /\ writer \in BOOLEAN
                /\ open \in BOOLEAN /\ raised \in BOOLEAN
    BY DEF Init
  <2>3. QED
    BY <2>1, <2>2 DEF Init, TypeOK
<1>2. Init => FileInv /\ HeadInv
  <2>1. Init => Early /\ phase \notin {"run", "stopping", "stopped"}
    BY DEF Init, Early
  <2>2. Init => FileInv
    BY <2>1, LoadAssumption DEF Init, FileInv
  <2>3. Init => HeadInv
    BY <2>1 DEF Init, HeadInv, RangeIsTrue
  <2>4. QED
    BY <2>2, <2>3
<1>3. Init => CountInv
  <2>1. Init => Pending(user) = {}
    BY DEF Init, Pending
  <2>2. QED
    BY <2>1, FS_EmptySet DEF Init, CountInv
<1>4. IInv /\ [Next]_vars => IInv'
  BY TypeStep, FileStep, CountStep, HeadStep DEF IInv
<1>5. QED
  BY <1>1, <1>2, <1>3, <1>4, PTL DEF Spec, IInv

\* Type correctness of a load test's events.
THEOREM TypeCorrect == Spec => []TypeOK
BY Inductive, PTL DEF IInv

\* No task dies on the proof file, every row was a success, a crash loses
\* fewer rows than a flush interval, and a stopped test none: for every number
\* of users and every interleaving with on_test_stop.
THEOREM RowsKept == Spec => []RowsAreKept
<1>1. IInv => RowsAreKept
  <2> SUFFICES ASSUME IInv PROVE RowsAreKept
    OBVIOUS
  <2>1. Cardinality(Pending(user)) \in Nat
    <3>1. IsFiniteSet(Pending(user))
      BY LoadAssumption, FS_Subset DEF Pending
    <3>2. QED
      BY <3>1, FS_CardinalityType
  <2>2. rows <= succeeded
    BY <2>1 DEF IInv, CountInv, TypeOK
  <2>3. QED
    BY <2>2, LoadAssumption DEF IInv, TypeOK, FileInv, RowsAreKept
<1>2. QED
  BY <1>1, Inductive, PTL

\* The logged block range is ordered and, when the last fetch was answered, not
\* older than the end of the test.
THEOREM RangeTrue == Spec => []RangeIsTrue
<1>1. IInv => RangeIsTrue
  BY DEF IInv, HeadInv
<1>2. QED
  BY <1>1, Inductive, PTL
=============================================================================
