------------------------------- MODULE LoadRun ------------------------------
(***************************************************************************)
(* The events of one load test (src/load_tests/locustfile.py) around the   *)
(* block window of BlockWindow: locust's init, test_start and test_stop,   *)
(* the users' requests, the proof-size file they share, and the heads that *)
(* on_test_start, the refresher thread and on_test_stop read.  Greenlets   *)
(* switch at every call to the node, and nowhere inside _proof_lock.       *)
(***************************************************************************)
EXTENDS Integers, FiniteSets

CONSTANTS
    Users,         \* users spawned by locust
    FlushEvery,    \* _PROOF_FLUSH_EVERY
    MaxRows,       \* bound on the requests
    MaxHead,       \* bound on the node's head
    ProofCsv,      \* LOCUST_PROOF_SIZES_CSV is set
    GasEnabled,    \* load_test.gas_tests_enabled
    None

ASSUME LoadAssumption ==
    /\ IsFiniteSet(Users)
    /\ FlushEvery \in Nat \ {0}
    /\ MaxRows \in Nat /\ MaxHead \in Nat
    /\ ProofCsv \in BOOLEAN /\ GasEnabled \in BOOLEAN
    /\ None \notin Nat

VARIABLES
    phase,         \* of the test: "init", "refused", "start", "head", "run",
                   \* "stopping", "stopped", "crashed"
    sender,        \* GAS_SENDER is set
    head,          \* the node's head
    initial,       \* INITIAL_HEAD_BLOCK
    latest,        \* LATEST_HEAD_BLOCK
    refresher,     \* the head in its unread answer, or None
    known,         \* final_head before on_test_stop asked
    final,         \* the head in the answer to it, or None
    report,        \* the block range that on_test_stop logs
    atStop,        \* history: the head when on_test_stop began
    user,          \* each user: "idle", a method in flight, "row"
    succeeded,     \* eth_getProof requests counted as successes
    writer,        \* _proof_writer is set
    open,          \* the proof file is open
    unflushed,     \* _proof_rows_since_flush
    rows, disk,    \* rows written, and those of them on disk
    raised         \* a task raised on a closed file or a missing writer

headVars == <<head, initial, latest, refresher, known, final, report, atStop>>
proofVars == <<writer, open, unflushed, rows, disk, raised>>
vars == <<phase, sender, headVars, user, succeeded, proofVars>>

Methods == {"other", "eth_getProof", "eth_sendTransaction"}
Running == phase \in {"run", "stopping", "stopped"}
Heads == 0..MaxHead

TypeOK ==
    /\ phase \in {"init", "refused", "start", "head", "run", "stopping", "stopped", "crashed"}
    /\ sender \in BOOLEAN
    /\ head \in Heads
    /\ initial \in Heads \cup {None} /\ latest \in Heads \cup {None}
    /\ refresher \in Heads \cup {None} /\ known \in Heads \cup {None}
    /\ final \in Heads \cup {None} /\ atStop \in Heads \cup {None}
    /\ report \in [start : Heads, end : Heads] \cup {None}
    /\ user \in [Users -> {"idle", "row"} \cup Methods]
    /\ writer \in BOOLEAN /\ open \in BOOLEAN /\ raised \in BOOLEAN
    /\ succeeded \in Nat /\ unflushed \in Nat /\ rows \in Nat /\ disk \in Nat

Init ==
    /\ phase = "init" /\ sender = FALSE
    /\ head \in Heads
    /\ initial = None /\ latest = None /\ refresher = None
    /\ known = None /\ final = None /\ report = None /\ atStop = None
    /\ user = [u \in Users |-> "idle"] /\ succeeded = 0
    /\ writer = FALSE /\ open = FALSE /\ unflushed = 0
    /\ rows = 0 /\ disk = 0 /\ raised = FALSE

\* The node processes a block.
Process ==
    /\ head < MaxHead
    /\ head' = head + 1
    /\ UNCHANGED <<phase, sender, initial, latest, refresher, known, final, report, atStop,
                   user, succeeded, proofVars>>

-----------------------------------------------------------------------------
(* init and test_start.                                                    *)

\* A master or a worker is refused; an exporter that cannot bind is not.
LocustInit ==
    /\ phase = "init"
    /\ phase' \in {"start", "refused"}
    /\ UNCHANGED <<sender, headVars, user, succeeded, proofVars>>

\* eth_accounts may fail or be empty.
FetchGasSender ==
    /\ phase = "start"
    /\ sender' \in (IF GasEnabled THEN BOOLEAN ELSE {FALSE})
    /\ phase' = "head"
    /\ UNCHANGED <<headVars, user, succeeded, proofVars>>

\* The rest of on_test_start, after the probes: the file with its header.
StartTest ==
    /\ phase' = "run"
    /\ writer' = ProofCsv /\ open' = ProofCsv
    /\ UNCHANGED <<unflushed, rows, disk, raised>>

HeadFetched ==
    /\ phase = "head"
    /\ initial' = head /\ latest' = head
    /\ StartTest
    /\ UNCHANGED <<sender, head, refresher, known, final, report, atStop, user, succeeded>>

HeadUnknown ==
    /\ phase = "head"
    /\ StartTest
    /\ UNCHANGED <<sender, headVars, user, succeeded>>

\* No state at "latest": exit code 1, before any thread or file, and quit,
\* which fires test_stop too.
AbortTest ==
    /\ phase = "head"
    /\ initial' = head /\ latest' = head
    /\ phase' = "stopping"
    /\ atStop' = head /\ known' = head
    /\ UNCHANGED <<sender, head, refresher, final, report, user, succeeded, proofVars>>

-----------------------------------------------------------------------------
(* The refresher's head fetch; what it pins is in BlockWindow.             *)
AskHead ==
    /\ phase = "run" /\ refresher = None
    /\ refresher' = head
    /\ UNCHANGED <<phase, sender, head, initial, latest, known, final, report, atStop,
                   user, succeeded, proofVars>>

\* The answer arrives, maybe after the test, or it does not.
HeadAnswer ==
    /\ Running /\ refresher # None
    /\ latest' \in {refresher, latest}
    /\ refresher' = None
    /\ UNCHANGED <<phase, sender, head, initial, known, final, report, atStop,
                   user, succeeded, proofVars>>

-----------------------------------------------------------------------------
(* The users.                                                              *)
Tasks == IF GasEnabled THEN Methods ELSE Methods \ {"eth_sendTransaction"}

Call(u) ==
    /\ phase = "run" /\ user[u] = "idle"
    /\ \E method \in Tasks :
          /\ method = "eth_sendTransaction" => sender
          /\ user' = [user EXCEPT ![u] = method]
    /\ UNCHANGED <<phase, sender, headVars, succeeded, proofVars>>

\* The request fails (a status but 200, no JSON, an error in it), or is
\* another method's.
NoRow(u) ==
    /\ Running /\ user[u] \in Methods
    /\ user' = [user EXCEPT ![u] = "idle"]
    /\ UNCHANGED <<phase, sender, headVars, succeeded, proofVars>>

ProofSucceeds(u) ==
    /\ Running /\ user[u] = "eth_getProof" /\ succeeded < MaxRows
    /\ succeeded' = succeeded + 1
    /\ user' = [user EXCEPT ![u] = "row"]
    /\ UNCHANGED <<phase, sender, headVars, proofVars>>

\* writerow and every FlushEvery rows a flush; a closed file raises.
AppendRow ==
    LET flush == unflushed + 1 >= FlushEvery
    IN /\ rows' = rows + 1
       /\ unflushed' = IF flush THEN 0 ELSE unflushed + 1
       /\ disk' = IF flush THEN rows + 1 ELSE disk
       /\ raised' = (raised \/ ~open)
       /\ UNCHANGED <<writer, open>>

\* Mutant: the writer is not looked at again under the lock.
WriteRow_Unchecked(u) ==
    /\ Running /\ user[u] = "row" /\ ProofCsv
    /\ user' = [user EXCEPT ![u] = "idle"]
    /\ AppendRow
    /\ UNCHANGED <<phase, sender, headVars, succeeded>>

\* The section of eth_get_proof under _proof_lock.
WriteRow(u) ==
    /\ Running /\ user[u] = "row"
    /\ user' = [user EXCEPT ![u] = "idle"]
    /\ \/ writer /\ AppendRow
       \/ ~writer /\ UNCHANGED proofVars
    /\ UNCHANGED <<phase, sender, headVars, succeeded>>

-----------------------------------------------------------------------------
(* test_stop, and a crash.                                                 *)

\* Under _proof_lock; closing flushes.  Then the last head is asked for.
StopTest ==
    /\ phase = "run"
    /\ phase' = "stopping"
    /\ writer' = FALSE /\ open' = FALSE /\ disk' = rows
    /\ atStop' = head /\ known' = latest
    /\ UNCHANGED <<sender, head, initial, latest, refresher, final, report, user, succeeded,
                   unflushed, rows, raised>>

AskFinalHead ==
    /\ phase = "stopping" /\ final = None
    /\ final' = head
    /\ UNCHANGED <<phase, sender, head, initial, latest, refresher, known, report, atStop,
                   user, succeeded, proofVars>>

LogRange(end) ==
    /\ phase' = "stopped"
    /\ report' = IF initial = None THEN None
                 ELSE [start |-> initial, end |-> IF end # None THEN end ELSE initial]
    /\ UNCHANGED <<sender, head, initial, latest, refresher, known, final, atStop,
                   user, succeeded, proofVars>>

\* Mutant: the refresher's last head is reported.
FinalHead_Last ==
    /\ phase = "stopping" /\ final # None
    /\ LogRange(known)

FinalHead ==
    /\ phase = "stopping" /\ final # None
    /\ LogRange(final)

\* No answer: the last head the test knew before it asked.
NoFinalHead ==
    /\ phase = "stopping" /\ final = None
    /\ LogRange(known)

\* What was not flushed is lost.
Crash ==
    /\ phase \in {"run", "stopping"}
    /\ phase' = "crashed"
    /\ UNCHANGED <<sender, headVars, user, succeeded, proofVars>>

Next ==
    \/ Process \/ LocustInit \/ FetchGasSender \/ HeadFetched \/ HeadUnknown \/ AbortTest
    \/ AskHead \/ HeadAnswer
    \/ \E u \in Users : Call(u) \/ NoRow(u) \/ ProofSucceeds(u) \/ WriteRow(u)
    \/ StopTest \/ AskFinalHead \/ FinalHead \/ NoFinalHead \/ Crash

Spec == Init /\ [][Next]_vars

-----------------------------------------------------------------------------
(* Properties.                                                             *)

\* Whatever the interleaving of the users with on_test_stop: no task dies on a
\* closed file, every row is one of a request counted as a success, "a crash
\* loses at most this many samples" (locustfile.py:111), and a test that
\* stopped has lost none.
RowsAreKept ==
    /\ ~raised
    /\ rows <= succeeded
    /\ rows - disk < FlushEvery
    /\ phase = "stopped" => rows = disk

\* The block range of the final log "reflects the node's state at end-of-run,
\* not the last 30s-old refresher tick" (locustfile.py:416-417), and the
\* number of blocks advanced is never negative, also when the last head
\* fetch fails and a late answer of the refresher is still to come.
RangeIsTrue ==
    report # None =>
        /\ report.start <= report.end
        /\ final # None => report.end >= atStop
=============================================================================
