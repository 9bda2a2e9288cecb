------------------------------ MODULE SyncPhase -----------------------------
(***************************************************************************)
(* The sync phase of a client's run (runner.py): wait_for_rpc, then        *)
(* measure_sync_time, next to the pivot driver that start_infrastructure   *)
(* left running, all looking at the same node.                             *)
(*                                                                         *)
(* Time is counted in polls: every turn of a wait sleeps once.  A cap of 0 *)
(* is no cap ("if max_seconds and ...", runner.py:428).                    *)
(***************************************************************************)
EXTENDS PivotDriver

CONSTANTS
    Confirmations, \* polls that must agree
    RpcCap         \* nodes.rpc_startup_timeout_sec, in polls

ASSUME WaitAssumption ==
    /\ Confirmations \in Nat \ {0}
    /\ RpcCap \in Nat \ {0}

VARIABLES
    pc,            \* where the runner is
    sawSyncing,
    streak,        \* consecutive_synced
    elapsed,       \* sleeps of the current wait
    result         \* how the sync phase ended

waitVars == <<pc, sawSyncing, streak, elapsed, result>>
vars == <<targetVars, pivotVars, waitVars>>

SyncCap == config.cap
Complete == {"null", "timed"}

TypeOK ==
    /\ TargetTypeOK
    /\ PivotTypeOK
    /\ pc \in {"rpc", "poll", "head", "cap", "ended"}
    /\ sawSyncing \in BOOLEAN
    /\ streak \in 0..Confirmations
    /\ elapsed \in Nat /\ elapsed <= SyncCap + RpcCap
    /\ result \in {"running", "no rpc", "raised"} \cup Complete

Init ==
    /\ TargetInit
    /\ PivotInit
    /\ pc = "rpc"
    /\ sawSyncing = FALSE
    /\ streak = 0
    /\ elapsed = 0
    /\ result = "running"

-----------------------------------------------------------------------------
\* wait_for_rpc.
RpcUp ==
    /\ pc = "rpc" /\ up /\ elapsed < RpcCap
    /\ pc' = "poll" /\ elapsed' = 0
    /\ UNCHANGED <<targetVars, pivotVars, sawSyncing, streak, result>>

RpcDown ==
    /\ pc = "rpc" /\ ~up /\ elapsed < RpcCap
    /\ elapsed' = elapsed + 1
    /\ UNCHANGED <<targetVars, pivotVars, pc, sawSyncing, streak, result>>

RpcTimeout ==
    /\ pc = "rpc" /\ elapsed >= RpcCap
    /\ pc' = "ended" /\ result' = "no rpc"
    /\ UNCHANGED <<targetVars, pivotVars, sawSyncing, streak, elapsed>>

-----------------------------------------------------------------------------
\* check_sync_status, and what its three answers lead to.
SeesUnreachable ==
    /\ pc = "poll" /\ EthSyncing = Unreachable
    /\ pc' = "cap"
    /\ UNCHANGED <<targetVars, pivotVars, sawSyncing, streak, elapsed, result>>

SeesSyncing ==
    /\ pc = "poll" /\ EthSyncing = "yes"
    /\ sawSyncing' = TRUE /\ streak' = 0
    /\ pc' = "cap"
    /\ UNCHANGED <<targetVars, pivotVars, elapsed, result>>

SeesNotSyncing ==
    /\ pc = "poll" /\ EthSyncing = "no"
    /\ pc' = "head"
    /\ UNCHANGED <<targetVars, pivotVars, sawSyncing, streak, elapsed, result>>

\* Mutant: without a pivot number, any head above genesis will do.
HeadOk_AnyHead ==
    /\ up
    /\ CASE Mode = "lighthouse" -> head > 0 /\ fresh
         [] Mode = "mock" /\ PivotNumber # NoNumber -> PivotReached(head)
         [] OTHER -> head > 0

\* sync_head_ok: a second call to the node, which may have gone meanwhile.
HeadOk ==
    /\ up
    /\ CASE Mode = "lighthouse" -> head > 0 /\ fresh
         [] Mode = "mock" /\ PivotNumber # NoNumber -> PivotReached(head)
         [] OTHER -> head > 0 /\ sawSyncing

\* Mutant: a node that is behind counts as one seen syncing.
HeadBehind_IsSyncing ==
    /\ pc = "head" /\ ~HeadOk
    /\ sawSyncing' = TRUE /\ streak' = 0
    /\ pc' = "cap"
    /\ UNCHANGED <<targetVars, pivotVars, elapsed, result>>

HeadBehind ==
    /\ pc = "head" /\ ~HeadOk
    /\ streak' = 0
    /\ pc' = "cap"
    /\ UNCHANGED <<targetVars, pivotVars, sawSyncing, elapsed, result>>

HeadSynced ==
    /\ pc = "head" /\ HeadOk
    /\ streak' = streak + 1
    /\ pc' = IF streak + 1 >= Confirmations THEN "ended" ELSE "cap"
    /\ result' = IF streak + 1 < Confirmations THEN result
                 ELSE IF sawSyncing THEN "timed" ELSE "null"
    /\ UNCHANGED <<targetVars, pivotVars, sawSyncing, elapsed>>

CapReached ==
    /\ pc = "cap"
    /\ SyncCap # 0 /\ elapsed >= SyncCap
    /\ pc' = "ended" /\ result' = "raised"
    /\ UNCHANGED <<targetVars, pivotVars, sawSyncing, streak, elapsed>>

\* Mutant: a poll that was not answered is not counted against the cap.
PollAgain_AnsweredOnly ==
    /\ pc = "cap"
    /\ SyncCap = 0 \/ elapsed < SyncCap
    /\ elapsed' = IF SyncCap = 0 THEN 0 ELSE IF up THEN elapsed + 1 ELSE elapsed
    /\ pc' = "poll"
    /\ UNCHANGED <<targetVars, pivotVars, sawSyncing, streak, result>>

PollAgain ==
    /\ pc = "cap"
    /\ SyncCap = 0 \/ elapsed < SyncCap
    /\ elapsed' = IF SyncCap = 0 THEN 0 ELSE elapsed + 1
    /\ pc' = "poll"
    /\ UNCHANGED <<targetVars, pivotVars, sawSyncing, streak, result>>

WaitStep ==
    \/ RpcUp \/ RpcDown \/ RpcTimeout
    \/ SeesUnreachable \/ SeesSyncing \/ SeesNotSyncing
    \/ HeadBehind \/ HeadSynced \/ CapReached \/ PollAgain

\* stop_infrastructure, once the run is over.
StopPivot == pc = "ended" /\ KillPivot

Next ==
    \/ WaitStep
    \/ (PivotStep \/ StopPivot) /\ UNCHANGED waitVars
    \/ TargetStep /\ UNCHANGED <<pivotVars, waitVars>>

\* The runner and the driver are loops that sleep and never wait for one
\* another; every RPC call has a timeout.
Spec == Init /\ [][Next]_vars /\ WF_vars(WaitStep) /\ WF_vars(PivotStep /\ UNCHANGED waitVars)

\* A healthy node: it comes up, and syncs when it is driven.
HealthyNode == WF_vars(TargetProgress /\ UNCHANGED <<pivotVars, waitVars>>)

-----------------------------------------------------------------------------
(* Properties.                                                             *)

\* measure_sync_time's third outcome is an exception; a duration is only
\* ever returned for a node that was not synced at the start and has become
\* so, whatever the node does between the two calls of a poll ("return None
\* rather than a bogus near-zero duration", runner.py:396-397).  A node that
\* restarts is outside the claim.
TimedMeansSynced ==
    result = "timed" /\ restarts = 0 => everSynced = "later"

\* How the node's state is judged: by a pivot number, or by eth_syncing having
\* flipped.
ByPivot == Mode = "mock" /\ PivotNumber # NoNumber
ByFlip == Mode = "none" \/ (Mode = "mock" /\ PivotNumber = NoNumber)

\* eth_syncing = false alone, which a cold node also answers, never ends the
\* wait (runner.py:338-339): when it ends well, the node has been synced at some
\* time, or its head is within the margin of the configured pivot, which counts
\* as synced (runner.py:362-363).  The flip of eth_syncing is believed for good:
\* a node that was seen syncing and then restarts looks synced while it is cold.
\* And block 0 is accepted, but only where it is within the margin of the pivot
\* (runner.py:372), which PivotDriver._status does not do.
FinishedMeansSynced ==
    result \in Complete =>
        /\ \/ everSynced # "never"
           \/ ByPivot /\ PivotReached(head)
           \/ ByFlip /\ sawSyncing /\ restarts > 0
        /\ head = 0 => ByPivot /\ PivotNumber <= Margin

\* With a cap on the wait, wait_for_rpc and measure_sync_time end whatever the
\* node does, restarts and silence included (runner.py:396-400).
MeasurementEnds == <>(pc = "ended" \/ SyncCap = 0)

\* With a pivot number and no cap, a healthy node driven by the pivot driver is
\* measured in the end: no failed tick, poll of a cold node, or restart leaves
\* the runner waiting for ever.  wait_for_rpc giving up first is the exception.
Awaited == Mode = "mock" /\ PivotNumber # NoNumber /\ SyncCap = 0
SyncEventuallyMeasured == HealthyNode => <>(Awaited => result \in Complete \cup {"no rpc"})

\* "If the node never reported syncing (it was already synced, ...) we return
\* None" (runner.py:394-397): not an exception.
AlreadySyncedIsNull == everSynced = "initially" /\ restarts = 0 => result # "raised"
=============================================================================
