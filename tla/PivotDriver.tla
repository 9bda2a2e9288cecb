---------------------------- MODULE PivotDriver -----------------------------
(***************************************************************************)
(* PivotDriver.run (src/mock_cl/drivers.py): points the EL's forkchoice at *)
(* a frozen pivot again and again, whatever happens to a single call, and  *)
(* ends once one status check sees the pivot reached.  The check makes two *)
(* RPC calls, and the node may change between them.                        *)
(*                                                                         *)
(* The runner passes no --max-seconds, so that bound is left out.          *)
(***************************************************************************)
EXTENDS SyncTarget

CONSTANT
    Margin         \* how far behind the pivot a head counts as synced (32)

ASSUME PivotAssumption == Margin \in Nat

VARIABLES
    ppc,           \* where the pivot driver is
    pSyncing       \* the eth_syncing it read

pivotVars == <<ppc, pSyncing>>

PivotTypeOK ==
    /\ ppc \in {"off", "tick", "syncing", "head", "sleep", "synced", "killed"}
    /\ pSyncing \in {"yes", "no", Unreachable}

\* start_infrastructure launches it in mock mode only.
PivotInit ==
    /\ ppc = IF Mode = "mock" THEN "tick" ELSE "off"
    /\ pSyncing = Unreachable

\* head >= pivot_number - 32; the difference may be negative.
PivotReached(h) == h + Margin >= PivotNumber

\* _status: eth_syncing is False, a head above genesis, and the pivot reached.
StatusSynced(syncing, h) ==
    /\ syncing = "no"
    /\ h > 0
    /\ PivotNumber = NoNumber \/ PivotReached(h)

\* Mutant: a failed call ends the loop.
Tick_Fragile ==
    /\ ppc = "tick"
    /\ driven' = (driven \/ up)
    /\ ppc' = IF up THEN "syncing" ELSE "killed"
    /\ UNCHANGED <<config, up, phase, head, fresh, restarts, everSynced, pSyncing>>

\* The forkchoiceUpdated reaches the node, or the call fails and is ignored.
Tick ==
    /\ ppc = "tick"
    /\ driven' = (driven \/ up)
    /\ ppc' = "syncing"
    /\ UNCHANGED <<config, up, phase, head, fresh, restarts, everSynced, pSyncing>>

ReadSyncing ==
    /\ ppc = "syncing"
    /\ pSyncing' = EthSyncing
    /\ ppc' = "head"
    /\ UNCHANGED targetVars

\* eth_blockNumber: an unreachable node counts as head 0.
ReadHead ==
    /\ ppc = "head"
    /\ LET h == IF up THEN head ELSE 0 IN
       ppc' = IF StatusSynced(pSyncing, h) THEN "synced" ELSE "sleep"
    /\ UNCHANGED <<targetVars, pSyncing>>

Sleep ==
    /\ ppc = "sleep"
    /\ ppc' = "tick"
    /\ UNCHANGED <<targetVars, pSyncing>>

PivotStep == Tick \/ ReadSyncing \/ ReadHead \/ Sleep

\* stop_mock_cl: terminate() ends the process wherever it is.
KillPivot ==
    /\ ppc \in {"tick", "syncing", "head", "sleep"}
    /\ ppc' = "killed"
    /\ UNCHANGED <<targetVars, pSyncing>>
=============================================================================
