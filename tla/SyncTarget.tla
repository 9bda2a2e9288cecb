----------------------------- MODULE SyncTarget -----------------------------
(***************************************************************************)
(* The execution client while it syncs, seen through its user RPC: what    *)
(* eth_syncing and the head say, which is all that runner.py's sync wait   *)
(* and the pivot driver's status check look at.  It is not part of the     *)
(* repository.                                                             *)
(*                                                                         *)
(* "Guards against eth_syncing's biggest lie: every client reports false   *)
(* before sync starts" (runner.py:338-339): a cold node says false.  Under *)
(* the mock CL a cold node starts to sync only when a forkchoiceUpdated    *)
(* has reached it.  A restart keeps the chain and forgets the rest.        *)
(***************************************************************************)
EXTENDS Naturals

CONSTANTS
    Configs,       \* configurations: consensus_mode, pivot number, sync cap
    NoNumber,      \* mock_cl.pivot.number when it is not configured
    Target,        \* the block the node syncs to
    StartHeads,    \* heads the node may start with
    MaxRestarts    \* bound on restarts of the node

\* mock_cl.pivot.number, and nodes.sync_timeout_sec in polls.
Config == [mode : {"lighthouse", "mock", "none"}, pivot : Nat \cup {NoNumber}, cap : Nat]

ASSUME TargetAssumption ==
    /\ Configs \subseteq Config /\ NoNumber \notin Nat
    /\ Target \in Nat \ {0}
    /\ StartHeads \subseteq 0..Target
    /\ MaxRestarts \in Nat

VARIABLES
    config,        \* the configuration, which nothing changes
    up,            \* the node answers its RPC
    phase,         \* what it does
    head,          \* its head block
    fresh,         \* the head's timestamp is recent
    driven,        \* a forkchoiceUpdated reached it since it started
    restarts,
    everSynced     \* history: it was synced all along, or synced some time

targetVars == <<config, up, phase, head, fresh, driven, restarts, everSynced>>

Mode == config.mode
PivotNumber == config.pivot

TargetTypeOK ==
    /\ config \in Configs
    /\ up \in BOOLEAN
    /\ phase \in {"cold", "syncing", "synced"}
    /\ head \in 0..Target
    /\ fresh \in BOOLEAN
    /\ driven \in BOOLEAN
    /\ restarts \in 0..MaxRestarts
    /\ everSynced \in {"never", "initially", "later"}

TargetInit ==
    /\ config \in Configs
    /\ up \in BOOLEAN
    /\ head \in StartHeads
    /\ phase = IF head = Target THEN "synced" ELSE "cold"
    /\ fresh = (Mode = "lighthouse" /\ head = Target)
    /\ driven = FALSE
    /\ restarts = 0
    /\ everSynced = IF head = Target THEN "initially" ELSE "never"

\* eth_syncing: None when unreachable.
Unreachable == "unreachable"
EthSyncing == IF ~up THEN Unreachable ELSE IF phase = "syncing" THEN "yes" ELSE "no"

-----------------------------------------------------------------------------
ComeUp ==
    /\ ~up
    /\ up' = TRUE
    /\ UNCHANGED <<config, phase, head, fresh, driven, restarts, everSynced>>

StartSync ==
    /\ up /\ phase = "cold"
    /\ Mode = "mock" => driven
    /\ phase' = "syncing"
    /\ UNCHANGED <<config, up, head, fresh, driven, restarts, everSynced>>

Advance ==
    /\ up /\ phase = "syncing" /\ head < Target
    /\ head' \in (head + 1)..Target
    /\ UNCHANGED <<config, up, phase, fresh, driven, restarts, everSynced>>

FinishSync ==
    /\ up /\ phase = "syncing" /\ head = Target
    /\ phase' = "synced"
    /\ fresh' = (Mode = "lighthouse")
    /\ everSynced' = IF everSynced = "never" THEN "later" ELSE everSynced
    /\ UNCHANGED <<config, up, head, driven, restarts>>

\* The consensus client stalls: the head gets old.
GoStale ==
    /\ fresh
    /\ fresh' = FALSE
    /\ UNCHANGED <<config, up, phase, head, driven, restarts, everSynced>>

RestartNode ==
    /\ up /\ restarts < MaxRestarts
    /\ restarts' = restarts + 1
    /\ up' = FALSE
    /\ phase' = "cold"
    /\ driven' = FALSE
    /\ UNCHANGED <<config, head, fresh, everSynced>>

TargetProgress == ComeUp \/ StartSync \/ Advance \/ FinishSync
TargetStep == TargetProgress \/ GoStale \/ RestartNode
=============================================================================
