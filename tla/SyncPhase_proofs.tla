-------------------------- MODULE SyncPhase_proofs --------------------------
(***************************************************************************)
(* Proofs about SyncPhase, for every configuration, cap, margin, number of *)
(* confirmations and of restarts of the node.                              *)
(***************************************************************************)
EXTENDS SyncPhase, TLAPS

\* A wait that goes on still lacks a confirmation.
WaitInv ==
    /\ TypeOK
    /\ pc # "ended" => streak < Confirmations /\ result = "running"

\* As long as the node has not restarted, what it has been is what it is; so a
\* wait that saw it sync, and then saw it not syncing, has seen it synced.
HistoryInv ==
    restarts = 0 =>
        /\ everSynced \in {"initially", "later"} => phase = "synced"
        /\ everSynced = "never" => phase # "synced"
        /\ sawSyncing => phase # "cold" /\ everSynced # "initially"
        /\ pc = "head" /\ sawSyncing => everSynced = "later"
        /\ result = "timed" => everSynced = "later"

\* What only the wait itself changes.
WaitTypeOK ==
    /\ pc \in {"rpc", "poll", "head", "cap", "ended"}
    /\ sawSyncing \in BOOLEAN
    /\ streak \in 0..Confirmations
    /\ elapsed \in Nat /\ elapsed <= SyncCap + RpcCap
    /\ result \in {"running", "no rpc", "raised", "null", "timed"}
    /\ pc # "ended" => streak < Confirmations /\ result = "running"

LEMMA WaitInvParts == WaitInv <=> TargetTypeOK /\ PivotTypeOK /\ WaitTypeOK
BY DEF WaitInv, TypeOK, WaitTypeOK, Complete

LEMMA Keeps == TargetTypeOK /\ head' = head => head' >= head
BY TargetAssumption DEF TargetTypeOK

LEMMA TargetSteps ==
    ASSUME TargetTypeOK, TargetStep
    PROVE  TargetTypeOK' /\ config' = config /\ head' >= head
<1>1. CASE ComeUp
  BY <1>1, Keeps DEF ComeUp, TargetTypeOK
<1>2. CASE StartSync
  BY <1>2, Keeps DEF StartSync, TargetTypeOK
<1>3. CASE Advance
  <2>1. head \in Nat /\ head' \in 0..Target /\ head' >= head
    BY <1>3, TargetAssumption DEF Advance, TargetTypeOK
  <2>2. QED
    BY <1>3, <2>1 DEF Advance, TargetTypeOK
<1>4. CASE FinishSync
  BY <1>4, Keeps DEF FinishSync, TargetTypeOK
<1>5. CASE GoStale
  BY <1>5, Keeps DEF GoStale, TargetTypeOK
<1>6. CASE RestartNode
  <2>1. restarts' \in 0..MaxRestarts
    BY <1>6, TargetAssumption DEF RestartNode, TargetTypeOK
  <2>2. QED
    BY <1>6, <2>1, Keeps DEF RestartNode, TargetTypeOK
<1>7. QED
  BY <1>1, <1>2, <1>3, <1>4, <1>5, <1>6 DEF TargetStep, TargetProgress

LEMMA PivotSteps ==
    ASSUME TargetTypeOK, PivotTypeOK, PivotStep \/ StopPivot
    PROVE  /\ TargetTypeOK' /\ PivotTypeOK'
           /\ UNCHANGED <<config, up, phase, head, fresh, restarts, everSynced>>
<1>1. CASE Tick
  BY <1>1 DEF Tick, TargetTypeOK, PivotTypeOK
<1>2. CASE ReadSyncing \/ ReadHead \/ Sleep \/ StopPivot
  <2>1. UNCHANGED targetVars
    BY <1>2 DEF ReadSyncing, ReadHead, Sleep, StopPivot, KillPivot
  <2>2. PivotTypeOK'
    BY <1>2 DEF ReadSyncing, ReadHead, Sleep, StopPivot, KillPivot, EthSyncing, PivotTypeOK
  <2>3. QED
    BY <2>1, <2>2 DEF targetVars, TargetTypeOK
<1>3. QED
  BY <1>1, <1>2 DEF PivotStep

LEMMA WaitSteps == WaitStep => UNCHANGED <<targetVars, pivotVars>>
BY DEF WaitStep, RpcUp, RpcDown, RpcTimeout, SeesUnreachable, SeesSyncing, SeesNotSyncing,
   HeadBehind, HeadSynced, CapReached, PollAgain

LEMMA TypeStep == WaitInv /\ [Next]_vars => WaitInv'
<1> SUFFICES ASSUME TargetTypeOK, PivotTypeOK, WaitTypeOK, [Next]_vars
             PROVE  TargetTypeOK' /\ PivotTypeOK' /\ WaitTypeOK'
  BY WaitInvParts DEF WaitInv, TypeOK, TargetTypeOK, PivotTypeOK, WaitTypeOK, Complete
<1> SyncCap \in Nat /\ RpcCap \in Nat /\ Confirmations \in Nat \ {0}
  BY TargetAssumption, WaitAssumption DEF TargetTypeOK, SyncCap, Config
<1>1. ASSUME config' = config, UNCHANGED waitVars PROVE WaitTypeOK'
  BY <1>1 DEF waitVars, WaitTypeOK, SyncCap
<1>2. CASE TargetStep /\ UNCHANGED <<pivotVars, waitVars>>
  BY <1>1, <1>2, TargetSteps DEF pivotVars, PivotTypeOK
<1>3. CASE (PivotStep \/ StopPivot) /\ UNCHANGED waitVars
  BY <1>1, <1>3, PivotSteps
<1>4. CASE WaitStep
  <2>1. TargetTypeOK' /\ PivotTypeOK' /\ SyncCap' = SyncCap
    BY <1>4, WaitSteps DEF targetVars, pivotVars, TargetTypeOK, PivotTypeOK, SyncCap
  <2>2. CASE RpcUp
    BY <2>1, <2>2 DEF RpcUp, WaitTypeOK
  <2>10. CASE RpcTimeout
    BY <2>1, <2>10 DEF RpcTimeout, WaitTypeOK
  <2>7. CASE RpcDown
    BY <2>1, <2>7 DEF RpcDown, WaitTypeOK
  <2>3. CASE SeesUnreachable \/ SeesNotSyncing
    BY <2>1, <2>3 DEF SeesUnreachable, SeesNotSyncing, WaitTypeOK
  <2>8. CASE SeesSyncing
    BY <2>1, <2>8 DEF SeesSyncing, WaitTypeOK
  <2>11. CASE HeadBehind
    BY <2>1, <2>11 DEF HeadBehind, WaitTypeOK
  <2>4. CASE HeadSynced
    BY <2>1, <2>4 DEF HeadSynced, WaitTypeOK
  <2>5. CASE CapReached
    BY <2>1, <2>5 DEF CapReached, WaitTypeOK
  <2>6. CASE PollAgain
    BY <2>1, <2>6 DEF PollAgain, WaitTypeOK
  <2>12. QED
    BY <1>4, <2>1, <2>2, <2>3, <2>4, <2>5, <2>6, <2>7, <2>8, <2>10,
       <2>11 DEF WaitStep
<1>5. CASE UNCHANGED vars
  BY <1>1, <1>5 DEF vars, targetVars, pivotVars, TargetTypeOK, PivotTypeOK
<1>6. QED
  BY <1>2, <1>3, <1>4, <1>5 DEF Next

LEMMA HistoryStep == WaitInv /\ HistoryInv /\ [Next]_vars => HistoryInv'
<1> USE DEF HistoryInv
<1> SUFFICES ASSUME WaitInv, HistoryInv, [Next]_vars PROVE HistoryInv'
  OBVIOUS
<1> /\ phase \in {"cold", "syncing", "synced"}
    /\ everSynced \in {"never", "initially", "later"}
  BY WaitInvParts DEF TargetTypeOK
<1> restarts \in Nat
  BY WaitInvParts, TargetAssumption DEF TargetTypeOK
<1>1. ASSUME TargetStep, UNCHANGED <<pivotVars, waitVars>> PROVE HistoryInv'
  <2> UNCHANGED <<pc, sawSyncing, result>>
    BY <1>1 DEF waitVars
  <2>1. CASE ComeUp \/ StartSync \/ Advance \/ GoStale
    BY <2>1 DEF ComeUp, StartSync, Advance, GoStale
  <2>2. CASE FinishSync
    BY <2>2 DEF FinishSync
  <2>3. CASE RestartNode
    BY <2>3 DEF RestartNode
  <2>4. QED
    BY <1>1, <2>1, <2>2, <2>3 DEF TargetStep, TargetProgress
<1>2. ASSUME PivotStep \/ StopPivot, UNCHANGED waitVars PROVE HistoryInv'
  BY <1>2 DEF PivotStep, Tick, ReadSyncing, ReadHead, Sleep, StopPivot, KillPivot, waitVars, targetVars
<1>3. CASE WaitStep
  <2> UNCHANGED <<phase, restarts, everSynced>>
    BY <1>3 DEF WaitStep, RpcUp, RpcDown, RpcTimeout, SeesUnreachable, SeesSyncing, SeesNotSyncing,
       HeadBehind, HeadSynced, CapReached, PollAgain, targetVars
  <2>1. CASE RpcUp \/ RpcDown \/ RpcTimeout \/ CapReached \/ PollAgain
    BY <2>1 DEF RpcUp, RpcDown, RpcTimeout, CapReached, PollAgain
  <2>2. CASE SeesUnreachable \/ HeadBehind
    BY <2>2 DEF SeesUnreachable, HeadBehind
  <2>3. CASE SeesSyncing \/ SeesNotSyncing
    BY <2>3 DEF SeesSyncing, SeesNotSyncing, EthSyncing, Unreachable
  <2>4. CASE HeadSynced
    BY <2>4 DEF HeadSynced, WaitInv
  <2>5. QED
    BY <1>3, <2>1, <2>2, <2>3, <2>4 DEF WaitStep
<1>4. CASE UNCHANGED vars
  BY <1>4 DEF vars, targetVars, waitVars
<1>5. QED
  BY <1>1, <1>2, <1>3, <1>4 DEF Next

LEMMA Inductive == Spec => [](WaitInv /\ HistoryInv)
<1>1. Init => WaitInv
  <2>1. Init => TargetTypeOK
    <3>1. Init => fresh \in BOOLEAN /\ driven \in BOOLEAN /\ up \in BOOLEAN
      BY DEF Init, TargetInit
    <3>2. Init => head \in 0..Target /\ restarts \in 0..MaxRestarts
      BY TargetAssumption DEF Init, TargetInit
    <3>3. QED
      BY <3>1, <3>2 DEF Init, TargetInit, TargetTypeOK
  <2>2. Init => PivotTypeOK
    BY DEF Init, PivotInit, PivotTypeOK
  <2>3. Init => SyncCap \in Nat
    BY TargetAssumption DEF Init, TargetInit, SyncCap, Config
  <2>4. Init => WaitTypeOK
    <3>1. Init => sawSyncing \in BOOLEAN
      BY DEF Init
    <3>2. Confirmations \in Nat /\ 0 < Confirmations /\ RpcCap \in Nat
      BY WaitAssumption
    <3>3. Init => elapsed \in Nat /\ elapsed <= SyncCap + RpcCap /\ streak \in 0..Confirmations
      BY <2>3, <3>2 DEF Init
    <3>4. QED
      BY <3>1, <3>2, <3>3 DEF Init, WaitTypeOK
  <2>5. QED
    BY <2>1, <2>2, <2>4, WaitInvParts
<1>2. Init => HistoryInv
  BY DEF Init, TargetInit, HistoryInv
<1>3. QED
  BY <1>1, <1>2, TypeStep, HistoryStep, PTL DEF Spec

\* Type correctness of the node, the pivot driver and the runner's wait.
THEOREM TypeCorrect == Spec => []TypeOK
<1>1. WaitInv => TypeOK
  BY DEF WaitInv
<1>2. QED
  BY <1>1, Inductive, PTL

\* A duration is only ever returned for a node that was seen to become synced.
THEOREM TimedSynced == Spec => []TimedMeansSynced
<1>1. HistoryInv => TimedMeansSynced
  BY DEF HistoryInv, TimedMeansSynced
<1>2. QED
  BY <1>1, Inductive, PTL

\* A recent head is that of a node that has been synced.
FreshInv == fresh => everSynced # "never"

LEMMA FreshStep == FreshInv /\ [Next]_vars => FreshInv'
<1> SUFFICES ASSUME FreshInv, [Next]_vars PROVE FreshInv'
  OBVIOUS
<1>1. CASE FinishSync
  BY <1>1 DEF FinishSync, FreshInv
<1>2. CASE ComeUp \/ StartSync \/ Advance \/ GoStale \/ RestartNode
  BY <1>2 DEF ComeUp, StartSync, Advance, GoStale, RestartNode, FreshInv
<1>3. CASE UNCHANGED <<fresh, everSynced>>
  BY <1>3 DEF FreshInv
<1>4. CASE PivotStep \/ StopPivot
  BY <1>3, <1>4 DEF PivotStep, Tick, ReadSyncing, ReadHead, Sleep, StopPivot, KillPivot, targetVars
<1>5. CASE WaitStep \/ UNCHANGED vars
  BY <1>3, <1>5, WaitSteps DEF vars, targetVars
<1>6. QED
  BY <1>1, <1>2, <1>4, <1>5 DEF Next, TargetStep, TargetProgress

\* The wait ends well only on a node that has been synced, or is near its
\* pivot, or restarted under a wait that judges by the flip of eth_syncing.
THEOREM FinishedSynced == Spec => []FinishedMeansSynced
<1> DEFINE Finished == FinishedMeansSynced
<1>1. Init => Finished /\ FreshInv
  BY DEF Init, TargetInit, FinishedMeansSynced, Complete, FreshInv
<1>2. WaitInv /\ HistoryInv /\ FreshInv /\ Finished /\ [Next]_vars => Finished'
  <2> USE DEF FinishedMeansSynced, Complete, Mode, PivotNumber, PivotReached, ByPivot, ByFlip
  <2> SUFFICES ASSUME WaitInv, HistoryInv, FreshInv, Finished, [Next]_vars PROVE Finished'
    OBVIOUS
  <2> config \in Configs /\ config \in Config
    BY WaitInvParts, TargetAssumption DEF TargetTypeOK
  <2> /\ head \in Nat /\ Margin \in Nat /\ restarts \in Nat
      /\ everSynced \in {"never", "initially", "later"}
    BY WaitInvParts, TargetAssumption, PivotAssumption DEF TargetTypeOK
  <2>1. CASE HeadSynced
    <3>1. /\ UNCHANGED <<config, head, restarts, everSynced, sawSyncing>>
          /\ pc = "head" /\ HeadOk
      BY <2>1 DEF HeadSynced, targetVars
    <3>2. CASE Mode = "mock" /\ PivotNumber # NoNumber
      <4>1. head + Margin >= config.pivot
        BY <3>1, <3>2 DEF HeadOk
      <4>2. config.pivot \in Nat
        BY <3>2 DEF Config
      <4>3. QED
        BY <3>1, <3>2, <4>1, <4>2
    <3>3. CASE Mode = "lighthouse"
      <4>1. head > 0 /\ fresh
        BY <3>1, <3>3 DEF HeadOk
      <4>2. everSynced # "never"
        BY <4>1 DEF FreshInv
      <4>3. QED
        BY <3>1, <4>1, <4>2
    <3>4. CASE ByFlip
      <4>1. head > 0 /\ sawSyncing
        BY <3>1, <3>4 DEF HeadOk
      <4>2. restarts = 0 => everSynced = "later"
        BY <3>1, <4>1 DEF HistoryInv
      <4>3. QED
        BY <3>1, <3>4, <4>1, <4>2
    <3>5. QED
      BY <3>2, <3>3, <3>4 DEF Config
  <2>2. ASSUME config' = config, head' \in Nat, head' >= head,
               restarts' \in Nat, restarts' >= restarts,
               everSynced' = everSynced \/ everSynced' # "never",
               result' \notin {"null", "timed"} \/ UNCHANGED <<result, sawSyncing>>
        PROVE  Finished'
    BY <2>2 DEF Config
  <2>3. CASE UNCHANGED vars
    BY <2>3 DEF vars, targetVars, waitVars
  <2>4. CASE (PivotStep \/ StopPivot) /\ UNCHANGED waitVars
    BY <2>4, <2>2 DEF PivotStep, StopPivot, KillPivot, Tick, ReadSyncing, ReadHead, Sleep,
       targetVars, waitVars
  <2>5. CASE TargetStep /\ UNCHANGED <<pivotVars, waitVars>>
    <3>1. /\ config' = config /\ head' \in Nat /\ head' >= head
          /\ restarts' \in Nat /\ restarts' >= restarts
          /\ everSynced' = everSynced \/ everSynced' # "never"
      <4>1. CASE Advance
        BY <4>1, TargetAssumption DEF Advance
      <4>2. CASE ComeUp \/ StartSync \/ GoStale \/ RestartNode
        BY <4>2 DEF ComeUp, StartSync, GoStale, RestartNode
      <4>3. CASE FinishSync
        BY <4>3 DEF FinishSync
      <4>4. QED
        BY <2>5, <4>1, <4>2, <4>3 DEF TargetStep, TargetProgress
    <3>2. QED
      BY <2>2, <2>5, <3>1 DEF waitVars
  <2>6. CASE WaitStep
    <3>1. CASE SeesUnreachable \/ SeesSyncing \/ SeesNotSyncing \/ HeadBehind
      <4>1. result' = "running"
        BY <3>1 DEF SeesUnreachable, SeesSyncing, SeesNotSyncing, HeadBehind, WaitInv
      <4>2. QED
        BY <4>1
    <3>2. CASE RpcUp \/ RpcDown \/ RpcTimeout \/ CapReached \/ PollAgain
      <4>1. /\ UNCHANGED targetVars
            /\ result' \notin {"null", "timed"} \/ UNCHANGED <<result, sawSyncing>>
        BY <3>2 DEF RpcUp, RpcDown, RpcTimeout, CapReached, PollAgain
      <4>2. QED
        BY <2>2, <4>1 DEF targetVars
    <3>3. QED
      BY <2>1, <2>6, <3>1, <3>2 DEF WaitStep
  <2>7. QED
    BY <2>3, <2>4, <2>5, <2>6 DEF Next
<1>3. QED
  BY <1>1, <1>2, FreshStep, Inductive, PTL DEF Spec

-----------------------------------------------------------------------------
(* MeasurementEnds, but for fairness: with a cap, each turn of a wait makes *)
(* the number of turns and calls left smaller.                              *)

TurnInv ==
    /\ pc = "rpc" => elapsed <= RpcCap
    /\ SyncCap # 0 /\ pc \in {"poll", "head", "cap"} => elapsed <= SyncCap

CallsLeft ==
    CASE pc = "rpc"  -> 4 * SyncCap + 4 + (RpcCap - elapsed)
      [] pc = "poll" -> 4 * (SyncCap - elapsed) + 3
      [] pc = "head" -> 4 * (SyncCap - elapsed) + 2
      [] pc = "cap"  -> 4 * (SyncCap - elapsed) + 1
      [] OTHER       -> 0

LEMMA CallsLeftNat == WaitInv /\ TurnInv /\ SyncCap # 0 => CallsLeft \in Nat
<1> SUFFICES ASSUME WaitInv, TurnInv, SyncCap # 0 PROVE CallsLeft \in Nat
  OBVIOUS
<1>1. SyncCap \in Nat /\ RpcCap \in Nat \ {0} /\ elapsed \in Nat
  BY TargetAssumption, WaitAssumption DEF WaitInv, TypeOK, TargetTypeOK, SyncCap, Config
<1>2. pc \in {"rpc", "poll", "head", "cap", "ended"}
  BY DEF WaitInv, TypeOK
<1>3. CASE pc = "rpc"
  BY <1>1, <1>3 DEF TurnInv, CallsLeft
<1>4. CASE pc \in {"poll", "head", "cap"}
  BY <1>1, <1>4 DEF TurnInv, CallsLeft
<1>5. CASE pc = "ended"
  BY <1>5 DEF CallsLeft
<1>6. QED
  BY <1>2, <1>3, <1>4, <1>5

\* The steps of the wait, and those of the node and of the pivot driver.
LEMMA TurnStep ==
    WaitInv /\ TurnInv /\ [Next]_vars =>
        /\ TurnInv'
        /\ SyncCap # 0 /\ WaitStep => CallsLeft' < CallsLeft
        /\ WaitStep \/ UNCHANGED CallsLeft
<1> SUFFICES ASSUME WaitInv, TurnInv, [Next]_vars
             PROVE  /\ TurnInv'
                    /\ SyncCap # 0 /\ WaitStep => CallsLeft' < CallsLeft
                    /\ WaitStep \/ UNCHANGED CallsLeft
  OBVIOUS
<1>1. SyncCap \in Nat /\ RpcCap \in Nat \ {0} /\ elapsed \in Nat
  BY TargetAssumption, WaitAssumption DEF WaitInv, TypeOK, TargetTypeOK, SyncCap, Config
<1>2. ASSUME WaitStep PROVE TurnInv' /\ (SyncCap # 0 => CallsLeft' < CallsLeft)
  <2>1. SyncCap' = SyncCap
    BY <1>2, WaitSteps DEF targetVars, SyncCap
  <2>2. CASE RpcUp \/ RpcDown \/ RpcTimeout
    <3>1. CASE RpcUp
      <4>1. pc' = "poll" /\ elapsed' = 0 /\ 4 * SyncCap + 3 < 4 * SyncCap + 4 + (RpcCap - elapsed)
        BY <1>1, <3>1 DEF RpcUp
      <4>2. QED
        BY <1>1, <2>1, <3>1, <4>1 DEF RpcUp, TurnInv, CallsLeft
    <3>2. CASE RpcDown
      BY <1>1, <2>1, <3>2 DEF RpcDown, TurnInv, CallsLeft
    <3>3. CASE RpcTimeout
      <4>1. pc = "rpc" /\ pc' = "ended" /\ elapsed <= RpcCap
        BY <3>3 DEF RpcTimeout, TurnInv
      <4>2. 4 * SyncCap \in Nat /\ RpcCap - elapsed \in Nat
        BY <1>1, <4>1
      <4>3. CallsLeft' = 0 /\ CallsLeft = 4 * SyncCap + 4 + (RpcCap - elapsed)
        BY <4>1 DEF CallsLeft
      <4>4. QED
        BY <4>1, <4>2, <4>3 DEF TurnInv
    <3>4. QED
      BY <2>2, <3>1, <3>2, <3>3
  <2>3. CASE SeesUnreachable \/ SeesSyncing \/ SeesNotSyncing
    BY <1>1, <2>1, <2>3 DEF SeesUnreachable, SeesSyncing, SeesNotSyncing, TurnInv, CallsLeft
  <2>4. CASE HeadBehind \/ HeadSynced
    BY <1>1, <2>1, <2>4 DEF HeadBehind, HeadSynced, TurnInv, CallsLeft
  <2>5. CASE CapReached
    BY <1>1, <2>1, <2>5 DEF CapReached, TurnInv, CallsLeft
  <2>6. CASE PollAgain
    BY <1>1, <2>1, <2>6 DEF PollAgain, TurnInv, CallsLeft
  <2>7. QED
    BY <1>2, <2>2, <2>3, <2>4, <2>5, <2>6 DEF WaitStep
<1>3. CASE ~WaitStep
  <2>1. UNCHANGED <<config, waitVars>>
    BY <1>3 DEF Next, vars, PivotStep, StopPivot, KillPivot, Tick, ReadSyncing, ReadHead, Sleep,
       TargetStep, TargetProgress, ComeUp, StartSync, Advance, FinishSync, GoStale, RestartNode,
       targetVars
  <2>2. QED
    BY <1>3, <2>1 DEF waitVars, TurnInv, CallsLeft, SyncCap
<1>4. QED
  BY <1>2, <1>3

\* The safety half of MeasurementEnds: with a cap on the wait, whatever the
\* node does between two polls, no turn of wait_for_rpc or measure_sync_time
\* leaves as many calls to make as before, and nobody else adds to them.
THEOREM MeasurementIsFinite ==
    Spec => /\ [](SyncCap # 0 => CallsLeft \in Nat)
            /\ [][/\ SyncCap # 0 /\ WaitStep => CallsLeft' < CallsLeft
                  /\ WaitStep \/ UNCHANGED CallsLeft]_vars
<1>1. Init => TurnInv
  BY WaitAssumption DEF Init, TurnInv
<1>2. WaitInv /\ TurnInv /\ [Next]_vars =>
         [/\ SyncCap # 0 /\ WaitStep => CallsLeft' < CallsLeft
          /\ WaitStep \/ UNCHANGED CallsLeft]_vars
  BY TurnStep
<1>3. WaitInv /\ TurnInv /\ [Next]_vars => TurnInv'
  BY TurnStep
<1>4. WaitInv /\ TurnInv => (SyncCap # 0 => CallsLeft \in Nat)
  BY CallsLeftNat
<1>5. QED
  BY <1>1, <1>2, <1>3, <1>4, Inductive, PTL DEF Spec
=============================================================================
