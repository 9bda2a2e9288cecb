---------------------------- MODULE ReplayPromise ---------------------------
(***************************************************************************)
(* What ReplayDriver promises to a reader of its latency report, without   *)
(* the engine, the channel or the temporary file: blocks are measured one  *)
(* at a time, the report on disk is replaced as a whole and is brought up  *)
(* to date before the next block is measured, nothing is measured after a  *)
(* block that failed, and a replay that ends well has reported everything. *)
(***************************************************************************)
EXTENDS Naturals, Sequences

CONSTANTS Row, LandedStatus, NoFile

VARIABLES
    measured,   \* the blocks measured
    report,     \* the report a reader sees
    outcome     \* how the replay ended, if it has

pvars == <<measured, report, outcome>>

AllLanded == \A k \in 1..Len(measured) : measured[k].status \in LandedStatus

UpToDate == report = measured \/ (measured = <<>> /\ report = NoFile)

Init == measured = <<>> /\ report = NoFile /\ outcome = "running"

Measure ==
    /\ outcome = "running" /\ AllLanded /\ UpToDate
    /\ \E row \in Row : measured' = Append(measured, row)
    /\ UNCHANGED <<report, outcome>>

Publish ==
    /\ outcome = "running"
    /\ report' = measured
    /\ UNCHANGED <<measured, outcome>>

Succeed ==
    /\ outcome = "running" /\ AllLanded /\ report = measured
    /\ outcome' = "ok"
    /\ UNCHANGED <<measured, report>>

Break ==
    /\ outcome = "running"
    /\ outcome' \in {"failed", "killed"}
    /\ UNCHANGED <<measured, report>>

Next == Measure \/ Publish \/ Succeed \/ Break

Spec == Init /\ [][Next]_pvars
=============================================================================
