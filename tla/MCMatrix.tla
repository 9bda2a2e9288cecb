------------------------------ MODULE MCMatrix ------------------------------
(***************************************************************************)
(* Small instances of Orchestrator: one or two clients, one or two runner  *)
(* processes, one after the other.                                         *)
(***************************************************************************)
EXTENDS Orchestrator

CONSTANTS a, b

One == {a}
Two == {a, b}
MatrixOfOne == <<a>>
MatrixOfTwo == <<a, b>>

Tidy == [faults |-> {"start", "work", "mount", "reboot"}, stops |-> {TRUE}, mock |-> TRUE]
Untidy == [faults |-> HostFaults, stops |-> BOOLEAN, mock |-> FALSE]
Default == [faults |-> {}, stops |-> {FALSE}, mock |-> FALSE]

TidyAndUntidy == {Tidy, Untidy}
JustDefault == {Default}
=============================================================================
