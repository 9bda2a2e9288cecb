------------------------------ MODULE MCReplay ------------------------------
(***************************************************************************)
(* ReplayDriver on a small chain: 0 <- 1 is the snapshot (head 1), 2 and 3 *)
(* come after it, 4 is a block nobody has.                                 *)
(***************************************************************************)
EXTENDS ReplayDriver

MCHash == 0..4
MCKnown == {0, 1}

Rec(h, p) == [hash |-> h, parent |-> p]
Good == <<Rec(2, 1), Rec(3, 2)>>

\* A good file, one that starts at a block the snapshot holds, one that
\* starts past the snapshot, one with a gap, one cut short, and an empty one.
MCFiles == { Good,
             <<Rec(1, 0), Rec(2, 1)>>,
             <<Rec(3, 4)>>,
             <<Rec(2, 1), Rec(3, 4)>>,
             <<Rec(2, 1), Malformed>>,
             <<>> }

MCCounts == {1, 9}
=============================================================================
