----------------------------- MODULE MCLoadRun ------------------------------
(***************************************************************************)
(* A small instance of LoadRun: two users, seven proof requests, a flush   *)
(* every three rows, and a head that moves three times.                    *)
(***************************************************************************)
EXTENDS LoadRun, TLC

CONSTANTS u1, u2

TwoUsers == {u1, u2}
AnyUser == Permutations(TwoUsers)
=============================================================================
