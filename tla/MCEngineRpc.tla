---------------------------- MODULE MCEngineRpc -----------------------------
(***************************************************************************)
(* EngineRpc with two ticks to the second, a budget of 5 seconds and a     *)
(* JWT window of 2 seconds: the window is shorter than the budget, as 60   *)
(* seconds are shorter than the budgets given to --engine-timeout.  Two    *)
(* signs of life are a connection and one part of an answer.               *)
(***************************************************************************)
EXTENDS EngineRpc

MCSecretLengths == {0, 1, 32}
=============================================================================
