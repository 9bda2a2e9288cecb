------------------------------- MODULE MCSync -------------------------------
(***************************************************************************)
(* Small instances of SyncPhase: a node that syncs to block 3, from        *)
(* genesis, half way, or already there, under each configuration.          *)
(***************************************************************************)
EXTENDS SyncPhase

\* Heads a run starts from.
AnyHead == {0, 2, 3}
Synced == {3}

Cfg(m, p, c) == [mode |-> m, pivot |-> p, cap |-> c]

\* A pivot with and without a cap, one within the margin of genesis, no pivot
\* number, and the other two modes.
AllConfigs == {Cfg("mock", 3, 0), Cfg("mock", 3, 3), Cfg("mock", 1, 3), Cfg("mock", NoNumber, 3),
               Cfg("none", NoNumber, 3), Cfg("lighthouse", NoNumber, 3)}
NoneOnly == {Cfg("none", NoNumber, 3)}
=============================================================================
