---------------------------- MODULE MCBlockWindow ---------------------------
(***************************************************************************)
(* Small instances of BlockWindow: a window of six blocks, a margin of two,*)
(* nodes with every edge.                                                  *)
(***************************************************************************)
EXTENDS BlockWindow

\* From a chain shorter than the window to one that fills it.
Heads == {0, 1, 3, 6, 7, 8}
=============================================================================
