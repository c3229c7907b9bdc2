----------------------------- MODULE MCNodeTable -----------------------------
(* Small instances of NodeTable: seconds and cutoffs are scaled down, with  *)
(* MaskCutoff half of FreshCutoff as in the code.                           *)
EXTENDS NodeTable

\* Two nodes, and a source number nt_touch ignores.
MCNodes == {1, 2, 255}
=============================================================================
