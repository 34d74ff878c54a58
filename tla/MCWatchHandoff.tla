--------------------------- MODULE MCWatchHandoff ---------------------------
(* The handoff over two paths, every buffer one path or one batch deep.    *)
EXTENDS WatchHandoff

CONSTANTS p1, p2
=============================================================================
