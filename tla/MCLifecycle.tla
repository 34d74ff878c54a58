---------------------------- MODULE MCLifecycle ----------------------------
(* Three processes: one that stops, its successor, and one that races it.  *)
EXTENDS Lifecycle, TLC

CONSTANTS d1, d2, d3
=============================================================================
