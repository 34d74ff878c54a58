---------------------------- MODULE StoreHistory ----------------------------
(***************************************************************************)
(* The open catalog of module Store with one history variable: what the    *)
(* sweep in progress owes.  No action of the catalog reads it, so the      *)
(* catalog's behaviours are exactly those of StoreSpec.                    *)
(***************************************************************************)
EXTENDS Store

VARIABLE
    owed  \* contents that were orphans when the sweep's probe ran, and since

historyVars == <<storeVars, owed>>

\* Orphaned in the state the step leads to.
OrphanedNext(h, scope) ==
    /\ state'[h] # "none"
    /\ scope = "queue" => state'[h] \notin Terminal
    /\ \A p \in Path : documents'[p] # h

\* The probe starts the account; a row leaves it when it is collected, when a
\* path refers to it again, or when it becomes terminal at queue scope.
Account ==
    owed' = IF sweepScope = NULL
            THEN {h \in Hash : sweepScope' # NULL /\ OrphanedNext(h, sweepScope')}
            ELSE {h \in owed : sweepScope' # NULL /\ OrphanedNext(h, sweepScope)}

HistoryInit == StoreInit /\ owed = {}

HistoryNext == StoreNext /\ Account

HistorySpec == HistoryInit /\ [][HistoryNext]_historyVars

-----------------------------------------------------------------------------
\* A sweep that runs to its end leaves no row behind that was an orphan of its
\* scope when it began and stayed one, however many pages it took and whatever
\* other writers did between reading a page and deleting it (SweepOrphans'
\* cursor passes over candidates "regardless of the verify's answer", and only
\* a short page of candidates ends the loop).
SweepIsComplete ==
    [][(SweepCollect \/ SweepDelete) /\ sweepScope' = NULL
          => \A h \in owed : ~OrphanedNext(h, sweepScope)]_historyVars
=============================================================================
