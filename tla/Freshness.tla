----------------------------- MODULE Freshness -----------------------------
(***************************************************************************)
(* What the watcher, the handoff and the walk promise together: once the   *)
(* daemon has been told of a change, it goes on owing that path a look     *)
(* until it takes one.                                                     *)
(***************************************************************************)
CONSTANT Path

VARIABLES
    stale,  \* paths changed on disk since the daemon last looked
    owed    \* paths the daemon is bound to look at

freshVars == <<stale, owed>>

FreshInit ==
    /\ stale \in SUBSET Path
    /\ owed = Path

\* A file changes; the daemon need not know.
Change(p) == stale' = stale \cup {p} /\ UNCHANGED owed

\* The daemon learns that it has to look.
Learn(paths) == owed' = owed \cup paths /\ UNCHANGED stale

\* It looks.  It may still owe another look, being told of a later change.
Look(p) ==
    /\ stale' = stale \ {p}
    /\ owed' \in {owed, owed \ {p}}

FreshNext ==
    \/ \E p \in Path : Change(p)
    \/ \E paths \in SUBSET Path : Learn(paths)
    \/ \E p \in Path : Look(p)

FreshSpec == FreshInit /\ [][FreshNext]_freshVars
=============================================================================
