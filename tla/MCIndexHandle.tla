--------------------------- MODULE MCIndexHandle ----------------------------
(* Two requests, at most one of them a search, over files that come and   *)
(* go.                                                                     *)
EXTENDS IndexHandle, TLC

CONSTANTS r1, r2, h1, h2

\* Of the two files, only the second may be one this build cannot read: a
\* file comes to be unreadable by taking the place of another, and may leave
\* it again.
FirstFileIsBuilt == minted > 0 => 1 \in built
=============================================================================
