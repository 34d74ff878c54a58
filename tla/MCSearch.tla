------------------------------ MODULE MCSearch ------------------------------
(* Two contents of two chunks each at up to three paths; k stops one short *)
(* of all the chunks there are.                                            *)
EXTENDS Search

MCContentOf == [c \in Chunk |-> IF c \in {1, 2} THEN 1 ELSE 2]

\* The catalog moves before a request and before either KNN query.  A move at
\* another place could as well have come at one of these: a refused or answered
\* request reads the catalog no more, and the embedding reads none of it.
MovesAreSeen ==
    catalogVars' # catalogVars => pc \in {"idle", "knn", "retry"}
=============================================================================
