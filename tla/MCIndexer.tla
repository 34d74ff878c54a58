----------------------------- MODULE MCIndexer -----------------------------
(* The daemon on small instances; the cfg files choose contents and bounds. *)
EXTENDS Indexer, TLC

CONSTANTS b1, b2, m1, m2

MCModelOf == [b \in Build |-> IF b = b1 THEN m1 ELSE m2]

\* Every content is one chunk.
MCOneChunk == [h \in Hash |-> 1]

\* Content 1 is two chunks; content 2, which does not decode, gives none.
MCTwoFirst == [h \in Hash |-> 4 - 2 * h]

\* Content 1 is an empty file, content 2 has one chunk.
MCEmptyFirst == [h \in Hash |-> h - 1]
=============================================================================
