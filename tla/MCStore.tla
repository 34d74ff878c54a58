------------------------------ MODULE MCStore ------------------------------
(* The open catalog on a small instance: two contents, two generations of  *)
(* vectors and two writers that may each hold ids across an embed call.    *)
EXTENDS StoreHistory, TLC

CONSTANTS b1, m1, m2, d1, w1, w2

MCModelOf == (b1 :> m1)

\* The catalog's actions only compare writers and models for equality, and
\* never look at ModelOf.
MCSymmetry == Permutations({w1, w2}) \cup Permutations({m1, m2})

\* Backoff on one content, only while nothing else is in flight, and a
\* reason only on failed or backed-off rows: no action reads those columns
\* together with what the properties mention.  Only one writer embeds while a
\* sweep is under way: a sweep treats each content on its own.
InFlightBounds ==
    /\ retry[2] = "null"
    /\ retry[1] # "null" => /\ \A w \in Writer : held[w] = {}
                           /\ sweepScope = NULL
    /\ \A h \in Hash : lastError[h] => state[h] = "failed" \/ retry[h] # "null"
    /\ sweepScope # NULL => \E w \in Writer : held[w] = {}
=============================================================================
