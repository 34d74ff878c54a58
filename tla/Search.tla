------------------------------- MODULE Search -------------------------------
(***************************************************************************)
(* One search request (internal/search, Service.Search) against a catalog  *)
(* the indexer keeps changing.  Every store call of the request is its own *)
(* snapshot: the identity of the vector table is read, the query embedded  *)
(* over the network, and only then the nearest chunks are asked for, once  *)
(* or, when the answer comes up short, twice.                              *)
(*                                                                         *)
(* A KNN result is k chunks, not k documents: a long document can fill it  *)
(* with its own chunks, and a deleted one whose vectors still wait for the *)
(* sweep fills it with hits no document stands behind.                     *)
(*                                                                         *)
(* A query is how far each chunk is from it.  Chunk numbers are storage    *)
(* ids, so a chunk with a smaller number was stored earlier.               *)
(***************************************************************************)
EXTENDS Naturals, Sequences, FiniteSets, SequencesExt

CONSTANTS
    Path,        \* document paths, in path order
    Hash,        \* content hashes
    Chunk,       \* chunk ids
    ContentOf,   \* the content a chunk is cut from
    Distances,   \* distances a chunk can have from a query
    Times,       \* modification times
    Model,       \* embedding identities: model and templates
    Mine,        \* the one configured, which embeds the query
    Dims,        \* dimension counts
    NoDoc,       \* no documents row with a content hash
    NoTable,     \* no current vector table
    OverFetch,   \* OverFetchFactor
    MaxK,        \* MaxKNNK
    MaxLimit,    \* MaxLimit
    Default      \* DefaultLimit

ASSUME SearchAssumption ==
    /\ Path \subseteq Nat /\ Chunk \subseteq Nat
    /\ IsFiniteSet(Path) /\ IsFiniteSet(Chunk)
    /\ ContentOf \in [Chunk -> Hash]
    /\ Distances \subseteq Nat /\ Times \subseteq Nat
    /\ Distances # {} /\ NoDoc \notin [hash : Hash, mtime : Times]
    /\ Mine \in Model /\ NoTable \notin [model : Model, dims : Dims]
    /\ {OverFetch, MaxK, MaxLimit, Default} \subseteq Nat \ {0}
    /\ MaxLimit <= MaxK /\ Default <= MaxLimit

VARIABLES
    docs,      \* documents: the content and mtime of each path
    vectors,   \* chunks with a vector in the current generation
    table,     \* the current generation: model and dimensions
    pc,        \* where the request is
    limit,     \* documents wanted
    dims,      \* dimensions the index was found to have
    query,     \* the embedded query: the distance of every chunk from it
    width,     \* dimensions of the embedded query
    answer,    \* the response: one record per content
    foreign    \* history: another process brought in another model's vectors
               \* since the request read the identity of the table

catalogVars == <<docs, vectors, table>>
requestVars == <<pc, limit, dims, query, width, answer>>
vars == <<catalogVars, requestVars, foreign>>

Doc == [hash : Hash, mtime : Times]
Table == [model : Model, dims : Dims]

Init ==
    /\ docs = [p \in Path |-> NoDoc]
    /\ vectors = {}
    /\ table \in Table \cup {NoTable}
    /\ pc = "idle"
    /\ limit = 0
    /\ dims \in Dims /\ width = dims
    /\ query = [c \in Chunk |-> CHOOSE d \in Distances : TRUE]
    /\ answer = <<>>
    /\ foreign = FALSE

-----------------------------------------------------------------------------
(* The catalog moves.  Module Store says how; a search sees only which     *)
(* documents, vectors and table there are.                                 *)

ChunksOf(h) == {c \in Chunk : ContentOf[c] = h}
Referenced == {docs[p].hash : p \in {q \in Path : docs[q] # NoDoc}}

\* Discovery and the deletion pass: a row is written, re-pointed or removed.
DocumentChanges(p) ==
    /\ docs' \in {[docs EXCEPT ![p] = d] : d \in Doc \cup {NoDoc}}
    /\ UNCHANGED <<vectors, table, requestVars, foreign>>

\* UpsertVectors: the vectors of one content.
ContentEmbedded(h) ==
    /\ table # NoTable
    /\ vectors' = vectors \cup ChunksOf(h)
    /\ UNCHANGED <<docs, table, requestVars, foreign>>

\* The orphan sweep, a terminal failure, or chunks stored anew.
ContentDropped(h) ==
    /\ vectors' = vectors \ ChunksOf(h)
    /\ UNCHANGED <<docs, table, requestVars, foreign>>

\* EnsureVecTable under model m, which is the configured one unless another
\* process, a successor under another configuration, does it: a new generation,
\* empty, or one of before with the vectors it has.
Cutover(m) ==
    /\ \E d \in Dims :
         /\ table # [model |-> m, dims |-> d]
         /\ table' = [model |-> m, dims |-> d]
    /\ \E kept \in SUBSET Hash : vectors' = UNION {ChunksOf(h) : h \in kept}
    /\ foreign' = (foreign \/ m # Mine)
    /\ UNCHANGED <<docs, requestVars>>

\* The file at the catalog's path is replaced: another database, whose rows and
\* vectors come by the steps above.
FileReplaced ==
    /\ docs' = [p \in Path |-> NoDoc]
    /\ vectors' = {}
    /\ table' = NoTable
    /\ UNCHANGED <<requestVars, foreign>>

Catalog ==
    \/ \E p \in Path : DocumentChanges(p)
    \/ \E h \in Hash : ContentEmbedded(h) \/ ContentDropped(h)
    \/ \E m \in Model : Cutover(m)
    \/ FileReplaced

-----------------------------------------------------------------------------
(* SearchVectors: k nearest chunks, each fanned out to the paths of its    *)
(* content, in one read transaction.                                       *)

\* The elements of S in the order R.
Ranked(S, R) ==
    [i \in 1..Cardinality(S) |->
       CHOOSE x \in S : Cardinality({y \in S : <<y, x>> \in R}) = i - 1]

\* knnChunks: ORDER BY distance, chunk id ...
Nearer(c, d) == query[c] < query[d] \/ (query[c] = query[d] /\ c < d)

\* ... of the k nearest, or of all there are.  Which of the chunks at equal
\* distance come in at the k-th place is sqlite-vec's to say: every choice.
KnnChunks(k) ==
    {found \in SUBSET vectors :
       /\ Cardinality(found) = k \/ (Cardinality(found) < k /\ found = vectors)
       /\ \A c \in found, d \in vectors \ found : query[c] <= query[d]}

\* documentsByHash: newest first, then by path.
Newer(p, q) == \/ docs[p].mtime > docs[q].mtime
               \/ docs[p].mtime = docs[q].mtime /\ p < q

PathsOf(h) == {p \in Path : docs[p] # NoDoc /\ docs[p].hash = h}

Hit == [chunk : Chunk, path : Path]

\* The fan-out: chunk by chunk, and for each its paths.  Content no document
\* references contributes nothing.
HitOrder == {e \in Hit \X Hit : \/ Nearer(e[1].chunk, e[2].chunk)
                                \/ /\ e[1].chunk = e[2].chunk
                                   /\ Newer(e[1].path, e[2].path)}
Hits(found) ==
    {hit \in Hit : hit.chunk \in found /\ hit.path \in PathsOf(ContentOf[hit.chunk])}

SearchVectors(found) == Ranked(Hits(found), HitOrder)

\* A query checked against the index's identity only when it was read.
AlwaysFits == TRUE

\* The table may have changed since its identity was read: dimensions are
\* checked again in the transaction that searches.
Fits == table # NoTable /\ width = table.dims

-----------------------------------------------------------------------------
(* CollapseBestPerContent: one pass over the hits.                         *)

Holds(out, h) == \E i \in DOMAIN out : out[i].hash = h

\* The copies after the last new content are lost.
CollapseStopping(out, hit, n) ==
    LET h == ContentOf[hit.chunk]
    IN IF Len(out) = n THEN out
       ELSE IF Holds(out, h)
       THEN [i \in DOMAIN out |->
               IF out[i].hash = h /\ out[i].chunk = hit.chunk
               THEN [out[i] EXCEPT !.alsoAt = Append(@, hit.path)]
               ELSE out[i]]
       ELSE Append(out, [hash |-> h, chunk |-> hit.chunk, path |-> hit.path,
                         alsoAt |-> <<>>])

\* The first hit of a content is its best chunk at its primary path; further
\* hits of that chunk are its other paths; worse chunks are skipped; and a full
\* answer takes no new content but still collects paths.
CollapseHit(out, hit, n) ==
    LET h == ContentOf[hit.chunk]
    IN IF Holds(out, h)
       THEN [i \in DOMAIN out |->
               IF out[i].hash = h /\ out[i].chunk = hit.chunk
               THEN [out[i] EXCEPT !.alsoAt = Append(@, hit.path)]
               ELSE out[i]]
       ELSE IF Len(out) = n THEN out
       ELSE Append(out, [hash |-> h, chunk |-> hit.chunk, path |-> hit.path,
                         alsoAt |-> <<>>])

Collapsing(hits, n) ==
    LET out[j \in 0..Len(hits)] ==
          IF j = 0 THEN <<>> ELSE CollapseHit(out[j - 1], hits[j], n)
    IN out

\* Path order.
ByPath == {e \in Path \X Path : e[1] < e[2]}

\* The other paths are sorted in the end.
Collapse(hits, n) ==
    LET out == Collapsing(hits, n)[Len(hits)]
    IN [i \in DOMAIN out |-> [out[i] EXCEPT !.alsoAt = Ranked(ToSet(@), ByPath)]]

-----------------------------------------------------------------------------
(* The request.                                                            *)

\* KnnK: the over-fetch, clamped to what sqlite-vec accepts.
KnnK(n) == IF n * OverFetch < MaxK THEN n * OverFetch ELSE MaxK

\* Validate and CheckLength: an empty or over-long query, a mode that is not
\* offered, a limit out of range.
Request(asked, wellFormed) ==
    /\ pc = "idle"
    /\ LET n == IF asked = 0 THEN Default ELSE asked
       IN IF wellFormed /\ n \in 1..MaxLimit
          THEN pc' = "spec" /\ limit' = n
          ELSE pc' = "invalid" /\ UNCHANGED limit
    /\ UNCHANGED <<catalogVars, dims, query, width, answer, foreign>>

\* compatible: model and templates; a width alone would let a model pass for
\* another of equal width.
Compatible == table.model = Mine

\* CurrentVecSpec and compatible: before the network call, and never cached.
ReadSpec ==
    /\ pc = "spec"
    /\ pc' = IF table = NoTable THEN "not_indexed"
             ELSE IF ~Compatible THEN "mismatch"
             ELSE "embed"
    /\ dims' = IF table = NoTable THEN dims ELSE table.dims
    /\ foreign' = FALSE
    /\ UNCHANGED <<catalogVars, limit, query, width, answer>>

\* EmbedQuery: it fails, or it returns a vector, of whatever width the model
\* behind the name has today.
EmbedQuery ==
    /\ pc = "embed"
    /\ \/ pc' = "embedder" /\ UNCHANGED <<query, width>>
       \/ /\ width' \in Dims
          /\ query' \in [Chunk -> Distances]
          /\ pc' = IF width' = dims THEN "knn" ELSE "mismatch"
    /\ UNCHANGED <<catalogVars, limit, dims, answer, foreign>>

\* A short answer is an answer.
NeverShort(got, k) == FALSE

\* Dead vectors may have filled the first result: one more try at the ceiling.
ComesUpShort(got, k) == Len(got) < limit /\ k < MaxK

Knn(k) ==
    IF ~Fits
    THEN /\ pc' = IF table = NoTable THEN "not_indexed" ELSE "failed"
         /\ UNCHANGED answer
    ELSE \E found \in KnnChunks(k) :
           LET got == Collapse(SearchVectors(found), limit)
           IN IF ComesUpShort(got, k)
              THEN pc' = "retry" /\ UNCHANGED answer
              ELSE pc' = "answered" /\ answer' = got

FirstKnn ==
    /\ pc = "knn"
    /\ Knn(KnnK(limit))
    /\ UNCHANGED <<catalogVars, limit, dims, query, width, foreign>>

SecondKnn ==
    /\ pc = "retry"
    /\ Knn(MaxK)
    /\ UNCHANGED <<catalogVars, limit, dims, query, width, foreign>>

\* The response is written out; the next request starts from nothing.
Reply ==
    /\ pc \in {"answered", "invalid", "not_indexed", "mismatch", "embedder",
               "failed"}
    /\ pc' = "idle"
    /\ limit' = 0
    /\ answer' = <<>>
    /\ dims' = CHOOSE d \in Dims : TRUE
    /\ width' = CHOOSE d \in Dims : TRUE
    /\ query' = [c \in Chunk |-> CHOOSE d \in Distances : TRUE]
    /\ foreign' = FALSE
    /\ UNCHANGED catalogVars

Next ==
    \/ Catalog
    \/ \E asked \in 0..MaxLimit + 1, wellFormed \in BOOLEAN :
         Request(asked, wellFormed)
    \/ ReadSpec \/ EmbedQuery \/ FirstKnn \/ SecondKnn \/ Reply

Spec == Init /\ [][Next]_vars

-----------------------------------------------------------------------------
(* What a search promises, said without fan-out, collapse or over-fetch.   *)

Answers == pc \in {"knn", "retry"} /\ pc' = "answered"

VectorsOf(h) == vectors \cap ChunksOf(h)

\* An entry is a content some document holds, with a chunk of it that no other
\* is nearer than, and the entries are in order.
InOrder(got) ==
    \A i \in DOMAIN got :
       /\ got[i].hash \in Referenced /\ got[i].chunk \in VectorsOf(got[i].hash)
       /\ \A c \in VectorsOf(got[i].hash) : query[got[i].chunk] <= query[c]
       /\ \A j \in DOMAIN got :
            i < j => got[i].hash # got[j].hash /\ Nearer(got[i].chunk, got[j].chunk)

\* The answer is the nearest contents that some document holds, each with its
\* nearest chunk.  A content that is not in it is no nearer than any that is,
\* in an answer as long as was asked for, or lies beyond what one query can
\* reach, MaxK chunks: dead vectors and long documents cost it nothing else.
NearestContents ==
    [][Answers =>
         /\ InOrder(answer') /\ Len(answer') <= limit
         /\ \A h \in Referenced : \A c \in VectorsOf(h) :
              \/ Holds(answer', h)
              \/ /\ Len(answer') = limit
                 /\ \A i \in DOMAIN answer' : query[answer'[i].chunk] <= query[c]
              \/ Cardinality({d \in vectors \ {c} : query[d] <= query[c]}) >= MaxK]_vars

\* Every copy is named: the newest as the hit's path (the first by name among
\* equals), all others, in path order, as also_at.
EveryCopyIsNamed ==
    [][Answers =>
         \A i \in DOMAIN answer' :
            LET hit == answer'[i]
                others == PathsOf(hit.hash) \ {hit.path}
            IN /\ hit.path \in PathsOf(hit.hash)
               /\ \A p \in others : Newer(hit.path, p)
               /\ hit.alsoAt = Ranked(others, ByPath)]_vars

\* A query is only ever compared with vectors of the dimensions it was embedded
\* with, although the table may change under the request, and of its model,
\* unless another process has brought in another model's meanwhile: the search
\* itself checks the dimensions again and not the model.
OneVectorSpace ==
    [][Answers => table.dims = width /\ (table.model = Mine \/ foreign)]_vars
=============================================================================
