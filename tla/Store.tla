------------------------------- MODULE Store -------------------------------
(***************************************************************************)
(* The SQLite catalog of bsearch (internal/adapters/sqlite: store.go,      *)
(* queue.go, vec.go, schema in migrate.go) as an open system: any number   *)
(* of writers call its methods in any order.  One action is one writer     *)
(* transaction (withTx), which SQLite makes atomic and durable.            *)
(*                                                                         *)
(* Data abstractions.  A content hash is a natural number, because the     *)
(* sweep pages through hashes in order.  The stage_versions JSON keeps two *)
(* keys: "build" stands for chunker + embedding + vec_metric, which are    *)
(* fixed at process start, and "embedding_dims" is learnt from a probe.  A *)
(* vector-table generation is named by its identity <<model, dims>>:       *)
(* EnsureVecTable never mints two generations of one identity.  updated_at *)
(* only orders claims and is left to the module that models the claim.     *)
(*                                                                         *)
(* Foreign keys are not guards here but invariants (ForeignKeys): a        *)
(* statement SQLite would reject shows up as a violation.                  *)
(***************************************************************************)
EXTENDS Naturals, FiniteSets

CONSTANTS
    Path,         \* file paths under the configured roots
    Hash,         \* content hashes
    ChunkId,      \* chunks.id values
    Build,        \* (chunker version, embedding fingerprint) of a process
    Model,        \* embedding model + templates: vector-space identity
    ModelOf,      \* the model of each build (the ceiling is not identity)
    Dims,         \* embedding dimension counts
    Writer,       \* pipelines that may hold chunk ids across an embed call
    MaxChunks,    \* bound: chunks of one content
    SweepBatch,   \* sweepBatch: hashes per sweep transaction
    AttemptBound, \* bound: the largest attempt count written
    NoDoc,        \* "no documents row for this path"
    Unread,       \* a documents row with unread_reason and NULL hash
    NULL

ASSUME HashAssumption == Hash \subseteq Nat \ {0}
ASSUME ChunkIdAssumption == ChunkId \subseteq Nat
ASSUME DocAssumption == NoDoc \notin Hash /\ Unread \notin Hash /\ NoDoc # Unread
ASSUME ModelAssumption == ModelOf \in [Build -> Model]
ASSUME BoundAssumption == /\ MaxChunks \in Nat
                          /\ SweepBatch \in Nat \ {0}
                          /\ AttemptBound \in Nat
ASSUME NullAssumption ==
    NULL \notin Build \cup Dims \cup Hash \cup (Model \X Dims) \cup {"queue", "all"}

VARIABLES
    documents,   \* path -> content hash, Unread or NoDoc
    state,       \* content.state, "none" where there is no content row
    stamp,       \* content.stage_versions
    attempts,    \* content.attempts
    retry,       \* content.next_retry_at: NULL, in the future, or past
    lastError,   \* content.last_error IS NOT NULL
    chunks,      \* the chunk ids of each content
    vectors,     \* the rowids of each vector-table generation
    tables,      \* the generations minted so far
    current,     \* meta vec_current
    held,        \* chunk ids a writer got from StoreChunks and is embedding
    heldFor,     \* the content those ids were stored for
    sweepScope,  \* SweepOrphans in progress: its scope
    sweepCursor, \* ... the last hash its candidate pages have passed
    sweepPage    \* ... the page read and not yet re-verified

rowVars   == <<documents, state, stamp, attempts, retry, lastError>>
vecVars   == <<vectors, tables, current>>
heldVars  == <<held, heldFor>>
sweepVars == <<sweepScope, sweepCursor, sweepPage>>
storeVars == <<rowVars, chunks, vecVars, heldVars, sweepVars>>

ContentState == {"discovered", "chunked", "indexed", "failed"}
Terminal     == {"indexed", "failed"}
StageKey     == {"build", "embedding_dims"}
StageValue   == Build \cup Dims \cup {NULL}
Stamps       == [StageKey -> StageValue]
NoStamp      == [k \in StageKey |-> NULL]
Retry        == {"null", "waiting", "due"}
Ident        == Model \X Dims

StoreTypeOK ==
    /\ documents \in [Path -> Hash \cup {NoDoc, Unread}]
    /\ state \in [Hash -> ContentState \cup {"none"}]
    /\ stamp \in [Hash -> Stamps]
    /\ attempts \in [Hash -> Nat]
    /\ retry \in [Hash -> Retry]
    /\ lastError \in [Hash -> BOOLEAN]
    /\ chunks \in [Hash -> SUBSET ChunkId]
    /\ vectors \in [Ident -> SUBSET ChunkId]
    /\ tables \in SUBSET Ident
    /\ current \in Ident \cup {NULL}
    /\ held \in [Writer -> SUBSET ChunkId]
    /\ heldFor \in [Writer -> Hash \cup {NULL}]
    /\ sweepScope \in {NULL, "queue", "all"}
    /\ sweepCursor \in Nat
    /\ sweepPage \in SUBSET Hash

StoreInit ==
    /\ documents = [p \in Path |-> NoDoc]
    /\ state = [h \in Hash |-> "none"]
    /\ stamp = [h \in Hash |-> NoStamp]
    /\ attempts = [h \in Hash |-> 0]
    /\ retry = [h \in Hash |-> "null"]
    /\ lastError = [h \in Hash |-> FALSE]
    /\ chunks = [h \in Hash |-> {}]
    /\ vectors = [i \in Ident |-> {}]
    /\ tables = {}
    /\ current = NULL
    /\ held = [w \in Writer |-> {}]
    /\ heldFor = [w \in Writer |-> NULL]
    /\ sweepScope = NULL
    /\ sweepCursor = 0
    /\ sweepPage = {}

-----------------------------------------------------------------------------
(* Reads.                                                                  *)

Stored(h)   == state[h] # "none"
PathsOf(h)  == {p \in Path : documents[p] = h}
LiveChunks  == UNION {chunks[h] : h \in Hash}

\* A rescheduled row that no claim ever sees again.
ClaimableUnscheduled(h) ==
    /\ Stored(h)
    /\ state[h] \notin Terminal
    /\ retry[h] = "null"

\* The claim predicate: non-terminal and not waiting out a backoff.
Claimable(h) ==
    /\ Stored(h)
    /\ state[h] \notin Terminal
    /\ retry[h] # "waiting"

\* An orphan as soon as one of its copies is gone.
OrphanedByOne(h, scope) ==
    /\ Stored(h)
    /\ scope = "queue" => state[h] \notin Terminal
    /\ PathsOf(h) # Path

\* SweepOrphans' predicate: no documents row, and in scope.
Orphaned(h, scope) ==
    /\ Stored(h)
    /\ scope = "queue" => state[h] \notin Terminal
    /\ PathsOf(h) = {}

\* AUTOINCREMENT hands out an id nobody has seen: not a live chunk, not a
\* rowid of any vector table, not an id some writer still holds.  An id that
\* nothing refers to is as good as one never used, so the least are taken.
Remembered == LiveChunks \cup (UNION {vectors[i] : i \in Ident})
                         \cup (UNION {held[w] : w \in Writer})

LeastIds(free, n) ==
    {ids \in SUBSET free : /\ IsFiniteSet(ids) /\ Cardinality(ids) = n
                           /\ \A a \in ids, b \in free \ ids : a < b}

\* What the schema's id column rules out: rowids are reused once their row is
\* gone, whoever still remembers them.
FreshIdsReusing(n) == LeastIds(ChunkId \ LiveChunks, n)

FreshIds(n) == LeastIds(ChunkId \ Remembered, n)

\* The variant that forgets superseded generations.
WithoutCurrentVectors(ids) ==
    [i \in Ident |-> IF i = current THEN vectors[i] \ ids ELSE vectors[i]]

\* deleteVectorsTx for a set of chunk ids: gone from EVERY generation.
WithoutVectors(ids) == [i \in Ident |-> vectors[i] \ ids]

-----------------------------------------------------------------------------
(* The catalog: documents rows, and content rows born from them.           *)

\* UpsertDocuments: each named path gets its row; a hash seen for the first
\* time gets a content row at discovered, one already there keeps its state.
UpsertDocuments(docs) ==
    /\ documents' = [p \in Path |-> IF p \in DOMAIN docs THEN docs[p]
                                                        ELSE documents[p]]
    /\ state' = [h \in Hash |->
                   IF ~Stored(h) /\ \E p \in DOMAIN docs : docs[p] = h
                   THEN "discovered" ELSE state[h]]
    /\ UNCHANGED <<stamp, attempts, retry, lastError, chunks, vecVars,
                   heldVars, sweepVars>>

\* DeleteByPathPrefix and DeleteByPaths: documents rows only.
DeleteDocuments(paths) ==
    /\ documents' = [p \in Path |-> IF p \in paths THEN NoDoc ELSE documents[p]]
    /\ UNCHANGED <<state, stamp, attempts, retry, lastError, chunks, vecVars,
                   heldVars, sweepVars>>

-----------------------------------------------------------------------------
(* The pipeline's writes.                                                  *)

\* StoreChunks: replace the content's chunks and drop the old ones' vectors.
\* Only failed is written without chunks by design (failWith passes nil).
\* Retry columns are left alone; a missing row is ErrContentGone.
StoreChunks(w, h, st, sv, n) ==
    /\ Stored(h)
    /\ \E ids \in FreshIds(n) :
         /\ chunks' = [chunks EXCEPT ![h] = ids]
         /\ held' = [held EXCEPT ![w] = ids]
         /\ heldFor' = [heldFor EXCEPT ![w] = IF ids = {} THEN NULL ELSE h]
    /\ state' = [state EXCEPT ![h] = st]
    /\ stamp' = [stamp EXCEPT ![h] = sv]
    /\ vectors' = WithoutVectors(chunks[h])
    /\ UNCHANGED <<documents, attempts, retry, lastError, tables, current,
                   sweepVars>>

\* UpsertVectors: into the current generation, only while every id is still a
\* chunk and the vectors have the generation's dimension count.
UpsertVectors(w, dims) ==
    /\ current # NULL
    /\ held[w] \subseteq LiveChunks
    /\ dims = current[2]
    /\ vectors' = [vectors EXCEPT ![current] = @ \cup held[w]]
    /\ held' = [held EXCEPT ![w] = {}]
    /\ heldFor' = [heldFor EXCEPT ![w] = NULL]
    /\ UNCHANGED <<rowVars, chunks, tables, current, sweepVars>>

\* movedOn, a failed embed or a crash: the writer drops the ids it held.
ReleaseIds(w) ==
    /\ held' = [held EXCEPT ![w] = {}]
    /\ heldFor' = [heldFor EXCEPT ![w] = NULL]
    /\ UNCHANGED <<rowVars, chunks, vecVars, sweepVars>>

\* UpdateContentState(indexed): the state column only.
UpdateContentState(h, st) ==
    /\ Stored(h)
    /\ state' = [state EXCEPT ![h] = st]
    /\ UNCHANGED <<documents, stamp, attempts, retry, lastError, chunks,
                   vecVars, heldVars, sweepVars>>

\* MarkFailed: terminal, with a reason, and nothing left to serve.
MarkFailed(h) ==
    /\ Stored(h)
    /\ state' = [state EXCEPT ![h] = "failed"]
    /\ lastError' = [lastError EXCEPT ![h] = TRUE]
    /\ vectors' = WithoutVectors(chunks[h])
    /\ chunks' = [chunks EXCEPT ![h] = {}]
    /\ UNCHANGED <<documents, stamp, attempts, retry, tables, current,
                   heldVars, sweepVars>>

\* The first generation stays the one in use.
EnsureVecTableKeepsCurrent(i) ==
    /\ tables' = tables \cup {i}
    /\ current' = IF current = NULL THEN i ELSE current
    /\ UNCHANGED <<rowVars, chunks, vectors, heldVars, sweepVars>>

\* EnsureVecTable: mint the generation if it is new, and point search at it.
EnsureVecTable(i) ==
    /\ tables' = tables \cup {i}
    /\ current' = i
    /\ UNCHANGED <<rowVars, chunks, vectors, heldVars, sweepVars>>

-----------------------------------------------------------------------------
(* The queue's writes.                                                     *)

\* Reschedule: retry columns only, the state is untouched.
Reschedule(h, n, at) ==
    /\ Stored(h)
    /\ n <= AttemptBound
    /\ attempts' = [attempts EXCEPT ![h] = n]
    /\ retry' = [retry EXCEPT ![h] = at]
    /\ lastError' = [lastError EXCEPT ![h] = TRUE]
    /\ UNCHANGED <<documents, state, stamp, chunks, vecVars, heldVars, sweepVars>>

\* The clock passes next_retry_at.
BackoffElapses(h) ==
    /\ retry[h] = "waiting"
    /\ retry' = [retry EXCEPT ![h] = "due"]
    /\ UNCHANGED <<documents, state, stamp, attempts, lastError, chunks,
                   vecVars, heldVars, sweepVars>>

\* A terminal row whose stamp differs from cur in some key cur names; a key
\* the row predates reads as NULL and differs.
Stale(h, cur) ==
    /\ state[h] \in Terminal
    /\ \E k \in DOMAIN cur : stamp[h][k] # cur[k]

\* ResetStale: those rows restart at discovered with a fresh retry budget;
\* their chunks and vectors stay until they are processed again.
ResetStale(cur) ==
    /\ state' = [h \in Hash |-> IF Stale(h, cur) THEN "discovered" ELSE state[h]]
    /\ attempts' = [h \in Hash |-> IF Stale(h, cur) THEN 0 ELSE attempts[h]]
    /\ retry' = [h \in Hash |-> IF Stale(h, cur) THEN "null" ELSE retry[h]]
    /\ lastError' = [h \in Hash |-> IF Stale(h, cur) THEN FALSE ELSE lastError[h]]
    /\ UNCHANGED <<documents, stamp, chunks, vecVars, heldVars, sweepVars>>

-----------------------------------------------------------------------------
(* SweepOrphans: pages of candidates read outside any transaction, each    *)
(* re-verified and deleted inside one.                                     *)

\* The EXISTS probe; nothing due, nothing done.
SweepBegin(scope) ==
    /\ sweepScope = NULL
    /\ sweepScope' = IF \E h \in Hash : Orphaned(h, scope) THEN scope ELSE NULL
    /\ sweepCursor' = 0
    /\ sweepPage' = {}
    /\ UNCHANGED <<rowVars, chunks, vecVars, heldVars>>

\* sweepCandidates: the next SweepBatch orphans beyond the cursor.
SweepPages ==
    LET beyond == {h \in Hash : h > sweepCursor /\ Orphaned(h, sweepScope)}
    IN  {page \in SUBSET beyond :
           /\ Cardinality(page) <= SweepBatch
           /\ Cardinality(page) = SweepBatch \/ page = beyond
           /\ \A a \in page, b \in beyond \ page : a < b}

SweepCollect ==
    /\ sweepScope # NULL
    /\ sweepPage = {}
    /\ \E page \in SweepPages :
         /\ sweepPage' = page
         /\ IF page = {} THEN sweepScope' = NULL /\ sweepCursor' = 0
            ELSE /\ sweepCursor' \in page
                 /\ \A h \in page : h <= sweepCursor'
                 /\ UNCHANGED sweepScope
    /\ UNCHANGED <<rowVars, chunks, vecVars, heldVars>>

\* A page trusted as it was read.
DoomedAsRead == {h \in sweepPage : Stored(h)}

\* verifyOrphans: the find that counts, under the delete's own lock.
Doomed == {h \in sweepPage : Orphaned(h, sweepScope)}

\* A sweep that stops at the first batch the re-verification thinned out.
LastBatchVerified == Cardinality(Doomed) < SweepBatch

\* A short page was the last one, whatever its re-verification left of it.
LastBatch == Cardinality(sweepPage) < SweepBatch

\* One batch: vectors first, then the rows, chunks by ON DELETE CASCADE.
SweepDelete ==
    /\ sweepPage # {}
    /\ vectors' = WithoutVectors(UNION {chunks[h] : h \in Doomed})
    /\ chunks' = [h \in Hash |-> IF h \in Doomed THEN {} ELSE chunks[h]]
    /\ state' = [h \in Hash |-> IF h \in Doomed THEN "none" ELSE state[h]]
    /\ stamp' = [h \in Hash |-> IF h \in Doomed THEN NoStamp ELSE stamp[h]]
    /\ attempts' = [h \in Hash |-> IF h \in Doomed THEN 0 ELSE attempts[h]]
    /\ retry' = [h \in Hash |-> IF h \in Doomed THEN "null" ELSE retry[h]]
    /\ lastError' = [h \in Hash |-> IF h \in Doomed THEN FALSE ELSE lastError[h]]
    /\ sweepPage' = {}
    /\ IF LastBatch
       THEN sweepScope' = NULL /\ sweepCursor' = 0
       ELSE UNCHANGED <<sweepScope, sweepCursor>>
    /\ UNCHANGED <<documents, tables, current, heldVars>>

\* A batch failed, or the process died: what was committed stays.
SweepAbort ==
    /\ sweepScope # NULL
    /\ sweepScope' = NULL
    /\ sweepCursor' = 0
    /\ sweepPage' = {}
    /\ UNCHANGED <<rowVars, chunks, vecVars, heldVars>>

-----------------------------------------------------------------------------
(* The open system: any caller, any call the code makes somewhere.         *)

DocBatch == UNION {[ps -> Hash \cup {Unread}] : ps \in SUBSET Path}

Versions == {cur \in UNION {[ks -> StageValue] : ks \in SUBSET StageKey} :
               \A k \in DOMAIN cur : cur[k] \in IF k = "build" THEN Build ELSE Dims}

FullStamps == {sv \in Stamps : sv["build"] \in Build /\ sv["embedding_dims"] \in Dims}

StoreNext ==
    \/ \E docs \in DocBatch : UpsertDocuments(docs)
    \/ \E paths \in SUBSET Path : DeleteDocuments(paths)
    \/ \E w \in Writer, h \in Hash, sv \in FullStamps, n \in 0..MaxChunks :
          StoreChunks(w, h, "chunked", sv, n)
    \/ \E w \in Writer, h \in Hash, sv \in FullStamps :
          StoreChunks(w, h, "failed", sv, 0)
    \/ \E w \in Writer, d \in Dims : UpsertVectors(w, d)
    \/ \E w \in Writer : ReleaseIds(w)
    \/ \E h \in Hash : UpdateContentState(h, "indexed")
    \/ \E h \in Hash : MarkFailed(h)
    \/ \E i \in Ident : EnsureVecTable(i)
    \/ \E h \in Hash, n \in 0..AttemptBound, at \in {"waiting", "due"} :
          Reschedule(h, n, at)
    \/ \E h \in Hash : BackoffElapses(h)
    \/ \E cur \in Versions : ResetStale(cur)
    \/ \E scope \in {"queue", "all"} : SweepBegin(scope)
    \/ SweepCollect
    \/ SweepDelete
    \/ SweepAbort

StoreSpec == StoreInit /\ [][StoreNext]_storeVars
-----------------------------------------------------------------------------
(* What the catalog promises whoever calls it.                             *)

\* The two foreign keys of the schema: a documents row points at a content
\* row, and chunks hang off one.  The sweep is what could break the first: it
\* reads its candidates outside the transaction that deletes them.
ForeignKeys ==
    /\ \A p \in Path : documents[p] \in Hash => Stored(documents[p])
    /\ \A h \in Hash : chunks[h] # {} => Stored(h)

\* vec0 tables have no foreign keys: no generation, current or superseded,
\* ever holds a rowid whose chunk is gone (UpsertVectors' liveness check and
\* deleteVectorsTx over every generation).
NoOrphanVectors ==
    \A i \in Ident : vectors[i] \subseteq LiveChunks

\* Ids a writer holds across an embed call can only ever name chunks of the
\* content they were stored for, so its vectors cannot attach to another
\* content's chunk (chunks.id is AUTOINCREMENT).
HeldIdsNameTheirContent ==
    \A w \in Writer, h \in Hash : held[w] \cap chunks[h] # {} => heldFor[w] = h

\* Failed content serves nothing, whichever of the two routes made it failed
\* (MarkFailed: "must leave identical state behind").
FailedServesNothing ==
    \A h \in Hash : state[h] = "failed" => chunks[h] = {}
=============================================================================
