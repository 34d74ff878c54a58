--------------------------- MODULE IndexerProofs ---------------------------
(***************************************************************************)
(* Theorems about the open catalog of module Store, for every set of       *)
(* paths, contents, builds, models, dimension counts and concurrent        *)
(* writers, and then about the daemon of module Indexer, whose every       *)
(* catalog access is a step of the open catalog, for every bound.          *)
(***************************************************************************)
EXTENDS Indexer, StoreHistory, FiniteSetTheorems, TLAPS

-----------------------------------------------------------------------------
(* The open catalog.                                                       *)

\* The inductive invariant: the catalog's promises need nothing but each
\* other.  FailedServesNothing is independent of the rest; the held ids carry
\* NoOrphanVectors across the embed call.
StoreInv ==
    /\ StoreTypeOK
    /\ ForeignKeys
    /\ NoOrphanVectors
    /\ HeldIdsNameTheirContent
    /\ FailedServesNothing

-----------------------------------------------------------------------------
\* What AUTOINCREMENT gives StoreChunks: ids that are chunks of nothing, rows
\* of no vector table and held by nobody.
LEMMA FreshIdsAreNew ==
    ASSUME NEW n \in Nat, NEW ids \in FreshIds(n)
    PROVE  /\ ids \in SUBSET ChunkId
           /\ IsFiniteSet(ids)
           /\ Cardinality(ids) = n
           /\ \A h \in Hash : ids \cap chunks[h] = {}
           /\ \A i \in Ident : ids \cap vectors[i] = {}
           /\ \A w \in Writer : ids \cap held[w] = {}
<1>1. /\ ids \in SUBSET (ChunkId \ Remembered)
      /\ IsFiniteSet(ids)
      /\ Cardinality(ids) = n
  BY DEF FreshIds, LeastIds
<1>2. \A h \in Hash : chunks[h] \subseteq Remembered
  BY DEF Remembered, LiveChunks
<1>3. \A i \in Ident : vectors[i] \subseteq Remembered
  BY DEF Remembered
<1>4. \A w \in Writer : held[w] \subseteq Remembered
  BY DEF Remembered
<1>. QED
  BY <1>1, <1>2, <1>3, <1>4

\* A chunk id is live exactly when some content has it.
LEMMA LiveChunksMember ==
    ASSUME NEW x
    PROVE  x \in LiveChunks <=> \E h \in Hash : x \in chunks[h]
  BY DEF LiveChunks

\* A full stage-version map is a stamp.
LEMMA FullStampsAreStamps == FullStamps \subseteq Stamps
  BY DEF FullStamps

\* The empty stamp is a stamp.
LEMMA NoStampIsAStamp == NoStamp \in Stamps
  BY DEF NoStamp, Stamps, StageValue

-----------------------------------------------------------------------------
\* Every transaction of any caller keeps every column in its type.
LEMMA StoreTypeStep == StoreTypeOK /\ [StoreNext]_storeVars => StoreTypeOK'
<1> SUFFICES ASSUME StoreTypeOK, [StoreNext]_storeVars
             PROVE  StoreTypeOK'
  OBVIOUS
<1> USE DEF StoreTypeOK
<1>1. ASSUME NEW docs \in DocBatch, UpsertDocuments(docs)
      PROVE  StoreTypeOK'
  <2>1. \A p \in DOMAIN docs : docs[p] \in Hash \cup {Unread}
    BY <1>1 DEF DocBatch
  <2>. QED
    BY <1>1, <2>1 DEF UpsertDocuments, ContentState, vecVars, heldVars, sweepVars
<1>2. ASSUME NEW paths \in SUBSET Path, DeleteDocuments(paths)
      PROVE  StoreTypeOK'
  BY <1>2 DEF DeleteDocuments, vecVars, heldVars, sweepVars
<1>3. ASSUME NEW w \in Writer, NEW h \in Hash, NEW sv \in FullStamps,
             NEW n \in Nat, NEW st \in {"chunked", "failed"},
             StoreChunks(w, h, st, sv, n)
      PROVE  StoreTypeOK'
  <2>1. PICK ids \in FreshIds(n) :
          /\ chunks' = [chunks EXCEPT ![h] = ids]
          /\ held' = [held EXCEPT ![w] = ids]
          /\ heldFor' = [heldFor EXCEPT ![w] = IF ids = {} THEN NULL ELSE h]
    BY <1>3 DEF StoreChunks
  <2>2. ids \in SUBSET ChunkId
    BY FreshIdsAreNew
  <2>3. vectors' \in [Ident -> SUBSET ChunkId]
    BY <1>3 DEF StoreChunks, WithoutVectors
  <2>. QED
    BY <1>3, <2>1, <2>2, <2>3, FullStampsAreStamps
    DEF StoreChunks, ContentState, sweepVars
<1>4. ASSUME NEW w \in Writer, NEW d \in Dims, UpsertVectors(w, d)
      PROVE  StoreTypeOK'
  BY <1>4 DEF UpsertVectors, rowVars, sweepVars
<1>5. ASSUME NEW w \in Writer, ReleaseIds(w)
      PROVE  StoreTypeOK'
  BY <1>5 DEF ReleaseIds, rowVars, vecVars, sweepVars
<1>6. ASSUME NEW h \in Hash, UpdateContentState(h, "indexed")
      PROVE  StoreTypeOK'
  BY <1>6 DEF UpdateContentState, ContentState, vecVars, heldVars, sweepVars
<1>7. ASSUME NEW h \in Hash, MarkFailed(h)
      PROVE  StoreTypeOK'
  BY <1>7 DEF MarkFailed, WithoutVectors, ContentState, heldVars, sweepVars
<1>8. ASSUME NEW i \in Ident, EnsureVecTable(i)
      PROVE  StoreTypeOK'
  BY <1>8 DEF EnsureVecTable, rowVars, heldVars, sweepVars
<1>9. ASSUME NEW h \in Hash, NEW n \in Nat, NEW at \in {"waiting", "due"},
             Reschedule(h, n, at)
      PROVE  StoreTypeOK'
  BY <1>9 DEF Reschedule, Retry, vecVars, heldVars, sweepVars
<1>10. ASSUME NEW h \in Hash, BackoffElapses(h)
       PROVE  StoreTypeOK'
  BY <1>10 DEF BackoffElapses, Retry, vecVars, heldVars, sweepVars
<1>11. ASSUME NEW cur \in Versions, ResetStale(cur)
       PROVE  StoreTypeOK'
  BY <1>11 DEF ResetStale, ContentState, Retry, vecVars, heldVars, sweepVars
<1>12. ASSUME NEW scope \in {"queue", "all"}, SweepBegin(scope)
       PROVE  StoreTypeOK'
  BY <1>12 DEF SweepBegin, rowVars, vecVars, heldVars
<1>13. ASSUME SweepCollect
       PROVE  StoreTypeOK'
  <2>1. PICK page \in SweepPages :
          /\ sweepPage' = page
          /\ IF page = {} THEN sweepScope' = NULL /\ sweepCursor' = 0
             ELSE /\ sweepCursor' \in page
                  /\ \A h \in page : h <= sweepCursor'
                  /\ UNCHANGED sweepScope
    BY <1>13 DEF SweepCollect
  <2>2. page \in SUBSET Hash
    BY DEF SweepPages
  <2>3. sweepScope' \in {NULL, "queue", "all"}
    BY <2>1
  <2>4. sweepCursor' \in Nat
    <3>1. sweepCursor' = 0 \/ sweepCursor' \in page
      BY <2>1
    <3>2. \A x \in page : x \in Nat
      BY <2>2, HashAssumption
    <3>. QED
      BY <3>1, <3>2
  <2>5. sweepPage' \in SUBSET Hash
    BY <2>1, <2>2
  <2>. QED
    BY <1>13, <2>3, <2>4, <2>5 DEF SweepCollect, rowVars, vecVars, heldVars
<1>14. ASSUME SweepDelete
       PROVE  StoreTypeOK'
  <2>1. vectors' \in [Ident -> SUBSET ChunkId]
    BY <1>14 DEF SweepDelete, WithoutVectors
  <2>2. sweepScope' \in {NULL, "queue", "all"} /\ sweepCursor' \in Nat
    BY <1>14 DEF SweepDelete
  <2>. QED
    BY <1>14, <2>1, <2>2, NoStampIsAStamp DEF SweepDelete, ContentState, Retry, heldVars
<1>15. ASSUME SweepAbort
       PROVE  StoreTypeOK'
  BY <1>15 DEF SweepAbort, rowVars, vecVars, heldVars
<1>16. ASSUME UNCHANGED storeVars
       PROVE  StoreTypeOK'
  BY <1>16 DEF storeVars, rowVars, vecVars, heldVars, sweepVars
<1>. QED
  BY <1>1, <1>2, <1>3, <1>4, <1>5, <1>6, <1>7, <1>8, <1>9, <1>10, <1>11,
     <1>12, <1>13, <1>14, <1>15, <1>16, BoundAssumption DEF StoreNext

\* The types of every column survive every transaction of any caller.
THEOREM StoreTypeCorrect == StoreSpec => []StoreTypeOK
<1>1. StoreInit => StoreTypeOK
  BY NoStampIsAStamp DEF StoreInit, StoreTypeOK, ContentState, Retry
<1>. QED
  BY <1>1, StoreTypeStep, PTL DEF StoreSpec

-----------------------------------------------------------------------------
\* One transaction keeps the promises, given the types and each other.
LEMMA StoreInvStep == StoreInv /\ [StoreNext]_storeVars => StoreInv'
<1> SUFFICES ASSUME StoreInv, [StoreNext]_storeVars
             PROVE  StoreInv'
  OBVIOUS
<1>0. StoreTypeOK'
  BY StoreTypeStep DEF StoreInv
<1> DEFINE Promises == /\ ForeignKeys
                       /\ NoOrphanVectors
                       /\ HeldIdsNameTheirContent
                       /\ FailedServesNothing
<1> USE DEF StoreInv, StoreTypeOK
\* Nothing the promises speak of changes.
<1>a. ASSUME UNCHANGED <<documents, state, chunks, vectors, held, heldFor>>
      PROVE  Promises'
  BY <1>a DEF ForeignKeys, NoOrphanVectors, HeldIdsNameTheirContent,
              FailedServesNothing, Stored, LiveChunks
<1>1. ASSUME NEW docs \in DocBatch, UpsertDocuments(docs)
      PROVE  Promises'
  <2>1. /\ UNCHANGED <<chunks, vectors, held, heldFor>>
        /\ \A h \in Hash : \/ state'[h] = state[h]
                           \/ state[h] = "none" /\ state'[h] = "discovered"
    BY <1>1 DEF UpsertDocuments, Stored, vecVars, heldVars
  <2>2. \A p \in DOMAIN docs : docs[p] \in Hash \cup {Unread}
    BY DEF DocBatch
  <2>3. ForeignKeys'
    BY <1>1, <2>1, <2>2, DocAssumption DEF UpsertDocuments, ForeignKeys, Stored
  <2>4. NoOrphanVectors' /\ HeldIdsNameTheirContent'
    BY <2>1 DEF NoOrphanVectors, HeldIdsNameTheirContent, LiveChunks
  <2>5. FailedServesNothing'
    BY <2>1 DEF FailedServesNothing
  <2>. QED
    BY <2>3, <2>4, <2>5
<1>2. ASSUME NEW paths \in SUBSET Path, DeleteDocuments(paths)
      PROVE  Promises'
  BY <1>2, DocAssumption
  DEF DeleteDocuments, ForeignKeys, NoOrphanVectors, HeldIdsNameTheirContent,
      FailedServesNothing, Stored, LiveChunks, vecVars, heldVars
\* Chunks replaced: the new ids are fresh, the old ones' vectors go with them.
<1>3. ASSUME NEW w \in Writer, NEW h \in Hash, NEW sv \in FullStamps,
             NEW n \in Nat, NEW st \in {"chunked", "failed"},
             st = "failed" => n = 0,
             StoreChunks(w, h, st, sv, n)
      PROVE  Promises'
  <2>1. PICK ids \in FreshIds(n) :
          /\ chunks' = [chunks EXCEPT ![h] = ids]
          /\ held' = [held EXCEPT ![w] = ids]
          /\ heldFor' = [heldFor EXCEPT ![w] = IF ids = {} THEN NULL ELSE h]
    BY <1>3 DEF StoreChunks
  <2>2. /\ documents' = documents
        /\ state' = [state EXCEPT ![h] = st]
        /\ vectors' = [i \in Ident |-> vectors[i] \ chunks[h]]
        /\ state[h] # "none"
    BY <1>3 DEF StoreChunks, WithoutVectors, Stored
  <2>3. ForeignKeys'
    BY <2>1, <2>2 DEF ForeignKeys, Stored
  <2>4. NoOrphanVectors'
    <3> SUFFICES ASSUME NEW i \in Ident, NEW x \in vectors'[i]
                 PROVE  x \in LiveChunks'
      BY DEF NoOrphanVectors
    <3>1. x \in vectors[i] /\ x \notin chunks[h]
      BY <2>2
    <3>2. PICK g \in Hash : x \in chunks[g]
      BY <3>1, LiveChunksMember DEF NoOrphanVectors
    <3>3. x \in chunks'[g]
      BY <2>1, <3>1, <3>2
    <3>. QED
      BY <3>3 DEF LiveChunks
  <2>5. HeldIdsNameTheirContent'
    <3> SUFFICES ASSUME NEW v \in Writer, NEW g \in Hash,
                        NEW x \in held'[v], x \in chunks'[g]
                 PROVE  heldFor'[v] = g
      BY DEF HeldIdsNameTheirContent
    <3>1. CASE v = w
      BY <2>1, <3>1, FreshIdsAreNew
    <3>2. CASE v # w
      BY <2>1, <3>2, FreshIdsAreNew DEF HeldIdsNameTheirContent
    <3>. QED
      BY <3>1, <3>2
  <2>6. FailedServesNothing'
    <3>1. st = "failed" => ids = {}
      BY <1>3, FreshIdsAreNew, FS_EmptySet
    <3>. QED
      BY <2>1, <2>2, <3>1 DEF FailedServesNothing
  <2>. QED
    BY <2>3, <2>4, <2>5, <2>6
<1>4. ASSUME NEW w \in Writer, NEW d \in Dims, UpsertVectors(w, d)
      PROVE  Promises'
  <2>1. /\ UNCHANGED <<documents, state, chunks>>
        /\ current \in Ident
        /\ held[w] \subseteq LiveChunks
        /\ vectors' = [vectors EXCEPT ![current] = @ \cup held[w]]
        /\ held' = [held EXCEPT ![w] = {}]
        /\ heldFor' = [heldFor EXCEPT ![w] = NULL]
    BY <1>4 DEF UpsertVectors, rowVars
  <2>2. LiveChunks' = LiveChunks
    BY <2>1 DEF LiveChunks
  <2>3. NoOrphanVectors'
    BY <2>1, <2>2 DEF NoOrphanVectors
  <2>. QED
    BY <2>1, <2>3
    DEF ForeignKeys, HeldIdsNameTheirContent, FailedServesNothing, Stored
<1>5. ASSUME NEW w \in Writer, ReleaseIds(w)
      PROVE  Promises'
  BY <1>5
  DEF ReleaseIds, ForeignKeys, NoOrphanVectors, HeldIdsNameTheirContent,
      FailedServesNothing, Stored, LiveChunks, rowVars, vecVars
<1>6. ASSUME NEW h \in Hash, UpdateContentState(h, "indexed")
      PROVE  Promises'
  BY <1>6
  DEF UpdateContentState, ForeignKeys, NoOrphanVectors, HeldIdsNameTheirContent,
      FailedServesNothing, Stored, LiveChunks, vecVars, heldVars
\* MarkFailed and SweepDelete both drop the chunks of a set of contents, in
\* every generation.
<1>7. ASSUME NEW D \in SUBSET Hash,
             UNCHANGED <<documents, held, heldFor>>,
             chunks' = [h \in Hash |-> IF h \in D THEN {} ELSE chunks[h]],
             vectors' = WithoutVectors(UNION {chunks[h] : h \in D})
      PROVE  NoOrphanVectors' /\ HeldIdsNameTheirContent'
  <2>1. NoOrphanVectors'
    <3> SUFFICES ASSUME NEW i \in Ident, NEW x \in vectors'[i]
                 PROVE  x \in LiveChunks'
      BY DEF NoOrphanVectors
    <3>1. x \in vectors[i] /\ \A h \in D : x \notin chunks[h]
      BY <1>7 DEF WithoutVectors
    <3>2. PICK g \in Hash : x \in chunks[g]
      BY <3>1, LiveChunksMember DEF NoOrphanVectors
    <3>3. x \in chunks'[g]
      BY <1>7, <3>1, <3>2
    <3>. QED
      BY <3>3 DEF LiveChunks
  <2>2. HeldIdsNameTheirContent'
    BY <1>7 DEF HeldIdsNameTheirContent
  <2>. QED
    BY <2>1, <2>2
<1>8. ASSUME NEW h \in Hash, MarkFailed(h)
      PROVE  Promises'
  <2>1. UNION {chunks[g] : g \in {h}} = chunks[h]
    OBVIOUS
  <2>0. {h} \in SUBSET Hash
    OBVIOUS
  <2>2. /\ UNCHANGED <<documents, held, heldFor>>
        /\ chunks' = [g \in Hash |-> IF g \in {h} THEN {} ELSE chunks[g]]
        /\ vectors' = WithoutVectors(UNION {chunks[g] : g \in {h}})
        /\ state' = [state EXCEPT ![h] = "failed"]
    BY <1>8, <2>1 DEF MarkFailed, heldVars
  <2>3. NoOrphanVectors' /\ HeldIdsNameTheirContent'
    BY <1>7, <2>0, <2>2, Zenon
  <2>4. ForeignKeys' /\ FailedServesNothing'
    BY <2>2 DEF ForeignKeys, FailedServesNothing, Stored
  <2>. QED
    BY <2>3, <2>4
<1>9. ASSUME NEW i \in Ident, EnsureVecTable(i)
      PROVE  Promises'
  BY <1>9, <1>a DEF EnsureVecTable, rowVars, heldVars
<1>10. ASSUME NEW h \in Hash, NEW n \in Nat, NEW at \in {"waiting", "due"},
              Reschedule(h, n, at)
       PROVE  Promises'
  BY <1>10, <1>a DEF Reschedule, vecVars, heldVars
<1>11. ASSUME NEW h \in Hash, BackoffElapses(h)
       PROVE  Promises'
  BY <1>11, <1>a DEF BackoffElapses, vecVars, heldVars
<1>12. ASSUME NEW cur \in Versions, ResetStale(cur)
       PROVE  Promises'
  BY <1>12
  DEF ResetStale, Stale, Terminal, ForeignKeys, NoOrphanVectors,
      HeldIdsNameTheirContent, FailedServesNothing, Stored, LiveChunks,
      vecVars, heldVars
<1>13. ASSUME NEW scope \in {"queue", "all"}, SweepBegin(scope)
       PROVE  Promises'
  BY <1>13, <1>a DEF SweepBegin, rowVars, vecVars, heldVars
<1>14. ASSUME SweepCollect
       PROVE  Promises'
  BY <1>14, <1>a DEF SweepCollect, rowVars, vecVars, heldVars
\* The re-verification inside the transaction is what keeps the foreign key.
<1>15. ASSUME SweepDelete
       PROVE  Promises'
  <2>1. /\ Doomed \in SUBSET Hash
        /\ UNCHANGED <<documents, held, heldFor>>
        /\ chunks' = [h \in Hash |-> IF h \in Doomed THEN {} ELSE chunks[h]]
        /\ vectors' = WithoutVectors(UNION {chunks[h] : h \in Doomed})
        /\ state' = [h \in Hash |-> IF h \in Doomed THEN "none" ELSE state[h]]
    BY <1>15 DEF SweepDelete, Doomed, heldVars
  <2>2. \A h \in Doomed, p \in Path : documents[p] # h
    BY DEF Doomed, Orphaned, PathsOf
  <2>3. NoOrphanVectors' /\ HeldIdsNameTheirContent'
    BY <1>7, <2>1
  <2>4. ForeignKeys' /\ FailedServesNothing'
    BY <2>1, <2>2 DEF ForeignKeys, FailedServesNothing, Stored
  <2>. QED
    BY <2>3, <2>4
<1>16. ASSUME SweepAbort
       PROVE  Promises'
  BY <1>16, <1>a DEF SweepAbort, rowVars, vecVars, heldVars
<1>17. ASSUME UNCHANGED storeVars
       PROVE  Promises'
  BY <1>17, <1>a DEF storeVars, rowVars, vecVars, heldVars
<1>18. Promises'
  BY <1>1, <1>2, <1>3, <1>4, <1>5, <1>6, <1>8, <1>9, <1>10, <1>11, <1>12,
     <1>13, <1>14, <1>15, <1>16, <1>17, BoundAssumption DEF StoreNext
<1>. QED
  BY <1>0, <1>18

\* Whoever calls the catalog, in whatever order: foreign keys hold, no vector
\* table has a rowid without its chunk, held ids name their own content, and
\* failed content serves nothing.
THEOREM StoreSafe == StoreSpec => []StoreInv
<1>1. StoreInit => StoreInv
  <2>1. StoreInit => StoreTypeOK
    BY NoStampIsAStamp DEF StoreInit, StoreTypeOK, ContentState, Retry
  <2>2. StoreInit => /\ ForeignKeys
                     /\ NoOrphanVectors
                     /\ HeldIdsNameTheirContent
                     /\ FailedServesNothing
    BY DocAssumption
    DEF StoreInit, ForeignKeys, NoOrphanVectors, HeldIdsNameTheirContent,
        FailedServesNothing, Stored, LiveChunks
  <2>. QED
    BY <2>1, <2>2 DEF StoreInv
<1>. QED
  BY <1>1, StoreInvStep, PTL DEF StoreSpec

\* Whoever calls: a path that has a hash has its content row, and chunks belong
\* to a stored content, although the sweep reads its candidates before it
\* deletes them.
THEOREM ReferencesHold == StoreSpec => []ForeignKeys
<1>1. StoreInv => ForeignKeys
  BY DEF StoreInv
<1>. QED
  BY <1>1, StoreSafe, PTL

\* No vector table, current or superseded, has a rowid whose chunk is gone.
THEOREM VectorsHaveChunks == StoreSpec => []NoOrphanVectors
<1>1. StoreInv => NoOrphanVectors
  BY DEF StoreInv
<1>. QED
  BY <1>1, StoreSafe, PTL

\* Chunk ids held across the embedding call never come to name a chunk of
\* another content.
THEOREM HeldIdsStayTheirs == StoreSpec => []HeldIdsNameTheirContent
<1>1. StoreInv => HeldIdsNameTheirContent
  BY DEF StoreInv
<1>. QED
  BY <1>1, StoreSafe, PTL

\* Failed content has neither chunks nor vectors, by either route to failed.
THEOREM FailedIsSilent == StoreSpec => []FailedServesNothing
<1>1. StoreInv => FailedServesNothing
  BY DEF StoreInv
<1>. QED
  BY <1>1, StoreSafe, PTL

-----------------------------------------------------------------------------
(* A sweep between other writers' transactions.                            *)

\* What sweepCandidates returns: all orphans beyond the cursor if there is room
\* on the page, and otherwise those before all the others.
LEMMA PageOfOrphans ==
    ASSUME NEW page \in SweepPages
    PROVE  /\ page \in SUBSET Hash
           /\ \A h \in Hash : Orphaned(h, sweepScope) /\ sweepCursor < h =>
                /\ h \in page \/ \A a \in page : a < h
                /\ page = {} \/ Cardinality(page) < SweepBatch => h \in page
<1>1. Cardinality({}) = 0 /\ SweepBatch \in Nat \ {0}
  BY FS_EmptySet, BoundAssumption
<1>2. \A h \in Hash : h \in Nat
  BY HashAssumption
<1> DEFINE beyond == {h \in Hash : h > sweepCursor /\ Orphaned(h, sweepScope)}
<1>3. /\ page \in SUBSET beyond
      /\ Cardinality(page) = SweepBatch \/ page = beyond
      /\ \A a \in page, b \in beyond \ page : a < b
  BY DEF SweepPages
<1>4. page = {} \/ Cardinality(page) < SweepBatch => page = beyond
  BY <1>1, <1>3
<1>5. \A h \in Hash : Orphaned(h, sweepScope) /\ sweepCursor < h => h \in beyond
  OBVIOUS
<1> HIDE DEF beyond
<1>. QED
  BY <1>3, <1>4, <1>5 DEF beyond

\* What the sweep owes is still to come or on the page in hand, and a short
\* page holds all of it: other writers may add orphans behind the cursor, but
\* none that the account counts.
OwedInv ==
    /\ owed \subseteq Hash
    /\ sweepScope = NULL => sweepPage = {} /\ owed = {}
    /\ \A h \in owed : /\ Orphaned(h, sweepScope)
                       /\ sweepCursor < h \/ h \in sweepPage
                       /\ sweepPage # {} /\ LastBatch => h \in sweepPage

\* A row in the account is an orphan of the sweep's scope after the step.
LEMMA OwedAfter ==
    ASSUME Account, sweepScope # NULL, sweepScope' # NULL, NEW h \in owed'
    PROVE  h \in owed /\ OrphanedNext(h, sweepScope)
  BY DEF Account

\* The primed predicate is the one the account evaluates.
LEMMA OrphanedAfter ==
    ASSUME NEW h \in Hash, OrphanedNext(h, sweepScope')
    PROVE  Orphaned(h, sweepScope)'
  BY DEF OrphanedNext, Orphaned, Stored, PathsOf

\* A transaction that is not the sweep's leaves the sweep where it was.
LEMMA OthersLeaveTheSweep ==
    ASSUME [StoreNext]_storeVars
    PROVE  \/ UNCHANGED sweepVars
           \/ \E scope \in {"queue", "all"} : SweepBegin(scope)
           \/ SweepCollect
           \/ SweepDelete
           \/ SweepAbort
<1>1. ASSUME NEW docs, UpsertDocuments(docs) PROVE UNCHANGED sweepVars
  BY <1>1 DEF UpsertDocuments
<1>2. ASSUME NEW paths, DeleteDocuments(paths) PROVE UNCHANGED sweepVars
  BY <1>2 DEF DeleteDocuments
<1>3. ASSUME NEW w, NEW h, NEW st, NEW sv, NEW n, StoreChunks(w, h, st, sv, n)
      PROVE  UNCHANGED sweepVars
  BY <1>3 DEF StoreChunks
<1>4. ASSUME NEW w, NEW d, UpsertVectors(w, d) PROVE UNCHANGED sweepVars
  BY <1>4 DEF UpsertVectors
<1>5. ASSUME NEW w, ReleaseIds(w) PROVE UNCHANGED sweepVars
  BY <1>5 DEF ReleaseIds
<1>6. ASSUME NEW h, NEW st, UpdateContentState(h, st) PROVE UNCHANGED sweepVars
  BY <1>6 DEF UpdateContentState
<1>7. ASSUME NEW h, MarkFailed(h) PROVE UNCHANGED sweepVars
  BY <1>7 DEF MarkFailed
<1>8. ASSUME NEW i, EnsureVecTable(i) PROVE UNCHANGED sweepVars
  BY <1>8 DEF EnsureVecTable
<1>9. ASSUME NEW h, NEW n, NEW at, Reschedule(h, n, at) PROVE UNCHANGED sweepVars
  BY <1>9 DEF Reschedule
<1>10. ASSUME NEW h, BackoffElapses(h) PROVE UNCHANGED sweepVars
  BY <1>10 DEF BackoffElapses
<1>11. ASSUME NEW cur, ResetStale(cur) PROVE UNCHANGED sweepVars
  BY <1>11 DEF ResetStale
<1>12. ASSUME UNCHANGED storeVars PROVE UNCHANGED sweepVars
  BY <1>12 DEF storeVars
<1>. QED
  BY <1>1, <1>2, <1>3, <1>4, <1>5, <1>6, <1>7, <1>8, <1>9, <1>10, <1>11, <1>12
  DEF StoreNext

\* A step of the sweep or of anybody else keeps the account.
LEMMA OwedStep ==
    ASSUME StoreTypeOK, OwedInv, [HistoryNext]_historyVars
    PROVE  OwedInv'
<1>. USE DEF OwedInv
<1>1. CASE UNCHANGED historyVars
  BY <1>1 DEF historyVars, storeVars, rowVars, sweepVars, Orphaned, Stored, PathsOf,
              LastBatch
<1>2. CASE HistoryNext
  <2>0. Account /\ [StoreNext]_storeVars
    BY <1>2 DEF HistoryNext
  <2>1. owed' \subseteq Hash
    BY <2>0 DEF Account
  <2>2. ASSUME sweepScope' = NULL, sweepPage' = {}
        PROVE  OwedInv'
    BY <2>0, <2>2 DEF Account
  <2>3. CASE UNCHANGED sweepVars
    <3>1. CASE sweepScope = NULL
      BY <2>2, <2>3, <3>1 DEF sweepVars
    <3>2. CASE sweepScope # NULL
      <4> SUFFICES ASSUME NEW h \in owed'
                   PROVE  /\ Orphaned(h, sweepScope)'
                          /\ sweepCursor' < h \/ h \in sweepPage'
                          /\ sweepPage' # {} /\ LastBatch' => h \in sweepPage'
        BY <2>1, <2>3, <3>2 DEF sweepVars
      <4>1. h \in owed /\ OrphanedNext(h, sweepScope)
        BY <2>0, <2>3, <3>2, OwedAfter DEF sweepVars
      <4>2. Orphaned(h, sweepScope)'
        BY <2>1, <2>3, <4>1, OrphanedAfter DEF sweepVars
      <4>. QED
        BY <2>3, <4>1, <4>2 DEF sweepVars, LastBatch
    <3>. QED
      BY <3>1, <3>2
  <2>4. CASE \E scope \in {"queue", "all"} : SweepBegin(scope)
    <3>1. sweepScope = NULL /\ sweepCursor' = 0 /\ sweepPage' = {}
      BY <2>4 DEF SweepBegin
    <3>2. CASE sweepScope' = NULL
      BY <2>2, <3>1, <3>2
    <3>3. CASE sweepScope' # NULL
      <4> SUFFICES ASSUME NEW h \in owed'
                   PROVE  Orphaned(h, sweepScope)' /\ sweepCursor' < h
        BY <2>1, <3>1, <3>3
      <4>1. h \in Hash /\ OrphanedNext(h, sweepScope')
        BY <2>0, <3>1 DEF Account
      <4>2. h \in Nat \ {0}
        BY <4>1, HashAssumption
      <4>. QED
        BY <3>1, <4>1, <4>2, OrphanedAfter
    <3>. QED
      BY <3>2, <3>3
  \* The next page starts where the last one ended, so nothing owed is passed.
  <2>5. CASE SweepCollect
    <3>1. PICK page \in SweepPages :
            /\ sweepPage' = page
            /\ IF page = {} THEN sweepScope' = NULL /\ sweepCursor' = 0
               ELSE /\ sweepCursor' \in page
                    /\ \A h \in page : h <= sweepCursor'
                    /\ UNCHANGED sweepScope
      BY <2>5 DEF SweepCollect
    <3>2. sweepScope # NULL /\ sweepPage = {}
      BY <2>5 DEF SweepCollect
    <3>3. CASE page = {}
      BY <2>2, <3>1, <3>3
    <3>4. CASE page # {}
      <4>1. sweepScope' = sweepScope /\ sweepCursor' \in page
        BY <3>1, <3>4
      <4> SUFFICES ASSUME NEW h \in owed'
                   PROVE  /\ Orphaned(h, sweepScope)'
                          /\ sweepCursor' < h \/ h \in page
                          /\ LastBatch' => h \in page
        BY <2>1, <3>1, <3>2, <4>1
      <4>2. h \in owed /\ OrphanedNext(h, sweepScope)
        BY <2>0, <3>2, <4>1, OwedAfter
      <4>3. h \in Hash /\ Orphaned(h, sweepScope) /\ sweepCursor < h
        BY <3>2, <4>2
      <4>4. /\ h \in page \/ \A a \in page : a < h
            /\ Cardinality(page) < SweepBatch => h \in page
        BY <4>3, PageOfOrphans
      <4>5. Orphaned(h, sweepScope)'
        BY <4>1, <4>2, <4>3, OrphanedAfter
      <4>. QED
        BY <3>1, <4>1, <4>4, <4>5 DEF LastBatch
    <3>. QED
      BY <3>3, <3>4
  \* What is owed and on the page is found again by the re-verification.
  <2>6. CASE SweepDelete
    <3>1. /\ sweepPage' = {} /\ sweepPage # {}
          /\ state' = [h \in Hash |-> IF h \in Doomed THEN "none" ELSE state[h]]
      BY <2>6 DEF SweepDelete
    <3>2. CASE LastBatch
      BY <2>2, <2>6, <3>1, <3>2 DEF SweepDelete
    <3>3. CASE ~LastBatch
      <4>1. sweepScope' = sweepScope /\ sweepCursor' = sweepCursor /\ sweepScope # NULL
        BY <2>6, <3>1, <3>3 DEF SweepDelete
      <4> SUFFICES ASSUME NEW h \in owed'
                   PROVE  Orphaned(h, sweepScope)' /\ sweepCursor' < h
        BY <2>1, <3>1, <4>1
      <4>2. h \in owed /\ OrphanedNext(h, sweepScope)
        BY <2>0, <4>1, OwedAfter
      <4>3. h \notin Doomed
        BY <2>1, <3>1, <4>2 DEF OrphanedNext
      <4>4. sweepCursor < h
        BY <4>2, <4>3 DEF Doomed
      <4>5. Orphaned(h, sweepScope)'
        BY <2>1, <4>1, <4>2, OrphanedAfter
      <4>. QED
        BY <4>1, <4>4, <4>5
    <3>. QED
      BY <3>2, <3>3
  <2>7. CASE SweepAbort
    BY <2>2, <2>7 DEF SweepAbort
  <2>. QED
    BY <2>0, <2>3, <2>4, <2>5, <2>6, <2>7, OthersLeaveTheSweep
<1>. QED
  BY <1>1, <1>2

\* Whatever other writers do between its pages, and between reading a page and
\* deleting it, a sweep that runs to its end has collected every row that was an
\* orphan of its scope when it began and ever since.
THEOREM SweepRunsToItsEnd == HistorySpec => SweepIsComplete
<1> DEFINE A == (SweepCollect \/ SweepDelete) /\ sweepScope' = NULL
                   => \A h \in owed : ~OrphanedNext(h, sweepScope)
<1>1. HistoryInit => StoreTypeOK /\ OwedInv
  BY NoStampIsAStamp
  DEF HistoryInit, StoreInit, StoreTypeOK, ContentState, Retry, OwedInv
<1>2. StoreTypeOK /\ [HistoryNext]_historyVars => StoreTypeOK'
  <2>1. [HistoryNext]_historyVars => [StoreNext]_storeVars
    BY DEF HistoryNext, historyVars
  <2>. QED
    BY <2>1, StoreTypeStep
<1>3. StoreTypeOK /\ OwedInv /\ [HistoryNext]_historyVars => OwedInv'
  BY OwedStep
<1>4. OwedInv /\ [HistoryNext]_historyVars => [A]_historyVars
  <2> SUFFICES ASSUME OwedInv, SweepCollect \/ SweepDelete, sweepScope' = NULL,
                      NEW h \in owed, OrphanedNext(h, sweepScope)
               PROVE  FALSE
    OBVIOUS
  <2>1. h \in Hash /\ Orphaned(h, sweepScope)
    BY DEF OwedInv
  <2>2. CASE SweepCollect
    <3>1. {} \in SweepPages /\ sweepPage = {}
      BY <2>2 DEF SweepCollect
    <3>2. sweepCursor < h
      BY <3>1 DEF OwedInv
    <3>. QED
      BY <2>1, <3>1, <3>2, PageOfOrphans
  <2>3. CASE SweepDelete
    <3>1. /\ sweepPage # {}
          /\ state' = [g \in Hash |-> IF g \in Doomed THEN "none" ELSE state[g]]
          /\ LastBatch \/ sweepScope = NULL
      BY <2>3 DEF SweepDelete
    <3>2. h \in sweepPage
      BY <3>1 DEF OwedInv
    <3>3. h \in Doomed
      BY <2>1, <3>2 DEF Doomed
    <3>. QED
      BY <2>1, <3>1, <3>3 DEF OrphanedNext
  <2>. QED
    BY <2>2, <2>3
<1>. QED
  BY <1>1, <1>2, <1>3, <1>4, PTL DEF HistorySpec, SweepIsComplete

-----------------------------------------------------------------------------
(* The daemon.                                                             *)

\* Where ProcessContent, retry and reschedule run.
ItemLabels == {"chunk", "embed", "final", "failing", "mark", "retry", "charge", "cap"}

\* What the program counter says about the drain's locals and the sweep.
Control ==
    /\ item # NULL => item \in Hash /\ pc \in ItemLabels
    /\ pc \in ItemLabels => item \in Hash
    /\ pc \in ItemLabels \cup {"item", "dims"} => drainDims \in Dims
    /\ sweepScope # NULL => pc = "sweeping"

ITypeOK == TypeOK /\ Control

-----------------------------------------------------------------------------
\* The stage versions of a prepared drain are a full stamp.
LEMMA StageVersionsAreFull ==
    ASSUME build \in Build, drainDims \in Dims
    PROVE  StageVersions \in FullStamps
  BY DEF StageVersions, FullStamps, Stamps, StageKey, StageValue

\* Discovery of one path is a catalog transaction.
LEMMA DiscoverIsAStep ==
    ASSUME TypeOK, NEW p \in Path, Discover(p)
    PROVE  StoreNext
<1>1. CASE Observed(p) = NoDoc
  <2>1. DeleteDocuments({p})
    BY <1>1 DEF Discover
  <2>2. {p} \in SUBSET Path
    OBVIOUS
  <2>. QED
    BY <2>1, <2>2 DEF StoreNext
<1>2. CASE Observed(p) # NoDoc
  <2>1. UpsertDocuments([q \in {p} |-> Observed(p)])
    BY <1>2 DEF Discover
  <2>2. Observed(p) \in Hash \cup {Unread}
    BY <1>2 DEF Observed, TypeOK, StoreTypeOK
  <2>3. [q \in {p} |-> Observed(p)] \in DocBatch
    <3>1. [q \in {p} |-> Observed(p)] \in [{p} -> Hash \cup {Unread}]
      BY <2>2
    <3>2. {p} \in SUBSET Path
      OBVIOUS
    <3>. QED
      BY <3>1, <3>2 DEF DocBatch
  <2>. QED
    BY <2>1, <2>3 DEF StoreNext
<1>. QED
  BY <1>1, <1>2

\* Every step of the daemon is a transaction of the open catalog, or leaves
\* the catalog alone.
LEMMA StepIsAStoreStep ==
    ASSUME ITypeOK, [Next]_vars
    PROVE  [StoreNext]_storeVars
<1> USE DEF ITypeOK
<1>1. ASSUME NEW p \in Path, WalkPath(p) \/ Reconcile(p)
      PROVE  StoreNext
  BY <1>1, DiscoverIsAStep DEF WalkPath, Reconcile
<1>2. CASE TakeSweep
  BY <1>2 DEF TakeSweep, StoreNext
<1>3. CASE SweepStep
  BY <1>3 DEF SweepStep, StoreNext
<1>4. CASE VersionSweep
  <2>1. StartVersions \in Versions
    BY DEF StartVersions, Versions, StageKey, StageValue, TypeOK
  <2>. QED
    BY <1>4, <2>1 DEF VersionSweep, StoreNext
<1>5. CASE DimsSweep
  <2>1. drainDims \in Dims
    BY <1>5 DEF DimsSweep, Control
  <2>2. DimsVersion \in Versions
    BY <2>1 DEF DimsVersion, Versions, StageKey, StageValue
  <2>. QED
    BY <1>5, <2>2 DEF DimsSweep, StoreNext
<1>6. CASE PrepareOK \/ RetryProbeOK
  <2>1. Generation \in Ident
    BY ModelAssumption DEF Generation, Ident, TypeOK
  <2>. QED
    BY <1>6, <2>1 DEF PrepareOK, RetryProbeOK, StoreNext
<1>7. CASE ChunkContent
  <2>1. item \in Hash /\ StageVersions \in FullStamps
    BY <1>7, StageVersionsAreFull DEF ChunkContent, Control, ItemLabels, TypeOK
  <2>2. PICK bytes \in ReadVerified \ Undecodable :
          StoreChunks(Me, item, "chunked", StageVersions, ChunkCount[bytes])
    BY <1>7 DEF ChunkContent
  <2>3. bytes \in Hash
    BY <2>1 DEF ReadVerified
  <2>4. ChunkCount[bytes] \in 0..MaxChunks
    BY <2>3, IndexerAssumption
  <2>. QED
    BY <2>1, <2>2, <2>4, IndexerAssumption DEF StoreNext
<1>8. CASE RecordFailure
  <2>1. item \in Hash /\ StageVersions \in FullStamps
    BY <1>8, StageVersionsAreFull DEF RecordFailure, Control, ItemLabels, TypeOK
  <2>. QED
    BY <1>8, <2>1, IndexerAssumption DEF RecordFailure, StoreNext
<1>9. CASE EmbedOK
  BY <1>9, IndexerAssumption DEF EmbedOK, StoreNext, TypeOK
<1>10. CASE EmbedWrongDims \/ EmbedTransient \/ EmbedRejected \/ StoreFails
  BY <1>10, IndexerAssumption
  DEF EmbedWrongDims, EmbedTransient, EmbedRejected, StoreFails, StoreNext
<1>11. CASE Finalize \/ GiveUp
  <2>1. item \in Hash
    BY <1>11 DEF Finalize, GiveUp, Control, ItemLabels
  <2>. QED
    BY <1>11, <2>1 DEF Finalize, GiveUp, StoreNext
<1>12. ASSUME NEW n \in Nat, NEW at \in {"waiting", "due"}, Reschedule(item, n, at),
              item \in Hash
       PROVE  StoreNext
  <2>1. n \in 0..AttemptBound
    BY <1>12, BoundAssumption DEF Reschedule
  <2>. QED
    BY <1>12, <2>1 DEF StoreNext
<1>13. CASE ContentChanged \/ Charge \/ ChargeLast
  <2>1. item \in Hash
    BY <1>13 DEF ContentChanged, Charge, ChargeLast, Control, ItemLabels
  <2>2. itemAttempts \in Nat /\ itemAttempts + 1 \in Nat
    BY DEF TypeOK
  <2>. QED
    BY <1>12, <1>13, <2>1, <2>2 DEF ContentChanged, Charge, ChargeLast
<1>14. CASE SweepFails
  BY <1>14 DEF SweepFails, StoreNext
<1>15. CASE Crash
  BY <1>15, IndexerAssumption DEF Crash, StoreNext
<1>16. ASSUME NEW h \in Hash, RetryDue(h)
       PROVE  StoreNext
  BY <1>16 DEF RetryDue, StoreNext
<1>17. CASE \/ Start \/ WakeToWalk \/ WakeNoWalk \/ WalkDone \/ WalkFails
            \/ ReconcileFails \/ SweepDone \/ Gate \/ Claim \/ PrepareFails
            \/ Prepared \/ BatchDone \/ (\E h \in Hash : GetWork(h))
            \/ NormalizeFails \/ ContentUnreadable \/ RetryProbeFails \/ EnsureFails
  BY <1>17 DEF Start, WakeToWalk, WakeNoWalk, WalkDone, WalkFails, ReconcileFails,
     SweepDone, Gate, Claim, PrepareFails, Prepared, BatchDone, GetWork,
     NormalizeFails, ContentUnreadable, RetryProbeFails, EnsureFails
<1>18. CASE \/ (\E p \in Path, v \in Hash \cup {Absent, Denied, Placeholder} : Edit(p, v))
            \/ (\E p \in Path : EventArrives(p)) \/ EndpointDown \/ EndpointUp
            \/ EndpointDrifts \/ Unplug \/ PlugIn \/ ProbeDue
  BY <1>18 DEF Edit, EventArrives, EndpointDown, EndpointUp, EndpointDrifts,
     Unplug, PlugIn, ProbeDue
<1>19. CASE UNCHANGED vars
  BY <1>19 DEF vars
<1>. QED
  BY <1>1, <1>2, <1>3, <1>4, <1>5, <1>6, <1>7, <1>8, <1>9, <1>10, <1>11, <1>13,
     <1>14, <1>15, <1>16, <1>17, <1>18, <1>19
  DEF Next, Work, Failure, World

\* The Boolean flags stay Boolean.
LEMMA FlagsStep ==
    ASSUME FlagsOK, [Next]_vars
    PROVE  FlagsOK'
<1> USE DEF FlagsOK
<1>1. CASE UNCHANGED <<envVars, flags>>
  BY <1>1 DEF envVars, flags
<1>2. CASE \/ Start \/ WalkFails \/ ReconcileFails \/ SweepStep \/ SweepDone \/ Claim
           \/ PrepareOK \/ Prepared \/ BatchDone \/ (\E h \in Hash : GetWork(h))
           \/ ChunkContent \/ NormalizeFails \/ ContentChanged \/ ContentUnreadable
           \/ EmbedOK \/ EmbedWrongDims \/ EmbedTransient \/ EmbedRejected
           \/ Finalize \/ RecordFailure \/ GiveUp \/ RetryProbeOK
           \/ RetryProbeFails \/ Charge \/ ChargeLast \/ StoreFails
           \/ (\E h \in Hash : RetryDue(h)) \/ UNCHANGED vars
  BY <1>1, <1>2 DEF Start, WalkFails, ReconcileFails, SweepStep, SweepDone, Claim,
     PrepareOK, Prepared, BatchDone, GetWork, ChunkContent, NormalizeFails,
     ContentChanged, ContentUnreadable, EmbedOK, EmbedWrongDims, EmbedTransient,
     EmbedRejected, Finalize, RecordFailure, GiveUp, RetryProbeOK, RetryProbeFails,
     Charge, ChargeLast, StoreFails, RetryDue, procVars, vars
<1>3. CASE WakeToWalk \/ WakeNoWalk \/ Gate
  BY <1>3, Zenon DEF WakeToWalk, WakeNoWalk, Gate, envVars
<1>4. CASE WalkDone \/ TakeSweep
  BY <1>4, Zenon DEF WalkDone, TakeSweep, envVars
<1>5. ASSUME NEW p \in Path, WalkPath(p) \/ Reconcile(p)
      PROVE  FlagsOK'
  BY <1>5, Zenon DEF WalkPath, Reconcile, Discover, envVars
<1>6. CASE SweepFails
  BY <1>6, Zenon DEF SweepFails, envVars
<1>7. CASE VersionSweep \/ DimsSweep
  BY <1>7, Zenon DEF VersionSweep, DimsSweep, envVars
<1>8. CASE PrepareFails \/ EnsureFails
  BY <1>8, Zenon DEF PrepareFails, EnsureFails, envVars
<1>9. CASE Crash
  BY <1>9, Zenon DEF Crash, envVars
<1>10. ASSUME NEW p \in Path, NEW v \in Hash \cup {Absent, Denied, Placeholder},
              Edit(p, v) \/ EventArrives(p)
       PROVE  FlagsOK'
  BY <1>10, Zenon DEF Edit, EventArrives, procVars, flags
<1>11. CASE EndpointDown \/ EndpointUp \/ EndpointDrifts
  BY <1>11, Zenon DEF EndpointDown, EndpointUp, EndpointDrifts, procVars, flags
<1>12. CASE Unplug \/ PlugIn \/ ProbeDue
  BY <1>12, Zenon DEF Unplug, PlugIn, ProbeDue, envVars, procVars, flags
<1>. QED
  BY <1>2, <1>3, <1>4, <1>5, <1>6, <1>7, <1>8, <1>9, <1>10, <1>11, <1>12
  DEF Next, Work, Failure, World

\* Types and control are kept together: the type of what an item's step writes
\* rests on which labels have an item.
LEMMA ITypeStep ==
    ASSUME ITypeOK, [Next]_vars
    PROVE  ITypeOK'
<1>0. StoreTypeOK' /\ FlagsOK'
  BY StepIsAStoreStep, StoreTypeStep, FlagsStep DEF ITypeOK, TypeOK
<1> USE DEF ITypeOK, TypeOK, Control, Labels, ItemLabels
<1>1. CASE Start \/ WakeToWalk \/ WakeNoWalk \/ WalkDone \/ WalkFails
  BY <1>0, <1>1 DEF Start, WakeToWalk, WakeNoWalk, WalkDone, WalkFails, storeVars,
     rowVars, vecVars, heldVars, sweepVars, envVars, counters, flags, drainVars
<1>2. ASSUME NEW p \in Path, WalkPath(p) \/ Reconcile(p)
      PROVE  ITypeOK'
  BY <1>0, <1>2 DEF WalkPath, Reconcile, Discover, DeleteDocuments, UpsertDocuments,
     Reconciles, vecVars, heldVars, sweepVars, envVars, counters, flags, drainVars
<1>3. CASE ReconcileFails \/ TakeSweep \/ SweepDone \/ SweepFails \/ Gate
  BY <1>0, <1>3 DEF ReconcileFails, TakeSweep, SweepDone, SweepFails, Gate,
     SweepBegin, SweepAbort, Reconciles, storeVars, rowVars, vecVars, heldVars,
     sweepVars, envVars, counters, flags, drainVars
<1>4. CASE SweepStep
  BY <1>0, <1>4 DEF SweepStep, envVars, counters, procVars, flags, drainVars
<1>5. CASE VersionSweep \/ DimsSweep
  BY <1>0, <1>5 DEF VersionSweep, DimsSweep, ResetStale, vecVars, heldVars,
     sweepVars, envVars, counters, flags, drainVars
<1>6. CASE Claim \/ Prepared \/ BatchDone
  BY <1>0, <1>6 DEF Claim, Claims, Unseen, Prepared, BatchDone, EndDrain, storeVars,
     rowVars, vecVars, heldVars, sweepVars, envVars, counters, flags, drainVars
<1>7. CASE PrepareOK \/ PrepareFails \/ EnsureFails
  BY <1>0, <1>7 DEF PrepareOK, PrepareFails, EnsureFails, EnsureVecTable, EndDrain,
     storeVars, rowVars, vecVars, heldVars, sweepVars, envVars, counters, flags,
     drainVars
<1>8. ASSUME NEW h \in Hash, GetWork(h)
      PROVE  ITypeOK'
  BY <1>0, <1>8 DEF GetWork, StoreTypeOK, storeVars, rowVars, vecVars, heldVars,
     sweepVars, envVars, counters, flags, drainVars
<1>9. CASE ChunkContent \/ RecordFailure
  BY <1>0, <1>9 DEF ChunkContent, RecordFailure, StoreChunks, vecVars, heldVars,
     sweepVars, envVars, counters, flags, drainVars
<1>10. CASE NormalizeFails \/ ContentUnreadable \/ RetryProbeFails
  BY <1>0, <1>10 DEF NormalizeFails, ContentUnreadable, RetryProbeFails, EndItem,
     EndDrain, storeVars, rowVars, vecVars, heldVars, sweepVars, envVars, counters,
     flags, drainVars
<1>11. CASE ContentChanged \/ Charge \/ ChargeLast
  BY <1>0, <1>11 DEF ContentChanged, Charge, ChargeLast, Reschedule, EndItem,
     vecVars, heldVars, sweepVars, envVars, counters, flags, drainVars
<1>12. CASE EmbedOK \/ EmbedWrongDims \/ EmbedTransient \/ EmbedRejected
  BY <1>0, <1>12 DEF EmbedOK, EmbedWrongDims, EmbedTransient, EmbedRejected,
     UpsertVectors, ReleaseIds, EndDrain, vecVars, heldVars, sweepVars, envVars,
     counters, flags, drainVars
<1>13. CASE Finalize \/ GiveUp \/ RetryProbeOK
  BY <1>0, <1>13 DEF Finalize, GiveUp, RetryProbeOK, UpdateContentState, MarkFailed,
     EnsureVecTable, EndItem, vecVars, heldVars, sweepVars, envVars, counters, flags,
     drainVars
<1>14. CASE StoreFails \/ Crash
  BY <1>0, <1>14 DEF StoreFails, Crash, ReleaseIds, SweepAbort, EndDrain, vecVars,
     heldVars, sweepVars, envVars, counters, flags, drainVars
<1>15. ASSUME NEW p \in Path, NEW v \in Hash \cup {Absent, Denied, Placeholder},
              Edit(p, v) \/ EventArrives(p)
       PROVE  ITypeOK'
  BY <1>0, <1>15 DEF Edit, EventArrives, storeVars, rowVars, vecVars, heldVars,
     sweepVars, envVars, counters, procVars, flags, drainVars
<1>16. CASE EndpointDown \/ EndpointUp \/ EndpointDrifts \/ Unplug \/ PlugIn \/ ProbeDue
  BY <1>0, <1>16 DEF EndpointDown, EndpointUp, EndpointDrifts, Unplug, PlugIn,
     ProbeDue, storeVars, rowVars, vecVars, heldVars, sweepVars, envVars, counters,
     procVars, flags, drainVars
<1>17. ASSUME NEW h \in Hash, RetryDue(h)
       PROVE  ITypeOK'
  BY <1>0, <1>17 DEF RetryDue, BackoffElapses, sweepVars, envVars, counters,
     procVars, flags, drainVars
<1>18. CASE UNCHANGED vars
  BY <1>0, <1>18 DEF vars, storeVars, rowVars, vecVars, heldVars, sweepVars, envVars,
     counters, procVars, flags, drainVars
<1>. QED
  BY <1>1, <1>2, <1>3, <1>4, <1>5, <1>6, <1>7, <1>8, <1>9, <1>10, <1>11, <1>12,
     <1>13, <1>14, <1>15, <1>16, <1>17, <1>18
  DEF Next, Work, Failure, World

-----------------------------------------------------------------------------
\* Indexer.Init is a state of an empty catalog with nothing in flight.
LEMMA InitIsTyped == Init => ITypeOK /\ StoreInit
<1> SUFFICES ASSUME Init PROVE ITypeOK
  BY DEF Init
<1>1. StoreTypeOK
  BY NoStampIsAStamp DEF Init, StoreInit, StoreTypeOK, ContentState, Retry
<1>2. FlagsOK
  BY DEF Init, FlagsOK
<1>. QED
  BY <1>1, <1>2, NullAssumption
  DEF ITypeOK, TypeOK, Control, Init, StoreInit, Labels, ItemLabels

\* The daemon's types, and what its program counter says of its locals: an
\* item is in the pipeline exactly while ProcessContent or the retry decision
\* runs, under a prepared drain, and never while a sweep is in progress.
THEOREM TypeCorrect == Spec => []TypeOK
<1>1. ITypeOK /\ [Next]_vars => ITypeOK'
  BY ITypeStep
<1>2. ITypeOK => TypeOK
  BY DEF ITypeOK
<1>. QED
  BY <1>1, <1>2, InitIsTyped, PTL DEF Spec

\* The daemon is one particular caller of the catalog: whatever it does, it
\* does through the catalog's transactions, called as the catalog allows.
THEOREM RefinesStore == Spec => StoreSpec
<1>1. ITypeOK /\ [Next]_vars => ITypeOK'
  BY ITypeStep
<1>2. ITypeOK /\ [Next]_vars => [StoreNext]_storeVars
  BY StepIsAStoreStep
<1>. QED
  BY <1>1, <1>2, InitIsTyped, PTL DEF Spec, StoreSpec

-----------------------------------------------------------------------------
(* One item through the pipeline.                                          *)

\* What holds of the item at each label, and of every row it has left behind.
ItemInv ==
    /\ ProcessingIsUndisturbed
    /\ pc \in {"embed", "final"} => /\ state[item] = "chunked"
                                   /\ stamp[item] = StageVersions
    /\ pc \in {"mark", "retry", "charge", "cap"} => stamp[item] \in FullStamps
    /\ \A h \in Hash : state[h] \in Terminal => stamp[h] \in FullStamps
    /\ ChunksAreOfTheBytes

LEMMA ItemStep ==
    ASSUME ITypeOK, ITypeOK', ItemInv, [Next]_vars
    PROVE  ItemInv'
<1> USE DEF ITypeOK, TypeOK, Control, ItemLabels
<1>0. NULL \notin Hash
  BY NullAssumption
\* Between items nothing is at risk but the rows.
<1>a. ASSUME UNCHANGED <<state, stamp, chunks>>, item' = NULL
      PROVE  ItemInv'
  BY <1>0, <1>a DEF ItemInv, ProcessingIsUndisturbed, ChunksAreOfTheBytes
\* The world moves while the goroutine stands still.
<1>b. ASSUME UNCHANGED <<documents, state, stamp, chunks, held, pc, item, build,
                         drainDims>>
      PROVE  ItemInv'
  BY <1>b DEF ItemInv, ProcessingIsUndisturbed, ChunksAreOfTheBytes, Stored, PathsOf,
     StageVersions
<1>1. CASE \/ Start \/ WakeToWalk \/ WakeNoWalk \/ WalkDone \/ WalkFails
           \/ ReconcileFails \/ TakeSweep \/ SweepDone \/ SweepFails \/ Gate \/ Claim
           \/ PrepareOK \/ PrepareFails \/ EnsureFails \/ Prepared \/ BatchDone
  <2>1. UNCHANGED <<state, stamp, chunks>>
    BY <1>1 DEF Start, WakeToWalk, WakeNoWalk, WalkDone, WalkFails, ReconcileFails,
       TakeSweep, SweepDone, SweepFails, Gate, Claim, PrepareOK, PrepareFails,
       EnsureFails, Prepared, BatchDone, SweepBegin, SweepAbort, EnsureVecTable,
       storeVars, rowVars
  <2>2. item' = NULL
    BY <1>1 DEF Start, WakeToWalk, WakeNoWalk, WalkDone, WalkFails, ReconcileFails,
       Reconciles, TakeSweep, SweepDone, SweepFails, Gate, Claim, PrepareOK,
       PrepareFails, EnsureFails, Prepared, BatchDone, EndDrain, drainVars
  <2>. QED
    BY <1>a, <2>1, <2>2
<1>2. ASSUME NEW p \in Path, WalkPath(p) \/ Reconcile(p)
      PROVE  ItemInv'
  <2>1. item' = NULL
    BY <1>2 DEF WalkPath, Reconcile, Reconciles, drainVars
  <2>2. /\ UNCHANGED <<stamp, chunks>>
        /\ \A h \in Hash : state'[h] = state[h] \/ state'[h] = "discovered"
    BY <1>2 DEF WalkPath, Reconcile, Discover, DeleteDocuments, UpsertDocuments
  <2>. QED
    BY <1>0, <2>1, <2>2
    DEF ItemInv, ProcessingIsUndisturbed, ChunksAreOfTheBytes, Terminal
<1>3. CASE SweepStep
  <2>1. item' = NULL
    BY <1>3 DEF SweepStep, procVars, drainVars
  <2>2. \A h \in Hash : \/ /\ state'[h] = state[h]
                           /\ stamp'[h] = stamp[h]
                           /\ chunks'[h] = chunks[h]
                        \/ state'[h] = "none"
    BY <1>3 DEF SweepStep, SweepCollect, SweepDelete, rowVars
  <2>. QED
    BY <1>0, <2>1, <2>2
    DEF ItemInv, ProcessingIsUndisturbed, ChunksAreOfTheBytes, Terminal
<1>4. CASE VersionSweep \/ DimsSweep
  <2>1. item' = NULL
    BY <1>4 DEF VersionSweep, DimsSweep, drainVars
  <2>2. /\ UNCHANGED <<stamp, chunks>>
        /\ \A h \in Hash : state'[h] = state[h] \/ state'[h] = "discovered"
    BY <1>4 DEF VersionSweep, DimsSweep, ResetStale
  <2>. QED
    BY <1>0, <2>1, <2>2
    DEF ItemInv, ProcessingIsUndisturbed, ChunksAreOfTheBytes, Terminal
<1>5. ASSUME NEW h \in Hash, GetWork(h)
      PROVE  ItemInv'
  BY <1>5 DEF GetWork, HasWork, ItemInv, ProcessingIsUndisturbed,
     ChunksAreOfTheBytes, Stored, PathsOf, StageVersions, storeVars, rowVars, heldVars
<1>6. CASE ChunkContent
  <2>1. PICK bytes \in ReadVerified \ Undecodable :
          /\ StoreChunks(Me, item, "chunked", StageVersions, ChunkCount[bytes])
          /\ pc' = IF ChunkCount[bytes] = 0 THEN "final" ELSE "embed"
    BY <1>6 DEF ChunkContent
  <2>2. item \in Hash /\ bytes = item
    BY <1>6, <2>1 DEF ChunkContent, ReadVerified
  <2>3. PICK ids \in FreshIds(ChunkCount[item]) :
          /\ chunks' = [chunks EXCEPT ![item] = ids]
          /\ held' = [held EXCEPT ![Me] = ids]
    BY <2>1, <2>2 DEF StoreChunks
  <2>4. ChunkCount[item] \in Nat
    BY <2>2, IndexerAssumption, BoundAssumption
  <2>5. Cardinality(ids) = ChunkCount[item]
    BY <2>3, <2>4, FreshIdsAreNew
  <2>6. /\ state' = [state EXCEPT ![item] = "chunked"]
        /\ stamp' = [stamp EXCEPT ![item] = StageVersions]
        /\ UNCHANGED <<documents, item, build, drainDims>>
    BY <1>6, <2>1 DEF ChunkContent, StoreChunks, drainVars
  <2>7. chunks'[item] = ids /\ held'[Me] = ids
    BY <2>2, <2>3, IndexerAssumption DEF StoreTypeOK
  <2>8. /\ state'[item] = "chunked"
        /\ stamp'[item] = StageVersions
        /\ \A h \in Hash \ {item} : /\ state'[h] = state[h]
                                    /\ stamp'[h] = stamp[h]
                                    /\ chunks'[h] = chunks[h]
    BY <2>2, <2>3, <2>6 DEF StoreTypeOK
  <2>9. StageVersions' = StageVersions
    BY <2>6 DEF StageVersions
  <2>10. ProcessingIsUndisturbed'
    BY <2>2, <2>6, <2>7, <2>8, <1>6
    DEF ItemInv, ProcessingIsUndisturbed, Stored, PathsOf, ChunkContent
  <2>11. ChunksAreOfTheBytes'
    BY <2>5, <2>7, <2>8 DEF ItemInv, ChunksAreOfTheBytes
  <2>12. \A h \in Hash : state'[h] \in Terminal => stamp'[h] \in FullStamps
    BY <2>8 DEF ItemInv, Terminal
  <2>. QED
    BY <2>1, <2>6, <2>8, <2>9, <2>10, <2>11, <2>12 DEF ItemInv, FullStamps, Stamps
<1>7. CASE RecordFailure
  <2>1. item \in Hash /\ StageVersions \in FullStamps
    BY <1>7, StageVersionsAreFull DEF RecordFailure
  <2>2. /\ state' = [state EXCEPT ![item] = "failed"]
        /\ stamp' = [stamp EXCEPT ![item] = StageVersions]
        /\ \A h \in Hash \ {item} : chunks'[h] = chunks[h]
        /\ pc' = "mark"
        /\ UNCHANGED <<documents, item, build, drainDims>>
    BY <1>7 DEF RecordFailure, StoreChunks, StoreTypeOK, drainVars
  <2>. QED
    BY <1>7, <2>1, <2>2 DEF RecordFailure, ItemInv, ProcessingIsUndisturbed,
       ChunksAreOfTheBytes, Stored, PathsOf, StoreTypeOK
<1>8. CASE NormalizeFails \/ EmbedTransient \/ EmbedRejected \/ RetryProbeOK \/ ChargeLast
  <2>1. /\ UNCHANGED <<documents, state, stamp, chunks, item, build, drainDims>>
        /\ pc' \in {"failing", "retry", "charge", "cap"}
        /\ pc' = "retry" => pc = "embed"
        /\ pc' = "charge" => pc = "retry"
        /\ pc' = "cap" => pc = "charge"
    BY <1>8 DEF NormalizeFails, EmbedTransient, EmbedRejected, RetryProbeOK, ChargeLast,
       ReleaseIds, EnsureVecTable, Reschedule, storeVars, rowVars, drainVars
  <2>2. pc = "embed" => StageVersions \in FullStamps
    BY StageVersionsAreFull
  <2>. QED
    BY <2>1, <2>2 DEF ItemInv, ProcessingIsUndisturbed, ChunksAreOfTheBytes, Stored,
       PathsOf
<1>9. CASE EmbedOK
  BY <1>9 DEF EmbedOK, UpsertVectors, ItemInv, ProcessingIsUndisturbed,
     ChunksAreOfTheBytes, Stored, PathsOf, StageVersions, rowVars, drainVars
<1>10. CASE Finalize
  <2>1. item \in Hash /\ state[item] = "chunked" /\ stamp[item] \in FullStamps
    BY <1>10, StageVersionsAreFull DEF Finalize, ItemInv
  <2>2. /\ item' = NULL
        /\ state' = [state EXCEPT ![item] = "indexed"]
        /\ UNCHANGED <<stamp, chunks>>
    BY <1>10 DEF Finalize, UpdateContentState, EndItem
  <2>. QED
    BY <1>0, <2>1, <2>2 DEF ItemInv, ProcessingIsUndisturbed, ChunksAreOfTheBytes,
       StoreTypeOK
<1>11. CASE GiveUp
  <2>1. item \in Hash /\ stamp[item] \in FullStamps
    BY <1>11 DEF GiveUp, ItemInv
  <2>2. /\ item' = NULL
        /\ state' = [state EXCEPT ![item] = "failed"]
        /\ \A h \in Hash \ {item} : chunks'[h] = chunks[h]
        /\ UNCHANGED stamp
    BY <1>11 DEF GiveUp, MarkFailed, EndItem, StoreTypeOK
  <2>. QED
    BY <1>0, <2>1, <2>2 DEF ItemInv, ProcessingIsUndisturbed, ChunksAreOfTheBytes,
       StoreTypeOK
<1>12. CASE \/ ContentChanged \/ ContentUnreadable \/ EmbedWrongDims \/ RetryProbeFails
            \/ Charge \/ StoreFails \/ Crash
  BY <1>12, <1>a DEF ContentChanged, ContentUnreadable, EmbedWrongDims, RetryProbeFails,
     Charge, StoreFails, Crash, Reschedule, ReleaseIds, SweepAbort, EndItem, EndDrain,
     storeVars, rowVars
<1>13. ASSUME NEW p \in Path, NEW v \in Hash \cup {Absent, Denied, Placeholder},
              Edit(p, v) \/ EventArrives(p)
       PROVE  ItemInv'
  BY <1>13, <1>b DEF Edit, EventArrives, storeVars, rowVars, heldVars, procVars,
     drainVars
<1>14. CASE EndpointDown \/ EndpointUp \/ EndpointDrifts \/ Unplug \/ PlugIn \/ ProbeDue
  BY <1>14, <1>b DEF EndpointDown, EndpointUp, EndpointDrifts, Unplug, PlugIn,
     ProbeDue, storeVars, rowVars, heldVars, procVars, drainVars
<1>15. ASSUME NEW h \in Hash, RetryDue(h)
       PROVE  ItemInv'
  BY <1>15, <1>b DEF RetryDue, BackoffElapses, heldVars, procVars, drainVars
<1>16. CASE UNCHANGED vars
  BY <1>16, <1>b DEF vars, storeVars, rowVars, heldVars, procVars, drainVars
<1>. QED
  BY <1>1, <1>2, <1>3, <1>4, <1>5, <1>6, <1>7, <1>8, <1>9, <1>10, <1>11, <1>12,
     <1>13, <1>14, <1>15, <1>16
  DEF Next, Work, Failure, World

\* Nothing is in the pipeline and no row exists.
LEMMA InitItem == Init => ItemInv
  BY NullAssumption DEF Init, StoreInit, ItemInv, ProcessingIsUndisturbed, ChunksAreOfTheBytes,
     Terminal

\* While an item is in the pipeline its row stays, some path keeps referring to
\* it, and the ids being embedded are its chunks: the single-writer invariant
\* of ADR 0014, so ProcessContent meets neither ErrContentGone nor
\* ErrContentSuperseded.
THEOREM SingleWriter == Spec => []ProcessingIsUndisturbed
<1>1. ITypeOK /\ ItemInv /\ [Next]_vars => ITypeOK' /\ ItemInv'
  BY ITypeStep, ItemStep
<1>2. ItemInv => ProcessingIsUndisturbed
  BY DEF ItemInv
<1>. QED
  BY <1>1, <1>2, InitIsTyped, InitItem, PTL DEF Spec

\* Every terminal row, indexed or failed by either route, carries the stage
\* versions a later configuration compares it with.
THEOREM TerminalStamped == Spec => []TerminalIsStamped
<1>1. ITypeOK /\ ItemInv /\ [Next]_vars => ITypeOK' /\ ItemInv'
  BY ITypeStep, ItemStep
<1>2. ItemInv => TerminalIsStamped
  BY NullAssumption DEF ItemInv, TerminalIsStamped, FullStamps
<1>. QED
  BY <1>1, <1>2, InitIsTyped, InitItem, PTL DEF Spec

\* Chunks stored under a hash were cut from the bytes with that hash.
THEOREM ChunksOfTheBytes == Spec => []ChunksAreOfTheBytes
<1>1. ITypeOK /\ ItemInv /\ [Next]_vars => ITypeOK' /\ ItemInv'
  BY ITypeStep, ItemStep
<1>2. ItemInv => ChunksAreOfTheBytes
  BY DEF ItemInv
<1>. QED
  BY <1>1, <1>2, InitIsTyped, InitItem, PTL DEF Spec

\* What the catalog promises any caller, it promises the daemon.
THEOREM CatalogSafe == Spec => [](ForeignKeys /\ NoOrphanVectors /\ FailedServesNothing)
<1>1. StoreInv => ForeignKeys /\ NoOrphanVectors /\ FailedServesNothing
  BY DEF StoreInv
<1>. QED
  BY <1>1, RefinesStore, StoreSafe, PTL

-----------------------------------------------------------------------------
(* Vectors and the generation a stamp names, while a running daemon's       *)
(* endpoint keeps its dimension count.                                      *)

ChunksDisjoint ==
    \A g \in Hash, h \in Hash : g # h => chunks[g] \cap chunks[h] = {}

\* A prepared drain works in the generation it stamps its contents with.
GenerationInv ==
    /\ ChunksDisjoint
    /\ drainDims # NULL => /\ pc # "down"
                          /\ drainDims = serverDims
                          /\ current = Generation
    /\ pc = "final" => chunks[item] \subseteq vectors[Generation]
    /\ StampNamesGeneration

\* Indexed rows left as they were keep their vectors when other contents'
\* chunks lose theirs.
LEMMA VectorsKept ==
    ASSUME ITypeOK, ItemInv, StampNamesGeneration, NEW D,
           vectors' = WithoutVectors(D),
           \A h \in Hash : state'[h] = "indexed" => /\ state[h] = "indexed"
                                                   /\ stamp'[h] = stamp[h]
                                                   /\ chunks'[h] = chunks[h]
                                                   /\ chunks[h] \cap D = {}
    PROVE  StampNamesGeneration'
<1> SUFFICES ASSUME NEW h \in Hash, state'[h] = "indexed"
             PROVE  chunks'[h] \subseteq vectors'[StampedGeneration(h)']
  BY DEF StampNamesGeneration
<1>1. stamp[h] \in FullStamps
  BY DEF ItemInv, Terminal
<1>2. StampedGeneration(h) \in Ident
  BY <1>1, ModelAssumption DEF StampedGeneration, FullStamps, Ident
<1>3. StampedGeneration(h)' = StampedGeneration(h)
  BY DEF StampedGeneration
<1>4. vectors'[StampedGeneration(h)] = vectors[StampedGeneration(h)] \ D
  BY <1>2 DEF WithoutVectors
<1>. QED
  BY <1>3, <1>4 DEF StampNamesGeneration

LEMMA GenerationStep ==
    ASSUME LiveDrift = FALSE, ITypeOK, ITypeOK', ItemInv, GenerationInv, [Next]_vars
    PROVE  GenerationInv'
<1> USE DEF ITypeOK, TypeOK, Control, ItemLabels
<1>0. NULL \notin Hash /\ NULL \notin Dims
  BY NullAssumption
<1> DEFINE Rows == \A h \in Hash : state'[h] = "indexed" =>
                      state[h] = "indexed" /\ stamp'[h] = stamp[h]
\* No content is finished and no chunk or vector moves.
<1>a. ASSUME UNCHANGED <<chunks, vectors>>, Rows
      PROVE  ChunksDisjoint' /\ StampNamesGeneration'
  BY <1>a DEF GenerationInv, ChunksDisjoint, StampNamesGeneration, StampedGeneration
\* The drain's generation stands, or the drain is over.
<1>b. ASSUME \/ drainDims' = NULL
             \/ pc' # "down" /\ UNCHANGED <<drainDims, serverDims, build, current>>
      PROVE  drainDims' # NULL => /\ pc' # "down"
                                  /\ drainDims' = serverDims'
                                  /\ current' = Generation'
  BY <1>b DEF GenerationInv, Generation
<1>1. CASE \/ Start \/ WakeToWalk \/ WakeNoWalk \/ WalkDone \/ WalkFails
           \/ ReconcileFails \/ TakeSweep \/ SweepDone \/ SweepFails \/ Gate \/ Claim
           \/ PrepareFails \/ EnsureFails \/ Prepared \/ BatchDone
           \/ (\E h \in Hash : GetWork(h)) \/ NormalizeFails \/ ContentChanged
           \/ ContentUnreadable \/ EmbedWrongDims \/ EmbedTransient \/ EmbedRejected
           \/ RetryProbeFails \/ Charge \/ ChargeLast \/ StoreFails
           \/ (\E h \in Hash : RetryDue(h))
  <2>1. UNCHANGED <<state, stamp, chunks, vectors, current, serverDims>>
    BY <1>1 DEF Start, WakeToWalk, WakeNoWalk, WalkDone, WalkFails, ReconcileFails,
       TakeSweep, SweepDone, SweepFails, Gate, Claim, PrepareFails, EnsureFails,
       Prepared, BatchDone, GetWork, NormalizeFails, ContentChanged, ContentUnreadable,
       EmbedWrongDims, EmbedTransient, EmbedRejected, RetryProbeFails, Charge,
       ChargeLast, StoreFails, RetryDue, SweepBegin, SweepAbort, Reschedule, ReleaseIds,
       BackoffElapses, storeVars, rowVars, vecVars, envVars
  <2>2. \/ drainDims' = NULL
        \/ pc' # "down" /\ UNCHANGED <<drainDims, build>>
    BY <1>0, <1>1 DEF Start, WakeToWalk, WakeNoWalk, WalkDone, WalkFails, ReconcileFails,
       Reconciles, TakeSweep, SweepDone, SweepFails, Gate, Claim, PrepareFails,
       EnsureFails, Prepared, BatchDone, GetWork, NormalizeFails, ContentChanged,
       ContentUnreadable, EmbedWrongDims, EmbedTransient, EmbedRejected,
       RetryProbeFails, Charge, ChargeLast, StoreFails, RetryDue, EndItem, EndDrain,
       drainVars, procVars, GenerationInv
  <2>3. pc' = "final" => pc = "final" /\ UNCHANGED <<item, build>>
    BY <1>1 DEF Start, WakeToWalk, WakeNoWalk, WalkDone, WalkFails, ReconcileFails,
       Reconciles, TakeSweep, SweepDone, SweepFails, Gate, Claim, PrepareFails,
       EnsureFails, Prepared, BatchDone, GetWork, NormalizeFails, ContentChanged,
       ContentUnreadable, EmbedWrongDims, EmbedTransient, EmbedRejected,
       RetryProbeFails, Charge, ChargeLast, StoreFails, RetryDue, EndItem, EndDrain,
       drainVars, procVars
  <2>. QED
    BY <1>a, <1>b, <2>1, <2>2, <2>3 DEF GenerationInv, Generation
<1>2. ASSUME NEW p \in Path, WalkPath(p) \/ Reconcile(p)
      PROVE  GenerationInv'
  <2>1. /\ UNCHANGED <<stamp, chunks, vectors, current, serverDims, drainDims, build, pc>>
        /\ \A h \in Hash : state'[h] = state[h] \/ state'[h] = "discovered"
        /\ pc # "down" /\ pc # "final"
    BY <1>2 DEF WalkPath, Reconcile, Reconciles, Discover, DeleteDocuments,
       UpsertDocuments, vecVars, envVars, drainVars
  <2>. QED
    BY <1>a, <1>b, <2>1 DEF GenerationInv
<1>3. CASE VersionSweep \/ DimsSweep
  <2>1. /\ UNCHANGED <<stamp, chunks, vectors, current, serverDims, drainDims, build>>
        /\ \A h \in Hash : state'[h] = state[h] \/ state'[h] = "discovered"
        /\ pc' = "drain"
    BY <1>3 DEF VersionSweep, DimsSweep, ResetStale, vecVars, envVars, drainVars
  <2>. QED
    BY <1>a, <1>b, <2>1 DEF GenerationInv
<1>4. CASE PrepareOK \/ RetryProbeOK
  <2>1. /\ UNCHANGED <<state, stamp, chunks, vectors, serverDims, build>>
        /\ current' = Generation
        /\ pc' \notin {"down", "final"}
        /\ drainDims' = serverDims \/ UNCHANGED drainDims
    BY <1>4 DEF PrepareOK, RetryProbeOK, EnsureVecTable, rowVars, envVars, drainVars
  <2>2. Generation' = Generation
    BY <2>1 DEF Generation
  <2>. QED
    BY <1>a, <2>1, <2>2 DEF GenerationInv
<1>5. CASE SweepStep
  <2>1. UNCHANGED <<pc, item, drainDims, serverDims, build, current>> /\ pc = "sweeping"
    BY <1>5 DEF SweepStep, SweepCollect, SweepDelete, vecVars, envVars, procVars,
       drainVars
  <2>2. CASE SweepCollect
    BY <1>a, <1>b, <2>1, <2>2 DEF SweepCollect, rowVars, vecVars, GenerationInv
  <2>3. CASE SweepDelete
    <3> DEFINE D == UNION {chunks[h] : h \in Doomed}
    <3>1. /\ vectors' = WithoutVectors(D)
          /\ \A h \in Hash : IF h \in Doomed
                             THEN chunks'[h] = {} /\ state'[h] = "none"
                             ELSE /\ chunks'[h] = chunks[h]
                                  /\ state'[h] = state[h]
                                  /\ stamp'[h] = stamp[h]
      BY <2>3 DEF SweepDelete
    <3>2. Doomed \subseteq Hash
      BY DEF Doomed, StoreTypeOK
    <3>3. \A h \in Hash \ Doomed : chunks[h] \cap D = {}
      BY <3>2 DEF GenerationInv, ChunksDisjoint
    <3>4. StampNamesGeneration'
      <4> HIDE DEF D
      <4>. QED
        BY <3>1, <3>3, VectorsKept DEF GenerationInv
    <3>5. ChunksDisjoint'
      BY <3>1 DEF GenerationInv, ChunksDisjoint
    <3>. QED
      BY <1>b, <2>1, <3>4, <3>5 DEF GenerationInv
  <2>. QED
    BY <1>5, <2>2, <2>3 DEF SweepStep
<1>6. ASSUME NEW n \in Nat, NEW st, NEW sv, StoreChunks(Me, item, st, sv, n),
             st # "indexed", item \in Hash
      PROVE  ChunksDisjoint' /\ StampNamesGeneration'
  <2>1. PICK ids \in FreshIds(n) : chunks' = [chunks EXCEPT ![item] = ids]
    BY <1>6 DEF StoreChunks
  <2>2. \A h \in Hash : ids \cap chunks[h] = {}
    BY <1>6, <2>1, FreshIdsAreNew
  <2>3. /\ chunks'[item] = ids
        /\ state'[item] = st
        /\ \A h \in Hash \ {item} : /\ chunks'[h] = chunks[h]
                                    /\ state'[h] = state[h]
                                    /\ stamp'[h] = stamp[h]
    BY <1>6, <2>1 DEF StoreChunks, StoreTypeOK
  <2>4. ChunksDisjoint'
    BY <2>2, <2>3 DEF GenerationInv, ChunksDisjoint
  <2>5. vectors' = WithoutVectors(chunks[item])
    BY <1>6 DEF StoreChunks
  <2>6. \A h \in Hash \ {item} : chunks[h] \cap chunks[item] = {}
    BY <1>6 DEF GenerationInv, ChunksDisjoint
  <2>7. StampNamesGeneration'
    BY <1>6, <2>3, <2>5, <2>6, VectorsKept DEF GenerationInv
  <2>. QED
    BY <2>4, <2>7
<1>7. CASE ChunkContent
  <2>1. item \in Hash
    BY <1>7 DEF ChunkContent
  <2>2. PICK bytes \in ReadVerified \ Undecodable :
          /\ StoreChunks(Me, item, "chunked", StageVersions, ChunkCount[bytes])
          /\ pc' = IF ChunkCount[bytes] = 0 THEN "final" ELSE "embed"
    BY <1>7 DEF ChunkContent
  <2>3. ChunkCount[bytes] \in Nat
    BY <2>1, <2>2, IndexerAssumption, BoundAssumption DEF ReadVerified
  <2>4. ChunksDisjoint' /\ StampNamesGeneration'
    BY <1>6, <2>1, <2>2, <2>3
  <2>5. UNCHANGED <<drainDims, serverDims, build, current, item>>
    BY <1>7 DEF ChunkContent, StoreChunks, envVars, drainVars
  <2>6. PICK ids \in FreshIds(ChunkCount[bytes]) : chunks' = [chunks EXCEPT ![item] = ids]
    BY <2>2 DEF StoreChunks
  <2>7. ChunkCount[bytes] = 0 => chunks'[item] = {}
    BY <2>1, <2>3, <2>6, FreshIdsAreNew, FS_EmptySet DEF StoreTypeOK
  <2>. QED
    BY <1>b, <2>2, <2>4, <2>5, <2>7 DEF GenerationInv
<1>8. CASE RecordFailure
  <2>1. /\ item \in Hash
        /\ StoreChunks(Me, item, "failed", StageVersions, 0)
        /\ pc' = "mark"
        /\ UNCHANGED <<drainDims, serverDims, build, current>>
    BY <1>8 DEF RecordFailure, StoreChunks, envVars, drainVars
  <2>2. ChunksDisjoint' /\ StampNamesGeneration'
    BY <1>6, <2>1
  <2>. QED
    BY <1>b, <2>1, <2>2 DEF GenerationInv
<1>9. CASE EmbedOK
  <2>1. /\ item \in Hash
        /\ held[Me] = chunks[item]
        /\ current = Generation
        /\ Generation \in Ident
    BY <1>0, <1>9, ModelAssumption
    DEF EmbedOK, ItemInv, ProcessingIsUndisturbed, GenerationInv, Generation, Ident
  <2>2. /\ vectors' = [vectors EXCEPT ![Generation] = @ \cup chunks[item]]
        /\ pc' = "final"
        /\ UNCHANGED <<state, stamp, chunks, drainDims, serverDims, build, current, item>>
    BY <1>9, <2>1 DEF EmbedOK, UpsertVectors, rowVars, envVars, drainVars
  <2>3. \A i \in Ident : vectors[i] \subseteq vectors'[i]
    BY <2>1, <2>2 DEF StoreTypeOK
  <2>4. chunks[item] \subseteq vectors'[Generation]
    BY <2>1, <2>2 DEF StoreTypeOK
  <2>5. StampNamesGeneration'
    <3> SUFFICES ASSUME NEW h \in Hash, state'[h] = "indexed"
                 PROVE  chunks'[h] \subseteq vectors'[StampedGeneration(h)']
      BY DEF StampNamesGeneration
    <3>1. StampedGeneration(h)' = StampedGeneration(h)
      BY <2>2 DEF StampedGeneration
    <3>2. stamp[h] \in FullStamps
      BY <2>2 DEF ItemInv, Terminal
    <3>3. StampedGeneration(h) \in Ident
      BY <3>2, ModelAssumption DEF StampedGeneration, FullStamps, Ident
    <3>. QED
      BY <2>2, <2>3, <3>1, <3>3 DEF GenerationInv, StampNamesGeneration
  <2>6. Generation' = Generation /\ ChunksDisjoint'
    BY <2>2 DEF Generation, GenerationInv, ChunksDisjoint
  <2>. QED
    BY <1>b, <2>2, <2>4, <2>5, <2>6 DEF GenerationInv
<1>10. CASE Finalize
  <2>1. /\ item \in Hash
        /\ stamp[item] = StageVersions
        /\ drainDims = serverDims
        /\ chunks[item] \subseteq vectors[Generation]
    BY <1>0, <1>10 DEF Finalize, ItemInv, GenerationInv
  <2>2. /\ state' = [state EXCEPT ![item] = "indexed"]
        /\ UNCHANGED <<stamp, chunks, vectors, drainDims, serverDims, build, current>>
        /\ pc' = "item"
    BY <1>10 DEF Finalize, UpdateContentState, EndItem, vecVars, envVars
  <2>3. StampedGeneration(item) = Generation
    BY <2>1 DEF StampedGeneration, StageVersions, StageKey, Generation
  <2>4. StampNamesGeneration'
    BY <2>1, <2>2, <2>3
    DEF GenerationInv, StampNamesGeneration, StampedGeneration, StoreTypeOK
  <2>5. ChunksDisjoint'
    BY <2>2 DEF GenerationInv, ChunksDisjoint
  <2>. QED
    BY <1>b, <2>2, <2>4, <2>5 DEF GenerationInv
<1>11. CASE GiveUp
  <2>1. item \in Hash
    BY <1>11 DEF GiveUp
  <2>2. /\ vectors' = WithoutVectors(chunks[item])
        /\ chunks'[item] = {} /\ state'[item] = "failed"
        /\ \A h \in Hash \ {item} : /\ chunks'[h] = chunks[h]
                                    /\ state'[h] = state[h]
        /\ UNCHANGED <<stamp, drainDims, serverDims, build, current>>
        /\ pc' = "item"
    BY <1>11, <2>1 DEF GiveUp, MarkFailed, EndItem, StoreTypeOK, envVars
  <2>3. \A h \in Hash \ {item} : chunks[h] \cap chunks[item] = {}
    BY <2>1 DEF GenerationInv, ChunksDisjoint
  <2>4. StampNamesGeneration'
    BY <2>1, <2>2, <2>3, VectorsKept DEF GenerationInv
  <2>5. ChunksDisjoint'
    BY <2>2 DEF GenerationInv, ChunksDisjoint
  <2>. QED
    BY <1>b, <2>2, <2>4, <2>5 DEF GenerationInv
<1>12. CASE Crash
  <2>1. UNCHANGED <<state, stamp, chunks, vectors>> /\ drainDims' = NULL /\ pc' = "down"
    BY <1>12 DEF Crash, SweepAbort, ReleaseIds, rowVars, vecVars
  <2>. QED
    BY <1>a, <1>b, <2>1 DEF GenerationInv
<1>13. CASE \/ (\E p \in Path, v \in Hash \cup {Absent, Denied, Placeholder} : Edit(p, v))
            \/ (\E p \in Path : EventArrives(p)) \/ EndpointDown \/ EndpointUp
            \/ Unplug \/ PlugIn \/ ProbeDue \/ UNCHANGED vars
  <2>1. UNCHANGED <<state, stamp, chunks, vectors, current, serverDims, drainDims, build,
                    pc, item>>
    BY <1>13 DEF Edit, EventArrives, EndpointDown, EndpointUp, Unplug, PlugIn, ProbeDue,
       vars, storeVars, rowVars, vecVars, envVars, procVars, drainVars
  <2>. QED
    BY <1>a, <2>1 DEF GenerationInv, Generation
<1>14. CASE EndpointDrifts
  <2>1. /\ UNCHANGED <<state, stamp, chunks, vectors, drainDims, pc>>
        /\ pc = "down"
    BY <1>14 DEF EndpointDrifts, storeVars, rowVars, vecVars, procVars, drainVars
  <2>. QED
    BY <1>a, <1>b, <2>1 DEF GenerationInv
<1>. QED
  BY <1>1, <1>2, <1>3, <1>4, <1>5, <1>7, <1>8, <1>9, <1>10, <1>11, <1>12, <1>13, <1>14
  DEF Next, Work, Failure, World

\* While no running daemon sees its endpoint change dimensions, indexed content
\* has all its vectors in the generation its stamp names: through crashes
\* between StoreChunks, UpsertVectors and UpdateContentState, retries, sweeps
\* and restarts under other configurations.
THEOREM StampsAreTrue == LiveDrift = FALSE => (Spec => []StampNamesGeneration)
<1> SUFFICES ASSUME LiveDrift = FALSE PROVE Spec => []StampNamesGeneration
  OBVIOUS
<1>1. Init => GenerationInv
  BY DEF Init, StoreInit, GenerationInv, ChunksDisjoint, StampNamesGeneration
<1>2. /\ ITypeOK /\ ItemInv /\ GenerationInv /\ [Next]_vars
      => ITypeOK' /\ ItemInv' /\ GenerationInv'
  BY ITypeStep, ItemStep, GenerationStep
<1>3. GenerationInv => StampNamesGeneration
  BY DEF GenerationInv
<1>. QED
  BY <1>1, <1>2, <1>3, InitIsTyped, InitItem, PTL DEF Spec

-----------------------------------------------------------------------------
(* Orphans of the queue.                                                   *)

\* A sweep has passed no orphan of its scope but those on the page in hand, and
\* a short page holds all that are left.  The dims sweep is still to be done
\* where it is about to be.
SweepInv ==
    /\ pc = "dims" => ~sweptDims
    /\ sweepScope = NULL => sweepPage = {}
    /\ sweepScope # NULL =>
         \A h \in Hash : Orphaned(h, sweepScope) =>
            /\ sweepCursor < h \/ h \in sweepPage
            /\ sweepPage # {} /\ Cardinality(sweepPage) < SweepBatch => h \in sweepPage

\* Every step keeps it: only a sweep's own steps happen while one is running.
LEMMA SweepStepInv ==
    ASSUME ITypeOK, SweepInv, [Next]_vars
    PROVE  SweepInv'
<1> USE DEF ITypeOK, TypeOK, Control, ItemLabels
<1>0. \A h \in Hash : h \in Nat
  BY HashAssumption
\* The world moves while the goroutine stands still.
<1>a. ASSUME UNCHANGED <<documents, state, sweepVars, pc, sweptDims>>
      PROVE  SweepInv'
  BY <1>a DEF SweepInv, Orphaned, Stored, PathsOf, sweepVars
\* No sweep is running.
<1>b. ASSUME pc # "sweeping", UNCHANGED sweepVars, pc' # "dims"
      PROVE  SweepInv'
  BY <1>b DEF SweepInv, sweepVars
<1>1. CASE \/ Start \/ WakeToWalk \/ WakeNoWalk \/ WalkDone \/ WalkFails
           \/ ReconcileFails \/ Gate \/ Claim \/ PrepareFails \/ EnsureFails \/ Prepared
           \/ BatchDone \/ VersionSweep \/ DimsSweep
  BY <1>1, <1>b DEF Start, WakeToWalk, WakeNoWalk, WalkDone, WalkFails, ReconcileFails,
     Reconciles, Gate, Claim, PrepareFails, EnsureFails, Prepared, BatchDone, VersionSweep,
     DimsSweep, ResetStale, EndDrain, storeVars
<1>2. ASSUME NEW p \in Path, WalkPath(p) \/ Reconcile(p)
      PROVE  SweepInv'
  BY <1>2, <1>b DEF WalkPath, Reconcile, Reconciles, Discover, DeleteDocuments,
     UpsertDocuments
<1>3. CASE TakeSweep
  <2>1. /\ pc = "cycle" /\ pc' # "dims" /\ UNCHANGED <<documents, state>>
        /\ \/ UNCHANGED sweepVars
           \/ sweepCursor' = 0 /\ sweepPage' = {}
    BY <1>3 DEF TakeSweep, SweepBegin, storeVars, rowVars
  <2>2. \A h \in Hash : 0 < h
    BY HashAssumption
  <2>. QED
    BY <1>b, <2>1, <2>2 DEF SweepInv
<1>4. CASE SweepStep
  <2>1. pc = "sweeping" /\ UNCHANGED <<pc, sweptDims>>
    BY <1>4 DEF SweepStep, procVars, flags
  <2>2. CASE SweepCollect
    <3>1. PICK page \in SweepPages :
            /\ sweepPage' = page
            /\ IF page = {} THEN sweepScope' = NULL /\ sweepCursor' = 0
               ELSE /\ sweepCursor' \in page
                    /\ \A h \in page : h <= sweepCursor'
                    /\ UNCHANGED sweepScope
      BY <2>2 DEF SweepCollect
    <3>2. sweepPage = {} /\ sweepScope # NULL /\ UNCHANGED <<documents, state>>
      BY <2>2 DEF SweepCollect, rowVars
    <3>3. \A h \in Hash : Orphaned(h, sweepScope) => sweepCursor < h
      BY <3>2 DEF SweepInv
    <3>4. CASE page = {}
      BY <2>1, <3>1, <3>4 DEF SweepInv
    <3>5. CASE page # {}
      <4>1. sweepScope' = sweepScope /\ sweepCursor' \in page /\ sweepPage' = page
        BY <3>1, <3>5
      <4> SUFFICES ASSUME NEW h \in Hash, Orphaned(h, sweepScope)'
                   PROVE  /\ sweepCursor' < h \/ h \in page
                          /\ Cardinality(page) < SweepBatch => h \in page
        BY <2>1, <3>5, <4>1, <3>2 DEF SweepInv
      <4>2. Orphaned(h, sweepScope)
        BY <3>2, <4>1 DEF Orphaned, Stored, PathsOf
      <4>. QED
        BY <3>3, <4>1, <4>2, PageOfOrphans
    <3>. QED
      BY <3>4, <3>5
  <2>3. CASE SweepDelete
    <3>1. /\ sweepPage' = {} /\ UNCHANGED documents
          /\ \A h \in Hash : state'[h] = IF h \in Doomed THEN "none" ELSE state[h]
          /\ sweepScope' = NULL \/ UNCHANGED <<sweepScope, sweepCursor>>
      BY <2>3 DEF SweepDelete
    <3>2. CASE sweepScope' = NULL
      BY <2>1, <3>1, <3>2 DEF SweepInv
    <3>3. CASE sweepScope' # NULL
      <4>1. UNCHANGED <<sweepScope, sweepCursor>>
        BY <3>1, <3>3
      <4> SUFFICES ASSUME NEW h \in Hash, Orphaned(h, sweepScope)'
                   PROVE  sweepCursor < h
        BY <2>1, <3>1, <3>3, <4>1 DEF SweepInv
      <4>2. h \notin Doomed /\ Orphaned(h, sweepScope)
        BY <3>1, <4>1 DEF Orphaned, Stored, PathsOf
      <4>3. h \notin sweepPage
        BY <4>2 DEF Doomed
      <4>. QED
        BY <3>3, <4>1, <4>2, <4>3 DEF SweepInv
    <3>. QED
      BY <3>2, <3>3
  <2>. QED
    BY <1>4, <2>2, <2>3 DEF SweepStep
<1>5. CASE SweepDone \/ SweepFails
  <2>1. pc' # "dims" /\ sweepScope' = NULL /\ sweepPage' = {}
    BY <1>5 DEF SweepDone, SweepFails, SweepAbort, SweepInv, storeVars, sweepVars
  <2>. QED
    BY <2>1 DEF SweepInv
<1>6. CASE PrepareOK
  BY <1>6 DEF PrepareOK, EnsureVecTable, SweepInv, sweepVars, flags
<1>7. ASSUME NEW h \in Hash, GetWork(h)
      PROVE  SweepInv'
  BY <1>7, <1>b DEF GetWork, storeVars
<1>8. CASE \/ ChunkContent \/ NormalizeFails \/ ContentChanged \/ ContentUnreadable
           \/ EmbedOK \/ EmbedWrongDims \/ EmbedTransient \/ EmbedRejected \/ Finalize
           \/ RecordFailure \/ GiveUp \/ RetryProbeOK \/ RetryProbeFails \/ Charge
           \/ ChargeLast \/ StoreFails
  <2>1. UNCHANGED sweepVars
    BY <1>8 DEF ChunkContent, NormalizeFails, ContentChanged, ContentUnreadable, EmbedOK,
       EmbedWrongDims, EmbedTransient, EmbedRejected, Finalize, RecordFailure, GiveUp,
       RetryProbeOK, RetryProbeFails, Charge, ChargeLast, StoreFails, StoreChunks,
       Reschedule, UpsertVectors, ReleaseIds, UpdateContentState, MarkFailed,
       EnsureVecTable, storeVars
  <2>2. pc # "sweeping" /\ pc' # "dims"
    BY <1>8 DEF ChunkContent, NormalizeFails, ContentChanged, ContentUnreadable, EmbedOK,
       EmbedWrongDims, EmbedTransient, EmbedRejected, Finalize, RecordFailure, GiveUp,
       RetryProbeOK, RetryProbeFails, Charge, ChargeLast, StoreFails, EndItem, EndDrain
  <2>. QED
    BY <1>b, <2>1, <2>2
<1>9. CASE Crash
  <2>1. pc' # "dims" /\ sweepScope' = NULL /\ sweepPage' = {}
    BY <1>9 DEF Crash, SweepAbort, ReleaseIds, SweepInv, sweepVars
  <2>. QED
    BY <2>1 DEF SweepInv
<1>10. ASSUME NEW p \in Path, NEW v \in Hash \cup {Absent, Denied, Placeholder},
              Edit(p, v) \/ EventArrives(p)
       PROVE  SweepInv'
  BY <1>10, <1>a DEF Edit, EventArrives, storeVars, rowVars, procVars, flags
<1>11. CASE EndpointDown \/ EndpointUp \/ EndpointDrifts \/ Unplug \/ PlugIn \/ ProbeDue
  BY <1>11, <1>a DEF EndpointDown, EndpointUp, EndpointDrifts, Unplug, PlugIn,
     ProbeDue, storeVars, rowVars, procVars, flags
<1>12. ASSUME NEW h \in Hash, RetryDue(h)
       PROVE  SweepInv'
  BY <1>12, <1>a DEF RetryDue, BackoffElapses, procVars, flags
<1>13. CASE UNCHANGED vars
  BY <1>13, <1>a DEF vars, storeVars, rowVars, procVars, flags
<1>. QED
  BY <1>1, <1>2, <1>3, <1>4, <1>5, <1>6, <1>7, <1>8, <1>9, <1>10, <1>11, <1>12, <1>13
  DEF Next, Work, Failure, World

\* No step but the two named leaves an orphan of the queue without a sweep that
\* will collect it.
LEMMA OrphansAreNoted ==
    ASSUME ITypeOK, ItemInv, SweepInv, [Next]_vars,
           NEW h \in Hash, Orphaned(h, "queue")', ~SweepArmed'
    PROVE  LeavesOrphans \/ (Orphaned(h, "queue") /\ ~SweepArmed)
<1> USE DEF ITypeOK, TypeOK, Control, ItemLabels
<1>0. NULL \notin {"queue", "all"} /\ NULL \notin Hash
  BY NullAssumption
<1>1. /\ state'[h] # "none" /\ state'[h] \notin Terminal
      /\ \A p \in Path : documents'[p] # h
      /\ ~needFull' /\ ~needQueue' /\ sweepScope' = NULL
  BY DEF Orphaned, Stored, PathsOf, SweepArmed
\* Neither the row nor what may collect it is touched.
<1>a. ASSUME state'[h] = state[h], UNCHANGED <<documents, needFull, needQueue, sweepScope>>
      PROVE  Orphaned(h, "queue") /\ ~SweepArmed
  BY <1>1, <1>a DEF Orphaned, Stored, PathsOf, SweepArmed
<1>2. CASE \/ Start \/ WakeToWalk \/ WakeNoWalk \/ WalkDone \/ WalkFails
           \/ ReconcileFails \/ Gate \/ Claim \/ PrepareOK \/ PrepareFails \/ EnsureFails
           \/ Prepared \/ BatchDone
  BY <1>2, <1>a DEF Start, WakeToWalk, WakeNoWalk, WalkDone, WalkFails, ReconcileFails,
     Gate, Claim, PrepareOK, PrepareFails, EnsureFails, Prepared, BatchDone,
     EnsureVecTable, storeVars, rowVars, sweepVars, flags
<1>3. ASSUME NEW p \in Path, WalkPath(p) \/ Reconcile(p)
      PROVE  LeavesOrphans \/ (Orphaned(h, "queue") /\ ~SweepArmed)
  <2>1. /\ Discover(p) /\ UNCHANGED needFull
    BY <1>3 DEF WalkPath, Reconcile
  <2>2. ~needFull /\ ~needQueue /\ ~ArmsSweep(p) /\ sweepScope = NULL
    BY <1>1, <2>1 DEF Discover, DeleteDocuments, UpsertDocuments, sweepVars
  <2>3. \A q \in Path \ {p} : documents'[q] = documents[q]
    BY <2>1 DEF Discover, DeleteDocuments, UpsertDocuments
  <2>4. documents'[p] = Observed(p)
    BY <2>1 DEF Discover, DeleteDocuments, UpsertDocuments
  <2>5. state'[h] = state[h]
    BY <1>1, <2>1, <2>4 DEF Discover, DeleteDocuments, UpsertDocuments
  <2>6. CASE documents[p] = h
    <3>1. Observed(p) # NoDoc /\ Observed(p) \notin Hash
      BY <1>1, <2>2, <2>4, <2>6, DocAssumption DEF ArmsSweep
    <3>2. Observed(p) = Unread
      BY <3>1 DEF Observed, StoreTypeOK
    <3>. QED
      BY <2>4, <2>6, <3>2 DEF LeavesOrphans
  <2>7. CASE documents[p] # h
    <3>1. \A q \in Path : documents[q] # h
      BY <1>1, <2>3, <2>7
    <3>. QED
      BY <1>1, <2>2, <2>5, <3>1 DEF Orphaned, Stored, PathsOf, SweepArmed
  <2>. QED
    BY <2>6, <2>7
<1>4. CASE TakeSweep
  <2>1. UNCHANGED <<documents, state>> /\ pc = "cycle" /\ sweepScope = NULL
    BY <1>4 DEF TakeSweep, SweepBegin, storeVars, rowVars
  <2>2. Orphaned(h, "queue") /\ Orphaned(h, "all")
    BY <1>1, <2>1 DEF Orphaned, Stored, PathsOf
  <2>3. ~needFull /\ ~needQueue
    <3> SUFFICES ASSUME needFull \/ needQueue PROVE FALSE
      OBVIOUS
    <3>1. PICK scope \in {"queue", "all"} :
            sweepScope' = IF \E g \in Hash : Orphaned(g, scope) THEN scope ELSE NULL
      BY <1>4 DEF TakeSweep, SweepBegin
    <3>. QED
      BY <1>0, <1>1, <2>2, <3>1
  <2>. QED
    BY <2>1, <2>2, <2>3 DEF SweepArmed
<1>5. CASE SweepStep
  <2>1. pc = "sweeping" /\ UNCHANGED <<needFull, needQueue>>
    BY <1>5 DEF SweepStep, procVars, flags
  <2>2. CASE SweepCollect
    <3>1. PICK page \in SweepPages :
            IF page = {} THEN sweepScope' = NULL ELSE UNCHANGED sweepScope
      BY <2>2 DEF SweepCollect
    <3>2. sweepPage = {} /\ sweepScope # NULL /\ UNCHANGED <<documents, state>>
      BY <2>2 DEF SweepCollect, rowVars
    <3>3. Orphaned(h, sweepScope)
      BY <1>1, <3>2 DEF Orphaned, Stored, PathsOf
    <3>4. sweepCursor < h
      BY <3>2, <3>3 DEF SweepInv
    <3>5. page = {}
      BY <1>1, <3>1, <3>2
    <3>. QED
      BY <3>3, <3>4, <3>5, PageOfOrphans
  <2>3. CASE SweepDelete
    <3>1. /\ sweepPage # {} /\ UNCHANGED documents
          /\ state'[h] = IF h \in Doomed THEN "none" ELSE state[h]
          /\ Cardinality(sweepPage) < SweepBatch \/ UNCHANGED sweepScope
      BY <2>3 DEF SweepDelete, LastBatch
    <3>2. sweepScope # NULL /\ h \notin Doomed
      BY <1>1, <3>1 DEF SweepInv
    <3>3. Orphaned(h, sweepScope)
      BY <1>1, <3>1, <3>2 DEF Orphaned, Stored, PathsOf
    <3>4. h \in sweepPage
      BY <1>1, <3>1, <3>2, <3>3 DEF SweepInv
    <3>. QED
      BY <3>2, <3>3, <3>4 DEF Doomed
  <2>. QED
    BY <1>5, <2>2, <2>3 DEF SweepStep
<1>6. CASE SweepDone
  BY <1>6, <1>a DEF SweepDone, storeVars, rowVars, sweepVars, flags
<1>7. CASE SweepFails
  BY <1>1, <1>7 DEF SweepFails, StoreTypeOK
<1>8. CASE VersionSweep \/ DimsSweep
  BY <1>8 DEF VersionSweep, DimsSweep, LeavesOrphans, SweepInv
<1>9. ASSUME NEW g \in Hash, GetWork(g)
      PROVE  LeavesOrphans \/ (Orphaned(h, "queue") /\ ~SweepArmed)
  BY <1>9, <1>a DEF GetWork, storeVars, rowVars, sweepVars, flags
\* The content in the pipeline has a path, so it is none of the orphans.
<1>10. CASE ChunkContent \/ RecordFailure \/ Finalize \/ GiveUp
  <2>1. /\ item \in Hash /\ UNCHANGED <<documents, needFull, needQueue, sweepScope>>
        /\ \A g \in Hash \ {item} : state'[g] = state[g]
    BY <1>10 DEF ChunkContent, RecordFailure, Finalize, GiveUp, StoreChunks,
       UpdateContentState, MarkFailed, sweepVars, flags, StoreTypeOK
  <2>2. h # item
    BY <1>0, <1>1, <2>1 DEF ItemInv, ProcessingIsUndisturbed, PathsOf
  <2>. QED
    BY <1>a, <2>1, <2>2
<1>11. CASE \/ NormalizeFails \/ ContentChanged \/ ContentUnreadable
            \/ EmbedOK \/ EmbedWrongDims \/ EmbedTransient \/ EmbedRejected
            \/ RetryProbeOK \/ RetryProbeFails \/ Charge \/ ChargeLast \/ StoreFails
  <2>1. UNCHANGED <<documents, state, sweepScope>>
    BY <1>11 DEF NormalizeFails, ContentChanged, ContentUnreadable, EmbedOK,
       EmbedWrongDims, EmbedTransient, EmbedRejected, RetryProbeOK, RetryProbeFails,
       Charge, ChargeLast, StoreFails, Reschedule, UpsertVectors, ReleaseIds,
       EnsureVecTable, storeVars, rowVars, sweepVars
  <2>2. UNCHANGED <<needFull, needQueue>>
    BY <1>11 DEF NormalizeFails, ContentChanged, ContentUnreadable, EmbedOK,
       EmbedWrongDims, EmbedTransient, EmbedRejected, RetryProbeOK, RetryProbeFails,
       Charge, ChargeLast, StoreFails, flags
  <2>. QED
    BY <1>a, <2>1, <2>2
<1>12. CASE Crash
  BY <1>1, <1>12 DEF Crash
<1>13. ASSUME NEW p \in Path, NEW v \in Hash \cup {Absent, Denied, Placeholder},
              Edit(p, v) \/ EventArrives(p)
       PROVE  Orphaned(h, "queue") /\ ~SweepArmed
  BY <1>13, <1>a DEF Edit, EventArrives, storeVars, rowVars, sweepVars, procVars, flags
<1>14. CASE EndpointDown \/ EndpointUp \/ EndpointDrifts \/ Unplug \/ PlugIn \/ ProbeDue
  BY <1>14, <1>a DEF EndpointDown, EndpointUp, EndpointDrifts, Unplug, PlugIn,
     ProbeDue, storeVars, rowVars, sweepVars, procVars, flags
<1>15. ASSUME NEW g \in Hash, RetryDue(g)
       PROVE  Orphaned(h, "queue") /\ ~SweepArmed
  BY <1>15, <1>a DEF RetryDue, BackoffElapses, sweepVars, procVars, flags
<1>16. CASE UNCHANGED vars
  BY <1>16, <1>a DEF vars, storeVars, rowVars, sweepVars, procVars, flags
<1>. QED
  BY <1>2, <1>3, <1>4, <1>5, <1>6, <1>7, <1>8, <1>9, <1>10, <1>11, <1>12, <1>13, <1>14,
     <1>15, <1>16
  DEF Next, Work, Failure, World

\* Non-terminal content nobody refers to has a sweep armed or running, through
\* paged, failed and interrupted sweeps, failed walks and crashes, but for the
\* version sweeps and evicted placeholders (noteOrphanProducers,
\* takeOrphanSweep, SweepOrphans).
THEOREM OrphansCollected == Spec => OrphansAreCollected
<1> DEFINE A == \A h \in Hash :
                  Orphaned(h, "queue")' /\ ~SweepArmed' =>
                     LeavesOrphans \/ (Orphaned(h, "queue") /\ ~SweepArmed)
<1>1. Init => SweepInv
  BY DEF Init, StoreInit, SweepInv
<1>2. ITypeOK /\ [Next]_vars => ITypeOK'
  BY ITypeStep
<1>3. ITypeOK /\ ItemInv /\ [Next]_vars => ItemInv'
  BY <1>2, ItemStep
<1>4. ITypeOK /\ SweepInv /\ [Next]_vars => SweepInv'
  BY SweepStepInv
<1>5. ITypeOK /\ ItemInv /\ SweepInv /\ [Next]_vars => [A]_vars
  BY OrphansAreNoted
<1>6. OrphansAreCollected <=> [][A]_vars
  BY DEF OrphansAreCollected
<1>. QED
  BY <1>1, <1>2, <1>3, <1>4, <1>5, <1>6, InitIsTyped, InitItem, PTL DEF Spec
=============================================================================
