--------------------------- MODULE DeletionProofs ---------------------------
(* Theorems about full scans over any catalog, any volumes and roots, and  *)
(* any number of changes and faults.                                       *)
EXTENDS Deletion, FiniteSetTheorems, WellFoundedInduction, TLAPS

-----------------------------------------------------------------------------
(* Finite sets of path numbers.                                            *)

\* A set of numbers that is not empty has a least one.
LEMMA LeastNumber ==
    ASSUME NEW S \in SUBSET Nat, S # {}
    PROVE  \E n \in S : \A m \in S : n <= m
<1> DEFINE LT == OpToRel(<, Nat)
<1>1. IsWellFoundedOn(LT, Nat)
  BY NatLessThanWellFounded, Zenon
<1>2. LT = {ss \in Nat \X Nat : ss[1] < ss[2]}
  BY Zenon DEF OpToRel
<1> HIDE DEF LT
<1>3. PICK n \in S : \A m \in S : ~(<<m, n>> \in LT)
  BY <1>1, WFMin, Zenon
<1>4. \A m \in S : ~(m < n)
  BY <1>2, <1>3
<1>. QED
  BY <1>4

\* A finite one has a greatest: the element with the fewest above it.
LEMMA GreatestNumber ==
    ASSUME NEW S \in SUBSET Nat, S # {}, IsFiniteSet(S)
    PROVE  \E n \in S : \A m \in S : m <= n
<1> DEFINE Above(n) == {q \in S : q > n}
           Counts == {Cardinality(Above(n)) : n \in S}
<1>1. \A n \in S : IsFiniteSet(Above(n)) /\ Cardinality(Above(n)) \in Nat
  <2> TAKE n \in S
  <2>1. Above(n) \in SUBSET S
    OBVIOUS
  <2>. QED
    BY <2>1, FS_Subset, FS_CardinalityType
<1>2. ASSUME NEW n \in S, NEW m \in S, m > n
      PROVE  Above(m) \subseteq Above(n) /\ m \in Above(n) /\ m \notin Above(m)
  <2>1. m \in Nat /\ n \in Nat /\ \A q \in S : q \in Nat
    OBVIOUS
  <2>2. \A q \in S : q > m => q > n
    BY <1>2, <2>1
  <2>3. ~(m > m)
    BY <2>1
  <2>. QED
    BY <1>2, <2>2, <2>3
<1> HIDE DEF Above
<1>3. PICK c \in Counts : \A d \in Counts : c <= d
  <2>1. Counts \in SUBSET Nat /\ Counts # {}
    BY <1>1
  <2> HIDE DEF Counts
  <2>. QED
    BY <2>1, LeastNumber
<1>4. PICK n \in S : c = Cardinality(Above(n))
  BY <1>3
<1>5. \A m \in S : Cardinality(Above(n)) <= Cardinality(Above(m))
  BY <1>3, <1>4
<1> HIDE DEF Counts
<1>6. ASSUME NEW m \in S, m > n PROVE FALSE
  <2>1. Above(m) \subseteq Above(n) /\ m \in Above(n) /\ m \notin Above(m)
    BY <1>2, <1>6
  <2>2. /\ Cardinality(Above(m)) <= Cardinality(Above(n))
        /\ Cardinality(Above(n)) = Cardinality(Above(m)) => Above(n) = Above(m)
    BY <1>1, <2>1, FS_Subset
  <2>3. Cardinality(Above(n)) = Cardinality(Above(m))
    BY <2>2, <1>5, <1>1
  <2>. QED
    BY <2>1, <2>2, <2>3
<1>. QED
  BY <1>6

\* What ListPaths returns: a page that is not full is everything that is left,
\* and the cursor then stands on its last row.
LEMMA ShortPage ==
    ASSUME rows \subseteq Path, NEW c \in Nat,
           Cardinality(Page(c)) < PageSize
    PROVE  Page(c) = After(c)
<1> DEFINE Rest == After(c) \ Page(c)
<1>1. After(c) \in SUBSET Path /\ IsFiniteSet(After(c))
  BY DeletionAssumption, FS_Subset DEF After
<1>2. Page(c) \in SUBSET After(c) /\ IsFiniteSet(Page(c))
  <2>1. Page(c) \in SUBSET After(c)
    BY DEF Page
  <2>. QED
    BY <2>1, <1>1, FS_Subset
<1>3. ASSUME Rest # {} PROVE FALSE
  <2>1. Rest \in SUBSET Nat
    BY <1>1, DeletionAssumption
  <2>2. PICK p \in Rest : \A m \in Rest : p <= m
    <3> HIDE DEF Rest
    <3>. QED
      BY <2>1, <1>3, LeastNumber
  <2> DEFINE Earlier == {q \in After(c) : q < p}
  <2>3. Earlier \in SUBSET Page(c)
    BY <2>1, <2>2, <1>1, DeletionAssumption
  <2>4. Cardinality(Earlier) <= Cardinality(Page(c)) /\ IsFiniteSet(Earlier)
    <3> HIDE DEF Earlier
    <3>. QED
      BY <2>3, <1>2, FS_Subset
  <2>5. ~(Cardinality(Earlier) < PageSize)
    BY <2>2 DEF Page
  <2>6. Cardinality(Earlier) \in Nat /\ Cardinality(Page(c)) \in Nat
    BY <2>4, <1>2, FS_CardinalityType
  <2>. QED
    <3> HIDE DEF Earlier
    <3>. QED
      BY <2>4, <2>5, <2>6, DeletionAssumption
<1>. QED
  BY <1>2, <1>3

LastOf(S) == CHOOSE p \in S : \A q \in S : q <= p

\* The cursor after a page that has rows.
LEMMA LastOfPage ==
    ASSUME NEW S \in SUBSET Path, S # {}
    PROVE  LastOf(S) \in S /\ \A q \in S : q <= LastOf(S)
<1>1. S \in SUBSET Nat /\ IsFiniteSet(S)
  BY DeletionAssumption, FS_Subset
<1>2. \E n \in S : \A m \in S : m <= n
  BY <1>1, GreatestNumber
<1>. QED
  BY <1>2 DEF LastOf

\* Pages leave no gap: what precedes a row of a page is in the page.
LEMMA PageHasNoGap ==
    ASSUME rows \subseteq Path, NEW c \in Nat,
           NEW p \in After(c), NEW q \in Page(c), p <= q
    PROVE  p \in Page(c)
<1> DEFINE Before(x) == {y \in After(c) : y < x}
<1>1. After(c) \in SUBSET Path /\ IsFiniteSet(After(c)) /\ Path \subseteq Nat
  BY DeletionAssumption, FS_Subset DEF After
<1>2. q \in After(c) /\ Cardinality(Before(q)) < PageSize
  BY DEF Page
<1>3. Before(p) \in SUBSET Before(q) /\ Before(q) \in SUBSET After(c)
  <2>1. p \in Nat /\ q \in Nat /\ \A y \in After(c) : y \in Nat
    BY <1>1, <1>2
  <2>2. \A y \in After(c) : y < p => y < q
    BY <2>1
  <2>. QED
    BY <2>2
<1>4. /\ Cardinality(Before(p)) <= Cardinality(Before(q))
      /\ Cardinality(Before(p)) \in Nat /\ Cardinality(Before(q)) \in Nat
  <2> HIDE DEF Before
  <2>. QED
    BY <1>1, <1>3, FS_Subset, FS_CardinalityType
<1>5. Cardinality(Before(p)) < PageSize
  <2> HIDE DEF Before
  <2>. QED
    BY <1>2, <1>4, DeletionAssumption
<1>. QED
  BY <1>5 DEF Page

-----------------------------------------------------------------------------
(* The inductive invariant: what the pass knows at each of its labels.     *)

Enumerating == pc \in {"list", "judge", "delete", "prune", "forget"}

\* What is recorded is not forgotten, nor worked without.
EvidenceInv ==
    /\ EvidenceIsKept
    /\ \A v \in owed : \E p \in rows : On[p] = v
    /\ (pc \in {"mounts", "learn"} \/ Enumerating) /\ MemoryReadable
         => memory.vols \subseteq known

\* What is in hand at each label; the last page reaches the last row.
PageInv ==
    /\ pc \notin {"list", "judge", "delete", "prune", "forget"} => cursor = 0
    /\ pc # "judge" => batch = {}
    /\ pc \notin {"judge", "delete"} => vanished = {}
    /\ pc \notin {"judge", "delete", "prune"} => outOfScope = {}
    /\ (pc \in {"judge", "delete", "prune"} /\ short) \/ pc = "forget"
         => \A p \in rows : p <= cursor

\* Every row the cursor has passed was judged, and its volume noted.
JudgedInv ==
    Enumerating =>
      \A p \in rows : p <= cursor /\ p \notin batch =>
        /\ p \in kept \cup counted \cup vanished \cup outOfScope
        /\ On[p] \in known => On[p] \in occupied

\* Pruning goes by the configuration.
ScopeInv ==
    /\ pc # "idle" /\ ~unresolved => roots = config.include
    /\ \A p \in outOfScope : ~Configured(p)

\* The walk and the mount table vouch for what is not in unknown, as long as
\* the world holds still.
VouchInv ==
    /\ pc = "idle" => live = {}
    /\ live \subseteq mounted \cup moved
    /\ pc \notin {"idle", "walk", "decline"} => todo = {}
    /\ pc \notin {"idle", "decline"} =>
         \A p \in Path \ unknown :
           RootOf[p] \in roots \ todo
             /\ ((disk[p] = "behind" /\ Attached(p)) \/ RootOf[p] \in gone)
             => p \in stirred \/ On[p] \in moved
    /\ pc = "learn" \/ Enumerating =>
         \A p \in Path \ unknown :
           RootOf[p] \in roots /\ On[p] \in known /\ ~Attached(p)
             => On[p] \in moved

\* What is about to be deleted is gone for a reason.
VanishInv == \A p \in vanished : LostForAReason(p)

ScanInv ==
    /\ DeletionTypeOK /\ EvidenceInv /\ PageInv /\ JudgedInv /\ ScopeInv
    /\ VouchInv /\ VanishInv

-----------------------------------------------------------------------------
(* Types.                                                                  *)

\* The cursor stays where it is or moves to a row of the page just read.
LEMMA CursorAfterPage ==
    ASSUME DeletionTypeOK, ListPage
    PROVE  /\ batch' = Page(cursor) /\ batch' \subseteq rows
           /\ cursor' \in Nat
           /\ Page(cursor) = {} => cursor' = cursor
           /\ Page(cursor) # {} => /\ cursor' \in Page(cursor)
                                   /\ \A q \in Page(cursor) : q <= cursor'
<1>1. rows \subseteq Path /\ cursor \in Nat /\ Path \subseteq Nat
  BY DeletionAssumption DEF DeletionTypeOK
<1>2. Page(cursor) \subseteq rows /\ Page(cursor) \in SUBSET Path
  BY <1>1 DEF Page, After
<1>3. cursor' = IF Page(cursor) = {} THEN cursor ELSE LastOf(Page(cursor))
  BY DEF ListPage, LastOf
<1>4. CASE Page(cursor) = {}
  BY <1>1, <1>2, <1>3, <1>4 DEF ListPage
<1>5. CASE Page(cursor) # {}
  <2>1. /\ LastOf(Page(cursor)) \in Page(cursor)
        /\ \A q \in Page(cursor) : q <= LastOf(Page(cursor))
    BY <1>2, <1>5, LastOfPage
  <2>. QED
    BY <1>1, <1>2, <1>3, <1>5, <2>1 DEF ListPage
<1>. QED
  BY <1>4, <1>5

\* What EndScan leaves: everything a scan keeps is at rest.
LEMMA RestIsTyped ==
    ASSUME DeletionTypeOK, EndScan, UNCHANGED diskVars,
           config' \in Config, rows' \subseteq Path, memory' = memory,
           owed' = owed, changes' \in Nat, faults' \in Nat
    PROVE  DeletionTypeOK'
  BY DEF DeletionTypeOK, EndScan, diskVars

\* Every step of the world and of the scanner preserves the types.
LEMMA TypeStep ==
    ASSUME DeletionTypeOK, [Next]_vars
    PROVE  DeletionTypeOK'
<1> USE DEF DeletionTypeOK
<1>1. ASSUME NEW q \in Path, ChangeFile(q) PROVE DeletionTypeOK'
  BY <1>1 DEF ChangeFile, Change, dataVars, covVars, mountVars, pageVars, tallyVars
<1>2. ASSUME NEW q \in Path, Seal(q) PROVE DeletionTypeOK'
  BY <1>2 DEF Seal, Change, dataVars, covVars, mountVars, pageVars, tallyVars
<1>3. ASSUME NEW v \in Volume, Plug(v) \/ Unplug(v) PROVE DeletionTypeOK'
  BY <1>3 DEF Plug, Unplug, Change, dataVars, covVars, mountVars, pageVars, tallyVars
<1>3a. ASSUME NEW r \in Root, MoveRoot(r) PROVE DeletionTypeOK'
  BY <1>3a DEF MoveRoot, Beneath, Change, dataVars, covVars, mountVars, pageVars, tallyVars
<1>4. CASE GiveUp \/ Restart \/ DeclineAll
  BY <1>4, RestIsTyped DEF GiveUp, Restart, DeclineAll, Fault, NoFault, dataVars
<1>5. CASE Corrupt
  BY <1>5 DEF Corrupt, Corrupted, Fault, diskVars, covVars, mountVars, pageVars, tallyVars
<1>6. ASSUME NEW D \in SUBSET Root, NEW E \in SUBSET Root, BeginScan(D, E)
      PROVE  DeletionTypeOK'
  <2>1. config.include \subseteq Root
    BY DeletionAssumption
  <2>. QED
    BY <1>6, <2>1 DEF BeginScan, Fault, NoFault, diskVars, dataVars, mountVars, pageVars, tallyVars
<1>7. ASSUME NEW r \in Root, NEW missing \in BOOLEAN, WalkRoot(r, missing)
      PROVE  DeletionTypeOK'
  BY <1>7 DEF WalkRoot, Found, Beneath, Refused, NoFault, diskVars, mountVars,
              pageVars, tallyVars, ghostVars
<1>8. CASE WalkEnds \/ PageJudged
  BY <1>8 DEF WalkEnds, PageJudged, NoFault, diskVars, dataVars, covVars, mountVars,
              pageVars, tallyVars, ghostVars
<1>9. CASE Recall
  BY <1>9 DEF Recall, NoFault, Fault, diskVars, dataVars, covVars, pageVars,
              tallyVars, ghostVars
<1>10. CASE ReadMounts
  <2>1. unknown' \subseteq Path /\ live' \subseteq Volume /\ answered' \in BOOLEAN
    BY <1>10 DEF ReadMounts, MountPoints, OnAny
  <2>2. faults' \in Nat
    BY <1>10 DEF ReadMounts, NoFault, Fault
  <2>. QED
    BY <1>10, <2>1, <2>2 DEF ReadMounts, diskVars, dataVars, pageVars, tallyVars,
                             ghostVars
<1>11. CASE Learn
  BY <1>11 DEF Learn, Recorded, Held, NoFault, Fault, diskVars, covVars, pageVars,
               tallyVars
<1>12. CASE ListPage
  <2>1. cursor' \in Nat /\ batch' \subseteq Path
    BY <1>12, CursorAfterPage
  <2>. QED
    BY <1>12, <2>1 DEF ListPage, NoFault, diskVars, dataVars, covVars, mountVars,
                       tallyVars, ghostVars
<1>13. CASE Judge
  BY <1>13 DEF Judge, NoFault, diskVars, dataVars, covVars, mountVars, ghostVars
<1>14. CASE DeleteVanished \/ PruneOutOfScope
  BY <1>14 DEF DeleteVanished, PruneOutOfScope, Held, NoFault, diskVars, covVars,
               mountVars, tallyVars
<1>15. CASE Forget
  <2>1. memory' \in [state : {"absent", "corrupt", "set"}, vols : SUBSET Volume]
    BY <1>15 DEF Forget, Recorded, Remaining
  <2>2. faults' \in Nat
    BY <1>15 DEF Forget, NoFault, Fault
  <2>. QED
    BY <1>15, <2>1, <2>2 DEF Forget, EndScan, diskVars
<1>16. CASE UNCHANGED vars
  BY <1>16 DEF vars, diskVars, dataVars, covVars, mountVars, pageVars, tallyVars, ghostVars
<1>. QED
  BY <1>1, <1>2, <1>3, <1>3a, <1>4, <1>5, <1>6, <1>7, <1>8, <1>9, <1>10, <1>11, <1>12,
     <1>13, <1>14, <1>15, <1>16 DEF Next, World, Scan

-----------------------------------------------------------------------------
(* Each part of the invariant is preserved.                                *)

\* The world changes nothing of the scan but what it remembers of the world.
LEMMA WorldIsOutside ==
    ASSUME World
    PROVE  UNCHANGED <<dataVars, pc, covVars, mountVars, pageVars, tallyVars, owed>>
  BY DEF World, ChangeFile, Seal, Plug, Unplug, MoveRoot, Change

\* The memory of volumes is not lost while it is owed.
LEMMA EvidenceStep ==
    ASSUME ScanInv, [Next]_vars
    PROVE  EvidenceInv'
<1> USE DEF ScanInv, EvidenceInv, EvidenceIsKept, Enumerating, MemoryReadable
<1>1. CASE World
  BY <1>1, WorldIsOutside DEF dataVars, mountVars
<1>2. CASE GiveUp \/ Restart \/ DeclineAll
  BY <1>2 DEF GiveUp, Restart, DeclineAll, EndScan, dataVars
<1>3. CASE Corrupt
  BY <1>3 DEF Corrupt
<1>4. ASSUME NEW D \in SUBSET Root, NEW E \in SUBSET Root, BeginScan(D, E)
      PROVE  EvidenceInv'
  BY <1>4 DEF BeginScan, dataVars
<1>5. ASSUME NEW r \in Root, NEW missing \in BOOLEAN, WalkRoot(r, missing)
      PROVE  EvidenceInv'
  BY <1>5 DEF WalkRoot, ghostVars
<1>6. CASE WalkEnds
  BY <1>6 DEF WalkEnds, dataVars, ghostVars
<1>7. CASE Recall
  BY <1>7 DEF Recall, dataVars, ghostVars
<1>8. CASE ReadMounts
  BY <1>8 DEF ReadMounts, dataVars, ghostVars
<1>9. CASE Learn
  <2>1. CASE UNCHANGED <<memory, known, owed>>
    BY <1>9, <2>1 DEF Learn
  <2>2. CASE MayLearn /\ \E next \in SUBSET Volume :
               /\ known \subseteq next
               /\ memory' = Recorded(next) /\ known' = next
               /\ owed' = Held(owed \cup next, rows)
    BY <1>9, <2>2 DEF Learn, MayLearn, Recorded, Held
  <2>. QED
    BY <1>9, <2>1, <2>2 DEF Learn, DeletionTypeOK
<1>10. CASE ListPage \/ Judge \/ PageJudged
  BY <1>10 DEF ListPage, Judge, PageJudged, dataVars, mountVars, ghostVars
<1>11. CASE DeleteVanished \/ PruneOutOfScope
  BY <1>11 DEF DeleteVanished, PruneOutOfScope, Held, mountVars
<1>12. CASE Forget
  <2>1. rows' = rows /\ owed' = owed /\ pc' = "idle"
    BY <1>12 DEF Forget, EndScan
  <2>2. CASE memory' = memory
    BY <2>1, <2>2
  <2>3. CASE MayLearn /\ memory' = Recorded(Remaining)
    <3>1. ASSUME NEW v \in owed PROVE v \in Remaining
      <4>1. v \in known
        BY <1>12, <2>3 DEF Forget, MayLearn
      <4>2. PICK p \in rows : On[p] = v
        OBVIOUS
      <4>3. p <= cursor /\ p \notin batch
        BY <1>12 DEF Forget, PageInv
      <4>4. v \in occupied
        BY <1>12, <4>1, <4>2, <4>3 DEF Forget, JudgedInv
      <4>. QED
        BY <4>1, <4>4 DEF Remaining
    <3>. QED
      BY <2>1, <2>3, <3>1 DEF Recorded
  <2>. QED
    BY <1>12, <2>2, <2>3 DEF Forget
<1>13. CASE UNCHANGED vars
  BY <1>13 DEF vars, dataVars, mountVars, ghostVars
<1>. QED
  BY <1>1, <1>2, <1>3, <1>4, <1>5, <1>6, <1>7, <1>8, <1>9, <1>10, <1>11, <1>12,
     <1>13 DEF Next, Scan

\* The page, the two lists and the cursor are what the label says.
LEMMA PageStep ==
    ASSUME ScanInv, [Next]_vars
    PROVE  PageInv'
<1> USE DEF ScanInv, PageInv
<1>1. CASE World
  BY <1>1, WorldIsOutside DEF dataVars, pageVars
<1>2. CASE GiveUp \/ Restart \/ DeclineAll \/ Forget
  BY <1>2 DEF GiveUp, Restart, DeclineAll, Forget, EndScan
<1>3. CASE Corrupt
  BY <1>3 DEF Corrupt, pageVars
<1>4. ASSUME NEW D \in SUBSET Root, NEW E \in SUBSET Root, BeginScan(D, E)
      PROVE  PageInv'
  BY <1>4 DEF BeginScan, pageVars
<1>5. ASSUME NEW r \in Root, NEW missing \in BOOLEAN, WalkRoot(r, missing)
      PROVE  PageInv'
  BY <1>5 DEF WalkRoot, pageVars
<1>6. CASE WalkEnds \/ Recall \/ ReadMounts \/ Learn
  BY <1>6 DEF WalkEnds, Recall, ReadMounts, Learn, pageVars
<1>7. CASE ListPage
  <2>1. cursor \in Nat /\ rows \subseteq Path /\ Path \subseteq Nat
    BY DeletionAssumption DEF DeletionTypeOK
  <2>2. ASSUME short' PROVE \A p \in rows : p <= cursor'
    <3>1. Page(cursor) = After(cursor)
      BY <1>7, <2>1, <2>2, ShortPage DEF ListPage
    <3>2. /\ cursor' \in Nat
          /\ After(cursor) = {} => cursor' = cursor
          /\ After(cursor) # {} => cursor' \in After(cursor)
          /\ \A q \in After(cursor) : q <= cursor'
      BY <1>7, <3>1, CursorAfterPage
    <3>3. ASSUME NEW p \in rows, p \notin After(cursor) PROVE p <= cursor'
      <4>1. p <= cursor /\ p \in Nat
        BY <2>1, <3>3 DEF After
      <4>2. cursor <= cursor'
        BY <2>1, <3>2 DEF After
      <4>. QED
        BY <2>1, <3>2, <4>1, <4>2
    <3>. QED
      BY <3>2, <3>3
  <2>. QED
    BY <1>7, <2>2 DEF ListPage, dataVars
<1>8. CASE Judge \/ PageJudged
  BY <1>8 DEF Judge, PageJudged, dataVars, pageVars
<1>9. CASE DeleteVanished \/ PruneOutOfScope
  BY <1>9 DEF DeleteVanished, PruneOutOfScope
<1>10. CASE UNCHANGED vars
  BY <1>10 DEF vars, dataVars, pageVars
<1>. QED
  BY <1>1, <1>2, <1>3, <1>4, <1>5, <1>6, <1>7, <1>8, <1>9, <1>10 DEF Next, Scan

\* Lstat answers one of four, and each has exactly one verdict.
LEMMA VerdictIsOne ==
    ASSUME DeletionTypeOK, NEW p \in Path, NEW stat \in Lstat(p)
    PROVE  /\ stat \in {"file", "other", "absent", "error"}
           /\ Verdict(p, stat) \in {"ignore", "prune", "unverified", "keep", "delete"}
<1>1. disk[p] \in {"file", "other", "absent", "behind"}
  BY DEF DeletionTypeOK
<1>2. stat \in {"file", "other", "absent", "error"}
  BY <1>1 DEF Lstat
<1>. QED
  BY <1>2 DEF Verdict

\* Nothing the cursor passes is skipped.
LEMMA JudgedStep ==
    ASSUME ScanInv, [Next]_vars
    PROVE  JudgedInv'
<1> USE DEF ScanInv, JudgedInv, Enumerating
<1>1. CASE World
  BY <1>1, WorldIsOutside DEF dataVars, mountVars, pageVars, tallyVars
<1>2. CASE GiveUp \/ Restart \/ DeclineAll \/ Forget
  BY <1>2 DEF GiveUp, Restart, DeclineAll, Forget, EndScan
<1>3. CASE Corrupt
  BY <1>3 DEF Corrupt
<1>4. ASSUME NEW D \in SUBSET Root, NEW E \in SUBSET Root, BeginScan(D, E)
      PROVE  JudgedInv'
  BY <1>4 DEF BeginScan
<1>5. ASSUME NEW r \in Root, NEW missing \in BOOLEAN, WalkRoot(r, missing)
      PROVE  JudgedInv'
  BY <1>5 DEF WalkRoot
<1>6. CASE WalkEnds \/ Recall \/ ReadMounts
  BY <1>6 DEF WalkEnds, Recall, ReadMounts
<1>7. CASE Learn
  <2>1. cursor' = 0 /\ rows' = rows
    BY <1>7 DEF Learn, PageInv, pageVars
  <2>2. \A p \in rows : ~(p <= 0)
    BY DeletionAssumption DEF DeletionTypeOK
  <2>. QED
    BY <2>1, <2>2
<1>8. CASE ListPage
  <2>1. cursor \in Nat /\ rows \subseteq Path /\ Path \subseteq Nat
    BY DeletionAssumption DEF DeletionTypeOK
  <2>2. ASSUME NEW p \in rows, p <= cursor', p \notin batch' PROVE p <= cursor
    <3>1. CASE Page(cursor) = {}
      BY <1>8, <2>2, <3>1, CursorAfterPage
    <3>2. CASE Page(cursor) # {} /\ p \in After(cursor)
      <4>1. cursor' \in Page(cursor) /\ batch' = Page(cursor)
        BY <1>8, <3>2, CursorAfterPage
      <4>2. p \in Page(cursor)
        BY <2>1, <2>2, <3>2, <4>1, PageHasNoGap
      <4>. QED
        BY <2>2, <4>1, <4>2
    <3>3. CASE p \notin After(cursor)
      BY <2>1, <3>3 DEF After
    <3>. QED
      BY <3>1, <3>2, <3>3
  <2>. QED
    BY <1>8, <2>2 DEF ListPage, PageInv, dataVars, mountVars, tallyVars
<1>9. CASE Judge
  <2>1. PICK p \in batch :
          /\ batch' = batch \ {p}
          /\ occupied' = occupied \cup (known \cap {On[p]})
          /\ \E stat \in Lstat(p) :
               /\ vanished' = IF Verdict(p, stat) = "delete"
                              THEN vanished \cup {p} ELSE vanished
               /\ outOfScope' = IF Verdict(p, stat) = "prune"
                                THEN outOfScope \cup {p} ELSE outOfScope
               /\ kept' = IF Verdict(p, stat) = "keep"
                          THEN kept \cup {p} ELSE kept
               /\ counted' = IF Verdict(p, stat) \in {"ignore", "unverified"}
                             THEN counted \cup {p} ELSE counted
    BY <1>9 DEF Judge
  <2>2. p \in kept' \cup counted' \cup vanished' \cup outOfScope'
    BY <2>1, VerdictIsOne DEF DeletionTypeOK
  <2>3. /\ kept \subseteq kept' /\ counted \subseteq counted'
        /\ vanished \subseteq vanished' /\ outOfScope \subseteq outOfScope'
        /\ occupied \subseteq occupied' /\ (On[p] \in known => On[p] \in occupied')
    BY <2>1
  <2>4. pc = "judge" /\ UNCHANGED <<rows, known, cursor>>
    BY <1>9 DEF Judge, dataVars, mountVars
  <2>5. \A q \in rows : q \notin batch' => q = p \/ q \notin batch
    BY <2>1
  <2>. QED
    BY <2>2, <2>3, <2>4, <2>5
<1>10. CASE PageJudged
  BY <1>10 DEF PageJudged, dataVars, mountVars, pageVars, tallyVars
<1>11. CASE DeleteVanished \/ PruneOutOfScope
  BY <1>11 DEF DeleteVanished, PruneOutOfScope, mountVars, tallyVars
<1>12. CASE UNCHANGED vars
  BY <1>12 DEF vars, dataVars, mountVars, pageVars, tallyVars
<1>. QED
  BY <1>1, <1>2, <1>3, <1>4, <1>5, <1>6, <1>7, <1>8, <1>9, <1>10, <1>11, <1>12
     DEF Next, Scan

\* Rows are put out of scope by the configuration alone.
LEMMA ScopeStep ==
    ASSUME ScanInv, [Next]_vars
    PROVE  ScopeInv'
<1> USE DEF ScanInv, ScopeInv, Configured
<1>1. CASE World
  BY <1>1, WorldIsOutside DEF dataVars, covVars, pageVars
<1>2. CASE GiveUp \/ Restart \/ DeclineAll \/ Forget
  BY <1>2 DEF GiveUp, Restart, DeclineAll, Forget, EndScan
<1>3. CASE Corrupt
  BY <1>3 DEF Corrupt, covVars, pageVars
<1>4. ASSUME NEW D \in SUBSET Root, NEW E \in SUBSET Root, BeginScan(D, E)
      PROVE  ScopeInv'
  BY <1>4 DEF BeginScan, dataVars, pageVars
<1>5. ASSUME NEW r \in Root, NEW missing \in BOOLEAN, WalkRoot(r, missing)
      PROVE  ScopeInv'
  BY <1>5 DEF WalkRoot, pageVars
<1>6. CASE WalkEnds \/ PageJudged
  BY <1>6 DEF WalkEnds, PageJudged, dataVars, covVars, pageVars
<1>7. CASE Recall \/ ListPage
  BY <1>7 DEF Recall, ListPage, dataVars, covVars, pageVars
<1>8. CASE ReadMounts \/ Learn
  BY <1>8 DEF ReadMounts, Learn, dataVars, covVars, pageVars
<1>9. CASE Judge
  <2>1. pc = "judge" /\ UNCHANGED <<config, roots, unresolved, pc>>
    BY <1>9 DEF Judge, dataVars, covVars
  <2>2. PICK p \in batch : \E stat \in Lstat(p) :
          outOfScope' = IF Verdict(p, stat) = "prune"
                        THEN outOfScope \cup {p} ELSE outOfScope
    BY <1>9 DEF Judge
  <2>3. ASSUME NEW stat \in Lstat(p), Verdict(p, stat) = "prune"
        PROVE  ~Configured(p)
    <3>1. stat \in {"file", "other", "absent", "error"}
      BY VerdictIsOne DEF DeletionTypeOK
    <3>. QED
      BY <2>1, <2>3, <3>1 DEF Verdict
  <2>. QED
    BY <2>1, <2>2, <2>3
<1>10. CASE DeleteVanished \/ PruneOutOfScope
  BY <1>10 DEF DeleteVanished, PruneOutOfScope, covVars
<1>11. CASE UNCHANGED vars
  BY <1>11 DEF vars, dataVars, covVars, pageVars
<1>. QED
  BY <1>1, <1>2, <1>3, <1>4, <1>5, <1>6, <1>7, <1>8, <1>9, <1>10, <1>11
     DEF Next, Scan

\* A world that holds still is as the walk and the mount table left it.
LEMMA VouchStep ==
    ASSUME ScanInv, [Next]_vars
    PROVE  VouchInv'
<1> USE DEF ScanInv, VouchInv, Enumerating, Attached
<1>1. ASSUME NEW q \in Path, ChangeFile(q) PROVE VouchInv'
  BY <1>1 DEF ChangeFile, Change, DeletionTypeOK, covVars, mountVars
<1>2. ASSUME NEW q \in Path, Seal(q) PROVE VouchInv'
  BY <1>2 DEF Seal, Change, covVars, mountVars
<1>3. ASSUME NEW v \in Volume, Plug(v) \/ Unplug(v) PROVE VouchInv'
  <2>1. /\ UNCHANGED <<disk, gone, stirred, pc, todo, roots, unknown, known, live>>
        /\ moved' = moved \cup {v}
        /\ \A w : w # v => (w \in mounted' <=> w \in mounted)
    BY <1>3 DEF Plug, Unplug, Change, covVars, mountVars
  <2>. QED
    BY <2>1
<1>3a. ASSUME NEW r \in Root, MoveRoot(r) PROVE VouchInv'
  <2>1. /\ UNCHANGED <<mounted, disk, moved, pc, todo, roots, unknown, known, live>>
        /\ stirred' = stirred \cup Beneath(r)
        /\ \A q : q # r => (q \in gone' <=> q \in gone)
    BY <1>3a DEF MoveRoot, Change, covVars, mountVars
  <2>. QED
    BY <2>1 DEF Beneath
<1>4. CASE GiveUp \/ Restart \/ DeclineAll \/ Forget
  BY <1>4 DEF GiveUp, Restart, DeclineAll, Forget, EndScan
<1>5. CASE Corrupt
  BY <1>5 DEF Corrupt, diskVars, covVars, mountVars
<1>6. ASSUME NEW D \in SUBSET Root, NEW E \in SUBSET Root, BeginScan(D, E)
      PROVE  VouchInv'
  BY <1>6 DEF BeginScan, mountVars
<1>7. ASSUME NEW r \in Root, NEW missing \in BOOLEAN, WalkRoot(r, missing)
      PROVE  VouchInv'
  <2>1. /\ pc = "walk" /\ todo' = todo \ {r}
        /\ UNCHANGED <<mounted, disk, gone, pc, roots, live, moved, stirred>>
        /\ unknown \subseteq unknown'
    BY <1>7 DEF WalkRoot, diskVars, mountVars, ghostVars
  <2>2. \A p \in Path :
          RootOf[p] = r /\ ((disk[p] = "behind" /\ Attached(p)) \/ r \in gone)
            => p \in unknown'
    BY <1>7 DEF WalkRoot, Beneath, Refused, Reachable
  <2>. QED
    BY <2>1, <2>2
<1>8. CASE WalkEnds \/ Recall
  BY <1>8 DEF WalkEnds, Recall, diskVars, covVars, mountVars, ghostVars
<1>9. CASE ReadMounts
  <2>1. /\ pc = "mounts" /\ pc' = "learn" /\ live' \subseteq mounted
        /\ UNCHANGED <<mounted, disk, gone, todo, roots, known, moved, stirred>>
        /\ unknown \subseteq unknown'
    BY <1>9 DEF ReadMounts, MountPoints, diskVars, ghostVars
  <2>2. \A p \in Path : RootOf[p] \in roots /\ On[p] \in known /\ ~Attached(p)
                          => p \in unknown'
    BY <1>9 DEF ReadMounts, MountPoints, OnAny, Absent
  <2>. QED
    BY <2>1, <2>2
<1>10. CASE Learn
  <2>1. /\ pc = "learn" /\ pc' = "list" /\ known' \subseteq known \cup live
        /\ UNCHANGED <<mounted, disk, gone, todo, roots, unknown, live, moved, stirred>>
    BY <1>10 DEF Learn, diskVars, covVars
  <2>. QED
    BY <2>1
<1>11. CASE ListPage \/ Judge \/ PageJudged
  BY <1>11 DEF ListPage, Judge, PageJudged, diskVars, covVars, mountVars, ghostVars
<1>12. CASE DeleteVanished \/ PruneOutOfScope
  BY <1>12 DEF DeleteVanished, PruneOutOfScope, diskVars, covVars, mountVars
<1>13. CASE UNCHANGED vars
  BY <1>13 DEF vars, diskVars, covVars, mountVars, ghostVars
<1>. QED
  BY <1>1, <1>2, <1>3, <1>3a, <1>4, <1>5, <1>6, <1>7, <1>8, <1>9, <1>10, <1>11, <1>12,
     <1>13 DEF Next, World, Scan

\* A row is put on the list for a reason, and the reason stays.
LEMMA VanishStep ==
    ASSUME ScanInv, [Next]_vars
    PROVE  VanishInv'
<1> USE DEF ScanInv, VanishInv, LostForAReason, Attached
<1>1. ASSUME NEW q \in Path, ChangeFile(q) PROVE VanishInv'
  BY <1>1 DEF ChangeFile, Change, DeletionTypeOK, pageVars
<1>2. ASSUME NEW q \in Path, Seal(q) PROVE VanishInv'
  BY <1>2 DEF Seal, Change, pageVars
<1>3. ASSUME NEW v \in Volume, Plug(v) \/ Unplug(v) PROVE VanishInv'
  <2>1. /\ UNCHANGED <<disk, stirred, vanished, owed>>
        /\ moved' = moved \cup {v}
        /\ \A w : w # v => (w \in mounted' <=> w \in mounted)
    BY <1>3 DEF Plug, Unplug, Change, pageVars
  <2>. QED
    BY <2>1
<1>3a. ASSUME NEW r \in Root, MoveRoot(r) PROVE VanishInv'
  BY <1>3a DEF MoveRoot, Change, pageVars
<1>4. CASE GiveUp \/ Restart \/ DeclineAll \/ Forget
  BY <1>4 DEF GiveUp, Restart, DeclineAll, Forget, EndScan
<1>5. ASSUME vanished' = {} PROVE VanishInv'
  BY <1>5
<1>6. CASE Corrupt \/ WalkEnds \/ Recall \/ ReadMounts \/ Learn
  BY <1>5, <1>6 DEF Corrupt, WalkEnds, Recall, ReadMounts, Learn, PageInv, pageVars
<1>7. ASSUME NEW D \in SUBSET Root, NEW E \in SUBSET Root, BeginScan(D, E)
      PROVE  VanishInv'
  BY <1>5, <1>7 DEF BeginScan, PageInv, pageVars
<1>8. ASSUME NEW r \in Root, NEW missing \in BOOLEAN, WalkRoot(r, missing)
      PROVE  VanishInv'
  BY <1>5, <1>8 DEF WalkRoot, PageInv, pageVars
<1>9. CASE ListPage \/ PruneOutOfScope \/ DeleteVanished
  BY <1>5, <1>9 DEF ListPage, PruneOutOfScope, DeleteVanished, PageInv
<1>10. CASE PageJudged
  BY <1>10 DEF PageJudged, diskVars, pageVars, ghostVars
<1>11. CASE Judge
  <2>1. /\ pc = "judge"
        /\ UNCHANGED <<mounted, disk, gone, owed, moved, stirred>>
    BY <1>11 DEF Judge, diskVars, ghostVars
  <2>2. PICK p \in batch : \E stat \in Lstat(p) :
          vanished' = IF Verdict(p, stat) = "delete"
                      THEN vanished \cup {p} ELSE vanished
    BY <1>11 DEF Judge
  <2>3. ASSUME NEW stat \in Lstat(p), Verdict(p, stat) = "delete"
        PROVE  LostForAReason(p)
    <3>1. /\ p \in Path /\ disk[p] \in {"file", "other", "absent", "behind"}
          /\ stat \in {"file", "other", "absent", "error"}
      BY VerdictIsOne DEF DeletionTypeOK
    <3>2. /\ RootOf[p] \in roots /\ p \notin unknown
          /\ \/ stat = "other"
             \/ stat = "absent" /\ recall = "known"
      BY <2>3, <3>1 DEF Verdict, Blind
    <3>3. CASE Attached(p)
      <4>1. RootOf[p] \notin gone /\ disk[p] # "behind" => disk[p] \in {"other", "absent"}
        BY <2>3, <3>1, <3>2, <3>3 DEF Lstat, Reachable
      <4>2. RootOf[p] \in gone \/ disk[p] = "behind" => p \in stirred \/ On[p] \in moved
        BY <2>1, <3>1, <3>2, <3>3 DEF VouchInv
      <4>. QED
        BY <4>1, <4>2
    <3>4. CASE ~Attached(p)
      <4>1. recall = "known"
        BY <2>3, <3>2, <3>4 DEF Lstat, Reachable
      <4>2. owed \subseteq known
        BY <2>1, <4>1 DEF EvidenceInv, EvidenceIsKept, Enumerating, MemoryReadable
      <4>3. On[p] \in known => On[p] \in moved
        BY <2>1, <3>1, <3>2, <3>4 DEF VouchInv, Enumerating
      <4>. QED
        BY <3>4, <4>2, <4>3
    <3>. QED
      BY <3>3, <3>4
  <2>. QED
    BY <2>1, <2>2, <2>3
<1>12. CASE UNCHANGED vars
  BY <1>12 DEF vars, diskVars, pageVars, ghostVars
<1>. QED
  BY <1>1, <1>2, <1>3, <1>3a, <1>4, <1>6, <1>7, <1>8, <1>9, <1>10, <1>11, <1>12
     DEF Next, World, Scan

-----------------------------------------------------------------------------
(* The theorems.                                                           *)

\* The invariant holds throughout.
THEOREM ScanInvHolds == Spec => []ScanInv
<1>1. Init => ScanInv
  <2> SUFFICES ASSUME Init PROVE ScanInv
    OBVIOUS
  <2>1. DeletionTypeOK
    BY DEF Init, DeletionTypeOK, NoMemory
  <2>2. EvidenceInv /\ PageInv /\ JudgedInv
    BY DEF Init, EvidenceInv, EvidenceIsKept, PageInv, JudgedInv, Enumerating
  <2>3. ScopeInv /\ VouchInv /\ VanishInv
    BY DEF Init, ScopeInv, VouchInv, VanishInv, Enumerating
  <2>. QED
    BY <2>1, <2>2, <2>3 DEF ScanInv
<1>2. ScanInv /\ [Next]_vars => ScanInv'
  BY TypeStep, EvidenceStep, PageStep, JudgedStep, ScopeStep, VouchStep,
     VanishStep DEF ScanInv
<1>. QED
  BY <1>1, <1>2, PTL DEF Spec

\* Nothing but damage to the stored value loses the record of a volume that
\* the catalog holds rows of.
THEOREM EvidenceSurvives == Spec => []EvidenceIsKept
<1>1. ScanInv => EvidenceIsKept
  BY DEF ScanInv, EvidenceInv
<1>. QED
  BY <1>1, ScanInvHolds, PTL

\* After a complete enumeration every row left was seen or counted.
THEOREM EveryRowIsJudged == Spec => []NothingIsSkipped
<1>1. ScanInv => NothingIsSkipped
  BY DEF ScanInv, NothingIsSkipped, PageInv, JudgedInv, Enumerating
<1>. QED
  BY <1>1, ScanInvHolds, PTL

\* flushDeletes takes what the pass listed as vanished, and nothing else
\* takes rows at that label.
THEOREM DeletionIsEarned == Spec => DeletesOnEvidence
<1>1. ScanInv /\ [Next]_vars
        => [pc = "delete" => \A p \in rows \ rows' : LostForAReason(p)]_vars
  <2> SUFFICES ASSUME ScanInv, [Next]_vars, pc = "delete", NEW p \in rows \ rows'
               PROVE  LostForAReason(p)
    OBVIOUS
  <2>1. DeleteVanished
    BY WorldIsOutside DEF Next, Scan, vars, dataVars, GiveUp, Restart, Corrupt,
       BeginScan, DeclineAll, WalkRoot, WalkEnds, Recall, ReadMounts, Learn,
       ListPage, Judge, PageJudged, PruneOutOfScope, Forget
  <2>. QED
    BY <2>1 DEF DeleteVanished, ScanInv, VanishInv
<1>. QED
  BY <1>1, ScanInvHolds, PTL DEF Spec, DeletesOnEvidence

\* The second flush takes rows the configuration puts out of scope.
THEOREM PruningIsConfigured == Spec => PrunesByConfiguration
<1>1. ScanInv /\ [Next]_vars
        => [pc = "prune" => \A p \in rows \ rows' : ~Configured(p)]_vars
  <2> SUFFICES ASSUME ScanInv, [Next]_vars, pc = "prune", NEW p \in rows \ rows'
               PROVE  ~Configured(p)
    OBVIOUS
  <2>1. PruneOutOfScope
    BY WorldIsOutside DEF Next, Scan, vars, dataVars, GiveUp, Restart, Corrupt,
       BeginScan, DeclineAll, WalkRoot, WalkEnds, Recall, ReadMounts, Learn,
       ListPage, Judge, PageJudged, DeleteVanished, Forget
  <2>. QED
    BY <2>1 DEF PruneOutOfScope, ScanInv, ScopeInv
<1>. QED
  BY <1>1, ScanInvHolds, PTL DEF Spec, PrunesByConfiguration
=============================================================================
