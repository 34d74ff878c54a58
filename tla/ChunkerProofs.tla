---------------------------- MODULE ChunkerProofs ---------------------------
(* Theorems about the chunker for any document, any model's input ceiling  *)
(* and any byte budgets in the order the code gives them.                  *)
EXTENDS Chunker, SequenceTheorems, FiniteSetTheorems, WellFoundedInduction, TLAPS

-----------------------------------------------------------------------------
(* The inductive invariant.                                                *)

BlockRec == [start : Nat, end : Nat, path : Seq(Parts)]
RunRec == [first : Nat, last : Nat]
SectionRec == [path : Seq(Parts), preamble : BOOLEAN, first : Nat, last : Nat]
FrameRec == [level : Nat, parts : Seq(Parts)]
CandRec == [start : Nat, end : Nat, path : Seq(Parts), preamble : BOOLEAN, warn : BOOLEAN]

ChunkerTypeOK ==
    /\ base \in Nat /\ length \in Nat /\ scanned \in Nat
    /\ stack \in Seq(FrameRec)
    /\ blocks \in Seq(BlockRec)
    /\ sections \in Seq(SectionRec)
    /\ pc \in {"scan", "next", "pack", "emit", "split", "merge", "done"}
    /\ sec \in SectionRec
    /\ at \in Nat /\ cur \in Nat /\ from \in Nat
    /\ groups \in Seq(RunRec)
    /\ cands \in Seq(CandRec)
    /\ i \in Nat \ {0}

Chunking == pc \in {"pack", "emit", "split"}

\* A run of blocks with one path.
RunUnder(r, path) ==
    /\ 1 <= r.first /\ r.first <= r.last /\ r.last <= Len(blocks)
    /\ \A n \in r.first..r.last : blocks[n].path = path

\* The blocks of the text follow each other.
TextInv ==
    /\ \A n \in DOMAIN blocks : blocks[n].start < blocks[n].end /\ blocks[n].end <= length
    /\ \A m, n \in DOMAIN blocks : m < n => blocks[m].end <= blocks[n].start

\* So do the sections, and the one in hand is before those still to come.
SectionInv ==
    /\ \A j \in DOMAIN sections : RunUnder(sections[j], sections[j].path)
    /\ \A j, k \in DOMAIN sections : j < k => sections[j].last < sections[k].first
    /\ pc = "scan" =>
         /\ sec.last = Len(blocks) /\ 1 <= sec.first /\ sec.first <= sec.last + 1
         /\ \A n \in sec.first..sec.last : blocks[n].path = sec.path
         /\ \A j \in DOMAIN sections : sections[j].last < sec.first
    /\ Chunking =>
         /\ RunUnder(sec, sec.path)
         /\ \A j \in DOMAIN sections : sec.last < sections[j].first
    /\ pc \in {"merge", "done"} => sections = <<>>

\* Groups lie in the section; each begins and ends after its predecessor, and
\* one of several blocks is within the cap.
GroupInv ==
    /\ ~Chunking => groups = <<>>
    /\ \A g \in DOMAIN groups :
         /\ sec.first <= groups[g].first /\ groups[g].first <= groups[g].last
         /\ groups[g].last <= sec.last
         /\ groups[g].first < groups[g].last => Span(groups[g]) <= CapOf(sec.path)
    /\ \A g, h \in DOMAIN groups : g < h => /\ groups[g].first < groups[h].first
                                            /\ groups[g].last < groups[h].last
    /\ pc = "pack" =>
         /\ sec.first <= cur /\ cur <= at /\ at <= sec.last + 1
         /\ sec.first < at => cur < at
         /\ cur < at - 1 => Span(Run(cur, at - 1)) <= CapOf(sec.path)
         /\ \A g \in DOMAIN groups : groups[g].first < cur /\ groups[g].last < at - 1
    /\ pc = "split" =>
         /\ groups # <<>> /\ groups[1].first = groups[1].last
         /\ blocks[groups[1].first].start <= from /\ from < blocks[groups[1].last].end

\* Chunks are in order, and what is still to be emitted begins after them and
\* ends with a block they do not reach.
OrderInv ==
    /\ \A k \in DOMAIN cands : cands[k].start < cands[k].end
    /\ \A j, k \in DOMAIN cands : j < k => /\ cands[j].start < cands[k].start
                                           /\ cands[j].end < cands[k].end
    /\ pc = "scan" => cands = <<>>
    /\ \A k \in DOMAIN cands, j \in DOMAIN sections :
         cands[k].end <= blocks[sections[j].first].start
    /\ pc = "pack" => \A k \in DOMAIN cands : cands[k].end <= blocks[sec.first].start
    /\ \A k \in DOMAIN cands, g \in DOMAIN groups :
         (Chunking /\ ~(pc = "split" /\ g = 1)) =>
           /\ cands[k].start < blocks[groups[g].first].start
           /\ cands[k].end <= blocks[groups[g].last].start
    /\ pc = "split" => \A k \in DOMAIN cands : cands[k].start < from /\ cands[k].end <= from

Overlaps(c, b) == c.start < b.end /\ b.start < c.end

\* The breadcrumb of every chunk so far is true.
CrumbInv ==
    \A k \in DOMAIN cands, n \in DOMAIN blocks :
      Overlaps(cands[k], blocks[n]) => IsPrefix(cands[k].path, blocks[n].path)

\* Every chunk so far is within its own ceiling.
FitInv ==
    base > 0 => \A k \in DOMAIN cands : Size(cands[k]) <= SectionCeiling(cands[k].path)

\* A byte of a block is in a chunk, or its block still has to be emitted.
InChunk(byte) == \E k \in DOMAIN cands : cands[k].start <= byte /\ byte < cands[k].end

Awaited(n, byte) ==
    \/ \E j \in DOMAIN sections : sections[j].first <= n /\ n <= sections[j].last
    \/ pc = "scan" /\ sec.first <= n
    \/ pc = "pack" /\ cur <= n /\ n <= sec.last
    \/ \E g \in DOMAIN groups : /\ groups[g].first <= n /\ n <= groups[g].last
                                /\ pc = "split" /\ g = 1 => from <= byte

CoverInv ==
    \A n \in DOMAIN blocks : \A byte \in blocks[n].start..(blocks[n].end - 1) :
      Awaited(n, byte) \/ InChunk(byte)

Inv == /\ ChunkerTypeOK /\ TextInv /\ SectionInv /\ GroupInv /\ OrderInv
       /\ CrumbInv /\ FitInv /\ CoverInv

-----------------------------------------------------------------------------
(* The operators.                                                          *)

\* A set of numbers that is not empty has a least one.
LEMMA LeastNumber ==
    ASSUME NEW N \in SUBSET Nat, N # {}
    PROVE  Min(N) \in N /\ \A m \in N : Min(N) <= m
<1> DEFINE Less == OpToRel(<, Nat)
<1>1. IsWellFoundedOn(Less, Nat)
  BY NatLessThanWellFounded, Zenon
<1>2. Less = {ss \in Nat \X Nat : ss[1] < ss[2]}
  BY Zenon DEF OpToRel
<1> HIDE DEF Less
<1>3. PICK n \in N : \A m \in N : ~(<<m, n>> \in Less)
  BY <1>1, WFMin, Zenon
<1>4. \A m \in N : ~(m < n)
  BY <1>2, <1>3
<1>5. \A m \in N : n <= m
  BY <1>4
<1>. QED
  BY <1>5 DEF Min

\* What the breadcrumb takes is a number of bytes.
LEMMA PathBytesIsNat ==
    ASSUME NEW path \in Seq(Parts)
    PROVE  PathBytes(path) \in Nat
<1> DEFINE Said == {k \in DOMAIN path : path[k] # Blank}
<1>1. Cardinality(Said) \in Nat
  <2>1. IsFiniteSet(1..Len(path))
    BY FS_Interval
  <2>2. Said \subseteq 1..Len(path)
    OBVIOUS
  <2>. QED
    BY <2>1, <2>2, FS_Subset, FS_CardinalityType
<1> HIDE DEF Said
<1>2. \A a, b \in Nat : a * b \in Nat
  OBVIOUS
<1>3. PartBytes \in Nat /\ SepBytes \in Nat
  BY ChunkerAssumption
<1>4. path # <<>> => Len(path) - 1 \in Nat
  OBVIOUS
<1>5. PathBytes(path) = PartBytes * Cardinality(Said)
        + (IF path = <<>> THEN 0 ELSE SepBytes * (Len(path) - 1))
  BY DEF PathBytes, Said
<1>. QED
  BY <1>1, <1>2, <1>3, <1>4, <1>5

\* The cap is within the ceiling and the target within the cap.
Budgets(path) ==
    /\ SectionCeiling(path) \in Nat /\ CapOf(path) \in Nat /\ TargetOf(path) \in Nat
    /\ TargetOf(path) <= CapOf(path)
    /\ SectionCeiling(path) > 0 => CapOf(path) <= SectionCeiling(path)
    /\ base > 0 =>
         /\ SectionCeiling(path) > 0
         /\ SectionCeiling(path) + PathBytes(path) <= base \/ SectionCeiling(path) <= Floor

\* What sectionCeiling and chunkSection make of the budgets, for every path.
LEMMA BudgetsAgree ==
    ASSUME NEW path \in Seq(Parts), base \in Nat
    PROVE  Budgets(path)
<1>1. PathBytes(path) \in Nat
  BY PathBytesIsNat
<1>2. /\ Floor \in Nat \ {0} /\ MaxBytes \in Nat \ {0} /\ Target \in Nat \ {0}
  BY ChunkerAssumption
<1>3. /\ SectionCeiling(path) \in Nat
      /\ base > 0 =>
         /\ SectionCeiling(path) > 0
         /\ SectionCeiling(path) + PathBytes(path) <= base \/ SectionCeiling(path) <= Floor
  BY <1>1, <1>2 DEF SectionCeiling
<1>. QED
  BY <1>2, <1>3 DEF Budgets, CapOf, TargetOf, Least

\* The overlap never begins at the first block of a group.
LEMMA OverlapIsStrict ==
    ASSUME NEW g \in RunRec, g.first <= g.last
    PROVE  OverlapSuffix(g) \in (g.first + 1)..(g.last + 1)
<1> DEFINE fits == {k \in (g.first + 1)..g.last : Span(Run(k, g.last)) <= Overlap}
<1>1. g.first \in Nat /\ g.last \in Nat
  BY DEF RunRec
<1>2. fits \in SUBSET Nat /\ fits \subseteq (g.first + 1)..g.last
  BY <1>1
<1>3. OverlapSuffix(g) = IF fits = {} THEN g.last + 1 ELSE Min(fits)
  BY DEF OverlapSuffix
<1> HIDE DEF fits
<1>4. fits # {} => Min(fits) \in (g.first + 1)..g.last
  BY <1>2, LeastNumber
<1>5. CASE fits = {}
  BY <1>1, <1>3, <1>5
<1>6. CASE fits # {}
  <2>1. OverlapSuffix(g) = Min(fits)
    BY <1>3, <1>6
  <2>2. OverlapSuffix(g) \in (g.first + 1)..g.last
    BY <1>4, <1>6, <2>1
  <2>. QED
    BY <1>1, <2>2
<1>. QED
  BY <1>5, <1>6

\* A prefix, place by place.
LEMMA PrefixByPlace ==
    ASSUME NEW S, NEW s \in Seq(S), NEW t \in Seq(S)
    PROVE  IsPrefix(s, t) <=> /\ Len(s) <= Len(t)
                              /\ \A k \in 1..Len(s) : s[k] = t[k]
<1>1. Len(s) \in Nat /\ Len(t) \in Nat /\ SubSeq(s, 1, Len(s)) = s
  BY SubSeqFull
<1>2. ASSUME Len(s) <= Len(t)
      PROVE  /\ SubSeq(t, 1, Len(s)) \in Seq(S) /\ Len(SubSeq(t, 1, Len(s))) = Len(s)
             /\ \A k \in 1..Len(s) : SubSeq(t, 1, Len(s))[k] = t[k]
  BY <1>1, <1>2, SubSeqProperties
<1>3. ASSUME Len(s) <= Len(t), \A k \in 1..Len(s) : s[k] = t[k]
      PROVE  s = SubSeq(t, 1, Len(s))
  BY <1>1, <1>2, <1>3, SeqEqual
<1>. QED
  BY <1>1, <1>2, <1>3 DEF IsPrefix

\* Being a prefix is transitive.
LEMMA PrefixTransitive ==
    ASSUME NEW S, NEW s \in Seq(S), NEW t \in Seq(S), NEW u \in Seq(S),
           IsPrefix(s, t), IsPrefix(t, u)
    PROVE  IsPrefix(s, u)
<1>1. /\ Len(s) <= Len(t) /\ \A k \in 1..Len(s) : s[k] = t[k]
      /\ Len(t) <= Len(u) /\ \A k \in 1..Len(t) : t[k] = u[k]
  BY PrefixByPlace
<1>2. Len(s) <= Len(u) /\ \A k \in 1..Len(s) : s[k] = u[k]
  BY <1>1
<1>. QED
  BY <1>2, PrefixByPlace

\* The common path of two chunks is a path, and a prefix of both of theirs.
LEMMA CommonPathIsCommon ==
    ASSUME NEW p \in Seq(Parts), NEW q \in Seq(Parts)
    PROVE  /\ CommonPath(p, q) \in Seq(Parts)
           /\ IsPrefix(CommonPath(p, q), p) /\ IsPrefix(CommonPath(p, q), q)
<1> DEFINE shorter == Least(Len(p), Len(q))
           differ == {k \in 1..shorter : p[k] # q[k]}
           n == SharedComponents(p, q)
           shared == SubSeq(p, 1, n)
<1>1. shorter \in Nat /\ shorter <= Len(p) /\ shorter <= Len(q)
  BY DEF Least
<1>2. n \in 0..shorter /\ \A k \in 1..n : p[k] = q[k]
  <2>1. n = IF differ = {} THEN shorter ELSE Min(differ) - 1
    BY DEF SharedComponents
  <2>2. differ \in SUBSET Nat /\ \A k \in differ : k \in 1..shorter
    BY <1>1
  <2>3. \A k \in 1..shorter : k \notin differ => p[k] = q[k]
    OBVIOUS
  <2> HIDE DEF differ, n, shorter
  <2>4. CASE differ = {}
    BY <1>1, <2>1, <2>3, <2>4
  <2>5. CASE differ # {}
    <3>1. Min(differ) \in differ /\ \A m \in differ : Min(differ) <= m
      BY <2>2, <2>5, LeastNumber
    <3> DEFINE d == Min(differ)
    <3>a. d \in 1..shorter /\ n = d - 1
      BY <2>1, <2>2, <2>5, <3>1
    <3>b. \A m \in differ : d <= m
      BY <3>1
    <3> HIDE DEF d
    <3>2. n \in 0..shorter
      BY <1>1, <3>a
    <3>3. \A k \in 1..n : k \notin differ /\ k \in 1..shorter
      BY <1>1, <2>2, <3>a, <3>b
    <3>. QED
      BY <2>3, <3>2, <3>3
  <2>. QED
    BY <2>4, <2>5
<1>3. /\ shared \in Seq(Parts) /\ Len(shared) = n
      /\ \A k \in 1..n : shared[k] = p[k]
  <2>1. n \in Nat /\ n <= Len(p) /\ \A k \in 1..n : p[k] \in Parts
    BY <1>1, <1>2
  <2> HIDE DEF n
  <2>. QED
    BY <2>1, SubSeqProperties
<1>4. CommonPath(p, q) = shared \/ CommonPath(p, q) = <<>>
  BY DEF CommonPath, Joined
<1> HIDE DEF n, shared
<1>5. IsPrefix(shared, p) /\ IsPrefix(shared, q)
  BY <1>1, <1>2, <1>3, PrefixByPlace
<1>6. <<>> \in Seq(Parts) /\ IsPrefix(<<>>, p) /\ IsPrefix(<<>>, q)
  <2>1. /\ <<>> \in Seq(Parts) /\ Len(<<>>) = 0
        /\ 0 <= Len(p) /\ 0 <= Len(q) /\ 1..0 = {}
    BY EmptySeq
  <2>. QED
    BY <2>1, PrefixByPlace
<1>. QED
  BY <1>3, <1>4, <1>5, <1>6

\* Removing a place closes the gap.
LEMMA RemoveShape ==
    ASSUME NEW S, NEW t \in Seq(S), NEW k \in 1..Len(t)
    PROVE  /\ RemoveAt(t, k) \in Seq(S) /\ Len(RemoveAt(t, k)) = Len(t) - 1
           /\ \A n \in 1..(Len(t) - 1) :
                RemoveAt(t, k)[n] = IF n < k THEN t[n] ELSE t[n + 1]
<1> DEFINE a == SubSeq(t, 1, k - 1)
           b == SubSeq(t, k + 1, Len(t))
           r == a \o b
<1>1. RemoveAt(t, k) = r
  BY DEF RemoveAt
<1>2. Len(t) \in Nat
  OBVIOUS
<1>3. /\ a \in Seq(S) /\ Len(a) = k - 1
      /\ \A n \in 1..(k - 1) : a[n] = t[n]
  <2>1. \A n \in 1..(k - 1) : t[n] \in S
    OBVIOUS
  <2>2. /\ a \in Seq(S) /\ Len(a) = IF 1 <= k - 1 THEN k - 1 - 1 + 1 ELSE 0
        /\ \A n \in 1..(k - 1 - 1 + 1) : a[n] = t[1 + n - 1]
    BY <2>1, SubSeqProperties
  <2> HIDE DEF a
  <2>. QED
    BY <2>2
<1>4. /\ b \in Seq(S) /\ Len(b) = Len(t) - k
      /\ \A n \in 1..(Len(t) - k) : b[n] = t[k + n]
  <2>1. \A n \in (k + 1)..Len(t) : t[n] \in S
    OBVIOUS
  <2>2. /\ b \in Seq(S) /\ Len(b) = IF k + 1 <= Len(t) THEN Len(t) - (k + 1) + 1 ELSE 0
        /\ \A n \in 1..(Len(t) - (k + 1) + 1) : b[n] = t[k + 1 + n - 1]
    BY <2>1, SubSeqProperties
  <2> HIDE DEF b
  <2>. QED
    BY <2>2
<1> HIDE DEF a, b
<1>5. /\ r \in Seq(S) /\ Len(r) = Len(a) + Len(b)
      /\ \A n \in 1..(Len(a) + Len(b)) : r[n] = IF n <= Len(a) THEN a[n] ELSE b[n - Len(a)]
  BY <1>3, <1>4, ConcatProperties, Zenon
<1> HIDE DEF r
<1>6. Len(r) = Len(t) - 1
  BY <1>2, <1>3, <1>4, <1>5
<1>7. ASSUME NEW n \in 1..(Len(t) - 1)
      PROVE  r[n] = IF n < k THEN t[n] ELSE t[n + 1]
  <2>0. n \in 1..(Len(a) + Len(b))
    BY <1>2, <1>3, <1>4
  <2>1. CASE n < k
    BY <1>3, <1>5, <2>0, <2>1
  <2>2. CASE ~(n < k)
    <3>1. n - (k - 1) \in 1..(Len(t) - k) /\ k + (n - (k - 1)) = n + 1
      BY <1>2, <2>2
    <3>2. r[n] = b[n - (k - 1)]
      BY <1>3, <1>5, <2>0, <2>2
    <3>. QED
      BY <1>4, <2>2, <3>1, <3>2
  <2>. QED
    BY <2>1, <2>2
<1>. QED
  BY <1>1, <1>5, <1>6, <1>7

\* Replacing a neighbour and removing the tiny chunk leaves the merged one in
\* the place of the earlier of the two.
MergedAt(s, r, j, c) ==
    /\ Len(r) = Len(s) - 1
    /\ j \in 1..Len(r)
    /\ \A n \in 1..Len(r) : r[n] = IF n < j THEN s[n]
                                    ELSE IF n = j THEN c ELSE s[n + 1]

\* Replacing one neighbour and deleting the other has that shape.
LEMMA MergeShape ==
    ASSUME NEW S, NEW s \in Seq(S), NEW c \in S,
           NEW k \in 1..Len(s), NEW m \in 1..Len(s), m = k - 1 \/ m = k + 1
    PROVE  /\ RemoveAt([s EXCEPT ![m] = c], k) \in Seq(S)
           /\ MergedAt(s, RemoveAt([s EXCEPT ![m] = c], k), IF m < k THEN m ELSE k, c)
<1> DEFINE t == [s EXCEPT ![m] = c]
           r == RemoveAt(t, k)
<1>1. /\ t \in Seq(S) /\ Len(t) = Len(s) /\ Len(s) \in Nat
      /\ \A n \in 1..Len(s) : t[n] = IF n = m THEN c ELSE s[n]
  BY ExceptSeq
<1> HIDE DEF t
<1>2. /\ r \in Seq(S) /\ Len(r) = Len(s) - 1
      /\ \A n \in 1..(Len(s) - 1) : r[n] = IF n < k THEN t[n] ELSE t[n + 1]
  BY <1>1, RemoveShape
<1> HIDE DEF r
<1>3. (IF m < k THEN m ELSE k) \in 1..(Len(s) - 1)
  BY <1>1
<1>4. ASSUME NEW n \in 1..(Len(s) - 1)
      PROVE  r[n] = IF n < (IF m < k THEN m ELSE k) THEN s[n]
                    ELSE IF n = (IF m < k THEN m ELSE k) THEN c ELSE s[n + 1]
  <2>1. n \in 1..Len(s) /\ n + 1 \in 1..Len(s)
    BY <1>1
  <2>2. r[n] = IF n < k THEN (IF n = m THEN c ELSE s[n])
               ELSE (IF n + 1 = m THEN c ELSE s[n + 1])
    BY <1>1, <1>2, <2>1
  <2>. QED
    BY <1>1, <2>1, <2>2
<1>5. MergedAt(s, r, IF m < k THEN m ELSE k, c)
  BY <1>2, <1>3, <1>4 DEF MergedAt
<1>. QED
  BY <1>2, <1>5 DEF r, t

\* What a tiny chunk is folded into: the one before it or the one after it,
\* and only if that absorbs it.
LEMMA IntoANeighbour ==
    ASSUME i \in Nat \ {0}, cands \in Seq(CandRec), i <= Len(cands), Into # 0
    PROVE  /\ Into \in 1..Len(cands) /\ (Into = i - 1 \/ Into = i + 1)
           /\ Absorbs(cands[Into], cands[i])
<1> DEFINE c == cands[i]
           tiny == Size(c) < MinBytes /\ Mergeable(c)
           prev == tiny /\ i > 1 /\ Absorbs(cands[i - 1], c)
           next == tiny /\ i < Len(cands) /\ Absorbs(cands[i + 1], c)
           closer == /\ prev /\ next
                     /\ SharedComponents(c.path, cands[i + 1].path)
                          > SharedComponents(c.path, cands[i - 1].path)
<1>1. Into = CASE next /\ (closer \/ ~prev) -> i + 1
               [] prev /\ ~closer           -> i - 1
               [] OTHER                      -> 0
  BY DEF Into
<1>2. (next /\ (closer \/ ~prev)) => i + 1 <= Len(cands) /\ Absorbs(cands[i + 1], cands[i])
  OBVIOUS
<1>3. (prev /\ ~closer) => 1 < i /\ Absorbs(cands[i - 1], cands[i])
  OBVIOUS
<1>4. prev /\ ~closer => ~(next /\ (closer \/ ~prev))
  OBVIOUS
<1> HIDE DEF c, prev, next, closer
<1>. QED
  BY <1>1, <1>2, <1>3, <1>4

\* What the type invariant says place by place.
Typed ==
    /\ base \in Nat /\ length \in Nat /\ at \in Nat /\ cur \in Nat /\ from \in Nat
    /\ i \in Nat \ {0}
    /\ Len(blocks) \in Nat /\ DOMAIN blocks = 1..Len(blocks)
    /\ \A n \in DOMAIN blocks : /\ blocks[n].start \in Nat /\ blocks[n].end \in Nat
                                /\ blocks[n].path \in Seq(Parts)
    /\ Len(sections) \in Nat /\ DOMAIN sections = 1..Len(sections)
    /\ \A j \in DOMAIN sections : /\ sections[j].first \in Nat /\ sections[j].last \in Nat
                                  /\ sections[j].path \in Seq(Parts)
    /\ sec.first \in Nat /\ sec.last \in Nat /\ sec.path \in Seq(Parts)
    /\ sec.preamble \in BOOLEAN
    /\ Len(groups) \in Nat /\ DOMAIN groups = 1..Len(groups)
    /\ \A g \in DOMAIN groups : groups[g].first \in Nat /\ groups[g].last \in Nat
    /\ Len(cands) \in Nat /\ DOMAIN cands = 1..Len(cands)
    /\ \A k \in DOMAIN cands : /\ cands[k].start \in Nat /\ cands[k].end \in Nat
                               /\ cands[k].path \in Seq(Parts)

\* The types, place by place.
LEMMA TypedFromType == ChunkerTypeOK => Typed
<1> SUFFICES ASSUME ChunkerTypeOK PROVE Typed
  OBVIOUS
<1>1. /\ \A b \in BlockRec : b.start \in Nat /\ b.end \in Nat /\ b.path \in Seq(Parts)
      /\ \A s \in SectionRec : /\ s.first \in Nat /\ s.last \in Nat
                               /\ s.path \in Seq(Parts) /\ s.preamble \in BOOLEAN
      /\ \A r \in RunRec : r.first \in Nat /\ r.last \in Nat
      /\ \A c \in CandRec : c.start \in Nat /\ c.end \in Nat /\ c.path \in Seq(Parts)
  BY DEF BlockRec, SectionRec, RunRec, CandRec
<1>2. /\ Len(blocks) \in Nat /\ DOMAIN blocks = 1..Len(blocks)
      /\ \A n \in DOMAIN blocks : blocks[n] \in BlockRec
  BY DEF ChunkerTypeOK
<1>3. /\ Len(sections) \in Nat /\ DOMAIN sections = 1..Len(sections)
      /\ \A j \in DOMAIN sections : sections[j] \in SectionRec
  BY DEF ChunkerTypeOK
<1>4. /\ Len(groups) \in Nat /\ DOMAIN groups = 1..Len(groups)
      /\ \A g \in DOMAIN groups : groups[g] \in RunRec
  BY DEF ChunkerTypeOK
<1>5. /\ Len(cands) \in Nat /\ DOMAIN cands = 1..Len(cands)
      /\ \A k \in DOMAIN cands : cands[k] \in CandRec
  BY DEF ChunkerTypeOK
<1>. QED
  BY <1>1, <1>2, <1>3, <1>4, <1>5 DEF ChunkerTypeOK, Typed

\* A sequence with one element more, and one without its first.
LEMMA AppendShape ==
    ASSUME NEW S, NEW s \in Seq(S), NEW e \in S
    PROVE  /\ Append(s, e) \in Seq(S) /\ Len(Append(s, e)) = Len(s) + 1
           /\ DOMAIN Append(s, e) = 1..(Len(s) + 1)
           /\ \A n \in 1..Len(s) : Append(s, e)[n] = s[n]
           /\ Append(s, e)[Len(s) + 1] = e
OBVIOUS

\* The tail of a sequence, place by place.
LEMMA TailShape ==
    ASSUME NEW S, NEW s \in Seq(S), s # <<>>
    PROVE  /\ Head(s) \in S /\ Head(s) = s[1] /\ Len(s) >= 1
           /\ Tail(s) \in Seq(S) /\ Len(Tail(s)) = Len(s) - 1
           /\ DOMAIN Tail(s) = 1..(Len(s) - 1)
           /\ \A n \in 1..(Len(s) - 1) : Tail(s)[n] = s[n + 1]
OBVIOUS

-----------------------------------------------------------------------------
(* Every step keeps the invariant.                                         *)

\* The budgets of a path change with nothing but the model.
LEMMA BudgetsStay ==
    ASSUME UNCHANGED base
    PROVE  \A p : SectionCeiling(p)' = SectionCeiling(p) /\ CapOf(p)' = CapOf(p)
BY DEF SectionCeiling, CapOf

\* The initial states.
LEMMA InitInv == Init => Inv
<1> SUFFICES ASSUME Init PROVE Inv
  OBVIOUS
<1>1. ChunkerTypeOK
  <2>1. sec \in SectionRec /\ base \in Nat
    BY ChunkerAssumption DEF Init, Section, SectionRec
  <2>2. \A S : <<>> \in Seq(S)
    OBVIOUS
  <2>3. /\ stack \in Seq(FrameRec) /\ blocks \in Seq(BlockRec)
        /\ sections \in Seq(SectionRec) /\ groups \in Seq(RunRec) /\ cands \in Seq(CandRec)
    BY <2>2, Zenon DEF Init
  <2>4. /\ length \in Nat /\ scanned \in Nat /\ at \in Nat /\ cur \in Nat /\ from \in Nat
        /\ i \in Nat \ {0}
        /\ pc \in {"scan", "next", "pack", "emit", "split", "merge", "done"}
    BY DEF Init
  <2>. QED
    BY <2>1, <2>3, <2>4, Zenon DEF ChunkerTypeOK
<1>2. TextInv /\ SectionInv /\ GroupInv /\ OrderInv /\ CrumbInv /\ FitInv /\ CoverInv
  BY DEF Init, TextInv, SectionInv, GroupInv, OrderInv, CrumbInv, FitInv, CoverInv,
         Section, Chunking, RunUnder
<1>. QED
  BY <1>1, <1>2 DEF Inv

\* A flushed section takes its place after the others.
FlushInv ==
    /\ Flush \in Seq(SectionRec)
    /\ \A j \in DOMAIN Flush : /\ RunUnder(Flush[j], Flush[j].path)
                               /\ Flush[j].last <= Len(blocks)
    /\ \A j, k \in DOMAIN Flush : j < k => Flush[j].last < Flush[k].first
    /\ \A n \in DOMAIN blocks : \E j \in DOMAIN Flush : Flush[j].first <= n /\ n <= Flush[j].last

\* flush leaves every block seen so far in exactly one section, in order.
LEMMA FlushKeeps ==
    ASSUME Inv, pc = "scan"
    PROVE  FlushInv
<1>0. Typed /\ sections \in Seq(SectionRec) /\ sec \in SectionRec
  BY TypedFromType DEF Inv, ChunkerTypeOK
<1>1. /\ \A j \in DOMAIN sections : RunUnder(sections[j], sections[j].path)
      /\ \A j, k \in DOMAIN sections : j < k => sections[j].last < sections[k].first
      /\ sec.last = Len(blocks) /\ 1 <= sec.first /\ sec.first <= sec.last + 1
      /\ \A n \in sec.first..sec.last : blocks[n].path = sec.path
      /\ \A j \in DOMAIN sections : sections[j].last < sec.first
  BY DEF Inv, SectionInv
<1>2. groups = <<>> /\ cands = <<>>
  BY DEF Inv, GroupInv, OrderInv, Chunking
<1>3. \A n \in DOMAIN blocks :
        \/ \E j \in DOMAIN sections : sections[j].first <= n /\ n <= sections[j].last
        \/ sec.first <= n
  <2> SUFFICES ASSUME NEW n \in DOMAIN blocks
               PROVE  \/ \E j \in DOMAIN sections : sections[j].first <= n /\ n <= sections[j].last
                      \/ sec.first <= n
    OBVIOUS
  <2>1. blocks[n].start \in blocks[n].start..(blocks[n].end - 1)
    BY <1>0 DEF Inv, TextInv, Typed
  <2>2. Awaited(n, blocks[n].start) \/ InChunk(blocks[n].start)
    BY <2>1 DEF Inv, CoverInv
  <2>. QED
    BY <1>2, <2>2 DEF Awaited, InChunk
<1>4. CASE sec.first <= sec.last
  <2>1. Flush = Append(sections, sec)
    BY <1>4 DEF Flush
  <2>2. /\ Flush \in Seq(SectionRec) /\ Len(Flush) = Len(sections) + 1
        /\ \A j \in 1..Len(sections) : Flush[j] = sections[j]
        /\ Flush[Len(sections) + 1] = sec /\ DOMAIN Flush = 1..(Len(sections) + 1)
    BY <1>0, <2>1, AppendShape
  <2>3. RunUnder(sec, sec.path)
    BY <1>0, <1>1, <1>4 DEF RunUnder, Typed
  <2>4. \A j \in DOMAIN Flush : RunUnder(Flush[j], Flush[j].path) /\ Flush[j].last <= Len(blocks)
    BY <1>0, <1>1, <2>2, <2>3 DEF RunUnder, Typed
  <2>5. \A j, k \in DOMAIN Flush : j < k => Flush[j].last < Flush[k].first
    <3>1. Len(sections) \in Nat /\ DOMAIN sections = 1..Len(sections)
      BY <1>0 DEF Typed
    <3>2. \A k \in DOMAIN Flush : k \in DOMAIN sections \/ k = Len(sections) + 1
      BY <2>2, <3>1
    <3>. QED
      BY <1>1, <2>2, <3>1, <3>2
  <2>6. \A n \in DOMAIN blocks : \E j \in DOMAIN Flush : Flush[j].first <= n /\ n <= Flush[j].last
    <3> SUFFICES ASSUME NEW n \in DOMAIN blocks
                 PROVE  \E j \in DOMAIN Flush : Flush[j].first <= n /\ n <= Flush[j].last
      OBVIOUS
    <3>1. CASE \E j \in DOMAIN sections : sections[j].first <= n /\ n <= sections[j].last
      BY <1>0, <2>2, <3>1 DEF Typed
    <3>2. CASE sec.first <= n
      <4>1. n <= sec.last
        BY <1>0, <1>1 DEF Typed
      <4>. QED
        BY <1>0, <2>2, <3>2, <4>1 DEF Typed
    <3>. QED
      BY <1>3, <3>1, <3>2
  <2>. QED
    BY <2>2, <2>4, <2>5, <2>6 DEF FlushInv
<1>5. CASE ~(sec.first <= sec.last)
  <2>1. Flush = sections
    BY <1>5 DEF Flush
  <2>2. \A n \in DOMAIN blocks : ~(sec.first <= n)
    BY <1>0, <1>1, <1>5 DEF Typed
  <2>3. \A n \in DOMAIN blocks :
          \E j \in DOMAIN sections : sections[j].first <= n /\ n <= sections[j].last
    BY <1>3, <2>2
  <2>4. \A j \in DOMAIN sections : sections[j].last <= Len(blocks)
    BY <1>1 DEF RunUnder
  <2>. QED
    BY <1>0, <1>1, <2>1, <2>3, <2>4 DEF FlushInv
<1>. QED
  BY <1>4, <1>5

\* While the text is read there are no groups and no chunks.
LEMMA ScanIsEarly ==
    ASSUME Inv, pc = "scan"
    PROVE  groups = <<>> /\ cands = <<>>
BY DEF Inv, GroupInv, OrderInv, Chunking

\* The parts of a heading's path are parts.
LEMMA HeadingParts ==
    ASSUME Inv, NEW title \in Titles, NEW open \in 0..Len(stack)
    PROVE  (IF open = 0 THEN title ELSE stack[open].parts \o title) \in Seq(Parts)
<1>1. title \in Seq(Parts)
  BY ChunkerAssumption
<1>2. CASE open = 0
  BY <1>1, <1>2
<1>3. CASE open # 0
  <2>1. stack \in Seq(FrameRec) /\ \A f \in FrameRec : f.parts \in Seq(Parts)
    BY DEF Inv, ChunkerTypeOK, FrameRec
  <2>2. stack[open].parts \in Seq(Parts)
    BY <1>3, <2>1
  <2>. QED
    BY <1>1, <1>3, <2>2, ConcatProperties
<1>. QED
  BY <1>2, <1>3

\* A heading begins a section.
LEMMA HeadingInv ==
    ASSUME Inv, NEW level \in Levels, NEW title \in Titles, NEW open \in 0..Len(stack),
           NEW line \in Lines, Heading(level, title, open, line)
    PROVE  Inv'
<1> DEFINE parts == IF open = 0 THEN title ELSE stack[open].parts \o title
<1>1. /\ pc = "scan" /\ pc' = "scan"
      /\ sec' = Section(Joined(parts), FALSE, Len(blocks) + 1, Len(blocks))
      /\ sections' = Flush /\ length' = length + line /\ scanned' = scanned + 1
      /\ stack' = Append(SubSeq(stack, 1, open), [level |-> level, parts |-> parts])
      /\ UNCHANGED <<base, blocks, at, cur, groups, from, cands, i>>
  BY DEF Heading, packVars
<1>l. line \in Nat
  BY ChunkerAssumption
<1>2. parts \in Seq(Parts)
  BY HeadingParts
<1> HIDE DEF parts
<1>3. Joined(parts) \in Seq(Parts)
  BY <1>2 DEF Joined
<1>4. /\ sec' \in SectionRec /\ sec'.first = Len(blocks) + 1 /\ sec'.last = Len(blocks)
  BY <1>1, <1>3 DEF Section, SectionRec, Inv, ChunkerTypeOK
<1>5. FlushInv /\ groups = <<>> /\ cands = <<>>
  BY <1>1, FlushKeeps, ScanIsEarly
<1>6. stack' \in Seq(FrameRec)
  <2>1. stack \in Seq(FrameRec) /\ [level |-> level, parts |-> parts] \in FrameRec
    BY <1>2, ChunkerAssumption DEF Inv, ChunkerTypeOK, FrameRec
  <2>2. \A k \in 1..open : stack[k] \in FrameRec
    BY <2>1
  <2>3. SubSeq(stack, 1, open) \in Seq(FrameRec)
    BY <2>2, SubSeqProperties
  <2>. QED
    BY <1>1, <2>1, <2>3
<1>7. ChunkerTypeOK' /\ Typed /\ Typed'
  <2>1. /\ base \in Nat /\ length \in Nat /\ scanned \in Nat /\ blocks \in Seq(BlockRec)
        /\ at \in Nat /\ cur \in Nat /\ from \in Nat /\ groups \in Seq(RunRec)
        /\ cands \in Seq(CandRec) /\ i \in Nat \ {0}
    BY DEF Inv, ChunkerTypeOK
  <2>2. sections' \in Seq(SectionRec)
    BY <1>1, <1>5, Zenon DEF FlushInv
  <2>3. length' \in Nat /\ scanned' \in Nat
    BY <1>1, <1>l, <2>1
  <2>4. /\ base' \in Nat /\ blocks' \in Seq(BlockRec)
        /\ at' \in Nat /\ cur' \in Nat /\ from' \in Nat /\ groups' \in Seq(RunRec)
        /\ cands' \in Seq(CandRec) /\ i' \in Nat \ {0}
        /\ pc' \in {"scan", "next", "pack", "emit", "split", "merge", "done"}
    BY <1>1, <2>1, Zenon
  <2>5. ChunkerTypeOK'
    BY <1>4, <1>6, <2>2, <2>3, <2>4, Zenon DEF ChunkerTypeOK
  <2>6. ChunkerTypeOK
    BY DEF Inv
  <2>. QED
    BY <2>5, <2>6, TypedFromType, PTL
<1>8. TextInv'
  BY <1>1, <1>l, <1>7 DEF Inv, Typed, TextInv
<1>9. SectionInv'
  <2>1. /\ \A j \in DOMAIN sections' : RunUnder(sections'[j], sections'[j].path)
        /\ \A j \in DOMAIN sections' : sections'[j].last <= Len(blocks)
        /\ \A j, k \in DOMAIN sections' : j < k => sections'[j].last < sections'[k].first
    BY <1>1, <1>5 DEF FlushInv
  <2>2. \A j \in DOMAIN sections' : RunUnder(sections[j], sections[j].path)'
    BY <1>1, <2>1 DEF RunUnder
  <2>3. Len(blocks) \in Nat /\ \A j \in DOMAIN sections' : sections'[j].last \in Nat
    BY <1>7 DEF Typed
  <2>4. /\ sec'.last = Len(blocks') /\ 1 <= sec'.first /\ sec'.first <= sec'.last + 1
        /\ \A n \in sec'.first..sec'.last : blocks'[n].path = sec'.path
        /\ \A j \in DOMAIN sections' : sections'[j].last < sec'.first
    <3>1. blocks' = blocks
      BY <1>1
    <3>2. \A j \in DOMAIN sections' : sections'[j].last <= Len(blocks)
      BY <2>1
    <3>3. sec'.first..sec'.last = {}
      BY <1>4, <2>3
    <3>4. sec'.last = Len(blocks') /\ 1 <= sec'.first /\ sec'.first <= sec'.last + 1
      BY <1>4, <2>3, <3>1
    <3>5. \A j \in DOMAIN sections' : sections'[j].last < sec'.first
      BY <1>4, <2>3, <3>2
    <3>. QED
      BY <3>3, <3>4, <3>5
  <2>5. pc' = "scan" /\ ~Chunking' /\ pc' \notin {"merge", "done"}
    BY <1>1 DEF Chunking
  <2>. QED
    BY <2>1, <2>2, <2>4, <2>5 DEF SectionInv
<1>10. GroupInv' /\ OrderInv' /\ CrumbInv' /\ FitInv'
  BY <1>1, <1>5 DEF GroupInv, OrderInv, CrumbInv, FitInv, Chunking
<1>11. CoverInv'
  <2>1. \A n \in DOMAIN blocks : \E j \in DOMAIN sections' :
          sections'[j].first <= n /\ n <= sections'[j].last
    BY <1>1, <1>5 DEF FlushInv
  <2>. QED
    BY <1>1, <2>1 DEF CoverInv, Awaited
<1>. QED
  BY <1>7, <1>8, <1>9, <1>10, <1>11 DEF Inv

\* A block joins the section being read.
LEMMA ContentInv ==
    ASSUME Inv, NEW gap \in Gaps, NEW size \in Sizes, Content(gap, size)
    PROVE  Inv'
<1> DEFINE N == Len(blocks)
           b == [start |-> length + gap, end |-> length + gap + size,
                 path |-> sec.path]
<1>1. /\ pc = "scan" /\ pc' = "scan"
      /\ blocks' = Append(blocks, b)
      /\ sec' = [sec EXCEPT !.last = N + 1]
      /\ length' = length + gap + size /\ scanned' = scanned + 1
      /\ UNCHANGED <<base, stack, sections, at, cur, groups, from, cands, i>>
  BY DEF Content, packVars
<1>2. Typed /\ blocks \in Seq(BlockRec) /\ sec \in SectionRec /\ scanned \in Nat
  BY TypedFromType DEF Inv, ChunkerTypeOK
<1>3. size \in Nat \ {0} /\ gap \in Nat /\ length \in Nat /\ N \in Nat
  BY <1>2, ChunkerAssumption DEF Typed
<1>4. /\ b \in BlockRec /\ b.start = length + gap /\ b.end = length + gap + size
      /\ b.path = sec.path
  BY <1>2, <1>3 DEF BlockRec, Typed
<1> HIDE DEF b
<1>5. /\ blocks' \in Seq(BlockRec) /\ Len(blocks') = N + 1 /\ DOMAIN blocks' = 1..(N + 1)
      /\ \A n \in 1..N : blocks'[n] = blocks[n]
      /\ blocks'[N + 1] = b
  BY <1>1, <1>2, <1>4, AppendShape
<1>6. /\ sec' \in SectionRec /\ sec'.first = sec.first /\ sec'.last = N + 1
      /\ sec'.path = sec.path
  <2>1. ASSUME NEW S, NEW s \in [path : S, preamble : BOOLEAN, first : Nat, last : Nat],
               NEW n \in Nat
        PROVE  /\ [s EXCEPT !.last = n] \in [path : S, preamble : BOOLEAN, first : Nat, last : Nat]
               /\ [s EXCEPT !.last = n].first = s.first /\ [s EXCEPT !.last = n].last = n
               /\ [s EXCEPT !.last = n].path = s.path
    OBVIOUS
  <2>2. N + 1 \in Nat
    BY <1>3
  <2>. QED
    BY <1>1, <1>2, <2>1, <2>2, Zenon DEF SectionRec
<1>7. groups = <<>> /\ cands = <<>> /\ groups' = <<>> /\ cands' = <<>>
  BY <1>1, ScanIsEarly
<1>8. ChunkerTypeOK' /\ Typed'
  <2>1. /\ base \in Nat /\ stack \in Seq(FrameRec) /\ sections \in Seq(SectionRec)
        /\ at \in Nat /\ cur \in Nat /\ from \in Nat /\ groups \in Seq(RunRec)
        /\ cands \in Seq(CandRec) /\ i \in Nat \ {0}
    BY DEF Inv, ChunkerTypeOK
  <2>2. /\ base' \in Nat /\ stack' \in Seq(FrameRec) /\ sections' \in Seq(SectionRec)
        /\ at' \in Nat /\ cur' \in Nat /\ from' \in Nat /\ groups' \in Seq(RunRec)
        /\ cands' \in Seq(CandRec) /\ i' \in Nat \ {0}
        /\ pc' \in {"scan", "next", "pack", "emit", "split", "merge", "done"}
    BY <1>1, <2>1, Zenon
  <2>3. length' \in Nat /\ scanned' \in Nat
    BY <1>1, <1>2, <1>3
  <2>4. ChunkerTypeOK'
    BY <1>5, <1>6, <2>2, <2>3, Zenon DEF ChunkerTypeOK
  <2>. QED
    BY <2>4, TypedFromType, PTL
<1> HIDE DEF N
<1>t. /\ DOMAIN blocks = 1..N
      /\ \A n \in 1..N : blocks[n].start \in Nat /\ blocks[n].end \in Nat
  BY <1>2 DEF Typed, N
<1>9. TextInv'
  <2>1. \A n \in 1..N : blocks[n].start < blocks[n].end /\ blocks[n].end <= length
    BY <1>t DEF Inv, TextInv
  <2>2. \A m, n \in 1..N : m < n => blocks[m].end <= blocks[n].start
    BY <1>t DEF Inv, TextInv
  <2>3. \A n \in 1..(N + 1) : n \in 1..N \/ n = N + 1
    BY <1>3
  <2>4. \A n \in 1..(N + 1) : blocks'[n].start < blocks'[n].end /\ blocks'[n].end <= length'
    BY <1>1, <1>3, <1>4, <1>5, <1>t, <2>1, <2>3
  <2>5. \A m, n \in 1..(N + 1) : m < n => blocks'[m].end <= blocks'[n].start
    BY <1>1, <1>3, <1>4, <1>5, <1>t, <2>1, <2>2, <2>3
  <2>. QED
    BY <1>5, <2>4, <2>5 DEF TextInv
<1>s. /\ \A j \in DOMAIN sections : RunUnder(sections[j], sections[j].path)
      /\ \A j, k \in DOMAIN sections : j < k => sections[j].last < sections[k].first
      /\ sec.last = N /\ 1 <= sec.first /\ sec.first <= sec.last + 1
      /\ \A n \in sec.first..sec.last : blocks[n].path = sec.path
      /\ \A j \in DOMAIN sections : sections[j].last < sec.first
  BY <1>1 DEF Inv, SectionInv, N
<1>n. /\ sec.first \in Nat
      /\ \A j \in DOMAIN sections : sections[j].first \in Nat /\ sections[j].last \in Nat
  BY <1>2 DEF Typed
<1>10. SectionInv'
  <2>1. \A j \in DOMAIN sections : RunUnder(sections[j], sections[j].path)'
    <3> SUFFICES ASSUME NEW j \in DOMAIN sections
                 PROVE  RunUnder(sections[j], sections[j].path)'
      OBVIOUS
    <3>1. /\ 1 <= sections[j].first /\ sections[j].first <= sections[j].last
          /\ sections[j].last <= N
          /\ \A n \in sections[j].first..sections[j].last : blocks[n].path = sections[j].path
      BY <1>s DEF RunUnder, N
    <3>2. \A n \in sections[j].first..sections[j].last : n \in 1..N
      BY <1>3, <1>n, <3>1
    <3>3. sections[j].last <= Len(blocks')
      BY <1>3, <1>5, <1>n, <3>1
    <3>. QED
      BY <1>1, <1>5, <3>1, <3>2, <3>3 DEF RunUnder
  <2>2. \A n \in sec'.first..sec'.last : blocks'[n].path = sec'.path
    BY <1>3, <1>4, <1>5, <1>6, <1>n, <1>s
  <2>3. sec'.last = Len(blocks') /\ 1 <= sec'.first /\ sec'.first <= sec'.last + 1
    BY <1>3, <1>5, <1>6, <1>n, <1>s
  <2>4. pc' = "scan" /\ ~Chunking' /\ pc' \notin {"merge", "done"} /\ sections' = sections
    BY <1>1 DEF Chunking
  <2>5. \A j \in DOMAIN sections' : sections'[j].last < sec'.first
    BY <1>6, <1>s, <2>4
  <2>6. \A j \in DOMAIN sections' : RunUnder(sections[j], sections[j].path)'
    BY <2>1, <2>4
  <2>7. \A j, k \in DOMAIN sections' : j < k => sections'[j].last < sections'[k].first
    BY <1>s, <2>4
  <2>. QED
    BY <2>2, <2>3, <2>4, <2>5, <2>6, <2>7 DEF SectionInv
<1>11. GroupInv' /\ OrderInv' /\ CrumbInv' /\ FitInv'
  BY <1>1, <1>7 DEF GroupInv, OrderInv, CrumbInv, FitInv, Chunking
<1>12. CoverInv'
  <2> SUFFICES ASSUME NEW n \in DOMAIN blocks',
                      NEW byte \in blocks'[n].start..(blocks'[n].end - 1)
               PROVE  Awaited(n, byte)'
    BY DEF CoverInv
  <2>1. CASE n \in 1..N
    <3>1. Awaited(n, byte) \/ InChunk(byte)
      BY <1>5, <1>t, <2>1 DEF Inv, CoverInv
    <3>. QED
      BY <1>1, <1>6, <1>7, <3>1 DEF Awaited, InChunk
  <2>2. CASE n = N + 1
    <3>1. sec'.first <= n
      BY <1>6, <1>s, <2>2
    <3>. QED
      BY <1>1, <3>1 DEF Awaited
  <2>. QED
    BY <1>3, <1>5, <2>1, <2>2
<1>. QED
  BY <1>8, <1>9, <1>10, <1>11, <1>12 DEF Inv

\* The last section is flushed.
LEMMA EndOfTextInv ==
    ASSUME Inv, EndOfText
    PROVE  Inv'
<1>1. /\ pc = "scan" /\ pc' = "next" /\ sections' = Flush /\ stack' = <<>> /\ scanned' = 0
      /\ UNCHANGED <<base, length, blocks, sec, at, cur, groups, from, cands, i>>
  BY DEF EndOfText, packVars
<1>2. FlushInv /\ groups' = <<>> /\ cands' = <<>>
  BY <1>1, FlushKeeps, ScanIsEarly
<1>3. ChunkerTypeOK'
  <2>1. /\ base \in Nat /\ length \in Nat /\ blocks \in Seq(BlockRec) /\ sec \in SectionRec
        /\ at \in Nat /\ cur \in Nat /\ from \in Nat /\ groups \in Seq(RunRec)
        /\ cands \in Seq(CandRec) /\ i \in Nat \ {0}
    BY DEF Inv, ChunkerTypeOK
  <2>2. /\ base' \in Nat /\ length' \in Nat /\ blocks' \in Seq(BlockRec) /\ sec' \in SectionRec
        /\ at' \in Nat /\ cur' \in Nat /\ from' \in Nat /\ groups' \in Seq(RunRec)
        /\ cands' \in Seq(CandRec) /\ i' \in Nat \ {0}
        /\ pc' \in {"scan", "next", "pack", "emit", "split", "merge", "done"}
    BY <1>1, <2>1, Zenon
  <2>3. stack' \in Seq(FrameRec) /\ scanned' \in Nat
    BY <1>1
  <2>4. sections' \in Seq(SectionRec)
    BY <1>1, <1>2, Zenon DEF FlushInv
  <2>. QED
    BY <2>2, <2>3, <2>4, Zenon DEF ChunkerTypeOK
<1>4. TextInv'
  BY <1>1 DEF Inv, TextInv
<1>5. SectionInv'
  <2>1. /\ \A j \in DOMAIN sections' : RunUnder(sections'[j], sections'[j].path)
        /\ \A j, k \in DOMAIN sections' : j < k => sections'[j].last < sections'[k].first
    BY <1>1, <1>2 DEF FlushInv
  <2>2. \A j \in DOMAIN sections' : RunUnder(sections[j], sections[j].path)'
    BY <1>1, <2>1 DEF RunUnder
  <2>3. pc' # "scan" /\ ~Chunking' /\ pc' \notin {"merge", "done"}
    BY <1>1 DEF Chunking
  <2>. QED
    BY <2>1, <2>2, <2>3 DEF SectionInv
<1>6. GroupInv' /\ OrderInv' /\ CrumbInv' /\ FitInv'
  BY <1>1, <1>2 DEF GroupInv, OrderInv, CrumbInv, FitInv, Chunking
<1>7. CoverInv'
  <2>1. \A n \in DOMAIN blocks : \E j \in DOMAIN sections' :
          sections'[j].first <= n /\ n <= sections'[j].last
    BY <1>1, <1>2 DEF FlushInv
  <2>. QED
    BY <1>1, <2>1 DEF CoverInv, Awaited
<1>. QED
  BY <1>3, <1>4, <1>5, <1>6, <1>7 DEF Inv

\* Later blocks begin and end later.
BlocksRise ==
    \A m, n \in DOMAIN blocks : m <= n => /\ blocks[m].start <= blocks[n].start
                                          /\ blocks[m].end <= blocks[n].end

\* The order of disjoint blocks is that of their bounds.
LEMMA BlocksInOrder ==
    ASSUME Inv
    PROVE  BlocksRise
<1>1. /\ DOMAIN blocks = 1..Len(blocks)
      /\ \A n \in DOMAIN blocks : blocks[n].start \in Nat /\ blocks[n].end \in Nat
  BY TypedFromType DEF Inv, Typed
<1>2. /\ \A n \in DOMAIN blocks : blocks[n].start < blocks[n].end
      /\ \A m, n \in DOMAIN blocks : m < n => blocks[m].end <= blocks[n].start
  BY DEF Inv, TextInv
<1>3. ASSUME NEW m \in DOMAIN blocks, NEW n \in DOMAIN blocks, m <= n
      PROVE  blocks[m].start <= blocks[n].start /\ blocks[m].end <= blocks[n].end
  <2>1. CASE m = n
    BY <1>1, <2>1
  <2>2. CASE m < n
    BY <1>1, <1>2, <2>2
  <2>. QED
    BY <1>1, <1>3, <2>1, <2>2
<1>. QED
  BY <1>3 DEF BlocksRise

\* A section is taken up: whole if it fits, else to be packed.
LEMMA TakeSectionInv ==
    ASSUME Inv, TakeSection
    PROVE  Inv'
<1>1. /\ pc = "next" /\ sections # <<>> /\ sec' = Head(sections) /\ sections' = Tail(sections)
      /\ at' = sec'.first /\ cur' = sec'.first
      /\ UNCHANGED <<base, length, scanned, stack, blocks, from, cands, i>>
  BY DEF TakeSection, scanVars
<1>2. \/ /\ Span(sec') <= CapOf(sec'.path)
         /\ groups' = <<Run(sec'.first, sec'.last)>> /\ pc' = "emit"
      \/ groups' = <<>> /\ pc' = "pack"
  BY DEF TakeSection
<1>3. Typed /\ sections \in Seq(SectionRec)
  BY TypedFromType DEF Inv, ChunkerTypeOK
<1>4. /\ sec' = sections[1] /\ sec' \in SectionRec /\ Len(sections) >= 1
      /\ sections' \in Seq(SectionRec) /\ DOMAIN sections' = 1..(Len(sections) - 1)
      /\ \A j \in 1..(Len(sections) - 1) : sections'[j] = sections[j + 1]
  BY <1>1, <1>3, TailShape
<1>5. /\ Len(sections) \in Nat /\ DOMAIN sections = 1..Len(sections)
      /\ 1 \in DOMAIN sections /\ \A j \in DOMAIN sections' : j + 1 \in DOMAIN sections /\ 1 < j + 1
  BY <1>3, <1>4 DEF Typed
<1>6. sec'.first \in Nat /\ sec'.last \in Nat
  BY <1>3, <1>4, <1>5 DEF Typed
<1>7. Run(sec'.first, sec'.last) \in RunRec
  BY <1>6 DEF Run, RunRec
<1>8. ChunkerTypeOK'
  <2>1. /\ base \in Nat /\ length \in Nat /\ scanned \in Nat /\ stack \in Seq(FrameRec)
        /\ blocks \in Seq(BlockRec) /\ from \in Nat /\ cands \in Seq(CandRec)
        /\ i \in Nat \ {0}
    BY DEF Inv, ChunkerTypeOK
  <2>2. /\ base' \in Nat /\ length' \in Nat /\ scanned' \in Nat /\ stack' \in Seq(FrameRec)
        /\ blocks' \in Seq(BlockRec) /\ from' \in Nat /\ cands' \in Seq(CandRec)
        /\ i' \in Nat \ {0}
    BY <1>1, <2>1, Zenon
  <2>3. groups' \in Seq(RunRec) /\ at' \in Nat /\ cur' \in Nat
    <3>1. \A S : <<>> \in Seq(S) /\ \A x \in S : <<x>> \in Seq(S)
      OBVIOUS
    <3>2. groups' \in Seq(RunRec)
      BY <1>2, <1>7, <3>1, Zenon
    <3>. QED
      BY <1>1, <1>6, <3>2
  <2>4. pc' \in {"scan", "next", "pack", "emit", "split", "merge", "done"}
    BY <1>2
  <2>. QED
    BY <1>4, <2>2, <2>3, <2>4, Zenon DEF ChunkerTypeOK
<1>9. TextInv' /\ CrumbInv' /\ FitInv'
  BY <1>1, BudgetsStay DEF Inv, TextInv, CrumbInv, FitInv, Overlaps, Size
<1>s. /\ \A j \in DOMAIN sections : RunUnder(sections[j], sections[j].path)
      /\ \A j, k \in DOMAIN sections : j < k => sections[j].last < sections[k].first
  BY DEF Inv, SectionInv
<1>10. /\ RunUnder(sec', sec'.path) /\ 1 <= sec'.first /\ sec'.first <= sec'.last
       /\ sec'.last <= Len(blocks) /\ sec'.first \in DOMAIN blocks /\ sec'.last \in DOMAIN blocks
  <2>1. RunUnder(sec', sec'.path)
    BY <1>4, <1>5, <1>s
  <2>2. 1 <= sec'.first /\ sec'.first <= sec'.last /\ sec'.last <= Len(blocks)
    BY <2>1 DEF RunUnder
  <2>3. DOMAIN blocks = 1..Len(blocks) /\ Len(blocks) \in Nat
    BY <1>3 DEF Typed
  <2>. QED
    BY <1>6, <2>1, <2>2, <2>3
<1>11. SectionInv'
  <2>1. \A j \in DOMAIN sections' : RunUnder(sections[j], sections[j].path)'
    <3>1. \A j \in DOMAIN sections' : RunUnder(sections'[j], sections'[j].path)
      BY <1>4, <1>5, <1>s
    <3>. QED
      BY <1>1, <3>1 DEF RunUnder
  <2>2. \A j, k \in DOMAIN sections' : j < k => sections'[j].last < sections'[k].first
    <3>1. \A j, k \in DOMAIN sections' : j < k => j + 1 < k + 1
      BY <1>4, <1>5
    <3>. QED
      BY <1>4, <1>5, <1>s, <3>1
  <2>3. RunUnder(sec, sec.path)'
    BY <1>1, <1>10 DEF RunUnder
  <2>4. \A j \in DOMAIN sections' : sec'.last < sections'[j].first
    BY <1>4, <1>5, <1>s
  <2>5. pc' # "scan" /\ pc' \notin {"merge", "done"}
    BY <1>2
  <2>. QED
    BY <2>1, <2>2, <2>3, <2>4, <2>5 DEF SectionInv
<1>o. /\ \A k \in DOMAIN cands : cands[k].start < cands[k].end
      /\ \A j, k \in DOMAIN cands : j < k => /\ cands[j].start < cands[k].start
                                             /\ cands[j].end < cands[k].end
      /\ \A k \in DOMAIN cands, j \in DOMAIN sections :
           cands[k].end <= blocks[sections[j].first].start
  BY DEF Inv, OrderInv
<1>b. /\ \A k \in DOMAIN cands : cands[k].end <= blocks[sec'.first].start
      /\ \A k \in DOMAIN cands : cands[k].start < blocks[sec'.first].start
      /\ \A k \in DOMAIN cands : cands[k].end <= blocks[sec'.last].start
  <2>1. \A k \in DOMAIN cands : cands[k].end <= blocks[sec'.first].start
    BY <1>4, <1>5, <1>o
  <2>2. blocks[sec'.first].start <= blocks[sec'.last].start
    BY <1>6, <1>10, BlocksInOrder DEF BlocksRise
  <2>3. /\ blocks[sec'.first].start \in Nat /\ blocks[sec'.last].start \in Nat
        /\ \A k \in DOMAIN cands : cands[k].start \in Nat /\ cands[k].end \in Nat
    BY <1>3, <1>10 DEF Typed
  <2>. QED
    BY <1>o, <2>1, <2>2, <2>3
<1>c. \A k \in DOMAIN cands, j \in DOMAIN sections' :
        cands[k].end <= blocks[sections'[j].first].start
  BY <1>4, <1>5, <1>o
<1>g. groups = <<>>
  BY <1>1 DEF Inv, GroupInv, Chunking
<1>v. \A n \in DOMAIN blocks : \A byte \in blocks[n].start..(blocks[n].end - 1) :
        \/ \E j \in DOMAIN sections : sections[j].first <= n /\ n <= sections[j].last
        \/ InChunk(byte)
  BY <1>1, <1>g DEF Inv, CoverInv, Awaited
<1>w. \A n \in DOMAIN blocks : \A byte \in blocks[n].start..(blocks[n].end - 1) :
        \/ \E j \in DOMAIN sections' : sections'[j].first <= n /\ n <= sections'[j].last
        \/ sec'.first <= n /\ n <= sec'.last
        \/ InChunk(byte)
  <2>1. \A j \in DOMAIN sections : j # 1 => /\ j - 1 \in DOMAIN sections'
                                            /\ sections'[j - 1] = sections[j]
    BY <1>4, <1>5
  <2>. QED
    BY <1>4, <1>v, <2>1
<1>12. CASE Span(sec') <= CapOf(sec'.path) /\ groups' = <<Run(sec'.first, sec'.last)>> /\ pc' = "emit"
  <2>1. /\ DOMAIN groups' = {1} /\ groups'[1].first = sec'.first /\ groups'[1].last = sec'.last
    BY <1>12 DEF Run
  <2>2. pc' = "emit" /\ Chunking'
    BY <1>12 DEF Chunking
  <2>3. Span(groups[1])' = Span(sec')
    BY <1>1, <2>1 DEF Span
  <2>4. CapOf(sec.path)' = CapOf(sec'.path)
    BY <1>1 DEF CapOf, SectionCeiling
  <2>5. GroupInv'
    BY <1>6, <1>10, <1>12, <2>1, <2>2, <2>3, <2>4 DEF GroupInv
  <2>6. OrderInv'
    BY <1>1, <1>b, <1>c, <1>o, <2>1, <2>2 DEF OrderInv
  <2>7. CoverInv'
    BY <1>1, <1>w, <2>1, <2>2 DEF CoverInv, Awaited, InChunk
  <2>. QED
    BY <1>8, <1>9, <1>11, <2>5, <2>6, <2>7 DEF Inv
<1>13. CASE groups' = <<>> /\ pc' = "pack"
  <2>1. DOMAIN groups' = {} /\ Chunking'
    BY <1>13 DEF Chunking
  <2>2. GroupInv'
    BY <1>1, <1>6, <1>10, <1>13, <2>1 DEF GroupInv
  <2>3. OrderInv'
    BY <1>1, <1>b, <1>c, <1>o, <1>13, <2>1 DEF OrderInv
  <2>4. CoverInv'
    BY <1>1, <1>w, <1>13 DEF CoverInv, Awaited, InChunk
  <2>. QED
    BY <1>8, <1>9, <1>11, <2>2, <2>3, <2>4 DEF Inv
<1>. QED
  BY <1>2, <1>12, <1>13

\* A block joins the open group, or begins the next after closing it.
LEMMA PackBlockInv ==
    ASSUME Inv, PackBlock
    PROVE  Inv'
<1> DEFINE seed == OverlapSuffix(Run(cur, at - 1))
           closes == cur < at /\ Span(Run(cur, at)) > TargetOf(sec.path)
           cap == CapOf(sec.path)
<1>1. /\ pc = "pack" /\ pc' = "pack" /\ at <= sec.last /\ at' = at + 1
      /\ UNCHANGED <<base, length, scanned, stack, blocks, sections, sec, from, cands, i>>
  BY DEF PackBlock, scanVars
<1>2. /\ closes => /\ groups' = Append(groups, Run(cur, at - 1))
                   /\ cur' = IF seed < at /\ Span(Run(seed, at)) > cap THEN at ELSE seed
      /\ ~closes => groups' = groups /\ cur' = cur
  BY DEF PackBlock
<1>3. Typed /\ groups \in Seq(RunRec) /\ Len(groups) \in Nat /\ DOMAIN groups = 1..Len(groups)
  BY TypedFromType DEF Inv, ChunkerTypeOK, Typed
<1>4. /\ cur \in Nat /\ at \in Nat /\ sec.first \in Nat /\ sec.last \in Nat
      /\ \A g \in DOMAIN groups : groups[g].first \in Nat /\ groups[g].last \in Nat
      /\ Len(blocks) \in Nat /\ DOMAIN blocks = 1..Len(blocks)
      /\ \A n \in DOMAIN blocks : blocks[n].start \in Nat /\ blocks[n].end \in Nat
  BY <1>3 DEF Typed
<1>5. /\ 1 <= sec.first /\ sec.first <= sec.last /\ sec.last <= Len(blocks)
      /\ \A n \in sec.first..sec.last : n \in DOMAIN blocks
  <2>1. 1 <= sec.first /\ sec.first <= sec.last /\ sec.last <= Len(blocks)
    BY <1>1 DEF Inv, SectionInv, Chunking, RunUnder
  <2>. QED
    BY <1>4, <2>1
<1>6. /\ \A g \in DOMAIN groups :
           /\ sec.first <= groups[g].first /\ groups[g].first <= groups[g].last
           /\ groups[g].last <= sec.last
           /\ groups[g].first < groups[g].last => Span(groups[g]) <= cap
      /\ \A g, h \in DOMAIN groups : g < h => /\ groups[g].first < groups[h].first
                                              /\ groups[g].last < groups[h].last
      /\ sec.first <= cur /\ cur <= at /\ at <= sec.last + 1
      /\ sec.first < at => cur < at
      /\ cur < at - 1 => Span(Run(cur, at - 1)) <= cap
      /\ \A g \in DOMAIN groups : groups[g].first < cur /\ groups[g].last < at - 1
  BY <1>1 DEF Inv, GroupInv
<1>7. cap \in Nat /\ TargetOf(sec.path) \in Nat /\ TargetOf(sec.path) <= cap
  BY <1>3, BudgetsAgree DEF Typed, Budgets
<1>8. \A m, n \in sec.first..sec.last : Span(Run(m, n)) \in Int
  BY <1>4, <1>5 DEF Span, Run
<1>9. closes => seed \in (cur + 1)..at
  <2> SUFFICES ASSUME closes PROVE seed \in (cur + 1)..at
    OBVIOUS
  <2>1. /\ Run(cur, at - 1) \in RunRec
        /\ Run(cur, at - 1).first = cur /\ Run(cur, at - 1).last = at - 1
    BY <1>4 DEF Run, RunRec
  <2>2. cur <= at - 1 /\ at - 1 + 1 = at
    BY <1>4
  <2>. QED
    BY <2>1, <2>2, OverlapIsStrict
<1> HIDE DEF seed
<1>10. /\ closes => cur < cur' /\ cur' <= at
       /\ sec.first <= cur' /\ cur' <= at' /\ cur' < at' /\ at' <= sec.last + 1 /\ cur' \in Nat
  BY <1>1, <1>2, <1>4, <1>6, <1>9
<1>11. cur' < at => Span(Run(cur', at)) <= cap
  <2>0. \A m \in sec.first..at : Span(Run(m, at)) \in Int
    BY <1>1, <1>4, <1>6, <1>8
  <2>1. CASE closes
    <3>1. seed \in sec.first..at
      BY <1>4, <1>6, <1>9, <2>1
    <3>2. cur' < at => cur' = seed /\ ~(Span(Run(seed, at)) > cap)
      BY <1>2, <1>4, <2>1
    <3> HIDE DEF cap
    <3>. QED
      BY <1>7, <2>0, <3>1, <3>2
  <2>2. CASE ~closes
    <3>1. cur \in sec.first..at /\ cur' = cur
      BY <1>2, <1>4, <1>6, <2>2
    <3>2. cur < at => ~(Span(Run(cur, at)) > TargetOf(sec.path))
      BY <2>2
    <3> HIDE DEF cap
    <3>. QED
      BY <1>7, <2>0, <3>1, <3>2
  <2>. QED
    BY <2>1, <2>2
<1>r. /\ Run(cur, at - 1).first = cur /\ Run(cur, at - 1).last = at - 1
      /\ closes => Run(cur, at - 1) \in RunRec
  BY <1>4 DEF Run, RunRec
<1>12. closes => /\ groups' \in Seq(RunRec) /\ DOMAIN groups' = 1..(Len(groups) + 1)
                 /\ \A g \in 1..Len(groups) : groups'[g] = groups[g]
                 /\ groups'[Len(groups) + 1] = Run(cur, at - 1)
  BY <1>2, <1>3, <1>r, AppendShape
<1> HIDE DEF closes
<1>13. /\ \A g \in DOMAIN groups' :
            /\ sec.first <= groups'[g].first /\ groups'[g].first <= groups'[g].last
            /\ groups'[g].last <= sec.last
            /\ groups'[g].first < groups'[g].last => Span(groups'[g]) <= cap
       /\ \A g, h \in DOMAIN groups' : g < h => /\ groups'[g].first < groups'[h].first
                                                /\ groups'[g].last < groups'[h].last
       /\ \A g \in DOMAIN groups' : groups'[g].first < cur' /\ groups'[g].last < at
  <2> HIDE DEF cap
  <2>1. CASE ~closes
    BY <1>2, <1>4, <1>6, <2>1
  <2>2. CASE closes
    <3>1. cur < at
      BY <2>2 DEF closes
    <3>2. \A g \in DOMAIN groups' : g \in DOMAIN groups \/ g = Len(groups) + 1
      BY <1>3, <1>12, <2>2
    <3>3. \A g \in DOMAIN groups' :
            /\ sec.first <= groups'[g].first /\ groups'[g].first <= groups'[g].last
            /\ groups'[g].last <= sec.last
      BY <1>1, <1>3, <1>4, <1>6, <1>12, <1>r, <2>2, <3>1, <3>2
    <3>4. \A g \in DOMAIN groups' :
            groups'[g].first < groups'[g].last => Span(groups'[g]) <= cap
      BY <1>3, <1>6, <1>12, <1>r, <2>2, <3>2
    <3>5. \A g, h \in DOMAIN groups' : g < h => /\ groups'[g].first < groups'[h].first
                                                /\ groups'[g].last < groups'[h].last
      BY <1>3, <1>4, <1>6, <1>12, <1>r, <2>2, <3>2
    <3>6. \A g \in DOMAIN groups' : groups'[g].first < cur' /\ groups'[g].last < at
      BY <1>3, <1>4, <1>6, <1>10, <1>12, <1>r, <2>2, <3>2
    <3>. QED
      BY <3>3, <3>4, <3>5, <3>6
  <2>. QED
    BY <2>1, <2>2
<1>14. GroupInv'
  <2>1. Chunking' /\ pc' = "pack"
    BY <1>1 DEF Chunking
  <2>2. CapOf(sec.path)' = cap
    BY <1>1 DEF CapOf, SectionCeiling
  <2>3. \A g \in DOMAIN groups' : Span(groups[g])' = Span(groups'[g])
    BY <1>1 DEF Span
  <2>4. at' - 1 = at /\ Span(Run(cur, at - 1))' = Span(Run(cur', at))
    <3>1. at' - 1 = at
      BY <1>1, <1>4
    <3>. QED
      BY <1>1, <3>1 DEF Span, Run
  <2> HIDE DEF cap
  <2>. QED
    BY <1>1, <1>10, <1>11, <1>13, <2>1, <2>2, <2>3, <2>4 DEF GroupInv
<1>15. ChunkerTypeOK'
  <2>1. /\ base \in Nat /\ length \in Nat /\ scanned \in Nat /\ stack \in Seq(FrameRec)
        /\ blocks \in Seq(BlockRec) /\ sections \in Seq(SectionRec) /\ sec \in SectionRec
        /\ from \in Nat /\ cands \in Seq(CandRec) /\ i \in Nat \ {0}
        /\ pc \in {"scan", "next", "pack", "emit", "split", "merge", "done"}
    BY DEF Inv, ChunkerTypeOK
  <2>2. /\ base' \in Nat /\ length' \in Nat /\ scanned' \in Nat /\ stack' \in Seq(FrameRec)
        /\ blocks' \in Seq(BlockRec) /\ sections' \in Seq(SectionRec) /\ sec' \in SectionRec
        /\ from' \in Nat /\ cands' \in Seq(CandRec) /\ i' \in Nat \ {0}
        /\ pc' \in {"scan", "next", "pack", "emit", "split", "merge", "done"}
    BY <1>1, <2>1, Zenon
  <2>3. groups' \in Seq(RunRec)
    BY <1>2, <1>3, <1>12, Zenon
  <2>4. at' \in Nat /\ cur' \in Nat
    BY <1>1, <1>4, <1>10
  <2>. QED
    BY <2>2, <2>3, <2>4, Zenon DEF ChunkerTypeOK
<1>16. TextInv' /\ CrumbInv' /\ FitInv' /\ SectionInv'
  BY <1>1, BudgetsStay
  DEF Inv, TextInv, CrumbInv, FitInv, SectionInv, Overlaps, Size, RunUnder, Chunking
<1>17. OrderInv'
  <2>1. /\ \A k \in DOMAIN cands : cands[k].start < cands[k].end
        /\ \A k \in DOMAIN cands : cands[k].end <= blocks[sec.first].start
    BY <1>1 DEF Inv, OrderInv
  <2>2. \A k \in DOMAIN cands, g \in DOMAIN groups' :
          /\ cands[k].start < blocks[groups'[g].first].start
          /\ cands[k].end <= blocks[groups'[g].last].start
    <3> SUFFICES ASSUME NEW k \in DOMAIN cands, NEW g \in DOMAIN groups'
                 PROVE  /\ cands[k].start < blocks[groups'[g].first].start
                        /\ cands[k].end <= blocks[groups'[g].last].start
      OBVIOUS
    <3>1. groups'[g].first \in Nat /\ groups'[g].last \in Nat
      <4>1. Typed'
        BY <1>15, TypedFromType, PTL
      <4>. QED
        BY <4>1 DEF Typed
    <3>2. /\ groups'[g].first \in DOMAIN blocks /\ groups'[g].last \in DOMAIN blocks
          /\ sec.first \in DOMAIN blocks
          /\ sec.first <= groups'[g].first /\ sec.first <= groups'[g].last
      BY <1>4, <1>5, <1>13, <3>1
    <3>3. /\ blocks[sec.first].start <= blocks[groups'[g].first].start
          /\ blocks[sec.first].start <= blocks[groups'[g].last].start
      BY <3>2, BlocksInOrder DEF BlocksRise
    <3>4. cands[k].start \in Nat /\ cands[k].end \in Nat
      BY <1>3 DEF Typed
    <3>. QED
      BY <1>4, <2>1, <3>2, <3>3, <3>4
  <2>. QED
    BY <1>1, <2>1, <2>2 DEF Inv, OrderInv
<1>18. CoverInv'
  <2>1. \A n \in DOMAIN blocks : cur <= n /\ n <= sec.last =>
          \/ cur' <= n
          \/ \E g \in DOMAIN groups' : groups'[g].first <= n /\ n <= groups'[g].last
    <3> SUFFICES ASSUME NEW n \in DOMAIN blocks, cur <= n, ~(cur' <= n)
                 PROVE  \E g \in DOMAIN groups' : groups'[g].first <= n /\ n <= groups'[g].last
      OBVIOUS
    <3>1. closes
      BY <1>2
    <3>2. n <= at - 1
      BY <1>4, <1>10, <3>1
    <3>. QED
      BY <1>3, <1>12, <1>r, <3>1, <3>2
  <2>2. \A g \in DOMAIN groups : g \in DOMAIN groups' /\ groups'[g] = groups[g]
    BY <1>2, <1>3, <1>12
  <2> SUFFICES ASSUME NEW n \in DOMAIN blocks,
                      NEW byte \in blocks[n].start..(blocks[n].end - 1)
               PROVE  Awaited(n, byte)' \/ InChunk(byte)'
    BY <1>1 DEF CoverInv
  <2>3. Awaited(n, byte) \/ InChunk(byte)
    BY DEF Inv, CoverInv
  <2>4. InChunk(byte) => InChunk(byte)'
    BY <1>1 DEF InChunk
  <2>5. Awaited(n, byte) => Awaited(n, byte)'
    BY <1>1, <2>1, <2>2 DEF Awaited
  <2>. QED
    BY <2>3, <2>4, <2>5
<1>. QED
  BY <1>14, <1>15, <1>16, <1>17, <1>18 DEF Inv

\* The open group is closed with the section.
LEMMA EndPackingInv ==
    ASSUME Inv, EndPacking
    PROVE  Inv'
<1> DEFINE cap == CapOf(sec.path)
<1>1. /\ pc = "pack" /\ pc' = "emit" /\ at > sec.last /\ groups' = AllGroups
      /\ UNCHANGED <<base, length, scanned, stack, blocks, sections, sec, at, cur, from, cands, i>>
  BY DEF EndPacking, scanVars
<1>2. Typed /\ groups \in Seq(RunRec) /\ Len(groups) \in Nat /\ DOMAIN groups = 1..Len(groups)
  BY TypedFromType DEF Inv, ChunkerTypeOK, Typed
<1>3. /\ cur \in Nat /\ at \in Nat /\ sec.first \in Nat /\ sec.last \in Nat
      /\ \A g \in DOMAIN groups : groups[g].first \in Nat /\ groups[g].last \in Nat
      /\ Len(blocks) \in Nat /\ DOMAIN blocks = 1..Len(blocks)
      /\ \A n \in DOMAIN blocks : blocks[n].start \in Nat /\ blocks[n].end \in Nat
  BY <1>2 DEF Typed
<1>4. 1 <= sec.first /\ sec.first <= sec.last /\ sec.last <= Len(blocks)
  BY <1>1 DEF Inv, SectionInv, Chunking, RunUnder
<1>5. /\ \A g \in DOMAIN groups :
           /\ sec.first <= groups[g].first /\ groups[g].first <= groups[g].last
           /\ groups[g].last <= sec.last
           /\ groups[g].first < groups[g].last => Span(groups[g]) <= cap
      /\ \A g, h \in DOMAIN groups : g < h => /\ groups[g].first < groups[h].first
                                              /\ groups[g].last < groups[h].last
      /\ sec.first <= cur /\ cur <= at /\ at <= sec.last + 1
      /\ sec.first < at => cur < at
      /\ cur < at - 1 => Span(Run(cur, at - 1)) <= cap
      /\ \A g \in DOMAIN groups : groups[g].first < cur /\ groups[g].last < at - 1
  BY <1>1 DEF Inv, GroupInv
<1>6. at - 1 = sec.last /\ cur < at /\ cur <= sec.last
  <2>1. at <= sec.last + 1 /\ (sec.first < at => cur < at) /\ at > sec.last
    BY <1>1, <1>5
  <2>. QED
    BY <1>3, <1>4, <2>1
<1>r. /\ Run(cur, at - 1).first = cur /\ Run(cur, at - 1).last = sec.last
      /\ Run(cur, at - 1) \in RunRec
  BY <1>3, <1>6 DEF Run, RunRec
<1>7. /\ groups' \in Seq(RunRec) /\ DOMAIN groups' = 1..(Len(groups) + 1)
      /\ \A g \in 1..Len(groups) : groups'[g] = groups[g]
      /\ groups'[Len(groups) + 1] = Run(cur, at - 1)
  <2>1. groups' = Append(groups, Run(cur, at - 1))
    BY <1>1, <1>6 DEF AllGroups
  <2>. QED
    BY <1>2, <1>r, <2>1, AppendShape
<1>8. \A g \in DOMAIN groups' : g \in DOMAIN groups \/ g = Len(groups) + 1
  BY <1>2, <1>7
<1>9. ChunkerTypeOK' /\ Typed'
  <2>1. /\ base \in Nat /\ length \in Nat /\ scanned \in Nat /\ stack \in Seq(FrameRec)
        /\ blocks \in Seq(BlockRec) /\ sections \in Seq(SectionRec) /\ sec \in SectionRec
        /\ at \in Nat /\ cur \in Nat /\ from \in Nat /\ cands \in Seq(CandRec) /\ i \in Nat \ {0}
    BY DEF Inv, ChunkerTypeOK
  <2>2. /\ base' \in Nat /\ length' \in Nat /\ scanned' \in Nat /\ stack' \in Seq(FrameRec)
        /\ blocks' \in Seq(BlockRec) /\ sections' \in Seq(SectionRec) /\ sec' \in SectionRec
        /\ at' \in Nat /\ cur' \in Nat /\ from' \in Nat /\ cands' \in Seq(CandRec)
        /\ i' \in Nat \ {0}
        /\ pc' \in {"scan", "next", "pack", "emit", "split", "merge", "done"}
    BY <1>1, <2>1, Zenon
  <2>3. ChunkerTypeOK'
    BY <1>7, <2>2, Zenon DEF ChunkerTypeOK
  <2>. QED
    BY <2>3, TypedFromType, PTL
<1>10. TextInv' /\ CrumbInv' /\ FitInv' /\ SectionInv'
  BY <1>1, BudgetsStay
  DEF Inv, TextInv, CrumbInv, FitInv, SectionInv, Overlaps, Size, RunUnder, Chunking
<1>11. /\ \A g \in DOMAIN groups' :
            /\ sec.first <= groups'[g].first /\ groups'[g].first <= groups'[g].last
            /\ groups'[g].last <= sec.last
            /\ groups'[g].first < groups'[g].last => Span(groups'[g]) <= cap
       /\ \A g, h \in DOMAIN groups' : g < h => /\ groups'[g].first < groups'[h].first
                                                /\ groups'[g].last < groups'[h].last
  <2> HIDE DEF cap
  <2>1. \A g \in DOMAIN groups' :
          /\ sec.first <= groups'[g].first /\ groups'[g].first <= groups'[g].last
          /\ groups'[g].last <= sec.last
    BY <1>2, <1>3, <1>5, <1>6, <1>7, <1>r, <1>8
  <2>2. \A g \in DOMAIN groups' :
          groups'[g].first < groups'[g].last => Span(groups'[g]) <= cap
    BY <1>2, <1>3, <1>5, <1>6, <1>7, <1>r, <1>8
  <2>3. \A g, h \in DOMAIN groups' : g < h => /\ groups'[g].first < groups'[h].first
                                              /\ groups'[g].last < groups'[h].last
    BY <1>2, <1>3, <1>5, <1>6, <1>7, <1>r, <1>8
  <2>. QED
    BY <2>1, <2>2, <2>3
<1>12. GroupInv'
  <2>1. Chunking' /\ pc' = "emit"
    BY <1>1 DEF Chunking
  <2>2. CapOf(sec.path)' = cap
    BY <1>1 DEF CapOf, SectionCeiling
  <2>3. \A g \in DOMAIN groups' : Span(groups[g])' = Span(groups'[g])
    BY <1>1 DEF Span
  <2> HIDE DEF cap
  <2>. QED
    BY <1>1, <1>11, <2>1, <2>2, <2>3 DEF GroupInv
<1>13. OrderInv'
  <2>1. /\ \A k \in DOMAIN cands : cands[k].start < cands[k].end
        /\ \A k \in DOMAIN cands : cands[k].end <= blocks[sec.first].start
    BY <1>1 DEF Inv, OrderInv
  <2>2. \A k \in DOMAIN cands, g \in DOMAIN groups' :
          /\ cands[k].start < blocks[groups'[g].first].start
          /\ cands[k].end <= blocks[groups'[g].last].start
    <3> SUFFICES ASSUME NEW k \in DOMAIN cands, NEW g \in DOMAIN groups'
                 PROVE  /\ cands[k].start < blocks[groups'[g].first].start
                        /\ cands[k].end <= blocks[groups'[g].last].start
      OBVIOUS
    <3>1. groups'[g].first \in Nat /\ groups'[g].last \in Nat
      BY <1>9 DEF Typed
    <3>2. /\ groups'[g].first \in DOMAIN blocks /\ groups'[g].last \in DOMAIN blocks
          /\ sec.first \in DOMAIN blocks
          /\ sec.first <= groups'[g].first /\ sec.first <= groups'[g].last
      BY <1>3, <1>4, <1>11, <3>1
    <3>3. /\ blocks[sec.first].start <= blocks[groups'[g].first].start
          /\ blocks[sec.first].start <= blocks[groups'[g].last].start
      BY <3>2, BlocksInOrder DEF BlocksRise
    <3>4. cands[k].start \in Nat /\ cands[k].end \in Nat
      BY <1>2 DEF Typed
    <3>. QED
      BY <1>3, <2>1, <3>2, <3>3, <3>4
  <2>. QED
    BY <1>1, <2>1, <2>2 DEF Inv, OrderInv
<1>14. CoverInv'
  <2>1. Len(groups) + 1 \in DOMAIN groups'
    BY <1>2, <1>7
  <2>2. \A g \in DOMAIN groups : g \in DOMAIN groups' /\ groups'[g] = groups[g]
    BY <1>2, <1>7
  <2> SUFFICES ASSUME NEW n \in DOMAIN blocks,
                      NEW byte \in blocks[n].start..(blocks[n].end - 1)
               PROVE  Awaited(n, byte)' \/ InChunk(byte)'
    BY <1>1 DEF CoverInv
  <2>3. Awaited(n, byte) \/ InChunk(byte)
    BY DEF Inv, CoverInv
  <2>4. InChunk(byte) => InChunk(byte)'
    BY <1>1 DEF InChunk
  <2>5. Awaited(n, byte) => Awaited(n, byte)'
    BY <1>1, <1>7, <1>r, <2>1, <2>2 DEF Awaited
  <2>. QED
    BY <2>3, <2>4, <2>5
<1>. QED
  BY <1>9, <1>10, <1>12, <1>13, <1>14 DEF Inv

\* A group too large for the input ceiling is a single block.
LEMMA OnlyBlocksAreSplit ==
    ASSUME Inv, NEW g \in DOMAIN groups, TooLarge(groups[g])
    PROVE  groups[g].first = groups[g].last
<1>1. Typed /\ Budgets(sec.path)
  BY TypedFromType, BudgetsAgree DEF Inv, Typed
<1>2. pc \in {"pack", "emit", "split"}
  BY DEF Inv, GroupInv, Chunking
<1>3. /\ 1 <= sec.first /\ sec.last <= Len(blocks)
      /\ sec.first <= groups[g].first /\ groups[g].first <= groups[g].last
      /\ groups[g].last <= sec.last
      /\ groups[g].first < groups[g].last => Span(groups[g]) <= CapOf(sec.path)
  BY <1>2 DEF Inv, SectionInv, GroupInv, Chunking, RunUnder
<1>4. /\ groups[g].first \in Nat /\ groups[g].last \in Nat
      /\ sec.first \in Nat /\ sec.last \in Nat
      /\ Len(blocks) \in Nat /\ DOMAIN blocks = 1..Len(blocks)
      /\ \A n \in DOMAIN blocks : blocks[n].start \in Nat /\ blocks[n].end \in Nat
  BY <1>1 DEF Typed
<1>5. groups[g].first \in DOMAIN blocks /\ groups[g].last \in DOMAIN blocks
  BY <1>3, <1>4
<1>6. Span(groups[g]) \in Int
  BY <1>4, <1>5 DEF Span
<1>7. /\ CapOf(sec.path) \in Nat /\ SectionCeiling(sec.path) \in Nat
      /\ CapOf(sec.path) <= SectionCeiling(sec.path)
      /\ Span(groups[g]) > SectionCeiling(sec.path)
  BY <1>1 DEF Budgets, TooLarge
<1>. QED
  BY <1>3, <1>4, <1>6, <1>7

\* A chunk is added that follows all the others, lies in the section, and is
\* within the ceiling: what emitting a group and cutting a piece have in common.
NextChunk(c) ==
    /\ c \in CandRec /\ c.path = sec.path
    /\ c.start < c.end
    /\ \A k \in DOMAIN cands : cands[k].start < c.start /\ cands[k].end < c.end
    /\ blocks[sec.first].start <= c.start /\ c.end <= blocks[sec.last].end
    /\ base > 0 => Size(c) <= SectionCeiling(sec.path)

\* Such a chunk leaves the chunks in order, true to their headings and in bounds.
LEMMA ChunkAdded ==
    ASSUME Inv, Chunking, NEW c, NextChunk(c), cands' = Append(cands, c),
           UNCHANGED <<base, blocks, sections>>
    PROVE  /\ cands' \in Seq(CandRec)
           /\ DOMAIN cands' = 1..(Len(cands) + 1)
           /\ \A k \in DOMAIN cands' : k \in DOMAIN cands \/ k = Len(cands) + 1
           /\ \A k \in DOMAIN cands : k \in DOMAIN cands' /\ cands'[k] = cands[k]
           /\ cands'[Len(cands) + 1] = c
           /\ \A k \in DOMAIN cands' : cands'[k].start < cands'[k].end
           /\ \A j, k \in DOMAIN cands' : j < k => /\ cands'[j].start < cands'[k].start
                                                   /\ cands'[j].end < cands'[k].end
           /\ \A k \in DOMAIN cands', j \in DOMAIN sections :
                cands'[k].end <= blocks[sections[j].first].start
           /\ CrumbInv' /\ FitInv'
<1>1. Typed /\ cands \in Seq(CandRec) /\ Len(cands) \in Nat /\ DOMAIN cands = 1..Len(cands)
  BY TypedFromType DEF Inv, ChunkerTypeOK, Typed
<1>2. /\ cands' \in Seq(CandRec) /\ DOMAIN cands' = 1..(Len(cands) + 1)
      /\ \A k \in 1..Len(cands) : cands'[k] = cands[k]
      /\ cands'[Len(cands) + 1] = c
  <2>1. c \in CandRec
    BY DEF NextChunk
  <2>. QED
    BY <1>1, <2>1, AppendShape
<1>3. /\ \A k \in DOMAIN cands' : k \in DOMAIN cands \/ k = Len(cands) + 1
      /\ \A k \in DOMAIN cands : k \in DOMAIN cands' /\ cands'[k] = cands[k]
  BY <1>1, <1>2
<1>4. /\ \A k \in DOMAIN cands : cands[k].start < cands[k].end
      /\ \A j, k \in DOMAIN cands : j < k => /\ cands[j].start < cands[k].start
                                             /\ cands[j].end < cands[k].end
      /\ \A k \in DOMAIN cands, j \in DOMAIN sections :
           cands[k].end <= blocks[sections[j].first].start
  BY DEF Inv, OrderInv
<1>5. /\ c.path = sec.path /\ c.start < c.end
      /\ \A k \in DOMAIN cands : cands[k].start < c.start /\ cands[k].end < c.end
      /\ blocks[sec.first].start <= c.start /\ c.end <= blocks[sec.last].end
      /\ base > 0 => Size(c) <= SectionCeiling(sec.path)
      /\ c.start \in Nat /\ c.end \in Nat
  BY DEF NextChunk, CandRec
<1>6. /\ RunUnder(sec, sec.path) /\ \A j \in DOMAIN sections : sec.last < sections[j].first
      /\ \A j \in DOMAIN sections : RunUnder(sections[j], sections[j].path)
  BY DEF Inv, SectionInv
<1>7. /\ Len(blocks) \in Nat /\ DOMAIN blocks = 1..Len(blocks)
      /\ \A n \in DOMAIN blocks : blocks[n].start \in Nat /\ blocks[n].end \in Nat
      /\ sec.first \in Nat /\ sec.last \in Nat
      /\ \A j \in DOMAIN sections : sections[j].first \in Nat /\ sections[j].last \in Nat
  BY <1>1 DEF Typed
<1>8. /\ sec.first \in DOMAIN blocks /\ sec.last \in DOMAIN blocks
      /\ \A n \in sec.first..sec.last : n \in DOMAIN blocks /\ blocks[n].path = sec.path
      /\ \A j \in DOMAIN sections : sections[j].first \in DOMAIN blocks
  <2>1. /\ 1 <= sec.first /\ sec.first <= sec.last /\ sec.last <= Len(blocks)
        /\ \A n \in sec.first..sec.last : blocks[n].path = sec.path
    BY <1>6 DEF RunUnder
  <2>2. \A j \in DOMAIN sections : /\ 1 <= sections[j].first
                                   /\ sections[j].first <= sections[j].last
                                   /\ sections[j].last <= Len(blocks)
    BY <1>6 DEF RunUnder
  <2>. QED
    BY <1>7, <2>1, <2>2
<1>9. /\ \A n \in DOMAIN blocks : blocks[n].start < blocks[n].end
      /\ \A m, n \in DOMAIN blocks : m < n => blocks[m].end <= blocks[n].start
  BY DEF Inv, TextInv
<1>10. \A k \in DOMAIN cands' : cands'[k].start < cands'[k].end
  BY <1>2, <1>3, <1>4, <1>5
<1>11. \A j, k \in DOMAIN cands' : j < k => /\ cands'[j].start < cands'[k].start
                                            /\ cands'[j].end < cands'[k].end
  BY <1>1, <1>2, <1>3, <1>4, <1>5
<1>12. \A k \in DOMAIN cands', j \in DOMAIN sections :
         cands'[k].end <= blocks[sections[j].first].start
  <2>1. \A j \in DOMAIN sections : c.end <= blocks[sections[j].first].start
    BY <1>5, <1>6, <1>7, <1>8, <1>9
  <2>. QED
    BY <1>2, <1>3, <1>4, <2>1
<1>13. CrumbInv'
  <2> SUFFICES ASSUME NEW k \in DOMAIN cands', NEW n \in DOMAIN blocks,
                      Overlaps(cands'[k], blocks[n])
               PROVE  IsPrefix(cands'[k].path, blocks[n].path)
    BY DEF CrumbInv, Overlaps
  <2>1. CASE k \in DOMAIN cands
    BY <1>3, <2>1 DEF Inv, CrumbInv
  <2>2. CASE k = Len(cands) + 1
    <3>1. c.start < blocks[n].end /\ blocks[n].start < c.end
      BY <1>2, <2>2 DEF Overlaps
    <3>2. ~(n < sec.first)
      BY <1>5, <1>7, <1>8, <1>9, <3>1
    <3>3. ~(sec.last < n)
      BY <1>5, <1>7, <1>8, <1>9, <3>1
    <3>4. blocks[n].path = sec.path
      BY <1>7, <1>8, <3>2, <3>3
    <3>5. sec.path \in Seq(Parts)
      BY <1>1 DEF Typed
    <3>6. IsPrefix(sec.path, sec.path)
      BY <3>5, PrefixByPlace
    <3>. QED
      BY <1>2, <1>5, <2>2, <3>4, <3>6
  <2>. QED
    BY <1>3, <2>1, <2>2
<1>14. FitInv'
  <2>1. \A k \in DOMAIN cands' : base > 0 => Size(cands'[k]) <= SectionCeiling(cands'[k].path)
    BY <1>2, <1>3, <1>5 DEF Inv, FitInv
  <2>2. \A k \in DOMAIN cands' :
          Size(cands[k])' = Size(cands'[k]) /\ SectionCeiling(cands[k].path)' = SectionCeiling(cands'[k].path)
    BY DEF Size, SectionCeiling
  <2>. QED
    BY <2>1, <2>2 DEF FitInv
<1>. QED
  BY <1>2, <1>3, <1>10, <1>11, <1>12, <1>13, <1>14

\* The first group, as a run of blocks.
LEMMA FirstGroup ==
    ASSUME Inv, groups # <<>>
    PROVE  LET g == groups[1]
           IN /\ Head(groups) = g /\ 1 \in DOMAIN groups
              /\ g.first \in DOMAIN blocks /\ g.last \in DOMAIN blocks
              /\ g.first \in Nat /\ g.last \in Nat /\ g.first <= g.last
              /\ sec.first \in DOMAIN blocks /\ sec.last \in DOMAIN blocks
              /\ sec.first <= g.first /\ g.last <= sec.last
              /\ blocks[sec.first].start <= blocks[g.first].start
              /\ blocks[g.last].end <= blocks[sec.last].end
              /\ blocks[g.first].start < blocks[g.last].end
<1> DEFINE g == groups[1]
<1>1. Typed /\ groups \in Seq(RunRec)
  BY TypedFromType DEF Inv, ChunkerTypeOK
<1>2. Head(groups) = g /\ 1 \in DOMAIN groups
  <2>1. Len(groups) >= 1 /\ Head(groups) = groups[1]
    BY <1>1, TailShape
  <2>. QED
    BY <1>1, <2>1 DEF Typed
<1>3. /\ groups[1].first \in Nat /\ groups[1].last \in Nat
      /\ Len(blocks) \in Nat /\ DOMAIN blocks = 1..Len(blocks)
      /\ \A n \in DOMAIN blocks : blocks[n].start \in Nat /\ blocks[n].end \in Nat
      /\ sec.first \in Nat /\ sec.last \in Nat
  BY <1>1, <1>2 DEF Typed
<1>4. Chunking
  BY DEF Inv, GroupInv
<1>5. /\ 1 <= sec.first /\ sec.first <= sec.last /\ sec.last <= Len(blocks)
      /\ sec.first <= groups[1].first /\ groups[1].first <= groups[1].last
      /\ groups[1].last <= sec.last
  BY <1>2, <1>4 DEF Inv, SectionInv, GroupInv, RunUnder
<1>6. /\ g.first \in DOMAIN blocks /\ g.last \in DOMAIN blocks
      /\ sec.first \in DOMAIN blocks /\ sec.last \in DOMAIN blocks
  BY <1>3, <1>5
<1>7. /\ blocks[sec.first].start <= blocks[g.first].start
      /\ blocks[g.last].end <= blocks[sec.last].end
      /\ blocks[g.first].end <= blocks[g.last].end
  BY <1>5, <1>6, BlocksInOrder DEF BlocksRise
<1>8. blocks[g.first].start < blocks[g.first].end
  BY <1>6 DEF Inv, TextInv
<1>9. blocks[g.first].start < blocks[g.last].end
  BY <1>3, <1>6, <1>7, <1>8
<1>. QED
  BY <1>2, <1>3, <1>5, <1>6, <1>7, <1>9

\* The first group leaves; the others begin and end with later blocks.
LEMMA GroupGone ==
    ASSUME Inv, groups # <<>>, groups' = Tail(groups), pc' = "emit",
           UNCHANGED <<base, blocks, sec>>
    PROVE  /\ groups' \in Seq(RunRec) /\ GroupInv'
           /\ \A h \in DOMAIN groups' : h + 1 \in DOMAIN groups /\ h + 1 # 1
                                        /\ groups'[h] = groups[h + 1]
           /\ \A g \in DOMAIN groups : g = 1 \/ (g - 1 \in DOMAIN groups' /\ groups'[g - 1] = groups[g])
           /\ \A h \in DOMAIN groups' :
                /\ blocks[groups[1].first].start < blocks[groups'[h].first].start
                /\ blocks[groups[1].first].end <= blocks[groups'[h].first].start
                /\ blocks[groups[1].last].end <= blocks[groups'[h].last].start
<1>1. Typed /\ groups \in Seq(RunRec)
  BY TypedFromType DEF Inv, ChunkerTypeOK
<1>2. /\ groups' \in Seq(RunRec) /\ DOMAIN groups' = 1..(Len(groups) - 1)
      /\ \A h \in 1..(Len(groups) - 1) : groups'[h] = groups[h + 1]
      /\ Len(groups) >= 1
  BY <1>1, TailShape
<1>3. /\ Len(groups) \in Nat /\ DOMAIN groups = 1..Len(groups)
      /\ \A g \in DOMAIN groups : groups[g].first \in Nat /\ groups[g].last \in Nat
      /\ Len(blocks) \in Nat /\ DOMAIN blocks = 1..Len(blocks)
      /\ \A n \in DOMAIN blocks : blocks[n].start \in Nat /\ blocks[n].end \in Nat
      /\ sec.first \in Nat /\ sec.last \in Nat
  BY <1>1 DEF Typed
<1>4. /\ \A h \in DOMAIN groups' : /\ h + 1 \in DOMAIN groups /\ h + 1 # 1 /\ 1 < h + 1
                                   /\ groups'[h] = groups[h + 1]
      /\ \A g \in DOMAIN groups : g = 1 \/ (g - 1 \in DOMAIN groups' /\ groups'[g - 1] = groups[g])
      /\ \A g, h \in DOMAIN groups' : g < h => g + 1 < h + 1
      /\ 1 \in DOMAIN groups
  BY <1>2, <1>3
<1>5. /\ \A g \in DOMAIN groups :
           /\ sec.first <= groups[g].first /\ groups[g].first <= groups[g].last
           /\ groups[g].last <= sec.last
           /\ groups[g].first < groups[g].last => Span(groups[g]) <= CapOf(sec.path)
      /\ \A g, h \in DOMAIN groups : g < h => /\ groups[g].first < groups[h].first
                                              /\ groups[g].last < groups[h].last
  BY DEF Inv, GroupInv
<1>6. 1 <= sec.first /\ sec.last <= Len(blocks)
  BY DEF Inv, GroupInv, SectionInv, RunUnder
<1>7. GroupInv'
  <2>1. CapOf(sec.path)' = CapOf(sec.path)
    BY DEF CapOf, SectionCeiling
  <2>2. \A g \in DOMAIN groups' : Span(groups[g])' = Span(groups'[g])
    BY DEF Span
  <2>3. Chunking' /\ pc' # "pack" /\ pc' # "split"
    BY DEF Chunking
  <2>4. /\ \A g \in DOMAIN groups' :
             /\ sec'.first <= groups'[g].first /\ groups'[g].first <= groups'[g].last
             /\ groups'[g].last <= sec'.last
             /\ groups'[g].first < groups'[g].last => Span(groups'[g]) <= CapOf(sec.path)
        /\ \A g, h \in DOMAIN groups' : g < h => /\ groups'[g].first < groups'[h].first
                                                 /\ groups'[g].last < groups'[h].last
    BY <1>4, <1>5
  <2>. QED
    BY <2>1, <2>2, <2>3, <2>4 DEF GroupInv
<1>8. \A g \in DOMAIN groups : groups[g].first \in DOMAIN blocks /\ groups[g].last \in DOMAIN blocks
  BY <1>3, <1>5, <1>6
<1>9. ASSUME NEW h \in DOMAIN groups'
      PROVE  /\ blocks[groups[1].first].start < blocks[groups'[h].first].start
             /\ blocks[groups[1].first].end <= blocks[groups'[h].first].start
             /\ blocks[groups[1].last].end <= blocks[groups'[h].last].start
  <2>1. groups[1].first < groups'[h].first /\ groups[1].last < groups'[h].last
    BY <1>4, <1>5
  <2>2. /\ blocks[groups[1].first].end <= blocks[groups'[h].first].start
        /\ blocks[groups[1].last].end <= blocks[groups'[h].last].start
        /\ blocks[groups[1].first].start < blocks[groups[1].first].end
    BY <1>4, <1>8, <2>1 DEF Inv, TextInv
  <2>3. /\ blocks[groups[1].first].start \in Nat /\ blocks[groups[1].first].end \in Nat
        /\ blocks[groups'[h].first].start \in Nat
    BY <1>3, <1>4, <1>8
  <2>. QED
    BY <2>2, <2>3
<1>. QED
  BY <1>2, <1>4, <1>7, <1>9

\* A group that fits becomes a chunk.
LEMMA EmitGroupInv ==
    ASSUME Inv, EmitGroup
    PROVE  Inv'
<1> DEFINE g == groups[1]
           c == Cand(blocks[g.first].start, blocks[g.last].end, sec.path, sec.preamble, FALSE)
<1>1. /\ pc = "emit" /\ pc' = "emit" /\ groups # <<>> /\ ~TooLarge(Head(groups))
      /\ groups' = Tail(groups)
      /\ UNCHANGED <<base, length, scanned, stack, blocks, sections, sec, at, cur, from, i>>
  BY DEF EmitGroup, scanVars
<1>2. /\ Head(groups) = g /\ 1 \in DOMAIN groups
      /\ g.first \in DOMAIN blocks /\ g.last \in DOMAIN blocks
      /\ g.first \in Nat /\ g.last \in Nat /\ g.first <= g.last
      /\ blocks[sec.first].start <= blocks[g.first].start
      /\ blocks[g.last].end <= blocks[sec.last].end
      /\ blocks[g.first].start < blocks[g.last].end
  BY <1>1, FirstGroup
<1>3. cands' = Append(cands, c)
  BY <1>2 DEF EmitGroup
<1>4. Typed /\ Chunking
  BY <1>1, TypedFromType DEF Inv, Chunking
<1>5. /\ \A n \in DOMAIN blocks : blocks[n].start \in Nat /\ blocks[n].end \in Nat
      /\ \A k \in DOMAIN cands : cands[k].start \in Nat /\ cands[k].end \in Nat
      /\ sec.path \in Seq(Parts) /\ sec.preamble \in BOOLEAN /\ base \in Nat
  BY <1>4 DEF Typed
<1>6. /\ c.start = blocks[g.first].start /\ c.end = blocks[g.last].end /\ c.path = sec.path
      /\ c \in CandRec
  BY <1>2, <1>5 DEF Cand, CandRec
<1> HIDE DEF c
<1>7. NextChunk(c)
  <2>1. \A k \in DOMAIN cands : cands[k].start < c.start /\ cands[k].end < c.end
    <3>1. \A k \in DOMAIN cands : /\ cands[k].start < blocks[g.first].start
                                  /\ cands[k].end <= blocks[g.last].start
      BY <1>1, <1>2, <1>4 DEF Inv, OrderInv
    <3>2. blocks[g.last].start < blocks[g.last].end
      BY <1>2 DEF Inv, TextInv
    <3>. QED
      BY <1>2, <1>5, <1>6, <3>1, <3>2
  <2>2. base > 0 => Size(c) <= SectionCeiling(sec.path)
    <3>1. Size(c) = Span(g) /\ Span(g) \in Int
      BY <1>2, <1>5, <1>6 DEF Size, Span
    <3>2. Budgets(sec.path)
      BY <1>5, BudgetsAgree
    <3>3. ~(SectionCeiling(sec.path) > 0 /\ Span(g) > SectionCeiling(sec.path))
      BY <1>1, <1>2 DEF TooLarge
    <3>4. SectionCeiling(sec.path) \in Nat /\ (base > 0 => SectionCeiling(sec.path) > 0)
      BY <3>2 DEF Budgets
    <3>. QED
      BY <3>1, <3>3, <3>4
  <2>. QED
    BY <1>2, <1>6, <2>1, <2>2 DEF NextChunk
<1>8. /\ cands' \in Seq(CandRec)
      /\ \A k \in DOMAIN cands' : k \in DOMAIN cands \/ k = Len(cands) + 1
      /\ Len(cands) + 1 \in DOMAIN cands'
      /\ \A k \in DOMAIN cands : k \in DOMAIN cands' /\ cands'[k] = cands[k]
      /\ cands'[Len(cands) + 1] = c
      /\ \A k \in DOMAIN cands' : cands'[k].start < cands'[k].end
      /\ \A j, k \in DOMAIN cands' : j < k => /\ cands'[j].start < cands'[k].start
                                              /\ cands'[j].end < cands'[k].end
      /\ \A k \in DOMAIN cands', j \in DOMAIN sections :
           cands'[k].end <= blocks[sections[j].first].start
      /\ CrumbInv' /\ FitInv'
  <2>1. DOMAIN cands' = 1..(Len(cands) + 1) => Len(cands) + 1 \in DOMAIN cands'
    BY <1>4 DEF Typed
  <2>. QED
    BY <1>1, <1>3, <1>4, <1>7, <2>1, ChunkAdded
<1>9. /\ groups' \in Seq(RunRec) /\ GroupInv'
      /\ \A h \in DOMAIN groups' : h + 1 \in DOMAIN groups /\ groups'[h] = groups[h + 1]
      /\ \A h \in DOMAIN groups : h = 1 \/ (h - 1 \in DOMAIN groups' /\ groups'[h - 1] = groups[h])
      /\ \A h \in DOMAIN groups' :
           /\ blocks[g.first].start < blocks[groups'[h].first].start
           /\ blocks[g.last].end <= blocks[groups'[h].last].start
  BY <1>1, GroupGone
<1>10. ChunkerTypeOK'
  <2>1. /\ base \in Nat /\ length \in Nat /\ scanned \in Nat /\ stack \in Seq(FrameRec)
        /\ blocks \in Seq(BlockRec) /\ sections \in Seq(SectionRec) /\ sec \in SectionRec
        /\ at \in Nat /\ cur \in Nat /\ from \in Nat /\ i \in Nat \ {0}
    BY DEF Inv, ChunkerTypeOK
  <2>2. /\ base' \in Nat /\ length' \in Nat /\ scanned' \in Nat /\ stack' \in Seq(FrameRec)
        /\ blocks' \in Seq(BlockRec) /\ sections' \in Seq(SectionRec) /\ sec' \in SectionRec
        /\ at' \in Nat /\ cur' \in Nat /\ from' \in Nat /\ i' \in Nat \ {0}
        /\ pc' \in {"scan", "next", "pack", "emit", "split", "merge", "done"}
    BY <1>1, <2>1, Zenon
  <2>. QED
    BY <1>8, <1>9, <2>2, Zenon DEF ChunkerTypeOK
<1>11. TextInv' /\ SectionInv'
  BY <1>1 DEF Inv, TextInv, SectionInv, RunUnder, Chunking
<1>12. OrderInv'
  <2>1. \A k \in DOMAIN cands', h \in DOMAIN groups' :
          /\ cands'[k].start < blocks[groups'[h].first].start
          /\ cands'[k].end <= blocks[groups'[h].last].start
    <3>1. \A k \in DOMAIN cands, h \in DOMAIN groups :
            /\ cands[k].start < blocks[groups[h].first].start
            /\ cands[k].end <= blocks[groups[h].last].start
      BY <1>1, <1>4 DEF Inv, OrderInv
    <3> SUFFICES ASSUME NEW k \in DOMAIN cands', NEW h \in DOMAIN groups'
                 PROVE  /\ cands'[k].start < blocks[groups'[h].first].start
                        /\ cands'[k].end <= blocks[groups'[h].last].start
      OBVIOUS
    <3>2. CASE k \in DOMAIN cands
      <4>1. h + 1 \in DOMAIN groups /\ groups'[h] = groups[h + 1] /\ cands'[k] = cands[k]
        BY <1>8, <1>9, <3>2
      <4>. QED
        BY <3>1, <3>2, <4>1
    <3>3. CASE k = Len(cands) + 1
      BY <1>6, <1>8, <1>9, <3>3
    <3>. QED
      BY <1>8, <3>2, <3>3
  <2>. QED
    BY <1>1, <1>8, <2>1 DEF OrderInv
<1>13. CoverInv'
  <2> SUFFICES ASSUME NEW n \in DOMAIN blocks,
                      NEW byte \in blocks[n].start..(blocks[n].end - 1)
               PROVE  Awaited(n, byte)' \/ InChunk(byte)'
    BY <1>1 DEF CoverInv
  <2>1. Awaited(n, byte) \/ InChunk(byte)
    BY DEF Inv, CoverInv
  <2>2. InChunk(byte) => InChunk(byte)'
    BY <1>8 DEF InChunk
  <2>3. CASE g.first <= n /\ n <= g.last
    <3>1. blocks[g.first].start <= blocks[n].start /\ blocks[n].end <= blocks[g.last].end
      BY <1>2, <2>3, BlocksInOrder DEF BlocksRise
    <3>2. c.start <= byte /\ byte < c.end
      BY <1>2, <1>5, <1>6, <3>1
    <3>. QED
      BY <1>8, <3>2 DEF InChunk
  <2>4. CASE Awaited(n, byte) /\ ~(g.first <= n /\ n <= g.last)
    BY <1>1, <1>9, <2>4 DEF Awaited
  <2>. QED
    BY <2>1, <2>2, <2>3, <2>4
<1>. QED
  BY <1>8, <1>9, <1>10, <1>11, <1>12, <1>13 DEF Inv

\* A block over the ceiling is about to be cut.
LEMMA BeginSplitInv ==
    ASSUME Inv, BeginSplit
    PROVE  Inv'
<1> DEFINE g == groups[1]
<1>1. /\ pc = "emit" /\ pc' = "split" /\ groups # <<>> /\ TooLarge(Head(groups))
      /\ from' = blocks[Head(groups).first].start
      /\ UNCHANGED <<base, length, scanned, stack, blocks, sections, sec, at, cur, groups, cands, i>>
  BY DEF BeginSplit, scanVars
<1>2. /\ Head(groups) = g /\ 1 \in DOMAIN groups
      /\ g.first \in DOMAIN blocks /\ g.last \in DOMAIN blocks
      /\ blocks[g.first].start < blocks[g.last].end
  BY <1>1, FirstGroup
<1>3. g.first = g.last
  BY <1>1, <1>2, OnlyBlocksAreSplit
<1>4. Typed /\ Chunking /\ Chunking'
  BY <1>1, TypedFromType DEF Inv, Chunking
<1>5. /\ from' = blocks[g.first].start /\ from' \in Nat
      /\ g.first \in Nat /\ g.last \in Nat
      /\ \A k \in DOMAIN cands : cands[k].start \in Nat /\ cands[k].end \in Nat
  BY <1>1, <1>2, <1>4 DEF Typed
<1>6. ChunkerTypeOK'
  <2>1. /\ base \in Nat /\ length \in Nat /\ scanned \in Nat /\ stack \in Seq(FrameRec)
        /\ blocks \in Seq(BlockRec) /\ sections \in Seq(SectionRec) /\ sec \in SectionRec
        /\ at \in Nat /\ cur \in Nat /\ groups \in Seq(RunRec) /\ cands \in Seq(CandRec)
        /\ i \in Nat \ {0}
    BY DEF Inv, ChunkerTypeOK
  <2>2. /\ base' \in Nat /\ length' \in Nat /\ scanned' \in Nat /\ stack' \in Seq(FrameRec)
        /\ blocks' \in Seq(BlockRec) /\ sections' \in Seq(SectionRec) /\ sec' \in SectionRec
        /\ at' \in Nat /\ cur' \in Nat /\ groups' \in Seq(RunRec) /\ cands' \in Seq(CandRec)
        /\ i' \in Nat \ {0}
        /\ pc' \in {"scan", "next", "pack", "emit", "split", "merge", "done"}
    BY <1>1, <2>1, Zenon
  <2>. QED
    BY <1>5, <2>2, Zenon DEF ChunkerTypeOK
<1>7. TextInv' /\ CrumbInv' /\ FitInv' /\ SectionInv'
  BY <1>1, BudgetsStay
  DEF Inv, TextInv, CrumbInv, FitInv, SectionInv, Overlaps, Size, RunUnder, Chunking
<1>8. GroupInv'
  <2>1. CapOf(sec.path)' = CapOf(sec.path)
    BY <1>1 DEF CapOf, SectionCeiling
  <2>2. \A h \in DOMAIN groups : Span(groups[h])' = Span(groups[h])
    BY <1>1 DEF Span
  <2>3. blocks[g.first].start <= from' /\ from' < blocks[g.last].end
    BY <1>2, <1>5
  <2>. QED
    BY <1>1, <1>3, <1>4, <2>1, <2>2, <2>3 DEF Inv, GroupInv
<1>9. OrderInv'
  <2>1. \A k \in DOMAIN cands : cands[k].start < from' /\ cands[k].end <= from'
    BY <1>1, <1>2, <1>3, <1>4, <1>5 DEF Inv, OrderInv
  <2>2. \A k \in DOMAIN cands : cands[k].start < from' /\ cands[k].end <= from'
    BY <1>5, <2>1
  <2>. QED
    BY <1>1, <1>4, <2>2 DEF Inv, OrderInv
<1>10. CoverInv'
  <2> SUFFICES ASSUME NEW n \in DOMAIN blocks,
                      NEW byte \in blocks[n].start..(blocks[n].end - 1)
               PROVE  Awaited(n, byte)' \/ InChunk(byte)'
    BY <1>1 DEF CoverInv
  <2>1. Awaited(n, byte) \/ InChunk(byte)
    BY DEF Inv, CoverInv
  <2>2. InChunk(byte) => InChunk(byte)'
    BY <1>1 DEF InChunk
  <2>3. (g.first <= n /\ n <= g.last) => from' <= byte
    <3> SUFFICES ASSUME g.first <= n, n <= g.last PROVE from' <= byte
      OBVIOUS
    <3>1. n = g.first
      BY <1>3, <1>4, <1>5 DEF Typed
    <3>. QED
      BY <1>4, <1>5, <3>1 DEF Typed
  <2>4. Awaited(n, byte) => Awaited(n, byte)'
    BY <1>1, <2>3 DEF Awaited
  <2>. QED
    BY <2>1, <2>2, <2>4
<1>. QED
  BY <1>6, <1>7, <1>8, <1>9, <1>10 DEF Inv

\* A piece of it becomes a chunk.
LEMMA SplitPieceInv ==
    ASSUME Inv, NEW cut \in 1..length, SplitPiece(cut)
    PROVE  Inv'
<1> DEFINE g == groups[1]
           end == blocks[g.last].end
           c == Cand(from, from + cut, sec.path, sec.preamble, TRUE)
<1>1. /\ pc = "split"
      /\ UNCHANGED <<base, length, scanned, stack, blocks, sections, sec, at, cur, i>>
  BY DEF SplitPiece, scanVars
<1>2. /\ groups # <<>> /\ g.first = g.last
      /\ blocks[g.first].start <= from /\ from < end
  BY <1>1 DEF Inv, GroupInv
<1>3. /\ Head(groups) = g /\ 1 \in DOMAIN groups
      /\ g.first \in DOMAIN blocks /\ g.last \in DOMAIN blocks
      /\ g.first \in Nat /\ g.last \in Nat
      /\ sec.first \in DOMAIN blocks /\ sec.last \in DOMAIN blocks
      /\ blocks[sec.first].start <= blocks[g.first].start
      /\ end <= blocks[sec.last].end
  BY <1>2, FirstGroup
<1>4. /\ cut \in 1..Least(SectionCeiling(sec.path), end - from)
      /\ cands' = Append(cands, c)
      /\ \/ /\ from + cut = end /\ pc' = "emit" /\ groups' = Tail(groups) /\ from' = 0
         \/ /\ from + cut # end /\ from' = from + cut /\ pc' = pc /\ groups' = groups
  BY <1>3 DEF SplitPiece
<1>5. Typed /\ Chunking
  BY <1>1, TypedFromType DEF Inv, Chunking
<1>6. /\ \A n \in DOMAIN blocks : blocks[n].start \in Nat /\ blocks[n].end \in Nat
      /\ \A k \in DOMAIN cands : cands[k].start \in Nat /\ cands[k].end \in Nat
      /\ sec.path \in Seq(Parts) /\ sec.preamble \in BOOLEAN /\ base \in Nat
      /\ from \in Nat /\ length \in Nat /\ DOMAIN blocks = 1..Len(blocks) /\ Len(blocks) \in Nat
      /\ Len(groups) \in Nat /\ DOMAIN groups = 1..Len(groups)
  BY <1>5 DEF Typed
<1>7. end \in Nat /\ SectionCeiling(sec.path) \in Nat /\ cut \in Nat
  <2>1. Budgets(sec.path)
    BY <1>6, BudgetsAgree
  <2>. QED
    BY <1>3, <1>6, <2>1 DEF Budgets
<1>8. 1 <= cut /\ cut <= SectionCeiling(sec.path) /\ from + cut <= end
  BY <1>4, <1>6, <1>7 DEF Least
<1>9. c.start = from /\ c.end = from + cut /\ c.path = sec.path /\ c \in CandRec
  BY <1>6, <1>7 DEF Cand, CandRec
<1> HIDE DEF c, end
<1>10. NextChunk(c)
  <2>1. \A k \in DOMAIN cands : cands[k].start < from /\ cands[k].end <= from
    BY <1>1 DEF Inv, OrderInv
  <2>2. \A k \in DOMAIN cands : cands[k].start < c.start /\ cands[k].end < c.end
    BY <1>6, <1>7, <1>8, <1>9, <2>1
  <2>3. Size(c) = cut
    BY <1>6, <1>7, <1>9 DEF Size
  <2>4. blocks[sec.first].start <= c.start /\ c.end <= blocks[sec.last].end /\ c.start < c.end
    <3>1. /\ blocks[sec.first].start \in Nat /\ blocks[g.first].start \in Nat
          /\ blocks[sec.last].end \in Nat /\ from \in Nat
      BY <1>3, <1>6
    <3>2. blocks[sec.first].start <= from
      BY <1>2, <1>3, <3>1
    <3>3. from + cut <= blocks[sec.last].end
      BY <1>3, <1>7, <1>8, <3>1
    <3>4. from < from + cut
      BY <1>7, <1>8, <3>1
    <3>. QED
      BY <1>9, <3>2, <3>3, <3>4
  <2>. QED
    BY <1>8, <1>9, <2>2, <2>3, <2>4 DEF NextChunk
<1>11. /\ cands' \in Seq(CandRec)
       /\ \A k \in DOMAIN cands' : k \in DOMAIN cands \/ k = Len(cands) + 1
       /\ Len(cands) + 1 \in DOMAIN cands'
       /\ \A k \in DOMAIN cands : k \in DOMAIN cands' /\ cands'[k] = cands[k]
       /\ cands'[Len(cands) + 1] = c
       /\ \A k \in DOMAIN cands' : cands'[k].start < cands'[k].end
       /\ \A j, k \in DOMAIN cands' : j < k => /\ cands'[j].start < cands'[k].start
                                               /\ cands'[j].end < cands'[k].end
       /\ \A k \in DOMAIN cands', j \in DOMAIN sections :
            cands'[k].end <= blocks[sections[j].first].start
       /\ CrumbInv' /\ FitInv'
  <2>1. DOMAIN cands' = 1..(Len(cands) + 1) => Len(cands) + 1 \in DOMAIN cands'
    BY <1>5 DEF Typed
  <2>. QED
    BY <1>1, <1>4, <1>5, <1>10, <2>1, ChunkAdded
<1>12. /\ base' \in Nat /\ length' \in Nat /\ scanned' \in Nat /\ stack' \in Seq(FrameRec)
       /\ blocks' \in Seq(BlockRec) /\ sections' \in Seq(SectionRec) /\ sec' \in SectionRec
       /\ at' \in Nat /\ cur' \in Nat /\ i' \in Nat \ {0} /\ groups \in Seq(RunRec)
  <2>1. /\ base \in Nat /\ length \in Nat /\ scanned \in Nat /\ stack \in Seq(FrameRec)
        /\ blocks \in Seq(BlockRec) /\ sections \in Seq(SectionRec) /\ sec \in SectionRec
        /\ at \in Nat /\ cur \in Nat /\ i \in Nat \ {0} /\ groups \in Seq(RunRec)
    BY DEF Inv, ChunkerTypeOK
  <2>. QED
    BY <1>1, <2>1, Zenon
<1>13. TextInv' /\ (Chunking' /\ pc' # "scan" => SectionInv')
  BY <1>1 DEF Inv, TextInv, SectionInv, RunUnder, Chunking
\* The groups after the first begin after the piece.
<1>14. \A h \in DOMAIN groups : h # 1 =>
         /\ end <= blocks[groups[h].first].start /\ end <= blocks[groups[h].last].start
         /\ \A k \in DOMAIN cands : /\ cands[k].start < blocks[groups[h].first].start
                                    /\ cands[k].end <= blocks[groups[h].last].start
         /\ groups[h].first \in DOMAIN blocks /\ groups[h].last \in DOMAIN blocks
  <2> SUFFICES ASSUME NEW h \in DOMAIN groups, h # 1
               PROVE  /\ end <= blocks[groups[h].first].start /\ end <= blocks[groups[h].last].start
                      /\ \A k \in DOMAIN cands : /\ cands[k].start < blocks[groups[h].first].start
                                                 /\ cands[k].end <= blocks[groups[h].last].start
                      /\ groups[h].first \in DOMAIN blocks /\ groups[h].last \in DOMAIN blocks
    OBVIOUS
  <2>1. 1 < h /\ groups[h].first \in Nat /\ groups[h].last \in Nat
    BY <1>5, <1>6 DEF Typed
  <2>2. /\ g.first < groups[h].first /\ g.last < groups[h].last
        /\ sec.first <= groups[h].first /\ groups[h].first <= groups[h].last
        /\ groups[h].last <= sec.last
    BY <1>3, <2>1 DEF Inv, GroupInv
  <2>3. groups[h].first \in DOMAIN blocks /\ groups[h].last \in DOMAIN blocks
    <3>1. sec.first \in 1..Len(blocks) /\ sec.last \in 1..Len(blocks) /\ Len(blocks) \in Nat
      BY <1>3, <1>6
    <3>2. groups[h].first \in 1..Len(blocks) /\ groups[h].last \in 1..Len(blocks)
      BY <2>1, <2>2, <3>1
    <3>. QED
      BY <1>6, <3>2
  <2>4. end <= blocks[groups[h].first].start /\ end <= blocks[groups[h].last].start
    BY <1>2, <1>3, <2>2, <2>3 DEF Inv, TextInv, end
  <2>5. \A k \in DOMAIN cands : /\ cands[k].start < blocks[groups[h].first].start
                                /\ cands[k].end <= blocks[groups[h].last].start
    BY <1>5 DEF Inv, OrderInv
  <2>. QED
    BY <2>3, <2>4, <2>5
<1>15. \A h \in DOMAIN groups : h # 1 => \A k \in DOMAIN cands' :
         /\ cands'[k].start < blocks[groups[h].first].start
         /\ cands'[k].end <= blocks[groups[h].last].start
  <2> SUFFICES ASSUME NEW h \in DOMAIN groups, h # 1, NEW k \in DOMAIN cands'
               PROVE  /\ cands'[k].start < blocks[groups[h].first].start
                      /\ cands'[k].end <= blocks[groups[h].last].start
    OBVIOUS
  <2>1. CASE k \in DOMAIN cands
    BY <1>11, <1>14, <2>1
  <2>2. CASE k = Len(cands) + 1
    <3>1. cands'[k].start = from /\ cands'[k].end = from + cut
      BY <1>9, <1>11, <2>2
    <3>2. /\ end <= blocks[groups[h].first].start /\ end <= blocks[groups[h].last].start
          /\ blocks[groups[h].first].start \in Nat /\ blocks[groups[h].last].start \in Nat
      BY <1>6, <1>14
    <3>3. from \in Nat /\ from < end
      BY <1>2, <1>6
    <3>4. from < blocks[groups[h].first].start
      BY <1>7, <3>2, <3>3
    <3>5. from + cut <= blocks[groups[h].last].start
      BY <1>7, <1>8, <3>2, <3>3
    <3>. QED
      BY <3>1, <3>4, <3>5
  <2>. QED
    BY <1>11, <2>1, <2>2
\* Of the block in hand, what lies before the end of the piece is in a chunk.
<1>16. ASSUME NEW n \in DOMAIN blocks, NEW byte \in blocks[n].start..(blocks[n].end - 1)
       PROVE  \/ InChunk(byte)'
              \/ /\ Awaited(n, byte)
                 /\ (g.first <= n /\ n <= g.last) =>
                      \/ from + cut <= byte /\ byte < end
                      \/ \E j \in DOMAIN sections : sections[j].first <= n /\ n <= sections[j].last
                      \/ \E h \in DOMAIN groups : /\ h # 1 /\ groups[h].first <= n
                                                  /\ n <= groups[h].last
  <2>1. Awaited(n, byte) \/ InChunk(byte)
    BY DEF Inv, CoverInv
  <2>2. InChunk(byte) => InChunk(byte)'
    BY <1>11 DEF InChunk
  <2>3. ASSUME g.first <= n, n <= g.last, from <= byte
        PROVE  InChunk(byte)' \/ (from + cut <= byte /\ byte < end)
    <3>1. n = g.last /\ byte \in Int /\ byte < end
      BY <1>2, <1>3, <1>6, <2>3 DEF end
    <3>2. CASE byte < from + cut
      <4>1. c.start <= byte /\ byte < c.end
        BY <1>9, <2>3, <3>2
      <4>. QED
        BY <1>11, <4>1 DEF InChunk
    <3>. QED
      BY <1>6, <1>7, <3>1, <3>2
  <2>. QED
    BY <1>1, <2>1, <2>2, <2>3 DEF Awaited
<1>17. CASE from + cut = end /\ pc' = "emit" /\ groups' = Tail(groups) /\ from' = 0
  <2>1. /\ groups' \in Seq(RunRec) /\ GroupInv'
        /\ \A h \in DOMAIN groups' : h + 1 \in DOMAIN groups /\ h + 1 # 1
                                     /\ groups'[h] = groups[h + 1]
        /\ \A h \in DOMAIN groups : h = 1 \/ (h - 1 \in DOMAIN groups' /\ groups'[h - 1] = groups[h])
    BY <1>1, <1>2, <1>17, GroupGone
  <2>2. Chunking' /\ pc' # "scan" /\ pc' # "pack" /\ pc' # "split"
    BY <1>17 DEF Chunking
  <2>3. ChunkerTypeOK'
    <3>1. pc' \in {"scan", "next", "pack", "emit", "split", "merge", "done"} /\ from' \in Nat
      BY <1>17
    <3>. QED
      BY <1>11, <1>12, <2>1, <3>1, Zenon DEF ChunkerTypeOK
  <2>4. OrderInv'
    <3>1. \A k \in DOMAIN cands', h \in DOMAIN groups' :
            /\ cands'[k].start < blocks[groups'[h].first].start
            /\ cands'[k].end <= blocks[groups'[h].last].start
      BY <1>15, <2>1
    <3>. QED
      BY <1>1, <1>11, <2>2, <3>1 DEF OrderInv
  <2>5. CoverInv'
    <3> SUFFICES ASSUME NEW n \in DOMAIN blocks,
                        NEW byte \in blocks[n].start..(blocks[n].end - 1)
                 PROVE  Awaited(n, byte)' \/ InChunk(byte)'
      BY <1>1 DEF CoverInv
    <3>1. ~(from + cut <= byte /\ byte < end)
      BY <1>6, <1>7, <1>17
    <3>2. ASSUME NEW h \in DOMAIN groups, h # 1, groups[h].first <= n, n <= groups[h].last
          PROVE  Awaited(n, byte)'
      BY <2>1, <2>2, <3>2 DEF Awaited
    <3>3. ASSUME NEW j \in DOMAIN sections, sections[j].first <= n, n <= sections[j].last
          PROVE  Awaited(n, byte)'
      BY <1>1, <3>3 DEF Awaited
    <3>4. Awaited(n, byte) /\ ~(g.first <= n /\ n <= g.last) => Awaited(n, byte)'
      BY <1>1, <3>2, <3>3 DEF Awaited
    <3>. QED
      BY <1>16, <3>1, <3>2, <3>3, <3>4
  <2>. QED
    BY <1>11, <1>13, <2>1, <2>2, <2>3, <2>4, <2>5 DEF Inv
<1>18. CASE from + cut # end /\ from' = from + cut /\ pc' = pc /\ groups' = groups
  <2>1. Chunking' /\ pc' = "split"
    BY <1>1, <1>18 DEF Chunking
  <2>2. ChunkerTypeOK'
    <3>1. pc' \in {"scan", "next", "pack", "emit", "split", "merge", "done"} /\ from' \in Nat
      BY <1>6, <1>7, <1>18, <2>1
    <3>2. groups' \in Seq(RunRec)
      BY <1>12, <1>18, Zenon
    <3>. QED
      BY <1>11, <1>12, <3>1, <3>2, Zenon DEF ChunkerTypeOK
  <2>3. GroupInv'
    <3>1. CapOf(sec.path)' = CapOf(sec.path)
      BY <1>1 DEF CapOf, SectionCeiling
    <3>2. \A h \in DOMAIN groups : Span(groups[h])' = Span(groups[h])
      BY <1>1, <1>18 DEF Span
    <3>3. blocks[g.first].start <= from' /\ from' < end
      BY <1>2, <1>3, <1>6, <1>7, <1>8, <1>18
    <3>. QED
      BY <1>1, <1>2, <1>18, <2>1, <3>1, <3>2, <3>3 DEF Inv, GroupInv, end
  <2>4. OrderInv'
    <3>1. \A k \in DOMAIN cands : cands[k].start < from /\ cands[k].end <= from
      BY <1>1 DEF Inv, OrderInv
    <3>2. \A k \in DOMAIN cands' : cands'[k].start < from' /\ cands'[k].end <= from'
      BY <1>6, <1>7, <1>8, <1>9, <1>11, <1>18, <3>1
    <3>. QED
      BY <1>1, <1>11, <1>15, <1>18, <2>1, <3>2 DEF OrderInv
  <2>5. CoverInv'
    <3> SUFFICES ASSUME NEW n \in DOMAIN blocks,
                        NEW byte \in blocks[n].start..(blocks[n].end - 1)
                 PROVE  Awaited(n, byte)' \/ InChunk(byte)'
      BY <1>1 DEF CoverInv
    <3>2. ASSUME NEW h \in DOMAIN groups, h # 1, groups[h].first <= n, n <= groups[h].last
          PROVE  Awaited(n, byte)'
      BY <1>18, <3>2 DEF Awaited
    <3>3. ASSUME NEW j \in DOMAIN sections, sections[j].first <= n, n <= sections[j].last
          PROVE  Awaited(n, byte)'
      BY <1>1, <3>3 DEF Awaited
    <3>4. Awaited(n, byte) /\ ~(g.first <= n /\ n <= g.last) => Awaited(n, byte)'
      BY <1>1, <3>2, <3>3 DEF Awaited
    <3>5. g.first <= n /\ n <= g.last /\ from + cut <= byte => Awaited(n, byte)'
      BY <1>3, <1>18, <2>1 DEF Awaited
    <3>. QED
      BY <1>16, <3>2, <3>3, <3>4, <3>5
  <2>. QED
    BY <1>11, <1>13, <2>1, <2>2, <2>3, <2>4, <2>5 DEF Inv
<1>. QED
  BY <1>4, <1>17, <1>18

\* The steps that only move on: nothing awaited is left behind.
LEMMA MovingOnInv ==
    ASSUME Inv, SectionDone \/ AllPacked \/ StepOver \/ Finish \/ UNCHANGED vars
    PROVE  Inv'
<1>1. /\ UNCHANGED <<base, length, scanned, stack, blocks, sections, sec, at, cur, groups, from, cands>>
      /\ i' = i \/ i' = i + 1
      /\ \/ pc = "emit" /\ groups = <<>> /\ pc' = "next"
         \/ pc = "next" /\ sections = <<>> /\ pc' = "merge"
         \/ pc = "merge" /\ pc' = "done"
         \/ pc' = pc
  BY DEF SectionDone, AllPacked, StepOver, Finish, vars, scanVars, packVars
<1>2. ChunkerTypeOK'
  <2>1. /\ base \in Nat /\ length \in Nat /\ scanned \in Nat /\ stack \in Seq(FrameRec)
        /\ blocks \in Seq(BlockRec) /\ sections \in Seq(SectionRec) /\ sec \in SectionRec
        /\ at \in Nat /\ cur \in Nat /\ groups \in Seq(RunRec) /\ from \in Nat
        /\ cands \in Seq(CandRec) /\ i \in Nat \ {0}
        /\ pc \in {"scan", "next", "pack", "emit", "split", "merge", "done"}
    BY DEF Inv, ChunkerTypeOK
  <2>2. /\ base' \in Nat /\ length' \in Nat /\ scanned' \in Nat /\ stack' \in Seq(FrameRec)
        /\ blocks' \in Seq(BlockRec) /\ sections' \in Seq(SectionRec) /\ sec' \in SectionRec
        /\ at' \in Nat /\ cur' \in Nat /\ groups' \in Seq(RunRec) /\ from' \in Nat
        /\ cands' \in Seq(CandRec)
    BY <1>1, <2>1, Zenon
  <2>3. i' \in Nat \ {0}
    BY <1>1, <2>1
  <2>4. pc' \in {"scan", "next", "pack", "emit", "split", "merge", "done"}
    BY <1>1, <2>1
  <2>. QED
    BY <2>2, <2>3, <2>4, Zenon DEF ChunkerTypeOK
<1>3. TextInv' /\ CrumbInv' /\ FitInv'
  BY <1>1, BudgetsStay DEF Inv, TextInv, CrumbInv, FitInv, Overlaps, Size
<1>4. SectionInv'
  BY <1>1 DEF Inv, SectionInv, RunUnder, Chunking
<1>5. GroupInv'
  <2>1. CapOf(sec.path)' = CapOf(sec.path)
    BY <1>1 DEF CapOf, SectionCeiling
  <2>2. /\ \A g \in DOMAIN groups : Span(groups[g])' = Span(groups[g])
        /\ Span(Run(cur, at - 1))' = Span(Run(cur, at - 1))
    BY <1>1 DEF Span, Run
  <2>3. CASE pc' = pc
    BY <1>1, <2>1, <2>2, <2>3 DEF Inv, GroupInv, Chunking
  <2>4. CASE pc' # pc
    <3>1. groups' = <<>> /\ pc' # "pack" /\ pc' # "split"
      BY <1>1, <2>4 DEF Inv, GroupInv, Chunking
    <3>. QED
      BY <3>1 DEF GroupInv
  <2>. QED
    BY <2>3, <2>4
<1>6. OrderInv'
  <2>1. CASE pc' = pc
    BY <1>1, <2>1 DEF Inv, OrderInv, Chunking
  <2>2. CASE pc' # pc
    <3>1. groups' = <<>> /\ pc' # "pack" /\ pc' # "split" /\ pc' # "scan"
      BY <1>1, <2>2 DEF Inv, GroupInv, Chunking
    <3>. QED
      BY <1>1, <3>1 DEF Inv, OrderInv
  <2>. QED
    BY <2>1, <2>2
<1>7. CoverInv'
  <2> SUFFICES ASSUME NEW n \in DOMAIN blocks,
                      NEW byte \in blocks[n].start..(blocks[n].end - 1)
               PROVE  Awaited(n, byte)' \/ InChunk(byte)'
    BY <1>1 DEF CoverInv
  <2>1. Awaited(n, byte) \/ InChunk(byte)
    BY DEF Inv, CoverInv
  <2>2. InChunk(byte) => InChunk(byte)'
    BY <1>1 DEF InChunk
  <2>3. Awaited(n, byte) => Awaited(n, byte)'
    BY <1>1 DEF Awaited
  <2>. QED
    BY <2>1, <2>2, <2>3
<1>. QED
  BY <1>2, <1>3, <1>4, <1>5, <1>6, <1>7 DEF Inv

\* Two neighbours become one chunk under what their paths share.
LEMMA MergeTinyInv ==
    ASSUME Inv, MergeTiny
    PROVE  Inv'
<1> DEFINE j == IF Into < i THEN Into ELSE i
           a == cands[j]
           b == cands[j + 1]
           c == Merged(cands[Into], cands[i])
<1>1. /\ pc = "merge" /\ pc' = "merge" /\ i <= Len(cands) /\ Into # 0
      /\ cands' = RemoveAt([cands EXCEPT ![Into] = c], i)
      /\ UNCHANGED <<base, length, scanned, stack, blocks, sections, sec, at, cur, groups, from, i>>
  BY DEF MergeTiny, scanVars, packVars
<1>2. /\ Typed /\ cands \in Seq(CandRec) /\ Len(cands) \in Nat /\ DOMAIN cands = 1..Len(cands)
      /\ i \in Nat \ {0} /\ i \in 1..Len(cands) /\ base \in Nat
  BY <1>1, TypedFromType DEF Inv, ChunkerTypeOK, Typed
<1>3. /\ Into \in 1..Len(cands) /\ (Into = i - 1 \/ Into = i + 1)
      /\ Absorbs(cands[Into], cands[i])
  BY <1>1, <1>2, IntoANeighbour
<1>4. /\ j \in DOMAIN cands /\ j + 1 \in DOMAIN cands
      /\ \/ Into = j /\ i = j + 1
         \/ Into = j + 1 /\ i = j
  BY <1>2, <1>3
<1>5. /\ \A k \in DOMAIN cands : /\ cands[k].start \in Nat /\ cands[k].end \in Nat
                                 /\ cands[k].path \in Seq(Parts)
      /\ \A k \in DOMAIN cands : cands[k].start < cands[k].end
      /\ \A h, k \in DOMAIN cands : h < k => /\ cands[h].start < cands[k].start
                                             /\ cands[h].end < cands[k].end
  BY <1>2 DEF Inv, OrderInv, Typed
<1> HIDE DEF j
<1>6. /\ a.start < b.start /\ a.end < b.end /\ a.start < a.end /\ b.start < b.end
      /\ a.start \in Nat /\ a.end \in Nat /\ b.start \in Nat /\ b.end \in Nat
      /\ a.path \in Seq(Parts) /\ b.path \in Seq(Parts)
  BY <1>2, <1>4, <1>5
<1>7. /\ c.start = a.start /\ c.end = b.end /\ c \in CandRec
      /\ c.path \in Seq(Parts) /\ IsPrefix(c.path, a.path) /\ IsPrefix(c.path, b.path)
      /\ Size(c) = MergedSize(cands[Into], cands[i])
  <2> DEFINE p == CommonPath(cands[Into].path, cands[i].path)
  <2>1. p \in Seq(Parts) /\ IsPrefix(p, cands[Into].path) /\ IsPrefix(p, cands[i].path)
    BY <1>2, <1>3, <1>5, CommonPathIsCommon
  <2>2. /\ c = Cand(Least(cands[Into].start, cands[i].start),
                    Most(cands[Into].end, cands[i].end), p, FALSE, FALSE)
    BY DEF Merged
  <2> HIDE DEF p
  <2>3. /\ Least(cands[Into].start, cands[i].start) = a.start
        /\ Most(cands[Into].end, cands[i].end) = b.end
    BY <1>4, <1>6 DEF Least, Most
  <2>4. c = Cand(a.start, b.end, p, FALSE, FALSE)
    BY <2>2, <2>3
  <2>5. c.start = a.start /\ c.end = b.end /\ c.path = p /\ c \in CandRec
    <3> HIDE DEF a, b, c
    <3>. QED
      BY <1>6, <2>1, <2>4 DEF Cand, CandRec
  <2>6. Size(c) = MergedSize(cands[Into], cands[i])
    BY <2>3, <2>5 DEF Size, MergedSize
  <2>. QED
    BY <1>4, <2>1, <2>5, <2>6
<1> HIDE DEF c
<1>8. cands' \in Seq(CandRec) /\ MergedAt(cands, cands', j, c)
  BY <1>1, <1>2, <1>3, <1>7, MergeShape DEF j
<1>9. /\ DOMAIN cands' = 1..(Len(cands) - 1) /\ j \in DOMAIN cands'
      /\ \A n \in DOMAIN cands' : cands'[n] = IF n < j THEN cands[n]
                                              ELSE IF n = j THEN c ELSE cands[n + 1]
  BY <1>8 DEF MergedAt
<1>10. /\ \A n \in DOMAIN cands' : n \in DOMAIN cands /\ n + 1 \in DOMAIN cands
       /\ \A n \in DOMAIN cands : n < j => n \in DOMAIN cands' /\ cands'[n] = cands[n]
       /\ \A n \in DOMAIN cands : j + 1 < n => n - 1 \in DOMAIN cands' /\ cands'[n - 1] = cands[n]
       /\ cands'[j] = c
  BY <1>2, <1>4, <1>9
<1>11. pc' = "merge" /\ sections = <<>> /\ groups = <<>> /\ ~Chunking /\ ~Chunking'
  BY <1>1 DEF Inv, SectionInv, GroupInv, Chunking
<1>12. ChunkerTypeOK'
  <2>1. /\ base \in Nat /\ length \in Nat /\ scanned \in Nat /\ stack \in Seq(FrameRec)
        /\ blocks \in Seq(BlockRec) /\ sections \in Seq(SectionRec) /\ sec \in SectionRec
        /\ at \in Nat /\ cur \in Nat /\ groups \in Seq(RunRec) /\ from \in Nat
        /\ i \in Nat \ {0}
    BY DEF Inv, ChunkerTypeOK
  <2>2. /\ base' \in Nat /\ length' \in Nat /\ scanned' \in Nat /\ stack' \in Seq(FrameRec)
        /\ blocks' \in Seq(BlockRec) /\ sections' \in Seq(SectionRec) /\ sec' \in SectionRec
        /\ at' \in Nat /\ cur' \in Nat /\ groups' \in Seq(RunRec) /\ from' \in Nat
        /\ i' \in Nat \ {0}
        /\ pc' \in {"scan", "next", "pack", "emit", "split", "merge", "done"}
    BY <1>1, <2>1, Zenon
  <2>. QED
    BY <1>8, <2>2, Zenon DEF ChunkerTypeOK
<1>13. TextInv' /\ SectionInv' /\ GroupInv'
  BY <1>1, <1>11 DEF Inv, TextInv, SectionInv, GroupInv
<1>14. OrderInv'
  <2>1. ASSUME NEW n \in DOMAIN cands'
        PROVE  /\ cands'[n].start = cands[IF n <= j THEN n ELSE n + 1].start
               /\ cands'[n].end = cands[IF n < j THEN n ELSE n + 1].end
               /\ n \in DOMAIN cands /\ n + 1 \in DOMAIN cands
    BY <1>2, <1>4, <1>7, <1>9, <1>10
  <2>2. \A n \in DOMAIN cands' : cands'[n].start < cands'[n].end
    <3> SUFFICES ASSUME NEW n \in DOMAIN cands' PROVE cands'[n].start < cands'[n].end
      OBVIOUS
    <3>1. CASE n = j
      BY <1>6, <1>7, <1>10, <3>1
    <3>2. CASE n < j
      BY <1>5, <1>9, <1>10, <3>2
    <3>3. CASE j < n
      BY <1>2, <1>4, <1>5, <1>9, <1>10, <3>3
    <3>. QED
      BY <1>2, <1>4, <1>10, <3>1, <3>2, <3>3
  <2>3. ASSUME NEW m \in DOMAIN cands', NEW n \in DOMAIN cands', m < n
        PROVE  cands'[m].start < cands'[n].start /\ cands'[m].end < cands'[n].end
    <3> DEFINE m1 == IF m <= j THEN m ELSE m + 1
               n1 == IF n <= j THEN n ELSE n + 1
               m2 == IF m < j THEN m ELSE m + 1
               n2 == IF n < j THEN n ELSE n + 1
    <3>1. /\ m1 \in DOMAIN cands /\ n1 \in DOMAIN cands /\ m1 < n1
          /\ m2 \in DOMAIN cands /\ n2 \in DOMAIN cands /\ m2 < n2
      BY <1>2, <1>4, <2>1, <2>3
    <3>2. /\ cands'[m].start = cands[m1].start /\ cands'[n].start = cands[n1].start
          /\ cands'[m].end = cands[m2].end /\ cands'[n].end = cands[n2].end
      BY <2>1
    <3> HIDE DEF m1, n1, m2, n2
    <3>. QED
      BY <1>5, <3>1, <3>2
  <2>4. \A m, n \in DOMAIN cands' : m < n => /\ cands'[m].start < cands'[n].start
                                            /\ cands'[m].end < cands'[n].end
    BY <2>3
  <2>5. DOMAIN sections' = {} /\ DOMAIN groups' = {}
    BY <1>1, <1>11
  <2>6. pc' # "scan" /\ pc' # "pack" /\ pc' # "split"
    BY <1>1
  <2>. QED
    BY <2>2, <2>4, <2>5, <2>6, Zenon DEF OrderInv
<1>15. \A n \in DOMAIN blocks : \A byte \in blocks[n].start..(blocks[n].end - 1) : InChunk(byte)
  BY <1>1, <1>11 DEF Inv, CoverInv, Awaited
<1>16. \A byte \in Int : InChunk(byte) => InChunk(byte)'
  <2> SUFFICES ASSUME NEW byte \in Int, NEW k \in DOMAIN cands,
                      cands[k].start <= byte, byte < cands[k].end
               PROVE  \E n \in DOMAIN cands' : cands'[n].start <= byte /\ byte < cands'[n].end
    BY DEF InChunk
  <2>1. CASE k < j
    BY <1>10, <2>1
  <2>2. CASE k > j + 1
    BY <1>2, <1>4, <1>10, <2>2
  <2>3. CASE k = j
    BY <1>6, <1>7, <1>9, <1>10, <2>3
  <2>4. CASE k = j + 1
    BY <1>6, <1>7, <1>9, <1>10, <2>4
  <2>. QED
    BY <1>2, <1>4, <2>1, <2>2, <2>3, <2>4
<1>t. \A n \in DOMAIN blocks : /\ blocks[n].start \in Nat /\ blocks[n].end \in Nat
                               /\ blocks[n].path \in Seq(Parts)
                               /\ blocks[n].start < blocks[n].end
  BY <1>2 DEF Typed, Inv, TextInv
<1>17. CoverInv'
  BY <1>1, <1>15, <1>16, <1>t DEF CoverInv
\* A block between the two would have a byte in no chunk.
<1>18. ASSUME NEW n \in DOMAIN blocks, a.start < blocks[n].end, blocks[n].start < b.end
       PROVE  Overlaps(a, blocks[n]) \/ Overlaps(b, blocks[n])
  <2> SUFFICES ASSUME ~Overlaps(a, blocks[n]), ~Overlaps(b, blocks[n]) PROVE FALSE
    OBVIOUS
  <2> DEFINE byte == blocks[n].start
  <2>1. a.end <= byte /\ byte < b.start /\ byte \in Nat
    BY <1>6, <1>18, <1>t DEF Overlaps
  <2>2. InChunk(byte)
    BY <1>15, <1>t
  <2> HIDE DEF byte
  <2>3. PICK k \in DOMAIN cands : cands[k].start <= byte /\ byte < cands[k].end
    BY <2>2 DEF InChunk
  <2>4. CASE k < j
    BY <1>4, <1>5, <1>6, <2>1, <2>3, <2>4
  <2>5. CASE k = j
    BY <1>5, <1>6, <2>1, <2>3, <2>5
  <2>6. CASE k = j + 1
    BY <1>5, <1>6, <2>1, <2>3, <2>6
  <2>7. CASE k > j + 1
    BY <1>4, <1>5, <1>6, <2>1, <2>3, <2>7
  <2>. QED
    BY <1>2, <1>4, <2>4, <2>5, <2>6, <2>7
<1>19. CrumbInv'
  <2> SUFFICES ASSUME NEW k \in DOMAIN cands', NEW n \in DOMAIN blocks,
                      Overlaps(cands'[k], blocks[n])
               PROVE  IsPrefix(cands'[k].path, blocks[n].path)
    BY <1>1 DEF CrumbInv, Overlaps
  <2>1. \A h \in DOMAIN cands : Overlaps(cands[h], blocks[n]) => IsPrefix(cands[h].path, blocks[n].path)
    BY DEF Inv, CrumbInv
  <2>2. CASE k = j
    <3>1. Overlaps(c, blocks[n]) /\ cands'[k] = c
      BY <1>10, <2>2
    <3>2. a.start < blocks[n].end /\ blocks[n].start < b.end
      BY <1>7, <3>1 DEF Overlaps
    <3>3. IsPrefix(a.path, blocks[n].path) \/ IsPrefix(b.path, blocks[n].path)
      BY <1>4, <1>18, <2>1, <3>2
    <3>4. c.path \in Seq(Parts) /\ a.path \in Seq(Parts) /\ b.path \in Seq(Parts)
          /\ blocks[n].path \in Seq(Parts)
      BY <1>6, <1>7, <1>t
    <3>5. IsPrefix(c.path, a.path) /\ IsPrefix(c.path, b.path)
      BY <1>7
    <3> HIDE DEF a, b
    <3>6. IsPrefix(c.path, blocks[n].path)
      BY <3>3, <3>4, <3>5, PrefixTransitive, Zenon
    <3>. QED
      BY <3>1, <3>6
  <2>3. CASE k # j
    <3>1. PICK h \in DOMAIN cands : cands'[k] = cands[h]
      BY <1>9, <1>10, <2>3
    <3>. QED
      BY <2>1, <3>1
  <2>. QED
    BY <2>2, <2>3
<1>20. FitInv'
  <2>1. base > 0 => Size(c) <= SectionCeiling(c.path)
    <3>1. c.path = CommonPath(cands[Into].path, cands[i].path)
      BY DEF c, Merged, Cand
    <3>2. \/ SectionCeiling(c.path) = 0
          \/ MergedSize(cands[Into], cands[i]) <= SectionCeiling(c.path)
      BY <1>3, <3>1 DEF Absorbs
    <3>3. Budgets(c.path)
      BY <1>2, <1>7, BudgetsAgree
    <3>4. base > 0 => SectionCeiling(c.path) # 0
      BY <3>3 DEF Budgets
    <3>. QED
      BY <1>7, <3>2, <3>4
  <2>2. \A k \in DOMAIN cands' : base > 0 => Size(cands'[k]) <= SectionCeiling(cands'[k].path)
    <3> SUFFICES ASSUME NEW k \in DOMAIN cands', base > 0
                 PROVE  Size(cands'[k]) <= SectionCeiling(cands'[k].path)
      OBVIOUS
    <3>1. cands'[k] = c \/ \E h \in DOMAIN cands : cands'[k] = cands[h]
      BY <1>9, <1>10
    <3>. QED
      BY <2>1, <3>1 DEF Inv, FitInv
  <2>3. \A k \in DOMAIN cands' :
          Size(cands[k])' = Size(cands'[k]) /\ SectionCeiling(cands[k].path)' = SectionCeiling(cands'[k].path)
    BY <1>1 DEF Size, SectionCeiling
  <2>. QED
    BY <1>1, <2>2, <2>3 DEF FitInv
<1>. QED
  BY <1>12, <1>13, <1>14, <1>17, <1>19, <1>20 DEF Inv

-----------------------------------------------------------------------------
(* The theorems.                                                           *)

\* The invariant holds in every reachable state.
THEOREM ChunkerInvariant == Spec => []Inv
<1>1. Inv /\ [Next]_vars => Inv'
  <2> SUFFICES ASSUME Inv, [Next]_vars PROVE Inv'
    OBVIOUS
  <2>1. CASE \E level \in Levels, title \in Titles, open \in 0..Len(stack),
                    line \in Lines : Heading(level, title, open, line)
    BY <2>1, HeadingInv
  <2>2. CASE \E gap \in Gaps, size \in Sizes : Content(gap, size)
    BY <2>2, ContentInv
  <2>3. CASE EndOfText
    BY <2>3, EndOfTextInv
  <2>4. CASE TakeSection
    BY <2>4, TakeSectionInv
  <2>5. CASE PackBlock
    BY <2>5, PackBlockInv
  <2>6. CASE EndPacking
    BY <2>6, EndPackingInv
  <2>7. CASE EmitGroup
    BY <2>7, EmitGroupInv
  <2>8. CASE BeginSplit
    BY <2>8, BeginSplitInv
  <2>9. CASE \E cut \in 1..length : SplitPiece(cut)
    BY <2>9, SplitPieceInv
  <2>10. CASE SectionDone \/ AllPacked \/ StepOver \/ Finish \/ Done \/ UNCHANGED vars
    BY <2>10, MovingOnInv DEF Done
  <2>11. CASE MergeTiny
    BY <2>11, MergeTinyInv
  <2>. QED
    BY <2>1, <2>2, <2>3, <2>4, <2>5, <2>6, <2>7, <2>8, <2>9, <2>10, <2>11 DEF Next
<1>. QED
  BY <1>1, InitInv, PTL DEF Spec

\* Variables stay within their types.
THEOREM ChunkerTypeCorrect == Spec => []ChunkerTypeOK
<1>1. Inv => ChunkerTypeOK
  BY DEF Inv
<1>. QED
  BY <1>1, ChunkerInvariant, PTL

\* Chunk returns every byte of every block in some chunk.
THEOREM NothingTruncated == Spec => []NothingIsTruncated
<1>1. Inv => NothingIsTruncated
  <2> SUFFICES ASSUME Inv, pc = "done" PROVE NothingIsTruncated
    BY DEF NothingIsTruncated
  <2>1. sections = <<>> /\ groups = <<>>
    BY DEF Inv, SectionInv, GroupInv, Chunking
  <2>. QED
    BY <2>1 DEF Inv, CoverInv, Awaited, InChunk, NothingIsTruncated
<1>. QED
  BY <1>1, ChunkerInvariant, PTL

\* Packed, cut or merged, a chunk fits the model's input with its breadcrumb,
\* or is within the floor.
THEOREM ChunksFit == Spec => []FitsTheEmbedder
<1>1. Inv => FitsTheEmbedder
  <2> SUFFICES ASSUME Inv, base > 0, NEW k \in DOMAIN cands
               PROVE  \/ Size(cands[k]) + PathBytes(cands[k].path) <= base
                      \/ Size(cands[k]) <= Floor
    BY DEF FitsTheEmbedder
  <2> DEFINE p == cands[k].path
  <2>1. /\ p \in Seq(Parts) /\ base \in Nat
        /\ cands[k].start \in Nat /\ cands[k].end \in Nat
    BY TypedFromType DEF Inv, Typed
  <2>2. Size(cands[k]) \in Int /\ Size(cands[k]) <= SectionCeiling(p)
    BY <2>1 DEF Inv, FitInv, Size
  <2> HIDE DEF p
  <2>3. /\ SectionCeiling(p) \in Nat /\ PathBytes(p) \in Nat /\ Floor \in Nat
        /\ SectionCeiling(p) + PathBytes(p) <= base \/ SectionCeiling(p) <= Floor
    BY <2>1, BudgetsAgree, PathBytesIsNat, ChunkerAssumption DEF Budgets
  <2>4. \/ Size(cands[k]) + PathBytes(p) <= base
        \/ Size(cands[k]) <= Floor
    BY <2>1, <2>2, <2>3
  <2>. QED
    BY <2>4 DEF p
<1>. QED
  BY <1>1, ChunkerInvariant, PTL

\* Overlap and merging never put one chunk within another.
THEOREM ChunksAdvance == Spec => []NoChunkWithinAnother
<1>1. Inv => NoChunkWithinAnother
  <2> SUFFICES ASSUME Inv, NEW k \in 2..Len(cands)
               PROVE  cands[k - 1].start < cands[k].start /\ cands[k - 1].end < cands[k].end
    BY DEF NoChunkWithinAnother
  <2>1. k - 1 \in DOMAIN cands /\ k \in DOMAIN cands /\ k - 1 < k
    BY TypedFromType DEF Inv, Typed
  <2>. QED
    BY <2>1 DEF Inv, OrderInv
<1>. QED
  BY <1>1, ChunkerInvariant, PTL

\* A chunk's breadcrumb names only headings that all its blocks stand under.
THEOREM BreadcrumbsAreTrue == Spec => []BreadcrumbIsTrue
<1>1. Inv => BreadcrumbIsTrue
  BY DEF Inv, CrumbInv, Overlaps, BreadcrumbIsTrue
<1>. QED
  BY <1>1, ChunkerInvariant, PTL

=============================================================================
