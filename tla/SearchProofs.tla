---------------------------- MODULE SearchProofs ----------------------------
(* Theorems about search requests for any catalog, any models and any      *)
(* dimension counts.                                                       *)
EXTENDS Search, FiniteSetTheorems, FunctionTheorems, WellFoundedInduction, TLAPS

-----------------------------------------------------------------------------
(* Counting and recursion.                                                 *)

\* A set of numbers that is not empty has a least one.
LEMMA LeastNumber ==
    ASSUME NEW N \in SUBSET Nat, N # {}
    PROVE  \E n \in N : \A m \in N : n <= m
<1> DEFINE Less == OpToRel(<, Nat)
<1>1. IsWellFoundedOn(Less, Nat)
  BY NatLessThanWellFounded, Zenon
<1>2. Less = {ss \in Nat \X Nat : ss[1] < ss[2]}
  BY Zenon DEF OpToRel
<1> HIDE DEF Less
<1>3. PICK n \in N : \A m \in N : ~(<<m, n>> \in Less)
  BY <1>1, WFMin, Zenon
<1>4. \A m \in N : ~(m < n)
  BY <1>2, <1>3
<1>. QED
  BY <1>4

\* One turn of the loop over the hits.
Turn(f, hits, n, m) ==
    [j \in 0..m |-> IF j = 0 THEN <<>> ELSE CollapseHit(f[j - 1], hits[j], n)]

\* CollapseBestPerContent's loop goes from each hit to the next.
LEMMA CollapsingUnfolds ==
    ASSUME NEW hits, NEW n, Len(hits) \in Nat
    PROVE  Collapsing(hits, n) = Turn(Collapsing(hits, n), hits, n, Len(hits))
<1> DEFINE Short == {m \in Nat : ~ \E f : f = Turn(f, hits, n, m)}
<1>1. Short = {}
  <2> SUFFICES ASSUME Short # {} PROVE FALSE
    OBVIOUS
  <2>1. PICK m \in Short : \A l \in Short : m <= l
    BY LeastNumber
  <2>2. CASE m = 0
    <3> DEFINE f == [j \in 0..0 |-> <<>>]
    <3>1. f = Turn(f, hits, n, 0)
      BY DEF Turn
    <3>. QED
      BY <2>1, <2>2, <3>1
  <2>3. CASE m # 0
    <3>1. m - 1 \in Nat /\ m - 1 \notin Short
      BY <2>1, <2>3
    <3>2. PICK f : f = Turn(f, hits, n, m - 1)
      BY <3>1
    <3> DEFINE g == [j \in 0..m |-> IF j < m THEN f[j] ELSE CollapseHit(f[m - 1], hits[m], n)]
    <3>3. \A j \in 0..m : j # 0 => g[j - 1] = f[j - 1]
      BY <3>1
    <3>4. \A j \in 0..(m - 1) : f[j] = IF j = 0 THEN <<>> ELSE CollapseHit(f[j - 1], hits[j], n)
      BY <3>2 DEF Turn
    <3>5. \A j \in 0..m : g[j] = IF j = 0 THEN <<>> ELSE CollapseHit(g[j - 1], hits[j], n)
      <4> SUFFICES ASSUME NEW j \in 0..m
                   PROVE  g[j] = IF j = 0 THEN <<>> ELSE CollapseHit(g[j - 1], hits[j], n)
        OBVIOUS
      <4>1. CASE j < m
        <5>1. g[j] = f[j] /\ j \in 0..(m - 1)
          BY <3>1, <4>1
        <5>. QED
          BY <3>3, <3>4, <5>1
      <4>2. CASE j = m
        BY <2>3, <3>3, <4>2
      <4>. QED
        BY <3>1, <4>1, <4>2
    <3>6. g = Turn(g, hits, n, m)
      BY <3>5 DEF Turn
    <3>. QED
      BY <2>1, <3>6
  <2>. QED
    BY <2>2, <2>3
<1>2. PICK f : f = Turn(f, hits, n, Len(hits))
  BY <1>1
<1>3. Collapsing(hits, n) = CHOOSE g : g = Turn(g, hits, n, Len(hits))
  BY DEF Collapsing, Turn
<1>. QED
  BY <1>2, <1>3

\* R orders the elements of S strictly and totally.
Orders(R, S) ==
    /\ \A x \in S : <<x, x>> \notin R
    /\ \A x, y \in S : x = y \/ <<x, y>> \in R \/ <<y, x>> \in R
    /\ \A x, y, z \in S : <<x, y>> \in R /\ <<y, z>> \in R => <<x, z>> \in R

Below(x, S, R) == {y \in S : <<y, x>> \in R}

\* r lists the elements of S, each once and in the order R.
Lists(r, S, R) ==
    /\ r \in [1..Cardinality(S) -> S]
    /\ \A x \in S : \E i \in 1..Cardinality(S) : r[i] = x
    /\ \A i, j \in 1..Cardinality(S) : i < j <=> <<r[i], r[j]>> \in R

\* Elements are told apart by how many come before them.
LEMMA BelowCounts ==
    ASSUME NEW S, IsFiniteSet(S), NEW R, Orders(R, S)
    PROVE  /\ Cardinality(S) \in Nat
           /\ \A x \in S : Cardinality(Below(x, S, R)) \in 0..(Cardinality(S) - 1)
           /\ \A x, y \in S : <<x, y>> \in R =>
                Cardinality(Below(x, S, R)) < Cardinality(Below(y, S, R))
<1>1. \A x \in S : /\ Below(x, S, R) \in SUBSET S /\ x \notin Below(x, S, R)
  BY DEF Below, Orders
<1>2. ASSUME NEW A \in SUBSET S
      PROVE  IsFiniteSet(A) /\ Cardinality(A) \in Nat
  BY <1>2, FS_Subset, FS_CardinalityType
<1>3. ASSUME NEW B \in SUBSET S, NEW A \in SUBSET B, NEW x \in B, x \notin A
      PROVE  Cardinality(A) < Cardinality(B)
  <2>1. IsFiniteSet(B) /\ Cardinality(B) \in Nat /\ Cardinality(A) \in Nat
    BY <1>2
  <2>2. Cardinality(A) <= Cardinality(B) /\ (Cardinality(B) = Cardinality(A) => B = A)
    BY <2>1, FS_Subset
  <2>. QED
    BY <2>1, <2>2, <1>3
<1>4. Cardinality(S) \in Nat
  BY <1>2
<1>5. \A x \in S : Cardinality(Below(x, S, R)) \in 0..(Cardinality(S) - 1)
  <2> SUFFICES ASSUME NEW x \in S
               PROVE  Cardinality(Below(x, S, R)) \in 0..(Cardinality(S) - 1)
    OBVIOUS
  <2>1. Cardinality(Below(x, S, R)) < Cardinality(S) /\ Cardinality(Below(x, S, R)) \in Nat
    BY <1>1, <1>2, <1>3
  <2>. QED
    BY <1>4, <2>1
<1>6. ASSUME NEW x \in S, NEW y \in S, <<x, y>> \in R
      PROVE  Cardinality(Below(x, S, R)) < Cardinality(Below(y, S, R))
  <2>1. Below(x, S, R) \subseteq Below(y, S, R) /\ x \in Below(y, S, R)
    BY <1>6 DEF Below, Orders
  <2>. QED
    BY <1>1, <1>3, <2>1
<1>. QED
  BY <1>4, <1>5, <1>6

\* Ranked lists the elements, and an element is at the place the number of
\* those before it says.
LEMMA RankedLists ==
    ASSUME NEW S, IsFiniteSet(S), NEW R, Orders(R, S)
    PROVE  /\ Lists(Ranked(S, R), S, R)
           /\ \A x \in S : Ranked(S, R)[Cardinality(Below(x, S, R)) + 1] = x
<1> DEFINE n == Cardinality(S)
           below == [x \in S |-> Cardinality(Below(x, S, R)) + 1]
           r == Ranked(S, R)
<1>1. /\ n \in Nat
      /\ \A x \in S : Cardinality(Below(x, S, R)) \in 0..(n - 1)
      /\ \A x, y \in S : <<x, y>> \in R =>
           Cardinality(Below(x, S, R)) < Cardinality(Below(y, S, R))
  BY BelowCounts
<1>2. /\ below \in [S -> 1..n]
      /\ \A x, y \in S : <<x, y>> \in R => below[x] < below[y]
  <2> HIDE DEF n
  <2>. QED
    BY <1>1
<1>3. \A x \in S : Cardinality(Below(x, S, R)) = below[x] - 1 /\ below[x] \in 1..n
  <2> HIDE DEF n
  <2>. QED
    BY <1>1
<1>4. r = [i \in 1..n |-> CHOOSE x \in S : Cardinality(Below(x, S, R)) = i - 1]
  BY DEF Ranked, Below
<1> HIDE DEF n, below, r
<1>5. \A x, y \in S : below[x] = below[y] => x = y
  <2> SUFFICES ASSUME NEW x \in S, NEW y \in S, below[x] = below[y], x # y PROVE FALSE
    OBVIOUS
  <2>1. <<x, y>> \in R \/ <<y, x>> \in R
    BY DEF Orders
  <2>2. below[x] \in Int /\ below[y] \in Int
    BY <1>1, <1>3
  <2>3. below[x] < below[y] \/ below[y] < below[x]
    BY <1>2, <2>1
  <2>. QED
    BY <2>2, <2>3
<1>6. below \in Surjection(S, 1..n)
  <2>1. below \in Injection(S, 1..n)
    BY <1>2, <1>5 DEF Injection, IsInjective
  <2>2. IsFiniteSet(1..n) /\ Cardinality(1..n) = n
    BY <1>1, FS_Interval
  <2>. QED
    BY <2>1, <2>2, FS_Injection DEF n
<1>7. \A i \in 1..n : \E x \in S : below[x] = i
  BY <1>6 DEF Surjection
<1>8. \A i \in 1..n : r[i] \in S /\ below[r[i]] = i
  <2> SUFFICES ASSUME NEW i \in 1..n PROVE r[i] \in S /\ below[r[i]] = i
    OBVIOUS
  <2>1. PICK x \in S : below[x] = i
    BY <1>7
  <2>2. Cardinality(Below(x, S, R)) = i - 1
    BY <1>3, <2>1
  <2>3. r[i] \in S /\ Cardinality(Below(r[i], S, R)) = i - 1
    BY <1>4, <2>2
  <2>. QED
    BY <1>1, <1>3, <2>3
<1>9. \A x \in S : r[below[x]] = x
  BY <1>2, <1>5, <1>8
<1>10. Lists(r, S, R)
  <2>1. r \in [1..n -> S]
    BY <1>4, <1>8
  <2>2. \A x \in S : \E i \in 1..n : r[i] = x
    BY <1>2, <1>9
  <2>3. \A i, j \in 1..n : i < j <=> <<r[i], r[j]>> \in R
    <3> SUFFICES ASSUME NEW i \in 1..n, NEW j \in 1..n
                 PROVE  i < j <=> <<r[i], r[j]>> \in R
      OBVIOUS
    <3>1. r[i] \in S /\ r[j] \in S /\ below[r[i]] = i /\ below[r[j]] = j
      BY <1>8
    <3>2. i = j \/ <<r[i], r[j]>> \in R \/ <<r[j], r[i]>> \in R
      BY <3>1 DEF Orders
    <3>3. <<r[i], r[j]>> \in R => i < j
      BY <1>2, <3>1
    <3>4. <<r[j], r[i]>> \in R => j < i
      BY <1>2, <3>1
    <3>. QED
      BY <1>1, <3>2, <3>3, <3>4
  <2>. QED
    BY <2>1, <2>2, <2>3 DEF Lists, n
<1>11. \A x \in S : r[Cardinality(Below(x, S, R)) + 1] = x
  BY <1>9 DEF below
<1>. QED
  BY <1>10, <1>11 DEF r

-----------------------------------------------------------------------------
(* CollapseBestPerContent.                                                 *)

Entry == [hash : Hash, chunk : Chunk, path : Path, alsoAt : Seq(Path)]

HashAt(hits, u) == ContentOf[hits[u].chunk]
IsFirst(hits, u) == \A v \in 1..(u - 1) : HashAt(hits, v) # HashAt(hits, u)

\* The paths of the later hits, up to j, of the chunk at f.
Others(hits, f, j) ==
    {hits[v].path : v \in {u \in (f + 1)..j : hits[u].chunk = hits[f].chunk}}

\* An entry is the first hit of its content, with the paths of its chunk.
EntryOf(e, hits, f, j) ==
    /\ IsFirst(hits, f)
    /\ e.hash = HashAt(hits, f) /\ e.chunk = hits[f].chunk /\ e.path = hits[f].path
    /\ ToSet(e.alsoAt) = Others(hits, f, j)

\* The loop's invariant after j hits: the entries were met at the hits at, and
\* a content that was met and has no entry came after the answer was full.
MadeOf(out, at, hits, n, j) ==
    /\ out \in Seq(Entry) /\ Len(out) <= n
    /\ at \in [1..Len(out) -> 1..j]
    /\ \A l, m \in 1..Len(out) : l < m => at[l] < at[m]
    /\ \A m \in 1..Len(out) : EntryOf(out[m], hits, at[m], j)
    /\ \A u \in 1..j : IsFirst(hits, u) =>
         \/ \E m \in 1..Len(out) : at[m] = u
         \/ Len(out) = n /\ \A m \in 1..Len(out) : at[m] < u

\* A sequence is a function on its places.
LEMMA SeqShape ==
    ASSUME NEW S, NEW s \in Seq(S)
    PROVE  /\ Len(s) \in Nat /\ DOMAIN s = 1..Len(s) /\ s \in [1..Len(s) -> S]
           /\ \A i \in 1..Len(s) : s[i] \in S
OBVIOUS

\* A function on the first n numbers is a sequence.
LEMMA FunctionIsSeq ==
    ASSUME NEW S, NEW n \in Nat, NEW f \in [1..n -> S]
    PROVE  f \in Seq(S) /\ Len(f) = n
OBVIOUS

\* What Append leaves alone and adds.
LEMMA AppendShape ==
    ASSUME NEW S, NEW s \in Seq(S), NEW e \in S
    PROVE  /\ Append(s, e) \in Seq(S) /\ Len(Append(s, e)) = Len(s) + 1
           /\ \A i \in 1..Len(s) : Append(s, e)[i] = s[i]
           /\ Append(s, e)[Len(s) + 1] = e
OBVIOUS

\* Every content that occurs has a first hit.
LEMMA FirstExists ==
    ASSUME NEW hits, NEW u \in Nat \ {0}
    PROVE  \E f \in 1..u : IsFirst(hits, f) /\ HashAt(hits, f) = HashAt(hits, u)
<1> DEFINE Same == {v \in 1..u : HashAt(hits, v) = HashAt(hits, u)}
<1>1. Same \in SUBSET Nat /\ u \in Same
  OBVIOUS
<1>2. PICK f \in Same : \A v \in Same : f <= v
  BY <1>1, LeastNumber
<1>3. f \in 1..u /\ HashAt(hits, f) = HashAt(hits, u)
  BY <1>2
<1>4. \A v \in 1..(f - 1) : v \in 1..u /\ v \notin Same
  BY <1>2, <1>3
<1>5. IsFirst(hits, f)
  BY <1>3, <1>4 DEF IsFirst
<1>. QED
  BY <1>3, <1>5

\* One more hit adds its path where it is of the same chunk.
LEMMA OthersGrow ==
    ASSUME NEW hits, NEW j \in Nat \ {0}, NEW f \in 1..(j - 1)
    PROVE  Others(hits, f, j) = IF hits[j].chunk = hits[f].chunk
                                THEN Others(hits, f, j - 1) \cup {hits[j].path}
                                ELSE Others(hits, f, j - 1)
<1>1. (f + 1)..j = ((f + 1)..(j - 1)) \cup {j}
  OBVIOUS
<1>2. \A p : p \in Others(hits, f, j) <=>
         \E v \in (f + 1)..j : hits[v].chunk = hits[f].chunk /\ p = hits[v].path
  BY DEF Others
<1>3. \A p : p \in Others(hits, f, j - 1) <=>
         \E v \in (f + 1)..(j - 1) : hits[v].chunk = hits[f].chunk /\ p = hits[v].path
  BY DEF Others
<1>4. CASE hits[j].chunk = hits[f].chunk
  <2>1. \A p : p \in Others(hits, f, j) <=> p \in Others(hits, f, j - 1) \cup {hits[j].path}
    BY <1>1, <1>2, <1>3, <1>4
  <2>. QED
    BY <1>4, <2>1
<1>5. CASE hits[j].chunk # hits[f].chunk
  <2>1. \A p : p \in Others(hits, f, j) <=> p \in Others(hits, f, j - 1)
    BY <1>1, <1>2, <1>3, <1>5
  <2>2. Others(hits, f, j) = Others(hits, f, j - 1)
    BY <2>1
  <2>. QED
    BY <1>5, <2>2
<1>. QED
  BY <1>4, <1>5

\* One hit more.
LEMMA CollapseStep ==
    ASSUME NEW hits \in Seq(Hit), NEW n \in Nat \ {0}, NEW j \in 1..Len(hits),
           NEW out, NEW at, MadeOf(out, at, hits, n, j - 1)
    PROVE  \E now : MadeOf(CollapseHit(out, hits[j], n), now, hits, n, j)
<1> DEFINE hit == hits[j]
           h == ContentOf[hit.chunk]
           next == CollapseHit(out, hit, n)
<1>1. /\ j \in Nat \ {0} /\ j - 1 \in Nat
      /\ hit \in Hit /\ hit.chunk \in Chunk /\ hit.path \in Path
      /\ h \in Hash /\ HashAt(hits, j) = h
  <2>1. Len(hits) \in Nat /\ hit \in Hit
    BY SeqShape
  <2>2. j \in Nat \ {0} /\ j - 1 \in Nat
    BY <2>1
  <2> HIDE DEF hit
  <2>3. hit.chunk \in Chunk /\ hit.path \in Path
    BY <2>1 DEF Hit
  <2>4. h \in Hash
    BY <2>3, SearchAssumption
  <2>. QED
    BY <2>1, <2>2, <2>3, <2>4 DEF HashAt, hit
<1>2. /\ out \in Seq(Entry) /\ Len(out) \in Nat /\ Len(out) <= n /\ DOMAIN out = 1..Len(out)
      /\ at \in [1..Len(out) -> 1..(j - 1)]
      /\ \A l, m \in 1..Len(out) : l < m => at[l] < at[m]
      /\ \A m \in 1..Len(out) : EntryOf(out[m], hits, at[m], j - 1)
      /\ \A u \in 1..(j - 1) : IsFirst(hits, u) =>
           \/ \E m \in 1..Len(out) : at[m] = u
           \/ Len(out) = n /\ \A m \in 1..Len(out) : at[m] < u
  BY SeqShape DEF MadeOf
<1> HIDE DEF hit, h
<1>3. \A m \in 1..Len(out) : /\ at[m] \in 1..(j - 1) /\ at[m] \in 1..j /\ at[m] < j
                             /\ out[m] \in Entry
  <2>1. \A m \in 1..Len(out) : out[m] \in Entry
    BY <1>2, SeqShape
  <2>2. \A m \in 1..Len(out) : at[m] \in 1..(j - 1)
    BY <1>2
  <2>3. \A u \in 1..(j - 1) : u \in 1..j /\ u < j
    BY <1>1
  <2>. QED
    BY <2>1, <2>2, <2>3
<1>4. \A m \in 1..Len(out) : /\ out[m].hash = HashAt(hits, at[m])
                             /\ out[m].chunk = hits[at[m]].chunk
                             /\ out[m].path = hits[at[m]].path
                             /\ IsFirst(hits, at[m])
                             /\ ToSet(out[m].alsoAt) = Others(hits, at[m], j - 1)
  BY <1>2 DEF EntryOf
<1>5. \A m \in 1..Len(out) : hit.chunk = out[m].chunk => out[m].hash = h
  BY <1>4 DEF HashAt, h, hit
<1>6. Holds(out, h) <=> \E m \in 1..Len(out) : out[m].hash = h
  BY <1>2, Zenon DEF Holds
<1>7. \A m \in 1..Len(out) :
        Others(hits, at[m], j) = IF hit.chunk = out[m].chunk
                                 THEN Others(hits, at[m], j - 1) \cup {hit.path}
                                 ELSE Others(hits, at[m], j - 1)
  <2> SUFFICES ASSUME NEW m \in 1..Len(out)
               PROVE  Others(hits, at[m], j) = IF hit.chunk = out[m].chunk
                                               THEN Others(hits, at[m], j - 1) \cup {hit.path}
                                               ELSE Others(hits, at[m], j - 1)
    OBVIOUS
  <2>1. at[m] \in 1..(j - 1) /\ out[m].chunk = hits[at[m]].chunk
    BY <1>3, <1>4
  <2>2. Others(hits, at[m], j) = IF hits[j].chunk = hits[at[m]].chunk
                                 THEN Others(hits, at[m], j - 1) \cup {hits[j].path}
                                 ELSE Others(hits, at[m], j - 1)
    BY <1>1, <2>1, OthersGrow
  <2>. QED
    BY <2>1, <2>2, Zenon DEF hit
<1>8. CASE Holds(out, h)
  <2>1. /\ DOMAIN next = 1..Len(out)
        /\ \A m \in 1..Len(out) :
             next[m] = IF out[m].hash = h /\ out[m].chunk = hit.chunk
                       THEN [out[m] EXCEPT !.alsoAt = Append(@, hit.path)] ELSE out[m]
        /\ next = [m \in 1..Len(out) |-> next[m]]
    BY <1>2, <1>8 DEF CollapseHit, h
  <2>2. \A m \in 1..Len(out) :
          /\ next[m] \in Entry
          /\ next[m].hash = out[m].hash /\ next[m].chunk = out[m].chunk
          /\ next[m].path = out[m].path
          /\ ToSet(next[m].alsoAt) = Others(hits, at[m], j)
    <3> SUFFICES ASSUME NEW m \in 1..Len(out)
                 PROVE  /\ next[m] \in Entry
                        /\ next[m].hash = out[m].hash /\ next[m].chunk = out[m].chunk
                        /\ next[m].path = out[m].path
                        /\ ToSet(next[m].alsoAt) = Others(hits, at[m], j)
      OBVIOUS
    <3> DEFINE e == out[m]
               s == e.alsoAt
    <3>1. e \in Entry /\ s \in Seq(Path)
      BY <1>3 DEF Entry
    <3>2. ToSet(s) = Others(hits, at[m], j - 1)
      BY <1>4
    <3>3. CASE e.chunk = hit.chunk
      <4>1. next[m] = [e EXCEPT !.alsoAt = Append(s, hit.path)]
        BY <1>5, <2>1, <3>3
      <4>2. Append(s, hit.path) \in Seq(Path)
            /\ ToSet(Append(s, hit.path)) = ToSet(s) \cup {hit.path}
        <5>1. /\ Append(s, hit.path) \in Seq(Path) /\ Len(s) \in Nat /\ DOMAIN s = 1..Len(s)
              /\ DOMAIN Append(s, hit.path) = 1..(Len(s) + 1)
              /\ \A k \in 1..Len(s) : Append(s, hit.path)[k] = s[k]
              /\ Append(s, hit.path)[Len(s) + 1] = hit.path
          BY <1>1, <3>1
        <5>2. 1..(Len(s) + 1) = (1..Len(s)) \cup {Len(s) + 1}
          BY <5>1
        <5> DEFINE t == Append(s, hit.path)
        <5> HIDE DEF t, s
        <5>3. \A p : p \in ToSet(t) <=> \E k \in 1..(Len(s) + 1) : t[k] = p
          BY <5>1 DEF ToSet, t
        <5>4. \A p : p \in ToSet(s) <=> \E k \in 1..Len(s) : s[k] = p
          BY <5>1 DEF ToSet
        <5>5. ToSet(t) = ToSet(s) \cup {hit.path}
          BY <5>1, <5>2, <5>3, <5>4 DEF t
        <5>. QED
          BY <5>1, <5>5 DEF t
      <4>3. /\ next[m] \in Entry
            /\ next[m].hash = e.hash /\ next[m].chunk = e.chunk /\ next[m].path = e.path
            /\ next[m].alsoAt = Append(s, hit.path)
        BY <3>1, <4>1, <4>2 DEF Entry
      <4>. QED
        BY <1>7, <3>2, <3>3, <4>2, <4>3
    <3>4. CASE e.chunk # hit.chunk
      BY <1>7, <2>1, <3>1, <3>2, <3>4
    <3>. QED
      BY <3>3, <3>4
  <2>3. next \in Seq(Entry) /\ Len(next) = Len(out)
    <3>1. next \in [1..Len(out) -> Entry]
      BY <2>1, <2>2
    <3> HIDE DEF next
    <3>. QED
      BY <1>2, <3>1, FunctionIsSeq
  <2>4. ~IsFirst(hits, j)
    <3>1. PICK m \in 1..Len(out) : out[m].hash = h
      BY <1>6, <1>8
    <3>. QED
      BY <1>1, <1>3, <1>4, <3>1 DEF IsFirst
  <2> HIDE DEF next
  <2>5. \A m \in 1..Len(out) : EntryOf(next[m], hits, at[m], j)
    BY <1>4, <2>2 DEF EntryOf
  <2>6. \A u \in 1..j : u = j \/ u \in 1..(j - 1)
    BY <1>1
  <2>7. at \in [1..Len(next) -> 1..j]
    BY <1>2, <1>3, <2>3
  <2>8. MadeOf(next, at, hits, n, j)
    BY <1>2, <2>3, <2>4, <2>5, <2>6, <2>7 DEF MadeOf
  <2>. QED
    BY <2>8 DEF next, hit
<1>9. CASE ~Holds(out, h) /\ Len(out) = n
  <2>1. next = out
    BY <1>9 DEF CollapseHit, h
  <2>2. \A m \in 1..Len(out) : EntryOf(out[m], hits, at[m], j)
    BY <1>4, <1>5, <1>6, <1>7, <1>9 DEF EntryOf
  <2>3. \A u \in 1..j : u = j \/ u \in 1..(j - 1)
    BY <1>1
  <2>4. at \in [1..Len(out) -> 1..j]
    BY <1>2, <1>3
  <2>5. MadeOf(out, at, hits, n, j)
    BY <1>2, <1>3, <1>9, <2>2, <2>3, <2>4 DEF MadeOf
  <2>. QED
    BY <2>1, <2>5 DEF hit
<1>10. CASE ~Holds(out, h) /\ Len(out) # n
  <2> DEFINE e == [hash |-> h, chunk |-> hit.chunk, path |-> hit.path, alsoAt |-> <<>>]
             now == [m \in 1..(Len(out) + 1) |-> IF m = Len(out) + 1 THEN j ELSE at[m]]
  <2>1. next = Append(out, e)
    BY <1>10 DEF CollapseHit, h
  <2>2. e \in Entry /\ ToSet(e.alsoAt) = {}
    <3>1. <<>> \in Seq(Path) /\ DOMAIN <<>> = {}
      OBVIOUS
    <3>. QED
      BY <1>1, <3>1 DEF Entry, ToSet
  <2>3. /\ e.hash = h /\ e.chunk = hit.chunk /\ e.path = hit.path
    OBVIOUS
  <2> HIDE DEF next, e
  <2>4. /\ next \in Seq(Entry) /\ Len(next) = Len(out) + 1
        /\ \A m \in 1..Len(out) : next[m] = out[m]
        /\ next[Len(out) + 1] = e
    <3>1. /\ Append(out, e) \in Seq(Entry) /\ Len(Append(out, e)) = Len(out) + 1
          /\ \A i \in 1..Len(out) : Append(out, e)[i] = out[i]
          /\ Append(out, e)[Len(out) + 1] = e
      BY <1>2, <2>2, AppendShape, Zenon
    <3>. QED
      BY <2>1, <3>1, Zenon
  <2>4a. Len(next) \in Nat /\ DOMAIN next = 1..Len(next)
    BY <2>4, SeqShape
  <2>5. IsFirst(hits, j)
    <3>1. PICK f \in 1..j : IsFirst(hits, f) /\ HashAt(hits, f) = HashAt(hits, j)
      BY <1>1, FirstExists
    <3>2. CASE f = j
      BY <3>1, <3>2
    <3>3. CASE f # j
      <4>1. f \in 1..(j - 1)
        BY <1>1, <3>3
      <4>2. \E m \in 1..Len(out) : at[m] = f
        BY <1>2, <1>10, <3>1, <4>1
      <4>. QED
        BY <1>1, <1>4, <1>6, <1>10, <3>1, <4>2
    <3>. QED
      BY <3>2, <3>3
  <2>6. Others(hits, j, j) = {}
    <3>1. (j + 1)..j = {}
      BY <1>1
    <3>. QED
      BY <3>1 DEF Others
  <2>7. /\ now \in [1..Len(next) -> 1..j]
        /\ \A m \in 1..Len(out) : now[m] = at[m]
        /\ now[Len(out) + 1] = j
    <3>1. Len(out) \in Nat /\ 1..Len(next) = 1..(Len(out) + 1)
      BY <1>2, <2>4
    <3>2. \A m \in 1..(Len(out) + 1) : m = Len(out) + 1 \/ m \in 1..Len(out)
      BY <3>1
    <3>3. \A m \in 1..Len(out) : m \in 1..(Len(out) + 1) /\ m # Len(out) + 1
      BY <3>1
    <3>4. Len(out) + 1 \in 1..(Len(out) + 1) /\ j \in 1..j
      BY <1>1, <3>1
    <3>. QED
      BY <1>3, <3>1, <3>2, <3>3, <3>4
  <2>a. Len(out) \in Nat /\ Len(next) = Len(out) + 1 /\ Len(out) <= n
    BY <1>2, <2>4
  <2>8. \A m \in 1..Len(next) : m = Len(out) + 1 \/ m \in 1..Len(out)
    BY <2>a
  <2>8a. \A m \in 1..Len(out) : m \in 1..Len(next) /\ m < Len(out) + 1
    BY <2>a
  <2>8b. Len(out) + 1 \in 1..Len(next)
    BY <2>a
  <2> HIDE DEF now
  <2>9. \A m \in 1..Len(next) : EntryOf(next[m], hits, now[m], j)
    <3> SUFFICES ASSUME NEW m \in 1..Len(next)
                 PROVE  EntryOf(next[m], hits, now[m], j)
      OBVIOUS
    <3>1. CASE m \in 1..Len(out)
      <4>1. next[m] = out[m] /\ now[m] = at[m] /\ hit.chunk # out[m].chunk
        BY <1>5, <1>6, <1>10, <2>4, <2>7, <3>1, Zenon
      <4>2. ToSet(out[m].alsoAt) = Others(hits, at[m], j)
        BY <1>4, <1>7, <3>1, <4>1, Zenon
      <4>. QED
        BY <1>4, <3>1, <4>1, <4>2, Zenon DEF EntryOf
    <3>2. CASE m = Len(out) + 1
      <4>1. next[m] = e /\ now[m] = j
        BY <2>4, <2>7, <3>2, Zenon
      <4>2. EntryOf(e, hits, j, j)
        BY <1>1, <2>2, <2>3, <2>5, <2>6, Zenon DEF EntryOf, hit
      <4>. QED
        BY <4>1, <4>2
    <3>. QED
      BY <2>8, <3>1, <3>2
  <2>10. \A l, m \in 1..Len(next) : l < m => now[l] < now[m]
    <3> SUFFICES ASSUME NEW l \in 1..Len(next), NEW m \in 1..Len(next), l < m
                 PROVE  now[l] < now[m]
      OBVIOUS
    <3>1. l \in 1..Len(out)
      BY <2>a
    <3>2. CASE m \in 1..Len(out)
      BY <1>2, <2>7, <3>1, <3>2
    <3>3. CASE m = Len(out) + 1
      BY <1>3, <2>7, <3>1, <3>3
    <3>. QED
      BY <2>8, <3>2, <3>3
  <2>11. \A u \in 1..j : IsFirst(hits, u) => \E m \in 1..Len(next) : now[m] = u
    <3> SUFFICES ASSUME NEW u \in 1..j, IsFirst(hits, u)
                 PROVE  \E m \in 1..Len(next) : now[m] = u
      OBVIOUS
    <3>1. CASE u = j
      BY <2>7, <2>8b, <3>1
    <3>2. CASE u # j
      <4>1. u \in 1..(j - 1)
        BY <1>1, <3>2
      <4>2. PICK m \in 1..Len(out) : at[m] = u
        BY <1>2, <1>10, <4>1
      <4>. QED
        BY <2>7, <2>8a, <4>2
    <3>. QED
      BY <3>1, <3>2
  <2>12. Len(next) <= n
    BY <1>10, <2>a
  <2>13. MadeOf(next, now, hits, n, j)
    BY <2>4, <2>7, <2>9, <2>10, <2>11, <2>12 DEF MadeOf
  <2>. QED
    BY <2>13 DEF next, hit
<1>. QED
  BY <1>8, <1>9, <1>10

\* All hits.
LEMMA CollapseMade ==
    ASSUME NEW hits \in Seq(Hit), NEW n \in Nat \ {0}
    PROVE  \E at : MadeOf(Collapsing(hits, n)[Len(hits)], at, hits, n, Len(hits))
<1> DEFINE f == Collapsing(hits, n)
           Wrong == {j \in 0..Len(hits) : ~ \E at : MadeOf(f[j], at, hits, n, j)}
<1>1. Len(hits) \in Nat
  OBVIOUS
<1>2. \A j \in 0..Len(hits) :
        f[j] = IF j = 0 THEN <<>> ELSE CollapseHit(f[j - 1], hits[j], n)
  BY <1>1, CollapsingUnfolds DEF Turn
<1> HIDE DEF f
<1>3. Wrong = {}
  <2> SUFFICES ASSUME Wrong # {} PROVE FALSE
    OBVIOUS
  <2>a. Wrong \in SUBSET Nat
    BY <1>1
  <2>1. PICK j \in Wrong : \A l \in Wrong : j <= l
    BY <2>a, LeastNumber
  <2>2. CASE j = 0
    <3>1. f[0] = <<>>
      BY <1>1, <1>2
    <3>2. <<>> \in Seq(Entry) /\ Len(<<>>) = 0 /\ 1..0 = {}
      OBVIOUS
    <3> DEFINE at == [m \in 1..0 |-> 1]
    <3>3. at \in [1..0 -> 1..0]
      BY <3>2
    <3>4. MadeOf(<<>>, at, hits, n, 0)
      BY <3>2, <3>3 DEF MadeOf
    <3>. QED
      BY <2>1, <2>2, <3>1, <3>4
  <2>3. CASE j # 0
    <3>1. j \in 1..Len(hits) /\ j - 1 \in 0..Len(hits) /\ j - 1 \notin Wrong
      BY <1>1, <2>1, <2>3
    <3>2. PICK at : MadeOf(f[j - 1], at, hits, n, j - 1)
      BY <3>1
    <3>3. \E now : MadeOf(CollapseHit(f[j - 1], hits[j], n), now, hits, n, j)
      BY <3>1, <3>2, CollapseStep
    <3>4. f[j] = CollapseHit(f[j - 1], hits[j], n)
      BY <1>2, <2>3, <3>1
    <3>. QED
      BY <2>1, <3>3, <3>4
  <2>. QED
    BY <2>2, <2>3
<1>. QED
  BY <1>1, <1>3 DEF f

-----------------------------------------------------------------------------
(* Orders: chunks by distance, paths by age, hits by both.                 *)

\* The catalog and the query have their types.
CatalogInv ==
    /\ docs \in [Path -> Doc \cup {NoDoc}]
    /\ vectors \in SUBSET Chunk
    /\ query \in [Chunk -> Distances]

NearOrder == {e \in Chunk \X Chunk : Nearer(e[1], e[2])}

\* Of two chunks one is nearer.
LEMMA NearerOrders ==
    ASSUME CatalogInv
    PROVE  /\ \A c \in Chunk : ~Nearer(c, c)
           /\ \A c, d \in Chunk : c = d \/ Nearer(c, d) \/ Nearer(d, c)
           /\ \A b, c, d \in Chunk : Nearer(b, c) /\ Nearer(c, d) => Nearer(b, d)
           /\ Orders(NearOrder, Chunk)
           /\ \A c, d \in Chunk : <<c, d>> \in NearOrder <=> Nearer(c, d)
<1>1. \A c \in Chunk : query[c] \in Nat /\ c \in Nat
  BY SearchAssumption DEF CatalogInv
<1>2. \A c \in Chunk : ~Nearer(c, c)
  BY <1>1 DEF Nearer
<1>3. \A c, d \in Chunk : c = d \/ Nearer(c, d) \/ Nearer(d, c)
  BY <1>1 DEF Nearer
<1>4. \A b, c, d \in Chunk : Nearer(b, c) /\ Nearer(c, d) => Nearer(b, d)
  BY <1>1 DEF Nearer
<1>5. \A c, d \in Chunk : <<c, d>> \in NearOrder <=> Nearer(c, d)
  BY DEF NearOrder
<1>6. Orders(NearOrder, Chunk)
  BY <1>2, <1>3, <1>4, <1>5 DEF Orders
<1>. QED
  BY <1>2, <1>3, <1>4, <1>5, <1>6

\* Of two documents one is newer, or else first by name.
LEMMA NewerOrders ==
    ASSUME CatalogInv, NEW h
    PROVE  /\ PathsOf(h) \subseteq Path
           /\ \A p \in PathsOf(h) : ~Newer(p, p)
           /\ \A p, q \in PathsOf(h) : p = q \/ Newer(p, q) \/ Newer(q, p)
           /\ \A p, q, r \in PathsOf(h) : Newer(p, q) /\ Newer(q, r) => Newer(p, r)
<1>1. \A p \in PathsOf(h) : p \in Path /\ docs[p] \in Doc
  BY DEF PathsOf, CatalogInv
<1>2. \A d \in Doc : d.mtime \in Times
  BY DEF Doc
<1>3. \A p \in PathsOf(h) : docs[p].mtime \in Nat /\ p \in Nat
  BY <1>1, <1>2, SearchAssumption
<1>4. PathsOf(h) \subseteq Path
  BY <1>1
<1>5. \A p \in PathsOf(h) : ~Newer(p, p)
  BY <1>3 DEF Newer
<1>6. \A p, q \in PathsOf(h) : p = q \/ Newer(p, q) \/ Newer(q, p)
  BY <1>3 DEF Newer
<1>7. \A p, q, r \in PathsOf(h) : Newer(p, q) /\ Newer(q, r) => Newer(p, r)
  BY <1>3 DEF Newer
<1>. QED
  BY <1>4, <1>5, <1>6, <1>7

\* A hit is a chunk that was found at a path of its content.
LEMMA HitShape ==
    ASSUME NEW found
    PROVE  /\ \A x \in Hit : x.chunk \in Chunk /\ x.path \in Path
           /\ \A x, y \in Hit : x.chunk = y.chunk /\ x.path = y.path => x = y
           /\ \A c \in Chunk, p \in Path : /\ [chunk |-> c, path |-> p] \in Hit
                                          /\ [chunk |-> c, path |-> p].chunk = c
                                          /\ [chunk |-> c, path |-> p].path = p
           /\ \A x : x \in Hits(found) <=> /\ x \in Hit /\ x.chunk \in found
                                       /\ x.path \in PathsOf(ContentOf[x.chunk])
           /\ \A x, y \in Hit : <<x, y>> \in HitOrder <=>
                \/ Nearer(x.chunk, y.chunk)
                \/ (x.chunk = y.chunk /\ Newer(x.path, y.path))
<1>1. \A x \in Hit : x.chunk \in Chunk /\ x.path \in Path
  BY DEF Hit
<1>2. \A x, y \in Hit : x.chunk = y.chunk /\ x.path = y.path => x = y
  BY DEF Hit
<1>3. \A c \in Chunk, p \in Path : /\ [chunk |-> c, path |-> p] \in Hit
                                  /\ [chunk |-> c, path |-> p].chunk = c
                                  /\ [chunk |-> c, path |-> p].path = p
  BY DEF Hit
<1>4. \A x : x \in Hits(found) <=> /\ x \in Hit /\ x.chunk \in found
                               /\ x.path \in PathsOf(ContentOf[x.chunk])
  BY DEF Hits
<1>5. \A x, y \in Hit : <<x, y>> \in HitOrder <=>
                \/ Nearer(x.chunk, y.chunk)
                \/ (x.chunk = y.chunk /\ Newer(x.path, y.path))
  BY DEF HitOrder
<1>. QED
  BY <1>1, <1>2, <1>3, <1>4, <1>5

\* The hits are finitely many and in a strict order.
LEMMA HitsOrdered ==
    ASSUME CatalogInv, NEW found
    PROVE  IsFiniteSet(Hits(found)) /\ Orders(HitOrder, Hits(found))
<1> DEFINE T == Hits(found)
<1>0. \A x \in T : /\ x \in Hit /\ x.chunk \in Chunk /\ x.path \in Path
                   /\ x.path \in PathsOf(ContentOf[x.chunk])
  BY HitShape
<1>1. IsFiniteSet(T)
  <2> DEFINE f == [x \in T |-> <<x.chunk, x.path>>]
  <2>1. f \in [T -> Chunk \X Path]
    BY <1>0
  <2>2. \A x, y \in T : f[x] = f[y] => x = y
    BY <1>0, HitShape
  <2>3. f \in Injection(T, Chunk \X Path)
    BY <2>1, <2>2 DEF Injection, IsInjective
  <2>4. IsFiniteSet(Chunk \X Path)
    BY FS_Product, SearchAssumption
  <2>. QED
    BY <2>3, <2>4, FS_Injection
<1>2. \A x \in T : <<x, x>> \notin HitOrder
  BY <1>0, HitShape, NearerOrders, NewerOrders
<1>3. \A x, y \in T : x = y \/ <<x, y>> \in HitOrder \/ <<y, x>> \in HitOrder
  <2> SUFFICES ASSUME NEW x \in T, NEW y \in T
               PROVE  x = y \/ <<x, y>> \in HitOrder \/ <<y, x>> \in HitOrder
    OBVIOUS
  <2>1. CASE x.chunk = y.chunk
    <3>1. x.path = y.path \/ Newer(x.path, y.path) \/ Newer(y.path, x.path)
      BY <1>0, <2>1, NewerOrders
    <3>. QED
      BY <1>0, <2>1, <3>1, HitShape
  <2>2. CASE x.chunk # y.chunk
    BY <1>0, <2>2, NearerOrders, HitShape
  <2>. QED
    BY <2>1, <2>2
<1>4. \A x, y, z \in T : <<x, y>> \in HitOrder /\ <<y, z>> \in HitOrder => <<x, z>> \in HitOrder
  <2> SUFFICES ASSUME NEW x \in T, NEW y \in T, NEW z \in T,
                      <<x, y>> \in HitOrder, <<y, z>> \in HitOrder
               PROVE  <<x, z>> \in HitOrder
    OBVIOUS
  <2>1. Nearer(x.chunk, y.chunk) \/ (x.chunk = y.chunk /\ Newer(x.path, y.path))
    BY <1>0, HitShape
  <2>2. Nearer(y.chunk, z.chunk) \/ (y.chunk = z.chunk /\ Newer(y.path, z.path))
    BY <1>0, HitShape
  <2>3. Nearer(x.chunk, z.chunk) \/ (x.chunk = z.chunk /\ Newer(x.path, z.path))
    BY <1>0, <2>1, <2>2, NearerOrders, NewerOrders
  <2>. QED
    BY <1>0, <2>3, HitShape
<1>. QED
  BY <1>1, <1>2, <1>3, <1>4 DEF Orders

-----------------------------------------------------------------------------
(* What a fan-out, collapsed, is.                                          *)

\* The hits in order.
LEMMA HitList ==
    ASSUME CatalogInv, NEW found
    PROVE  LET hits == SearchVectors(found)
           IN /\ hits \in Seq(Hit) /\ Len(hits) \in Nat
              /\ \A u \in 1..Len(hits) : hits[u] \in Hits(found)
              /\ \A x \in Hits(found) : \E u \in 1..Len(hits) : hits[u] = x
              /\ \A u, v \in 1..Len(hits) : u < v <=> <<hits[u], hits[v]>> \in HitOrder
<1> DEFINE hits == SearchVectors(found)
           T == Hits(found)
           N == Cardinality(T)
<1>1. IsFiniteSet(T) /\ Orders(HitOrder, T) /\ N \in Nat
  BY HitsOrdered, FS_CardinalityType
<1>2. Lists(hits, T, HitOrder)
  BY <1>1, RankedLists DEF SearchVectors
<1>3. T \subseteq Hit
  BY HitShape
<1> HIDE DEF hits, T
<1>4. /\ hits \in [1..N -> T]
      /\ \A x \in T : \E i \in 1..N : hits[i] = x
      /\ \A i, j \in 1..N : i < j <=> <<hits[i], hits[j]>> \in HitOrder
  BY <1>2 DEF Lists
<1> HIDE DEF N
<1>5. hits \in [1..N -> Hit] /\ \A u \in 1..N : hits[u] \in T
  BY <1>3, <1>4
<1>6. hits \in Seq(Hit) /\ Len(hits) = N
  BY <1>1, <1>5, FunctionIsSeq
<1>. QED
  BY <1>1, <1>4, <1>5, <1>6 DEF hits, T

\* The first hit of a content is the nearest of its chunks that were found, at
\* its newest path, and the later hits of that chunk are its other paths.
LEMMA FirstHit ==
    ASSUME CatalogInv, NEW found \in SUBSET vectors, NEW f \in 1..Len(SearchVectors(found)),
           IsFirst(SearchVectors(found), f)
    PROVE  LET hits == SearchVectors(found)
               h == HashAt(hits, f)
               p == hits[f].path
           IN /\ hits[f].chunk \in found \cap ChunksOf(h)
              /\ \A d \in found \cap ChunksOf(h) :
                   d = hits[f].chunk \/ Nearer(hits[f].chunk, d)
              /\ p \in PathsOf(h)
              /\ \A q \in PathsOf(h) \ {p} : Newer(p, q)
              /\ Others(hits, f, Len(hits)) = PathsOf(h) \ {p}
<1> DEFINE hits == SearchVectors(found)
           N == Len(hits)
           x == hits[f]
           c == x.chunk
           h == ContentOf[c]
           p == x.path
<1>1. /\ N \in Nat
      /\ \A u \in 1..N : hits[u] \in Hits(found)
      /\ \A y \in Hits(found) : \E u \in 1..N : hits[u] = y
      /\ \A u, v \in 1..N : u < v <=> <<hits[u], hits[v]>> \in HitOrder
  BY HitList
<1>2. f \in 1..N /\ \A v \in 1..(f - 1) : ContentOf[hits[v].chunk] # h
  BY DEF IsFirst, HashAt
<1>3. HashAt(hits, f) = h
  BY DEF HashAt
<1>4. \A v : HashAt(hits, v) = ContentOf[hits[v].chunk]
  BY DEF HashAt
<1> HIDE DEF hits, N
<1>5. x \in Hit /\ c \in found /\ p \in PathsOf(h) /\ x \in Hits(found)
  BY <1>1, <1>2, HitShape
<1>6. c \in Chunk /\ p \in Path
  BY <1>5, HitShape
<1>7. c \in found \cap ChunksOf(h)
  BY <1>5, <1>6 DEF ChunksOf
<1>a. \A d \in Chunk : \A q \in Path :
        LET y == [chunk |-> d, path |-> q]
        IN y \in Hit /\ y.chunk = d /\ y.path = q
  BY HitShape
<1> HIDE DEF x
<1>8. ASSUME NEW y \in Hits(found), ContentOf[y.chunk] = h, <<y, x>> \in HitOrder PROVE FALSE
  <2>1. PICK v \in 1..N : hits[v] = y
    BY <1>1
  <2>2. v < f
    BY <1>1, <1>2, <1>8, <2>1 DEF x
  <2>3. v \in 1..(f - 1)
    BY <1>1, <1>2, <2>2
  <2>. QED
    BY <1>2, <1>8, <2>1, <2>3
<1>9. \A d \in found \cap ChunksOf(h) : d = c \/ Nearer(c, d)
  <2> SUFFICES ASSUME NEW d \in found \cap ChunksOf(h), d # c, ~Nearer(c, d) PROVE FALSE
    OBVIOUS
  <2>1. d \in Chunk /\ ContentOf[d] = h
    BY DEF ChunksOf
  <2>2. Nearer(d, c)
    BY <1>6, <2>1, NearerOrders
  <2> DEFINE y == [chunk |-> d, path |-> p]
  <2>3. y \in Hit /\ y.chunk = d /\ y.path = p
    BY <1>6, <2>1, <1>a
  <2> HIDE DEF y
  <2>4. y \in Hits(found)
    BY <1>5, <2>1, <2>3, HitShape
  <2>5. <<y, x>> \in HitOrder
    BY <1>5, <2>2, <2>3, HitShape
  <2>. QED
    BY <1>8, <2>1, <2>3, <2>4, <2>5
<1>10. ASSUME NEW q \in PathsOf(h)
       PROVE  \E y \in Hits(found) : y.chunk = c /\ y.path = q
  <2> DEFINE y == [chunk |-> c, path |-> q]
  <2>1. q \in Path
    BY NewerOrders
  <2>2. y \in Hit /\ y.chunk = c /\ y.path = q
    BY <1>6, <2>1, <1>a
  <2> HIDE DEF y
  <2>3. y \in Hits(found)
    BY <1>5, <2>2, HitShape
  <2>. QED
    BY <2>2, <2>3
<1>11. \A q \in PathsOf(h) \ {p} : Newer(p, q)
  <2> SUFFICES ASSUME NEW q \in PathsOf(h), q # p, ~Newer(p, q) PROVE FALSE
    OBVIOUS
  <2>1. Newer(q, p)
    BY <1>5, NewerOrders
  <2>2. PICK y \in Hits(found) : y.chunk = c /\ y.path = q
    BY <1>10
  <2>3. <<y, x>> \in HitOrder
    BY <1>5, <2>1, <2>2, HitShape
  <2>. QED
    BY <1>8, <2>2, <2>3
<1>12. Others(hits, f, N) = PathsOf(h) \ {p}
  <2>1. \A q : q \in Others(hits, f, N) <=>
           \E v \in (f + 1)..N : hits[v].chunk = c /\ q = hits[v].path
    BY DEF Others, x
  <2>2. ASSUME NEW v \in (f + 1)..N, hits[v].chunk = c
        PROVE  hits[v].path \in PathsOf(h) \ {p}
    <3>1. v \in 1..N /\ f < v
      BY <1>1, <1>2
    <3>2. hits[v] \in Hits(found) /\ <<x, hits[v]>> \in HitOrder
      BY <1>1, <1>2, <3>1 DEF x
    <3>3. hits[v] \in Hit /\ hits[v].path \in PathsOf(h)
      BY <2>2, <3>2, HitShape
    <3>4. hits[v].path # p
      <4> SUFFICES ASSUME hits[v].path = p PROVE FALSE
        OBVIOUS
      <4>1. hits[v] = x
        BY <1>5, <2>2, <3>3, HitShape
      <4>. QED
        BY <1>5, <3>2, <4>1, HitsOrdered DEF Orders
    <3>. QED
      BY <3>3, <3>4
  <2>3. ASSUME NEW q \in PathsOf(h), q # p
        PROVE  \E v \in (f + 1)..N : hits[v].chunk = c /\ q = hits[v].path
    <3>1. PICK y \in Hits(found) : y.chunk = c /\ y.path = q
      BY <1>10
    <3>2. PICK v \in 1..N : hits[v] = y
      BY <1>1
    <3>3. Newer(p, q)
      BY <1>11, <2>3
    <3>4. <<x, y>> \in HitOrder
      BY <1>5, <3>1, <3>3, HitShape
    <3>5. f < v
      BY <1>1, <1>2, <3>2, <3>4 DEF x
    <3>6. v \in (f + 1)..N
      BY <1>1, <1>2, <3>5
    <3>. QED
      BY <3>1, <3>2, <3>6
  <2>4. \A q : q \in Others(hits, f, N) <=> q \in PathsOf(h) \ {p}
    BY <2>1, <2>2, <2>3
  <2>. QED
    BY <2>4
<1>13. HashAt(hits, f) = h /\ hits[f] = x
  BY <1>3 DEF x
<1>. QED
  BY <1>5, <1>7, <1>9, <1>11, <1>12, <1>13 DEF hits, N

\* The answer is the loop's entries with their other paths sorted.
SortedOf(got, out, at, found, n) ==
    /\ MadeOf(out, at, SearchVectors(found), n, Len(SearchVectors(found)))
    /\ DOMAIN got = 1..Len(out)
    /\ \A m \in 1..Len(out) :
         /\ got[m].hash = out[m].hash /\ got[m].chunk = out[m].chunk
         /\ got[m].path = out[m].path
         /\ got[m].alsoAt = Ranked(ToSet(out[m].alsoAt), ByPath)

\* What CollapseBestPerContent makes of the hits.
LEMMA Collapsed ==
    ASSUME CatalogInv, NEW found, NEW n \in Nat \ {0}
    PROVE  \E out, at : SortedOf(Collapse(SearchVectors(found), n), out, at, found, n)
<1> DEFINE hits == SearchVectors(found)
           got == Collapse(hits, n)
           out == Collapsing(hits, n)[Len(hits)]
<1>1. hits \in Seq(Hit)
  BY HitList
<1> HIDE DEF hits
<1>2. PICK at : MadeOf(out, at, hits, n, Len(hits))
  BY <1>1, CollapseMade
<1>3. got = [i \in DOMAIN out |-> [out[i] EXCEPT !.alsoAt = Ranked(ToSet(@), ByPath)]]
  BY DEF Collapse
<1> HIDE DEF out, got
<1>4. out \in Seq(Entry)
  BY <1>2 DEF MadeOf
<1>5. DOMAIN out = 1..Len(out) /\ \A m \in 1..Len(out) : out[m] \in Entry
  BY <1>4, SeqShape
<1>6. DOMAIN got = 1..Len(out)
  BY <1>3, <1>5
<1>7. ASSUME NEW m \in 1..Len(out)
      PROVE  /\ got[m].hash = out[m].hash /\ got[m].chunk = out[m].chunk
             /\ got[m].path = out[m].path
             /\ got[m].alsoAt = Ranked(ToSet(out[m].alsoAt), ByPath)
  <2> DEFINE e == out[m]
             s == Ranked(ToSet(e.alsoAt), ByPath)
  <2>1. got[m] = [e EXCEPT !.alsoAt = s] /\ e \in Entry
    BY <1>3, <1>5
  <2> HIDE DEF e, s
  <2>2. /\ got[m].hash = e.hash /\ got[m].chunk = e.chunk /\ got[m].path = e.path
        /\ got[m].alsoAt = s
    BY <2>1 DEF Entry
  <2>. QED
    BY <2>2 DEF e, s
<1>8. SortedOf(got, out, at, found, n)
  BY <1>2, <1>6, <1>7, Zenon DEF SortedOf, hits
<1>. QED
  BY <1>8 DEF hits, got

\* A content is referenced by the documents at its paths.
LEMMA ReferencedPaths ==
    ASSUME NEW h
    PROVE  h \in Referenced <=> \E p \in Path : p \in PathsOf(h)
BY DEF Referenced, PathsOf

\* The vectors a KNN query finds: none it leaves out is nearer.
Finds(found) ==
    /\ found \in SUBSET vectors
    /\ \A c \in found, d \in vectors \ found : query[c] <= query[d]

\* An entry of the answer: its chunk is as near as any of its content, found
\* or not, and its paths are those of its content.
LEMMA EntryIs ==
    ASSUME CatalogInv, NEW found, Finds(found), NEW n \in Nat \ {0}, NEW out, NEW at,
           MadeOf(out, at, SearchVectors(found), n, Len(SearchVectors(found))),
           NEW m \in 1..Len(out)
    PROVE  LET h == out[m].hash
               c == out[m].chunk
           IN /\ h \in Referenced /\ c \in found /\ c \in VectorsOf(h)
              /\ \A d \in VectorsOf(h) : query[c] <= query[d]
              /\ out[m].path \in PathsOf(h)
              /\ \A q \in PathsOf(h) \ {out[m].path} : Newer(out[m].path, q)
              /\ ToSet(out[m].alsoAt) = PathsOf(h) \ {out[m].path}
<1> DEFINE hits == SearchVectors(found)
           h == out[m].hash
           c == out[m].chunk
<1>0. found \in SUBSET vectors
  BY DEF Finds
<1>1. at[m] \in 1..Len(hits) /\ EntryOf(out[m], hits, at[m], Len(hits))
  BY DEF MadeOf
<1>2. /\ IsFirst(hits, at[m])
      /\ h = HashAt(hits, at[m]) /\ c = hits[at[m]].chunk
      /\ out[m].path = hits[at[m]].path
      /\ ToSet(out[m].alsoAt) = Others(hits, at[m], Len(hits))
  BY <1>1 DEF EntryOf
<1>3. /\ c \in found \cap ChunksOf(h)
      /\ \A d \in found \cap ChunksOf(h) : d = c \/ Nearer(c, d)
      /\ out[m].path \in PathsOf(h)
      /\ \A q \in PathsOf(h) \ {out[m].path} : Newer(out[m].path, q)
      /\ Others(hits, at[m], Len(hits)) = PathsOf(h) \ {out[m].path}
  BY <1>0, <1>1, <1>2, FirstHit
<1> HIDE DEF hits, h, c
<1>4. h \in Referenced
  BY <1>3, ReferencedPaths, NewerOrders
<1>5. c \in VectorsOf(h)
  BY <1>0, <1>3 DEF VectorsOf
<1>6. ASSUME NEW d \in VectorsOf(h) PROVE query[c] <= query[d]
  <2>1. d \in vectors /\ d \in ChunksOf(h) /\ query[c] \in Nat /\ query[d] \in Nat
    BY <1>5, <1>6, SearchAssumption DEF VectorsOf, CatalogInv
  <2>2. CASE d \in found
    <3>1. d = c \/ Nearer(c, d)
      BY <1>3, <2>1, <2>2
    <3>. QED
      BY <2>1, <3>1 DEF Nearer
  <2>3. CASE d \notin found
    BY <1>3, <2>1, <2>3 DEF Finds
  <2>. QED
    BY <2>2, <2>3
<1>. QED
  BY <1>2, <1>3, <1>4, <1>5, <1>6 DEF h, c

\* A chunk that was found and whose content some document holds is a hit.
LEMMA FoundIsHit ==
    ASSUME CatalogInv, NEW found, Finds(found), NEW h \in Referenced,
           NEW c \in found \cap ChunksOf(h)
    PROVE  LET hits == SearchVectors(found)
           IN \E v \in 1..Len(hits) : HashAt(hits, v) = h /\ hits[v].chunk = c
<1> DEFINE hits == SearchVectors(found)
<1>1. c \in Chunk /\ ContentOf[c] = h /\ c \in found
  BY DEF ChunksOf
<1>2. PICK q \in Path : q \in PathsOf(h)
  BY ReferencedPaths
<1> DEFINE x == [chunk |-> c, path |-> q]
<1>3. x \in Hit /\ x.chunk = c /\ x.path = q
  BY <1>1, <1>2, HitShape
<1> HIDE DEF x
<1>4. x \in Hits(found)
  BY <1>1, <1>2, <1>3, HitShape
<1>5. PICK v \in 1..Len(hits) : hits[v] = x
  BY <1>4, HitList
<1>. QED
  BY <1>1, <1>3, <1>5 DEF HashAt

\* The entries are in order, and a content that was found and has none comes
\* after them all in an answer that is full.
LEMMA AnswerRanks ==
    ASSUME CatalogInv, NEW found, Finds(found), NEW n \in Nat \ {0}, NEW out, NEW at,
           MadeOf(out, at, SearchVectors(found), n, Len(SearchVectors(found)))
    PROVE  /\ Len(out) \in Nat /\ Len(out) <= n
           /\ \A l, m \in 1..Len(out) :
                l < m => out[l].hash # out[m].hash /\ Nearer(out[l].chunk, out[m].chunk)
           /\ \A h \in Referenced : \A c \in found \cap ChunksOf(h) :
                \/ \E m \in 1..Len(out) : out[m].hash = h
                \/ Len(out) = n /\ \A m \in 1..Len(out) : query[out[m].chunk] <= query[c]
<1> DEFINE hits == SearchVectors(found)
           N == Len(hits)
           L == Len(out)
<1>1. /\ L \in Nat /\ L <= n
      /\ at \in [1..L -> 1..N]
      /\ \A l, m \in 1..L : l < m => at[l] < at[m]
      /\ \A m \in 1..L : EntryOf(out[m], hits, at[m], N)
      /\ \A u \in 1..N : IsFirst(hits, u) =>
           \/ \E m \in 1..L : at[m] = u
           \/ L = n /\ \A m \in 1..L : at[m] < u
  BY SeqShape DEF MadeOf
<1>2. /\ N \in Nat
      /\ \A u \in 1..N : hits[u] \in Hits(found)
      /\ \A u, v \in 1..N : u < v <=> <<hits[u], hits[v]>> \in HitOrder
  BY HitList
<1>3. \A m \in 1..L : out[m].chunk \in found
  BY EntryIs
<1>3a. \A h \in Referenced : \A c \in found \cap ChunksOf(h) :
         \E v \in 1..N : HashAt(hits, v) = h /\ hits[v].chunk = c
  BY FoundIsHit
<1> HIDE DEF hits, N, L
<1>4. \A m \in 1..L : /\ at[m] \in 1..N /\ IsFirst(hits, at[m])
                      /\ out[m].hash = HashAt(hits, at[m])
                      /\ out[m].chunk = hits[at[m]].chunk
  BY <1>1 DEF EntryOf
<1>5. \A u, v \in 1..N : u < v => \/ Nearer(hits[u].chunk, hits[v].chunk)
                                  \/ hits[u].chunk = hits[v].chunk
  <2> SUFFICES ASSUME NEW u \in 1..N, NEW v \in 1..N, u < v
               PROVE  Nearer(hits[u].chunk, hits[v].chunk) \/ hits[u].chunk = hits[v].chunk
    OBVIOUS
  <2>1. <<hits[u], hits[v]>> \in HitOrder /\ hits[u] \in Hit /\ hits[v] \in Hit
    BY <1>2, HitShape
  <2>. QED
    BY <2>1, HitShape
<1>6. ASSUME NEW l \in 1..L, NEW m \in 1..L, l < m
      PROVE  out[l].hash # out[m].hash /\ Nearer(out[l].chunk, out[m].chunk)
  <2>1. /\ at[l] \in 1..N /\ at[m] \in 1..N /\ at[l] < at[m]
    BY <1>1, <1>4, <1>6
  <2>2. at[l] \in 1..(at[m] - 1)
    BY <1>2, <2>1
  <2>3. HashAt(hits, at[l]) # HashAt(hits, at[m])
    BY <1>4, <2>2 DEF IsFirst
  <2>4. hits[at[l]].chunk # hits[at[m]].chunk
    BY <2>3 DEF HashAt
  <2>5. Nearer(hits[at[l]].chunk, hits[at[m]].chunk)
    BY <1>5, <2>1, <2>4
  <2>. QED
    BY <1>4, <2>3, <2>5
<1>7. ASSUME NEW h \in Referenced, NEW c \in found \cap ChunksOf(h),
             ~ \E m \in 1..L : out[m].hash = h
      PROVE  L = n /\ \A m \in 1..L : query[out[m].chunk] <= query[c]
  <2>1. PICK v \in 1..N : HashAt(hits, v) = h /\ hits[v].chunk = c
    BY <1>3a
  <2>2. v \in Nat \ {0}
    BY <1>2
  <2>3. PICK f \in 1..v : IsFirst(hits, f) /\ HashAt(hits, f) = HashAt(hits, v)
    BY <2>2, FirstExists
  <2>4. f \in 1..N /\ f <= v
    BY <1>2, <2>2
  <2>5. ~ \E m \in 1..L : at[m] = f
    BY <1>4, <1>7, <2>1, <2>3
  <2>6. L = n /\ \A m \in 1..L : at[m] < f
    BY <1>1, <2>3, <2>4, <2>5
  <2>7. ASSUME NEW m \in 1..L PROVE query[out[m].chunk] <= query[c]
    <3>1. at[m] \in 1..N /\ at[m] < v
      BY <1>2, <1>4, <2>2, <2>4, <2>6
    <3>2. Nearer(out[m].chunk, c) \/ out[m].chunk = c
      BY <1>4, <1>5, <2>1, <3>1
    <3>3. query[out[m].chunk] \in Nat /\ query[c] \in Nat
      BY <1>3, SearchAssumption DEF CatalogInv, Finds
    <3>. QED
      BY <3>2, <3>3 DEF Nearer
  <2>. QED
    BY <2>6, <2>7
<1>. QED
  BY <1>1, <1>6, <1>7 DEF L

-----------------------------------------------------------------------------
(* The request.                                                            *)

\* A request that has been accepted wants between one and MaxLimit documents.
SearchInv ==
    /\ CatalogInv
    /\ pc \in {"spec", "embed", "knn", "retry"} => limit \in 1..MaxLimit

\* Every step of the catalog and of the request preserves it.
LEMMA SearchStep ==
    ASSUME SearchInv, [Next]_vars
    PROVE  SearchInv'
<1>1. ASSUME NEW p \in Path, DocumentChanges(p) PROVE SearchInv'
  <2>1. PICK d \in Doc \cup {NoDoc} : docs' = [docs EXCEPT ![p] = d]
    BY <1>1 DEF DocumentChanges
  <2>2. docs' \in [Path -> Doc \cup {NoDoc}]
    BY <2>1 DEF SearchInv, CatalogInv
  <2>. QED
    BY <1>1, <2>2 DEF SearchInv, CatalogInv, DocumentChanges, requestVars
<1>2. ASSUME NEW h \in Hash, ContentEmbedded(h) \/ ContentDropped(h) PROVE SearchInv'
  BY <1>2 DEF SearchInv, CatalogInv, ContentEmbedded, ContentDropped, ChunksOf, requestVars
<1>3. ASSUME NEW m \in Model, Cutover(m) PROVE SearchInv'
  <2>1. vectors' \in SUBSET Chunk
    BY <1>3 DEF Cutover, ChunksOf
  <2>. QED
    BY <1>3, <2>1 DEF SearchInv, CatalogInv, Cutover, requestVars
<1>3a. CASE FileReplaced
  BY <1>3a DEF SearchInv, CatalogInv, FileReplaced, requestVars
<1>4. ASSUME NEW asked \in 0..MaxLimit + 1, NEW wellFormed, Request(asked, wellFormed)
      PROVE  SearchInv'
  BY <1>4 DEF SearchInv, CatalogInv, Request, catalogVars
<1>5. CASE ReadSpec
  BY <1>5 DEF SearchInv, CatalogInv, ReadSpec, catalogVars
<1>6. CASE EmbedQuery
  BY <1>6 DEF SearchInv, CatalogInv, EmbedQuery, catalogVars
<1>7. CASE FirstKnn \/ SecondKnn
  BY <1>7 DEF SearchInv, CatalogInv, FirstKnn, SecondKnn, catalogVars
<1>8. CASE Reply
  <2>1. query' \in [Chunk -> Distances]
    BY <1>8, SearchAssumption DEF Reply
  <2>. QED
    BY <1>8, <2>1 DEF SearchInv, CatalogInv, Reply, catalogVars
<1>9. CASE UNCHANGED vars
  BY <1>9 DEF SearchInv, CatalogInv, vars, catalogVars, requestVars
<1>. QED
  BY <1>1, <1>2, <1>3, <1>3a, <1>4, <1>5, <1>6, <1>7, <1>8, <1>9 DEF Next, Catalog

\* It holds from the start.
LEMMA SearchInvariant == Spec => []SearchInv
<1>1. Init => SearchInv
  BY SearchAssumption DEF Init, SearchInv, CatalogInv
<1>2. SearchInv /\ [Next]_vars => SearchInv'
  BY SearchStep
<1>. QED
  BY <1>1, <1>2, PTL DEF Spec

\* What a KNN query for k chunks collapses to, when that is not short.
CollapsesTo(k, got) ==
    \E found \in KnnChunks(k) :
       got = Collapse(SearchVectors(found), limit) /\ ~ComesUpShort(got, k)

\* An answer is what one of the two KNN queries collapses to, and not short
\* unless that query asked for all it may.
LEMMA AnswerIs ==
    ASSUME SearchInv, [Next]_vars, Answers
    PROVE  /\ limit \in Nat \ {0}
           /\ \E k \in Nat : k <= MaxK /\ CollapsesTo(k, answer')
<1>1. FirstKnn \/ SecondKnn
  BY DEF Answers, Next, Catalog, DocumentChanges, ContentEmbedded, ContentDropped,
     Cutover, FileReplaced, Request, ReadSpec, EmbedQuery, Reply, vars, requestVars
<1>2. limit \in Nat \ {0} /\ limit' = limit
  BY <1>1, SearchAssumption DEF SearchInv, Answers, FirstKnn, SecondKnn
<1>3. KnnK(limit) \in Nat /\ KnnK(limit) <= MaxK /\ MaxK \in Nat
  <2>1. limit * OverFetch \in Nat /\ MaxK \in Nat
    BY <1>2, SearchAssumption
  <2>. QED
    BY <2>1 DEF KnnK
<1>4. ASSUME NEW k, Knn(k), pc' = "answered"
      PROVE  CollapsesTo(k, answer')
  <2>1. PICK found \in KnnChunks(k) :
               LET got == Collapse(SearchVectors(found), limit)
               IN IF ComesUpShort(got, k) THEN pc' = "retry" /\ UNCHANGED answer
                                          ELSE pc' = "answered" /\ answer' = got
    BY <1>4 DEF Knn
  <2>2. answer' = Collapse(SearchVectors(found), limit) /\ ~ComesUpShort(answer', k)
    BY <1>4, <2>1
  <2>. QED
    BY <2>2 DEF CollapsesTo
<1>5. \E k \in {KnnK(limit), MaxK} : Knn(k)
  BY <1>1 DEF FirstKnn, SecondKnn
<1>6. pc' = "answered"
  BY DEF Answers
<1>. QED
  BY <1>2, <1>3, <1>4, <1>5, <1>6

\* What a KNN query leaves out when it asks for all it may.
LEMMA BeyondReach ==
    ASSUME CatalogInv, NEW found \in KnnChunks(MaxK), NEW c \in vectors, c \notin found
    PROVE  Cardinality({d \in vectors \ {c} : query[d] <= query[c]}) >= MaxK
<1> DEFINE D == {d \in vectors \ {c} : query[d] <= query[c]}
<1>1. /\ found \in SUBSET vectors /\ Cardinality(found) = MaxK
      /\ \A b \in found, d \in vectors \ found : query[b] <= query[d]
  BY DEF KnnChunks
<1>2. vectors \in SUBSET Chunk /\ IsFiniteSet(Chunk) /\ MaxK \in Nat
  BY SearchAssumption DEF CatalogInv
<1>3. D \in SUBSET Chunk /\ found \in SUBSET D
  BY <1>1, <1>2
<1> HIDE DEF D
<1>4. IsFiniteSet(D) /\ Cardinality(D) \in Nat
  BY <1>2, <1>3, FS_Subset, FS_CardinalityType
<1>5. Cardinality(found) <= Cardinality(D)
  BY <1>3, <1>4, FS_Subset
<1>. QED
  BY <1>1, <1>2, <1>4, <1>5 DEF D

\* The answer is the nearest contents that some document holds, each with its
\* nearest chunk, as many as asked for and as there are: neither the vectors of
\* deleted content, nor a long document's many chunks, nor the copies of one
\* content hide another from it, whatever the catalog does between two steps
\* and whichever of the equally near chunks a query returns.
THEOREM AnswersAreNearest == Spec => NearestContents
<1> DEFINE Nearest ==
             /\ InOrder(answer') /\ Len(answer') <= limit
             /\ \A h \in Referenced : \A c \in VectorsOf(h) :
                  \/ Holds(answer', h)
                  \/ /\ Len(answer') = limit
                     /\ \A i \in DOMAIN answer' : query[answer'[i].chunk] <= query[c]
                  \/ Cardinality({d \in vectors \ {c} : query[d] <= query[c]}) >= MaxK
<1>1. SearchInv /\ [Next]_vars => [Answers => Nearest]_vars
  <2> SUFFICES ASSUME SearchInv, [Next]_vars, Answers PROVE Nearest
    BY Zenon
  <2>0. CatalogInv
    BY DEF SearchInv
  <2>1. limit \in Nat \ {0}
    BY AnswerIs
  <2>2. PICK k \in Nat : k <= MaxK /\ CollapsesTo(k, answer')
    BY AnswerIs
  <2>3. PICK found \in KnnChunks(k) :
               /\ answer' = Collapse(SearchVectors(found), limit)
               /\ ~ComesUpShort(answer', k)
    BY <2>2 DEF CollapsesTo
  <2>4. Finds(found)
    BY DEF KnnChunks, Finds
  <2>a. PICK out, at : SortedOf(answer', out, at, found, limit)
    BY <2>0, <2>1, <2>3, Collapsed
  <2>5. /\ MadeOf(out, at, SearchVectors(found), limit, Len(SearchVectors(found)))
        /\ DOMAIN answer' = 1..Len(out)
        /\ \A m \in 1..Len(out) :
             answer'[m].hash = out[m].hash /\ answer'[m].chunk = out[m].chunk
    BY <2>a, Zenon DEF SortedOf
  <2> DEFINE L == Len(out)
  <2>6. /\ L \in Nat /\ L <= limit
        /\ \A l, m \in 1..L :
             l < m => out[l].hash # out[m].hash /\ Nearer(out[l].chunk, out[m].chunk)
        /\ \A h \in Referenced : \A c \in found \cap ChunksOf(h) :
             \/ \E m \in 1..L : out[m].hash = h
             \/ L = limit /\ \A m \in 1..L : query[out[m].chunk] <= query[c]
    BY <2>0, <2>1, <2>4, <2>5, AnswerRanks
  <2>7. \A m \in 1..L : /\ out[m].hash \in Referenced /\ out[m].chunk \in found
                        /\ out[m].chunk \in VectorsOf(out[m].hash)
                        /\ \A c \in VectorsOf(out[m].hash) : query[out[m].chunk] <= query[c]
    BY <2>0, <2>1, <2>4, <2>5, EntryIs
  <2>8. Len(answer') = L
    <3>1. answer' \in [1..L -> {answer'[i] : i \in 1..L}]
      <4>1. answer' = [i \in 1..L |-> answer'[i]]
        BY <2>3, <2>5 DEF Collapse
      <4>. QED
        BY <4>1
    <3>. QED
      BY <2>6, <3>1, FunctionIsSeq
  <2>9. DOMAIN answer' = 1..L /\ \A m \in 1..L : answer'[m].hash = out[m].hash
                                               /\ answer'[m].chunk = out[m].chunk
    BY <2>5
  <2> HIDE DEF L
  <2>10. InOrder(answer')
    BY <2>6, <2>7, <2>9 DEF InOrder
  <2>11. ASSUME NEW h \in Referenced, NEW c \in VectorsOf(h), ~Holds(answer', h)
         PROVE  \/ /\ Len(answer') = limit
                   /\ \A i \in DOMAIN answer' : query[answer'[i].chunk] <= query[c]
                \/ Cardinality({d \in vectors \ {c} : query[d] <= query[c]}) >= MaxK
    <3>1. c \in vectors /\ c \in ChunksOf(h)
      BY <2>11 DEF VectorsOf
    <3>2. ~ \E m \in 1..L : out[m].hash = h
      BY <2>9, <2>11 DEF Holds
    <3>3. CASE c \in found
      BY <2>6, <2>8, <2>9, <3>1, <3>2, <3>3
    <3>4. CASE c \notin found /\ L = limit
      <4>1. \A m \in 1..L : query[out[m].chunk] <= query[c]
        BY <2>4, <2>7, <3>1, <3>4 DEF Finds
      <4>. QED
        BY <2>8, <2>9, <3>4, <4>1
    <3>5. CASE c \notin found /\ L # limit
      <4>1. k = MaxK
        BY <2>1, <2>2, <2>3, <2>6, <2>8, <3>5, SearchAssumption DEF ComesUpShort
      <4>. QED
        BY <2>0, <3>1, <3>5, <4>1, BeyondReach
    <3>. QED
      BY <3>3, <3>4, <3>5
  <2>. QED
    BY <2>6, <2>8, <2>10, <2>11
<1>. QED
  BY <1>1, SearchInvariant, PTL DEF Spec, NearestContents

\* Every copy is named, the newest as the hit's path and all others as also_at,
\* although copies arrive among the hits of other contents and after the answer
\* is full.
THEOREM CopiesAreNamed == Spec => EveryCopyIsNamed
<1>1. SearchInv /\ [Next]_vars
        => [Answers =>
              \A i \in DOMAIN answer' :
                 LET hit == answer'[i]
                     others == PathsOf(hit.hash) \ {hit.path}
                 IN /\ hit.path \in PathsOf(hit.hash)
                    /\ \A p \in others : Newer(hit.path, p)
                    /\ hit.alsoAt = Ranked(others, ByPath)]_vars
  <2> SUFFICES ASSUME SearchInv, [Next]_vars, Answers, NEW i \in DOMAIN answer'
               PROVE  LET hit == answer'[i]
                          others == PathsOf(hit.hash) \ {hit.path}
                      IN /\ hit.path \in PathsOf(hit.hash)
                         /\ \A p \in others : Newer(hit.path, p)
                         /\ hit.alsoAt = Ranked(others, ByPath)
    BY Zenon
  <2>0. CatalogInv
    BY DEF SearchInv
  <2>1. limit \in Nat \ {0}
    BY AnswerIs
  <2>2. PICK k \in Nat : CollapsesTo(k, answer')
    BY AnswerIs
  <2>b. PICK found \in KnnChunks(k) : answer' = Collapse(SearchVectors(found), limit)
    BY <2>2 DEF CollapsesTo
  <2>c. Finds(found)
    BY DEF KnnChunks, Finds
  <2>a. PICK out, at : SortedOf(answer', out, at, found, limit)
    BY <2>0, <2>1, <2>b, Collapsed
  <2>3. /\ MadeOf(out, at, SearchVectors(found), limit, Len(SearchVectors(found)))
        /\ DOMAIN answer' = 1..Len(out)
        /\ \A m \in 1..Len(out) :
             /\ answer'[m].hash = out[m].hash /\ answer'[m].chunk = out[m].chunk
             /\ answer'[m].path = out[m].path
             /\ answer'[m].alsoAt = Ranked(ToSet(out[m].alsoAt), ByPath)
    BY <2>a, Zenon DEF SortedOf
  <2>4. i \in 1..Len(out)
    BY <2>3
  <2>5. /\ out[i].path \in PathsOf(out[i].hash)
        /\ \A q \in PathsOf(out[i].hash) \ {out[i].path} : Newer(out[i].path, q)
        /\ ToSet(out[i].alsoAt) = PathsOf(out[i].hash) \ {out[i].path}
    BY <2>0, <2>1, <2>c, <2>3, <2>4, EntryIs
  <2>6. /\ answer'[i].hash = out[i].hash /\ answer'[i].path = out[i].path
        /\ answer'[i].alsoAt = Ranked(ToSet(out[i].alsoAt), ByPath)
    BY <2>3, <2>4
  <2>. QED
    BY <2>5, <2>6
<1>. QED
  BY <1>1, SearchInvariant, PTL DEF Spec, EveryCopyIsNamed

\* Once a request has found the index to be of its own model, the index is of
\* no other, unless another process made it so: every cutover in this process is
\* to the configured model.
SpaceInv ==
    /\ table \in Table \cup {NoTable}
    /\ pc \in {"embed", "knn", "retry"} =>
         table = NoTable \/ table.model = Mine \/ foreign

\* Every step of the catalog and of the request preserves it.
LEMMA SpaceStep ==
    ASSUME SpaceInv, [Next]_vars
    PROVE  SpaceInv'
<1> USE DEF SpaceInv
<1>1. ASSUME NEW p \in Path, DocumentChanges(p) PROVE SpaceInv'
  BY <1>1 DEF DocumentChanges, requestVars
<1>2. ASSUME NEW h \in Hash, ContentEmbedded(h) \/ ContentDropped(h) PROVE SpaceInv'
  BY <1>2 DEF ContentEmbedded, ContentDropped, requestVars
<1>3. ASSUME NEW m \in Model, Cutover(m) PROVE SpaceInv'
  <2>1. PICK d \in Dims : table' = [model |-> m, dims |-> d]
    BY <1>3 DEF Cutover
  <2>2. table' \in Table /\ table'.model = m
    BY <2>1 DEF Table
  <2>3. m = Mine \/ foreign'
    BY <1>3 DEF Cutover
  <2>. QED
    BY <2>2, <2>3
<1>3a. CASE FileReplaced
  BY <1>3a DEF FileReplaced, requestVars
<1>4. ASSUME NEW asked, NEW wellFormed, Request(asked, wellFormed) PROVE SpaceInv'
  BY <1>4 DEF Request, catalogVars
<1>5. CASE ReadSpec
  BY <1>5 DEF ReadSpec, Compatible, catalogVars
<1>6. CASE EmbedQuery
  BY <1>6 DEF EmbedQuery, catalogVars
<1>7. CASE FirstKnn \/ SecondKnn
  <2>1. /\ table' = table /\ foreign' = foreign
        /\ pc' \in {"not_indexed", "failed", "retry", "answered"}
    BY <1>7 DEF FirstKnn, SecondKnn, Knn, catalogVars
  <2>. QED
    BY <1>7, <2>1 DEF FirstKnn, SecondKnn
<1>8. CASE Reply
  BY <1>8 DEF Reply, catalogVars
<1>9. CASE UNCHANGED vars
  BY <1>9 DEF vars, catalogVars, requestVars
<1>. QED
  BY <1>1, <1>2, <1>3, <1>3a, <1>4, <1>5, <1>6, <1>7, <1>8, <1>9 DEF Next, Catalog

\* A query meets only vectors of its own width, by the check in the transaction
\* that searches, and of its own model, by the identity check and what a cutover
\* of this process may be.
THEOREM QueriesMeetTheirSpace == Spec => OneVectorSpace
<1>1. Init => SpaceInv
  BY DEF Init, SpaceInv
<1>2. SpaceInv /\ [Next]_vars => SpaceInv'
  BY SpaceStep
<1>3. SpaceInv /\ [Next]_vars
        => [Answers => table.dims = width /\ (table.model = Mine \/ foreign)]_vars
  <2> SUFFICES ASSUME SpaceInv, [Next]_vars, Answers
               PROVE  table.dims = width /\ (table.model = Mine \/ foreign)
    OBVIOUS
  <2>1. FirstKnn \/ SecondKnn
    BY DEF Answers, Next, Catalog, DocumentChanges, ContentEmbedded, ContentDropped,
       Cutover, FileReplaced, Request, ReadSpec, EmbedQuery, Reply, vars, requestVars
  <2>2. Fits
    BY <2>1 DEF Answers, FirstKnn, SecondKnn, Knn
  <2>. QED
    BY <2>2 DEF Answers, SpaceInv, Fits
<1>. QED
  BY <1>1, <1>2, <1>3, PTL DEF Spec, OneVectorSpace
=============================================================================
