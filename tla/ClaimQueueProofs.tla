-------------------------- MODULE ClaimQueueProofs --------------------------
(* A theorem about the claim order for any number of contents, any batch   *)
(* size and any aging share.                                               *)
EXTENDS ClaimQueue, FiniteSetTheorems, WellFoundedInduction, TLAPS

-----------------------------------------------------------------------------
(* The first n of a finite set in an order given as a set of pairs.        *)

StrictOrder(R, S) ==
    /\ \A a \in S : <<a, a>> \notin R
    /\ \A a, b, c \in S : <<a, b>> \in R /\ <<b, c>> \in R => <<a, c>> \in R
    /\ \A a, b \in S : a = b \/ <<a, b>> \in R \/ <<b, a>> \in R

Below(R, S, x) == {y \in S : <<y, x>> \in R}

First(R, S, n) == {x \in S : Cardinality(Below(R, S, x)) < n}

\* Counting what is below an element.
LEMMA BelowIsFinite ==
    ASSUME NEW R, NEW S, IsFiniteSet(S), NEW x
    PROVE  IsFiniteSet(Below(R, S, x)) /\ Cardinality(Below(R, S, x)) \in Nat
<1>1. Below(R, S, x) \subseteq S
  BY DEF Below
<1>. QED
  BY <1>1, FS_Subset, FS_CardinalityType

\* What is further along has more below it.
LEMMA BelowGrows ==
    ASSUME NEW R, NEW S, IsFiniteSet(S), StrictOrder(R, S),
           NEW x \in S, NEW y \in S, <<x, y>> \in R
    PROVE  Cardinality(Below(R, S, x)) < Cardinality(Below(R, S, y))
<1>1. /\ Below(R, S, x) \subseteq Below(R, S, y)
      /\ x \in Below(R, S, y) /\ x \notin Below(R, S, x)
  BY DEF Below, StrictOrder
<1>2. /\ Cardinality(Below(R, S, x)) <= Cardinality(Below(R, S, y))
      /\ Cardinality(Below(R, S, y)) = Cardinality(Below(R, S, x))
           => Below(R, S, y) = Below(R, S, x)
  BY <1>1, BelowIsFinite, FS_Subset
<1>3. Cardinality(Below(R, S, x)) # Cardinality(Below(R, S, y))
  BY <1>1, <1>2
<1>. QED
  BY <1>2, <1>3, BelowIsFinite

\* A set of numbers that is not empty has a least one.
LEMMA LeastCount ==
    ASSUME NEW N \in SUBSET Nat, N # {}
    PROVE  \E n \in N : \A m \in N : n <= m
<1> DEFINE Less == OpToRel(<, Nat)
<1>1. IsWellFoundedOn(Less, Nat)
  BY NatLessThanWellFounded, Zenon
<1>2. Less = {ss \in Nat \X Nat : ss[1] < ss[2]}
  BY Zenon DEF OpToRel
<1> HIDE DEF Less
<1>3. PICK n \in N : \A m \in N : ~(<<m, n>> \in Less)
  BY <1>1, WFMin, Zenon
<1>4. \A m \in N : ~(m < n)
  BY <1>2, <1>3
<1>. QED
  BY <1>4

\* A part of the set that is not empty has a first element: the one with the
\* least below it.
LEMMA FirstOfPart ==
    ASSUME NEW R, NEW S, IsFiniteSet(S), StrictOrder(R, S),
           NEW T \in SUBSET S, T # {}
    PROVE  \E m \in T : \A t \in T : <<t, m>> \notin R
<1> DEFINE Counts == {Cardinality(Below(R, S, t)) : t \in T}
<1>1. Counts \in SUBSET Nat /\ Counts # {}
  BY BelowIsFinite
<1>2. PICK c \in Counts : \A e \in Counts : c <= e
  <2> HIDE DEF Counts
  <2>. QED
    BY <1>1, LeastCount
<1>3. PICK m \in T : c = Cardinality(Below(R, S, m))
  BY <1>2
<1>4. \A t \in T : Cardinality(Below(R, S, m)) <= Cardinality(Below(R, S, t))
  BY <1>2, <1>3
<1>5. ASSUME NEW t \in T, <<t, m>> \in R PROVE FALSE
  <2>1. Cardinality(Below(R, S, t)) < Cardinality(Below(R, S, m))
    BY <1>5, BelowGrows
  <2>. QED
    BY <1>4, <2>1, BelowIsFinite
<1>. QED
  BY <1>5

\* If something is left out of the first n, they are n and all precede it.
LEMMA FirstAreEnough ==
    ASSUME NEW R, NEW S, IsFiniteSet(S), StrictOrder(R, S), NEW n \in Nat,
           NEW d \in S, d \notin First(R, S, n)
    PROVE  /\ Cardinality(First(R, S, n)) >= n
           /\ \A h \in First(R, S, n) : <<h, d>> \in R
<1>1. First(R, S, n) \subseteq S /\ S \ First(R, S, n) # {}
  BY DEF First
<1>2. ASSUME NEW h \in First(R, S, n), NEW e \in S \ First(R, S, n)
      PROVE  <<h, e>> \in R
  <2>1. h \in S /\ Cardinality(Below(R, S, h)) < n
        /\ ~(Cardinality(Below(R, S, e)) < n)
    BY DEF First
  <2>2. ASSUME <<e, h>> \in R PROVE FALSE
    <3>1. Cardinality(Below(R, S, e)) < Cardinality(Below(R, S, h))
      BY <2>1, <2>2, BelowGrows
    <3>. QED
      BY <2>1, <3>1, BelowIsFinite
  <2>. QED
    BY <2>1, <2>2 DEF StrictOrder
<1>3. PICK m \in S \ First(R, S, n) : \A t \in S \ First(R, S, n) : <<t, m>> \notin R
  <2>1. S \ First(R, S, n) \in SUBSET S
    OBVIOUS
  <2>. QED
    BY <1>1, <2>1, FirstOfPart
<1>4. Below(R, S, m) = First(R, S, n)
  <2>1. \A y \in First(R, S, n) : y \in Below(R, S, m)
    BY <1>1, <1>2 DEF Below
  <2>2. \A y \in Below(R, S, m) : y \in First(R, S, n)
    BY <1>3 DEF Below
  <2>. QED
    BY <2>1, <2>2
<1>5. Cardinality(Below(R, S, m)) >= n
  <2>1. ~(Cardinality(Below(R, S, m)) < n)
    BY <1>3 DEF First
  <2>. QED
    BY <2>1, BelowIsFinite
<1>. QED
  BY <1>2, <1>4, <1>5

-----------------------------------------------------------------------------
(* ClaimBatch.                                                             *)

RowsTyped == updated \in [Hash -> Nat] /\ now \in Nat

NewerRel == {ss \in Due \X Due : Newer(ss[1], ss[2])}
OlderRel == {ss \in Due \X Due : Newer(ss[2], ss[1])}

\* updated_at and the hash together order the rows, either way round.
LEMMA ClaimOrders ==
    ASSUME RowsTyped
    PROVE  StrictOrder(NewerRel, Due) /\ StrictOrder(OlderRel, Due)
<1>1. Due \subseteq Hash /\ \A a \in Due : a \in Nat /\ updated[a] \in Nat
  BY QueueAssumption DEF Due, RowsTyped
<1>2. \A a, c \in Due : /\ <<a, c>> \in NewerRel <=> Newer(a, c)
                        /\ <<a, c>> \in OlderRel <=> Newer(c, a)
  BY DEF NewerRel, OlderRel
<1>3. /\ \A a \in Due : ~Newer(a, a)
      /\ \A a, c \in Due : a = c \/ Newer(a, c) \/ Newer(c, a)
  BY <1>1 DEF Newer
<1>4. \A a, c, e \in Due : Newer(a, c) /\ Newer(c, e) => Newer(a, e)
  BY <1>1 DEF Newer
<1>. QED
  BY <1>2, <1>3, <1>4 DEF StrictOrder

\* The slices are the first rows of the two orders.
LEMMA SlicesAreFirst ==
    \A n : Newest(n) = First(NewerRel, Due, n) /\ Oldest(n) = First(OlderRel, Due, n)
<1>1. \A h \in Due : /\ {g \in Due : Newer(g, h)} = Below(NewerRel, Due, h)
                     /\ {g \in Due : Newer(h, g)} = Below(OlderRel, Due, h)
  BY DEF Below, NewerRel, OlderRel
<1>. QED
  BY <1>1 DEF Newest, Oldest, First

\* A due row outside the claim means the claim is a full batch.
LEMMA ClaimIsFull ==
    ASSUME RowsTyped, NEW d \in Due, d \notin ClaimBatch
    PROVE  /\ ClaimBatch \subseteq Due /\ IsFiniteSet(Due)
           /\ Cardinality(ClaimBatch) >= Limit
<1> DEFINE N == Newest(RecentRows)
           O == Oldest(AgingRows)
<1>1. IsFiniteSet(Due) /\ N \subseteq Due /\ O \subseteq Due /\ ClaimBatch = N \cup O
  BY QueueAssumption, FS_Subset DEF Due, Newest, Oldest, ClaimBatch
<1>2. AgingRows \in Nat /\ RecentRows \in Nat /\ RecentRows + AgingRows = Limit
  BY QueueAssumption DEF AgingRows, RecentRows
<1>3. /\ N = First(NewerRel, Due, RecentRows)
      /\ O = First(OlderRel, Due, AgingRows)
  BY SlicesAreFirst
<1>4. Cardinality(N) >= RecentRows /\ \A h \in N : <<h, d>> \in NewerRel
  BY <1>1, <1>2, <1>3, ClaimOrders, FirstAreEnough
<1>5. Cardinality(O) >= AgingRows /\ \A h \in O : <<h, d>> \in OlderRel
  BY <1>1, <1>2, <1>3, ClaimOrders, FirstAreEnough
<1>6. N \cap O = {}
  <2>1. ASSUME NEW h \in N, h \in O PROVE FALSE
    <3>1. Newer(h, d) /\ Newer(d, h)
      BY <1>4, <1>5, <2>1 DEF NewerRel, OlderRel
    <3>2. h \in Nat /\ d \in Nat /\ updated[h] \in Nat /\ updated[d] \in Nat
      BY <1>1, QueueAssumption DEF Due, RowsTyped
    <3>. QED
      BY <3>1, <3>2 DEF Newer
  <2>. QED
    BY <2>1
<1> HIDE DEF N, O
<1>7. IsFiniteSet(N) /\ IsFiniteSet(O)
      /\ Cardinality(N) \in Nat /\ Cardinality(O) \in Nat
  BY <1>1, FS_Subset, FS_CardinalityType
<1>8. Cardinality(N \cup O) = Cardinality(N) + Cardinality(O)
  <2>1. Cardinality(N \cap O) = 0
    BY <1>6, FS_EmptySet
  <2>2. Cardinality(N \cup O)
          = Cardinality(N) + Cardinality(O) - Cardinality(N \cap O)
    BY <1>7, FS_Union
  <2>. QED
    BY <1>7, <2>1, <2>2
<1>. QED
  BY <1>1, <1>2, <1>4, <1>5, <1>7, <1>8

\* Timestamps are natural numbers.
LEMMA RowsTypedStep ==
    ASSUME RowsTyped, [Next]_vars
    PROVE  RowsTyped'
  BY DEF RowsTyped, Next, Drain, BeginDrain, Claim, Handled, Skip, Finish, Changed,
         Transient, Discovered, RetryDue, Tick, vars, rowVars

\* A drain that ends with due rows it never reached ended on a batch's worth of
\* due rows it had handled, whatever the timestamps and their ties.
THEOREM DrainsStopFull == Spec => DrainStopsOnFullBatch
<1>1. Init => RowsTyped
  BY DEF Init, RowsTyped
<1>2. RowsTyped /\ [Next]_vars
        => [pc = "claim" /\ pc' = "idle" =>
              Due \subseteq seen \/ Cardinality(Due \cap seen) >= Limit]_vars
  <2> SUFFICES ASSUME RowsTyped, [Next]_vars, pc = "claim", pc' = "idle",
                      NEW d \in Due, d \notin seen
               PROVE  Cardinality(Due \cap seen) >= Limit
    OBVIOUS
  <2>1. Claim
    BY DEF Next, Drain, BeginDrain, Handled, Skip, Finish, Changed, Transient,
           Discovered, RetryDue, Tick, vars
  <2>2. ClaimBatch \subseteq seen
    BY <2>1 DEF Claim
  <2>3. /\ ClaimBatch \subseteq Due /\ IsFiniteSet(Due)
        /\ Cardinality(ClaimBatch) >= Limit
    BY <2>2, ClaimIsFull
  <2>4. ClaimBatch \subseteq Due \cap seen /\ IsFiniteSet(Due \cap seen)
    BY <2>2, <2>3, FS_Subset
  <2>5. /\ Cardinality(ClaimBatch) <= Cardinality(Due \cap seen)
        /\ Cardinality(ClaimBatch) \in Nat /\ Cardinality(Due \cap seen) \in Nat
    BY <2>4, FS_Subset, FS_CardinalityType
  <2>. QED
    BY <2>3, <2>5, QueueAssumption
<1>. QED
  BY <1>1, <1>2, RowsTypedStep, PTL DEF Spec, DrainStopsOnFullBatch
=============================================================================
