------------------------- MODULE IndexHandleProofs -------------------------
(* Theorems about the shared handle, for any number of requests, handles,  *)
(* replacements and removals of the file.                                  *)
EXTENDS IndexHandle, FiniteSetTheorems, TLAPS

\* The types without the bound on searches.
Columns ==
    /\ disk \in Nat /\ minted \in Nat /\ built \in SUBSET Nat
    /\ server \in {"serving", "draining", "stopped", "closed"}
    /\ gate \in Request \cup {None}
    /\ current \in Handle \cup {None}
    /\ label \in [Handle -> Nat]
    /\ live \in SUBSET Handle /\ retired \in SUBSET Handle
    /\ refs \in [Handle -> Nat]
    /\ idle \in [Handle -> SUBSET Nat]
    /\ misled \in SUBSET live
    /\ pc \in [Request -> Waiting \cup {"idle"}]
    /\ kind \in [Request -> {"search", "status"}]
    /\ statted \in [Request -> Nat]
    /\ using \in [Request -> Handle \cup {None}]
    /\ asked \in [Request -> Nat] /\ conn \in [Request -> Nat]

\* Whoever is between stat and open holds the gate; nothing is open while a
\* file is being opened, and nothing is opened after Close.
GateInv ==
    /\ \A r \in Request : pc[r] \in {"stat", "open", "pool"} => gate = r
    /\ \A r \in Request : pc[r] \in {"open", "pool"} => current = None /\ server # "closed"
    /\ server = "closed" => current = None

\* The count is the number of users; a handle is open while it is current or
\* used, and one that was superseded is marked for its last user.
UseInv ==
    /\ \A r \in Request : using[r] # None <=> pc[r] \in {"ready", "busy"}
    /\ \A r \in Request : using[r] # None => using[r] \in live
    /\ \A h \in Handle : refs[h] = Cardinality(UsersOf(h))
    /\ current # None => current \in live /\ current \notin retired
    /\ \A h \in live : h # current => h \in retired /\ UsersOf(h) # {}

\* A connection to f is the right one for a handle whose label matches.
Fits(h, f) == h \notin misled /\ disk # 0 /\ label[h] = disk => f = disk

\* Unless an earlier file comes back, a label stops matching for good when the
\* file changes, so while it matches every connection was opened at that file.
FileInv ==
    /\ disk <= minted
    /\ \A r \in Request : statted[r] <= minted
    /\ \A h \in live : label[h] <= minted /\ \A f \in idle[h] : Fits(h, f)
    /\ \A r \in Request : pc[r] = "busy" => Fits(using[r], conn[r])

HandleInv == Columns /\ GateInv /\ UseInv /\ FileInv

-----------------------------------------------------------------------------
(* Counting.                                                               *)

\* Requests are finitely many, and so are the users of a handle.
LEMMA UsersFinite ==
    ASSUME NEW h
    PROVE  /\ IsFiniteSet(UsersOf(h))
           /\ Cardinality(UsersOf(h)) \in Nat
           /\ Cardinality(UsersOf(h)) = 0 <=> UsersOf(h) = {}
<1>1. UsersOf(h) \in SUBSET Request
  BY DEF UsersOf
<1>2. IsFiniteSet(UsersOf(h))
  BY <1>1, FS_Subset, HandleAssumption
<1>. QED
  BY <1>2, FS_CardinalityType, FS_EmptySet

\* A request that takes a handle is one more user of it, and of no other.
LEMMA UsersJoin ==
    ASSUME NEW r \in Request, NEW h \in Handle, Columns, using[r] = None,
           using' = [using EXCEPT ![r] = h]
    PROVE  /\ Cardinality(UsersOf(h)') = Cardinality(UsersOf(h)) + 1
           /\ UsersOf(h)' # {}
           /\ \A g \in Handle : g # h => UsersOf(g)' = UsersOf(g)
<1>1. h # None
  BY HandleAssumption
<1>2. UsersOf(h)' = UsersOf(h) \cup {r} /\ r \notin UsersOf(h)
  BY <1>1 DEF UsersOf, Columns
<1>3. \A g \in Handle : g # h => UsersOf(g)' = UsersOf(g)
  BY HandleAssumption DEF UsersOf, Columns
<1>. QED
  BY <1>2, <1>3, UsersFinite, FS_AddElement

\* A request that lets go is one user less.
LEMMA UsersLeave ==
    ASSUME NEW r \in Request, NEW h \in Handle, Columns, using[r] = h,
           using' = [using EXCEPT ![r] = None]
    PROVE  /\ Cardinality(UsersOf(h)') = Cardinality(UsersOf(h)) - 1
           /\ Cardinality(UsersOf(h)) > 0
           /\ \A g \in Handle : g # h => UsersOf(g)' = UsersOf(g)
<1>1. UsersOf(h)' = UsersOf(h) \ {r} /\ r \in UsersOf(h)
  BY HandleAssumption DEF UsersOf, Columns
<1>2. \A g \in Handle : g # h => UsersOf(g)' = UsersOf(g)
  BY HandleAssumption DEF UsersOf, Columns
<1>3. IsFiniteSet(UsersOf(h)) /\ Cardinality(UsersOf(h)) \in Nat \ {0}
  BY <1>1, UsersFinite
<1>4. Cardinality(UsersOf(h)') = Cardinality(UsersOf(h)) - 1
  BY <1>1, <1>3, FS_RemoveElement
<1>. QED
  BY <1>2, <1>3, <1>4

-----------------------------------------------------------------------------
(* The inductive step, one action at a time.                               *)

\* Nothing is open before the first request.
LEMMA HandleInit == Init => HandleInv
<1> SUFFICES ASSUME Init PROVE HandleInv
  OBVIOUS
<1> USE HandleAssumption DEF Init
<1>1. Columns
  BY DEF Columns, Waiting
<1>2. GateInv
  BY DEF GateInv
<1>3. \A h \in Handle : UsersOf(h) = {}
  BY DEF UsersOf
<1>4. UseInv
  BY <1>3, FS_EmptySet DEF UseInv
<1>5. FileInv
  BY DEF FileInv
<1>. QED
  BY <1>1, <1>2, <1>4, <1>5 DEF HandleInv

\* Steps of the world and the server.
LEMMA WorldStep ==
    ASSUME HandleInv,
           \/ \E b \in BOOLEAN : Replace(b)
           \/ Remove
           \/ \E file \in 1..MaxFiles : MoveBack(file)
           \/ \E r \in Request, k \in {"search", "status"} : Arrive(r, k)
           \/ BeginDrain
           \/ Stop
           \/ UNCHANGED vars
    PROVE  HandleInv'
<1> USE DEF HandleInv, fileVars, handleVars, openVars, requestVars, Fits
<1>1. ASSUME NEW b \in BOOLEAN, Replace(b)
      PROVE  HandleInv'
  <2>1. Columns'
    BY <1>1 DEF Replace, Columns
  <2>2. GateInv' /\ UseInv'
    BY <1>1 DEF Replace, GateInv, UseInv, UsersOf
  <2>3. FileInv'
    BY <1>1 DEF Replace, FileInv, Columns, UseInv
  <2>. QED
    BY <2>1, <2>2, <2>3
<1>2. CASE Remove
  BY <1>2 DEF Remove, Columns, GateInv, UseInv, FileInv, UsersOf
<1>3. ASSUME NEW r \in Request, NEW k \in {"search", "status"}, Arrive(r, k)
      PROVE  HandleInv'
  BY <1>3 DEF Arrive, Columns, GateInv, UseInv, FileInv, UsersOf, Waiting
<1>4. CASE BeginDrain
  BY <1>4 DEF BeginDrain, Columns, GateInv, UseInv, FileInv, UsersOf
<1>5. CASE Stop
  BY <1>5 DEF Stop, Columns, GateInv, UseInv, FileInv, UsersOf
<1>6. CASE UNCHANGED vars
  BY <1>6 DEF vars, Columns, GateInv, UseInv, FileInv, UsersOf
\* Every open handle is excused when an earlier file returns.
<1>7. ASSUME NEW file \in 1..MaxFiles, MoveBack(file)
      PROVE  HandleInv'
  <2>1. Columns' /\ GateInv' /\ UseInv'
    BY <1>7, HandleAssumption DEF MoveBack, Columns, GateInv, UseInv, UsersOf
  <2>2. FileInv'
    BY <1>7, HandleAssumption DEF MoveBack, FileInv, Columns, UseInv
  <2>. QED
    BY <2>1, <2>2
<1>. QED
  BY <1>1, <1>2, <1>3, <1>4, <1>5, <1>6, <1>7

\* Superseding the current handle leaves everything but its own fate alone.
LEMMA RetireStep ==
    ASSUME HandleInv, RetireCurrent, UNCHANGED <<using, refs>>
    PROVE  /\ current' = None
           /\ label' \in [Handle -> Nat] /\ misled' \in SUBSET live' 
           /\ live' \in SUBSET Handle /\ retired' \in SUBSET Handle
           /\ idle' \in [Handle -> SUBSET Nat]
           /\ live' \subseteq live
           /\ \A r \in Request : using[r] # None => using[r] \in live'
           /\ \A h \in live' : h \in retired' /\ UsersOf(h)' # {}
           /\ \A h \in live' : /\ idle'[h] = idle[h] /\ label'[h] = label[h]
                               /\ h \in misled' <=> h \in misled
<1> USE HandleAssumption DEF HandleInv
<1>0. \A h : UsersOf(h)' = UsersOf(h)
  BY DEF UsersOf
<1>1. CASE current = None
  BY <1>0, <1>1 DEF RetireCurrent, openVars, Columns, UseInv
<1>2. CASE current # None
  <2>1. current \in Handle
    BY <1>2 DEF Columns
  <2>2. refs[current] = 0 <=> UsersOf(current) = {}
    BY <2>1, UsersFinite DEF UseInv
  <2>3. CASE refs[current] = 0
    <3>1. \A r \in Request : using[r] # current
      BY <2>2, <2>3 DEF UsersOf
    <3>2. /\ current' = None
          /\ retired' = retired \ {current}
          /\ live' = live \ {current}
          /\ idle' = [idle EXCEPT ![current] = {}]
          /\ label' = [label EXCEPT ![current] = 0]
          /\ misled' = misled \ {current}
      BY <1>2, <2>3 DEF RetireCurrent, Retire, CloseDB
    <3>3. \A h \in live' : h \in retired /\ UsersOf(h) # {}
      BY <3>2 DEF UseInv
    <3>. QED
      BY <1>0, <2>1, <3>1, <3>2, <3>3 DEF Columns, UseInv
  <2>4. CASE refs[current] # 0
    BY <1>0, <1>2, <2>1, <2>2, <2>4 DEF RetireCurrent, Retire, Columns, UseInv
  <2>. QED
    BY <2>3, <2>4
<1>. QED
  BY <1>1, <1>2

\* Close retires the current handle, and with it the last route to open one.
LEMMA CloseStep ==
    ASSUME HandleInv, Close
    PROVE  HandleInv'
<1> USE HandleAssumption DEF HandleInv, fileVars, requestVars
<1>0. RetireCurrent /\ UNCHANGED <<using, refs>>
  BY DEF Close
<1>1. Columns'
  BY <1>0, RetireStep DEF Close, Columns
<1>2. GateInv'
  BY <1>0, RetireStep DEF Close, GateInv, Columns
<1>3. UseInv'
  BY <1>0, RetireStep DEF Close, UseInv, UsersOf
<1>4. FileInv'
  BY <1>0, RetireStep DEF Close, FileInv, Fits, UseInv
<1>. QED
  BY <1>1, <1>2, <1>3, <1>4

\* Where the file stays or is a new one, a connection that fitted still does.
LEMMA FitsStill ==
    ASSUME Columns, NEW h \in Handle, NEW f, Fits(h, f), label[h] <= minted,
           label'[h] = label[h], h \in misled' <=> h \in misled,
           disk' \in Nat, disk' = disk \/ disk' > minted
    PROVE  Fits(h, f)'
  BY DEF Fits, Columns

\* A connection reaches the file at the path, or creates it.
LEMMA ConnectStep ==
    ASSUME HandleInv, NEW file \in Nat, Connect(file)
    PROVE  /\ disk' \in Nat /\ minted' \in Nat /\ disk' <= minted'
           /\ built' = built
           /\ minted <= minted' /\ file = disk'
           /\ disk' = disk \/ disk' > minted
  BY HandleAssumption DEF Connect, HandleInv, Columns, FileInv, fileVars

\* What a step that neither takes nor gives up a handle may touch.
GateTouch(r) ==
    /\ UNCHANGED <<handleVars, using, server>>
    /\ disk' \in Nat /\ minted' \in Nat /\ disk' <= minted'
    /\ built' = built
    /\ minted <= minted'
    /\ disk' = disk \/ disk' > minted
    /\ pc[r] \notin {"ready", "busy"}
    /\ \E s \in {"stat", "pool", "idle"} : pc' = [pc EXCEPT ![r] = s]
    /\ pc'[r] = "pool" => pc[r] = "open"
    /\ gate' = IF pc'[r] = "stat" THEN r
               ELSE IF pc[r] \in {"stat", "open", "pool"} /\ pc'[r] = "idle" THEN None
               ELSE gate
    /\ pc'[r] = "stat" => gate = None
    /\ kind' \in [Request -> {"search", "status"}]
    /\ statted' \in [Request -> Nat]
    /\ \A q \in Request : statted'[q] <= minted'
    /\ asked' \in [Request -> Nat]
    /\ conn' = conn

\* Each of those steps is one.
LEMMA GateTouches ==
    ASSUME HandleInv, NEW r \in Request,
           EnterGate(r) \/ GiveUp(r) \/ Refuse(r) \/ OpenExisting(r) \/ OpenFails(r)
    PROVE  GateTouch(r)
<1> USE DEF GateTouch, HandleInv, Columns, FileInv, fileVars
<1>1. CASE EnterGate(r)
  BY <1>1 DEF EnterGate
<1>2. CASE GiveUp(r)
  BY <1>2 DEF GiveUp, Answer
<1>3. CASE Refuse(r)
  BY <1>3 DEF Refuse, Answer
<1>4. CASE OpenExisting(r)
  BY <1>4 DEF OpenExisting
<1>5. CASE OpenFails(r)
  <2>1. /\ disk' \in Nat /\ minted' \in Nat /\ disk' <= minted'
        /\ built' = built
        /\ minted <= minted'
        /\ disk' = disk \/ disk' > minted
    BY <1>5, ConnectStep, HandleAssumption DEF OpenFails
  <2>. QED
    BY <1>5, <2>1 DEF OpenFails, Answer
<1>. QED
  BY <1>1, <1>2, <1>3, <1>4, <1>5

\* The invariant does not depend on what they touch.
LEMMA GateStep ==
    ASSUME HandleInv, NEW r \in Request,
           EnterGate(r) \/ GiveUp(r) \/ Refuse(r) \/ OpenExisting(r) \/ OpenFails(r)
    PROVE  HandleInv'
<1> USE HandleAssumption DEF HandleInv, handleVars, openVars
<1>0. GateTouch(r)
  BY GateTouches
<1>1. Columns'
  <2>1. pc' \in [Request -> Waiting \cup {"idle"}]
    BY <1>0 DEF GateTouch, Columns, Waiting
  <2>. QED
    BY <1>0, <2>1 DEF GateTouch, Columns
<1>2. GateInv'
  BY <1>0 DEF GateTouch, Columns, GateInv
<1>3. UseInv'
  <2>1. \A h : UsersOf(h)' = UsersOf(h)
    BY <1>0 DEF GateTouch, UsersOf
  <2>. QED
    BY <1>0, <2>1 DEF GateTouch, Columns, UseInv
<1>4. FileInv'
  <2>1. ASSUME NEW h \in live, NEW f, Fits(h, f)
        PROVE  Fits(h, f)'
    <3>1. h \in Handle /\ label[h] <= minted
      BY DEF Columns, FileInv
    <3>. QED
      BY <1>0, <2>1, <3>1, FitsStill DEF GateTouch
  <2>2. \A h \in live' : label'[h] <= minted' /\ \A f \in idle'[h] : Fits(h, f)'
    BY <1>0, <2>1 DEF GateTouch, Columns, FileInv
  <2>3. ASSUME NEW q \in Request, pc'[q] = "busy"
        PROVE  Fits(using[q], conn[q])'
    <3>1. pc[q] = "busy" /\ using[q] \in live /\ using' = using /\ conn' = conn
      BY <1>0, <2>3 DEF GateTouch, Columns, UseInv
    <3>2. Fits(using[q], conn[q])
      BY <3>1 DEF FileInv
    <3>3. \A u \in live : \A f : Fits(u, f) => Fits(u, f)'
      BY <2>1
    <3>. QED
      BY <1>0, <3>1, <3>2, <3>3 DEF GateTouch, Fits
  <2>. QED
    BY <1>0, <2>2, <2>3 DEF GateTouch, FileInv
<1>. QED
  BY <1>1, <1>2, <1>3, <1>4

\* The file is gone or replaced: the current handle is superseded.
LEMMA StatStep ==
    ASSUME HandleInv, NEW r \in Request, StatMissing(r) \/ StatReplaced(r)
    PROVE  HandleInv'
<1> USE HandleAssumption DEF HandleInv
<1>0. RetireCurrent /\ UNCHANGED <<using, refs>>
  BY DEF StatMissing, StatReplaced
<1>1. /\ UNCHANGED <<fileVars, server>>
      /\ server # "closed"
      /\ pc[r] = "stat"
      /\ \E s \in {"open", "idle"} : pc' = [pc EXCEPT ![r] = s]
      /\ gate' = IF pc'[r] = "open" THEN gate ELSE None
      /\ kind' \in [Request -> {"search", "status"}]
      /\ statted' \in [Request -> Nat]
      /\ \A q \in Request : statted'[q] <= minted
      /\ asked' \in [Request -> Nat]
      /\ conn' = conn
  <2>1. CASE StatMissing(r)
    BY <2>1 DEF StatMissing, Answer, Columns, FileInv
  <2>2. CASE StatReplaced(r)
    BY <2>2 DEF StatReplaced, Columns, FileInv
  <2>. QED
    BY <2>1, <2>2
<1>2. Columns'
  <2>1. pc' \in [Request -> Waiting \cup {"idle"}] /\ gate' \in Request \cup {None}
    BY <1>1 DEF Columns, Waiting
  <2>. QED
    BY <1>0, <1>1, <2>1, RetireStep DEF Columns, fileVars
<1>3. GateInv'
  BY <1>0, <1>1, RetireStep DEF Columns, GateInv
<1>4. UseInv'
  <2>1. \A h : UsersOf(h)' = UsersOf(h)
    BY <1>0 DEF UsersOf
  <2>. QED
    BY <1>0, <1>1, <2>1, RetireStep DEF Columns, UseInv
<1>5. FileInv'
  BY <1>0, <1>1, RetireStep DEF Columns, FileInv, Fits, UseInv, fileVars
<1>. QED
  BY <1>2, <1>3, <1>4, <1>5

\* The current handle is taken by one more request.
LEMMA ShareStep ==
    ASSUME HandleInv, NEW r \in Request, ShareCurrent(r)
    PROVE  HandleInv'
<1> USE HandleAssumption DEF HandleInv
<1>0. PICK h \in Handle : /\ h = current /\ current' = current
                         /\ using[r] = None /\ using' = [using EXCEPT ![r] = h]
  BY DEF ShareCurrent, SameFile, Columns, UseInv
<1>1. Columns'
  BY <1>0 DEF ShareCurrent, Columns, Waiting, fileVars, openVars
<1>2. GateInv'
  BY DEF ShareCurrent, Columns, GateInv
<1>3. UseInv'
  <2>1. /\ Cardinality(UsersOf(h)') = Cardinality(UsersOf(h)) + 1
        /\ \A g \in Handle : g # h => UsersOf(g)' = UsersOf(g)
    BY <1>0, UsersJoin
  <2>2. \A g \in Handle : refs'[g] = Cardinality(UsersOf(g)')
    BY <1>0, <2>1 DEF ShareCurrent, Columns, UseInv, openVars
  <2>3. \A g \in live' : g # current' => g \in retired' /\ UsersOf(g)' # {}
    BY <1>0, <2>1 DEF ShareCurrent, Columns, UseInv, openVars
  <2>. QED
    BY <1>0, <2>2, <2>3 DEF ShareCurrent, SameFile, Columns, UseInv, openVars
<1>4. FileInv'
  BY <1>0 DEF ShareCurrent, Columns, FileInv, Fits, UseInv, fileVars, openVars
<1>. QED
  BY <1>1, <1>2, <1>3, <1>4

\* A fresh handle, labelled with the stat, filled from the path.
LEMMA OpenStep ==
    ASSUME HandleInv, NEW r \in Request, OpenPools(r)
    PROVE  HandleInv'
<1> USE HandleAssumption DEF HandleInv
<1>0. PICK h \in Handle : h = NewHandle /\ h \notin live /\ UsersOf(h) = {}
  <2>1. \E x \in Unused : TRUE
    BY DEF OpenPools
  <2>2. NewHandle \in Unused
    BY <2>1 DEF NewHandle
  <2>. QED
    BY <2>2 DEF Unused
<1>1. PICK file \in 1..MaxFiles : Connect(file) /\ idle' = [idle EXCEPT ![h] = {file}]
  BY <1>0 DEF OpenPools
<1>9. /\ current' = h
       /\ label' = [label EXCEPT ![h] = statted[r]]
       /\ live' = live \cup {h}
       /\ retired' = retired \ {h}
       /\ refs' = [refs EXCEPT ![h] = 1]
       /\ using' = [using EXCEPT ![r] = h]
  BY <1>0 DEF OpenPools
<1>2. /\ pc[r] = "pool" /\ pc' = [pc EXCEPT ![r] = "ready"]
      /\ gate' = None
      /\ statted' = [statted EXCEPT ![r] = 0]
      /\ UNCHANGED <<server, misled, kind, asked, conn>>
  BY DEF OpenPools
<1>3. current = None /\ using[r] = None /\ server # "closed"
  BY <1>2 DEF GateInv, UseInv
<1>4. /\ disk' \in Nat /\ minted' \in Nat /\ disk' <= minted'
      /\ built' = built
      /\ minted <= minted' /\ file = disk'
      /\ disk' = disk \/ disk' > minted
  BY <1>1, <1>9, ConnectStep
<1>5. Columns'
  BY <1>0, <1>1, <1>9, <1>2, <1>4 DEF Columns, Waiting
<1>6. GateInv'
  BY <1>0, <1>1, <1>9, <1>2, <1>3 DEF Columns, GateInv
<1>7. UseInv'
  <2>0. /\ Cardinality(UsersOf(h)') = Cardinality(UsersOf(h)) + 1
        /\ \A g \in Handle : g # h => UsersOf(g)' = UsersOf(g)
    BY <1>0, <1>9, <1>3, UsersJoin
  <2>1. \A g \in Handle : refs'[g] = Cardinality(UsersOf(g)')
    <3>1. Cardinality(UsersOf(h)) = 0
      BY <1>0, FS_EmptySet
    <3>. QED
      BY <1>0, <1>9, <2>0, <3>1 DEF Columns, UseInv
  <2>2. \A g \in live' : g # current' => g \in retired' /\ UsersOf(g)' # {}
    BY <1>0, <1>9, <1>3, <2>0 DEF Columns, UseInv
  <2>3. \A q \in Request : using'[q] # None <=> pc'[q] \in {"ready", "busy"}
    BY <1>0, <1>1, <1>9, <1>2 DEF Columns, UseInv
  <2>4. \A q \in Request : using'[q] # None => using'[q] \in live'
    BY <1>0, <1>1, <1>9 DEF Columns, UseInv
  <2>. QED
    BY <1>0, <1>1, <1>9, <2>1, <2>2, <2>3, <2>4 DEF UseInv
<1>8. FileInv'
  <2>1. \A q \in Request : statted'[q] <= minted'
    BY <1>2, <1>4 DEF Columns, FileInv
  <2>2. ASSUME NEW g \in live, NEW f, Fits(g, f)
        PROVE  Fits(g, f)'
    <3>1. g \in Handle /\ label[g] <= minted /\ label'[g] = label[g]
      BY <1>0, <1>9 DEF Columns, FileInv
    <3>. QED
      BY <1>2, <1>4, <2>2, <3>1, FitsStill
  <2>3. \A f \in idle'[h] : Fits(h, f)'
    BY <1>1, <1>4 DEF Fits, Columns
  <2>4. \A g \in live' : label'[g] <= minted' /\ \A f \in idle'[g] : Fits(g, f)'
    BY <1>0, <1>1, <1>9, <1>4, <2>2, <2>3 DEF Columns, FileInv
  <2>5. ASSUME NEW q \in Request, pc'[q] = "busy"
        PROVE  Fits(using[q], conn[q])'
    <3>1. /\ pc[q] = "busy" /\ conn' = conn
          /\ using'[q] = using[q] /\ using[q] \in live
      BY <1>9, <1>2, <2>5 DEF Columns, UseInv
    <3>2. Fits(using[q], conn[q])
      BY <3>1 DEF FileInv
    <3>3. \A u \in live : \A f : Fits(u, f) => Fits(u, f)'
      BY <2>2
    <3>. QED
      BY <3>1, <3>2, <3>3 DEF Fits
  <2>. QED
    BY <1>4, <2>1, <2>4, <2>5 DEF FileInv
<1>. QED
  BY <1>5, <1>6, <1>7, <1>8

\* A query takes the handle's idle connection or opens one at the path.
LEMMA BeginQueryStep ==
    ASSUME HandleInv, NEW r \in Request, BeginQuery(r)
    PROVE  HandleInv'
<1> USE HandleAssumption DEF HandleInv
<1>0. PICK h \in Handle : h = using[r] /\ h \in live
  BY DEF BeginQuery, Columns, UseInv
<1>1. PICK file \in 1..MaxFiles :
         /\ IF idle[h] = {} THEN Connect(file) ELSE file \in idle[h] /\ UNCHANGED fileVars
         /\ conn' = [conn EXCEPT ![r] = file]
  BY <1>0 DEF BeginQuery
<1>2. /\ pc[r] = "ready" /\ pc' = [pc EXCEPT ![r] = "busy"]
      /\ idle' = [idle EXCEPT ![h] = {}]
      /\ asked' = [asked EXCEPT ![r] = @ + 1]
      /\ UNCHANGED <<server, gate, current, label, live, retired, refs, misled, kind,
                     statted, using>>
  BY <1>0 DEF BeginQuery
<1>3. /\ disk' \in Nat /\ minted' \in Nat /\ disk' <= minted'
      /\ built' = built
      /\ minted <= minted'
      /\ disk' = disk \/ disk' > minted
      /\ file = disk' \/ Fits(h, file)
  <2>1. CASE idle[h] = {}
    BY <1>1, <2>1, ConnectStep
  <2>2. CASE idle[h] # {}
    <3>1. file \in idle[h] /\ UNCHANGED <<disk, minted, built>>
      BY <1>1, <2>2 DEF fileVars
    <3>2. Fits(h, file)
      BY <1>0, <3>1 DEF FileInv
    <3>. QED
      BY <3>1, <3>2 DEF Columns, FileInv
  <2>. QED
    BY <2>1, <2>2
<1>4. conn' \in [Request -> Nat] /\ asked' \in [Request -> Nat]
  BY <1>1, <1>2 DEF Columns
<1>5. Columns'
  BY <1>0, <1>2, <1>3, <1>4 DEF Columns, Waiting
<1>6. GateInv'
  BY <1>2 DEF Columns, GateInv
<1>7. UseInv'
  <2>1. \A g : UsersOf(g)' = UsersOf(g)
    BY <1>2 DEF UsersOf
  <2>. QED
    BY <1>2, <2>1 DEF Columns, UseInv
<1>8. FileInv'
  <2>1. \A q \in Request : statted'[q] <= minted'
    BY <1>2, <1>3 DEF Columns, FileInv
  <2>2. ASSUME NEW g \in live, NEW f, Fits(g, f)
        PROVE  Fits(g, f)'
    <3>1. g \in Handle /\ label[g] <= minted
      BY DEF Columns, FileInv
    <3>. QED
      BY <1>2, <1>3, <2>2, <3>1, FitsStill
  <2>3. \A g \in live' : label'[g] <= minted' /\ \A f \in idle'[g] : Fits(g, f)'
    BY <1>0, <1>2, <1>3, <2>2 DEF Columns, FileInv
  <2>4. Fits(h, file)'
    <3>1. CASE file = disk'
      BY <3>1 DEF Fits
    <3>2. CASE Fits(h, file)
      BY <1>0, <2>2, <3>2
    <3>. QED
      BY <1>3, <3>1, <3>2
  <2>5. ASSUME NEW q \in Request, pc'[q] = "busy"
        PROVE  Fits(using[q], conn[q])'
    <3>1. CASE q = r
      BY <1>0, <1>1, <1>2, <2>4, <3>1 DEF Columns, Fits
    <3>2. CASE q # r
      <4>1. pc[q] = "busy" /\ conn'[q] = conn[q] /\ using' = using /\ using[q] \in live
        BY <1>1, <1>2, <2>5, <3>2 DEF Columns, UseInv
      <4>2. Fits(using[q], conn[q])
        BY <4>1 DEF FileInv
      <4>3. \A u \in live : \A f : Fits(u, f) => Fits(u, f)'
        BY <2>2
      <4>. QED
        BY <4>1, <4>2, <4>3 DEF Fits
    <3>. QED
      BY <3>1, <3>2
  <2>. QED
    BY <1>3, <2>1, <2>3, <2>5 DEF FileInv
<1>. QED
  BY <1>5, <1>6, <1>7, <1>8

\* The connection a query used goes back to its handle, if anywhere.
LEMMA EndQueryStep ==
    ASSUME HandleInv, NEW r \in Request, EndQuery(r)
    PROVE  HandleInv'
<1> USE HandleAssumption DEF HandleInv
<1>0. PICK h \in Handle : h = using[r] /\ h \in live
  BY DEF EndQuery, Columns, UseInv
<1>1. PICK kept \in {idle[h], {conn[r]}, {}} :
         idle' = [idle EXCEPT ![h] = kept]
  BY <1>0 DEF EndQuery
<1>2. /\ pc[r] = "busy" /\ pc' = [pc EXCEPT ![r] = "ready"]
      /\ conn' = [conn EXCEPT ![r] = 0]
      /\ UNCHANGED <<fileVars, server, gate, current, label, live, retired, refs, misled,
                     kind, statted, using, asked>>
  BY DEF EndQuery
<1>3. Fits(h, conn[r]) /\ conn[r] \in Nat
  BY <1>0, <1>2 DEF Columns, FileInv
<1>4. kept \in SUBSET Nat /\ \A f \in kept : Fits(h, f)
  BY <1>0, <1>1, <1>2, <1>3 DEF Columns, FileInv
<1>5. Columns'
  BY <1>1, <1>2, <1>4 DEF Columns, Waiting, fileVars
<1>6. GateInv'
  BY <1>2 DEF Columns, GateInv
<1>7. UseInv'
  <2>1. \A g : UsersOf(g)' = UsersOf(g)
    BY <1>2 DEF UsersOf
  <2>. QED
    BY <1>2, <2>1 DEF Columns, UseInv
<1>8. FileInv'
  BY <1>0, <1>1, <1>2, <1>4 DEF Columns, FileInv, Fits, fileVars
<1>. QED
  BY <1>5, <1>6, <1>7, <1>8

\* The last user out closes a superseded handle.
LEMMA ReleaseStep ==
    ASSUME HandleInv, NEW r \in Request, Release(r)
    PROVE  HandleInv'
<1> USE HandleAssumption DEF HandleInv
<1>0. PICK h \in Handle : h = using[r] /\ h \in live
  BY DEF Release, Columns, UseInv
<1>1. /\ refs' = [refs EXCEPT ![h] = @ - 1]
      /\ IF h \in retired /\ refs[h] = 1
         THEN /\ live' = live \ {h} /\ idle' = [idle EXCEPT ![h] = {}]
              /\ label' = [label EXCEPT ![h] = 0]
              /\ retired' = retired \ {h} /\ misled' = misled \ {h}
         ELSE UNCHANGED <<live, idle, label, retired, misled>>
      /\ using' = [using EXCEPT ![r] = None]
  BY <1>0 DEF Release, LetGo, CloseDB, openVars
<1>2. /\ pc[r] = "ready" /\ pc' = [pc EXCEPT ![r] = "idle"]
      /\ statted' = [statted EXCEPT ![r] = 0]
      /\ asked' = [asked EXCEPT ![r] = 0] /\ conn' = conn
      /\ kind' = [kind EXCEPT ![r] = "status"]
      /\ UNCHANGED <<fileVars, server, gate, current>>
  BY DEF Release, Answer
<1>3. /\ Cardinality(UsersOf(h)') = refs[h] - 1
      /\ refs[h] > 0
      /\ \A g \in Handle : g # h => UsersOf(g)' = UsersOf(g)
  <2>1. /\ Cardinality(UsersOf(h)') = Cardinality(UsersOf(h)) - 1
        /\ Cardinality(UsersOf(h)) > 0
        /\ \A g \in Handle : g # h => UsersOf(g)' = UsersOf(g)
    BY <1>0, <1>1, UsersLeave
  <2>. QED
    BY <2>1 DEF UseInv
<1>4. UsersOf(h)' = {} <=> refs[h] = 1
  <2>1. UsersOf(h)' \in SUBSET Request
    BY DEF UsersOf
  <2>2. IsFiniteSet(UsersOf(h)')
    BY <2>1, FS_Subset
  <2>3. Cardinality(UsersOf(h)') = 0 <=> UsersOf(h)' = {}
    BY <2>2, FS_EmptySet
  <2>. QED
    BY <1>3, <2>3 DEF Columns
<1>5. Columns'
  <2>1. refs' \in [Handle -> Nat]
    BY <1>1, <1>3 DEF Columns
  <2>2. /\ live' \in SUBSET Handle /\ idle' \in [Handle -> SUBSET Nat]
        /\ label' \in [Handle -> Nat] /\ retired' \in SUBSET Handle
        /\ misled' \in SUBSET live'
    BY <1>1 DEF Columns
  <2>3. /\ using' \in [Request -> Handle \cup {None}]
        /\ pc' \in [Request -> Waiting \cup {"idle"}]
        /\ kind' \in [Request -> {"search", "status"}]
        /\ statted' \in [Request -> Nat]
        /\ asked' \in [Request -> Nat] /\ conn' \in [Request -> Nat]
    BY <1>1, <1>2 DEF Columns
  <2>. QED
    BY <1>2, <2>1, <2>2, <2>3 DEF Columns, fileVars
<1>6. GateInv'
  BY <1>2 DEF Columns, GateInv
<1>7. UseInv'
  <2>1. \A q \in Request : using'[q] # None <=> pc'[q] \in {"ready", "busy"}
    BY <1>1, <1>2 DEF Columns, UseInv
  <2>2. \A q \in Request : using'[q] # None => using'[q] \in live'
    <3> SUFFICES ASSUME NEW q \in Request, using'[q] # None
                 PROVE  using'[q] \in live'
      OBVIOUS
    <3>1. q # r /\ using'[q] = using[q] /\ using[q] \in live
      BY <1>1 DEF Columns, UseInv
    <3>2. using[q] = h => UsersOf(h)' # {}
      BY <3>1 DEF UsersOf
    <3>. QED
      BY <1>1, <1>4, <3>1, <3>2
  <2>3. \A g \in Handle : refs'[g] = Cardinality(UsersOf(g)')
    BY <1>1, <1>3 DEF Columns, UseInv
  <2>4. current' # None => current' \in live' /\ current' \notin retired'
    BY <1>1, <1>2 DEF UseInv
  <2>5. \A g \in live' : g # current' => g \in retired' /\ UsersOf(g)' # {}
    BY <1>0, <1>1, <1>2, <1>3, <1>4 DEF Columns, UseInv
  <2>. QED
    BY <2>1, <2>2, <2>3, <2>4, <2>5 DEF UseInv
<1>8. FileInv'
  <2>1. /\ disk' = disk /\ minted' = minted /\ conn' = conn
        /\ live' \subseteq live
        /\ \A g \in live' : /\ idle'[g] = idle[g] /\ label'[g] = label[g]
                            /\ g \in misled' <=> g \in misled
    BY <1>0, <1>1, <1>2 DEF Columns, fileVars
  <2>2. \A q \in Request : statted'[q] \in {0, statted[q]}
    BY <1>2 DEF Columns
  <2>3. \A q \in Request : pc'[q] = "busy" =>
           pc[q] = "busy" /\ using'[q] = using[q] /\ using'[q] \in live'
    BY <1>1, <1>2, <1>7 DEF Columns, UseInv
  <2>4. \A q \in Request : statted'[q] <= minted'
    <3>1. minted \in Nat /\ \A q \in Request : statted[q] <= minted
      BY DEF Columns, FileInv
    <3>. QED
      BY <2>1, <2>2, <3>1
  <2>5. \A g \in live' : label'[g] <= minted' /\ \A f \in idle'[g] : Fits(g, f)'
    BY <2>1 DEF FileInv, Fits
  <2>6. \A q \in Request : pc'[q] = "busy" => Fits(using[q], conn[q])'
    BY <2>1, <2>3 DEF FileInv, Fits
  <2>. QED
    BY <2>1, <2>4, <2>5, <2>6 DEF FileInv
<1>. QED
  BY <1>5, <1>6, <1>7, <1>8

\* Every step keeps the invariant.
LEMMA HandleStep == HandleInv /\ [Next]_vars => HandleInv'
  BY WorldStep, CloseStep, GateStep, StatStep, ShareStep, OpenStep, BeginQueryStep,
     EndQueryStep, ReleaseStep
  DEF Next, Handler

-----------------------------------------------------------------------------
\* However many requests, swaps, removals and shutdowns, forced or not: no
\* request works on a closed database.
THEOREM NeverUsedAfterClose == Spec => []NoUseAfterClose
<1>1. HandleInv => NoUseAfterClose
  BY DEF HandleInv, UseInv, NoUseAfterClose
<1>. QED
  BY <1>1, HandleInit, HandleStep, PTL DEF Spec

\* And no database stays open that nothing needs.
THEOREM NeverLeaked == Spec => []NoLeak
<1>1. HandleInv => NoLeak
  BY DEF HandleInv, UseInv, GateInv, NoLeak
<1>. QED
  BY <1>1, HandleInit, HandleStep, PTL DEF Spec

\* A request that comes out of acquire reaches the file at the path: a handle
\* whose label still matches has no connection to any other, even if the file
\* was replaced between the stat and the open that made it.  Only a handle that
\* was open when an earlier file came back is excused.
THEOREM NeverAGhost == Spec => NoGhost
<1> DEFINE Real == \A r \in Request :
                      pc[r] = "stat" /\ using'[r] # None /\ using'[r] \notin misled
                         => idle'[using'[r]] \subseteq {disk}
<1>1. HandleInv /\ [Next]_vars => [Real]_vars
  <2> SUFFICES ASSUME HandleInv, Next, NEW r \in Request, pc[r] = "stat",
                      using'[r] # None, using'[r] \notin misled
               PROVE  idle'[using'[r]] \subseteq {disk}
    OBVIOUS
  <2> USE HandleAssumption DEF HandleInv
  <2>1. using[r] = None
    BY DEF UseInv
  <2>2. ShareCurrent(r)
    <3>1. using'[r] # using[r]
      BY <2>1
    <3>2. PICK q \in Request : Handler(q)
      BY <3>1 DEF Next, Replace, Remove, MoveBack, Arrive, BeginDrain, Stop, Close, requestVars
    <3>3. ShareCurrent(q) \/ OpenPools(q) \/ Release(q)
      BY <3>1, <3>2
      DEF Handler, EnterGate, GiveUp, Refuse, StatMissing, StatReplaced, OpenExisting,
          OpenFails, BeginQuery, EndQuery
    <3>4. q = r
      BY <3>1, <3>3 DEF ShareCurrent, OpenPools, Release, Columns
    <3>. QED
      BY <3>3, <3>4 DEF OpenPools, Release
  <2>3. using'[r] = current /\ idle' = idle /\ current \in live
    BY <2>2 DEF ShareCurrent, SameFile, Columns, UseInv, openVars
  <2>4. label[current] = disk /\ disk # 0
    BY <2>2 DEF ShareCurrent, SameFile
  <2>5. \A f \in idle[current] : f = disk
    BY <2>3, <2>4 DEF FileInv, Fits
  <2>. QED
    BY <2>3, <2>5
<1>. QED
  BY <1>1, HandleInit, HandleStep, PTL DEF Spec, NoGhost

\* Only an admitted search adds to those in flight.
LEMMA InFlightStep ==
    ASSUME HandleInv, Cardinality(InFlight) <= MaxInFlight, [Next]_vars
    PROVE  Cardinality(InFlight') <= MaxInFlight
<1> USE HandleAssumption DEF HandleInv
<1>0. IsFiniteSet(InFlight) /\ Cardinality(InFlight) \in Nat
  <2>1. InFlight \in SUBSET Request
    BY DEF InFlight
  <2>. QED
    BY <2>1, FS_Subset, FS_CardinalityType
<1>1. ASSUME NEW r \in Request, NEW k \in {"search", "status"}, Arrive(r, k)
      PROVE  Cardinality(InFlight') <= MaxInFlight
  <2>1. CASE k = "search"
    <3>1. InFlight' = InFlight \cup {r} /\ r \notin InFlight
      BY <1>1, <2>1 DEF Arrive, InFlight, Columns
    <3>2. Cardinality(InFlight) < MaxInFlight
      BY <1>1, <2>1 DEF Arrive, Admits
    <3>3. Cardinality(InFlight') = Cardinality(InFlight) + 1
      BY <1>0, <3>1, FS_AddElement
    <3>. QED
      BY <1>0, <3>2, <3>3
  <2>2. CASE k # "search"
    <3>1. InFlight' = InFlight
      BY <1>1, <2>2 DEF Arrive, InFlight, Columns
    <3>. QED
      BY <3>1
  <2>. QED
    BY <2>1, <2>2
<1>2. ASSUME InFlight' \subseteq InFlight
      PROVE  Cardinality(InFlight') <= MaxInFlight
  <2>1. Cardinality(InFlight') <= Cardinality(InFlight) /\ IsFiniteSet(InFlight')
    BY <1>0, <1>2, FS_Subset
  <2>2. Cardinality(InFlight') \in Nat
    BY <2>1, FS_CardinalityType
  <2>. QED
    BY <1>0, <2>1, <2>2
<1>3. ASSUME NEW r \in Request, Handler(r)
      PROVE  InFlight' \subseteq InFlight
  <2>1. pc[r] # "idle"
    BY <1>3
    DEF Handler, EnterGate, GiveUp, Refuse, StatMissing, ShareCurrent, StatReplaced,
        OpenExisting, OpenPools, OpenFails, BeginQuery, EndQuery, Release
  <2>2. \E s : pc' = [pc EXCEPT ![r] = s]
    BY <1>3
    DEF Handler, EnterGate, GiveUp, Refuse, StatMissing, ShareCurrent, StatReplaced,
        OpenExisting, OpenPools, OpenFails, BeginQuery, EndQuery, Release, Answer
  <2>3. \E s \in {"status"} : kind' = kind \/ kind' = [kind EXCEPT ![r] = s]
    BY <1>3
    DEF Handler, EnterGate, GiveUp, Refuse, StatMissing, ShareCurrent, StatReplaced,
        OpenExisting, OpenPools, OpenFails, BeginQuery, EndQuery, Release, Answer
  <2>. QED
    BY <2>1, <2>2, <2>3 DEF InFlight, Columns
<1>4. CASE \/ \E b \in BOOLEAN : Replace(b)
           \/ \E file \in 1..MaxFiles : MoveBack(file)
           \/ Remove \/ BeginDrain \/ Stop \/ Close \/ UNCHANGED vars
  <2>1. UNCHANGED <<pc, kind>>
    BY <1>4 DEF Replace, Remove, MoveBack, BeginDrain, Stop, Close, vars, requestVars
  <2>2. InFlight' = InFlight
    BY <2>1 DEF InFlight
  <2>. QED
    BY <2>2
<1>. QED
  BY <1>1, <1>2, <1>3, <1>4 DEF Next

\* Types, and never more searches at once than the server has slots for.
THEOREM SearchesAreBounded == Spec => []HandleTypeOK
<1> DEFINE Bounded == Cardinality(InFlight) <= MaxInFlight
<1>1. Init => Bounded
  <2> SUFFICES ASSUME Init PROVE Bounded
    OBVIOUS
  <2>1. InFlight = {}
    BY DEF Init, InFlight
  <2>2. Cardinality(InFlight) = 0
    BY <2>1, FS_EmptySet
  <2>. QED
    BY <2>2, HandleAssumption
<1>2. HandleInv /\ Bounded /\ [Next]_vars => Bounded'
  BY InFlightStep
<1>3. HandleInv /\ Bounded => HandleTypeOK
  BY DEF HandleInv, Columns, HandleTypeOK
<1>. QED
  BY <1>1, <1>2, <1>3, HandleInit, HandleStep, PTL DEF Spec
=============================================================================
