---------------------------- MODULE IndexHandle ----------------------------
(***************************************************************************)
(* How requests share one open index while its file is removed, replaced   *)
(* and finally closed: the reference-counted handle (internal/daemon), the *)
(* server that admits and drains requests (internal/server) and the        *)
(* connection pool behind a handle (internal/adapters/sqlite, db.go).      *)
(*                                                                         *)
(* A file is the number it was created with: on APFS an inode number is    *)
(* not used twice, but an earlier file can be renamed back to the path.    *)
(* Every connection is opened by path, so it reaches the file that is      *)
(* there at that moment and creates one if there is none.                  *)
(* The gate is held from stat to the open handle; the two stats and the    *)
(* open are steps of their own.  A request reads at most twice, with a     *)
(* network call in between: spec and neighbours, or counts and spec.       *)
(***************************************************************************)
EXTENDS Naturals, FiniteSets

CONSTANTS
    Request,      \* handler goroutines
    Handle,       \* handle objects; one is used again once nothing names it
    None,
    MaxInFlight,  \* defaultMaxInFlight: searches admitted at once
    MaxFiles      \* bound: files ever created at the path

ASSUME HandleAssumption ==
    /\ IsFiniteSet(Request)
    /\ None \notin Handle /\ None \notin Request
    /\ MaxInFlight \in Nat \ {0} /\ MaxFiles \in Nat

VARIABLES
    disk,     \* the file at dbPath, 0 for none
    minted,   \* files created so far
    built,    \* files with a schema this build reads
    server,   \* serving, draining, stopped (Serve returned), closed
    gate,     \* who holds the gate
    current,  \* the handle acquire hands out
    label,    \* handle.file: the file acquire statted
    live,     \* handles whose database is open
    retired,  \* handles superseded and not yet closed
    refs,     \* handle.refs
    idle,     \* the file of a handle's idle connection, if it has one
    misled,   \* open handles that saw a file return (history, read by no step)
    pc,       \* where each request is
    kind,     \* search or status
    statted,  \* the file a request's stat saw
    using,    \* the handle it holds
    asked,    \* the queries it has begun
    conn      \* the file its query is reading, 0 between queries

fileVars    == <<disk, minted, built>>
openVars    == <<live, idle, label, retired, misled>>
handleVars  == <<current, refs, openVars>>
requestVars == <<pc, kind, statted, using, asked, conn>>
vars        == <<fileVars, server, gate, handleVars, requestVars>>

Waiting    == {"gate", "stat", "open", "pool", "ready", "busy"}
InFlight   == {r \in Request : pc[r] # "idle" /\ kind[r] = "search"}
UsersOf(h) == {r \in Request : using[r] = h}
Unused     == {h \in Handle : h \notin live /\ UsersOf(h) = {}}
NewHandle  == CHOOSE h \in Unused : TRUE

HandleTypeOK ==
    /\ disk \in Nat /\ minted \in Nat /\ built \in SUBSET Nat
    /\ server \in {"serving", "draining", "stopped", "closed"}
    /\ gate \in Request \cup {None}
    /\ current \in Handle \cup {None}
    /\ label \in [Handle -> Nat]
    /\ live \in SUBSET Handle /\ retired \in SUBSET Handle
    /\ refs \in [Handle -> Nat]
    /\ idle \in [Handle -> SUBSET Nat]
    /\ misled \in SUBSET live
    /\ pc \in [Request -> Waiting \cup {"idle"}]
    /\ kind \in [Request -> {"search", "status"}]
    /\ statted \in [Request -> Nat]
    /\ using \in [Request -> Handle \cup {None}]
    /\ asked \in [Request -> Nat] /\ conn \in [Request -> Nat]
    /\ Cardinality(InFlight) <= MaxInFlight

Init ==
    /\ disk = 0 /\ minted = 0 /\ built = {}
    /\ server = "serving"
    /\ gate = None
    /\ current = None
    /\ label = [h \in Handle |-> 0]
    /\ live = {} /\ retired = {}
    /\ refs = [h \in Handle |-> 0]
    /\ idle = [h \in Handle |-> {}]
    /\ misled = {}
    /\ pc = [r \in Request |-> "idle"]
    /\ kind = [r \in Request |-> "status"]
    /\ statted = [r \in Request |-> 0]
    /\ using = [r \in Request |-> None]
    /\ asked = [r \in Request |-> 0]
    /\ conn = [r \in Request |-> 0]

-----------------------------------------------------------------------------
(* The file at the path.                                                   *)

\* The indexer creates it, or someone drops one in its place.
Replace(isBuilt) ==
    /\ minted < MaxFiles
    /\ minted' = minted + 1
    /\ disk' = minted + 1
    /\ built' = IF isBuilt THEN built \cup {minted + 1} ELSE built
    /\ UNCHANGED <<server, gate, handleVars, requestVars>>

Remove ==
    /\ disk # 0
    /\ disk' = 0
    /\ UNCHANGED <<minted, built, server, gate, handleVars, requestVars>>

\* An earlier file is renamed back: a backup put away and restored.
MoveBack(file) ==
    /\ file \in 1..minted
    /\ file # disk
    /\ disk' = file
    /\ misled' = live
    /\ UNCHANGED <<minted, built, server, gate, current, label, live, retired, refs,
                   idle, requestVars>>

\* Opening a connection: what is at the path, or an empty database there.
Connect(file) ==
    \/ disk # 0 /\ file = disk /\ UNCHANGED fileVars
    \/ /\ disk = 0 /\ minted < MaxFiles
       /\ file = minted + 1
       /\ minted' = file /\ disk' = file
       /\ UNCHANGED built

-----------------------------------------------------------------------------
(* The reference count.                                                    *)

\* The database and its connections are closed; nothing looks at the handle
\* again.
CloseDB(h) ==
    /\ live' = live \ {h}
    /\ idle' = [idle EXCEPT ![h] = {}]
    /\ label' = [label EXCEPT ![h] = 0]
    /\ retired' = retired \ {h}
    /\ misled' = misled \ {h}

\* A swap that closes what it swaps out.
RetireNow(h) == CloseDB(h)

\* retire: closed here, or by the last request out.
Retire(h) ==
    \/ refs[h] = 0 /\ CloseDB(h)
    \/ /\ refs[h] # 0
       /\ retired' = retired \cup {h}
       /\ UNCHANGED <<live, idle, label, misled>>

RetireCurrent ==
    /\ IF current = None THEN UNCHANGED openVars ELSE Retire(current)
    /\ current' = None

\* The count alone.
LetGoOnly(h) ==
    /\ refs' = [refs EXCEPT ![h] = @ - 1]
    /\ UNCHANGED openVars

\* release, closeIfDone included.
LetGo(h) ==
    /\ refs' = [refs EXCEPT ![h] = @ - 1]
    /\ IF h \in retired /\ refs[h] = 1 THEN CloseDB(h) ELSE UNCHANGED openVars

-----------------------------------------------------------------------------
(* The server.                                                             *)

\* One search too many.
AdmitsOneMore(k) == k = "search" => Cardinality(InFlight) <= MaxInFlight

\* Searches take a slot or are told the daemon is busy; status never waits.
Admits(k) == k = "search" => Cardinality(InFlight) < MaxInFlight

Arrive(r, k) ==
    /\ server = "serving"
    /\ pc[r] = "idle"
    /\ Admits(k)
    /\ pc' = [pc EXCEPT ![r] = "gate"]
    /\ kind' = [kind EXCEPT ![r] = k]
    /\ UNCHANGED <<fileVars, server, gate, handleVars, statted, using, asked, conn>>

BeginDrain ==
    /\ server = "serving"
    /\ server' = "draining"
    /\ UNCHANGED <<fileVars, gate, handleVars, requestVars>>

\* Shutdown returns once every handler has, or Close cuts the rest off and
\* leaves them running on a cancelled context.
Stop ==
    /\ server = "draining"
    /\ server' = "stopped"
    /\ UNCHANGED <<fileVars, gate, handleVars, requestVars>>

\* Daemon.Close, once Serve has returned: it waits for the gate without a
\* deadline.
Close ==
    /\ server = "stopped"
    /\ gate = None
    /\ server' = "closed"
    /\ RetireCurrent
    /\ UNCHANGED <<fileVars, gate, refs, requestVars>>

-----------------------------------------------------------------------------
(* acquire.                                                                *)

\* The request is answered, with whatever it has.
Answer(r) ==
    /\ pc' = [pc EXCEPT ![r] = "idle"]
    /\ statted' = [statted EXCEPT ![r] = 0]
    /\ asked' = [asked EXCEPT ![r] = 0]
    /\ UNCHANGED conn
    /\ kind' = [kind EXCEPT ![r] = "status"]

EnterGate(r) ==
    /\ pc[r] = "gate"
    /\ gate = None
    /\ gate' = r
    /\ pc' = [pc EXCEPT ![r] = "stat"]
    /\ UNCHANGED <<fileVars, server, handleVars, kind, statted, using, asked, conn>>

\* The deadline passes, or the drain was forced.
GiveUp(r) ==
    /\ pc[r] = "gate"
    /\ Answer(r)
    /\ UNCHANGED <<fileVars, server, gate, handleVars, using>>

\* Shutting down, or a stat that fails for another reason than absence.
Refuse(r) ==
    /\ pc[r] = "stat"
    /\ gate' = None
    /\ Answer(r)
    /\ UNCHANGED <<fileVars, server, handleVars, using>>

\* An early return that forgets the gate.
StatMissingKeepsGate(r) ==
    /\ pc[r] = "stat"
    /\ server # "closed"
    /\ disk = 0
    /\ RetireCurrent
    /\ Answer(r)
    /\ UNCHANGED <<fileVars, server, gate, refs, using>>

\* No file: the handle, if any, points at a ghost.
StatMissing(r) ==
    /\ pc[r] = "stat"
    /\ server # "closed"
    /\ disk = 0
    /\ RetireCurrent
    /\ gate' = None
    /\ Answer(r)
    /\ UNCHANGED <<fileVars, server, refs, using>>

\* A cached handle is as good as any.
AnyFile == current # None

\* os.SameFile against the file the handle was opened for.
SameFile == current # None /\ label[current] = disk

ShareCurrent(r) ==
    /\ pc[r] = "stat"
    /\ server # "closed"
    /\ disk # 0
    /\ SameFile
    /\ refs' = [refs EXCEPT ![current] = @ + 1]
    /\ using' = [using EXCEPT ![r] = current]
    /\ pc' = [pc EXCEPT ![r] = "ready"]
    /\ gate' = None
    /\ UNCHANGED <<fileVars, server, current, openVars, kind, statted, asked, conn>>

\* Replaced on disk, or nothing open yet.
StatReplaced(r) ==
    /\ pc[r] = "stat"
    /\ server # "closed"
    /\ disk # 0
    /\ ~SameFile
    /\ RetireCurrent
    /\ statted' = [statted EXCEPT ![r] = disk]
    /\ pc' = [pc EXCEPT ![r] = "open"]
    /\ UNCHANGED <<fileVars, server, gate, refs, kind, using, asked, conn>>

\* OpenExisting's own stat.
OpenExisting(r) ==
    /\ pc[r] = "open"
    /\ disk # 0
    /\ pc' = [pc EXCEPT ![r] = "pool"]
    /\ UNCHANGED <<fileVars, server, gate, handleVars, kind, statted, using, asked, conn>>

\* openPools and checkSchema: the handle is labelled with the first stat.
OpenPools(r) ==
    /\ pc[r] = "pool"
    /\ Unused # {}
    /\ \E file \in 1..MaxFiles :
         /\ Connect(file)
         /\ file \in built
         /\ idle' = [idle EXCEPT ![NewHandle] = {file}]
    /\ current' = NewHandle
    /\ label' = [label EXCEPT ![NewHandle] = statted[r]]
    /\ live' = live \cup {NewHandle}
    /\ retired' = retired \ {NewHandle}
    /\ refs' = [refs EXCEPT ![NewHandle] = 1]
    /\ using' = [using EXCEPT ![r] = NewHandle]
    /\ pc' = [pc EXCEPT ![r] = "ready"]
    /\ gate' = None
    /\ statted' = [statted EXCEPT ![r] = 0]
    /\ UNCHANGED <<server, misled, kind, asked, conn>>

\* The file is gone, or it is not an index this build reads: never cached.
OpenFails(r) ==
    /\ \/ pc[r] \in {"open", "pool"} /\ UNCHANGED fileVars
       \/ pc[r] = "pool" /\ \E file \in 1..MaxFiles : Connect(file)
    /\ gate' = None
    /\ Answer(r)
    /\ UNCHANGED <<server, handleVars, using>>

-----------------------------------------------------------------------------
(* A request at work.                                                      *)

\* database/sql takes the idle connection, or opens one.
BeginQuery(r) ==
    /\ pc[r] = "ready"
    /\ asked[r] < 2
    /\ \E file \in 1..MaxFiles :
         /\ IF idle[using[r]] = {} THEN Connect(file)
            ELSE file \in idle[using[r]] /\ UNCHANGED fileVars
         /\ conn' = [conn EXCEPT ![r] = file]
    /\ asked' = [asked EXCEPT ![r] = @ + 1]
    /\ idle' = [idle EXCEPT ![using[r]] = {}]
    /\ pc' = [pc EXCEPT ![r] = "busy"]
    /\ UNCHANGED <<server, gate, current, label, live, retired, refs, misled, kind,
                   statted, using>>

\* The connection goes back to the pool, which keeps one (SetMaxIdleConns);
\* that one may expire or be broken.
EndQuery(r) ==
    /\ pc[r] = "busy"
    /\ \E kept \in {idle[using[r]], {conn[r]}, {}} :
         idle' = [idle EXCEPT ![using[r]] = kept]
    /\ conn' = [conn EXCEPT ![r] = 0]
    /\ pc' = [pc EXCEPT ![r] = "ready"]
    /\ UNCHANGED <<fileVars, server, gate, current, label, live, retired, refs, misled,
                   kind, statted, using, asked>>

\* The deferred release: after both reads, or an error before.
Release(r) ==
    /\ pc[r] = "ready"
    /\ LetGo(using[r])
    /\ using' = [using EXCEPT ![r] = None]
    /\ Answer(r)
    /\ UNCHANGED <<fileVars, server, gate, current>>

-----------------------------------------------------------------------------
Handler(r) ==
    \/ EnterGate(r)
    \/ GiveUp(r)
    \/ Refuse(r)
    \/ StatMissing(r)
    \/ ShareCurrent(r)
    \/ StatReplaced(r)
    \/ OpenExisting(r)
    \/ OpenPools(r)
    \/ OpenFails(r)
    \/ BeginQuery(r)
    \/ EndQuery(r)
    \/ Release(r)

Next ==
    \/ \E b \in BOOLEAN : Replace(b)
    \/ Remove
    \/ \E file \in 1..MaxFiles : MoveBack(file)
    \/ \E r \in Request, k \in {"search", "status"} : Arrive(r, k)
    \/ \E r \in Request : Handler(r)
    \/ BeginDrain
    \/ Stop
    \/ Close

Spec == Init /\ [][Next]_vars

\* Goroutines run and drains are bounded (drainTimeout).
Fairness ==
    /\ \A r \in Request : WF_vars(Handler(r))
    /\ WF_vars(Stop)
    /\ WF_vars(Close)

FairSpec == Spec /\ Fairness
-----------------------------------------------------------------------------
(* What the handle promises.                                               *)

\* No request ever works on a database that was closed under it, whatever
\* swaps, removals and shutdowns happen meanwhile ("a swap must never pull the
\* file out from under a query that is already running", retire).
NoUseAfterClose ==
    \A r \in Request : using[r] # None => using[r] \in live

\* A database stays open only as the current one or for the requests that
\* hold it, and after Close only for those (release closes behind the last).
NoLeak ==
    /\ \A h \in live : h = current \/ UsersOf(h) # {}
    /\ server = "closed" => current = None

\* A cached handle is handed out only while its pool reaches the file that is
\* at the path, even if the file was replaced between the stat that labelled
\* the handle and the open (acquire: "a cached handle would go on serving an
\* unlinked file with no error to give it away").  The one exception is a
\* handle in whose lifetime an earlier file was renamed back to the path: the
\* label, which is all os.SameFile compares, then fits again while the pool's
\* connection may have been opened in between.
NoGhost ==
    [][\A r \in Request :
          pc[r] = "stat" /\ using'[r] # None /\ using'[r] \notin misled
             => idle'[using'[r]] \subseteq {disk}]_vars

\* A drain ends with the index closed: no early return keeps the gate.
ShutdownEnds == server = "draining" ~> server = "closed"
=============================================================================
