----------------------------- MODULE Lifecycle -----------------------------
(***************************************************************************)
(* Daemons that start, stop and die around one lock file, one socket path  *)
(* and one database: socket.Listen and Listener.Close (internal/socket),   *)
(* runServe (cmd/bsearch) and Server.Serve (internal/server).              *)
(*                                                                         *)
(* flock is the kernel's: exclusive, and gone with the process.  A socket  *)
(* node outlives the process that bound it.  Losing the race for the lock  *)
(* changes nothing and is no action.  Requests are module IndexHandle's,   *)
(* indexing is module Indexer's.                                           *)
(***************************************************************************)
EXTENDS Naturals, FiniteSets

CONSTANTS
    Daemon,    \* processes: launchd's, and whoever runs bsearch serve
    None,
    Stale,     \* a socket node nobody listens on
    MaxStops,  \* bound: signals
    MaxFaults  \* bound: kills and failed starts

ASSUME LifecycleAssumption ==
    /\ None \notin Daemon /\ Stale \notin Daemon /\ None # Stale
    /\ MaxStops \in Nat /\ MaxFaults \in Nat

VARIABLES
    lock,       \* who holds the flock
    node,       \* the socket node at the path: who bound it
    listening,  \* daemons with an accepting socket
    writer,     \* daemons with the database open for writing
    indexing,   \* daemons whose scheduler goroutine runs
    pc,         \* where each daemon's main goroutine is
    stops, faults

vars == <<lock, node, listening, writer, indexing, pc, stops, faults>>

Stages == {"off", "locked", "cleared", "bound", "opened", "serving", "closing",
           "unlinked", "deaf", "draining", "stopping", "stopped", "closed"}

Init ==
    /\ lock = None
    /\ node \in {None, Stale}
    /\ listening = {} /\ writer = {} /\ indexing = {}
    /\ pc = [d \in Daemon |-> "off"]
    /\ stops = 0 /\ faults = 0

Go(d, stage) == pc' = [pc EXCEPT ![d] = stage]

-----------------------------------------------------------------------------
(* Starting.                                                               *)

\* acquireLock.
TakeLock(d) ==
    /\ pc[d] = "off"
    /\ lock = None
    /\ lock' = d
    /\ Go(d, "locked")
    /\ UNCHANGED <<node, listening, writer, indexing, stops, faults>>

\* A start that trusts bind to report a node in its way.
ClearNothing(d) ==
    /\ pc[d] = "locked"
    /\ Go(d, "cleared")
    /\ UNCHANGED <<lock, node, listening, writer, indexing, stops, faults>>

\* clearStaleSocket: whatever socket is there.
ClearStaleSocket(d) ==
    /\ pc[d] = "locked"
    /\ node' = None
    /\ Go(d, "cleared")
    /\ UNCHANGED <<lock, listening, writer, indexing, stops, faults>>

Bind(d) ==
    /\ pc[d] = "cleared"
    /\ node = None
    /\ node' = d
    /\ listening' = listening \cup {d}
    /\ Go(d, "bound")
    /\ UNCHANGED <<lock, writer, indexing, stops, faults>>

\* An error return that forgets the lock.
StartFailsLocked(d) ==
    /\ \/ pc[d] \in {"locked", "bound"} /\ faults < MaxFaults /\ faults' = faults + 1
       \/ pc[d] = "cleared" /\ node # None /\ UNCHANGED faults
    /\ node' = IF pc[d] = "bound" THEN None ELSE node
    /\ listening' = listening \ {d}
    /\ Go(d, "off")
    /\ UNCHANGED <<lock, writer, indexing, stops>>

\* Listen's error returns: a node that is no socket, a taken address, a chmod
\* that fails.  The lock goes with them.
StartFails(d) ==
    /\ \/ pc[d] \in {"locked", "bound"} /\ faults < MaxFaults /\ faults' = faults + 1
       \/ pc[d] = "cleared" /\ node # None /\ UNCHANGED faults
    /\ node' = IF pc[d] = "bound" THEN None ELSE node
    /\ listening' = listening \ {d}
    /\ lock' = None
    /\ Go(d, "off")
    /\ UNCHANGED <<writer, indexing, stops>>

\* newScheduler opens and migrates the database, or the daemon serves without
\* indexing.
OpenWriter(d) ==
    /\ pc[d] = "bound"
    /\ writer' \in {writer, writer \cup {d}}
    /\ Go(d, "opened")
    /\ UNCHANGED <<lock, node, listening, indexing, stops, faults>>

\* sched.Run in its goroutine, and Serve.
Serve(d) ==
    /\ pc[d] = "opened"
    /\ indexing' = IF d \in writer THEN indexing \cup {d} ELSE indexing
    /\ Go(d, "serving")
    /\ UNCHANGED <<lock, node, listening, writer, stops, faults>>

-----------------------------------------------------------------------------
(* Stopping.  Shutdown closes the listener before it waits for handlers.   *)

\* SIGTERM, or an accept loop that gives up.
Signal(d) ==
    /\ pc[d] = "serving"
    /\ stops < MaxStops
    /\ stops' = stops + 1
    /\ Go(d, "closing")
    /\ UNCHANGED <<lock, node, listening, writer, indexing, faults>>

\* The lock given up first.
UnlinkReleasing(d) ==
    /\ pc[d] = "closing"
    /\ node' = None
    /\ lock' = None
    /\ Go(d, "unlinked")
    /\ UNCHANGED <<listening, writer, indexing, stops, faults>>

\* Listener.Close: UnixListener unlinks the path ...
Unlink(d) ==
    /\ pc[d] = "closing"
    /\ node' = None
    /\ Go(d, "unlinked")
    /\ UNCHANGED <<lock, listening, writer, indexing, stops, faults>>

\* ... closes the socket ...
CloseSocket(d) ==
    /\ pc[d] = "unlinked"
    /\ listening' = listening \ {d}
    /\ Go(d, "deaf")
    /\ UNCHANGED <<lock, node, writer, indexing, stops, faults>>

\* ... and gives up the lock.
ReleaseLock(d) ==
    /\ pc[d] = "deaf"
    /\ lock' = IF lock = d THEN None ELSE lock
    /\ Go(d, "draining")
    /\ UNCHANGED <<node, listening, writer, indexing, stops, faults>>

\* The handlers are done, or cut off: stopIndexing.
Drained(d) ==
    /\ pc[d] = "draining"
    /\ Go(d, "stopping")
    /\ UNCHANGED <<lock, node, listening, writer, indexing, stops, faults>>

\* Serve's caller does not wait for the scheduler.
IndexingUnwaited(d) ==
    /\ pc[d] = "stopping"
    /\ Go(d, "stopped")
    /\ UNCHANGED <<lock, node, listening, writer, indexing, stops, faults>>

\* wg.Wait: the drain in progress, and the flush.
IndexingStops(d) ==
    /\ pc[d] = "stopping"
    /\ indexing' = indexing \ {d}
    /\ Go(d, "stopped")
    /\ UNCHANGED <<lock, node, listening, writer, stops, faults>>

CloseIndexer(d) ==
    /\ pc[d] = "stopped"
    /\ writer' = writer \ {d}
    /\ Go(d, "closed")
    /\ UNCHANGED <<lock, node, listening, indexing, stops, faults>>

\* A second Close that unlinks by hand.
ExitUnlinking(d) ==
    /\ pc[d] = "closed"
    /\ node' = None
    /\ Go(d, "off")
    /\ UNCHANGED <<lock, listening, writer, indexing, stops, faults>>

\* The deferred ln.Close has nothing left to do (closeOnce); main returns.
Exit(d) ==
    /\ pc[d] = "closed"
    /\ Go(d, "off")
    /\ UNCHANGED <<lock, node, listening, writer, indexing, stops, faults>>

\* The kernel takes back everything but the node.
Kill(d) ==
    /\ pc[d] # "off"
    /\ faults < MaxFaults
    /\ faults' = faults + 1
    /\ lock' = IF lock = d THEN None ELSE lock
    /\ node' = IF node = d THEN Stale ELSE node
    /\ listening' = listening \ {d}
    /\ writer' = writer \ {d}
    /\ indexing' = indexing \ {d}
    /\ Go(d, "off")
    /\ UNCHANGED stops

-----------------------------------------------------------------------------
Run(d) ==
    \/ TakeLock(d)
    \/ ClearStaleSocket(d)
    \/ Bind(d)
    \/ OpenWriter(d)
    \/ Serve(d)
    \/ Unlink(d)
    \/ CloseSocket(d)
    \/ ReleaseLock(d)
    \/ Drained(d)
    \/ IndexingStops(d)
    \/ CloseIndexer(d)
    \/ Exit(d)

Next == \E d \in Daemon : Run(d) \/ StartFails(d) \/ Signal(d) \/ Kill(d)

Spec == Init /\ [][Next]_vars

\* launchd starts the agent again (KeepAlive), processes run, drains and
\* flushes are bounded, and a failing start does return.
FairSpec == Spec /\ \A d \in Daemon : WF_vars(Run(d)) /\ WF_vars(StartFails(d))
-----------------------------------------------------------------------------
(* What the lifecycle promises.                                            *)

\* Types, and a daemon that is off holds nothing ("on any failure it must be
\* released, or a restart would report a daemon that isn't running", Listen).
LifecycleTypeOK ==
    /\ lock \in Daemon \cup {None}
    /\ node \in Daemon \cup {None, Stale}
    /\ listening \in SUBSET Daemon
    /\ writer \in SUBSET Daemon /\ indexing \in SUBSET Daemon
    /\ pc \in [Daemon -> Stages]
    /\ stops \in Nat /\ faults \in Nat
    /\ \A d \in Daemon : pc[d] = "off" =>
          lock # d /\ node # d /\ d \notin listening \cup writer \cup indexing

\* At most one daemon accepts connections, also while one replaces another
\* ("a replacement could bind while this one still accepts", Listener.Close).
OneListener == \A d, e \in listening : d = e

\* A daemon that serves can be reached: the path leads to its own socket, not
\* to a dead one's, and nobody unlinks it ("a second unlink could delete a
\* successor daemon's socket").
Reachable == \A d \in Daemon : pc[d] = "serving" => node = d

\* The scheduler never runs on a closed database: closeIndexer follows
\* wg.Wait.
IndexingHasItsWriter == indexing \subseteq writer

\* Whatever was killed, failed to start or told to stop, and whatever node it
\* left behind, in the end some daemon serves.
Recovers == <>[](\E d \in Daemon : pc[d] = "serving")

\* One process at a time has the database open for writing ("a second
\* bsearch serve must not take the write lock on a running daemon's database",
\* runServe).
OneWriter == \A d, e \in writer : d = e
=============================================================================
