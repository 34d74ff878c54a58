--------------------------- MODULE WatchHandoff ----------------------------
(***************************************************************************)
(* How a change on disk reaches the scheduler: the FSEvents pump           *)
(* (internal/adapters/fsevents), the watch goroutine's debounce window and *)
(* the handoff to the scheduler goroutine (internal/scheduler/watch.go),   *)
(* the walk that backs it up (cycle, scanDue, scan), and shutdown, which   *)
(* has to order all of them (Run, flushPending).                           *)
(*                                                                         *)
(* A path is stale from its change to the next time discovery looks at it, *)
(* whatever looking does to its row (module Indexer).  Two goroutines      *)
(* share pending, forceScan and the notify token, each under the           *)
(* scheduler's mutex; one action is one critical section or one channel    *)
(* operation.  drain is the place reconcilePending is called from again    *)
(* and again.  The stream never closes by itself (issue #65).              *)
(***************************************************************************)
EXTENDS Naturals, FiniteSets, Sequences

CONSTANTS
    Path,
    BatchCap,     \* maxPendingPaths: paths the pump holds back
    OutBuffer,    \* outBuffer: batches the out channel holds
    PendingCap,   \* maxPendingReconcile: paths handed over, not reconciled
    MaxChanges,   \* bound: changes on disk
    MaxFaults,    \* bound: failed walks, reconciles and flushes, and crashes
    MaxStops      \* bound: clean shutdowns

ASSUME HandoffAssumption ==
    /\ IsFiniteSet(Path)
    /\ {BatchCap, OutBuffer, PendingCap, MaxChanges, MaxFaults, MaxStops} \subseteq Nat

VARIABLES
    stale,      \* paths changed since discovery last looked
    kernel,     \* changes FSEvents has not called back about
    batch,      \* the pump's pending batch
    out,        \* the channel to the watch goroutine
    window,     \* the open debounce window
    open,       \* its timer is armed
    wpc,        \* where the watch goroutine is
    pending,    \* pendingPaths
    forceScan,
    notify,     \* the notify channel holds its token
    pc,         \* where the scheduler goroutine is
    walked,     \* LastScan is set
    forced,     \* the walk in progress was requested
    taken,      \* the list ScanPaths was given
    todo,       \* paths the walk or ScanPaths has not reached
    cancelled,  \* ctx is done
    changes, faults, stops

pumpVars  == <<kernel, batch, out>>
watchVars == <<window, open, wpc>>
sharedVars == <<pending, forceScan, notify>>
schedVars == <<pc, walked, forced, taken, todo>>
bounds    == <<changes, faults, stops>>
vars      == <<stale, pumpVars, watchVars, sharedVars, schedVars, cancelled, bounds>>

Batch      == [paths : SUBSET Path, rescan : BOOLEAN]
EmptyBatch == [paths |-> {}, rescan |-> FALSE]

HandoffTypeOK ==
    /\ stale \in SUBSET Path
    /\ kernel \in Batch /\ batch \in Batch /\ window \in Batch
    /\ out \in Seq(Batch) /\ Len(out) <= OutBuffer
    /\ open \in BOOLEAN
    /\ wpc \in {"start", "run", "close", "refused", "notify", "done"}
    /\ pending \in SUBSET Path /\ Cardinality(pending) <= PendingCap
    /\ forceScan \in BOOLEAN /\ notify \in BOOLEAN
    /\ pc \in {"stopped", "wait", "due", "walk", "reconcile", "paths", "drain",
               "stopping", "flush", "flushed", "exiting"}
    /\ walked \in BOOLEAN /\ forced \in BOOLEAN /\ cancelled \in BOOLEAN
    /\ taken \in SUBSET Path /\ todo \in SUBSET Path

\* What a new process starts with.
Fresh ==
    /\ kernel' = EmptyBatch /\ batch' = EmptyBatch /\ out' = <<>>
    /\ window' = EmptyBatch /\ open' = FALSE /\ wpc' = "start"
    /\ pending' = {} /\ forceScan' = FALSE /\ notify' = FALSE
    /\ walked' = FALSE /\ forced' = FALSE /\ taken' = {} /\ todo' = {}
    /\ cancelled' = FALSE

Init ==
    /\ stale = Path
    /\ kernel = EmptyBatch /\ batch = EmptyBatch /\ out = <<>>
    /\ window = EmptyBatch /\ open = FALSE /\ wpc = "start"
    /\ pending = {} /\ forceScan = FALSE /\ notify = FALSE
    /\ pc = "stopped"
    /\ walked = FALSE /\ forced = FALSE /\ taken = {} /\ todo = {}
    /\ cancelled = FALSE
    /\ changes = 0 /\ faults = 0 /\ stops = 0

-----------------------------------------------------------------------------
(* FSEvents and the pump.                                                  *)

\* A file changes.  The kernel notes it while a stream is subscribed.
Touch(p) ==
    /\ changes < MaxChanges
    /\ changes' = changes + 1
    /\ stale' = stale \cup {p}
    /\ kernel' = IF pc = "stopped" \/ wpc \in {"start", "done"} THEN kernel
                 ELSE [kernel EXCEPT !.paths = @ \cup {p}]
    /\ UNCHANGED <<batch, out, watchVars, sharedVars, schedVars, cancelled, faults,
                   stops>>

\* Too many to tell, or the same path too often for the pump's cap: the list
\* is dropped and the stream says so (rescanFlags).
KernelDrops ==
    /\ kernel.paths # {}
    /\ kernel' = [paths |-> {}, rescan |-> TRUE]
    /\ UNCHANGED <<stale, batch, out, watchVars, sharedVars, schedVars, cancelled,
                   bounds>>

\* Folding one callback into the batch: a rescan, or a batch past its cap,
\* throws the paths away.
Absorbed ==
    LET paths == batch.paths \cup kernel.paths
    IN  IF batch.rescan \/ kernel.rescan \/ Cardinality(paths) > BatchCap
        THEN [paths |-> {}, rescan |-> TRUE]
        ELSE [paths |-> paths, rescan |-> FALSE]

\* absorb: one callback is folded into the batch the pump holds.
Absorb ==
    /\ kernel # EmptyBatch
    /\ batch' = Absorbed
    /\ kernel' = EmptyBatch
    /\ UNCHANGED <<stale, out, watchVars, sharedVars, schedVars, cancelled, bounds>>

\* The other arm of the pump's select: deliver what is held.
Deliver ==
    /\ batch # EmptyBatch
    /\ Len(out) < OutBuffer
    /\ out' = Append(out, batch)
    /\ batch' = EmptyBatch
    /\ UNCHANGED <<stale, kernel, watchVars, sharedVars, schedVars, cancelled, bounds>>

-----------------------------------------------------------------------------
(* The watch goroutine.                                                    *)

\* It resolves the roots and subscribes, while the first walk may be running.
Subscribe ==
    /\ wpc = "start"
    /\ wpc' = "run"
    /\ UNCHANGED <<stale, pumpVars, window, open, sharedVars, schedVars, cancelled,
                   bounds>>

\* No root to watch, or no stream: the daemon goes on by walking alone.
SubscribeFails ==
    /\ wpc = "start"
    /\ wpc' = "done"
    /\ UNCHANGED <<stale, pumpVars, window, open, sharedVars, schedVars, cancelled,
                   bounds>>

\* A batch joins the window; the first one arms the timer.
Receive ==
    /\ wpc = "run"
    /\ out # <<>>
    /\ window' = [paths  |-> window.paths \cup Head(out).paths,
                  rescan |-> window.rescan \/ Head(out).rescan]
    /\ open' = TRUE
    /\ out' = Tail(out)
    /\ UNCHANGED <<stale, kernel, batch, wpc, sharedVars, schedVars, cancelled, bounds>>

\* The timer fires, or ctx is done: closeWindow.
WindowEnds ==
    /\ wpc = "run"
    /\ open \/ cancelled
    /\ wpc' = IF window = EmptyBatch THEN "done" ELSE "close"
    /\ UNCHANGED <<stale, pumpVars, window, open, sharedVars, schedVars, cancelled,
                   bounds>>

\* An incomplete window asks for a walk instead.
CloseRescan ==
    /\ wpc = "close"
    /\ window.rescan
    /\ forceScan' = TRUE
    /\ wpc' = "notify"
    /\ UNCHANGED <<stale, pumpVars, window, open, pending, notify, schedVars, cancelled,
                   bounds>>

\* mergePending counts distinct paths before it merges.
Fits(paths) == Cardinality(pending \cup paths) <= PendingCap

CloseMerge ==
    /\ wpc = "close"
    /\ ~window.rescan
    /\ Fits(window.paths)
    /\ pending' = pending \cup window.paths
    /\ wpc' = "notify"
    /\ UNCHANGED <<stale, pumpVars, window, open, forceScan, notify, schedVars,
                   cancelled, bounds>>

CloseRefused ==
    /\ wpc = "close"
    /\ ~window.rescan
    /\ ~Fits(window.paths)
    /\ wpc' = "refused"
    /\ UNCHANGED <<stale, pumpVars, window, open, sharedVars, schedVars, cancelled,
                   bounds>>

\* refusePending: the paths are not held, a walk is owed for them.
RefusePending ==
    /\ wpc = "refused"
    /\ forceScan' = TRUE
    /\ wpc' = "notify"
    /\ UNCHANGED <<stale, pumpVars, window, open, pending, notify, schedVars, cancelled,
                   bounds>>

\* Notify, a send that never blocks; then the window starts over, or the
\* goroutine returns.
Notify ==
    /\ wpc = "notify"
    /\ notify' = TRUE
    /\ window' = EmptyBatch /\ open' = FALSE
    /\ wpc' \in {"run"} \cup IF cancelled THEN {"done"} ELSE {}
    /\ UNCHANGED <<stale, pumpVars, pending, forceScan, schedVars, cancelled, bounds>>

-----------------------------------------------------------------------------
(* The scheduler goroutine.                                                *)

Start ==
    /\ pc = "stopped"
    /\ Fresh
    /\ pc' = "wait"
    /\ UNCHANGED <<stale, bounds>>

\* Run's select: the token, or the timer.
Wake ==
    /\ pc = "wait"
    /\ notify' \in {FALSE, notify}
    /\ pc' = "due"
    /\ UNCHANGED <<stale, pumpVars, watchVars, pending, forceScan, walked, forced, taken,
                   todo, cancelled, bounds>>

\* A daemon that trusts its watcher and walks only when asked to.
BeginWalkWhenAsked ==
    /\ pc = "due"
    /\ forceScan \/ ~walked
    /\ pc' = "walk"
    /\ forced' = forceScan
    /\ forceScan' = FALSE
    /\ todo' = Path
    /\ UNCHANGED <<stale, pumpVars, watchVars, pending, notify, walked, taken, cancelled,
                   bounds>>

\* scanDue: a walk is due on request, before the first one, and whenever the
\* interval has passed, which is any time.  The request is consumed here.
BeginWalk ==
    /\ pc = "due"
    /\ pc' = "walk"
    /\ forced' = forceScan
    /\ forceScan' = FALSE
    /\ todo' = Path
    /\ UNCHANGED <<stale, pumpVars, watchVars, pending, notify, walked, taken, cancelled,
                   bounds>>

NoWalk ==
    /\ pc = "due"
    /\ walked /\ ~forceScan
    /\ pc' = "reconcile"
    /\ UNCHANGED <<stale, pumpVars, watchVars, sharedVars, walked, forced, taken, todo,
                   cancelled, bounds>>

\* Discovery looks at a path: on a walk, in ScanPaths, in the last flush.
Look(p) ==
    /\ pc \in {"walk", "paths", "flush"}
    /\ p \in todo
    /\ stale' = stale \ {p}
    /\ todo' = todo \ {p}
    /\ UNCHANGED <<pumpVars, watchVars, sharedVars, pc, walked, forced, taken, cancelled,
                   bounds>>

\* A finished walk that takes the request with it.
WalkDoneClearing ==
    /\ pc = "walk"
    /\ todo = {}
    /\ walked' = TRUE
    /\ forced' = FALSE
    /\ forceScan' = FALSE
    /\ pc' = "reconcile"
    /\ UNCHANGED <<stale, pumpVars, watchVars, pending, notify, taken, todo, cancelled,
                   bounds>>

WalkDone ==
    /\ pc = "walk"
    /\ todo = {}
    /\ walked' = TRUE
    /\ forced' = FALSE
    /\ pc' = "reconcile"
    /\ UNCHANGED <<stale, pumpVars, watchVars, sharedVars, taken, todo, cancelled, bounds>>

\* A fatal walk error re-arms a request; cancellation does not.
WalkFails ==
    /\ pc = "walk"
    /\ cancelled \/ faults < MaxFaults
    /\ faults' = IF cancelled THEN faults ELSE faults + 1
    /\ forceScan' = (forceScan \/ (forced /\ ~cancelled))
    /\ forced' = FALSE
    /\ todo' = {}
    /\ pc' = "reconcile"
    /\ UNCHANGED <<stale, pumpVars, watchVars, pending, notify, walked, taken, cancelled,
                   changes, stops>>

\* reconcilePending swaps the set out before it writes.
TakePending ==
    /\ pc = "reconcile"
    /\ ~cancelled
    /\ taken' = pending /\ todo' = pending
    /\ pending' = {}
    /\ pc' = IF pending = {} THEN "drain" ELSE "paths"
    /\ UNCHANGED <<stale, pumpVars, watchVars, forceScan, notify, walked, forced,
                   cancelled, bounds>>

PathsDone ==
    /\ pc = "paths"
    /\ todo = {}
    /\ taken' = {}
    /\ pc' = "drain"
    /\ UNCHANGED <<stale, pumpVars, watchVars, sharedVars, walked, forced, todo,
                   cancelled, bounds>>

\* ScanPaths fails: the list is dropped for a walk.
PathsFail ==
    /\ pc = "paths"
    /\ ~cancelled
    /\ faults < MaxFaults
    /\ faults' = faults + 1
    /\ taken' = {} /\ todo' = {}
    /\ forceScan' = TRUE
    /\ notify' = TRUE
    /\ pc' = "drain"
    /\ UNCHANGED <<stale, pumpVars, watchVars, pending, walked, forced, cancelled,
                   changes, stops>>

\* ScanPaths is cancelled: the whole list is handed back (restorePending), or
\* refused once the watcher has filled the set again.
PathsCancelled ==
    /\ pc = "paths"
    /\ cancelled
    /\ pending' = IF Fits(taken) THEN pending \cup taken ELSE pending
    /\ forceScan' = (forceScan \/ ~Fits(taken))
    /\ taken' = {} /\ todo' = {}
    /\ pc' = "drain"
    /\ UNCHANGED <<stale, pumpVars, watchVars, notify, walked, forced, cancelled, bounds>>

\* Between batches and between contents the drain reconciles again.
DrainGoesOn ==
    /\ pc = "drain"
    /\ pending # {}
    /\ pc' = "reconcile"
    /\ UNCHANGED <<stale, pumpVars, watchVars, sharedVars, walked, forced, taken, todo,
                   cancelled, bounds>>

\* The end of a cycle that throws a hint away as stale.
CycleEndsDraining ==
    /\ pc = "drain"
    /\ ~cancelled
    /\ notify' = FALSE
    /\ pc' = "wait"
    /\ UNCHANGED <<stale, pumpVars, watchVars, pending, forceScan, walked, forced, taken,
                   todo, cancelled, bounds>>

CycleEnds ==
    /\ pc = "drain"
    /\ ~cancelled
    /\ pc' = "wait"
    /\ UNCHANGED <<stale, pumpVars, watchVars, sharedVars, walked, forced, taken, todo,
                   cancelled, bounds>>

-----------------------------------------------------------------------------
(* Shutdown.                                                               *)

Cancel ==
    /\ pc # "stopped"
    /\ ~cancelled
    /\ stops < MaxStops
    /\ stops' = stops + 1
    /\ cancelled' = TRUE
    /\ UNCHANGED <<stale, pumpVars, watchVars, sharedVars, schedVars, changes, faults>>

\* Run notices and returns; its deferred function takes over.
Returns ==
    /\ pc \in {"wait", "reconcile", "drain"}
    /\ cancelled
    /\ pc' = "stopping"
    /\ UNCHANGED <<stale, pumpVars, watchVars, sharedVars, walked, forced, taken, todo,
                   cancelled, bounds>>

\* flushPending at once, the watcher still running.
FlushUnordered ==
    /\ pc = "stopping"
    /\ taken' = pending /\ todo' = pending
    /\ pending' = {}
    /\ pc' = "flush"
    /\ UNCHANGED <<stale, pumpVars, watchVars, forceScan, notify, walked, forced,
                   cancelled, bounds>>

\* watching.Wait(), and only then flushPending, on a context of its own.
Flush ==
    /\ pc = "stopping"
    /\ wpc = "done"
    /\ taken' = pending /\ todo' = pending
    /\ pending' = {}
    /\ pc' = "flush"
    /\ UNCHANGED <<stale, pumpVars, watchVars, forceScan, notify, walked, forced,
                   cancelled, bounds>>

FlushDone ==
    /\ pc = "flush"
    /\ todo = {}
    /\ taken' = {}
    /\ pc' = "flushed"
    /\ UNCHANGED <<stale, pumpVars, watchVars, sharedVars, walked, forced, todo,
                   cancelled, bounds>>

\* shutdownFlush passes first: the list is handed back to a set that nobody
\* will read again.
FlushTimesOut ==
    /\ pc = "flush"
    /\ faults < MaxFaults
    /\ faults' = faults + 1
    /\ pending' = IF Fits(taken) THEN pending \cup taken ELSE pending
    /\ forceScan' = (forceScan \/ ~Fits(taken))
    /\ taken' = {} /\ todo' = {}
    /\ pc' = "exiting"
    /\ UNCHANGED <<stale, pumpVars, watchVars, notify, walked, forced, cancelled,
                   changes, stops>>

\* The store fails under it: a walk is requested, and never made.
FlushFails ==
    /\ pc = "flush"
    /\ faults < MaxFaults
    /\ faults' = faults + 1
    /\ taken' = {} /\ todo' = {}
    /\ forceScan' = TRUE
    /\ notify' = TRUE
    /\ pc' = "exiting"
    /\ UNCHANGED <<stale, pumpVars, watchVars, pending, walked, forced, cancelled,
                   changes, stops>>

Exit ==
    /\ pc \in {"flushed", "exiting"}
    /\ pc' = "stopped"
    /\ UNCHANGED <<stale, pumpVars, watchVars, sharedVars, walked, forced, taken, todo,
                   cancelled, bounds>>

\* The process dies.
Crash ==
    /\ pc # "stopped"
    /\ faults < MaxFaults
    /\ faults' = faults + 1
    /\ pc' = "stopped"
    /\ UNCHANGED <<stale, pumpVars, watchVars, sharedVars, walked, forced, taken, todo,
                   cancelled, changes, stops>>

-----------------------------------------------------------------------------
Pump == Absorb \/ Deliver

Watch ==
    \/ Subscribe
    \/ Receive
    \/ WindowEnds
    \/ CloseRescan
    \/ CloseMerge
    \/ CloseRefused
    \/ RefusePending
    \/ Notify

Schedule ==
    \/ Start
    \/ Wake
    \/ BeginWalk
    \/ NoWalk
    \/ \E p \in Path : Look(p)
    \/ WalkDone
    \/ TakePending
    \/ PathsDone
    \/ PathsCancelled
    \/ DrainGoesOn
    \/ CycleEnds
    \/ Returns
    \/ Flush
    \/ FlushDone
    \/ Exit

Trouble ==
    \/ \E p \in Path : Touch(p)
    \/ KernelDrops
    \/ pc # "stopped" /\ SubscribeFails
    \/ WalkFails
    \/ PathsFail
    \/ FlushTimesOut
    \/ FlushFails
    \/ Cancel
    \/ Crash

\* Once the process is gone so are its goroutines.
Next == (pc # "stopped" /\ (Pump \/ Watch)) \/ Schedule \/ Trouble

Spec == Init /\ [][Next]_vars

\* Goroutines run, launchd restarts the daemon, and the scan interval passes
\* again and again.  The pump may return once ctx is done.
Fairness ==
    /\ WF_vars(pc # "stopped" /\ ~cancelled /\ Pump)
    /\ WF_vars(pc # "stopped" /\ Watch)
    /\ WF_vars(Schedule)
    /\ SF_vars(BeginWalk)

FairSpec == Spec /\ Fairness
-----------------------------------------------------------------------------
(* What the handoff promises.                                              *)

\* The paths the daemon is bound to look at: those named in a batch or in the
\* pending set, those left on a list or a walk that answers for something, and
\* all of them while a walk is requested or still to be made.
Batches ==
    {batch} \cup {out[i] : i \in DOMAIN out}
            \cup IF wpc = "notify" THEN {} ELSE {window}

Owed ==
    IF \/ pc = "stopped" \/ cancelled
       \/ ~walked /\ pc # "walk"
       \/ forceScan \/ wpc = "refused"
       \/ \E b \in Batches : b.rescan
    THEN Path
    ELSE pending \cup (UNION {b.paths : b \in Batches})
                 \cup (IF forced \/ ~walked \/ taken # {} THEN todo ELSE {})

\* Refinement: what the daemon was told of it goes on owing a look, through
\* full buffers, refused windows, failed walks, failed reconciles, requests
\* that arrive while a walk is under way, shutdown and crashes.
Ledger == INSTANCE Freshness WITH owed <- Owed

OwedIsNeverForgotten == Ledger!FreshSpec

\* A scheduler that waits for its next wake with handed-over paths has the
\* hint, or is about to get it (enqueue merges before it notifies).
HintIsNotLost ==
    pc = "wait" /\ pending # {} => notify \/ wpc = "notify" \/ cancelled

\* A shutdown whose flush ran to its end leaves nothing behind: the last window
\* was handed over before the flush took the set (watching.Wait in Run).
FlushIsLast ==
    pc = "flushed" => pending = {} /\ window = EmptyBatch

\* Every change is looked at in the end.
Noticed == \A p \in Path : p \in stale ~> p \notin stale
=============================================================================
