------------------------------ MODULE Indexer ------------------------------
(***************************************************************************)
(* The indexing daemon: the scheduler goroutine (internal/scheduler) that  *)
(* walks, reconciles, sweeps and drains, and the pipeline it runs per      *)
(* content (internal/pipeline), over the catalog of module Store, with     *)
(* files changing underneath, an embedding endpoint that fails, crashes    *)
(* and restarts under another configuration.                               *)
(*                                                                         *)
(* One action is one catalog transaction, or one decision between two of   *)
(* them; only the scheduler goroutine writes (ADR 0014), so the catalog    *)
(* cannot move inside an action.  Reading a file, normalising, chunking    *)
(* and StoreChunks are one action: the bytes are in memory, so a change on *)
(* disk in between is a change just after.  An edit always moves the       *)
(* file's size or mtime.  Where events come from is left to the module of  *)
(* the watcher: here an event for a changed path arrives late or never.    *)
(* ClaimBatch picks any ClaimLimit claimable rows; its order is a module   *)
(* of its own.                                                             *)
(***************************************************************************)
EXTENDS Store

CONSTANTS
    Me,           \* the one pipeline among Writer
    Absent,       \* no file at this path
    Denied,       \* a file whose bytes cannot be read (TCC, a failing disk)
    Placeholder,  \* an iCloud placeholder, edited remotely after eviction
    ChunkCount,   \* how many chunks each content's bytes give
    Undecodable,  \* contents Normalize rejects
    Flaky,        \* contents a healthy endpoint may fail on transiently
    Rejected,     \* contents a healthy endpoint may refuse for good
    MaxAttempts,  \* the attempt cap
    ClaimLimit,   \* the claim batch size
    Evictions,    \* is iCloud evicting files?
    LiveDrift,    \* may the endpoint change dimensions under a running daemon?
    MaxEdits,     \* bound: changes on disk
    MaxFaults,    \* bound: crashes and failed store calls
    MaxOutages,   \* bound: endpoint outages and times on battery
    MaxDrifts     \* bound: changes of the endpoint's dimension count

ASSUME IndexerAssumption ==
    /\ Me \in Writer
    /\ {Absent, Denied, Placeholder} \cap Hash = {}
    /\ Cardinality({Absent, Denied, Placeholder}) = 3
    /\ ChunkCount \in [Hash -> 0..MaxChunks]
    /\ MaxAttempts \in Nat \ {0}
    /\ ClaimLimit \in Nat \ {0}
    /\ Evictions \in BOOLEAN /\ LiveDrift \in BOOLEAN
    /\ {MaxEdits, MaxFaults, MaxOutages, MaxDrifts} \subseteq Nat

VARIABLES
    file,          \* the bytes at each path, named by their hash
    events,        \* changed paths the watcher has not handed over
    up,            \* the embedding endpoint answers
    serverDims,    \* the dimension count it answers with
    onBattery,     \* the power policy defers indexing
    edits, faults, outages, drifts,
    pc,            \* where the scheduler goroutine is
    build,         \* the process's configuration
    pending,       \* pendingPaths
    todo,          \* paths the walk has not reached
    walked,        \* LastScan is set
    deferring,     \* the power policy as this cycle read it
    needFull, needQueue,
    sweptVersions, sweptDims,
    probeHold,     \* nextProbe is in the future
    seen, batch,   \* the drain's seen set, and the claimed rows left
    item,          \* the content in the pipeline
    itemAttempts,  \* its attempts as GetWork read them
    drainDims      \* the dims of this drain's Prepare

envVars   == <<file, events, up, serverDims, onBattery>>
counters  == <<edits, faults, outages, drifts>>
flags     == <<needFull, needQueue, sweptVersions, sweptDims, probeHold,
               walked, deferring>>
drainVars == <<seen, batch, item, itemAttempts, drainDims>>
procVars  == <<pc, build, pending, todo, flags, drainVars>>
vars      == <<storeVars, envVars, counters, procVars>>

Labels == {"down", "wait", "scan", "cycle", "sweeping", "gate", "drain",
           "claimed", "dims", "item", "chunk", "embed", "final", "failing",
           "mark", "retry", "charge", "cap"}

FlagsOK ==
    /\ up \in BOOLEAN /\ onBattery \in BOOLEAN
    /\ needFull \in BOOLEAN /\ needQueue \in BOOLEAN
    /\ sweptVersions \in BOOLEAN /\ sweptDims \in BOOLEAN
    /\ probeHold \in BOOLEAN /\ walked \in BOOLEAN /\ deferring \in BOOLEAN

TypeOK ==
    /\ StoreTypeOK
    /\ FlagsOK
    /\ file \in [Path -> Hash \cup {Absent, Denied, Placeholder}]
    /\ events \in SUBSET Path
    /\ serverDims \in Dims
    /\ edits \in Nat /\ faults \in Nat /\ outages \in Nat /\ drifts \in Nat
    /\ pc \in Labels
    /\ build \in Build
    /\ pending \in SUBSET Path
    /\ todo \in SUBSET Path
    /\ seen \in SUBSET Hash
    /\ batch \in SUBSET Hash
    /\ item \in Hash \cup {NULL}
    /\ itemAttempts \in Nat
    /\ drainDims \in Dims \cup {NULL}

Init ==
    /\ StoreInit
    /\ file \in [Path -> Hash \cup {Absent}]
    /\ events = {}
    /\ up = TRUE /\ onBattery = FALSE
    /\ serverDims \in Dims
    /\ edits = 0 /\ faults = 0 /\ outages = 0 /\ drifts = 0
    /\ pc = "down"
    /\ build \in Build
    /\ pending = {} /\ todo = {}
    /\ needFull = TRUE /\ needQueue = FALSE
    /\ sweptVersions = FALSE /\ sweptDims = FALSE
    /\ probeHold = FALSE /\ walked = FALSE /\ deferring = FALSE
    /\ seen = {} /\ batch = {} /\ item = NULL /\ itemAttempts = 0
    /\ drainDims = NULL

-----------------------------------------------------------------------------
(* Control.                                                                *)

\* One content is done with; the batch goes on.
EndItem ==
    /\ pc' = "item" /\ item' = NULL /\ itemAttempts' = 0
    /\ UNCHANGED <<seen, batch, drainDims>>

\* The drain returns; its locals are gone and Run waits for the next wake.
EndDrain ==
    /\ pc' = "wait"
    /\ seen' = {} /\ batch' = {} /\ item' = NULL /\ itemAttempts' = 0
    /\ drainDims' = NULL

\* The places reconcilePending is called: nothing goes on there while a
\* handed-over path is waiting.
Reconciles == {"cycle", "drain", "item"}

\* StageVersions of this drain: what content processed now is stamped with.
StageVersions == [k \in StageKey |-> IF k = "build" THEN build ELSE drainDims]

\* The generation Prepare ensures.
Generation == <<ModelOf[build], serverDims>>

-----------------------------------------------------------------------------
(* Discovery, one path at a time.                                          *)

\* processFile, noteUnread, purge and the walk's deletion reconcile: the row
\* a path gets from what is on disk.  An unreadable file keeps a hash obtained
\* before; a placeholder whose stat moved loses it.
Observed(p) ==
    CASE file[p] = Absent      -> NoDoc
      [] file[p] = Denied      -> IF documents[p] \in Hash THEN documents[p] ELSE Unread
      [] file[p] = Placeholder -> Unread
      [] OTHER                 -> file[p]

\* Removals alone, a changed file forgotten.
ArmsOnRemoval(p) == documents[p] # NoDoc /\ Observed(p) = NoDoc

\* noteOrphanProducers: Deleted, Pruned or Changed.  A row that loses its hash
\* to a placeholder is counted in Dataless, which arms nothing.
ArmsSweep(p) ==
    /\ documents[p] # NoDoc
    /\ \/ Observed(p) = NoDoc
       \/ documents[p] \in Hash /\ Observed(p) \in Hash \ {documents[p]}

\* One path reconciled.  The flag is read by the next cycle at the earliest, so
\* it is recorded with the path rather than when the whole pass returns.
Discover(p) ==
    /\ IF Observed(p) = NoDoc
       THEN DeleteDocuments({p})
       ELSE UpsertDocuments([q \in {p} |-> Observed(p)])
    /\ needQueue' = (needQueue \/ ArmsSweep(p))

\* A process starts: New, and Run's first wait.
Start ==
    /\ pc = "down"
    /\ pc' = "wait"
    /\ \E b \in Build : build' = b
    /\ UNCHANGED <<storeVars, envVars, counters, pending, todo, flags, drainVars>>

\* The timer or a notification: the first cycle walks, later ones when due.
\* The power policy is read here, once for the whole cycle.
WakeToWalk ==
    /\ pc = "wait"
    /\ pc' = "scan"
    /\ todo' = Path
    /\ deferring' = onBattery
    /\ UNCHANGED <<storeVars, envVars, counters, build, pending, needFull,
                   needQueue, sweptVersions, sweptDims, probeHold, walked,
                   drainVars>>

WakeNoWalk ==
    /\ pc = "wait"
    /\ walked
    /\ pc' = "cycle"
    /\ deferring' = onBattery
    /\ UNCHANGED <<storeVars, envVars, counters, build, pending, todo, needFull,
                   needQueue, sweptVersions, sweptDims, probeHold, walked,
                   drainVars>>

WalkPath(p) ==
    /\ pc = "scan"
    /\ p \in todo
    /\ Discover(p)
    /\ todo' = todo \ {p}
    /\ UNCHANGED <<envVars, counters, pc, build, pending, needFull,
                   sweptVersions, sweptDims, probeHold, walked,
                   deferring, drainVars>>

WalkDone ==
    /\ pc = "scan"
    /\ todo = {}
    /\ pc' = "cycle"
    /\ walked' = TRUE
    /\ UNCHANGED <<storeVars, envVars, counters, build, pending, todo, needFull,
                   needQueue, sweptVersions, sweptDims, probeHold,
                   deferring, drainVars>>

\* A fatal walk error: what was flushed stays, LastScan is not advanced, the
\* cycle goes on.
WalkFails ==
    /\ pc = "scan"
    /\ todo # {}
    /\ faults < MaxFaults
    /\ faults' = faults + 1
    /\ pc' = "cycle"
    /\ todo' = {}
    /\ UNCHANGED <<storeVars, envVars, edits, outages, drifts, build, pending,
                   flags, drainVars>>

\* reconcilePending at one of its call sites.
Reconcile(p) ==
    /\ pc \in Reconciles
    /\ p \in pending
    /\ Discover(p)
    /\ pending' = pending \ {p}
    /\ UNCHANGED <<envVars, counters, pc, build, todo, needFull,
                   sweptVersions, sweptDims, probeHold, walked,
                   deferring, drainVars>>

\* ScanPaths fails: the paths taken are dropped, and a walk is requested.
ReconcileFails ==
    /\ pc \in Reconciles
    /\ pending # {}
    /\ faults < MaxFaults
    /\ faults' = faults + 1
    /\ pending' = {}
    /\ UNCHANGED <<storeVars, envVars, edits, outages, drifts, pc, build, todo,
                   flags, drainVars>>

-----------------------------------------------------------------------------
(* The cycle: orphan sweep, battery gate.                                  *)

\* takeOrphanSweep, widest scope first.
TakeSweep ==
    /\ pc = "cycle"
    /\ pending = {}
    /\ IF needFull \/ needQueue
       THEN /\ SweepBegin(IF needFull THEN "all" ELSE "queue")
            /\ pc' = "sweeping"
       ELSE /\ UNCHANGED storeVars
            /\ pc' = "gate"
    /\ needFull' = FALSE /\ needQueue' = FALSE
    /\ UNCHANGED <<envVars, counters, build, pending, todo, sweptVersions,
                   sweptDims, probeHold, walked,
                   deferring, drainVars>>

SweepStep ==
    /\ pc = "sweeping"
    /\ SweepCollect \/ SweepDelete
    /\ UNCHANGED <<envVars, counters, procVars>>

SweepDone ==
    /\ pc = "sweeping"
    /\ sweepScope = NULL
    /\ pc' = "gate"
    /\ UNCHANGED <<storeVars, envVars, counters, build, pending, todo, flags,
                   drainVars>>

\* A sweep that failed part-way is re-armed at its own scope.
SweepFails ==
    /\ pc = "sweeping"
    /\ sweepScope # NULL
    /\ faults < MaxFaults
    /\ faults' = faults + 1
    /\ SweepAbort
    /\ needFull' = (sweepScope = "all")
    /\ needQueue' = (sweepScope = "queue")
    /\ pc' = "gate"
    /\ UNCHANGED <<envVars, edits, outages, drifts, build, pending, todo,
                   sweptVersions, sweptDims, probeHold, walked,
                   deferring, drainVars>>

\* The battery gate, on the policy read when the cycle began.
Gate ==
    /\ pc = "gate"
    /\ pc' = IF deferring THEN "wait" ELSE "drain"
    /\ deferring' = FALSE
    /\ UNCHANGED <<storeVars, envVars, counters, build, pending, todo, needFull,
                   needQueue, sweptVersions, sweptDims, probeHold, walked,
                   drainVars>>

-----------------------------------------------------------------------------
(* The drain.                                                              *)

\* A sweep that compares nothing.
NoVersions == [k \in {} |-> build]

\* What the first sweep of a process compares: every key but the dims.
StartVersions == [k \in {"build"} |-> build]

\* What the second one compares, once Prepare has learnt the dims.
DimsVersion == [k \in {"embedding_dims"} |-> drainDims]

\* The once-per-process version sweep.
VersionSweep ==
    /\ pc = "drain"
    /\ pending = {}
    /\ ~sweptVersions
    /\ ResetStale(StartVersions)
    /\ sweptVersions' = TRUE
    /\ UNCHANGED <<envVars, counters, pc, build, pending, todo, needFull,
                   needQueue, sweptDims, probeHold, walked,
                   deferring, drainVars>>

Claims ==
    LET due == {h \in Hash : Claimable(h)}
    IN  {b \in SUBSET due : /\ Cardinality(b) <= ClaimLimit
                            /\ Cardinality(b) = ClaimLimit \/ b = due}

\* The filter left out.
Unfiltered(b) == b

\* A claimed batch without what this drain has already handled.
Unseen(b) == b \ seen

\* ClaimBatch; an empty batch ends the drain before Prepare, unless the dims
\* are still to be learnt.
Claim ==
    /\ pc = "drain"
    /\ pending = {}
    /\ sweptVersions
    /\ \E b \in Claims :
         IF Unseen(b) = {} /\ sweptDims
         THEN EndDrain
         ELSE /\ batch' = Unseen(b)
              /\ pc' = "claimed"
              /\ UNCHANGED <<seen, item, itemAttempts, drainDims>>
    /\ UNCHANGED <<storeVars, envVars, counters, build, pending, todo, flags>>

\* prepare: the health gate, once per drain.
PrepareOK ==
    /\ pc = "claimed"
    /\ drainDims = NULL
    /\ ~probeHold
    /\ up
    /\ EnsureVecTable(Generation)
    /\ drainDims' = serverDims
    /\ pc' = IF sweptDims THEN "item" ELSE "dims"
    /\ UNCHANGED <<envVars, counters, build, pending, todo, flags, seen, batch,
                   item, itemAttempts>>

PrepareFails ==
    /\ pc = "claimed"
    /\ drainDims = NULL
    /\ probeHold \/ ~up
    /\ probeHold' = TRUE
    /\ EndDrain
    /\ UNCHANGED <<storeVars, envVars, counters, build, pending, todo, needFull,
                   needQueue, sweptVersions, sweptDims, walked, deferring>>

\* A later batch of the same drain is already prepared.
Prepared ==
    /\ pc = "claimed"
    /\ drainDims # NULL
    /\ IF batch = {} THEN EndDrain
       ELSE pc' = "item" /\ UNCHANGED drainVars
    /\ UNCHANGED <<storeVars, envVars, counters, build, pending, todo, flags>>

\* The once-per-process dims sweep; then everything is claimed again.
DimsSweep ==
    /\ pc = "dims"
    /\ ResetStale(DimsVersion)
    /\ sweptDims' = TRUE
    /\ pc' = "drain"
    /\ batch' = {}
    /\ UNCHANGED <<envVars, counters, build, pending, todo, needFull, needQueue,
                   sweptVersions, probeHold, walked, deferring, seen, item, itemAttempts,
                   drainDims>>

\* The batch is worked off; power is read again.
BatchDone ==
    /\ pc = "item"
    /\ batch = {}
    /\ IF onBattery THEN EndDrain
       ELSE pc' = "drain" /\ UNCHANGED drainVars
    /\ UNCHANGED <<storeVars, envVars, counters, build, pending, todo, flags>>

\* The row alone, as it was claimed.
StillStored(h) == Stored(h)

\* GetWork's join: the row, and a path to read its bytes from.
HasWork(h) == Stored(h) /\ PathsOf(h) # {}

\* GetWork: the row and its paths as they are now, or gone.
GetWork(h) ==
    /\ pc = "item"
    /\ pending = {}
    /\ h \in batch
    /\ batch' = batch \ {h}
    /\ seen' = seen \cup {h}
    /\ IF HasWork(h)
       THEN pc' = "chunk" /\ item' = h /\ itemAttempts' = attempts[h]
       ELSE UNCHANGED <<pc, item, itemAttempts>>
    /\ UNCHANGED <<storeVars, envVars, counters, build, pending, todo, flags,
                   drainDims>>

-----------------------------------------------------------------------------
(* ProcessContent.                                                         *)

\* What reading the copies can give; a placeholder is materialised, or not.
Readable == {file[p] : p \in PathsOf(item)} \cap (Hash \cup {Placeholder})

\* The digest not compared: any copy will do.
ReadUnverified == Readable \cap Hash

\* readVerified: the bytes of some copy, if they still hash to the claim.
ReadVerified == Readable \cap {item}

\* Normalised, chunked, and committed before any network call.
ChunkContent ==
    /\ pc = "chunk"
    /\ \E bytes \in ReadVerified \ Undecodable :
         /\ StoreChunks(Me, item, "chunked", StageVersions, ChunkCount[bytes])
         /\ pc' = IF ChunkCount[bytes] = 0 THEN "final" ELSE "embed"
    /\ UNCHANGED <<envVars, counters, build, pending, todo, flags, drainVars>>

NormalizeFails ==
    /\ pc = "chunk"
    /\ ReadVerified \cap Undecodable # {}
    /\ pc' = "failing"
    /\ UNCHANGED <<storeVars, envVars, counters, build, pending, todo, flags,
                   drainVars>>

\* OutcomeChanged: readable, but no copy matches.  Deferred, not charged.
ContentChanged ==
    /\ pc = "chunk"
    /\ ReadVerified = {}
    /\ Readable # {}
    /\ Reschedule(item, itemAttempts, "waiting")
    /\ EndItem
    /\ UNCHANGED <<envVars, counters, build, pending, todo, flags>>

\* OutcomeSkipped: no copy is readable; the row is left alone.
ContentUnreadable ==
    /\ pc = "chunk"
    /\ Readable \subseteq {Placeholder}
    /\ EndItem
    /\ UNCHANGED <<storeVars, envVars, counters, build, pending, todo, flags>>

\* EmbedPassages and UpsertVectors.
EmbedOK ==
    /\ pc = "embed"
    /\ up
    /\ UpsertVectors(Me, serverDims)
    /\ pc' = "final"
    /\ UNCHANGED <<envVars, counters, build, pending, todo, flags, drainVars>>

\* Vectors of another size than the current table: the machinery failed, the
\* drain stops and nothing is charged.
EmbedWrongDims ==
    /\ pc = "embed"
    /\ up
    /\ serverDims # current[2]
    /\ ReleaseIds(Me)
    /\ EndDrain
    /\ UNCHANGED <<envVars, counters, build, pending, todo, flags>>

EmbedTransient ==
    /\ pc = "embed"
    /\ ~up \/ item \in Flaky
    /\ ReleaseIds(Me)
    /\ pc' = "retry"
    /\ UNCHANGED <<envVars, counters, build, pending, todo, flags, drainVars>>

EmbedRejected ==
    /\ pc = "embed"
    /\ up
    /\ item \in Rejected
    /\ ReleaseIds(Me)
    /\ pc' = "failing"
    /\ UNCHANGED <<envVars, counters, build, pending, todo, flags, drainVars>>

Finalize ==
    /\ pc = "final"
    /\ UpdateContentState(item, "indexed")
    /\ EndItem
    /\ UNCHANGED <<envVars, counters, build, pending, todo, flags>>

\* failWith without its first write.
RecordFailureSkipped ==
    /\ pc = "failing"
    /\ pc' = "mark"
    /\ UNCHANGED <<storeVars, envVars, counters, build, pending, todo, flags,
                   drainVars>>

\* failWith: stage versions first, so a later configuration finds the row ...
RecordFailure ==
    /\ pc = "failing"
    /\ StoreChunks(Me, item, "failed", StageVersions, 0)
    /\ pc' = "mark"
    /\ UNCHANGED <<envVars, counters, build, pending, todo, flags, drainVars>>

\* Giving up with a change of state alone.
GiveUpStateOnly ==
    /\ pc \in {"mark", "cap"}
    /\ UpdateContentState(item, "failed")
    /\ EndItem
    /\ UNCHANGED <<envVars, counters, build, pending, todo, flags>>

\* ... then the reason.  The attempt cap ends in the same call.
GiveUp ==
    /\ pc \in {"mark", "cap"}
    /\ MarkFailed(item)
    /\ EndItem
    /\ UNCHANGED <<envVars, counters, build, pending, todo, flags>>

-----------------------------------------------------------------------------
(* Retries.                                                                *)

\* retry: was the service healthy?  The probe is a whole Prepare.
RetryProbeOK ==
    /\ pc = "retry"
    /\ up
    /\ EnsureVecTable(Generation)
    /\ pc' = "charge"
    /\ UNCHANGED <<envVars, counters, build, pending, todo, flags, drainVars>>

RetryProbeFails ==
    /\ pc = "retry"
    /\ ~up
    /\ EndDrain
    /\ UNCHANGED <<storeVars, envVars, counters, build, pending, todo, flags>>

\* reschedule: one attempt charged; full jitter may wait no time at all.
Charge ==
    /\ pc = "charge"
    /\ itemAttempts + 1 < MaxAttempts
    /\ \E at \in {"waiting", "due"} : Reschedule(item, itemAttempts + 1, at)
    /\ EndItem
    /\ UNCHANGED <<envVars, counters, build, pending, todo, flags>>

\* At the cap: the final count first, then GiveUp.
ChargeLast ==
    /\ pc = "charge"
    /\ itemAttempts + 1 >= MaxAttempts
    /\ Reschedule(item, itemAttempts + 1, "due")
    /\ pc' = "cap"
    /\ UNCHANGED <<envVars, counters, build, pending, todo, flags, drainVars>>

-----------------------------------------------------------------------------
(* Failures of the store, the process and the world.                       *)

\* A store call returns an error: the drain stops where it is, charging
\* nothing.
StoreFails ==
    /\ pc \in {"drain", "dims", "item", "chunk", "embed", "final", "failing",
               "mark", "retry", "charge", "cap"}
    /\ faults < MaxFaults
    /\ faults' = faults + 1
    /\ ReleaseIds(Me)
    /\ EndDrain
    /\ UNCHANGED <<envVars, edits, outages, drifts, build, pending, todo, flags>>

\* EnsureVecTable fails inside Prepare, which reads like a failed probe.
EnsureFails ==
    /\ pc = "claimed"
    /\ drainDims = NULL
    /\ ~probeHold
    /\ up
    /\ faults < MaxFaults
    /\ faults' = faults + 1
    /\ probeHold' = TRUE
    /\ EndDrain
    /\ UNCHANGED <<storeVars, envVars, edits, outages, drifts, build, pending,
                   todo, needFull, needQueue, sweptVersions, sweptDims, walked,
                   deferring>>

\* The process dies (or is told to stop): only the catalog survives.
Crash ==
    /\ pc # "down"
    /\ faults < MaxFaults
    /\ faults' = faults + 1
    /\ IF sweepScope # NULL THEN SweepAbort ELSE ReleaseIds(Me)
    /\ pc' = "down"
    /\ pending' = {} /\ todo' = {}
    /\ needFull' = TRUE /\ needQueue' = FALSE
    /\ sweptVersions' = FALSE /\ sweptDims' = FALSE
    /\ probeHold' = FALSE /\ walked' = FALSE /\ deferring' = FALSE
    /\ seen' = {} /\ batch' = {} /\ item' = NULL /\ itemAttempts' = 0
    /\ drainDims' = NULL
    /\ UNCHANGED <<envVars, edits, outages, drifts, build>>

\* Someone changes, removes, restores or locks a file.
Edit(p, v) ==
    /\ edits < MaxEdits
    /\ file[p] # v
    /\ v = Placeholder => Evictions
    /\ edits' = edits + 1
    /\ file' = [file EXCEPT ![p] = v]
    /\ events' = events \cup {p}
    /\ UNCHANGED <<storeVars, up, serverDims, onBattery, faults, outages, drifts,
                   procVars>>

\* The watcher's window closes over a changed path.
EventArrives(p) ==
    /\ pc # "down"
    /\ p \in events
    /\ events' = events \ {p}
    /\ pending' = pending \cup {p}
    /\ UNCHANGED <<storeVars, file, up, serverDims, onBattery, counters, pc,
                   build, todo, flags, drainVars>>

EndpointDown ==
    /\ up
    /\ outages < MaxOutages
    /\ outages' = outages + 1
    /\ up' = FALSE
    /\ UNCHANGED <<storeVars, file, events, serverDims, onBattery, edits, faults,
                   drifts, procVars>>

EndpointUp ==
    /\ ~up
    /\ up' = TRUE
    /\ UNCHANGED <<storeVars, file, events, serverDims, onBattery, counters,
                   procVars>>

\* The server serves another dimension count under the same model name.
EndpointDrifts ==
    /\ LiveDrift \/ pc = "down"
    /\ drifts < MaxDrifts
    /\ drifts' = drifts + 1
    /\ \E d \in Dims \ {serverDims} : serverDims' = d
    /\ UNCHANGED <<storeVars, file, events, up, onBattery, edits, faults,
                   outages, procVars>>

Unplug ==
    /\ ~onBattery
    /\ outages < MaxOutages
    /\ outages' = outages + 1
    /\ onBattery' = TRUE
    /\ UNCHANGED <<storeVars, file, events, up, serverDims, edits, faults,
                   drifts, procVars>>

PlugIn ==
    /\ onBattery
    /\ onBattery' = FALSE
    /\ UNCHANGED <<storeVars, file, events, up, serverDims, counters, procVars>>

\* Time passes: a backoff or the probe's recheck interval runs out.
RetryDue(h) ==
    /\ BackoffElapses(h)
    /\ UNCHANGED <<envVars, counters, procVars>>

ProbeDue ==
    /\ probeHold
    /\ probeHold' = FALSE
    /\ UNCHANGED <<storeVars, envVars, counters, pc, build, pending, todo,
                   needFull, needQueue, sweptVersions, sweptDims, walked,
                   deferring, drainVars>>

-----------------------------------------------------------------------------
\* What the scheduler goroutine does by itself.
Work ==
    \/ Start
    \/ WakeToWalk
    \/ WakeNoWalk
    \/ \E p \in Path : WalkPath(p)
    \/ WalkDone
    \/ \E p \in Path : Reconcile(p)
    \/ TakeSweep
    \/ SweepStep
    \/ SweepDone
    \/ Gate
    \/ VersionSweep
    \/ Claim
    \/ PrepareOK
    \/ PrepareFails
    \/ Prepared
    \/ DimsSweep
    \/ BatchDone
    \/ \E h \in Hash : GetWork(h)
    \/ ChunkContent
    \/ NormalizeFails
    \/ ContentChanged
    \/ ContentUnreadable
    \/ EmbedOK
    \/ EmbedWrongDims
    \/ EmbedTransient
    \/ EmbedRejected
    \/ Finalize
    \/ RecordFailure
    \/ GiveUp
    \/ RetryProbeOK
    \/ RetryProbeFails
    \/ Charge
    \/ ChargeLast

Failure ==
    \/ WalkFails
    \/ ReconcileFails
    \/ SweepFails
    \/ StoreFails
    \/ EnsureFails
    \/ Crash

World ==
    \/ \E p \in Path, v \in Hash \cup {Absent, Denied, Placeholder} : Edit(p, v)
    \/ \E p \in Path : EventArrives(p)
    \/ EndpointDown
    \/ EndpointUp
    \/ EndpointDrifts
    \/ Unplug
    \/ PlugIn
    \/ \E h \in Hash : RetryDue(h)
    \/ ProbeDue

Next == Work \/ Failure \/ World

Spec == Init /\ [][Next]_vars

\* The goroutine keeps running and is restarted when it dies (launchd's
\* KeepAlive); a walk falls due again and again; outages end; time passes.
Fairness ==
    /\ WF_vars(Work)
    /\ SF_vars(WakeToWalk)
    /\ WF_vars(EndpointUp)
    /\ WF_vars(PlugIn)
    /\ \A h \in Hash : WF_vars(RetryDue(h))
    /\ WF_vars(ProbeDue)

FairSpec == Spec /\ Fairness

-----------------------------------------------------------------------------
(* What the daemon promises.                                               *)

\* Terminal rows carry the stage versions they were produced under: indexed
\* or failed, by either route to failed, a later configuration can tell the
\* row is stale (failWith's first write, ResetStale).
TerminalIsStamped ==
    \A h \in Hash : state[h] \in Terminal =>
        stamp[h]["build"] # NULL /\ stamp[h]["embedding_dims"] # NULL

\* The generation a content's stamp names.
StampedGeneration(h) == <<ModelOf[stamp[h]["build"]], stamp[h]["embedding_dims"]>>

\* The stamp of indexed content names the generation that holds a vector for
\* every one of its chunks: StageVersions "records which version of each
\* pipeline stage produced this content's derived data", across crashes
\* between StoreChunks, UpsertVectors and UpdateContentState.
StampNamesGeneration ==
    \A h \in Hash : state[h] = "indexed" => chunks[h] \subseteq vectors[StampedGeneration(h)]

\* Chunks stored under a hash were cut from bytes with that hash, even when
\* the file changes while its content is queued (readVerified).  Chunks are told
\* apart by how many there are: the runs give contents different counts.
ChunksAreOfTheBytes ==
    \A h \in Hash : state[h] \in {"chunked", "indexed"} =>
        Cardinality(chunks[h]) = ChunkCount[h]

\* Inside ProcessContent the row exists and is referenced, and the ids being
\* embedded are exactly the content's chunks, so neither ErrContentGone nor
\* ErrContentSuperseded can come out of it ("the single-writer invariant",
\* ADR 0014): deletions and sweeps only happen between contents.  The comments at
\* the two places that handle these errors say otherwise: that a row swept between
\* the re-read and the write is "routine" (scheduler.go:1117), and that a sweep and
\* a re-chunk land inside an embed (pipeline.go:355).  It takes a second writer,
\* such as a predecessor that still flushes; Store has any number of them.
ProcessingIsUndisturbed ==
    /\ item # NULL => Stored(item) /\ PathsOf(item) # {}
    /\ pc = "embed" => held[Me] = chunks[item]

\* A drain visits a content at most once, so it ends whatever the outcomes
\* leave claimable.
DrainEnds == (pc = "drain") ~> (pc \in {"wait", "down"})

\* Up to date: the catalog mirrors the disk, and what is on disk is terminal
\* under the running configuration, with every chunk in the generation search
\* uses.
Settled(h) ==
    /\ state[h] \in Terminal
    /\ stamp[h]["build"] = build /\ stamp[h]["embedding_dims"] = serverDims
    /\ state[h] = "indexed" => chunks[h] \subseteq vectors[current]

UpToDate ==
    \A p \in Path :
       /\ file[p] = Absent => documents[p] = NoDoc
       /\ file[p] \in Hash => documents[p] = file[p] /\ Settled(file[p])

\* Once files, endpoint and process stay as they are, the index becomes and
\* stays up to date: after lost events, failed store calls, crashes half-way
\* through a content, restarts under another configuration.
Converges == <>[]UpToDate

SweepArmed == needFull \/ needQueue \/ sweepScope # NULL

\* A version sweep re-queues terminal rows, referenced or not, and a row that
\* loses its hash to a placeholder is not counted as a producer.
LeavesOrphans ==
    \/ <<sweptVersions, sweptDims>>' # <<sweptVersions, sweptDims>>
    \/ \E p \in Path : documents[p] \in Hash /\ documents'[p] = Unread

\* Non-terminal content nobody refers to is "collected eagerly" (SweepScope):
\* as long as there is some, a sweep is armed or running, through failed sweeps,
\* failed walks and crashes.  Only the two steps above leave some behind.
OrphansAreCollected ==
    [][\A h \in Hash :
          Orphaned(h, "queue")' /\ ~SweepArmed' =>
             LeavesOrphans \/ (Orphaned(h, "queue") /\ ~SweepArmed)]_vars
=============================================================================
