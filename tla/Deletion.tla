------------------------------ MODULE Deletion ------------------------------
(***************************************************************************)
(* A full scan: the walk that upserts what exists and, behind it, the pass *)
(* that deletes what does not (internal/discovery, Scan and                *)
(* reconcileDeleted).  Deleting is the one thing discovery cannot take     *)
(* back cheaply, and a drive that is not plugged in looks exactly like its *)
(* files deleted, so the pass remembers in the database which mount points *)
(* it has seen and leaves alone what lies beneath one that is missing now. *)
(*                                                                         *)
(* The scanner is one goroutine; the disk, the mount table and directory   *)
(* permissions change under it between any two of its steps.  Paths are    *)
(* numbered in catalog order.  A prefix (a root, a mount point, a refused  *)
(* directory) is the set of paths beneath it.  The mount point "/" holds   *)
(* everything and is always mounted, so it never declines a row: it is     *)
(* left out, and a readable mount table is one that names it.              *)
(***************************************************************************)
EXTENDS Naturals, FiniteSets

CONSTANTS
    Path,        \* catalog paths, in path order
    Volume,      \* mount points other than "/"
    Root,        \* include roots, none nested in another
    None,        \* no volume: the startup disk
    On,          \* the volume a path lies on
    RootOf,      \* the root a path lies under
    RootOn,      \* the volume a root itself lies on
    Linked,      \* roots configured through a symlink
    Config,      \* configurations: include roots and deny-listed paths
    PageSize,    \* flushEvery
    MaxChanges,  \* bound: changes of disk, mounts and permissions
    MaxFaults    \* bound: failed calls, cancellations, restarts

ASSUME DeletionAssumption ==
    /\ Path \subseteq Nat \ {0} /\ IsFiniteSet(Path)
    /\ None \notin Volume
    /\ On \in [Path -> Volume \cup {None}]
    /\ RootOf \in [Path -> Root]
    /\ RootOn \in [Root -> Volume \cup {None}]
    /\ Linked \subseteq Root
    /\ Config \subseteq [include : SUBSET Root, deny : SUBSET Path]
    /\ Config # {}
    /\ PageSize \in Nat \ {0}
    /\ MaxChanges \in Nat /\ MaxFaults \in Nat

VARIABLES
    mounted,     \* volumes mounted now
    disk,        \* what each path holds on its own volume
    sealed,      \* paths beneath a directory the daemon may not read
    gone,        \* root directories removed, or moved elsewhere
    config,      \* paths.include and the exclude rules
    rows,        \* the catalog: paths with a documents row
    memory,      \* meta discovery.mounts: absent, corrupt, or a set
    pc,          \* where the scan is
    todo,        \* roots the walk has not reached
    roots,       \* coverage.roots
    unresolved,  \* coverage.unresolved
    unknown,     \* coverage.unknown, as the paths beneath its prefixes
    recall,      \* what KnownMounts answered
    known,       \* the remembered mounts the pass works with
    answered,    \* whether the mount table could be read
    live,        \* the mount table as it was read
    cursor,      \* the last path of the page
    batch,       \* rows of the page not yet judged
    short,       \* the page was not full
    vanished,    \* rows of the page to delete
    outOfScope,  \* rows of the page to prune
    occupied,    \* remembered mounts seen to hold rows
    kept,        \* rows whose file was seen in place
    counted,     \* rows in Result.Unverified or Result.Ignored
    owed,        \* history: volumes recorded, with rows ever since
    moved,       \* history: volumes plugged or unplugged during the scan
    stirred,     \* history: paths whose disk state changed during the scan
    changes,     \* changes so far
    faults       \* faults so far

diskVars  == <<mounted, disk, sealed, gone>>
dataVars  == <<config, rows, memory>>
covVars   == <<todo, roots, unresolved, unknown>>
mountVars == <<recall, known, answered, live>>
pageVars  == <<cursor, batch, short, vanished, outOfScope>>
tallyVars == <<occupied, kept, counted>>
ghostVars == <<owed, moved, stirred>>
vars == <<diskVars, dataVars, pc, covVars, mountVars, pageVars, tallyVars,
          ghostVars, changes, faults>>

NoMemory == [state |-> "absent", vols |-> {}]
Corrupted == [state |-> "corrupt", vols |-> {}]

Recorded(V) == [state |-> "set", vols |-> V]

DeletionTypeOK ==
    /\ mounted \subseteq Volume
    /\ disk \in [Path -> {"file", "other", "absent", "behind"}]
    /\ sealed \subseteq Path /\ gone \subseteq Root
    /\ config \in Config
    /\ rows \subseteq Path
    /\ memory \in [state : {"absent", "corrupt", "set"}, vols : SUBSET Volume]
    /\ pc \in {"idle", "walk", "recall", "mounts", "learn", "list", "judge",
               "delete", "prune", "forget", "decline"}
    /\ todo \subseteq Root /\ roots \subseteq Root /\ unresolved \in BOOLEAN
    /\ unknown \subseteq Path
    /\ recall \in {"none", "known", "corrupt", "failed"}
    /\ known \subseteq Volume /\ answered \in BOOLEAN /\ live \subseteq Volume
    /\ cursor \in Nat /\ batch \subseteq Path /\ short \in BOOLEAN
    /\ vanished \subseteq Path /\ outOfScope \subseteq Path
    /\ occupied \subseteq Volume /\ kept \subseteq Path /\ counted \subseteq Path
    /\ owed \subseteq Volume /\ moved \subseteq Volume /\ stirred \subseteq Path
    /\ changes \in Nat /\ faults \in Nat

Init ==
    /\ mounted \in SUBSET Volume
    /\ disk = [p \in Path |-> "file"]
    /\ sealed = {} /\ gone = {}
    /\ config \in Config
    /\ rows \in SUBSET Path          \* a catalog from before the memory existed
    /\ memory = NoMemory
    /\ pc = "idle"
    /\ todo = {} /\ roots = {} /\ unresolved = FALSE /\ unknown = {}
    /\ recall = "none" /\ known = {} /\ answered = TRUE /\ live = {}
    /\ cursor = 0 /\ batch = {} /\ short = FALSE
    /\ vanished = {} /\ outOfScope = {}
    /\ occupied = {} /\ kept = {} /\ counted = {}
    /\ owed = {} /\ moved = {} /\ stirred = {}
    /\ changes = 0 /\ faults = 0

-----------------------------------------------------------------------------
(* The world.  A path holds an indexable file, something else (a directory,*)
(* a symlink, a binary), nothing, or it is "behind" a symlink that took    *)
(* the place of its directory, through which a stat may find anything.     *)

\* The volume of a path is there, and so is the directory it is sought in.
Attached(p) == On[p] \in mounted \cup {None}
Reachable(p) == Attached(p) /\ RootOf[p] \notin gone

Beneath(r) == {p \in Path : RootOf[p] = r}

\* A volume with files beneath a root that is itself on another.
Inside(v, r) == v # RootOn[r] /\ \E p \in Beneath(r) : On[p] = v

\* os.Lstat of a catalog path, at this moment.
Lstat(p) ==
    IF ~Reachable(p) THEN {"absent"}
    ELSE IF p \in sealed THEN {"error"}
    ELSE IF disk[p] = "behind" THEN {"file", "absent"}
    ELSE {disk[p]}

\* What a row lies beneath, by configuration alone.
Configured(p) == RootOf[p] \in config.include /\ p \notin config.deny

Change ==
    /\ changes < MaxChanges
    /\ changes' = changes + 1
    /\ UNCHANGED <<dataVars, pc, covVars, mountVars, pageVars, tallyVars,
                   owed, faults>>

\* A file is written, deleted or replaced, or its directory becomes a link.
ChangeFile(p) ==
    /\ Change
    /\ Reachable(p)
    /\ \E d \in {"file", "other", "absent", "behind"} \ {disk[p]} :
         disk' = [disk EXCEPT ![p] = d]
    /\ stirred' = stirred \cup {p}
    /\ UNCHANGED <<mounted, sealed, gone, moved>>

Plug(v) ==
    /\ Change
    /\ v \notin mounted
    /\ \A r \in gone : ~Inside(v, r)
    /\ mounted' = mounted \cup {v}
    /\ moved' = moved \cup {v}
    /\ UNCHANGED <<disk, sealed, gone, stirred>>

Unplug(v) ==
    /\ Change
    /\ v \in mounted
    /\ mounted' = mounted \ {v}
    /\ moved' = moved \cup {v}
    /\ UNCHANGED <<disk, sealed, gone, stirred>>

\* Full Disk Access is revoked for a directory, or granted again.
Seal(p) ==
    /\ Change
    /\ sealed' = IF p \in sealed THEN sealed \ {p} ELSE sealed \cup {p}
    /\ UNCHANGED <<mounted, disk, gone, moved, stirred>>

\* A root directory goes away, with all that is in it, or comes back.  It does
\* neither while a volume is mounted inside it.
MoveRoot(r) ==
    /\ Change
    /\ RootOn[r] \in mounted \cup {None}
    /\ \A v \in mounted : ~Inside(v, r)
    /\ gone' = IF r \in gone THEN gone \ {r} ELSE gone \cup {r}
    /\ stirred' = stirred \cup Beneath(r)
    /\ UNCHANGED <<mounted, disk, sealed, moved>>

-----------------------------------------------------------------------------
(* The scan's ends.  Whatever stops it, only the database survives.        *)

Held(V, R) == {v \in V : \E p \in R : On[p] = v}

EndScan ==
    /\ pc' = "idle"
    /\ todo' = {} /\ roots' = {} /\ unresolved' = FALSE /\ unknown' = {}
    /\ recall' = "none" /\ known' = {} /\ answered' = TRUE /\ live' = {}
    /\ cursor' = 0 /\ batch' = {} /\ short' = FALSE
    /\ vanished' = {} /\ outOfScope' = {}
    /\ occupied' = {} /\ kept' = {} /\ counted' = {}
    /\ moved' = {} /\ stirred' = {}

Fault ==
    /\ faults < MaxFaults
    /\ faults' = faults + 1

NoFault == UNCHANGED faults

\* A cancelled context, a fatal store error in the walk, ListPaths or a flush
\* that fails: the rest of the pass is given up.
GiveUp ==
    /\ pc # "idle"
    /\ Fault
    /\ EndScan
    /\ UNCHANGED <<diskVars, dataVars, owed, changes>>

\* The daemon is restarted, perhaps with an edited configuration.
Restart ==
    /\ Fault
    /\ config' \in Config
    /\ EndScan
    /\ UNCHANGED <<diskVars, rows, memory, owed, changes>>

\* The stored mount list is damaged: it will never parse again.
Corrupt ==
    /\ pc = "idle"
    /\ memory.state = "set"
    /\ Fault
    /\ memory' = Corrupted
    /\ owed' = {}
    /\ UNCHANGED <<diskVars, config, rows, pc, covVars, mountVars, pageVars,
                   tallyVars, moved, stirred, changes>>

-----------------------------------------------------------------------------
(* The walk.                                                               *)

\* A root that is not to be found: removed, or on a volume that is not mounted,
\* unless its mount point survived as an empty directory.
Missing(r) == r \in gone \/ RootOn[r] \notin mounted \cup {None}

\* A linked root whose target is missing dangles.
MayDangle == {r \in Linked \cap config.include : Missing(r)}

\* resolveRoots.  A dangling root stays in the set under a spelling no row
\* carries; one that fails with anything but ENOENT is dropped.  Either
\* suspends pruning.  A plain root that is missing passes through.
BeginScan(dangling, dropped) ==
    /\ pc = "idle"
    /\ dangling \subseteq MayDangle
    /\ dropped \subseteq config.include \ dangling
    /\ MayDangle \cap gone \subseteq dangling \cup dropped
    /\ IF dropped = {} THEN NoFault ELSE Fault
    /\ roots' = config.include \ (dangling \cup dropped)
    /\ todo' = config.include \ (dangling \cup dropped)
    /\ unresolved' = (dangling \cup dropped # {})
    /\ pc' = IF config.include = dropped THEN "decline" ELSE "walk"
    /\ moved' = {}
    /\ stirred' = {}
    /\ UNCHANGED <<diskVars, dataVars, unknown, mountVars, pageVars, tallyVars,
                   owed, changes>>

\* No root in scope: declineAll counts every row and touches none.
DeclineAll ==
    /\ pc = "decline"
    /\ EndScan
    /\ NoFault
    /\ UNCHANGED <<diskVars, dataVars, owed, changes>>

\* Rows the walk of root r would write now, and the prefixes it cannot vouch
\* for: refused directories, skipped links and, if gone, the root itself.
Found(r) == {p \in Path : /\ RootOf[p] = r /\ p \notin config.deny
                          /\ Lstat(p) = {"file"}}
Refused(r) == {p \in Path : /\ RootOf[p] = r /\ Reachable(p)
                            /\ p \in sealed \/ disk[p] = "behind"}

\* walkTree over one root, and the flush at its boundary.
WalkRoot(r, missing) ==
    /\ pc = "walk"
    /\ r \in todo
    /\ missing => Missing(r)
    /\ r \in gone => missing
    /\ rows' = rows \cup Found(r)
    /\ unknown' = unknown \cup IF missing THEN Beneath(r) ELSE Refused(r)
    /\ todo' = todo \ {r}
    /\ NoFault
    /\ UNCHANGED <<diskVars, config, memory, pc, roots, unresolved, mountVars,
                   pageVars, tallyVars, ghostVars, changes>>

WalkEnds ==
    /\ pc = "walk"
    /\ todo = {}
    /\ pc' = "recall"
    /\ NoFault
    /\ UNCHANGED <<diskVars, dataVars, covVars, mountVars, pageVars, tallyVars,
                   ghostVars, changes>>

-----------------------------------------------------------------------------
(* The evidence: what was remembered, what is mounted.                     *)

MemoryReadable == recall # "failed"

\* Nothing was on record when the pass began: a vanished file proves nothing.
Blind == recall # "known"

\* KnownMounts.  A value that does not parse counts as no memory at all; a
\* database that does not answer must not be written over.
Recall ==
    /\ pc = "recall"
    /\ pc' = "mounts"
    /\ \/ /\ recall' = CASE memory.state = "absent"  -> "none"
                         [] memory.state = "corrupt" -> "corrupt"
                         [] memory.state = "set"     -> "known"
          /\ known' = memory.vols
          /\ NoFault
       \/ /\ recall' = "failed"
          /\ known' = {}
          /\ Fault
    /\ UNCHANGED <<diskVars, dataVars, covVars, answered, live, pageVars,
                   tallyVars, ghostVars, changes>>

\* The remembered volumes a mount table does not name, and the rows on them.
Absent(table) == known \ table
OnAny(V) == {p \in Path : On[p] \in V}

\* mountPoints: the kernel's table at this moment, "/" left out.
MountPoints == mounted

\* Without a usable answer every root is unknown.
ReadMounts ==
    /\ pc = "mounts"
    /\ pc' = "learn"
    /\ \/ /\ answered' = TRUE
          /\ live' = MountPoints
          /\ unknown' = unknown \cup OnAny(Absent(MountPoints))
          /\ NoFault
       \/ /\ answered' = FALSE
          /\ live' = {}
          /\ unknown' = unknown \cup {p \in Path : RootOf[p] \in roots}
          /\ Fault
    /\ UNCHANGED <<diskVars, dataVars, todo, roots, unresolved, recall, known,
                   pageVars, tallyVars, ghostVars, changes>>

\* A mount point inside a root, or holding one.
InScope(v) == \E r \in roots :
    RootOn[r] = v \/ \E p \in Path : RootOf[p] = r /\ On[p] = v

\* An unreadable memory is taken for an empty one.
MayLearnUnread == answered

\* Whether the evidence of this pass may be written down.
MayLearn == answered /\ MemoryReadable

\* Only a changed set is written.
NewsOnly(next) == next # known

\* What is recorded is the observation, not the value.
Unwritten(next) == Blind \/ next # known

\* learnMounts.  Additive, before anything is deleted, and written even when
\* the set is unchanged if nothing had been recorded before.
Learn ==
    /\ pc = "learn"
    /\ pc' = "list"
    /\ LET next == known \cup {v \in live : InScope(v)}
       IN \/ /\ ~(MayLearn /\ Unwritten(next))
             /\ NoFault
             /\ UNCHANGED <<memory, known, owed>>
          \/ /\ MayLearn /\ Unwritten(next)
             /\ memory' = Recorded(next)
             /\ known' = next
             /\ owed' = Held(owed \cup next, rows)
             /\ NoFault
          \/ /\ MayLearn /\ Unwritten(next)
             /\ Fault
             /\ UNCHANGED <<memory, known, owed>>
    /\ UNCHANGED <<diskVars, config, rows, covVars, recall, answered, live,
                   pageVars, tallyVars, moved, stirred, changes>>

-----------------------------------------------------------------------------
(* The enumeration: a page, a verdict on each of its rows, two flushes.    *)

After(c) == {p \in rows : p > c}
Page(c) == {p \in After(c) : Cardinality({q \in After(c) : q < p}) < PageSize}

ListPage ==
    /\ pc = "list"
    /\ batch' = Page(cursor)
    /\ cursor' = IF Page(cursor) = {} THEN cursor
                 ELSE CHOOSE p \in Page(cursor) : \A q \in Page(cursor) : q <= p
    /\ short' = (Cardinality(Page(cursor)) < PageSize)
    /\ pc' = "judge"
    /\ NoFault
    /\ UNCHANGED <<diskVars, dataVars, covVars, mountVars, vanished, outOfScope,
                   tallyVars, ghostVars, changes>>

\* What the walk could not vouch for is judged by the stat.
VerdictByStat(p, stat) ==
    IF RootOf[p] \notin roots \/ p \in config.deny
    THEN IF unresolved THEN "ignore" ELSE "prune"
    ELSE CASE stat = "file"  -> "keep"
           [] stat = "error" -> "unverified"
           [] OTHER          -> IF Blind THEN "unverified" ELSE "delete"

\* Rows outside the resolved roots are pruned in every pass.
VerdictByRoots(p, stat) ==
    IF RootOf[p] \notin roots \/ p \in config.deny THEN "prune"
    ELSE IF p \in unknown THEN "unverified"
    ELSE CASE stat = "file"  -> "keep"
           [] stat = "error" -> "unverified"
           [] OTHER          -> IF Blind THEN "unverified" ELSE "delete"

\* A pass without volume evidence stands down and says nothing.
VerdictInSilence(p, stat) ==
    IF RootOf[p] \notin roots \/ p \in config.deny
    THEN IF unresolved THEN "ignore" ELSE "prune"
    ELSE IF p \in unknown THEN "unverified"
    ELSE CASE stat = "file"  -> "keep"
           [] stat = "error" -> "unverified"
           [] OTHER          -> IF Blind THEN "leave" ELSE "delete"

\* The guards, in the order that decides: the configuration first, then what
\* the walk cannot vouch for, then the stat.
Verdict(p, stat) ==
    IF RootOf[p] \notin roots \/ p \in config.deny
    THEN IF unresolved THEN "ignore" ELSE "prune"
    ELSE IF p \in unknown THEN "unverified"
    ELSE CASE stat = "file"   -> "keep"
           [] stat = "other"  -> "delete"
           [] stat = "error"  -> "unverified"
           [] stat = "absent" -> IF Blind THEN "unverified" ELSE "delete"

Judge ==
    /\ pc = "judge"
    /\ \E p \in batch :
         /\ \A q \in batch : p <= q
         /\ batch' = batch \ {p}
         /\ occupied' = occupied \cup (known \cap {On[p]})
         /\ \E stat \in Lstat(p) :
              /\ vanished' = IF Verdict(p, stat) = "delete"
                             THEN vanished \cup {p} ELSE vanished
              /\ outOfScope' = IF Verdict(p, stat) = "prune"
                               THEN outOfScope \cup {p} ELSE outOfScope
              /\ kept' = IF Verdict(p, stat) = "keep"
                         THEN kept \cup {p} ELSE kept
              /\ counted' = IF Verdict(p, stat) \in {"ignore", "unverified"}
                            THEN counted \cup {p} ELSE counted
    /\ NoFault
    /\ UNCHANGED <<diskVars, dataVars, pc, covVars, mountVars, cursor, short,
                   ghostVars, changes>>

PageJudged ==
    /\ pc = "judge"
    /\ batch = {}
    /\ pc' = "delete"
    /\ NoFault
    /\ UNCHANGED <<diskVars, dataVars, covVars, mountVars, pageVars, tallyVars,
                   ghostVars, changes>>

\* flushDeletes: a page is one DeleteByPaths transaction.
DeleteVanished ==
    /\ pc = "delete"
    /\ rows' = rows \ vanished
    /\ owed' = Held(owed, rows \ vanished)
    /\ vanished' = {}
    /\ pc' = "prune"
    /\ NoFault
    /\ UNCHANGED <<diskVars, config, memory, covVars, mountVars, cursor, batch,
                   short, outOfScope, tallyVars, moved, stirred, changes>>

PruneOutOfScope ==
    /\ pc = "prune"
    /\ rows' = rows \ outOfScope
    /\ owed' = Held(owed, rows \ outOfScope)
    /\ outOfScope' = {}
    /\ pc' = IF short THEN "forget" ELSE "list"
    /\ NoFault
    /\ UNCHANGED <<diskVars, config, memory, covVars, mountVars, cursor, batch,
                   short, vanished, tallyVars, moved, stirred, changes>>

\* What forgetEmptyMounts keeps: volumes that hold rows, or are mounted.
Remaining == {v \in known : v \in occupied \/ v \in live}

\* Only after a complete enumeration, and only if both sides were readable.
Forget ==
    /\ pc = "forget"
    /\ \/ /\ ~MayLearn \/ Remaining = known
          /\ NoFault
          /\ UNCHANGED memory
       \/ /\ MayLearn /\ Remaining # known
          /\ memory' = Recorded(Remaining)
          /\ NoFault
       \/ /\ MayLearn /\ Remaining # known
          /\ Fault
          /\ UNCHANGED memory
    /\ EndScan
    /\ UNCHANGED <<diskVars, config, rows, owed, changes>>

-----------------------------------------------------------------------------
World ==
    \/ \E p \in Path : ChangeFile(p) \/ Seal(p)
    \/ \E v \in Volume : Plug(v) \/ Unplug(v)
    \/ \E r \in Root : MoveRoot(r)

Scan ==
    \/ \E dangling, dropped \in SUBSET Root : BeginScan(dangling, dropped)
    \/ DeclineAll
    \/ \E r \in Root, missing \in BOOLEAN : WalkRoot(r, missing)
    \/ WalkEnds \/ Recall \/ ReadMounts \/ Learn
    \/ ListPage \/ Judge \/ PageJudged \/ DeleteVanished \/ PruneOutOfScope
    \/ Forget

Next == World \/ Scan \/ GiveUp \/ Restart \/ Corrupt

Spec == Init /\ [][Next]_vars

\* The scheduler walks again and again, and a walk it started goes on.
FairSpec == Spec /\ WF_vars(Scan)

-----------------------------------------------------------------------------
(* What the pass promises.                                                 *)

\* A volume once recorded stays recorded while the catalog holds rows on it:
\* no failed read, failed write, partial enumeration or restart loses the
\* evidence (only damage to the stored value does).
EvidenceIsKept == owed \subseteq memory.vols

\* A row is deleted as vanished only for a reason: its path changed during
\* this scan, or held no indexable file; or its volume was plugged or unplugged
\* during this scan; or its volume is away and was never recorded while it held
\* rows.  A recorded volume that is away for the whole scan loses nothing,
\* neither does a root that is, nor a directory the daemon was refused, whenever
\* that happened.
LostForAReason(p) ==
    \/ p \in stirred
    \/ disk[p] \notin {"file", "behind"}
    \/ On[p] \in moved
    \/ ~Attached(p) /\ On[p] \notin owed

DeletesOnEvidence ==
    [][pc = "delete" => \A p \in rows \ rows' : LostForAReason(p)]_vars

\* A row is pruned only if the configuration, not the state of some volume,
\* puts it out of scope.
PrunesByConfiguration ==
    [][pc = "prune" => \A p \in rows \ rows' : ~Configured(p)]_vars

\* When the enumeration is complete every row left was seen in place or is
\* counted as a decline: nothing is skipped in silence, on any page.
NothingIsSkipped == pc = "forget" => rows \subseteq kept \cup counted

\* Once the world is quiet the catalog agrees with the disk wherever the disk
\* can be read, and a configured scope takes effect unless a root dangles.
Settled ==
    \A p \in Path :
      /\ Configured(p) /\ Reachable(p) /\ p \notin sealed /\ disk[p] # "behind"
           => (p \in rows <=> disk[p] = "file")
      /\ ~Configured(p) /\ config.include # {} /\ MayDangle = {} => p \notin rows

CatalogFollowsTheDisk == <>[]Settled
=============================================================================
