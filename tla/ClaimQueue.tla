----------------------------- MODULE ClaimQueue -----------------------------
(***************************************************************************)
(* Who gets worked on: the order of ClaimBatch (internal/adapters/sqlite,  *)
(* queue.go) under the drain that calls it again and again with a memory   *)
(* of what it has already handled (internal/scheduler, drain and process). *)
(* A claim reserves nothing: it is three quarters newest and one quarter   *)
(* oldest of the rows due now, whether or not they can be worked.          *)
(*                                                                         *)
(* Module Indexer says what happens to a claimed content; here an outcome  *)
(* is what it leaves of the row: done with, rescheduled, or untouched.     *)
(***************************************************************************)
EXTENDS Naturals, FiniteSets

CONSTANTS
    Hash,         \* content hashes
    Unreadable,   \* contents no copy of which can be read, for now
    Edited,       \* contents whose copies are rewritten before discovery has seen it
    Flaky,        \* contents a healthy endpoint may fail on transiently
    Limit,        \* batchSize
    AgingShare,   \* agingShare: one row in so many is the oldest
    MaxAttempts,  \* the attempt cap
    MaxNow        \* bound: the clock, in seconds

ASSUME QueueAssumption ==
    /\ Hash \subseteq Nat /\ IsFiniteSet(Hash)
    /\ Unreadable \subseteq Hash /\ Edited \subseteq Hash /\ Flaky \subseteq Hash
    /\ Limit \in Nat \ {0} /\ AgingShare \in Nat \ {0}
    /\ MaxAttempts \in Nat \ {0} /\ MaxNow \in Nat

VARIABLES
    status,    \* no row, due, waiting for next_retry_at, or terminal
    updated,   \* updated_at, to the second
    attempts,
    now,
    pc,        \* the drain: idle, claiming, or working a batch
    seen,      \* contents this drain has handled
    batch      \* claimed rows it has not reached

rowVars == <<status, updated, attempts>>
vars    == <<rowVars, now, pc, seen, batch>>

Init ==
    /\ status = [h \in Hash |-> "none"]
    /\ updated = [h \in Hash |-> 0]
    /\ attempts = [h \in Hash |-> 0]
    /\ now = 0
    /\ pc = "idle"
    /\ seen = {} /\ batch = {}

-----------------------------------------------------------------------------
(* ClaimBatch.                                                             *)

Due == {h \in Hash : status[h] = "due"}

\* ORDER BY updated_at DESC, content_hash DESC: the hash breaks the ties of a
\* clock that counts seconds.
Newer(a, b) == updated[a] > updated[b] \/ (updated[a] = updated[b] /\ a > b)

AgingRows  == Limit \div AgingShare
RecentRows == Limit - AgingRows

Newest(n) == {h \in Due : Cardinality({g \in Due : Newer(g, h)}) < n}
Oldest(n) == {h \in Due : Cardinality({g \in Due : Newer(h, g)}) < n}

\* The aging slice left out.
ClaimRecentOnly == Newest(RecentRows)

\* The two slices, the overlap collapsed.
ClaimBatch == Newest(RecentRows) \cup Oldest(AgingRows)

-----------------------------------------------------------------------------
(* Rows become due.                                                        *)

\* Discovery writes a content row, stamped with the second it is.
Discovered(h) ==
    /\ status[h] = "none"
    /\ status' = [status EXCEPT ![h] = "due"]
    /\ updated' = [updated EXCEPT ![h] = now]
    /\ UNCHANGED <<attempts, now, pc, seen, batch>>

RetryDue(h) ==
    /\ status[h] = "waiting"
    /\ status' = [status EXCEPT ![h] = "due"]
    /\ UNCHANGED <<updated, attempts, now, pc, seen, batch>>

Tick ==
    /\ now < MaxNow
    /\ now' = now + 1
    /\ UNCHANGED <<rowVars, pc, seen, batch>>

-----------------------------------------------------------------------------
(* The drain.                                                              *)

BeginDrain ==
    /\ pc = "idle"
    /\ pc' = "claim"
    /\ UNCHANGED <<rowVars, now, seen, batch>>

\* A claim that names nothing new ends the drain.
Claim ==
    /\ pc = "claim"
    /\ batch' = ClaimBatch \ seen
    /\ IF batch' = {} THEN pc' = "idle" /\ seen' = {}
       ELSE pc' = "work" /\ UNCHANGED seen
    /\ UNCHANGED <<rowVars, now>>

\* One claimed content is handled.
Handled(h) ==
    /\ pc = "work"
    /\ h \in batch
    /\ batch' = batch \ {h}
    /\ seen' = seen \cup {h}
    /\ pc' = IF batch' = {} THEN "claim" ELSE "work"
    /\ UNCHANGED now

\* OutcomeSkipped: the row is untouched, updated_at included.
Skip(h) ==
    /\ Handled(h)
    /\ h \in Unreadable
    /\ UNCHANGED rowVars

\* OutcomeIndexed and OutcomeFailed.
Finish(h) ==
    /\ Handled(h)
    /\ h \notin Unreadable
    /\ status' = [status EXCEPT ![h] = "terminal"]
    /\ updated' = [updated EXCEPT ![h] = now]
    /\ UNCHANGED attempts

\* OutcomeTransient and OutcomeSuperseded: an attempt is charged and the row
\* waits, perhaps no time at all (full jitter); at the cap it is terminal.
Transient(h) ==
    /\ Handled(h)
    /\ h \in Flaky \ Unreadable
    /\ attempts' = [attempts EXCEPT ![h] = @ + 1]
    /\ status' \in {[status EXCEPT ![h] = s] :
                       s \in IF attempts'[h] >= MaxAttempts THEN {"terminal"}
                             ELSE {"waiting", "due"}}
    /\ updated' = [updated EXCEPT ![h] = now]

\* OutcomeChanged: readable, but no copy has these bytes any more.  The row
\* waits out the backoff cap, with no attempt charged.
Changed(h) ==
    /\ Handled(h)
    /\ h \in Edited \ Unreadable
    /\ status' = [status EXCEPT ![h] = "waiting"]
    /\ updated' = [updated EXCEPT ![h] = now]
    /\ UNCHANGED attempts

Drain ==
    \/ BeginDrain
    \/ Claim
    \/ \E h \in Hash : Skip(h) \/ Finish(h) \/ Changed(h) \/ Transient(h)

Next ==
    \/ Drain
    \/ \E h \in Hash : Discovered(h) \/ RetryDue(h)
    \/ Tick

Spec == Init /\ [][Next]_vars

\* Drains go on: the scheduler's timer fires again and again.
FairSpec == Spec /\ WF_vars(Drain)
-----------------------------------------------------------------------------
(* What the order promises.                                                *)

\* A drain that ends with due rows it never reached ended on a full batch of
\* rows it had already handled: the two slices together never return less than
\* the limit while there is that much due.
DrainStopsOnFullBatch ==
    [][pc = "claim" /\ pc' = "idle" =>
          Due \subseteq seen \/ Cardinality(Due \cap seen) >= Limit]_vars

\* No backlog starves (ClaimBatch: "worked before a backlog without the backlog
\* ever starving"): readable content that is due does not stay due.
NothingStarves ==
    \A h \in Hash \ Unreadable : status[h] = "due" ~> status[h] # "due"
=============================================================================
