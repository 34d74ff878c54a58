--------------------------- MODULE LifecycleProofs --------------------------
(* Theorems about any number of daemons around one lock, one socket path   *)
(* and one database, with any number of signals, kills and failed starts.  *)
EXTENDS Lifecycle, TLAPS

\* The stages at which a daemon holds the lock, accepts, owns the node at the
\* path, may have the database open, and may be indexing.
Locked    == {"locked", "cleared", "bound", "opened", "serving", "closing",
              "unlinked", "deaf"}
Accepting == {"bound", "opened", "serving", "closing", "unlinked"}
Owning    == {"bound", "opened", "serving", "closing"}
Open      == {"opened", "serving", "closing", "unlinked", "deaf", "draining",
              "stopping", "stopped"}
Running   == Open \ {"opened", "stopped"}

\* The inductive invariant: every resource follows from the stage, and the
\* lock, held at every stage that owns the node or accepts, is what makes the
\* holder unique.
StageInv ==
    /\ lock \in Daemon \cup {None}
    /\ node \in Daemon \cup {None, Stale}
    /\ listening \in SUBSET Daemon
    /\ writer \in SUBSET Daemon /\ indexing \in SUBSET Daemon
    /\ pc \in [Daemon -> Stages]
    /\ stops \in Nat /\ faults \in Nat
    /\ \A d \in Daemon :
          /\ pc[d] \in Locked <=> lock = d
          /\ pc[d] \in Accepting <=> d \in listening
          /\ pc[d] \in Owning <=> node = d
          /\ d \in writer => pc[d] \in Open
          /\ d \in indexing => d \in writer /\ pc[d] \in Running

\* What a stage implies for the promises.
LEMMA StageGivesPromises ==
    StageInv => LifecycleTypeOK /\ OneListener /\ Reachable /\ IndexingHasItsWriter
<1> SUFFICES ASSUME StageInv
             PROVE  LifecycleTypeOK /\ OneListener /\ Reachable /\ IndexingHasItsWriter
  OBVIOUS
<1> USE DEF StageInv, Locked, Accepting, Owning, Open, Running
<1>1. LifecycleTypeOK
  BY DEF LifecycleTypeOK
<1>2. OneListener
  BY DEF OneListener
<1>3. Reachable
  BY DEF Reachable
<1>4. IndexingHasItsWriter
  BY DEF IndexingHasItsWriter
<1>. QED
  BY <1>1, <1>2, <1>3, <1>4

\* Nobody holds anything at first, whatever node an earlier process left.
LEMMA StageInit == Init => StageInv
  BY LifecycleAssumption
  DEF Init, StageInv, Stages, Locked, Accepting, Owning, Open, Running

\* Every stage takes and gives up what its name says.
LEMMA StageStep == StageInv /\ [Next]_vars => StageInv'
<1> SUFFICES ASSUME StageInv, [Next]_vars
             PROVE  StageInv'
  OBVIOUS
<1> USE LifecycleAssumption DEF StageInv, Stages, Locked, Accepting, Owning, Open, Running
<1>1. ASSUME NEW d \in Daemon, TakeLock(d)
      PROVE  StageInv'
  BY <1>1 DEF TakeLock, Go
<1>2. ASSUME NEW d \in Daemon, ClearStaleSocket(d)
      PROVE  StageInv'
  BY <1>2 DEF ClearStaleSocket, Go
<1>3. ASSUME NEW d \in Daemon, Bind(d)
      PROVE  StageInv'
  BY <1>3 DEF Bind, Go
<1>4. ASSUME NEW d \in Daemon, OpenWriter(d)
      PROVE  StageInv'
  BY <1>4 DEF OpenWriter, Go
<1>5. ASSUME NEW d \in Daemon, Serve(d)
      PROVE  StageInv'
  BY <1>5 DEF Serve, Go
<1>6. ASSUME NEW d \in Daemon, Unlink(d)
      PROVE  StageInv'
  BY <1>6 DEF Unlink, Go
<1>7. ASSUME NEW d \in Daemon, CloseSocket(d)
      PROVE  StageInv'
  BY <1>7 DEF CloseSocket, Go
<1>8. ASSUME NEW d \in Daemon, ReleaseLock(d)
      PROVE  StageInv'
  BY <1>8 DEF ReleaseLock, Go
<1>9. ASSUME NEW d \in Daemon, Drained(d)
      PROVE  StageInv'
  BY <1>9 DEF Drained, Go
<1>10. ASSUME NEW d \in Daemon, IndexingStops(d)
       PROVE  StageInv'
  BY <1>10 DEF IndexingStops, Go
<1>11. ASSUME NEW d \in Daemon, CloseIndexer(d)
       PROVE  StageInv'
  BY <1>11 DEF CloseIndexer, Go
<1>12. ASSUME NEW d \in Daemon, Exit(d)
       PROVE  StageInv'
  BY <1>12 DEF Exit, Go
<1>13. ASSUME NEW d \in Daemon, StartFails(d)
       PROVE  StageInv'
  BY <1>13 DEF StartFails, Go
<1>14. ASSUME NEW d \in Daemon, Signal(d)
       PROVE  StageInv'
  BY <1>14 DEF Signal, Go
<1>15. ASSUME NEW d \in Daemon, Kill(d)
       PROVE  StageInv'
  BY <1>15 DEF Kill, Go
<1>16. CASE UNCHANGED vars
  BY <1>16 DEF vars
<1>. QED
  BY <1>1, <1>2, <1>3, <1>4, <1>5, <1>6, <1>7, <1>8, <1>9, <1>10, <1>11, <1>12, <1>13,
     <1>14, <1>15, <1>16 DEF Next, Run

\* Whatever is killed or fails to start, a daemon that is off holds nothing.
THEOREM LifecycleTypeCorrect == Spec => []LifecycleTypeOK
  BY StageInit, StageStep, StageGivesPromises, PTL DEF Spec

\* Of any number of daemons at most one accepts connections, handovers and
\* kills included.
THEOREM SingleListener == Spec => []OneListener
  BY StageInit, StageStep, StageGivesPromises, PTL DEF Spec

\* A daemon that serves owns the socket at the path, whoever starts, stops or
\* dies around it.
THEOREM ServingIsReachable == Spec => []Reachable
  BY StageInit, StageStep, StageGivesPromises, PTL DEF Spec

\* No scheduler runs on a database its process has closed.
THEOREM WriterOutlivesScheduler == Spec => []IndexingHasItsWriter
  BY StageInit, StageStep, StageGivesPromises, PTL DEF Spec
=============================================================================
