------------------------- MODULE WatchHandoffProofs -------------------------
(* Theorems about the handoff for any set of paths, any buffer sizes and   *)
(* any number of changes, faults and shutdowns.                            *)
EXTENDS WatchHandoff, FiniteSetTheorems, TLAPS

\* Where the lists are: a walk or a list is in progress, or the process died.
ListInv ==
    /\ pc \notin {"walk", "paths", "flush", "stopped"} => todo = {}
    /\ pc \notin {"paths", "flush", "stopped"} => taken = {}

\* Between taking the set and the next wake, a path handed over has its hint.
HintInv ==
    pc \in {"wait", "paths", "drain"} /\ pending # {}
      => notify \/ wpc = "notify" \/ cancelled

\* A watcher that has not begun or has returned holds no window, and the flush
\* comes after it and after the cancellation.
FlushInv ==
    /\ wpc \in {"start", "done"} => window = EmptyBatch
    /\ pc \in {"flush", "flushed"} => wpc = "done" /\ pending = {}
    /\ pc \in {"stopping", "flush", "flushed", "exiting"} => cancelled

HandoffInv == HandoffTypeOK /\ ListInv /\ HintInv /\ FlushInv

-----------------------------------------------------------------------------
(* Types.                                                                  *)

\* The empty pending set and the empty channel are within their caps, and a
\* batch of nothing is one.
LEMMA Empties ==
    /\ Cardinality({}) <= PendingCap
    /\ EmptyBatch \in Batch
    /\ <<>> \in Seq(Batch) /\ Len(<<>>) <= OutBuffer
<1>1. Cardinality({}) = 0
  BY FS_EmptySet
<1>2. PendingCap \in Nat /\ OutBuffer \in Nat
  BY HandoffAssumption
<1>3. EmptyBatch \in Batch
  BY DEF EmptyBatch, Batch
<1>4. <<>> \in Seq(Batch) /\ Len(<<>>) = 0
  OBVIOUS
<1>. QED
  BY <1>1, <1>2, <1>3, <1>4

\* The out channel gains a batch at its end or loses its first.
LEMMA ChannelTypes ==
    ASSUME out \in Seq(Batch), batch \in Batch
    PROVE  /\ Append(out, batch) \in Seq(Batch)
           /\ Len(Append(out, batch)) = Len(out) + 1
           /\ out # <<>> => /\ Head(out) \in Batch /\ Tail(out) \in Seq(Batch)
                            /\ Len(Tail(out)) = Len(out) - 1 /\ Len(out) \in Nat
  OBVIOUS

\* Every step preserves the types and the bounds of both buffers.
LEMMA HandoffTypeStep ==
    ASSUME HandoffTypeOK, [Next]_vars
    PROVE  HandoffTypeOK'
<1> USE DEF HandoffTypeOK
<1>1. ASSUME NEW p \in Path, Touch(p) PROVE HandoffTypeOK'
  BY <1>1 DEF Touch, Batch, watchVars, sharedVars, schedVars
<1>2. CASE KernelDrops
  BY <1>2 DEF KernelDrops, Batch, watchVars, sharedVars, schedVars
<1>3. CASE Absorb
  BY <1>3, Empties DEF Absorb, Absorbed, Batch, watchVars, sharedVars, schedVars
<1>4. CASE Deliver
  BY <1>4, Empties, ChannelTypes, HandoffAssumption
     DEF Deliver, watchVars, sharedVars, schedVars
<1>5. CASE Receive
  <2>1. /\ Head(out) \in Batch /\ out' \in Seq(Batch) /\ Len(out') <= OutBuffer
    BY <1>5, ChannelTypes, HandoffAssumption DEF Receive
  <2>2. window' \in Batch
    BY <1>5, <2>1 DEF Receive, Batch
  <2>. QED
    BY <1>5, <2>1, <2>2 DEF Receive, sharedVars, schedVars
<1>6. CASE Subscribe \/ SubscribeFails \/ WindowEnds \/ CloseRefused
  BY <1>6 DEF Subscribe, SubscribeFails, WindowEnds, CloseRefused, pumpVars,
              watchVars, sharedVars, schedVars
<1>7. CASE CloseRescan \/ RefusePending
  BY <1>7 DEF CloseRescan, RefusePending, pumpVars, schedVars
<1>8. CASE CloseMerge
  <2>1. /\ window.paths \subseteq Path
        /\ pending' \subseteq Path /\ Cardinality(pending') <= PendingCap
    BY <1>8 DEF CloseMerge, Fits, Batch
  <2>. QED
    BY <1>8, <2>1 DEF CloseMerge, pumpVars, schedVars
<1>9. CASE Notify
  BY <1>9, Empties DEF Notify, pumpVars, schedVars
<1>10. CASE Start
  <2>1. pending' = {} /\ out' = <<>>
    BY <1>10 DEF Start, Fresh
  <2>2. Cardinality(pending') <= PendingCap /\ out' \in Seq(Batch) /\ Len(out') <= OutBuffer
    BY <2>1, Empties
  <2>. QED
    BY <1>10, <2>2, Empties DEF Start, Fresh
<1>11. CASE Wake \/ BeginWalk \/ NoWalk
  BY <1>11 DEF Wake, BeginWalk, NoWalk, pumpVars, watchVars, sharedVars
<1>12. ASSUME NEW p \in Path, Look(p) PROVE HandoffTypeOK'
  BY <1>12 DEF Look, pumpVars, watchVars, sharedVars
<1>13. CASE WalkDone \/ WalkFails
  BY <1>13 DEF WalkDone, WalkFails, pumpVars, watchVars, sharedVars
<1>14. CASE TakePending \/ Flush
  BY <1>14, Empties DEF TakePending, Flush, pumpVars, watchVars
<1>15. CASE PathsDone \/ PathsFail \/ FlushDone \/ FlushFails
  BY <1>15 DEF PathsDone, PathsFail, FlushDone, FlushFails, pumpVars, watchVars,
               sharedVars
<1>16. CASE PathsCancelled \/ FlushTimesOut
  BY <1>16 DEF PathsCancelled, FlushTimesOut, Fits, pumpVars, watchVars
<1>17. CASE DrainGoesOn \/ CycleEnds \/ Returns \/ Exit \/ Crash
  BY <1>17 DEF DrainGoesOn, CycleEnds, Returns, Exit, Crash, pumpVars, watchVars,
               sharedVars
<1>18. CASE Cancel
  BY <1>18 DEF Cancel, pumpVars, watchVars, sharedVars, schedVars
<1>19. CASE UNCHANGED vars
  BY <1>19 DEF vars, pumpVars, watchVars, sharedVars, schedVars
<1>. QED
  BY <1>1, <1>2, <1>3, <1>4, <1>5, <1>6, <1>7, <1>8, <1>9, <1>10, <1>11, <1>12,
     <1>13, <1>14, <1>15, <1>16, <1>17, <1>18, <1>19
     DEF Next, Pump, Watch, Schedule, Trouble

\* The lists are put away, the hint is sent and the flush waits.
LEMMA LabelStep ==
    ASSUME HandoffInv, [Next]_vars
    PROVE  (ListInv /\ HintInv /\ FlushInv)'
<1> USE DEF HandoffInv, ListInv, HintInv, FlushInv
<1>1. ASSUME NEW p \in Path, Touch(p) PROVE (ListInv /\ HintInv /\ FlushInv)'
  BY <1>1 DEF Touch, watchVars, sharedVars, schedVars
<1>2. CASE KernelDrops \/ Absorb \/ Deliver
  BY <1>2 DEF KernelDrops, Absorb, Deliver, watchVars, sharedVars, schedVars
<1>3. CASE Subscribe \/ SubscribeFails \/ WindowEnds \/ CloseRefused
  BY <1>3 DEF Subscribe, SubscribeFails, WindowEnds, CloseRefused, sharedVars,
              schedVars
<1>4. CASE Receive
  BY <1>4 DEF Receive, sharedVars, schedVars
<1>5. CASE CloseRescan \/ RefusePending \/ CloseMerge
  BY <1>5 DEF CloseRescan, RefusePending, CloseMerge, schedVars
<1>6. CASE Notify
  BY <1>6 DEF Notify, schedVars
<1>7. CASE Start
  BY <1>7 DEF Start, Fresh
<1>8. CASE Wake \/ BeginWalk \/ NoWalk
  BY <1>8 DEF Wake, BeginWalk, NoWalk, watchVars, sharedVars
<1>9. ASSUME NEW p \in Path, Look(p) PROVE (ListInv /\ HintInv /\ FlushInv)'
  BY <1>9 DEF Look, watchVars, sharedVars
<1>10. CASE WalkDone \/ WalkFails
  BY <1>10 DEF WalkDone, WalkFails, watchVars, sharedVars
<1>11. CASE TakePending \/ Flush
  BY <1>11 DEF TakePending, Flush, watchVars
<1>12. CASE PathsDone \/ PathsFail \/ FlushDone \/ FlushFails
  BY <1>12 DEF PathsDone, PathsFail, FlushDone, FlushFails, watchVars, sharedVars
<1>13. CASE PathsCancelled \/ FlushTimesOut
  BY <1>13 DEF PathsCancelled, FlushTimesOut, watchVars
<1>14. CASE DrainGoesOn \/ CycleEnds \/ Returns \/ Exit \/ Crash
  BY <1>14 DEF DrainGoesOn, CycleEnds, Returns, Exit, Crash, watchVars, sharedVars
<1>15. CASE Cancel
  BY <1>15 DEF Cancel, watchVars, sharedVars, schedVars
<1>16. CASE UNCHANGED vars
  BY <1>16 DEF vars, watchVars, sharedVars, schedVars
<1>. QED
  BY <1>1, <1>2, <1>3, <1>4, <1>5, <1>6, <1>7, <1>8, <1>9, <1>10, <1>11, <1>12,
     <1>13, <1>14, <1>15, <1>16 DEF Next, Pump, Watch, Schedule, Trouble

\* The invariant holds throughout.
THEOREM HandoffInvHolds == Spec => []HandoffInv
<1>1. Init => HandoffInv
  <2> SUFFICES ASSUME Init PROVE HandoffInv
    OBVIOUS
  <2>1. HandoffTypeOK
    <3>1. pending = {} /\ out = <<>>
      BY DEF Init
    <3>2. Cardinality(pending) <= PendingCap /\ out \in Seq(Batch) /\ Len(out) <= OutBuffer
      BY <3>1, Empties
    <3>. QED
      BY <3>2, Empties DEF Init, HandoffTypeOK
  <2>2. ListInv /\ HintInv /\ FlushInv
    BY DEF Init, ListInv, HintInv, FlushInv
  <2>. QED
    BY <2>1, <2>2 DEF HandoffInv
<1>2. HandoffInv /\ [Next]_vars => HandoffInv'
  BY HandoffTypeStep, LabelStep DEF HandoffInv
<1>. QED
  BY <1>1, <1>2, PTL DEF Spec

\* A scheduler that waits with paths handed over will be woken for them.
THEOREM HintArrives == Spec => []HintIsNotLost
<1>1. HandoffInv => HintIsNotLost
  BY DEF HandoffInv, HintInv, HintIsNotLost
<1>. QED
  BY <1>1, HandoffInvHolds, PTL

\* Nothing is handed over once the shutdown flush has taken the set.
THEOREM NothingAfterTheFlush == Spec => []FlushIsLast
<1>1. HandoffInv => FlushIsLast
  BY DEF HandoffInv, FlushInv, FlushIsLast
<1>. QED
  BY <1>1, HandoffInvHolds, PTL

-----------------------------------------------------------------------------
(* The refinement: owing a look is given up by looking alone.              *)

\* While this holds the daemon owes every path.
OwesAll ==
    \/ pc = "stopped" \/ cancelled
    \/ ~walked /\ pc # "walk"
    \/ forceScan \/ wpc = "refused"
    \/ \E b \in Batches : b.rescan

\* Otherwise it owes the paths something names.
Named(p) ==
    \/ p \in pending
    \/ \E b \in Batches : p \in b.paths
    \/ (forced \/ ~walked \/ taken # {}) /\ p \in todo

\* What is in the buffers is typed.
LEMMA BatchesTyped ==
    ASSUME HandoffTypeOK
    PROVE  Batches \subseteq Batch
  BY DEF HandoffTypeOK, Batches

\* The debt, path by path.
DebtIs == /\ Owed \subseteq Path
          /\ \A p \in Path : p \in Owed <=> OwesAll \/ Named(p)

\* Owed is what OwesAll and Named say.
LEMMA OwedIs == HandoffTypeOK => DebtIs
<1> SUFFICES ASSUME HandoffTypeOK PROVE DebtIs
  OBVIOUS
<1> DEFINE Told == UNION {b.paths : b \in Batches}
           Listed == IF forced \/ ~walked \/ taken # {} THEN todo ELSE {}
<1>1. Told \subseteq Path /\ \A p : p \in Told <=> \E b \in Batches : p \in b.paths
  BY BatchesTyped DEF Batch
<1>2. Listed \subseteq Path /\ pending \subseteq Path
  BY DEF HandoffTypeOK
<1>3. CASE OwesAll
  BY <1>3 DEF DebtIs, Owed, OwesAll
<1>4. CASE ~OwesAll
  <2>1. Owed = pending \cup Told \cup Listed
    BY <1>4 DEF Owed, OwesAll
  <2>2. \A p : Named(p) <=> p \in pending \/ p \in Told \/ p \in Listed
    BY <1>1 DEF Named
  <2> HIDE DEF Told, Listed
  <2>. QED
    BY <1>1, <1>2, <1>4, <2>1, <2>2 DEF DebtIs
<1>. QED
  BY <1>3, <1>4

\* A step that only adds to the debt is the ledger's Learn.
LEMMA DebtGrows ==
    ASSUME HandoffTypeOK, HandoffTypeOK', UNCHANGED stale,
           \A p \in Path : OwesAll \/ Named(p) => OwesAll' \/ Named(p)'
    PROVE  [Ledger!FreshNext]_(Ledger!freshVars)
<1>1. DebtIs
  BY OwedIs
<1>2. DebtIs'
  BY OwedIs, PTL
<1>3. Owed' = Owed \cup Owed' /\ Owed' \in SUBSET Path
  BY <1>1, <1>2 DEF DebtIs
<1>4. Ledger!Learn(Owed')
  BY <1>3 DEF Ledger!Learn
<1>. QED
  BY <1>3, <1>4 DEF Ledger!FreshNext

\* A batch changes hands on its way to the watcher: what it names stays named,
\* or the loss is on record as a rescan.
LEMMA BatchesPassOn ==
    ASSUME HandoffTypeOK, Absorb \/ Deliver \/ Receive
    PROVE  \A b \in Batches : \E c \in Batches' :
             c.rescan \/ (~b.rescan /\ b.paths \subseteq c.paths)
<1> SUFFICES ASSUME NEW b \in Batches
             PROVE  \E c \in Batches' :
                      c.rescan \/ (~b.rescan /\ b.paths \subseteq c.paths)
  OBVIOUS
<1>0. b \in Batch /\ b.rescan \in BOOLEAN
  BY BatchesTyped DEF Batch
<1>1. CASE b \in Batches'
  BY <1>0, <1>1
<1>2. CASE Absorb
  <2>1. batch' \in Batches' /\ (b # batch => b \in Batches')
    BY <1>2 DEF Absorb, Batches, watchVars
  <2>2. b = batch => batch'.rescan \/ (~b.rescan /\ b.paths \subseteq batch'.paths)
    BY <1>2 DEF Absorb, Absorbed
  <2>. QED
    BY <1>1, <2>1, <2>2
<1>3. CASE Deliver
  <2>1. out' = Append(out, batch) /\ UNCHANGED <<window, wpc>>
    BY <1>3 DEF Deliver, watchVars
  <2>2. /\ Len(out) + 1 \in DOMAIN out' /\ out'[Len(out) + 1] = batch
        /\ \A i \in DOMAIN out : i \in DOMAIN out' /\ out'[i] = out[i]
    BY <2>1 DEF HandoffTypeOK
  <2>3. b \in Batches'
    BY <2>1, <2>2 DEF Batches
  <2>. QED
    BY <1>1, <2>3
<1>4. CASE Receive
  <2>1. /\ wpc = "run" /\ wpc' = "run" /\ out # <<>> /\ out' = Tail(out)
        /\ batch' = batch
        /\ window' = [paths  |-> window.paths \cup Head(out).paths,
                      rescan |-> window.rescan \/ Head(out).rescan]
    BY <1>4 DEF Receive
  <2>2. window' \in Batches'
    BY <2>1 DEF Batches
  <2>3. ASSUME NEW i \in DOMAIN out, b = out[i], i # 1 PROVE b \in Batches'
    <3>1. i - 1 \in DOMAIN out' /\ out'[i - 1] = b
      BY <2>1, <2>3 DEF HandoffTypeOK
    <3>. QED
      BY <3>1 DEF Batches
  <2>4. b = window \/ b = Head(out) \/ b \in Batches'
    <3>1. b = batch \/ b = window \/ \E i \in DOMAIN out : b = out[i]
      BY <2>1 DEF Batches
    <3>2. b = batch => b \in Batches'
      BY <2>1 DEF Batches
    <3>. QED
      BY <2>3, <3>1, <3>2 DEF HandoffTypeOK
  <2>5. window'.rescan = (window.rescan \/ Head(out).rescan)
        /\ window'.paths = window.paths \cup Head(out).paths
    BY <2>1
  <2>. QED
    BY <1>0, <1>1, <2>2, <2>4, <2>5
<1>. QED
  BY <1>2, <1>3, <1>4

\* Looking at a path settles what was owed for it, unless it was named again.
LEMMA LookSettles ==
    ASSUME HandoffTypeOK, HandoffTypeOK', NEW p \in Path, Look(p)
    PROVE  Ledger!Look(p)
<1>1. Batches' = Batches
  BY DEF Look, Batches, pumpVars, watchVars
<1>2. /\ todo' = todo \ {p} /\ p \in todo /\ stale' = stale \ {p}
      /\ UNCHANGED <<pending, forceScan, wpc, pc, walked, forced, taken, cancelled>>
  BY DEF Look, watchVars, sharedVars
<1>3. OwesAll' <=> OwesAll
  BY <1>1, <1>2 DEF OwesAll
<1>4. \A q \in Path : q # p => (Named(q)' <=> Named(q))
  BY <1>1, <1>2 DEF Named
<1>5. Named(p)' => Named(p)
  BY <1>1, <1>2 DEF Named
<1>6. DebtIs /\ DebtIs'
  BY OwedIs, PTL
<1>7. Owed' = Owed \/ Owed' = Owed \ {p}
  BY <1>3, <1>4, <1>5, <1>6 DEF DebtIs
<1>. QED
  BY <1>2, <1>7 DEF Ledger!Look

\* Whatever a step does, the debt for a path other than the one looked at stays.
LEMMA DebtStays ==
    ASSUME HandoffInv, HandoffInv', [Next]_vars,
           ~\E p \in Path : Look(p) \/ Touch(p)
    PROVE  UNCHANGED stale /\ \A p \in Path : OwesAll \/ Named(p) => OwesAll' \/ Named(p)'
<1> USE DEF HandoffInv
<1>1. CASE KernelDrops
  <2>1. Batches' = Batches
    BY <1>1 DEF KernelDrops, Batches, watchVars
  <2>. QED
    BY <1>1, <2>1 DEF KernelDrops, OwesAll, Named, watchVars, sharedVars, schedVars
<1>2. CASE Absorb \/ Deliver \/ Receive
  <2>1. \A b \in Batches : \E c \in Batches' :
             c.rescan \/ (~b.rescan /\ b.paths \subseteq c.paths)
    BY <1>2, BatchesPassOn
  <2>2. UNCHANGED <<stale, pending, forceScan, pc, walked, forced, taken, todo,
                    cancelled, wpc>>
    BY <1>2 DEF Absorb, Deliver, Receive, watchVars, sharedVars, schedVars
  <2>. QED
    BY <2>1, <2>2 DEF OwesAll, Named
<1>3. CASE Subscribe \/ SubscribeFails \/ WindowEnds \/ CloseRefused
  <2>1. /\ Batches' = Batches /\ (wpc # "refused")
        /\ UNCHANGED <<stale, pending, forceScan, pc, walked, forced, taken, todo,
                       cancelled>>
    BY <1>3 DEF Subscribe, SubscribeFails, WindowEnds, CloseRefused, Batches, pumpVars,
                watchVars, sharedVars, schedVars
  <2>. QED
    BY <2>1 DEF OwesAll, Named
<1>4. CASE CloseRescan \/ RefusePending
  BY <1>4 DEF CloseRescan, RefusePending, OwesAll
<1>5. CASE CloseMerge
  <2>1. /\ ~window.rescan /\ window.paths \subseteq pending'
        /\ pending \subseteq pending' /\ wpc = "close"
        /\ UNCHANGED <<stale, forceScan, pc, walked, forced, taken, todo, cancelled>>
    BY <1>5 DEF CloseMerge, schedVars
  <2>2. \A b \in Batches : b = window \/ b \in Batches'
    BY <1>5 DEF CloseMerge, Batches, pumpVars
  <2>. QED
    BY <2>1, <2>2 DEF OwesAll, Named
<1>6. CASE Notify
  <2>1. /\ Batches \subseteq Batches' /\ wpc = "notify"
        /\ UNCHANGED <<stale, pending, forceScan, pc, walked, forced, taken, todo,
                       cancelled>>
    BY <1>6 DEF Notify, Batches, pumpVars, schedVars
  <2>. QED
    BY <2>1 DEF OwesAll, Named
<1>7. CASE Start
  BY <1>7 DEF Start, Fresh, OwesAll
<1>8. CASE Exit \/ Crash \/ Cancel
  BY <1>8 DEF Exit, Crash, Cancel, OwesAll
<1>9. CASE PathsFail \/ FlushFails
  BY <1>9 DEF PathsFail, FlushFails, OwesAll
<1>10. CASE PathsCancelled \/ FlushTimesOut
  BY <1>10 DEF PathsCancelled, FlushTimesOut, FlushInv, OwesAll
<1>11. ASSUME UNCHANGED <<batch, out, window, wpc>> PROVE Batches' = Batches
  BY <1>11 DEF Batches
<1>12. CASE Wake \/ NoWalk \/ DrainGoesOn \/ CycleEnds \/ Returns
  <2>1. /\ UNCHANGED <<stale, pending, forceScan, walked, forced, taken, todo,
                       cancelled, wpc, batch, out, window>>
        /\ pc \notin {"stopped", "walk"} /\ pc' \notin {"stopped", "walk"}
    BY <1>12 DEF Wake, NoWalk, DrainGoesOn, CycleEnds, Returns, pumpVars, watchVars,
                 sharedVars
  <2>. QED
    BY <1>11, <2>1 DEF OwesAll, Named
<1>13. CASE BeginWalk
  <2>1. /\ UNCHANGED <<stale, pending, walked, taken, cancelled, wpc, batch, out, window>>
        /\ pc = "due" /\ pc' = "walk" /\ forced' = forceScan /\ todo' = Path
    BY <1>13 DEF BeginWalk, pumpVars, watchVars
  <2>2. todo = {}
    BY <2>1 DEF ListInv
  <2>. QED
    BY <1>11, <2>1, <2>2 DEF OwesAll, Named
<1>14. CASE WalkDone
  <2>1. /\ UNCHANGED <<stale, pending, forceScan, taken, cancelled, wpc, batch, out, window>>
        /\ pc = "walk" /\ todo = {}
    BY <1>14 DEF WalkDone, pumpVars, watchVars, sharedVars
  <2>. QED
    BY <1>11, <2>1 DEF OwesAll, Named
<1>15. CASE WalkFails
  <2>1. /\ UNCHANGED <<stale, pending, walked, taken, cancelled, wpc, batch, out, window>>
        /\ pc = "walk" /\ pc' = "reconcile"
        /\ forceScan' = (forceScan \/ (forced /\ ~cancelled))
    BY <1>15 DEF WalkFails, pumpVars, watchVars
  <2>2. taken = {}
    BY <2>1 DEF ListInv
  <2>. QED
    BY <1>11, <2>1, <2>2 DEF OwesAll, Named
<1>16. CASE TakePending \/ Flush
  <2>1. /\ UNCHANGED <<stale, forceScan, walked, forced, cancelled, wpc, batch, out, window>>
        /\ pc \in {"reconcile", "stopping"} /\ pc' \notin {"stopped", "walk"}
        /\ taken' = pending /\ todo' = pending
    BY <1>16 DEF TakePending, Flush, pumpVars, watchVars
  <2>2. todo = {}
    BY <2>1 DEF ListInv
  <2>. QED
    BY <1>11, <2>1, <2>2 DEF OwesAll, Named
<1>17. CASE PathsDone \/ FlushDone
  <2>1. /\ UNCHANGED <<stale, pending, forceScan, walked, forced, todo, cancelled, wpc,
                       batch, out, window>>
        /\ todo = {} /\ pc \in {"paths", "flush"} /\ pc' \notin {"stopped", "walk"}
    BY <1>17 DEF PathsDone, FlushDone, pumpVars, watchVars, sharedVars
  <2>. QED
    BY <1>11, <2>1 DEF OwesAll, Named
<1>18. CASE UNCHANGED vars
  <2>1. UNCHANGED <<stale, pending, forceScan, pc, walked, forced, taken, todo,
                    cancelled, wpc, batch, out, window>>
    BY <1>18 DEF vars, pumpVars, watchVars, sharedVars, schedVars
  <2>. QED
    BY <1>11, <2>1 DEF OwesAll, Named
<1>. QED
  BY <1>1, <1>2, <1>3, <1>4, <1>5, <1>6, <1>7, <1>8, <1>9, <1>10, <1>12, <1>13,
     <1>14, <1>15, <1>16, <1>17, <1>18 DEF Next, Pump, Watch, Schedule, Trouble

\* A change on disk adds nothing to the debt and takes nothing from it.
LEMMA TouchChanges ==
    ASSUME NEW p \in Path, Touch(p)
    PROVE  Ledger!Change(p)
<1>1. Owed' = Owed
  BY DEF Touch, Owed, Batches, watchVars, sharedVars, schedVars
<1>. QED
  BY <1>1 DEF Touch, Ledger!Change

\* Every step of the pump, the watcher, the scheduler and the world is a step
\* of the ledger or leaves it alone: the handoff implements Freshness.
THEOREM DebtIsKept == Spec => OwedIsNeverForgotten
<1>1. Init => Ledger!FreshInit
  BY DEF Init, Owed, Ledger!FreshInit
<1>2. HandoffInv /\ HandoffInv' /\ [Next]_vars => [Ledger!FreshNext]_(Ledger!freshVars)
  <2> SUFFICES ASSUME HandoffInv, HandoffInv', [Next]_vars
               PROVE  [Ledger!FreshNext]_(Ledger!freshVars)
    OBVIOUS
  <2>1. ASSUME NEW p \in Path, Look(p) PROVE Ledger!FreshNext
    BY <2>1, LookSettles DEF HandoffInv, Ledger!FreshNext
  <2>2. ASSUME NEW p \in Path, Touch(p) PROVE Ledger!FreshNext
    BY <2>2, TouchChanges DEF Ledger!FreshNext
  <2>3. CASE ~\E p \in Path : Look(p) \/ Touch(p)
    BY <2>3, DebtStays, DebtGrows DEF HandoffInv
  <2>. QED
    BY <2>1, <2>2, <2>3
<1>. QED
  BY <1>1, <1>2, HandoffInvHolds, PTL DEF Spec, OwedIsNeverForgotten, Ledger!FreshSpec
=============================================================================
