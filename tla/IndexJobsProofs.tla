---------------------------- MODULE IndexJobsProofs ----------------------------
(* Proofs about IndexJobs, for all sets of jobs, builds and cancel requests, *)
(* whatever the database rejects and whenever the process dies.              *)
EXTENDS IndexJobs, Integers, TLAPS

USE DEF Builds

(* The percentage that onProgress reports is a number from 0 to 99.          *)
LEMMA PercentRange ==
    ASSUME NEW n \in Nat, NEW all \in Nat
    PROVE  Percent(n, all) \in 0 .. 99
<1>1. CASE all > 0
  <2>1. (n * 100) \div all \in Int /\ (n * 100) \div all >= 0
    BY <1>1
  <2> QED BY <1>1, <2>1 DEF Percent
<1>2. CASE ~(all > 0)
  BY <1>2 DEF Percent
<1> QED BY <1>1, <1>2

(* The row of a job that was never stored is a row.                          *)
LEMMA NoRowType == NoRow \in Row
BY DEF NoRow, Row

(* The rows that a run and a cancel request write are rows.                  *)
LEMMA EditTypes ==
    ASSUME NEW r \in Row
    PROVE  /\ \A st \in {"pending", "running"} : [r EXCEPT !.status = st] \in Row
           /\ \A j \in Jobs :
                /\ [r EXCEPT !.status = "completed", !.progress = 100,
                             !.completed_at = j, !.result = TRUE] \in Row
                /\ [r EXCEPT !.status = "cancelled", !.completed_at = j] \in Row
                /\ [r EXCEPT !.status = "failed", !.error = TRUE, !.completed_at = j] \in Row
           /\ \A k \in Cancels :
                [r EXCEPT !.cancel_requested = TRUE,
                          !.status = IF @ = "pending" THEN "cancelled" ELSE @,
                          !.completed_at = IF r.status = "pending" THEN k ELSE @] \in Row
<1>2. \A st \in {"pending", "running"} : [r EXCEPT !.status = st] \in Row
  BY Zenon DEF Row
<1>3. 100 \in 0 .. 100
  OBVIOUS
<1>4. ASSUME NEW j \in Jobs
      PROVE  [r EXCEPT !.status = "completed", !.progress = 100,
                       !.completed_at = j, !.result = TRUE] \in Row
  BY <1>3, Zenon DEF Row, Terminal
<1>5. ASSUME NEW j \in Jobs
      PROVE  /\ [r EXCEPT !.status = "cancelled", !.completed_at = j] \in Row
             /\ [r EXCEPT !.status = "failed", !.error = TRUE, !.completed_at = j] \in Row
  BY Zenon DEF Row, Terminal
<1>6. ASSUME NEW k \in Cancels
      PROVE  [r EXCEPT !.cancel_requested = TRUE,
                       !.status = IF @ = "pending" THEN "cancelled" ELSE @,
                       !.completed_at = IF r.status = "pending" THEN k ELSE @] \in Row
  <2>1. CASE r.status = "pending"
    BY <2>1, Zenon DEF Row, Terminal
  <2>2. CASE r.status # "pending"
    BY <2>2, Zenon DEF Row, Terminal
  <2> QED BY <2>1, <2>2
<1> QED BY <1>2, <1>4, <1>5, <1>6

(* A row that merges columns of two rows is a row.                           *)
LEMMA MergeType ==
    ASSUME NEW old \in Row, NEW new \in Row, NEW cols \in SUBSET Columns
    PROVE  Merge(old, new, cols) \in Row
BY DEF Merge, Row

(* One update of a row by its run, whether the call rejects or not.          *)
LEMMA UpdateType ==
    ASSUME TypeOK, NEW j \in Jobs, NEW updated \in Row,
           NEW next \in PcStates, NEW failed \in PcStates,
           UpdateJob(j, updated, next, failed)
    PROVE  TypeOK'
BY DEF TypeOK, UpdateJob, Goto, scan, saves

(* The next iteration of the scan, or its end.                               *)
LEMMA AdvanceType ==
    ASSUME TypeOK, NEW b \in Builds, Advance(b)
    PROVE  /\ pc' \in [Builds \cup Cancels -> PcStates]
           /\ scanned' \in [Builds -> 0 .. MaxMessages]
           /\ index' \in [Streams -> Builds \cup {None}]
<1> USE BoundsAreNat DEF TypeOK, PcStates, Running
<1>1. CASE Visit(b, scanned[b] + 1) /\ UNCHANGED index /\ scanned[b] < total[b]
  BY <1>1 DEF Visit, Goto
<1>2. CASE Publish(b) /\ UNCHANGED scanned
  BY <1>2 DEF Publish, Goto
<1> QED BY <1>1, <1>2 DEF Advance

(* Type correctness: every step keeps rows, scans and saves well typed.      *)
LEMMA TypeStep == TypeOK /\ [Next]_vars => TypeOK'
<1> SUFFICES ASSUME TypeOK, [Next]_vars PROVE TypeOK'
  OBVIOUS
<1>0. PcStates = {"idle", "ended", "lost", "dead", "create", "start", "info", "check", "fetch",
                  "progress", "complete", "markCancelled", "markFailed", "rescue",
                  "load", "write"}
  BY DEF PcStates, Running, Saving
<1>1. ASSUME NEW j \in Jobs, NEW s \in Streams, Submit(j, s) PROVE TypeOK'
  BY <1>0, <1>1 DEF Submit, Goto, TypeOK, saves
<1>2. ASSUME NEW d \in Direct, NEW s \in Streams, BuildDirectly(d, s) PROVE TypeOK'
  BY <1>0, <1>2 DEF BuildDirectly, Goto, TypeOK, saves
<1>3. ASSUME NEW k \in Cancels, NEW j \in Jobs, RequestCancel(k, j) PROVE TypeOK'
  <2>1. CASE Goto(k, "ended") /\ UNCHANGED entity
    BY <1>0, <1>3, <2>1 DEF RequestCancel, Goto, TypeOK, scan
  <2>2. CASE row[j].status \notin Terminal \cup {"none"}
    <3>1. row[j] \in Row
      BY DEF TypeOK
    <3>2. [row[j] EXCEPT !.cancel_requested = TRUE,
                         !.status = IF @ = "pending" THEN "cancelled" ELSE @,
                         !.completed_at = IF row[j].status = "pending" THEN k ELSE @] \in Row
      BY <3>1, EditTypes
    <3>3. entity' = [entity EXCEPT ![k] =
            [row[j] EXCEPT !.cancel_requested = TRUE,
                           !.status = IF @ = "pending" THEN "cancelled" ELSE @,
                           !.completed_at = IF row[j].status = "pending" THEN k ELSE @]]
      BY <1>3, <2>2 DEF RequestCancel
    <3>4. entity' \in [Cancels -> Row]
      BY <3>2, <3>3 DEF TypeOK
    <3> QED BY <1>0, <1>3, <2>2, <3>4 DEF RequestCancel, Goto, TypeOK, scan
  <2> QED BY <1>3, <2>1, <2>2 DEF RequestCancel
<1>4. ASSUME NEW j \in Jobs, CreateJob(j) PROVE TypeOK'
  <2>1. [NoRow EXCEPT !.status = "pending"] \in Row
    BY NoRowType, EditTypes
  <2> QED BY <1>0, <1>4, <2>1, UpdateType DEF CreateJob
<1>5. ASSUME NEW j \in Jobs, MarkRunning(j) PROVE TypeOK'
  <2>1. [row[j] EXCEPT !.status = "running"] \in Row
    BY EditTypes DEF TypeOK
  <2> QED BY <1>0, <1>5, <2>1, UpdateType DEF MarkRunning
<1>6. ASSUME NEW j \in Jobs, Check(j) PROVE TypeOK'
  BY <1>0, <1>6 DEF Check, Goto, TypeOK, scan, saves
<1>7. ASSUME NEW j \in Jobs, ReportProgress(j) PROVE TypeOK'
  <2>1. [row EXCEPT ![j].progress = Percent(scanned[j], total[j])] \in [Jobs -> Row]
    <3>1. Percent(scanned[j], total[j]) \in 0 .. 100
      <4>1. scanned[j] \in Nat /\ total[j] \in Nat
        BY BoundsAreNat DEF TypeOK
      <4> QED BY <4>1, PercentRange
    <3> QED BY <3>1 DEF TypeOK, Row
  <2>2. row' \in [Jobs -> Row]
    BY <1>7, <2>1 DEF ReportProgress, TypeOK
  <2>3. CASE Advance(j)
    BY <1>7, <2>2, <2>3, AdvanceType DEF ReportProgress, TypeOK, saves
  <2>4. CASE (Goto(j, "complete") \/ Goto(j, "markFailed")) /\ UNCHANGED <<scanned, index>>
    BY <1>0, <1>7, <2>2, <2>4 DEF ReportProgress, Goto, TypeOK, saves
  <2> QED BY <1>7, <2>3, <2>4 DEF ReportProgress
<1>8. ASSUME NEW j \in Jobs, MarkCompleted(j) PROVE TypeOK'
  <2>1. [row[j] EXCEPT !.status = "completed", !.progress = 100,
                       !.completed_at = j, !.result = TRUE] \in Row
    BY EditTypes DEF TypeOK
  <2> QED BY <1>0, <1>8, <2>1, UpdateType DEF MarkCompleted
<1>9. ASSUME NEW j \in Jobs, MarkCancelled(j) PROVE TypeOK'
  <2>1. [row[j] EXCEPT !.status = "cancelled", !.completed_at = j] \in Row
    BY EditTypes DEF TypeOK
  <2> QED BY <1>0, <1>9, <2>1, UpdateType DEF MarkCancelled
<1>10. ASSUME NEW j \in Jobs, MarkFailed(j) \/ Rescue(j) PROVE TypeOK'
  <2>1. [row[j] EXCEPT !.status = "failed", !.error = TRUE, !.completed_at = j] \in Row
    BY EditTypes DEF TypeOK
  <2> QED BY <1>0, <1>10, <2>1, UpdateType DEF MarkFailed, Rescue
<1>11. ASSUME NEW b \in Builds, Info(b) PROVE TypeOK'
  BY <1>0, <1>11, BoundsAreNat DEF Info, Visit, Throw, Goto, TypeOK, saves
<1>12. ASSUME NEW b \in Builds, Fetch(b) PROVE TypeOK'
  <2>1. overrun' \in [Builds -> Nat]
    BY <1>12 DEF Fetch, TypeOK
  <2>2. CASE Goto(b, "progress") /\ UNCHANGED <<scanned, index>>
    BY <1>0, <1>12, <2>1, <2>2 DEF Fetch, Goto, TypeOK, saves
  <2>3. CASE Advance(b)
    BY <1>12, <2>1, <2>3, AdvanceType DEF Fetch, TypeOK, saves
  <2> QED BY <1>12, <2>2, <2>3 DEF Fetch
<1>13. ASSUME NEW k \in Cancels, SaveLoads(k) PROVE TypeOK'
  <2>1. Differing(entity[k], row[aim[k]]) \in SUBSET Columns
    BY DEF Differing
  <2> QED BY <1>0, <1>13, <2>1 DEF SaveLoads, Goto, TypeOK, scan
<1>14. ASSUME NEW k \in Cancels, SaveWrites(k) PROVE TypeOK'
  <2>1. row' \in [Jobs -> Row]
    BY <1>14, MergeType DEF SaveWrites, TypeOK
  <2> QED BY <1>0, <1>14, <2>1 DEF SaveWrites, Goto, TypeOK, scan, saves
<1>15. CASE Crash
  BY <1>0, <1>15 DEF Crash, TypeOK, scan, saves
<1>16. CASE UNCHANGED vars
  BY <1>16 DEF vars, TypeOK
<1> QED
  BY <1>1, <1>2, <1>3, <1>4, <1>5, <1>6, <1>7, <1>8, <1>9, <1>10, <1>11, <1>12,
     <1>13, <1>14, <1>15, <1>16 DEF Next, RunJob, Scan, Save

(* Rows, scans, saves and the index stay well typed, in every behaviour.    *)
THEOREM TypeCorrect == Spec => []TypeOK
<1>1. Init => TypeOK
  BY NoRowType, BoundsAreNat DEF Init, TypeOK, PcStates
<1> QED
  BY <1>1, TypeStep, PTL DEF Spec

-----------------------------------------------------------------------------
(* The inductive invariant.                                                *)

\* A job that its request has not yet stored has no row.
RowsFollowRuns == \A j \in Jobs : pc[j] \in {"idle", "create"} => row[j] = NoRow

\* A save under way asks for cancellation of a stored job, and will write that
\* it does unless the row says so already.
SavesAreCancellations ==
    \A k \in Cancels :
        pc[k] \in Saving =>
            /\ aim[k] \in Jobs
            /\ entity[k].cancel_requested
            /\ entity[k].status # "none"
            /\ row[aim[k]].status # "none"
            /\ pc[k] = "write" =>
                  "cancel_requested" \in dirty[k] \/ row[aim[k]].cancel_requested

IInv == TypeOK /\ RowsFollowRuns /\ SavesAreCancellations

(* The steps of a build that write no row.                                   *)
LEMMA ScanSteps ==
    ASSUME TypeOK, NEW b \in Builds, Scan(b) \/ (b \in Jobs /\ Check(b))
    PROVE  /\ UNCHANGED <<row, saves>>
           /\ \A p \in (Builds \cup Cancels) \ {b} : pc'[p] = pc[p]
           /\ pc[b] \notin {"idle", "create"} /\ pc'[b] \notin {"idle", "create"}
           /\ b \in Jobs => pc'[b] # "ended"
BY DEF TypeOK, Scan, Check, Info, Fetch, Advance, Visit, Publish, Throw, Goto, saves

(* The status and the cancel flag of an edited row.                          *)
LEMMA EditFields ==
    ASSUME NEW r \in Row, NEW j \in Jobs,
           NEW new \in {[r EXCEPT !.status = "completed", !.progress = 100,
                                  !.completed_at = j, !.result = TRUE],
                        [r EXCEPT !.status = "cancelled", !.completed_at = j],
                        [r EXCEPT !.status = "failed", !.error = TRUE, !.completed_at = j]}
    PROVE  new.status \in Terminal /\ new.cancel_requested = r.cancel_requested
BY Zenon DEF Row, Terminal

(* The steps by which a run edits its row keep a job's cancel flag.          *)
LEMMA EditSteps ==
    ASSUME TypeOK, NEW j \in Jobs,
           MarkRunning(j) \/ ReportProgress(j) \/ MarkCompleted(j) \/ MarkCancelled(j)
             \/ MarkFailed(j) \/ Rescue(j)
    PROVE  /\ UNCHANGED saves
           /\ \A p \in (Builds \cup Cancels) \ {j} : pc'[p] = pc[p]
           /\ pc[j] \notin {"idle", "create"} /\ pc'[j] \notin {"idle", "create"}
           /\ \A i \in Jobs \ {j} : row'[i] = row[i]
           /\ row'[j].cancel_requested = row[j].cancel_requested
           /\ row'[j].status = "none" => row[j].status = "none"
           /\ pc'[j] = "ended" => row'[j].status \in Terminal
<1> USE DEF TypeOK, Goto, saves
<1>1. row[j] \in Row
  OBVIOUS
<1>7. ASSUME NEW new, NEW next, NEW failed, UpdateJob(j, new, next, failed),
             new.status \in Terminal, new.cancel_requested = row[j].cancel_requested,
             pc[j] \notin {"idle", "create"},
             next \notin {"idle", "create"}, failed \notin {"idle", "create", "ended"}
      PROVE  /\ UNCHANGED saves
             /\ \A p \in (Builds \cup Cancels) \ {j} : pc'[p] = pc[p]
             /\ pc[j] \notin {"idle", "create"} /\ pc'[j] \notin {"idle", "create"}
             /\ \A i \in Jobs \ {j} : row'[i] = row[i]
             /\ row'[j].cancel_requested = row[j].cancel_requested
             /\ row'[j].status = "none" => row[j].status = "none"
             /\ pc'[j] = "ended" => row'[j].status \in Terminal
  <2>1. row' = row \/ row' = [row EXCEPT ![j] = new]
    BY <1>7 DEF UpdateJob
  <2>2. pc' = [pc EXCEPT ![j] = next] \/ pc' = [pc EXCEPT ![j] = failed]
    BY <1>7 DEF UpdateJob
  <2>3. row' = [row EXCEPT ![j] = new] \/ pc' = [pc EXCEPT ![j] = failed]
    BY <1>7 DEF UpdateJob
  <2>4. "none" \notin Terminal
    BY DEF Terminal
  <2> QED BY <1>7, <2>1, <2>2, <2>3, <2>4 DEF UpdateJob
<1>2. CASE MarkRunning(j)
  BY <1>1, <1>2 DEF MarkRunning, UpdateJob, Row
<1>3. CASE ReportProgress(j)
  <2>1. row'[j] \in {row[j], [row[j] EXCEPT !.progress = Percent(scanned[j], total[j])]}
    BY <1>3 DEF ReportProgress
  <2>2. row'[j].status = row[j].status /\ row'[j].cancel_requested = row[j].cancel_requested
    BY <1>1, <2>1 DEF Row
  <2>3. \A i \in Jobs \ {j} : row'[i] = row[i]
    BY <1>3 DEF ReportProgress
  <2>4. pc[j] = "progress"
        /\ \E where \in {"check", "fetch", "complete", "markFailed"} :
              pc' = [pc EXCEPT ![j] = where]
    BY <1>3 DEF ReportProgress, Advance, Visit, Publish
  <2>5. UNCHANGED saves
    BY <1>3 DEF ReportProgress
  <2> QED BY <2>2, <2>3, <2>4, <2>5
<1>4. CASE MarkCompleted(j)
  <2> DEFINE new == [row[j] EXCEPT !.status = "completed", !.progress = 100,
                                   !.completed_at = j, !.result = TRUE]
  <2>1. new.status \in Terminal /\ new.cancel_requested = row[j].cancel_requested
    BY <1>1, EditFields
  <2>2. pc[j] = "complete" /\ UpdateJob(j, new, "ended", "markFailed")
    BY <1>4 DEF MarkCompleted
  <2> HIDE DEF new
  <2> QED BY <1>7, <2>1, <2>2
<1>5. CASE MarkCancelled(j)
  <2> DEFINE new == [row[j] EXCEPT !.status = "cancelled", !.completed_at = j]
  <2>1. new.status \in Terminal /\ new.cancel_requested = row[j].cancel_requested
    BY <1>1, EditFields
  <2>2. pc[j] = "markCancelled" /\ UpdateJob(j, new, "ended", "rescue")
    BY <1>5 DEF MarkCancelled
  <2> HIDE DEF new
  <2> QED BY <1>7, <2>1, <2>2
<1>6. CASE MarkFailed(j) \/ Rescue(j)
  <2> DEFINE new == [row[j] EXCEPT !.status = "failed", !.error = TRUE, !.completed_at = j]
  <2>1. new.status \in Terminal /\ new.cancel_requested = row[j].cancel_requested
    BY <1>1, EditFields
  <2>2. \/ pc[j] = "markFailed" /\ UpdateJob(j, new, "ended", "rescue")
        \/ pc[j] = "rescue" /\ UpdateJob(j, new, "ended", "lost")
    BY <1>6 DEF MarkFailed, Rescue
  <2> HIDE DEF new
  <2> QED BY <1>7, <2>1, <2>2
<1> QED BY <1>2, <1>3, <1>4, <1>5, <1>6

(* What a save writes over a row: it asks for cancellation.                  *)
LEMMA SaveStep ==
    ASSUME IInv, NEW k \in Cancels, SaveWrites(k)
    PROVE  /\ aim[k] \in Jobs /\ pc' = [pc EXCEPT ![k] = "ended"]
           /\ \A i \in Jobs \ {aim[k]} : row'[i] = row[i]
           /\ \/ row' = row
              \/ row'[aim[k]].cancel_requested /\ row'[aim[k]].status # "none"
<1>1. /\ aim[k] \in Jobs
      /\ entity[k].cancel_requested /\ entity[k].status # "none"
      /\ row[aim[k]].status # "none"
      /\ "cancel_requested" \in dirty[k] \/ row[aim[k]].cancel_requested
  BY DEF IInv, SavesAreCancellations, SaveWrites, Saving
<1>2. CASE row' = row
  BY <1>1, <1>2 DEF SaveWrites, Goto
<1>3. CASE row' = [row EXCEPT ![aim[k]] = Merge(@, entity[k], dirty[k])]
  <2>1. row'[aim[k]] = Merge(row[aim[k]], entity[k], dirty[k])
    BY <1>1, <1>3 DEF IInv, TypeOK
  <2>2. row'[aim[k]].cancel_requested /\ row'[aim[k]].status # "none"
    BY <1>1, <2>1 DEF Merge
  <2> QED BY <1>1, <1>3, <2>2 DEF SaveWrites, Goto, IInv, TypeOK
<1> QED BY <1>2, <1>3 DEF SaveWrites

(* A save under way, and its row, as long as nobody touches them, except to *)
(* edit the row without taking the cancel flag back.                        *)
LEMMA SavesStable ==
    ASSUME IInv, UNCHANGED saves,
           \A k \in Cancels : pc'[k] \in Saving => pc'[k] = pc[k],
           \A j \in Jobs : row[j].status # "none" => row'[j].status # "none",
           \A j \in Jobs : row[j].cancel_requested => row'[j].cancel_requested
    PROVE  SavesAreCancellations'
BY DEF IInv, SavesAreCancellations, saves

(* Every step keeps the inductive invariant, and no step takes a flag back.  *)
LEMMA InductiveStep ==
    IInv /\ [Next]_vars =>
        /\ RowsFollowRuns' /\ SavesAreCancellations'
        /\ \A j \in Jobs : row[j].cancel_requested => row'[j].cancel_requested
        /\ EndedRunIsTerminal => EndedRunIsTerminal'
<1> DEFINE Goal ==
      /\ RowsFollowRuns' /\ SavesAreCancellations'
      /\ \A j \in Jobs : row[j].cancel_requested => row'[j].cancel_requested
      /\ EndedRunIsTerminal => EndedRunIsTerminal'
<1> SUFFICES ASSUME IInv, [Next]_vars PROVE Goal
  OBVIOUS
<1>0. TypeOK /\ TypeOK' /\ RowsFollowRuns /\ SavesAreCancellations
  BY TypeStep DEF IInv
<1>1. ASSUME UNCHANGED <<row, saves>>,
             \A j \in Jobs : pc'[j] \in {"idle", "create"} => pc[j] \in {"idle", "create"},
             \A j \in Jobs : pc'[j] = "ended" => pc[j] = "ended",
             \A k \in Cancels : pc'[k] \in Saving => pc'[k] = pc[k]
      PROVE  Goal
  BY <1>0, <1>1, SavesStable DEF RowsFollowRuns, EndedRunIsTerminal
<1>2. ASSUME NEW b \in Builds, NEW s \in Streams, Submit(b, s) \/ BuildDirectly(b, s)
      PROVE  Goal
  BY <1>0, <1>1, <1>2, BuildsAreDistinct DEF Submit, BuildDirectly, Goto, TypeOK, saves, Saving
<1>3. ASSUME NEW b \in Builds, Scan(b) \/ (b \in Jobs /\ Check(b)) PROVE Goal
  BY <1>0, <1>1, <1>3, ScanSteps, BuildsAreDistinct
<1>4. CASE Crash
  BY <1>0, <1>1, <1>4 DEF Crash, TypeOK, Running, Saving, saves
<1>5. CASE UNCHANGED vars
  BY <1>1, <1>5 DEF vars, saves
<1>6. ASSUME NEW j \in Jobs,
             MarkRunning(j) \/ ReportProgress(j) \/ MarkCompleted(j) \/ MarkCancelled(j)
               \/ MarkFailed(j) \/ Rescue(j)
      PROVE  Goal
  BY <1>0, <1>6, EditSteps, SavesStable, BuildsAreDistinct
     DEF RowsFollowRuns, EndedRunIsTerminal
<1>7. ASSUME NEW j \in Jobs, CreateJob(j) PROVE Goal
  <2>1. row[j] = NoRow /\ pc[j] = "create"
    BY <1>0, <1>7 DEF CreateJob, RowsFollowRuns
  <2>2. /\ UNCHANGED saves
        /\ \A p \in (Builds \cup Cancels) \ {j} : pc'[p] = pc[p]
        /\ pc'[j] \in {"start", "lost"}
        /\ \A i \in Jobs \ {j} : row'[i] = row[i]
    BY <1>0, <1>7 DEF CreateJob, UpdateJob, Goto, TypeOK
  <2>3. ~row[j].cancel_requested /\ row[j].status = "none"
    BY <2>1 DEF NoRow
  <2> QED BY <1>0, <2>2, <2>3, SavesStable, BuildsAreDistinct
          DEF RowsFollowRuns, EndedRunIsTerminal, Saving
<1>8. ASSUME NEW k \in Cancels, NEW j \in Jobs, RequestCancel(k, j) PROVE Goal
  <2>1. CASE Goto(k, "ended") /\ UNCHANGED entity
    <3>1. \A p \in (Builds \cup Cancels) \ {k} : pc'[p] = pc[p]
      BY <2>1 DEF Goto, TypeOK
    <3>2. pc'[k] = "ended" /\ UNCHANGED <<row, entity, dirty>>
          /\ \A i \in Cancels \ {k} : aim'[i] = aim[i]
      BY <1>0, <1>8, <2>1 DEF RequestCancel, Goto, TypeOK
    <3> QED BY <1>0, <3>1, <3>2, BuildsAreDistinct
            DEF RowsFollowRuns, SavesAreCancellations, EndedRunIsTerminal, Saving
  <2>2. CASE row[j].status # "none" /\ entity'[k].cancel_requested
             /\ entity'[k].status # "none" /\ Goto(k, "load")
    <3>1. \A p \in (Builds \cup Cancels) \ {k} : pc'[p] = pc[p]
      BY <2>2 DEF Goto, TypeOK
    <3>2. /\ pc'[k] = "load" /\ aim'[k] = j /\ UNCHANGED <<row, dirty>>
          /\ \A i \in Cancels \ {k} : aim'[i] = aim[i] /\ entity'[i] = entity[i]
      BY <1>0, <1>8, <2>2 DEF RequestCancel, Goto, TypeOK
    <3> QED BY <1>0, <2>2, <3>1, <3>2, BuildsAreDistinct
            DEF RowsFollowRuns, SavesAreCancellations, EndedRunIsTerminal, Saving
  <2>3. CASE row[j].status \notin Terminal \cup {"none"}
    <3>1. row[j] \in Row
      BY <1>0 DEF TypeOK
    <3>2. /\ entity'[k].cancel_requested
          /\ entity'[k].status = IF row[j].status = "pending" THEN "cancelled"
                                 ELSE row[j].status
      <4>1. entity'[k] =
              [row[j] EXCEPT !.cancel_requested = TRUE,
                             !.status = IF @ = "pending" THEN "cancelled" ELSE @,
                             !.completed_at = IF row[j].status = "pending" THEN k ELSE @]
        BY <1>0, <1>8, <2>3 DEF RequestCancel, TypeOK
      <4> QED BY <3>1, <4>1, Zenon DEF Row
    <3> QED BY <1>8, <2>2, <2>3, <3>2 DEF RequestCancel
  <2> QED BY <1>8, <2>1, <2>3 DEF RequestCancel
<1>9. ASSUME NEW k \in Cancels, SaveLoads(k) PROVE Goal
  <2>1. /\ \A p \in (Builds \cup Cancels) \ {k} : pc'[p] = pc[p]
        /\ \A i \in Cancels \ {k} : dirty'[i] = dirty[i]
        /\ UNCHANGED <<row, entity, aim>>
        /\ pc[k] = "load"
    BY <1>0, <1>9 DEF SaveLoads, Goto, TypeOK
  <2>2. CASE pc'[k] = "ended"
    BY <1>0, <2>1, <2>2, BuildsAreDistinct
       DEF RowsFollowRuns, SavesAreCancellations, EndedRunIsTerminal, Saving
  <2>3. CASE pc'[k] = "write" /\ dirty'[k] = Differing(entity[k], row[aim[k]])
    <3>1. aim[k] \in Jobs /\ entity[k].cancel_requested
      BY <1>0, <2>1 DEF SavesAreCancellations, Saving
    <3>2. entity[k] \in Row /\ row[aim[k]] \in Row
      BY <1>0, <3>1 DEF TypeOK
    <3>3. "cancel_requested" \in dirty'[k] \/ row[aim[k]].cancel_requested
      BY <2>3, <3>1, <3>2, Zenon DEF Differing, Columns, Row
    <3> QED BY <1>0, <2>1, <2>3, <3>3, BuildsAreDistinct
            DEF RowsFollowRuns, SavesAreCancellations, EndedRunIsTerminal, Saving
  <2> QED BY <1>0, <1>9, <2>2, <2>3 DEF SaveLoads, Goto, TypeOK
<1>10. ASSUME NEW k \in Cancels, SaveWrites(k) PROVE Goal
  <2>1. /\ aim[k] \in Jobs
        /\ row[aim[k]].status # "none"
        /\ \A p \in (Builds \cup Cancels) \ {k} : pc'[p] = pc[p]
        /\ pc'[k] = "ended"
        /\ \A i \in Jobs \ {aim[k]} : row'[i] = row[i]
        /\ UNCHANGED saves
    <3>1. pc[k] = "write" /\ UNCHANGED saves
      BY <1>10 DEF SaveWrites
    <3>2. aim[k] \in Jobs /\ row[aim[k]].status # "none"
      BY <1>0, <3>1 DEF SavesAreCancellations, Saving
    <3>3. pc' = [pc EXCEPT ![k] = "ended"] /\ \A i \in Jobs \ {aim[k]} : row'[i] = row[i]
      BY <1>10, SaveStep
    <3> QED BY <1>0, <3>1, <3>2, <3>3 DEF TypeOK
  <2>2. pc[aim[k]] \notin {"idle", "create"}
    <3>1. NoRow.status = "none"
      BY DEF NoRow
    <3> QED BY <1>0, <2>1, <3>1 DEF RowsFollowRuns
  <2>3. \/ row' = row
        \/ row'[aim[k]].cancel_requested /\ row'[aim[k]].status # "none"
    BY <1>0, <1>10, SaveStep, ZenonT(60)
  <2>4. SavesAreCancellations'
    BY <2>1, <2>3, SavesStable, BuildsAreDistinct DEF Saving
  <2> QED BY <1>0, <2>1, <2>2, <2>3, <2>4, BuildsAreDistinct
          DEF RowsFollowRuns, EndedRunIsTerminal
<1> QED
  BY <1>1, <1>2, <1>3, <1>4, <1>5, <1>6, <1>7, <1>8, <1>9, <1>10
     DEF Next, RunJob, Scan, Save

(* The inductive invariant holds.                                            *)
LEMMA Inductive == Spec => []IInv
<1>1. Init => IInv
  <2>1. Init => TypeOK
    BY NoRowType, BoundsAreNat DEF Init, TypeOK, PcStates
  <2>2. Init => RowsFollowRuns /\ SavesAreCancellations
    BY DEF Init, RowsFollowRuns, SavesAreCancellations, Saving
  <2> QED BY <2>1, <2>2 DEF IInv
<1>2. IInv /\ [Next]_vars => IInv'
  BY TypeStep, InductiveStep DEF IInv
<1> QED BY <1>1, <1>2, PTL DEF Spec

(* A cancel request that reached the row is never taken back: by no update  *)
(* of the run and by no save of another, older request.                     *)
THEOREM CancelSticks == Spec => CancelFlagSticks
<1>1. IInv /\ [Next]_vars =>
        [\A j \in Jobs : row[j].cancel_requested => row'[j].cancel_requested]_vars
  BY InductiveStep
<1> QED BY <1>1, Inductive, PTL DEF Spec, CancelFlagSticks

(* Whatever NATS and the database reject, a run that is over leaves its row  *)
(* in a final state, unless somebody asked to cancel it or its last attempt  *)
(* to record a failure was rejected too.                                     *)
THEOREM EndedRuns == Spec => []EndedRunIsTerminal
<1>1. Init => EndedRunIsTerminal
  BY DEF Init, EndedRunIsTerminal
<1>2. IInv /\ EndedRunIsTerminal /\ [Next]_vars => EndedRunIsTerminal'
  BY InductiveStep
<1> QED BY <1>1, <1>2, Inductive, PTL DEF Spec

-----------------------------------------------------------------------------
(* The scan of a job, and when its run polls the cancel flag.              *)

(* A build is touched by its own steps alone, and by the death of the process. *)
LEMMA StepsOfBuild ==
    ASSUME TypeOK, [Next]_vars, NEW j \in Builds
    PROVE  \/ /\ pc'[j] = pc[j] \/ (pc'[j] = "dead" /\ pc[j] \notin {"idle", "ended"})
              /\ stream'[j] = stream[j]
              /\ total'[j] = total[j]
              /\ scanned'[j] = scanned[j]
              /\ overrun'[j] = overrun[j]
           \/ j \in Jobs /\ \E s \in Streams : Submit(j, s)
           \/ j \in Direct /\ \E s \in Streams : BuildDirectly(j, s)
           \/ j \in Jobs /\ RunJob(j)
           \/ Scan(j)
<1> DEFINE Other ==
      /\ pc'[j] = pc[j] \/ (pc'[j] = "dead" /\ pc[j] \notin {"idle", "ended"})
      /\ stream'[j] = stream[j]
      /\ total'[j] = total[j]
      /\ scanned'[j] = scanned[j]
      /\ overrun'[j] = overrun[j]
<1> USE BuildsAreDistinct DEF TypeOK, Goto, scan, saves
<1>1. ASSUME NEW b \in Jobs \ {j}, NEW s \in Streams, Submit(b, s) PROVE Other
  BY <1>1 DEF Submit
<1>2. ASSUME NEW d \in Direct \ {j}, NEW s \in Streams, BuildDirectly(d, s) PROVE Other
  BY <1>2 DEF BuildDirectly
<1>3. ASSUME NEW k \in Cancels, NEW i \in Jobs, RequestCancel(k, i) PROVE Other
  BY <1>3 DEF RequestCancel
<1>4. ASSUME NEW b \in Builds \ {j}, Scan(b) PROVE Other
  BY <1>4 DEF Scan, Info, Fetch, Advance, Visit, Publish, Throw
<1>5. ASSUME NEW i \in Jobs \ {j}, RunJob(i) PROVE Other
  <2>1. CASE CreateJob(i)
    BY <2>1 DEF CreateJob, UpdateJob
  <2>2. CASE MarkRunning(i)
    BY <2>2 DEF MarkRunning, UpdateJob
  <2>3. CASE Check(i)
    BY <2>3 DEF Check
  <2>4. CASE ReportProgress(i)
    <3>1. \E where \in PcStates : pc' = [pc EXCEPT ![i] = where]
      BY <2>4 DEF ReportProgress, Advance, Visit, Publish, PcStates, Running
    <3>2. /\ UNCHANGED <<stream, total, overrun>>
          /\ scanned' = scanned \/ scanned' = [scanned EXCEPT ![i] = scanned[i] + 1]
      BY <2>4 DEF ReportProgress, Advance, Visit, Publish
    <3> QED BY <3>1, <3>2
  <2>5. CASE MarkCompleted(i)
    BY <2>5 DEF MarkCompleted, UpdateJob
  <2>6. CASE MarkCancelled(i)
    BY <2>6 DEF MarkCancelled, UpdateJob
  <2>7. CASE MarkFailed(i)
    BY <2>7 DEF MarkFailed, UpdateJob
  <2>8. CASE Rescue(i)
    BY <2>8 DEF Rescue, UpdateJob
  <2> QED BY <1>5, <2>1, <2>2, <2>3, <2>4, <2>5, <2>6, <2>7, <2>8 DEF RunJob
<1>6. ASSUME NEW k \in Cancels, Save(k) PROVE Other
  BY <1>6 DEF Save, SaveLoads, SaveWrites
<1>7. ASSUME Crash PROVE Other
  BY <1>7 DEF Crash, Running, Saving
<1>8. ASSUME UNCHANGED vars PROVE Other
  BY <1>8 DEF vars
<1> HIDE BuildsAreDistinct DEF Other, TypeOK, Goto, scan, saves
<1> DEFINE Own == \/ j \in Jobs /\ \E s \in Streams : Submit(j, s)
                  \/ j \in Direct /\ \E s \in Streams : BuildDirectly(j, s)
                  \/ j \in Jobs /\ RunJob(j)
                  \/ Scan(j)
<1>9. Other \/ Own
  <2>1. ASSUME NEW b \in Jobs, NEW s \in Streams, Submit(b, s) PROVE Other \/ Own
    BY <1>1, <2>1
  <2>2. ASSUME NEW i \in Jobs, RunJob(i) PROVE Other \/ Own
    BY <1>5, <2>2
  <2>3. ASSUME NEW b \in Builds, Scan(b) PROVE Other \/ Own
    BY <1>4, <2>3
  <2>4. ASSUME NEW d \in Direct, NEW s \in Streams, BuildDirectly(d, s) PROVE Other \/ Own
    BY <1>2, <2>4
  <2> HIDE DEF Own
  <2> QED BY <1>3, <1>6, <1>7, <1>8, <2>1, <2>2, <2>3, <2>4 DEF Next
<1> QED BY <1>9 DEF Other

LEMMA StepsOfJob ==
    ASSUME TypeOK, [Next]_vars, NEW j \in Jobs
    PROVE  \/ /\ pc'[j] = pc[j] \/ (pc'[j] = "dead" /\ pc[j] \notin {"idle", "ended"})
              /\ stream'[j] = stream[j]
              /\ total'[j] = total[j]
              /\ scanned'[j] = scanned[j]
              /\ overrun'[j] = overrun[j]
           \/ \E s \in Streams : Submit(j, s)
           \/ RunJob(j)
           \/ Scan(j)
BY StepsOfBuild, BuildsAreDistinct

\* The places of a run that has not begun to scan.
Unscanned == {"idle", "create", "start", "info"}

\* Scanning starts from nothing, and a loop has something to scan: only the
\* report of an empty stream finds total = 0.
ScanState ==
    \A j \in Jobs :
        /\ pc[j] # "idle" => stream[j] \in Streams
        /\ pc[j] \in Unscanned => scanned[j] = 0 /\ total[j] = 0 /\ overrun[j] = 0
        /\ pc[j] \in {"check", "fetch"} => total[j] > 0

(* What the steps of a run do to its place and its scan.                    *)
LEMMA RunSteps ==
    ASSUME TypeOK, NEW j \in Jobs, RunJob(j)
    PROVE  /\ stream'[j] = stream[j] /\ total'[j] = total[j] /\ overrun'[j] = overrun[j]
           /\ \/ /\ pc[j] = "create" /\ pc'[j] \in {"start", "lost"}
                 /\ scanned'[j] = scanned[j]
              \/ /\ pc[j] = "start" /\ pc'[j] \in {"info", "rescue"}
                 /\ scanned'[j] = scanned[j]
              \/ /\ pc[j] = "check" /\ pc'[j] \in {"markCancelled", "fetch", "markFailed"}
                 /\ pc'[j] = "fetch" => ~row[j].cancel_requested
                 /\ scanned'[j] = scanned[j]
              \/ ReportProgress(j)
              \/ /\ pc[j] \in {"complete", "markCancelled", "markFailed", "rescue"}
                 /\ pc'[j] \in {"ended", "markFailed", "rescue", "lost"}
                 /\ scanned'[j] = scanned[j]
<1> USE DEF TypeOK, Goto, scan, UpdateJob
<1>1. CASE CreateJob(j)
  BY <1>1 DEF CreateJob
<1>2. CASE MarkRunning(j)
  BY <1>2 DEF MarkRunning
<1>3. CASE Check(j)
  BY <1>3 DEF Check
<1>4. CASE ReportProgress(j)
  BY <1>4 DEF ReportProgress
<1>5. CASE MarkCompleted(j)
  BY <1>5 DEF MarkCompleted
<1>6. CASE MarkCancelled(j)
  BY <1>6 DEF MarkCancelled
<1>7. CASE MarkFailed(j) \/ Rescue(j)
  BY <1>7 DEF MarkFailed, Rescue
<1> QED BY <1>1, <1>2, <1>3, <1>4, <1>5, <1>6, <1>7 DEF RunJob

(* The next iteration is at a poll or not; without one the build publishes. *)
LEMMA AdvanceSteps ==
    ASSUME TypeOK, NEW j \in Jobs, Advance(j)
    PROVE  \/ /\ scanned'[j] = scanned[j] + 1
              /\ pc'[j] = IF AtCheck(scanned[j] + 1) THEN "check" ELSE "fetch"
           \/ pc'[j] = "complete" /\ scanned'[j] = scanned[j]
BY DEF TypeOK, Advance, Visit, Publish, Goto

LEMMA ScanStateStep == TypeOK /\ ScanState /\ [Next]_vars => ScanState'
<1> SUFFICES ASSUME TypeOK, ScanState, [Next]_vars, NEW j \in Jobs
             PROVE  /\ pc'[j] # "idle" => stream'[j] \in Streams
                    /\ pc'[j] \in Unscanned =>
                         scanned'[j] = 0 /\ total'[j] = 0 /\ overrun'[j] = 0
                    /\ pc'[j] \in {"check", "fetch"} => total'[j] > 0
  BY DEF ScanState
<1> USE DEF ScanState, Unscanned
<1>1. ASSUME NEW s \in Streams, Submit(j, s)
      PROVE  /\ pc[j] = "idle" /\ pc'[j] = "create" /\ stream'[j] = s
             /\ scanned'[j] = scanned[j] /\ total'[j] = total[j] /\ overrun'[j] = overrun[j]
  BY <1>1 DEF Submit, Goto, TypeOK
<1>2. CASE Info(j)
  BY <1>2, BoundsAreNat DEF Info, Visit, Throw, Goto, TypeOK
<1>3. CASE Fetch(j)
  <2>1. pc[j] = "fetch" /\ stream'[j] = stream[j] /\ total'[j] = total[j]
    BY <1>3 DEF Fetch
  <2>2. pc'[j] \in {"progress", "check", "fetch", "complete"}
    BY <1>3, AdvanceSteps DEF Fetch, Goto, TypeOK
  <2> QED BY <2>1, <2>2
<1>4. CASE ReportProgress(j)
  <2>1. pc[j] = "progress" /\ stream'[j] = stream[j] /\ total'[j] = total[j]
    BY <1>4 DEF ReportProgress
  <2>2. CASE pc'[j] \in {"complete", "markFailed"}
    BY <2>1, <2>2
  <2>3. CASE Advance(j) /\ total[j] # 0
    BY <2>1, <2>3, AdvanceSteps, BoundsAreNat DEF TypeOK
  <2>4. \/ Goto(j, "complete") \/ Goto(j, "markFailed")
        \/ Advance(j) /\ total[j] # 0
    BY <1>4 DEF ReportProgress
  <2> QED BY <2>2, <2>3, <2>4 DEF Goto, TypeOK
<1>5. CASE RunJob(j)
  BY <1>4, <1>5, RunSteps
<1>6. CASE /\ pc'[j] = pc[j] \/ (pc'[j] = "dead" /\ pc[j] \notin {"idle", "ended"})
           /\ stream'[j] = stream[j]
           /\ total'[j] = total[j]
           /\ scanned'[j] = scanned[j]
           /\ overrun'[j] = overrun[j]
  BY <1>6
<1>7. ASSUME NEW s \in Streams, Submit(j, s)
      PROVE  /\ pc'[j] # "idle" => stream'[j] \in Streams
             /\ pc'[j] \in Unscanned =>
                  scanned'[j] = 0 /\ total'[j] = 0 /\ overrun'[j] = 0
             /\ pc'[j] \in {"check", "fetch"} => total'[j] > 0
  BY <1>1, <1>7
<1> QED BY <1>2, <1>3, <1>5, <1>6, <1>7, StepsOfJob DEF Scan

(* A run begins with an empty scan, in every behaviour.                     *)
LEMMA ScanStates == Spec => []ScanState
<1>1. Init => ScanState
  BY DEF Init, ScanState
<1>2. TypeOK /\ ScanState /\ [Next]_vars => ScanState'
  BY ScanStateStep
<1> QED BY <1>1, <1>2, TypeCorrect, PTL DEF Spec

(* One more than a number either is a multiple or has one more left over.   *)
LEMMA NextRemainder ==
    ASSUME NEW n \in Nat, NEW i \in Nat \ {0}
    PROVE  /\ n % i \in 0 .. (i - 1)
           /\ (n + 1) % i = 0 \/ (n + 1) % i = (n % i) + 1
<1> DEFINE q == n \div i
           r == n % i
           q2 == (n + 1) \div i
           r2 == (n + 1) % i
<1>1. q \in Int /\ r \in 0 .. (i - 1) /\ n = i * q + r
  OBVIOUS
<1>2. q2 \in Int /\ r2 \in 0 .. (i - 1) /\ n + 1 = i * q2 + r2
  OBVIOUS
<1> HIDE DEF q, r, q2, r2
<1>3. i * (q2 - q) = r + 1 - r2
  BY <1>1, <1>2
<1>4. PICK d \in Int : d = q2 - q
  BY <1>1, <1>2
<1>5. i * d = r + 1 - r2
  BY <1>3, <1>4
<1>6. CASE d <= -1
  <2>1. i * d <= -i
    BY <1>6
  <2> QED BY <1>1, <1>2, <1>5, <2>1
<1>7. CASE d >= 2
  <2>1. i * d >= 2 * i
    BY <1>7
  <2> QED BY <1>1, <1>2, <1>5, <2>1
<1>8. CASE d = 0
  BY <1>1, <1>2, <1>5, <1>8 DEF r, r2
<1>9. CASE d = 1
  BY <1>1, <1>2, <1>5, <1>9 DEF r, r2
<1> QED BY <1>6, <1>7, <1>8, <1>9

\* What a run has fetched since somebody asked to cancel it: no more than what
\* lies behind the last poll.
Polled ==
    \A j \in Jobs :
        /\ overrun[j] <= Interval
        /\ overrun[j] > 0 => row[j].cancel_requested
        /\ pc[j] = "fetch" => overrun[j] <= scanned[j] % Interval
        /\ pc[j] = "progress" => overrun[j] <= (scanned[j] % Interval) + 1

(* From one fetch to the next iteration, when at most the sequences since the *)
(* last poll were fetched too many.                                           *)
LEMMA AdvancePolled ==
    ASSUME TypeOK, NEW j \in Jobs, Advance(j),
           NEW m \in Nat, m <= (scanned[j] % Interval) + 1
    PROVE  /\ m <= Interval
           /\ pc'[j] = "fetch" => m <= scanned'[j] % Interval
           /\ pc'[j] # "progress"
<1>1. scanned[j] \in Nat /\ Interval \in Nat \ {0}
  BY BoundsAreNat DEF TypeOK
<1>2. scanned[j] % Interval \in 0 .. (Interval - 1)
  BY <1>1, NextRemainder
<1>3. (scanned[j] + 1) % Interval = 0
      \/ (scanned[j] + 1) % Interval = (scanned[j] % Interval) + 1
  BY <1>1, NextRemainder
<1>4. m <= Interval
  BY <1>1, <1>2
<1>5. CASE pc'[j] = "complete"
  BY <1>4, <1>5
<1>6. CASE scanned'[j] = scanned[j] + 1 /\ pc'[j] = "check"
  BY <1>4, <1>6
<1>7. CASE scanned'[j] = scanned[j] + 1 /\ ~AtCheck(scanned[j] + 1)
  BY <1>3, <1>4, <1>7, AdvanceSteps DEF AtCheck
<1> QED BY <1>5, <1>6, <1>7, AdvanceSteps

LEMMA PolledStep == IInv /\ ScanState /\ Polled /\ [Next]_vars => Polled'
<1> SUFFICES ASSUME IInv, ScanState, Polled, [Next]_vars, NEW j \in Jobs
             PROVE  /\ overrun'[j] <= Interval
                    /\ overrun'[j] > 0 => row'[j].cancel_requested
                    /\ pc'[j] = "fetch" => overrun'[j] <= scanned'[j] % Interval
                    /\ pc'[j] = "progress" => overrun'[j] <= (scanned'[j] % Interval) + 1
  BY DEF Polled
<1>1. /\ overrun[j] <= Interval
      /\ overrun[j] > 0 => row[j].cancel_requested
      /\ pc[j] = "fetch" => overrun[j] <= scanned[j] % Interval
      /\ pc[j] = "progress" => overrun[j] <= (scanned[j] % Interval) + 1
  BY DEF Polled
<1>2. TypeOK /\ (row[j].cancel_requested => row'[j].cancel_requested)
  BY InductiveStep DEF IInv
<1>3. scanned[j] \in Nat /\ overrun[j] \in Nat /\ Interval \in Nat \ {0}
  BY <1>2, BoundsAreNat DEF TypeOK
<1>4. scanned[j] % Interval \in 0 .. (Interval - 1)
  BY <1>3, NextRemainder
<1>5. ASSUME pc'[j] \notin {"fetch", "progress"}, overrun'[j] = overrun[j]
      PROVE  /\ overrun'[j] <= Interval
             /\ overrun'[j] > 0 => row'[j].cancel_requested
             /\ pc'[j] = "fetch" => overrun'[j] <= scanned'[j] % Interval
             /\ pc'[j] = "progress" => overrun'[j] <= (scanned'[j] % Interval) + 1
  BY <1>1, <1>2, <1>5
<1>6. CASE /\ pc'[j] = pc[j] \/ (pc'[j] = "dead" /\ pc[j] \notin {"idle", "ended"})
           /\ overrun'[j] = overrun[j] /\ scanned'[j] = scanned[j]
  BY <1>1, <1>2, <1>6
<1>7. ASSUME NEW s \in Streams, Submit(j, s)
      PROVE  pc'[j] = "create" /\ overrun'[j] = overrun[j]
  BY <1>2, <1>7 DEF Submit, Goto, TypeOK
<1>8. CASE Info(j)
  <2>1. pc[j] = "info" /\ overrun'[j] = overrun[j]
    BY <1>8 DEF Info
  <2>2. overrun[j] = 0
    BY <2>1 DEF ScanState, Unscanned
  <2>3. scanned'[j] \in {0, 1}
    BY <1>2, <1>8, <2>1 DEF Info, Visit, ScanState, Unscanned, TypeOK
  <2>4. scanned'[j] \in Nat
    BY <2>3
  <2>5. scanned'[j] % Interval \in 0 .. (Interval - 1)
    BY <1>3, <2>4, NextRemainder
  <2> QED BY <1>3, <2>1, <2>2, <2>5
<1>9. CASE Fetch(j)
  <2>1. pc[j] = "fetch" /\ row' = row
    BY <1>9 DEF Fetch
  <2>2. overrun'[j] = IF row[j].cancel_requested THEN overrun[j] + 1 ELSE overrun[j]
    BY <1>2, <1>9 DEF Fetch, TypeOK
  <2>3. /\ overrun'[j] \in Nat /\ overrun'[j] <= (scanned[j] % Interval) + 1
        /\ overrun'[j] > 0 => row'[j].cancel_requested
    BY <1>1, <1>3, <1>4, <2>1, <2>2
  <2>4. CASE Advance(j)
    BY <1>2, <2>3, <2>4, AdvancePolled
  <2>5. CASE pc'[j] = "progress" /\ scanned' = scanned
    BY <1>3, <1>4, <2>3, <2>5
  <2> QED BY <1>2, <1>9, <2>4, <2>5 DEF Fetch, Goto, TypeOK
<1>10. CASE ReportProgress(j)
  <2>1. pc[j] = "progress" /\ overrun'[j] = overrun[j]
    BY <1>10 DEF ReportProgress
  <2>2. CASE pc'[j] \in {"complete", "markFailed"}
    BY <1>5, <2>1, <2>2
  <2>3. CASE Advance(j)
    BY <1>1, <1>2, <1>3, <2>1, <2>3, AdvancePolled
  <2>4. Goto(j, "complete") \/ Goto(j, "markFailed") \/ Advance(j)
    BY <1>10 DEF ReportProgress
  <2> QED BY <1>2, <2>2, <2>3, <2>4 DEF Goto, TypeOK
<1>11. CASE RunJob(j) /\ pc'[j] = "fetch" /\ ~ReportProgress(j)
  <2>1. ~row[j].cancel_requested /\ overrun'[j] = overrun[j] /\ scanned'[j] = scanned[j]
    BY <1>2, <1>11, RunSteps
  <2> QED BY <1>1, <1>2, <1>3, <1>4, <1>11, <2>1
<1>12. CASE RunJob(j) /\ pc'[j] # "fetch" /\ ~ReportProgress(j)
  BY <1>2, <1>5, <1>12, RunSteps
<1>13. ASSUME NEW s \in Streams, Submit(j, s)
       PROVE  /\ overrun'[j] <= Interval
              /\ overrun'[j] > 0 => row'[j].cancel_requested
              /\ pc'[j] = "fetch" => overrun'[j] <= scanned'[j] % Interval
              /\ pc'[j] = "progress" => overrun'[j] <= (scanned'[j] % Interval) + 1
  BY <1>5, <1>7, <1>13
<1>14. CASE RunJob(j)
  BY <1>10, <1>11, <1>12, <1>14
<1> QED
  BY <1>2, <1>6, <1>8, <1>9, <1>13, <1>14, StepsOfJob DEF Scan

(* Between a cancel request in the row and the end of the scan lie at most   *)
(* Interval fetches, whatever the stream holds and the database rejects.     *)
THEOREM CancelStops == Spec => []CancelStopsScan
<1>1. ASSUME Init PROVE Polled
  <2>1. ASSUME NEW j \in Jobs PROVE overrun[j] = 0 /\ pc[j] = "idle"
    BY <1>1 DEF Init
  <2>2. 0 <= Interval /\ ~(0 > 0)
    BY BoundsAreNat
  <2> QED BY <2>1, <2>2, Zenon DEF Polled
<1>2. IInv /\ ScanState /\ Polled /\ [Next]_vars => Polled'
  BY PolledStep
<1>3. Polled => CancelStopsScan
  BY DEF Polled, CancelStopsScan
<1> QED BY <1>1, <1>2, <1>3, Inductive, ScanStates, PTL DEF Spec

-----------------------------------------------------------------------------
(* A completed build can be searched.                                      *)

NobodyDied == \A p \in Builds \cup Cancels : pc[p] # "dead"

\* The messages are in the index before the row says "completed".
PublishedFirst ==
    NobodyDied =>
        \A j \in Jobs :
            \/ row[j].status = "completed"
            \/ pc[j] = "complete"
            \/ pc[j] = "progress" /\ total[j] = 0
            => index[stream[j]] # None

\* A cancel request never holds a completed job, so its save cannot say so.
NoSaveCompletes == \A k \in Cancels : entity[k].status # "completed"

(* Who died stays dead.                                                     *)
LEMMA DeathIsFinal ==
    ASSUME TypeOK, [Next]_vars, NobodyDied'
    PROVE  NobodyDied /\ ~Crash
<1>1. ASSUME NEW q \in Builds \cup Cancels, NEW where, Goto(q, where), pc[q] # "dead"
      PROVE  NobodyDied
  BY <1>1 DEF NobodyDied, Goto, TypeOK
<1>2. ASSUME NEW j \in Jobs, NEW new, NEW next, NEW failed,
             UpdateJob(j, new, next, failed), pc[j] # "dead"
      PROVE  NobodyDied
  BY <1>1, <1>2 DEF UpdateJob
<1>3. ASSUME NEW b \in Builds, NEW s \in Streams, Submit(b, s) \/ BuildDirectly(b, s)
      PROVE  NobodyDied
  BY <1>1, <1>3 DEF Submit, BuildDirectly
<1>4. ASSUME NEW k \in Cancels, NEW j \in Jobs, RequestCancel(k, j) PROVE NobodyDied
  BY <1>1, <1>4 DEF RequestCancel
<1>5. ASSUME NEW k \in Cancels, Save(k) PROVE NobodyDied
  BY <1>1, <1>5 DEF Save, SaveLoads, SaveWrites
<1>6. ASSUME NEW b \in Builds, Advance(b), pc[b] # "dead" PROVE NobodyDied
  BY <1>1, <1>6 DEF Advance, Visit, Publish
<1>7. ASSUME NEW b \in Builds, Scan(b) PROVE NobodyDied
  BY <1>1, <1>6, <1>7 DEF Scan, Info, Fetch, Visit, Throw
<1>8. ASSUME NEW j \in Jobs, RunJob(j) PROVE NobodyDied
  <2>1. CASE CreateJob(j) \/ MarkRunning(j)
    BY <1>2, <2>1 DEF CreateJob, MarkRunning
  <2>2. CASE Check(j)
    BY <1>1, <2>2 DEF Check
  <2>3. CASE ReportProgress(j)
    BY <1>1, <1>6, <2>3 DEF ReportProgress
  <2>4. CASE MarkCompleted(j) \/ MarkCancelled(j)
    BY <1>2, <2>4 DEF MarkCompleted, MarkCancelled
  <2>5. CASE MarkFailed(j) \/ Rescue(j)
    BY <1>2, <2>5 DEF MarkFailed, Rescue
  <2> QED BY <1>8, <2>1, <2>2, <2>3, <2>4, <2>5 DEF RunJob
<1>9. ~Crash
  BY DEF Crash, NobodyDied
<1>10. ASSUME UNCHANGED vars PROVE NobodyDied
  BY <1>10 DEF vars, NobodyDied
<1> QED BY <1>3, <1>4, <1>5, <1>7, <1>8, <1>9, <1>10 DEF Next

(* Only the death of the process empties an entry of the index.             *)
LEMMA IndexKept ==
    ASSUME TypeOK, [Next]_vars, ~Crash, NEW s \in Streams, index[s] # None
    PROVE  index'[s] # None
<1>1. ASSUME NEW b \in Builds, Publish(b) PROVE index'[s] # None
  BY <1>1, BuildsAreDistinct DEF Publish, TypeOK
<1>2. ASSUME NEW b \in Builds, Scan(b) PROVE index'[s] # None
  BY <1>1, <1>2, BuildsAreDistinct DEF Scan, Info, Fetch, Advance, TypeOK
<1>3. ASSUME NEW j \in Jobs, RunJob(j) PROVE index'[s] # None
  <2>1. CASE ReportProgress(j)
    BY <1>1, <2>1 DEF ReportProgress, Advance
  <2>2. CASE ~ReportProgress(j)
    BY <1>3, <2>2 DEF RunJob, CreateJob, MarkRunning, Check, MarkCompleted,
          MarkCancelled, MarkFailed, Rescue, UpdateJob
  <2> QED BY <2>1, <2>2
<1> QED
  BY <1>2, <1>3 DEF Next, Submit, BuildDirectly, RequestCancel, Save, SaveLoads,
     SaveWrites, vars

(* What cancel requests hold, and what a save makes of a row.                *)
LEMMA NoSaveCompletesStep == TypeOK /\ NoSaveCompletes /\ [Next]_vars => NoSaveCompletes'
<1> SUFFICES ASSUME TypeOK, NoSaveCompletes, [Next]_vars PROVE NoSaveCompletes'
  OBVIOUS
<1>1. ASSUME UNCHANGED entity PROVE NoSaveCompletes'
  BY <1>1 DEF NoSaveCompletes
<1>2. ASSUME NEW k \in Cancels, NEW j \in Jobs, RequestCancel(k, j) PROVE NoSaveCompletes'
  <2>1. CASE UNCHANGED entity
    BY <1>1, <2>1
  <2>2. CASE /\ row[j].status \notin Terminal
             /\ entity' = [entity EXCEPT ![k] =
                  [row[j] EXCEPT !.cancel_requested = TRUE,
                                 !.status = IF @ = "pending" THEN "cancelled" ELSE @,
                                 !.completed_at = IF row[j].status = "pending" THEN k ELSE @]]
    <3>1. row[j] \in Row
      BY DEF TypeOK
    <3>2. entity'[k].status = IF row[j].status = "pending" THEN "cancelled" ELSE row[j].status
      BY <2>2, <3>1, Zenon DEF TypeOK, Row
    <3>3. \A i \in Cancels \ {k} : entity'[i] = entity[i]
      BY <2>2 DEF TypeOK
    <3> QED BY <2>2, <3>2, <3>3 DEF NoSaveCompletes, Terminal
  <2> QED BY <1>2, <2>1, <2>2 DEF RequestCancel
<1>3. ASSUME NEW j \in Jobs, RunJob(j) PROVE UNCHANGED entity
  BY <1>3 DEF RunJob, CreateJob, MarkRunning, Check, MarkCompleted, ReportProgress,
     MarkCancelled, MarkFailed, Rescue, UpdateJob, saves
<1> QED
  BY <1>1, <1>2, <1>3 DEF Next, Submit, BuildDirectly, Scan, Info, Fetch, Save,
     SaveLoads, SaveWrites, Crash, vars, saves

(* A row is written by its own run and by saves of requests to cancel it.    *)
LEMMA WhoWrites ==
    ASSUME IInv, [Next]_vars, NEW j \in Jobs, row'[j] # row[j]
    PROVE  RunJob(j) \/ \E k \in Cancels : SaveWrites(k) /\ aim[k] = j
<1>0. TypeOK
  BY DEF IInv
<1>1. ASSUME NEW i \in Jobs, RunJob(i) PROVE i = j
  <2>1. CASE ReportProgress(i)
    BY <1>0, <2>1 DEF ReportProgress, TypeOK
  <2>2. CASE ~ReportProgress(i)
    BY <1>0, <1>1, <2>2 DEF RunJob, CreateJob, MarkRunning, Check, MarkCompleted,
          MarkCancelled, MarkFailed, Rescue, UpdateJob, TypeOK
  <2> QED BY <2>1, <2>2
<1>2. ASSUME NEW k \in Cancels, SaveWrites(k) PROVE aim[k] = j
  BY <1>2, SaveStep
<1> QED
  BY <1>1, <1>2 DEF Next, Submit, BuildDirectly, RequestCancel, Scan, Info, Fetch,
     Save, SaveLoads, Crash, vars

(* A row becomes "completed" by its own run alone, after the scan.           *)
LEMMA WhoCompletes ==
    ASSUME IInv, NoSaveCompletes, [Next]_vars, NEW j \in Jobs,
           row'[j].status = "completed", row[j].status # "completed"
    PROVE  MarkCompleted(j)
<1>0. TypeOK /\ row[j] \in Row
  BY DEF IInv, TypeOK
<1>1. CASE RunJob(j)
  <2> USE DEF TypeOK, Goto
  <2>1. CASE CreateJob(j)
    BY <1>0, <2>1 DEF CreateJob, UpdateJob, NoRow
  <2>2. CASE MarkRunning(j) \/ MarkCancelled(j) \/ MarkFailed(j) \/ Rescue(j)
    <3>1. row'[j] \in {row[j],
                       [row[j] EXCEPT !.status = "running"],
                       [row[j] EXCEPT !.status = "cancelled", !.completed_at = j],
                       [row[j] EXCEPT !.status = "failed", !.error = TRUE, !.completed_at = j]}
      BY <1>0, <2>2 DEF MarkRunning, MarkCancelled, MarkFailed, Rescue, UpdateJob
    <3>2. [row[j] EXCEPT !.status = "running"].status = "running"
      BY <1>0, Zenon DEF Row
    <3>3. [row[j] EXCEPT !.status = "cancelled", !.completed_at = j].status = "cancelled"
      BY <1>0, Zenon DEF Row
    <3>4. [row[j] EXCEPT !.status = "failed", !.error = TRUE, !.completed_at = j].status = "failed"
      BY <1>0, Zenon DEF Row
    <3> QED BY <3>1, <3>2, <3>3, <3>4, Zenon
  <2>3. CASE Check(j)
    BY <2>3 DEF Check
  <2>4. CASE ReportProgress(j)
    <3>1. row'[j] \in {row[j], [row[j] EXCEPT !.progress = Percent(scanned[j], total[j])]}
      BY <1>0, <2>4 DEF ReportProgress
    <3> QED BY <1>0, <3>1 DEF Row
  <2> QED BY <1>1, <2>1, <2>2, <2>3, <2>4 DEF RunJob
<1>2. ASSUME NEW k \in Cancels, SaveWrites(k), aim[k] = j PROVE MarkCompleted(j)
  <2>1. row' = [row EXCEPT ![j] = Merge(@, entity[k], dirty[k])]
    BY <1>2 DEF SaveWrites
  <2>2. row'[j].status \in {row[j].status, entity[k].status}
    BY <1>0, <2>1 DEF Merge, TypeOK
  <2> QED BY <2>2 DEF NoSaveCompletes
<1> QED BY <1>1, <1>2, WhoWrites

(* A run is about to complete only after its scan has stored the index.     *)
LEMMA CompletesAfterPublishing ==
    ASSUME TypeOK, ScanState, NEW j \in Jobs, RunJob(j) \/ Scan(j),
           \/ pc'[j] = "complete"
           \/ pc'[j] = "progress" /\ total'[j] = 0
    PROVE  \/ index'[stream[j]] # None
           \/ pc[j] = "progress" /\ total[j] = 0
<1>0. j # None
  BY BuildsAreDistinct
<1>1. pc[j] # "idle" => stream[j] \in Streams
  BY DEF ScanState
<1>2. ASSUME Publish(j), pc[j] # "idle" PROVE index'[stream[j]] # None
  BY <1>0, <1>1, <1>2 DEF Publish, TypeOK
<1>3. ASSUME Advance(j), pc[j] # "idle", pc'[j] \in {"complete", "progress"}
      PROVE  index'[stream[j]] # None
  BY <1>2, <1>3 DEF Advance, Visit, Goto, TypeOK
<1>4. CASE Info(j)
  <2>1. pc[j] = "info"
    BY <1>4 DEF Info
  <2>2. index' = [index EXCEPT ![stream[j]] = j]
    BY <1>4, BoundsAreNat DEF Info, Visit, Throw, Goto, TypeOK
  <2> QED BY <1>0, <1>1, <2>1, <2>2 DEF TypeOK
<1>5. CASE Fetch(j)
  <2>1. pc[j] = "fetch" /\ total'[j] = total[j] /\ total[j] > 0
    BY <1>5 DEF Fetch, ScanState
  <2>2. Advance(j) \/ Goto(j, "progress")
    BY <1>5 DEF Fetch
  <2>3. CASE Advance(j)
    BY <1>3, <2>1, <2>3
  <2>4. CASE Goto(j, "progress")
    BY <2>1, <2>4 DEF Goto, TypeOK
  <2> QED BY <2>2, <2>3, <2>4
<1>6. CASE ReportProgress(j)
  <2>1. pc[j] = "progress" /\ total'[j] = total[j]
    BY <1>6 DEF ReportProgress
  <2>2. CASE Advance(j)
    BY <1>3, <2>1, <2>2
  <2>3. \/ total[j] = 0
        \/ Advance(j)
        \/ Goto(j, "markFailed")
    BY <1>6 DEF ReportProgress
  <2> QED BY <2>1, <2>2, <2>3 DEF Goto, TypeOK
<1>7. CASE RunJob(j) /\ ~ReportProgress(j)
  BY <1>7, RunSteps
<1> QED BY <1>4, <1>5, <1>6, <1>7 DEF Scan

LEMMA PublishedFirstStep ==
    IInv /\ ScanState /\ NoSaveCompletes /\ PublishedFirst /\ [Next]_vars => PublishedFirst'
<1> SUFFICES ASSUME IInv, ScanState, NoSaveCompletes, PublishedFirst, [Next]_vars,
                    NobodyDied', NEW j \in Jobs,
                    \/ row'[j].status = "completed"
                    \/ pc'[j] = "complete"
                    \/ pc'[j] = "progress" /\ total'[j] = 0
             PROVE  index'[stream'[j]] # None
  BY DEF PublishedFirst
<1>1. TypeOK /\ NobodyDied /\ ~Crash
  BY DeathIsFinal DEF IInv
<1>2. \/ row[j].status = "completed"
      \/ pc[j] = "complete"
      \/ pc[j] = "progress" /\ total[j] = 0
      => index[stream[j]] # None
  BY <1>1 DEF PublishedFirst
<1>3. pc[j] # "idle" => stream[j] \in Streams
  BY DEF ScanState
<1>4. pc'[j] # "dead"
  BY DEF NobodyDied
<1>5. pc[j] = "idle" => row[j].status = "none"
  BY DEF IInv, RowsFollowRuns, NoRow
<1>6. ASSUME pc[j] # "idle", index[stream[j]] # None PROVE index'[stream[j]] # None
  BY <1>1, <1>3, <1>6, IndexKept
<1>7. ASSUME row'[j].status = "completed", row[j].status # "completed"
      PROVE  pc[j] = "complete"
  BY <1>7, WhoCompletes DEF MarkCompleted
<1>8. ASSUME NEW s \in Streams, Submit(j, s) PROVE FALSE
  <2>1. pc[j] = "idle" /\ pc'[j] = "create" /\ row' = row
    BY <1>1, <1>8 DEF Submit, Goto, TypeOK
  <2> QED BY <1>5, <2>1
<1>9. CASE RunJob(j) \/ Scan(j)
  <2>1. stream'[j] = stream[j] /\ pc[j] # "idle"
    <3>1. CASE RunJob(j)
      BY <1>1, <3>1, RunSteps DEF ReportProgress
    <3>2. CASE Scan(j)
      BY <3>2 DEF Scan, Info, Fetch
    <3> QED BY <1>9, <3>1, <3>2
  <2>2. CASE row'[j].status = "completed"
    BY <1>2, <1>6, <1>7, <2>1, <2>2
  <2>3. CASE \/ pc'[j] = "complete"
             \/ pc'[j] = "progress" /\ total'[j] = 0
    BY <1>1, <1>2, <1>6, <1>9, <2>1, <2>3, CompletesAfterPublishing
  <2> QED BY <2>2, <2>3
<1>10. CASE pc'[j] = pc[j] /\ stream'[j] = stream[j] /\ total'[j] = total[j]
  BY <1>2, <1>5, <1>6, <1>7, <1>10
<1> QED BY <1>1, <1>4, <1>8, <1>9, <1>10, StepsOfJob

(* Until a restart loses the index, a job that the database calls completed  *)
(* has put the messages of its stream there, and later builds, saves of      *)
(* cancel requests and rejected updates keep it so.                          *)
THEOREM CompletedSearchable == Spec => []CompletedIsSearchable
<1>1. Init => NoSaveCompletes /\ PublishedFirst
  BY DEF Init, NoSaveCompletes, PublishedFirst, NoRow
<1>2. TypeOK /\ NoSaveCompletes /\ [Next]_vars => NoSaveCompletes'
  BY NoSaveCompletesStep
<1>3. IInv /\ ScanState /\ NoSaveCompletes /\ PublishedFirst /\ [Next]_vars => PublishedFirst'
  BY PublishedFirstStep
<1>4. PublishedFirst => CompletedIsSearchable
  BY DEF PublishedFirst, CompletedIsSearchable, NobodyDied
<1>5. IInv => TypeOK
  BY DEF IInv
<1> QED BY <1>1, <1>2, <1>3, <1>4, <1>5, Inductive, ScanStates, PTL DEF Spec

-----------------------------------------------------------------------------
(* How long a build can take.                                              *)

\* The steps a build may still take, counting those of the scan that lies ahead.
StepsLeft(b) ==
    LET scanAhead == 3 * (MaxMessages - scanned[b])
    IN  CASE pc[b] = "idle"     -> 3 * MaxMessages + 9
          [] pc[b] = "create"   -> 3 * MaxMessages + 8
          [] pc[b] = "start"    -> 3 * MaxMessages + 7
          [] pc[b] = "info"     -> 3 * MaxMessages + 6
          [] pc[b] = "check"    -> scanAhead + 7
          [] pc[b] = "fetch"    -> scanAhead + 6
          [] pc[b] = "progress" -> scanAhead + 5
          [] pc[b] = "complete" -> 4
          [] pc[b] \in {"markCancelled", "markFailed"} -> 3
          [] pc[b] = "rescue"   -> 2
          [] OTHER -> 0

LEMMA StepsLeftIsNat ==
    ASSUME TypeOK, NEW b \in Builds
    PROVE  StepsLeft(b) \in 0 .. 3 * MaxMessages + 9
<1>1. scanned[b] \in 0 .. MaxMessages /\ MaxMessages \in Nat
  BY BoundsAreNat DEF TypeOK
<1> QED BY <1>1 DEF StepsLeft

(* Where a scan goes from one sequence.                                     *)
LEMMA AdvancePlaces ==
    ASSUME TypeOK, NEW b \in Builds, Advance(b)
    PROVE  \/ scanned'[b] = scanned[b] + 1 /\ pc'[b] \in {"check", "fetch"}
           \/ scanned'[b] = scanned[b] /\ pc'[b] \in {"complete", "ended"}
BY DEF TypeOK, Advance, Visit, Publish, Goto

LEMMA ScanRunsDown ==
    ASSUME TypeOK, TypeOK', NEW b \in Builds, Scan(b)
    PROVE  StepsLeft(b)' < StepsLeft(b)
<1>1. /\ scanned[b] \in 0 .. MaxMessages /\ scanned'[b] \in 0 .. MaxMessages
      /\ MaxMessages \in Nat
  BY BoundsAreNat DEF TypeOK
<1>2. CASE Info(b)
  <2>1. pc[b] = "info"
    BY <1>2 DEF Info
  <2>2. \/ scanned'[b] = 1 /\ pc'[b] \in {"check", "fetch"}
        \/ pc'[b] \in {"progress", "markFailed", "ended"}
    BY <1>2 DEF Info, Visit, Throw, Goto, TypeOK
  <2> QED BY <1>1, <2>1, <2>2 DEF StepsLeft
<1>3. CASE Fetch(b)
  <2>1. pc[b] = "fetch"
    BY <1>3 DEF Fetch
  <2>2. CASE scanned'[b] = scanned[b] /\ pc'[b] = "progress"
    BY <1>1, <2>1, <2>2 DEF StepsLeft
  <2>3. CASE Advance(b)
    BY <1>1, <2>1, <2>3, AdvancePlaces DEF StepsLeft
  <2> QED BY <1>3, <2>2, <2>3 DEF Fetch, Goto, TypeOK
<1> QED BY <1>2, <1>3 DEF Scan

LEMMA RunRunsDown ==
    ASSUME TypeOK, TypeOK', NEW j \in Jobs, RunJob(j)
    PROVE  StepsLeft(j)' < StepsLeft(j)
<1>1. /\ scanned[j] \in 0 .. MaxMessages /\ scanned'[j] \in 0 .. MaxMessages
      /\ MaxMessages \in Nat
  BY BoundsAreNat DEF TypeOK
<1>2. CASE ReportProgress(j)
  <2>1. pc[j] = "progress"
    BY <1>2 DEF ReportProgress
  <2>2. CASE pc'[j] \in {"complete", "markFailed"}
    BY <1>1, <2>1, <2>2 DEF StepsLeft
  <2>3. CASE Advance(j)
    BY <1>1, <2>1, <2>3, AdvancePlaces DEF StepsLeft
  <2>4. Goto(j, "complete") \/ Goto(j, "markFailed") \/ Advance(j)
    BY <1>2 DEF ReportProgress
  <2> QED BY <2>2, <2>3, <2>4 DEF Goto, TypeOK
<1>3. CASE pc[j] = "create" /\ pc'[j] \in {"start", "lost"}
  BY <1>1, <1>3 DEF StepsLeft
<1>4. CASE pc[j] = "start" /\ pc'[j] \in {"info", "rescue"}
  BY <1>1, <1>4 DEF StepsLeft
<1>5. CASE /\ pc[j] = "check" /\ pc'[j] \in {"markCancelled", "fetch", "markFailed"}
           /\ scanned'[j] = scanned[j]
  BY <1>1, <1>5 DEF StepsLeft
<1>6. ASSUME MarkCompleted(j) \/ MarkCancelled(j) \/ MarkFailed(j) \/ Rescue(j)
      PROVE  StepsLeft(j)' < StepsLeft(j)
  <2>1. \/ pc[j] = "complete" /\ pc'[j] \in {"ended", "markFailed"}
        \/ pc[j] \in {"markCancelled", "markFailed"} /\ pc'[j] \in {"ended", "rescue"}
        \/ pc[j] = "rescue" /\ pc'[j] \in {"ended", "lost"}
    BY <1>6 DEF MarkCompleted, MarkCancelled, MarkFailed, Rescue, UpdateJob, Goto, TypeOK
  <2> QED BY <2>1 DEF StepsLeft
<1>7. \/ pc[j] = "create" /\ pc'[j] \in {"start", "lost"}
      \/ pc[j] = "start" /\ pc'[j] \in {"info", "rescue"}
      \/ /\ pc[j] = "check" /\ pc'[j] \in {"markCancelled", "fetch", "markFailed"}
         /\ scanned'[j] = scanned[j]
      \/ ReportProgress(j)
      \/ MarkCompleted(j) \/ MarkCancelled(j) \/ MarkFailed(j) \/ Rescue(j)
  BY DEF RunJob, CreateJob, MarkRunning, Check, UpdateJob, Goto, TypeOK, scan
<1> QED BY <1>2, <1>3, <1>4, <1>5, <1>6, <1>7

\* Every step of a build, whatever fails in it, brings its end nearer, and nobody
\* else's step moves it away.
BuildsRunDown ==
    [][\A b \in Builds :
          /\ StepsLeft(b)' <= StepsLeft(b)
          /\ Scan(b) \/ (b \in Jobs /\ RunJob(b)) => StepsLeft(b)' < StepsLeft(b)]_vars

(* No retry of a rejected update and no cancellation makes a build go round  *)
(* again: it takes at most three steps per sequence and nine more.           *)
THEOREM BuildsAreBounded ==
    Spec => BuildsRunDown /\ [](\A b \in Builds : StepsLeft(b) \in 0 .. 3 * MaxMessages + 9)
<1>1. ASSUME TypeOK, TypeOK', [Next]_vars, NEW b \in Builds
      PROVE  /\ StepsLeft(b)' <= StepsLeft(b)
             /\ Scan(b) \/ (b \in Jobs /\ RunJob(b)) => StepsLeft(b)' < StepsLeft(b)
  <2>1. /\ StepsLeft(b) \in 0 .. 3 * MaxMessages + 9
        /\ StepsLeft(b)' \in 0 .. 3 * MaxMessages + 9
        /\ MaxMessages \in Nat
    <3>1. scanned'[b] \in 0 .. MaxMessages /\ MaxMessages \in Nat
      BY <1>1, BoundsAreNat DEF TypeOK
    <3>2. StepsLeft(b)' \in 0 .. 3 * MaxMessages + 9
      BY <3>1 DEF StepsLeft
    <3>3. StepsLeft(b) \in 0 .. 3 * MaxMessages + 9
      BY <1>1, StepsLeftIsNat
    <3> QED BY <3>1, <3>2, <3>3
  <2>2. Scan(b) \/ (b \in Jobs /\ RunJob(b)) => StepsLeft(b)' < StepsLeft(b)
    BY <1>1, ScanRunsDown, RunRunsDown
  <2>3. CASE pc'[b] = pc[b] /\ scanned'[b] = scanned[b]
    BY <2>1, <2>2, <2>3 DEF StepsLeft
  <2>4. CASE pc'[b] = "dead"
    BY <2>1, <2>2, <2>4 DEF StepsLeft
  <2>5. CASE pc[b] = "idle" /\ pc'[b] \in {"create", "info"}
    BY <2>1, <2>2, <2>5 DEF StepsLeft
  <2>6. \/ /\ pc'[b] = pc[b] \/ pc'[b] = "dead"
           /\ scanned'[b] = scanned[b]
        \/ pc[b] = "idle" /\ pc'[b] \in {"create", "info"}
        \/ Scan(b) \/ (b \in Jobs /\ RunJob(b))
    <3>1. ASSUME NEW s \in Streams, Submit(b, s) \/ BuildDirectly(b, s)
          PROVE  pc[b] = "idle" /\ pc'[b] \in {"create", "info"}
      BY <1>1, <3>1 DEF Submit, BuildDirectly, Goto, TypeOK
    <3> QED BY <1>1, <3>1, StepsOfBuild
  <2> QED BY <2>1, <2>2, <2>3, <2>4, <2>5, <2>6
<1>2. TypeOK /\ TypeOK' /\ [Next]_vars =>
        [\A b \in Builds :
            /\ StepsLeft(b)' <= StepsLeft(b)
            /\ Scan(b) \/ (b \in Jobs /\ RunJob(b)) => StepsLeft(b)' < StepsLeft(b)]_vars
  BY <1>1
<1>3. TypeOK => \A b \in Builds : StepsLeft(b) \in 0 .. 3 * MaxMessages + 9
  BY StepsLeftIsNat
<1> QED BY <1>2, <1>3, TypeCorrect, PTL DEF Spec, BuildsRunDown

-----------------------------------------------------------------------------
(* A finished job is history.                                              *)

\* The run is over, nobody asked to cancel it and no save of one who did is under
\* way.
Settled(j) ==
    /\ pc[j] = "ended"
    /\ ~row[j].cancel_requested
    /\ \A k \in Cancels : pc[k] \in Saving => aim[k] # j

\* Then no request to cancel it that comes later, and no save, touches the row.
SettledForGood == [][\A j \in Jobs : Settled(j) => Settled(j)' /\ row'[j] = row[j]]_vars

(* A request that saves was saving before, or has just asked.                *)
LEMMA WhoSaves ==
    ASSUME TypeOK, [Next]_vars, NEW k \in Cancels, pc'[k] \in Saving
    PROVE  \/ pc[k] \in Saving /\ aim'[k] = aim[k]
           \/ \E j \in Jobs : RequestCancel(k, j)
<1> DEFINE Goal == \/ pc[k] \in Saving /\ aim'[k] = aim[k]
                   \/ \E j \in Jobs : RequestCancel(k, j)
<1>1. ASSUME NEW b \in Builds, NEW s \in Streams, Submit(b, s) \/ BuildDirectly(b, s) PROVE Goal
  BY <1>1, BuildsAreDistinct DEF TypeOK, Submit, BuildDirectly, Goto, saves
<1>2. ASSUME NEW b \in Builds, Scan(b) PROVE Goal
  BY <1>2, ScanSteps, BuildsAreDistinct DEF saves
<1>3. ASSUME NEW j \in Jobs, RunJob(j) PROVE Goal
  <2>1. /\ UNCHANGED saves
        /\ \A p \in (Builds \cup Cancels) \ {j} : pc'[p] = pc[p]
    BY <1>3, ScanSteps, EditSteps DEF RunJob, CreateJob, UpdateJob, Goto, TypeOK
  <2> QED BY <1>3, <2>1, BuildsAreDistinct DEF saves
<1>4. ASSUME NEW i \in Cancels, NEW j \in Jobs, RequestCancel(i, j) PROVE Goal
  BY <1>4 DEF TypeOK, RequestCancel, Goto
<1>5. ASSUME NEW i \in Cancels, Save(i) PROVE Goal
  BY <1>5 DEF TypeOK, Save, SaveLoads, SaveWrites, Goto, saves, Saving
<1>6. ASSUME Crash PROVE Goal
  BY <1>6 DEF TypeOK, Crash, Saving, Running, saves
<1>7. ASSUME UNCHANGED vars PROVE Goal
  BY <1>7 DEF vars
<1> HIDE DEF Goal
<1>8. Goal
  BY <1>1, <1>2, <1>3, <1>4, <1>5, <1>6, <1>7 DEF Next
<1> QED BY <1>8 DEF Goal

(* What is settled stays so.                                                *)
LEMMA SettledStep ==
    ASSUME IInv, EndedRunIsTerminal, [Next]_vars, NEW j \in Jobs, Settled(j)
    PROVE  Settled(j)' /\ row'[j] = row[j]
<1>0. TypeOK /\ pc[j] = "ended" /\ row[j].status \in Terminal
  BY DEF IInv, Settled, EndedRunIsTerminal
<1>1. ~RunJob(j) /\ ~Scan(j) /\ \A s \in Streams : ~Submit(j, s)
  BY <1>0 DEF RunJob, CreateJob, MarkRunning, Check, ReportProgress, MarkCompleted,
     MarkCancelled, MarkFailed, Rescue, Scan, Info, Fetch, Submit
<1>2. row'[j] = row[j]
  BY <1>1, WhoWrites DEF Settled, SaveWrites, Saving
<1>3. pc'[j] = "ended"
  BY <1>0, <1>1, StepsOfJob
<1>4. ASSUME NEW k \in Cancels, pc'[k] \in Saving PROVE aim'[k] # j
  <2>1. CASE pc[k] \in Saving /\ aim'[k] = aim[k]
    BY <2>1 DEF Settled
  <2>2. ASSUME NEW i \in Jobs, RequestCancel(k, i) PROVE aim'[k] # j
    <3>1. pc'[k] # "ended"
      BY <1>4 DEF Saving
    <3>2. row[i].status \notin Terminal /\ aim'[k] = i
      BY <1>0, <2>2, <3>1 DEF RequestCancel, Goto, TypeOK
    <3> QED BY <1>0, <3>2
  <2> QED BY <1>0, <1>4, <2>1, <2>2, WhoSaves
<1> QED BY <1>2, <1>3, <1>4 DEF Settled

(* Once a run is over with nobody wanting it cancelled, its row never changes *)
(* again, however many ask to cancel it afterwards.                           *)
THEOREM SettledRows == Spec => SettledForGood
<1>1. IInv /\ EndedRunIsTerminal /\ [Next]_vars =>
        [\A j \in Jobs : Settled(j) => Settled(j)' /\ row'[j] = row[j]]_vars
  BY SettledStep
<1> QED BY <1>1, Inductive, EndedRuns, PTL DEF Spec, SettledForGood
=============================================================================
