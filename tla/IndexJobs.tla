------------------------------- MODULE IndexJobs -------------------------------
(***************************************************************************)
(* Background index builds: JobsController, JobsService and the scan of    *)
(* MessageIndexService, with the job rows kept in the database.            *)
(*                                                                         *)
(* A request or a run is suspended at an await; the action that resumes it *)
(* performs the awaited call and the code up to the next await.  The row   *)
(* of a job is shared by its run, which updates single columns, and by the *)
(* cancel requests, which load the entity, change it and save it back.     *)
(* The index lives in memory and is lost with the process, rows survive.   *)
(***************************************************************************)
EXTENDS Naturals

CONSTANTS
    Jobs,          \* submitted index-build jobs
    Direct,        \* builds requested without a job (POST .../index/build)
    Cancels,       \* requests to POST jobs/:jobId/cancel
    Streams,       \* streams that are indexed
    MaxMessages,   \* bound on the sequences a build scans
    Interval,      \* PROGRESS_UPDATE_INTERVAL
    DbFails,       \* TRUE: a database call may reject
    Crashes,       \* TRUE: the process may die
    None

Builds == Jobs \cup Direct

ASSUME BuildsAreDistinct ==
    /\ Jobs \cap Direct = {}
    /\ (Jobs \cup Direct) \cap Cancels = {}
    /\ None \notin Jobs \cup Direct \cup Cancels
ASSUME BoundsAreNat == MaxMessages \in Nat /\ Interval \in Nat \ {0}
ASSUME FlagsAreBool == DbFails \in BOOLEAN /\ Crashes \in BOOLEAN

VARIABLES
    row,       \* row[j]: the job's columns in the database
    pc,        \* where each build and each cancel request is suspended
    stream,    \* stream[b]: the stream a build scans
    total,     \* total[b]: totalToScan
    scanned,   \* scanned[b]: the sequences visited so far
    index,     \* index[s]: the build whose messages the index holds, or None
    entity,    \* entity[k]: the job a cancel request has in memory
    aim,       \* aim[k]: the job it cancels
    dirty,     \* dirty[k]: the columns its save found to differ
    overrun    \* overrun[j]: messages fetched since the row says cancel_requested

vars == <<row, pc, stream, total, scanned, index, entity, aim, dirty, overrun>>

scan  == <<stream, total, scanned, overrun>>
saves == <<entity, aim, dirty>>

Terminal == {"completed", "failed", "cancelled"}
Columns  == {"status", "progress", "result", "error", "completed_at", "cancel_requested"}

\* A row that does not exist yet has status "none"; completed_at is who stamped
\* it: stamps of two writers differ.
Row == [status: {"none", "pending", "running"} \cup Terminal, progress: 0 .. 100,
        result: BOOLEAN, error: BOOLEAN, cancel_requested: BOOLEAN,
        completed_at: Jobs \cup Cancels \cup {None}]

NoRow == [status |-> "none", progress |-> 0, result |-> FALSE, error |-> FALSE,
          completed_at |-> None, cancel_requested |-> FALSE]

Running  == {"create", "start", "info", "check", "fetch", "progress", "complete",
             "markCancelled", "markFailed", "rescue"}
Saving   == {"load", "write"}
PcStates == {"idle", "ended", "lost", "dead"} \cup Running \cup Saving

TypeOK ==
    /\ row \in [Jobs -> Row]
    /\ pc \in [Builds \cup Cancels -> PcStates]
    /\ stream \in [Builds -> Streams \cup {None}]
    /\ total \in [Builds -> 0 .. MaxMessages]
    /\ scanned \in [Builds -> 0 .. MaxMessages]
    /\ index \in [Streams -> Builds \cup {None}]
    /\ entity \in [Cancels -> Row]
    /\ aim \in [Cancels -> Jobs \cup {None}]
    /\ dirty \in [Cancels -> SUBSET Columns]
    /\ overrun \in [Builds -> Nat]

Init ==
    /\ row = [j \in Jobs |-> NoRow]
    /\ pc = [p \in Builds \cup Cancels |-> "idle"]
    /\ stream = [b \in Builds |-> None]
    /\ total = [b \in Builds |-> 0]
    /\ scanned = [b \in Builds |-> 0]
    /\ index = [s \in Streams |-> None]
    /\ entity = [k \in Cancels |-> NoRow]
    /\ aim = [k \in Cancels |-> None]
    /\ dirty = [k \in Cancels |-> {}]
    /\ overrun = [b \in Builds |-> 0]

Goto(p, where) == pc' = [pc EXCEPT ![p] = where]

-----------------------------------------------------------------------------
(* Awaited writes of a build to its row.                                   *)

\* updateJob: an UPDATE of the given columns, then a read of the row.  The call
\* rejects when either fails: then the columns may be written or not.
UpdateJob(j, updated, next, failed) ==
    /\ \/ row' = [row EXCEPT ![j] = updated] /\ Goto(j, next)
       \/ /\ DbFails
          /\ row' \in {row, [row EXCEPT ![j] = updated]}
          /\ Goto(j, failed)
    /\ UNCHANGED <<scan, index, saves>>

\* submitIndexBuildJob found the connection and calls createJob.
Submit(j, s) ==
    /\ pc[j] = "idle"
    /\ stream' = [stream EXCEPT ![j] = s]
    /\ Goto(j, "create")
    /\ UNCHANGED <<row, total, scanned, overrun, index, saves>>

\* createJob saves the row; then runIndexBuild is started, not awaited.  If the
\* save rejects the request fails and there is no run: "lost".
CreateJob(j) ==
    /\ pc[j] = "create"
    /\ UpdateJob(j, [NoRow EXCEPT !.status = "pending"], "start", "lost")

\* Mutant: the row is saved anew from the entity that createJob returned.
MarkRunningAnew(j) ==
    /\ pc[j] = "start"
    /\ UpdateJob(j, [NoRow EXCEPT !.status = "running"], "info", "rescue")

\* The first update of runIndexBuild stands outside its try block.
MarkRunning(j) ==
    /\ pc[j] = "start"
    /\ UpdateJob(j, [row[j] EXCEPT !.status = "running"], "info", "rescue")

\* onProgress: at most 99 percent.
Percent(current, all) ==
    LET p == IF all > 0 THEN (current * 100) \div all ELSE 0
    IN  IF p < 99 THEN p ELSE 99

\* The last statement of the try block.
MarkCompleted(j) ==
    /\ pc[j] = "complete"
    /\ UpdateJob(j, [row[j] EXCEPT !.status = "completed", !.progress = 100,
                                   !.completed_at = j, !.result = TRUE],
                 "ended", "markFailed")

\* The catch block, after an IndexBuildCancelledError.
MarkCancelled(j) ==
    /\ pc[j] = "markCancelled"
    /\ UpdateJob(j, [row[j] EXCEPT !.status = "cancelled", !.completed_at = j],
                 "ended", "rescue")

\* The catch block, after any other error.
MarkFailed(j) ==
    /\ pc[j] = "markFailed"
    /\ UpdateJob(j, [row[j] EXCEPT !.status = "failed", !.error = TRUE,
                                   !.completed_at = j],
                 "ended", "rescue")

\* The catch on the promise of runIndexBuild; its own failure is swallowed: "lost".
Rescue(j) ==
    /\ pc[j] = "rescue"
    /\ UpdateJob(j, [row[j] EXCEPT !.status = "failed", !.error = TRUE,
                                   !.completed_at = j],
                 "ended", "lost")

-----------------------------------------------------------------------------
(* buildSearchIndex, run by a job or directly by a request.                *)

\* POST streams/:streamName/messages/index/build: no progress, no cancellation.
BuildDirectly(d, s) ==
    /\ pc[d] = "idle"
    /\ stream' = [stream EXCEPT ![d] = s]
    /\ Goto(d, "info")
    /\ UNCHANGED <<row, total, scanned, overrun, index, saves>>

\* Mutant: the rejection is not caught.
ThrowUncaught(b) == Goto(b, "ended")

\* buildSearchIndex rejects: the catch block of a job, the end of a request.
Throw(b) == Goto(b, IF b \in Jobs THEN "markFailed" ELSE "ended")

\* Mutant: the background build returns without storing its messages.
PublishDirectOnly(b) ==
    /\ index' = [index EXCEPT ![stream[b]] = IF b \in Direct THEN b ELSE @]
    /\ Goto(b, IF b \in Jobs THEN "complete" ELSE "ended")

\* The entry of the stream is replaced, and the build returns.
Publish(b) ==
    /\ index' = [index EXCEPT ![stream[b]] = b]
    /\ Goto(b, IF b \in Jobs THEN "complete" ELSE "ended")

\* Mutant: the flag is read at the first sequence only.
AtCheckFirst(n) == n = 1

\* shouldCancel is asked at the first sequence and at every Interval-th.
AtCheck(n) == n = 1 \/ n % Interval = 0

\* The n-th iteration of the loop starts.
Visit(b, n) ==
    /\ scanned' = [scanned EXCEPT ![b] = n]
    /\ Goto(b, IF b \in Jobs /\ AtCheck(n) THEN "check" ELSE "fetch")

\* Mutant: one sequence too many.
AdvancePast(b) ==
    IF scanned[b] <= total[b]
    THEN Visit(b, scanned[b] + 1) /\ UNCHANGED index
    ELSE Publish(b) /\ UNCHANGED scanned

\* The iteration is over: the next one, or the end of the loop.
Advance(b) ==
    IF scanned[b] < total[b]
    THEN Visit(b, scanned[b] + 1) /\ UNCHANGED index
    ELSE Publish(b) /\ UNCHANGED scanned

\* streams.info answers; n is the number of sequences the build is to scan.
Info(b) ==
    /\ pc[b] = "info"
    /\ \/ /\ \E n \in 1 .. MaxMessages : total' = [total EXCEPT ![b] = n]
          /\ Visit(b, 1)
          /\ UNCHANGED index
       \/ /\ index' = [index EXCEPT ![stream[b]] = b]     \* an empty stream
          /\ Goto(b, IF b \in Jobs THEN "progress" ELSE "ended")
          /\ UNCHANGED <<total, scanned>>
       \/ Throw(b) /\ UNCHANGED <<total, scanned, index>>
    /\ UNCHANGED <<row, stream, overrun, saves>>

\* shouldCancel reads the row.
Check(j) ==
    /\ pc[j] = "check"
    /\ \/ Goto(j, IF row[j].cancel_requested THEN "markCancelled" ELSE "fetch")
       \/ DbFails /\ Goto(j, "markFailed")
    /\ UNCHANGED <<row, scan, index, saves>>

\* Progress is reported at every Interval-th sequence and at the last.
AtReport(b) == scanned[b] % Interval = 0 \/ scanned[b] = total[b]

\* Mutant: when getMessage rejects the build starts over.
FetchRestarts(b) ==
    /\ pc[b] = "fetch"
    /\ \/ Goto(b, "info") /\ UNCHANGED <<scanned, index>>
       \/ Advance(b)
    /\ UNCHANGED <<row, stream, total, overrun, saves>>

\* getMessage answers, or rejects: then the sequence is skipped, and with it the
\* progress report.
Fetch(b) ==
    /\ pc[b] = "fetch"
    /\ overrun' = [overrun EXCEPT ![b] =
                     IF b \in Jobs /\ row[b].cancel_requested THEN @ + 1 ELSE @]
    /\ \/ /\ b \in Jobs /\ AtReport(b)
          /\ Goto(b, "progress")
          /\ UNCHANGED <<scanned, index>>
       \/ Advance(b)              \* nothing to report, or getMessage rejects
    /\ UNCHANGED <<row, stream, total, saves>>

\* onProgress is awaited before the loop goes on.
ReportProgress(j) ==
    LET updated == [row EXCEPT ![j].progress = Percent(scanned[j], total[j])] IN
    /\ pc[j] = "progress"
    /\ \/ /\ row' = updated
          /\ IF total[j] = 0
             THEN Goto(j, "complete") /\ UNCHANGED <<scanned, index>>
             ELSE Advance(j)
       \/ /\ DbFails
          /\ row' \in {row, updated}
          /\ Goto(j, "markFailed")
          /\ UNCHANGED <<scanned, index>>
    /\ UNCHANGED <<stream, total, overrun, saves>>

-----------------------------------------------------------------------------
(* cancelJob.  save(entity) is TypeORM's: it loads the row, compares, and   *)
(* updates the columns that differ.                                        *)

\* getJob, the early return for a finished job, and the changes in memory.
RequestCancel(k, j) ==
    /\ pc[k] = "idle"
    /\ aim' = [aim EXCEPT ![k] = j]
    /\ IF row[j].status \in Terminal \cup {"none"}
       THEN Goto(k, "ended") /\ UNCHANGED entity
       ELSE /\ entity' = [entity EXCEPT ![k] =
                            [row[j] EXCEPT
                               !.cancel_requested = TRUE,
                               !.status = IF @ = "pending" THEN "cancelled" ELSE @,
                               !.completed_at = IF row[j].status = "pending" THEN k ELSE @]]
            /\ Goto(k, "load")
    /\ UNCHANGED <<row, scan, index, dirty>>

Differing(a, b) == {c \in Columns : a[c] # b[c]}

\* The columns cols of new, the others of old.
Merge(old, new, cols) ==
    LET pick(c) == IF c \in cols THEN new[c] ELSE old[c]
    IN  [status |-> pick("status"), progress |-> pick("progress"),
         result |-> pick("result"), error |-> pick("error"),
         completed_at |-> pick("completed_at"),
         cancel_requested |-> pick("cancel_requested")]

SaveLoads(k) ==
    /\ pc[k] = "load"
    /\ \/ /\ dirty' = [dirty EXCEPT ![k] = Differing(entity[k], row[aim[k]])]
          /\ Goto(k, "write")
       \/ DbFails /\ Goto(k, "ended") /\ UNCHANGED dirty
    /\ UNCHANGED <<row, scan, index, entity, aim>>

SaveWrites(k) ==
    LET saved == [row EXCEPT ![aim[k]] = Merge(@, entity[k], dirty[k])] IN
    /\ pc[k] = "write"
    /\ row' = saved \/ (DbFails /\ row' = row)
    /\ Goto(k, "ended")
    /\ UNCHANGED <<scan, index, saves>>

-----------------------------------------------------------------------------
(* The process dies: runs, requests and the index are gone.                *)
Crash ==
    /\ Crashes
    /\ \E p \in Builds \cup Cancels : pc[p] \in Running \cup Saving
    /\ pc' = [p \in Builds \cup Cancels |->
                 IF pc[p] \in Running \cup Saving THEN "dead" ELSE pc[p]]
    /\ index' = [s \in Streams |-> None]
    /\ UNCHANGED <<row, scan, saves>>

-----------------------------------------------------------------------------
RunJob(j) ==
    \/ CreateJob(j) \/ MarkRunning(j) \/ Check(j) \/ ReportProgress(j)
    \/ MarkCompleted(j) \/ MarkCancelled(j) \/ MarkFailed(j) \/ Rescue(j)

Scan(b) == Info(b) \/ Fetch(b)

Save(k) == SaveLoads(k) \/ SaveWrites(k)

Next ==
    \/ \E j \in Jobs, s \in Streams : Submit(j, s)
    \/ \E d \in Direct, s \in Streams : BuildDirectly(d, s)
    \/ \E k \in Cancels, j \in Jobs : RequestCancel(k, j)
    \/ \E j \in Jobs : RunJob(j)
    \/ \E b \in Builds : Scan(b)
    \/ \E k \in Cancels : Save(k)
    \/ Crash

Spec == Init /\ [][Next]_vars

\* The database and NATS answer or reject what is asked of them.
Fairness ==
    /\ \A j \in Jobs : WF_vars(RunJob(j))
    /\ \A b \in Builds : WF_vars(Scan(b))
    /\ \A k \in Cancels : WF_vars(Save(k))

FairSpec == Spec /\ Fairness

-----------------------------------------------------------------------------
(* Safety.                                                                 *)

\* A completed build can be searched, also after later builds of the stream and
\* until a restart loses the index.
CompletedIsSearchable ==
    (\A p \in Builds \cup Cancels : pc[p] # "dead") =>
        \A j \in Jobs : row[j].status = "completed" => index[stream[j]] # None

\* When a run is over its row is in a final state, unless somebody asked to
\* cancel it: only then can a late save leave it pending or running for good.
\* Errors of NATS and the database are included; only a run whose last attempt
\* to record its failure was rejected as well is excused, and a crash.
EndedRunIsTerminal ==
    \A j \in Jobs :
        pc[j] = "ended" /\ ~row[j].cancel_requested => row[j].status \in Terminal

\* Once the row says cancel_requested, the run fetches at most Interval more
\* messages: the flag is polled often enough, and no poll misses it.
CancelStopsScan == \A j \in Jobs : overrun[j] <= Interval

\* No update of the run, and no other save, takes a cancellation back.
CancelFlagSticks ==
    [][\A j \in Jobs : row[j].cancel_requested => row'[j].cancel_requested]_vars

\* "Index build cancelled.": what was reported cancelled stays cancelled.
CancelledStaysCancelled ==
    [][\A j \in Jobs : row[j].status = "cancelled" => row'[j].status = "cancelled"]_vars

-----------------------------------------------------------------------------
(* Liveness.                                                               *)

\* Every build comes to an end, cancelled or not, whatever NATS and the
\* database reject.
BuildsEnd == \A b \in Builds : pc[b] # "idle" ~> pc[b] \in {"ended", "lost", "dead"}
=============================================================================
