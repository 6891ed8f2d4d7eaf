# Verification of nats-jetstream-manager

A TLA+ development beside the code of nats-jetstream-manager, a dashboard (Next.js) and an API (NestJS)
for NATS JetStream. The API keeps NATS connections, search indexes and remediation sessions in the memory
of one Node.js process, and jobs, metrics, health records and the audit log in a database (TypeORM on
PostgreSQL or SQLite). There are no threads: what makes the code hard are requests, timers and background
runs that interleave at every `await`, over state they share, with a NATS server, a database and other
clients that act on their own; and a dashboard whose lists are always a little older than the server.

Paths below are relative to `src/backend/src` unless they start with `src/`.

## 1. The system

### Components, state, operations

| component | state | operations | what makes it correct | module |
|---|---|---|---|---|
| connections (`connections/`) | `connections: Map<id, {nc, sysNc, jsm, js, lastAccessed}>` | connect (replaces), disconnect, test, lookup, expiry every 60 s, drain at shutdown | replacement, no handle without an owner, expiry of idle entries only, every request answered | `Connections` |
| jobs (`jobs/`) | table `jobs` | submit an index build, update by the run, cancel, get, list | a final row tells the truth about the run; a cancellation is not lost | `IndexJobs` |
| message index (`messages/message-index.service.ts`) | `searchIndex: Map<connection:stream, messages>` | build (scan), search | a completed build is searchable; a cancel stops the scan | `IndexJobs` |
| remediation (`messages/message-remediation.service.ts`) | `remediationSessions: Map<id, {handles, expiry, timer}>` | fetch deliveries, ack / nak / term / working, expiry | offers what is not handled, an ack reported ok is final, an emptied session goes | `Remediation` |
| message reader, and the message browser of the dashboard | the stream; cursor, cursor history, page shown | page through a stream in both directions, filter, jump to a range or a page, change the page size, apply a saved view, follow live | a walk passes over nothing and shows nothing twice | `MessagePaging` |
| publisher, replay, delete (`messages/`) | none; the stream itself | publish (batch), republish, erase | a batch is a prefix of itself, one delete of a message succeeds | `Administration` |
| streams, consumers, kv, objectstore | the server's configurations and buckets | create, update (read, merge, write), put, delete, purge | an update keeps the fields it does not name, only creates make (and whatever opens an object store) | `Administration` |
| audit (`audit/`) | table `audit_logs` | log, list | it tells of what was done, and of all that was answered | `Administration` |
| metrics, health history | tables of snapshots | collectors every 30 s, pruning | no connection is called down that is up, none is passed over | `Monitoring` |
| live tail (`messages/messages.service.ts`) | one subscription and one heartbeat per listener | SSE | keeps its connection, ends with it | `Monitoring` |
| resource pages of the dashboard (`src/frontend/src/app/dashboard`), dialogs | lists, selections, dialogs, edit forms, bulk runs | create, edit, delete, bulk delete | requests go where their dialog or form was opened for, unless that is lost or left; a bulk run accounts for every item | `ResourcePages` |
| subject analysis of the dashboard (`src/frontend/src/lib/subject-analysis.ts`), subject filter of history (`common/nats/subject.ts`) | lists of streams and consumers | match, overlap, cover, orphans, unmatched filters, probe, topology | it says what the server does | `Subjects` |
| cluster, system, schema validation, rendering | none | reads | | (section 5) |

### Interactions

Every request first looks up its connection (`getConnection`, which refreshes `lastAccessed`) and then
works with the object it got; the entry may be drained and deleted while it does. The job run keeps the
`jsm` of its connection and calls the index build, which calls back into the jobs table (`onProgress`,
`shouldCancel`). A remediation session keeps message handles of the connection it was fetched on. The
collectors list the connections and then look each one up without touching it; a live tail touches its
connection at every heartbeat. Each mutation writes to the audit log before it answers. The dashboard
polls lists and job rows, takes a final status as the end, and sends mutations built from what it shows.

### Hard behaviours

- Interleaving at awaits: connect against connect, disconnect and expiry; the job's run against cancel
  requests that save stale entities; applies that overlap on one session; updates that merge into a
  configuration somebody else changed; collectors over a registry that changes under them.
- Failure: a server that is lost, drains that reject, a database call that rejects before or after its
  effect, acks without confirmation, publishes whose acknowledgement is lost, bulk runs that fail in part.
- Crash and restart: memory is lost, rows survive, nothing recovers them.
- Time: expiry of connections and sessions, ack timeouts, redelivery, heartbeats.
- Staleness: pages, selections, dialogs and forms of the dashboard that outlive what they show.

`PROJECT.json` lists each hazard at its line, with the properties that cover it or why none does.

## 2. Modules

| module | models | proofs |
|---|---|---|
| `Connections` | `ConnectionsService` and the handles it owns | `ConnectionsProofs` |
| `SingleSlot` | the abstract promise "single connection" | refined by `Connections` with serial connects |
| `Registry` | what the rest of the API may rely on about its connections | refined by `Connections` |
| `IndexJobs` | `JobsController`, `JobsService`, `MessageIndexService.buildSearchIndex`, job rows | `IndexJobsProofs` |
| `Remediation` | `MessageRemediationService`, message handles, the consumer | `RemediationProofs` |
| `MessagePaging` | `MessageReaderService.getMessages` and the message browser that pages with it | `MessagePagingProofs` |
| `Administration` | the mutating endpoints, the audit log, the server they change | `AdministrationProofs` |
| `Monitoring` | `HealthHistoryService`, `MetricsService` and live tails, composed with `Registry` | `MonitoringProofs` |
| `ResourcePages` | the six lists of the dashboard with their dialogs and forms | `ResourcePagesProofs` |
| `Subjects` | `subject-analysis.ts`, its callers, and `natsSubjectToRegex` | `SubjectsProofs` |
| `MC*` | the symmetry sets and the small tables of the instances | |

In the modules of the backend an action is the stretch of code from one `await` to the next, which Node.js
runs without interruption. A request is a model value and a program counter: where it is suspended. In
those of the dashboard an action is an event handler, a query that settles, or an effect of React together
with the render that caused it. The operators named "Mutant" in a module are plausible wrong versions of the
definition that follows them; a run with the mutant in place violates the property it belongs to, which
shows that the property depends on that code.

### Connections, SingleSlot and Registry

A connection is named by the request that creates it. `connections` is the Map, `idle` the time since
`lastAccessed` (saturated one above the timeout), `main` and `sys` the states of `nc` and `sysNc`,
`existing`/`todo` the snapshot of ids in `createConnection` and what its loop has not visited, `target` and
`accepted` what a removal works on and whether the drain it awaits is its own (a second `drain()` rejects at
once, and `removeConnection` catches that). `RemoveNext` is one iteration of the loop; `BeginRemoval`,
`DrainSys`, `FinishRemoval` are the three stretches of `removeConnection`; `Cleanup` is the synchronous
expiry; `BeginDestroy`/`EndDestroy` are `onModuleDestroy`. The nats library is external: attempts
settle, drains complete, an open handle can close by itself. `main.ts` does not enable shutdown hooks, so
`onModuleDestroy` runs only where the application is closed explicitly; the model allows it at any time.

Two abstract specifications say what the service promises. `SingleSlot` is one slot that a connect fills and a
disconnect empties; it holds of clients that connect one at a time. `Registry` is what holds however
requests overlap, and what `Monitoring` builds on: an id enters once, it leaves drained by a request, idle for
too long, or at the end of the module, and a handle that is draining or closed never opens again.

### IndexJobs

`row` is the jobs table, abstracted to status, progress, whether there is a result and an error, who
stamped `completed_at`, and `cancel_requested`. `UpdateJob` is the UPDATE of single columns the run makes;
cancel requests instead load the entity (`RequestCancel`), and TypeORM's `save` loads the row again, compares
(`SaveLoads`) and writes the columns that differ (`SaveWrites`). The scan follows `buildSearchIndex`:
the cancel poll at the first and every `Interval`-th sequence, `getMessage` whose rejection skips the
sequence and its progress report, the report awaited. With `DbFails` any database call may reject, before or
after its effect; with `Crashes` the process may die, and rows survive. `overrun` counts what a run fetches
after its row says `cancel_requested`.

### Remediation

A session is named by its fetch. `messages[f]` is `session.messages`, `didAck[f]` the handles that sent a
final answer: the nats library drops later `nak`/`term` silently and resolves `ackAck` to false. `server` is
the consumer's state of each message, `link` the connection under the handles. One iteration of the loop in
`applyRemediationAction` is one action (`Missing`, `Send`, `AckRefused`), or two when it waits
for an ack (`Ack`, then `AckConfirmed` or `AckTimesOut`). `Publish` lets an answer arrive or vanish. A message
that is redelivered can be in two sessions, with two handles that answer for it.

### MessagePaging

`scan` holds the variables of one `getMessages` call: `Info` reads the stream's state once and clips the range,
`FetchAndFilter` and `FetchRejected` are one iteration of the loop each, `Answer` computes `next_seq`. Between
them the stream, which is external, appends and removes messages. A filter is the set of sequences whose
message passes it. On the browser's side (`src/frontend/src/app/dashboard/messages/page.tsx`)
`View` is the query key, `data` is `messagesData`, `history` is `cursorHistory`. The handlers of the page
are actions with their names (`HandleNextPage`, `HandlePreviousPage`, `HandleFirstPage`, `HandleGoToPage`,
`HandleLimitChange`, `HandleLatestMessages`, `ClearMessageFilter`, `ApplySavedView`); `ChangeFilter`, `GoTo` and `ToggleLive`
are the inline ones. They differ in what they reset: `ChangeFilter` clears cursor and history, `ClearMessageFilter`
and the live switch keep both, and `HandleGoToPage` writes a history of estimated cursors that nobody visited. Until a
new view is answered, `data` is the page of an older one (`keepPreviousData`); its `next_seq` is what Next uses then.

Ghosts: a page records its `view` and the sequences whose fetch was rejected (`lost`); `trail` holds the pages
that Next left since the walk began, for the end of `history` that they belong to. A walk begins anew when a filter, the page
size or the direction changes, when a page is jumped to, and when Next is clicked before the last answer came: the
cursor and its history may survive these, and the model keeps them, but the code promises nothing across them, and
the properties are about the walk since. The query cache is abstracted: a view that is returned to is fetched anew, and
an answer to a view that was left is not kept.

### Administration

A request `p` asks for one operation `op[p]`: a kind, the resource it is on, the fields it sets. Its program
counter is the call it waits for: `info` (the read before an update), `open` and `bind` (`js.views`, with and
without the right to make what is missing), `get` (the message before a replay or a delete), `call` (the call
that changes the server), `audit`. The kinds stand for the methods of `streams.service.ts`,
`consumers.service.ts`, `kv.service.ts`, `objectstore.service.ts`, `message-publisher.service.ts`,
`message-replay.service.ts` and `message-delete.service.ts`; `First` says where each one starts. The server is
external: `content` is a configuration or the keys of a bucket, `log` and `gone` the messages of a stream.
Each call may reject before it acted (`Reject`) or after (the `"error"` among the outcomes of each action:
the reply was lost), `Audit` may be refused by the database, and `Crash` leaves every request that is
under way without an answer. `made` and `rev` are history: how often a name came into being, and how often
its content changed, which is how a property can say "unless somebody changed it meanwhile".

A put adds what it names to a bucket, a clear (`deleteKey`, `purgeKey`, `deleteObject`) takes it away, and both are
answered as successes whether or not it was there: `deleteObject` does not look at the `success: false` it gets for a
missing object. `publishBatch` waits for each acknowledgement before the next message; a `create` succeeds again when
the configuration is the same, as the server defines it. `Fulfils(p)` says what the step that completes an operation has
to have done.

### Monitoring

The registry is the one of `Registry`, which `Connections` implements, so what holds here holds beside the
real service. A run is an execution of `checkAllConnections` or `collectAllSnapshots`; `turn[r]` holds the local
variables of the loop, `left[r]` the connections it has not visited. `Visit` is the code from the top of the
loop to its next await: the lookup, which may throw, and a request on a handle that may be draining or closed
meanwhile. A health row is written in the try block, or in the catch block when the first save was
refused; when the second is refused as well the run is over (`"aborted"`), because nothing catches it. A tail
beats between two ticks of the clock: CONNECTION_TIMEOUT, which is configured, is assumed to be a tick at least, and
longer than the heartbeat's interval of 15 s (`TimeoutSpansHeartbeat`). Tables hold the rows of the latest execution of each run, since rows of older ones are
only read by the endpoints.

### ResourcePages

The list the user opened (`page`, and `left` once another is mounted), what its queries last fetched (`streams`,
`listed`), the ticked rows, the one modal dialog with its bulk run, the edit form in a row, and the mutations under way.
Mutations take the scope of the latest render, which is how a request of a dialog opened on one stream can go to
another. On the consumers page an effect moves the selection when a refetch no longer lists the selected stream; on the
others the scope stays while the page is mounted. React keeps an edit form mounted under the name of its row, with its
first values (`Rendered`). The bulk dialog (`src/frontend/src/components/ui/bulk-delete-dialog.tsx`) works item by item,
goes on after a failure and when its page is left, and cannot be closed while it runs. Other clients create and
delete items, and drop and create again what holds them. Two ghosts record why a request may go elsewhere: `dialog.lost`
is set when a refetch does not list the stream of the dialog, `form.moved` when it does not list that of the form, or
when the user selects another stream under it. Left out: the search filter (which rows are shown is chosen at each tick),
pagination, detail drawers and deep links.

### Subjects

A pattern is a sequence of tokens; `tokens()`, which splits and trims, is the step from text to sequence. The
functions keep their names, and are stated as what their loops decide: up to the first `>`, token by
token. `config` and `filters` are the server, `streams` and `consumers` the answers the page holds, of
different ages: one query lists the streams, one per stream its consumers. The reference is `Matches`, the
matching of the NATS server. `natsSubjectToRegex` is modelled by the matches of the regular expression it
builds: a cut of the subject for each token.

## 3. Runs

| run | question | bounds |
|---|---|---|
| connections_safety | what do replacement, disconnect, expiry, shutdown and a test guarantee when they overlap? Is the service a registry? | 2 connects, 1 disconnect, 1 test, timeout 1 tick |
| connections_serial | with one connect at a time, is the service a single slot? Is every request answered, do idle entries leave? | 2 connects, 1 disconnect, timeout 0 |
| connections_overlap | *violation*: two overlapping connects leave two connections | 2 connects |
| connections_idle | *violation*: expiry leaves the system-account handle open | 1 connect |
| index_jobs | what does a row say about its build, whatever stale save lands on it and whatever fails? Does every build end, and does a cancel stop it? | 1 job, 1 direct build of the same stream, 1 cancel, 4 sequences, interval 2, database failures, crashes |
| index_jobs_cancelled | *violation*: a cancelled job runs again | 1 job, 1 cancel |
| remediation | do overlapping applies keep the account right, also of a message that sits in two sessions? Are applies answered, does an emptied session go? | 1 message, 2 sessions, 2 applies of 1 sequence |
| message_paging | does a walk with Next and Previous pass over a message or show one twice, and does Previous lead back? | stream of up to 3 sequences, of which the first can be removed and the fetch of the second rejected, 2 filters, page limits 1 and 2, one range and one saved view, jumps to 1 sequence, history of 2 |
| administration | what does an update keep, what makes a resource, what does a batch leave behind, what does the audit log tell? | 3 requests out of the kinds the services offer, one resource of each class, 2 fields, batches of 0 and 2, lost replies, crashes |
| monitoring | do health and metrics tell the truth about connections that come and go, and what keeps a connection? | 2 connections, 1 run, 1 tail, timeout 1, 1 stream, database failures |
| resource_pages | do requests go where their dialog or form was opened for, and do bulk runs account for their items? | each of the 6 lists, 2 scopes of 2 items, 1 request of a row or form beside a bulk run, 2 changes by others |
| subjects | does the dashboard say of subjects what the server does? | 2 streams, 1 consumer, 7 patterns over 2 literals, subjects of up to 3 tokens, 4 changes |

The properties, by run:

- **connections_safety.** `ReplacesWhatItSaw`: a connect that registered has removed everything its snapshot
  saw. `MainHandlesAreDrained`: while a main handle drains, its entry has somebody to delete it, and out of
  the Map no main handle is open of a connection that was registered. (A handle whose connect failed after the NATS
  connection came up, because `jetstreamManager()` rejected, never was: `createConnection` drops it open.) `AnsweredLeavesNothingOpen`: a disconnect that was answered leaves no handle and no
  entry, whoever else removed the same connection; a test none of its own. `ImplementsRegistry`: the
  refinement of `Registry`.
- **connections_serial.** `ImplementsSingleSlot` (refinement of `SingleSlot`, whose slot holds one connection; that
  `SingleConnection` holds of serial connects is a theorem), `RequestsAreAnswered`, `IdleEntriesAreRemoved`. No
  connection tests here.
- **index_jobs.** `CompletedIsSearchable`, `EndedRunIsTerminal`, `CancelStopsScan` (at most one interval
  more), `CancelFlagSticks` (no update and no stale save takes a cancel back), `BuildsEnd`.
- **remediation.** `SessionOffersUnhandled`, `HandledOnce` (once a request has handled a delivery, no other
  request on the session comes to wait for its ack, and none reports it handled but one whose ack was waiting by then),
  `ReportedAckIsFinal`, `EmptySessionIsGone` (a session that was emptied goes with the last apply on it, and does not
  wait for its timer), `AppliesAreAnswered`.
- **message_paging.** `NothingSkipped` and `ShownOnce`, over the pages of the walk; `PreviousReturns`: Previous asks for
  the view of the page that Next left, however far the walk went on and whatever was answered or appended since.
- **administration.** `OthersKeepTheirFields`: an update that nobody overtakes keeps every field it does not
  name. `OnlyCreatesMake`: no update or late write brings back what was deleted; an object store is
  made by whoever opens it, a read too. `BatchIsPrefix`: what a batch leaves is a prefix of it, in order,
  where the results say, with at most one message whose acknowledgement was lost. `MessageDeletedOnce`: of
  concurrent deletes of a message one reports success. `AuditTellsAnswered`: a request gets to its audit
  entry only by a step that does what it asked for, in full and at the server: the fields it sets are there, the
  message it deletes goes by this very call, all of a batch is in the log. Every success is in the audit log unless the
  database refused the entry.
- **monitoring.** `DownIsDeserved`: a row that says "down" is about a connection that is out of the registry or
  closed, or tells of the database. `RunsCoverTheirList`: a run that got to its end wrote exactly one health row, or one metrics
  row per stream or a warning, for each connection it had listed. `OnlyClientsKeepConnections`: the idle time of a
  connection restarts only for a request or an active tail, and an open tail never loses its connection to the expiry.
- **resource_pages.** `SentAsShown`: a delete or a create goes to the scope its dialog was opened for, an edit to the
  one its form was filled from and to an item that is listed, a delete to an item the dialog named. Two exceptions are in
  the formula because the code has them, so the property does not rule them out: when a refetch no longer lists that
  stream the request follows the selection to another, and so does an edit when the user chose another stream
  under the form. `BulkRunsAccount`: of the items of a bulk run each is asked for once, in order, and has succeeded or
  failed when it is over.
- **subjects.** `ProbeFindsReceivers`: the probe misses no consumer that would get the subject, and the
  filter of the history matches as the server does. `AnalysisFollowsDelivery`: orphans, unmatched filters,
  badges, overlaps and the lines of the topology say what the matching says, for lists of different ages.

**Why the bounds are enough to be of use.** The properties relate at most two connections, a job and its
cancel, a message and two requests, two updates of one resource, a run and the connection it is at. A connect
removes what it replaces through the same code as a disconnect, so two connects and a disconnect let two
removals overlap on one entry, with the expiry or the shutdown as a third party to disturb them. In
`index_jobs` a save is stale with respect to every update of the run; interval 2 with 4 sequences has a poll at the
first, at an interior and at the last sequence and sequences without one. In `remediation` one message in two
sessions is what lets every await of an apply meet another's. Timeout 0 means that the first tick makes an
untouched entry too old, timeout 1 that it survives a tick. In `message_paging` three sequences with page limits
1 and 2 and a scan limit give pages that end by either limit and at the end of the range, empty pages with a next one,
and walks of three pages; the filters let through {1, 3} and {3}. Three requests in `administration` are a
writer, one that overtakes it and one that deletes in between. In `monitoring` the run fires again and again, so the
second connection can replace the first under it; runs that overlap share nothing but the registry, and the
theorems are about any number of them. In `subjects` the patterns are those where literals, `*` and `>` meet in
one or two tokens, and subjects are one token longer. The theorems drop the bounds for safety: except for the four
liveness properties, all that the passing runs check is proved for every size. Where requests are finitely many or a page can be left the
system may stop, and deadlock is not checked; the properties of progress take that place. Symmetry is used for safety only.

**Fairness.** Weak fairness is assumed of what Node.js does by itself: resuming a continuation whose promise
has settled, firing intervals and timers (`@Interval(60_000)`, the
`ackAck` timeout). In `Connections` connect attempts and drains settle, since the client has
timeouts for both; in `IndexJobs` database and NATS calls settle either way. No fairness is assumed of
clients, of the server's answers, of redelivery or of lost connections.

**What the runs show.** The passing runs hold as described. The three violations are disagreements between
the code and what it or the documentation says:

1. `createConnection` takes its snapshot before and inserts after its awaits; overlapping connects both
   insert, though its comment says "Enforce single connection". `connections_serial` shows that one connect at
   a time, which is what the dashboard does in one tab, is enough to keep the promise.
2. The expiry drains `nc` and drops the entry without draining `sysNc`, which stays open with nothing
   left to close it while the service is up.
3. The first update of a job's run does not look at the row: a job that was cancelled while pending is set
   running again (and then stops at its first poll, so it is cancelled a second time, after the dashboard has
   shown it as ended).

Other behaviour that a reader may not expect, met while modelling and stated by the properties as exceptions:

- An `ok` of a remediation action means different things: for `ack`, that the server confirmed
  (`ReportedAckIsFinal`); for `nak`, `term` and `working`, only that the handle took the call. The
  publish may be lost, and a `term` after an ack that timed out is dropped by the handle.
- In the dashboard's matching `>` also takes no token at all (`a.>` matches `a`), unlike at the server and in
  `common/nats/subject.ts`, whose comment gives the rule. Since the server refuses streams whose subjects overlap,
  every overlap of two streams that the subject explorer reports rests on this (`OverlapsShare`).
- A stream without subjects, such as a mirror, is shown with the subject `>`, yet every filter of its consumers is
  reported as unmatched (`UnmatchedStarve`).
- Opening an object store makes it: a read, a list or a delete that comes after the deletion of the store brings it
  back empty (`OnlyCreatesMake`). KV buckets are opened with `bindOnly` and do not come back.
- The server merges an update into what it read, but the dashboard's edit forms send every field, so a change that
  another client made since the form was opened is written back.
- When the database refuses a health record twice, the run ends and the connections after it go unchecked
  (`"aborted"` in `Monitoring`).
- A `Next` that is clicked twice before its page arrives pushes one cursor twice, so that the first click on Previous
  shows the same page again; clearing one message filter, or switching to live, keeps the cursor of the view before; a
  jump to a page estimates its cursor and those of the pages before it. In `MessagePaging` a new walk begins there.
- Deleting an object that is not there is answered, and audited, as a success (`Clear` in `Administration`).
- A delete that was confirmed for one stream's consumer goes to another stream's when a refetch drops the first from the
  list meanwhile, and an edit form that stays open over a change of stream is saved to the new one (`SentAsShown`).

## 4. Proofs

`tlapm` checks every theorem for all values of the constants, under the assumptions each module names: sets
of requests are disjoint, bounds are natural numbers, flags are Booleans, sets that are counted are finite. Types are
proved first in each module, except where they need the invariant. What follows is why each invariant is needed.

- **Connections.** The inductive invariant is `TypeOK` with `HandlesFollowRequests` (a handle has the state
  its request left it in), `SnapshotShrinks` (what the loop over `existingIds` has passed is not registered,
  nor comes back), `DisconnectedWasRegistered`, and the two parts of `MainHandlesAreDrained`, which are inductive
  only together with them. From it follow `Replacement`, `MainsDrained`, `Answered` (with
  `TestsFollowHandles`) and the action property `Causes`. `RegistryRefinement` proves that `Spec` implements
  `Registry` under the mapping that calls a handle "none" until it is registered and an entry leaving while a
  request removes it; it needs that `idle` counts only for registered ids (`IdleOnlyInMap`). `NoneWaitsInVain` is
  the part of `RequestsAreAnswered` that needs no fairness: a request whose next step cannot be taken waits for a handle
  that the nats library is connecting or draining, never for another request, and so does the shutdown. It rests
  on `WaitsInv` (nobody drains a handle before its request knows of it). `SerialInv` adds that one
  create runs at a time and has seen all there is; it gives `SerialSingleConnection` and `SerialRefinement`.
- **IndexJobs.** `TypeCorrect` includes that the reported percentage stays within 0..100 for every interval and
  length of scan. `CancelSticks` proves that no update of the run and no stale save takes a cancel
  flag back; the invariant needed is `SavesAreCancellations`: an entity in memory carries the flag.
  `EndedRuns` shows that a run that is over left a final row unless somebody asked to cancel it or the
  last attempt to record its failure was rejected. `CancelStops` needs to know where a scan can be between two polls
  (`ScanState`) and that what was fetched since the row said so is no more than what was scanned since the
  last poll (`Polled`), with the arithmetic of the interval in `NextRemainder`. `CompletedSearchable` needs that a
  run publishes before it writes "completed" (`PublishedFirst`) and that the save of a cancellation, whose entity may
  be older than the row, cannot write that word (`NoSaveCompletes`). `SettledRows` says when a row is history.
  `BuildsAreBounded` counts the steps a build has left (`StepsLeft`): each of its own steps lowers the number, whatever is
  rejected, and no cancellation, crash or other build raises it.
- **Remediation.** `IInv` joins the types, what a request knows of its session
  (`RequestsKnowTheirSession`), `AckingVisits`, and three properties, each of which is preserved on its own over
  that base. Lemma `StepKinds` sorts the steps into those that touch neither offers nor results (`Aside`) and the
  four that do; lemma `IterationStep` says what an iteration does whatever its outcome. Theorems:
  `OffersUnhandled`, `EmptyGone`, `AckFinal`, and `Once`, which follows because a session does not offer what was
  handled (`WaitBegins`, `HandlingVisits`). `AppliesAreBounded` counts the steps a request has left, at most two per
  sequence; neither its session's end nor overlapping requests nor the lost connection raise the number.
- **MessagePaging.** Whatever changes in the stream, a page goes on saying the same of it: what is stored and
  passes the filter among the sequences it went over is on it or was lost (`PageOK`, from `ScanOK` of the
  scan that made it). `TrailOK` links the pages of the trail by their cursors, and the two results are
  stated for every prefix of the trail (`TrailCovers`, `Apart`), because Previous goes back to one. The step
  that matters is Next (`NextWalk`): between a page and its successor nothing is passed (`Continues`), which
  needs that the later scan saw a stream at least as long (`Earlier`) and that `next_seq` always differs from
  the cursor, so that the new page is requested. Every handler that keeps a cursor over a change of view empties the trail, and the
  invariant says nothing of the part of `history` before it. Theorems: `Advance` (`CursorsAdvance`), `HistoryReturns`
  (`PreviousReturns`), `PassesOverNothing`, `ShowsOnce`.
- **Administration.** Lemma `Effects` says what a step of a request can do to the server, `Grows` what no
  step takes back (a name comes into being one time more, a content that changes counts, a log only grows while its
  stream lives), `Places` where a request can be. Each theorem adds one invariant: `Fresh` (an update whose
  reading is current holds the content) for `KeepFields`; `Deletes` (a delete that succeeded has its message among
  the erased) for `DeletedOnce`; `Batches` for `BatchPrefix`, stated over the log, the results and the number of
  messages there may be more than results, which is one only for a request that failed (`Prefix`). `CreatesMake` needs
  only `Places`, and `AuditTells` also that the steps which lead to the audit fulfil their operation (`Fulfilling`, with `Merged`
  for what a write leaves).
- **Monitoring.** What a suspended run may rely on is what the registry never takes back (`Stays`): an id
  that left does not return, a closed handle stays closed. So what a run found out (`RunFacts`) is still true when it writes its
  row, and remains true of the row (`NoFalseDown`). `CoverInv` counts the rows of each
  connection by the place of the run (`RunsCover`). `TailKept`, that the connection of an open tail is never idle
  for more than a tick, needs `Timeout >= 1`; it gives the second half of `OnlyClientsKeep`. `RegistryRespected` proves that every step
  of the composed system is a step of `Registry` or leaves it alone; with `RegistryRefinement` of `Connections`, which
  implements the same specification, this is what justifies to check the two apart.
- **ResourcePages.** `Where` says that a dialog and a form belong to the scope that is shown unless that was lost or
  left, and that a form is in a row that is listed, `Account` that a run has one request under way, for the item after those it has answered. From them follow
  `SentAsShownHolds` and `BulkAccounts`.
- **Subjects.** `subjectMatches`, `subjectPatternsOverlap`, `subjectPatternCovers` and `natsSubjectToRegex` are first
  related to subjects, token by token: two patterns overlap exactly when some subject matches both, one
  covers another only if it takes every subject of it. The analysis then needs that the streams of one answer share no
  subject (`Apart`) and that a consumer has one kind of filter (`Kinds`). The regular expression of the history matches when
  some cut of the subject fits its pieces. That such a cut exists exactly when the server's rule matches
  (`RegexComplete`, `RegexSound`) needs an induction over tokens, made by taking the least counterexample
  (`LeastElement`). Theorems: `AnalysisFollows`, `ProbeFinds` (what the probe adds), `ReceiversFound`.

**Only model-checked:** the four liveness properties, since fairness and `ENABLED` are out of the prover's reach:
`RequestsAreAnswered`, `IdleEntriesAreRemoved`, `BuildsEnd`, `AppliesAreAnswered`. Of three of them the
part that needs no fairness is proved: that nothing waits in vain (`NoneWaitsInVain`), and that what runs runs down
(`BuildsAreBounded`, `AppliesAreBounded`).

## 5. Not modelled

What is left out, and why. The share of the repository's lines that the modules translate is about a tenth: of its
33 thousand lines of implementation most are the dashboard's rendering (JSX, styles, charts, forms), DTOs,
configuration and reads without state, in which no property of the kind above can go wrong. The state that
outlives an `await` or a render is what the modules model.

- *Schema validation, message codec, DTOs*: functions of one value without state, recursive over JSON; a model would
  repeat the program.
- *Cluster and system*: reads that combine monitoring endpoints. When the account does not say how many
  messages it has, the sum over its streams is taken only while it is zero (`system/system.service.ts:115`), so it
  counts one stream; that is arithmetic over one answer.
- *Rates, uptime, pruning; consumer diagnostics and analytics*: computed on request from rows or from one answer, by
  division and thresholds, and shown as labels.
- *Search*: reads the index that `IndexJobs` builds.
- *Connection context and remediation panel of the dashboard*: one request at a time and an assignment of its answer; the
  requests are those of `Connections` and `Remediation`, which also allow the overlap of two of them.
- *Other pages of the dashboard, diff worker, API client*: layout, charts, text, fetch wrappers. The matching in the
  topology page is in `Subjects`.
- *In the modelled pages*: search boxes, pagination, detail drawers, deep links, KV history and watch, previews of
  objects, bookmarks of the message browser, how it keeps saved views (applying one is modelled), and its publish form.
- *Deployment*: configuration files.
- *Restart*: a crash is modelled where something survives it (`IndexJobs`, `Administration`); connections, sessions and
  indexes start empty, and nothing in the code recovers rows that were under way, so there is no recovery to model.
- *Composition of Connections with scans and sessions*: a connection that is removed under a scan or a session shows
  there as calls that reject and a lost link, which `IndexJobs` and `Remediation` allow at any time.
