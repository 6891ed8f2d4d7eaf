------------------------------- MODULE Monitoring -------------------------------
(***************************************************************************)
(* What watches the connections: the health checks and the metrics         *)
(* collection that fire every 30 s, and the live tails that clients keep   *)
(* open.  They run beside the registry, which Connections implements: a    *)
(* connection can be replaced, expire or close between any two awaits of a *)
(* run.  A row is written in one step and its answer resumes the run in a  *)
(* later one.  The tables hold the rows of the latest execution of each    *)
(* run: the retention times are far longer than a run.                     *)
(***************************************************************************)
EXTENDS Registry

CONSTANTS
    Runs,        \* executions of checkAllConnections and collectAllSnapshots: as
                 \* many as can overlap
    Tails,       \* live tails: GET messages/tail
    NStreams,    \* streams of the account
    DbFails,     \* TRUE: a database call may reject
    None         \* no connection

ASSUME NStreamsIsNat == NStreams \in Nat
ASSUME DbFailsIsBool == DbFails \in BOOLEAN
ASSUME NoneIsNoId == None \notin Ids
\* CONNECTION_TIMEOUT is a tick at least, which is longer than the heartbeat's
\* interval.
ASSUME TimeoutSpansHeartbeat == Timeout >= 1

VARIABLES
    at,        \* where each run is suspended
    turn,      \* the connection a run is at, with its local variables
    listed,    \* the ids a run took from listConnections
    left,      \* those it has not visited yet
    health,    \* the table connection_health
    samples,   \* the table stream_metrics
    warned,    \* the connections a metrics run gave up, as its warnings say
    tail,      \* tail[t]: the connection of an open tail, or None
    beaten     \* TRUE: a tail was active since the last tick

runs     == <<at, turn, listed, left, health, samples, warned>>
tails    == <<tail, beaten>>
monitors == <<runs, tails>>
all      == <<registryVars, monitors>>

others  == <<connections, handle, leaving, shutdown>>   \* the registry but for idle

Places  == {"probe", "save", "saveDown", "checking", "pruneRecords",
            "list", "missing", "sample", "consumers", "collecting", "pruneMetrics"}
Resting == {"idle", "checked", "collected", "aborted"}   \* no execution under way
Errors  == {"none", "nats", "missing", "database"}

Turn   == [id : Ids \cup {None}, asked : BOOLEAN, status : {"up", "down"}, error : Errors,
           nth : 0 .. NStreams]
NoTurn == [id |-> None, asked |-> FALSE, status |-> "down", error |-> "none", nth |-> 0]

Record == [run : Runs, id : Ids, status : {"up", "down"}, error : Errors]
Sample == [run : Runs, id : Ids, nth : 1 .. NStreams]

TypeOK ==
    /\ RegistryTypeOK
    /\ at \in [Runs -> Places \cup Resting]
    /\ turn \in [Runs -> Turn]
    /\ listed \in [Runs -> SUBSET Ids]
    /\ left \in [Runs -> SUBSET Ids]
    /\ health \subseteq Record
    /\ samples \subseteq Sample
    /\ warned \in [Runs -> SUBSET Ids]
    /\ tail \in [Tails -> Ids \cup {None}]
    /\ beaten \in [Tails -> BOOLEAN]

Init ==
    /\ RegistryInit
    /\ at = [r \in Runs |-> "idle"]
    /\ turn = [r \in Runs |-> NoTurn]
    /\ listed = [r \in Runs |-> {}]
    /\ left = [r \in Runs |-> {}]
    /\ health = {}
    /\ samples = {}
    /\ warned = [r \in Runs |-> {}]
    /\ tail = [t \in Tails |-> None]
    /\ beaten = [t \in Tails |-> FALSE]

Move(r, place) == at' = [at EXCEPT ![r] = place]

\* The turn of the connection at hand is over.
EndTurn(r, place) ==
    /\ Move(r, place)
    /\ turn' = [turn EXCEPT ![r] = NoTurn]

\* The interval fires, listConnections is a snapshot, and the rows in the tables
\* are those of this execution from now on.
Begin(r, ids) ==
    /\ at[r] \in Resting
    /\ listed' = [listed EXCEPT ![r] = ids]
    /\ health' = {row \in health : row.run # r}
    /\ samples' = {row \in samples : row.run # r}
    /\ warned' = [warned EXCEPT ![r] = {}]

\* From one iteration of the loop to its next await: ids are not visited yet.
\* getConnection, which does not touch, finds the connection, and a request is
\* sent unless its handle is draining or closed; or it throws.
Visit(r, ids, found, missing, prune) ==
    \/ /\ ids = {}
       /\ left' = [left EXCEPT ![r] = {}]
       /\ EndTurn(r, prune)
    \/ \E id \in ids :
         /\ left' = [left EXCEPT ![r] = ids \ {id}]
         /\ turn' = [turn EXCEPT ![r] =
                       [NoTurn EXCEPT !.id = id,
                          !.asked = id \in connections /\ handle[id] = "open",
                          !.error = IF id \in connections THEN "none" ELSE "missing"]]
         /\ Move(r, IF id \in connections THEN found ELSE missing)

\* The server can answer: the request was sent and its handle is not closed yet.
Answerable(r) == turn[r].asked /\ handle[turn[r].id] # "closed"

\* save(row) writes the row or rejects; one that rejects may have written it.
Saves(table, row)   == table' = table \cup {row}
Rejects(table, row) == DbFails /\ table' \in {table, table \cup {row}}

\* Deleting the rows past their retention time touches none of the model's.
Prune(r, from, to) ==
    /\ at[r] = from
    /\ Move(r, to) \/ (DbFails /\ Move(r, "aborted"))
    /\ UNCHANGED <<registryVars, turn, listed, left, health, samples, warned, tails>>

-----------------------------------------------------------------------------
(* HealthHistoryService.                                                   *)

\* Mutant: a connection that is gone is passed over.
VisitHealthSkips(r, ids) == Visit(r, ids, "probe", "checking", "pruneRecords") /\ UNCHANGED idle

\* Mutant: the lookup counts as an access.
VisitHealthTouches(r, ids) ==
    /\ Visit(r, ids, "probe", "saveDown", "pruneRecords")
    /\ idle' = [id \in Ids |-> IF id = turn'[r].id THEN 0 ELSE idle[id]]

VisitHealth(r, ids) == Visit(r, ids, "probe", "saveDown", "pruneRecords") /\ UNCHANGED idle

CheckAllConnections(r) ==
    /\ Begin(r, connections)
    /\ VisitHealth(r, connections)
    /\ UNCHANGED <<others, tails>>

\* The save of a row was answered: the next iteration.
NextCheck(r) ==
    /\ at[r] = "checking"
    /\ VisitHealth(r, left[r])
    /\ UNCHANGED <<others, listed, health, samples, warned, tails>>

\* getAccountInfo fulfils.
ProbeAnswered(r) ==
    /\ at[r] = "probe"
    /\ Answerable(r)
    /\ turn' = [turn EXCEPT ![r].status = "up"]
    /\ Move(r, "save")
    /\ UNCHANGED <<registryVars, listed, left, health, samples, warned, tails>>

\* Mutant: whatever rejects, the connection is down.
RejectedDown(id) == "down"

\* The status after a request was rejected.
Rejected(id) == IF handle[id] = "closed" THEN "down" ELSE "up"

\* getAccountInfo rejects: JetStream is off, it timed out, or the handle closed.
ProbeRejected(r) ==
    /\ at[r] = "probe"
    /\ turn' = [turn EXCEPT ![r].status = Rejected(turn[r].id), ![r].error = "nats"]
    /\ Move(r, "save")
    /\ UNCHANGED <<registryVars, listed, left, health, samples, warned, tails>>

Verdict(r) == [run |-> r, id |-> turn[r].id, status |-> turn[r].status, error |-> turn[r].error]

\* The save in the try block; when it rejects the catch block writes another row.
SaveRecord(r) ==
    /\ at[r] = "save"
    /\ \/ Saves(health, Verdict(r)) /\ EndTurn(r, "checking")
       \/ /\ Rejects(health, Verdict(r))
          /\ turn' = [turn EXCEPT ![r].status = "down", ![r].error = "database"]
          /\ Move(r, "saveDown")
    /\ UNCHANGED <<registryVars, listed, left, samples, warned, tails>>

\* The save in the catch block; when it rejects nothing catches it, and the run
\* is over without its other connections and without pruning.
SaveDown(r) ==
    /\ at[r] = "saveDown"
    /\ \/ Saves(health, Verdict(r)) /\ EndTurn(r, "checking")
       \/ Rejects(health, Verdict(r)) /\ EndTurn(r, "aborted")
    /\ UNCHANGED <<registryVars, listed, left, samples, warned, tails>>

PruneOldRecords(r) == Prune(r, "pruneRecords", "checked")

-----------------------------------------------------------------------------
(* MetricsService.                                                         *)

VisitMetrics(r, ids) == Visit(r, ids, "list", "missing", "pruneMetrics") /\ UNCHANGED idle

\* Connections that are listed as closed are passed over.
CollectAllSnapshots(r) ==
    LET connected == {id \in connections : handle[id] # "closed"} IN
    /\ Begin(r, connected)
    /\ VisitMetrics(r, connected)
    /\ UNCHANGED <<others, tails>>

NextCollection(r) ==
    /\ at[r] = "collecting"
    /\ VisitMetrics(r, left[r])
    /\ UNCHANGED <<others, listed, health, samples, warned, tails>>

\* The catch block of one connection: a warning, and the loop goes on.
GiveUp(r) ==
    /\ warned' = [warned EXCEPT ![r] = @ \cup {turn[r].id}]
    /\ EndTurn(r, "collecting")

\* getConnection threw.
MissingConnection(r) ==
    /\ at[r] = "missing"
    /\ GiveUp(r)
    /\ UNCHANGED <<registryVars, listed, left, health, samples, tails>>

\* streams.list answers with the streams of the account, or rejects.
ListStreams(r) ==
    /\ at[r] = "list"
    /\ \/ /\ Answerable(r)
          /\ IF NStreams = 0 THEN EndTurn(r, "collecting") ELSE Move(r, "sample") /\ UNCHANGED turn
          /\ UNCHANGED warned
       \/ GiveUp(r)
    /\ UNCHANGED <<registryVars, listed, left, health, samples, tails>>

\* Mutant: one stream too many.
LastStreamLate(nth) == nth > NStreams

LastStream(nth) == nth = NStreams

\* One row per stream; the first that is rejected ends this connection's turn.
SaveStreamMetric(r) ==
    LET row == [run |-> r, id |-> turn[r].id, nth |-> turn[r].nth + 1] IN
    /\ at[r] = "sample"
    /\ \/ /\ Saves(samples, row)
          /\ turn' = [turn EXCEPT ![r].nth = row.nth]
          /\ Move(r, IF LastStream(row.nth) THEN "consumers" ELSE "sample")
          /\ UNCHANGED warned
       \/ Rejects(samples, row) /\ GiveUp(r)
    /\ UNCHANGED <<registryVars, listed, left, health, tails>>

\* Then the consumers of each stream, whose errors are swallowed one stream at a
\* time; their rows are not followed.
SaveConsumerMetrics(r) ==
    /\ at[r] = "consumers"
    /\ EndTurn(r, "collecting")
    /\ UNCHANGED <<registryVars, listed, left, health, samples, warned, tails>>

PruneOldMetrics(r) == Prune(r, "pruneMetrics", "collected")

-----------------------------------------------------------------------------
(* Live tails.                                                             *)

\* touchConnection: nothing when the connection is gone.
Touch(id) == idle' = [idle EXCEPT ![id] = IF id \in connections THEN 0 ELSE @]

\* getConnection finds the connection, and its handle takes a subscription.
TailMessages(t, id) ==
    /\ shutdown # "down"
    /\ tail[t] = None
    /\ id \in connections
    /\ handle[id] = "open"
    /\ Touch(id)
    /\ tail' = [tail EXCEPT ![t] = id]
    /\ beaten' = [beaten EXCEPT ![t] = TRUE]
    /\ UNCHANGED <<others, runs>>

\* subscribe throws on a handle that is draining or closed; the lookup was an access.
TailRefused(t, id) ==
    /\ tail[t] = None
    /\ handle[id] \in {"draining", "closed"}
    /\ Use(id)
    /\ UNCHANGED monitors

\* The heartbeat, or a message: onActivity.
Activity(t) ==
    /\ tail[t] # None
    /\ Touch(tail[t])
    /\ beaten' = [beaten EXCEPT ![t] = TRUE]
    /\ UNCHANGED <<others, runs, tail>>

\* Teardown: the heartbeat is cleared.
EndTail(t) ==
    /\ tail' = [tail EXCEPT ![t] = None]
    /\ beaten' = [beaten EXCEPT ![t] = FALSE]
    /\ UNCHANGED <<registryVars, runs>>

\* The subscription ends with its handle, and the answer is complete.
TailCompletes(t) == tail[t] # None /\ handle[tail[t]] \in {"draining", "closed"} /\ EndTail(t)

\* The client closes its EventSource.
TailLeaves(t) == tail[t] # None /\ EndTail(t)

-----------------------------------------------------------------------------
(* A tick is longer than the heartbeat's interval: every open tail beats    *)
(* between two ticks.                                                      *)
Clock ==
    /\ Pass
    /\ \A t \in Tails : tail[t] # None => beaten[t]
    /\ beaten' = [t \in Tails |-> FALSE]
    /\ UNCHANGED <<runs, tail>>

\* The service goes on meanwhile.
Service == RegistryStep /\ UNCHANGED monitors

Check(r) ==
    \/ CheckAllConnections(r) \/ NextCheck(r) \/ ProbeAnswered(r) \/ ProbeRejected(r)
    \/ SaveRecord(r) \/ SaveDown(r) \/ PruneOldRecords(r)

Collect(r) ==
    \/ CollectAllSnapshots(r) \/ NextCollection(r) \/ MissingConnection(r) \/ ListStreams(r)
    \/ SaveStreamMetric(r) \/ SaveConsumerMetrics(r) \/ PruneOldMetrics(r)

Next ==
    \/ Clock
    \/ Service
    \/ \E r \in Runs : Check(r) \/ Collect(r)
    \/ \E t \in Tails : Activity(t) \/ TailCompletes(t) \/ TailLeaves(t)
    \/ \E t \in Tails, id \in Ids : TailMessages(t, id) \/ TailRefused(t, id)

Spec == Init /\ [][Next]_all

-----------------------------------------------------------------------------
(* Properties.                                                             *)

\* A row that says "down" was right, and stays right: the connection is out of
\* the registry, which no id re-enters, or its handle is closed.  Excused is only
\* the row that the catch block writes because the database rejected another.
DownIsDeserved ==
    \A row \in health :
        row.status = "down" /\ row.error # "database" =>
            row.id \notin connections \/ handle[row.id] = "closed"

\* A health run that got to its end wrote exactly one row about each connection
\* it had listed, removed meanwhile or not, or one that tells of the database.
\* A metrics run wrote one of each stream, or warned, of that connection alone.
RunsCoverTheirList ==
    \A r \in Runs : \A id \in listed[r] :
        /\ at[r] = "checked" =>
             LET rows == {row \in health : row.run = r /\ row.id = id} IN
             (\E row \in rows : row.error = "database") \/ (\E row \in rows : rows = {row})
        /\ at[r] = "collected" /\ id \notin warned[r] =>
             \A n \in 1 .. NStreams : [run |-> r, id |-> id, nth |-> n] \in samples

\* A client of the connection makes a request or keeps a tail open.
Used(id) ==
    \/ Use(id)
    \/ \E t \in Tails : TailMessages(t, id) \/ (tail[t] = id /\ Activity(t))

\* Only its clients keep a connection. Monitoring is no use: though health and
\* metrics look at every connection each 30 s, its idle time starts again only
\* when a client makes a request on it or its tail is active. And an open tail is
\* one: the expiry never takes a connection from under it, which leaves only when
\* a request removes it or the module is destroyed.
OnlyClientsKeepConnections ==
    [][/\ \A id \in connections \cap connections' : idle'[id] < idle[id] => Used(id)
       /\ \A t \in Tails :
             tail[t] \in connections \ connections' =>
                 tail[t] \in leaving \/ shutdown = "draining"]_all
=============================================================================
