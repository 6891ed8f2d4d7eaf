----------------------------- MODULE Administration -----------------------------
(***************************************************************************)
(* The mutating endpoints: each request calls a service, which calls the   *)
(* JetStream server once or more, then writes an entry to the audit log,   *)
(* then answers.  Requests interleave at their awaits.  A call may reject  *)
(* before the server acted, or after it when the reply is lost, and the    *)
(* process may die between any two awaits.                                 *)
(*                                                                         *)
(* Streams, consumers, KV buckets and object stores are resources with a   *)
(* content: the configuration of the first two, the keys of the others.    *)
(***************************************************************************)
EXTENDS Naturals, Sequences, FiniteSets

CONSTANTS
    Requests, Streams, Consumers, Buckets, ObjectStores,
    Parent,       \* Parent[c]: the stream of a consumer
    Fields,       \* the fields of a configuration, the keys of a bucket
    Values,
    Existing,     \* the resources there are at first
    Default,      \* the value of a field nobody set
    Operations,   \* what the clients ask for
    Absent        \* no such resource

Views     == Buckets \cup ObjectStores      \* reached through js.views
Resources == Streams \cup Consumers \cup Views
Contents  == [Fields -> Values]
Kinds     == {"create", "update", "delete", "purge", "publish", "replay",
              "deleteMessage", "put", "clear", "read"}

\* An operation names a resource, the fields it sets, and a number: how many
\* messages it publishes, or the sequence of the message it is about.
Ops == [kind : Kinds, on : Resources, set : UNION {[F -> Values] : F \in SUBSET Fields}, n : Nat]

\* Which service offers which operation.
Offered(o) ==
    \/ o.kind \in {"create", "delete"}
    \/ o.kind = "update" /\ o.on \in Streams \cup Consumers
    \/ o.kind \in {"purge", "publish", "replay", "deleteMessage"} /\ o.on \in Streams
    \/ o.kind \in {"put", "read"} /\ o.on \in Views
    \/ o.kind = "clear" /\ o.on \in Views /\ \A f \in DOMAIN o.set : o.set[f] = Default

ASSUME ClassesAreDistinct ==
    /\ Streams \cap Consumers = {}
    /\ Buckets \cap ObjectStores = {}
    /\ (Streams \cup Consumers) \cap Views = {}
ASSUME ParentIsStream == Parent \in [Consumers -> Streams]
ASSUME ExistingAreThere ==
    Existing \subseteq Resources /\ \A c \in Consumers : c \in Existing => Parent[c] \in Existing
ASSUME DefaultIsValue == Default \in Values
ASSUME OperationsAreOffered == Operations \subseteq {o \in Ops : Offered(o)}
ASSUME AbsentIsNothing == Absent \notin Contents \cup Requests
ASSUME RequestsAreFinite == IsFiniteSet(Requests)

VARIABLES
    content,    \* content[n]: what the server holds under a name, or Absent
    log,        \* log[s]: the messages a stream was given, by sequence
    gone,       \* gone[s]: the sequences that were deleted or purged
    op,         \* op[p]: what a request asks for
    pc,         \* where it is suspended
    seen,       \* seen[p]: what its first call read
    results,    \* results[p]: the sequences of its publishes so far
    audit,      \* the requests that have an entry in the audit log
    unwritten,  \* the requests whose entry the database rejected
    made,       \* history: how many times a name came into being
    rev         \* history: how many times the content of a name changed

vars == <<content, log, gone, op, pc, seen, results, audit, unwritten, made, rev>>

server  == <<content, log, gone, made, rev>>
trail   == <<audit, unwritten>>
history == <<made, rev>>

Message  == [by : Requests \cup {Absent}, nth : Nat]
Calling  == {"info", "add", "open", "bind", "get", "call"}
Answered == {"ok", "notFound", "error"}
Snapshot == [config : Contents, rev : Nat]

TypeOK ==
    /\ content \in [Resources -> Contents \cup {Absent}]
    /\ log \in [Streams -> Seq(Message)]
    /\ gone \in [Streams -> SUBSET (Nat \ {0})]
    /\ op \in [Requests -> Operations]
    /\ pc \in [Requests -> Calling \cup Answered \cup {"idle", "audit", "dead"}]
    /\ seen \in [Requests -> Snapshot]
    /\ results \in [Requests -> Seq(Nat \ {0})]
    /\ audit \subseteq Requests
    /\ unwritten \subseteq Requests
    /\ made \in [Resources -> Nat]
    /\ rev \in [Resources -> Nat]

Blank == [f \in Fields |-> Default]

\* A stream that exists has one stored message.
Init ==
    /\ content = [n \in Resources |-> IF n \in Existing THEN Blank ELSE Absent]
    /\ log = [s \in Streams |-> IF s \in Existing THEN <<[by |-> Absent, nth |-> 0]>>
                                ELSE <<>>]
    /\ gone = [s \in Streams |-> {}]
    /\ op \in [Requests -> Operations]
    /\ pc = [p \in Requests |-> "idle"]
    /\ seen = [p \in Requests |-> [config |-> Blank, rev |-> 0]]
    /\ results = [p \in Requests |-> <<>>]
    /\ audit = {}
    /\ unwritten = {}
    /\ made = [n \in Resources |-> IF n \in Existing THEN 1 ELSE 0]
    /\ rev = [n \in Resources |-> 0]

-----------------------------------------------------------------------------
(* The server, external.                                                   *)

There(n) == content[n] # Absent

\* Mutant: the update is the whole configuration.
MergeOnto(c, set) == [f \in Fields |-> IF f \in DOMAIN set THEN set[f] ELSE Default]

\* The configuration c with the fields of set.
Merge(c, set) == [f \in Fields |-> IF f \in DOMAIN set THEN set[f] ELSE c[f]]

\* n comes into being with the content c, or its content becomes c.
Make(n, c) ==
    /\ content' = [content EXCEPT ![n] = c]
    /\ made' = [made EXCEPT ![n] = @ + 1]
    /\ rev' = [rev EXCEPT ![n] = @ + 1]
    /\ IF n \in Streams
       THEN log' = [log EXCEPT ![n] = <<>>] /\ gone' = [gone EXCEPT ![n] = {}]
       ELSE UNCHANGED <<log, gone>>

Replace(n, c) ==
    /\ content' = [content EXCEPT ![n] = c]
    /\ rev' = [rev EXCEPT ![n] = @ + 1]
    /\ UNCHANGED <<log, gone, made>>

\* With a stream go its consumers.
Drop(n) ==
    LET out == {n} \cup {c \in Consumers : Parent[c] = n} IN
    /\ content' = [m \in Resources |-> IF m \in out THEN Absent ELSE content[m]]
    /\ rev' = [m \in Resources |-> IF m \in out THEN rev[m] + 1 ELSE rev[m]]
    /\ UNCHANGED <<log, gone, made>>

Store(s, m) ==
    /\ log' = [log EXCEPT ![s] = Append(@, m)]
    /\ UNCHANGED <<content, gone, made, rev>>

Erase(s, seqs) ==
    /\ gone' = [gone EXCEPT ![s] = @ \cup seqs]
    /\ UNCHANGED <<content, log, made, rev>>

Stored(s, seq) == There(s) /\ seq \in DOMAIN log[s] /\ seq \notin gone[s]

-----------------------------------------------------------------------------
(* The steps of a request.                                                 *)

Settle(p, states) == pc' \in {[pc EXCEPT ![p] = st] : st \in states}

At(p, where, kinds) == pc[p] = where /\ op[p].kind \in kinds

\* How many messages the request publishes.
Size(o) == IF o.kind = "replay" THEN 1 ELSE o.n

\* Where the service goes first; an empty batch is published at once.
First(o) ==
    CASE o.kind = "update" \/ (o.kind = "create" /\ o.on \in ObjectStores) -> "info"
      [] o.kind = "create" /\ o.on \in Buckets                             -> "open"
      [] o.kind # "create" /\ o.on \in Views                               -> "bind"
      [] o.kind \in {"replay", "deleteMessage"}                            -> "get"
      [] o.kind = "publish" /\ o.n = 0                                     -> "audit"
      [] OTHER                                                             -> "call"

\* getConnection finds the connection, or throws; a confirmation that does not
\* match and a configuration that does not validate are refused here too.
Arrive(p) ==
    /\ pc[p] = "idle"
    /\ Settle(p, {First(op[p]), "error"})
    /\ UNCHANGED <<server, op, seen, results, trail>>

\* streams.info or consumers.info before an update.
Info(p) ==
    /\ At(p, "info", {"update"})
    /\ IF There(op[p].on)
       THEN /\ seen' = [seen EXCEPT ![p] = [config |-> content[op[p].on], rev |-> rev[op[p].on]]]
            /\ Settle(p, {"call"})
       ELSE Settle(p, {"notFound"}) /\ UNCHANGED seen
    /\ UNCHANGED <<server, op, results, trail>>

\* streams.info in createObjectStore.
InfoObjectStore(p) ==
    /\ At(p, "info", {"create"})
    /\ Settle(p, {IF There(op[p].on) THEN "open" ELSE "add"})
    /\ UNCHANGED <<server, op, seen, results, trail>>

\* streams.add or consumers.add: a name that is taken is refused, unless its
\* configuration is the one asked for.
AddResource(p, next) ==
    LET n == op[p].on IN
    \/ /\ ~There(n)
       /\ n \in Consumers => There(Parent[n])
       /\ Make(n, Merge(Blank, op[p].set))
       /\ Settle(p, {next, "error"})
    \/ /\ n \in Consumers => There(Parent[n])
       /\ content[n] = Merge(Blank, op[p].set)
       /\ UNCHANGED server
       /\ Settle(p, {next})

AddObjectStore(p) ==
    /\ At(p, "add", {"create"})
    /\ AddResource(p, "open")
    /\ UNCHANGED <<op, seen, results, trail>>

\* js.views.kv or js.views.os without bindOnly: makes what is not there.
OpenOrMake(n) == IF There(n) THEN UNCHANGED server ELSE Make(n, Blank)

\* The end of createKvStore and of createObjectStore, status() included.
Open(p) ==
    /\ At(p, "open", {"create"})
    /\ OpenOrMake(op[p].on)
    /\ Settle(p, {"audit", "error"})
    /\ UNCHANGED <<op, seen, results, trail>>

\* Mutant: a bucket is opened as an object store is.
BindMakes(p) ==
    /\ pc[p] = "bind"
    /\ OpenOrMake(op[p].on)
    /\ Settle(p, {"call"})
    /\ UNCHANGED <<op, seen, results, trail>>

\* Every other operation on a view opens it first: a KV bucket with bindOnly,
\* which refuses one that is not there, an object store without.
Bind(p) ==
    LET n == op[p].on IN
    /\ pc[p] = "bind"
    /\ IF n \in Buckets /\ ~There(n)
       THEN Settle(p, {"notFound"}) /\ UNCHANGED server
       ELSE Settle(p, {"call"}) /\ OpenOrMake(n)
    /\ UNCHANGED <<op, seen, results, trail>>

\* getMessage before a replay or a delete; whatever its error, it is a 404.
Get(p) ==
    /\ pc[p] = "get"
    /\ Settle(p, {"notFound"} \cup IF Stored(op[p].on, op[p].n) THEN {"call"} ELSE {})
    /\ UNCHANGED <<server, op, seen, results, trail>>

Create(p) ==
    /\ At(p, "call", {"create"})
    /\ AddResource(p, "audit")
    /\ UNCHANGED <<op, seen, results, trail>>

\* streams.update or consumers.update with the merged configuration.
Update(p) ==
    /\ At(p, "call", {"update"})
    /\ There(op[p].on)
    /\ Replace(op[p].on, Merge(seen[p].config, op[p].set))
    /\ Settle(p, {"audit", "error"})
    /\ UNCHANGED <<op, seen, results, trail>>

\* kv.put, os.putBlob: the server writes one key.
Put(p) ==
    /\ At(p, "call", {"put"})
    /\ There(op[p].on)
    /\ Replace(op[p].on, Merge(content[op[p].on], op[p].set))
    /\ Settle(p, {"audit", "error"})
    /\ UNCHANGED <<op, seen, results, trail>>

\* kv.delete, kv.purge, os.delete: the key goes.  Where it never was os.delete
\* changes nothing and says so, and deleteObject does not look at that.
Clear(p) ==
    LET n == op[p].on  cleared == Merge(content[n], op[p].set) IN
    /\ At(p, "call", {"clear"})
    /\ There(n)
    /\ \/ Replace(n, cleared)
       \/ n \in ObjectStores /\ cleared = content[n] /\ UNCHANGED server
    /\ Settle(p, {"audit", "error"})
    /\ UNCHANGED <<op, seen, results, trail>>

\* status, list, history, get: nothing changes and nothing is audited.
Read(p) ==
    /\ At(p, "call", {"read"})
    /\ There(op[p].on)
    /\ Settle(p, {"ok"})
    /\ UNCHANGED <<server, op, seen, results, trail>>

Delete(p) ==
    /\ At(p, "call", {"delete"})
    /\ There(op[p].on)
    /\ Drop(op[p].on)
    /\ Settle(p, {"audit", "error"})
    /\ UNCHANGED <<op, seen, results, trail>>

Purge(p) ==
    /\ At(p, "call", {"purge"})
    /\ There(op[p].on)
    /\ Erase(op[p].on, DOMAIN log[op[p].on])
    /\ Settle(p, {"audit", "error"})
    /\ UNCHANGED <<op, seen, results, trail>>

\* Mutant: the batch goes on after a message whose publish failed.
PublishSkips(p) ==
    LET s == op[p].on  k == Len(results[p]) + 1 IN
    /\ At(p, "call", {"publish", "replay"})
    /\ There(s)
    /\ k <= Size(op[p])
    /\ Store(s, [by |-> p, nth |-> k])
    /\ \/ results' = [results EXCEPT ![p] = Append(@, Len(log[s]) + 1)]
       \/ UNCHANGED results
    /\ Settle(p, {IF k = Size(op[p]) THEN "audit" ELSE "call"})
    /\ UNCHANGED <<op, seen, trail>>

\* Mutant: a message is sent again when its acknowledgement does not come.
PublishRetries(p) ==
    LET s == op[p].on  k == Len(results[p]) + 1 IN
    /\ At(p, "call", {"publish", "replay"})
    /\ There(s)
    /\ k <= Size(op[p])
    /\ \/ /\ Store(s, [by |-> p, nth |-> k])
          /\ results' = [results EXCEPT ![p] = Append(@, Len(log[s]) + 1)]
          /\ Settle(p, {IF k = Size(op[p]) THEN "audit" ELSE "call"})
       \/ /\ Len(log[s]) < 3
          /\ Store(s, [by |-> p, nth |-> k])
          /\ UNCHANGED <<results, pc>>
    /\ UNCHANGED <<op, seen, trail>>

\* An iteration of publishBatch, or the publish of a single message or of a
\* replay.  The next message waits for the acknowledgement of this one.
Publish(p) ==
    LET s == op[p].on  k == Len(results[p]) + 1 IN
    /\ At(p, "call", {"publish", "replay"})
    /\ There(s)
    /\ k <= Size(op[p])
    /\ Store(s, [by |-> p, nth |-> k])
    /\ \/ /\ results' = [results EXCEPT ![p] = Append(@, Len(log[s]) + 1)]
          /\ Settle(p, {IF k = Size(op[p]) THEN "audit" ELSE "call"})
       \/ UNCHANGED results /\ Settle(p, {"error"})
    /\ UNCHANGED <<op, seen, trail>>

DeleteMessage(p) ==
    /\ At(p, "call", {"deleteMessage"})
    /\ Stored(op[p].on, op[p].n)
    /\ Erase(op[p].on, {op[p].n})
    /\ Settle(p, {"audit", "error"})
    /\ UNCHANGED <<op, seen, results, trail>>

\* Mutant: the answer of the server is not looked at.
DeletedAlreadyOk(p) ==
    /\ At(p, "call", {"deleteMessage"})
    /\ ~Stored(op[p].on, op[p].n)
    /\ Settle(p, {"audit"})
    /\ UNCHANGED <<server, op, seen, results, trail>>

\* The message went since it was read: deleteMessage rejects, or answers false.
DeletedAlready(p) ==
    /\ At(p, "call", {"deleteMessage"})
    /\ ~Stored(op[p].on, op[p].n)
    /\ Settle(p, {"notFound", "error"})
    /\ UNCHANGED <<server, op, seen, results, trail>>

\* The resource is not there: a delete or a purge is answered 404, what else
\* finds it gone on its way is an error.
Missing(p) ==
    /\ pc[p] = "call"
    /\ op[p].kind # "create" /\ ~There(op[p].on)
    /\ Settle(p, IF op[p].kind \in {"delete", "purge"} THEN {"notFound"} ELSE {"error"})
    /\ UNCHANGED <<server, op, seen, results, trail>>

\* Mutant: a call that rejects leaves the request without an answer.
RejectUncaught(p) ==
    /\ pc[p] \in Calling \ {"get"}
    /\ Settle(p, {"rejected"})
    /\ UNCHANGED <<server, op, seen, results, trail>>

\* A call rejects without effect: refused, timed out, or the connection closed.
Reject(p) ==
    /\ pc[p] \in Calling \ {"get"}
    /\ Settle(p, {"error"})
    /\ UNCHANGED <<server, op, seen, results, trail>>

\* auditService.log: an error of the database is logged and swallowed.
Audit(p) ==
    /\ pc[p] = "audit"
    /\ \/ audit' = audit \cup {p} /\ UNCHANGED unwritten
       \/ unwritten' = unwritten \cup {p} /\ UNCHANGED audit
    /\ Settle(p, {"ok"})
    /\ UNCHANGED <<server, op, seen, results>>

\* The process dies: what is under way gets no answer.
Crash ==
    /\ \E p \in Requests : pc[p] \in Calling \cup {"audit"}
    /\ pc' = [p \in Requests |-> IF pc[p] \in Calling \cup {"audit"} THEN "dead" ELSE pc[p]]
    /\ UNCHANGED <<server, op, seen, results, trail>>

-----------------------------------------------------------------------------
Step(p) ==
    \/ Info(p) \/ InfoObjectStore(p) \/ AddObjectStore(p) \/ Open(p) \/ Bind(p) \/ Get(p)
    \/ Create(p) \/ Update(p) \/ Put(p) \/ Clear(p) \/ Read(p) \/ Delete(p) \/ Purge(p)
    \/ Publish(p) \/ DeleteMessage(p) \/ DeletedAlready(p) \/ Missing(p) \/ Reject(p)
    \/ Audit(p)

Next == Crash \/ \E p \in Requests : Arrive(p) \/ Step(p)

Spec == Init /\ [][Next]_vars

-----------------------------------------------------------------------------
(* Safety.                                                                 *)

\* A field of a configuration, or a key, changes only in a step of a request
\* that names it, or that writes back what it read before somebody else changed
\* the resource: an update that nobody overtakes keeps every other field.
OthersKeepTheirFields ==
    [][\A n \in Resources, f \in Fields :
          There(n) /\ There(n)' /\ content[n][f] # content'[n][f] =>
              \E p \in Requests :
                  /\ op[p].on = n /\ pc[p] # pc'[p]
                  /\ f \in DOMAIN op[p].set \/ (op[p].kind = "update" /\ seen[p].rev # rev[n])]_vars

\* A name comes into being only for a request that creates it; an object store
\* also for any other request that opens it.  No update and no late write
\* brings back what was deleted meanwhile.
OnlyCreatesMake ==
    [][\A n \in Resources :
          ~There(n) /\ There(n)' =>
              \E p \in Requests :
                  /\ op[p].on = n /\ pc[p] # pc'[p]
                  /\ op[p].kind = "create" \/ n \in ObjectStores]_vars

Done(p) == pc[p] \in {"audit", "ok"}

\* A batch is stored in its order, without gaps or repeats and between the
\* messages of others, up to where it failed: what was acknowledged is where the
\* results say, and at most one message more is there.
BatchIsPrefix ==
    \A p \in Requests :
        LET s == op[p].on  Mine == {i \in DOMAIN log[s] : log[s][i].by = p} IN
        op[p].kind \in {"publish", "replay"} /\ made[s] <= 1 =>
            /\ \A i \in DOMAIN results[p] : /\ results[p][i] \in Mine
                                            /\ log[s][results[p][i]].nth = i
            /\ \A i \in Mine : log[s][i].nth <= Len(results[p]) + 1 /\ log[s][i].nth <= Size(op[p])
            /\ \A i, j \in Mine : i < j => log[s][i].nth < log[s][j].nth

\* Of several deletes of a message one reports success, and then it is gone.
MessageDeletedOnce ==
    \A p, q \in Requests :
        /\ op[p].kind = "deleteMessage" /\ Done(p) /\ made[op[p].on] <= 1
        /\ op[q] = op[p] /\ Done(q)
        => p = q /\ op[p].n \in gone[op[p].on]

\* The step leaves the server with all that p asks for; a delete is fulfilled by the
\* request that makes its target go, except for a key, which only has to be gone.
Fulfils(p) ==
    LET n == op[p].on  o == op[p] IN
    CASE o.kind = "create"              -> There(n)' /\ (n \in Views \/ content'[n] = Merge(Blank, o.set))
      [] o.kind \in {"update", "put", "clear"}
                                        -> There(n)' /\ \A f \in DOMAIN o.set : content'[n][f] = o.set[f]
      [] o.kind = "delete"              -> There(n) /\ ~There(n)'
      [] o.kind = "purge"               -> DOMAIN log[n] \subseteq gone'[n]
      [] o.kind = "deleteMessage"       -> o.n \in gone'[n] \ gone[n]
      [] o.kind \in {"publish", "replay"} -> Len(results'[p]) = Size(o)
      [] OTHER                          -> FALSE

\* The audit log tells of nothing that did not happen in full: a request gets to its
\* entry only by a step that fulfils it, whoever was there between its calls, and no
\* other request gets one.  Every change that is answered with a success is in the
\* log, unless the database rejected the entry.
AuditTellsAnswered ==
    [][\A p \in Requests :
          /\ pc[p] # "audit" /\ pc'[p] = "audit" => Fulfils(p)
          /\ p \in audit' \ audit => pc[p] = "audit"
          /\ pc'[p] = "ok" => p \in audit' \cup unwritten' \/ op[p].kind = "read"]_vars
=============================================================================
