----------------------------- MODULE ResourcePages -----------------------------
(***************************************************************************)
(* The lists of the dashboard whose items are created and deleted: streams, *)
(* the consumers of a selected stream, KV buckets, the keys of one, object  *)
(* stores, the objects of one.  A list shows what its query last fetched,   *)
(* while other clients change the server.  Its mutations go to the scope of *)
(* its latest render, which may have changed since the dialog was opened.   *)
(***************************************************************************)
EXTENDS FiniteSets, Naturals, Sequences

CONSTANTS
    Scopes,      \* what holds the items: streams for consumers, buckets for keys
                 \* and objects, connections for the rest
    Names,       \* the names of items
    MaxForeign,  \* bound: changes by other clients
    MaxCalls,    \* bound: requests of rows and forms under way at once
    None         \* no scope

ASSUME NoneIsNoScope == None \notin Scopes
ASSUME BoundsAreNat == {MaxForeign, MaxCalls} \subseteq Nat
ASSUME NamesAreFinite == IsFiniteSet(Names)

VARIABLES
    alive,     \* the server: the scopes that exist
    items,     \* the server: the items of each scope
    foreign,   \* changes by others so far
    page,      \* the list that the user opened
    left,      \* whether the user has gone to another page since
    streams,   \* the consumers page: its list of streams, as last fetched
    listed,    \* its list of items, as last fetched
    scope,     \* the selected stream, the bucket, the connection
    selected,  \* the ticked items
    dialog,    \* the modal dialog that is open, and a bulk run
    form,      \* the edit form in the list
    calls      \* the mutations under way

server == <<alive, items, foreign>>
lists  == <<streams, listed>>
place  == <<page, left, scope>>
vars   == <<server, lists, place, selected, dialog, form, calls>>

Pages == {"streams", "consumers", "buckets", "keys", "stores", "objects"}
Kinds == {"none", "confirm", "create", "bulk", "running", "finished"}

\* Sequences of distinct names: what Array.from makes of a set of them.
Orders == UNION {{q \in [1 .. n -> Names] : \A i, j \in 1 .. n : q[i] = q[j] => i = j} :
                 n \in 0 .. Cardinality(Names)}

Dialog == [kind : Kinds, scope : Scopes \cup {None}, items : Orders,
           ok : SUBSET Names, failed : SUBSET Names, lost : BOOLEAN]

Closed == [kind |-> "none", scope |-> None, items |-> <<>>,
           ok |-> {}, failed |-> {}, lost |-> FALSE]

\* scope: where its values come from, None when it is not mounted; moved: since then
\* the user chose another stream, or a refetch did not list that one any more.
Form   == [name : Names \cup {None}, scope : Scopes \cup {None}, moved : BOOLEAN]
NoForm == [name |-> None, scope |-> None, moved |-> FALSE]

Call == [op : {"create", "update", "delete"}, scope : Scopes \cup {None}, name : Names,
         via : {"page", "run"}]

TypeOK ==
    /\ alive \subseteq Scopes
    /\ items \in [Scopes -> SUBSET Names]
    /\ foreign \in 0 .. MaxForeign
    /\ page \in Pages
    /\ left \in BOOLEAN
    /\ streams \subseteq Scopes
    /\ listed \subseteq Names
    /\ scope \in Scopes \cup {None}
    /\ selected \subseteq Names
    /\ dialog \in Dialog
    /\ form \in Form
    /\ calls \subseteq Call

-----------------------------------------------------------------------------
(* The effects that keep the selected scope in step with the list.         *)

\* Mutant: a list that was fetched again selects its first stream.
FirstStream(list) == IF list = {} THEN {None} ELSE list

\* The selected stream if the list has it, or else the first of the list.
SelectedStream(list) ==
    IF scope \in list THEN {scope} ELSE IF list = {} THEN {None} ELSE list

Init ==
    /\ alive = Scopes
    /\ items = [s \in Scopes |-> Names]
    /\ foreign = 0
    /\ page \in Pages
    /\ left = FALSE
    /\ listed = {}
    /\ selected = {}
    /\ dialog = Closed
    /\ form = NoForm
    /\ calls = {}
    /\ \/ page # "consumers" /\ scope \in Scopes /\ streams = {}
       \/ page = "consumers" /\ streams = {} /\ scope = None
       \/ page = "consumers" /\ streams = Scopes /\ scope \in Scopes

Idle == dialog.kind = "none"

On(list) == page = list /\ ~left

Deleting == \E c \in calls : c.op = "delete"
Creating == \E c \in calls : c.op = "create"

Send(c) ==
    /\ Cardinality({d \in calls : d.via = "page"}) < MaxCalls
    /\ calls' = calls \cup {c}

Open(kind, list) ==
    /\ Idle
    /\ dialog' = [Closed EXCEPT !.kind = kind, !.scope = scope, !.items = list]

\* The form is in the row of its name.  React keeps it mounted, with its values,
\* from one render to the next while a row of that name is listed.
Rendered(f, to, rows) ==
    IF f.name \in rows
    THEN [f EXCEPT !.scope = IF @ = None THEN to ELSE @, !.moved = @ /\ f.scope # None]
    ELSE [f EXCEPT !.scope = None, !.moved = FALSE]

\* The list of a scope comes from the cache of its query first: whatever it was
\* when the scope was last shown, or nothing.
Switch(to, moved) ==
    /\ scope' = to
    /\ IF to = scope THEN UNCHANGED listed
       ELSE IF to = None THEN listed' = {} ELSE listed' \in SUBSET Names
    /\ form' = Rendered([form EXCEPT !.moved = @ \/ moved], to, listed')

-----------------------------------------------------------------------------
(* Queries.                                                                *)

\* Mutant: a query that rejects puts something else in the place of the list.
FetchedOrNone == IF scope \in alive THEN items[scope] ELSE {None}

\* What the query of the items answers; when it rejects, the last answer stays.
Fetched == IF scope \in alive THEN items[scope] ELSE listed

RefetchItems ==
    /\ ~left
    /\ scope # None
    /\ listed' = Fetched
    /\ form' = Rendered(form, scope, Fetched)
    /\ UNCHANGED <<server, streams, place, selected, dialog, calls>>

RefetchStreams ==
    /\ On("consumers")
    /\ streams' = alive
    /\ \E s \in SelectedStream(alive) : Switch(s, form.scope \notin alive)
    /\ dialog' = [dialog EXCEPT !.lost = @ \/ (dialog.scope # None /\ dialog.scope \notin alive)]
    /\ UNCHANGED <<server, page, left, selected, calls>>

-----------------------------------------------------------------------------
(* Selection.  Searching hides rows from a page's list: shown are the rest. *)

Toggle(n) ==
    /\ Idle
    /\ ~left
    /\ page \notin {"buckets", "stores"}
    /\ n \in listed
    /\ selected' = (selected \ {n}) \cup ({n} \ selected)
    /\ UNCHANGED <<server, lists, place, dialog, form, calls>>

\* The sizes are compared, not the sets.
ToggleAll(rows) ==
    /\ Idle
    /\ rows # {}
    /\ selected' = IF Cardinality(selected) = Cardinality(rows) THEN {} ELSE rows
    /\ UNCHANGED <<server, lists, place, dialog, form, calls>>

toggleSelectAllStreams   == On("streams") /\ ToggleAll(listed)
toggleSelectAllConsumers == On("consumers") /\ scope # None /\ ToggleAll(listed)
toggleSelectAllKeys ==
    /\ On("keys")
    /\ \E shown \in SUBSET listed : ToggleAll(shown)
toggleSelectAllObjects   == On("objects") /\ ToggleAll(listed)

ClearConsumers ==
    /\ Idle
    /\ On("consumers")
    /\ selected # {}
    /\ selected' = {}
    /\ UNCHANGED <<server, lists, place, dialog, form, calls>>

\* The stream of the consumers page changes, and the ticked names stay.
SelectStream(s) ==
    /\ Idle
    /\ On("consumers")
    /\ s \in streams
    /\ Switch(s, s # scope)
    /\ UNCHANGED <<server, streams, page, left, selected, dialog, calls>>

-----------------------------------------------------------------------------
(* Deleting one item: confirm opens a dialog, and its promise resumes the   *)
(* handler.                                                                *)

Ask(list) ==
    /\ Open("confirm", list)
    /\ UNCHANGED <<server, lists, place, selected, form, calls>>

\* The menu of a row offers it while another delete is under way.
HandleDeleteStream(n) == On("streams") /\ n \in listed /\ Ask(<<n>>)

HandleDeleteConsumer(n) ==
    /\ On("consumers")
    /\ scope # None
    /\ ~Deleting
    /\ n \in listed
    /\ Ask(<<n>>)

HandleDeleteBucket(n) == On("buckets") /\ ~Deleting /\ n \in listed /\ Ask(<<n>>)
HandleDeleteKey(n)    == On("keys") /\ n \in listed /\ Ask(<<n>>)
HandleDeleteStore(n)  == On("stores") /\ ~Deleting /\ n \in listed /\ Ask(<<n>>)
HandleDeleteObject(n) == On("objects") /\ ~Deleting /\ n \in listed /\ Ask(<<n>>)

\* mutateAsync uses the options of the latest render.
Delete(n, via) == [op |-> "delete", scope |-> scope, name |-> n, via |-> via]

handleConfirm ==
    /\ dialog.kind = "confirm"
    /\ dialog' = Closed
    /\ Send(Delete(dialog.items[1], "page"))
    /\ UNCHANGED <<server, lists, place, selected, form>>

\* Cancel, Escape, or the Close of a dialog that has finished.
handleClose ==
    /\ dialog.kind \in {"confirm", "create", "bulk", "finished"}
    /\ dialog' = Closed
    /\ UNCHANGED <<server, lists, place, selected, form, calls>>

-----------------------------------------------------------------------------
(* Deleting the ticked items, one after the other.                         *)

OpenBulk ==
    /\ selected # {}
    /\ \E list \in Orders :
          /\ {list[i] : i \in DOMAIN list} = selected
          /\ Open("bulk", list)
    /\ UNCHANGED <<server, lists, place, selected, form, calls>>

HandleBulkDeleteStreams == On("streams") /\ ~Deleting /\ OpenBulk
handleBulkDeleteConsumers == On("consumers") /\ scope # None /\ ~Deleting /\ OpenBulk
handleBulkDeleteKeys == On("keys") /\ OpenBulk
handleBulkDeleteObjects == On("objects") /\ OpenBulk

\* Delete the i-th item.
DeleteItem(i) == Delete(dialog.items[i], "run")

run ==
    /\ dialog.kind = "bulk"
    /\ dialog' = [dialog EXCEPT !.kind = "running"]
    /\ calls' = calls \cup {DeleteItem(1)}
    /\ UNCHANGED <<server, lists, place, selected, form>>

\* Mutant: nothing catches a rejection, which ends the loop and what follows it.
NextItemOrStop(c, ok, failed) ==
    LET done == Cardinality(ok)
        more == done < Len(dialog.items)
    IN  IF failed # {} THEN calls' = calls \ {c} /\ UNCHANGED <<selected, dialog>>
        ELSE /\ dialog' = [dialog EXCEPT !.ok = ok, !.kind = IF more THEN @ ELSE "finished"]
             /\ selected' = IF more THEN selected ELSE {}
             /\ calls' = (calls \ {c}) \cup (IF more THEN {DeleteItem(done + 1)} ELSE {})

\* An item was answered: the next one, or the end of the run, which clears the
\* selection.
NextItem(c, ok, failed) ==
    LET done == Cardinality(ok) + Cardinality(failed)
        more == done < Len(dialog.items)
    IN  /\ dialog' = [dialog EXCEPT !.ok = ok, !.failed = failed,
                                    !.kind = IF more THEN "running" ELSE "finished"]
        /\ selected' = IF more THEN selected ELSE {}
        /\ calls' = (calls \ {c}) \cup (IF more THEN {DeleteItem(done + 1)} ELSE {})

-----------------------------------------------------------------------------
(* Creating: a form in a dialog; Put Key and Upload Object likewise.        *)

ShowCreateForm ==
    /\ ~left
    /\ page = "consumers" => scope # None
    /\ Open("create", <<>>)
    /\ UNCHANGED <<server, lists, place, selected, form, calls>>

\* Its form starts from the configuration of a consumer, and an edit form closes.
handleCloneConsumer(n) ==
    /\ On("consumers")
    /\ scope # None
    /\ n \in listed
    /\ Open("create", <<>>)
    /\ form' = NoForm
    /\ UNCHANGED <<server, lists, place, selected, calls>>

Submit(n) ==
    /\ dialog.kind = "create"
    /\ ~Creating
    /\ Send([op |-> "create", scope |-> scope, name |-> n, via |-> "page"])
    /\ UNCHANGED <<server, lists, place, selected, dialog, form>>

handleCreateStream(n)   == On("streams") /\ Submit(n)
handleCreateConsumer(n) == On("consumers") /\ scope # None /\ Submit(n)
HandleCreateBucket(n)   == On("buckets") /\ Submit(n)
handlePut(n)            == On("keys") /\ Submit(n)
HandleCreateStore(n)    == On("stores") /\ Submit(n)
handleUpload(n)         == On("objects") /\ Submit(n)

-----------------------------------------------------------------------------
(* Editing a stream or a consumer: a form in the list, not modal, that sends *)
(* all its fields.                                                         *)

ToggleEdit(n) ==
    /\ Idle
    /\ n \in listed
    /\ form' = IF form.name = n THEN NoForm ELSE [name |-> n, scope |-> scope, moved |-> FALSE]
    /\ UNCHANGED <<server, lists, place, selected, dialog, calls>>

EditStream(n)   == On("streams") /\ ToggleEdit(n)
EditConsumer(n) == On("consumers") /\ ToggleEdit(n)

\* onSubmit of either form.
Save ==
    /\ Idle
    /\ form.scope # None
    /\ Send([op |-> "update", scope |-> scope, name |-> form.name, via |-> "page"])
    /\ UNCHANGED <<server, lists, place, selected, dialog, form>>

-----------------------------------------------------------------------------
(* The server, and other clients.                                          *)

\* A key or an object can be deleted that is not there; nothing else can.
Feasible(c) ==
    /\ c.scope \in alive
    /\ c.op # "create" => c.name \in items[c.scope] \/ page \in {"keys", "objects"}

Remove(s, n) == alive' = alive /\ items' = [items EXCEPT ![s] = @ \ {n}]
Add(s, n)    == alive' = alive /\ items' = [items EXCEPT ![s] = @ \cup {n}]
Drop(s)      == s \in alive /\ alive' = alive \ {s} /\ items' = [items EXCEPT ![s] = {}]
Revive(s)    == s \notin alive /\ alive' = alive \cup {s} /\ items' = items

Perform(c) ==
    CASE c.op = "create" -> Add(c.scope, c.name)
      [] c.op = "update" -> UNCHANGED <<alive, items>>
      [] c.op = "delete" -> Remove(c.scope, c.name)

\* mutateAsync fulfils, or rejects; a request that rejects may have been performed.
Settle(c, fulfilled) ==
    /\ \/ Feasible(c) /\ Perform(c)
       \/ ~fulfilled /\ UNCHANGED <<alive, items>>
    /\ UNCHANGED <<foreign, lists, place>>

\* A delete only tells; a form that was saved closes the one that is open now, be
\* it another.
Answer(c, fulfilled) ==
    /\ c \in calls
    /\ c.via = "page"
    /\ Settle(c, fulfilled)
    /\ calls' = calls \ {c}
    /\ dialog' = IF fulfilled /\ c.op = "create" /\ dialog.kind = "create" THEN Closed ELSE dialog
    /\ form' = IF fulfilled /\ c.op = "update" /\ ~left THEN NoForm ELSE form
    /\ UNCHANGED selected

AnswerRun(c, fulfilled) ==
    /\ c \in calls
    /\ c.via = "run"
    /\ Settle(c, fulfilled)
    /\ UNCHANGED form
    /\ IF fulfilled THEN NextItem(c, dialog.ok \cup {c.name}, dialog.failed)
       ELSE NextItem(c, dialog.ok, dialog.failed \cup {c.name})

Foreign(s, n) ==
    /\ foreign < MaxForeign
    /\ foreign' = foreign + 1
    /\ page = "consumers" \/ s = scope
    /\ \/ s \in alive /\ (Remove(s, n) \/ Add(s, n))
       \/ page \in {"consumers", "keys", "objects"} /\ (Drop(s) \/ Revive(s))
    /\ UNCHANGED <<lists, place, selected, dialog, form, calls>>

\* Another page of the dashboard: a confirmation stays open, and a run goes on.
Leave ==
    /\ ~left
    /\ left' = TRUE
    /\ selected' = {}
    /\ dialog' = IF dialog.kind \in {"confirm", "running"} THEN dialog ELSE Closed
    /\ form' = NoForm
    /\ UNCHANGED <<server, lists, page, scope, calls>>

-----------------------------------------------------------------------------
Rows(n) ==
    \/ Toggle(n)
    \/ HandleDeleteStream(n) \/ HandleDeleteConsumer(n) \/ HandleDeleteBucket(n)
    \/ HandleDeleteKey(n) \/ HandleDeleteStore(n) \/ HandleDeleteObject(n)
    \/ handleCreateStream(n) \/ handleCreateConsumer(n) \/ HandleCreateBucket(n)
    \/ handlePut(n) \/ HandleCreateStore(n) \/ handleUpload(n)
    \/ EditStream(n) \/ EditConsumer(n) \/ handleCloneConsumer(n)

Header ==
    \/ toggleSelectAllStreams \/ toggleSelectAllConsumers \/ toggleSelectAllKeys
    \/ toggleSelectAllObjects \/ ClearConsumers
    \/ HandleBulkDeleteStreams \/ handleBulkDeleteConsumers \/ handleBulkDeleteKeys
    \/ handleBulkDeleteObjects
    \/ ShowCreateForm

Settles == \E c \in calls, fulfilled \in BOOLEAN : Answer(c, fulfilled) \/ AnswerRun(c, fulfilled)

Next ==
    \/ RefetchItems \/ RefetchStreams
    \/ \E n \in Names : Rows(n)
    \/ Header
    \/ \E s \in Scopes : SelectStream(s)
    \/ handleConfirm \/ handleClose \/ run \/ Save
    \/ Settles
    \/ \E s \in Scopes, n \in Names : Foreign(s, n)
    \/ Leave

Spec == Init /\ [][Next]_vars

-----------------------------------------------------------------------------
(* Properties.                                                             *)

\* Whatever the lists show meanwhile, a delete or a create goes to the stream, bucket
\* or connection that its dialog was opened for, and an edit to the one whose values
\* fill the form and to an item of that name which the list shows: with two exceptions
\* that the pages have and no more.  When a refetch no longer lists that stream, the
\* request goes to the stream that is selected in its place, without another question;
\* so does an edit when the user chose another stream under the form.  A delete asks
\* for an item that the dialog named.
SentAsShown ==
    [][\A c \in calls' \ calls :
          /\ c.op # "update" => c.scope = dialog.scope \/ dialog.lost
          /\ c.op = "update" => c.name \in listed /\ (c.scope = form.scope \/ form.moved)
          /\ c.op = "delete" => \E i \in DOMAIN dialog.items : c.name = dialog.items[i]]_vars

\* A bulk run loses no item, whatever fails, whatever the lists show meanwhile and
\* wherever the user goes: while it is running the first of the items it has not
\* answered is the only one that is asked for, and when it has finished each one
\* has succeeded or failed.
BulkRunsAccount ==
    LET done  == Cardinality(dialog.ok) + Cardinality(dialog.failed)
        asked == {c.name : c \in {d \in calls : d.via = "run"}}
    IN  /\ {dialog.items[i] : i \in 1 .. done} = dialog.ok \cup dialog.failed
        /\ asked = {dialog.items[i] : i \in {k \in DOMAIN dialog.items :
                                           dialog.kind = "running" /\ k = done + 1}}
        /\ dialog.kind = "finished" => done = Len(dialog.items)
=============================================================================
