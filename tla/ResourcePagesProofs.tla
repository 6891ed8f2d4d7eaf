-------------------------- MODULE ResourcePagesProofs --------------------------
(***************************************************************************)
(* Proofs about ResourcePages, for all sets of scopes, finite sets of       *)
(* names and any number of requests and of changes by others.              *)
(***************************************************************************)
EXTENDS ResourcePages, FiniteSetTheorems, TLAPS

USE NoneIsNoScope, BoundsAreNat, NamesAreFinite

-----------------------------------------------------------------------------
(* The orders of a set of names.                                           *)

\* What is used of one: a sequence of names without repetition.
IsOrder(q) ==
    /\ Len(q) \in Nat
    /\ DOMAIN q = 1 .. Len(q)
    /\ \A i \in 1 .. Len(q) : q[i] \in Names
    /\ \A i, j \in 1 .. Len(q) : q[i] = q[j] => i = j

LEMMA OrdersAre ==
    ASSUME NEW q \in Orders
    PROVE  IsOrder(q)
<1>1. PICK n \in 0 .. Cardinality(Names) :
          q \in [1 .. n -> Names] /\ \A i, j \in 1 .. n : q[i] = q[j] => i = j
  BY DEF Orders
<1>2. n \in Nat /\ q \in Seq(Names) /\ Len(q) = n
  BY <1>1, FS_CardinalityType
<1> QED BY <1>1, <1>2 DEF IsOrder

LEMMA SmallOrders ==
    /\ <<>> \in Orders
    /\ \A n \in Names : <<n>> \in Orders
<1>1. Cardinality(Names) \in Nat
  BY FS_CardinalityType
<1>2. <<>> \in Orders
  <2>1. 0 \in 0 .. Cardinality(Names) /\ <<>> \in [1 .. 0 -> Names]
    BY <1>1
  <2> QED BY <2>1 DEF Orders
<1>3. ASSUME NEW n \in Names PROVE <<n>> \in Orders
  <2>1. Cardinality(Names) # 0
    BY <1>3, FS_EmptySet
  <2>2. 1 \in 0 .. Cardinality(Names) /\ <<n>> \in [1 .. 1 -> Names]
    BY <1>1, <2>1
  <2> QED BY <2>2 DEF Orders
<1> QED BY <1>2, <1>3

-----------------------------------------------------------------------------
(* The invariant.                                                          *)

\* A dialog and a form belong to the scope that is shown, unless the page went on.
Where ==
    /\ page # "consumers" => scope # None
    /\ ~ Idle => dialog.scope # None /\ (dialog.scope = scope \/ dialog.lost)
    /\ form.scope # None => form.name \in listed /\ (form.scope = scope \/ form.moved)

Done == Cardinality(dialog.ok) + Cardinality(dialog.failed)

\* A run asks for one item at a time, in order, and a dialog that is none has done
\* nothing.
Account ==
    /\ dialog.kind = "confirm" => Len(dialog.items) = 1
    /\ dialog.kind \in {"bulk", "running", "finished"} => Len(dialog.items) > 0
    /\ dialog.kind \notin {"running", "finished"} => dialog.ok = {} /\ dialog.failed = {}
    /\ Done <= Len(dialog.items)
    /\ \A n \in Names : n \in dialog.ok \cup dialog.failed <=>
                            \E i \in 1 .. Done : n = dialog.items[i]
    /\ \A c \in calls : c.via = "run" =>
           /\ dialog.kind = "running" /\ Done < Len(dialog.items)
           /\ c.name = dialog.items[Done + 1]
           /\ \A d \in calls : d.via = "run" => d = c
    /\ dialog.kind = "running" => \E c \in calls : c.via = "run"
    /\ dialog.kind = "finished" => Done = Len(dialog.items)

Inv == TypeOK /\ Where /\ Account

-----------------------------------------------------------------------------
(* Types of the pieces.                                                    *)

LEMMA ClosedType == Closed \in Dialog /\ NoForm \in Form
BY SmallOrders DEF Closed, Dialog, Kinds, NoForm, Form

LEMMA DialogFacts ==
    ASSUME TypeOK
    PROVE  /\ IsOrder(dialog.items) /\ dialog.items \in Orders
           /\ dialog.ok \subseteq Names /\ dialog.failed \subseteq Names
           /\ IsFiniteSet(dialog.ok) /\ IsFiniteSet(dialog.failed)
           /\ Done \in Nat
           /\ dialog.scope \in Scopes \cup {None} /\ dialog.kind \in Kinds
<1>1. dialog.items \in Orders /\ dialog.ok \subseteq Names /\ dialog.failed \subseteq Names
      /\ dialog.scope \in Scopes \cup {None} /\ dialog.kind \in Kinds
  BY DEF TypeOK, Dialog
<1>2. IsFiniteSet(dialog.ok) /\ IsFiniteSet(dialog.failed)
  BY <1>1, FS_Subset
<1>3. Cardinality(dialog.ok) \in Nat /\ Cardinality(dialog.failed) \in Nat
  BY <1>2, FS_CardinalityType
<1> QED BY <1>1, <1>2, <1>3, OrdersAre DEF Done

(* The dialog that a button opens.                                         *)
LEMMA OpenDialog ==
    ASSUME TypeOK, NEW kind \in Kinds, NEW list \in Orders, Open(kind, list)
    PROVE  /\ dialog' \in Dialog
           /\ dialog'.kind = kind /\ dialog'.scope = scope /\ dialog'.items = list
           /\ dialog'.ok = {} /\ dialog'.failed = {}
<1>1. dialog' = [kind |-> kind, scope |-> scope, items |-> list,
                 ok |-> {}, failed |-> {}, lost |-> FALSE]
  BY DEF Open, Closed
<1> QED BY <1>1 DEF TypeOK, Dialog

LEMMA RenderedType ==
    ASSUME NEW f \in Form, NEW to \in Scopes \cup {None}, NEW rows
    PROVE  Rendered(f, to, rows) \in Form
<1>1. /\ f.name \in Names \cup {None} /\ f.scope \in Scopes \cup {None} /\ f.moved \in BOOLEAN
      /\ f = [name |-> f.name, scope |-> f.scope, moved |-> f.moved]
  BY DEF Form
<1>2. CASE f.name \in rows
  <2>1. Rendered(f, to, rows) = [name |-> f.name,
                                 scope |-> IF f.scope = None THEN to ELSE f.scope,
                                 moved |-> f.moved /\ f.scope # None]
    BY <1>1, <1>2 DEF Rendered, Form
  <2>2. (f.moved /\ f.scope # None) \in BOOLEAN
    OBVIOUS
  <2> QED BY <1>1, <2>1, <2>2 DEF Form
<1>3. CASE f.name \notin rows
  <2>1. Rendered(f, to, rows) = [name |-> f.name, scope |-> None, moved |-> FALSE]
    BY <1>1, <1>3 DEF Rendered, Form
  <2> QED BY <1>1, <2>1 DEF Form
<1> QED BY <1>2, <1>3

(* A form that is rendered is in a row of the list, and has the values of that *)
(* scope if the form before had, or had none.                              *)
LEMMA RenderedWhere ==
    ASSUME NEW f \in Form, NEW to \in Scopes \cup {None}, NEW rows \in SUBSET Names,
           f.scope = None \/ f.scope = to \/ f.moved,
           Rendered(f, to, rows).scope # None
    PROVE  /\ Rendered(f, to, rows).name \in rows
           /\ Rendered(f, to, rows).scope = to \/ Rendered(f, to, rows).moved
BY DEF Rendered, Form

-----------------------------------------------------------------------------
(* Each kind of step.                                                      *)

LEMMA QuietAccount ==
    ASSUME Account, UNCHANGED <<dialog, calls>>
    PROVE  Account'
BY DEF Account, Done

\* What is ticked matters to no other part.
LEMMA SelectionStep ==
    ASSUME Inv, UNCHANGED <<server, lists, place, dialog, form, calls>>, selected' \subseteq Names
    PROVE  Inv'
<1>1. TypeOK'
  BY DEF Inv, TypeOK, server, lists, place
<1>2. Where'
  BY DEF Inv, Where, Idle, lists, place
<1> QED BY <1>1, <1>2, QuietAccount DEF Inv

(* A dialog opens; the lists of a page have a scope then.  Cloning closes the *)
(* edit form.                                                              *)
LEMMA OpenStep ==
    ASSUME Inv, NEW kind \in {"confirm", "create", "bulk"}, NEW list \in Orders,
           kind = "confirm" => Len(list) = 1, kind = "bulk" => Len(list) > 0,
           scope # None, Open(kind, list), form' \in {form, NoForm},
           UNCHANGED <<server, lists, place, selected, calls>>
    PROVE  Inv'
<1>1. /\ dialog' \in Dialog /\ dialog'.kind = kind /\ dialog'.scope = scope
      /\ dialog'.items = list /\ dialog'.ok = {} /\ dialog'.failed = {}
  BY OpenDialog DEF Inv, Kinds
<1>2. TypeOK'
  BY <1>1, ClosedType DEF Inv, TypeOK, server, lists, place
<1>3. Where'
  BY <1>1 DEF Inv, Where, Idle, lists, place, NoForm
<1>4. dialog.kind = "none" /\ \A c \in calls : c.via # "run"
  BY DEF Open, Idle, Inv, Account
<1>5. Done' = 0 /\ Len(list) \in Nat
  BY <1>1, FS_EmptySet, OrdersAre DEF Done, IsOrder
<1>6. Account'
  BY <1>1, <1>4, <1>5 DEF Account
<1> QED BY <1>2, <1>3, <1>6 DEF Inv

(* A dialog closes that is not running.                                    *)
LEMMA CloseStep ==
    ASSUME Inv, dialog' = Closed, UNCHANGED <<server, lists, place>>,
           selected' \subseteq Names, form' \in {form, NoForm}, calls' \subseteq Call,
           \A c \in calls' : c.via # "run"
    PROVE  Inv'
<1>1. TypeOK'
  BY ClosedType DEF Inv, TypeOK, server, lists, place
<1>2. Where'
  BY DEF Inv, Where, Idle, lists, place, Closed, NoForm
<1>3. dialog'.kind = "none" /\ dialog'.items = <<>> /\ dialog'.ok = {} /\ dialog'.failed = {}
  BY DEF Closed
<1>4. Done' = 0
  BY <1>3, FS_EmptySet DEF Done
<1>5. Account'
  BY <1>3, <1>4 DEF Account
<1> QED BY <1>1, <1>2, <1>5 DEF Inv

(* A request of a row or a form.                                           *)
LEMMA SendStep ==
    ASSUME Inv, NEW c \in Call, c.via = "page", Send(c),
           UNCHANGED <<server, lists, place, selected, dialog, form>>
    PROVE  Inv'
<1>1. calls' = calls \cup {c}
  BY DEF Send
<1>2. TypeOK'
  BY <1>1 DEF Inv, TypeOK, server, lists, place
<1>3. Where'
  BY DEF Inv, Where, Idle, lists, place
<1>4. Account'
  BY <1>1 DEF Inv, Account, Done
<1> QED BY <1>2, <1>3, <1>4 DEF Inv

(* The list of a scope is rendered.                                        *)
LEMMA SwitchType ==
    ASSUME TypeOK, Where, NEW to \in Scopes \cup {None}, NEW moved \in BOOLEAN,
           to = scope \/ form.scope = None \/ form.moved \/ moved, Switch(to, moved)
    PROVE  /\ scope' = to /\ listed' \subseteq Names /\ form' \in Form
           /\ form'.scope # None => form'.name \in listed' /\ (form'.scope = to \/ form'.moved)
<1>1. listed' \subseteq Names
  BY DEF Switch, TypeOK
<1>2. PICK f : f = [form EXCEPT !.moved = @ \/ moved]
  OBVIOUS
<1>3. form \in Form /\ form.moved \in BOOLEAN
  BY DEF TypeOK, Form
<1>4. f \in Form /\ f.scope = form.scope /\ f.moved = (form.moved \/ moved)
  <2>1. PICK b \in BOOLEAN : b = (form.moved \/ moved)
    OBVIOUS
  <2>2. f = [form EXCEPT !.moved = b]
    BY <1>2, <1>3, <2>1 DEF Form
  <2> QED BY <1>3, <2>1, <2>2 DEF Form
<1>5. form' = Rendered(f, to, listed') /\ scope' = to
  BY <1>2 DEF Switch
<1>6. f.scope = None \/ f.scope = to \/ f.moved
  BY <1>4 DEF Where
<1> QED BY <1>1, <1>4, <1>5, <1>6, RenderedType, RenderedWhere

LEMMA RefetchItemsStep ==
    ASSUME Inv, RefetchItems
    PROVE  Inv'
<1>1. Fetched \subseteq Names /\ scope \in Scopes \cup {None} /\ form \in Form
  BY DEF Fetched, Inv, TypeOK
<1>2. form' \in Form
      /\ (form'.scope # None => form'.name \in Fetched /\ (form'.scope = scope \/ form'.moved))
  BY <1>1, RenderedType, RenderedWhere DEF RefetchItems, Inv, Where
<1>3. TypeOK'
  BY <1>1, <1>2 DEF RefetchItems, Inv, TypeOK, server, place
<1>4. Where'
  BY <1>2 DEF RefetchItems, Inv, Where, Idle, place
<1> QED BY <1>3, <1>4, QuietAccount DEF RefetchItems, Inv

LEMMA RefetchStreamsStep ==
    ASSUME Inv, RefetchStreams
    PROVE  Inv'
<1>0. TypeOK /\ Where /\ Account
  BY DEF Inv
<1>1. PICK s \in SelectedStream(alive) : Switch(s, form.scope \notin alive)
  BY DEF RefetchStreams
<1>2. s \in Scopes \cup {None} /\ (scope \in alive => s = scope)
  BY <1>0, <1>1 DEF SelectedStream, TypeOK
<1>3. /\ scope' = s /\ listed' \subseteq Names /\ form' \in Form
      /\ form'.scope # None => form'.name \in listed' /\ (form'.scope = s \/ form'.moved)
  <2>1. PICK moved \in BOOLEAN : moved = (form.scope \notin alive)
    OBVIOUS
  <2>2. s = scope \/ form.scope = None \/ form.moved \/ moved
    BY <1>0, <1>2, <2>1 DEF Where
  <2> QED BY <1>0, <1>1, <1>2, <2>1, <2>2, SwitchType
<1> DEFINE lost == dialog.lost \/ (dialog.scope # None /\ dialog.scope \notin alive)
<1>4. dialog \in Dialog /\ dialog' = [dialog EXCEPT !.lost = lost] /\ lost \in BOOLEAN
  <2>1. dialog \in Dialog
    BY <1>0 DEF TypeOK
  <2>2. dialog.lost \in BOOLEAN
    BY <2>1 DEF Dialog
  <2>3. dialog' = [dialog EXCEPT !.lost = lost]
    BY <2>1 DEF RefetchStreams, Dialog
  <2> QED BY <2>1, <2>2, <2>3, Zenon
<1>5. /\ dialog' \in Dialog /\ dialog'.lost = lost /\ dialog'.kind = dialog.kind
      /\ dialog'.scope = dialog.scope /\ dialog'.items = dialog.items
      /\ dialog'.ok = dialog.ok /\ dialog'.failed = dialog.failed
  <2> HIDE DEF lost
  <2> QED BY <1>4 DEF Dialog
<1>6. TypeOK'
  BY <1>0, <1>3, <1>5, <1>2 DEF RefetchStreams, TypeOK, server
<1>7. Where'
  <2>1. page' = "consumers"
    BY DEF RefetchStreams, On
  <2>2. ~ Idle' => dialog'.scope # None /\ (dialog'.scope = scope' \/ dialog'.lost)
    BY <1>0, <1>2, <1>3, <1>5 DEF Where, Idle
  <2> QED BY <1>3, <2>1, <2>2 DEF Where
<1>8. Account'
  BY <1>0, <1>5 DEF RefetchStreams, Account, Done
<1> QED BY <1>6, <1>7, <1>8 DEF Inv

LEMMA SelectStreamStep ==
    ASSUME Inv, NEW s \in Scopes, SelectStream(s)
    PROVE  Inv'
<1>0. PICK moved \in BOOLEAN : moved = (s # scope)
  OBVIOUS
<1>1. /\ scope' = s /\ listed' \subseteq Names /\ form' \in Form
      /\ form'.scope # None => form'.name \in listed' /\ (form'.scope = s \/ form'.moved)
  BY <1>0, SwitchType DEF SelectStream, Inv
<1>2. TypeOK'
  BY <1>1 DEF SelectStream, Inv, TypeOK, server
<1>3. Where'
  BY <1>1 DEF SelectStream, Where, Idle, On
<1> QED BY <1>2, <1>3, QuietAccount DEF SelectStream, Inv

LEMMA EditStep ==
    ASSUME Inv, NEW n \in Names, ToggleEdit(n)
    PROVE  Inv'
<1>1. form' \in Form /\ (form'.scope # None => form'.name \in listed /\ form'.scope = scope)
  BY ClosedType DEF ToggleEdit, Inv, TypeOK, Form, NoForm
<1>2. TypeOK'
  BY <1>1 DEF ToggleEdit, Inv, TypeOK, server, lists, place
<1>3. Where'
  BY <1>1 DEF ToggleEdit, Inv, Where, Idle, lists, place
<1> QED BY <1>2, <1>3, QuietAccount DEF ToggleEdit, Inv

-----------------------------------------------------------------------------
(* Runs.                                                                   *)

LEMMA DeleteItemIs ==
    ASSUME TypeOK, NEW i \in 1 .. Len(dialog.items)
    PROVE  /\ DeleteItem(i) \in Call
           /\ DeleteItem(i).via = "run" /\ DeleteItem(i).name = dialog.items[i]
BY DialogFacts DEF DeleteItem, Delete, Call, IsOrder, TypeOK

LEMMA RunStep ==
    ASSUME Inv, run
    PROVE  Inv'
<1>0. TypeOK /\ Where /\ Account /\ dialog \in Dialog
  BY DEF Inv, TypeOK
<1>1. /\ dialog' \in Dialog /\ dialog'.kind = "running" /\ dialog'.items = dialog.items
      /\ dialog'.ok = {} /\ dialog'.failed = {} /\ dialog'.scope = dialog.scope
      /\ dialog'.lost = dialog.lost /\ dialog.kind = "bulk"
  BY <1>0 DEF run, Dialog, Kinds, Account
<1>2. Len(dialog.items) > 0 /\ Len(dialog.items) \in Nat
  BY <1>0, <1>1, DialogFacts DEF Account, IsOrder
<1>3. PICK c : c = DeleteItem(1)
  OBVIOUS
<1>4. c \in Call /\ c.via = "run" /\ c.name = dialog.items[1]
  BY <1>0, <1>2, <1>3, DeleteItemIs
<1>5. calls' = calls \cup {c} /\ \A d \in calls : d.via # "run"
  BY <1>0, <1>1, <1>3 DEF run, Account
<1>6. TypeOK'
  BY <1>0, <1>1, <1>4, <1>5 DEF run, TypeOK, server, lists, place
<1>7. Where'
  BY <1>0, <1>1 DEF run, Where, Idle, lists, place
<1>8. Done' = 0
  BY <1>1, FS_EmptySet DEF Done
<1>9. Account'
  BY <1>1, <1>2, <1>4, <1>5, <1>8 DEF Account
<1> QED BY <1>6, <1>7, <1>9 DEF Inv

\* The sets after one more item was answered.
Answered(ok, failed) ==
    /\ ok \subseteq Names /\ failed \subseteq Names
    /\ Cardinality(ok) + Cardinality(failed) = Done + 1
    /\ Done + 1 \in 1 .. Len(dialog.items)
    /\ \A n \in Names : n \in ok \cup failed <=> \E i \in 1 .. Done + 1 : n = dialog.items[i]

(* One more item is answered, whichever way.                               *)
LEMMA OneMore ==
    ASSUME TypeOK, Account, NEW c \in calls, c.via = "run",
           NEW ok, NEW failed,
           \/ ok = dialog.ok \cup {c.name} /\ failed = dialog.failed
           \/ ok = dialog.ok /\ failed = dialog.failed \cup {c.name}
    PROVE  Answered(ok, failed)
<1>1. /\ Done < Len(dialog.items) /\ c.name = dialog.items[Done + 1]
      /\ Done \in Nat /\ Len(dialog.items) \in Nat
  BY DialogFacts DEF Account, IsOrder
<1>2. Done + 1 \in 1 .. Len(dialog.items) /\ c.name \in Names
  BY <1>1, DialogFacts DEF IsOrder
<1>3. \A i \in 1 .. Done : dialog.items[i] # c.name
  BY <1>1, <1>2, DialogFacts DEF IsOrder
<1>4. c.name \notin dialog.ok /\ c.name \notin dialog.failed
  BY <1>2, <1>3 DEF Account
<1>5. /\ Cardinality(dialog.ok \cup {c.name}) = Cardinality(dialog.ok) + 1
      /\ Cardinality(dialog.failed \cup {c.name}) = Cardinality(dialog.failed) + 1
      /\ Cardinality(dialog.ok) \in Nat /\ Cardinality(dialog.failed) \in Nat
  BY <1>4, DialogFacts, FS_AddElement, FS_CardinalityType
<1>6. Cardinality(ok) + Cardinality(failed) = Done + 1
  <2>1. CASE ok = dialog.ok \cup {c.name} /\ failed = dialog.failed
    <3>1. Cardinality(ok) = Cardinality(dialog.ok) + 1 /\ Cardinality(failed) = Cardinality(dialog.failed)
      BY <1>5, <2>1
    <3> QED BY <1>5, <3>1 DEF Done
  <2>2. CASE ok = dialog.ok /\ failed = dialog.failed \cup {c.name}
    <3>1. Cardinality(ok) = Cardinality(dialog.ok) /\ Cardinality(failed) = Cardinality(dialog.failed) + 1
      BY <1>5, <2>2
    <3> QED BY <1>5, <3>1 DEF Done
  <2> QED BY <2>1, <2>2
<1>7. ok \subseteq Names /\ failed \subseteq Names
  BY <1>2, DialogFacts
<1>8. ASSUME NEW n \in Names
      PROVE  n \in ok \cup failed <=> \E i \in 1 .. Done + 1 : n = dialog.items[i]
  <2>1. n \in ok \cup failed <=> n \in dialog.ok \cup dialog.failed \/ n = dialog.items[Done + 1]
    BY <1>1
  <2>2. (\E i \in 1 .. Done + 1 : n = dialog.items[i]) <=>
            (\E i \in 1 .. Done : n = dialog.items[i]) \/ n = dialog.items[Done + 1]
    BY <1>1
  <2> QED BY <2>1, <2>2 DEF Account
<1> QED BY <1>2, <1>6, <1>7, <1>8 DEF Answered

LEMMA SettleType ==
    ASSUME TypeOK, NEW c \in calls, NEW fulfilled \in BOOLEAN, Settle(c, fulfilled)
    PROVE  /\ alive' \subseteq Scopes /\ items' \in [Scopes -> SUBSET Names]
           /\ UNCHANGED <<foreign, lists, place>>
<1>1. c \in Call /\ c.name \in Names /\ c.op \in {"create", "update", "delete"}
  BY DEF TypeOK, Call
<1>2. UNCHANGED <<alive, items>> \/ (\E t \in Scopes \cup {None} :
          alive' = alive /\ items' \in {[items EXCEPT ![t] = @ \ {c.name}],
                                        [items EXCEPT ![t] = @ \cup {c.name}]})
  BY <1>1 DEF Settle, Perform, Add, Remove, Call
<1>3. UNCHANGED <<alive, items>> \/ (alive' = alive /\ items' \in [Scopes -> SUBSET Names])
  BY <1>1, <1>2 DEF TypeOK
<1> QED BY <1>3 DEF Settle, TypeOK

LEMMA AnswerRunStep ==
    ASSUME Inv, NEW c \in calls, NEW fulfilled \in BOOLEAN, AnswerRun(c, fulfilled)
    PROVE  Inv'
<1>0. TypeOK /\ Where /\ Account /\ dialog \in Dialog /\ c.via = "run" /\ c \in Call
  BY DEF Inv, TypeOK, AnswerRun
<1>1. PICK ok, failed :
          /\ \/ ok = dialog.ok \cup {c.name} /\ failed = dialog.failed
             \/ ok = dialog.ok /\ failed = dialog.failed \cup {c.name}
          /\ NextItem(c, ok, failed)
  BY DEF AnswerRun
<1>2. /\ ok \subseteq Names /\ failed \subseteq Names
      /\ Cardinality(ok) + Cardinality(failed) = Done + 1
      /\ Done + 1 \in 1 .. Len(dialog.items)
      /\ \A n \in Names : n \in ok \cup failed <=> \E i \in 1 .. Done + 1 : n = dialog.items[i]
  <2>1. Answered(ok, failed)
    BY <1>0, <1>1, OneMore
  <2> QED BY <2>1 DEF Answered
<1>3. Done \in Nat /\ Len(dialog.items) \in Nat /\ dialog.kind = "running"
  BY <1>0, DialogFacts DEF IsOrder, Account
<1> DEFINE more == Done + 1 < Len(dialog.items)
<1>4. /\ dialog' = [dialog EXCEPT !.ok = ok, !.failed = failed,
                                  !.kind = IF more THEN "running" ELSE "finished"]
      /\ selected' = IF more THEN selected ELSE {}
      /\ calls' = (calls \ {c}) \cup (IF more THEN {DeleteItem(Done + 2)} ELSE {})
  <2>1. NextItem(c, ok, failed)
    BY <1>1
  <2>2. PICK done : done = Cardinality(ok) + Cardinality(failed)
    OBVIOUS
  <2>3. /\ dialog' = [dialog EXCEPT !.ok = ok, !.failed = failed,
                         !.kind = IF done < Len(dialog.items) THEN "running" ELSE "finished"]
        /\ selected' = IF done < Len(dialog.items) THEN selected ELSE {}
        /\ calls' = (calls \ {c}) \cup
                      (IF done < Len(dialog.items) THEN {DeleteItem(done + 1)} ELSE {})
    BY <2>1, <2>2, Zenon DEF NextItem
  <2>4. done = Done + 1 /\ done + 1 = Done + 2
    BY <1>2, <1>3, <2>2
  <2> QED BY <2>3, <2>4, Zenon
<1>5. /\ dialog' \in Dialog /\ dialog'.kind = (IF more THEN "running" ELSE "finished")
      /\ dialog'.items = dialog.items /\ dialog'.ok = ok /\ dialog'.failed = failed
      /\ dialog'.scope = dialog.scope /\ dialog'.lost = dialog.lost
  BY <1>0, <1>2, <1>4 DEF Dialog, Kinds
<1>6. Done' = Done + 1
  BY <1>2, <1>5 DEF Done
<1>7. PICK next : next = DeleteItem(Done + 2)
  OBVIOUS
<1>8. more => next \in Call /\ next.via = "run" /\ next.name = dialog.items[Done + 2]
  <2>1. more => Done + 2 \in 1 .. Len(dialog.items)
    BY <1>3
  <2> QED BY <1>0, <1>7, <2>1, DeleteItemIs
<1>9. \A d \in calls \ {c} : d.via # "run"
  BY <1>0 DEF Account
<1>10. TypeOK'
  <2>1. alive' \subseteq Scopes /\ items' \in [Scopes -> SUBSET Names]
        /\ UNCHANGED <<foreign, lists, place, form>>
    BY <1>0, SettleType DEF AnswerRun
  <2>2. calls' \subseteq Call /\ selected' \subseteq Names
    BY <1>0, <1>4, <1>7, <1>8 DEF TypeOK
  <2> QED BY <1>0, <1>5, <2>1, <2>2 DEF TypeOK, lists, place
<1>11. Where'
  BY <1>0, <1>3, <1>5 DEF AnswerRun, Settle, Where, Idle, lists, place
<1>12. Account'
  <2>1. CASE more
    <3>1. calls' = (calls \ {c}) \cup {next} /\ dialog'.kind = "running"
      BY <1>4, <1>5, <1>7, <2>1
    <3>2. (Done + 1) + 1 = Done + 2
      BY <1>3
    <3> QED BY <1>2, <1>3, <1>5, <1>6, <1>8, <1>9, <2>1, <3>1, <3>2 DEF Account
  <2>2. CASE ~ more
    <3>1. calls' = calls \ {c} /\ dialog'.kind = "finished" /\ Done + 1 = Len(dialog.items)
      BY <1>2, <1>3, <1>4, <1>5, <2>2
    <3> QED BY <1>2, <1>3, <1>5, <1>6, <1>9, <3>1 DEF Account
  <2> QED BY <2>1, <2>2
<1> QED BY <1>10, <1>11, <1>12 DEF Inv

(* The answer of any other request.                                        *)
LEMMA AnswerStep ==
    ASSUME Inv, NEW c \in calls, NEW fulfilled \in BOOLEAN, Answer(c, fulfilled)
    PROVE  Inv'
<1>0. TypeOK /\ Where /\ Account /\ c.via = "page"
  BY DEF Inv, Answer
<1>1. alive' \subseteq Scopes /\ items' \in [Scopes -> SUBSET Names]
      /\ UNCHANGED <<foreign, lists, place>>
  BY <1>0, SettleType DEF Answer
<1>2. calls' = calls \ {c} /\ selected' = selected /\ form' \in {form, NoForm}
  BY DEF Answer
<1>3. form' \in Form /\ (form'.scope # None => form'.name \in listed /\ (form'.scope = scope \/ form'.moved))
  <2>1. CASE form' = form
    BY <1>0, <2>1 DEF TypeOK, Where
  <2>2. CASE form' = NoForm
    BY <2>2, ClosedType DEF NoForm
  <2> QED BY <1>2, <2>1, <2>2
<1>4. CASE dialog' = Closed /\ dialog.kind = "create"
  <2>1. TypeOK'
    BY <1>0, <1>1, <1>2, <1>3, <1>4, ClosedType DEF TypeOK, lists, place
  <2>2. Where'
    BY <1>0, <1>1, <1>3, <1>4 DEF Where, Idle, lists, place, Closed
  <2>3. Done' = 0
    BY <1>4, FS_EmptySet DEF Done, Closed
  <2>4. \A d \in calls' : d.via # "run"
    BY <1>0, <1>2, <1>4 DEF Account
  <2>5. Account'
    BY <1>4, <2>3, <2>4 DEF Account, Closed
  <2> QED BY <2>1, <2>2, <2>5 DEF Inv
<1>5. CASE dialog' = dialog
  <2>1. TypeOK'
    BY <1>0, <1>1, <1>2, <1>3, <1>5 DEF TypeOK, lists, place
  <2>2. Where'
    BY <1>0, <1>1, <1>3, <1>5 DEF Where, Idle, lists, place
  <2>3. Account'
    BY <1>0, <1>2, <1>5 DEF Account, Done
  <2> QED BY <2>1, <2>2, <2>3 DEF Inv
<1> QED BY <1>4, <1>5 DEF Answer

LEMMA ForeignStep ==
    ASSUME Inv, NEW s \in Scopes, NEW n \in Names, Foreign(s, n)
    PROVE  Inv'
<1>1. alive' \subseteq Scopes /\ items' \in [Scopes -> SUBSET Names]
  BY DEF Foreign, Remove, Add, Drop, Revive, Inv, TypeOK
<1>2. foreign' \in 0 .. MaxForeign
  BY DEF Foreign, Inv, TypeOK
<1>3. TypeOK'
  BY <1>1, <1>2 DEF Foreign, Inv, TypeOK, lists, place
<1>4. Where'
  BY DEF Foreign, Inv, Where, Idle, lists, place
<1> QED BY <1>3, <1>4, QuietAccount DEF Foreign, Inv

LEMMA LeaveStep ==
    ASSUME Inv, Leave
    PROVE  Inv'
<1>1. CASE dialog' = dialog
  <2>1. TypeOK'
    BY <1>1, ClosedType DEF Leave, Inv, TypeOK, server, lists
  <2>2. Where'
    BY <1>1 DEF Leave, Inv, Where, Idle, lists, NoForm
  <2> QED BY <1>1, <2>1, <2>2, QuietAccount DEF Leave, Inv
<1>2. CASE dialog' = Closed /\ dialog.kind # "running"
  <2>1. TypeOK'
    BY <1>2, ClosedType DEF Leave, Inv, TypeOK, server, lists
  <2>2. Where'
    BY <1>2 DEF Leave, Inv, Where, Idle, lists, NoForm, Closed
  <2>3. Done' = 0
    BY <1>2, FS_EmptySet DEF Done, Closed
  <2>4. \A d \in calls' : d.via # "run"
    BY <1>2 DEF Leave, Inv, Account
  <2>5. Account'
    BY <1>2, <2>3, <2>4 DEF Account, Closed
  <2> QED BY <2>1, <2>2, <2>5 DEF Inv
<1> QED BY <1>1, <1>2 DEF Leave

-----------------------------------------------------------------------------
(* All steps.                                                              *)

\* One step of SentAsShown.
SentStep ==
    \A c \in calls' \ calls :
        /\ c.op # "update" => c.scope = dialog.scope \/ dialog.lost
        /\ c.op = "update" => c.name \in listed /\ (c.scope = form.scope \/ form.moved)
        /\ c.op = "delete" => \E i \in DOMAIN dialog.items : c.name = dialog.items[i]

LEMMA SentNothing ==
    ASSUME calls' \subseteq calls
    PROVE  SentStep
BY DEF SentStep

LEMMA DeleteSent ==
    ASSUME Inv, ~ Idle, NEW i \in 1 .. Len(dialog.items), NEW via,
           calls' \subseteq calls \cup {Delete(dialog.items[i], via)}
    PROVE  SentStep
<1>1. /\ Delete(dialog.items[i], via).op = "delete" /\ Delete(dialog.items[i], via).scope = scope
      /\ Delete(dialog.items[i], via).name = dialog.items[i]
  BY DEF Delete
<1>2. dialog.scope = scope \/ dialog.lost
  BY DEF Inv, Where
<1>3. i \in DOMAIN dialog.items
  BY DialogFacts DEF Inv, IsOrder
<1> QED BY <1>1, <1>2, <1>3 DEF SentStep

LEMMA RowsStep ==
    ASSUME Inv, NEW n \in Names, Rows(n)
    PROVE  Inv' /\ SentStep
<1>0. scope \in Scopes \cup {None} /\ Where /\ listed \subseteq Names /\ selected \subseteq Names
  BY DEF Inv, TypeOK
<1>1. CASE Toggle(n)
  <2>1. selected' \subseteq Names
    BY <1>0, <1>1 DEF Toggle
  <2> QED BY <1>1, <2>1, SelectionStep, SentNothing DEF Toggle
<1>2. CASE \/ HandleDeleteStream(n) \/ HandleDeleteConsumer(n) \/ HandleDeleteBucket(n)
           \/ HandleDeleteKey(n) \/ HandleDeleteStore(n) \/ HandleDeleteObject(n)
  <2>1. Ask(<<n>>) /\ scope # None
    BY <1>0, <1>2 DEF HandleDeleteStream, HandleDeleteConsumer, HandleDeleteBucket,
                      HandleDeleteKey, HandleDeleteStore, HandleDeleteObject, On, Where
  <2>2. <<n>> \in Orders /\ Len(<<n>>) = 1
    BY SmallOrders
  <2> QED BY <2>1, <2>2, OpenStep, SentNothing DEF Ask
<1>3. CASE Submit(n)
  <2>1. PICK c : c = [op |-> "create", scope |-> scope, name |-> n, via |-> "page"]
    OBVIOUS
  <2>2. c \in Call /\ c.via = "page" /\ c.op = "create" /\ c.scope = scope
    BY <1>0, <2>1 DEF Call
  <2>3. Send(c) /\ dialog.kind = "create"
           /\ UNCHANGED <<server, lists, place, selected, dialog, form>>
    BY <1>3, <2>1 DEF Submit
  <2>4. SentStep
    BY <1>0, <2>2, <2>3 DEF Send, SentStep, Where, Idle
  <2> QED BY <2>2, <2>3, <2>4, SendStep
<1>4. CASE ToggleEdit(n)
  BY <1>4, EditStep, SentNothing DEF ToggleEdit
<1>5. CASE handleCloneConsumer(n)
  <2>1. scope # None
    BY <1>5 DEF handleCloneConsumer
  <2> QED BY <1>5, <2>1, OpenStep, SmallOrders, SentNothing DEF handleCloneConsumer
<1> QED BY <1>1, <1>2, <1>3, <1>4, <1>5
        DEF Rows, handleCreateStream, handleCreateConsumer, HandleCreateBucket, handlePut,
            HandleCreateStore, handleUpload, EditStream, EditConsumer

LEMMA HeaderStep ==
    ASSUME Inv, Header
    PROVE  Inv' /\ SentStep
<1>0. /\ scope \in Scopes \cup {None} /\ Where /\ listed \subseteq Names
      /\ selected \subseteq Names /\ page \in Pages \cup {"left"}
  BY DEF Inv, TypeOK
<1>1. ASSUME NEW rows \in SUBSET Names, ToggleAll(rows) PROVE Inv' /\ SentStep
  <2>1. selected' \subseteq Names
    BY <1>1 DEF ToggleAll
  <2> QED BY <1>1, <2>1, SelectionStep, SentNothing DEF ToggleAll
<1>2. CASE ClearConsumers
  <2>1. selected' \subseteq Names
    BY <1>2 DEF ClearConsumers
  <2> QED BY <1>2, <2>1, SelectionStep, SentNothing DEF ClearConsumers
<1>3. ASSUME OpenBulk, scope # None PROVE Inv' /\ SentStep
  <2>1. PICK list \in Orders : {list[i] : i \in DOMAIN list} = selected /\ Open("bulk", list)
    BY <1>3 DEF OpenBulk
  <2>2. Len(list) > 0
    BY <1>3, <2>1, OrdersAre DEF OpenBulk, IsOrder
  <2> QED BY <1>3, <2>1, <2>2, OpenStep, SentNothing DEF OpenBulk
<1>4. CASE ShowCreateForm
  <2>1. scope # None
    BY <1>0, <1>4 DEF ShowCreateForm, Where
  <2> QED BY <1>4, <2>1, OpenStep, SmallOrders, SentNothing DEF ShowCreateForm
<1>5. CASE \/ toggleSelectAllStreams \/ toggleSelectAllConsumers \/ toggleSelectAllKeys
           \/ toggleSelectAllObjects
  BY <1>0, <1>1, <1>5 DEF toggleSelectAllStreams, toggleSelectAllConsumers, toggleSelectAllKeys,
                          toggleSelectAllObjects
<1>6. CASE \/ HandleBulkDeleteStreams \/ handleBulkDeleteConsumers \/ handleBulkDeleteKeys
           \/ handleBulkDeleteObjects
  BY <1>0, <1>3, <1>6 DEF HandleBulkDeleteStreams, handleBulkDeleteConsumers,
                          handleBulkDeleteKeys, handleBulkDeleteObjects, On, Where
<1> QED BY <1>2, <1>4, <1>5, <1>6 DEF Header

LEMMA ConfirmStep ==
    ASSUME Inv, handleConfirm
    PROVE  Inv' /\ SentStep
<1>0. TypeOK /\ Account /\ dialog.kind = "confirm"
  BY DEF Inv, handleConfirm
<1>1. 1 \in 1 .. Len(dialog.items) /\ dialog.items[1] \in Names
  <2>1. Len(dialog.items) = 1
    BY <1>0 DEF Account
  <2>2. IsOrder(dialog.items)
    BY <1>0, DialogFacts
  <2>3. 1 \in 1 .. Len(dialog.items)
    BY <2>1
  <2> QED BY <2>2, <2>3 DEF IsOrder
<1>2. PICK c : c = Delete(dialog.items[1], "page")
  OBVIOUS
<1>3. c \in Call /\ c.via = "page" /\ calls' = calls \cup {c}
  BY <1>0, <1>1, <1>2 DEF Delete, Call, TypeOK, handleConfirm, Send
<1>4. calls' \subseteq Call /\ \A d \in calls' : d.via # "run"
  BY <1>0, <1>3 DEF Account, TypeOK
<1>5. Inv'
  <2>1. dialog' = Closed /\ UNCHANGED <<server, lists, place, selected, form>>
    BY DEF handleConfirm
  <2>2. selected' \subseteq Names /\ form' \in {form, NoForm} /\ UNCHANGED <<server, lists, place>>
    BY <1>0, <2>1 DEF TypeOK
  <2> QED BY <1>4, <2>1, <2>2, CloseStep
<1>6. SentStep
  BY <1>0, <1>1, <1>2, <1>3, DeleteSent DEF Idle
<1> QED BY <1>5, <1>6

LEMMA SaveStep ==
    ASSUME Inv, Save
    PROVE  Inv' /\ SentStep
<1>0. TypeOK /\ Where /\ form \in Form /\ form.scope # None
  BY DEF Inv, TypeOK, Save
<1>1. PICK c : c = [op |-> "update", scope |-> scope, name |-> form.name, via |-> "page"]
  OBVIOUS
<1>2. c \in Call /\ c.via = "page" /\ c.op = "update" /\ c.scope = scope /\ c.name = form.name
  BY <1>0, <1>1 DEF Call, Where, TypeOK
<1>3. Send(c) /\ UNCHANGED <<server, lists, place, selected, dialog, form>>
  BY <1>1 DEF Save
<1>4. SentStep
  BY <1>0, <1>2, <1>3 DEF Send, SentStep, Where
<1> QED BY <1>2, <1>3, <1>4, SendStep

LEMMA SettlesStep ==
    ASSUME Inv, NEW c \in calls, NEW fulfilled \in BOOLEAN,
           Answer(c, fulfilled) \/ AnswerRun(c, fulfilled)
    PROVE  Inv' /\ SentStep
<1>1. CASE Answer(c, fulfilled)
  <2>1. calls' \subseteq calls
    BY <1>1 DEF Answer
  <2> QED BY <1>1, <2>1, AnswerStep, SentNothing
<1>2. CASE AnswerRun(c, fulfilled)
  <2>1. PICK ok, failed : /\ NextItem(c, ok, failed)
                          /\ \/ ok = dialog.ok \cup {c.name} /\ failed = dialog.failed
                             \/ ok = dialog.ok /\ failed = dialog.failed \cup {c.name}
    BY <1>2 DEF AnswerRun
  <2>2. TypeOK /\ Account /\ c.via = "run" /\ ~ Idle
    BY <1>2 DEF AnswerRun, Inv, Account, Idle
  <2>3. Answered(ok, failed)
    BY <2>1, <2>2, OneMore
  <2>4. PICK done : done = Cardinality(ok) + Cardinality(failed)
    OBVIOUS
  <2>5. done \in Nat /\ Len(dialog.items) \in Nat
    BY <2>2, <2>3, <2>4, DialogFacts DEF Answered, IsOrder
  <2>6. calls' = (calls \ {c}) \cup
                   (IF done < Len(dialog.items) THEN {DeleteItem(done + 1)} ELSE {})
    BY <2>1, <2>4, Zenon DEF NextItem
  <2>7. CASE done < Len(dialog.items)
    <3>1. done + 1 \in 1 .. Len(dialog.items)
      BY <2>5, <2>7
    <3>2. calls' \subseteq calls \cup {Delete(dialog.items[done + 1], "run")}
      BY <2>6, <2>7 DEF DeleteItem
    <3>3. SentStep
      BY <2>2, <3>1, <3>2, DeleteSent
    <3> QED BY <1>2, <3>3, AnswerRunStep
  <2>8. CASE ~ (done < Len(dialog.items))
    <3>1. calls' \subseteq calls
      BY <2>6, <2>8
    <3> QED BY <1>2, <3>1, AnswerRunStep, SentNothing
  <2> QED BY <2>7, <2>8
<1> QED BY <1>1, <1>2

LEMMA InvStep ==
    ASSUME Inv, [Next]_vars
    PROVE  Inv' /\ SentStep
<1>1. CASE RefetchItems
  BY <1>1, RefetchItemsStep, SentNothing DEF RefetchItems
<1>2. CASE RefetchStreams
  BY <1>2, RefetchStreamsStep, SentNothing DEF RefetchStreams
<1>3. ASSUME NEW s \in Scopes, SelectStream(s) PROVE Inv' /\ SentStep
  BY <1>3, SelectStreamStep, SentNothing DEF SelectStream
<1>4. CASE handleClose
  <2>1. dialog' = Closed /\ UNCHANGED <<server, lists, place, selected, form, calls>>
    BY <1>4 DEF handleClose
  <2>2. selected' \subseteq Names /\ calls' \subseteq Call /\ \A c \in calls' : c.via # "run"
    BY <1>4, <2>1 DEF handleClose, Inv, TypeOK, Account
  <2> QED BY <2>1, <2>2, CloseStep, SentNothing
<1>5. CASE run
  <2>1. Len(dialog.items) \in Nat /\ Len(dialog.items) > 0 /\ ~ Idle
    BY <1>5, DialogFacts DEF run, Inv, Account, IsOrder, Idle
  <2>2. calls' \subseteq calls \cup {Delete(dialog.items[1], "run")}
    BY <1>5 DEF run, DeleteItem
  <2>3. SentStep
    BY <2>1, <2>2, DeleteSent
  <2> QED BY <1>5, <2>3, RunStep
<1>6. ASSUME NEW s \in Scopes, NEW n \in Names, Foreign(s, n) PROVE Inv' /\ SentStep
  BY <1>6, ForeignStep, SentNothing DEF Foreign
<1>7. CASE Leave
  BY <1>7, LeaveStep, SentNothing DEF Leave
<1>8. CASE UNCHANGED vars
  <2>1. UNCHANGED <<server, lists, place, dialog, form, calls, selected>>
    BY <1>8 DEF vars
  <2>2. selected' \subseteq Names
    BY <2>1 DEF Inv, TypeOK
  <2> QED BY <2>1, <2>2, SelectionStep, SentNothing
<1> QED BY <1>1, <1>2, <1>3, <1>4, <1>5, <1>6, <1>7, <1>8, RowsStep, HeaderStep, ConfirmStep,
           SaveStep, SettlesStep DEF Next, Settles

LEMMA InvInit == Init => Inv
<1>1. ASSUME Init PROVE TypeOK
  <2>1. left \in BOOLEAN /\ dialog \in Dialog /\ form \in Form
    BY <1>1, ClosedType DEF Init
  <2>2. page \in Pages /\ items \in [Scopes -> SUBSET Names]
    BY <1>1 DEF Init
  <2>3. scope \in Scopes \cup {None} /\ streams \subseteq Scopes
    BY <1>1 DEF Init
  <2>4. alive \subseteq Scopes /\ listed = {} /\ selected = {} /\ calls = {} /\ foreign \in 0 .. MaxForeign
    BY <1>1 DEF Init
  <2> QED BY <2>1, <2>2, <2>3, <2>4 DEF TypeOK
<1>2. ASSUME Init PROVE Where
  <2>1. dialog.kind = "none" /\ form.scope = None
    BY <1>2 DEF Init, Closed, NoForm
  <2>2. page # "consumers" => scope # None
    BY <1>2 DEF Init
  <2> QED BY <2>1, <2>2 DEF Where, Idle
<1>3. ASSUME Init PROVE Account
  <2>1. Done = 0
    BY <1>3, FS_EmptySet DEF Init, Closed, Done
  <2> QED BY <1>3, <2>1 DEF Init, Closed, Account
<1> QED BY <1>1, <1>2, <1>3 DEF Inv

LEMMA Invariant == Spec => []Inv
<1>1. Inv /\ [Next]_vars => Inv'
  BY InvStep
<1> QED BY InvInit, <1>1, PTL DEF Spec

\* The pages stay well typed, whatever other clients do under them.
THEOREM TypeCorrect == Spec => []TypeOK
<1>1. Inv => TypeOK
  BY DEF Inv
<1> QED BY <1>1, Invariant, PTL

\* However many items are ticked and whichever of them fail, a bulk run goes
\* through them in order, one request at a time, and ends with each accounted for.
THEOREM BulkAccounts == Spec => []BulkRunsAccount
<1>1. ASSUME Inv PROVE BulkRunsAccount
  <2>0. TypeOK /\ Account /\ Done \in Nat /\ IsOrder(dialog.items)
    BY <1>1, DialogFacts DEF Inv
  <2>1. {dialog.items[i] : i \in 1 .. Done} = dialog.ok \cup dialog.failed
    <3>1. Done <= Len(dialog.items) /\ \A i \in 1 .. Done : dialog.items[i] \in Names
      BY <2>0 DEF Account, IsOrder
    <3>2. dialog.ok \cup dialog.failed \subseteq Names
      BY <2>0, DialogFacts
    <3> QED BY <2>0, <3>1, <3>2 DEF Account
  <2>2. {c.name : c \in {d \in calls : d.via = "run"}} =
            {dialog.items[i] : i \in {k \in DOMAIN dialog.items :
                                          dialog.kind = "running" /\ k = Done + 1}}
    <3>1. CASE dialog.kind = "running"
      <4>1. PICK c \in calls : c.via = "run"
        BY <2>0, <3>1 DEF Account
      <4>2. /\ Done + 1 \in DOMAIN dialog.items /\ c.name = dialog.items[Done + 1]
            /\ \A d \in calls : d.via = "run" => d = c
        BY <2>0, <4>1 DEF Account, IsOrder
      <4> QED BY <3>1, <4>1, <4>2
    <3>2. CASE dialog.kind # "running"
      BY <2>0, <3>2 DEF Account
    <3> QED BY <3>1, <3>2
  <2>3. dialog.kind = "finished" => Done = Len(dialog.items)
    BY <2>0 DEF Account
  <2> QED BY <2>1, <2>2, <2>3 DEF BulkRunsAccount, Done
<1> QED BY <1>1, Invariant, PTL

\* A create or a delete goes where its dialog was opened for unless that stream was
\* lost meanwhile, and an edit where its values come from unless that one was lost or
\* the user chose another: for any number of scopes, items and other clients.
THEOREM SentAsShownHolds == Spec => SentAsShown
<1>1. Inv /\ [Next]_vars => [SentStep]_vars
  BY InvStep
<1>2. Spec => [][SentStep]_vars
  BY <1>1, Invariant, PTL DEF Spec
<1> QED BY <1>2 DEF SentStep, SentAsShown
=============================================================================
