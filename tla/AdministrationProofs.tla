-------------------------- MODULE AdministrationProofs --------------------------
(* Proofs about Administration, for all sets of requests and resources and   *)
(* whatever operations the clients ask for.  Effects says what a step does   *)
(* to the server, Grows what no step takes back, Places where a request can  *)
(* be; the theorems follow from these and one invariant each.                *)
EXTENDS Administration, TLAPS

States == Calling \cup Answered \cup {"idle", "audit", "dead"}

(* What an operation is.                                                     *)
LEMMA OpType ==
    ASSUME TypeOK, NEW p \in Requests
    PROVE  op[p] \in Operations /\ op[p] \in Ops /\ Offered(op[p])
BY OperationsAreOffered DEF TypeOK

LEMMA MergeType ==
    ASSUME NEW c \in Contents, NEW o \in Ops
    PROVE  Merge(c, o.set) \in Contents
<1>1. PICK F \in SUBSET Fields : o.set \in [F -> Values]
  BY DEF Ops
<1> QED BY <1>1 DEF Merge, Contents

LEMMA BlankType == Blank \in Contents
BY DefaultIsValue DEF Blank, Contents

(* The variables of the server.                                              *)
ServerOK ==
    /\ content \in [Resources -> Contents \cup {Absent}]
    /\ log \in [Streams -> Seq(Message)]
    /\ gone \in [Streams -> SUBSET (Nat \ {0})]
    /\ made \in [Resources -> Nat]
    /\ rev \in [Resources -> Nat]

LEMMA MakeType ==
    ASSUME ServerOK, NEW n \in Resources, NEW c \in Contents, Make(n, c)
    PROVE  ServerOK'
<1>1. log' \in [Streams -> Seq(Message)] /\ gone' \in [Streams -> SUBSET (Nat \ {0})]
  <2>1. CASE n \in Streams
    <3>1. log' = [log EXCEPT ![n] = <<>>] /\ <<>> \in Seq(Message)
      BY <2>1 DEF Make
    <3>2. gone' = [gone EXCEPT ![n] = {}] /\ {} \in SUBSET (Nat \ {0})
      BY <2>1 DEF Make
    <3>3. log' \in [Streams -> Seq(Message)]
      BY <3>1 DEF ServerOK
    <3>4. gone' \in [Streams -> SUBSET (Nat \ {0})]
      BY <3>2 DEF ServerOK
    <3> QED BY <3>3, <3>4
  <2>2. CASE n \notin Streams
    BY <2>2 DEF ServerOK, Make
  <2> QED BY <2>1, <2>2
<1> QED BY <1>1 DEF ServerOK, Make

LEMMA ReplaceType ==
    ASSUME ServerOK, NEW n \in Resources, NEW c \in Contents, Replace(n, c)
    PROVE  ServerOK'
BY DEF ServerOK, Replace

LEMMA DropType ==
    ASSUME ServerOK, NEW n \in Resources, Drop(n)
    PROVE  ServerOK'
BY DEF ServerOK, Drop

LEMMA StoreType ==
    ASSUME ServerOK, NEW s \in Streams, NEW m \in Message, Store(s, m)
    PROVE  ServerOK'
BY DEF ServerOK, Store

LEMMA EraseType ==
    ASSUME ServerOK, NEW s \in Streams, NEW q \in SUBSET (Nat \ {0}), Erase(s, q)
    PROVE  ServerOK'
BY DEF ServerOK, Erase

(* The variables of a request.                                               *)
LEMMA SettleType ==
    ASSUME pc \in [Requests -> States], NEW p \in Requests, NEW S \in SUBSET States, Settle(p, S)
    PROVE  /\ pc' \in [Requests -> States]
           /\ pc'[p] \in S
           /\ \A q \in Requests \ {p} : pc'[q] = pc[q]
BY DEF Settle

(* The variables that are neither the server's nor the place of a request.   *)
RequestsOK ==
    /\ op \in [Requests -> Operations]
    /\ seen \in [Requests -> Snapshot]
    /\ results \in [Requests -> Seq(Nat \ {0})]
    /\ audit \subseteq Requests
    /\ unwritten \subseteq Requests

LEMMA TypeParts == TypeOK <=> ServerOK /\ RequestsOK /\ pc \in [Requests -> States]
BY DEF TypeOK, ServerOK, RequestsOK, States

LEMMA Opened ==
    ASSUME ServerOK, NEW n \in Resources, OpenOrMake(n)
    PROVE  ServerOK'
<1>1. CASE There(n)
  BY <1>1 DEF OpenOrMake, ServerOK, server
<1>2. CASE ~There(n)
  BY <1>2, MakeType, BlankType DEF OpenOrMake
<1> QED BY <1>1, <1>2

LEMMA Added ==
    ASSUME TypeOK, NEW p \in Requests, NEW next \in {"open", "audit"}, AddResource(p, next)
    PROVE  ServerOK' /\ pc' \in [Requests -> States]
<1> op[p] \in Ops /\ op[p].on \in Resources /\ ServerOK /\ pc \in [Requests -> States]
  BY OpType, TypeParts DEF Ops
<1>1. Settle(p, {next, "error"}) \/ Settle(p, {next})
  BY DEF AddResource
<1>2. pc' \in [Requests -> States]
  BY <1>1, SettleType DEF States, Calling, Answered
<1>3. Make(op[p].on, Merge(Blank, op[p].set)) \/ UNCHANGED server
  BY DEF AddResource
<1>4. Merge(Blank, op[p].set) \in Contents
  BY MergeType, BlankType
<1>5. CASE UNCHANGED server
  BY <1>2, <1>5 DEF ServerOK, server
<1> QED BY <1>2, <1>3, <1>4, <1>5, MakeType

(* Type correctness: every step keeps the variables well typed.              *)
LEMMA TypeStep == TypeOK /\ [Next]_vars => TypeOK'
<1> SUFFICES ASSUME TypeOK, [Next]_vars PROVE TypeOK'
  OBVIOUS
<1>0. ServerOK /\ RequestsOK /\ pc \in [Requests -> States]
  BY TypeParts
<1>1. ASSUME NEW p \in Requests, Arrive(p) \/ Step(p)
      PROVE  ServerOK' /\ RequestsOK' /\ pc' \in [Requests -> States]
  <2>0. /\ op[p] \in Ops /\ op[p].on \in Resources /\ op[p].n \in Nat
        /\ op[p].kind \in {"purge", "publish", "replay", "deleteMessage"} => op[p].on \in Streams
    BY <1>0, OpType, ClassesAreDistinct DEF Ops, Offered
  <2>1. CASE \/ Arrive(p) \/ InfoObjectStore(p) \/ Get(p) \/ Read(p) \/ DeletedAlready(p)
             \/ Missing(p) \/ Reject(p)
    <3>1. First(op[p]) \in States
      BY DEF First, States, Calling
    <3>2. UNCHANGED <<server, op, seen, results, trail>>
      BY <2>1 DEF Arrive, InfoObjectStore, Get, Read, DeletedAlready, Missing, Reject
    <3>3. \E S \in SUBSET States : Settle(p, S)
      <4>1. CASE Arrive(p)
        BY <3>1, <4>1 DEF Arrive, States, Answered
      <4>2. CASE InfoObjectStore(p) \/ Get(p) \/ Read(p)
        BY <4>2 DEF InfoObjectStore, Get, Read, States, Answered, Calling
      <4>3. CASE DeletedAlready(p) \/ Missing(p) \/ Reject(p)
        BY <4>3 DEF DeletedAlready, Missing, Reject, States, Answered, Calling
      <4> QED BY <2>1, <4>1, <4>2, <4>3
    <3>4. pc' \in [Requests -> States]
      BY <1>0, <3>3, SettleType
    <3> QED BY <1>0, <3>2, <3>4 DEF ServerOK, RequestsOK, server, trail
  <2>2. CASE Info(p)
    <3>1. pc' \in [Requests -> States]
      <4>1. Settle(p, {"call"}) \/ Settle(p, {"notFound"})
        BY <2>2 DEF Info
      <4> QED BY <1>0, <4>1, SettleType DEF States, Calling, Answered
    <3>2. seen' \in [Requests -> Snapshot]
      <4>1. CASE There(op[p].on)
        <5>1. [config |-> content[op[p].on], rev |-> rev[op[p].on]] \in Snapshot
          BY <1>0, <2>0, <4>1 DEF ServerOK, There, Snapshot
        <5> QED BY <1>0, <2>2, <4>1, <5>1 DEF Info, RequestsOK
      <4>2. CASE ~There(op[p].on)
        BY <1>0, <2>2, <4>2 DEF Info, RequestsOK
      <4> QED BY <4>1, <4>2
    <3>3. UNCHANGED <<server, op, results, trail>>
      BY <2>2 DEF Info
    <3> QED BY <1>0, <3>1, <3>2, <3>3 DEF ServerOK, RequestsOK, server, trail
  <2>3. CASE AddObjectStore(p) \/ Create(p)
    <3>1. \E next \in {"open", "audit"} : AddResource(p, next)
      BY <2>3 DEF AddObjectStore, Create
    <3>2. UNCHANGED <<op, seen, results, trail>>
      BY <2>3 DEF AddObjectStore, Create
    <3> QED BY <1>0, <3>1, <3>2, Added DEF RequestsOK, trail
  <2>4. CASE Open(p) \/ Bind(p)
    <3>1. UNCHANGED server \/ OpenOrMake(op[p].on)
      BY <2>4 DEF Open, Bind
    <3>2. \E S \in SUBSET States : Settle(p, S)
      BY <2>4 DEF Open, Bind, States, Calling, Answered
    <3>3. UNCHANGED <<op, seen, results, trail>>
      BY <2>4 DEF Open, Bind
    <3>4. pc' \in [Requests -> States]
      BY <1>0, <3>2, SettleType
    <3>5. ServerOK'
      <4>1. CASE UNCHANGED server
        BY <1>0, <4>1 DEF ServerOK, server
      <4> QED BY <1>0, <2>0, <3>1, <4>1, Opened
    <3> QED BY <1>0, <3>3, <3>4, <3>5 DEF RequestsOK, trail
  <2>5. CASE Update(p) \/ Put(p) \/ Clear(p) \/ Delete(p) \/ Purge(p) \/ DeleteMessage(p)
    <3>1. Settle(p, {"audit", "error"}) /\ UNCHANGED <<op, seen, results, trail>>
      BY <2>5 DEF Update, Put, Clear, Delete, Purge, DeleteMessage
    <3>2. pc' \in [Requests -> States]
      BY <1>0, <3>1, SettleType DEF States, Answered
    <3>3. ServerOK'
      <4>1. CASE Update(p)
        <5>1. seen[p].config \in Contents
          BY <1>0 DEF RequestsOK, Snapshot
        <5> QED BY <1>0, <2>0, <4>1, <5>1, MergeType, ReplaceType DEF Update
      <4>2. CASE Put(p)
        <5>1. content[op[p].on] \in Contents
          BY <1>0, <2>0, <4>2 DEF ServerOK, Put, There
        <5> QED BY <1>0, <2>0, <4>2, <5>1, MergeType, ReplaceType DEF Put
      <4>3. CASE Delete(p)
        BY <1>0, <2>0, <4>3, DropType DEF Delete
      <4>4. CASE Purge(p)
        <5>1. op[p].on \in Streams
          BY <2>0, <4>4 DEF Purge, At
        <5>2. DOMAIN log[op[p].on] \in SUBSET (Nat \ {0})
          BY <1>0, <5>1 DEF ServerOK
        <5> QED BY <1>0, <4>4, <5>1, <5>2, EraseType DEF Purge
      <4>5. CASE DeleteMessage(p)
        <5>1. op[p].on \in Streams
          BY <2>0, <4>5 DEF DeleteMessage, At
        <5>2. {op[p].n} \in SUBSET (Nat \ {0})
          BY <1>0, <4>5, <5>1 DEF ServerOK, DeleteMessage, Stored
        <5> QED BY <1>0, <4>5, <5>1, <5>2, EraseType DEF DeleteMessage
      <4>6. CASE Clear(p)
        <5>1. content[op[p].on] \in Contents
          BY <1>0, <2>0, <4>6 DEF ServerOK, Clear, There
        <5>2. Replace(op[p].on, Merge(content[op[p].on], op[p].set)) \/ UNCHANGED server
          BY <4>6 DEF Clear
        <5>3. CASE UNCHANGED server
          BY <1>0, <5>3 DEF ServerOK, server
        <5> QED BY <1>0, <2>0, <5>1, <5>2, <5>3, MergeType, ReplaceType
      <4> QED BY <2>5, <4>1, <4>2, <4>3, <4>4, <4>5, <4>6
    <3> QED BY <1>0, <3>1, <3>2, <3>3 DEF RequestsOK, trail
  <2>6. CASE Publish(p)
    <3>1. op[p].on \in Streams
      BY <2>0, <2>6 DEF Publish, At
    <3>2. [by |-> p, nth |-> Len(results[p]) + 1] \in Message
      BY <1>0 DEF RequestsOK, Message
    <3>3. ServerOK'
      BY <1>0, <2>6, <3>1, <3>2, StoreType DEF Publish
    <3>4. \E S \in SUBSET States : Settle(p, S)
      BY <2>6 DEF Publish, States, Calling, Answered
    <3>5. results' \in [Requests -> Seq(Nat \ {0})]
      <4>1. Len(log[op[p].on]) + 1 \in Nat \ {0}
        BY <1>0, <3>1 DEF ServerOK
      <4>2. Append(results[p], Len(log[op[p].on]) + 1) \in Seq(Nat \ {0})
        BY <1>0, <4>1 DEF RequestsOK
      <4> QED BY <1>0, <2>6, <4>2 DEF Publish, RequestsOK
    <3>6. pc' \in [Requests -> States] /\ UNCHANGED <<op, seen, trail>>
      BY <1>0, <2>6, <3>4, SettleType DEF Publish
    <3> QED BY <1>0, <3>3, <3>5, <3>6 DEF RequestsOK, trail
  <2>7. CASE Audit(p)
    <3>1. Settle(p, {"ok"}) /\ UNCHANGED <<server, op, seen, results>>
      BY <2>7 DEF Audit
    <3>2. pc' \in [Requests -> States]
      BY <1>0, <3>1, SettleType DEF States, Answered
    <3> QED BY <1>0, <2>7, <3>1, <3>2 DEF Audit, ServerOK, RequestsOK, server
  <2> QED BY <1>1, <2>1, <2>2, <2>3, <2>4, <2>5, <2>6, <2>7 DEF Step
<1>2. CASE Crash
  <2>1. pc' \in [Requests -> States]
    BY <1>0, <1>2 DEF Crash, States
  <2>2. UNCHANGED <<content, log, gone, made, rev, op, seen, results, audit, unwritten>>
    BY <1>2 DEF Crash, server, trail
  <2> QED BY <1>0, <2>1, <2>2 DEF TypeOK, ServerOK, RequestsOK, States
<1>3. CASE UNCHANGED vars
  BY <1>3 DEF TypeOK, vars
<1>4. ServerOK' /\ RequestsOK' /\ pc' \in [Requests -> States] => TypeOK'
  BY DEF TypeOK, ServerOK, RequestsOK, States
<1> QED BY <1>1, <1>2, <1>3, <1>4 DEF Next

(* Every variable stays well typed, whatever the clients ask for.            *)
THEOREM TypeCorrect == Spec => []TypeOK
<1>1. Init => TypeOK
  <2> SUFFICES ASSUME Init PROVE TypeOK
    OBVIOUS
  <2>1. log \in [Streams -> Seq(Message)]
    <3>1. [by |-> Absent, nth |-> 0] \in Message
      BY DEF Message
    <3> QED BY <3>1 DEF Init
  <2>2. seen \in [Requests -> Snapshot]
    BY BlankType DEF Init, Snapshot
  <2>3. content \in [Resources -> Contents \cup {Absent}]
    BY BlankType DEF Init
  <2> QED BY <2>1, <2>2, <2>3 DEF Init, TypeOK
<1> QED BY <1>1, TypeStep, PTL DEF Spec

-----------------------------------------------------------------------------
(* What a step of a request does to the server, and to its own place.        *)

Makes(p)    == \E c \in Contents : ~There(op[p].on) /\ Make(op[p].on, c)
Replaces(p) ==
    /\ There(op[p].on)
    /\ \/ /\ op[p].kind = "update" /\ pc[p] = "call"
          /\ Replace(op[p].on, Merge(seen[p].config, op[p].set))
       \/ Replace(op[p].on, Merge(content[op[p].on], op[p].set))
Erases(p)   == There(op[p].on) /\ op[p].on \in Streams /\ \E q \in SUBSET (Nat \ {0}) : Erase(op[p].on, q)

CreatesOrBinds(p) ==
    \/ op[p].kind = "create"
    \/ pc[p] = "bind" /\ op[p].on \notin Buckets

LEMMA Effects ==
    ASSUME TypeOK, NEW p \in Requests, Arrive(p) \/ Step(p)
    PROVE  \/ UNCHANGED server
           \/ Makes(p) /\ pc'[p] # pc[p] /\ CreatesOrBinds(p)
           \/ Replaces(p) /\ pc'[p] # pc[p]
           \/ There(op[p].on) /\ Drop(op[p].on)
           \/ Publish(p)
           \/ Erases(p)
<1>0. /\ op[p] \in Ops /\ op[p].on \in Resources /\ op[p].n \in Nat /\ ServerOK
      /\ pc \in [Requests -> States] /\ op[p].kind \in Kinds
      /\ op[p].kind \in {"purge", "publish", "replay", "deleteMessage"} => op[p].on \in Streams
  BY OpType, ClassesAreDistinct, TypeParts DEF Ops, Offered
<1>1. ASSUME NEW S, Settle(p, S), pc[p] \notin S PROVE pc'[p] # pc[p]
  BY <1>0, <1>1 DEF Settle
<1>2. CASE \/ Arrive(p) \/ Info(p) \/ InfoObjectStore(p) \/ Get(p) \/ Read(p)
           \/ DeletedAlready(p) \/ Missing(p) \/ Reject(p) \/ Audit(p)
  BY <1>2 DEF Arrive, Info, InfoObjectStore, Get, Read, DeletedAlready, Missing, Reject, Audit
<1>3. CASE AddObjectStore(p) \/ Create(p)
  <2>1. op[p].kind = "create" /\ Merge(Blank, op[p].set) \in Contents
    BY <1>0, <1>3, MergeType, BlankType DEF AddObjectStore, Create, At
  <2>2. UNCHANGED server \/ (~There(op[p].on) /\ Make(op[p].on, Merge(Blank, op[p].set)))
    BY <1>3 DEF AddObjectStore, Create, AddResource
  <2>3. pc'[p] # pc[p]
    <3>1. CASE AddObjectStore(p)
      <4>1. pc[p] = "add" /\ (Settle(p, {"open", "error"}) \/ Settle(p, {"open"}))
        BY <3>1 DEF AddObjectStore, AddResource, At
      <4> QED BY <1>0, <4>1 DEF Settle
    <3>2. CASE Create(p)
      <4>1. pc[p] = "call" /\ (Settle(p, {"audit", "error"}) \/ Settle(p, {"audit"}))
        BY <3>2 DEF Create, AddResource, At
      <4> QED BY <1>0, <4>1 DEF Settle
    <3> QED BY <1>3, <3>1, <3>2
  <2> QED BY <2>1, <2>2, <2>3 DEF Makes, CreatesOrBinds
<1>4. CASE Open(p)
  <2>1. op[p].kind = "create" /\ pc[p] = "open" /\ Settle(p, {"audit", "error"})
           /\ OpenOrMake(op[p].on)
    BY <1>4 DEF Open, At
  <2>2. pc'[p] # pc[p]
    BY <1>1, <2>1
  <2> QED BY <2>1, <2>2, BlankType DEF OpenOrMake, Makes, CreatesOrBinds
<1>5. CASE Bind(p)
  <2>1. CASE op[p].on \in Buckets /\ ~There(op[p].on)
    BY <1>5, <2>1 DEF Bind
  <2>2. CASE ~ (op[p].on \in Buckets /\ ~There(op[p].on))
    <3>1. pc[p] = "bind" /\ Settle(p, {"call"}) /\ OpenOrMake(op[p].on)
      BY <1>5, <2>2 DEF Bind
    <3>2. pc'[p] # pc[p]
      BY <1>1, <3>1
    <3> QED BY <2>2, <3>1, <3>2, BlankType DEF OpenOrMake, Makes, CreatesOrBinds
  <2> QED BY <2>1, <2>2
<1>6. CASE Update(p) \/ Put(p) \/ Clear(p)
  <2>1. pc[p] = "call" /\ Settle(p, {"audit", "error"}) /\ (Replaces(p) \/ UNCHANGED server)
    BY <1>6 DEF Update, Put, Clear, At, Replaces
  <2> QED BY <1>1, <2>1
<1>7. CASE Delete(p)
  BY <1>7 DEF Delete
<1>8. CASE Purge(p)
  <2>1. op[p].on \in Streams
    BY <1>0, <1>8 DEF Purge, At
  <2>2. DOMAIN log[op[p].on] \in SUBSET (Nat \ {0})
    BY <1>0, <2>1 DEF ServerOK
  <2> QED BY <1>8, <2>1, <2>2 DEF Purge, Erases
<1>9. CASE DeleteMessage(p)
  <2>1. op[p].on \in Streams /\ There(op[p].on)
    BY <1>0, <1>9 DEF DeleteMessage, At, Stored
  <2>2. {op[p].n} \in SUBSET (Nat \ {0})
    BY <1>0, <1>9, <2>1 DEF ServerOK, DeleteMessage, Stored
  <2> QED BY <1>9, <2>1, <2>2 DEF DeleteMessage, Erases
<1> QED BY <1>2, <1>3, <1>4, <1>5, <1>6, <1>7, <1>8, <1>9 DEF Step

(* A step of one request leaves the places of the others.                    *)
LEMMA OthersStay ==
    ASSUME TypeOK, NEW p \in Requests, Arrive(p) \/ Step(p)
    PROVE  /\ op' = op
           /\ \A q \in Requests \ {p} : /\ pc'[q] = pc[q] /\ results'[q] = results[q]
                                        /\ seen'[q] = seen[q]
           /\ pc' \in [Requests -> States]
<1>0. pc \in [Requests -> States] /\ RequestsOK /\ pc' \in [Requests -> States]
  <2>1. TypeOK'
    BY TypeStep DEF Next
  <2> QED BY <2>1, TypeParts DEF TypeOK, States
<1>1. \E S : Settle(p, S)
  <2>1. CASE Arrive(p) \/ Info(p) \/ InfoObjectStore(p) \/ Get(p) \/ Open(p) \/ Bind(p)
    BY <2>1 DEF Arrive, Info, InfoObjectStore, Get, Open, Bind
  <2>2. CASE AddObjectStore(p) \/ Create(p)
    <3>1. \E next : AddResource(p, next)
      BY <2>2 DEF AddObjectStore, Create
    <3> QED BY <3>1 DEF AddResource
  <2>3. CASE Update(p) \/ Put(p) \/ Clear(p) \/ Read(p) \/ Delete(p) \/ Purge(p) \/ DeleteMessage(p)
    BY <2>3 DEF Update, Put, Clear, Read, Delete, Purge, DeleteMessage
  <2>4. CASE Publish(p) \/ DeletedAlready(p) \/ Missing(p) \/ Reject(p) \/ Audit(p)
    BY <2>4 DEF Publish, DeletedAlready, Missing, Reject, Audit
  <2> QED BY <2>1, <2>2, <2>3, <2>4 DEF Step
<1>2. \A q \in Requests \ {p} : pc'[q] = pc[q]
  BY <1>0, <1>1 DEF Settle
<1>3. op' = op /\ \A q \in Requests \ {p} : results'[q] = results[q] /\ seen'[q] = seen[q]
  BY <1>0 DEF Arrive, Step, Info, InfoObjectStore, AddObjectStore, Open, Bind, Get, Create,
         Update, Put, Clear, Read, Delete, Purge, Publish, DeleteMessage, DeletedAlready, Missing, Reject,
         Audit, RequestsOK
<1> QED BY <1>0, <1>2, <1>3

(* What no step takes back: names come into being once more each time, and   *)
(* each change of a content counts.                                          *)
LEMMA Grows ==
    ASSUME TypeOK, NEW p \in Requests, Arrive(p) \/ Step(p)
    PROVE  /\ \A n \in Resources :
                 /\ made'[n] \in {made[n], made[n] + 1}
                 /\ \/ content'[n] = content[n] /\ rev'[n] = rev[n]
                    \/ rev'[n] = rev[n] + 1
                 /\ content'[n] # Absent /\ content[n] = Absent => made'[n] = made[n] + 1
           /\ \A s \in Streams :
                 made'[s] = made[s] =>
                     /\ gone[s] \subseteq gone'[s]
                     /\ \/ log'[s] = log[s]
                        \/ /\ Publish(p) /\ s = op[p].on
                           /\ log'[s] = Append(log[s], [by |-> p, nth |-> Len(results[p]) + 1])
<1> DEFINE Goal == /\ \A n \in Resources :
                         /\ made'[n] \in {made[n], made[n] + 1}
                         /\ \/ content'[n] = content[n] /\ rev'[n] = rev[n]
                            \/ rev'[n] = rev[n] + 1
                         /\ content'[n] # Absent /\ content[n] = Absent => made'[n] = made[n] + 1
                   /\ \A s \in Streams :
                         made'[s] = made[s] =>
                             /\ gone[s] \subseteq gone'[s]
                             /\ \/ log'[s] = log[s]
                                \/ /\ Publish(p) /\ s = op[p].on
                                   /\ log'[s] = Append(log[s], [by |-> p, nth |-> Len(results[p]) + 1])
<1>0. /\ ServerOK /\ op[p].on \in Resources /\ Streams \subseteq Resources /\ op[p] \in Ops
      /\ op[p].kind \in {"publish", "replay"} => op[p].on \in Streams
  BY OpType, TypeParts, ClassesAreDistinct DEF Ops, Resources, Offered
<1>1. CASE UNCHANGED server
  BY <1>1 DEF server
<1>2. ASSUME NEW c \in Contents, ~There(op[p].on), Make(op[p].on, c) PROVE Goal
  <2>0. /\ made \in [Resources -> Nat] /\ made' = [made EXCEPT ![op[p].on] = @ + 1]
        /\ log \in [Streams -> Seq(Message)] /\ gone \in [Streams -> SUBSET (Nat \ {0})]
        /\ log' = IF op[p].on \in Streams THEN [log EXCEPT ![op[p].on] = <<>>] ELSE log
        /\ gone' = IF op[p].on \in Streams THEN [gone EXCEPT ![op[p].on] = {}] ELSE gone
    BY <1>0, <1>2 DEF Make, ServerOK
  <2>1. ASSUME NEW s \in Streams, made'[s] = made[s] PROVE log'[s] = log[s] /\ gone'[s] = gone[s]
    <3>1. s # op[p].on
      BY <1>0, <2>0, <2>1
    <3> QED BY <2>0, <3>1
  <2>2. \A n \in Resources : n # op[p].on =>
            content'[n] = content[n] /\ rev'[n] = rev[n] /\ made'[n] = made[n]
    BY <1>0, <1>2 DEF Make, ServerOK
  <2>3. made'[op[p].on] = made[op[p].on] + 1 /\ rev'[op[p].on] = rev[op[p].on] + 1
    BY <1>0, <1>2 DEF Make, ServerOK
  <2> QED BY <2>1, <2>2, <2>3
<1>3. ASSUME NEW c, There(op[p].on), Replace(op[p].on, c) PROVE Goal
  BY <1>0, <1>3 DEF Replace, ServerOK, There
<1>4. CASE There(op[p].on) /\ Drop(op[p].on)
  BY <1>0, <1>4 DEF Drop, ServerOK
<1>5. CASE Publish(p)
  <2>1. /\ op[p].on \in Streams
        /\ log' = [log EXCEPT ![op[p].on] =
                     Append(@, [by |-> p, nth |-> Len(results[p]) + 1])]
        /\ UNCHANGED <<content, gone, made, rev>>
    BY <1>0, <1>5 DEF Publish, Store, At
  <2> QED BY <1>0, <1>5, <2>1 DEF ServerOK
<1>6. CASE Erases(p)
  BY <1>0, <1>6 DEF Erases, Erase, ServerOK
<1> QED BY <1>1, <1>2, <1>3, <1>4, <1>5, <1>6, Effects DEF Makes, Replaces

LEMMA CrashKeeps ==
    ASSUME TypeOK, Crash
    PROVE  /\ UNCHANGED <<server, op, seen, results, trail>>
           /\ \A p \in Requests : pc'[p] = pc[p] \/ (pc'[p] = "dead" /\ pc[p] # "ok")
BY DEF Crash, Calling, TypeOK

-----------------------------------------------------------------------------
(* Where a request can be.                                                   *)

Placed(p) ==
    /\ pc[p] = "bind" => op[p].on \in Views
    /\ pc[p] = "get" => op[p].kind \in {"replay", "deleteMessage"}
    /\ pc[p] = "idle" => results[p] = <<>>
    /\ pc[p] = "audit" => op[p].kind # "read"
    /\ pc[p] \in {"add", "open"} => op[p].on \in Views
    /\ pc[p] = "info" /\ op[p].kind = "create" => op[p].on \in Views
    /\ pc[p] = "ok" => p \in audit \cup unwritten \/ op[p].kind = "read"

Places == TypeOK /\ (\A p \in Requests : Placed(p)) /\ (\A p \in audit : pc[p] = "ok" /\ op[p].kind # "read")

LEMMA FirstPlace ==
    ASSUME NEW o \in Ops, Offered(o)
    PROVE  /\ First(o) \in {"bind", "add", "open"} => o.on \in Views
           /\ First(o) = "info" /\ o.kind = "create" => o.on \in Views
           /\ First(o) = "get" => o.kind \in {"replay", "deleteMessage"}
           /\ First(o) = "audit" => o.kind = "publish" /\ o.n = 0
           /\ First(o) = "call" => o.kind # "update"
           /\ First(o) \notin {"idle", "ok"}
BY ClassesAreDistinct DEF First, Ops, Kinds, Offered, Views

LEMMA PlacedStep ==
    ASSUME Places, NEW p \in Requests, Arrive(p) \/ Step(p)
    PROVE  Placed(p)' /\ audit' \subseteq audit \cup {p} /\ unwritten \subseteq unwritten'
           /\ (p \in audit' => p \in audit \/ (pc'[p] = "ok" /\ op[p].kind # "read"))
           /\ audit \subseteq audit' /\ (p \in audit => FALSE)
<1>0. /\ TypeOK /\ RequestsOK /\ pc \in [Requests -> States] /\ Placed(p) /\ op' = op
      /\ op[p] \in Ops /\ Offered(op[p]) /\ op[p].n \in Nat
  BY OthersStay, OpType, TypeParts DEF Places, Ops
<1>1. CASE Arrive(p)
  <2>1. pc[p] = "idle" /\ pc'[p] \in {First(op[p]), "error"} /\ UNCHANGED <<results, audit, unwritten>>
    BY <1>0, <1>1 DEF Arrive, Settle, trail
  <2> QED BY <1>0, <2>1, FirstPlace DEF Placed, Places
<1>2. CASE Audit(p)
  <2>1. pc[p] = "audit" /\ pc'[p] = "ok" /\ UNCHANGED results
        /\ \/ audit' = audit \cup {p} /\ unwritten' = unwritten
           \/ unwritten' = unwritten \cup {p} /\ audit' = audit
    BY <1>0, <1>2 DEF Audit, Settle
  <2> QED BY <1>0, <2>1 DEF Placed, Places
<1>3. CASE Publish(p)
  <2>1. /\ op[p].kind \in {"publish", "replay"} /\ pc[p] = "call"
        /\ pc'[p] \in {"audit", "call", "error"} /\ UNCHANGED <<audit, unwritten>>
    BY <1>0, <1>3 DEF Publish, At, Settle, trail
  <2> QED BY <1>0, <2>1 DEF Placed, Places
<1>4. CASE ~ Arrive(p) /\ ~ Audit(p) /\ ~ Publish(p)
  <2>1. UNCHANGED <<results, audit, unwritten>> /\ pc[p] \notin {"idle", "ok"}
    BY <1>4 DEF Step, Info, InfoObjectStore, AddObjectStore, Open, Bind, Get, Create, Update, Put,
         Clear, Read, Delete, Purge, DeleteMessage, DeletedAlready, Missing, Reject, At, trail, Calling
  <2>2. /\ pc'[p] \notin {"idle", "bind", "get", "info"}
        /\ pc'[p] = "audit" => op[p].kind # "read"
        /\ pc'[p] \in {"add", "open"} => op[p].on \in Views
        /\ pc'[p] = "ok" => op[p].kind = "read"
    <3>1. CASE Info(p) \/ InfoObjectStore(p) \/ Get(p) \/ Open(p) \/ Bind(p)
      BY <1>0, <3>1 DEF Info, InfoObjectStore, Get, Open, Bind, Settle, At, Placed
    <3>2. CASE AddObjectStore(p) \/ Create(p)
      BY <1>0, <3>2 DEF AddObjectStore, Create, AddResource, Settle, At, Placed
    <3>3. CASE Update(p) \/ Put(p) \/ Clear(p) \/ Read(p) \/ Delete(p) \/ Purge(p) \/ DeleteMessage(p)
      BY <1>0, <3>3 DEF Update, Put, Clear, Read, Delete, Purge, DeleteMessage, Settle, At
    <3>4. CASE DeletedAlready(p) \/ Missing(p) \/ Reject(p)
      BY <1>0, <3>4 DEF DeletedAlready, Missing, Reject, Settle, At
    <3> QED BY <1>4, <3>1, <3>2, <3>3, <3>4 DEF Step
  <2> QED BY <1>0, <2>1, <2>2 DEF Placed, Places
<1> QED BY <1>1, <1>2, <1>3, <1>4


LEMMA PlacesInit == ASSUME Init, TypeOK PROVE Places
<1> SUFFICES ASSUME NEW p \in Requests PROVE Placed(p)
  BY DEF Places, Init
<1> QED BY DEF Init, Placed, Done

LEMMA PlacesStep == Places /\ [Next]_vars => Places'
<1> SUFFICES ASSUME Places, [Next]_vars PROVE Places'
  OBVIOUS
<1>0. TypeOK /\ TypeOK'
  BY TypeStep DEF Places
<1>1. ASSUME NEW p \in Requests, Arrive(p) \/ Step(p) PROVE Places'
  <2>1. /\ Placed(p)' /\ audit' \subseteq audit \cup {p} /\ unwritten \subseteq unwritten'
        /\ audit \subseteq audit' /\ p \notin audit
        /\ p \in audit' => pc'[p] = "ok" /\ op[p].kind # "read"
    BY <1>1, PlacedStep
  <2>2. /\ op' = op
        /\ \A q \in Requests \ {p} : pc'[q] = pc[q] /\ results'[q] = results[q]
    BY <1>0, <1>1, OthersStay
  <2>3. ASSUME NEW q \in Requests, q # p PROVE Placed(q)'
    BY <2>1, <2>2, <2>3 DEF Places, Placed
  <2>4. ASSUME NEW q \in audit' PROVE pc'[q] = "ok" /\ op'[q].kind # "read"
    BY <1>0, <2>1, <2>2, <2>4 DEF Places, TypeOK
  <2> QED BY <1>0, <2>1, <2>3, <2>4 DEF Places
<1>2. CASE Crash
  <2>1. /\ UNCHANGED <<op, results, audit, unwritten>>
        /\ \A p \in Requests : pc'[p] = pc[p] \/ (pc'[p] = "dead" /\ pc[p] # "ok")
    BY <1>0, <1>2, CrashKeeps DEF trail
  <2>2. ASSUME NEW q \in Requests PROVE Placed(q)'
    BY <2>1 DEF Places, Placed
  <2>3. ASSUME NEW q \in audit' PROVE pc'[q] = "ok" /\ op'[q].kind # "read"
    BY <1>0, <2>1, <2>3 DEF Places, TypeOK
  <2> QED BY <1>0, <2>2, <2>3 DEF Places
<1>3. CASE UNCHANGED vars
  <2>1. ASSUME NEW q \in Requests PROVE Placed(q)'
    BY <1>3 DEF vars, Places, Placed
  <2> QED BY <1>0, <1>3, <2>1 DEF vars, Places
<1> QED BY <1>1, <1>2, <1>3 DEF Next

LEMMA PlacesHold == Spec => []Places
<1>1. Init /\ TypeOK => Places
  BY PlacesInit
<1> QED BY <1>1, PlacesStep, TypeCorrect, PTL DEF Spec

(* The fields a merge sets, and that it is a content.                        *)
LEMMA Merged ==
    ASSUME NEW c \in Contents, NEW o \in Ops
    PROVE  /\ Merge(c, o.set) # Absent
           /\ \A f \in DOMAIN o.set : Merge(c, o.set)[f] = o.set[f]
<1>1. PICK F \in SUBSET Fields : o.set \in [F -> Values]
  BY DEF Ops
<1>2. \A f \in DOMAIN o.set : f \in Fields
  BY <1>1
<1> QED BY <1>2, MergeType, AbsentIsNothing DEF Merge

(* A request gets to its audit entry by a step that fulfils it.              *)
LEMMA Fulfilling ==
    ASSUME Places, NEW p \in Requests, Arrive(p) \/ Step(p), pc[p] # "audit", pc'[p] = "audit"
    PROVE  Fulfils(p)
<1>0. /\ TypeOK /\ ServerOK /\ RequestsOK /\ pc \in [Requests -> States] /\ Placed(p) /\ op' = op
      /\ op[p] \in Ops /\ Offered(op[p]) /\ op[p].n \in Nat /\ op[p].on \in Resources
      /\ op[p].kind \in {"purge", "publish", "replay", "deleteMessage"} => op[p].on \in Streams
  BY OthersStay, OpType, TypeParts, ClassesAreDistinct DEF Places, Ops, Offered
<1>a. \A c \in Contents : /\ Merge(c, op[p].set) # Absent
                         /\ \A f \in DOMAIN op[p].set : Merge(c, op[p].set)[f] = op[p].set[f]
  BY <1>0, Merged
<1>b. There(op[p].on) => content[op[p].on] \in Contents
  BY <1>0 DEF ServerOK, There
<1>1. CASE Arrive(p)
  <2>1. pc[p] = "idle" /\ First(op[p]) = "audit" /\ UNCHANGED results
    BY <1>0, <1>1 DEF Arrive, Settle
  <2>2. op[p].kind = "publish" /\ op[p].n = 0 /\ results'[p] = <<>>
    BY <1>0, <2>1, FirstPlace DEF Placed
  <2> QED BY <2>2 DEF Fulfils, Size
<1>2. CASE Create(p)
  <2>1. op[p].kind = "create" /\ Merge(Blank, op[p].set) # Absent
    BY <1>2, <1>a, BlankType DEF Create, At
  <2>2. content'[op[p].on] = Merge(Blank, op[p].set)
    <3>1. CASE Make(op[p].on, Merge(Blank, op[p].set))
      BY <1>0, <3>1 DEF Make, ServerOK
    <3>2. CASE content[op[p].on] = Merge(Blank, op[p].set) /\ UNCHANGED server
      BY <3>2 DEF server
    <3> QED BY <1>2, <3>1, <3>2 DEF Create, AddResource
  <2> QED BY <1>0, <2>1, <2>2 DEF Fulfils, There
<1>3. CASE Open(p)
  <2>1. op[p].kind = "create" /\ op[p].on \in Views
    BY <1>0, <1>3 DEF Open, At, Placed
  <2>2. content'[op[p].on] # Absent
    <3>1. CASE There(op[p].on)
      BY <1>3, <3>1 DEF Open, OpenOrMake, There, server
    <3>2. CASE ~There(op[p].on)
      <4>1. content'[op[p].on] = Blank
        BY <1>0, <1>3, <3>2 DEF Open, OpenOrMake, Make, ServerOK
      <4> QED BY <4>1, BlankType, AbsentIsNothing
    <3> QED BY <3>1, <3>2
  <2> QED BY <1>0, <2>1, <2>2 DEF Fulfils, There
<1>4. CASE Update(p) \/ Put(p) \/ Clear(p)
  <2>1. op[p].kind \in {"update", "put", "clear"} /\ There(op[p].on)
    BY <1>4 DEF Update, Put, Clear, At
  <2>2. \E c \in Contents : content'[op[p].on] = Merge(c, op[p].set)
    <3>1. seen[p].config \in Contents
      BY <1>0 DEF RequestsOK, Snapshot
    <3>2. ASSUME NEW c \in Contents, Replace(op[p].on, Merge(c, op[p].set))
          PROVE  content'[op[p].on] = Merge(c, op[p].set)
      BY <1>0, <3>2 DEF Replace, ServerOK
    <3>3. CASE Update(p)
      BY <3>1, <3>2, <3>3 DEF Update
    <3>4. CASE Put(p)
      BY <1>b, <2>1, <3>2, <3>4 DEF Put
    <3>5. CASE Clear(p)
      <4>1. \/ Replace(op[p].on, Merge(content[op[p].on], op[p].set))
            \/ Merge(content[op[p].on], op[p].set) = content[op[p].on] /\ UNCHANGED server
        BY <3>5 DEF Clear
      <4>2. CASE UNCHANGED server /\ Merge(content[op[p].on], op[p].set) = content[op[p].on]
        BY <1>b, <2>1, <4>2 DEF server
      <4> QED BY <1>b, <2>1, <3>2, <4>1, <4>2
    <3> QED BY <1>4, <3>3, <3>4, <3>5
  <2> QED BY <1>0, <1>a, <2>1, <2>2 DEF Fulfils, There
<1>5. CASE Delete(p)
  <2>1. op[p].kind = "delete" /\ There(op[p].on) /\ content'[op[p].on] = Absent
    BY <1>0, <1>5 DEF Delete, At, Drop
  <2> QED BY <1>0, <2>1 DEF Fulfils, There
<1>6. CASE Purge(p)
  <2>1. op[p].kind = "purge" /\ op[p].on \in Streams
    BY <1>0, <1>6 DEF Purge, At
  <2>2. gone'[op[p].on] = gone[op[p].on] \cup DOMAIN log[op[p].on]
    BY <1>0, <1>6, <2>1 DEF Purge, Erase, ServerOK
  <2> QED BY <1>0, <2>1, <2>2 DEF Fulfils
<1>7. CASE DeleteMessage(p)
  <2>1. op[p].kind = "deleteMessage" /\ op[p].on \in Streams /\ op[p].n \notin gone[op[p].on]
    BY <1>0, <1>7 DEF DeleteMessage, At, Stored
  <2>2. gone'[op[p].on] = gone[op[p].on] \cup {op[p].n}
    BY <1>0, <1>7, <2>1 DEF DeleteMessage, Erase, ServerOK
  <2> QED BY <1>0, <2>1, <2>2 DEF Fulfils
<1>8. CASE Publish(p)
  <2>1. op[p].kind \in {"publish", "replay"} /\ results[p] \in Seq(Nat \ {0})
    BY <1>0, <1>8 DEF Publish, At, RequestsOK
  <2>2. /\ results' = [results EXCEPT ![p] = Append(@, Len(log[op[p].on]) + 1)]
        /\ Len(results[p]) + 1 = Size(op[p])
    BY <1>0, <1>8 DEF Publish, Settle
  <2>3. Len(results'[p]) = Size(op[p])
    BY <1>0, <2>1, <2>2 DEF RequestsOK
  <2> QED BY <1>0, <2>1, <2>3 DEF Fulfils
<1>9. CASE Info(p) \/ InfoObjectStore(p) \/ AddObjectStore(p) \/ Bind(p) \/ Get(p) \/ Read(p)
           \/ DeletedAlready(p) \/ Missing(p) \/ Reject(p) \/ Audit(p)
  BY <1>0, <1>9 DEF Info, InfoObjectStore, AddObjectStore, AddResource, Bind, Get, Read, DeletedAlready,
         Missing, Reject, Audit, Settle
<1> QED BY <1>1, <1>2, <1>3, <1>4, <1>5, <1>6, <1>7, <1>8, <1>9 DEF Step

AuditTellsOf(p) ==
    /\ pc[p] # "audit" /\ pc'[p] = "audit" => Fulfils(p)
    /\ p \in audit' \ audit => pc[p] = "audit"
    /\ pc'[p] = "ok" => p \in audit' \cup unwritten' \/ op[p].kind = "read"

(* A request comes to its audit entry only by a step that left the server    *)
(* with all it asks for, and every answered change has its entry unless the  *)
(* database refused it.                                                      *)
THEOREM AuditTells == Spec => AuditTellsAnswered
<1>1. ASSUME Places, Places', [Next]_vars, NEW p \in Requests PROVE AuditTellsOf(p)
  <2>0. TypeOK /\ pc'[p] = "ok" => p \in audit' \cup unwritten' \/ op'[p].kind = "read"
    BY <1>1 DEF Places, Placed
  <2>1. ASSUME NEW q \in Requests, Arrive(q) \/ Step(q) PROVE AuditTellsOf(p)
    <3>1. TypeOK /\ op' = op /\ (q # p => pc'[p] = pc[p])
      BY <1>1, <2>1, OthersStay DEF Places
    <3>2. q # p => p \notin audit' \ audit
      BY <1>1, <2>1, PlacedStep
    <3>3. p \in audit' \ audit => pc[p] = "audit"
      <4>1. ASSUME q = p, p \in audit' \ audit PROVE Audit(p)
        BY <2>1, <4>1 DEF Arrive, Step, Info, InfoObjectStore, AddObjectStore, Open, Bind, Get, Create,
           Update, Put, Clear, Read, Delete, Purge, Publish, DeleteMessage, DeletedAlready, Missing,
           Reject, trail
      <4> QED BY <3>2, <4>1 DEF Audit
    <3>4. CASE q = p
      BY <1>1, <2>0, <2>1, <3>1, <3>3, <3>4, Fulfilling DEF AuditTellsOf
    <3>5. CASE q # p
      BY <2>0, <3>1, <3>3, <3>5 DEF AuditTellsOf, Places
    <3> QED BY <3>4, <3>5
  <2>2. CASE Crash
    <3>1. UNCHANGED <<op, audit>> /\ (pc'[p] = pc[p] \/ pc'[p] = "dead")
      BY <1>1, <2>2, CrashKeeps DEF Places, trail
    <3> QED BY <1>1, <2>0, <3>1 DEF AuditTellsOf, Places
  <2>3. CASE UNCHANGED vars
    BY <1>1, <2>0, <2>3 DEF AuditTellsOf, Places, vars
  <2> QED BY <1>1, <2>1, <2>2, <2>3 DEF Next
<1>2. Places /\ Places' /\ [Next]_vars =>
        [\A p \in Requests :
            /\ pc[p] # "audit" /\ pc'[p] = "audit" => Fulfils(p)
            /\ p \in audit' \ audit => pc[p] = "audit"
            /\ pc'[p] = "ok" => p \in audit' \cup unwritten' \/ op[p].kind = "read"]_vars
  BY <1>1 DEF AuditTellsOf
<1> QED BY <1>2, PlacesHold, PTL DEF Spec, AuditTellsAnswered

-----------------------------------------------------------------------------
(* What comes into being and what changes.                                   *)

MadeByCreate(n) ==
    ~There(n) /\ content'[n] # Absent =>
        \E p \in Requests : /\ op[p].on = n /\ pc[p] # pc'[p]
                            /\ op[p].kind = "create" \/ n \in ObjectStores

(* Only a create makes a name, or whoever opens an object store.             *)
THEOREM CreatesMake == Spec => OnlyCreatesMake
<1>1. ASSUME Places, [Next]_vars, NEW n \in Resources PROVE MadeByCreate(n)
  <2>0. TypeOK /\ ServerOK
    BY <1>1, TypeParts DEF Places
  <2>1. ASSUME NEW p \in Requests, Arrive(p) \/ Step(p) PROVE MadeByCreate(n)
    <3>0. op[p] \in Ops /\ op[p].on \in Resources /\ Placed(p)
      BY <1>1, <2>0, OpType DEF Ops, Places
    <3>1. CASE Makes(p) /\ pc'[p] # pc[p] /\ CreatesOrBinds(p)
      <4>1. n # op[p].on => content'[n] = content[n]
        BY <2>0, <3>1 DEF Makes, Make, ServerOK
      <4>2. op[p].kind = "create" \/ op[p].on \in ObjectStores
        BY <3>0, <3>1 DEF CreatesOrBinds, Placed, Views
      <4> QED BY <3>1, <4>1, <4>2 DEF MadeByCreate, There
    <3>2. CASE Replaces(p)
      <4>1. There(op[p].on) /\ \A m \in Resources : m # op[p].on => content'[m] = content[m]
        BY <2>0, <3>2 DEF Replaces, Replace, ServerOK
      <4> QED BY <4>1 DEF MadeByCreate, There
    <3>3. CASE Drop(op[p].on)
      BY <2>0, <3>3 DEF Drop, MadeByCreate, There, ServerOK
    <3>4. CASE UNCHANGED server \/ Publish(p) \/ Erases(p)
      <4>1. content' = content
        BY <3>4 DEF server, Publish, Store, Erases, Erase
      <4> QED BY <4>1 DEF MadeByCreate, There
    <3> QED BY <2>0, <2>1, <3>1, <3>2, <3>3, <3>4, Effects
  <2>2. CASE Crash \/ UNCHANGED vars
    BY <2>2 DEF Crash, vars, server, MadeByCreate, There
  <2> QED BY <1>1, <2>1, <2>2 DEF Next
<1>2. Places /\ [Next]_vars =>
        [\A n \in Resources :
            ~There(n) /\ There(n)' =>
                \E p \in Requests :
                    /\ op[p].on = n /\ pc[p] # pc'[p]
                    /\ op[p].kind = "create" \/ n \in ObjectStores]_vars
  BY <1>1 DEF MadeByCreate, There
<1> QED BY <1>2, PlacesHold, PTL DEF Spec, OnlyCreatesMake

-----------------------------------------------------------------------------
(* An update that nobody overtook writes what it read.                       *)

FreshOf(p) ==
    op[p].kind = "update" /\ pc[p] = "call" =>
        /\ seen[p].rev <= rev[op[p].on]
        /\ There(op[p].on) /\ seen[p].rev = rev[op[p].on] => content[op[p].on] = seen[p].config

Fresh == Places /\ \A p \in Requests : FreshOf(p)

LEMMA ToUpdate ==
    ASSUME Places, NEW p \in Requests, Arrive(p) \/ Step(p), op[p].kind = "update", pc'[p] = "call"
    PROVE  Info(p) /\ There(op[p].on)
<1>0. /\ TypeOK /\ pc \in [Requests -> States] /\ Placed(p) /\ op[p] \in Ops /\ Offered(op[p])
      /\ First(op[p]) # "call"
  BY OpType, TypeParts, FirstPlace DEF Places, Ops
<1>1. ~ Arrive(p)
  BY <1>0 DEF Arrive, Settle
<1>2. ~ (InfoObjectStore(p) \/ Open(p) \/ Get(p) \/ AddObjectStore(p) \/ Create(p))
  BY <1>0 DEF InfoObjectStore, Open, Get, AddObjectStore, Create, At, Placed
<1>3. ~ Bind(p)
  BY <1>0, ClassesAreDistinct DEF Bind, Placed, Offered
<1>4. ~ (Update(p) \/ Put(p) \/ Clear(p) \/ Read(p) \/ Delete(p) \/ Purge(p) \/ DeleteMessage(p) \/ Publish(p))
  BY <1>0 DEF Update, Put, Clear, Read, Delete, Purge, DeleteMessage, Publish, At, Settle
<1>5. ~ (DeletedAlready(p) \/ Missing(p) \/ Reject(p) \/ Audit(p))
  BY <1>0 DEF DeletedAlready, Missing, Reject, Audit, At, Settle
<1>6. Info(p)
  BY <1>1, <1>2, <1>3, <1>4, <1>5 DEF Step
<1> QED BY <1>0, <1>6 DEF Info, Settle

LEMMA FreshStep == Fresh /\ [Next]_vars => Fresh'
<1> SUFFICES ASSUME Fresh, [Next]_vars PROVE Fresh'
  OBVIOUS
<1>0. Places /\ Places' /\ TypeOK /\ ServerOK /\ RequestsOK
  BY PlacesStep, TypeParts DEF Fresh, Places
<1>1. ASSUME NEW p \in Requests, Arrive(p) \/ Step(p), NEW q \in Requests PROVE FreshOf(q)'
  <2>0. op[q] \in Ops /\ op[q].on \in Resources /\ op' = op /\ seen[q].rev \in Nat
        /\ rev[op[q].on] \in Nat
    BY <1>0, <1>1, OpType, OthersStay DEF Ops, RequestsOK, ServerOK, Snapshot
  <2>1. \/ content'[op[q].on] = content[op[q].on] /\ rev'[op[q].on] = rev[op[q].on]
        \/ rev'[op[q].on] = rev[op[q].on] + 1
    BY <1>0, <1>1, <2>0, Grows
  <2>2. CASE q # p
    <3>1. pc'[q] = pc[q] /\ seen'[q] = seen[q]
      BY <1>0, <1>1, <2>2, OthersStay
    <3>2. FreshOf(q)
      BY DEF Fresh
    <3>3. CASE content'[op[q].on] = content[op[q].on] /\ rev'[op[q].on] = rev[op[q].on]
      BY <2>0, <3>1, <3>2, <3>3 DEF FreshOf, There
    <3>4. CASE rev'[op[q].on] = rev[op[q].on] + 1
      BY <2>0, <3>1, <3>2, <3>4 DEF FreshOf
    <3> QED BY <2>1, <3>3, <3>4
  <2>3. CASE q = p /\ op[p].kind = "update" /\ pc'[p] = "call"
    <3>1. Info(p) /\ There(op[p].on)
      BY <1>0, <1>1, <2>3, ToUpdate
    <3>2. /\ seen'[p] = [config |-> content[op[p].on], rev |-> rev[op[p].on]]
          /\ content' = content /\ rev' = rev
      BY <1>0, <3>1 DEF Info, RequestsOK, server
    <3> QED BY <2>0, <2>3, <3>2 DEF FreshOf, There
  <2> QED BY <2>0, <2>2, <2>3 DEF FreshOf
<1>2. ASSUME Crash, NEW q \in Requests PROVE FreshOf(q)'
  <2>1. /\ UNCHANGED <<content, rev, op, seen>>
        /\ pc'[q] = pc[q] \/ pc'[q] = "dead"
    BY <1>0, <1>2, CrashKeeps DEF server
  <2> QED BY <2>1 DEF Fresh, FreshOf, There
<1>3. ASSUME UNCHANGED vars, NEW q \in Requests PROVE FreshOf(q)'
  BY <1>3 DEF vars, Fresh, FreshOf, There
<1> QED BY <1>0, <1>1, <1>2, <1>3 DEF Fresh, Next

ChangedByName(n, f) ==
    There(n) /\ content'[n] # Absent /\ content[n][f] # content'[n][f] =>
        \E p \in Requests :
            /\ op[p].on = n /\ pc[p] # pc'[p]
            /\ f \in DOMAIN op[p].set \/ (op[p].kind = "update" /\ seen[p].rev # rev[n])

(* A field changes only for a request that names it, or for an update that   *)
(* was overtaken.                                                            *)
THEOREM KeepFields == Spec => OthersKeepTheirFields
<1>1. ASSUME Fresh, [Next]_vars, NEW n \in Resources, NEW f \in Fields PROVE ChangedByName(n, f)
  <2>0. TypeOK /\ ServerOK
    BY <1>1, TypeParts DEF Fresh, Places
  <2>1. ASSUME NEW p \in Requests, Arrive(p) \/ Step(p) PROVE ChangedByName(n, f)
    <3>0. op[p] \in Ops /\ op[p].on \in Resources /\ FreshOf(p)
      BY <1>1, <2>0, OpType DEF Ops, Fresh
    <3>1. CASE Makes(p)
      <4>1. ~There(op[p].on) /\ (n # op[p].on => content'[n] = content[n])
        BY <2>0, <3>1 DEF Makes, Make, ServerOK
      <4> QED BY <4>1 DEF ChangedByName
    <3>2. CASE Replaces(p) /\ pc'[p] # pc[p]
      <4>1. CASE n # op[p].on
        <5>1. content'[n] = content[n]
          BY <2>0, <3>2, <4>1 DEF Replaces, Replace, ServerOK
        <5> QED BY <5>1 DEF ChangedByName
      <4>2. CASE n = op[p].on /\ f \in DOMAIN op[p].set
        BY <3>2, <4>2 DEF ChangedByName
      <4>3. CASE n = op[p].on /\ f \notin DOMAIN op[p].set
        <5>1. CASE content' = [content EXCEPT ![n] = Merge(content[n], op[p].set)]
          <6>1. content'[n][f] = content[n][f]
            BY <2>0, <4>3, <5>1 DEF ServerOK, Merge
          <6> QED BY <6>1 DEF ChangedByName
        <5>2. CASE /\ op[p].kind = "update" /\ pc[p] = "call"
                   /\ content' = [content EXCEPT ![n] = Merge(seen[p].config, op[p].set)]
          <6>1. content'[n][f] = seen[p].config[f]
            BY <2>0, <4>3, <5>2 DEF ServerOK, Merge
          <6> QED BY <3>0, <3>2, <4>3, <5>2, <6>1 DEF ChangedByName, FreshOf
        <5> QED BY <3>2, <4>3, <5>1, <5>2 DEF Replaces, Replace
      <4> QED BY <4>1, <4>2, <4>3
    <3>3. CASE Drop(op[p].on)
      <4>1. content'[n] \in {Absent, content[n]}
        BY <2>0, <3>3 DEF Drop, ServerOK
      <4> QED BY <4>1 DEF ChangedByName
    <3>4. CASE UNCHANGED server \/ Publish(p) \/ Erases(p)
      <4>1. content' = content
        BY <3>4 DEF server, Publish, Store, Erases, Erase
      <4> QED BY <4>1 DEF ChangedByName
    <3> QED BY <2>0, <2>1, <3>1, <3>2, <3>3, <3>4, Effects
  <2>2. CASE Crash \/ UNCHANGED vars
    BY <2>2 DEF Crash, vars, server, ChangedByName
  <2> QED BY <1>1, <2>1, <2>2 DEF Next
<1>2. Fresh /\ [Next]_vars =>
        [\A n \in Resources, f \in Fields :
            There(n) /\ There(n)' /\ content[n][f] # content'[n][f] =>
                \E p \in Requests :
                    /\ op[p].on = n /\ pc[p] # pc'[p]
                    /\ f \in DOMAIN op[p].set \/ (op[p].kind = "update" /\ seen[p].rev # rev[n])]_vars
  BY <1>1 DEF ChangedByName, There
<1>3. Init /\ Places => Fresh
  BY DEF Init, Fresh, FreshOf
<1> QED BY <1>2, <1>3, FreshStep, PlacesHold, PTL DEF Spec, OthersKeepTheirFields

-----------------------------------------------------------------------------
(* Deletes of one message.                                                   *)

Exists1(n) == There(n) => made[n] >= 1

DeletedOf(p) ==
    op[p].kind = "deleteMessage" /\ Done(p) =>
        /\ made[op[p].on] >= 1
        /\ made[op[p].on] <= 1 => op[p].n \in gone[op[p].on]

Alone(p, q) ==
    /\ op[p].kind = "deleteMessage" /\ Done(p) /\ made[op[p].on] <= 1
    /\ op[q] = op[p] /\ Done(q)
    => p = q

Deletes ==
    /\ Places
    /\ \A n \in Resources : Exists1(n)
    /\ \A p \in Requests : DeletedOf(p)
    /\ \A p, q \in Requests : Alone(p, q)

LEMMA ToDone ==
    ASSUME Places, NEW p \in Requests, Arrive(p) \/ Step(p), op[p].kind = "deleteMessage",
           pc'[p] \in {"audit", "ok"}, ~Done(p)
    PROVE  DeleteMessage(p)
<1>0. /\ TypeOK /\ pc \in [Requests -> States] /\ Placed(p) /\ op[p] \in Ops /\ Offered(op[p])
      /\ First(op[p]) \notin {"audit", "ok"}
  BY OpType, TypeParts, FirstPlace DEF Places, Ops
<1>1. ~ Arrive(p)
  BY <1>0 DEF Arrive, Settle
<1>2. ~ (Info(p) \/ InfoObjectStore(p) \/ Open(p) \/ AddObjectStore(p) \/ Create(p))
  BY <1>0 DEF Info, InfoObjectStore, Open, AddObjectStore, Create, At
<1>3. ~ (Bind(p) \/ Get(p))
  BY <1>0 DEF Bind, Get, Settle
<1>4. ~ (Update(p) \/ Put(p) \/ Clear(p) \/ Read(p) \/ Delete(p) \/ Purge(p) \/ Publish(p))
  BY <1>0 DEF Update, Put, Clear, Read, Delete, Purge, Publish, At
<1>5. ~ (DeletedAlready(p) \/ Missing(p) \/ Reject(p) \/ Audit(p))
  BY <1>0 DEF DeletedAlready, Missing, Reject, Audit, At, Settle, Done
<1> QED BY <1>1, <1>2, <1>3, <1>4, <1>5 DEF Step

LEMMA DeletesStep == Deletes /\ [Next]_vars => Deletes'
<1> SUFFICES ASSUME Deletes, [Next]_vars PROVE Deletes'
  OBVIOUS
<1>0. Places /\ Places' /\ TypeOK /\ ServerOK /\ pc \in [Requests -> States]
  BY PlacesStep, TypeParts DEF Deletes, Places
<1>1. ASSUME NEW p \in Requests, Arrive(p) \/ Step(p) PROVE Deletes'
  <2>0. /\ op' = op
        /\ \A q \in Requests \ {p} : pc'[q] = pc[q]
        /\ Streams \subseteq Resources
    BY <1>0, <1>1, OthersStay DEF Resources
  <2>1. ASSUME NEW n \in Resources PROVE Exists1(n)'
    <3>1. /\ made[n] \in Nat
          /\ made'[n] \in {made[n], made[n] + 1}
          /\ content'[n] # Absent /\ content[n] = Absent => made'[n] = made[n] + 1
      BY <1>0, <1>1, Grows DEF ServerOK
    <3> QED BY <3>1 DEF Deletes, Exists1, There
  <2>2. ASSUME NEW q \in Requests, op[q].kind = "deleteMessage"
        PROVE  /\ op[q].on \in Streams /\ made[op[q].on] \in Nat
               /\ made'[op[q].on] \in {made[op[q].on], made[op[q].on] + 1}
               /\ made'[op[q].on] = made[op[q].on] => gone[op[q].on] \subseteq gone'[op[q].on]
    <3>1. op[q].on \in Streams
      BY <1>0, <2>2, OpType, ClassesAreDistinct DEF Ops, Offered
    <3> QED BY <1>0, <1>1, <2>0, <3>1, Grows DEF ServerOK
  <2>3. CASE op[p].kind = "deleteMessage" /\ pc'[p] \in {"audit", "ok"} /\ ~Done(p)
    <3>1. DeleteMessage(p)
      BY <1>0, <1>1, <2>3, ToDone
    <3>2. op[p].on \in Streams /\ There(op[p].on) /\ op[p].n \notin gone[op[p].on]
      BY <2>2, <2>3, <3>1 DEF DeleteMessage, Stored
    <3>3. /\ gone'[op[p].on] = gone[op[p].on] \cup {op[p].n} /\ made' = made
          /\ made[op[p].on] >= 1
      BY <1>0, <2>0, <3>1, <3>2 DEF DeleteMessage, Erase, ServerOK, Deletes, Exists1
    <3>4. ASSUME NEW q \in Requests PROVE DeletedOf(q)'
      <4>1. CASE q = p
        BY <2>0, <3>3, <4>1 DEF DeletedOf
      <4>2. CASE q # p
        BY <2>0, <2>2, <3>3, <4>2 DEF Deletes, DeletedOf, Done
      <4> QED BY <4>1, <4>2
    <3>5. ASSUME NEW q \in Requests, q # p, op[q] = op[p], made[op[p].on] <= 1 PROVE ~Done(q)
      BY <2>3, <3>2, <3>5 DEF Deletes, DeletedOf
    <3>6. ASSUME NEW q \in Requests, NEW r \in Requests PROVE Alone(q, r)'
      <4>1. CASE q # p /\ r # p
        BY <2>0, <3>3, <4>1 DEF Deletes, Alone, Done
      <4>2. CASE q = p \/ r = p
        BY <2>0, <3>3, <3>5, <4>2 DEF Alone, Done
      <4> QED BY <4>1, <4>2
    <3> QED BY <1>0, <2>1, <3>4, <3>6 DEF Deletes
  <2>4. CASE ~ (op[p].kind = "deleteMessage" /\ pc'[p] \in {"audit", "ok"} /\ ~Done(p))
    <3>1. ASSUME NEW q \in Requests, op[q].kind = "deleteMessage", Done(q)' PROVE Done(q)
      BY <2>0, <2>4, <3>1 DEF Done
    <3>2. ASSUME NEW q \in Requests PROVE DeletedOf(q)'
      <4>1. CASE op[q].kind = "deleteMessage" /\ Done(q)'
        <5>1. DeletedOf(q) /\ Done(q)
          BY <3>1, <4>1 DEF Deletes
        <5>2. made[op[q].on] >= 1 /\ (made[op[q].on] <= 1 => op[q].n \in gone[op[q].on])
          BY <4>1, <5>1 DEF DeletedOf
        <5> QED BY <2>0, <2>2, <4>1, <5>2 DEF DeletedOf
      <4>2. CASE ~ (op[q].kind = "deleteMessage" /\ Done(q)')
        BY <2>0, <4>2 DEF DeletedOf
      <4> QED BY <4>1, <4>2
    <3>3. ASSUME NEW q \in Requests, NEW r \in Requests PROVE Alone(q, r)'
      <4>1. SUFFICES ASSUME op[q].kind = "deleteMessage", Done(q)', made'[op[q].on] <= 1,
                            op[r] = op[q], Done(r)'
                     PROVE  q = r
        BY <2>0 DEF Alone
      <4>2. Done(q) /\ Done(r) /\ made[op[q].on] <= 1
        BY <2>2, <3>1, <4>1
      <4> QED BY <4>1, <4>2 DEF Deletes, Alone
    <3> QED BY <1>0, <2>1, <3>2, <3>3 DEF Deletes
  <2> QED BY <2>3, <2>4
<1>2. CASE Crash
  <2>1. /\ UNCHANGED <<content, gone, made, op>>
        /\ \A q \in Requests : pc'[q] = pc[q] \/ (pc'[q] = "dead" /\ pc[q] # "ok")
    BY <1>0, <1>2, CrashKeeps DEF server
  <2>2. ASSUME NEW q \in Requests, Done(q)' PROVE Done(q)
    BY <2>1, <2>2 DEF Done
  <2>3. ASSUME NEW q \in Requests PROVE DeletedOf(q)'
    BY <2>1, <2>2 DEF Deletes, DeletedOf
  <2>4. ASSUME NEW q \in Requests, NEW r \in Requests PROVE Alone(q, r)'
    BY <2>1, <2>2 DEF Deletes, Alone
  <2> QED BY <1>0, <2>1, <2>3, <2>4 DEF Deletes, Exists1, There
<1>3. CASE UNCHANGED vars
  <2>1. UNCHANGED <<content, gone, made, op, pc>>
    BY <1>3 DEF vars
  <2> QED BY <1>0, <2>1 DEF Deletes, Exists1, There, DeletedOf, Alone, Done
<1> QED BY <1>1, <1>2, <1>3 DEF Next

LEMMA DeletesInit == ASSUME Init, Places PROVE Deletes
<1>1. \A n \in Resources : Exists1(n)
  BY DEF Init, Exists1, There
<1> QED BY <1>1 DEF Init, Deletes, DeletedOf, Alone, Done

(* At most one delete of a message reports success, and then it is gone.     *)
THEOREM DeletedOnce == Spec => []MessageDeletedOnce
<1>1. Init /\ Places => Deletes
  BY DeletesInit
<1>2. Deletes => MessageDeletedOnce
  <2> SUFFICES ASSUME Deletes PROVE MessageDeletedOnce
    OBVIOUS
  <2>1. ASSUME NEW p \in Requests, NEW q \in Requests,
               op[p].kind = "deleteMessage", Done(p), made[op[p].on] <= 1, op[q] = op[p], Done(q)
        PROVE  p = q /\ op[p].n \in gone[op[p].on]
    BY <2>1 DEF Deletes, DeletedOf, Alone
  <2> QED BY <2>1 DEF MessageDeletedOnce
<1> QED BY <1>1, <1>2, DeletesStep, PlacesHold, PTL DEF Spec

-----------------------------------------------------------------------------
(* Batches.  Between its publishes a request has as many messages in the log *)
(* as it has results; one that failed may have one more.                     *)

Mine(l, p) == {i \in DOMAIN l : l[i].by = p}

\* The log l holds a prefix of p's batch, where the results r say, and at most
\* extra messages more.
Prefix(l, r, p, size, extra) ==
    /\ \A i \in DOMAIN r : r[i] \in Mine(l, p) /\ l[r[i]].nth = i
    /\ \A i \in Mine(l, p) : l[i].nth <= Len(r) + extra /\ l[i].nth <= size
    /\ \A i, j \in Mine(l, p) : i < j => l[i].nth < l[j].nth

LEMMA Longer ==
    ASSUME NEW l \in Seq(Message), NEW m \in Message
    PROVE  /\ DOMAIN Append(l, m) = 1..Len(l) + 1 /\ DOMAIN l = 1..Len(l) /\ Len(l) \in Nat
           /\ Append(l, m)[Len(l) + 1] = m
           /\ \A i \in DOMAIN l : Append(l, m)[i] = l[i]
OBVIOUS

LEMMA AnothersMessage ==
    ASSUME NEW p \in Requests, NEW l \in Seq(Message), NEW r, NEW size, NEW extra,
           NEW m \in Message, m.by # p, Prefix(l, r, p, size, extra)
    PROVE  Prefix(Append(l, m), r, p, size, extra)
<1>1. Mine(Append(l, m), p) = Mine(l, p) /\ Mine(l, p) \subseteq DOMAIN l
  BY Longer DEF Mine
<1>2. \A i \in Mine(l, p) : Append(l, m)[i] = l[i]
  BY Longer, <1>1
<1> QED BY <1>1, <1>2 DEF Prefix

LEMMA OwnMessage ==
    ASSUME NEW p \in Requests, NEW l \in Seq(Message), NEW r \in Seq(Nat \ {0}), NEW size \in Nat,
           NEW m \in Message, m.by = p, m.nth = Len(r) + 1, m.nth <= size, Prefix(l, r, p, size, 0)
    PROVE  /\ Prefix(Append(l, m), Append(r, Len(l) + 1), p, size, 0)
           /\ Prefix(Append(l, m), r, p, size, 1)
<1> PICK t : t = Append(l, m)
  OBVIOUS
<1>1. /\ Mine(t, p) = Mine(l, p) \cup {Len(l) + 1} /\ Mine(l, p) \subseteq 1..Len(l)
      /\ Len(l) \in Nat /\ t[Len(l) + 1].nth = Len(r) + 1
  BY Longer DEF Mine
<1>2. \A i \in Mine(l, p) : t[i] = l[i] /\ l[i].nth \in Nat /\ i \in Nat
  <2>1. \A i \in DOMAIN l : l[i] \in Message /\ i \in Nat
    OBVIOUS
  <2>2. \A i \in DOMAIN l : l[i].nth \in Nat
    BY <2>1 DEF Message
  <2>3. DOMAIN l = 1..Len(l) /\ \A i \in DOMAIN l : t[i] = l[i]
    BY Longer
  <2> QED BY <1>1, <2>1, <2>2, <2>3
<1>3. \A i \in Mine(l, p) : l[i].nth <= Len(r) /\ l[i].nth <= size
  <2>1. Len(r) \in Nat /\ Len(r) + 0 = Len(r)
    OBVIOUS
  <2> QED BY <1>2, <2>1 DEF Prefix
<1>4. ASSUME NEW i \in Mine(t, p), NEW j \in Mine(t, p), i < j PROVE t[i].nth < t[j].nth
  <2>1. i \in Mine(l, p)
    BY <1>1, <1>2, <1>4
  <2>2. CASE j \in Mine(l, p)
    BY <1>2, <1>4, <2>1, <2>2 DEF Prefix
  <2>3. CASE j = Len(l) + 1
    BY <1>1, <1>2, <1>3, <2>1, <2>3
  <2> QED BY <1>1, <1>4, <2>2, <2>3
<1>5. \A i \in Mine(t, p) : t[i].nth <= Len(r) + 1 /\ t[i].nth <= size
  BY <1>1, <1>2, <1>3
<1>6. Prefix(t, r, p, size, 1)
  <2>1. \A i \in DOMAIN r : r[i] \in Mine(t, p) /\ t[r[i]].nth = i
    BY <1>1, <1>2 DEF Prefix
  <2> QED BY <1>4, <1>5, <2>1 DEF Prefix
<1>7. Prefix(t, Append(r, Len(l) + 1), p, size, 0)
  <2> PICK s : s = Append(r, Len(l) + 1)
    OBVIOUS
  <2>1. /\ Len(s) = Len(r) + 1 /\ Len(r) \in Nat /\ DOMAIN s = DOMAIN r \cup {Len(r) + 1}
        /\ s[Len(r) + 1] = Len(l) + 1 /\ \A i \in DOMAIN r : s[i] = r[i]
    <3>1. Len(l) + 1 \in Nat \ {0}
      BY <1>1
    <3>2. Len(r) \in Nat /\ DOMAIN r = 1..Len(r)
      OBVIOUS
    <3>3. Len(s) = Len(r) + 1 /\ DOMAIN s = 1..Len(r) + 1
      BY <3>1, <3>2
    <3>4. s[Len(r) + 1] = Len(l) + 1 /\ \A i \in DOMAIN r : s[i] = r[i]
      BY <3>1, <3>2
    <3> QED BY <3>2, <3>3, <3>4
  <2>2. \A i \in DOMAIN s : s[i] \in Mine(t, p) /\ t[s[i]].nth = i
    <3>1. \A i \in DOMAIN r : r[i] \in Mine(t, p) /\ t[r[i]].nth = i
      BY <1>6 DEF Prefix
    <3> QED BY <1>1, <2>1, <3>1
  <2>3. \A i \in Mine(t, p) : t[i].nth <= Len(s) + 0 /\ t[i].nth <= size
    <3>1. Len(s) + 0 = Len(r) + 1
      BY <2>1
    <3> QED BY <1>5, <3>1
  <2> QED BY <1>4, <2>2, <2>3 DEF Prefix
<1> QED BY <1>6, <1>7

LEMMA Slacken ==
    ASSUME NEW p \in Requests, NEW l \in Seq(Message), NEW r \in Seq(Nat \ {0}), NEW size \in Nat,
           Prefix(l, r, p, size, 0)
    PROVE  Prefix(l, r, p, size, 1)
<1>1. Len(r) \in Nat
  OBVIOUS
<1>2. \A i \in DOMAIN l : l[i].nth \in Nat
  <2>1. \A i \in DOMAIN l : l[i] \in Message
    OBVIOUS
  <2> QED BY <2>1 DEF Message
<1>3. \A i \in Mine(l, p) : l[i].nth <= Len(r) + 1
  BY <1>1, <1>2 DEF Mine, Prefix
<1> QED BY <1>3 DEF Prefix

Publishes(p) == op[p].kind \in {"publish", "replay"}
Extra(p)     == IF pc[p] \in {"error", "dead"} THEN 1 ELSE 0
InOrder(p)   == Prefix(log[op[p].on], results[p], p, Size(op[p]), Extra(p))

\* Nothing was ever stored under a name that never was.
NeverBefore(p) == made[op[p].on] = 0 => log[op[p].on] = <<>> /\ results[p] = <<>>

BatchOf(p) == Publishes(p) => NeverBefore(p) /\ (made[op[p].on] <= 1 => InOrder(p))

Batches == Deletes /\ \A p \in Requests : BatchOf(p)

LEMMA OnlyPublishes ==
    ASSUME TypeOK, NEW p \in Requests, Arrive(p) \/ Step(p)
    PROVE  /\ pc[p] \notin {"error", "dead"}
           /\ Publish(p) \/ results' = results
<1>1. CASE Publish(p)
  BY <1>1 DEF Publish, At
<1>2. CASE Arrive(p) \/ Info(p) \/ InfoObjectStore(p) \/ Get(p) \/ Open(p) \/ Bind(p)
  BY <1>2 DEF Arrive, Info, InfoObjectStore, Get, Open, Bind, At
<1>3. CASE AddObjectStore(p) \/ Create(p) \/ DeletedAlready(p) \/ Missing(p) \/ Reject(p) \/ Audit(p)
  BY <1>3 DEF AddObjectStore, Create, DeletedAlready, Missing, Reject, Audit, At, Calling
<1>4. CASE Update(p) \/ Put(p) \/ Clear(p) \/ Read(p) \/ Delete(p) \/ Purge(p) \/ DeleteMessage(p)
  BY <1>4 DEF Update, Put, Clear, Read, Delete, Purge, DeleteMessage, At
<1> QED BY <1>1, <1>2, <1>3, <1>4 DEF Step

LEMMA Remade ==
    ASSUME TypeOK, NEW p \in Requests, Arrive(p) \/ Step(p), NEW s \in Streams, made'[s] # made[s]
    PROVE  log'[s] = <<>> /\ ~Publish(p)
<1>0. ServerOK /\ op[p].on \in Resources
  BY OpType, TypeParts DEF Ops
<1>1. CASE Makes(p)
  <2>1. made' = [made EXCEPT ![op[p].on] = @ + 1]
    BY <1>1 DEF Makes, Make
  <2>2. s = op[p].on
    BY <1>0, <2>1 DEF ServerOK, Resources
  <2>3. log' = [log EXCEPT ![s] = <<>>]
    BY <1>1, <2>2 DEF Makes, Make
  <2>4. ~Publish(p)
    BY <1>1 DEF Makes, Publish
  <2> QED BY <1>0, <2>3, <2>4 DEF ServerOK
<1>2. CASE Replaces(p) \/ Drop(op[p].on) \/ Publish(p) \/ Erases(p) \/ UNCHANGED server
  BY <1>2 DEF Replaces, Replace, Drop, Publish, Store, Erases, Erase, server
<1> QED BY <1>1, <1>2, Effects

LEMMA StreamType ==
    ASSUME TypeOK, NEW p \in Requests, Publishes(p)
    PROVE  /\ op[p].on \in Streams /\ op[p].on \in Resources
           /\ log[op[p].on] \in Seq(Message) /\ results[p] \in Seq(Nat \ {0})
           /\ Size(op[p]) \in Nat /\ made[op[p].on] \in Nat
<1>1. op[p] \in Ops /\ op[p].on \in Streams
  BY OpType, ClassesAreDistinct DEF Publishes, Ops, Offered
<1> QED BY <1>1 DEF TypeOK, Ops, Size, Resources

LEMMA BatchKept ==
    ASSUME TypeOK, NEW q \in Requests, BatchOf(q), op' = op,
           Publishes(q) => UNCHANGED <<log[op[q].on], made[op[q].on], results[q]>>,
           pc[q] \in {"error", "dead"} => pc'[q] \in {"error", "dead"}
    PROVE  BatchOf(q)'
<1> SUFFICES ASSUME Publishes(q) PROVE BatchOf(q)'
  BY DEF BatchOf, Publishes
<1>1. NeverBefore(q)'
  BY DEF BatchOf, NeverBefore
<1>2. ASSUME made'[op'[q].on] <= 1 PROVE InOrder(q)'
  <2>1. InOrder(q)
    BY <1>2 DEF BatchOf
  <2>2. Extra(q)' = Extra(q) \/ (Extra(q) = 0 /\ Extra(q)' = 1)
    BY DEF Extra
  <2> QED BY <2>1, <2>2, StreamType, Slacken DEF InOrder
<1> QED BY <1>1, <1>2 DEF BatchOf

LEMMA BatchStep ==
    ASSUME Batches, NEW p \in Requests, Arrive(p) \/ Step(p), NEW q \in Requests
    PROVE  BatchOf(q)'
<1>0. /\ TypeOK /\ TypeOK' /\ BatchOf(q) /\ op' = op
      /\ \A r \in Requests \ {p} : pc'[r] = pc[r] /\ results'[r] = results[r]
  BY TypeStep, OthersStay DEF Batches, Deletes, Places, Next
<1>1. CASE ~Publishes(q)
  BY <1>0, <1>1 DEF BatchOf, Publishes
<1>2. CASE Publishes(q) /\ made'[op[q].on] # made[op[q].on]
  <2>1. op[q].on \in Streams /\ made[op[q].on] \in Nat /\ made'[op[q].on] = made[op[q].on] + 1
    BY <1>0, <1>2, StreamType, Grows
  <2>2. log'[op[q].on] = <<>> /\ results' = results
    BY <1>0, <1>2, <2>1, Remade, OnlyPublishes
  <2>3. ASSUME made'[op[q].on] <= 1 PROVE InOrder(q)'
    <3>1. results'[q] = <<>>
      BY <1>0, <1>2, <2>1, <2>2, <2>3 DEF BatchOf, NeverBefore
    <3> QED BY <1>0, <2>2, <3>1 DEF InOrder, Prefix, Mine
  <2> QED BY <1>0, <2>1, <2>3 DEF BatchOf, NeverBefore
<1>3. CASE Publishes(q) /\ made'[op[q].on] = made[op[q].on] /\ ~Publish(p)
  <2>1. log'[op[q].on] = log[op[q].on] /\ results' = results
    BY <1>0, <1>3, StreamType, Grows, OnlyPublishes
  <2>2. pc[q] \in {"error", "dead"} => pc'[q] \in {"error", "dead"}
    BY <1>0, OnlyPublishes
  <2> QED BY <1>0, <1>3, <2>1, <2>2, BatchKept
<1>4. CASE Publishes(q) /\ made'[op[q].on] = made[op[q].on] /\ Publish(p) /\ q # p
  <2> PICK s : s = op[q].on
    OBVIOUS
  <2> PICK m : m = [by |-> p, nth |-> Len(results[p]) + 1]
    OBVIOUS
  <2>1. /\ s \in Streams /\ s \in Resources /\ m.by # q
        /\ log[s] \in Seq(Message) /\ made[s] \in Nat /\ results'[q] = results[q] /\ pc'[q] = pc[q]
    BY <1>0, <1>4, StreamType
  <2>2. m \in Message
    BY <1>0 DEF TypeOK, Message
  <2>3. log'[s] = log[s] \/ (s = op[p].on /\ log'[s] = Append(log[s], m))
    BY <1>0, <1>4, <2>1, Grows
  <2>4. CASE log'[s] = log[s]
    BY <1>0, <1>4, <2>1, <2>4, BatchKept
  <2>5. CASE s = op[p].on /\ log'[s] = Append(log[s], m)
    <3>1. made[s] >= 1
      BY <1>4, <2>1, <2>5 DEF Publish, Batches, Deletes, Exists1
    <3>2. ASSUME made'[s] <= 1 PROVE InOrder(q)'
      <4>1. InOrder(q)
        BY <1>0, <1>4, <3>2 DEF BatchOf
      <4>2. Prefix(Append(log[s], m), results[q], q, Size(op[q]), Extra(q))
        BY <2>1, <2>2, <4>1, AnothersMessage DEF InOrder
      <4> QED BY <1>0, <2>1, <2>5, <4>2 DEF InOrder, Extra
    <3> QED BY <1>0, <1>4, <2>1, <3>1, <3>2 DEF BatchOf, NeverBefore
  <2> QED BY <2>3, <2>4, <2>5
<1>5. CASE Publishes(q) /\ Publish(p) /\ q = p
  <2> PICK s : s = op[p].on
    OBVIOUS
  <2> PICK m : m = [by |-> p, nth |-> Len(results[p]) + 1]
    OBVIOUS
  <2>1. /\ s \in Streams /\ s \in Resources /\ log[s] \in Seq(Message) /\ made[s] \in Nat
        /\ results[p] \in Seq(Nat \ {0}) /\ Size(op[p]) \in Nat /\ pc' \in [Requests -> States]
    BY <1>0, <1>5, StreamType DEF TypeOK, States
  <2>2. m \in Message /\ m.by = p /\ m.nth = Len(results[p]) + 1
    BY <1>0 DEF TypeOK, Message
  <2>3. /\ made[s] >= 1 /\ made' = made /\ m.nth <= Size(op[p]) /\ pc[p] = "call"
        /\ log'[s] = Append(log[s], m)
    BY <1>0, <1>5, <2>1, <2>2 DEF Publish, Store, At, TypeOK, Batches, Deletes, Exists1
  <2>4. \/ results'[p] = Append(results[p], Len(log[s]) + 1) /\ pc'[p] \in {"audit", "call"}
        \/ results'[p] = results[p] /\ pc'[p] = "error"
    <3>1. results \in [Requests -> Seq(Nat \ {0})] /\ pc \in [Requests -> States]
      BY <1>0 DEF TypeOK, States
    <3> QED BY <1>5, <3>1 DEF Publish, Settle
  <2>5. ASSUME made'[s] <= 1 PROVE InOrder(p)'
    <3>1. Prefix(log[s], results[p], p, Size(op[p]), 0)
      BY <1>0, <1>5, <2>3, <2>5 DEF BatchOf, InOrder, Extra
    <3>2. /\ Prefix(log'[s], Append(results[p], Len(log[s]) + 1), p, Size(op[p]), 0)
          /\ Prefix(log'[s], results[p], p, Size(op[p]), 1)
      BY <2>1, <2>2, <2>3, <3>1, OwnMessage
    <3> QED BY <1>0, <2>4, <3>2 DEF InOrder, Extra
  <2> QED BY <1>0, <1>5, <2>1, <2>3, <2>5 DEF BatchOf, NeverBefore
<1>6. Publish(p) => Publishes(p)
  BY DEF Publish, Publishes, At
<1> QED BY <1>1, <1>2, <1>3, <1>4, <1>5

LEMMA BatchesStep == Batches /\ [Next]_vars => Batches'
<1> SUFFICES ASSUME Batches, [Next]_vars PROVE Batches'
  OBVIOUS
<1>0. Deletes' /\ TypeOK
  BY DeletesStep DEF Batches, Deletes, Places
<1>1. ASSUME NEW p \in Requests, Arrive(p) \/ Step(p) PROVE Batches'
  BY <1>0, <1>1, BatchStep DEF Batches
<1>2. ASSUME Crash \/ UNCHANGED vars PROVE Batches'
  <2>1. /\ UNCHANGED <<log, made, results, op>>
        /\ \A q \in Requests : pc'[q] = pc[q] \/ pc'[q] = "dead"
    BY <1>0, <1>2, CrashKeeps DEF server, vars
  <2>2. ASSUME NEW q \in Requests PROVE BatchOf(q)'
    BY <1>0, <2>1, BatchKept DEF Batches
  <2> QED BY <1>0, <2>2 DEF Batches
<1> QED BY <1>1, <1>2 DEF Next

(* A batch is stored in order, in one piece up to where it failed, whatever  *)
(* else is published meanwhile.                                              *)
THEOREM BatchPrefix == Spec => []BatchIsPrefix
<1>1. Init /\ Deletes => Batches
  <2> SUFFICES ASSUME Init, Deletes, NEW p \in Requests, Publishes(p)
               PROVE  NeverBefore(p) /\ InOrder(p)
    BY DEF Batches, BatchOf
  <2>0. TypeOK /\ op[p].on \in Streams /\ op[p].on \in Resources /\ results[p] = <<>>
    BY StreamType DEF Init, Deletes, Places
  <2>1. log[op[p].on] = IF op[p].on \in Existing THEN <<[by |-> Absent, nth |-> 0]>> ELSE <<>>
    BY <2>0 DEF Init
  <2>2. Mine(log[op[p].on], p) = {}
    BY <2>1, AbsentIsNothing DEF Mine
  <2>3. NeverBefore(p)
    BY <2>0, <2>1 DEF Init, NeverBefore
  <2> QED BY <2>0, <2>2, <2>3 DEF InOrder, Prefix
<1>2. Batches => BatchIsPrefix
  <2> SUFFICES ASSUME Batches, NEW p \in Requests, Publishes(p), made[op[p].on] <= 1
               PROVE  Prefix(log[op[p].on], results[p], p, Size(op[p]), 1)
    BY DEF BatchIsPrefix, Publishes, Prefix, Mine
  <2>1. TypeOK /\ InOrder(p)
    BY DEF Batches, BatchOf, Deletes, Places
  <2>2. Extra(p) \in {0, 1}
    BY DEF Extra
  <2> QED BY <2>1, <2>2, StreamType, Slacken DEF InOrder
<1>3. Init /\ Places => Deletes
  BY DeletesInit
<1> QED BY <1>1, <1>2, <1>3, BatchesStep, PlacesHold, PTL DEF Spec
=============================================================================
