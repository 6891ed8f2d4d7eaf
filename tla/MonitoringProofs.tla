---------------------------- MODULE MonitoringProofs ----------------------------
(***************************************************************************)
(* Proofs about Monitoring, for all sets of connections, runs and tails,   *)
(* any number of streams and any timeout.                                  *)
(*                                                                         *)
(* What a run may rely on while it is suspended is what the registry never *)
(* takes back (Stays): an id that left does not return, and a handle that  *)
(* closed stays closed.  Each run then has an invariant of its own         *)
(* (RunInv), that steps of anybody else leave alone (Aside).               *)
(***************************************************************************)
EXTENDS Monitoring, TLAPS

USE RegistryTimeoutIsNat, NStreamsIsNat, DbFailsIsBool, NoneIsNoId, TimeoutSpansHeartbeat

\* The ids that were registered, now or earlier.
Had == {id \in Ids : handle[id] # "none"}

\* What no step takes back.
Stays ==
    \A id \in Ids :
        /\ handle[id] # "none" => handle'[id] # "none" /\ (id \in connections' => id \in connections)
        /\ handle[id] = "closed" => handle'[id] = "closed"

Base == RegistryTypeOK /\ connections \subseteq Had

-----------------------------------------------------------------------------
(* Steps of the registry.                                                  *)

LEMMA RegistryKeeps ==
    ASSUME Base, RegistryStep
    PROVE  Base' /\ Stays
<1>1. ASSUME NEW id \in Ids, Enter(id) PROVE Base' /\ Stays
  BY <1>1 DEF Enter, Base, RegistryTypeOK, Had, Stays
<1>2. ASSUME NEW id \in Ids, Use(id) PROVE Base' /\ Stays
  BY <1>2 DEF Use, Base, RegistryTypeOK, Had, Stays
<1>3. ASSUME NEW id \in Ids, BeginLeave(id) PROVE Base' /\ Stays
  BY <1>3 DEF BeginLeave, Drained, Base, RegistryTypeOK, Had, Stays
<1>4. ASSUME NEW id \in Ids, EndLeave(id) PROVE Base' /\ Stays
  BY <1>4 DEF EndLeave, Leave, Base, RegistryTypeOK, Had, Stays
<1>5. ASSUME NEW id \in Ids, FinishDrain(id) PROVE Base' /\ Stays
  BY <1>5 DEF FinishDrain, Base, RegistryTypeOK, Had, Stays
<1>6. ASSUME NEW id \in Ids, Lose(id) PROVE Base' /\ Stays
  BY <1>6 DEF Lose, Base, RegistryTypeOK, Had, Stays
<1>7. CASE Expire
  BY <1>7 DEF Expire, Leave, TooIdle, Drained, Base, RegistryTypeOK, Had, Stays
<1>8. CASE BeginShutdown
  BY <1>8 DEF BeginShutdown, Drained, Base, RegistryTypeOK, Had, Stays
<1>9. CASE EndShutdown
  BY <1>9 DEF EndShutdown, Leave, Base, RegistryTypeOK, Had, Stays
<1> QED BY <1>1, <1>2, <1>3, <1>4, <1>5, <1>6, <1>7, <1>8, <1>9 DEF RegistryStep

LEMMA OthersKeep ==
    ASSUME Base, UNCHANGED others, idle' \in [Ids -> 0 .. Timeout + 1]
    PROVE  Base' /\ Stays
BY DEF others, Base, RegistryTypeOK, Had, Stays

(* Checks and collections only look at the registry.                       *)
LEMMA RunsLook ==
    ASSUME NEW r \in Runs, Check(r) \/ Collect(r)
    PROVE  UNCHANGED registryVars /\ UNCHANGED tails
BY DEF Check, CheckAllConnections, NextCheck, ProbeAnswered, ProbeRejected, SaveRecord, SaveDown,
       PruneOldRecords, Collect, CollectAllSnapshots, NextCollection, MissingConnection,
       ListStreams, SaveStreamMetric, SaveConsumerMetrics, PruneOldMetrics, VisitHealth,
       VisitMetrics, Prune, others, registryVars

LEMMA BaseStep ==
    ASSUME Base, TypeOK, [Next]_all
    PROVE  Base' /\ Stays
<1>1. CASE Clock
  <2>1. idle' \in [Ids -> 0 .. Timeout + 1]
    BY <1>1 DEF Clock, Pass, Base, RegistryTypeOK
  <2> QED BY <1>1, <2>1, OthersKeep DEF Clock, Pass, others
<1>2. CASE Service
  BY <1>2, RegistryKeeps DEF Service
<1>3. ASSUME NEW r \in Runs, Check(r) \/ Collect(r) PROVE Base' /\ Stays
  BY <1>3, RunsLook, OthersKeep DEF registryVars, others, Base, RegistryTypeOK
<1>4. ASSUME NEW t \in Tails, Activity(t) PROVE Base' /\ Stays
  <2>1. idle' \in [Ids -> 0 .. Timeout + 1]
    BY <1>4 DEF Activity, Touch, Base, RegistryTypeOK, TypeOK
  <2> QED BY <1>4, <2>1, OthersKeep DEF Activity
<1>5. ASSUME NEW t \in Tails, TailCompletes(t) \/ TailLeaves(t) PROVE Base' /\ Stays
  BY <1>5, OthersKeep DEF TailCompletes, TailLeaves, EndTail, registryVars, others, Base,
                          RegistryTypeOK
<1>6. ASSUME NEW t \in Tails, NEW id \in Ids, TailMessages(t, id) PROVE Base' /\ Stays
  BY <1>6, OthersKeep DEF TailMessages, Touch, Base, RegistryTypeOK
<1>7. ASSUME NEW t \in Tails, NEW id \in Ids, TailRefused(t, id) PROVE Base' /\ Stays
  BY <1>7, OthersKeep DEF TailRefused, Use, others, Base, RegistryTypeOK
<1>8. CASE UNCHANGED all
  <2>1. UNCHANGED registryVars
    BY <1>8 DEF all, registryVars
  <2>2. UNCHANGED others /\ idle' = idle
    BY <2>1 DEF registryVars, others
  <2> QED BY <2>2, OthersKeep DEF Base, RegistryTypeOK
<1> QED BY <1>1, <1>2, <1>3, <1>4, <1>5, <1>6, <1>7, <1>8 DEF Next

-----------------------------------------------------------------------------
(* Types.                                                                  *)

\* The places of a run are typed apart from the registry and the tails.
RunsTypeOK ==
    /\ at \in [Runs -> Places \cup Resting]
    /\ turn \in [Runs -> Turn]
    /\ listed \in [Runs -> SUBSET Ids]
    /\ left \in [Runs -> SUBSET Ids]
    /\ health \subseteq Record
    /\ samples \subseteq Sample
    /\ warned \in [Runs -> SUBSET Ids]

TailsTypeOK == tail \in [Tails -> Ids \cup {None}] /\ beaten \in [Tails -> BOOLEAN]

LEMMA NoTurnType == NoTurn \in Turn
BY DEF NoTurn, Turn, Errors

(* A visit sets the place, the turn and what is left, and no more.         *)
LEMMA VisitType ==
    ASSUME RunsTypeOK, NEW r \in Runs, NEW ids \in SUBSET Ids,
           NEW found \in Places \cup Resting, NEW missing \in Places \cup Resting,
           NEW prune \in Places \cup Resting,
           Visit(r, ids, found, missing, prune)
    PROVE  /\ at' \in [Runs -> Places \cup Resting]
           /\ turn' \in [Runs -> Turn]
           /\ left' \in [Runs -> SUBSET Ids]
<1>1. CASE /\ left' = [left EXCEPT ![r] = {}]
           /\ EndTurn(r, prune)
  BY <1>1, NoTurnType DEF RunsTypeOK, EndTurn, Move
<1>2. ASSUME NEW id \in ids,
             left' = [left EXCEPT ![r] = ids \ {id}],
             turn' = [turn EXCEPT ![r] =
                       [NoTurn EXCEPT !.id = id,
                          !.asked = id \in connections /\ handle[id] = "open",
                          !.error = IF id \in connections THEN "none" ELSE "missing"]],
             Move(r, IF id \in connections THEN found ELSE missing)
      PROVE  /\ at' \in [Runs -> Places \cup Resting]
             /\ turn' \in [Runs -> Turn]
             /\ left' \in [Runs -> SUBSET Ids]
  <2> DEFINE new == [NoTurn EXCEPT !.id = id,
                          !.asked = id \in connections /\ handle[id] = "open",
                          !.error = IF id \in connections THEN "none" ELSE "missing"]
  <2>1. new \in Turn
    <3>1. (id \in connections /\ handle[id] = "open") \in BOOLEAN
      OBVIOUS
    <3>2. (IF id \in connections THEN "none" ELSE "missing") \in Errors
      BY DEF Errors
    <3> QED BY <3>1, <3>2, NoTurnType DEF Turn
  <2>2. turn' \in [Runs -> Turn]
    BY <1>2, <2>1 DEF RunsTypeOK
  <2> QED BY <1>2, <2>2 DEF RunsTypeOK, Move
<1> QED BY <1>1, <1>2, Zenon DEF Visit

\* A run that is busy with a connection has it at hand; a collection that saves
\* has a stream to go.
Busy == {"probe", "save", "saveDown", "list", "missing", "sample", "consumers"}

BusyOK ==
    \A r \in Runs :
        /\ at[r] \in Busy => turn[r].id \in Ids
        /\ at[r] = "list" => turn[r].nth = 0
        /\ at[r] = "sample" => turn[r].nth < NStreams

(* A visit leaves the run at rest, or at hand with one of the ids.         *)
LEMMA VisitBusy ==
    ASSUME RunsTypeOK, BusyOK, NEW r \in Runs, NEW ids \in SUBSET Ids,
           NEW found, NEW missing, NEW prune,
           found # "sample", missing # "sample", prune \notin Busy,
           Visit(r, ids, found, missing, prune)
    PROVE  BusyOK'
<1>1. \A q \in Runs \ {r} : at'[q] = at[q] /\ turn'[q] = turn[q]
  BY DEF Visit, EndTurn, Move, RunsTypeOK
<1>2. at'[r] = prune \/ (turn'[r].id \in ids /\ turn'[r].nth = 0 /\ at'[r] \in {found, missing})
  <2>1. CASE EndTurn(r, prune)
    BY <2>1 DEF EndTurn, Move, RunsTypeOK
  <2>2. ASSUME NEW id \in ids,
               turn' = [turn EXCEPT ![r] =
                         [NoTurn EXCEPT !.id = id,
                            !.asked = id \in connections /\ handle[id] = "open",
                            !.error = IF id \in connections THEN "none" ELSE "missing"]],
               Move(r, IF id \in connections THEN found ELSE missing)
        PROVE  turn'[r].id \in ids /\ turn'[r].nth = 0 /\ at'[r] \in {found, missing}
    BY <2>2 DEF NoTurn, Move, RunsTypeOK
  <2> QED BY <2>1, <2>2, Zenon DEF Visit
<1> QED BY <1>1, <1>2 DEF BusyOK, Busy

LEMMA RunsType ==
    ASSUME TypeOK, BusyOK, NEW r \in Runs, Check(r) \/ Collect(r)
    PROVE  RunsTypeOK' /\ BusyOK'
<1>0. RunsTypeOK /\ connections \subseteq Ids
  BY DEF TypeOK, RunsTypeOK, RegistryTypeOK
<1>1. ASSUME CheckAllConnections(r) \/ CollectAllSnapshots(r) PROVE RunsTypeOK' /\ BusyOK'
  <2>1. PICK ids \in SUBSET Ids : Begin(r, ids) /\ (VisitHealth(r, ids) \/ VisitMetrics(r, ids))
    BY <1>0, <1>1 DEF CheckAllConnections, CollectAllSnapshots
  <2>2. at' \in [Runs -> Places \cup Resting] /\ turn' \in [Runs -> Turn]
            /\ left' \in [Runs -> SUBSET Ids]
    BY <1>0, <2>1, VisitType DEF VisitHealth, VisitMetrics, Places, Resting
  <2>3. BusyOK'
    BY <1>0, <2>1, VisitBusy DEF VisitHealth, VisitMetrics, Busy
  <2> QED BY <1>0, <2>1, <2>2, <2>3 DEF Begin, RunsTypeOK
<1>2. ASSUME NextCheck(r) \/ NextCollection(r) PROVE RunsTypeOK' /\ BusyOK'
  <2>1. left[r] \in SUBSET Ids
    BY <1>0 DEF RunsTypeOK
  <2>2. at' \in [Runs -> Places \cup Resting] /\ turn' \in [Runs -> Turn]
            /\ left' \in [Runs -> SUBSET Ids]
    BY <1>0, <1>2, <2>1, VisitType DEF VisitHealth, VisitMetrics, NextCheck, NextCollection,
                                       Places, Resting
  <2>3. BusyOK'
    BY <1>0, <1>2, <2>1, VisitBusy DEF VisitHealth, VisitMetrics, NextCheck, NextCollection, Busy
  <2> QED BY <1>0, <1>2, <2>2, <2>3 DEF NextCheck, NextCollection, RunsTypeOK
<1>3. ASSUME ProbeAnswered(r) \/ ProbeRejected(r) PROVE RunsTypeOK' /\ BusyOK'
  <2>1. turn[r] \in Turn /\ turn[r].id \in Ids
    BY <1>0, <1>3 DEF RunsTypeOK, BusyOK, Busy, ProbeAnswered, ProbeRejected
  <2>2. PICK new \in Turn : turn' = [turn EXCEPT ![r] = new] /\ new.id \in Ids
    <3>1. [turn[r] EXCEPT !.status = "up"] \in Turn
      BY <2>1 DEF Turn
    <3>2. [turn[r] EXCEPT !.status = Rejected(turn[r].id), !.error = "nats"] \in Turn
      BY <2>1 DEF Turn, Errors, Rejected
    <3>3. CASE ProbeAnswered(r)
      <4>1. turn' = [turn EXCEPT ![r] = [turn[r] EXCEPT !.status = "up"]]
        BY <1>0, <3>3 DEF ProbeAnswered, RunsTypeOK
      <4>2. [turn[r] EXCEPT !.status = "up"].id \in Ids
        BY <2>1 DEF Turn
      <4> QED BY <3>1, <4>1, <4>2
    <3>4. CASE ProbeRejected(r)
      <4>1. turn' = [turn EXCEPT ![r] =
                       [turn[r] EXCEPT !.status = Rejected(turn[r].id), !.error = "nats"]]
        BY <1>0, <3>4 DEF ProbeRejected, RunsTypeOK
      <4>2. [turn[r] EXCEPT !.status = Rejected(turn[r].id), !.error = "nats"].id \in Ids
        BY <2>1 DEF Turn
      <4> QED BY <3>2, <4>1, <4>2
    <3> QED BY <1>3, <3>3, <3>4
  <2>3. at' = [at EXCEPT ![r] = "save"] /\ UNCHANGED <<listed, left, health, samples, warned>>
    BY <1>3 DEF ProbeAnswered, ProbeRejected, Move
  <2> QED BY <1>0, <2>2, <2>3 DEF RunsTypeOK, BusyOK, Busy, Places, Resting
<1>4. ASSUME SaveRecord(r) \/ SaveDown(r) PROVE RunsTypeOK' /\ BusyOK'
  <2>1. turn[r] \in Turn /\ turn[r].id \in Ids
    BY <1>0, <1>4 DEF RunsTypeOK, BusyOK, Busy, SaveRecord, SaveDown
  <2>2. Verdict(r) \in Record
    BY <2>1 DEF Verdict, Record, Turn
  <2>3. health' \subseteq Record /\ UNCHANGED <<listed, left, samples, warned>>
    BY <1>0, <1>4, <2>2 DEF SaveRecord, SaveDown, Saves, Rejects, RunsTypeOK
  <2>4. PICK new \in Turn, place \in {"checking", "saveDown", "aborted"} :
            /\ turn' = [turn EXCEPT ![r] = new] /\ at' = [at EXCEPT ![r] = place]
            /\ place = "saveDown" => new.id \in Ids
    <3>1. [turn[r] EXCEPT !.status = "down", !.error = "database"] \in Turn
      BY <2>1 DEF Turn, Errors
    <3> QED BY <1>0, <1>4, <2>1, <3>1, NoTurnType DEF SaveRecord, SaveDown, EndTurn, Move, Turn
  <2> QED BY <1>0, <2>3, <2>4 DEF RunsTypeOK, BusyOK, Busy, Places, Resting
<1>5. ASSUME PruneOldRecords(r) \/ PruneOldMetrics(r) PROVE RunsTypeOK' /\ BusyOK'
  <2>1. /\ at' \in [Runs -> Places \cup Resting]
        /\ at'[r] \notin Busy
        /\ \A q \in Runs \ {r} : at'[q] = at[q]
        /\ UNCHANGED <<turn, listed, left, health, samples, warned>>
    BY <1>0, <1>5 DEF PruneOldRecords, PruneOldMetrics, Prune, Move, RunsTypeOK, Places, Resting, Busy
  <2> QED BY <1>0, <2>1 DEF RunsTypeOK, BusyOK, Busy
<1>6. ASSUME GiveUp(r), turn[r].id \in Ids PROVE /\ at' \in [Runs -> Places \cup Resting]
                                                 /\ turn' \in [Runs -> Turn]
                                                 /\ warned' \in [Runs -> SUBSET Ids]
                                                 /\ BusyOK'
  BY <1>0, <1>6, NoTurnType DEF GiveUp, EndTurn, Move, RunsTypeOK, Places, BusyOK, Busy
<1>7. ASSUME MissingConnection(r) \/ ListStreams(r) PROVE RunsTypeOK' /\ BusyOK'
  <2>1. turn[r].id \in Ids /\ UNCHANGED <<listed, left, health, samples>>
    BY <1>7 DEF BusyOK, Busy, MissingConnection, ListStreams
  <2>2. CASE GiveUp(r)
    BY <1>0, <1>6, <2>1, <2>2 DEF RunsTypeOK
  <2>3. CASE UNCHANGED warned /\ EndTurn(r, "collecting")
    BY <1>0, <2>1, <2>3, NoTurnType DEF EndTurn, Move, RunsTypeOK, Places, BusyOK, Busy
  <2>4. CASE UNCHANGED warned /\ Move(r, "sample") /\ UNCHANGED turn /\ at[r] = "list" /\ NStreams # 0
    BY <1>0, <2>1, <2>4 DEF Move, RunsTypeOK, Places, BusyOK, Busy
  <2> QED BY <1>7, <2>2, <2>3, <2>4 DEF MissingConnection, ListStreams
<1>8. ASSUME SaveStreamMetric(r) PROVE RunsTypeOK' /\ BusyOK'
  <2> DEFINE row == [run |-> r, id |-> turn[r].id, nth |-> turn[r].nth + 1]
  <2>1. turn[r] \in Turn /\ turn[r].id \in Ids /\ turn[r].nth < NStreams /\ turn[r].nth \in Nat
    BY <1>0, <1>8 DEF RunsTypeOK, BusyOK, Busy, SaveStreamMetric, Turn
  <2>2. row \in Sample /\ row.nth \in 1 .. NStreams
    BY <2>1 DEF Sample
  <2>3. samples' \subseteq Sample /\ UNCHANGED <<listed, left, health>>
    BY <1>0, <1>8, <2>2 DEF SaveStreamMetric, Saves, Rejects, RunsTypeOK
  <2>4. CASE GiveUp(r)
    BY <1>0, <1>6, <2>1, <2>3, <2>4 DEF RunsTypeOK
  <2>5. CASE /\ turn' = [turn EXCEPT ![r].nth = row.nth]
             /\ Move(r, IF LastStream(row.nth) THEN "consumers" ELSE "sample")
             /\ UNCHANGED warned
    <3>1. [turn[r] EXCEPT !.nth = row.nth] \in Turn
      BY <2>1, <2>2 DEF Turn
    <3> QED BY <1>0, <2>1, <2>2, <2>3, <2>5, <3>1
            DEF Move, LastStream, RunsTypeOK, Places, BusyOK, Busy
  <2> QED BY <1>8, <2>4, <2>5 DEF SaveStreamMetric
<1>9. ASSUME SaveConsumerMetrics(r) PROVE RunsTypeOK' /\ BusyOK'
  BY <1>0, <1>9, NoTurnType
     DEF SaveConsumerMetrics, EndTurn, Move, RunsTypeOK, Places, BusyOK, Busy
<1> QED BY <1>1, <1>2, <1>3, <1>4, <1>5, <1>7, <1>8, <1>9 DEF Check, Collect

(* A client opens, uses or ends a tail.                                    *)
LEMMA TailsType ==
    ASSUME TypeOK, NEW t \in Tails,
           \/ Activity(t) \/ TailCompletes(t) \/ TailLeaves(t)
           \/ \E id \in Ids : TailMessages(t, id) \/ TailRefused(t, id)
    PROVE  TailsTypeOK' /\ UNCHANGED runs
<1>1. CASE Activity(t) \/ TailCompletes(t) \/ TailLeaves(t)
  BY <1>1 DEF Activity, TailCompletes, TailLeaves, EndTail, TypeOK, TailsTypeOK
<1>2. ASSUME NEW id \in Ids, TailMessages(t, id) \/ TailRefused(t, id)
      PROVE  TailsTypeOK' /\ UNCHANGED runs
  BY <1>2 DEF TailMessages, TailRefused, monitors, tails, TypeOK, TailsTypeOK
<1> QED BY <1>1, <1>2

Typed == TypeOK /\ BusyOK /\ Base

LEMMA TypeStep ==
    ASSUME Typed, [Next]_all
    PROVE  Typed' /\ Stays
<1>1. TypeOK /\ BusyOK /\ Base
  BY DEF Typed
<1>2. Base' /\ Stays
  BY <1>1, BaseStep
<1>3. (RunsTypeOK /\ TailsTypeOK /\ BusyOK)'
  <2>1. CASE Clock
    BY <1>1, <2>1 DEF Clock, runs, TypeOK, RunsTypeOK, TailsTypeOK, BusyOK
  <2>2. CASE UNCHANGED monitors
    BY <1>1, <2>2 DEF monitors, runs, tails, TypeOK, RunsTypeOK, TailsTypeOK, BusyOK
  <2>3. ASSUME NEW r \in Runs, Check(r) \/ Collect(r) PROVE (RunsTypeOK /\ TailsTypeOK /\ BusyOK)'
    <3>1. RunsTypeOK' /\ BusyOK'
      BY <1>1, <2>3, RunsType
    <3>2. TailsTypeOK'
      BY <1>1, <2>3, RunsLook DEF tails, TypeOK, TailsTypeOK
    <3> QED BY <3>1, <3>2
  <2>4. ASSUME UNCHANGED runs, TailsTypeOK' PROVE (RunsTypeOK /\ TailsTypeOK /\ BusyOK)'
    BY <1>1, <2>4 DEF runs, TypeOK, RunsTypeOK, BusyOK
  <2> QED BY <1>1, <2>1, <2>2, <2>3, <2>4, TailsType DEF Next, Service, all
<1> QED BY <1>2, <1>3 DEF Typed, TypeOK, Base, RunsTypeOK, TailsTypeOK

LEMMA TypeInit == Init => Typed
BY NoTurnType DEF Init, RegistryInit, Typed, TypeOK, RegistryTypeOK, BusyOK, Busy, Base, Had,
                  Resting, Places

LEMMA TypedAlways == Spec => []Typed
<1>1. Typed /\ [Next]_all => Typed'
  BY TypeStep
<1> QED BY TypeInit, <1>1, PTL DEF Spec

\* The typing of the model, for every instance: whatever the service and the
\* clients do beside it, a suspended run knows the connection it is at.
THEOREM TypeCorrect == Spec => []TypeOK
<1>1. Typed => TypeOK
  BY DEF Typed
<1> QED BY <1>1, TypedAlways, PTL

-----------------------------------------------------------------------------
(* Rows that say "down".                                                   *)

Gone(id) == id \notin connections \/ handle[id] = "closed"

\* What a run has found out about the connection at hand, wherever it waits.
RunFacts(r) ==
    /\ left[r] \subseteq Had
    /\ at[r] \in Busy => turn[r].id \in Had
    /\ at[r] = "save" /\ turn[r].status = "down" => Gone(turn[r].id)
    /\ at[r] = "saveDown" => turn[r].error = "database" \/ Gone(turn[r].id)

RowFacts(row) ==
    /\ row.id \in Had
    /\ row.status = "down" /\ row.error # "database" => Gone(row.id)

DownInv ==
    /\ Typed
    /\ \A r \in Runs : RunFacts(r)
    /\ \A row \in health : RowFacts(row)

LEMMA GoneStays ==
    ASSUME Typed, Stays, NEW id \in Had
    PROVE  id \in Had' /\ (Gone(id) => Gone(id)')
BY DEF Had, Gone, Stays

(* Nobody else can make what a run knows false, nor a row it wrote.        *)
LEMMA RunAside ==
    ASSUME Typed, Stays, NEW r \in Runs, RunFacts(r), UNCHANGED <<at[r], turn[r], left[r]>>
    PROVE  RunFacts(r)'
<1>1. CASE at[r] \in Busy
  <2>1. turn[r].id \in Had
    BY <1>1 DEF RunFacts
  <2> QED BY <2>1, GoneStays DEF RunFacts
<1>2. CASE at[r] \notin Busy
  BY <1>2, GoneStays DEF RunFacts, Busy
<1> QED BY <1>1, <1>2

LEMMA RowAside ==
    ASSUME Typed, Stays, NEW row, RowFacts(row)
    PROVE  RowFacts(row)'
BY GoneStays DEF RowFacts

(* A visit: the ids at hand were registered when they were listed.         *)
LEMMA VisitFacts ==
    ASSUME Typed, NEW r \in Runs, NEW ids \in SUBSET Had,
           NEW found, NEW missing, NEW prune,
           found \notin {"save", "saveDown"}, missing # "save", prune \notin Busy,
           Visit(r, ids, found, missing, prune), UNCHANGED <<connections, handle>>
    PROVE  /\ RunFacts(r)'
           /\ \A q \in Runs \ {r} : UNCHANGED <<at[q], turn[q], left[q]>>
<1>0. RunsTypeOK
  BY DEF Typed, TypeOK, RunsTypeOK
<1>1. CASE left' = [left EXCEPT ![r] = {}] /\ EndTurn(r, prune)
  BY <1>0, <1>1 DEF EndTurn, Move, RunsTypeOK, RunFacts, Busy
<1>2. ASSUME NEW id \in ids,
             left' = [left EXCEPT ![r] = ids \ {id}],
             turn' = [turn EXCEPT ![r] =
                       [NoTurn EXCEPT !.id = id,
                          !.asked = id \in connections /\ handle[id] = "open",
                          !.error = IF id \in connections THEN "none" ELSE "missing"]],
             Move(r, IF id \in connections THEN found ELSE missing)
      PROVE  /\ RunFacts(r)'
             /\ \A q \in Runs \ {r} : UNCHANGED <<at[q], turn[q], left[q]>>
  <2>1. /\ turn'[r].id = id /\ left'[r] = ids \ {id}
        /\ at'[r] = IF id \in connections THEN found ELSE missing
    BY <1>0, <1>2 DEF NoTurn, Move, RunsTypeOK
  <2>2. Had' = Had
    BY DEF Had
  <2>3. RunFacts(r)'
    BY <2>1, <2>2 DEF RunFacts, Gone
  <2> QED BY <1>0, <1>2, <2>3 DEF Move, RunsTypeOK
<1> QED BY <1>1, <1>2, Zenon DEF Visit

LEMMA RunFactsStep ==
    ASSUME DownInv, Typed', Stays, NEW r \in Runs, Check(r) \/ Collect(r)
    PROVE  /\ RunFacts(r)'
           /\ \A q \in Runs \ {r} : UNCHANGED <<at[q], turn[q], left[q]>>
           /\ \A row \in health' : row \in health \/ RowFacts(row)
<1>0. RunsTypeOK /\ RunFacts(r) /\ UNCHANGED <<connections, handle>> /\ connections \subseteq Had
  BY RunsLook DEF DownInv, Typed, TypeOK, RunsTypeOK, Base, registryVars
<1>a. Had' = Had
  BY <1>0 DEF Had
<1>1. CASE CheckAllConnections(r)
  <2>1. Visit(r, connections, "probe", "saveDown", "pruneRecords") /\ health' \subseteq health
    BY <1>1 DEF CheckAllConnections, VisitHealth, Begin
  <2> QED BY <1>0, <2>1, VisitFacts DEF DownInv, Busy
<1>2. CASE NextCheck(r)
  <2>1. Visit(r, left[r], "probe", "saveDown", "pruneRecords") /\ health' = health
    BY <1>2 DEF NextCheck, VisitHealth
  <2>2. left[r] \in SUBSET Had
    BY <1>0 DEF RunFacts
  <2> QED BY <1>0, <2>1, <2>2, VisitFacts DEF DownInv, Busy
<1>3. CASE CollectAllSnapshots(r)
  <2>1. Visit(r, {id \in connections : handle[id] # "closed"}, "list", "missing", "pruneMetrics")
            /\ health' \subseteq health
    BY <1>3 DEF CollectAllSnapshots, VisitMetrics, Begin
  <2> QED BY <1>0, <2>1, VisitFacts DEF DownInv, Busy
<1>4. CASE NextCollection(r)
  <2>1. Visit(r, left[r], "list", "missing", "pruneMetrics") /\ health' = health
    BY <1>4 DEF NextCollection, VisitMetrics
  <2>2. left[r] \in SUBSET Had
    BY <1>0 DEF RunFacts
  <2> QED BY <1>0, <2>1, <2>2, VisitFacts DEF DownInv, Busy
<1>5. CASE ProbeAnswered(r)
  <2>1. turn'[r].id = turn[r].id /\ turn'[r].status = "up" /\ at'[r] = "save" /\ left' = left
    BY <1>0, <1>5 DEF ProbeAnswered, Move, RunsTypeOK, Turn
  <2>2. RunFacts(r)'
    BY <1>0, <1>5, <1>a, <2>1 DEF RunFacts, ProbeAnswered, Busy
  <2> QED BY <1>0, <1>5, <2>2 DEF ProbeAnswered, Move, RunsTypeOK
<1>6. CASE ProbeRejected(r)
  <2>1. /\ turn'[r].id = turn[r].id /\ turn'[r].status = Rejected(turn[r].id)
        /\ at'[r] = "save" /\ left' = left
    BY <1>0, <1>6 DEF ProbeRejected, Move, RunsTypeOK, Turn
  <2>2. RunFacts(r)'
    BY <1>0, <1>6, <1>a, <2>1 DEF RunFacts, ProbeRejected, Rejected, Gone, Busy
  <2> QED BY <1>0, <1>6, <2>2 DEF ProbeRejected, Move, RunsTypeOK
<1>7. CASE SaveRecord(r) \/ SaveDown(r)
  <2>1. /\ Verdict(r).id = turn[r].id /\ Verdict(r).status = turn[r].status
        /\ Verdict(r).error = turn[r].error
    BY DEF Verdict
  <2>2. RowFacts(Verdict(r))
    BY <1>0, <1>7, <2>1 DEF RowFacts, RunFacts, SaveRecord, SaveDown, Busy
  <2>3. health' \subseteq health \cup {Verdict(r)} /\ left' = left
    BY <1>7 DEF SaveRecord, SaveDown, Saves, Rejects
  <2>4. /\ at'[r] \in {"checking", "aborted"} \/
              (at'[r] = "saveDown" /\ turn'[r].error = "database" /\ turn'[r].id = turn[r].id)
        /\ at[r] \in Busy
        /\ \A q \in Runs \ {r} : UNCHANGED <<at[q], turn[q]>>
    <3>1. CASE SaveRecord(r) /\ EndTurn(r, "checking")
      BY <1>0, <3>1 DEF SaveRecord, EndTurn, Move, RunsTypeOK, Busy
    <3>2. CASE SaveDown(r) /\ (EndTurn(r, "checking") \/ EndTurn(r, "aborted"))
      BY <1>0, <3>2 DEF SaveDown, EndTurn, Move, RunsTypeOK, Busy
    <3>3. CASE /\ at[r] = "save"
               /\ turn' = [turn EXCEPT ![r].status = "down", ![r].error = "database"]
               /\ Move(r, "saveDown")
      BY <1>0, <3>3 DEF Move, RunsTypeOK, Turn, Busy
    <3> QED BY <1>7, <3>1, <3>2, <3>3 DEF SaveRecord, SaveDown
  <2>5. RunFacts(r)'
    BY <1>0, <1>a, <2>3, <2>4 DEF RunFacts, Busy
  <2> QED BY <2>2, <2>3, <2>4, <2>5
<1>8. CASE PruneOldRecords(r) \/ PruneOldMetrics(r)
  BY <1>0, <1>8, <1>a DEF PruneOldRecords, PruneOldMetrics, Prune, Move, RunsTypeOK, RunFacts, Busy
<1>9. CASE MissingConnection(r) \/ ListStreams(r) \/ SaveStreamMetric(r) \/ SaveConsumerMetrics(r)
  <2>1. UNCHANGED <<left, health>> /\ at[r] \in Busy
    BY <1>9 DEF MissingConnection, ListStreams, SaveStreamMetric, SaveConsumerMetrics, Busy
  <2>2. /\ at'[r] = "collecting" \/ (at'[r] \in {"sample", "consumers"} /\ turn'[r].id = turn[r].id)
        /\ \A q \in Runs \ {r} : UNCHANGED <<at[q], turn[q]>>
    <3>1. CASE EndTurn(r, "collecting")
      BY <1>0, <3>1 DEF EndTurn, Move, RunsTypeOK
    <3>2. CASE Move(r, "sample") /\ UNCHANGED turn
      BY <1>0, <3>2 DEF Move, RunsTypeOK
    <3>3. CASE /\ turn' = [turn EXCEPT ![r].nth = turn[r].nth + 1]
               /\ Move(r, IF LastStream(turn[r].nth + 1) THEN "consumers" ELSE "sample")
      BY <1>0, <3>3 DEF Move, RunsTypeOK, Turn
    <3> QED BY <1>9, <3>1, <3>2, <3>3
            DEF MissingConnection, ListStreams, SaveStreamMetric, SaveConsumerMetrics, GiveUp
  <2>3. RunFacts(r)'
    BY <1>0, <1>a, <2>1, <2>2 DEF RunFacts, Busy
  <2> QED BY <2>1, <2>2, <2>3
<1> QED BY <1>1, <1>2, <1>3, <1>4, <1>5, <1>6, <1>7, <1>8, <1>9 DEF Check, Collect

LEMMA DownStep ==
    ASSUME DownInv, [Next]_all
    PROVE  DownInv'
<1>1. Typed /\ Typed' /\ Stays
  BY TypeStep DEF DownInv
<1>2. ASSUME NEW r \in Runs, Check(r) \/ Collect(r) PROVE DownInv'
  <2>1. \A q \in Runs : RunFacts(q)'
    BY <1>1, <1>2, RunFactsStep, RunAside DEF DownInv
  <2>2. \A row \in health' : RowFacts(row)
    BY <1>1, <1>2, RunFactsStep DEF DownInv
  <2>3. \A row \in health' : RowFacts(row)'
    BY <1>1, <2>2, RowAside
  <2> QED BY <1>1, <2>1, <2>3 DEF DownInv
<1>3. ASSUME UNCHANGED runs PROVE DownInv'
  <2>1. \A r \in Runs : RunFacts(r)'
    BY <1>1, <1>3, RunAside DEF runs, DownInv
  <2>2. \A row \in health : RowFacts(row)'
    BY <1>1, RowAside DEF DownInv
  <2> QED BY <1>1, <1>3, <2>1, <2>2 DEF DownInv, runs
<1>4. CASE Clock \/ Service \/ UNCHANGED all
  BY <1>3, <1>4 DEF Clock, Service, monitors, all
<1>5. TypeOK
  BY <1>1 DEF Typed
<1> QED BY <1>2, <1>3, <1>4, <1>5, TailsType DEF Next

LEMMA DownAlways == Spec => []DownInv
<1>1. Init => DownInv
  BY TypeInit DEF Init, DownInv, RunFacts, Busy
<1>2. DownInv /\ [Next]_all => DownInv'
  BY DownStep
<1> QED BY <1>1, <1>2, PTL DEF Spec

\* A health row never slanders: however the answer of a probe and the removal or
\* loss of its connection fall, "down" is about a connection that is not coming
\* back, or the database is to blame.
THEOREM NoFalseDown == Spec => []DownIsDeserved
<1>1. DownInv => DownIsDeserved
  BY DEF DownInv, RowFacts, Gone, DownIsDeserved
<1> QED BY <1>1, DownAlways, PTL

-----------------------------------------------------------------------------
(* Who keeps a connection.                                                 *)

\* An open tail beats between two ticks, so its connection is never idle for
\* more than one.
TailKept(t) ==
    tail[t] \in connections => idle[tail[t]] <= 1 /\ (beaten[t] => idle[tail[t]] = 0)

TailsInv == Typed /\ \A t \in Tails : TailKept(t)

\* What a step other than the clock does to the connections that stay.
Kept ==
    \A id \in Ids :
        /\ id \in connections => idle'[id] \in {idle[id], 0}
        /\ id \in connections' => id \in connections \/ idle'[id] = 0

(* Requests and the expiry.                                                *)
LEMMA ServiceKeeps ==
    ASSUME Typed, RegistryStep
    PROVE  /\ Kept
           /\ \A id \in connections \cap connections' : idle'[id] < idle[id] => Use(id)
           /\ \A id \in connections \ connections' :
                 id \in leaving \/ shutdown = "draining" \/ idle[id] > Timeout
<1>0. connections \subseteq Had /\ RegistryTypeOK
  BY DEF Typed, Base
<1> DEFINE Goal == /\ Kept
                   /\ \A id \in connections \cap connections' : idle'[id] < idle[id] => Use(id)
                   /\ \A id \in connections \ connections' :
                         id \in leaving \/ shutdown = "draining" \/ idle[id] > Timeout
<1>1. ASSUME NEW x \in Ids, Enter(x) PROVE Goal
  BY <1>0, <1>1 DEF Enter, Had, Kept, RegistryTypeOK
<1>2. ASSUME NEW x \in Ids, Use(x) PROVE Goal
  <2>1. \A id \in connections \cap connections' : idle'[id] < idle[id] => id = x
    BY <1>0, <1>2 DEF Use, RegistryTypeOK
  <2> QED BY <1>0, <1>2, <2>1 DEF Use, Kept, RegistryTypeOK
<1>3. ASSUME NEW x \in Ids, BeginLeave(x) \/ FinishDrain(x) \/ Lose(x) PROVE Goal
  BY <1>0, <1>3 DEF BeginLeave, FinishDrain, Lose, Kept, RegistryTypeOK
<1>4. ASSUME NEW x \in Ids, EndLeave(x) PROVE Goal
  BY <1>0, <1>4 DEF EndLeave, Leave, Kept, RegistryTypeOK
<1>5. CASE Expire
  BY <1>0, <1>5 DEF Expire, Leave, TooIdle, Kept, RegistryTypeOK
<1>6. CASE BeginShutdown
  BY <1>0, <1>6 DEF BeginShutdown, Kept, RegistryTypeOK
<1>7. CASE EndShutdown
  BY <1>0, <1>7 DEF EndShutdown, Leave, Kept, RegistryTypeOK
<1> QED BY <1>1, <1>2, <1>3, <1>4, <1>5, <1>6, <1>7 DEF RegistryStep

(* A tail that stays as it is keeps its connection through any such step.  *)
LEMMA TailAside ==
    ASSUME Typed, Typed', Kept, NEW t \in Tails, TailKept(t), UNCHANGED <<tail[t], beaten[t]>>
    PROVE  TailKept(t)'
<1>1. tail[t] \in Ids \cup {None} /\ RegistryTypeOK
  BY DEF Typed, TypeOK
<1>2. CASE tail[t] \in connections'
  <2>1. tail[t] \in Ids
    BY <1>2 DEF Typed, Base, RegistryTypeOK
  <2> QED BY <1>2, <2>1 DEF TailKept, Kept
<1> QED BY <1>2 DEF TailKept

(* A new access puts the idle time of one connection to 0.                 *)
LEMMA TouchKeeps ==
    ASSUME Typed, NEW id \in Ids, Touch(id), UNCHANGED others
    PROVE  /\ Kept
           /\ id \in connections' => idle'[id] = 0
           /\ \A x \in Ids : idle'[x] < idle[x] => x = id
BY DEF Touch, Kept, others, Typed, Base, RegistryTypeOK

LEMMA IdleKept ==
    ASSUME UNCHANGED registryVars
    PROVE  Kept
BY DEF Kept, registryVars

(* The steps that are not the clock's: what they do to a connection, and   *)
(* which tails they leave as they are.                                     *)
LEMMA TailsStep ==
    ASSUME TailsInv, [Next]_all, Typed'
    PROVE  \A t \in Tails : TailKept(t)'
<1>0. Typed /\ (\A t \in Tails : TailKept(t)) /\ TailsTypeOK /\ RegistryTypeOK
  BY DEF TailsInv, Typed, TypeOK, TailsTypeOK
<1>1. CASE Clock
  <2>1. ASSUME NEW t \in Tails, tail[t] \in connections PROVE idle'[tail[t]] <= 1
    <3>1. tail[t] \in Ids /\ beaten[t]
      BY <1>0, <1>1, <2>1, NoneIsNoId DEF Clock, RegistryTypeOK
    <3>2. idle[tail[t]] = 0
      BY <1>0, <2>1, <3>1 DEF TailKept
    <3> QED BY <1>0, <1>1, <3>1, <3>2 DEF Clock, Pass, RegistryTypeOK
  <2> QED BY <1>1, <2>1 DEF Clock, Pass, TailKept
<1>2. CASE Service
  BY <1>0, <1>2, ServiceKeeps, TailAside DEF Service, monitors, tails
<1>3. ASSUME NEW r \in Runs, Check(r) \/ Collect(r) PROVE \A t \in Tails : TailKept(t)'
  BY <1>0, <1>3, RunsLook, IdleKept, TailAside DEF tails
<1>4. ASSUME NEW u \in Tails, Activity(u) PROVE \A t \in Tails : TailKept(t)'
  <2>1. tail[u] \in Ids /\ Touch(tail[u]) /\ UNCHANGED others
    BY <1>0, <1>4 DEF Activity, TailsTypeOK
  <2>2. Kept /\ (tail[u] \in connections' => idle'[tail[u]] = 0) /\ UNCHANGED tail
    BY <1>0, <1>4, <2>1, TouchKeeps DEF Activity
  <2>3. \A t \in Tails \ {u} : beaten'[t] = beaten[t]
    BY <1>0, <1>4 DEF Activity, TailsTypeOK
  <2>4. TailKept(u)'
    BY <2>2 DEF TailKept
  <2> QED BY <1>0, <2>2, <2>3, <2>4, TailAside
<1>5. ASSUME NEW u \in Tails, TailCompletes(u) \/ TailLeaves(u)
      PROVE  \A t \in Tails : TailKept(t)'
  <2>1. EndTail(u)
    BY <1>5 DEF TailCompletes, TailLeaves
  <2>2. Kept
    BY <2>1, IdleKept DEF EndTail
  <2>3. tail'[u] = None /\ None \notin connections'
    BY <1>0, <2>1 DEF EndTail, TailsTypeOK, Typed, TypeOK, RegistryTypeOK
  <2>4. \A t \in Tails \ {u} : UNCHANGED <<tail[t], beaten[t]>>
    BY <1>0, <2>1 DEF EndTail, TailsTypeOK
  <2> QED BY <1>0, <2>2, <2>3, <2>4, TailAside DEF TailKept
<1>6. ASSUME NEW u \in Tails, NEW id \in Ids, TailMessages(u, id)
      PROVE  \A t \in Tails : TailKept(t)'
  <2>1. Kept /\ (id \in connections' => idle'[id] = 0) /\ tail'[u] = id
    BY <1>0, <1>6, TouchKeeps DEF TailMessages, TailsTypeOK
  <2>2. \A t \in Tails \ {u} : UNCHANGED <<tail[t], beaten[t]>>
    BY <1>0, <1>6 DEF TailMessages, TailsTypeOK
  <2>3. TailKept(u)'
    BY <2>1 DEF TailKept
  <2> QED BY <1>0, <2>1, <2>2, <2>3, TailAside
<1>7. ASSUME NEW u \in Tails, NEW id \in Ids, TailRefused(u, id)
      PROVE  \A t \in Tails : TailKept(t)'
  <2>1. RegistryStep /\ UNCHANGED tails
    BY <1>7 DEF TailRefused, RegistryStep, monitors
  <2> QED BY <1>0, <2>1, ServiceKeeps, TailAside DEF tails
<1>8. CASE UNCHANGED all
  BY <1>0, <1>8, IdleKept, TailAside DEF all, monitors, tails
<1> QED BY <1>1, <1>2, <1>3, <1>4, <1>5, <1>6, <1>7, <1>8 DEF Next

\* One step of the property.
KeepingStep ==
    /\ \A id \in connections \cap connections' : idle'[id] < idle[id] => Used(id)
    /\ \A t \in Tails :
          tail[t] \in connections \ connections' => tail[t] \in leaving \/ shutdown = "draining"

LEMMA KeepingHolds ==
    ASSUME TailsInv, [Next]_all
    PROVE  KeepingStep
<1>0. /\ Typed /\ TailsTypeOK /\ RegistryTypeOK
      /\ connections \subseteq Ids
      /\ \A t \in Tails : tail[t] \in connections => idle[tail[t]] <= 1
      /\ \A id \in connections : idle[id] \in Nat
  BY DEF TailsInv, Typed, TypeOK, TailsTypeOK, RegistryTypeOK, TailKept
<1>1. CASE Clock
  <2>1. \A id \in connections : ~ (idle'[id] < idle[id])
    BY <1>0, <1>1 DEF Clock, Pass
  <2> QED BY <1>1, <2>1 DEF Clock, Pass, KeepingStep
<1>2. CASE RegistryStep
  <2>1. \A id \in connections : idle[id] <= 1 => ~ (idle[id] > Timeout)
    BY <1>0
  <2> QED BY <1>0, <1>2, <2>1, ServiceKeeps DEF KeepingStep, Used
<1>3. ASSUME UNCHANGED registryVars PROVE KeepingStep
  BY <1>0, <1>3 DEF registryVars, KeepingStep
<1>4. ASSUME NEW r \in Runs, Check(r) \/ Collect(r) PROVE KeepingStep
  BY <1>3, <1>4, RunsLook
<1>5. ASSUME NEW u \in Tails, Activity(u) PROVE KeepingStep
  <2>1. tail[u] \in Ids /\ Touch(tail[u]) /\ UNCHANGED others
    BY <1>0, <1>5 DEF Activity, TailsTypeOK
  <2>2. \A x \in Ids : idle'[x] < idle[x] => x = tail[u]
    BY <1>0, <2>1, TouchKeeps
  <2> QED BY <1>0, <1>5, <2>1, <2>2 DEF KeepingStep, Used, others
<1>6. ASSUME NEW u \in Tails, TailCompletes(u) \/ TailLeaves(u) PROVE KeepingStep
  BY <1>3, <1>6 DEF TailCompletes, TailLeaves, EndTail
<1>7. ASSUME NEW u \in Tails, NEW id \in Ids, TailMessages(u, id) PROVE KeepingStep
  <2>1. \A x \in Ids : idle'[x] < idle[x] => x = id
    BY <1>0, <1>7, TouchKeeps DEF TailMessages
  <2> QED BY <1>0, <1>7, <2>1 DEF KeepingStep, Used, TailMessages, others
<1>8. ASSUME NEW u \in Tails, NEW id \in Ids, TailRefused(u, id) PROVE KeepingStep
  BY <1>2, <1>8 DEF TailRefused, RegistryStep
<1>9. CASE UNCHANGED all
  BY <1>3, <1>9 DEF all
<1> QED BY <1>1, <1>2, <1>4, <1>5, <1>6, <1>7, <1>8, <1>9 DEF Next, Service

\* Health checks and metrics never keep a connection from expiring, and no open
\* tail ever loses its connection to the expiry, for every timeout of a tick or
\* more and however many look and listen.
THEOREM OnlyClientsKeep == Spec => OnlyClientsKeepConnections
<1>1. Init => TailsInv
  BY TypeInit DEF Init, RegistryInit, TailsInv, TailKept
<1>2. TailsInv /\ [Next]_all => TailsInv'
  BY TypeStep, TailsStep DEF TailsInv
<1>3. TailsInv /\ [Next]_all => [KeepingStep]_all
  BY KeepingHolds
<1>4. Spec => [][KeepingStep]_all
  BY <1>1, <1>2, <1>3, PTL DEF Spec
<1> QED BY <1>4 DEF KeepingStep, OnlyClientsKeepConnections

-----------------------------------------------------------------------------
(* What a run leaves behind.                                               *)

NoRow(r, id) == \A row \in health : ~ (row.run = r /\ row.id = id)

Told(r, id) ==
    \E row \in health :
        /\ row.run = r /\ row.id = id
        /\ \/ row.error = "database"
           \/ \A other \in health : other.run = r /\ other.id = id => other = row

Sampled(r, id, k) == \A n \in 1 .. k : [run |-> r, id |-> id, nth |-> n] \in samples

CheckPlaces   == {"probe", "save", "saveDown", "checking", "pruneRecords", "checked"}
CollectPlaces == {"list", "missing", "sample", "consumers", "collecting", "pruneMetrics", "collected"}

\* A health run has told of every connection behind it, and of none ahead of it.
CheckOK(r) ==
    at[r] \in CheckPlaces =>
        /\ at[r] \in {"pruneRecords", "checked"} => left[r] = {}
        /\ \A id \in listed[r] :
              IF at[r] \in Busy /\ id = turn[r].id
              THEN /\ id \notin left[r]
                   /\ NoRow(r, id) \/ (at[r] = "saveDown" /\ turn[r].error = "database")
              ELSE IF id \in left[r] THEN NoRow(r, id) ELSE Told(r, id)

\* A metrics run has sampled or given up every connection behind it.
CollectOK(r) ==
    at[r] \in CollectPlaces =>
        /\ at[r] \in {"pruneMetrics", "collected"} => left[r] = {}
        /\ at[r] = "consumers" => turn[r].nth = NStreams
        /\ \A id \in listed[r] \ left[r] :
              \/ id \in warned[r]
              \/ Sampled(r, id, NStreams)
              \/ at[r] \in Busy /\ id = turn[r].id /\ Sampled(r, id, turn[r].nth)

CoverInv == DownInv /\ \A r \in Runs : CheckOK(r) /\ CollectOK(r)

\* The rows of a run are its own.
RowsStay(q) ==
    /\ \A row \in Record : row.run = q => (row \in health' <=> row \in health)
    /\ \A row \in Sample : row.run = q => (row \in samples' <=> row \in samples)

LEMMA CoverAside ==
    ASSUME Typed, Typed', NEW q \in Runs, CheckOK(q), CollectOK(q), RowsStay(q),
           UNCHANGED <<at[q], turn[q], left[q], listed[q], warned[q]>>
    PROVE  CheckOK(q)' /\ CollectOK(q)'
<1>1. health \subseteq Record /\ health' \subseteq Record
  BY DEF Typed, TypeOK
<1>2. \A id : NoRow(q, id) => NoRow(q, id)'
  BY <1>1 DEF NoRow, RowsStay
<1>3. \A id : Told(q, id) => Told(q, id)'
  BY <1>1 DEF Told, RowsStay
<1>4. \A id : \A k : Sampled(q, id, k) => Sampled(q, id, k)'
  <2>1. samples \subseteq Sample
    BY DEF Typed, TypeOK
  <2> QED BY <2>1 DEF Sampled, RowsStay, Sample
<1>5. CheckOK(q)'
  BY <1>2, <1>3 DEF CheckOK
<1>6. CollectOK(q)'
  BY <1>4 DEF CollectOK
<1> QED BY <1>5, <1>6

LEMMA RowsAreOwn ==
    ASSUME Typed, NEW r \in Runs, Check(r) \/ Collect(r), NEW q \in Runs, q # r
    PROVE  RowsStay(q) /\ UNCHANGED <<listed[q], warned[q]>>
<1>0. RunsTypeOK
  BY DEF Typed, TypeOK, RunsTypeOK
<1>1. ASSUME NEW ids, Begin(r, ids) PROVE RowsStay(q) /\ UNCHANGED <<listed[q], warned[q]>>
  BY <1>0, <1>1 DEF Begin, RowsStay, RunsTypeOK
<1>2. CASE UNCHANGED <<listed, health, samples, warned>>
  BY <1>2 DEF RowsStay
<1>3. CASE UNCHANGED <<listed, warned, samples>> /\ health' \subseteq health \cup {Verdict(r)}
           /\ health \subseteq health'
  BY <1>3 DEF RowsStay, Verdict
<1>4. CASE UNCHANGED <<listed, health, samples>> /\ GiveUp(r)
  BY <1>0, <1>4 DEF GiveUp, RowsStay, RunsTypeOK
<1>5. CASE SaveStreamMetric(r)
  <2>1. /\ \A row \in samples : row \in samples'
        /\ \A row \in samples' : row \in samples \/ row.run = r
        /\ warned'[q] = warned[q]
    BY <1>0, <1>5 DEF SaveStreamMetric, Saves, Rejects, GiveUp, RunsTypeOK
  <2> QED BY <1>5, <2>1 DEF SaveStreamMetric, RowsStay
<1>6. CASE SaveRecord(r) \/ SaveDown(r)
  <2>1. health' \subseteq health \cup {Verdict(r)} /\ health \subseteq health'
    BY <1>6 DEF SaveRecord, SaveDown, Saves, Rejects
  <2> QED BY <1>3, <1>6, <2>1 DEF SaveRecord, SaveDown
<1> QED BY <1>1, <1>2, <1>4, <1>5, <1>6
        DEF Check, CheckAllConnections, NextCheck, ProbeAnswered, ProbeRejected, PruneOldRecords,
            Collect, CollectAllSnapshots, NextCollection, MissingConnection, ListStreams,
            SaveConsumerMetrics, PruneOldMetrics, Prune

(* Where a visit leaves the run.                                           *)
LEMMA VisitOutcome ==
    ASSUME Typed, NEW r \in Runs, NEW ids \in SUBSET Ids, NEW found, NEW missing, NEW prune,
           Visit(r, ids, found, missing, prune)
    PROVE  \/ ids = {} /\ left'[r] = {} /\ at'[r] = prune
           \/ \E id \in ids : /\ left'[r] = ids \ {id} /\ turn'[r].id = id /\ turn'[r].nth = 0
                              /\ at'[r] \in {found, missing}
<1>0. RunsTypeOK
  BY DEF Typed, TypeOK, RunsTypeOK
<1>1. CASE ids = {} /\ left' = [left EXCEPT ![r] = {}] /\ EndTurn(r, prune)
  BY <1>0, <1>1 DEF EndTurn, Move, RunsTypeOK
<1>2. ASSUME NEW id \in ids,
             left' = [left EXCEPT ![r] = ids \ {id}],
             turn' = [turn EXCEPT ![r] =
                       [NoTurn EXCEPT !.id = id,
                          !.asked = id \in connections /\ handle[id] = "open",
                          !.error = IF id \in connections THEN "none" ELSE "missing"]],
             Move(r, IF id \in connections THEN found ELSE missing)
      PROVE  /\ left'[r] = ids \ {id} /\ turn'[r].id = id /\ turn'[r].nth = 0
             /\ at'[r] \in {found, missing}
  BY <1>0, <1>2 DEF NoTurn, Move, RunsTypeOK
<1> QED BY <1>1, <1>2, Zenon DEF Visit

LEMMA CheckStep ==
    ASSUME CoverInv, Typed', NEW r \in Runs, Check(r)
    PROVE  CheckOK(r)' /\ CollectOK(r)'
<1>0. RunsTypeOK /\ Typed /\ CheckOK(r) /\ connections \subseteq Ids
  BY DEF CoverInv, DownInv, Typed, TypeOK, RunsTypeOK, RegistryTypeOK
<1>1. ASSUME NEW ids \in SUBSET Ids,
             Visit(r, ids, "probe", "saveDown", "pruneRecords"),
             \A id \in listed'[r] : IF id \in ids THEN NoRow(r, id)' ELSE Told(r, id)'
      PROVE  CheckOK(r)' /\ CollectOK(r)'
  <2>1. CASE ids = {} /\ left'[r] = {} /\ at'[r] = "pruneRecords"
    BY <1>1, <2>1 DEF CheckOK, CollectOK, CollectPlaces, Busy
  <2>2. ASSUME NEW id \in ids, left'[r] = ids \ {id}, turn'[r].id = id,
               at'[r] \in {"probe", "saveDown"}
        PROVE  CheckOK(r)' /\ CollectOK(r)'
    BY <1>1, <2>2 DEF CheckOK, CollectOK, CollectPlaces, Busy
  <2>3. \/ ids = {} /\ left'[r] = {} /\ at'[r] = "pruneRecords"
        \/ \E id \in ids : /\ left'[r] = ids \ {id} /\ turn'[r].id = id /\ turn'[r].nth = 0
                           /\ at'[r] \in {"probe", "saveDown"}
    BY <1>0, <1>1, VisitOutcome
  <2> QED BY <2>1, <2>2, <2>3
<1>2. CASE CheckAllConnections(r)
  <2>1. Visit(r, connections, "probe", "saveDown", "pruneRecords") /\ Begin(r, connections)
    BY <1>2 DEF CheckAllConnections, VisitHealth
  <2>2. listed'[r] = connections /\ \A id : NoRow(r, id)'
    BY <1>0, <2>1 DEF Begin, NoRow, RunsTypeOK
  <2> QED BY <1>0, <1>1, <2>1, <2>2
<1>3. CASE NextCheck(r)
  <2>1. Visit(r, left[r], "probe", "saveDown", "pruneRecords") /\ left[r] \in SUBSET Ids
    BY <1>0, <1>3 DEF NextCheck, VisitHealth, RunsTypeOK
  <2>2. at[r] = "checking" /\ UNCHANGED <<listed, health>>
    BY <1>3 DEF NextCheck
  <2>3. \A id \in listed[r] : IF id \in left[r] THEN NoRow(r, id) ELSE Told(r, id)
    BY <1>0, <2>2 DEF CheckOK, CheckPlaces, Busy
  <2> QED BY <1>1, <2>1, <2>2, <2>3 DEF NoRow, Told
<1>4. CASE ProbeAnswered(r) \/ ProbeRejected(r)
  <2>1. /\ at[r] = "probe" /\ at'[r] = "save" /\ turn'[r].id = turn[r].id
        /\ UNCHANGED <<left, listed, health>>
    BY <1>0, <1>4 DEF ProbeAnswered, ProbeRejected, Move, RunsTypeOK, Turn
  <2> QED BY <1>0, <2>1 DEF CheckOK, CollectOK, CheckPlaces, CollectPlaces, Busy, NoRow, Told
<1>5. CASE SaveRecord(r) \/ SaveDown(r)
  <2>0. PICK new : new = Verdict(r)
    OBVIOUS
  <2>1. /\ new.run = r /\ new.id = turn[r].id /\ new.error = turn[r].error
        /\ at[r] \in {"save", "saveDown"}
        /\ UNCHANGED <<left, listed>>
    BY <1>5, <2>0 DEF Verdict, SaveRecord, SaveDown
  <2>2. ASSUME NEW id, id # turn[r].id, health' \in {health, health \cup {new}}
        PROVE  (NoRow(r, id) => NoRow(r, id)') /\ (Told(r, id) => Told(r, id)')
    <3>1. CASE health' = health
      BY <3>1 DEF NoRow, Told
    <3>2. CASE health' = health \cup {new}
      BY <2>1, <2>2, <3>2 DEF NoRow, Told
    <3> QED BY <2>2, <3>1, <3>2
  <2>3. CASE Saves(health, new) /\ EndTurn(r, "checking")
    <3>1. at'[r] = "checking" /\ health' = health \cup {new}
      BY <1>0, <2>3 DEF EndTurn, Move, Saves, RunsTypeOK
    <3>2. ASSUME NEW id \in listed[r], id = turn[r].id PROVE id \notin left[r] /\ Told(r, id)'
      <4>1. id \notin left[r] /\ (NoRow(r, id) \/ turn[r].error = "database")
        BY <1>0, <2>1, <3>2 DEF CheckOK, CheckPlaces, Busy
      <4>2. CASE NoRow(r, id)
        BY <2>1, <3>1, <3>2, <4>1, <4>2 DEF Told, NoRow
      <4>3. CASE turn[r].error = "database"
        BY <2>1, <3>1, <3>2, <4>1, <4>3 DEF Told
      <4> QED BY <4>1, <4>2, <4>3
    <3>3. \A id \in listed[r] : IF id \in left[r] THEN NoRow(r, id)' ELSE Told(r, id)'
      BY <1>0, <2>1, <2>2, <3>1, <3>2 DEF CheckOK, CheckPlaces, Busy
    <3> QED BY <2>1, <3>1, <3>3 DEF CheckOK, CollectOK, CollectPlaces, Busy
  <2>4. CASE /\ at[r] = "save" /\ Rejects(health, new)
             /\ turn' = [turn EXCEPT ![r].status = "down", ![r].error = "database"]
             /\ Move(r, "saveDown")
    <3>1. /\ at'[r] = "saveDown" /\ turn'[r].id = turn[r].id /\ turn'[r].error = "database"
          /\ health' \in {health, health \cup {new}}
      BY <1>0, <2>4 DEF Move, Rejects, RunsTypeOK, Turn
    <3>2. \A id \in listed[r] : id # turn[r].id =>
              IF id \in left[r] THEN NoRow(r, id)' ELSE Told(r, id)'
      BY <1>0, <2>1, <2>2, <3>1 DEF CheckOK, CheckPlaces, Busy
    <3>3. turn[r].id \in listed[r] => turn[r].id \notin left[r]
      BY <1>0, <2>1, <2>4 DEF CheckOK, CheckPlaces, Busy
    <3> QED BY <2>1, <3>1, <3>2, <3>3 DEF CheckOK, CollectOK, CollectPlaces, Busy
  <2>5. CASE EndTurn(r, "aborted")
    BY <1>0, <2>5 DEF EndTurn, Move, CheckOK, CollectOK, CheckPlaces, CollectPlaces, RunsTypeOK
  <2> QED BY <1>5, <2>0, <2>3, <2>4, <2>5 DEF SaveRecord, SaveDown
<1>6. CASE PruneOldRecords(r)
  <2>1. /\ at[r] = "pruneRecords" /\ at'[r] \in {"checked", "aborted"}
        /\ UNCHANGED <<left, listed, health, turn>>
    BY <1>0, <1>6 DEF PruneOldRecords, Prune, Move, RunsTypeOK
  <2> QED BY <1>0, <2>1 DEF CheckOK, CollectOK, CheckPlaces, CollectPlaces, Busy, NoRow, Told
<1> QED BY <1>2, <1>3, <1>4, <1>5, <1>6 DEF Check

LEMMA CollectStep ==
    ASSUME CoverInv, Typed', NEW r \in Runs, Collect(r)
    PROVE  CheckOK(r)' /\ CollectOK(r)'
<1>0. RunsTypeOK /\ Typed /\ CollectOK(r) /\ connections \subseteq Ids
  BY DEF CoverInv, DownInv, Typed, TypeOK, RunsTypeOK, RegistryTypeOK
<1>1. ASSUME NEW ids \in SUBSET Ids,
             Visit(r, ids, "list", "missing", "pruneMetrics"),
             \A id \in listed'[r] \ ids : id \in warned'[r] \/ Sampled(r, id, NStreams)'
      PROVE  CheckOK(r)' /\ CollectOK(r)'
  <2>1. CASE ids = {} /\ left'[r] = {} /\ at'[r] = "pruneMetrics"
    BY <1>1, <2>1 DEF CheckOK, CollectOK, CheckPlaces, Busy
  <2>2. ASSUME NEW id \in ids, left'[r] = ids \ {id}, turn'[r].id = id, turn'[r].nth = 0,
               at'[r] \in {"list", "missing"}
        PROVE  CheckOK(r)' /\ CollectOK(r)'
    <3>1. Sampled(r, id, turn[r].nth)'
      BY <2>2 DEF Sampled
    <3> QED BY <1>1, <2>2, <3>1 DEF CheckOK, CollectOK, CheckPlaces, Busy
  <2>3. \/ ids = {} /\ left'[r] = {} /\ at'[r] = "pruneMetrics"
        \/ \E id \in ids : /\ left'[r] = ids \ {id} /\ turn'[r].id = id /\ turn'[r].nth = 0
                           /\ at'[r] \in {"list", "missing"}
    BY <1>0, <1>1, VisitOutcome
  <2> QED BY <2>1, <2>2, <2>3
<1>2. CASE CollectAllSnapshots(r)
  <2> DEFINE connected == {id \in connections : handle[id] # "closed"}
  <2>1. Visit(r, connected, "list", "missing", "pruneMetrics") /\ Begin(r, connected)
    BY <1>2 DEF CollectAllSnapshots, VisitMetrics
  <2>2. listed'[r] = connected /\ connected \in SUBSET Ids
    BY <1>0, <2>1 DEF Begin, RunsTypeOK
  <2> QED BY <1>0, <1>1, <2>1, <2>2
<1>3. CASE NextCollection(r)
  <2>1. Visit(r, left[r], "list", "missing", "pruneMetrics") /\ left[r] \in SUBSET Ids
    BY <1>0, <1>3 DEF NextCollection, VisitMetrics, RunsTypeOK
  <2>2. at[r] = "collecting" /\ UNCHANGED <<listed, samples, warned>>
    BY <1>3 DEF NextCollection
  <2>3. \A id \in listed[r] \ left[r] : id \in warned[r] \/ Sampled(r, id, NStreams)
    BY <1>0, <2>2 DEF CollectOK, CollectPlaces, Busy
  <2> QED BY <1>1, <2>1, <2>2, <2>3 DEF Sampled
<1>4. ASSUME at[r] \in CollectPlaces \cap Busy, UNCHANGED <<listed, left>>,
             \A sample \in samples : sample \in samples',
             \/ GiveUp(r)
             \/ EndTurn(r, "collecting") /\ UNCHANGED warned /\ turn[r].nth = NStreams
      PROVE  CheckOK(r)' /\ CollectOK(r)'
  <2>1. at'[r] = "collecting" /\ (\A id \in warned[r] : id \in warned'[r])
    BY <1>0, <1>4 DEF GiveUp, EndTurn, Move, RunsTypeOK
  <2>2. turn[r].id \in warned'[r] \/ turn[r].nth = NStreams
    BY <1>0, <1>4 DEF GiveUp, RunsTypeOK
  <2>3. ASSUME NEW id \in listed[r] \ left[r]
        PROVE  id \in warned'[r] \/ Sampled(r, id, NStreams)'
    <3>1. \A k : Sampled(r, id, k) => Sampled(r, id, k)'
      BY <1>4 DEF Sampled
    <3>2. \/ id \in warned[r]
          \/ Sampled(r, id, NStreams)
          \/ id = turn[r].id /\ Sampled(r, id, turn[r].nth)
      BY <1>0, <1>4 DEF CollectOK
    <3>3. CASE Sampled(r, id, NStreams)
      BY <3>1, <3>3 DEF Sampled
    <3> QED BY <2>1, <2>2, <3>1, <3>2, <3>3
  <2> QED BY <1>4, <2>1, <2>3 DEF CheckOK, CollectOK, CheckPlaces, Busy
<1>5. CASE MissingConnection(r)
  BY <1>4, <1>5 DEF MissingConnection, CollectPlaces, Busy
<1>6. CASE ListStreams(r)
  <2>1. turn[r].nth = 0 /\ at[r] \in CollectPlaces \cap Busy
    BY <1>0, <1>6 DEF ListStreams, Typed, BusyOK, CollectPlaces, Busy
  <2>2. CASE GiveUp(r)
    BY <1>4, <1>6, <2>1, <2>2 DEF ListStreams
  <2>3. CASE NStreams = 0 /\ EndTurn(r, "collecting") /\ UNCHANGED warned
    BY <1>4, <1>6, <2>1, <2>3 DEF ListStreams
  <2>4. CASE Move(r, "sample") /\ UNCHANGED <<turn, warned>>
    <3>1. at'[r] = "sample" /\ UNCHANGED <<turn, warned, listed, left, samples>>
      BY <1>0, <1>6, <2>4 DEF Move, ListStreams, RunsTypeOK
    <3> QED BY <1>0, <2>1, <3>1 DEF CheckOK, CollectOK, CheckPlaces, CollectPlaces, Busy, Sampled
  <2> QED BY <1>6, <2>2, <2>3, <2>4 DEF ListStreams
<1>7. CASE SaveStreamMetric(r)
  <2>0. PICK row : row = [run |-> r, id |-> turn[r].id, nth |-> turn[r].nth + 1]
    OBVIOUS
  <2>1. /\ at[r] = "sample" /\ turn[r].nth < NStreams /\ turn[r].nth \in Nat
        /\ UNCHANGED <<listed, left>> /\ \A sample \in samples : sample \in samples'
    BY <1>0, <1>7 DEF SaveStreamMetric, Saves, Rejects, RunsTypeOK, Turn, Typed, BusyOK
  <2>2. CASE GiveUp(r)
    BY <1>4, <2>1, <2>2 DEF CollectPlaces, Busy
  <2>3. CASE /\ samples' = samples \cup {row}
             /\ turn' = [turn EXCEPT ![r].nth = turn[r].nth + 1]
             /\ Move(r, IF LastStream(turn[r].nth + 1) THEN "consumers" ELSE "sample")
             /\ UNCHANGED warned
    <3>1. /\ turn'[r].id = turn[r].id /\ turn'[r].nth = turn[r].nth + 1
          /\ at'[r] \in {"sample", "consumers"}
          /\ at'[r] = "consumers" => turn'[r].nth = NStreams
      BY <1>0, <2>3 DEF Move, LastStream, RunsTypeOK, Turn
    <3>2. ASSUME NEW id \in listed[r] \ left[r]
          PROVE  \/ id \in warned[r]
                 \/ Sampled(r, id, NStreams)'
                 \/ id = turn[r].id /\ \A n \in 1 .. turn[r].nth + 1 :
                                          [run |-> r, id |-> id, nth |-> n] \in samples'
      <4>1. CASE id \in warned[r]
        BY <4>1
      <4>2. CASE Sampled(r, id, NStreams)
        BY <2>1, <4>2 DEF Sampled
      <4>3. CASE id = turn[r].id /\ Sampled(r, id, turn[r].nth)
        <5>1. [run |-> r, id |-> id, nth |-> turn[r].nth + 1] \in samples'
          BY <2>0, <2>3, <4>3
        <5>2. \A n \in 1 .. turn[r].nth + 1 : n \in 1 .. turn[r].nth \/ n = turn[r].nth + 1
          BY <2>1
        <5> QED BY <2>1, <4>3, <5>1, <5>2 DEF Sampled
      <4> QED BY <1>0, <2>1, <4>1, <4>2, <4>3 DEF CollectOK, CollectPlaces, Busy
    <3>3. ASSUME NEW id \in listed[r] \ left[r]
          PROVE  \/ id \in warned'[r]
                 \/ Sampled(r, id, NStreams)'
                 \/ id = turn'[r].id /\ Sampled(r, id, turn[r].nth)'
      BY <2>3, <3>1, <3>2 DEF Sampled
    <3> QED BY <2>1, <2>3, <3>1, <3>3 DEF CheckOK, CollectOK, CheckPlaces, Busy
  <2> QED BY <1>7, <2>0, <2>2, <2>3 DEF SaveStreamMetric, Saves
<1>8. CASE SaveConsumerMetrics(r)
  <2>1. /\ at[r] \in CollectPlaces \cap Busy /\ turn[r].nth = NStreams
        /\ UNCHANGED <<listed, left, samples, warned>> /\ EndTurn(r, "collecting")
    BY <1>0, <1>8 DEF SaveConsumerMetrics, CollectOK, CollectPlaces, Busy
  <2> QED BY <1>4, <2>1
<1>9. CASE PruneOldMetrics(r)
  <2>1. /\ at[r] = "pruneMetrics" /\ at'[r] \in {"collected", "aborted"}
        /\ UNCHANGED <<left, listed, samples, turn, warned>>
    BY <1>0, <1>9 DEF PruneOldMetrics, Prune, Move, RunsTypeOK
  <2> QED BY <1>0, <2>1 DEF CheckOK, CollectOK, CheckPlaces, CollectPlaces, Busy, Sampled
<1> QED BY <1>2, <1>3, <1>5, <1>6, <1>7, <1>8, <1>9 DEF Collect

LEMMA CoverAlways == Spec => []CoverInv
<1>1. Init => CoverInv
  <2>1. ASSUME Init PROVE DownInv
    BY <2>1, TypeInit DEF Init, DownInv, RunFacts, Busy
  <2> QED BY <2>1 DEF Init, CoverInv, CheckOK, CollectOK, CheckPlaces, CollectPlaces
<1>2. ASSUME CoverInv, [Next]_all PROVE CoverInv'
  <2>0. DownInv /\ DownInv' /\ Typed /\ Typed' /\ Stays
    BY <1>2, DownStep, TypeStep DEF CoverInv, DownInv
  <2>1. ASSUME NEW r \in Runs, Check(r) \/ Collect(r) PROVE CoverInv'
    <3>1. CheckOK(r)' /\ CollectOK(r)'
      BY <1>2, <2>0, <2>1, CheckStep, CollectStep
    <3>2. ASSUME NEW q \in Runs, q # r PROVE CheckOK(q)' /\ CollectOK(q)'
      <4>1. UNCHANGED <<at[q], turn[q], left[q]>>
        BY <2>0, <2>1, <3>2, RunFactsStep
      <4>2. RowsStay(q) /\ UNCHANGED <<listed[q], warned[q]>>
        BY <2>0, <2>1, <3>2, RowsAreOwn
      <4>3. CheckOK(q) /\ CollectOK(q)
        BY <1>2 DEF CoverInv
      <4> QED BY <2>0, <4>1, <4>2, <4>3, CoverAside
    <3> QED BY <2>0, <3>1, <3>2 DEF CoverInv
  <2>2. ASSUME UNCHANGED runs PROVE CoverInv'
    <3>1. \A q \in Runs : RowsStay(q) /\ UNCHANGED <<at[q], turn[q], left[q], listed[q], warned[q]>>
      BY <2>2 DEF runs, RowsStay
    <3>2. \A q \in Runs : CheckOK(q)' /\ CollectOK(q)'
      BY <1>2, <2>0, <3>1, CoverAside DEF CoverInv
    <3> QED BY <2>0, <3>2 DEF CoverInv
  <2>3. CASE Clock \/ Service \/ UNCHANGED all
    BY <2>2, <2>3 DEF Clock, Service, monitors, all
  <2>4. TypeOK
    BY <2>0 DEF Typed
  <2> QED BY <1>2, <2>1, <2>2, <2>3, <2>4, TailsType DEF Next
<1> QED BY <1>1, <1>2, PTL DEF Spec

\* No connection a run listed is passed over, for any number of connections,
\* streams and overlapping runs: a health run that finished told of each once, or
\* of the database, and a metrics run sampled or gave up each.
THEOREM RunsCover == Spec => []RunsCoverTheirList
<1>1. CoverInv => RunsCoverTheirList
  <2>1. ASSUME CoverInv, NEW r \in Runs, NEW id \in listed[r], at[r] = "checked"
        PROVE  LET rows == {row \in health : row.run = r /\ row.id = id} IN
               (\E row \in rows : row.error = "database") \/ (\E row \in rows : rows = {row})
    <3>1. Told(r, id)
      BY <2>1 DEF CoverInv, CheckOK, CheckPlaces, Busy
    <3> QED BY <3>1 DEF Told
  <2>2. ASSUME CoverInv, NEW r \in Runs, NEW id \in listed[r], at[r] = "collected",
               id \notin warned[r]
        PROVE  \A n \in 1 .. NStreams : [run |-> r, id |-> id, nth |-> n] \in samples
    <3>1. Sampled(r, id, NStreams)
      BY <2>2 DEF CoverInv, CollectOK, CollectPlaces, Busy
    <3> QED BY <3>1 DEF Sampled
  <2> QED BY <2>1, <2>2 DEF RunsCoverTheirList
<1> QED BY <1>1, CoverAlways, PTL


-----------------------------------------------------------------------------
(* The registry under the monitors is the registry that Connections          *)
(* implements: monitors act on it through its own operations alone.          *)

\* When the module is destroyed, open tails have lost their connections.
TailsUp == shutdown = "down" => \A t \in Tails : tail[t] \notin connections

\* The connection of a tail was registered.
TailsHad == \A t \in Tails : tail[t] # None => tail[t] \in Had

ViewInv == Typed /\ TailsUp /\ TailsHad

LEMMA ViewStep ==
    ASSUME ViewInv, [Next]_all
    PROVE  TailsUp' /\ TailsHad'
<1>0. Typed /\ TailsTypeOK /\ RegistryTypeOK /\ connections \subseteq Had /\ None \notin connections
  BY DEF ViewInv, Typed, TypeOK, TailsTypeOK, Base, RegistryTypeOK
<1>1. Stays /\ connections' \subseteq Ids
  BY <1>0, BaseStep DEF Typed, Base, RegistryTypeOK
<1>2. \A id \in Had : id \in Had' /\ (id \in connections' => id \in connections)
  BY <1>1 DEF Stays, Had
<1>3. ASSUME UNCHANGED tail, shutdown' # "down" \/ (shutdown = "down") \/ connections' = {}
      PROVE  TailsUp' /\ TailsHad'
  <2>1. TailsHad'
    BY <1>2, <1>3 DEF ViewInv, TailsHad
  <2>2. ASSUME shutdown' = "down", NEW t \in Tails PROVE tail[t] \notin connections'
    <3>1. CASE connections' = {}
      BY <3>1
    <3>2. CASE shutdown = "down" /\ tail[t] = None
      BY <1>1, <3>2
    <3>3. CASE shutdown = "down" /\ tail[t] # None
      BY <1>2, <3>3 DEF ViewInv, TailsUp, TailsHad
    <3> QED BY <1>3, <2>2, <3>1, <3>2, <3>3
  <2> QED BY <1>3, <2>1, <2>2 DEF TailsUp
<1>4. CASE Clock
  BY <1>3, <1>4 DEF Clock, Pass
<1>5. CASE RegistryStep /\ UNCHANGED tail
  <2>1. shutdown' # "down" \/ shutdown = "down" \/ connections' = {}
    BY <1>5 DEF RegistryStep, Enter, Use, BeginLeave, EndLeave, FinishDrain, Lose, Expire,
       BeginShutdown, EndShutdown, Leave
  <2> QED BY <1>3, <1>5, <2>1
<1>6. ASSUME NEW r \in Runs, Check(r) \/ Collect(r) PROVE TailsUp' /\ TailsHad'
  BY <1>3, <1>6, RunsLook DEF registryVars, tails
<1>7. ASSUME NEW t \in Tails, Activity(t) PROVE TailsUp' /\ TailsHad'
  BY <1>3, <1>7 DEF Activity, others
<1>8. ASSUME NEW t \in Tails, TailCompletes(t) \/ TailLeaves(t) PROVE TailsUp' /\ TailsHad'
  BY <1>0, <1>8 DEF TailCompletes, TailLeaves, EndTail, registryVars, TailsTypeOK, ViewInv,
     TailsUp, TailsHad, Had
<1>9. ASSUME NEW t \in Tails, NEW id \in Ids, TailMessages(t, id) PROVE TailsUp' /\ TailsHad'
  BY <1>0, <1>9 DEF TailMessages, others, TailsTypeOK, ViewInv, TailsUp, TailsHad, Had
<1>10. ASSUME NEW t \in Tails, NEW id \in Ids, TailRefused(t, id) PROVE TailsUp' /\ TailsHad'
  BY <1>5, <1>10 DEF TailRefused, RegistryStep, monitors, tails
<1>11. CASE UNCHANGED all
  BY <1>3, <1>11 DEF all, registryVars, monitors, tails
<1> QED
  BY <1>4, <1>5, <1>6, <1>7, <1>8, <1>9, <1>10, <1>11 DEF Next, Service, monitors, tails

(* Activity of a tail is a use of its connection, or nothing when that is    *)
(* gone; runs do nothing; the clock is the registry's.                       *)
LEMMA StepMaps ==
    ASSUME ViewInv, [Next]_all
    PROVE  [RegistryNext]_registryVars
<1>0. TailsTypeOK /\ RegistryTypeOK /\ None \notin connections
  BY DEF ViewInv, Typed, TypeOK, TailsTypeOK, RegistryTypeOK
<1>1. CASE RegistryStep \/ Pass
  BY <1>1 DEF RegistryNext
<1>2. ASSUME UNCHANGED registryVars PROVE [RegistryNext]_registryVars
  BY <1>2
<1>3. ASSUME NEW id \in Ids, Touch(id), UNCHANGED others, id \in connections => shutdown # "down"
      PROVE  [RegistryNext]_registryVars
  <2>1. CASE id \in connections
    <3>1. Use(id)
      BY <1>0, <1>3, <2>1 DEF Touch, Use, others, RegistryTypeOK
    <3> QED BY <1>1, <3>1 DEF RegistryStep
  <2>2. CASE id \notin connections
    <3>1. idle' = idle
      BY <1>0, <1>3, <2>2 DEF Touch, RegistryTypeOK
    <3> QED BY <1>3, <3>1 DEF others, registryVars
  <2> QED BY <2>1, <2>2
<1>4. ASSUME NEW r \in Runs, Check(r) \/ Collect(r) PROVE [RegistryNext]_registryVars
  BY <1>2, <1>4, RunsLook
<1>5. ASSUME NEW t \in Tails, Activity(t) PROVE [RegistryNext]_registryVars
  <2>1. tail[t] \in Ids /\ (tail[t] \in connections => shutdown # "down")
    BY <1>0, <1>5 DEF Activity, TailsTypeOK, ViewInv, TailsUp
  <2> QED BY <1>3, <1>5, <2>1 DEF Activity
<1>6. ASSUME NEW t \in Tails, TailCompletes(t) \/ TailLeaves(t) PROVE [RegistryNext]_registryVars
  BY <1>2, <1>6 DEF TailCompletes, TailLeaves, EndTail
<1>7. ASSUME NEW t \in Tails, NEW id \in Ids, TailMessages(t, id) PROVE [RegistryNext]_registryVars
  BY <1>3, <1>7 DEF TailMessages
<1>8. ASSUME NEW t \in Tails, NEW id \in Ids, TailRefused(t, id) PROVE [RegistryNext]_registryVars
  BY <1>1, <1>8 DEF TailRefused, RegistryStep
<1>9. CASE UNCHANGED all
  BY <1>2, <1>9 DEF all
<1> QED
  BY <1>1, <1>4, <1>5, <1>6, <1>7, <1>8, <1>9 DEF Next, Service, Clock

(* Seen through the registry alone, health checks, collections and tails are *)
(* nothing but uses of connections: what Connections is shown to implement   *)
(* is all that happens to the registry, whoever watches it.                  *)
THEOREM RegistryRespected == Spec => RegistrySpec
<1>1. Init => ViewInv
  BY TypeInit DEF Init, RegistryInit, ViewInv, TailsUp, TailsHad
<1>2. ViewInv /\ [Next]_all => ViewInv'
  BY TypeStep, ViewStep DEF ViewInv
<1>3. ViewInv /\ [Next]_all => [RegistryNext]_registryVars
  BY StepMaps
<1>4. Init => RegistryInit
  BY DEF Init
<1> QED BY <1>1, <1>2, <1>3, <1>4, PTL DEF Spec, RegistrySpec
=============================================================================
