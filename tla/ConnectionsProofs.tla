--------------------------- MODULE ConnectionsProofs ---------------------------
(* Proofs about Connections, for all sets of requests and every timeout.    *)
EXTENDS Connections, TLAPS

USE DEF Procs, Owners

(* The loop of createConnection has three outcomes.                         *)
LEMMA RemoveNextCases ==
    ASSUME NEW c, NEW ids, RemoveNext(c, ids)
    PROVE  \/ ids = {} /\ todo' = [todo EXCEPT ![c] = {}] /\ BeginConnecting(c)
           \/ \E id \in ids : /\ todo' = [todo EXCEPT ![c] = ids \ {id}]
                              /\ BeginRemoval(c, id)
           \/ \E id \in ids : /\ todo' = [todo EXCEPT ![c] = ids \ {id}]
                              /\ id \notin connections
                              /\ pc' = [pc EXCEPT ![c] = "loop"]
                              /\ UNCHANGED <<registry, handles, target, accepted, destroy>>
BY DEF RemoveNext

(* The first stretch of a removal keeps the variables well typed.           *)
LEMMA BeginRemovalType ==
    ASSUME TypeOK, NEW p \in Procs, NEW id \in Creators, BeginRemoval(p, id),
           existing' \in [Creators -> SUBSET Creators],
           todo' \in [Creators -> SUBSET Creators]
    PROVE  TypeOK'
BY DEF TypeOK, BeginRemoval, AfterDrainCall, HandleStates, PcStates, InCreate, Draining,
       registry, destroy

(* So does an iteration of the loop of createConnection.                    *)
LEMMA RemoveNextType ==
    ASSUME TypeOK, NEW c \in Creators, NEW ids \in SUBSET Creators, RemoveNext(c, ids),
           existing' \in [Creators -> SUBSET Creators]
    PROVE  TypeOK'
<1>0. \A id : [todo EXCEPT ![c] = ids \ {id}] \in [Creators -> SUBSET Creators]
  BY DEF TypeOK
<1>1. CASE ids = {} /\ todo' = [todo EXCEPT ![c] = {}] /\ BeginConnecting(c)
  BY <1>1 DEF BeginConnecting, TypeOK, HandleStates, PcStates, InCreate, Draining,
              registry, destroy
<1>2. CASE \E id \in ids : /\ todo' = [todo EXCEPT ![c] = ids \ {id}]
                          /\ BeginRemoval(c, id)
  BY <1>0, <1>2, BeginRemovalType
<1>3. CASE \E id \in ids : /\ todo' = [todo EXCEPT ![c] = ids \ {id}]
                          /\ id \notin connections
                          /\ pc' = [pc EXCEPT ![c] = "loop"]
                          /\ UNCHANGED <<registry, handles, target, accepted, destroy>>
  BY <1>0, <1>3 DEF TypeOK, PcStates, InCreate, registry, handles, destroy
<1> QED
  BY <1>1, <1>2, <1>3, RemoveNextCases

(* Type correctness: every step keeps the registry's variables well typed.  *)
LEMMA TypeStep == TypeOK /\ [Next]_vars => TypeOK'
<1> SUFFICES ASSUME TypeOK, [Next]_vars PROVE TypeOK'
  OBVIOUS
<1> USE RequestsAreDistinct, TimeoutIsNat
    DEF TypeOK, HandleStates, PcStates, InCreate, Draining,
        registry, handles, loop, destroy
<1>1. ASSUME NEW c \in Creators, CreateConnection(c) PROVE TypeOK'
  <2>0. existing' \in [Creators -> SUBSET Creators] /\ RemoveNext(c, connections)
    BY <1>1 DEF CreateConnection
  <2>. QED BY <2>0, RemoveNextType
<1>2. ASSUME NEW r \in Removers, NEW id \in Creators, RemoveConnection(r, id)
      PROVE TypeOK'
  BY <1>2 DEF RemoveConnection, BeginRemoval, AfterDrainCall
<1>3. ASSUME NEW r \in Removers, NEW id \in Creators, RemoveUnknown(r, id)
      PROVE TypeOK'
  BY <1>3 DEF RemoveUnknown
<1>4. ASSUME NEW p \in Procs, DrainSys(p) PROVE TypeOK'
  BY <1>4 DEF DrainSys, AfterDrainCall, HasSys
<1>5. ASSUME NEW p \in Procs, FinishRemoval(p) PROVE TypeOK'
  BY <1>5 DEF FinishRemoval, Forget
<1>6. ASSUME NEW c \in Creators, ContinueCreate(c) PROVE TypeOK'
  <2>0. existing' \in [Creators -> SUBSET Creators] /\ RemoveNext(c, todo[c])
    BY <1>6 DEF ContinueCreate
  <2>. QED BY <2>0, RemoveNextType
<1>7. ASSUME NEW c \in Creators, ConnectFails(c) \/ BothSettled(c) \/ JetStreamFails(c)
      PROVE TypeOK'
  BY <1>7 DEF ConnectFails, BothSettled, JetStreamFails
<1>8. ASSUME NEW c \in Creators, Register(c) PROVE TypeOK'
  BY <1>8 DEF Register
<1>9. ASSUME NEW t \in Testers, TestConnection(t) \/ ResumeTest(t) PROVE TypeOK'
  BY <1>9 DEF TestConnection, ResumeTest, TestRefused, TestProbe, TestDrain, TestDone,
              AfterDrainCall
<1>10. ASSUME NEW id \in Creators, Access(id) PROVE TypeOK'
  BY <1>10 DEF Access
<1>11. ASSUME NEW id \in Creators, NatsSys(id) PROVE TypeOK'
  BY <1>11 DEF NatsSys, SysSettles, SysDrained, SysLost
<1>12. ASSUME NEW o \in Owners, Nats(o) PROVE TypeOK'
  BY <1>12 DEF Nats, MainSettles, MainDrained, MainLost
<1>13. CASE Tick
  BY <1>13 DEF Tick
<1>14. CASE Cleanup
  BY <1>14 DEF Cleanup, Expired, Forget, AfterDrainCall
<1>15. CASE BeginDestroy
  BY <1>15 DEF BeginDestroy, AfterDrainCall
<1>16. CASE EndDestroy
  BY <1>16 DEF EndDestroy, Forget
<1>17. CASE UNCHANGED vars
  BY <1>17 DEF vars
<1> QED
  BY <1>1, <1>2, <1>3, <1>4, <1>5, <1>6, <1>7, <1>8, <1>9, <1>10, <1>11, <1>12,
     <1>13, <1>14, <1>15, <1>16, <1>17 DEF Next, Resume

(* The registry's variables stay well typed, in every behaviour.            *)
THEOREM TypeCorrect == Spec => []TypeOK
<1>1. Init => TypeOK
  BY TimeoutIsNat DEF Init, TypeOK, HandleStates, PcStates, InCreate, Draining
<1> QED
  BY <1>1, TypeStep, PTL DEF Spec

-----------------------------------------------------------------------------
(* The inductive invariant.                                                *)

\* What a request in flight, or over, knows of the handles it touches.
HandlesFollowRequests ==
    /\ \A id \in connections : Registered(id)
    /\ \A c \in Creators :
        /\ pc[c] # "removed"
        /\ pc[c] = "jetstream" => main[c] \in {"open", "closed"}
        /\ Registered(c) => main[c] \in {"open", "draining", "closed"}
        /\ pc[c] \in {"jetstream", "registered"} => sys[c] # "connecting"
    /\ \A p \in Procs :
        pc[p] \in Draining =>
            /\ target[p] \in Creators
            /\ Registered(target[p])
            /\ main[target[p]] \in {"draining", "closed"}
            /\ pc[p] = "drainSys" => sys[target[p]] \in {"draining", "closed"}

\* The snapshot of a create: all of it was registered, and what is still in the
\* Map is yet to be visited or is being removed.
SnapshotShrinks ==
    \A c \in Creators :
        /\ \A d \in existing[c] : Registered(d)
        /\ \A d \in existing[c] \cap connections : d \in todo[c] \/ Removing(c, d)
        /\ pc[c] \notin Draining \cup {"loop"} => todo[c] = {}

\* A disconnect that was answered: its target was registered.
DisconnectedWasRegistered ==
    \A r \in Removers :
        pc[r] = "removed" =>
            /\ target[r] \in Creators
            /\ Registered(target[r])
            /\ target[r] \notin connections
            /\ main[target[r]] \in {"draining", "closed"}
            /\ sys[target[r]] \notin {"open", "connecting"}

Core ==
    /\ HandlesFollowRequests
    /\ SnapshotShrinks
    /\ DisconnectedWasRegistered
    /\ DrainingEntryHasRemover
    /\ RetiredMainIsDrained

IInv == TypeOK /\ Core

\* With serial connects: one create at a time, which saw all there is.
SerialInv ==
    SerialCreates =>
        /\ SingleConnection
        /\ \A c, d \in Creators : pc[c] \in InCreate /\ pc[d] \in InCreate => c = d
        /\ \A c \in Creators : pc[c] \in InCreate => connections \subseteq existing[c]

-----------------------------------------------------------------------------
(* Steps that move no request and no handle of the registry.                *)
LEMMA QuietStep ==
    ASSUME IInv, TypeOK',
           UNCHANGED <<connections, sys, target, existing, todo, shutdown>>,
           \A p \in Procs : pc'[p] = pc[p],
           \A c \in Creators : main'[c] = main[c]
    PROVE  Core'
<1> USE DEF IInv, Core, TypeOK, Registered, Removing, Draining
<1>1. HandlesFollowRequests'
  BY DEF HandlesFollowRequests
<1>2. SnapshotShrinks'
  BY DEF SnapshotShrinks
<1>3. DisconnectedWasRegistered'
  BY DEF DisconnectedWasRegistered
<1>4. DrainingEntryHasRemover'
  BY DEF DrainingEntryHasRemover
<1>5. RetiredMainIsDrained'
  BY DEF RetiredMainIsDrained
<1> QED BY <1>1, <1>2, <1>3, <1>4, <1>5

(* A removal starts: its target is drained, and the request is bound to it. *)
LEMMA BeginRemovalStep ==
    ASSUME IInv, TypeOK', NEW p \in Procs, NEW id \in Creators, BeginRemoval(p, id),
           pc[p] \in {"idle", "loop"},
           SnapshotShrinks'
    PROVE  Core'
<1> USE RequestsAreDistinct
    DEF IInv, Core, TypeOK, Registered, Removing, Draining, BeginRemoval, AfterDrainCall,
        registry, destroy, HandlesFollowRequests
<1>1. HandlesFollowRequests'
  OBVIOUS
<1>3. DisconnectedWasRegistered'
  BY DEF DisconnectedWasRegistered
<1>4. DrainingEntryHasRemover'
  BY DEF DrainingEntryHasRemover
<1>5. RetiredMainIsDrained'
  BY DEF RetiredMainIsDrained
<1> QED BY <1>1, <1>3, <1>4, <1>5

(* One iteration of the loop of createConnection; ids bounds what is left.   *)
LEMMA RemoveNextStep ==
    ASSUME IInv, TypeOK', NEW c \in Creators, NEW ids \in SUBSET Creators,
           RemoveNext(c, ids), pc[c] \in {"idle", "loop"},
           \A d \in Creators \ {c} : existing'[d] = existing[d],
           \A d \in existing'[c] : Registered(d),
           existing'[c] \cap connections \subseteq ids
    PROVE  Core'
<1> USE RequestsAreDistinct
    DEF IInv, Core, TypeOK, Registered, Removing, Draining, HandlesFollowRequests,
        registry, handles, destroy
<1>1. CASE ids = {} /\ todo' = [todo EXCEPT ![c] = {}] /\ BeginConnecting(c)
  <2> USE <1>1 DEF BeginConnecting
  <2>1. HandlesFollowRequests'
    OBVIOUS
  <2>2. SnapshotShrinks'
    BY DEF SnapshotShrinks
  <2>3. DisconnectedWasRegistered'
    BY DEF DisconnectedWasRegistered
  <2>4. DrainingEntryHasRemover'
    BY DEF DrainingEntryHasRemover
  <2>5. RetiredMainIsDrained'
    BY DEF RetiredMainIsDrained
  <2> QED BY <2>1, <2>2, <2>3, <2>4, <2>5
<1>2. ASSUME NEW id \in ids, todo' = [todo EXCEPT ![c] = ids \ {id}], BeginRemoval(c, id)
      PROVE Core'
  <2>1. SnapshotShrinks'
    BY <1>2 DEF SnapshotShrinks, BeginRemoval
  <2> QED BY <1>2, <2>1, BeginRemovalStep
<1>3. ASSUME NEW id \in ids, todo' = [todo EXCEPT ![c] = ids \ {id}],
             id \notin connections, pc' = [pc EXCEPT ![c] = "loop"],
             UNCHANGED <<registry, handles, target, accepted, destroy>>
      PROVE Core'
  <2> USE <1>3
  <2>1. HandlesFollowRequests'
    OBVIOUS
  <2>2. SnapshotShrinks'
    BY DEF SnapshotShrinks
  <2>3. DisconnectedWasRegistered'
    BY DEF DisconnectedWasRegistered
  <2>4. DrainingEntryHasRemover'
    BY DEF DrainingEntryHasRemover
  <2>5. RetiredMainIsDrained'
    BY DEF RetiredMainIsDrained
  <2> QED BY <2>1, <2>2, <2>3, <2>4, <2>5
<1> QED
  BY <1>1, <1>2, <1>3, RemoveNextCases

(* The system handle is drained between the main handle and the delete.      *)
LEMMA DrainSysStep ==
    ASSUME IInv, TypeOK', NEW p \in Procs, DrainSys(p)
    PROVE  Core'
<1> USE RequestsAreDistinct
    DEF IInv, Core, TypeOK, Registered, Removing, Draining, HandlesFollowRequests,
        registry, loop, destroy, DrainSys, HasSys, AfterDrainCall
<1>1. HandlesFollowRequests'
  OBVIOUS
<1>2. SnapshotShrinks'
  BY DEF SnapshotShrinks
<1>3. DisconnectedWasRegistered'
  BY DEF DisconnectedWasRegistered
<1>4. DrainingEntryHasRemover'
  BY DEF DrainingEntryHasRemover
<1>5. RetiredMainIsDrained'
  BY DEF RetiredMainIsDrained
<1> QED BY <1>1, <1>2, <1>3, <1>4, <1>5

(* The entry is deleted; whoever drained it has nothing left to delete.      *)
LEMMA FinishRemovalStep ==
    ASSUME IInv, TypeOK', NEW p \in Procs, FinishRemoval(p)
    PROVE  Core'
<1> USE RequestsAreDistinct
    DEF IInv, Core, TypeOK, Registered, Removing, Draining, HandlesFollowRequests,
        handles, loop, destroy, FinishRemoval, Forget, HasSys, HandleStates
<1>1. HandlesFollowRequests'
  OBVIOUS
<1>2. SnapshotShrinks'
  BY DEF SnapshotShrinks
<1>3. DisconnectedWasRegistered'
  BY DEF DisconnectedWasRegistered
<1>4. DrainingEntryHasRemover'
  BY DEF DrainingEntryHasRemover
<1>5. RetiredMainIsDrained'
  BY DEF RetiredMainIsDrained
<1> QED BY <1>1, <1>2, <1>3, <1>4, <1>5

(* A create whose attempts settled goes on, fails, or registers.             *)
LEMMA ConnectedStep ==
    ASSUME IInv, TypeOK', NEW c \in Creators,
           ConnectFails(c) \/ BothSettled(c) \/ JetStreamFails(c) \/ Register(c)
    PROVE  Core'
<1> USE RequestsAreDistinct
    DEF IInv, Core, TypeOK, Registered, Removing, Draining, HandlesFollowRequests,
        registry, handles, loop, destroy,
        ConnectFails, BothSettled, JetStreamFails, Register
<1>1. HandlesFollowRequests'
  OBVIOUS
<1>2. SnapshotShrinks'
  BY DEF SnapshotShrinks
<1>3. DisconnectedWasRegistered'
  BY DEF DisconnectedWasRegistered
<1>4. DrainingEntryHasRemover'
  BY DEF DrainingEntryHasRemover
<1>5. RetiredMainIsDrained'
  BY DEF RetiredMainIsDrained
<1> QED BY <1>1, <1>2, <1>3, <1>4, <1>5

(* The handles of the library move by themselves.                            *)
LEMMA NatsStep ==
    ASSUME IInv, TypeOK',
           \/ \E o \in Creators : Nats(o)
           \/ \E id \in Creators : NatsSys(id)
    PROVE  Core'
<1> USE RequestsAreDistinct
    DEF IInv, Core, TypeOK, Registered, Removing, Draining, HandlesFollowRequests,
        registry, loop, destroy, Nats, NatsSys,
        MainSettles, MainDrained, MainLost, SysSettles, SysDrained, SysLost
<1>1. HandlesFollowRequests'
  OBVIOUS
<1>2. SnapshotShrinks'
  BY DEF SnapshotShrinks
<1>3. DisconnectedWasRegistered'
  BY DEF DisconnectedWasRegistered
<1>4. DrainingEntryHasRemover'
  BY DEF DrainingEntryHasRemover
<1>5. RetiredMainIsDrained'
  BY DEF RetiredMainIsDrained
<1> QED BY <1>1, <1>2, <1>3, <1>4, <1>5

(* Expiry and shutdown take entries out of the Map, their nc drained.        *)
LEMMA SweepStep ==
    ASSUME IInv, TypeOK', Cleanup \/ BeginDestroy \/ EndDestroy
    PROVE  Core'
<1> USE RequestsAreDistinct
    DEF IInv, Core, TypeOK, Registered, Removing, Draining, HandlesFollowRequests,
        registry, handles, loop, destroy, AfterDrainCall, Forget, Expired,
        Cleanup, BeginDestroy, EndDestroy
<1>1. HandlesFollowRequests'
  OBVIOUS
<1>2. SnapshotShrinks'
  BY DEF SnapshotShrinks
<1>3. DisconnectedWasRegistered'
  BY DEF DisconnectedWasRegistered
<1>4. DrainingEntryHasRemover'
  BY DEF DrainingEntryHasRemover
<1>5. RetiredMainIsDrained'
  BY DEF RetiredMainIsDrained
<1> QED BY <1>1, <1>2, <1>3, <1>4, <1>5

(* Every step keeps the inductive invariant.                                *)
LEMMA InductiveStep == IInv /\ [Next]_vars => IInv'
<1> SUFFICES ASSUME IInv, [Next]_vars PROVE IInv'
  OBVIOUS
<1>0. TypeOK /\ TypeOK'
  BY TypeStep DEF IInv
<1> USE <1>0
<1>1. ASSUME NEW c \in Creators, CreateConnection(c) PROVE Core'
  <2>1. /\ RemoveNext(c, connections)
        /\ pc[c] = "idle"
        /\ existing' = [existing EXCEPT ![c] = connections]
    BY <1>1 DEF CreateConnection
  <2>2. \A d \in connections : Registered(d)
    BY DEF IInv, Core, HandlesFollowRequests
  <2> QED BY <2>1, <2>2, RemoveNextStep DEF TypeOK
<1>2. ASSUME NEW r \in Removers, NEW id \in Creators, RemoveConnection(r, id)
      PROVE Core'
  <2>1. BeginRemoval(r, id) /\ pc[r] = "idle" /\ UNCHANGED loop
    BY <1>2 DEF RemoveConnection, loop
  <2>2. SnapshotShrinks'
    BY <2>1, RequestsAreDistinct
       DEF SnapshotShrinks, IInv, Core, BeginRemoval, Registered, Removing, Draining,
           registry, loop, TypeOK
  <2> QED BY <2>1, <2>2, BeginRemovalStep
<1>3. ASSUME NEW r \in Removers, NEW id \in Creators, RemoveUnknown(r, id)
      PROVE Core'
  <2> USE <1>3, RequestsAreDistinct
      DEF IInv, Core, TypeOK, Registered, Removing, Draining, RemoveUnknown,
          registry, handles, loop, destroy, HandlesFollowRequests
  <2>1. HandlesFollowRequests'
    OBVIOUS
  <2>2. SnapshotShrinks'
    BY DEF SnapshotShrinks
  <2>3. DisconnectedWasRegistered'
    BY DEF DisconnectedWasRegistered
  <2>4. DrainingEntryHasRemover'
    BY DEF DrainingEntryHasRemover
  <2>5. RetiredMainIsDrained'
    BY DEF RetiredMainIsDrained
  <2> QED BY <2>1, <2>2, <2>3, <2>4, <2>5
<1>4. ASSUME NEW p \in Procs, DrainSys(p) PROVE Core'
  BY <1>4, DrainSysStep
<1>5. ASSUME NEW p \in Procs, FinishRemoval(p) PROVE Core'
  BY <1>5, FinishRemovalStep
<1>6. ASSUME NEW c \in Creators, ContinueCreate(c) PROVE Core'
  <2>1. RemoveNext(c, todo[c]) /\ pc[c] = "loop" /\ UNCHANGED existing
    BY <1>6 DEF ContinueCreate
  <2>2. /\ \A d \in existing[c] : Registered(d)
        /\ existing[c] \cap connections \subseteq todo[c]
    BY <2>1 DEF IInv, Core, SnapshotShrinks, Removing, Draining
  <2> QED BY <2>1, <2>2, RemoveNextStep DEF TypeOK
<1>7. ASSUME NEW c \in Creators,
             ConnectFails(c) \/ BothSettled(c) \/ JetStreamFails(c) \/ Register(c)
      PROVE Core'
  BY <1>7, ConnectedStep
<1>9. ASSUME NEW t \in Testers, TestConnection(t) \/ ResumeTest(t) PROVE Core'
  BY <1>9, QuietStep, RequestsAreDistinct
     DEF TestConnection, ResumeTest, TestRefused, TestProbe, TestDrain, TestDone,
         TypeOK, registry, handles, loop, destroy
<1>10. ASSUME NEW id \in Creators, Access(id) PROVE Core'
  BY <1>10, QuietStep DEF Access, handles, loop, destroy
<1>11. ASSUME NEW id \in Creators, NatsSys(id) PROVE Core'
  BY <1>11, NatsStep
<1>12. ASSUME NEW o \in Owners, Nats(o) PROVE Core'
  <2>1. CASE o \in Creators
    BY <1>12, <2>1, NatsStep
  <2>2. CASE o \in Testers
    BY <1>12, <2>2, QuietStep, RequestsAreDistinct
       DEF Nats, MainSettles, MainDrained, MainLost, TypeOK, registry, loop, destroy
  <2> QED BY <2>1, <2>2
<1>13. ASSUME Tick PROVE Core'
  BY <1>13, QuietStep DEF Tick, handles, loop, destroy
<1>14. ASSUME Cleanup \/ BeginDestroy \/ EndDestroy PROVE Core'
  BY <1>14, SweepStep
<1>15. ASSUME UNCHANGED vars PROVE Core'
  BY <1>15, QuietStep DEF vars
<1> QED
  BY <1>1, <1>2, <1>3, <1>4, <1>5, <1>6, <1>7, <1>9, <1>10, <1>11, <1>12,
     <1>13, <1>14, <1>15 DEF Next, Resume, IInv

(* The inductive invariant holds, so each of its parts does.                *)
LEMMA Inductive == Spec => []IInv
<1>1. Init => IInv
  <2> SUFFICES ASSUME Init PROVE IInv
    OBVIOUS
  <2>1. TypeOK
    BY TimeoutIsNat DEF Init, TypeOK, HandleStates, PcStates, InCreate, Draining
  <2>2. Core
    BY DEF Init, Core, HandlesFollowRequests, SnapshotShrinks, DisconnectedWasRegistered,
           DrainingEntryHasRemover, RetiredMainIsDrained, Registered, Removing, Draining
  <2> QED BY <2>1, <2>2 DEF IInv
<1> QED
  BY <1>1, InductiveStep, PTL DEF Spec

(* createConnection replaces what its snapshot saw, for good.               *)
THEOREM Replacement == Spec => []ReplacesWhatItSaw
<1>1. IInv => ReplacesWhatItSaw
  BY DEF IInv, Core, SnapshotShrinks, ReplacesWhatItSaw, Removing, Draining
<1> QED BY <1>1, Inductive, PTL

(* An entry whose main handle is being drained has a request to delete it,  *)
(* and no route out of the Map drops an open main handle.                   *)
THEOREM MainsDrained == Spec => []MainHandlesAreDrained
<1>1. IInv => MainHandlesAreDrained
  BY DEF IInv, Core, MainHandlesAreDrained
<1> QED BY <1>1, Inductive, PTL

\* What a connection test in flight, or over, knows of its handle.
TestsFollowHandles ==
    \A t \in Testers :
        /\ pc[t] = "testProbe" => main[t] \in {"open", "closed"}
        /\ pc[t] = "testDrain" => main[t] = "closed" \/ (main[t] = "draining" /\ accepted[t])
        /\ pc[t] = "tested" => main[t] \in {"failed", "closed"}

(* Steps of other requests do not touch the handle of a test.               *)
LEMMA TestsAside ==
    ASSUME TestsFollowHandles,
           \A t \in Testers : main'[t] = main[t] /\ pc'[t] = pc[t] /\ accepted'[t] = accepted[t]
    PROVE  TestsFollowHandles'
BY DEF TestsFollowHandles

(* Every step keeps what the tests know.                                    *)
LEMMA TestsStep == IInv /\ TestsFollowHandles /\ [Next]_vars => TestsFollowHandles'
<1> SUFFICES ASSUME IInv, TestsFollowHandles, [Next]_vars PROVE TestsFollowHandles'
  OBVIOUS
<1>0. TypeOK
  BY DEF IInv
<1> USE <1>0, RequestsAreDistinct DEF TypeOK, registry, handles, loop, destroy
<1>1. ASSUME NEW p \in Procs, NEW id \in Creators, BeginRemoval(p, id) PROVE TestsFollowHandles'
  BY <1>1, TestsAside DEF BeginRemoval
<1>2. ASSUME NEW c \in Creators, NEW ids \in SUBSET Creators, RemoveNext(c, ids)
      PROVE TestsFollowHandles'
  BY <1>1, <1>2, RemoveNextCases, TestsAside DEF BeginConnecting
<1>3. ASSUME NEW c \in Creators, CreateConnection(c) \/ ContinueCreate(c) PROVE TestsFollowHandles'
  BY <1>2, <1>3 DEF CreateConnection, ContinueCreate
<1>4. ASSUME NEW r \in Removers, NEW id \in Creators, RemoveConnection(r, id) \/ RemoveUnknown(r, id)
      PROVE TestsFollowHandles'
  BY <1>1, <1>4, TestsAside DEF RemoveConnection, RemoveUnknown
<1>5. ASSUME NEW p \in Procs, Resume(p) PROVE TestsFollowHandles'
  BY <1>3, <1>5, TestsAside
     DEF Resume, DrainSys, FinishRemoval, ConnectFails, BothSettled, JetStreamFails, Register
<1>6. ASSUME NEW t \in Testers, TestConnection(t) \/ ResumeTest(t) PROVE TestsFollowHandles'
  BY <1>6 DEF TestConnection, ResumeTest, TestRefused, TestProbe, TestDrain, TestDone,
              AfterDrainCall, TestsFollowHandles
<1>7. ASSUME NEW id \in Creators, Access(id) \/ NatsSys(id) PROVE TestsFollowHandles'
  BY <1>7, TestsAside DEF Access, NatsSys, SysSettles, SysDrained, SysLost
<1>8. ASSUME NEW o \in Owners, Nats(o) PROVE TestsFollowHandles'
  BY <1>8 DEF Nats, MainSettles, MainDrained, MainLost, TestsFollowHandles
<1>9. CASE Tick \/ Cleanup \/ BeginDestroy \/ EndDestroy \/ UNCHANGED vars
  BY <1>9, TestsAside DEF Tick, Cleanup, Expired, BeginDestroy, EndDestroy, vars
<1> QED
  BY <1>3, <1>4, <1>5, <1>6, <1>7, <1>8, <1>9 DEF Next

(* An answered disconnect leaves neither the entry nor an open handle, and an
   answered test has closed its own.                                        *)
THEOREM Answered == Spec => []AnsweredLeavesNothingOpen
<1>1. Init => TestsFollowHandles
  BY DEF Init, TestsFollowHandles
<1>2. IInv /\ TestsFollowHandles => AnsweredLeavesNothingOpen
  BY DEF IInv, Core, DisconnectedWasRegistered, TestsFollowHandles, AnsweredLeavesNothingOpen
<1> QED BY <1>1, <1>2, TestsStep, Inductive, PTL DEF Spec

(* Entries leave the Map only for a cause.                                  *)
THEOREM Causes == Spec => OnlyRemovedForCause
<1>1. IInv /\ [Next]_vars =>
        [\A id \in connections \ connections' :
            \/ \E p \in Procs : Removing(p, id)
            \/ shutdown = "draining"
            \/ idle[id] > Timeout]_vars
  <2> SUFFICES ASSUME IInv, Next, NEW id \in connections, id \notin connections'
               PROVE  \/ \E p \in Procs : Removing(p, id)
                      \/ shutdown = "draining"
                      \/ idle[id] > Timeout
    OBVIOUS
  <2>1. CASE \E p \in Procs : FinishRemoval(p)
    BY <2>1 DEF FinishRemoval, Forget, Removing, Draining
  <2>2. CASE Cleanup
    BY <2>2 DEF Cleanup, Forget, Expired
  <2>3. CASE EndDestroy
    BY <2>3 DEF EndDestroy
  <2>4. CASE UNCHANGED connections
    BY <2>4
  <2>5. CASE \E c \in Creators : Register(c)
    BY <2>5 DEF Register
  <2>6. ASSUME NEW c \in Creators, CreateConnection(c) \/ ContinueCreate(c)
        PROVE UNCHANGED connections
    BY <2>6, RemoveNextCases
       DEF CreateConnection, ContinueCreate, BeginConnecting, BeginRemoval, registry
  <2>7. ASSUME NEW p \in Procs, Resume(p) PROVE
          \/ FinishRemoval(p)
          \/ UNCHANGED connections
          \/ \E c \in Creators : Register(c)
    BY <2>6, <2>7 DEF Resume, DrainSys, ConnectFails, BothSettled, JetStreamFails, registry
  <2>8. ASSUME NEW r \in Removers, NEW d \in Creators,
               RemoveConnection(r, d) \/ RemoveUnknown(r, d)
        PROVE UNCHANGED connections
    BY <2>8 DEF RemoveConnection, BeginRemoval, RemoveUnknown, registry
  <2>9. ASSUME \/ \E t \in Testers : TestConnection(t) \/ ResumeTest(t)
               \/ \E d \in Creators : Access(d) \/ NatsSys(d)
               \/ \E o \in Owners : Nats(o)
               \/ Tick
               \/ BeginDestroy
        PROVE UNCHANGED connections
    BY <2>9 DEF TestConnection, ResumeTest, TestRefused, TestProbe, TestDrain, TestDone,
                Access, NatsSys, SysSettles, SysDrained, SysLost,
                Nats, MainSettles, MainDrained, MainLost, Tick, BeginDestroy, registry
  <2> QED
    BY <2>1, <2>2, <2>3, <2>4, <2>5, <2>6, <2>7, <2>8, <2>9 DEF Next
<1> QED
  BY <1>1, Inductive, PTL DEF Spec, OnlyRemovedForCause

-----------------------------------------------------------------------------
(* Serial connects: the single connection, and the abstract slot.           *)

(* How a step changes the Map and the creates in flight.                    *)
LEMMA MapSteps ==
    ASSUME TypeOK, [Next]_vars
    PROVE  \/ \E c \in Creators : CreateConnection(c)
           \/ \E c \in Creators : Register(c)
           \/ /\ connections' \subseteq connections
              /\ existing' = existing
              /\ \A c \in Creators : Registered(c)' <=> Registered(c)
              /\ \A c \in Creators : pc'[c] \in InCreate => pc[c] \in InCreate
<1> USE RequestsAreDistinct
    DEF TypeOK, InCreate, Draining, Registered, registry, handles, loop, destroy
<1>1. ASSUME NEW c \in Creators, ContinueCreate(c)
      PROVE  /\ connections' = connections /\ existing' = existing
             /\ pc[c] = "loop"
             /\ \E s \in {"loop", "drainMain", "connecting"} : pc' = [pc EXCEPT ![c] = s]
  BY <1>1, RemoveNextCases DEF ContinueCreate, BeginConnecting, BeginRemoval
<1>2. ASSUME NEW r \in Removers, NEW id \in Creators,
             RemoveConnection(r, id) \/ RemoveUnknown(r, id)
      PROVE  /\ connections' = connections /\ existing' = existing
             /\ \E s : pc' = [pc EXCEPT ![r] = s]
  BY <1>2 DEF RemoveConnection, BeginRemoval, RemoveUnknown
<1>3. ASSUME NEW p \in Procs, DrainSys(p) \/ FinishRemoval(p)
      PROVE  /\ connections' \subseteq connections /\ existing' = existing
             /\ pc[p] \in Draining
             /\ \E s \in {"loop", "drainSys", "removed"} :
                  pc' = [pc EXCEPT ![p] = s]
  BY <1>3 DEF DrainSys, FinishRemoval, Forget
<1>4. ASSUME NEW c \in Creators, ConnectFails(c) \/ BothSettled(c) \/ JetStreamFails(c)
      PROVE  /\ connections' = connections /\ existing' = existing
             /\ pc[c] \in {"connecting", "jetstream"}
             /\ \E s \in {"failed", "jetstream"} : pc' = [pc EXCEPT ![c] = s]
  BY <1>4 DEF ConnectFails, BothSettled, JetStreamFails
<1>5. ASSUME NEW t \in Testers, TestConnection(t) \/ ResumeTest(t)
      PROVE  /\ connections' = connections /\ existing' = existing
             /\ \E s : pc' = [pc EXCEPT ![t] = s]
  BY <1>5 DEF TestConnection, ResumeTest, TestRefused, TestProbe, TestDrain, TestDone
<1>6. ASSUME \/ \E id \in Creators : Access(id) \/ NatsSys(id)
             \/ \E o \in Owners : Nats(o)
             \/ Tick \/ Cleanup \/ BeginDestroy \/ EndDestroy
             \/ UNCHANGED vars
      PROVE  connections' \subseteq connections /\ existing' = existing /\ pc' = pc
  BY <1>6 DEF Access, NatsSys, SysSettles, SysDrained, SysLost, Nats, MainSettles,
              MainDrained, MainLost, Tick, Cleanup, BeginDestroy, EndDestroy, Forget, vars
<1>7. ASSUME NEW p \in Procs, Resume(p)
      PROVE  \/ DrainSys(p) \/ FinishRemoval(p)
             \/ /\ p \in Creators
                /\ \/ ContinueCreate(p) \/ Register(p)
                   \/ ConnectFails(p) \/ BothSettled(p) \/ JetStreamFails(p)
  BY <1>7 DEF Resume
<1> QED
  BY <1>1, <1>2, <1>3, <1>4, <1>5, <1>6, <1>7 DEF Next

(* With serial connects a create in flight has seen every entry.            *)
LEMMA SerialStep == IInv /\ SerialInv /\ [Next]_vars => SerialInv'
<1> SUFFICES ASSUME IInv, SerialInv, [Next]_vars, SerialCreates PROVE SerialInv'
  BY DEF SerialInv
<1>0. TypeOK /\ TypeOK'
  BY TypeStep DEF IInv
<1> USE <1>0 DEF SerialInv, SingleConnection
<1>1. ASSUME NEW c \in Creators, CreateConnection(c) PROVE SerialInv'
  <2>1. /\ connections' = connections
        /\ existing' = [existing EXCEPT ![c] = connections]
        /\ \E s : pc' = [pc EXCEPT ![c] = s]
        /\ \A d \in Creators : pc[d] \notin InCreate
    BY <1>1, RemoveNextCases
       DEF CreateConnection, BeginConnecting, BeginRemoval, registry
  <2> QED BY <2>1 DEF TypeOK
<1>2. ASSUME NEW c \in Creators, Register(c) PROVE SerialInv'
  <2>1. /\ connections' = connections \cup {c}
        /\ pc[c] = "jetstream"
        /\ pc' = [pc EXCEPT ![c] = "registered"]
        /\ existing' = existing
    BY <1>2 DEF Register, loop
  <2>2. connections = {}
    <3>1. connections \subseteq existing[c]
      BY <2>1 DEF InCreate
    <3>2. existing[c] \cap connections = {}
      BY <2>1 DEF IInv, Core, SnapshotShrinks, Removing, Draining
    <3> QED BY <3>1, <3>2
  <2>3. \A d \in Creators : pc'[d] \notin InCreate
    BY <2>1 DEF InCreate, TypeOK, Draining
  <2> QED BY <2>1, <2>2, <2>3
<1>3. CASE /\ connections' \subseteq connections
           /\ existing' = existing
           /\ \A c \in Creators : pc'[c] \in InCreate => pc[c] \in InCreate
  BY <1>3 DEF TypeOK
<1> QED
  BY <1>1, <1>2, <1>3, MapSteps

(* So the serial invariant holds.                                           *)
LEMMA Serial == Spec => []SerialInv
<1>1. Init => SerialInv
  BY DEF Init, SerialInv, SingleConnection, InCreate, Draining
<1> QED
  BY <1>1, SerialStep, Inductive, PTL DEF Spec

(* "Enforce single connection" holds of clients that connect one at a time. *)
THEOREM SerialSingleConnection == SerialCreates => (Spec => []SingleConnection)
<1>1. SerialCreates /\ SerialInv => SingleConnection
  BY DEF SerialInv
<1>2. CASE SerialCreates
  <2>1. SerialInv => SingleConnection
    BY <1>1, <1>2
  <2> QED BY <2>1, Serial, PTL
<1> QED BY <1>2

(* For such clients the service implements the abstract single slot.        *)
THEOREM SerialRefinement == SerialCreates => (Spec => ImplementsSingleSlot)
<1> SUFFICES ASSUME SerialCreates PROVE Spec => ImplementsSingleSlot
  OBVIOUS
<1>1. Init => Slot!SlotInit
  BY DEF Init, Slot!SlotInit, CurrentSlot, Registered
<1>2. IInv /\ SerialInv /\ SerialInv' /\ [Next]_vars => [Slot!SlotNext]_(Slot!slotVars)
  <2> SUFFICES ASSUME IInv, SerialInv, SerialInv', [Next]_vars
               PROVE  [Slot!SlotNext]_(Slot!slotVars)
    OBVIOUS
  <2> DEFINE used == {id \in Creators : Registered(id)}
  <2>0. /\ TypeOK /\ TypeOK'
        /\ SingleConnection /\ SingleConnection'
    BY TypeStep DEF IInv, SerialInv
  <2>1. /\ connections = {} => CurrentSlot = None
        /\ \A id \in connections : CurrentSlot = id
    BY <2>0 DEF CurrentSlot, SingleConnection
  <2>2. /\ connections' = {} => CurrentSlot' = None
        /\ \A id \in connections' : CurrentSlot' = id
    BY <2>0 DEF CurrentSlot, SingleConnection
  <2>3. connections \subseteq Creators /\ connections' \subseteq Creators
    BY <2>0 DEF TypeOK
  <2>4. ASSUME connections' \subseteq connections, used' = used
        PROVE  [Slot!SlotNext]_(Slot!slotVars)
    <3>1. CASE connections = connections'
      BY <3>1, <2>1, <2>2, <2>4 DEF Slot!slotVars
    <3>2. CASE connections # connections'
      <4>1. connections # {} /\ connections' = {}
        BY <3>2, <2>0, <2>4 DEF SingleConnection
      <4>2. CurrentSlot # None /\ CurrentSlot' = None
        BY <4>1, <2>1, <2>2, <2>3, RequestsAreDistinct
      <4> QED BY <4>2, <2>4 DEF Slot!SlotNext, Slot!Disconnect
    <3> QED BY <3>1, <3>2
  <2>5. ASSUME NEW c \in Creators, CreateConnection(c)
        PROVE  connections' \subseteq connections /\ used' = used
    <3>1. /\ connections' = connections /\ pc[c] = "idle"
          /\ \E s \in {"loop", "drainMain", "connecting"} : pc' = [pc EXCEPT ![c] = s]
      BY <2>5, RemoveNextCases
         DEF CreateConnection, BeginConnecting, BeginRemoval, registry
    <3> QED BY <3>1, <2>0 DEF Registered, TypeOK
  <2>6. ASSUME NEW c \in Creators, Register(c)
        PROVE  [Slot!SlotNext]_(Slot!slotVars)
    <3>1. /\ connections' = connections \cup {c}
          /\ pc[c] = "jetstream"
          /\ pc' = [pc EXCEPT ![c] = "registered"]
      BY <2>6 DEF Register
    <3>2. connections = {}
      <4>1. c \notin connections
        BY <3>1 DEF IInv, Core, HandlesFollowRequests, Registered
      <4> QED BY <4>1, <3>1, <2>0 DEF SingleConnection
    <3>3. c \notin used /\ used' = used \cup {c}
      BY <3>1, <2>0 DEF Registered, TypeOK
    <3>4. CurrentSlot = None /\ CurrentSlot' = c
      BY <3>1, <3>2, <2>1, <2>2
    <3>5. Slot!Connect(c)
      BY <3>3, <3>4 DEF Slot!Connect
    <3> QED BY <3>5 DEF Slot!SlotNext
  <2>7. CASE /\ connections' \subseteq connections
             /\ \A c \in Creators : Registered(c)' <=> Registered(c)
    BY <2>4, <2>7
  <2> QED
    BY <2>0, <2>4, <2>5, <2>6, <2>7, MapSteps
<1> QED
  BY <1>1, <1>2, Inductive, Serial, PTL DEF Spec, ImplementsSingleSlot, Slot!SlotSpec
-----------------------------------------------------------------------------
(* The service implements the registry the rest of the API relies on.       *)

\* An entry that is not in the Map has no age.
IdleOnlyInMap == \A id \in Creators \ connections : idle[id] = 0

Handle  == [id \in Creators |-> IF Registered(id) THEN main[id] ELSE "none"]
Leaving == {id \in connections : \E p \in Procs : Removing(p, id)}

(* Steps that the registry does not see.                                    *)
LEMMA Unseen ==
    ASSUME UNCHANGED <<connections, idle, shutdown>>,
           \A id \in Creators : Registered(id)' <=> Registered(id),
           \A id \in Creators : Registered(id) => main'[id] = main[id],
           \A id \in connections, p \in Procs : Removing(p, id)' <=> Removing(p, id)
    PROVE  /\ UNCHANGED <<Handle, Leaving>>
           /\ UNCHANGED Reg!registryVars
<1>1. Handle' = Handle
  BY DEF Handle
<1>2. Leaving' = Leaving
  BY DEF Leaving
<1> QED
  BY <1>1, <1>2 DEF Reg!registryVars, Handle, Leaving

(* The first stretch of a removal.                                          *)
LEMMA BeginLeaves ==
    ASSUME IInv, NEW p \in Procs, NEW id \in Creators, BeginRemoval(p, id),
           pc[p] \in {"idle", "loop"}
    PROVE  Reg!BeginLeave(id)
<1>0. TypeOK /\ id \in connections /\ Registered(id) /\ UNCHANGED <<connections, idle, shutdown>>
  BY DEF IInv, Core, HandlesFollowRequests, BeginRemoval, registry, destroy
<1>1. \A d \in Creators : Registered(d)' <=> Registered(d)
  BY <1>0 DEF BeginRemoval, Registered, TypeOK
<1>2. Handle' = [Handle EXCEPT ![id] = Reg!Drained(@)]
  BY <1>0, <1>1 DEF BeginRemoval, Handle, Reg!Drained, AfterDrainCall, TypeOK
<1>3. Leaving' = Leaving \cup {id}
  <2>1. \A q \in Procs, d \in Creators :
          Removing(q, d)' <=> Removing(q, d) \/ (q = p /\ d = id)
    BY <1>0 DEF BeginRemoval, Removing, Draining, TypeOK
  <2> QED BY <2>1, <1>0 DEF Leaving, TypeOK
<1> QED
  BY <1>0, <1>2, <1>3 DEF Reg!BeginLeave, Handle, Leaving

(* An iteration of the loop of createConnection.                            *)
LEMMA LoopSteps ==
    ASSUME IInv, NEW c \in Creators, NEW ids \in SUBSET Creators, RemoveNext(c, ids),
           pc[c] \in {"idle", "loop"}
    PROVE  [Reg!RegistryNext]_(Reg!registryVars)
<1>0. TypeOK /\ ~Registered(c)
  BY DEF IInv, Registered
<1>1. CASE BeginConnecting(c)
  BY <1>0, <1>1, Unseen, RequestsAreDistinct
     DEF BeginConnecting, registry, destroy, Registered, Removing, Draining, TypeOK
<1>2. ASSUME NEW id \in ids, BeginRemoval(c, id) PROVE [Reg!RegistryNext]_(Reg!registryVars)
  BY <1>2, BeginLeaves DEF Reg!RegistryNext, Reg!RegistryStep
<1>3. CASE pc' = [pc EXCEPT ![c] = "loop"] /\ UNCHANGED <<registry, handles, target, accepted, destroy>>
  BY <1>0, <1>3, Unseen
     DEF registry, handles, destroy, Registered, Removing, Draining, TypeOK
<1> QED
  BY <1>1, <1>2, <1>3, RemoveNextCases

(* The end of a removal.                                                    *)
LEMMA FinishLeaves ==
    ASSUME IInv, IdleOnlyInMap, NEW p \in Procs, FinishRemoval(p)
    PROVE  [Reg!RegistryNext]_(Reg!registryVars)
<1> DEFINE id == target[p]
<1>0. /\ TypeOK /\ pc[p] \in Draining /\ Removing(p, id)
      /\ id \in Creators /\ Registered(id) /\ main[id] \in {"draining", "closed"}
      /\ UNCHANGED <<main, target, shutdown>>
  BY DEF IInv, Core, HandlesFollowRequests, FinishRemoval, Draining, Removing, handles, destroy
<1>1. \A d \in Creators : Registered(d)' <=> Registered(d)
  BY <1>0 DEF FinishRemoval, Registered, TypeOK, Draining
<1>2. \A q \in Procs, d \in Creators : d # id => (Removing(q, d)' <=> Removing(q, d))
  BY <1>0 DEF FinishRemoval, Removing, TypeOK
<1>3. Handle' = Handle
  BY <1>0, <1>1 DEF Handle
<1>4. CASE id \in connections
  <2>1. connections' = connections \ {id} /\ idle' = [d \in Creators |-> IF d \in {id} THEN 0 ELSE idle[d]]
    BY DEF FinishRemoval, Forget
  <2>2. Leaving' = Leaving \ {id}
    BY <2>1, <1>0, <1>2 DEF Leaving, TypeOK
  <2>3. id \in Leaving /\ Handle[id] \in {"draining", "closed"}
    BY <1>0, <1>4 DEF Leaving, Handle
  <2>4. Reg!EndLeave(id)
    BY <1>0, <1>3, <2>1, <2>2, <2>3 DEF Reg!EndLeave, Reg!Leave, Handle, Leaving
  <2> QED BY <1>0, <2>4 DEF Reg!RegistryNext, Reg!RegistryStep
<1>5. CASE id \notin connections
  <2>1. connections' = connections
    BY <1>5 DEF FinishRemoval, Forget
  <2>2. idle' = idle
    BY <1>0, <1>5 DEF FinishRemoval, Forget, IdleOnlyInMap, TypeOK
  <2>3. Leaving' = Leaving
    BY <2>1, <1>2, <1>5, <1>0 DEF Leaving, TypeOK
  <2> QED BY <1>0, <1>3, <2>1, <2>2, <2>3 DEF Reg!registryVars, Handle, Leaving
<1> QED BY <1>4, <1>5

(* A connection enters the Map.                                             *)
LEMMA RegisterEnters ==
    ASSUME IInv, NEW c \in Creators, Register(c)
    PROVE  Reg!Enter(c)
<1>0. /\ TypeOK /\ pc[c] = "jetstream" /\ main[c] \in {"open", "closed"} /\ ~Registered(c)
      /\ UNCHANGED <<main, target, shutdown>>
      /\ connections' = connections \cup {c} /\ idle' = [idle EXCEPT ![c] = 0]
      /\ pc' = [pc EXCEPT ![c] = "registered"]
  BY DEF IInv, Core, HandlesFollowRequests, Register, Registered, handles, destroy
<1>1. Handle' = [Handle EXCEPT ![c] = main[c]]
  BY <1>0 DEF Handle, Registered, TypeOK
<1>2. \A q \in Procs, d \in Creators : Removing(q, d)' <=> Removing(q, d)
  BY <1>0 DEF Removing, Draining, TypeOK
<1>3. \A q \in Procs : ~Removing(q, c)
  BY <1>0 DEF IInv, Core, HandlesFollowRequests, Removing
<1>4. Leaving' = Leaving
  BY <1>0, <1>2, <1>3 DEF Leaving, TypeOK
<1>5. Handle[c] = "none"
  BY <1>0 DEF Handle
<1> QED
  BY <1>0, <1>1, <1>4, <1>5 DEF Reg!Enter, Handle, Leaving

(* Steps of the nats library and of connection tests.                       *)
LEMMA LibrarySteps ==
    ASSUME IInv, NEW o \in Owners, Nats(o)
    PROVE  [Reg!RegistryNext]_(Reg!registryVars)
<1>0. /\ TypeOK
      /\ UNCHANGED <<connections, idle, shutdown, pc, target>>
      /\ \E s : main' = [main EXCEPT ![o] = s]
  BY DEF IInv, Nats, MainSettles, MainDrained, MainLost, registry, destroy
<1>1. UNCHANGED Leaving /\ \A d \in Creators : Registered(d)' <=> Registered(d)
  BY <1>0 DEF Leaving, Removing, Registered
<1>2. CASE o \notin Creators \/ ~Registered(o)
  BY <1>0, <1>1, <1>2, Unseen DEF Registered, Removing, TypeOK
<1>3. CASE o \in Creators /\ Registered(o)
  <2>0. main[o] # "connecting" /\ Handle[o] = main[o]
    BY <1>3 DEF IInv, Core, HandlesFollowRequests, Handle
  <2>1. CASE MainDrained(o)
    <3>1. main' = [main EXCEPT ![o] = "closed"]
      BY <2>1 DEF MainDrained
    <3>2. Handle' = [Handle EXCEPT ![o] = "closed"]
      BY <3>1, <1>0, <1>1, <1>3 DEF Handle, TypeOK
    <3>3. Reg!FinishDrain(o)
      BY <2>0, <2>1, <3>2, <1>0, <1>1 DEF Reg!FinishDrain, MainDrained, Handle, Leaving
    <3> QED BY <1>3, <3>3 DEF Reg!RegistryNext, Reg!RegistryStep
  <2>2. CASE MainLost(o)
    <3>1. main' = [main EXCEPT ![o] = "closed"]
      BY <2>2 DEF MainLost
    <3>2. Handle' = [Handle EXCEPT ![o] = "closed"]
      BY <3>1, <1>0, <1>1, <1>3 DEF Handle, TypeOK
    <3>3. Reg!Lose(o)
      BY <2>0, <2>2, <3>2, <1>0, <1>1 DEF Reg!Lose, MainLost, Handle, Leaving
    <3> QED BY <1>3, <3>3 DEF Reg!RegistryNext, Reg!RegistryStep
  <2> QED BY <2>0, <2>1, <2>2 DEF Nats, MainSettles
<1> QED BY <1>2, <1>3

(* Expiry and shutdown.                                                     *)
LEMMA SweepSteps ==
    ASSUME IInv, Cleanup \/ BeginDestroy \/ EndDestroy
    PROVE  [Reg!RegistryNext]_(Reg!registryVars)
<1>0. /\ TypeOK
      /\ connections \subseteq Creators
      /\ \A id \in connections : Registered(id) /\ Handle[id] = main[id]
      /\ UNCHANGED <<pc, target>>
  BY DEF IInv, Core, HandlesFollowRequests, TypeOK, Cleanup, BeginDestroy, EndDestroy, Handle
<1>1. \A id \in Creators : Registered(id)' <=> Registered(id)
  BY <1>0 DEF Registered
<1>2. \A q \in Procs, d \in Creators : Removing(q, d)' <=> Removing(q, d)
  BY <1>0 DEF Removing
<1>3. CASE Cleanup
  <2>0. Reg!TooIdle = Expired /\ Expired \subseteq connections
    BY DEF Reg!TooIdle, Expired
  <2>1. /\ connections' = connections \ Expired
        /\ idle' = [id \in Creators |-> IF id \in Expired THEN 0 ELSE idle[id]]
        /\ main' = [o \in Owners |-> IF o \in Expired THEN AfterDrainCall(main[o]) ELSE main[o]]
        /\ Expired # {} /\ shutdown' = shutdown
    BY <1>3 DEF Cleanup, Forget, destroy
  <2>2. Leaving' = Leaving \ Expired
    BY <1>0, <1>2, <2>1 DEF Leaving
  <2>3. Handle' = [id \in Creators |-> IF id \in Expired THEN Reg!Drained(Handle[id]) ELSE Handle[id]]
    BY <1>0, <1>1, <2>0, <2>1 DEF Handle, Reg!Drained, AfterDrainCall
  <2>4. Reg!Expire
    BY <2>0, <2>1, <2>2, <2>3 DEF Reg!Expire, Reg!Leave, Handle, Leaving
  <2> QED BY <2>4 DEF Reg!RegistryNext, Reg!RegistryStep
<1>4. CASE BeginDestroy
  <2>1. /\ connections' = connections /\ idle' = idle
        /\ main' = [o \in Owners |-> IF o \in connections THEN AfterDrainCall(main[o]) ELSE main[o]]
        /\ shutdown = "up" /\ shutdown' = "draining"
    BY <1>4 DEF BeginDestroy, registry
  <2>2. Leaving' = Leaving
    BY <1>0, <1>2, <2>1 DEF Leaving
  <2>3. Handle' = [id \in Creators |-> IF id \in connections THEN Reg!Drained(Handle[id]) ELSE Handle[id]]
    BY <1>0, <1>1, <2>1 DEF Handle, Reg!Drained, AfterDrainCall
  <2>4. Reg!BeginShutdown
    BY <2>1, <2>2, <2>3 DEF Reg!BeginShutdown, Handle, Leaving
  <2> QED BY <2>4 DEF Reg!RegistryNext, Reg!RegistryStep
<1>5. CASE EndDestroy
  <2>1. /\ connections' = connections \ connections
        /\ idle' = [id \in Creators |-> IF id \in connections THEN 0 ELSE idle[id]]
        /\ main' = main /\ shutdown = "draining" /\ shutdown' = "down"
    BY <1>5 DEF EndDestroy, Forget, handles
  <2>2. Leaving' = Leaving \ connections
    BY <2>1 DEF Leaving
  <2>3. Handle' = Handle
    BY <1>1, <2>1 DEF Handle
  <2>4. Reg!EndShutdown
    BY <2>1, <2>2, <2>3 DEF Reg!EndShutdown, Reg!Leave, Handle, Leaving
  <2> QED BY <2>4 DEF Reg!RegistryNext, Reg!RegistryStep
<1> QED BY <1>3, <1>4, <1>5

(* Every step is one of the registry or unseen.                             *)
LEMMA RegistrySteps == IInv /\ IdleOnlyInMap /\ [Next]_vars => [Reg!RegistryNext]_(Reg!registryVars)
<1> SUFFICES ASSUME IInv, IdleOnlyInMap, [Next]_vars
             PROVE  [Reg!RegistryNext]_(Reg!registryVars)
  OBVIOUS
<1>0. TypeOK
  BY DEF IInv
<1> USE <1>0, RequestsAreDistinct DEF registry, handles, loop, destroy
<1>1. ASSUME NEW c \in Creators, CreateConnection(c) \/ ContinueCreate(c)
      PROVE  [Reg!RegistryNext]_(Reg!registryVars)
  <2>1. connections \in SUBSET Creators /\ todo[c] \in SUBSET Creators
    BY DEF TypeOK
  <2> QED BY <1>1, <2>1, LoopSteps DEF CreateConnection, ContinueCreate
<1>2. ASSUME NEW r \in Removers, NEW id \in Creators, RemoveConnection(r, id)
      PROVE  [Reg!RegistryNext]_(Reg!registryVars)
  BY <1>2, BeginLeaves DEF RemoveConnection, Reg!RegistryNext, Reg!RegistryStep
<1>3. ASSUME NEW r \in Removers, NEW id \in Creators, RemoveUnknown(r, id)
      PROVE  [Reg!RegistryNext]_(Reg!registryVars)
  BY <1>3, Unseen DEF RemoveUnknown, Registered, Removing, Draining, TypeOK
<1>4. ASSUME NEW p \in Procs, DrainSys(p)
      PROVE  [Reg!RegistryNext]_(Reg!registryVars)
  BY <1>4, Unseen DEF DrainSys, Registered, Removing, Draining, TypeOK
<1>5. ASSUME NEW c \in Creators, ConnectFails(c) \/ BothSettled(c) \/ JetStreamFails(c)
      PROVE  [Reg!RegistryNext]_(Reg!registryVars)
  BY <1>5, Unseen
     DEF ConnectFails, BothSettled, JetStreamFails, Registered, Removing, Draining, TypeOK
<1>6. ASSUME NEW p \in Procs, Resume(p)
      PROVE  [Reg!RegistryNext]_(Reg!registryVars)
  BY <1>1, <1>4, <1>5, <1>6, FinishLeaves, RegisterEnters
     DEF Resume, Reg!RegistryNext, Reg!RegistryStep
<1>7. ASSUME NEW t \in Testers, TestConnection(t) \/ ResumeTest(t)
      PROVE  [Reg!RegistryNext]_(Reg!registryVars)
  BY <1>7, Unseen
     DEF TestConnection, ResumeTest, TestRefused, TestProbe, TestDrain, TestDone,
         Registered, Removing, Draining, TypeOK
<1>8. ASSUME NEW id \in Creators, Access(id)
      PROVE  [Reg!RegistryNext]_(Reg!registryVars)
  <2>1. UNCHANGED <<Handle, Leaving>>
    BY <1>8 DEF Access, Handle, Leaving, Registered, Removing
  <2>2. Reg!Use(id)
    BY <1>8, <2>1 DEF Access, Reg!Use, Handle, Leaving
  <2> QED BY <2>2 DEF Reg!RegistryNext, Reg!RegistryStep
<1>9. ASSUME NEW id \in Creators, NatsSys(id)
      PROVE  [Reg!RegistryNext]_(Reg!registryVars)
  BY <1>9, Unseen DEF NatsSys, SysSettles, SysDrained, SysLost, Registered, Removing
<1>10. CASE Tick
  <2>1. UNCHANGED <<Handle, Leaving>>
    BY <1>10 DEF Tick, Handle, Leaving, Registered, Removing
  <2>2. Reg!Pass
    BY <1>10, <2>1 DEF Tick, Reg!Pass, Handle, Leaving
  <2> QED BY <2>2 DEF Reg!RegistryNext
<1>11. CASE UNCHANGED vars
  BY <1>11, Unseen DEF vars, Registered, Removing
<1> QED
  BY <1>1, <1>2, <1>3, <1>6, <1>7, <1>8, <1>9, <1>10, <1>11, LibrarySteps, SweepSteps DEF Next

(* Only entries of the Map age.                                             *)
LEMMA IdleStep == IInv /\ IdleOnlyInMap /\ [Next]_vars => IdleOnlyInMap'
<1> SUFFICES ASSUME IInv, IdleOnlyInMap, [Next]_vars PROVE IdleOnlyInMap'
  OBVIOUS
<1>0. TypeOK
  BY DEF IInv
<1> USE <1>0 DEF TypeOK, IdleOnlyInMap, registry, handles, loop, destroy
<1>1. ASSUME NEW c \in Creators, CreateConnection(c) \/ ContinueCreate(c)
      PROVE  IdleOnlyInMap'
  BY <1>1, RemoveNextCases
     DEF CreateConnection, ContinueCreate, BeginConnecting, BeginRemoval
<1>2. ASSUME NEW r \in Removers, NEW id \in Creators, RemoveConnection(r, id) \/ RemoveUnknown(r, id)
      PROVE  IdleOnlyInMap'
  BY <1>2 DEF RemoveConnection, RemoveUnknown, BeginRemoval
<1>3. ASSUME NEW p \in Procs, Resume(p)
      PROVE  IdleOnlyInMap'
  BY <1>1, <1>3
     DEF Resume, DrainSys, FinishRemoval, Forget, ConnectFails, BothSettled, JetStreamFails, Register
<1>4. ASSUME NEW t \in Testers, TestConnection(t) \/ ResumeTest(t)
      PROVE  IdleOnlyInMap'
  BY <1>4 DEF TestConnection, ResumeTest, TestRefused, TestProbe, TestDrain, TestDone
<1>5. ASSUME NEW id \in Creators, Access(id) \/ NatsSys(id)
      PROVE  IdleOnlyInMap'
  BY <1>5 DEF Access, NatsSys, SysSettles, SysDrained, SysLost
<1>6. ASSUME NEW o \in Owners, Nats(o)
      PROVE  IdleOnlyInMap'
  BY <1>6 DEF Nats, MainSettles, MainDrained, MainLost
<1>7. CASE Tick \/ Cleanup \/ BeginDestroy \/ EndDestroy \/ UNCHANGED vars
  BY <1>7 DEF Tick, Cleanup, Forget, BeginDestroy, EndDestroy, vars
<1> QED
  BY <1>1, <1>2, <1>3, <1>4, <1>5, <1>6, <1>7 DEF Next

(* However requests overlap, the service implements the abstract registry.  *)
THEOREM RegistryRefinement == Spec => ImplementsRegistry
<1>1. Init => Reg!RegistryInit /\ IdleOnlyInMap
  BY DEF Init, Reg!RegistryInit, IdleOnlyInMap, Registered
<1> QED
  BY <1>1, RegistrySteps, IdleStep, Inductive, PTL DEF Spec, ImplementsRegistry, Reg!RegistrySpec

-----------------------------------------------------------------------------
(* What the requests wait for, behind RequestsAreAnswered.                   *)

\* A connect attempt under way, or over; one that a drain ended was closed.
Attempted == {"connecting", "failed", "open", "closed"}

\* Every request suspends at the awaits of its own handler.
OwnPlaces ==
    /\ \A c \in Creators : pc[c] \in InCreate \cup {"idle", "registered", "failed"}
    /\ \A r \in Removers : pc[r] \in Draining \cup {"idle", "removed", "failed"}
    /\ \A t \in Testers :
          pc[t] \in {"idle", "testConnecting", "testProbe", "testDrain", "tested"}

\* Nobody drains a handle before its request knows of it, and the handles that
\* onModuleDestroy awaits are on their way to be closed.
WaitsInv ==
    /\ \A o \in Owners : pc[o] \in {"connecting", "testConnecting"} => main[o] \in Attempted
    /\ \A id \in waiting : Registered(id) /\ main[id] \in {"draining", "closed"}

(* Handles change as the library and the drains of registered ones make     *)
(* them, and a request that starts to connect has a new handle.              *)
LEMMA WaitsKept ==
    ASSUME IInv, WaitsInv, waiting' = waiting,
           \A o \in Owners :
              \/ main'[o] = main[o]
              \/ main[o] = "connecting" /\ main'[o] \in {"open", "failed"}
              \/ main[o] \in {"open", "draining"} /\ main'[o] = "closed"
              \/ o \in connections /\ main[o] = "open" /\ main'[o] = "draining"
              \/ ~Registered(o) /\ main'[o] = "connecting",
           \A o \in Owners :
              \/ pc'[o] = pc[o]
              \/ pc[o] # "registered" /\ pc'[o] \notin {"connecting", "testConnecting"}
              \/ pc[o] # "registered" /\ main'[o] = "connecting"
    PROVE  WaitsInv'
<1>1. \A o \in Owners :
         pc'[o] \in {"connecting", "testConnecting"} => main'[o] \in Attempted
  <2> SUFFICES ASSUME NEW o \in Owners, pc'[o] \in {"connecting", "testConnecting"}
               PROVE  main'[o] \in Attempted
    OBVIOUS
  <2>1. CASE main'[o] = "connecting"
    BY <2>1 DEF Attempted
  <2>2. CASE pc'[o] = pc[o]
    <3>1. main[o] \in Attempted /\ ~Registered(o)
      BY <2>2 DEF WaitsInv, Registered
    <3>2. o \notin connections
      BY <3>1 DEF IInv, Core, HandlesFollowRequests
    <3> QED BY <3>1, <3>2 DEF Attempted
  <2> QED BY <2>1, <2>2
<1>2. \A id \in waiting : Registered(id)' /\ main'[id] \in {"draining", "closed"}
  <2> SUFFICES ASSUME NEW id \in waiting
               PROVE  pc'[id] = "registered" /\ main'[id] \in {"draining", "closed"}
    BY DEF Registered
  <2>1. id \in Owners /\ Registered(id) /\ main[id] \in {"draining", "closed"}
    BY DEF IInv, TypeOK, WaitsInv
  <2> QED BY <2>1 DEF Registered
<1> QED BY <1>1, <1>2 DEF WaitsInv

\* What a request is suspended for is over: its next step can be taken.
CanGoOn(p) ==
    \/ pc[p] \in {"loop", "jetstream", "testProbe"}
    \/ pc[p] = "drainMain" /\ MainDrainSettled(p)
    \/ pc[p] = "drainSys" /\ SysDrainSettled(p)
    \/ /\ pc[p] = "connecting"
       /\ main[p] = "failed" \/ (main[p] \in {"open", "closed"} /\ sys[p] # "connecting")
    \/ pc[p] = "testConnecting" /\ main[p] \in {"failed", "open", "closed"}
    \/ pc[p] = "testDrain" /\ (accepted[p] => main[p] = "closed")

\* The library is at work on the handle that the request waits for.
LibraryAtWork(p) ==
    \/ pc[p] = "drainMain" /\ main[target[p]] = "draining"
    \/ pc[p] = "drainSys" /\ sys[target[p]] = "draining"
    \/ pc[p] = "connecting" /\ "connecting" \in {main[p], sys[p]}
    \/ pc[p] = "testConnecting" /\ main[p] = "connecting"
    \/ pc[p] = "testDrain" /\ main[p] = "draining"

\* A request that is not answered can go on, or waits for the library to end an attempt
\* or a drain; so does onModuleDestroy.  None waits for another request: not for the
\* disconnect that drains the same connection, nor for the expiry that took it.
NobodyWaitsInVain ==
    /\ \A p \in Procs \cup Testers :
          pc[p] \in {"idle", "registered", "removed", "failed", "tested"}
              \/ CanGoOn(p) \/ LibraryAtWork(p)
    /\ \A id \in waiting : main[id] \in {"draining", "closed"}

LEMMA OwnPlacesStep == IInv /\ OwnPlaces /\ [Next]_vars => OwnPlaces'
<1> SUFFICES ASSUME IInv, OwnPlaces, [Next]_vars PROVE OwnPlaces'
  OBVIOUS
<1>0. TypeOK
  BY DEF IInv
<1> USE <1>0, RequestsAreDistinct DEF TypeOK, Draining, InCreate, OwnPlaces
<1>1. ASSUME NEW p \in Procs,
             \/ p \in Creators /\ pc' = [pc EXCEPT ![p] = "loop"]
             \/ p \in Removers /\ pc' = [pc EXCEPT ![p] = "removed"]
             \/ \E place \in Draining \cup {"failed"} : pc' = [pc EXCEPT ![p] = place]
             \/ /\ p \in Creators
                /\ \E place \in {"connecting", "jetstream", "registered"} :
                      pc' = [pc EXCEPT ![p] = place]
      PROVE  OwnPlaces'
  BY <1>1
<1>2. ASSUME NEW c \in Creators, NEW ids \in SUBSET Creators, RemoveNext(c, ids)
      PROVE  OwnPlaces'
  BY <1>1, <1>2, RemoveNextCases DEF BeginRemoval, BeginConnecting
<1>3. ASSUME NEW c \in Creators, CreateConnection(c) \/ ContinueCreate(c) PROVE OwnPlaces'
  BY <1>2, <1>3 DEF CreateConnection, ContinueCreate
<1>4. ASSUME NEW r \in Removers, NEW id \in Creators, RemoveConnection(r, id) \/ RemoveUnknown(r, id)
      PROVE  OwnPlaces'
  BY <1>1, <1>4 DEF RemoveConnection, RemoveUnknown, BeginRemoval
<1>5. ASSUME NEW p \in Procs, DrainSys(p) \/ FinishRemoval(p) PROVE OwnPlaces'
  BY <1>1, <1>5 DEF DrainSys, FinishRemoval
<1>6. ASSUME NEW c \in Creators,
             ConnectFails(c) \/ BothSettled(c) \/ JetStreamFails(c) \/ Register(c)
      PROVE  OwnPlaces'
  BY <1>1, <1>6 DEF ConnectFails, BothSettled, JetStreamFails, Register
<1>7. ASSUME NEW t \in Testers, TestConnection(t) \/ ResumeTest(t) PROVE OwnPlaces'
  BY <1>7 DEF TestConnection, ResumeTest, TestRefused, TestProbe, TestDrain, TestDone
<1>8. CASE UNCHANGED pc
  BY <1>8
<1>9. ASSUME \/ \E id \in Creators : Access(id) \/ NatsSys(id)
             \/ \E o \in Owners : Nats(o)
             \/ Tick \/ Cleanup \/ BeginDestroy \/ EndDestroy \/ UNCHANGED vars
      PROVE  UNCHANGED pc
  BY <1>9 DEF Access, NatsSys, SysSettles, SysDrained, SysLost, Nats, MainSettles, MainDrained,
              MainLost, Tick, Cleanup, BeginDestroy, EndDestroy, vars
<1>10. ASSUME NEW p \in Procs, Resume(p) PROVE OwnPlaces'
  BY <1>3, <1>5, <1>6, <1>10 DEF Resume
<1> QED BY <1>3, <1>4, <1>7, <1>8, <1>9, <1>10 DEF Next

LEMMA WaitsStep == IInv /\ OwnPlaces /\ WaitsInv /\ [Next]_vars => WaitsInv'
<1> SUFFICES ASSUME IInv, OwnPlaces, WaitsInv, [Next]_vars PROVE WaitsInv'
  OBVIOUS
<1>0. TypeOK
  BY DEF IInv
<1> USE <1>0, RequestsAreDistinct DEF TypeOK, registry, handles, loop, destroy
<1>1. ASSUME NEW p \in Procs, NEW id \in Creators, BeginRemoval(p, id), pc[p] # "registered"
      PROVE  WaitsInv'
  BY <1>1, WaitsKept DEF BeginRemoval, AfterDrainCall
<1>2. ASSUME NEW c \in Creators, NEW ids \in SUBSET Creators, RemoveNext(c, ids),
             pc[c] \in {"idle", "loop"}
      PROVE  WaitsInv'
  <2>1. CASE BeginConnecting(c)
    BY <1>2, <2>1, WaitsKept DEF BeginConnecting, Registered
  <2>2. CASE \E id \in ids : BeginRemoval(c, id)
    BY <1>1, <1>2, <2>2
  <2>3. CASE /\ pc' = [pc EXCEPT ![c] = "loop"]
             /\ UNCHANGED <<registry, handles, target, accepted, destroy>>
    BY <1>2, <2>3, WaitsKept
  <2> QED BY <1>2, <2>1, <2>2, <2>3, RemoveNextCases
<1>3. ASSUME NEW c \in Creators, CreateConnection(c) \/ ContinueCreate(c) PROVE WaitsInv'
  BY <1>2, <1>3 DEF CreateConnection, ContinueCreate
<1>4. ASSUME NEW r \in Removers, NEW id \in Creators, RemoveConnection(r, id) PROVE WaitsInv'
  BY <1>1, <1>4 DEF RemoveConnection
<1>5. ASSUME NEW r \in Removers, NEW id \in Creators, RemoveUnknown(r, id) PROVE WaitsInv'
  BY <1>5, WaitsKept DEF RemoveUnknown
<1>6. ASSUME NEW p \in Procs, DrainSys(p) \/ FinishRemoval(p) PROVE WaitsInv'
  BY <1>6, WaitsKept DEF DrainSys, FinishRemoval
<1>7. ASSUME NEW c \in Creators,
             ConnectFails(c) \/ BothSettled(c) \/ JetStreamFails(c) \/ Register(c)
      PROVE  WaitsInv'
  BY <1>7, WaitsKept DEF ConnectFails, BothSettled, JetStreamFails, Register
<1>8. ASSUME NEW t \in Testers, TestConnection(t) \/ ResumeTest(t) PROVE WaitsInv'
  <2>1. ~Registered(t)
    BY DEF OwnPlaces, Registered
  <2>2. CASE TestConnection(t)
    BY <2>1, <2>2, WaitsKept DEF TestConnection, Registered
  <2>3. CASE TestRefused(t) \/ TestProbe(t) \/ TestDone(t)
    BY <2>1, <2>3, WaitsKept DEF TestRefused, TestProbe, TestDone, Registered
  <2>4. CASE TestDrain(t)
    <3>1. /\ waiting' = waiting
          /\ \A o \in Owners \ {t} : main'[o] = main[o] /\ pc'[o] = pc[o]
          /\ pc'[t] = "testDrain"
      BY <2>4 DEF TestDrain
    <3>2. t \notin waiting /\ waiting \subseteq Owners
      OBVIOUS
    <3> QED BY <3>1, <3>2 DEF WaitsInv, Registered
  <2> QED BY <1>8, <2>2, <2>3, <2>4 DEF ResumeTest
<1>9. ASSUME NEW id \in Creators, Access(id) \/ NatsSys(id) PROVE WaitsInv'
  BY <1>9, WaitsKept DEF Access, NatsSys, SysSettles, SysDrained, SysLost
<1>10. ASSUME NEW o \in Owners, Nats(o) PROVE WaitsInv'
  BY <1>10, WaitsKept DEF Nats, MainSettles, MainDrained, MainLost
<1>11. CASE Tick \/ Cleanup \/ EndDestroy \/ UNCHANGED vars
  BY <1>11, WaitsKept DEF Tick, Cleanup, Expired, Forget, AfterDrainCall, EndDestroy, vars
<1>12. CASE BeginDestroy
  <2>1. /\ waiting' = {id \in connections : main[id] = "open"}
        /\ \A o \in Owners : main'[o] = IF o \in connections THEN AfterDrainCall(main[o]) ELSE main[o]
        /\ pc' = pc
    BY <1>12 DEF BeginDestroy
  <2>2. \A id \in connections : Registered(id)
    BY DEF IInv, Core, HandlesFollowRequests
  <2>3. \A id \in waiting' : Registered(id)' /\ main'[id] \in {"draining", "closed"}
    BY <2>1, <2>2 DEF AfterDrainCall, Registered
  <2>4. \A o \in Owners :
           pc'[o] \in {"connecting", "testConnecting"} => main'[o] \in Attempted
    BY <2>1, <2>2 DEF WaitsInv, Registered
  <2> QED BY <2>3, <2>4 DEF WaitsInv
<1>13. ASSUME NEW p \in Procs, Resume(p) PROVE WaitsInv'
  BY <1>3, <1>6, <1>7, <1>13 DEF Resume
<1> QED BY <1>3, <1>4, <1>5, <1>8, <1>9, <1>10, <1>11, <1>12, <1>13 DEF Next

(* No request, and no shutdown, waits for anything but the NATS library,     *)
(* however many connects, disconnects and expiries overlap.                  *)
THEOREM NoneWaitsInVain == Spec => []NobodyWaitsInVain
<1>1. Init => OwnPlaces /\ WaitsInv
  BY RequestsAreDistinct DEF Init, OwnPlaces, WaitsInv
<1>2. Init => TestsFollowHandles
  BY DEF Init, TestsFollowHandles
<1>3. ASSUME IInv, TestsFollowHandles, OwnPlaces, WaitsInv PROVE NobodyWaitsInVain
  <2>1. ASSUME NEW p \in Procs, pc[p] \in Draining PROVE CanGoOn(p) \/ LibraryAtWork(p)
    <3>1. /\ main[target[p]] \in {"draining", "closed"}
          /\ pc[p] = "drainSys" => sys[target[p]] \in {"draining", "closed"}
      BY <1>3, <2>1 DEF IInv, Core, HandlesFollowRequests
    <3> QED BY <2>1, <3>1
           DEF Draining, CanGoOn, LibraryAtWork, MainDrainSettled, SysDrainSettled
  <2>2. ASSUME NEW c \in Creators, pc[c] \in {"loop", "connecting", "jetstream"}
        PROVE  CanGoOn(c) \/ LibraryAtWork(c)
    BY <1>3, <2>2 DEF WaitsInv, Attempted, CanGoOn, LibraryAtWork
  <2>3. ASSUME NEW t \in Testers, pc[t] \in {"testConnecting", "testProbe", "testDrain"}
        PROVE  CanGoOn(t) \/ LibraryAtWork(t)
    BY <1>3, <2>3 DEF WaitsInv, TestsFollowHandles, Attempted, CanGoOn, LibraryAtWork
  <2> QED BY <1>3, <2>1, <2>2, <2>3 DEF NobodyWaitsInVain, OwnPlaces, WaitsInv, InCreate
<1>4. IInv /\ TestsFollowHandles /\ OwnPlaces /\ WaitsInv => NobodyWaitsInVain
  BY <1>3
<1> QED BY <1>1, <1>2, <1>4, TestsStep, OwnPlacesStep, WaitsStep, Inductive, PTL DEF Spec
=============================================================================
