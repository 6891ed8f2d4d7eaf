------------------------------ MODULE Connections ------------------------------
(***************************************************************************)
(* ConnectionsService: the in-memory registry of NATS connections.         *)
(*                                                                         *)
(* A request runs without interruption from one await to the next, so an   *)
(* action is one such stretch of the code.  A request that creates a       *)
(* connection is also the name of the connection it creates (uuidv4 makes  *)
(* them one to one).  Each connection owns a main NATS handle and possibly *)
(* a system-account handle; the handles move by themselves (connect        *)
(* settles, a drain completes, the client gives up on a lost server),      *)
(* which is the nats library, modelled from how the service awaits it.     *)
(***************************************************************************)
EXTENDS Naturals

CONSTANTS
    Creators,       \* requests to POST connections/connect
    Removers,       \* requests to DELETE connections/:id
    Testers,        \* requests to POST connections/test
    Timeout,        \* CONNECTION_TIMEOUT, in ticks of the model's clock
    SerialCreates,  \* TRUE: a client connects only after its last connect ended
    None            \* no connection

Procs  == Creators \cup Removers   \* the requests that remove connections
Owners == Creators \cup Testers    \* the requests that open a main handle

ASSUME RequestsAreDistinct ==
    /\ Creators \cap Removers = {}
    /\ Creators \cap Testers = {}
    /\ Removers \cap Testers = {}
    /\ None \notin Creators
ASSUME TimeoutIsNat == Timeout \in Nat
ASSUME SerialCreatesIsBool == SerialCreates \in BOOLEAN

VARIABLES
    connections,  \* the ids in the service's Map
    idle,         \* idle[id]: now - lastAccessed, saturated at Timeout + 1
    main,         \* main[o]: the state of the handle nc
    sys,          \* sys[id]: the state of the handle sysNc
    pc,           \* where each request is suspended
    target,       \* the connection a request is removing, or removed last
    accepted,     \* TRUE: the drain a request awaits is its own
    existing,     \* existingIds of each createConnection
    todo,         \* the part of existing not visited yet
    shutdown,     \* progress of onModuleDestroy
    waiting       \* the connections whose drain onModuleDestroy awaits

vars == <<connections, idle, main, sys, pc, target, accepted, existing, todo,
          shutdown, waiting>>

registry == <<connections, idle>>
handles  == <<main, sys>>
loop     == <<existing, todo>>
destroy  == <<shutdown, waiting>>

HandleStates == {"none", "connecting", "failed", "open", "draining", "closed"}
Draining     == {"drainMain", "drainSys"}
InCreate     == Draining \cup {"loop", "connecting", "jetstream"}
PcStates     == InCreate \cup {"idle", "registered", "removed", "failed",
                               "testConnecting", "testProbe", "testDrain", "tested"}

TypeOK ==
    /\ connections \subseteq Creators
    /\ idle \in [Creators -> 0 .. Timeout + 1]
    /\ main \in [Owners -> HandleStates]
    /\ sys \in [Creators -> HandleStates]
    /\ pc \in [Procs \cup Testers -> PcStates]
    /\ target \in [Procs -> Creators \cup {None}]
    /\ accepted \in [Procs \cup Testers -> BOOLEAN]
    /\ existing \in [Creators -> SUBSET Creators]
    /\ todo \in [Creators -> SUBSET Creators]
    /\ shutdown \in {"up", "draining", "down"}
    /\ waiting \subseteq Creators

Init ==
    /\ connections = {}
    /\ idle = [id \in Creators |-> 0]
    /\ main = [o \in Owners |-> "none"]
    /\ sys = [id \in Creators |-> "none"]
    /\ pc = [p \in Procs \cup Testers |-> "idle"]
    /\ target = [p \in Procs |-> None]
    /\ accepted = [p \in Procs \cup Testers |-> FALSE]
    /\ existing = [c \in Creators |-> {}]
    /\ todo = [c \in Creators |-> {}]
    /\ shutdown = "up"
    /\ waiting = {}

-----------------------------------------------------------------------------
(* Calls into the nats library.                                            *)

\* NatsConnection.drain() on an open handle starts the drain; on one that is
\* already draining or closed it rejects and leaves the handle alone.
AfterDrainCall(h) == IF h = "open" THEN "draining" ELSE h

\* info.sysNc is defined: the system-account connection was opened.
HasSys(id) == sys[id] \in {"open", "draining", "closed"}

\* Mutant: the error of a rejected drain is not caught.
MainDrainUncaught(p) == accepted[p] /\ main[target[p]] = "closed"

\* The promise of nc.drain() has settled: rejected at once, or closed.
MainDrainSettled(p) == accepted[p] => main[target[p]] = "closed"
SysDrainSettled(p)  == accepted[p] => sys[target[p]] = "closed"

\* Map.delete on each of ids; lastAccessed goes with the entry.
Forget(ids) ==
    /\ connections' = connections \ ids
    /\ idle' = [id \in Creators |-> IF id \in ids THEN 0 ELSE idle[id]]

-----------------------------------------------------------------------------
(* removeConnection, called by DELETE and by createConnection.             *)

\* Up to the first await: the entry exists and its main handle is drained.
BeginRemoval(p, id) ==
    /\ id \in connections
    /\ target' = [target EXCEPT ![p] = id]
    /\ accepted' = [accepted EXCEPT ![p] = main[id] = "open"]
    /\ main' = [main EXCEPT ![id] = AfterDrainCall(@)]
    /\ pc' = [pc EXCEPT ![p] = "drainMain"]
    /\ UNCHANGED <<registry, sys, destroy>>

\* The main drain settled (its error is caught) and there is a sysNc to drain.
DrainSys(p) ==
    /\ pc[p] = "drainMain"
    /\ MainDrainSettled(p)
    /\ HasSys(target[p])
    /\ accepted' = [accepted EXCEPT ![p] = sys[target[p]] = "open"]
    /\ sys' = [sys EXCEPT ![target[p]] = AfterDrainCall(@)]
    /\ pc' = [pc EXCEPT ![p] = "drainSys"]
    /\ UNCHANGED <<registry, main, target, loop, destroy>>

\* Mutant: sysNc is not drained.
FinishRemovalMainOnly(p) ==
    /\ pc[p] = "drainMain" /\ MainDrainSettled(p)
    /\ Forget({target[p]})
    /\ pc' = [pc EXCEPT ![p] = IF p \in Creators THEN "loop" ELSE "removed"]
    /\ UNCHANGED <<handles, target, accepted, loop, destroy>>

\* Both drains settled: the entry is deleted, if it is still there.
FinishRemoval(p) ==
    /\ \/ pc[p] = "drainMain" /\ MainDrainSettled(p) /\ ~HasSys(target[p])
       \/ pc[p] = "drainSys" /\ SysDrainSettled(p)
    /\ Forget({target[p]})
    /\ pc' = [pc EXCEPT ![p] = IF p \in Creators THEN "loop" ELSE "removed"]
    /\ UNCHANGED <<handles, target, accepted, loop, destroy>>

\* DELETE connections/:id of a connection the registry holds.
RemoveConnection(r, id) ==
    /\ shutdown # "down"
    /\ pc[r] = "idle"
    /\ BeginRemoval(r, id)
    /\ UNCHANGED <<loop>>

\* DELETE connections/:id of one it does not hold: BadRequestException.
RemoveUnknown(r, id) ==
    /\ shutdown # "down"
    /\ pc[r] = "idle"
    /\ id \notin connections
    /\ pc' = [pc EXCEPT ![r] = "failed"]
    /\ UNCHANGED <<registry, handles, target, accepted, loop, destroy>>

-----------------------------------------------------------------------------
(* createConnection.                                                       *)

\* connectToNats for the main handle, and for sysNc when the request carries
\* system-account credentials; both attempts run concurrently.
BeginConnecting(c) ==
    /\ main' = [main EXCEPT ![c] = "connecting"]
    /\ sys' \in {[sys EXCEPT ![c] = s] : s \in {"none", "connecting"}}
    /\ pc' = [pc EXCEPT ![c] = "connecting"]
    /\ UNCHANGED <<registry, target, accepted, destroy>>

\* Mutant: existing connections that are not open any more are skipped.
RemoveNextOpen(c, ids) ==
    LET live == {id \in ids : id \in connections /\ main[id] = "open"} IN
    \/ /\ live = {}
       /\ todo' = [todo EXCEPT ![c] = {}]
       /\ BeginConnecting(c)
    \/ \E id \in live :
         /\ todo' = [todo EXCEPT ![c] = live \ {id}]
         /\ BeginRemoval(c, id)

\* From one iteration of the loop over existingIds to its next await; ids are
\* those not visited yet.  A missing entry makes removeConnection reject: the
\* error is logged and the loop goes on.
RemoveNext(c, ids) ==
    \/ /\ ids = {}
       /\ todo' = [todo EXCEPT ![c] = {}]
       /\ BeginConnecting(c)
    \/ \E id \in ids :
         /\ todo' = [todo EXCEPT ![c] = ids \ {id}]
         /\ \/ BeginRemoval(c, id)
            \/ /\ id \notin connections
               /\ pc' = [pc EXCEPT ![c] = "loop"]
               /\ UNCHANGED <<registry, handles, target, accepted, destroy>>

\* Mutant: existing connections are kept.
CreateBeside(c) ==
    /\ shutdown # "down"
    /\ pc[c] = "idle"
    /\ SerialCreates => \A d \in Creators : pc[d] \notin InCreate
    /\ existing' = [existing EXCEPT ![c] = connections]
    /\ RemoveNext(c, {})

\* The request arrives: existingIds is a snapshot of the Map's keys.
CreateConnection(c) ==
    /\ shutdown # "down"
    /\ pc[c] = "idle"
    /\ SerialCreates => \A d \in Creators : pc[d] \notin InCreate
    /\ existing' = [existing EXCEPT ![c] = connections]
    /\ RemoveNext(c, connections)

\* removeConnection of one existing id returned.
ContinueCreate(c) ==
    /\ pc[c] = "loop"
    /\ RemoveNext(c, todo[c])
    /\ UNCHANGED existing

\* Promise.all rejects with the main attempt; the sysNc attempt runs on.
ConnectFails(c) ==
    /\ pc[c] = "connecting"
    /\ main[c] = "failed"
    /\ pc' = [pc EXCEPT ![c] = "failed"]
    /\ UNCHANGED <<registry, handles, target, accepted, loop, destroy>>

\* Promise.all fulfils; nc.jetstreamManager() asks the server for JetStream.
BothSettled(c) ==
    /\ pc[c] = "connecting"
    /\ main[c] \in {"open", "closed"}
    /\ sys[c] # "connecting"
    /\ pc' = [pc EXCEPT ![c] = "jetstream"]
    /\ UNCHANGED <<registry, handles, target, accepted, loop, destroy>>

\* nc.jetstreamManager() rejects: the request fails and keeps no handle.
JetStreamFails(c) ==
    /\ pc[c] = "jetstream"
    /\ pc' = [pc EXCEPT ![c] = "failed"]
    /\ UNCHANGED <<registry, handles, target, accepted, loop, destroy>>

\* The connection enters the Map under its new id.
Register(c) ==
    /\ pc[c] = "jetstream"
    /\ connections' = connections \cup {c}
    /\ idle' = [idle EXCEPT ![c] = 0]
    /\ pc' = [pc EXCEPT ![c] = "registered"]
    /\ UNCHANGED <<handles, target, accepted, loop, destroy>>

-----------------------------------------------------------------------------
(* Lookups, expiry, shutdown.                                              *)

\* getConnection, touchConnection and getConnectionStatus set lastAccessed.
Access(id) ==
    /\ shutdown # "down"
    /\ id \in connections
    /\ idle' = [idle EXCEPT ![id] = 0]
    /\ UNCHANGED <<connections, handles, pc, target, accepted, loop, destroy>>

\* Mutant: the age of an entry is not bounded by the saturation.
TickUnbounded ==
    /\ connections # {}
    /\ idle' = [id \in Creators |-> IF id \in connections THEN idle[id] + 1 ELSE idle[id]]
    /\ UNCHANGED <<connections, handles, pc, target, accepted, loop, destroy>>

\* One tick of the clock.
Tick ==
    /\ \E id \in connections : idle[id] <= Timeout
    /\ idle' = [id \in Creators |->
                   IF id \in connections /\ idle[id] <= Timeout
                   THEN idle[id] + 1 ELSE idle[id]]
    /\ UNCHANGED <<connections, handles, pc, target, accepted, loop, destroy>>

\* Mutant: an entry expires when its age reaches the timeout.
ExpiredEarly == {id \in connections : idle[id] >= Timeout}

Expired == {id \in connections : idle[id] > Timeout}

\* Mutant: expired entries are deleted without a drain.
CleanupDrops ==
    /\ Expired # {}
    /\ Forget(Expired)
    /\ UNCHANGED <<handles, pc, target, accepted, loop, destroy>>

\* Mutant: expired entries are drained and stay in the Map.
CleanupKeeps ==
    /\ Expired # {}
    /\ main' = [o \in Owners |->
                   IF o \in Expired THEN AfterDrainCall(main[o]) ELSE main[o]]
    /\ UNCHANGED <<registry, sys, pc, target, accepted, loop, destroy>>

\* cleanupExpiredConnections: no await; the drain of nc is not waited for, and
\* sysNc is left as it is.
Cleanup ==
    /\ Expired # {}
    /\ main' = [o \in Owners |->
                   IF o \in Expired THEN AfterDrainCall(main[o]) ELSE main[o]]
    /\ Forget(Expired)
    /\ UNCHANGED <<sys, pc, target, accepted, loop, destroy>>

\* onModuleDestroy, to its await: every registered nc is drained.
BeginDestroy ==
    /\ shutdown = "up"
    /\ shutdown' = "draining"
    /\ waiting' = {id \in connections : main[id] = "open"}
    /\ main' = [o \in Owners |->
                   IF o \in connections THEN AfterDrainCall(main[o]) ELSE main[o]]
    /\ UNCHANGED <<registry, sys, pc, target, accepted, loop>>

\* Promise.allSettled, then connections.clear().
EndDestroy ==
    /\ shutdown = "draining"
    /\ \A id \in waiting : main[id] = "closed"
    /\ shutdown' = "down"
    /\ Forget(connections)
    /\ UNCHANGED <<handles, pc, target, accepted, loop, waiting>>

-----------------------------------------------------------------------------
(* testConnection: a handle of its own, drained in the finally block.      *)

TestConnection(t) ==
    /\ shutdown # "down"
    /\ pc[t] = "idle"
    /\ main' = [main EXCEPT ![t] = "connecting"]
    /\ pc' = [pc EXCEPT ![t] = "testConnecting"]
    /\ UNCHANGED <<registry, sys, target, accepted, loop, destroy>>

\* The attempt failed: the answer is success: false, and nc is null.
TestRefused(t) ==
    /\ pc[t] = "testConnecting"
    /\ main[t] = "failed"
    /\ pc' = [pc EXCEPT ![t] = "tested"]
    /\ UNCHANGED <<registry, handles, target, accepted, loop, destroy>>

\* Connected: ask the server for its JetStream account.
TestProbe(t) ==
    /\ pc[t] = "testConnecting"
    /\ main[t] \in {"open", "closed"}
    /\ pc' = [pc EXCEPT ![t] = "testProbe"]
    /\ UNCHANGED <<registry, handles, target, accepted, loop, destroy>>

\* The account request settled, either way: drain the handle.
TestDrain(t) ==
    /\ pc[t] = "testProbe"
    /\ accepted' = [accepted EXCEPT ![t] = main[t] = "open"]
    /\ main' = [main EXCEPT ![t] = AfterDrainCall(@)]
    /\ pc' = [pc EXCEPT ![t] = "testDrain"]
    /\ UNCHANGED <<registry, sys, target, loop, destroy>>

\* The drain settled, either way: answer.
TestDone(t) ==
    /\ pc[t] = "testDrain"
    /\ accepted[t] => main[t] = "closed"
    /\ pc' = [pc EXCEPT ![t] = "tested"]
    /\ UNCHANGED <<registry, handles, target, accepted, loop, destroy>>

-----------------------------------------------------------------------------
(* The nats library: a connect attempt settles, a drain completes, and the *)
(* client gives up on a server it cannot reach again.                      *)

MainSettles(o) ==
    /\ main[o] = "connecting"
    /\ \E s \in {"open", "failed"} : main' = [main EXCEPT ![o] = s]
    /\ UNCHANGED <<registry, sys, pc, target, accepted, loop, destroy>>

SysSettles(id) ==
    /\ sys[id] = "connecting"
    /\ \E s \in {"open", "failed"} : sys' = [sys EXCEPT ![id] = s]
    /\ UNCHANGED <<registry, main, pc, target, accepted, loop, destroy>>

MainDrained(o) ==
    /\ main[o] = "draining"
    /\ main' = [main EXCEPT ![o] = "closed"]
    /\ UNCHANGED <<registry, sys, pc, target, accepted, loop, destroy>>

SysDrained(id) ==
    /\ sys[id] = "draining"
    /\ sys' = [sys EXCEPT ![id] = "closed"]
    /\ UNCHANGED <<registry, main, pc, target, accepted, loop, destroy>>

MainLost(o) ==
    /\ main[o] = "open"
    /\ main' = [main EXCEPT ![o] = "closed"]
    /\ UNCHANGED <<registry, sys, pc, target, accepted, loop, destroy>>

SysLost(id) ==
    /\ sys[id] = "open"
    /\ sys' = [sys EXCEPT ![id] = "closed"]
    /\ UNCHANGED <<registry, main, pc, target, accepted, loop, destroy>>

-----------------------------------------------------------------------------
Resume(p) ==   \* a suspended removal or creation goes on
    \/ DrainSys(p)
    \/ FinishRemoval(p)
    \/ /\ p \in Creators
       /\ \/ ContinueCreate(p)
          \/ ConnectFails(p)
          \/ BothSettled(p)
          \/ JetStreamFails(p)
          \/ Register(p)

ResumeTest(t) == TestRefused(t) \/ TestProbe(t) \/ TestDrain(t) \/ TestDone(t)

Nats(o) == MainSettles(o) \/ MainDrained(o) \/ MainLost(o)

NatsSys(id) == SysSettles(id) \/ SysDrained(id) \/ SysLost(id)

Next ==
    \/ \E c \in Creators : CreateConnection(c)
    \/ \E r \in Removers, id \in Creators :
          RemoveConnection(r, id) \/ RemoveUnknown(r, id)
    \/ \E p \in Procs : Resume(p)
    \/ \E t \in Testers : TestConnection(t) \/ ResumeTest(t)
    \/ \E id \in Creators : Access(id) \/ NatsSys(id)
    \/ \E o \in Owners : Nats(o)
    \/ Tick
    \/ Cleanup
    \/ BeginDestroy
    \/ EndDestroy

Spec == Init /\ [][Next]_vars

\* The event loop resumes what has settled, attempts and drains settle, and the
\* 60 s interval keeps firing.  Clients, the clock and the server owe nothing.
Fairness ==
    /\ \A p \in Procs : WF_vars(Resume(p))
    /\ \A t \in Testers : WF_vars(ResumeTest(t))
    /\ \A o \in Owners : WF_vars(MainSettles(o)) /\ WF_vars(MainDrained(o))
    /\ \A id \in Creators : WF_vars(SysSettles(id)) /\ WF_vars(SysDrained(id))
    /\ WF_vars(Cleanup)
    /\ WF_vars(EndDestroy)

FairSpec == Spec /\ Fairness

-----------------------------------------------------------------------------
(* Safety.                                                                 *)

Registered(id) == pc[id] = "registered"

\* p is inside removeConnection(id).
Removing(p, id) == pc[p] \in Draining /\ target[p] = id

\* createConnection replaces: once it goes on to connect, nothing that was
\* registered when the request came in is registered, nor comes back, whatever
\* disconnects, expiries and other connects run meanwhile.
ReplacesWhatItSaw ==
    \A c \in Creators :
        pc[c] \in {"connecting", "jetstream", "registered"}
            => existing[c] \cap connections = {}

\* An entry whose main handle is being drained is on its way out: the request
\* that drains it (or onModuleDestroy) is still there to delete it, also when
\* its own drain call was rejected because another request was faster.
DrainingEntryHasRemover ==
    \A id \in connections :
        main[id] = "draining" =>
            shutdown = "draining" \/ \E p \in Procs : Removing(p, id)

\* No route out of the Map drops an open main handle: the handle of a registered
\* connection that is gone is draining or closed.  Only connections.clear() of
\* onModuleDestroy can drop one, registered while it awaited its drains.
RetiredMainIsDrained ==
    \A id \in Creators :
        Registered(id) /\ id \notin connections /\ shutdown # "down"
            => main[id] \in {"draining", "closed"}

\* The main handle of a connection is drained on the way out, whoever is first:
\* while it drains its entry has somebody to delete it, and then it is not open.
MainHandlesAreDrained == DrainingEntryHasRemover /\ RetiredMainIsDrained

\* A request that was answered leaves nothing open: a disconnect no handle of its
\* connection, neither nc nor sysNc, and no entry, even when the expiry or another
\* disconnect took the same connection meanwhile; a connection test not its own.
AnsweredLeavesNothingOpen ==
    /\ \A r \in Removers :
        pc[r] = "removed" =>
            /\ target[r] \notin connections
            /\ {main[target[r]], sys[target[r]]} \cap {"open", "connecting"} = {}
    /\ \A t \in Testers : pc[t] = "tested" => main[t] \in {"failed", "closed"}

\* A connection leaves the Map only for a cause: a request is removing it, the
\* module is being destroyed, or nobody used it for longer than the timeout.
OnlyRemovedForCause ==
    [][\A id \in connections \ connections' :
          \/ \E p \in Procs : Removing(p, id)
          \/ shutdown = "draining"
          \/ idle[id] > Timeout]_vars

\* "Enforce single connection": at most one entry at any time.
SingleConnection == \A a, b \in connections : a = b

-----------------------------------------------------------------------------
(* The abstract registry that clients which connect one at a time see.     *)

CurrentSlot == IF connections = {} THEN None ELSE CHOOSE id \in connections : TRUE

Slot == INSTANCE SingleSlot WITH
            Ids  <- Creators,
            slot <- CurrentSlot,
            used <- {id \in Creators : Registered(id)}

\* With serial connects the service implements a single slot.
ImplementsSingleSlot == Slot!SlotSpec

-----------------------------------------------------------------------------
(* The registry that the rest of the API relies on.                        *)

Reg == INSTANCE Registry WITH
            Ids     <- Creators,
            handle  <- [id \in Creators |-> IF Registered(id) THEN main[id] ELSE "none"],
            leaving <- {id \in connections : \E p \in Procs : Removing(p, id)}

\* Whatever overlaps, ids enter the registry once and leave it for a cause, with
\* their main handle drained.
ImplementsRegistry == Reg!RegistrySpec

-----------------------------------------------------------------------------
(* Liveness, under Fairness.                                               *)

\* Every request is answered.
RequestsAreAnswered ==
    \A p \in Procs \cup Testers :
        pc[p] # "idle" ~> pc[p] \in {"registered", "removed", "failed", "tested"}

\* An entry idle for longer than the timeout is removed unless it is used again.
IdleEntriesAreRemoved ==
    \A id \in Creators :
        id \in connections /\ idle[id] > Timeout
            ~> id \notin connections \/ idle[id] = 0

\* "Inactive NATS connection timeout": the connection that expired is closed, its
\* system-account handle with it, unless the service is shut down first.
RetiredSysCloses ==
    \A id \in Creators :
        shutdown = "up" /\ Registered(id) /\ id \notin connections
            ~> sys[id] # "open" \/ shutdown # "up"
=============================================================================
