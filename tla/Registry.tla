-------------------------------- MODULE Registry --------------------------------
(***************************************************************************)
(* What the rest of the API may rely on about its registry of connections: *)
(* an id enters it once; it leaves when a request has drained its handle,  *)
(* when nobody used it for longer than the timeout, or when the module is  *)
(* destroyed; a handle that is draining or closed never opens again.       *)
(* Connections implements it.                                              *)
(***************************************************************************)
EXTENDS Naturals

CONSTANTS Ids, Timeout

ASSUME RegistryTimeoutIsNat == Timeout \in Nat

VARIABLES
    connections,  \* the registered ids
    idle,         \* ticks since the last access, saturated at Timeout + 1
    handle,       \* the main handle of an id; "none" until it is registered
    leaving,      \* the ids a request is removing
    shutdown      \* progress of the destruction of the module

registryVars == <<connections, idle, handle, leaving, shutdown>>

RegistryTypeOK ==
    /\ connections \subseteq Ids
    /\ idle \in [Ids -> 0 .. Timeout + 1]
    /\ handle \in [Ids -> {"none", "open", "draining", "closed"}]
    /\ leaving \subseteq connections
    /\ shutdown \in {"up", "draining", "down"}

RegistryInit ==
    /\ connections = {}
    /\ idle = [id \in Ids |-> 0]
    /\ handle = [id \in Ids |-> "none"]
    /\ leaving = {}
    /\ shutdown = "up"

Drained(h) == IF h = "open" THEN "draining" ELSE h

\* The entries of ids are deleted.
Leave(ids) ==
    /\ connections' = connections \ ids
    /\ leaving' = leaving \ ids
    /\ idle' = [id \in Ids |-> IF id \in ids THEN 0 ELSE idle[id]]

Enter(id) ==
    /\ handle[id] = "none"
    /\ connections' = connections \cup {id}
    /\ idle' = [idle EXCEPT ![id] = 0]
    /\ \E h \in {"open", "closed"} : handle' = [handle EXCEPT ![id] = h]
    /\ UNCHANGED <<leaving, shutdown>>

Use(id) ==
    /\ shutdown # "down"
    /\ id \in connections
    /\ idle' = [idle EXCEPT ![id] = 0]
    /\ UNCHANGED <<connections, handle, leaving, shutdown>>

Pass ==
    /\ \E id \in connections : idle[id] <= Timeout
    /\ idle' = [id \in Ids |-> IF id \in connections /\ idle[id] <= Timeout
                               THEN idle[id] + 1 ELSE idle[id]]
    /\ UNCHANGED <<connections, handle, leaving, shutdown>>

BeginLeave(id) ==
    /\ id \in connections
    /\ leaving' = leaving \cup {id}
    /\ handle' = [handle EXCEPT ![id] = Drained(@)]
    /\ UNCHANGED <<connections, idle, shutdown>>

EndLeave(id) ==
    /\ id \in leaving
    /\ handle[id] \in {"draining", "closed"}
    /\ Leave({id})
    /\ UNCHANGED <<handle, shutdown>>

TooIdle == {id \in connections : idle[id] > Timeout}

Expire ==
    /\ TooIdle # {}
    /\ Leave(TooIdle)
    /\ handle' = [id \in Ids |-> IF id \in TooIdle THEN Drained(handle[id]) ELSE handle[id]]
    /\ UNCHANGED shutdown

BeginShutdown ==
    /\ shutdown = "up"
    /\ shutdown' = "draining"
    /\ handle' = [id \in Ids |-> IF id \in connections THEN Drained(handle[id]) ELSE handle[id]]
    /\ UNCHANGED <<connections, idle, leaving>>

EndShutdown ==
    /\ shutdown = "draining"
    /\ shutdown' = "down"
    /\ Leave(connections)
    /\ UNCHANGED handle

\* A drain completes.
FinishDrain(id) ==
    /\ handle[id] = "draining"
    /\ handle' = [handle EXCEPT ![id] = "closed"]
    /\ UNCHANGED <<connections, idle, leaving, shutdown>>

\* The client gives up on its server.
Lose(id) ==
    /\ handle[id] = "open"
    /\ handle' = [handle EXCEPT ![id] = "closed"]
    /\ UNCHANGED <<connections, idle, leaving, shutdown>>

\* Every step but the passing of time.
RegistryStep ==
    \/ \E id \in Ids : Enter(id) \/ Use(id) \/ BeginLeave(id) \/ EndLeave(id)
                       \/ FinishDrain(id) \/ Lose(id)
    \/ Expire
    \/ BeginShutdown
    \/ EndShutdown

RegistryNext == RegistryStep \/ Pass

RegistrySpec == RegistryInit /\ [][RegistryNext]_registryVars
=============================================================================
