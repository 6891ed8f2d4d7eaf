------------------------------ MODULE SingleSlot ------------------------------
(***************************************************************************)
(* What "single connection" promises a client: one slot that holds the     *)
(* identifier of the current connection, or nothing.  A connection enters  *)
(* an empty slot under an identifier never seen before, and leaves it for  *)
(* good; replacing a connection passes through the empty slot.             *)
(* Connections implements this when connect requests do not overlap.       *)
(***************************************************************************)
CONSTANTS Ids,      \* identifiers of connections
          None      \* the empty slot
VARIABLES slot,     \* the current connection, or None
          used      \* the identifiers handed out so far

slotVars == <<slot, used>>

SlotInit == slot = None /\ used = {}

Connect(id) ==
    /\ slot = None
    /\ id \notin used
    /\ slot' = id
    /\ used' = used \cup {id}

\* Explicit disconnect, replacement, expiry or shutdown.
Disconnect ==
    /\ slot # None
    /\ slot' = None
    /\ UNCHANGED used

SlotNext == (\E id \in Ids : Connect(id)) \/ Disconnect

SlotSpec == SlotInit /\ [][SlotNext]_slotVars
=============================================================================
