------------------------------ MODULE SlotLease ------------------------------
(***************************************************************************)
(* What orchestrator/priority_queue.py promises its callers, without the   *)
(* machinery of conditions, futures and timers that delivers it: at most   *)
(* MaxSlots clients hold a GPU slot, at most AmbientMaxInFlight of them    *)
(* are background clients, and only dialogue ever queues.  Module          *)
(* Dispatcher implements this specification.                               *)
(***************************************************************************)
EXTENDS Naturals, FiniteSets

CONSTANTS
  DialogueClients,      \* conversations a player is waiting on
  AmbientClients,       \* idle chatter, compression, self-study
  MaxSlots,             \* max_concurrent_slots
  AmbientMaxInFlight    \* ambient_max_in_flight

VARIABLES
  queue,                \* dialogue clients waiting for a slot
  leased                \* clients whose call to the model is running

vars == <<queue, leased>>

Clients == DialogueClients \cup AmbientClients

Init == queue = {} /\ leased = {}

\* The client may hold a slot: one is free, and background work is capped.
MayLease(c) ==
  /\ Cardinality(leased) < MaxSlots
  /\ c \in AmbientClients =>
       Cardinality(leased \cap AmbientClients) < AmbientMaxInFlight

Lease(c) ==
  /\ c \notin leased
  /\ MayLease(c)
  /\ leased' = leased \cup {c}
  /\ queue' = queue \ {c}

Enqueue(d) ==
  /\ d \notin queue \cup leased
  /\ queue' = queue \cup {d}
  /\ UNCHANGED leased

\* The request is answered without the model: its wait ran out.
Abandon(d) ==
  /\ d \in queue
  /\ queue' = queue \ {d}
  /\ UNCHANGED leased

Return(c) ==
  /\ c \in leased
  /\ leased' = leased \ {c}
  /\ UNCHANGED queue

Next ==
  \/ \E c \in Clients : Lease(c) \/ Return(c)
  \/ \E d \in DialogueClients : Enqueue(d) \/ Abandon(d)

Spec == Init /\ [][Next]_vars

=============================================================================
