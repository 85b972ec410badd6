----------------------------- MODULE Dispatcher -----------------------------
(***************************************************************************)
(* The slot pool and the request dispatcher of the orchestrator            *)
(* (orchestrator/priority_queue.py), at the granularity of the asyncio     *)
(* event loop: one action is what a task does between two suspensions.     *)
(* The lock of the Condition is never held across a suspension (a waiter   *)
(* gives it up while it sleeps), so taking it is not a step of its own.    *)
(*                                                                         *)
(* The Condition is that of Python 3.12, which orchestrator/Dockerfile     *)
(* pins: notify() completes the future of the first waiter whose future is *)
(* still open; a timer that fires on a waiter whose future is already      *)
(* complete, and whose task has not run yet, cancels the task all the      *)
(* same, and the notification is not passed on.                            *)
(*                                                                         *)
(* A client stands for the source of one request at a time: a player       *)
(* talking to an NPC, an NPC's idle tick, the compression or the           *)
(* self-study daemon of main.py.  What the model answers is left out: the  *)
(* result, the timeout and the exception of a call all end it the same way.*)
(***************************************************************************)
EXTENDS Integers, Sequences, FiniteSets, SequencesExt

CONSTANTS
  DialogueClients,      \* clients that call request_dialogue
  AmbientClients,       \* clients that call request_ambient
  MaxSlots,             \* max_concurrent_slots (6 in main.py)
  AmbientMaxInFlight    \* ambient_max_in_flight (2 in main.py)

ASSUME DispatcherAssumption ==
  /\ IsFiniteSet(DialogueClients)
  /\ IsFiniteSet(AmbientClients)
  /\ DialogueClients \cap AmbientClients = {}
  /\ MaxSlots \in Nat
  /\ AmbientMaxInFlight \in Nat

VARIABLES
  pc,               \* where each client's request is
  available,        \* SlotPool._available
  ambientInFlight,  \* NPCRequestDispatcher._ambient_in_flight
  waiters,          \* Condition._waiters, oldest first
  notified,         \* waiters whose future is complete, task not yet run
  expired           \* waiters whose wait timer has fired, task not yet run

vars == <<pc, available, ambientInFlight, waiters, notified, expired>>

Clients == DialogueClients \cup AmbientClients

Calling == {c \in Clients : pc[c] = "calling"}

\* The waiter's future is still open: only a notify or its timer wakes it.
Asleep(d) == pc[d] = "waiting" /\ d \notin notified \cup expired

Init ==
  /\ pc = [c \in Clients |-> "idle"]
  /\ available = MaxSlots
  /\ ambientInFlight = 0
  /\ waiters = <<>>
  /\ notified = {}
  /\ expired = {}

-----------------------------------------------------------------------------
(* SlotPool *)

TakeSlot(c) ==
  /\ available' = available - 1
  /\ pc' = [pc EXCEPT ![c] = "calling"]

\* Condition.notify(): the oldest waiter whose future is open, if any.
Notify ==
  \/ /\ \A i \in DOMAIN waiters : ~Asleep(waiters[i])
     /\ UNCHANGED notified
  \/ \E i \in DOMAIN waiters :
       /\ Asleep(waiters[i])
       /\ \A j \in 1 .. i - 1 : ~Asleep(waiters[j])
       /\ notified' = notified \cup {waiters[i]}

Release == available' = available + 1 /\ Notify

LeaveWaiters(d) ==
  \E i \in DOMAIN waiters : waiters[i] = d /\ waiters' = RemoveAt(waiters, i)

-----------------------------------------------------------------------------
(* request_dialogue *)

DialogueTakesSlot(d) ==
  /\ pc[d] = "idle"
  /\ available > 0
  /\ TakeSlot(d)
  /\ UNCHANGED <<ambientInFlight, waiters, notified, expired>>

DialogueWaits(d) ==
  /\ pc[d] = "idle"
  /\ available = 0
  /\ pc' = [pc EXCEPT ![d] = "waiting"]
  /\ waiters' = Append(waiters, d)
  /\ UNCHANGED <<available, ambientInFlight, notified, expired>>

\* Mutant: wait() once, instead of wait_for() with its predicate.
WakesWithSlotUnchecked(d) ==
  /\ d \in notified \ expired
  /\ TakeSlot(d)
  /\ LeaveWaiters(d)
  /\ notified' = notified \ {d}
  /\ UNCHANGED <<ambientInFlight, expired>>

WakesWithSlot(d) ==
  /\ d \in notified \ expired
  /\ available > 0
  /\ TakeSlot(d)
  /\ LeaveWaiters(d)
  /\ notified' = notified \ {d}
  /\ UNCHANGED <<ambientInFlight, expired>>

\* Another request took the slot before the notified task ran: wait_for()
\* tests the predicate again and waits with a new future, last in line.
WakesWithoutSlot(d) ==
  /\ d \in notified \ expired
  /\ available = 0
  /\ \E i \in DOMAIN waiters :
       waiters[i] = d /\ waiters' = Append(RemoveAt(waiters, i), d)
  /\ notified' = notified \ {d}
  /\ UNCHANGED <<pc, available, ambientInFlight, expired>>

\* Mutant: the slot wait has no timeout.
WaitTimerNever(d) == d \in {} /\ UNCHANGED vars

WaitTimerFires(d) ==
  /\ pc[d] = "waiting"
  /\ d \notin expired
  /\ expired' = expired \cup {d}
  /\ UNCHANGED <<pc, available, ambientInFlight, waiters, notified>>

\* acquire_wait() returns False and the request its fallback: silence.
GivesUp(d) ==
  /\ d \in expired
  /\ pc' = [pc EXCEPT ![d] = "idle"]
  /\ LeaveWaiters(d)
  /\ notified' = notified \ {d}
  /\ expired' = expired \ {d}
  /\ UNCHANGED <<available, ambientInFlight>>

\* Mutant: a call that fails skips the release.
DialogueCallEndsLeaking(d) ==
  /\ pc[d] = "calling"
  /\ pc' = [pc EXCEPT ![d] = "idle"]
  /\ Release \/ UNCHANGED <<available, notified>>
  /\ UNCHANGED <<ambientInFlight, waiters, expired>>

DialogueCallEnds(d) ==
  /\ pc[d] = "calling"
  /\ pc' = [pc EXCEPT ![d] = "idle"]
  /\ Release
  /\ UNCHANGED <<ambientInFlight, waiters, expired>>

-----------------------------------------------------------------------------
(* request_ambient.  A client that finds the cap reached or no slot free   *)
(* is answered at once and changes nothing.                                *)

\* Mutant: the cap is compared with <= instead of <.
AmbientTakesSlotOverCap(a) ==
  /\ pc[a] = "idle"
  /\ ambientInFlight <= AmbientMaxInFlight
  /\ available > 0
  /\ TakeSlot(a)
  /\ ambientInFlight' = ambientInFlight + 1
  /\ UNCHANGED <<waiters, notified, expired>>

AmbientTakesSlot(a) ==
  /\ pc[a] = "idle"
  /\ ambientInFlight < AmbientMaxInFlight
  /\ available > 0
  /\ TakeSlot(a)
  /\ ambientInFlight' = ambientInFlight + 1
  /\ UNCHANGED <<waiters, notified, expired>>

AmbientCallEnds(a) ==
  /\ pc[a] = "calling"
  /\ pc' = [pc EXCEPT ![a] = "idle"]
  /\ ambientInFlight' = ambientInFlight - 1
  /\ Release
  /\ UNCHANGED <<waiters, expired>>

-----------------------------------------------------------------------------

Dialogue(d) ==
  \/ DialogueTakesSlot(d)
  \/ DialogueWaits(d)
  \/ WakesWithSlot(d)
  \/ WakesWithoutSlot(d)
  \/ WaitTimerFires(d)
  \/ GivesUp(d)
  \/ DialogueCallEnds(d)

Ambient(a) == AmbientTakesSlot(a) \/ AmbientCallEnds(a)

Next ==
  \/ \E d \in DialogueClients : Dialogue(d)
  \/ \E a \in AmbientClients : Ambient(a)

(***************************************************************************)
(* The event loop runs every task that is ready and every timer that is    *)
(* due, and every call to the model is under asyncio.wait_for.  Nothing    *)
(* obliges a client to send a request.                                     *)
(***************************************************************************)
Fairness ==
  /\ \A d \in DialogueClients :
       /\ WF_vars(WakesWithSlot(d) \/ WakesWithoutSlot(d))
       /\ WF_vars(WaitTimerFires(d))
       /\ WF_vars(GivesUp(d))
       /\ WF_vars(DialogueCallEnds(d))
  /\ \A a \in AmbientClients : WF_vars(AmbientCallEnds(a))

Spec == Init /\ [][Next]_vars

FairSpec == Spec /\ Fairness

-----------------------------------------------------------------------------
(* Properties *)

\* The shape of the state: who is in the waiters' deque, and who of them has
\* a completed future or a fired timer.
TypeOK ==
  /\ pc \in [Clients -> {"idle", "waiting", "calling"}]
  /\ \A a \in AmbientClients : pc[a] # "waiting"
  /\ available \in 0 .. MaxSlots
  /\ ambientInFlight \in 0 .. AmbientMaxInFlight
  /\ waiters \in Seq(DialogueClients)
  /\ notified \subseteq {d \in DialogueClients : pc[d] = "waiting"}
  /\ expired \subseteq {d \in DialogueClients : pc[d] = "waiting"}

\* No path through a request loses a slot or returns one twice: whatever wait
\* times out, call fails or wakeup comes too late, the free slots and the
\* running calls add up to the pool (the finally clauses, lines 143-144 and
\* 172-174, against the acquisitions of lines 56 and 64).
SlotsConserved == available + Cardinality(Calling) = MaxSlots

\* The counter of running ambient calls is exact, so background work never
\* holds more than its share of the pool (lines 155-174).
AmbientCapped ==
  /\ ambientInFlight = Cardinality(Calling \cap AmbientClients)
  /\ ambientInFlight <= AmbientMaxInFlight

\* When no slot is free, at least MaxSlots - AmbientMaxInFlight of them serve
\* players: "dialogue's guaranteed minimum" of main.py:125-129.
DialogueShare ==
  available = 0 =>
    Cardinality(Calling \cap DialogueClients) >= MaxSlots - AmbientMaxInFlight

\* Every request that waits or calls is answered, with a line or with silence
\* (lines 13-16: a hung call cannot wedge the NPCs).
EveryRequestAnswered ==
  \A c \in Clients : pc[c] # "idle" ~> pc[c] = "idle"

\* What the pool promises, with the machinery hidden.
Lease == INSTANCE SlotLease WITH
           queue  <- {c \in Clients : pc[c] = "waiting"},
           leased <- Calling

LeaseSpec == Lease!Spec

\* "Player-facing DIALOGUE requests always get a slot, waiting generously if
\* needed" (line 5); request_dialogue gives up only "if none frees up in
\* time" (lines 120-121): no dialogue sleeps on while a slot is free and no
\* task is on its way to take it.  Does not hold: a notification is lost when
\* the waiter's timer fires before its task runs.
FreeSlotWakesWaiter ==
  available > 0 /\ (\E d \in DialogueClients : Asleep(d))
    => notified # {}

=============================================================================
