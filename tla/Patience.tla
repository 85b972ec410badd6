-------------------------------- MODULE Patience --------------------------------
(***************************************************************************)
(* How long the plugin waits for a reply: the two tables from which a      *)
(* timer removes what is older than a time to live, pendingReplies         *)
(* (NpcAiBridge.java) and the thinking marks (AwaitingReplyState.java),    *)
(* against the time the orchestrator gives itself to answer.               *)
(*                                                                         *)
(* Time is in seconds.  A timer that is due runs before time goes on, and  *)
(* what a thread does without waiting takes none; the two timers were      *)
(* started at different times.  A request's identifier is used again when  *)
(* nothing of the request is left, where the code takes a fresh UUID.      *)
(***************************************************************************)
EXTENDS Naturals, FiniteSets

CONSTANTS
  Requests, Npcs,
  npcOf,         \* the NPC a request is for
  Ttl,           \* TTL_MILLIS, PENDING_REPLY_TTL_MILLIS: the timers' period too
  DialogueWait,  \* dialogue_wait_timeout_s
  DialogueCall,  \* dialogue_call_timeout_s
  Absent

ASSUME PatienceAssumption ==
  /\ npcOf \in [Requests -> Npcs]
  /\ Ttl \in Nat \ {0}
  /\ DialogueWait \in Nat /\ DialogueCall \in Nat
  /\ Absent \notin Nat /\ Absent \notin Npcs

VARIABLES
  asking,   \* requests whose mark is set; they are sent next
  pending,  \* pendingReplies: the age of a request's callback, Absent without
  owed,     \* how long the orchestrator is at a request, Absent if it is not
  mark,     \* AWAITING: the age of an NPC's mark, Absent without
  sweepIn,  \* until sweepStalePendingReplies runs
  purgeIn,  \* until the timer of the marks runs
  purge,    \* the marks it has still to look at, and the one it will remove
  waited    \* history: since an NPC was last asked, Absent if answered since or
            \* longer ago than Ttl

patienceVars == <<asking, pending, owed, mark, sweepIn, purgeIn, purge, waited>>

\* The timer's task is over.
Done == [todo |-> {}, npc |-> Absent, age |-> 0]

PatienceInit ==
  /\ asking = {}
  /\ pending = [r \in Requests |-> Absent]
  /\ owed = [r \in Requests |-> Absent]
  /\ mark = [n \in Npcs |-> Absent]
  /\ sweepIn \in 0 .. Ttl
  /\ purgeIn \in 0 .. Ttl
  /\ purge = Done
  /\ waited = [n \in Npcs |-> Absent]

-----------------------------------------------------------------------------
(* Requests and replies                                                    *)

\* AwaitingReplyState.start: a mark that is there is set anew.
Starts(r) ==
  /\ r \notin asking /\ pending[r] = Absent /\ owed[r] = Absent
  /\ asking' = asking \cup {r}
  /\ mark' = [mark EXCEPT ![npcOf[r]] = 0]
  /\ waited' = [waited EXCEPT ![npcOf[r]] = 0]
  /\ UNCHANGED <<pending, owed, sweepIn, purgeIn, purge>>

\* sendDialogue: the callback is kept, and the request is sent if there is a
\* connection.
SendsDialogue(r) ==
  /\ r \in asking
  /\ asking' = asking \ {r}
  /\ pending' = [pending EXCEPT ![r] = 0]
  /\ owed' \in {owed, [owed EXCEPT ![r] = 0]}
  /\ UNCHANGED <<mark, sweepIn, purgeIn, purge, waited>>

\* The orchestrator's answer arrives, and the callback, if there still is one,
\* clears its NPC's mark.
Answers(r) ==
  /\ owed[r] # Absent
  /\ owed' = [owed EXCEPT ![r] = Absent]
  /\ IF pending[r] = Absent
     THEN UNCHANGED <<pending, mark, waited>>
     ELSE /\ pending' = [pending EXCEPT ![r] = Absent]
          /\ mark' = [mark EXCEPT ![npcOf[r]] = Absent]
          /\ waited' = [waited EXCEPT ![npcOf[r]] = Absent]
  /\ UNCHANGED <<asking, sweepIn, purgeIn, purge>>

\* The connection breaks, or the orchestrator restarts.
LosesAnswer(r) ==
  /\ owed[r] # Absent
  /\ owed' = [owed EXCEPT ![r] = Absent]
  /\ UNCHANGED <<asking, pending, mark, sweepIn, purgeIn, purge, waited>>

-----------------------------------------------------------------------------
(* The timers                                                              *)

\* Older than its time to live, of an age or Absent.
Stale(age) == age # Absent /\ age > Ttl

\* Mutant: a run of the sweep removes one callback, whichever comes first.
SweepsFirst ==
  /\ sweepIn = 0
  /\ sweepIn' = Ttl
  /\ IF \E r \in Requests : Stale(pending[r])
     THEN \E r \in Requests :
            Stale(pending[r]) /\ pending' = [pending EXCEPT ![r] = Absent]
     ELSE UNCHANGED pending
  /\ UNCHANGED <<asking, owed, mark, purgeIn, purge, waited>>

\* sweepStalePendingReplies.
Sweeps ==
  /\ sweepIn = 0
  /\ sweepIn' = Ttl
  /\ pending' = [r \in Requests |-> IF Stale(pending[r]) THEN Absent ELSE pending[r]]
  /\ UNCHANGED <<asking, owed, mark, purgeIn, purge, waited>>

\* removeIf over the marks, while other threads set and clear them.
PurgeBegins ==
  /\ purgeIn = 0
  /\ purgeIn' = Ttl
  /\ purge' = [Done EXCEPT !.todo = {n \in Npcs : mark[n] # Absent}]
  /\ UNCHANGED <<asking, pending, owed, mark, sweepIn, waited>>

\* The test of one mark.
PurgeLooksAt(n) ==
  /\ n \in purge.todo /\ purge.npc = Absent
  /\ purge' = IF Stale(mark[n])
              THEN [todo |-> purge.todo \ {n}, npc |-> n, age |-> mark[n]]
              ELSE [purge EXCEPT !.todo = @ \ {n}]
  /\ UNCHANGED <<asking, pending, owed, mark, sweepIn, purgeIn, waited>>

\* Mutant: the mark is removed by its NPC, as a loop over the keys would.
PurgeRemovesAny ==
  /\ purge.npc # Absent
  /\ mark' = [mark EXCEPT ![purge.npc] = Absent]
  /\ purge' = [Done EXCEPT !.todo = purge.todo]
  /\ UNCHANGED <<asking, pending, owed, sweepIn, purgeIn, waited>>

\* A ConcurrentHashMap removes an entry that has been tested only if it still
\* has the value it was tested with.
PurgeRemoves ==
  /\ purge.npc # Absent
  /\ mark' = IF mark[purge.npc] = purge.age
             THEN [mark EXCEPT ![purge.npc] = Absent] ELSE mark
  /\ purge' = [Done EXCEPT !.todo = purge.todo]
  /\ UNCHANGED <<asking, pending, owed, sweepIn, purgeIn, waited>>

Purge == PurgeBegins \/ (\E n \in Npcs : PurgeLooksAt(n)) \/ PurgeRemoves

-----------------------------------------------------------------------------
Older(age) == IF age = Absent THEN Absent ELSE age + 1

\* By now the dispatcher has given up the wait for a slot and the call.
Overdue(r) == owed[r] # Absent /\ owed[r] >= DialogueWait + DialogueCall

\* A second passes.
TimePasses ==
  /\ asking = {} /\ purge = Done
  /\ sweepIn > 0 /\ purgeIn > 0
  /\ \A r \in Requests : ~Overdue(r)
  /\ sweepIn' = sweepIn - 1
  /\ purgeIn' = purgeIn - 1
  /\ pending' = [r \in Requests |-> Older(pending[r])]
  /\ owed' = [r \in Requests |-> Older(owed[r])]
  /\ mark' = [n \in Npcs |-> Older(mark[n])]
  /\ waited' = [n \in Npcs |-> IF waited[n] = Ttl THEN Absent ELSE Older(waited[n])]
  /\ UNCHANGED <<asking, purge>>

PatienceNext ==
  \/ \E r \in Requests : Starts(r) \/ SendsDialogue(r) \/ Answers(r) \/ LosesAnswer(r)
  \/ Sweeps \/ Purge
  \/ TimePasses

PatienceSpec == PatienceInit /\ [][PatienceNext]_patienceVars

-----------------------------------------------------------------------------
(* Properties                                                              *)

Ages == Nat \cup {Absent}

\* Every variable keeps its type.
PatienceTypeOK ==
  /\ asking \subseteq Requests
  /\ pending \in [Requests -> Ages] /\ owed \in [Requests -> Ages]
  /\ mark \in [Npcs -> Ages]
  /\ waited \in [Npcs -> 0 .. Ttl \cup {Absent}]
  /\ sweepIn \in 0 .. Ttl /\ purgeIn \in 0 .. Ttl
  /\ purge \in [todo : SUBSET Npcs, npc : Npcs \cup {Absent}, age : Nat]

\* However connections break, nothing stays in either table for longer than
\* twice its time to live: what a run of the timer finds a moment too young, the
\* next one removes (NpcAiBridge.java:66-71, AwaitingReplyState.java:18-20).
StaleRemoved ==
  /\ \A r \in Requests : pending[r] # Absent => pending[r] <= 2 * Ttl
  /\ \A n \in Npcs : mark[n] # Absent => mark[n] <= 2 * Ttl

\* AwaitingReplyState.isAwaiting
IsAwaiting(n) == mark[n] # Absent /\ ~Stale(mark[n])

\* An NPC is seen to think exactly while it has been asked within the time to
\* live and no callback of its has been called since: a mark set anew counts
\* from then, and the timer never removes one that another thread has just
\* renewed (AwaitingReplyState.java:28-48).
ThinksWhileAsked == \A n \in Npcs : IsAwaiting(n) <=> waited[n] # Absent

\* "anything still pending this long means the reply is never coming"
\* (NpcAiBridge.java:66-70): a callback is not given up while the orchestrator
\* is still at its request.  Does not hold: the comment reckons with 3 s and 6 s,
\* the dispatcher with 12 s and 10 s.
GivenUpForLost == \A r \in Requests : owed[r] # Absent => pending[r] # Absent
=============================================================================
