-------------------------------- MODULE Memory --------------------------------
(***************************************************************************)
(* What one NPC remembers: orchestrator/memory.py and last_reply.py under  *)
(* their callers in main.py.                                               *)
(*                                                                         *)
(* A reply is kept at once as the last one said to its player, and written *)
(* as a raw note by a task of its own; it is sent some time later.  Every  *)
(* sweep of compression_daemon may distill the oldest notes into facts and *)
(* delete them, one request at a time: to Qdrant, to the language model,   *)
(* to Postgres.  Any of them may fail, and the process may stop anywhere.  *)
(***************************************************************************)
EXTENDS Naturals, FiniteSets

CONSTANTS
  Turns,        \* dialogue turns running at the same time
  Players,
  MaxSaid,      \* replies in a behaviour (a bound)
  MaxFaults,    \* failures and restarts in a behaviour (a bound)
  Threshold,    \* COMPRESS_THRESHOLD
  BatchSize,    \* COMPRESS_BATCH
  ScrollLimit   \* the limit of a scroll (1024)

ASSUME MemoryAssumption ==
  /\ {MaxSaid, MaxFaults, Threshold, BatchSize, ScrollLimit} \subseteq Nat
  /\ Threshold > 0 /\ BatchSize > 0 /\ ScrollLimit > 0

VARIABLES
  said,       \* the replies made so far: a reply is its number, which is its ts
  turn,       \* the reply each turn is about to send, and to whom
  lastReply,  \* _LAST_REPLY; 0 for none
  sent,       \* history: the newest reply sent to each player by this process
  landing,    \* notes whose remember_episode is under way
  points,     \* the notes in Qdrant
  written,    \* history: the notes that were ever there
  sweep,      \* how far compress_npc_memory is
  told,       \* history: notes whose facts are all in semantic_facts
  faults

vars == <<said, turn, lastReply, sent, landing, points, written, sweep, told, faults>>

Note == 1..MaxSaid
Silent == [player |-> "", n |-> 0]
Asleep == [step |-> "asleep", ids |-> {}, left |-> 0]

Init ==
  /\ said = 0
  /\ turn = [t \in Turns |-> Silent]
  /\ lastReply = [p \in Players |-> 0]
  /\ sent = [p \in Players |-> 0]
  /\ landing = {}
  /\ points = {}
  /\ written = {}
  /\ sweep = Asleep
  /\ told = {}
  /\ faults = 0

Larger(a, b) == IF a > b THEN a ELSE b

Faulty == faults < MaxFaults /\ faults' = faults + 1

-----------------------------------------------------------------------------
(* The turns: handle_dialogue_character, handle_pest_dialogue *)

\* Mutant: the last reply is recorded by the task that writes the note.
RecordSpawned(p, n) == UNCHANGED lastReply

\* last_reply.record
Record(p, n) == lastReply' = [lastReply EXCEPT ![p] = n]

\* The model, or Pest, has answered: from there on to the pause nothing else
\* runs.  A silent answer changes nothing here.
Says(t, p) ==
  /\ turn[t] = Silent
  /\ said < MaxSaid
  /\ said' = said + 1
  /\ landing' = landing \cup {said + 1}
  /\ Record(p, said + 1)
  /\ turn' = [turn EXCEPT ![t] = [player |-> p, n |-> said + 1]]
  /\ UNCHANGED <<sent, points, written, sweep, told, faults>>

\* Padded to MIN_REPLY_DELAY_S, or late enough already.
Sends(t) ==
  /\ turn[t] # Silent
  /\ sent' = [sent EXCEPT ![turn[t].player] = Larger(@, turn[t].n)]
  /\ turn' = [turn EXCEPT ![t] = Silent]
  /\ UNCHANGED <<said, lastReply, landing, points, written, sweep, told, faults>>

Lands(n) ==
  /\ n \in landing
  /\ landing' = landing \ {n}
  /\ points' = points \cup {n}
  /\ written' = written \cup {n}
  /\ UNCHANGED <<said, turn, lastReply, sent, sweep, told, faults>>

\* remember_episode raises: _done logs it, and the note is lost.
LandFails(n) ==
  /\ n \in landing
  /\ Faulty
  /\ landing' = landing \ {n}
  /\ UNCHANGED <<said, turn, lastReply, sent, points, written, sweep, told>>

-----------------------------------------------------------------------------
(* compress_npc_memory *)

Sweeps == UNCHANGED <<said, turn, lastReply, sent, landing, written>>

Oldest(S, k) == {m \in S : Cardinality({n \in S : n < m}) < k}

\* What a scroll finds, in no order of time.
Scrolled == {S \in SUBSET points :
               Cardinality(S) = IF Cardinality(points) < ScrollLimit
                                THEN Cardinality(points) ELSE ScrollLimit}

\* Mutant: a single oversized note leaves nothing to summarise.
KeptOrNone(batch) == {Oldest(batch, k) : k \in 0..Cardinality(batch)}

\* As many of the oldest as fit MAX_COMPRESSION_CHARS, and always one.
Kept(batch) == {Oldest(batch, k) : k \in 1..Cardinality(batch)}

Counts ==
  /\ sweep.step = "asleep"
  /\ Cardinality(points) >= Threshold
  /\ sweep' = [step |-> "scroll", ids |-> {}, left |-> 0]
  /\ Sweeps /\ UNCHANGED <<points, told, faults>>

Scrolls ==
  /\ sweep.step = "scroll"
  /\ \E S \in Scrolled : \E ids \in Kept(Oldest(S, BatchSize)) :
       sweep' = [step |-> "ask", ids |-> ids, left |-> 0]
  /\ Sweeps /\ UNCHANGED <<points, told, faults>>

\* With no fact left to store the notes have been told.
ToStore(ids, n) ==
  /\ sweep' = [step |-> "store", ids |-> ids, left |-> n]
  /\ told' = IF n = 0 THEN told \cup ids ELSE told

\* An array of which at most two strings are taken: perhaps none.
Distills ==
  /\ sweep.step = "ask"
  /\ \E n \in 0..2 : ToStore(sweep.ids, n)
  /\ Sweeps /\ UNCHANGED <<points, faults>>

\* add_fact
Stores ==
  /\ sweep.step = "store"
  /\ sweep.left > 0
  /\ ToStore(sweep.ids, sweep.left - 1)
  /\ Sweeps /\ UNCHANGED <<points, faults>>

\* delete_points
Forgets ==
  /\ sweep.step = "store"
  /\ sweep.left = 0
  /\ points' = points \ sweep.ids
  /\ sweep' = Asleep
  /\ Sweeps /\ UNCHANGED <<told, faults>>

\* Mutant: a fact that cannot be stored is skipped.
SweepFailsOn ==
  /\ sweep # Asleep
  /\ Faulty
  /\ sweep' = IF sweep.step = "store" THEN [sweep EXCEPT !.left = 0] ELSE Asleep
  /\ Sweeps /\ UNCHANGED <<points, told>>

\* The GPU is busy, the answer is no JSON array, or a request raises: "keeping
\* raw", or an error of the whole sweep; the next one begins anew.
SweepFails ==
  /\ sweep # Asleep
  /\ Faulty
  /\ sweep' = Asleep
  /\ Sweeps /\ UNCHANGED <<points, told>>

-----------------------------------------------------------------------------
\* What only the process had is gone.
Restart ==
  /\ Faulty
  /\ turn' = [t \in Turns |-> Silent]
  /\ lastReply' = [p \in Players |-> 0]
  /\ sent' = [p \in Players |-> 0]
  /\ landing' = {}
  /\ sweep' = Asleep
  /\ UNCHANGED <<said, points, written, told>>

Compression == Counts \/ Scrolls \/ Distills \/ Stores \/ Forgets

Next ==
  \/ \E t \in Turns : Sends(t) \/ \E p \in Players : Says(t, p)
  \/ \E n \in landing : Lands(n) \/ LandFails(n)
  \/ Compression \/ SweepFails
  \/ Restart

\* The daemon sweeps again and again, and every request is answered or fails.
Spec == Init /\ [][Next]_vars /\ WF_vars(Compression)

-----------------------------------------------------------------------------
(* Properties *)

TypeOK ==
  /\ said \in 0..MaxSaid
  /\ turn \in [Turns -> [player : Players, n : Note] \cup {Silent}]
  /\ lastReply \in [Players -> 0..MaxSaid]
  /\ sent \in [Players -> 0..MaxSaid]
  /\ landing \subseteq Note
  /\ points \subseteq Note
  /\ written \subseteq Note
  /\ sweep \in [step : {"asleep", "scroll", "ask", "store"}, ids : SUBSET Note,
                left : 0..2]
  /\ told \subseteq Note
  /\ faults \in 0..MaxFaults

\* "A fast next turn must never be able to race ahead of this" (main.py:445-447,
\* last_reply.py:13-16): however turns overlap and whenever their notes land, a
\* turn never finds an older reply in _LAST_REPLY than its player has read.
KnowsWhatItSaid == \A p \in Players : sent[p] <= lastReply[p]

\* "Only ids that are actually summarized below get deleted" (memory.py:216-217),
\* and a failure keeps the raw notes (235): a note that is gone left its facts,
\* through failures in any step, restarts, and notes that land in between.
NothingForgottenUntold == written \ points \subseteq told

\* "A single oversized entry still makes progress instead of stalling compression
\* for this NPC forever" (memory.py:213-214): once replies and failures end, the
\* notes fall below the threshold.
BacklogCompressed == []<>(Cardinality(points) < Threshold)
=============================================================================
