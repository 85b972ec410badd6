------------------------------ MODULE Personality ------------------------------
(***************************************************************************)
(* The evolving traits of one NPC: orchestrator/personality.py, a query a  *)
(* step, under its callers in main.py.                                     *)
(*                                                                         *)
(* A row of npc_personality is the NPC's own (its warmth stands for the    *)
(* traits all players share) or holds its trust in one player.  A turn     *)
(* loads both; an outcome loads both, computes, and writes them back and   *)
(* logs in three more queries.  Nothing is a transaction, and turns and    *)
(* outcomes of one NPC run side by side.                                   *)
(***************************************************************************)
EXTENDS Integers, FiniteSets

CONSTANTS
  Tasks,        \* operations running at the same time
  Players,      \* players, each with a row of trust
  Ids,          \* occurrences of outcomes (a bound on a behaviour)
  Outcomes,     \* the outcomes that occur, of OUTCOME_EFFECTS
  Baselines,    \* DEFAULT_BASELINES and FALLBACK_BASELINE
  Floor, Ceil,  \* TRAIT_FLOOR, TRAIT_CEIL, in halves of LEARNING_RATE
  Own,          \* the player_id '' of the NPC's own row
  None          \* no row; no outcome

\* OUTCOME_EFFECTS on warmth and on trust_of_player, in halves of LEARNING_RATE.
OutcomeEffects ==
  [player_was_kind     |-> [warmth |->  2, trust |->  2],
   player_was_rude     |-> [warmth |-> -2, trust |-> -2],
   player_attacked_npc |-> [warmth |-> -4, trust |-> -6],
   player_helped_quest |-> [warmth |->  2, trust |->  4],
   player_gave_gift    |-> [warmth |->  2, trust |->  3],
   joke_landed         |-> [warmth |->  0, trust |->  0],
   player_shared_news  |-> [warmth |->  0, trust |->  0],
   player_lied_caught  |-> [warmth |->  0, trust |-> -4]]

ASSUME PersonalityAssumption ==
  /\ Floor \in Int /\ Ceil \in Int
  /\ Baselines \subseteq Floor..Ceil
  /\ Outcomes \subseteq DOMAIN OutcomeEffects
  /\ Own \notin Players
  /\ None \notin Ids \X Outcomes
  /\ \A v, b \in Floor..Ceil, felt \in SUBSET (Ids \X Outcomes) :
       None # [value |-> v, base |-> b, felt |-> felt]

VARIABLES
  row,      \* the NPC's rows of npc_personality: a value, the NPC's baseline,
            \* and (history) the events whose nudge the value contains
  log,      \* npc_outcome_log
  op,       \* what each task has read and computed, and its next query
  seen,     \* the events that have occurred
  landed,   \* history: the events written to each row
  beside    \* history: pairs of events whose operations ran at the same time

vars == <<row, log, op, seen, landed, beside>>

Keys == Players \cup {Own}
Event == Ids \X Outcomes
Effect(e, k) == IF k = Own THEN OutcomeEffects[e[2]].warmth
                           ELSE OutcomeEffects[e[2]].trust

Clamp(v) == IF v < Floor THEN Floor ELSE IF v > Ceil THEN Ceil ELSE v

\* Mutant: more than a hundred days take the value beyond its baseline.
DecayedUncapped(v, base) == {Clamp(v + n * (base - v)) : n \in 0..4}

\* Any time may have passed: from no decay to all of it.
Decayed(v, base) == IF v <= base THEN v..base ELSE base..v

Idle == [step |-> "idle"]

Init ==
  /\ row = [k \in Keys |-> None]
  /\ log = {}
  /\ op = [t \in Tasks |-> Idle]
  /\ seen = {}
  /\ landed = [k \in Keys |-> {}]
  /\ beside = {}

Does(t, query) == op' = [op EXCEPT ![t] = query]

\* The events whose operations are under way.
UnderWay == {op[t].event : t \in {u \in Tasks : op[u] # Idle}} \ {None}

-----------------------------------------------------------------------------
(* load *)

\* SELECT of the NPC's own row, by a turn (no event) or for an outcome of a
\* player who has a name (handle_outcome, handle_dialogue_character).
Load(t, e, p) ==
  /\ op[t] = Idle
  /\ IF row[Own] = None
     THEN \E b \in Baselines :
            Does(t, [step |-> "create", event |-> e, player |-> p, base |-> b])
     ELSE \E v \in Decayed(row[Own].value, row[Own].base) :
            Does(t, [step |-> "trust", event |-> e, player |-> p,
                     own |-> [row[Own] EXCEPT !.value = v]])
  /\ UNCHANGED <<row, log, landed>>

Turn(t, p) == Load(t, None, p) /\ UNCHANGED <<seen, beside>>

Occurs(t, e, p) ==
  /\ \A f \in seen : f[1] # e[1]
  /\ seen' = seen \cup {e}
  /\ beside' = beside \cup ({e} \X UnderWay) \cup (UnderWay \X {e})
  /\ Load(t, e, p)

\* Mutant: the primary key is not checked.
CreateAgain(t) ==
  /\ op[t].step = "create"
  /\ LET fresh == [value |-> op[t].base, base |-> op[t].base, felt |-> {}]
     IN  /\ row' = [row EXCEPT ![Own] = fresh]
         /\ Does(t, [step |-> "trust", event |-> op[t].event,
                     player |-> op[t].player, own |-> fresh])
  /\ UNCHANGED <<log, seen, landed, beside>>

\* INSERT of the NPC's own row; when another task has inserted it since, the
\* primary key is violated and the whole operation ends there.
Create(t) ==
  /\ op[t].step = "create"
  /\ LET fresh == [value |-> op[t].base, base |-> op[t].base, felt |-> {}]
     IN  IF row[Own] = None
         THEN /\ row' = [row EXCEPT ![Own] = fresh]
              /\ Does(t, [step |-> "trust", event |-> op[t].event,
                          player |-> op[t].player, own |-> fresh])
         ELSE Does(t, Idle) /\ UNCHANGED row
  /\ UNCHANGED <<log, seen, landed, beside>>

\* The trust found in the player's row, or the NPC's baseline.
TrustIn(p, base) ==
  IF row[p] = None
  THEN {[value |-> base, base |-> base, felt |-> {}]}
  ELSE {[value |-> v, base |-> base, felt |-> row[p].felt] :
          v \in Decayed(row[p].value, base)}

Felt(r, e, k) == [value |-> Clamp(r.value + Effect(e, k)), base |-> r.base,
                  felt |-> r.felt \cup {e}]

\* SELECT of the player's row, which ends a turn's load; for an outcome both
\* values are then computed.
LoadTrust(t) ==
  /\ op[t].step = "trust"
  /\ LET e == op[t].event
         p == op[t].player
     IN  IF e = None
         THEN Does(t, Idle)
         ELSE \E r \in TrustIn(p, op[t].own.base) :
                Does(t, [step |-> "update", event |-> e, player |-> p,
                         own |-> Felt(op[t].own, e, Own), trust |-> Felt(r, e, p)])
  /\ UNCHANGED <<row, log, seen, landed, beside>>

-----------------------------------------------------------------------------
(* record_outcome, after load *)

\* UPDATE of the NPC's own row.
UpdateOwn(t) ==
  /\ op[t].step = "update"
  /\ row' = [row EXCEPT ![Own] = op[t].own]
  /\ landed' = [landed EXCEPT ![Own] = @ \cup {op[t].event}]
  /\ Does(t, [op[t] EXCEPT !.step = "upsert"])
  /\ UNCHANGED <<log, seen, beside>>

\* INSERT of the player's row, ON CONFLICT UPDATE.
UpsertTrust(t) ==
  /\ op[t].step = "upsert"
  /\ LET p == op[t].player
     IN  /\ row' = [row EXCEPT ![p] = op[t].trust]
         /\ landed' = [landed EXCEPT ![p] = @ \cup {op[t].event}]
  /\ Does(t, [op[t] EXCEPT !.step = "log"])
  /\ UNCHANGED <<log, seen, beside>>

\* INSERT into npc_outcome_log, which recent_outcome_counts reads.
Log(t) ==
  /\ op[t].step = "log"
  /\ log' = log \cup {op[t].event}
  /\ Does(t, Idle)
  /\ UNCHANGED <<row, seen, landed, beside>>

\* Mutant: a failing write is swallowed, and the outcome logged all the same.
QueryFailsLogged(t) ==
  /\ op[t] # Idle
  /\ log' = log \cup ({op[t].event} \ {None})
  /\ Does(t, Idle)
  /\ UNCHANGED <<row, seen, landed, beside>>

\* A query raises: the turn, or the outcome, ends there.
QueryFails(t) ==
  /\ op[t] # Idle
  /\ Does(t, Idle)
  /\ UNCHANGED <<row, log, seen, landed, beside>>

Task(t) ==
  \/ \E p \in Players : Turn(t, p) \/ \E e \in Event : Occurs(t, e, p)
  \/ Create(t) \/ LoadTrust(t)
  \/ UpdateOwn(t) \/ UpsertTrust(t) \/ Log(t)
  \/ QueryFails(t)

Next == \E t \in Tasks : Task(t)

Spec == Init /\ [][Next]_vars

-----------------------------------------------------------------------------
(* Properties *)

Row == [value : Floor..Ceil, base : Baselines, felt : SUBSET Event]

Query ==
  {Idle}
    \cup [step : {"create"}, event : Event \cup {None}, player : Players,
          base : Baselines]
    \cup [step : {"trust"}, event : Event \cup {None}, player : Players, own : Row]
    \cup [step : {"update", "upsert", "log"}, event : Event, player : Players,
          own : Row, trust : Row]

\* Every variable keeps its type; above all, whatever is nudged and decayed
\* stays between TRAIT_FLOOR and TRAIT_CEIL (personality.py:5-6).
TypeOK ==
  /\ row \in [Keys -> Row \cup {None}]
  /\ log \subseteq Event
  /\ op \in [Tasks -> Query]
  /\ seen \subseteq Event
  /\ landed \in [Keys -> SUBSET Event]
  /\ beside \subseteq Event \X Event

\* "Identity is sticky" (personality.py:7-9): while nothing that happened
\* lowers a trait it is never below the NPC's baseline, and above it never
\* while nothing raises it, however operations interleave and decay comes in.
SidesWithBaseline ==
  \A k \in {j \in Keys : row[j] # None} :
    /\ (\A e \in seen : Effect(e, k) >= 0) => row[k].value >= row[k].base
    /\ (\A e \in seen : Effect(e, k) =< 0) => row[k].value =< row[k].base

\* Reading and writing back in different queries may lose a nudge, but only to
\* an outcome that was recorded at the same time and did land: one after the
\* other, every nudge stays (personality.py:138-157).
LostOnlyToOverlap ==
  \A k \in Keys : \A e \in landed[k] :
    \/ row[k] # None /\ e \in row[k].felt
    \/ \E f \in landed[k] : <<e, f>> \in beside

\* What recent_outcome_counts will count has nudged the traits and the trust,
\* though any of the three writes may fail (personality.py:143-164).
LoggedWasFelt ==
  \A e \in log : e \in landed[Own] /\ \E p \in Players : e \in landed[p]
=============================================================================
