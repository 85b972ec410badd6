--------------------------- MODULE PersonalityProofs ---------------------------
(***************************************************************************)
(* What holds of the traits of an NPC for any number of concurrent         *)
(* operations, players and outcomes and any range of values.  Between its  *)
(* queries an operation holds values it has read or computed; the          *)
(* invariants of the rows are extended to these, as they will be rows.     *)
(***************************************************************************)
EXTENDS Personality, TLAPS

-----------------------------------------------------------------------------
(* The arithmetic of traits                                                *)

\* A nudge is clamped to the range, and goes in the direction of its outcome.
LEMMA ClampFacts ==
  ASSUME PersonalityAssumption, NEW v \in Int
  PROVE  /\ Floor <= Ceil => Clamp(v) \in Floor..Ceil
         /\ \A b \in Floor..Ceil : v >= b => Clamp(v) >= b
         /\ \A b \in Floor..Ceil : v =< b => Clamp(v) =< b
BY DEF PersonalityAssumption, Clamp

\* Decay stays between the value and its baseline.
LEMMA DecayFacts ==
  ASSUME NEW lo \in Int, NEW hi \in Int, NEW v \in lo..hi, NEW b \in lo..hi,
         NEW d \in Decayed(v, b)
  PROVE  /\ d \in lo..hi
         /\ v >= b => d >= b
         /\ v =< b => d =< b
BY DEF Decayed

\* Every outcome nudges every trait by an integer.
LEMMA EffectInt ==
  ASSUME PersonalityAssumption, NEW e \in Event, NEW k
  PROVE  Effect(e, k) \in Int
<1>1. e[2] \in DOMAIN OutcomeEffects
  BY DEF PersonalityAssumption, Event
<1>2. e[2] \in {"player_was_kind", "player_was_rude", "player_attacked_npc",
                "player_helped_quest", "player_gave_gift", "joke_landed",
                "player_shared_news", "player_lied_caught"}
  BY <1>1 DEF OutcomeEffects
<1>3. OutcomeEffects[e[2]].warmth \in Int /\ OutcomeEffects[e[2]].trust \in Int
  BY <1>2 DEF OutcomeEffects
<1> QED
  BY <1>3 DEF Effect

\* The mark "no row" is not a row.
LEMMA NoneIsNoRow ==
  ASSUME PersonalityAssumption
  PROVE  None \notin Row /\ None \notin Event
<1>1. None \notin Event
  BY DEF PersonalityAssumption, Event
<1>2. \A v, b \in Floor..Ceil, felt \in SUBSET Event :
         None # [value |-> v, base |-> b, felt |-> felt]
  BY DEF PersonalityAssumption, Event
<1>3. ASSUME NEW r \in Row  PROVE  None # r
  <2>1. /\ r.value \in Floor..Ceil /\ r.base \in Floor..Ceil /\ r.felt \in SUBSET Event
        /\ r = [value |-> r.value, base |-> r.base, felt |-> r.felt]
    BY DEF Row, PersonalityAssumption
  <2> QED
    BY <2>1, <1>2
<1> QED
  BY <1>1, <1>3

\* The values of a row are integers within the range.
LEMMA RowFacts ==
  ASSUME PersonalityAssumption, NEW r \in Row
  PROVE  /\ r.value \in Floor..Ceil /\ r.value \in Int
         /\ r.base \in Baselines /\ r.base \in Floor..Ceil /\ r.base \in Int
         /\ r.felt \in SUBSET Event
<1>1. Floor \in Int /\ Ceil \in Int /\ Baselines \subseteq Floor..Ceil
  BY DEF PersonalityAssumption
<1>2. r.value \in Floor..Ceil /\ r.base \in Baselines /\ r.felt \in SUBSET Event
  BY DEF Row
<1>3. \A n \in Floor..Ceil : n \in Int
  BY <1>1
<1> QED
  BY <1>1, <1>2, <1>3

\* A row that feels an outcome is a row, with the same baseline.
LEMMA FeltFacts ==
  ASSUME PersonalityAssumption, NEW r \in Row, NEW e \in Event, NEW k
  PROVE  /\ Felt(r, e, k) \in Row
         /\ Felt(r, e, k).value = Clamp(r.value + Effect(e, k))
         /\ Felt(r, e, k).base = r.base
         /\ Felt(r, e, k).felt = r.felt \cup {e}
<1>1. /\ r.value \in Floor..Ceil /\ r.base \in Baselines /\ r.felt \in SUBSET Event
      /\ r = [value |-> r.value, base |-> r.base, felt |-> r.felt]
  BY DEF Row
<1>2. Effect(e, k) \in Int /\ Floor \in Int /\ Ceil \in Int /\ Floor <= Ceil
  BY <1>1, EffectInt DEF PersonalityAssumption
<1>3. r.value + Effect(e, k) \in Int
  BY <1>1, <1>2
<1>4. Clamp(r.value + Effect(e, k)) \in Floor..Ceil
  BY <1>2, <1>3, ClampFacts
<1>5. Felt(r, e, k) = [value |-> Clamp(r.value + Effect(e, k)), base |-> r.base,
                       felt |-> r.felt \cup {e}]
  BY <1>1 DEF Felt
<1> QED
  BY <1>1, <1>4, <1>5 DEF Row

-----------------------------------------------------------------------------
(* Types                                                                   *)

\* What a task that is not idle holds.
LEMMA QueryFacts ==
  ASSUME TypeOK, NEW t \in Tasks
  PROVE  /\ op[t] \in Query
         /\ op[t] = Idle <=> op[t].step = "idle"
         /\ op[t].step = "create" =>
              /\ op[t].event \in Event \cup {None} /\ op[t].player \in Players
              /\ op[t].base \in Baselines
         /\ op[t].step = "trust" =>
              /\ op[t].event \in Event \cup {None} /\ op[t].player \in Players
              /\ op[t].own \in Row
         /\ op[t].step \in {"update", "upsert", "log"} =>
              /\ op[t].event \in Event /\ op[t].player \in Players
              /\ op[t].own \in Row /\ op[t].trust \in Row
BY DEF TypeOK, Query, Idle

\* A query changes what its task holds and no other's.
LEMMA DoesFacts ==
  ASSUME TypeOK, NEW t \in Tasks, NEW q, Does(t, q)
  PROVE  /\ op'[t] = q
         /\ \A u \in Tasks : u # t => op'[u] = op[u]
         /\ q \in Query => op' \in [Tasks -> Query]
BY DEF TypeOK, Does

\* A row whose value has decayed is a row.
LEMMA DecayedRow ==
  ASSUME PersonalityAssumption, NEW r \in Row, NEW b \in Baselines,
         NEW v \in Decayed(r.value, b)
  PROVE  [value |-> v, base |-> b, felt |-> r.felt] \in Row
<1>1. /\ r.value \in Floor..Ceil /\ b \in Floor..Ceil
      /\ Floor \in Int /\ Ceil \in Int /\ r.felt \in SUBSET Event
  BY DEF Row, PersonalityAssumption
<1>2. v \in Floor..Ceil
  BY <1>1, DecayFacts
<1> QED
  BY <1>1, <1>2 DEF Row

\* The trust read for a player is a row with the NPC's baseline.
LEMMA TrustInFacts ==
  ASSUME PersonalityAssumption, TypeOK, NEW p \in Players, NEW b \in Baselines,
         NEW r \in TrustIn(p, b)
  PROVE  r \in Row /\ r.base = b
<1>1. b \in Floor..Ceil
  BY DEF PersonalityAssumption
<1>2. CASE row[p] = None
  BY <1>1, <1>2 DEF TrustIn, Row
<1>3. CASE row[p] # None
  <2>1. row[p] \in Row
    BY <1>3 DEF TypeOK, Keys
  <2>2. PICK v \in Decayed(row[p].value, b) :
          r = [value |-> v, base |-> b, felt |-> row[p].felt]
    BY <1>3 DEF TrustIn
  <2> QED
    BY <2>1, <2>2, DecayedRow
<1> QED
  BY <1>2, <1>3

\* The row of a new NPC.
LEMMA FreshRow ==
  ASSUME PersonalityAssumption, NEW b \in Baselines
  PROVE  [value |-> b, base |-> b, felt |-> {}] \in Row
BY DEF Row, PersonalityAssumption

\* A load starts with a query of its kind and changes no row.
LEMMA LoadTyped ==
  ASSUME PersonalityAssumption, TypeOK, NEW t \in Tasks, NEW e \in Event \cup {None},
         NEW p \in Players, Load(t, e, p)
  PROVE  op' \in [Tasks -> Query] /\ UNCHANGED <<row, log, landed>>
<1>1. UNCHANGED <<row, log, landed>>
  BY DEF Load
<1>2. CASE row[Own] = None
  <2>1. PICK b \in Baselines :
          Does(t, [step |-> "create", event |-> e, player |-> p, base |-> b])
    BY <1>2 DEF Load
  <2>2. [step |-> "create", event |-> e, player |-> p, base |-> b] \in Query
    BY DEF Query
  <2> QED
    BY <1>1, <2>1, <2>2, DoesFacts
<1>3. CASE row[Own] # None
  <2>1. PICK v \in Decayed(row[Own].value, row[Own].base) :
          Does(t, [step |-> "trust", event |-> e, player |-> p,
                   own |-> [row[Own] EXCEPT !.value = v]])
    BY <1>3 DEF Load
  <2>2. row[Own] \in Row
    BY <1>3 DEF TypeOK, Keys
  <2>3. row[Own] = [value |-> row[Own].value, base |-> row[Own].base,
                    felt |-> row[Own].felt]
    BY <2>2 DEF Row
  <2>4. [row[Own] EXCEPT !.value = v]
          = [value |-> v, base |-> row[Own].base, felt |-> row[Own].felt]
    BY <2>3
  <2>5. row[Own].base \in Baselines
    BY <2>2 DEF Row
  <2>6. [row[Own] EXCEPT !.value = v] \in Row
    BY <2>2, <2>4, <2>5, DecayedRow
  <2>7. [step |-> "trust", event |-> e, player |-> p,
         own |-> [row[Own] EXCEPT !.value = v]] \in Query
    BY <2>6 DEF Query
  <2> QED
    BY <1>1, <2>1, <2>7, DoesFacts
<1> QED
  BY <1>2, <1>3

\* Every step keeps the types.
LEMMA TypeStep ==
  ASSUME PersonalityAssumption, TypeOK, [Next]_vars
  PROVE  TypeOK'
<1>0. CASE UNCHANGED vars
  BY <1>0 DEF TypeOK, vars
<1>1. ASSUME NEW t \in Tasks, NEW p \in Players, Turn(t, p)  PROVE TypeOK'
  <2>1. Load(t, None, p) /\ UNCHANGED <<seen, beside>>
    BY <1>1 DEF Turn
  <2> QED
    BY <2>1, LoadTyped DEF TypeOK
<1>2. ASSUME NEW t \in Tasks, NEW p \in Players, NEW e \in Event, Occurs(t, e, p)
      PROVE  TypeOK'
  <2>1. op' \in [Tasks -> Query] /\ UNCHANGED <<row, log, landed>>
    BY <1>2, LoadTyped DEF Occurs
  <2>2. UnderWay \subseteq Event
    BY QueryFacts DEF UnderWay, Query, TypeOK
  <2> QED
    BY <1>2, <2>1, <2>2 DEF Occurs, TypeOK
<1>3. ASSUME NEW t \in Tasks, Create(t)  PROVE TypeOK'
  <2>1. [value |-> op[t].base, base |-> op[t].base, felt |-> {}] \in Row
    BY <1>3, QueryFacts, FreshRow DEF Create
  <2>2. [step |-> "trust", event |-> op[t].event, player |-> op[t].player,
         own |-> [value |-> op[t].base, base |-> op[t].base, felt |-> {}]] \in Query
    BY <1>3, <2>1, QueryFacts DEF Create, Query
  <2>3. Idle \in Query
    BY DEF Query
  <2>4. op' \in [Tasks -> Query]
    BY <1>3, <2>2, <2>3, DoesFacts DEF Create
  <2>5. row' \in [Keys -> Row \cup {None}]
    BY <1>3, <2>1 DEF Create, TypeOK
  <2> QED
    BY <1>3, <2>4, <2>5 DEF Create, TypeOK
<1>4. ASSUME NEW t \in Tasks, LoadTrust(t)  PROVE TypeOK'
  <2>1. Idle \in Query
    BY DEF Query
  <2>2. CASE op[t].event = None
    BY <1>4, <2>1, <2>2, DoesFacts DEF LoadTrust, TypeOK
  <2>3. CASE op[t].event # None
    <3>1. PICK r \in TrustIn(op[t].player, op[t].own.base) :
            Does(t, [step |-> "update", event |-> op[t].event, player |-> op[t].player,
                     own |-> Felt(op[t].own, op[t].event, Own),
                     trust |-> Felt(r, op[t].event, op[t].player)])
      BY <1>4, <2>3 DEF LoadTrust
    <3>2. op[t].event \in Event /\ op[t].player \in Players /\ op[t].own \in Row
      BY <1>4, <2>3, QueryFacts DEF LoadTrust
    <3>3. op[t].own.base \in Baselines
      BY <3>2 DEF Row
    <3>4. r \in Row
      BY <3>1, <3>2, <3>3, TrustInFacts
    <3>5. /\ Felt(op[t].own, op[t].event, Own) \in Row
          /\ Felt(r, op[t].event, op[t].player) \in Row
      BY <3>2, <3>4, FeltFacts
    <3>6. [step |-> "update", event |-> op[t].event, player |-> op[t].player,
           own |-> Felt(op[t].own, op[t].event, Own),
           trust |-> Felt(r, op[t].event, op[t].player)] \in Query
      BY <3>2, <3>5 DEF Query
    <3> QED
      BY <1>4, <3>1, <3>6, DoesFacts DEF LoadTrust, TypeOK
  <2> QED
    BY <2>2, <2>3
<1>5. ASSUME NEW t \in Tasks, UpdateOwn(t) \/ UpsertTrust(t)  PROVE TypeOK'
  <2>1. /\ op[t].event \in Event /\ op[t].player \in Players
        /\ op[t].own \in Row /\ op[t].trust \in Row
    BY <1>5, QueryFacts DEF UpdateOwn, UpsertTrust
  <2>2. op[t] \in [step : {"update", "upsert", "log"}, event : Event,
                   player : Players, own : Row, trust : Row]
    BY <1>5, QueryFacts DEF Query, Idle, UpdateOwn, UpsertTrust
  <2>3. [op[t] EXCEPT !.step = "upsert"] \in Query /\ [op[t] EXCEPT !.step = "log"] \in Query
    BY <2>2 DEF Query
  <2>4. op' \in [Tasks -> Query]
    BY <1>5, <2>3, DoesFacts DEF UpdateOwn, UpsertTrust
  <2>5. row' \in [Keys -> Row \cup {None}] /\ landed' \in [Keys -> SUBSET Event]
    BY <1>5, <2>1 DEF UpdateOwn, UpsertTrust, TypeOK
  <2> QED
    BY <1>5, <2>4, <2>5 DEF UpdateOwn, UpsertTrust, TypeOK
<1>6. ASSUME NEW t \in Tasks, Log(t) \/ QueryFails(t)  PROVE TypeOK'
  <2>1. Idle \in Query
    BY DEF Query
  <2>2. op' \in [Tasks -> Query]
    BY <1>6, <2>1, DoesFacts DEF Log, QueryFails
  <2>3. log' \subseteq Event
    BY <1>6, QueryFacts DEF Log, QueryFails, TypeOK
  <2> QED
    BY <1>6, <2>2, <2>3 DEF Log, QueryFails, TypeOK
<1> QED
  BY <1>0, <1>1, <1>2, <1>3, <1>4, <1>5, <1>6 DEF Next, Task

\* The range of the traits, for any operations, players and outcomes: whatever
\* is nudged, decayed, lost or overwritten, every value is within the limits.
THEOREM PersonalityTypeCorrect == Spec => []TypeOK
<1>1. Init => TypeOK
  BY DEF Init, TypeOK, Query
<1>2. TypeOK /\ [Next]_vars => TypeOK'
  BY PersonalityAssumption, TypeStep
<1> QED
  BY <1>1, <1>2, PTL DEF Spec

-----------------------------------------------------------------------------
(* The side of the baseline                                                *)

HoldsOwn(t) == op[t].step \in {"trust", "update"}
HoldsTrust(t) == op[t].step \in {"update", "upsert"}

\* r is on the side of its baseline that the outcomes S allow row k.
Sides(r, k, S) ==
  /\ (\A e \in S : Effect(e, k) >= 0) => r.value >= r.base
  /\ (\A e \in S : Effect(e, k) =< 0) => r.value =< r.base

\* r will do as row k.
Sound(r, k, S) == row[Own] # None /\ r.base = row[Own].base /\ Sides(r, k, S)

SidesInv ==
  /\ \A k \in Keys : row[k] # None => Sound(row[k], k, seen)
  /\ \A t \in Tasks : HoldsOwn(t) => Sound(op[t].own, Own, seen)
  /\ \A t \in Tasks : HoldsTrust(t) => Sound(op[t].trust, op[t].player, seen)
  /\ \A t \in Tasks : op[t].step # "idle" => op[t].event \in seen \cup {None}

\* What has occurred since can only allow more.
LEMMA SidesGrow ==
  ASSUME NEW r, NEW k, NEW S, NEW T, S \subseteq T, Sides(r, k, S)
  PROVE  Sides(r, k, T)
BY DEF Sides

\* Decay keeps the side.
LEMMA DecayedSides ==
  ASSUME PersonalityAssumption, NEW r \in Row, NEW k, NEW S, Sides(r, k, S),
         NEW v \in Decayed(r.value, r.base)
  PROVE  Sides([value |-> v, base |-> r.base, felt |-> r.felt], k, S)
<1>1. /\ r.value \in Floor..Ceil /\ r.base \in Floor..Ceil
      /\ Floor \in Int /\ Ceil \in Int
  BY DEF Row, PersonalityAssumption
<1>2. (r.value >= r.base => v >= r.base) /\ (r.value =< r.base => v =< r.base)
  BY <1>1, DecayFacts
<1> QED
  BY <1>2 DEF Sides

\* A nudge of an outcome that has occurred keeps the side.
LEMMA FeltSides ==
  ASSUME PersonalityAssumption, NEW r \in Row, NEW k, NEW S, NEW e \in Event, e \in S,
         Sides(r, k, S)
  PROVE  Sides(Felt(r, e, k), k, S)
<1>0. Effect(e, k) \in Int
  BY EffectInt
<1>1. /\ r.value \in Int /\ r.base \in Floor..Ceil /\ r.base \in Int
      /\ Effect(e, k) \in Int
  BY <1>0, RowFacts
<1>2. r.value + Effect(e, k) \in Int
  BY <1>1
<1>3. /\ r.value + Effect(e, k) >= r.base => Clamp(r.value + Effect(e, k)) >= r.base
      /\ r.value + Effect(e, k) =< r.base => Clamp(r.value + Effect(e, k)) =< r.base
  BY <1>1, <1>2, ClampFacts
<1>4. /\ Felt(r, e, k).value = Clamp(r.value + Effect(e, k))
      /\ Felt(r, e, k).base = r.base
  BY FeltFacts
<1>5. /\ (r.value >= r.base /\ Effect(e, k) >= 0) => r.value + Effect(e, k) >= r.base
      /\ (r.value =< r.base /\ Effect(e, k) =< 0) => r.value + Effect(e, k) =< r.base
  BY <1>1
<1> QED
  BY <1>3, <1>4, <1>5 DEF Sides

\* The trust a task reads will do as the player's row.
LEMMA TrustInSound ==
  ASSUME PersonalityAssumption, TypeOK, SidesInv, NEW p \in Players,
         row[Own] # None, NEW r \in TrustIn(p, row[Own].base)
  PROVE  Sound(r, p, seen)
<1>0. row[Own] \in Row /\ row[Own].base \in Baselines
  BY DEF TypeOK, Keys, Row
<1>1. CASE row[p] = None
  <2>1. r = [value |-> row[Own].base, base |-> row[Own].base, felt |-> {}]
    BY <1>1 DEF TrustIn
  <2>2. row[Own].base \in Int
    BY <1>0, RowFacts
  <2>3. r.value = row[Own].base /\ r.base = row[Own].base
    BY <2>1
  <2>4. r.value >= r.base /\ r.value =< r.base
    BY <2>2, <2>3
  <2> QED
    BY <2>3, <2>4 DEF Sound, Sides
<1>2. CASE row[p] # None
  <2>1. row[p] \in Row /\ Sound(row[p], p, seen)
    BY <1>2 DEF TypeOK, SidesInv, Keys
  <2>2. PICK v \in Decayed(row[p].value, row[Own].base) :
          r = [value |-> v, base |-> row[Own].base, felt |-> row[p].felt]
    BY <1>2 DEF TrustIn
  <2>3. row[p].base = row[Own].base
    BY <2>1 DEF Sound
  <2> QED
    BY <2>1, <2>2, <2>3, DecayedSides DEF Sound
<1> QED
  BY <1>1, <1>2

\* A step that changes no row, and gives its task only what will do as a row.
LEMMA SidesRead ==
  ASSUME TypeOK, SidesInv, NEW t \in Tasks, NEW q, Does(t, q), UNCHANGED row,
         seen \subseteq seen',
         q.step \in {"trust", "update"} => Sound(q.own, Own, seen'),
         q.step \in {"update", "upsert"} => Sound(q.trust, q.player, seen'),
         q.step # "idle" => q.event \in seen' \cup {None}
  PROVE  SidesInv'
<1>1. op'[t] = q /\ \A u \in Tasks : u # t => op'[u] = op[u]
  BY DoesFacts
<1>2. \A r, k : Sound(r, k, seen) => Sound(r, k, seen')
  BY SidesGrow DEF Sound
<1>3. \A k \in Keys : row'[k] # None => Sound(row[k], k, seen')
  BY <1>2 DEF SidesInv
<1>4. \A u \in Tasks : op'[u].step \in {"trust", "update"} => Sound(op'[u].own, Own, seen')
  BY <1>1, <1>2 DEF SidesInv, HoldsOwn
<1>5. \A u \in Tasks : op'[u].step \in {"update", "upsert"}
                        => Sound(op'[u].trust, op'[u].player, seen')
  BY <1>1, <1>2 DEF SidesInv, HoldsTrust
<1>6. \A u \in Tasks : op'[u].step # "idle" => op'[u].event \in seen' \cup {None}
  BY <1>1 DEF SidesInv
<1> QED
  BY <1>3, <1>4, <1>5, <1>6 DEF SidesInv, Sound, HoldsOwn, HoldsTrust

\* A write of a row that will do keeps all that is held.
LEMMA SidesWrite ==
  ASSUME TypeOK, SidesInv, NEW t \in Tasks, NEW q, Does(t, q), UNCHANGED seen,
         NEW k \in Keys, NEW r, r # None, row' = [row EXCEPT ![k] = r],
         k = Own => row[Own] = None \/ r.base = row[Own].base,
         r.base = row'[Own].base, row'[Own] # None, Sides(r, k, seen),
         q.step \in {"trust", "update"}
           => q.own.base = r.base /\ Sides(q.own, Own, seen),
         q.step \in {"update", "upsert"}
           => q.trust.base = r.base /\ Sides(q.trust, q.player, seen),
         q.step # "idle" => q.event \in seen \cup {None}
  PROVE  SidesInv'
<1>1. op'[t] = q /\ \A u \in Tasks : u # t => op'[u] = op[u]
  BY DoesFacts
<1>2. row'[k] = r /\ \A j \in Keys : j # k => row'[j] = row[j]
  BY DEF TypeOK
<1>3. row[Own] # None => row'[Own].base = row[Own].base
  BY <1>2 DEF Keys
<1>4. \A s, j : Sound(s, j, seen) => Sound(s, j, seen)'
  BY <1>3 DEF Sound, Sides
<1>5. \A j \in Keys : row'[j] # None => Sound(row[j], j, seen)'
  <2> TAKE j \in Keys
  <2>1. CASE j = k
    BY <2>1, <1>2 DEF Sound, Sides
  <2>2. CASE j # k
    BY <2>2, <1>2, <1>4 DEF SidesInv
  <2> QED
    BY <2>1, <2>2
<1>6. \A u \in Tasks : HoldsOwn(u)' => Sound(op[u].own, Own, seen)'
  BY <1>1, <1>4 DEF SidesInv, HoldsOwn, Sound
<1>7. \A u \in Tasks : HoldsTrust(u)' => Sound(op[u].trust, op[u].player, seen)'
  BY <1>1, <1>4 DEF SidesInv, HoldsTrust, Sound
<1>8. \A u \in Tasks : op'[u].step # "idle" => op'[u].event \in seen' \cup {None}
  BY <1>1 DEF SidesInv
<1> QED
  BY <1>5, <1>6, <1>7, <1>8 DEF SidesInv

LEMMA SidesStep ==
  ASSUME PersonalityAssumption, TypeOK, SidesInv, [Next]_vars
  PROVE  SidesInv'
<1>0. CASE UNCHANGED vars
  BY <1>0 DEF SidesInv, Sound, HoldsOwn, HoldsTrust, vars
<1>1. ASSUME NEW t \in Tasks, NEW p \in Players, NEW e \in Event \cup {None},
             Load(t, e, p), seen \subseteq seen', e \in seen' \cup {None}
      PROVE  SidesInv'
  <2>1. UNCHANGED row
    BY <1>1 DEF Load
  <2>2. CASE row[Own] = None
    <3>1. PICK b \in Baselines :
            Does(t, [step |-> "create", event |-> e, player |-> p, base |-> b])
      BY <1>1, <2>2 DEF Load
    <3> QED
      BY <1>1, <2>1, <3>1, SidesRead
  <2>3. CASE row[Own] # None
    <3>1. PICK v \in Decayed(row[Own].value, row[Own].base) :
            Does(t, [step |-> "trust", event |-> e, player |-> p,
                     own |-> [row[Own] EXCEPT !.value = v]])
      BY <1>1, <2>3 DEF Load
    <3>2. row[Own] \in Row /\ Sound(row[Own], Own, seen)
      BY <2>3 DEF TypeOK, Keys, SidesInv
    <3>3. [row[Own] EXCEPT !.value = v]
            = [value |-> v, base |-> row[Own].base, felt |-> row[Own].felt]
      BY <3>2 DEF Row
    <3>4. Sides([row[Own] EXCEPT !.value = v], Own, seen)
      BY <3>2, <3>3, DecayedSides DEF Sound
    <3>5. Sides([row[Own] EXCEPT !.value = v], Own, seen')
      BY <1>1, <3>4, SidesGrow
    <3>6. Sound([row[Own] EXCEPT !.value = v], Own, seen')
      BY <2>3, <3>3, <3>5 DEF Sound
    <3> QED
      BY <1>1, <2>1, <3>1, <3>6, SidesRead
  <2> QED
    BY <2>2, <2>3
<1>2. ASSUME NEW t \in Tasks, NEW p \in Players,
             Turn(t, p) \/ \E e \in Event : Occurs(t, e, p)
      PROVE  SidesInv'
  BY <1>1, <1>2 DEF Turn, Occurs
<1>3. ASSUME NEW t \in Tasks, Create(t)  PROVE SidesInv'
  <2>0. PICK fresh : fresh = [value |-> op[t].base, base |-> op[t].base, felt |-> {}]
    OBVIOUS
  <2>00. PICK q : q = [step |-> "trust", event |-> op[t].event,
                       player |-> op[t].player, own |-> fresh]
    OBVIOUS
  <2>1. op[t].base \in Baselines /\ op[t].event \in seen \cup {None}
    BY <1>3, QueryFacts DEF Create, SidesInv
  <2>2. fresh \in Row
    BY <2>0, <2>1, FreshRow
  <2>3. fresh.base = op[t].base /\ fresh.value = op[t].base
    BY <2>0
  <2>4. op[t].base \in Int /\ fresh # None
    BY <2>2, <2>3, RowFacts, NoneIsNoRow
  <2>5. fresh.value >= fresh.base /\ fresh.value =< fresh.base
    BY <2>3, <2>4
  <2>6. Sides(fresh, Own, seen)
    BY <2>5 DEF Sides
  <2>7. q.step = "trust" /\ q.own = fresh /\ q.event = op[t].event
    BY <2>00
  <2>8. CASE row[Own] = None
    <3>1. row' = [row EXCEPT ![Own] = fresh] /\ Does(t, q) /\ UNCHANGED seen
      BY <1>3, <2>8, <2>0, <2>00 DEF Create
    <3>2. row'[Own] = fresh /\ Own \in Keys
      BY <3>1 DEF TypeOK, Keys
    <3> QED
      BY <2>1, <2>4, <2>6, <2>7, <2>8, <3>1, <3>2, SidesWrite
  <2>9. CASE row[Own] # None
    BY <1>3, <2>9, SidesRead DEF Create, Idle
  <2> QED
    BY <2>8, <2>9
<1>4. ASSUME NEW t \in Tasks, LoadTrust(t)  PROVE SidesInv'
  <2>1. CASE op[t].event = None
    BY <1>4, <2>1, SidesRead DEF LoadTrust, Idle
  <2>2. CASE op[t].event # None
    <3>1. PICK r \in TrustIn(op[t].player, op[t].own.base) :
            Does(t, [step |-> "update", event |-> op[t].event, player |-> op[t].player,
                     own |-> Felt(op[t].own, op[t].event, Own),
                     trust |-> Felt(r, op[t].event, op[t].player)])
      BY <1>4, <2>2 DEF LoadTrust
    <3>2. op[t].event \in Event /\ op[t].player \in Players /\ op[t].own \in Row
      BY <1>4, <2>2, QueryFacts DEF LoadTrust
    <3>3. Sound(op[t].own, Own, seen) /\ op[t].event \in seen
      BY <1>4, <2>2 DEF LoadTrust, SidesInv, HoldsOwn
    <3>4. row[Own] # None /\ op[t].own.base = row[Own].base /\ op[t].own.base \in Baselines
      BY <3>2, <3>3 DEF Sound, Row
    <3>5. Sound(r, op[t].player, seen) /\ r \in Row
      BY <3>1, <3>2, <3>4, TrustInSound, TrustInFacts
    <3>6. /\ Sound(Felt(op[t].own, op[t].event, Own), Own, seen)
          /\ Sound(Felt(r, op[t].event, op[t].player), op[t].player, seen)
      BY <3>2, <3>3, <3>5, FeltSides, FeltFacts DEF Sound
    <3>7. UNCHANGED <<row, seen>>
      BY <1>4 DEF LoadTrust
    <3> QED
      BY <3>1, <3>3, <3>6, <3>7, SidesRead
  <2> QED
    BY <2>1, <2>2
<1>5. ASSUME NEW t \in Tasks, UpdateOwn(t)  PROVE SidesInv'
  <2>1. /\ op[t].own \in Row /\ op[t].own # None /\ op[t].event \in seen \cup {None}
        /\ Sound(op[t].own, Own, seen) /\ Sound(op[t].trust, op[t].player, seen)
    BY <1>5, QueryFacts, NoneIsNoRow DEF UpdateOwn, SidesInv, HoldsOwn, HoldsTrust
  <2>2. row' = [row EXCEPT ![Own] = op[t].own] /\ UNCHANGED seen /\ Own \in Keys
    BY <1>5 DEF UpdateOwn, Keys
  <2>3. row'[Own] = op[t].own
    BY <2>2 DEF TypeOK
  <2>4. PICK q : q = [op[t] EXCEPT !.step = "upsert"]
    OBVIOUS
  <2>5. op[t] \in [step : {"update", "upsert", "log"}, event : Event,
                   player : Players, own : Row, trust : Row]
    BY <1>5, QueryFacts DEF Query, Idle, UpdateOwn
  <2>6. /\ q.step = "upsert" /\ q.trust = op[t].trust
        /\ q.player = op[t].player /\ q.event = op[t].event
    BY <2>4, <2>5
  <2>7. Does(t, q)
    BY <1>5, <2>4 DEF UpdateOwn
  <2>8. /\ op[t].own.base = row[Own].base /\ op[t].trust.base = row[Own].base
        /\ Sides(op[t].own, Own, seen) /\ Sides(op[t].trust, op[t].player, seen)
    BY <2>1 DEF Sound
  <2> QED
    BY <2>1, <2>2, <2>3, <2>6, <2>7, <2>8, SidesWrite
<1>6. ASSUME NEW t \in Tasks, UpsertTrust(t)  PROVE SidesInv'
  <2>1. /\ op[t].trust \in Row /\ op[t].trust # None /\ op[t].event \in seen \cup {None}
        /\ Sound(op[t].trust, op[t].player, seen) /\ op[t].player \in Players
    BY <1>6, QueryFacts, NoneIsNoRow DEF UpsertTrust, SidesInv, HoldsTrust
  <2>2. /\ row' = [row EXCEPT ![op[t].player] = op[t].trust] /\ UNCHANGED seen
        /\ op[t].player \in Keys /\ op[t].player # Own
    BY <1>6, <2>1 DEF UpsertTrust, Keys, PersonalityAssumption
  <2>3. row'[Own] = row[Own]
    BY <2>2 DEF TypeOK
  <2>4. PICK q : q = [op[t] EXCEPT !.step = "log"]
    OBVIOUS
  <2>5. op[t] \in [step : {"update", "upsert", "log"}, event : Event,
                   player : Players, own : Row, trust : Row]
    BY <1>6, QueryFacts DEF Query, Idle, UpsertTrust
  <2>6. q.step = "log" /\ q.event = op[t].event
    BY <2>4, <2>5
  <2>7. Does(t, q)
    BY <1>6, <2>4 DEF UpsertTrust
  <2>8. /\ op[t].trust.base = row[Own].base /\ row[Own] # None
        /\ Sides(op[t].trust, op[t].player, seen)
    BY <2>1 DEF Sound
  <2> QED
    BY <2>1, <2>2, <2>3, <2>6, <2>7, <2>8, SidesWrite
<1>7. ASSUME NEW t \in Tasks, Log(t) \/ QueryFails(t)  PROVE SidesInv'
  BY <1>7, SidesRead DEF Log, QueryFails, Idle
<1> QED
  BY <1>0, <1>2, <1>3, <1>4, <1>5, <1>6, <1>7 DEF Next, Task

\* Identity is sticky, for any operations, players and outcomes: a trait leaves
\* the side of its baseline only after an outcome that goes the other way.
THEOREM StaysOnItsSide == Spec => []SidesWithBaseline
<1>1. Init => TypeOK /\ SidesInv
  BY DEF Init, TypeOK, Query, SidesInv, HoldsOwn, HoldsTrust, Idle
<1>2. TypeOK /\ SidesInv /\ [Next]_vars => (TypeOK /\ SidesInv)'
  BY PersonalityAssumption, TypeStep, SidesStep
<1>3. SidesInv => SidesWithBaseline
  BY DEF SidesInv, Sound, Sides, SidesWithBaseline
<1> QED
  BY <1>1, <1>2, <1>3, PTL DEF Spec

-----------------------------------------------------------------------------
(* What overlapping outcomes may lose                                      *)

Witness(e, k) == \E f \in landed[k] : <<e, f>> \in beside

\* Written as row k for the outcome g, r loses nothing that g does not overlap.
Carries(r, k, g) ==
  \A e \in landed[k] : e \in r.felt \/ Witness(e, k) \/ <<e, g>> \in beside

Overlapping(t, u) ==
  (op[t].step # "idle" /\ op[u].step # "idle" /\ op[t].event # None /\ op[u].event # None)
    => <<op[t].event, op[u].event>> \in beside

KeptInv ==
  /\ \A k \in Keys : \A e \in landed[k] :
       row[k] # None /\ (e \in row[k].felt \/ Witness(e, k))
  /\ \A t \in Tasks : (HoldsOwn(t) /\ op[t].event # None)
                       => Carries(op[t].own, Own, op[t].event)
  /\ \A t \in Tasks : HoldsTrust(t) => Carries(op[t].trust, op[t].player, op[t].event)
  /\ \A t, u \in Tasks : t # u => Overlapping(t, u)

\* A step that writes no row, and whose task carries what it has read.
LEMMA KeptRead ==
  ASSUME TypeOK, KeptInv, NEW t \in Tasks, NEW q, Does(t, q), UNCHANGED <<row, landed>>,
         beside \subseteq beside',
         (q.step \in {"trust", "update"} /\ q.event # None) => Carries(q.own, Own, q.event),
         q.step \in {"update", "upsert"} => Carries(q.trust, q.player, q.event),
         (q.step # "idle" /\ q.event # None) =>
           \A u \in Tasks \ {t} : (op[u].step # "idle" /\ op[u].event # None) =>
             <<q.event, op[u].event>> \in beside' /\ <<op[u].event, q.event>> \in beside'
  PROVE  KeptInv'
<1>1. op'[t] = q /\ \A u \in Tasks : u # t => op'[u] = op[u]
  BY DoesFacts
<1>2. \A e, k : Witness(e, k) => Witness(e, k)'
  BY DEF Witness
<1>3. \A r, k, g : Carries(r, k, g) => Carries(r, k, g)'
  BY <1>2 DEF Carries
<1>4. \A k \in Keys : \A e \in landed'[k] :
         row'[k] # None /\ (e \in row'[k].felt \/ Witness(e, k)')
  BY <1>2 DEF KeptInv
<1>5. \A u \in Tasks : (HoldsOwn(u)' /\ op'[u].event # None)
                        => Carries(op[u].own, Own, op[u].event)'
  BY <1>1, <1>3 DEF KeptInv, HoldsOwn, Carries, Witness
<1>6. \A u \in Tasks : HoldsTrust(u)' => Carries(op[u].trust, op[u].player, op[u].event)'
  BY <1>1, <1>3 DEF KeptInv, HoldsTrust, Carries, Witness
<1>7. \A u, w \in Tasks : u # w => Overlapping(u, w)'
  BY <1>1 DEF KeptInv, Overlapping
<1> QED
  BY <1>4, <1>5, <1>6, <1>7 DEF KeptInv

\* An outcome that writes a row overlaps all others that have read it.
LEMMA KeptWrite ==
  ASSUME PersonalityAssumption, TypeOK, KeptInv, NEW t \in Tasks, NEW q, Does(t, q),
         UNCHANGED beside,
         NEW k \in Keys, NEW r, r # None, row' = [row EXCEPT ![k] = r],
         op[t].step # "idle", op[t].event # None,
         landed' = [landed EXCEPT ![k] = @ \cup {op[t].event}],
         Carries(r, k, op[t].event), op[t].event \in r.felt,
         q.step \in {"upsert", "log"}, q.event = op[t].event,
         q.step = "upsert" =>
           q.player \in Keys \ {k} /\ Carries(q.trust, q.player, q.event)
  PROVE  KeptInv'
<1>1. op'[t] = q /\ \A u \in Tasks : u # t => op'[u] = op[u]
  BY DoesFacts
<1>2. /\ row'[k] = r /\ landed'[k] = landed[k] \cup {op[t].event}
      /\ \A j \in Keys : j # k => row'[j] = row[j] /\ landed'[j] = landed[j]
  BY DEF TypeOK
<1>3. \A j \in Keys : \A e : Witness(e, j) => Witness(e, j)'
  BY <1>2 DEF Witness
<1>4. \A e \in landed[k] : <<e, op[t].event>> \in beside => Witness(e, k)'
  BY <1>2 DEF Witness
<1>5. \A j \in Keys : \A e \in landed'[j] :
         row'[j] # None /\ (e \in row'[j].felt \/ Witness(e, j)')
  <2> TAKE j \in Keys
  <2>1. CASE j = k
    BY <2>1, <1>2, <1>3, <1>4 DEF Carries
  <2>2. CASE j # k
    BY <2>2, <1>2, <1>3 DEF KeptInv
  <2> QED
    BY <2>1, <2>2
<1>6. ASSUME NEW u \in Tasks, u # t, op[u].step # "idle", op[u].event # None
      PROVE  <<op[t].event, op[u].event>> \in beside
  BY <1>6 DEF KeptInv, Overlapping
<1>7. ASSUME NEW u \in Tasks, u # t, op[u].step # "idle", op[u].event # None,
             NEW s, NEW j \in Keys, Carries(s, j, op[u].event)
      PROVE  \A e \in landed'[j] : e \in s.felt \/ Witness(e, j)'
                                     \/ <<e, op[u].event>> \in beside'
  BY <1>2, <1>3, <1>6, <1>7 DEF Carries
<1>8. Own \in Keys /\ \A u \in Tasks :
        op[u].step \in {"update", "upsert"}
          => op[u].player \in Keys /\ op[u].event # None
  BY QueryFacts, NoneIsNoRow DEF Keys
<1>9. \A u \in Tasks : (HoldsOwn(u)' /\ op'[u].event # None)
                        => Carries(op[u].own, Own, op[u].event)'
  <2> SUFFICES ASSUME NEW u \in Tasks, op'[u].step \in {"trust", "update"},
                      op'[u].event # None
               PROVE  Carries(op[u].own, Own, op[u].event)'
    BY DEF HoldsOwn
  <2>1. u # t /\ op'[u] = op[u]
    BY <1>1
  <2>2. Carries(op[u].own, Own, op[u].event)
    BY <2>1 DEF KeptInv, HoldsOwn
  <2>3. \A e \in landed'[Own] : e \in op[u].own.felt \/ Witness(e, Own)'
                                   \/ <<e, op[u].event>> \in beside'
    BY <1>7, <1>8, <2>1, <2>2
  <2> QED
    BY <2>1, <2>3 DEF Carries
<1>10. \A u \in Tasks : HoldsTrust(u)' => Carries(op[u].trust, op[u].player, op[u].event)'
  <2> SUFFICES ASSUME NEW u \in Tasks, op'[u].step \in {"update", "upsert"}
               PROVE  Carries(op[u].trust, op[u].player, op[u].event)'
    BY DEF HoldsTrust
  <2>1. CASE u = t
    BY <2>1, <1>1, <1>2, <1>3 DEF Carries
  <2>2. CASE u # t
    <3>1. op'[u] = op[u] /\ op[u].player \in Keys /\ op[u].event # None
      BY <2>2, <1>1, <1>8
    <3>2. Carries(op[u].trust, op[u].player, op[u].event)
      BY <3>1 DEF KeptInv, HoldsTrust
    <3>3. \A e \in landed'[op[u].player] :
            e \in op[u].trust.felt \/ Witness(e, op[u].player)'
              \/ <<e, op[u].event>> \in beside'
      BY <1>7, <2>2, <3>1, <3>2
    <3> QED
      BY <3>1, <3>3 DEF Carries, Witness
  <2> QED
    BY <2>1, <2>2
<1>11. \A u, w \in Tasks : u # w => Overlapping(u, w)'
  BY <1>1 DEF KeptInv, Overlapping
<1> QED
  BY <1>5, <1>9, <1>10, <1>11 DEF KeptInv

\* What is about to be written contains the nudge it is written for, and what
\* is about to be logged has been written.
FeltInv ==
  /\ \A t \in Tasks : op[t].step \in {"update", "upsert"} =>
       op[t].event \in op[t].own.felt /\ op[t].event \in op[t].trust.felt
  /\ \A t \in Tasks : op[t].step \in {"upsert", "log"} => op[t].event \in landed[Own]
  /\ \A t \in Tasks : op[t].step = "log" => op[t].event \in landed[op[t].player]
  /\ LoggedWasFelt

\* A step after which the task's query is of the kind q.
LEMMA FeltDoes ==
  ASSUME TypeOK, FeltInv, NEW t \in Tasks, NEW q, Does(t, q),
         \A k \in Keys : landed[k] \subseteq landed'[k],
         q.step \in {"update", "upsert"} =>
           q.event \in q.own.felt /\ q.event \in q.trust.felt,
         q.step \in {"upsert", "log"} => q.event \in landed'[Own],
         q.step = "log" => q.event \in landed'[q.player],
         \A e \in log' \ log : e \in landed[Own] /\ \E p \in Players : e \in landed[p]
  PROVE  FeltInv'
<1>1. op'[t] = q /\ \A u \in Tasks : u # t => op'[u] = op[u]
  BY DoesFacts
<1>2. \A u \in Tasks : op[u].step = "log" => op[u].player \in Keys
  BY QueryFacts DEF Keys
<1>3. Own \in Keys /\ Players \subseteq Keys
  BY DEF Keys
<1>4. LoggedWasFelt'
  BY <1>3 DEF FeltInv, LoggedWasFelt
<1> QED
  BY <1>1, <1>2, <1>3, <1>4 DEF FeltInv

LEMMA FeltStep ==
  ASSUME PersonalityAssumption, TypeOK, FeltInv, [Next]_vars
  PROVE  FeltInv'
<1>0. CASE UNCHANGED vars
  BY <1>0 DEF FeltInv, LoggedWasFelt, vars
<1>1. ASSUME NEW t \in Tasks, NEW p \in Players, NEW e \in Event \cup {None}, Load(t, e, p)
      PROVE  FeltInv'
  <2>1. UNCHANGED <<landed, log>>
    BY <1>1 DEF Load
  <2>2. \E q : Does(t, q) /\ q.step \in {"create", "trust"}
    <3>1. CASE row[Own] = None
      <4>1. PICK b \in Baselines :
              Does(t, [step |-> "create", event |-> e, player |-> p, base |-> b])
        BY <1>1, <3>1 DEF Load
      <4> QED
        BY <4>1
    <3>2. CASE row[Own] # None
      <4>1. PICK v \in Decayed(row[Own].value, row[Own].base) :
              Does(t, [step |-> "trust", event |-> e, player |-> p,
                       own |-> [row[Own] EXCEPT !.value = v]])
        BY <1>1, <3>2 DEF Load
      <4> QED
        BY <4>1
    <3> QED
      BY <3>1, <3>2
  <2> QED
    BY <2>1, <2>2, FeltDoes
<1>2. ASSUME NEW t \in Tasks, NEW p \in Players,
             Turn(t, p) \/ \E e \in Event : Occurs(t, e, p)
      PROVE  FeltInv'
  BY <1>1, <1>2 DEF Turn, Occurs
<1>3. ASSUME NEW t \in Tasks, Create(t)  PROVE FeltInv'
  <2>1. UNCHANGED <<landed, log>>
    BY <1>3 DEF Create
  <2>2. PICK q : Does(t, q) /\ q.step \in {"idle", "trust"}
    BY <1>3 DEF Create, Idle
  <2> QED
    BY <2>1, <2>2, FeltDoes
<1>4. ASSUME NEW t \in Tasks, LoadTrust(t)  PROVE FeltInv'
  <2>1. UNCHANGED <<landed, log>>
    BY <1>4 DEF LoadTrust
  <2>2. CASE op[t].event = None
    BY <1>4, <2>1, <2>2, FeltDoes DEF LoadTrust, Idle
  <2>3. CASE op[t].event # None
    <3>1. PICK r \in TrustIn(op[t].player, op[t].own.base) :
            Does(t, [step |-> "update", event |-> op[t].event, player |-> op[t].player,
                     own |-> Felt(op[t].own, op[t].event, Own),
                     trust |-> Felt(r, op[t].event, op[t].player)])
      BY <1>4, <2>3 DEF LoadTrust
    <3>2. /\ op[t].event \in Felt(op[t].own, op[t].event, Own).felt
          /\ op[t].event \in Felt(r, op[t].event, op[t].player).felt
      BY DEF Felt
    <3> QED
      BY <2>1, <3>1, <3>2, FeltDoes
  <2> QED
    BY <2>2, <2>3
<1>5. ASSUME NEW t \in Tasks, UpdateOwn(t) \/ UpsertTrust(t)  PROVE FeltInv'
  <2>1. op[t].player \in Keys /\ Own \in Keys
    BY <1>5, QueryFacts DEF UpdateOwn, UpsertTrust, Keys
  <2>2. op[t] \in [step : {"update", "upsert", "log"}, event : Event,
                   player : Players, own : Row, trust : Row]
    BY <1>5, QueryFacts DEF Query, Idle, UpdateOwn, UpsertTrust
  <2>3. PICK q : q = [op[t] EXCEPT !.step = IF op[t].step = "update" THEN "upsert" ELSE "log"]
    OBVIOUS
  <2>4. /\ q.step = (IF op[t].step = "update" THEN "upsert" ELSE "log")
        /\ q.event = op[t].event /\ q.player = op[t].player
        /\ q.own = op[t].own /\ q.trust = op[t].trust
    BY <2>2, <2>3
  <2>5. Does(t, q) /\ UNCHANGED log
    BY <1>5, <2>3 DEF UpdateOwn, UpsertTrust
  <2>6. /\ \A k \in Keys : landed[k] \subseteq landed'[k]
        /\ q.event \in landed'[Own]
        /\ q.step = "log" => q.event \in landed'[q.player]
    BY <1>5, <2>1, <2>4 DEF UpdateOwn, UpsertTrust, TypeOK, FeltInv
  <2> QED
    BY <1>5, <2>4, <2>5, <2>6, FeltDoes DEF FeltInv, UpdateOwn, UpsertTrust
<1>6. ASSUME NEW t \in Tasks, Log(t)  PROVE FeltInv'
  <2>1. op[t].player \in Players
    BY <1>6, QueryFacts DEF Log
  <2> QED
    BY <1>6, <2>1, FeltDoes DEF Log, Idle, FeltInv
<1>7. ASSUME NEW t \in Tasks, QueryFails(t)  PROVE FeltInv'
  BY <1>7, FeltDoes DEF QueryFails, Idle
<1> QED
  BY <1>0, <1>2, <1>3, <1>4, <1>5, <1>6, <1>7 DEF Next, Task

LEMMA KeptStep ==
  ASSUME PersonalityAssumption, TypeOK, FeltInv, KeptInv, [Next]_vars
  PROVE  KeptInv'
<1>0. CASE UNCHANGED vars
  BY <1>0 DEF KeptInv, Carries, Witness, Overlapping, HoldsOwn, HoldsTrust, vars
<1>1. ASSUME NEW t \in Tasks, NEW p \in Players, NEW e \in Event \cup {None},
             Load(t, e, p), beside \subseteq beside',
             e # None =>
               \A u \in Tasks \ {t} : (op[u].step # "idle" /\ op[u].event # None) =>
                 <<e, op[u].event>> \in beside' /\ <<op[u].event, e>> \in beside'
      PROVE  KeptInv'
  <2>1. UNCHANGED <<row, landed>>
    BY <1>1 DEF Load
  <2>2. CASE row[Own] = None
    <3>1. PICK b \in Baselines :
            Does(t, [step |-> "create", event |-> e, player |-> p, base |-> b])
      BY <1>1, <2>2 DEF Load
    <3> QED
      BY <1>1, <2>1, <3>1, KeptRead
  <2>3. CASE row[Own] # None
    <3>1. PICK v \in Decayed(row[Own].value, row[Own].base) :
            Does(t, [step |-> "trust", event |-> e, player |-> p,
                     own |-> [row[Own] EXCEPT !.value = v]])
      BY <1>1, <2>3 DEF Load
    <3>2. row[Own] \in Row /\ Own \in Keys
      BY <2>3 DEF TypeOK, Keys
    <3>3. [row[Own] EXCEPT !.value = v].felt = row[Own].felt
      BY <3>2 DEF Row
    <3>4. Carries([row[Own] EXCEPT !.value = v], Own, e)
      BY <3>2, <3>3 DEF Carries, KeptInv
    <3> QED
      BY <1>1, <2>1, <3>1, <3>4, KeptRead
  <2> QED
    BY <2>2, <2>3
<1>2. ASSUME NEW t \in Tasks, NEW p \in Players, Turn(t, p)  PROVE KeptInv'
  BY <1>1, <1>2 DEF Turn
<1>3. ASSUME NEW t \in Tasks, NEW p \in Players, NEW e \in Event, Occurs(t, e, p)
      PROVE  KeptInv'
  <2>1. \A u \in Tasks : (op[u].step # "idle" /\ op[u].event # None)
                         => op[u].event \in UnderWay
    BY QueryFacts DEF UnderWay
  <2> QED
    BY <1>1, <1>3, <2>1 DEF Occurs
<1>4. ASSUME NEW t \in Tasks, Create(t)  PROVE KeptInv'
  <2>1. op[t].step = "create"
    BY <1>4 DEF Create
  <2>2. \A u \in Tasks \ {t} : (op[u].step # "idle" /\ op[u].event # None /\ op[t].event # None)
          => <<op[t].event, op[u].event>> \in beside /\ <<op[u].event, op[t].event>> \in beside
    BY <2>1 DEF KeptInv, Overlapping
  <2>3. CASE row[Own] # None
    BY <1>4, <2>3, KeptRead DEF Create, Idle
  <2>4. CASE row[Own] = None
    <3>1. PICK q : q = [step |-> "trust", event |-> op[t].event, player |-> op[t].player,
                        own |-> [value |-> op[t].base, base |-> op[t].base, felt |-> {}]]
      OBVIOUS
    <3>2. Does(t, q) /\ UNCHANGED <<landed, beside>>
          /\ row' = [row EXCEPT ![Own] = [value |-> op[t].base, base |-> op[t].base,
                                          felt |-> {}]]
      BY <1>4, <2>4, <3>1 DEF Create
    <3>3. landed[Own] = {} /\ Own \in Keys
      BY <2>4 DEF KeptInv, Keys, TypeOK
    <3>4. op'[t] = q /\ \A u \in Tasks : u # t => op'[u] = op[u]
      BY <3>2, DoesFacts
    <3>5. \A k \in Keys : \A e \in landed'[k] :
            row'[k] # None /\ (e \in row'[k].felt \/ Witness(e, k)')
      BY <3>2, <3>3 DEF KeptInv, TypeOK, Witness
    <3>6. \A u \in Tasks : (HoldsOwn(u)' /\ op'[u].event # None)
                           => Carries(op[u].own, Own, op[u].event)'
      BY <3>2, <3>3 DEF Carries
    <3>7. q.step = "trust" /\ q.event = op[t].event
      BY <3>1
    <3>8. \A u \in Tasks : HoldsTrust(u)' => Carries(op[u].trust, op[u].player, op[u].event)'
      BY <3>2, <3>4, <3>7 DEF KeptInv, HoldsTrust, Carries, Witness
    <3>9. \A u, w \in Tasks : u # w => Overlapping(u, w)'
      BY <2>1, <3>2, <3>4, <3>7 DEF KeptInv, Overlapping
    <3> QED
      BY <3>5, <3>6, <3>8, <3>9 DEF KeptInv
  <2> QED
    BY <2>3, <2>4
<1>5. ASSUME NEW t \in Tasks, LoadTrust(t)  PROVE KeptInv'
  <2>1. UNCHANGED <<row, landed, beside>> /\ op[t].step = "trust"
    BY <1>5 DEF LoadTrust
  <2>2. CASE op[t].event = None
    BY <1>5, <2>1, <2>2, KeptRead DEF LoadTrust, Idle
  <2>3. CASE op[t].event # None
    <3>1. PICK r \in TrustIn(op[t].player, op[t].own.base) :
            Does(t, [step |-> "update", event |-> op[t].event, player |-> op[t].player,
                     own |-> Felt(op[t].own, op[t].event, Own),
                     trust |-> Felt(r, op[t].event, op[t].player)])
      BY <1>5, <2>3 DEF LoadTrust
    <3>2. op[t].player \in Keys
      BY <2>1, QueryFacts DEF Keys
    <3>3. Carries(op[t].own, Own, op[t].event)
      BY <2>1, <2>3 DEF KeptInv, HoldsOwn
    <3>4. row[op[t].player] # None => r.felt = row[op[t].player].felt
      BY <3>1 DEF TrustIn
    <3>5. Carries(r, op[t].player, op[t].event)
      BY <3>2, <3>4 DEF Carries, KeptInv
    <3>6. /\ Carries(Felt(op[t].own, op[t].event, Own), Own, op[t].event)
          /\ Carries(Felt(r, op[t].event, op[t].player), op[t].player, op[t].event)
      BY <3>3, <3>5 DEF Carries, Felt
    <3>7. \A u \in Tasks \ {t} : (op[u].step # "idle" /\ op[u].event # None) =>
            <<op[t].event, op[u].event>> \in beside /\ <<op[u].event, op[t].event>> \in beside
      BY <2>1, <2>3 DEF KeptInv, Overlapping
    <3> QED
      BY <2>1, <3>1, <3>6, <3>7, KeptRead
  <2> QED
    BY <2>2, <2>3
<1>6. ASSUME NEW t \in Tasks, UpdateOwn(t)  PROVE KeptInv'
  <2>1. /\ op[t].step = "update" /\ op[t].event # None /\ op[t].own # None
        /\ op[t].player \in Keys \ {Own}
    BY <1>6, QueryFacts, NoneIsNoRow DEF UpdateOwn, Keys, PersonalityAssumption
  <2>2. op[t] \in [step : {"update", "upsert", "log"}, event : Event,
                   player : Players, own : Row, trust : Row]
    BY <2>1, QueryFacts DEF Query, Idle
  <2>3. PICK q : q = [op[t] EXCEPT !.step = "upsert"]
    OBVIOUS
  <2>4. /\ q.step = "upsert" /\ q.trust = op[t].trust
        /\ q.player = op[t].player /\ q.event = op[t].event
    BY <2>2, <2>3
  <2>5. /\ Carries(op[t].own, Own, op[t].event)
        /\ Carries(q.trust, q.player, q.event)
    BY <2>1, <2>4 DEF KeptInv, HoldsOwn, HoldsTrust
  <2>6. Does(t, q) /\ Own \in Keys /\ row' = [row EXCEPT ![Own] = op[t].own]
        /\ landed' = [landed EXCEPT ![Own] = @ \cup {op[t].event}] /\ UNCHANGED beside
    BY <1>6, <2>3 DEF UpdateOwn, Keys
  <2>7. op[t].event \in op[t].own.felt
    BY <2>1 DEF FeltInv
  <2> QED
    BY <2>1, <2>4, <2>5, <2>6, <2>7, KeptWrite
<1>7. ASSUME NEW t \in Tasks, UpsertTrust(t)  PROVE KeptInv'
  <2>1. /\ op[t].step = "upsert" /\ op[t].event # None /\ op[t].trust # None
        /\ op[t].player \in Keys
    BY <1>7, QueryFacts, NoneIsNoRow DEF UpsertTrust, Keys
  <2>2. op[t] \in [step : {"update", "upsert", "log"}, event : Event,
                   player : Players, own : Row, trust : Row]
    BY <2>1, QueryFacts DEF Query, Idle
  <2>3. PICK q : q = [op[t] EXCEPT !.step = "log"]
    OBVIOUS
  <2>4. q.step = "log" /\ q.event = op[t].event
    BY <2>2, <2>3
  <2>5. Carries(op[t].trust, op[t].player, op[t].event)
    BY <2>1 DEF KeptInv, HoldsTrust
  <2>6. Does(t, q) /\ row' = [row EXCEPT ![op[t].player] = op[t].trust]
        /\ landed' = [landed EXCEPT ![op[t].player] = @ \cup {op[t].event}]
        /\ UNCHANGED beside
    BY <1>7, <2>3 DEF UpsertTrust
  <2>7. op[t].event \in op[t].trust.felt
    BY <2>1 DEF FeltInv
  <2> QED
    BY <2>1, <2>4, <2>5, <2>6, <2>7, KeptWrite
<1>8. ASSUME NEW t \in Tasks, Log(t) \/ QueryFails(t)  PROVE KeptInv'
  BY <1>8, KeptRead DEF Log, QueryFails, Idle
<1> QED
  BY <1>0, <1>2, <1>3, <1>4, <1>5, <1>6, <1>7, <1>8 DEF Next, Task

IInv == TypeOK /\ FeltInv /\ KeptInv

LEMMA Invariant == Spec => []IInv
<1>1. Init => IInv
  BY DEF Init, IInv, TypeOK, Query, Idle, FeltInv, LoggedWasFelt, KeptInv, HoldsOwn,
         HoldsTrust, Overlapping
<1>2. IInv /\ [Next]_vars => IInv'
  BY PersonalityAssumption, TypeStep, FeltStep, KeptStep DEF IInv
<1> QED
  BY <1>1, <1>2, PTL DEF Spec

\* For any operations, players and outcomes, a nudge is lost only to an outcome
\* that was recorded at the same time.
THEOREM OverlapAloneLoses == Spec => []LostOnlyToOverlap
<1>1. IInv => LostOnlyToOverlap
  BY DEF IInv, KeptInv, Witness, LostOnlyToOverlap
<1> QED
  BY <1>1, Invariant, PTL

\* For any operations, players and outcomes, and whichever queries fail, the
\* log names no outcome that did not reach the traits and the trust.
THEOREM LogIsBacked == Spec => []LoggedWasFelt
<1>1. IInv => LoggedWasFelt
  BY DEF IInv, FeltInv
<1> QED
  BY <1>1, Invariant, PTL
=============================================================================
