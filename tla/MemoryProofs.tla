----------------------------- MODULE MemoryProofs -----------------------------
(***************************************************************************)
(* What holds of an NPC's memory for any number of turns, players, notes   *)
(* and failures, and any threshold, batch and limit of a scroll.           *)
(***************************************************************************)
EXTENDS Memory, TLAPS

\* Every action of a sweep leaves the turns alone.
LEMMA SweepSteps ==
  ASSUME Compression \/ SweepFails
  PROVE  Sweeps
BY DEF Compression, SweepFails, Counts, Scrolls, Distills, Stores, Forgets

-----------------------------------------------------------------------------
(* Types                                                                   *)

LEMMA OldestSubset ==
  ASSUME NEW S, NEW k
  PROVE  Oldest(S, k) \subseteq S
BY DEF Oldest

\* What a sweep is about to summarise is among the notes.
LEMMA ChosenArePoints ==
  ASSUME NEW S \in Scrolled, NEW ids \in Kept(Oldest(S, BatchSize))
  PROVE  ids \subseteq points
<1>1. S \subseteq points
  BY DEF Scrolled
<1>2. Oldest(S, BatchSize) \subseteq S
  BY OldestSubset
<1>3. PICK k \in 1..Cardinality(Oldest(S, BatchSize)) :
        ids = Oldest(Oldest(S, BatchSize), k)
  BY DEF Kept
<1>4. ids \subseteq Oldest(S, BatchSize)
  BY <1>3, OldestSubset
<1> QED BY <1>1, <1>2, <1>4

LEMMA TurnTypes ==
  ASSUME MemoryAssumption, TypeOK,
         \/ \E t \in Turns : Sends(t) \/ \E p \in Players : Says(t, p)
         \/ \E n \in landing : Lands(n) \/ LandFails(n)
         \/ Restart
  PROVE  TypeOK'
<1> USE DEF Note
<1>0. MaxSaid \in Nat /\ MaxFaults \in Nat
  BY DEF MemoryAssumption
<1>1. ASSUME NEW t \in Turns, Sends(t) PROVE TypeOK'
  <2>1. turn[t] \in [player : Players, n : 1..MaxSaid]
    BY <1>1 DEF Sends, TypeOK
  <2>2. turn[t].player \in Players /\ turn[t].n \in 1..MaxSaid
    BY <2>1
  <2>3. sent' \in [Players -> 0..MaxSaid]
    BY <1>1, <1>0, <2>2 DEF Sends, TypeOK, Larger
  <2>4. turn' \in [Turns -> [player : Players, n : 1..MaxSaid] \cup {Silent}]
    BY <1>1 DEF Sends, TypeOK
  <2> QED BY <1>1, <2>3, <2>4 DEF Sends, TypeOK
<1>2. ASSUME NEW t \in Turns, NEW p \in Players, Says(t, p) PROVE TypeOK'
  <2>1. said' \in 1..MaxSaid /\ said' = said + 1
    BY <1>2, <1>0 DEF Says, TypeOK
  <2>2. turn' \in [Turns -> [player : Players, n : 1..MaxSaid] \cup {Silent}]
    BY <1>2, <2>1 DEF Says, TypeOK
  <2>3. lastReply' \in [Players -> 0..MaxSaid]
    BY <1>2, <1>0, <2>1 DEF Says, TypeOK, Record
  <2> QED BY <1>2, <1>0, <2>1, <2>2, <2>3 DEF Says, TypeOK
<1>3. ASSUME NEW n \in landing, Lands(n) PROVE TypeOK'
  BY <1>3 DEF Lands, TypeOK
<1>4. ASSUME NEW n \in landing, LandFails(n) PROVE TypeOK'
  BY <1>4, <1>0 DEF LandFails, Faulty, TypeOK
<1>5. CASE Restart
  BY <1>5, <1>0 DEF Restart, Faulty, TypeOK, Asleep
<1> QED BY <1>1, <1>2, <1>3, <1>4, <1>5

LEMMA SweepTypes ==
  ASSUME MemoryAssumption, TypeOK, Compression \/ SweepFails
  PROVE  TypeOK'
<1>0. MaxSaid \in Nat /\ MaxFaults \in Nat
  BY DEF MemoryAssumption
<1>1. /\ UNCHANGED <<said, turn, lastReply, sent, landing, written>>
  BY SweepSteps DEF Sweeps
<1>2. CASE Counts
  BY <1>1, <1>2 DEF Counts, TypeOK
<1>3. CASE Scrolls
  <2>1. PICK S \in Scrolled : \E ids \in Kept(Oldest(S, BatchSize)) :
          sweep' = [step |-> "ask", ids |-> ids, left |-> 0]
    BY <1>3 DEF Scrolls
  <2>2. PICK ids \in Kept(Oldest(S, BatchSize)) :
          sweep' = [step |-> "ask", ids |-> ids, left |-> 0]
    BY <2>1
  <2>3. ids \subseteq Note
    BY ChosenArePoints DEF TypeOK
  <2> QED BY <1>1, <1>3, <2>2, <2>3 DEF Scrolls, TypeOK
<1>4. CASE Distills
  <2>1. PICK n \in 0..2 : ToStore(sweep.ids, n)
    BY <1>4 DEF Distills
  <2> QED BY <1>1, <1>4, <2>1 DEF Distills, ToStore, TypeOK
<1>5. CASE Stores
  <2>1. sweep.left - 1 \in 0..2
    BY <1>5 DEF Stores, TypeOK
  <2> QED BY <1>1, <1>5, <2>1 DEF Stores, ToStore, TypeOK
<1>6. CASE Forgets
  BY <1>1, <1>6 DEF Forgets, TypeOK, Asleep
<1>7. CASE SweepFails
  BY <1>0, <1>1, <1>7 DEF SweepFails, Faulty, TypeOK, Asleep
<1> QED BY <1>2, <1>3, <1>4, <1>5, <1>6, <1>7 DEF Compression

LEMMA TypeStep ==
  ASSUME MemoryAssumption, TypeOK, [Next]_vars
  PROVE  TypeOK'
<1>1. CASE Next
  BY <1>1, TurnTypes, SweepTypes DEF Next
<1>2. CASE UNCHANGED vars
  BY <1>2 DEF vars, TypeOK
<1> QED BY <1>1, <1>2

\* Every variable keeps its type: the notes, the batch under way, the replies.
THEOREM MemoryTypeCorrect == Spec => []TypeOK
<1>0. 0 \in 0..MaxSaid /\ 0 \in 0..MaxFaults
  BY MemoryAssumption DEF MemoryAssumption
<1>1. Init => TypeOK
  BY <1>0 DEF Init, TypeOK, Asleep
<1>2. TypeOK /\ [Next]_vars => TypeOK'
  BY MemoryAssumption, TypeStep
<1> QED BY <1>1, <1>2, PTL DEF Spec

-----------------------------------------------------------------------------
(* No note is forgotten untold                                             *)

\* Once no fact is left to store, all facts of the batch have been stored; this
\* is what makes the deletion behind it safe.
UntoldInv ==
  /\ NothingForgottenUntold
  /\ sweep.step = "store" /\ sweep.left = 0 => sweep.ids \subseteq told

LEMMA UntoldStep ==
  ASSUME MemoryAssumption, TypeOK, UntoldInv, [Next]_vars
  PROVE  UntoldInv'
<1> USE DEF UntoldInv, NothingForgottenUntold
<1>1. ASSUME NEW t \in Turns, Sends(t) \/ \E p \in Players : Says(t, p)
      PROVE  UntoldInv'
  BY <1>1 DEF Sends, Says
<1>2. ASSUME NEW n \in landing, Lands(n) \/ LandFails(n) PROVE UntoldInv'
  BY <1>2 DEF Lands, LandFails
<1>3. CASE Counts
  BY <1>3 DEF Counts, Sweeps
<1>4. CASE Scrolls
  BY <1>4 DEF Scrolls, Sweeps
<1>5. CASE Distills
  <2>1. PICK n \in 0..2 : ToStore(sweep.ids, n)
    BY <1>5 DEF Distills
  <2> QED BY <1>5, <2>1 DEF Distills, ToStore, Sweeps
<1>6. CASE Stores
  BY <1>6 DEF Stores, ToStore, Sweeps
<1>7. CASE Forgets
  BY <1>7 DEF Forgets, Sweeps, Asleep
<1>8. CASE SweepFails \/ Restart
  BY <1>8 DEF SweepFails, Restart, Sweeps, Asleep
<1>9. CASE UNCHANGED vars
  BY <1>9 DEF vars
<1> QED BY <1>1, <1>2, <1>3, <1>4, <1>5, <1>6, <1>7, <1>8, <1>9 DEF Next, Compression

\* A raw note is deleted only when its facts are stored (memory.py:216-217, 235),
\* whatever fails, stops or lands in between.
THEOREM NeverForgotten == Spec => []NothingForgottenUntold
<1>1. Init => UntoldInv
  BY DEF Init, UntoldInv, NothingForgottenUntold, Asleep
<1>2. TypeOK /\ UntoldInv /\ [Next]_vars => UntoldInv'
  BY MemoryAssumption, UntoldStep
<1>3. UntoldInv => NothingForgottenUntold
  BY DEF UntoldInv
<1> QED BY <1>1, <1>2, <1>3, MemoryTypeCorrect, PTL DEF Spec

-----------------------------------------------------------------------------
(* A turn knows what was said                                              *)

\* Replies grow, so a reply that waits to be sent is as new as the last reply
\* recorded for its player, or older.
SaidInv ==
  /\ KnowsWhatItSaid
  /\ \A t \in Turns : turn[t] # Silent => turn[t].n <= lastReply[turn[t].player]
  /\ \A p \in Players : lastReply[p] <= said

LEMMA SaidStep ==
  ASSUME MemoryAssumption, TypeOK, SaidInv, [Next]_vars
  PROVE  SaidInv'
<1> USE DEF SaidInv, KnowsWhatItSaid
<1>0. /\ MaxSaid \in Nat
      /\ said \in 0..MaxSaid
      /\ lastReply \in [Players -> 0..MaxSaid] /\ sent \in [Players -> 0..MaxSaid]
      /\ turn \in [Turns -> [player : Players, n : Note] \cup {Silent}]
  BY DEF MemoryAssumption, TypeOK
<1>1. ASSUME NEW t \in Turns, Sends(t) PROVE SaidInv'
  <2>1. turn[t] \in [player : Players, n : Note] /\ turn[t].n <= lastReply[turn[t].player]
    BY <1>0, <1>1 DEF Sends
  <2>2. \A p \in Players : sent'[p] <= lastReply'[p]
    BY <1>0, <1>1, <2>1 DEF Sends, Larger, Note
  <2>3. \A u \in Turns : turn'[u] # Silent =>
          turn'[u] = turn[u] /\ turn[u] # Silent
    BY <1>0, <1>1 DEF Sends
  <2> QED BY <1>1, <2>2, <2>3 DEF Sends
<1>2. ASSUME NEW t \in Turns, NEW p \in Players, Says(t, p) PROVE SaidInv'
  <2>1. /\ said' = said + 1
        /\ lastReply' = [lastReply EXCEPT ![p] = said + 1]
        /\ turn' = [turn EXCEPT ![t] = [player |-> p, n |-> said + 1]]
        /\ sent' = sent
    BY <1>2 DEF Says, Record
  <2>2. \A q \in Players : lastReply[q] <= lastReply'[q] /\ lastReply'[q] <= said'
    BY <1>0, <2>1
  <2>3. \A q \in Players : sent'[q] <= lastReply'[q]
    BY <1>0, <2>1, <2>2
  <2>4. ASSUME NEW u \in Turns, turn'[u] # Silent
        PROVE  turn'[u].n <= lastReply'[turn'[u].player]
    <3>1. CASE u = t
      BY <1>0, <2>1, <3>1
    <3>2. CASE u # t
      <4>1. turn'[u] = turn[u] /\ turn[u] # Silent
        BY <1>0, <2>1, <2>4, <3>2
      <4>2. turn[u].player \in Players /\ turn[u].n \in Note
        BY <1>0, <4>1
      <4> QED BY <1>0, <2>1, <2>2, <4>1, <4>2 DEF Note
    <3> QED BY <3>1, <3>2
  <2> QED BY <2>2, <2>3, <2>4
<1>3. CASE Restart
  BY <1>0, <1>3 DEF Restart
<1>4. CASE UNCHANGED <<said, turn, lastReply, sent>>
  BY <1>4
<1>5. ASSUME NEW n \in landing, Lands(n) \/ LandFails(n) PROVE SaidInv'
  BY <1>4, <1>5 DEF Lands, LandFails
<1>6. CASE Compression \/ SweepFails
  BY <1>4, <1>6, SweepSteps DEF Sweeps
<1>7. CASE UNCHANGED vars
  BY <1>4, <1>7 DEF vars
<1> QED BY <1>1, <1>2, <1>3, <1>5, <1>6, <1>7 DEF Next

\* However turns overlap and whenever notes land, no turn finds an older reply
\* than its player has read (last_reply.py:13-16, main.py:445-447).
THEOREM LastReplyIsFresh == Spec => []KnowsWhatItSaid
<1>1. Init => SaidInv
  BY DEF Init, SaidInv, KnowsWhatItSaid
<1>2. TypeOK /\ SaidInv /\ [Next]_vars => SaidInv'
  BY MemoryAssumption, SaidStep
<1>3. SaidInv => KnowsWhatItSaid
  BY DEF SaidInv
<1> QED BY <1>1, <1>2, <1>3, MemoryTypeCorrect, PTL DEF Spec
=============================================================================
