---------------------------- MODULE GpuLoadProofs ----------------------------
(***************************************************************************)
(* What holds of the dispatcher, of Pest's turns, and of the load the two  *)
(* put on the model server, for any number of clients, slots and turns and *)
(* any ambient cap.  The dispatcher comes first: the slots that are free,  *)
(* held or handed over are together the slots there are.  The turns'       *)
(* invariant says that the semaphore has one holder, that a turn in line   *)
(* is in the deque, and that a thread runs only for a turn that was let    *)
(* in.  The two together bound the load.                                   *)
(***************************************************************************)
EXTENDS GpuLoad, FiniteSetTheorems, SequenceTheorems, TLAPS

-----------------------------------------------------------------------------
(* Sequences: what removing the i-th waiter leaves. *)

\* RemoveAt shifts the tail by one place (deque.remove in Condition.wait).
LEMMA RemoveAtFacts ==
  ASSUME NEW S, NEW s \in Seq(S), NEW i \in DOMAIN s
  PROVE  /\ RemoveAt(s, i) \in Seq(S)
         /\ Len(RemoveAt(s, i)) = Len(s) - 1
         /\ \A j \in 1 .. Len(s) - 1 :
              RemoveAt(s, i)[j] = IF j < i THEN s[j] ELSE s[j + 1]
<1> DEFINE a == SubSeq(s, 1, i - 1)
           b == SubSeq(s, i + 1, Len(s))
<1>1. /\ Len(s) \in Nat
      /\ i \in 1 .. Len(s)
      /\ \A j \in 1 .. Len(s) : s[j] \in S
  BY LenProperties, ElementOfSeq
<1>2. /\ a \in Seq(S)
      /\ Len(a) = i - 1
      /\ \A j \in 1 .. i - 1 : a[j] = s[j]
  BY <1>1, SubSeqProperties
<1>3. /\ b \in Seq(S)
      /\ Len(b) = Len(s) - i
      /\ \A j \in 1 .. Len(s) - i : b[j] = s[i + j]
  <2>1. \A j \in i + 1 .. Len(s) : s[j] \in S
    BY <1>1
  <2>2. /\ b \in Seq(S)
        /\ Len(b) = IF i + 1 <= Len(s) THEN Len(s) - (i + 1) + 1 ELSE 0
        /\ \A j \in 1 .. Len(s) - (i + 1) + 1 : b[j] = s[(i + 1) + j - 1]
    BY <1>1, <2>1, SubSeqProperties
  <2>3. QED  BY <1>1, <2>2
<1>4. /\ a \o b \in Seq(S)
      /\ Len(a \o b) = Len(s) - 1
      /\ \A j \in 1 .. Len(s) - 1 :
           (a \o b)[j] = IF j <= i - 1 THEN a[j] ELSE b[j - (i - 1)]
  <2> HIDE DEF a, b
  <2>1. /\ a \o b \in Seq(S)
        /\ Len(a \o b) = Len(a) + Len(b)
        /\ \A j \in 1 .. Len(a) + Len(b) :
             (a \o b)[j] = IF j <= Len(a) THEN a[j] ELSE b[j - Len(a)]
    BY <1>2, <1>3, ConcatProperties
  <2>2. Len(a) + Len(b) = Len(s) - 1 /\ Len(a) = i - 1
    BY <1>1, <1>2, <1>3
  <2>3. QED  BY <2>1, <2>2
<1>5. \A j \in 1 .. Len(s) - 1 :
        (a \o b)[j] = IF j < i THEN s[j] ELSE s[j + 1]
  <2> HIDE DEF a, b
  <2> SUFFICES ASSUME NEW j \in 1 .. Len(s) - 1
               PROVE  (a \o b)[j] = IF j < i THEN s[j] ELSE s[j + 1]
    OBVIOUS
  <2>1. CASE j < i
    <3>1. j \in 1 .. i - 1 /\ j <= i - 1  BY <1>1, <2>1
    <3>2. QED  BY <2>1, <3>1, <1>2, <1>4
  <2>2. CASE ~(j < i)
    <3>1. j - (i - 1) \in 1 .. Len(s) - i /\ ~(j <= i - 1)  BY <1>1, <2>2
    <3>2. b[j - (i - 1)] = s[i + (j - (i - 1))]  BY <1>3, <3>1
    <3>3. i + (j - (i - 1)) = j + 1  BY <1>1
    <3>4. QED  BY <2>2, <3>1, <3>2, <3>3, <1>4
  <2>3. QED  BY <2>1, <2>2
<1>6. QED  BY <1>4, <1>5 DEF RemoveAt

-----------------------------------------------------------------------------
(* The set of running calls, and how a step of one client changes it. *)

LEMMA CallingFinite ==
  /\ IsFiniteSet(Calling)
  /\ IsFiniteSet(Calling \cap AmbientClients)
  /\ Cardinality(Calling) \in Nat
  /\ Cardinality(Calling \cap AmbientClients) \in Nat
<1>1. IsFiniteSet(Clients)
  BY DispatcherAssumption, FS_Union DEF Clients
<1>2. IsFiniteSet(Calling)
  BY <1>1, FS_Subset DEF Calling
<1>3. IsFiniteSet(Calling \cap AmbientClients)
  BY <1>2, FS_Subset
<1>4. QED  BY <1>2, <1>3, FS_CardinalityType

\* A client starts its call.
LEMMA CallStarts ==
  ASSUME pc \in [Clients -> {"idle", "waiting", "calling"}],
         NEW c \in Clients, pc[c] # "calling",
         pc' = [pc EXCEPT ![c] = "calling"]
  PROVE  /\ Cardinality(Calling') = Cardinality(Calling) + 1
         /\ Cardinality(Calling' \cap AmbientClients) =
              Cardinality(Calling \cap AmbientClients)
                + (IF c \in AmbientClients THEN 1 ELSE 0)
<1>1. Calling' = Calling \cup {c} /\ c \notin Calling
  BY DEF Calling
<1>2. Cardinality(Calling') = Cardinality(Calling) + 1
  BY <1>1, CallingFinite, FS_AddElement
<1>3. CASE c \in AmbientClients
  <2>1. Calling' \cap AmbientClients = (Calling \cap AmbientClients) \cup {c}
    BY <1>1, <1>3
  <2>2. QED  BY <1>1, <1>2, <1>3, <2>1, CallingFinite, FS_AddElement
<1>4. CASE c \notin AmbientClients
  <2>1. Calling' \cap AmbientClients = Calling \cap AmbientClients
    BY <1>1, <1>4
  <2>2. QED  BY <1>2, <1>4, <2>1, CallingFinite
<1>5. QED  BY <1>3, <1>4

\* A client's call ends.
LEMMA CallStops ==
  ASSUME pc \in [Clients -> {"idle", "waiting", "calling"}],
         NEW c \in Clients, pc[c] = "calling",
         pc' = [pc EXCEPT ![c] = "idle"]
  PROVE  /\ Cardinality(Calling') = Cardinality(Calling) - 1
         /\ Cardinality(Calling' \cap AmbientClients) =
              Cardinality(Calling \cap AmbientClients)
                - (IF c \in AmbientClients THEN 1 ELSE 0)
         /\ Cardinality(Calling) >= 1
         /\ c \in AmbientClients => Cardinality(Calling \cap AmbientClients) >= 1
<1>1. Calling' = Calling \ {c} /\ c \in Calling
  BY DEF Calling
<1>2. /\ Cardinality(Calling') = Cardinality(Calling) - 1
      /\ IsFiniteSet(Calling')
  BY <1>1, CallingFinite, FS_RemoveElement
<1>3. Cardinality(Calling) >= 1
  <2>1. Cardinality(Calling') \in Nat
    BY <1>2, FS_CardinalityType
  <2>2. QED  BY <1>2, <2>1, CallingFinite
<1>4. CASE c \in AmbientClients
  <2>1. /\ Calling' \cap AmbientClients = (Calling \cap AmbientClients) \ {c}
        /\ c \in Calling \cap AmbientClients
    BY <1>1, <1>4
  <2>2. /\ Cardinality(Calling' \cap AmbientClients) =
             Cardinality(Calling \cap AmbientClients) - 1
        /\ Cardinality(Calling' \cap AmbientClients) \in Nat
    BY <2>1, CallingFinite, FS_RemoveElement, FS_CardinalityType
  <2>3. QED  BY <1>2, <1>3, <1>4, <2>2, CallingFinite
<1>5. CASE c \notin AmbientClients
  <2>1. Calling' \cap AmbientClients = Calling \cap AmbientClients
    BY <1>1, <1>5
  <2>2. QED  BY <1>2, <1>3, <1>5, <2>1, CallingFinite
<1>6. QED  BY <1>4, <1>5

\* A step between idle and waiting does not touch it.
LEMMA CallingSame ==
  ASSUME pc \in [Clients -> {"idle", "waiting", "calling"}],
         NEW c \in Clients, pc[c] # "calling",
         NEW s \in {"idle", "waiting"},
         pc' = [pc EXCEPT ![c] = s]
  PROVE  Calling' = Calling
BY DEF Calling

-----------------------------------------------------------------------------
(* The inductive invariant.  The bounds in TypeOK need the two counting     *)
(* invariants (a release stays within the pool because the slot it returns  *)
(* was counted as a call), and they need the types.                         *)

IInv == TypeOK /\ SlotsConserved /\ AmbientCapped

LEMMA InitIInv == Init => IInv
<1> SUFFICES ASSUME Init PROVE IInv
  OBVIOUS
<1>1. Calling = {}
  BY DEF Init, Calling
<1>2. Cardinality(Calling) = 0 /\ Cardinality(Calling \cap AmbientClients) = 0
  BY <1>1, FS_EmptySet
<1>3. TypeOK
  BY DispatcherAssumption, EmptySeq DEF Init, TypeOK, Clients
<1>4. QED
  BY <1>2, <1>3, DispatcherAssumption DEF Init, IInv, SlotsConserved, AmbientCapped

\* The waiters stay a sequence of dialogue clients.
LEMMA LeaveWaitersType ==
  ASSUME NEW d \in DialogueClients, waiters \in Seq(DialogueClients), LeaveWaiters(d)
  PROVE  waiters' \in Seq(DialogueClients)
BY RemoveAtFacts DEF LeaveWaiters

\* notify() completes the future of a waiting dialogue client, or of nobody.
LEMMA NotifyType ==
  ASSUME waiters \in Seq(DialogueClients), Notify
  PROVE  \/ notified' = notified
         \/ \E d \in DialogueClients : Asleep(d) /\ notified' = notified \cup {d}
<1>1. \A i \in DOMAIN waiters : waiters[i] \in DialogueClients
  BY LenProperties, ElementOfSeq
<1>2. QED  BY <1>1 DEF Notify

LEMMA DialogueStep ==
  ASSUME IInv, NEW d \in DialogueClients, Dialogue(d)
  PROVE  IInv'
<1> USE DEF IInv
<1>0. /\ d \in Clients /\ d \notin AmbientClients
      /\ pc \in [Clients -> {"idle", "waiting", "calling"}]
      /\ available \in 0 .. MaxSlots /\ MaxSlots \in Nat
  BY DispatcherAssumption DEF Clients, TypeOK
<1>1. CASE DialogueTakesSlot(d)
  <2>1. pc' = [pc EXCEPT ![d] = "calling"] /\ pc[d] # "calling"
    BY <1>1 DEF DialogueTakesSlot, TakeSlot
  <2>c. /\ Cardinality(Calling') = Cardinality(Calling) + 1
        /\ Cardinality(Calling' \cap AmbientClients) =
             Cardinality(Calling \cap AmbientClients)
    <3>1. /\ Cardinality(Calling') = Cardinality(Calling) + 1
          /\ Cardinality(Calling' \cap AmbientClients) =
               Cardinality(Calling \cap AmbientClients)
                 + (IF d \in AmbientClients THEN 1 ELSE 0)
      BY <1>0, <2>1, CallStarts
    <3>2. QED  BY <1>0, <3>1, CallingFinite
  <2>2. TypeOK'
    BY <1>0, <1>1, <2>1 DEF DialogueTakesSlot, TakeSlot, TypeOK
  <2>3. SlotsConserved'
    BY <1>0, <1>1, <2>c, CallingFinite
    DEF DialogueTakesSlot, TakeSlot, SlotsConserved
  <2>4. AmbientCapped'
    BY <1>0, <1>1, <2>c, CallingFinite
    DEF DialogueTakesSlot, AmbientCapped
  <2>5. QED  BY <2>2, <2>3, <2>4
<1>2. CASE DialogueWaits(d)
  <2>1. Calling' = Calling
    BY <1>0, <1>2, CallingSame DEF DialogueWaits
  <2>2. waiters' \in Seq(DialogueClients)
    BY <1>2, AppendProperties DEF DialogueWaits, TypeOK
  <2>3. TypeOK'
    BY <1>0, <1>2, <2>2 DEF DialogueWaits, TypeOK
  <2>4. QED
    BY <1>2, <2>1, <2>3 DEF DialogueWaits, SlotsConserved, AmbientCapped
<1>3. CASE WakesWithSlot(d)
  <2>1. pc' = [pc EXCEPT ![d] = "calling"] /\ pc[d] # "calling"
    BY <1>3 DEF WakesWithSlot, TakeSlot, TypeOK
  <2>c. /\ Cardinality(Calling') = Cardinality(Calling) + 1
        /\ Cardinality(Calling' \cap AmbientClients) =
             Cardinality(Calling \cap AmbientClients)
    <3>1. /\ Cardinality(Calling') = Cardinality(Calling) + 1
          /\ Cardinality(Calling' \cap AmbientClients) =
               Cardinality(Calling \cap AmbientClients)
                 + (IF d \in AmbientClients THEN 1 ELSE 0)
      BY <1>0, <2>1, CallStarts
    <3>2. QED  BY <1>0, <3>1, CallingFinite
  <2>2. waiters' \in Seq(DialogueClients)
    BY <1>3, LeaveWaitersType DEF WakesWithSlot, TypeOK
  <2>3. TypeOK'
    BY <1>0, <1>3, <2>1, <2>2 DEF WakesWithSlot, TakeSlot, TypeOK
  <2>4. SlotsConserved'
    BY <1>0, <1>3, <2>c, CallingFinite
    DEF WakesWithSlot, TakeSlot, SlotsConserved
  <2>5. AmbientCapped'
    BY <1>0, <1>3, <2>c, CallingFinite DEF WakesWithSlot, AmbientCapped
  <2>6. QED  BY <2>3, <2>4, <2>5
<1>4. CASE WakesWithoutSlot(d)
  <2>1. Calling' = Calling
    BY <1>4 DEF WakesWithoutSlot, Calling
  <2>2. waiters' \in Seq(DialogueClients)
    <3>1. PICK i \in DOMAIN waiters : waiters' = Append(RemoveAt(waiters, i), d)
      BY <1>4 DEF WakesWithoutSlot
    <3>2. RemoveAt(waiters, i) \in Seq(DialogueClients)
      BY RemoveAtFacts DEF TypeOK
    <3>3. QED  BY <3>1, <3>2, AppendProperties
  <2>3. TypeOK'
    BY <1>0, <1>4, <2>2 DEF WakesWithoutSlot, TypeOK
  <2>4. QED
    BY <1>4, <2>1, <2>3 DEF WakesWithoutSlot, SlotsConserved, AmbientCapped
<1>5. CASE WaitTimerFires(d)
  BY <1>5 DEF WaitTimerFires, TypeOK, SlotsConserved, AmbientCapped, Calling
<1>6. CASE GivesUp(d)
  <2>1. pc[d] = "waiting" /\ pc' = [pc EXCEPT ![d] = "idle"]
    BY <1>6 DEF GivesUp, TypeOK
  <2>2. Calling' = Calling
    BY <1>0, <2>1, CallingSame
  <2>3. waiters' \in Seq(DialogueClients)
    BY <1>6, LeaveWaitersType DEF GivesUp, TypeOK
  <2>4. TypeOK'
    BY <1>0, <1>6, <2>1, <2>3 DEF GivesUp, TypeOK
  <2>5. QED
    BY <1>6, <2>2, <2>4 DEF GivesUp, SlotsConserved, AmbientCapped
<1>7. CASE DialogueCallEnds(d)
  <2>1. pc' = [pc EXCEPT ![d] = "idle"] /\ pc[d] = "calling"
    BY <1>7 DEF DialogueCallEnds
  <2>c. /\ Cardinality(Calling') = Cardinality(Calling) - 1
        /\ Cardinality(Calling' \cap AmbientClients) =
             Cardinality(Calling \cap AmbientClients)
        /\ Cardinality(Calling) >= 1
    <3>1. /\ Cardinality(Calling') = Cardinality(Calling) - 1
          /\ Cardinality(Calling' \cap AmbientClients) =
               Cardinality(Calling \cap AmbientClients)
                 - (IF d \in AmbientClients THEN 1 ELSE 0)
          /\ Cardinality(Calling) >= 1
          /\ d \in AmbientClients =>
               Cardinality(Calling \cap AmbientClients) >= 1
      BY <1>0, <2>1, CallStops
    <3>2. QED  BY <1>0, <3>1, CallingFinite
  <2>2. SlotsConserved'
    BY <1>0, <1>7, <2>c, CallingFinite
    DEF DialogueCallEnds, Release, SlotsConserved
  <2>3. AmbientCapped'
    BY <1>0, <1>7, <2>c, CallingFinite DEF DialogueCallEnds, AmbientCapped
  <2>4. available' \in 0 .. MaxSlots
    BY <1>0, <1>7, <2>c, CallingFinite
    DEF DialogueCallEnds, Release, SlotsConserved
  <2>5. \/ notified' = notified
        \/ \E e \in DialogueClients : Asleep(e) /\ notified' = notified \cup {e}
    BY <1>7, NotifyType DEF DialogueCallEnds, Release, TypeOK
  <2>6. notified' \subseteq {e \in DialogueClients : pc'[e] = "waiting"}
    BY <1>0, <2>1, <2>5 DEF TypeOK, Asleep, Clients
  <2>7. TypeOK'
    BY <1>0, <1>7, <2>1, <2>4, <2>6 DEF DialogueCallEnds, TypeOK
  <2>8. QED  BY <2>2, <2>3, <2>7
<1>8. QED
  BY <1>1, <1>2, <1>3, <1>4, <1>5, <1>6, <1>7 DEF Dialogue

LEMMA AmbientStep ==
  ASSUME IInv, NEW a \in AmbientClients, Ambient(a)
  PROVE  IInv'
<1> USE DEF IInv
<1>0. /\ a \in Clients /\ a \notin DialogueClients
      /\ pc \in [Clients -> {"idle", "waiting", "calling"}]
      /\ available \in 0 .. MaxSlots /\ MaxSlots \in Nat
      /\ ambientInFlight \in 0 .. AmbientMaxInFlight /\ AmbientMaxInFlight \in Nat
  BY DispatcherAssumption DEF Clients, TypeOK
<1>1. CASE AmbientTakesSlot(a)
  <2>1. pc' = [pc EXCEPT ![a] = "calling"] /\ pc[a] # "calling"
    BY <1>1 DEF AmbientTakesSlot, TakeSlot
  <2>c. /\ Cardinality(Calling') = Cardinality(Calling) + 1
        /\ Cardinality(Calling' \cap AmbientClients) =
             Cardinality(Calling \cap AmbientClients) + 1
    <3>1. /\ Cardinality(Calling') = Cardinality(Calling) + 1
          /\ Cardinality(Calling' \cap AmbientClients) =
               Cardinality(Calling \cap AmbientClients)
                 + (IF a \in AmbientClients THEN 1 ELSE 0)
      BY <1>0, <2>1, CallStarts
    <3>2. QED  BY <1>0, <3>1, CallingFinite
  <2>2. TypeOK'
    BY <1>0, <1>1, <2>1 DEF AmbientTakesSlot, TakeSlot, TypeOK
  <2>3. SlotsConserved'
    BY <1>0, <1>1, <2>c, CallingFinite
    DEF AmbientTakesSlot, TakeSlot, SlotsConserved
  <2>4. AmbientCapped'
    BY <1>0, <1>1, <2>c, CallingFinite DEF AmbientTakesSlot, AmbientCapped
  <2>5. QED  BY <2>2, <2>3, <2>4
<1>2. CASE AmbientCallEnds(a)
  <2>1. pc' = [pc EXCEPT ![a] = "idle"] /\ pc[a] = "calling"
    BY <1>2 DEF AmbientCallEnds
  <2>c. /\ Cardinality(Calling') = Cardinality(Calling) - 1
        /\ Cardinality(Calling' \cap AmbientClients) =
             Cardinality(Calling \cap AmbientClients) - 1
        /\ Cardinality(Calling) >= 1
        /\ Cardinality(Calling \cap AmbientClients) >= 1
    <3>1. /\ Cardinality(Calling') = Cardinality(Calling) - 1
          /\ Cardinality(Calling' \cap AmbientClients) =
               Cardinality(Calling \cap AmbientClients)
                 - (IF a \in AmbientClients THEN 1 ELSE 0)
          /\ Cardinality(Calling) >= 1
          /\ a \in AmbientClients =>
               Cardinality(Calling \cap AmbientClients) >= 1
      BY <1>0, <2>1, CallStops
    <3>2. QED  BY <1>0, <3>1, CallingFinite
  <2>2. SlotsConserved'
    BY <1>0, <1>2, <2>c, CallingFinite
    DEF AmbientCallEnds, Release, SlotsConserved
  <2>3. AmbientCapped' /\ ambientInFlight' \in 0 .. AmbientMaxInFlight
    BY <1>0, <1>2, <2>c, CallingFinite DEF AmbientCallEnds, AmbientCapped
  <2>4. available' \in 0 .. MaxSlots
    BY <1>0, <1>2, <2>c, CallingFinite
    DEF AmbientCallEnds, Release, SlotsConserved
  <2>5. \/ notified' = notified
        \/ \E e \in DialogueClients : Asleep(e) /\ notified' = notified \cup {e}
    BY <1>2, NotifyType DEF AmbientCallEnds, Release, TypeOK
  <2>6. notified' \subseteq {e \in DialogueClients : pc'[e] = "waiting"}
    BY <1>0, <2>1, <2>5 DEF TypeOK, Asleep, Clients
  <2>7. TypeOK'
    BY <1>0, <1>2, <2>1, <2>3, <2>4, <2>6 DEF AmbientCallEnds, TypeOK
  <2>8. QED  BY <2>2, <2>3, <2>7
<1>3. QED  BY <1>1, <1>2 DEF Ambient

LEMMA NextIInv == IInv /\ [Next]_vars => IInv'
<1> SUFFICES ASSUME IInv, [Next]_vars PROVE IInv'
  OBVIOUS
<1>1. CASE UNCHANGED vars
  BY <1>1 DEF vars, IInv, TypeOK, SlotsConserved, AmbientCapped, Calling
<1>2. QED  BY <1>1, DialogueStep, AmbientStep DEF Next

\* In every behaviour of the dispatcher its state has the shape TypeOK says:
\* the free-slot count and the ambient counter never leave their ranges.
THEOREM TypeCorrect == Spec => []TypeOK
<1>1. Spec => []IInv
  BY InitIInv, NextIInv, PTL DEF Spec
<1>2. IInv => TypeOK
  BY DEF IInv
<1>3. QED  BY <1>1, <1>2, PTL

\* No behaviour loses a slot or returns one twice.
THEOREM SlotConservation == Spec => []SlotsConserved
<1>1. Spec => []IInv
  BY InitIInv, NextIInv, PTL DEF Spec
<1>2. IInv => SlotsConserved
  BY DEF IInv
<1>3. QED  BY <1>1, <1>2, PTL

\* Background work never holds more than its cap, and its counter is exact.
THEOREM AmbientCap == Spec => []AmbientCapped
<1>1. Spec => []IInv
  BY InitIInv, NextIInv, PTL DEF Spec
<1>2. IInv => AmbientCapped
  BY DEF IInv
<1>3. QED  BY <1>1, <1>2, PTL

\* When the pool is exhausted, players hold at least their share of it.
THEOREM DialogueGuarantee == Spec => []DialogueShare
<1>1. Spec => []IInv
  BY InitIInv, NextIInv, PTL DEF Spec
<1>2. IInv => DialogueShare
  <2> SUFFICES ASSUME IInv, available = 0
               PROVE  Cardinality(Calling \cap DialogueClients)
                        >= MaxSlots - AmbientMaxInFlight
    BY DEF DialogueShare
  <2> DEFINE CA == Calling \cap AmbientClients
             CD == Calling \cap DialogueClients
  <2>1. IsFiniteSet(CA) /\ IsFiniteSet(CD) /\ IsFiniteSet({})
    BY CallingFinite, FS_Subset, FS_EmptySet
  <2>2. Calling = CD \cup CA /\ CD \cap CA = {}
    BY DispatcherAssumption DEF Calling, Clients
  <2>3. Cardinality(Calling) = Cardinality(CD) + Cardinality(CA) - Cardinality({})
    BY <2>1, <2>2, FS_Union
  <2>4. Cardinality(Calling) = Cardinality(CD) + Cardinality(CA)
    BY <2>1, <2>3, FS_EmptySet, FS_CardinalityType
  <2>5. Cardinality(Calling) = MaxSlots /\ Cardinality(CA) <= AmbientMaxInFlight
    BY CallingFinite DEF IInv, SlotsConserved, AmbientCapped
  <2>6. QED
    BY <2>1, <2>4, <2>5, FS_CardinalityType, DispatcherAssumption
<1>3. QED  BY <1>1, <1>2, PTL

-----------------------------------------------------------------------------
(* The dispatcher implements SlotLease: a step that moves a client between  *)
(* idle, waiting and calling is a step of the abstract pool, and every      *)
(* other step (a timer that fires, a wakeup in vain) is invisible to it.    *)

\* The cardinality the abstract specification counts with is the usual one.
LEMMA LeaseCardinality == \A S : Lease!Cardinality(S) = Cardinality(S)
BY DEF Lease!Cardinality, Cardinality

LEMMA DialogueRefines ==
  ASSUME IInv, IInv', NEW d \in DialogueClients, Dialogue(d)
  PROVE  [Lease!Next]_(Lease!vars)
<1>0. /\ d \in Clients /\ d \notin AmbientClients
      /\ pc \in [Clients -> {"idle", "waiting", "calling"}]
      /\ available \in 0 .. MaxSlots
      /\ available + Cardinality(Calling) = MaxSlots
  BY DispatcherAssumption DEF Clients, IInv, TypeOK, SlotsConserved
<1>1. available > 0 => Lease!MayLease(d)
  <2>1. available > 0 => Cardinality(Calling) < MaxSlots
    BY <1>0, CallingFinite, DispatcherAssumption
  <2>2. QED  BY <1>0, <2>1, LeaseCardinality DEF Lease!MayLease
<1>2. CASE DialogueTakesSlot(d)
  <2>1. Lease!Lease(d)
    BY <1>0, <1>1, <1>2 DEF DialogueTakesSlot, TakeSlot, Lease!Lease, Calling
  <2>2. QED  BY <1>0, <2>1 DEF Lease!Next, Lease!Clients, Clients
<1>3. CASE DialogueWaits(d)
  <2>1. Lease!Enqueue(d)
    BY <1>0, <1>3 DEF DialogueWaits, Lease!Enqueue, Calling
  <2>2. QED  BY <2>1 DEF Lease!Next
<1>4. CASE WakesWithSlot(d)
  <2>1. pc[d] = "waiting" /\ available > 0 /\ pc' = [pc EXCEPT ![d] = "calling"]
    BY <1>4 DEF WakesWithSlot, TakeSlot, IInv, TypeOK
  <2>2. Lease!Lease(d)
    BY <1>0, <1>1, <2>1 DEF Lease!Lease, Calling
  <2>3. QED  BY <1>0, <2>2 DEF Lease!Next, Lease!Clients, Clients
<1>5. CASE WakesWithoutSlot(d) \/ WaitTimerFires(d)
  BY <1>5 DEF WakesWithoutSlot, WaitTimerFires, Lease!vars, Calling
<1>6. CASE GivesUp(d)
  <2>1. pc[d] = "waiting" /\ pc' = [pc EXCEPT ![d] = "idle"]
    BY <1>6 DEF GivesUp, IInv, TypeOK
  <2>2. Lease!Abandon(d)
    BY <1>0, <2>1 DEF Lease!Abandon, Calling
  <2>3. QED  BY <2>2 DEF Lease!Next
<1>7. CASE DialogueCallEnds(d)
  <2>1. Lease!Return(d)
    BY <1>0, <1>7 DEF DialogueCallEnds, Lease!Return, Calling
  <2>2. QED  BY <1>0, <2>1 DEF Lease!Next, Lease!Clients, Clients
<1>8. QED
  BY <1>2, <1>3, <1>4, <1>5, <1>6, <1>7 DEF Dialogue

LEMMA AmbientRefines ==
  ASSUME IInv, IInv', NEW a \in AmbientClients, Ambient(a)
  PROVE  [Lease!Next]_(Lease!vars)
<1>0. /\ a \in Clients
      /\ pc \in [Clients -> {"idle", "waiting", "calling"}]
      /\ available \in 0 .. MaxSlots
      /\ available + Cardinality(Calling) = MaxSlots
      /\ ambientInFlight = Cardinality(Calling \cap AmbientClients)
  BY DEF Clients, IInv, TypeOK, SlotsConserved, AmbientCapped
<1>1. CASE AmbientTakesSlot(a)
  <2>1. Lease!MayLease(a)
    <3>1. available > 0 /\ ambientInFlight < AmbientMaxInFlight
      BY <1>1 DEF AmbientTakesSlot
    <3>2. Cardinality(Calling) < MaxSlots
      BY <1>0, <3>1, CallingFinite, DispatcherAssumption
    <3>3. QED  BY <1>0, <3>1, <3>2, LeaseCardinality DEF Lease!MayLease
  <2>2. Lease!Lease(a)
    BY <1>0, <1>1, <2>1 DEF AmbientTakesSlot, TakeSlot, Lease!Lease, Calling
  <2>3. QED  BY <1>0, <2>2 DEF Lease!Next, Lease!Clients, Clients
<1>2. CASE AmbientCallEnds(a)
  <2>1. Lease!Return(a)
    BY <1>0, <1>2 DEF AmbientCallEnds, Lease!Return, Calling
  <2>2. QED  BY <1>0, <2>1 DEF Lease!Next, Lease!Clients, Clients
<1>3. QED  BY <1>1, <1>2 DEF Ambient

\* The dispatcher, with its condition variable, futures and timers, implements
\* the pool of leases its callers count on.
THEOREM DispatcherImplementsLease == Spec => LeaseSpec
<1>1. Init => Lease!Init
  BY DEF Init, Lease!Init, Calling
<1>2. IInv /\ IInv' /\ [Next]_vars => [Lease!Next]_(Lease!vars)
  <2> SUFFICES ASSUME IInv, IInv', [Next]_vars PROVE [Lease!Next]_(Lease!vars)
    OBVIOUS
  <2>1. CASE UNCHANGED vars
    BY <2>1 DEF vars, Lease!vars, Calling
  <2>2. QED  BY <2>1, DialogueRefines, AmbientRefines DEF Next
<1>3. Spec => []IInv
  BY InitIInv, NextIInv, PTL DEF Spec
<1>4. QED  BY <1>1, <1>2, <1>3, PTL DEF Spec, LeaseSpec, Lease!Spec

-----------------------------------------------------------------------------
(* Pest's turns and the load *)

OneHolder == \A s, t \in Holders : s = t

QueuedInLine ==
  \A t \in Turns :
    stage[t] = "queued" => \E i \in DOMAIN turnQueue : turnQueue[i] = t

LineOfQueued ==
  /\ \A i \in DOMAIN turnQueue : stage[turnQueue[i]] = "queued"
  /\ \A i, j \in DOMAIN turnQueue : turnQueue[i] = turnQueue[j] => i = j

NoneQueuedWhenFree == (\E t \in Turns : stage[t] = "queued") => Holders # {}

ThreadsLetIn ==
  \A t \in Turns :
    agent[t] \in {"thinking", "asking"} => stage[t] \in {"running", "answered"}

PestInv ==
  /\ PestTypeOK
  /\ OneHolder
  /\ QueuedInLine
  /\ LineOfQueued
  /\ NoneQueuedWhenFree
  /\ ThreadsLetIn

LEMMA InitPestInv ==
  ASSUME PestAssumption, PestInit
  PROVE  PestInv
BY DEF PestAssumption, PestInit, PestInv, PestTypeOK, OneHolder, QueuedInLine,
       LineOfQueued, NoneQueuedWhenFree, ThreadsLetIn, Holders

LEMMA EntersPestInv ==
  ASSUME PestInv, NEW t \in Turns, TurnEnters(t) \/ TurnStarts(t)
  PROVE  PestInv'
<1>1. /\ stage' = [stage EXCEPT ![t] = "running"]
      /\ agent' = [agent EXCEPT ![t] = "thinking"]
      /\ UNCHANGED <<steps, turnQueue>>
      /\ Holders \subseteq {t}
  BY DEF TurnEnters, TurnStarts, PestInv, OneHolder, Holders
<1>2. PestTypeOK'
  BY <1>1 DEF PestInv, PestTypeOK
<1>3. Holders' = {t}
  BY <1>1 DEF PestInv, PestTypeOK, Holders
<1>4. OneHolder' /\ NoneQueuedWhenFree'
  BY <1>3 DEF OneHolder, NoneQueuedWhenFree
<1>5. QueuedInLine' /\ ThreadsLetIn'
  BY <1>1 DEF PestInv, PestTypeOK, QueuedInLine, ThreadsLetIn
<1>6. LineOfQueued'
  <2>1. stage[t] # "queued"
    BY DEF TurnEnters, TurnStarts
  <2>2. \A i \in DOMAIN turnQueue : turnQueue[i] \in Turns
    BY DEF PestInv, PestTypeOK
  <2> QED
    BY <1>1, <2>1, <2>2 DEF PestInv, PestTypeOK, LineOfQueued
<1> QED
  BY <1>2, <1>4, <1>5, <1>6 DEF PestInv

LEMMA QueuesPestInv ==
  ASSUME PestInv, NEW t \in Turns, TurnQueues(t)
  PROVE  PestInv'
<1>1. /\ stage[t] = "new"
      /\ Holders # {}
      /\ stage' = [stage EXCEPT ![t] = "queued"]
      /\ turnQueue' = Append(turnQueue, t)
      /\ turnQueue \in Seq(Turns)
      /\ UNCHANGED <<agent, steps>>
  BY DEF TurnQueues, PestInv, PestTypeOK
<1>2. PestTypeOK'
  BY <1>1 DEF PestInv, PestTypeOK
<1>3. Holders' = Holders
  BY <1>1 DEF PestInv, PestTypeOK, Holders
<1>4. OneHolder' /\ NoneQueuedWhenFree'
  BY <1>1, <1>3 DEF PestInv, OneHolder, NoneQueuedWhenFree
<1>5. QueuedInLine'
  <2>1. /\ \A i \in DOMAIN turnQueue : i \in DOMAIN turnQueue' /\ turnQueue'[i] = turnQueue[i]
        /\ \E i \in DOMAIN turnQueue' : turnQueue'[i] = t
    BY <1>1
  <2> QED
    BY <1>1, <2>1 DEF PestInv, PestTypeOK, QueuedInLine
<1>6. LineOfQueued'
  <2>1. \A i \in DOMAIN turnQueue : turnQueue[i] \in Turns /\ turnQueue[i] # t
    BY <1>1 DEF PestInv, LineOfQueued
  <2>2. /\ Len(turnQueue') = Len(turnQueue) + 1
        /\ turnQueue'[Len(turnQueue')] = t
        /\ \A i \in DOMAIN turnQueue' :
             i # Len(turnQueue') => i \in DOMAIN turnQueue /\ turnQueue'[i] = turnQueue[i]
    BY <1>1
  <2>3. stage'[t] = "queued" /\ \A u \in Turns \ {t} : stage'[u] = stage[u]
    BY <1>1 DEF PestInv, PestTypeOK
  <2> QED
    BY <2>1, <2>2, <2>3 DEF PestInv, LineOfQueued
<1>7. ThreadsLetIn'
  BY <1>1 DEF PestInv, PestTypeOK, ThreadsLetIn
<1> QED
  BY <1>2, <1>4, <1>5, <1>6, <1>7 DEF PestInv

LEMMA AnswersPestInv ==
  ASSUME PestInv, NEW t \in Turns, TurnReturns(t) \/ TurnTimesOut(t)
  PROVE  PestInv'
<1>1. /\ stage[t] = "running"
      /\ AnswerAndHandOver(t)
      /\ UNCHANGED <<agent, steps>>
      /\ turnQueue \in Seq(Turns)
      /\ stage \in [Turns -> {"new", "queued", "granted", "running", "answered"}]
  BY DEF TurnReturns, TurnTimesOut, PestInv, PestTypeOK
<1>2. Holders = {t}
  BY <1>1 DEF PestInv, OneHolder, Holders
<1>3. CASE turnQueue = <<>>
  <2>1. stage' = [stage EXCEPT ![t] = "answered"] /\ UNCHANGED turnQueue
    BY <1>1, <1>3 DEF AnswerAndHandOver
  <2>2. \A u \in Turns : stage[u] # "queued"
    BY <1>3 DEF PestInv, QueuedInLine
  <2>3. Holders' = {}
    BY <1>1, <1>2, <2>1 DEF Holders
  <2> QED
    BY <1>1, <2>1, <2>2, <2>3
    DEF PestInv, PestTypeOK, OneHolder, QueuedInLine, LineOfQueued,
        NoneQueuedWhenFree, ThreadsLetIn
<1>4. CASE turnQueue # <<>>
  <2> DEFINE h == Head(turnQueue)
  <2>1. /\ h \in Turns
        /\ turnQueue' = Tail(turnQueue)
        /\ turnQueue' \in Seq(Turns)
    BY <1>1, <1>4 DEF AnswerAndHandOver
  <2>2. stage' = [stage EXCEPT ![t] = "answered", ![h] = "granted"]
    BY <1>1, <1>4 DEF AnswerAndHandOver
  <2> HIDE DEF h
  <2>3. /\ stage' \in [Turns -> {"new", "queued", "granted", "running", "answered"}]
        /\ stage'[h] = "granted"
        /\ h # t => stage'[t] = "answered"
        /\ \A u \in Turns \ {t, h} : stage'[u] = stage[u]
    BY <1>1, <2>1, <2>2
  <2>4. Holders' = {h}
    BY <1>2, <2>1, <2>3 DEF Holders
  <2>5. \A i \in DOMAIN turnQueue : turnQueue[i] # h =>
          \E j \in DOMAIN turnQueue' : turnQueue'[j] = turnQueue[i]
    <3> SUFFICES ASSUME NEW i \in DOMAIN turnQueue, turnQueue[i] # h
                 PROVE  \E j \in DOMAIN turnQueue' : turnQueue'[j] = turnQueue[i]
      OBVIOUS
    <3>1. turnQueue[1] = h
      BY <1>1, <1>4 DEF h
    <3>2. i \in 2 .. Len(turnQueue)
      BY <1>1, <3>1
    <3>3. i - 1 \in DOMAIN turnQueue' /\ turnQueue'[i - 1] = turnQueue[i]
      BY <1>1, <1>4, <2>1, <3>2
    <3> QED
      BY <3>3
  <2>6. QueuedInLine'
    BY <2>1, <2>3, <2>5 DEF PestInv, QueuedInLine
  <2>7. \A i \in DOMAIN turnQueue' :
          /\ i + 1 \in DOMAIN turnQueue
          /\ i + 1 # 1
          /\ turnQueue'[i] = turnQueue[i + 1]
    BY <1>1, <1>4, <2>1
  <2>8. LineOfQueued'
    <3>1. 1 \in DOMAIN turnQueue /\ turnQueue[1] = h
      BY <1>1, <1>4 DEF h
    <3>2. \A i \in DOMAIN turnQueue : turnQueue[i] \in Turns /\ turnQueue[i] # t
      BY <1>1 DEF PestInv, LineOfQueued
    <3>3. \A i \in DOMAIN turnQueue' : turnQueue'[i] \in Turns \ {t, h}
      BY <2>7, <3>1, <3>2 DEF PestInv, LineOfQueued
    <3>4. \A i \in DOMAIN turnQueue' : stage'[turnQueue'[i]] = "queued"
      BY <2>3, <2>7, <3>3 DEF PestInv, LineOfQueued
    <3>5. \A i, j \in DOMAIN turnQueue' : turnQueue'[i] = turnQueue'[j] => i = j
      <4> SUFFICES ASSUME NEW i \in DOMAIN turnQueue', NEW j \in DOMAIN turnQueue',
                          turnQueue'[i] = turnQueue'[j]
                   PROVE  i = j
        OBVIOUS
      <4>1. i + 1 = j + 1
        BY <2>7 DEF PestInv, LineOfQueued
      <4>2. i \in Nat /\ j \in Nat
        BY <2>1
      <4> QED
        BY <4>1, <4>2
    <3> QED
      BY <3>4, <3>5 DEF LineOfQueued
  <2>9. ThreadsLetIn'
    <3>1. stage[h] = "queued"
      BY <1>1, <1>4 DEF PestInv, LineOfQueued, h
    <3> QED
      BY <1>1, <2>1, <2>3, <3>1 DEF PestInv, ThreadsLetIn
  <2> QED
    BY <1>1, <2>1, <2>3, <2>4, <2>6, <2>8, <2>9
    DEF PestInv, PestTypeOK, OneHolder, NoneQueuedWhenFree
<1> QED
  BY <1>3, <1>4

LEMMA AgentPestInv ==
  ASSUME PestAssumption, PestInv, NEW t \in Turns,
         AgentAsks(t) \/ AgentHears(t) \/ AgentEnds(t)
  PROVE  PestInv'
<1>1. /\ UNCHANGED <<stage, turnQueue>>
      /\ agent[t] \in {"thinking", "asking"}
  BY DEF AgentAsks, AgentHears, AgentEnds
<1>2. PestTypeOK'
  <2>1. agent' \in [Turns -> {"none", "thinking", "asking", "ended"}]
    BY DEF AgentAsks, AgentHears, AgentEnds, PestInv, PestTypeOK
  <2>2. CASE AgentAsks(t)
    <3>1. steps[t] \in 0 .. MaxSteps /\ steps[t] < MaxSteps /\ MaxSteps \in Nat
      BY <2>2 DEF AgentAsks, PestInv, PestTypeOK, PestAssumption
    <3>2. steps[t] + 1 \in 0 .. MaxSteps
      BY <3>1
    <3>3. steps' \in [Turns -> 0 .. MaxSteps]
      BY <2>2, <3>2 DEF AgentAsks, PestInv, PestTypeOK
    <3> QED
      BY <1>1, <2>1, <3>3 DEF PestInv, PestTypeOK
  <2>3. CASE UNCHANGED steps
    BY <1>1, <2>1, <2>3 DEF PestInv, PestTypeOK
  <2> QED
    BY <2>2, <2>3 DEF AgentHears, AgentEnds
<1>3. ThreadsLetIn'
  BY <1>1 DEF AgentAsks, AgentHears, AgentEnds, PestInv, PestTypeOK, ThreadsLetIn
<1>4. OneHolder' /\ QueuedInLine' /\ LineOfQueued' /\ NoneQueuedWhenFree'
  BY <1>1 DEF PestInv, OneHolder, QueuedInLine, LineOfQueued, NoneQueuedWhenFree, Holders
<1> QED
  BY <1>2, <1>3, <1>4 DEF PestInv

LEMMA NextPestInv ==
  ASSUME PestAssumption, PestInv, [PestNext]_pestVars
  PROVE  PestInv'
<1>1. CASE PestNext
  BY <1>1, PestAssumption, EntersPestInv, QueuesPestInv, AnswersPestInv, AgentPestInv
  DEF PestNext
<1>2. CASE UNCHANGED pestVars
  BY <1>2
  DEF pestVars, PestInv, PestTypeOK, OneHolder, QueuedInLine, LineOfQueued,
      NoneQueuedWhenFree, ThreadsLetIn, Holders
<1> QED
  BY <1>1, <1>2

LEMMA PestInductive == PestSpec => []PestInv
<1>1. PestInit => PestInv
  BY InitPestInv, PestAssumption
<1>2. PestInv /\ [PestNext]_pestVars => PestInv'
  BY NextPestInv, PestAssumption
<1> QED
  BY <1>1, <1>2, PTL DEF PestSpec

\* The variables of the turns keep their types.
THEOREM PestTypeCorrect == PestSpec => []PestTypeOK
<1>1. PestInv => PestTypeOK
  BY DEF PestInv
<1> QED
  BY <1>1, PestInductive, PTL

\* One turn is awaited at a time, and none waits for a free semaphore.
THEOREM TurnsSerialized == PestSpec => []OneTurnAwaited
<1>1. PestInv => OneTurnAwaited
  <2> SUFFICES ASSUME PestInv PROVE Cardinality(Holders) <= 1
    BY DEF PestInv, NoneQueuedWhenFree, OneTurnAwaited
  <2>1. CASE Holders = {}
    <3>1. Cardinality(Holders) = 0
      BY <2>1, FS_EmptySet
    <3> QED
      BY <3>1
  <2>2. CASE Holders # {}
    <3>1. PICK t : Holders = {t}
      BY <2>2 DEF PestInv, OneHolder
    <3>2. Cardinality(Holders) = 1
      BY <3>1, FS_Singleton
    <3> QED
      BY <3>2
  <2> QED
    BY <2>1, <2>2
<1> QED
  BY <1>1, PestInductive, PTL

-----------------------------------------------------------------------------
(* The load: every asking thread is abandoned or is the one let in. *)

LEMMA AskingBounded ==
  ASSUME PestAssumption, PestInv
  PROVE  /\ Cardinality(Asking) \in Nat
         /\ Cardinality(Abandoned) \in Nat
         /\ Cardinality(Asking) <= Cardinality(Abandoned) + 1
<1>1. Asking \subseteq Abandoned \cup Holders
  BY DEF PestInv, ThreadsLetIn, Asking, Abandoned, Holders
<1>2. PICK t : Holders \subseteq {t}
  BY DEF PestInv, OneHolder
<1>3. IsFiniteSet(Abandoned) /\ IsFiniteSet(Asking)
  <2>1. Abandoned \subseteq Turns /\ Asking \subseteq Turns /\ IsFiniteSet(Turns)
    BY DEF Abandoned, Asking, PestAssumption
  <2> QED
    BY <2>1, FS_Subset
<1>4. Cardinality(Asking) \in Nat /\ Cardinality(Abandoned) \in Nat
  BY <1>3, FS_CardinalityType
<1>5. /\ IsFiniteSet(Abandoned \cup {t})
      /\ Cardinality(Abandoned \cup {t}) =
           IF t \in Abandoned THEN Cardinality(Abandoned) ELSE Cardinality(Abandoned) + 1
  BY <1>3, FS_AddElement
<1>6. Asking \subseteq Abandoned \cup {t}
  BY <1>1, <1>2
<1>7. Cardinality(Asking) <= Cardinality(Abandoned \cup {t})
  BY <1>5, <1>6, FS_Subset
<1>8. Cardinality(Abandoned \cup {t}) <= Cardinality(Abandoned) + 1
  BY <1>4, <1>5
<1>9. Cardinality(Abandoned \cup {t}) \in Nat
  BY <1>4, <1>5
<1> QED
  BY <1>4, <1>7, <1>8, <1>9

LEMMA LoadInductive == LoadSpec => [](IInv /\ PestInv)
<1>1. LoadInit => IInv /\ PestInv
  BY InitIInv, InitPestInv, PestAssumption DEF LoadInit
<1>2. [LoadNext]_loadVars => [Next]_vars /\ [PestNext]_pestVars
  BY DEF LoadNext, loadVars
<1>3. IInv /\ [Next]_vars => IInv'
  BY NextIInv
<1>4. PestInv /\ [PestNext]_pestVars => PestInv'
  BY NextPestInv, PestAssumption
<1> QED
  BY <1>1, <1>2, <1>3, <1>4, PTL DEF LoadSpec

\* The load on the model server exceeds its capacity by at most the threads
\* abandoned by their turns.
THEOREM LoadBound == LoadSpec => []LoadBounded
<1>1. IInv /\ PestInv => LoadBounded
  <2> SUFFICES ASSUME IInv, PestInv PROVE LoadBounded
    OBVIOUS
  <2>1. Cardinality(Calling) \in Nat
    BY CallingFinite
  <2>2. Cardinality(Calling) <= MaxSlots
    BY <2>1 DEF IInv, TypeOK, SlotsConserved, DispatcherAssumption
  <2>3. /\ Cardinality(Asking) \in Nat
        /\ Cardinality(Abandoned) \in Nat
        /\ Cardinality(Asking) <= Cardinality(Abandoned) + 1
    BY AskingBounded, PestAssumption
  <2>4. MaxSlots \in Nat
    BY DispatcherAssumption DEF DispatcherAssumption
  <2> QED
    BY <2>1, <2>2, <2>3, <2>4 DEF LoadBounded, Load
<1> QED
  BY <1>1, LoadInductive, PTL

=============================================================================
