---------------------------- MODULE CompanionProofs ----------------------------
(***************************************************************************)
(* What holds of the ownership of NPCs for any number of turns, players    *)
(* and NPCs.  Two facts about single turns strengthen the invariant: an    *)
(* idle turn claims nothing, so that a turn may begin with any player; and *)
(* a turn about to read its row back finds one, so that what it reads is   *)
(* somebody's.                                                             *)
(***************************************************************************)
EXTENDS CompanionSync, TLAPS

IdleClaimsNothing == \A t \in Turns : pc[t] = "idle" => ~isCompanion[t]
ConfirmFindsRow == \A t \in Turns : pc[t] = "confirm" => owner[npc[t]] # NoOne

IInv ==
  /\ TypeOK
  /\ CompanionClaimsHold
  /\ IdleClaimsNothing
  /\ ConfirmFindsRow

\* A step of try_tame that reaches its verdict.
LEMMA VerdictType ==
  ASSUME IInv, NEW t \in Turns, NEW granted \in BOOLEAN, Verdict(t, granted)
  PROVE  /\ pc' \in [Turns -> Steps]
         /\ isCompanion' \in [Turns -> BOOLEAN]
         /\ pc'[t] \in {"model", "reply"}
         /\ isCompanion'[t] = (isCompanion[t] \/ granted)
         /\ \A u \in Turns \ {t} : pc'[u] = pc[u] /\ isCompanion'[u] = isCompanion[u]
BY DEF IInv, TypeOK, Verdict, Goto, Steps, Querying

LEMMA InitIInv ==
  ASSUME TamingAssumption, Init
  PROVE  IInv
BY DEF Init, IInv, TypeOK, CompanionClaimsHold, IdleClaimsNothing,
       ConfirmFindsRow, Steps, Querying

LEMMA StartIInv ==
  ASSUME TamingAssumption, IInv,
         NEW t \in Turns, NEW n \in Npcs, NEW p \in Players, Start(t, n, p)
  PROVE  IInv'
<1>1. TypeOK'
  BY DEF Start, Goto, IInv, TypeOK, Steps, Querying
<1>2. \A u \in Turns \ {t} : pc'[u] = pc[u] /\ npc'[u] = npc[u] /\ player'[u] = player[u]
  BY DEF Start, Goto, IInv, TypeOK
<1>3. pc'[t] = "context" /\ ~isCompanion'[t]
  BY DEF Start, Goto, IInv, TypeOK, IdleClaimsNothing
<1> QED
  BY <1>1, <1>2, <1>3
  DEF Start, IInv, CompanionClaimsHold, IdleClaimsNothing, ConfirmFindsRow

\* The steps of a turn that leave the table alone and keep or drop the claim.
LEMMA QuietIInv ==
  ASSUME TamingAssumption, IInv, NEW t \in Turns,
         \/ AcceptsTame(t)
         \/ Answers(t)
         \/ QueryFails(t)
         \/ Ends(t)
  PROVE  IInv'
<1>1. TypeOK'
  BY DEF AcceptsTame, Answers, QueryFails, Ends, TryTame, Goto, IInv, TypeOK,
         Steps, Querying
<1>2. /\ UNCHANGED <<owner, npc, player>>
      /\ \A u \in Turns : isCompanion'[u] => isCompanion[u]
      /\ pc'[t] \in {"getOwner", "reply"} \/ ~isCompanion'[t]
      /\ pc'[t] # "confirm"
      /\ \A u \in Turns \ {t} : pc'[u] = pc[u]
  BY DEF AcceptsTame, Answers, QueryFails, Ends, TryTame, Goto, IInv, TypeOK
<1> QED
  BY <1>1, <1>2 DEF IInv, CompanionClaimsHold, IdleClaimsNothing, ConfirmFindsRow

LEMMA BuildContextIInv ==
  ASSUME TamingAssumption, IInv, NEW t \in Turns, BuildContext(t)
  PROVE  IInv'
<1>1. TypeOK'
  BY DEF BuildContext, TryTame, Goto, IInv, TypeOK, Steps, Querying
<1>2. /\ UNCHANGED <<owner, npc, player>>
      /\ isCompanion'[t] = (owner[npc[t]] = player[t])
      /\ pc'[t] \in {"getOwner", "model"}
      /\ \A u \in Turns \ {t} : pc'[u] = pc[u] /\ isCompanion'[u] = isCompanion[u]
  BY DEF BuildContext, TryTame, Goto, IInv, TypeOK
<1> QED
  BY <1>1, <1>2 DEF IInv, CompanionClaimsHold, IdleClaimsNothing, ConfirmFindsRow

\* The steps of try_tame that read.
LEMMA ReadIInv ==
  ASSUME TamingAssumption, IInv, NEW t \in Turns,
         GetOwner(t) \/ OwnedNpcForPlayer(t) \/ Confirm(t)
  PROVE  IInv'
<1> DEFINE mine == owner[npc[t]] = player[t]
<1>1. UNCHANGED <<owner, npc, player, after>>
  BY DEF GetOwner, OwnedNpcForPlayer, Confirm
<1>2. CASE Verdict(t, mine) \/ Verdict(t, FALSE)
  <2>1. PICK granted \in BOOLEAN : Verdict(t, granted) /\ (granted => mine)
    BY <1>2
  <2>2. /\ pc' \in [Turns -> Steps]
        /\ isCompanion' \in [Turns -> BOOLEAN]
        /\ pc'[t] \in {"model", "reply"}
        /\ isCompanion'[t] = (isCompanion[t] \/ granted)
        /\ \A u \in Turns \ {t} : pc'[u] = pc[u] /\ isCompanion'[u] = isCompanion[u]
    BY <2>1, VerdictType
  <2> QED
    BY <1>1, <2>1, <2>2
    DEF IInv, TypeOK, CompanionClaimsHold, IdleClaimsNothing, ConfirmFindsRow
<1>3. CASE UNCHANGED isCompanion /\ (Goto(t, "ownedNpc") \/ Goto(t, "insert"))
  BY <1>1, <1>3
  DEF Goto, IInv, TypeOK, CompanionClaimsHold, IdleClaimsNothing,
      ConfirmFindsRow, Steps, Querying
<1> QED
  BY <1>2, <1>3 DEF GetOwner, OwnedNpcForPlayer, Confirm

LEMMA InsertIInv ==
  ASSUME TamingAssumption, IInv, NEW t \in Turns, Insert(t)
  PROVE  IInv'
<1>1. UNCHANGED <<npc, player, after>> /\ pc[t] = "insert"
  BY DEF Insert
<1>2. CASE InsertIgnored(t)
  BY <1>1, <1>2
  DEF InsertIgnored, Goto, IInv, TypeOK, CompanionClaimsHold,
      IdleClaimsNothing, ConfirmFindsRow, Steps, Querying
<1>3. CASE InsertStored(t)
  <2>1. TypeOK'
    BY <1>1, <1>3 DEF InsertStored, Goto, IInv, TypeOK, Steps, Querying
  <2>2. /\ owner[npc[t]] = NoOne
        /\ owner'[npc[t]] = player[t]
        /\ \A n \in Npcs \ {npc[t]} : owner'[n] = owner[n]
        /\ pc'[t] = "confirm"
        /\ \A u \in Turns \ {t} : pc'[u] = pc[u]
        /\ UNCHANGED isCompanion
    BY <1>1, <1>3 DEF InsertStored, Goto, IInv, TypeOK
  <2>3. \A u \in Turns : player[u] \in Players /\ npc[u] \in Npcs
    BY DEF IInv, TypeOK
  <2>4. NoOne \notin Players
    BY DEF TamingAssumption
  <2>5. CompanionClaimsHold'
    BY <1>1, <2>2, <2>3, <2>4 DEF IInv, CompanionClaimsHold
  <2>6. IdleClaimsNothing' /\ ConfirmFindsRow'
    BY <1>1, <2>2, <2>3, <2>4 DEF IInv, IdleClaimsNothing, ConfirmFindsRow
  <2> QED
    BY <2>1, <2>5, <2>6 DEF IInv
<1>4. CASE InsertRefused(t)
  <2>1. /\ pc' \in [Turns -> Steps]
        /\ isCompanion' \in [Turns -> BOOLEAN]
        /\ pc'[t] \in {"model", "reply"}
        /\ isCompanion'[t] = (isCompanion[t] \/ FALSE)
        /\ \A u \in Turns \ {t} : pc'[u] = pc[u] /\ isCompanion'[u] = isCompanion[u]
    BY <1>4, VerdictType DEF InsertRefused
  <2> QED
    BY <1>1, <1>4, <2>1
    DEF InsertRefused, IInv, TypeOK, CompanionClaimsHold, IdleClaimsNothing,
        ConfirmFindsRow
<1> QED
  BY <1>2, <1>3, <1>4 DEF Insert

LEMMA NextIInv ==
  ASSUME TamingAssumption, IInv, [Next]_vars
  PROVE  IInv'
<1>1. CASE Next
  <2>1. PICK t \in Turns :
          \/ \E n \in Npcs, p \in Players : Start(t, n, p)
          \/ Turn(t)
          \/ Ends(t)
    BY <1>1 DEF Next
  <2> QED
    BY <2>1, StartIInv, QuietIInv, BuildContextIInv, ReadIInv, InsertIInv DEF Turn
<1>2. CASE UNCHANGED vars
  BY <1>2
  DEF vars, IInv, TypeOK, CompanionClaimsHold, IdleClaimsNothing, ConfirmFindsRow
<1> QED
  BY <1>1, <1>2

LEMMA Inductive == Spec => []IInv
<1>1. Init => IInv
  BY InitIInv, TamingAssumption
<1>2. IInv /\ [Next]_vars => IInv'
  BY NextIInv, TamingAssumption
<1> QED
  BY <1>1, <1>2, PTL DEF Spec

\* The variables of the turns and the table keep their types.
THEOREM OwnershipTypeCorrect == Spec => []TypeOK
<1>1. IInv => TypeOK
  BY DEF IInv
<1> QED
  BY <1>1, Inductive, PTL

\* A reply never carries is_companion for a player the table does not name.
THEOREM ClaimsHold == Spec => []CompanionClaimsHold
<1>1. IInv => CompanionClaimsHold
  BY DEF IInv
<1> QED
  BY <1>1, Inductive, PTL

-----------------------------------------------------------------------------
(* The refinement: only a stored row is a bond, every other step stutters. *)

LEMMA TurnBonds ==
  ASSUME IInv, [Next]_vars
  PROVE  [Bonded!Next]_owner
<1>1. CASE Next
  <2>1. PICK t \in Turns :
          \/ \E n \in Npcs, p \in Players : Start(t, n, p)
          \/ Turn(t)
          \/ Ends(t)
    BY <1>1 DEF Next
  <2>2. CASE Insert(t)
    <3>1. CASE InsertStored(t)
      <4>1. npc[t] \in Npcs /\ player[t] \in Players
        BY DEF IInv, TypeOK
      <4>2. Bonded!Bond(npc[t], player[t])
        BY <3>1 DEF InsertStored, Owns, Bonded!Bond
      <4> QED
        BY <4>1, <4>2 DEF Bonded!Next
    <3>2. CASE ~InsertStored(t)
      BY <2>2, <3>2 DEF Insert, InsertIgnored, InsertRefused
    <3> QED
      BY <3>1, <3>2
  <2>3. CASE ~Insert(t)
    <3>1. UNCHANGED owner
      BY <2>1, <2>3
      DEF Turn, Start, Ends, BuildContext, AcceptsTame, Answers, QueryFails,
          GetOwner, OwnedNpcForPlayer, Confirm
    <3> QED
      BY <3>1
  <2> QED
    BY <2>2, <2>3
<1>2. CASE UNCHANGED vars
  BY <1>2 DEF vars
<1> QED
  BY <1>1, <1>2

\* The interleaved queries of try_tame implement indivisible, lasting bonds.
THEOREM TamingImplementsBonds == Spec => ImplementsBonds
<1>1. Init => Bonded!Init
  BY DEF Init, Bonded!Init
<1>2. IInv /\ [Next]_vars => [Bonded!Next]_owner
  BY TurnBonds
<1> QED
  BY <1>1, <1>2, Inductive, PTL DEF Spec, ImplementsBonds, Bonded!Spec

-----------------------------------------------------------------------------
(* Refusals *)

LEMMA RefusalReasons ==
  ASSUME IInv, [Next]_vars, NEW t \in Turns, Refuses(t)
  PROVE  Denied(t)
<1>1. /\ pc[t] \in {"getOwner", "ownedNpc", "insert", "confirm"}
      /\ pc'[t] \in {"model", "reply"}
      /\ ~isCompanion'[t]
  BY DEF Refuses, IInv, TypeOK
<1>2. PICK u \in Turns :
        \/ \E n \in Npcs, p \in Players : Start(u, n, p)
        \/ Turn(u)
        \/ Ends(u)
  BY <1>1 DEF Next, vars
<1>3. u = t
  <2>1. ASSUME u # t
        PROVE  pc'[t] = pc[t]
    BY <1>2, <2>1
    DEF Turn, Start, Ends, BuildContext, AcceptsTame, Answers, QueryFails,
        GetOwner, OwnedNpcForPlayer, Insert, InsertIgnored, InsertStored,
        InsertRefused, Confirm, Verdict, TryTame, Goto, IInv, TypeOK
  <2> QED
    BY <1>1, <2>1
<1>4. GetOwner(t) \/ OwnedNpcForPlayer(t) \/ Insert(t) \/ Confirm(t)
  BY <1>1, <1>2, <1>3
  DEF Turn, Start, Ends, BuildContext, AcceptsTame, Answers, QueryFails,
      Goto, IInv, TypeOK
<1>5. CASE GetOwner(t)
  BY <1>1, <1>5 DEF Denied, GetOwner, Verdict, Goto, IInv, TypeOK
<1>6. CASE OwnedNpcForPlayer(t)
  BY <1>1, <1>6 DEF Denied, OwnedNpcForPlayer, Goto, IInv, TypeOK
<1>7. CASE Insert(t)
  BY <1>1, <1>7
  DEF Denied, Insert, InsertIgnored, InsertStored, InsertRefused, Goto, IInv, TypeOK
<1>8. CASE Confirm(t)
  BY <1>1, <1>8 DEF Denied, Confirm, Verdict, Goto, IInv, TypeOK, ConfirmFindsRow
<1> QED
  BY <1>4, <1>5, <1>6, <1>7, <1>8

\* try_tame refuses only a rival's NPC or a player who has one.
THEOREM RefusalsJustified == Spec => RefusalJustified
<1>1. IInv /\ [Next]_vars =>
        [\A t \in Turns : Refuses(t) => Denied(t)]_vars
  BY RefusalReasons
<1> QED
  BY <1>1, Inductive, PTL DEF Spec, RefusalJustified

LEMMA OwnershipLasts ==
  ASSUME IInv, [Next]_vars, NEW n \in Npcs, owner[n] # NoOne
  PROVE  owner'[n] = owner[n]
BY TurnBonds DEF Bonded!Next, Bonded!Bond, IInv, TypeOK

\* Since bonds last, so do the reasons to deny one.
LEMMA DenialLasts ==
  ASSUME TamingAssumption, IInv, [Next]_vars, NEW t \in Turns, Denied(t),
         npc'[t] = npc[t], player'[t] = player[t]
  PROVE  Denied(t)'
<1>1. npc[t] \in Npcs /\ player[t] \in Players /\ NoOne \notin Players
  BY DEF IInv, TypeOK, TamingAssumption
<1>2. \A n \in Npcs : owner[n] # NoOne => owner'[n] = owner[n]
  BY OwnershipLasts
<1> QED
  BY <1>1, <1>2 DEF Denied, Owns

\* How a turn comes to be without the bond where it should have one.
LEMMA UnbondedSteps ==
  ASSUME IInv, [Next]_vars, NEW t \in Turns,
         pc'[t] \in {"model", "reply"}, npc'[t] \in AdventureNpcs, ~isCompanion'[t]
  PROVE  /\ npc'[t] = npc[t] /\ player'[t] = player[t]
         /\ \/ pc[t] \in {"model", "reply"} /\ ~isCompanion[t]
            \/ Refuses(t)
<1>1. CASE Next
  <2>1. PICK u \in Turns :
          \/ \E n \in Npcs, p \in Players : Start(u, n, p)
          \/ Turn(u)
          \/ Ends(u)
    BY <1>1 DEF Next
  <2>2. CASE u # t
    BY <2>1, <2>2
    DEF Turn, Start, Ends, BuildContext, AcceptsTame, Answers, QueryFails,
        GetOwner, OwnedNpcForPlayer, Insert, InsertIgnored, InsertStored,
        InsertRefused, Confirm, Verdict, TryTame, Goto, IInv, TypeOK
  <2>3. CASE u = t
    <3>1. CASE GetOwner(t) \/ OwnedNpcForPlayer(t) \/ Insert(t) \/ Confirm(t)
      BY <3>1
      DEF GetOwner, OwnedNpcForPlayer, Insert, InsertIgnored, InsertStored,
          InsertRefused, Confirm, Verdict, Goto, Refuses, IInv, TypeOK
    <3>2. CASE BuildContext(t)
      BY <3>2 DEF BuildContext, TryTame, Goto, IInv, TypeOK
    <3>3. CASE \/ \E n \in Npcs, p \in Players : Start(t, n, p)
               \/ AcceptsTame(t) \/ Answers(t) \/ QueryFails(t) \/ Ends(t)
      BY <3>3
      DEF Start, AcceptsTame, Answers, QueryFails, Ends, TryTame, Goto, IInv, TypeOK
    <3> QED
      BY <2>1, <2>3, <3>1, <3>2, <3>3 DEF Turn
  <2> QED
    BY <2>2, <2>3
<1>2. CASE UNCHANGED vars
  BY <1>2 DEF vars
<1> QED
  BY <1>1, <1>2

\* Mori and Pest are bonded to whoever speaks to them unless the rule denies it.
THEOREM AdventurersBonded == Spec => []AdventureBonded
<1>1. Init => AdventureBonded
  BY DEF Init, AdventureBonded
<1>2. IInv /\ AdventureBonded /\ [Next]_vars => AdventureBonded'
  <2> SUFFICES ASSUME IInv, AdventureBonded, [Next]_vars, NEW t \in Turns,
                      pc'[t] \in {"model", "reply"}, npc'[t] \in AdventureNpcs,
                      ~isCompanion'[t]
               PROVE  Denied(t)'
    BY DEF AdventureBonded, AdventureNpcs
  <2>1. /\ npc'[t] = npc[t] /\ player'[t] = player[t]
        /\ \/ pc[t] \in {"model", "reply"} /\ ~isCompanion[t]
           \/ Refuses(t)
    BY UnbondedSteps
  <2>2. Denied(t)
    BY <2>1, RefusalReasons DEF AdventureBonded
  <2> QED
    BY <2>1, <2>2, DenialLasts, TamingAssumption
<1> QED
  BY <1>1, <1>2, Inductive, PTL DEF Spec

-----------------------------------------------------------------------------
(* The plugin's copy *)

SyncInv ==
  /\ IInv
  /\ follows \in [Npcs -> Players \cup {NoOne}]
  /\ FollowsOwner

LEMMA SyncStepIsTurnStep == [SyncNext]_syncVars => [Next]_vars
BY DEF SyncNext, syncVars, vars, Next, Asks, HearsReply, ReplyIsLost,
       MarksAdventurer, ServerRestarts

LEMMA SyncStep ==
  ASSUME TamingAssumption, SyncInv, [SyncNext]_syncVars
  PROVE  SyncInv'
<1>1. [Next]_vars
  BY SyncStepIsTurnStep
<1>2. IInv /\ IInv'
  BY <1>1, NextIInv DEF SyncInv
<1>3. \A n \in Npcs : owner[n] # NoOne => owner'[n] = owner[n]
  BY <1>1, <1>2, OwnershipLasts
<1>4. \A n \in Npcs \ AdventureNpcs : follows[n] # NoOne => follows[n] = owner'[n]
  BY <1>3 DEF SyncInv, FollowsOwner, Agrees
<1>5. CASE UNCHANGED follows
  BY <1>2, <1>4, <1>5 DEF SyncInv, FollowsOwner, Agrees
<1>6. ASSUME NEW t \in Turns, HearsReply(t), isCompanion[t]
      PROVE  SyncInv'
  <2>1. npc[t] \in Npcs /\ player[t] \in Players /\ owner[npc[t]] = player[t]
    BY <1>2, <1>6 DEF IInv, TypeOK, CompanionClaimsHold
  <2>2. UNCHANGED owner /\ follows' = [follows EXCEPT ![npc[t]] = player[t]]
    BY <1>6 DEF HearsReply, MarkCompanion, Ends
  <2> QED
    BY <1>2, <1>4, <2>1, <2>2 DEF SyncInv, FollowsOwner, Agrees
<1>7. ASSUME NEW n \in AdventureNpcs, NEW p \in Players, MarksAdventurer(n, p)
      PROVE  SyncInv'
  <2>1. UNCHANGED owner /\ follows' = [follows EXCEPT ![n] = p] /\ n \in Npcs
    BY <1>7 DEF MarksAdventurer, MarkCompanion, AdventureNpcs
  <2> QED
    BY <1>2, <1>4, <2>1 DEF SyncInv, FollowsOwner, Agrees
<1>8. CASE ServerRestarts
  BY <1>2, <1>8 DEF ServerRestarts, SyncInv, FollowsOwner, Agrees
<1> QED
  BY <1>5, <1>6, <1>7, <1>8
  DEF SyncNext, syncVars, Asks, HearsReply, ReplyIsLost, MarksAdventurer

\* No ordinary NPC ever follows a player who does not own it.
THEOREM PluginFollowsOwner == SyncSpec => []FollowsOwner
<1>1. SyncInit => SyncInv
  BY InitIInv, TamingAssumption DEF SyncInit, SyncInv, FollowsOwner, Agrees
<1>2. SyncInv /\ [SyncNext]_syncVars => SyncInv'
  BY SyncStep, TamingAssumption
<1>3. SyncInv => FollowsOwner
  BY DEF SyncInv
<1> QED
  BY <1>1, <1>2, <1>3, PTL DEF SyncSpec
=============================================================================
