-------------------------------- MODULE Taming --------------------------------
(***************************************************************************)
(* Who owns which NPC: the store orchestrator/taming.py and the dialogue   *)
(* turns of orchestrator/main.py that consult it.  Turns run concurrently  *)
(* in one event loop and interleave at every query; the table npc_taming   *)
(* of Postgres has the NPC as primary key and a unique index on the owner. *)
(*                                                                         *)
(* A turn first reads the owner (_build_context).  For an adventure NPC    *)
(* (Mori, Pest) whose owner is not the speaking player it calls try_tame   *)
(* at once; a turn of any NPC but Pest calls try_tame if the model answers *)
(* accept_tame.  Any query may fail, which ends the turn with an empty     *)
(* reply.  TamingStore.release has no caller: no row is ever deleted.      *)
(***************************************************************************)
EXTENDS FiniteSets

CONSTANTS
  Turns,    \* dialogue turns in progress, each reused for the next
  Players,
  Npcs,
  Role,     \* npc_role of each NPC: "mori", "pest" or "wild"
  NoOne     \* the absence of an owner

AdventureNpcs == {n \in Npcs : Role[n] \in {"mori", "pest"}}

ASSUME TamingAssumption ==
  /\ Role \in [Npcs -> {"mori", "pest", "wild"}]
  /\ NoOne \notin Players

VARIABLES
  owner,        \* the table npc_taming
  pc,           \* what each turn does next
  npc,          \* the NPC and the player of each turn
  player,
  isCompanion,  \* NPCContext.is_companion, as the reply will carry it
  after         \* where try_tame returns to: "model" or "reply"

turnVars == <<pc, npc, player, isCompanion, after>>
vars == <<owner, pc, npc, player, isCompanion, after>>

\* Steps in which a query may raise ("model" stands for the rest of
\* _build_context and the model's call).
Querying == {"context", "model", "getOwner", "ownedNpc", "insert", "confirm"}
Steps == Querying \cup {"idle", "reply", "failed"}

Owns(p) == {n \in Npcs : owner[n] = p}

Init ==
  /\ owner = [n \in Npcs |-> NoOne]
  /\ pc = [t \in Turns |-> "idle"]
  /\ npc \in [Turns -> Npcs]
  /\ player \in [Turns -> Players]
  /\ isCompanion = [t \in Turns |-> FALSE]
  /\ after = [t \in Turns |-> "reply"]

Goto(t, step) == pc' = [pc EXCEPT ![t] = step]

\* try_tame(npc[t], player[t]) begins.
TryTame(t, returnTo) ==
  /\ Goto(t, "getOwner")
  /\ after' = [after EXCEPT ![t] = returnTo]

-----------------------------------------------------------------------------
(* The turn *)

Start(t, n, p) ==
  /\ pc[t] = "idle"
  /\ Goto(t, "context")
  /\ npc' = [npc EXCEPT ![t] = n]
  /\ player' = [player EXCEPT ![t] = p]
  /\ UNCHANGED <<owner, isCompanion, after>>

\* Mutant: only Mori bonds by speaking.
BuildContextMori(t) ==
  LET mine == owner[npc[t]] = player[t] IN
  /\ pc[t] = "context"
  /\ isCompanion' = [isCompanion EXCEPT ![t] = mine]
  /\ IF ~mine /\ Role[npc[t]] = "mori"
     THEN TryTame(t, "model")
     ELSE Goto(t, "model") /\ UNCHANGED after
  /\ UNCHANGED <<owner, npc, player>>

\* _build_context: get_owner, and try_tame for an adventure NPC of another.
BuildContext(t) ==
  LET mine == owner[npc[t]] = player[t] IN
  /\ pc[t] = "context"
  /\ isCompanion' = [isCompanion EXCEPT ![t] = mine]
  /\ IF ~mine /\ npc[t] \in AdventureNpcs
     THEN TryTame(t, "model")
     ELSE Goto(t, "model") /\ UNCHANGED after
  /\ UNCHANGED <<owner, npc, player>>

\* handle_dialogue_character: the model decides to accept.  Pest's agent
\* (handle_pest_dialogue) has no such action.
AcceptsTame(t) ==
  /\ pc[t] = "model"
  /\ Role[npc[t]] # "pest"
  /\ TryTame(t, "reply")
  /\ UNCHANGED <<owner, npc, player, isCompanion>>

\* The model does anything else: the reply is ready.
Answers(t) ==
  /\ pc[t] = "model"
  /\ Goto(t, "reply")
  /\ UNCHANGED <<owner, npc, player, isCompanion, after>>

\* process(): after an exception the reply is empty and says is_companion
\* False, whatever the turn had found out.
QueryFails(t) ==
  /\ pc[t] \in Querying
  /\ Goto(t, "failed")
  /\ isCompanion' = [isCompanion EXCEPT ![t] = FALSE]
  /\ UNCHANGED <<owner, npc, player, after>>

\* The reply has been sent and dealt with, or has got lost.
Ends(t) ==
  /\ pc[t] \in {"reply", "failed"}
  /\ Goto(t, "idle")
  /\ isCompanion' = [isCompanion EXCEPT ![t] = FALSE]
  /\ UNCHANGED <<owner, npc, player, after>>

-----------------------------------------------------------------------------
(* try_tame, one query a step *)

Verdict(t, granted) ==
  /\ isCompanion' = [isCompanion EXCEPT ![t] = @ \/ granted]
  /\ Goto(t, after[t])

GetOwner(t) ==
  /\ pc[t] = "getOwner"
  /\ IF owner[npc[t]] # NoOne
     THEN Verdict(t, owner[npc[t]] = player[t])
     ELSE Goto(t, "ownedNpc") /\ UNCHANGED isCompanion
  /\ UNCHANGED <<owner, npc, player, after>>

OwnedNpcForPlayer(t) ==
  /\ pc[t] = "ownedNpc"
  /\ IF Owns(player[t]) # {}
     THEN Verdict(t, FALSE)
     ELSE Goto(t, "insert") /\ UNCHANGED isCompanion
  /\ UNCHANGED <<owner, npc, player, after>>

\* INSERT ... ON CONFLICT (npc_id) DO NOTHING: an NPC that has an owner keeps
\* it.  The unique index on the owner raises UniqueViolationError, which
\* try_tame turns into a refusal.
InsertIgnored(t) ==
  /\ owner[npc[t]] # NoOne
  /\ Goto(t, "confirm")
  /\ UNCHANGED <<owner, isCompanion>>

InsertStored(t) ==
  /\ owner[npc[t]] = NoOne
  /\ Owns(player[t]) = {}
  /\ owner' = [owner EXCEPT ![npc[t]] = player[t]]
  /\ Goto(t, "confirm")
  /\ UNCHANGED isCompanion

InsertRefused(t) ==
  /\ owner[npc[t]] = NoOne
  /\ Owns(player[t]) # {}
  /\ Verdict(t, FALSE)
  /\ UNCHANGED owner

\* Mutant: no unique index on owner_player_id, and the
\* read before the INSERT is trusted.
InsertUnindexed(t) ==
  /\ pc[t] = "insert"
  /\ \/ InsertIgnored(t)
     \/ /\ owner[npc[t]] = NoOne
        /\ owner' = [owner EXCEPT ![npc[t]] = player[t]]
        /\ Goto(t, "confirm")
        /\ UNCHANGED isCompanion
  /\ UNCHANGED <<npc, player, after>>

Insert(t) ==
  /\ pc[t] = "insert"
  /\ InsertIgnored(t) \/ InsertStored(t) \/ InsertRefused(t)
  /\ UNCHANGED <<npc, player, after>>

\* Mutant: success is reported without reading back
\* whose row the INSERT left.
ConfirmUnread(t) ==
  /\ pc[t] = "confirm"
  /\ Verdict(t, TRUE)
  /\ UNCHANGED <<owner, npc, player, after>>

Confirm(t) ==
  /\ pc[t] = "confirm"
  /\ Verdict(t, owner[npc[t]] = player[t])
  /\ UNCHANGED <<owner, npc, player, after>>

-----------------------------------------------------------------------------
\* A turn's own steps, up to its reply.
Turn(t) ==
  \/ BuildContext(t) \/ AcceptsTame(t) \/ Answers(t) \/ QueryFails(t)
  \/ GetOwner(t) \/ OwnedNpcForPlayer(t) \/ Insert(t) \/ Confirm(t)

Next ==
  \E t \in Turns :
    \/ \E n \in Npcs, p \in Players : Start(t, n, p)
    \/ Turn(t)
    \/ Ends(t)

Spec == Init /\ [][Next]_vars

-----------------------------------------------------------------------------
(* Properties *)

\* Every variable keeps its type.
TypeOK ==
  /\ owner \in [Npcs -> Players \cup {NoOne}]
  /\ pc \in [Turns -> Steps]
  /\ npc \in [Turns -> Npcs]
  /\ player \in [Turns -> Players]
  /\ isCompanion \in [Turns -> BOOLEAN]
  /\ after \in [Turns -> {"model", "reply"}]

\* Whenever a turn believes its player to be the companion's owner, the table
\* says so too, however long ago the turn read it and whatever other turns
\* have done since (the reply carries the belief to the plugin).
CompanionClaimsHold ==
  \A t \in Turns : isCompanion[t] => owner[npc[t]] = player[t]

\* The queries of concurrent try_tame calls, interleaved in any way, amount
\* to indivisible bonds: one NPC per player, one player per NPC, for good.
Bonded == INSTANCE Bonds
ImplementsBonds == Bonded!Spec

Refuses(t) ==
  /\ pc[t] \in {"getOwner", "ownedNpc", "insert", "confirm"}
  /\ pc'[t] = after[t]
  /\ ~isCompanion'[t]

\* The rule denies the bond: the NPC is another player's, or the player has one.
Denied(t) == owner[npc[t]] \notin {NoOne, player[t]} \/ Owns(player[t]) # {}

\* try_tame refuses only for a reason the rule knows, at the time it refuses.
RefusalJustified == [][\A t \in Turns : Refuses(t) => Denied(t)]_vars

\* Mori and Pest are "always bonded to the speaking player" (main.py:244-246)
\* as far as the rule allows: a turn that has its context, and has not failed,
\* says is_companion unless the bond is denied, then and at its reply.  (The
\* comment promises more: a second player of Mori, or Pest after Mori, is denied.)
AdventureBonded ==
  \A t \in Turns :
    pc[t] \in {"model", "reply"} /\ npc[t] \in AdventureNpcs /\ ~isCompanion[t]
      => Denied(t)

\* "Idempotent: taming an NPC you already own succeeds (no-op)"
\* (taming.py:53-54): no call refuses a player the NPC he owns.  Does not hold:
\* two turns of one player for one NPC both find it free; one stores the row,
\* and the other then finds the player's NPC, does not compare it with the NPC
\* asked for, and refuses.
TameIdempotent ==
  [][\A t \in Turns : Refuses(t) => owner[npc[t]] # player[t]]_vars
=============================================================================
