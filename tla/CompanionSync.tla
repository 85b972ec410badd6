---------------------------- MODULE CompanionSync ----------------------------
(***************************************************************************)
(* The plugin's copy of the ownership of NPCs (CompanionState.OWNERS, what *)
(* a companion follows and defends by) beside the table it copies.  Every  *)
(* dialogue reply carries is_companion and marks the asking player as the  *)
(* owner; the chat listener and the spawners mark Mori and Pest without    *)
(* asking.  A restart of the game server empties the map and forgets the   *)
(* turns it had asked for.                                                 *)
(***************************************************************************)
EXTENDS Taming

VARIABLES
  follows,   \* CompanionState.OWNERS
  awaited    \* the turns whose callback the plugin still holds

syncVars == <<owner, pc, npc, player, isCompanion, after, follows, awaited>>

MarkCompanion(n, p) == follows' = [follows EXCEPT ![n] = p]

SyncInit ==
  /\ Init
  /\ follows = [n \in Npcs |-> NoOne]
  /\ awaited = {}

\* sendDialogue registers the callback and sends the request.
Asks(t, n, p) ==
  /\ Start(t, n, p)
  /\ awaited' = awaited \cup {t}
  /\ UNCHANGED follows

\* Mutant: the plugin marks on every reply.
HearsReplyMarking(t) ==
  /\ t \in awaited
  /\ pc[t] = "reply"
  /\ MarkCompanion(npc[t], player[t])
  /\ Ends(t)
  /\ awaited' = awaited \ {t}

\* The callback of TalkToAIAction and of PlayerChatToAIListener, for a reply
\* with text to a player still online.
HearsReply(t) ==
  /\ t \in awaited
  /\ pc[t] = "reply"
  /\ IF isCompanion[t] THEN MarkCompanion(npc[t], player[t])
                       ELSE UNCHANGED follows
  /\ Ends(t)
  /\ awaited' = awaited \ {t}

\* The reply is empty, its player offline, its callback swept, or the
\* connection it was sent on is gone.
ReplyIsLost(t) ==
  /\ Ends(t)
  /\ awaited' = awaited \ {t}
  /\ UNCHANGED follows

\* "Mori, ..." in chat, or a spawn of the player's companion.
MarksAdventurer(n, p) ==
  /\ n \in AdventureNpcs
  /\ MarkCompanion(n, p)
  /\ UNCHANGED <<owner, pc, npc, player, isCompanion, after, awaited>>

ServerRestarts ==
  /\ follows' = [n \in Npcs |-> NoOne]
  /\ awaited' = {}
  /\ UNCHANGED vars

SyncNext ==
  \/ \E t \in Turns :
       \/ \E n \in Npcs, p \in Players : Asks(t, n, p)
       \/ Turn(t) /\ UNCHANGED <<follows, awaited>>
       \/ HearsReply(t)
       \/ ReplyIsLost(t)
  \/ \E n \in Npcs, p \in Players : MarksAdventurer(n, p)
  \/ ServerRestarts

SyncSpec == SyncInit /\ [][SyncNext]_syncVars

-----------------------------------------------------------------------------
(* Properties *)

\* What the plugin believes about n is what the table says, or nothing.
Agrees(n) == follows[n] \in {NoOne, owner[n]}

\* An NPC that is neither Mori nor Pest follows its owner in the table or
\* nobody: no late reply, lost reply or restart makes it follow another.
\* (Mori and Pest follow whoever spawned or named them last, which the table
\* may not agree with.)
FollowsOwner == \A n \in Npcs \ AdventureNpcs : Agrees(n)
=============================================================================
