------------------------------- MODULE Thinking -------------------------------
(***************************************************************************)
(* The mark above an NPC's head while it is asked something                *)
(* (AwaitingReplyState.java), over the bridge its requests go by (module   *)
(* Bridge).  The mark is kept per NPC, the requests are per player: the    *)
(* marks of two players' requests to one NPC are one mark.                 *)
(***************************************************************************)
EXTENDS Bridge

CONSTANTS
  Npcs,
  npcOf   \* the npc_id of a message: whom it asks, who answers, who notifies

ASSUME ThinkingAssumption == npcOf \in [Messages -> Npcs]

VARIABLES
  begun,    \* requests whose mark is set; the request itself follows
  awaiting  \* AWAITING: the NPCs that are marked

thinkVars == <<begun, awaiting>>
allVars == <<vars, thinkVars>>

ThinkInit ==
  /\ Init
  /\ begun = {}
  /\ awaiting = {}

\* AwaitingReplyState.start, by the chat listener or by TalkToAI.
Begins(r) ==
  /\ r \notin begun
  /\ begun' = begun \cup {r}
  /\ awaiting' = awaiting \cup {npcOf[r]}
  /\ UNCHANGED vars

\* Mutant: the request may be sent before its mark is set.
MayAskUnmarked(r) == TRUE

\* The thread that has set the mark sends the request.
MayAsk(r) == r \in begun

Asks(r) ==
  /\ MayAsk(r)
  /\ SendDialogue(r)
  /\ UNCHANGED thinkVars

\* The callbacks called in a step, each with the fields of a message.
Called == {h \in heard' \ heard : h[1] \in Requests}

\* A message arrives: every callback clears the mark of the NPC its message
\* names, before it looks at the text.
Replies ==
  /\ ReceivesLast
  /\ awaiting' = awaiting \ {npcOf[h[2]] : h \in Called}
  /\ UNCHANGED begun

\* The mark is older than its TTL: isAwaiting no longer sees it, and the timer
\* removes it (Patience).
Expires(n) ==
  /\ n \in awaiting
  /\ awaiting' = awaiting \ {n}
  /\ UNCHANGED <<vars, begun>>

\* The steps of the bridge that touch no mark.
Elsewhere ==
  /\ \/ Connects \/ LinkFails \/ LinkCloses \/ RetryTimerFires
     \/ \E g \in 1 .. MaxConnections : HandlerEnds(g)
     \/ \E r \in Requests : Says(r) \/ Sweep(r)
     \/ \E n \in Notices : SendsNotice(n)
     \/ ReceivesPart
  /\ UNCHANGED thinkVars

ThinkNext ==
  \/ \E r \in Requests : Begins(r) \/ Asks(r)
  \/ Replies
  \/ \E n \in Npcs : Expires(n)
  \/ Elsewhere

ThinkSpec == ThinkInit /\ [][ThinkNext]_allVars

ThinkFairSpec == ThinkSpec /\ Fairness

-----------------------------------------------------------------------------
(* Properties *)

\* Every variable keeps its type.
ThinkTypeOK ==
  /\ begun \subseteq Requests
  /\ awaiting \subseteq Npcs

\* Until the plugin first reconnects, an NPC that is seen to think owes a reply
\* to some request made or about to be made of it: no reply overtakes the mark
\* of its own request and leaves it standing (AwaitingReplyState.java:8-9).
\* After a reconnection a callback may be called with another message's npc_id
\* (Bridge), and then clears that one's mark.
ThinksOfSomething ==
  gen <= 1 =>
    \A n \in awaiting :
      \E r \in begun : npcOf[r] = n /\ \A h \in heard : h[1] # r

\* A mark is "cleared the moment that specific reply's callback fires"
\* (AwaitingReplyState.java:8-9): an answer takes no mark from an NPC that
\* another player still waits for.
\* Does not hold: the mark is one per NPC.
ClearedByTheLast ==
  [][Called # {} =>
       \A n \in awaiting \ awaiting' : \A r \in pending' : npcOf[r] # n]_allVars
=============================================================================
