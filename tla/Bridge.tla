-------------------------------- MODULE Bridge --------------------------------
(***************************************************************************)
(* The WebSocket between the game plugin and the orchestrator.             *)
(*                                                                         *)
(* Plugin side (NpcAiBridge.java): dialogue requests with a one-shot       *)
(* callback per request, the buffer that collects the parts of a text      *)
(* message, the sweep of stale callbacks, reconnection.  Orchestrator side *)
(* (main.py): one plugin_connection coroutine per connection, which makes  *)
(* itself _CURRENT_WS, handles every message concurrently and replies on   *)
(* the connection the message came by; and the notices of                  *)
(* pest_notice_daemon, which go to _CURRENT_WS.                            *)
(*                                                                         *)
(* The two ends learn of a broken connection each in its own time: the     *)
(* plugin may have reconnected before the coroutine of the old connection  *)
(* ends.  A restart of the orchestrator is the end of its coroutines.      *)
(***************************************************************************)
EXTENDS Naturals, Sequences, FiniteSets

CONSTANTS
  Requests,        \* dialogue requests, each made once (req_id is a fresh UUID)
  Notices,         \* evolve_notice messages
  MaxConnections   \* bound on the connections of a behaviour

Messages == Requests \cup Notices

ASSUME BridgeAssumption ==
  /\ Requests \cap Notices = {}
  /\ IsFiniteSet(Messages)
  /\ MaxConnections \in Nat

VARIABLES
  link,        \* what the plugin makes of its connection
  gen,         \* connections made so far: the number of the latest
  down,        \* what that connection carries to the plugin
  partial,     \* the messages the plugin's buffer holds parts of
  asked,       \* requests made
  pending,     \* pendingReplies
  heard,       \* <<r, m>>: the handler of r was called with the fields of m
  serving,     \* connections whose plugin_connection runs
  currentWs,   \* _CURRENT_WS, 0 for None
  processing,  \* requests of the latest connection being handled
  noticed      \* notices the daemon has consumed

pluginVars == <<link, partial, asked, pending, heard>>
serverVars == <<serving, currentWs, processing, noticed>>
vars == <<link, gen, down, partial, asked, pending, heard,
          serving, currentWs, processing, noticed>>

Init ==
  /\ link = "connecting"
  /\ gen = 0
  /\ down = <<>>
  /\ partial = {}
  /\ asked = {}
  /\ pending = {}
  /\ heard = {}
  /\ serving = {}
  /\ currentWs = 0
  /\ processing = {}
  /\ noticed = {}

-----------------------------------------------------------------------------
(* The connection *)

Connects ==
  /\ link = "connecting"
  /\ gen < MaxConnections
  /\ link' = "open"
  /\ gen' = gen + 1
  /\ serving' = serving \cup {gen'}
  /\ currentWs' = gen'
  /\ down' = <<>>
  /\ processing' = {}
  /\ UNCHANGED <<partial, asked, pending, heard, noticed>>

\* The attempt fails, or the open connection ends in an error (onError): a
\* timer will try again.  The buffer keeps what it has.
LinkFails ==
  /\ link \in {"connecting", "open"}
  /\ link' = "retrying"
  /\ down' = <<>>
  /\ UNCHANGED <<gen, partial, asked, pending, heard, serverVars>>

\* The other end closes the connection: onClose is not overridden.
LinkCloses ==
  /\ link = "open"
  /\ link' = "closed"
  /\ down' = <<>>
  /\ UNCHANGED <<gen, partial, asked, pending, heard, serverVars>>

RetryTimerFires ==
  /\ link = "retrying"
  /\ link' = "connecting"
  /\ UNCHANGED <<gen, down, partial, asked, pending, heard, serverVars>>

\* Mutant: whichever connection ends clears _CURRENT_WS.
HandlerEndsClearing(g) ==
  /\ g \in serving
  /\ serving' = serving \ {g}
  /\ currentWs' = 0
  /\ processing' = IF g = gen THEN {} ELSE processing
  /\ UNCHANGED <<gen, down, pluginVars, noticed>>

\* plugin_connection of connection g ends; what it was handling will find its
\* connection closed.
HandlerEnds(g) ==
  /\ g \in serving
  /\ serving' = serving \ {g}
  /\ currentWs' = IF currentWs = g THEN 0 ELSE currentWs
  /\ processing' = IF g = gen THEN {} ELSE processing
  /\ UNCHANGED <<gen, down, pluginVars, noticed>>

-----------------------------------------------------------------------------
(* Requests and their replies *)

\* A message put on connection g reaches the plugin if it still listens there.
Sends(g, m) == down' = IF link = "open" /\ g = gen THEN Append(down, m) ELSE down

\* sendDialogue: the callback is registered first; the request is lost when
\* either end of the connection is gone.
SendDialogue(r) ==
  /\ r \notin asked
  /\ asked' = asked \cup {r}
  /\ pending' = pending \cup {r}
  /\ processing' = IF link = "open" /\ gen \in serving
                   THEN processing \cup {r} ELSE processing
  /\ UNCHANGED <<link, gen, down, partial, heard, serving, currentWs, noticed>>

\* process() sends exactly one "say" for a request, empty if its handling
\* failed, on the connection the request came by.
Says(r) ==
  /\ r \in processing
  /\ processing' = processing \ {r}
  /\ Sends(gen, r)
  /\ UNCHANGED <<gen, pluginVars, serving, currentWs, noticed>>

\* pest_notice_daemon: without a connection the notice is consumed all the same.
SendsNotice(n) ==
  /\ n \in Notices \ noticed
  /\ noticed' = noticed \cup {n}
  /\ IF currentWs = 0 THEN UNCHANGED down ELSE Sends(currentWs, n)
  /\ UNCHANGED <<gen, pluginVars, serving, currentWs, processing>>

\* sweepStalePendingReplies gives a callback up, at any time (when it does is
\* what Patience is about).
Sweep(r) ==
  /\ r \in pending
  /\ pending' = pending \ {r}
  /\ UNCHANGED <<link, gen, down, partial, asked, heard, serverVars>>

\* onText, last = FALSE: a first part of the message, kept in the buffer.
ReceivesPart ==
  /\ link = "open"
  /\ down # <<>>
  /\ Head(down) \notin partial
  /\ partial' = partial \cup {Head(down)}
  /\ UNCHANGED <<link, gen, down, asked, pending, heard, serverVars>>

\* Mutant: callbacks are kept per NPC, so that a
\* reply goes to whoever of its players asked last (here: to anyone).
HandleByNpc(i, m) ==
  IF i \in Requests /\ pending # {}
  THEN \E r \in pending :
         pending' = pending \ {r} /\ heard' = heard \cup {<<r, m>>}
  ELSE /\ heard' = IF i \in Notices THEN heard \cup {<<i, m>>} ELSE heard
       /\ UNCHANGED pending

\* handleMessage of a text taken for message i, whose fields are those of m:
\* a notice is handed over, a reply goes to its callback if there is one.
Handle(i, m) ==
  /\ pending' = pending \ {i}
  /\ heard' = IF i \in Notices \cup pending THEN heard \cup {<<i, m>>} ELSE heard

\* The text runs together parts of several messages, and a key is not found
\* where it should be: the callback, if already looked up, is not called.
Misreads(i) ==
  /\ pending' \in {pending, pending \ {i}}
  /\ UNCHANGED heard

\* Mutant: the buffer is not emptied.
ReceivesLastKeeping ==
  /\ link = "open"
  /\ down # <<>>
  /\ down' = Tail(down)
  /\ partial' = partial \cup {Head(down)}
  /\ \E i, m \in partial' : Handle(i, m) \/ Misreads(i)
  /\ UNCHANGED <<link, gen, asked, serverVars>>

\* onText, last = TRUE: everything in the buffer is one message.  With parts
\* of other messages before it, the extraction of keys from the left may take
\* the identifier of an earlier one and the fields of a later.
ReceivesLast ==
  /\ link = "open"
  /\ down # <<>>
  /\ down' = Tail(down)
  /\ partial' = {}
  /\ LET earlier == partial \ {Head(down)} IN
     \/ Handle(Head(down), Head(down))
     \/ \E i \in earlier, m \in earlier \cup {Head(down)} : Handle(i, m)
     \/ \E i \in earlier : Misreads(i)
  /\ UNCHANGED <<link, gen, asked, serverVars>>

-----------------------------------------------------------------------------
Next ==
  \/ Connects \/ LinkFails \/ LinkCloses \/ RetryTimerFires
  \/ \E g \in 1 .. MaxConnections : HandlerEnds(g)
  \/ \E r \in Requests : SendDialogue(r) \/ Says(r) \/ Sweep(r)
  \/ \E n \in Notices : SendsNotice(n)
  \/ ReceivesPart \/ ReceivesLast

\* The java.util.Timer of a reconnection runs.
Fairness == WF_vars(RetryTimerFires)

Spec == Init /\ [][Next]_vars
FairSpec == Spec /\ Fairness

-----------------------------------------------------------------------------
(* Properties *)

\* Every variable keeps its type.
TypeOK ==
  /\ link \in {"connecting", "open", "retrying", "closed"}
  /\ gen \in 0 .. MaxConnections
  /\ down \in Seq(Messages)
  /\ partial \subseteq Messages
  /\ asked \subseteq Requests
  /\ pending \subseteq asked
  /\ heard \subseteq Messages \X Messages
  /\ serving \subseteq 1 .. gen
  /\ currentWs \in 0 .. gen
  /\ processing \subseteq asked
  /\ noticed \subseteq Notices

\* The daemon's _CURRENT_WS is the latest connection as long as that one is
\* served, however late the end of an earlier one is noticed, and None after.
CurrentIsLatest == currentWs = IF gen \in serving THEN gen ELSE 0

\* On the plugin's first connection the reply a callback gets is the reply to
\* its own request, in whatever order, in whatever parts and among whatever
\* notices the replies arrive (NpcAiBridge.java:82-91).  After a reconnection
\* it may not be: onError leaves the part of a broken message in the buffer,
\* the first message of the next connection is appended to it, and the
\* callback of the broken one gets what comes after.
OwnRepliesBeforeReconnect == gen <= 1 => \A h \in heard : h[1] = h[2]

\* Two requests of one callback, or two messages taken for one, never happen:
\* a request is answered at most once ("a reply can never be delivered twice",
\* NpcAiBridge.java:251-253), even by messages that parts of others spoil.
AnsweredOnce == \A h1, h2 \in heard : h1[1] = h2[1] => h1 = h2

\* "retry with backoff; NPCs fall back to canned lines meanwhile"
\* (NpcAiBridge.java:105): a plugin without a connection tries again.
\* Does not hold when the orchestrator closes the connection in order: nothing
\* overrides onClose, and no timer is set.
KeepsConnecting == link # "open" ~> link \in {"connecting", "open"}
=============================================================================
