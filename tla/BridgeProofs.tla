----------------------------- MODULE BridgeProofs -----------------------------
(***************************************************************************)
(* What holds of the bridge for any number of requests, notices and        *)
(* connections.  On the first connection the buffer holds parts of no      *)
(* message but the one that is arriving: that is what makes the plugin's   *)
(* parsing safe there, and what a broken connection destroys.              *)
(***************************************************************************)
EXTENDS Thinking, TLAPS

\* The buffer before the first reconnection.
CleanBuffer ==
  gen <= 1 =>
    /\ gen = 0 => link # "open" /\ partial = {}
    /\ link = "open" /\ down = <<>> => partial = {}
    /\ link = "open" /\ down # <<>> => partial \subseteq {Head(down)}

IInv ==
  /\ TypeOK
  /\ CurrentIsLatest
  /\ CleanBuffer
  /\ OwnRepliesBeforeReconnect

LEMMA HeadOfAppend ==
  ASSUME NEW S, NEW s \in Seq(S), NEW m \in S
  PROVE  /\ Append(s, m) \in Seq(S)
         /\ Append(s, m) # <<>>
         /\ s # <<>> => Head(Append(s, m)) = Head(s)
<1>1. /\ Append(s, m) \in Seq(S)
      /\ Len(Append(s, m)) = Len(s) + 1 /\ Len(s) \in Nat
      /\ \A i \in 1 .. Len(s) : Append(s, m)[i] = s[i]
  OBVIOUS
<1>2. Append(s, m) # <<>>
  BY <1>1
<1>3. ASSUME s # <<>> PROVE Head(Append(s, m)) = Head(s)
  <2>1. Len(s) # 0
    BY <1>3
  <2>2. Append(s, m)[1] = s[1]
    BY <1>1, <2>1
  <2> QED
    BY <1>2, <1>3, <2>2
<1> QED
  BY <1>1, <1>2, <1>3

LEMMA InitIInv ==
  ASSUME BridgeAssumption, Init
  PROVE  IInv
BY DEF BridgeAssumption, Init, IInv, TypeOK, CurrentIsLatest, CleanBuffer,
       OwnRepliesBeforeReconnect

\* Putting a message on a connection.
LEMMA SendsFacts ==
  ASSUME IInv, NEW g \in 0 .. gen, NEW m \in Messages, Sends(g, m),
         UNCHANGED <<gen, link, partial>>
  PROVE  down' \in Seq(Messages) /\ CleanBuffer'
<1>1. down \in Seq(Messages)
  BY DEF IInv, TypeOK
<1>2. /\ Append(down, m) \in Seq(Messages)
      /\ Append(down, m) # <<>>
      /\ down # <<>> => Head(Append(down, m)) = Head(down)
  BY <1>1, HeadOfAppend
<1> QED
  BY <1>1, <1>2 DEF Sends, IInv, CleanBuffer

\* The steps of the connection.
LEMMA ConnectionStep ==
  ASSUME BridgeAssumption, IInv,
         \/ Connects \/ LinkFails \/ LinkCloses \/ RetryTimerFires
         \/ \E g \in 1 .. MaxConnections : HandlerEnds(g)
  PROVE  IInv'
<1>1. CASE Connects
  <2>1. TypeOK'
    <3>1. gen' \in 0 .. MaxConnections /\ gen' = gen + 1
      BY <1>1 DEF Connects, IInv, TypeOK, BridgeAssumption
    <3>2. serving' \subseteq 1 .. gen' /\ currentWs' \in 0 .. gen'
      BY <1>1, <3>1 DEF Connects, IInv, TypeOK
    <3>3. down' \in Seq(Messages)
      BY <1>1 DEF Connects
    <3> QED
      BY <1>1, <3>1, <3>2, <3>3 DEF Connects, IInv, TypeOK
  <2>2. CurrentIsLatest'
    BY <1>1 DEF Connects, CurrentIsLatest
  <2>3. CleanBuffer' /\ OwnRepliesBeforeReconnect'
    BY <1>1 DEF Connects, IInv, TypeOK, CleanBuffer, OwnRepliesBeforeReconnect
  <2> QED
    BY <2>1, <2>2, <2>3 DEF IInv
<1>2. CASE LinkFails \/ LinkCloses \/ RetryTimerFires
  <2>1. TypeOK'
    <3>1. down' \in Seq(Messages)
      <4>1. down' = <<>> \/ down' = down
        BY <1>2 DEF LinkFails, LinkCloses, RetryTimerFires
      <4>2. <<>> \in Seq(Messages)
        OBVIOUS
      <4> QED
        BY <4>1, <4>2 DEF IInv, TypeOK
    <3>2. /\ link' \in {"connecting", "retrying", "closed"}
          /\ UNCHANGED <<gen, partial, asked, pending, heard, serving, currentWs,
                         processing, noticed>>
      BY <1>2 DEF LinkFails, LinkCloses, RetryTimerFires, serverVars
    <3> QED
      BY <3>1, <3>2 DEF IInv, TypeOK
  <2>2. CurrentIsLatest' /\ CleanBuffer' /\ OwnRepliesBeforeReconnect'
    BY <1>2 DEF LinkFails, LinkCloses, RetryTimerFires, serverVars, IInv,
                CurrentIsLatest, CleanBuffer, OwnRepliesBeforeReconnect
  <2> QED
    BY <2>1, <2>2 DEF IInv
<1>3. ASSUME NEW g \in 1 .. MaxConnections, HandlerEnds(g)
      PROVE  IInv'
  <2>1. TypeOK'
    BY <1>3 DEF HandlerEnds, pluginVars, IInv, TypeOK
  <2>2. CurrentIsLatest'
    BY <1>3 DEF HandlerEnds, IInv, TypeOK, CurrentIsLatest
  <2>3. CleanBuffer' /\ OwnRepliesBeforeReconnect'
    BY <1>3 DEF HandlerEnds, pluginVars, IInv, CleanBuffer, OwnRepliesBeforeReconnect
  <2> QED
    BY <2>1, <2>2, <2>3 DEF IInv
<1> QED
  BY <1>1, <1>2, <1>3

\* The steps that ask, answer, notify and give up.
LEMMA RequestStep ==
  ASSUME IInv, NEW r \in Requests, SendDialogue(r) \/ Says(r) \/ Sweep(r)
  PROVE  IInv'
<1>1. CASE SendDialogue(r) \/ Sweep(r)
  BY <1>1 DEF SendDialogue, Sweep, serverVars, IInv, TypeOK, CurrentIsLatest,
              CleanBuffer, OwnRepliesBeforeReconnect
<1>2. CASE Says(r)
  <2>1. gen \in 0 .. gen /\ r \in Messages
    BY DEF IInv, TypeOK, Messages
  <2>2. Sends(gen, r) /\ UNCHANGED <<gen, link, partial>>
    BY <1>2 DEF Says, pluginVars
  <2>3. down' \in Seq(Messages) /\ CleanBuffer'
    BY <2>1, <2>2, SendsFacts
  <2> QED
    BY <1>2, <2>3 DEF Says, pluginVars, IInv, TypeOK, CurrentIsLatest,
                      OwnRepliesBeforeReconnect
<1> QED
  BY <1>1, <1>2

LEMMA NoticeStep ==
  ASSUME IInv, NEW n \in Notices, SendsNotice(n)
  PROVE  IInv'
<1>1. currentWs \in 0 .. gen /\ n \in Messages
  BY DEF IInv, TypeOK, Messages
<1>2. UNCHANGED <<gen, link, partial, asked, pending, heard, serving, currentWs,
                  processing>>
  BY DEF SendsNotice, pluginVars
<1>3. down' \in Seq(Messages) /\ CleanBuffer'
  <2>1. CASE Sends(currentWs, n)
    BY <1>1, <1>2, <2>1, SendsFacts
  <2>2. CASE UNCHANGED down
    BY <1>2, <2>2 DEF IInv, TypeOK, CleanBuffer
  <2> QED
    BY <2>1, <2>2 DEF SendsNotice
<1> QED
  BY <1>2, <1>3 DEF SendsNotice, IInv, TypeOK, CurrentIsLatest,
                    OwnRepliesBeforeReconnect

\* The steps of the buffer.
LEMMA ReceiveStep ==
  ASSUME IInv, ReceivesPart \/ ReceivesLast
  PROVE  IInv'
<1> DEFINE m == Head(down)
<1>1. /\ link = "open"
      /\ down # <<>>
      /\ down \in Seq(Messages)
      /\ partial \subseteq Messages
      /\ UNCHANGED <<link, gen, asked, serving, currentWs, processing, noticed>>
  BY DEF ReceivesPart, ReceivesLast, serverVars, IInv, TypeOK
<1>2. m \in Messages /\ Tail(down) \in Seq(Messages)
  BY <1>1
<1>3. CurrentIsLatest'
  BY <1>1 DEF IInv, CurrentIsLatest
<1>4. CASE ReceivesPart
  BY <1>1, <1>2, <1>3, <1>4
  DEF ReceivesPart, IInv, TypeOK, CleanBuffer, OwnRepliesBeforeReconnect
<1>5. CASE ReceivesLast
  <2> DEFINE buffer == partial \cup {m}
  <2>1. down' = Tail(down) /\ partial' = {}
    BY <1>5 DEF ReceivesLast
  <2>2. CleanBuffer'
    BY <1>1, <2>1 DEF IInv, CleanBuffer
  <2>3. PICK i \in buffer, k \in buffer :
          /\ pending' \subseteq pending
          /\ heard' \subseteq heard \cup {<<i, k>>}
    BY <1>5 DEF ReceivesLast, Handle, Misreads
  <2>4. i \in Messages /\ k \in Messages
    BY <1>1, <1>2
  <2>5. gen <= 1 => i = k
    BY <1>1 DEF IInv, CleanBuffer
  <2>6. OwnRepliesBeforeReconnect'
    BY <1>1, <2>3, <2>5 DEF IInv, OwnRepliesBeforeReconnect
  <2>7. TypeOK'
    BY <1>1, <1>2, <2>1, <2>3, <2>4 DEF IInv, TypeOK
  <2> QED
    BY <1>3, <2>2, <2>6, <2>7 DEF IInv
<1> QED
  BY <1>4, <1>5

LEMMA Inductive == Spec => []IInv
<1>1. Init => IInv
  BY InitIInv, BridgeAssumption
<1>2. IInv /\ [Next]_vars => IInv'
  <2> SUFFICES ASSUME IInv, [Next]_vars
               PROVE  IInv'
    OBVIOUS
  <2>1. CASE Next
    BY <2>1, BridgeAssumption, ConnectionStep, RequestStep, NoticeStep,
       ReceiveStep
    DEF Next
  <2>2. CASE UNCHANGED vars
    BY <2>2 DEF vars, IInv, TypeOK, CurrentIsLatest, CleanBuffer,
                OwnRepliesBeforeReconnect
  <2> QED
    BY <2>1, <2>2
<1> QED
  BY <1>1, <1>2, PTL DEF Spec

\* The variables of both ends keep their types.
THEOREM BridgeTypeCorrect == Spec => []TypeOK
<1>1. IInv => TypeOK
  BY DEF IInv
<1> QED
  BY <1>1, Inductive, PTL

\* _CURRENT_WS is the latest connection or None, whatever order connections
\* begin and end in.
THEOREM CurrentConnection == Spec => []CurrentIsLatest
<1>1. IInv => CurrentIsLatest
  BY DEF IInv
<1> QED
  BY <1>1, Inductive, PTL

\* Until the first reconnection a callback hears only its own reply.
THEOREM OwnRepliesUntilReconnect == Spec => []OwnRepliesBeforeReconnect
<1>1. IInv => OwnRepliesBeforeReconnect
  BY DEF IInv
<1> QED
  BY <1>1, Inductive, PTL

-----------------------------------------------------------------------------
(* No callback is called twice *)

\* Where a message that may still be read is: a notice in one place, a request
\* nowhere once its callback is gone.
Once ==
  /\ \A h \in heard :
       /\ h[1] \in Requests => h[1] \in asked /\ h[1] \notin pending
       /\ h[1] \in Notices => h[1] \in noticed /\ h[1] \notin partial
       /\ \A i \in DOMAIN down : h[1] \in Notices => down[i] # h[1]
  /\ partial \cap Notices \subseteq noticed
  /\ \A i \in DOMAIN down :
       down[i] \in Notices =>
         /\ down[i] \in noticed
         /\ down[i] \in partial => i = 1
         /\ \A j \in DOMAIN down : down[i] = down[j] => i = j
  /\ AnsweredOnce

LEMMA OnceInit ==
  ASSUME Init
  PROVE  Once
BY DEF Init, Once, AnsweredOnce

\* What is taken off or put on a connection shifts or keeps the rest.
LEMMA TailIndex ==
  ASSUME NEW S, NEW s \in Seq(S), s # <<>>
  PROVE  /\ Head(s) = s[1]
         /\ 1 \in DOMAIN s
         /\ \A i \in DOMAIN Tail(s) : /\ i \in Nat \ {0}
                                      /\ i + 1 \in DOMAIN s
                                      /\ Tail(s)[i] = s[i + 1]
OBVIOUS

LEMMA AppendIndex ==
  ASSUME NEW S, NEW s \in Seq(S), NEW m \in S
  PROVE  /\ \A i \in DOMAIN s : i \in Nat \ {0} /\ i <= Len(s)
         /\ Len(s) + 1 \in DOMAIN Append(s, m)
         /\ Len(s) \in Nat
         /\ Append(s, m)[Len(s) + 1] = m
         /\ \A i \in DOMAIN Append(s, m) :
              i = Len(s) + 1 \/ (i \in DOMAIN s /\ Append(s, m)[i] = s[i])
OBVIOUS

\* A connection made, lost or left behind carries no message any more.
LEMMA OnceConnection ==
  ASSUME Once, down' = <<>> \/ down' = down,
         UNCHANGED <<partial, asked, pending, heard, noticed>>
  PROVE  Once'
BY DEF Once, AnsweredOnce

\* Asking and giving up: asked grows, pending has no request that was answered.
LEMMA OnceAsk ==
  ASSUME TypeOK, Once, NEW r \in Requests, SendDialogue(r) \/ Sweep(r)
  PROVE  Once'
BY DEF SendDialogue, Sweep, serverVars, TypeOK, Once, AnsweredOnce

\* A message put on the connection is a request, or a notice of which there is
\* nothing anywhere.
LEMMA OnceSend ==
  ASSUME BridgeAssumption, TypeOK, Once, NEW m \in Messages,
         down' = down \/ down' = Append(down, m),
         m \in Requests \/ m \notin noticed,
         noticed' = noticed \cup ({m} \cap Notices),
         UNCHANGED <<partial, asked, pending, heard>>
  PROVE  Once'
<1>1. CASE down' = down
  BY <1>1 DEF Once, AnsweredOnce
<1>2. CASE down' = Append(down, m)
  <2>1. down \in Seq(Messages)
    BY DEF TypeOK
  <2>2. \A i \in DOMAIN down' :
          \/ i = Len(down) + 1 /\ down'[i] = m
          \/ i \in DOMAIN down /\ down'[i] = down[i]
    BY <1>2, <2>1, AppendIndex
  <2>3. m \in Notices =>
          /\ m \notin partial
          /\ \A h \in heard : h[1] # m
          /\ \A i \in DOMAIN down : down[i] # m
    BY DEF BridgeAssumption, Messages, Once
  <2> QED
    BY <2>2, <2>3 DEF Once, AnsweredOnce
<1> QED
  BY <1>1, <1>2

LEMMA OnceReceive ==
  ASSUME BridgeAssumption, TypeOK, Once, ReceivesPart \/ ReceivesLast
  PROVE  Once'
<1>1. down \in Seq(Messages) /\ down # <<>>
  BY DEF TypeOK, ReceivesPart, ReceivesLast
<1>2. /\ Head(down) = down[1]
      /\ 1 \in DOMAIN down
      /\ \A i \in DOMAIN Tail(down) : /\ i \in Nat \ {0}
                                      /\ i + 1 \in DOMAIN down
                                      /\ Tail(down)[i] = down[i + 1]
  BY <1>1, TailIndex
<1>3. CASE ReceivesPart
  BY <1>2, <1>3 DEF ReceivesPart, serverVars, Once, AnsweredOnce
<1>4. CASE ReceivesLast
  <2>1. /\ down' = Tail(down)
        /\ partial' = {}
        /\ UNCHANGED <<asked, noticed>>
    BY <1>4 DEF ReceivesLast, serverVars
  <2>2. PICK i \in partial \cup {Head(down)}, k \in Messages :
          /\ i \in partial \ {Head(down)} \/ i = Head(down)
          /\ pending' \subseteq pending
          /\ \/ heard' = heard
             \/ /\ i \in Notices \cup pending
                /\ pending' = pending \ {i}
                /\ heard' = heard \cup {<<i, k>>}
    <3>1. partial \subseteq Messages /\ Head(down) \in Messages
      BY <1>1 DEF TypeOK
    <3>2. CASE Handle(Head(down), Head(down))
      BY <3>1, <3>2 DEF Handle
    <3>3. ASSUME NEW i \in partial \ {Head(down)},
                 NEW m \in (partial \ {Head(down)}) \cup {Head(down)},
                 Handle(i, m)
          PROVE  \E j \in partial \cup {Head(down)}, k \in Messages :
                   /\ j \in partial \ {Head(down)} \/ j = Head(down)
                   /\ pending' \subseteq pending
                   /\ \/ heard' = heard
                      \/ /\ j \in Notices \cup pending
                         /\ pending' = pending \ {j}
                         /\ heard' = heard \cup {<<j, k>>}
      BY <3>1, <3>3 DEF Handle
    <3>4. ASSUME NEW i \in partial \ {Head(down)}, Misreads(i)
          PROVE  heard' = heard /\ pending' \subseteq pending
      BY <3>4 DEF Misreads
    <3> QED
      BY <1>4, <3>1, <3>2, <3>3, <3>4 DEF ReceivesLast
  <2>3. \A h \in heard : i \in Notices \cup pending => h[1] # i
    BY <1>2, <2>2 DEF BridgeAssumption, TypeOK, Once
  <2>4. i \in Notices => /\ i \in noticed
                         /\ \A j \in DOMAIN down' : down'[j] # i
    BY <1>2, <2>1, <2>2 DEF Once
  <2>5. i \in pending => i \in asked /\ i \in Requests
    BY DEF TypeOK
  <2>6. \A h \in heard' : h \in heard \/ (h[1] = i /\ heard' # heard)
    BY <2>2
  <2>7. AnsweredOnce'
    BY <2>2, <2>3 DEF Once, AnsweredOnce
  <2>8. \A h \in heard' :
          /\ h[1] \in Requests => h[1] \in asked' /\ h[1] \notin pending'
          /\ h[1] \in Notices => h[1] \in noticed' /\ h[1] \notin partial'
          /\ \A j \in DOMAIN down' : h[1] \in Notices => down'[j] # h[1]
    <3> SUFFICES ASSUME NEW h \in heard'
                 PROVE  /\ h[1] \in Requests => h[1] \in asked' /\ h[1] \notin pending'
                        /\ h[1] \in Notices => h[1] \in noticed' /\ h[1] \notin partial'
                        /\ \A j \in DOMAIN down' :
                             h[1] \in Notices => down'[j] # h[1]
      OBVIOUS
    <3>1. CASE h \in heard
      BY <1>2, <2>1, <2>2, <3>1 DEF Once
    <3>2. CASE h[1] = i /\ heard' # heard
      BY <2>1, <2>2, <2>4, <2>5, <3>2 DEF BridgeAssumption
    <3> QED
      BY <2>6, <3>1, <3>2
  <2>9. \A j \in DOMAIN down' :
          down'[j] \in Notices =>
            /\ down'[j] \in noticed'
            /\ down'[j] \in partial' => j = 1
            /\ \A l \in DOMAIN down' : down'[j] = down'[l] => j = l
    BY <1>2, <2>1 DEF Once
  <2> QED
    BY <2>1, <2>7, <2>8, <2>9 DEF Once
<1> QED
  BY <1>3, <1>4

LEMMA OnceHolds == Spec => []Once
<1>1. Init => Once
  BY OnceInit
<1>2. TypeOK /\ Once /\ [Next]_vars => Once'
  <2> SUFFICES ASSUME TypeOK, Once, [Next]_vars
               PROVE  Once'
    OBVIOUS
  <2>1. CASE Connects \/ LinkFails \/ LinkCloses \/ RetryTimerFires
    BY <2>1, OnceConnection
    DEF Connects, LinkFails, LinkCloses, RetryTimerFires, serverVars
  <2>2. ASSUME NEW g \in 1 .. MaxConnections, HandlerEnds(g)
        PROVE  Once'
    BY <2>2, OnceConnection DEF HandlerEnds, pluginVars
  <2>3. ASSUME NEW r \in Requests, SendDialogue(r) \/ Sweep(r)
        PROVE  Once'
    BY <2>3, OnceAsk
  <2>4. ASSUME NEW r \in Requests, Says(r)
        PROVE  Once'
    <3>1. r \in Messages /\ r \notin Notices
      BY BridgeAssumption DEF Messages, BridgeAssumption
    <3>2. noticed' = noticed \cup ({r} \cap Notices)
      BY <2>4, <3>1 DEF Says
    <3> QED
      BY <2>4, <3>1, <3>2, BridgeAssumption, OnceSend DEF Says, Sends, pluginVars
  <2>5. ASSUME NEW n \in Notices, SendsNotice(n)
        PROVE  Once'
    <3>1. n \in Messages
      BY DEF Messages
    <3>2. noticed' = noticed \cup ({n} \cap Notices)
      BY <2>5 DEF SendsNotice
    <3> QED
      BY <2>5, <3>1, <3>2, BridgeAssumption, OnceSend
      DEF SendsNotice, Sends, pluginVars
  <2>6. CASE ReceivesPart \/ ReceivesLast
    BY <2>6, BridgeAssumption, OnceReceive
  <2>7. CASE UNCHANGED vars
    BY <2>7 DEF vars, Once, AnsweredOnce
  <2> QED
    BY <2>1, <2>2, <2>3, <2>4, <2>5, <2>6, <2>7 DEF Next
<1> QED
  BY <1>1, <1>2, BridgeTypeCorrect, PTL DEF Spec

\* A callback is called at most once, whatever connections break between the
\* parts of whatever messages.
THEOREM NeverAnsweredTwice == Spec => []AnsweredOnce
<1>1. Once => AnsweredOnce
  BY DEF Once
<1> QED
  BY <1>1, OnceHolds, PTL

-----------------------------------------------------------------------------
(* The thinking mark *)

\* The mark is laid over the bridge: every step is one of the bridge or leaves
\* it alone.
LEMMA ThinkingIsBridge == ThinkSpec => Spec
<1>1. ThinkInit => Init
  BY DEF ThinkInit
<1>2. [ThinkNext]_allVars => [Next]_vars
  BY DEF ThinkNext, Begins, Asks, Replies, Expires, Elsewhere, allVars, Next
<1> QED
  BY <1>1, <1>2, PTL DEF ThinkSpec, Spec

\* No request is made before its mark is set.
Marked ==
  /\ ThinkTypeOK
  /\ asked \subseteq begun
  /\ ThinksOfSomething

\* While no callback is called, begun grows and marks go, or begun and the
\* marks gain a request and its NPC.
LEMMA MarkedQuietly ==
  ASSUME ThinkingAssumption, TypeOK, Once, Marked,
         gen' <= 1 => gen <= 1, heard' = heard, asked' \subseteq begun',
         \/ begun' = begun /\ awaiting' \subseteq awaiting
         \/ \E r \in Requests \ begun :
              begun' = begun \cup {r} /\ awaiting' = awaiting \cup {npcOf[r]}
  PROVE  Marked'
<1>1. CASE begun' = begun /\ awaiting' \subseteq awaiting
  BY <1>1 DEF Marked, ThinkTypeOK, ThinksOfSomething
<1>2. ASSUME NEW r \in Requests, r \notin begun,
             begun' = begun \cup {r}, awaiting' = awaiting \cup {npcOf[r]}
      PROVE  Marked'
  <2>1. npcOf[r] \in Npcs
    BY DEF ThinkingAssumption, Messages
  <2>2. \A h \in heard : h[1] # r
    BY <1>2 DEF Once, Marked
  <2>3. ThinkTypeOK'
    BY <1>2, <2>1 DEF Marked, ThinkTypeOK
  <2>4. ThinksOfSomething'
    BY <1>2, <2>2 DEF Marked, ThinksOfSomething
  <2> QED
    BY <2>3, <2>4 DEF Marked
<1> QED
  BY <1>1, <1>2

\* A callback called on the first connection hears its own reply, and clears
\* the mark of the NPC it was waiting for.
LEMMA MarkedReply ==
  ASSUME Marked, OwnRepliesBeforeReconnect', Replies
  PROVE  Marked'
<1>1. /\ UNCHANGED <<gen, asked, begun>>
      /\ awaiting' = awaiting \ {npcOf[h[2]] : h \in Called}
  BY DEF Replies, ReceivesLast
<1>2. ASSUME gen' <= 1, NEW n \in awaiting'
      PROVE  \E r \in begun' : npcOf[r] = n /\ \A h \in heard' : h[1] # r
  <2>1. PICK r \in begun : npcOf[r] = n /\ \A h \in heard : h[1] # r
    BY <1>1, <1>2 DEF Marked, ThinksOfSomething
  <2>2. ASSUME NEW h \in heard', h[1] = r
        PROVE  FALSE
    <3>1. h \in Called
      BY <2>1, <2>2 DEF Called, Marked, ThinkTypeOK
    <3>2. npcOf[h[2]] = n
      BY <1>2, <2>1, <2>2 DEF OwnRepliesBeforeReconnect
    <3> QED
      BY <1>1, <1>2, <3>1, <3>2
  <2> QED
    BY <1>1, <2>1, <2>2
<1> QED
  BY <1>1, <1>2 DEF Marked, ThinkTypeOK, ThinksOfSomething

LEMMA MarkedStep ==
  ASSUME ThinkingAssumption, TypeOK, Once, Marked, OwnRepliesBeforeReconnect',
         [ThinkNext]_allVars
  PROVE  Marked'
<1>1. gen \in Nat
  BY DEF TypeOK
<1>2. ASSUME NEW r \in Requests, Begins(r)
      PROVE  Marked'
  BY <1>2, MarkedQuietly DEF Begins, vars, Marked
<1>3. ASSUME NEW r \in Requests, Asks(r)
      PROVE  Marked'
  BY <1>3, MarkedQuietly DEF Asks, MayAsk, SendDialogue, thinkVars, Marked
<1>4. CASE Replies
  BY <1>4, MarkedReply
<1>5. ASSUME NEW n \in Npcs, Expires(n)
      PROVE  Marked'
  BY <1>5, MarkedQuietly DEF Expires, vars, Marked
<1>6. CASE Elsewhere
  <2>1. UNCHANGED <<asked, heard, begun, awaiting>>
    BY <1>6 DEF Elsewhere, thinkVars, Connects, LinkFails, LinkCloses,
                RetryTimerFires, HandlerEnds, Says, Sweep, SendsNotice,
                ReceivesPart, pluginVars, serverVars
  <2>2. gen' = gen \/ gen' = gen + 1
    BY <1>6 DEF Elsewhere, Connects, LinkFails, LinkCloses,
                RetryTimerFires, HandlerEnds, Says, Sweep, SendsNotice,
                ReceivesPart
  <2> QED
    BY <1>1, <2>1, <2>2, MarkedQuietly DEF Marked
<1>7. CASE UNCHANGED allVars
  BY <1>7, MarkedQuietly DEF allVars, vars, thinkVars, Marked
<1> QED
  BY <1>2, <1>3, <1>4, <1>5, <1>6, <1>7 DEF ThinkNext

\* Until the first reconnection an NPC that is marked owes a reply to somebody.
THEOREM ThinkersOweAReply == ThinkSpec => []ThinksOfSomething
<1>1. ThinkInit => Marked
  BY DEF ThinkInit, Init, Marked, ThinkTypeOK, ThinksOfSomething
<1>2. /\ TypeOK /\ Once /\ Marked /\ OwnRepliesBeforeReconnect'
      /\ [ThinkNext]_allVars
      => Marked'
  BY MarkedStep, ThinkingAssumption
<1>3. Marked => ThinksOfSomething
  BY DEF Marked
<1> QED
  BY <1>1, <1>2, <1>3, ThinkingIsBridge, BridgeTypeCorrect, OnceHolds,
     OwnRepliesUntilReconnect, PTL
  DEF ThinkSpec
=============================================================================
