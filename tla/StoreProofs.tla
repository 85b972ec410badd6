----------------------------- MODULE StoreProofs -----------------------------
(***************************************************************************)
(* What holds of the two stores that tasks change a query at a time: the   *)
(* topics of a pair (Threads), for any number of concurrent operations and *)
(* topics and any limit of mentions, and the chunks of the wiki            *)
(* (WikiIngest), for any pages, edits and interrupted cycles.  In both the *)
(* invariant counts what is decided but not yet done with what is done: a  *)
(* task about to insert a topic with the open rows, and the page in a      *)
(* cycle's hands with the page that is stored.                             *)
(***************************************************************************)
EXTENDS Threads, WikiIngest, FiniteSetTheorems, TLAPS

Inserting == {t \in Tasks : op[t].step = "insert"}
Mentioning(i) == {t \in Tasks : op[t].step = "mention" /\ op[t].row = i}

OpenAccounted == Cardinality(Open) + Cardinality(Inserting) <= Cardinality(Tasks)
MentionsAccounted ==
  \A i \in DOMAIN rows :
    rows[i].mentioned + Cardinality(Mentioning(i)) < MaxMentions + Cardinality(Tasks)

IInv == TypeOK /\ OpenAccounted /\ MentionsAccounted

\* What a task that is not idle holds.
LEMMA QueryFacts ==
  ASSUME TypeOK, NEW t \in Tasks
  PROVE  /\ op[t] \in Query
         /\ op[t] = Idle => op[t].step = "idle"
         /\ op[t].step = "insert" => op[t].summary \in Topics /\ op[t].opened \in Nat
         /\ op[t].step = "replace" => op[t].summary \in Topics /\ op[t].row \in DOMAIN rows
         /\ op[t].step = "mention" => op[t].summary \in Topics /\ op[t].row \in DOMAIN rows
         /\ op[t].step = "retire" => op[t].row \in DOMAIN rows
BY DEF TypeOK, Query, Idle

\* The sets that are counted are finite.
LEMMA Finite ==
  ASSUME ThreadsAssumption, TypeOK
  PROVE  /\ IsFiniteSet(Open)
         /\ Cardinality(Tasks) \in Nat
         /\ \A S \in SUBSET Tasks :
              IsFiniteSet(S) /\ Cardinality(S) \in Nat
                /\ Cardinality(S) <= Cardinality(Tasks)
<1>1. IsFiniteSet(DOMAIN rows)
  <2>1. rows \in Seq(Row)
    BY DEF TypeOK
  <2>2. DOMAIN rows = 1 .. Len(rows) /\ Len(rows) \in Nat
    BY <2>1
  <2> QED
    BY <2>2, FS_Interval
<1>2. IsFiniteSet(Open)
  <2>1. Open \subseteq DOMAIN rows
    BY DEF Open
  <2> QED
    BY <1>1, <2>1, FS_Subset
<1>3. IsFiniteSet(Tasks)
  BY DEF ThreadsAssumption
<1>4. \A S \in SUBSET Tasks :
        IsFiniteSet(S) /\ Cardinality(S) <= Cardinality(Tasks)
  BY <1>3, FS_Subset
<1> QED
  BY <1>2, <1>3, <1>4, FS_CardinalityType

-----------------------------------------------------------------------------
(* The effect of a step on what is counted                                 *)

\* A task's next query enters it into the sets it names, and removes it from
\* all the others.
LEMMA DoesCounted ==
  ASSUME TypeOK, NEW t \in Tasks, NEW q, Does(t, q)
  PROVE  /\ q.step = "insert" => Inserting' = Inserting \cup {t}
         /\ q.step # "insert" => Inserting' = Inserting \ {t}
         /\ \A i : Mentioning(i)' \subseteq Mentioning(i) \cup {t}
         /\ \A i : ~(q.step = "mention" /\ q.row = i)
                     => Mentioning(i)' = Mentioning(i) \ {t}
<1>1. op' = [op EXCEPT ![t] = q] /\ op \in [Tasks -> Query]
  BY DEF Does, TypeOK
<1>2. op'[t] = q /\ \A u \in Tasks \ {t} : op'[u] = op[u]
  BY <1>1
<1>3. q.step = "insert" => Inserting' = Inserting \cup {t}
  BY <1>2 DEF Inserting
<1>4. q.step # "insert" => Inserting' = Inserting \ {t}
  BY <1>2 DEF Inserting
<1>5. \A i : Mentioning(i)' \subseteq Mentioning(i) \cup {t}
  BY <1>2 DEF Mentioning
<1>6. \A i : ~(q.step = "mention" /\ q.row = i)
               => Mentioning(i)' = Mentioning(i) \ {t}
  BY <1>2 DEF Mentioning
<1> QED
  BY <1>3, <1>4, <1>5, <1>6

\* Rows are never removed, so that what a task holds of one stays typed.
LEMMA DoesTyped ==
  ASSUME TypeOK, NEW t \in Tasks, NEW q, Does(t, q), q \in Query',
         DOMAIN rows \subseteq DOMAIN rows'
  PROVE  op' \in [Tasks -> Query']
<1>1. op' = [op EXCEPT ![t] = q] /\ op \in [Tasks -> Query]
  BY DEF Does, TypeOK
<1>2. Query \subseteq Query'
  BY DEF Query, Idle
<1> QED
  BY <1>1, <1>2

\* A step that opens no row and lets no task start inserting keeps the account.
LEMMA OpenShrinks ==
  ASSUME ThreadsAssumption, TypeOK, OpenAccounted,
         Open' \subseteq Open, Inserting' \subseteq Inserting
  PROVE  OpenAccounted'
<1>1. Inserting \in SUBSET Tasks
  BY DEF Inserting
<1>2. IsFiniteSet(Open) /\ IsFiniteSet(Inserting)
  BY <1>1, Finite
<1>3. /\ IsFiniteSet(Open') /\ Cardinality(Open') <= Cardinality(Open)
      /\ IsFiniteSet(Inserting')
      /\ Cardinality(Inserting') <= Cardinality(Inserting)
  BY <1>2, FS_Subset
<1>4. /\ Cardinality(Open) \in Nat /\ Cardinality(Open') \in Nat
      /\ Cardinality(Inserting) \in Nat /\ Cardinality(Inserting') \in Nat
      /\ Cardinality(Tasks) \in Nat
  BY <1>2, <1>3, FS_CardinalityType, Finite
<1> QED
  BY <1>3, <1>4 DEF OpenAccounted

\* A step that counts no mention and lets no task start one keeps the account.
LEMMA MentionsShrink ==
  ASSUME ThreadsAssumption, TypeOK, MentionsAccounted, DOMAIN rows' = DOMAIN rows,
         \A i \in DOMAIN rows : /\ rows'[i].mentioned = rows[i].mentioned
                                /\ Mentioning(i)' \subseteq Mentioning(i)
  PROVE  MentionsAccounted'
<1> SUFFICES ASSUME NEW i \in DOMAIN rows
             PROVE  rows'[i].mentioned + Cardinality(Mentioning(i)')
                      < MaxMentions + Cardinality(Tasks)
  BY DEF MentionsAccounted
<1>1. Mentioning(i) \in SUBSET Tasks
  BY DEF Mentioning
<1>2. IsFiniteSet(Mentioning(i)) /\ Cardinality(Mentioning(i)) \in Nat
  BY <1>1, Finite
<1>3. /\ IsFiniteSet(Mentioning(i)')
      /\ Cardinality(Mentioning(i)') <= Cardinality(Mentioning(i))
  BY <1>2, FS_Subset
<1>4. Cardinality(Mentioning(i)') \in Nat
  BY <1>3, FS_CardinalityType
<1>5. Cardinality(Tasks) \in Nat /\ MaxMentions \in Nat
  BY Finite DEF ThreadsAssumption
<1>6. rows[i].mentioned \in Nat
  <2>1. rows \in Seq(Row)
    BY DEF TypeOK
  <2>2. rows[i] \in Row
    BY <2>1
  <2> QED
    BY <2>2 DEF Row
<1>7. rows[i].mentioned + Cardinality(Mentioning(i)) < MaxMentions + Cardinality(Tasks)
  BY DEF MentionsAccounted
<1> QED
  BY <1>2, <1>3, <1>4, <1>5, <1>6, <1>7

-----------------------------------------------------------------------------
(* Initially, and step by step                                             *)

LEMMA Initially ==
  ASSUME ThreadsAssumption, Init
  PROVE  IInv
<1>1. <<>> \in Seq(Row)
  OBVIOUS
<1>2. TypeOK
  BY <1>1 DEF Init, TypeOK, Query, Idle
<1>3. Open = {} /\ Inserting = {}
  BY DEF Init, Open, Inserting, Idle
<1>4. OpenAccounted
  BY <1>2, <1>3, FS_EmptySet, Finite DEF OpenAccounted
<1>5. MentionsAccounted
  BY DEF Init, MentionsAccounted
<1> QED
  BY <1>2, <1>4, <1>5 DEF IInv

\* Only when no row is open does a task start inserting.
LEMMA OpenThreadKeeps ==
  ASSUME ThreadsAssumption, IInv, NEW t \in Tasks, NEW s \in Topics, OpenThread(t, s)
  PROVE  IInv'
<1>1. TypeOK /\ OpenAccounted /\ MentionsAccounted
  BY DEF IInv
<1>2. rows' = rows /\ hinted' = hinted /\ raised' = raised \cup {s}
  BY DEF OpenThread
<1>3. Cardinality(raised) \in Nat
  BY <1>1, FS_Subset, FS_CardinalityType DEF TypeOK, ThreadsAssumption
<1>4. Open' = Open
  BY <1>2 DEF Open
<1>5. CASE Open = {}
  <2> DEFINE q == [step |-> "insert", summary |-> s, opened |-> Cardinality(raised)]
  <2>1. Does(t, q)
    BY <1>5 DEF OpenThread
  <2>2. q \in Query' /\ q.step = "insert"
    BY <1>3 DEF Query
  <2> HIDE DEF q
  <2>3. op' \in [Tasks -> Query']
    BY <1>1, <1>2, <2>1, <2>2, DoesTyped
  <2>4. TypeOK'
    BY <1>1, <1>2, <2>3 DEF TypeOK
  <2>5. /\ \A i : Mentioning(i)' = Mentioning(i) \ {t}
    BY <1>1, <2>1, <2>2, DoesCounted
  <2>6. MentionsAccounted'
    BY <1>1, <1>2, <2>5, MentionsShrink
  <2>7. Inserting' \in SUBSET Tasks /\ Open' = {}
    BY <1>4, <1>5 DEF Inserting
  <2>8. Cardinality(Inserting') <= Cardinality(Tasks) /\ Cardinality(Inserting') \in Nat
    BY <1>1, <2>7, Finite
  <2>9. Cardinality(Open') = 0
    BY <2>7, FS_EmptySet
  <2>10. OpenAccounted'
    BY <2>8, <2>9 DEF OpenAccounted
  <2> QED
    BY <2>4, <2>6, <2>10 DEF IInv
<1>6. CASE Open # {}
  <2>1. PICK i \in Open : Does(t, [step |-> "replace", summary |-> s, row |-> i])
    BY <1>6 DEF OpenThread
  <2> DEFINE q == [step |-> "replace", summary |-> s, row |-> i]
  <2>2. q \in Query' /\ q.step = "replace" /\ Does(t, q)
    BY <1>2, <2>1 DEF Query, Open
  <2> HIDE DEF q
  <2>3. op' \in [Tasks -> Query']
    BY <1>1, <1>2, <2>2, DoesTyped
  <2>4. TypeOK'
    BY <1>1, <1>2, <2>3 DEF TypeOK
  <2>5. Inserting' = Inserting \ {t} /\ \A j : Mentioning(j)' = Mentioning(j) \ {t}
    BY <1>1, <2>2, DoesCounted
  <2>6. OpenAccounted'
    BY <1>1, <1>4, <2>5, OpenShrinks
  <2>7. MentionsAccounted'
    BY <1>1, <1>2, <2>5, MentionsShrink
  <2> QED
    BY <2>4, <2>6, <2>7 DEF IInv
<1> QED
  BY <1>5, <1>6

\* A step that ends a task's operation and counts nothing.
LEMMA EndsKeep ==
  ASSUME ThreadsAssumption, IInv, NEW t \in Tasks, Does(t, Idle),
         rows' \in Seq(Row), DOMAIN rows' = DOMAIN rows, Open' \subseteq Open,
         \A i \in DOMAIN rows : rows'[i].mentioned = rows[i].mentioned,
         raised' = raised, hinted' = hinted
  PROVE  IInv'
<1>1. TypeOK /\ OpenAccounted /\ MentionsAccounted
  BY DEF IInv
<1>2. Idle \in Query' /\ Idle.step = "idle"
  BY DEF Query, Idle
<1>3. op' \in [Tasks -> Query']
  BY <1>1, <1>2, DoesTyped
<1>4. TypeOK'
  BY <1>1, <1>3 DEF TypeOK
<1>5. Inserting' = Inserting \ {t} /\ \A i : Mentioning(i)' = Mentioning(i) \ {t}
  BY <1>1, <1>2, DoesCounted
<1>6. OpenAccounted'
  BY <1>1, <1>5, OpenShrinks
<1>7. MentionsAccounted'
  BY <1>1, <1>5, MentionsShrink
<1> QED
  BY <1>4, <1>6, <1>7 DEF IInv

\* A step that changes rows only, and counts nothing.
LEMMA RowsKeep ==
  ASSUME ThreadsAssumption, IInv,
         rows' \in Seq(Row), DOMAIN rows' = DOMAIN rows, Open' \subseteq Open,
         \A i \in DOMAIN rows : rows'[i].mentioned = rows[i].mentioned,
         op' = op, raised' = raised, hinted' = hinted
  PROVE  IInv'
<1>1. TypeOK /\ OpenAccounted /\ MentionsAccounted
  BY DEF IInv
<1>2. Query' = Query
  BY DEF Query, Idle
<1>3. TypeOK'
  BY <1>1, <1>2 DEF TypeOK
<1>4. Inserting' = Inserting /\ \A i : Mentioning(i)' = Mentioning(i)
  BY DEF Inserting, Mentioning
<1>5. OpenAccounted'
  BY <1>1, <1>4, OpenShrinks
<1>6. MentionsAccounted'
  BY <1>1, <1>4, MentionsShrink
<1> QED
  BY <1>3, <1>5, <1>6 DEF IInv

LEMMA ReplaceKeeps ==
  ASSUME ThreadsAssumption, IInv, NEW t \in Tasks, Replace(t)
  PROVE  IInv'
<1>1. rows \in Seq(Row)
  BY DEF IInv, TypeOK
<1>2. op[t].summary \in Topics /\ op[t].row \in DOMAIN rows
  BY QueryFacts DEF Replace, IInv
<1>3. rows' = [rows EXCEPT ![op[t].row].summary = op[t].summary]
  BY DEF Replace
<1>4. rows[op[t].row] \in Row
  BY <1>1, <1>2
<1>5. [rows[op[t].row] EXCEPT !.summary = op[t].summary] \in Row
  BY <1>2, <1>4 DEF Row
<1>6. rows' \in Seq(Row) /\ DOMAIN rows' = DOMAIN rows
  BY <1>1, <1>2, <1>3, <1>5
<1>7. \A i \in DOMAIN rows : /\ rows'[i].mentioned = rows[i].mentioned
                             /\ rows'[i].status = rows[i].status
  BY <1>1, <1>3, <1>4 DEF Row
<1>8. Open' \subseteq Open
  BY <1>6, <1>7 DEF Open
<1> QED
  BY <1>6, <1>7, <1>8, EndsKeep DEF Replace

\* The task that inserts leaves one set as its row joins the other.
LEMMA InsertKeeps ==
  ASSUME ThreadsAssumption, IInv, NEW t \in Tasks, Insert(t)
  PROVE  IInv'
<1> DEFINE n == Len(rows) + 1
           new == [summary |-> op[t].summary, status |-> "open",
                   opened |-> op[t].opened, mentioned |-> 0, recent |-> FALSE]
<1>1. TypeOK /\ OpenAccounted /\ MentionsAccounted
  BY DEF IInv
<1>2. rows \in Seq(Row)
  BY <1>1 DEF TypeOK
<1>3. op[t].summary \in Topics /\ op[t].opened \in Nat
  BY <1>1, QueryFacts DEF Insert
<1>4. new \in Row /\ new.status = "open" /\ new.mentioned = 0
  BY <1>3 DEF Row
<1>5. rows' = Append(rows, new) /\ Does(t, Idle) /\ raised' = raised /\ hinted' = hinted
  BY DEF Insert
<1> HIDE DEF new
<1>6. /\ rows' \in Seq(Row)
      /\ DOMAIN rows = 1 .. Len(rows) /\ DOMAIN rows' = 1 .. n /\ Len(rows) \in Nat
      /\ rows'[n] = new /\ \A i \in DOMAIN rows : rows'[i] = rows[i]
  BY <1>2, <1>4, <1>5
<1>7. Idle \in Query' /\ Idle.step = "idle"
  BY DEF Query, Idle
<1>8. op' \in [Tasks -> Query']
  BY <1>1, <1>5, <1>6, <1>7, DoesTyped
<1>9. TypeOK'
  BY <1>1, <1>5, <1>6, <1>8 DEF TypeOK
<1>10. Inserting' = Inserting \ {t} /\ \A i : Mentioning(i)' = Mentioning(i) \ {t}
  BY <1>1, <1>5, <1>7, DoesCounted
<1>11. OpenAccounted'
  <2>1. Open' = Open \cup {n} /\ n \notin Open
    BY <1>4, <1>6 DEF Open
  <2>2. Inserting \in SUBSET Tasks /\ t \in Inserting
    BY DEF Inserting, Insert
  <2>3. /\ IsFiniteSet(Open) /\ IsFiniteSet(Inserting)
        /\ Cardinality(Tasks) \in Nat
    BY <1>1, <2>2, Finite
  <2>4. Cardinality(Open') = Cardinality(Open) + 1
    BY <2>1, <2>3, FS_AddElement
  <2>5. Cardinality(Inserting') = Cardinality(Inserting) - 1
    BY <1>10, <2>2, <2>3, FS_RemoveElement
  <2>6. Cardinality(Open) \in Nat /\ Cardinality(Inserting) \in Nat
    BY <2>3, FS_CardinalityType
  <2> QED
    BY <1>1, <2>3, <2>4, <2>5, <2>6 DEF OpenAccounted
<1>12. MentionsAccounted'
  <2> SUFFICES ASSUME NEW i \in DOMAIN rows'
               PROVE  rows'[i].mentioned + Cardinality(Mentioning(i)')
                        < MaxMentions + Cardinality(Tasks)
    BY DEF MentionsAccounted
  <2>1. CASE i = n
    <3>1. Mentioning(i)' = {}
      <4>1. \A u \in Tasks : op[u].step = "mention" => op[u].row \in DOMAIN rows
        BY <1>1, QueryFacts
      <4>2. Mentioning(i) = {}
        BY <1>6, <2>1, <4>1 DEF Mentioning
      <4> QED
        BY <1>10, <4>2
    <3>2. {t} \in SUBSET Tasks /\ Cardinality({t}) = 1
      BY FS_Singleton
    <3>3. Cardinality(Tasks) >= 1 /\ Cardinality(Tasks) \in Nat /\ MaxMentions \in Nat
      BY <1>1, <3>2, Finite DEF ThreadsAssumption
    <3>4. Cardinality(Mentioning(i)') = 0
      BY <3>1, FS_EmptySet
    <3>5. rows'[i].mentioned = 0
      BY <1>4, <1>6, <2>1
    <3> QED
      BY <3>3, <3>4, <3>5
  <2>2. CASE i # n
    <3>1. i \in DOMAIN rows /\ rows'[i] = rows[i]
      BY <1>6, <2>2
    <3>2. Mentioning(i) \in SUBSET Tasks
      BY DEF Mentioning
    <3>3. IsFiniteSet(Mentioning(i)) /\ Cardinality(Mentioning(i)) \in Nat
      BY <1>1, <3>2, Finite
    <3>4. /\ IsFiniteSet(Mentioning(i)')
          /\ Cardinality(Mentioning(i)') <= Cardinality(Mentioning(i))
      BY <1>10, <3>3, FS_Subset
    <3>5. /\ Cardinality(Mentioning(i)') \in Nat
          /\ Cardinality(Tasks) \in Nat /\ MaxMentions \in Nat
      BY <1>1, <3>4, FS_CardinalityType, Finite DEF ThreadsAssumption
    <3>6. rows[i] \in Row
      BY <1>2, <3>1
    <3>7. rows[i].mentioned \in Nat
      BY <3>6 DEF Row
    <3>8. rows[i].mentioned + Cardinality(Mentioning(i)) < MaxMentions + Cardinality(Tasks)
      BY <1>1, <3>1 DEF MentionsAccounted
    <3> QED
      BY <3>1, <3>3, <3>4, <3>5, <3>7, <3>8
  <2> QED
    BY <2>1, <2>2
<1> QED
  BY <1>9, <1>11, <1>12 DEF IInv

LEMMA ResolveThreadKeeps ==
  ASSUME ThreadsAssumption, IInv, NEW t \in Tasks, ResolveThread(t)
  PROVE  IInv'
<1> DEFINE New(i) == IF i \in Open THEN [rows[i] EXCEPT !.status = "resolved"]
                                   ELSE rows[i]
<1>1. rows \in Seq(Row)
  BY DEF IInv, TypeOK
<1>2. \A i \in DOMAIN rows : rows[i] \in Row
  BY <1>1
<1>3. rows' = [i \in DOMAIN rows |-> New(i)]
  BY DEF ResolveThread
<1>4. \A i \in DOMAIN rows : New(i) \in Row /\ New(i).mentioned = rows[i].mentioned
  BY <1>2 DEF Row
<1>5. \A i \in DOMAIN rows : New(i).status # "open"
  BY <1>2 DEF Row, Open
<1> HIDE DEF New
<1>6. DOMAIN rows = 1 .. Len(rows) /\ Len(rows) \in Nat
  BY <1>1
<1>7. DOMAIN rows' = DOMAIN rows /\ rows' \in [1 .. Len(rows) -> Row]
  BY <1>3, <1>4, <1>6
<1>8. rows' \in Seq(Row)
  BY <1>6, <1>7
<1>9. Open' \subseteq Open
  BY <1>3, <1>5, <1>7 DEF Open
<1> QED
  BY <1>3, <1>4, <1>7, <1>8, <1>9, RowsKeep DEF ResolveThread

\* A task starts a mention only of a row with mentions left.
LEMMA GetOpenThreadKeeps ==
  ASSUME ThreadsAssumption, IInv, NEW t \in Tasks, GetOpenThread(t)
  PROVE  IInv'
<1>1. TypeOK /\ OpenAccounted /\ MentionsAccounted
  BY DEF IInv
<1>2. rows' = rows /\ hinted' = hinted /\ raised' = raised /\ Open' = Open
  BY DEF GetOpenThread, Open
<1>3. PICK i \in Oldest :
        \/ Does(t, [step |-> "retire", row |-> i])
        \/ /\ rows[i].mentioned < MaxMentions
           /\ Does(t, [step |-> "mention", row |-> i, summary |-> rows[i].summary])
  BY DEF GetOpenThread
<1>4. i \in DOMAIN rows /\ rows \in Seq(Row)
  BY <1>1 DEF Oldest, Open, TypeOK
<1>5. rows[i] \in Row
  BY <1>4
<1>6. CASE Does(t, [step |-> "retire", row |-> i])
  <2> DEFINE q == [step |-> "retire", row |-> i]
  <2>1. q \in Query' /\ q.step = "retire" /\ Does(t, q)
    BY <1>2, <1>4, <1>6 DEF Query
  <2> HIDE DEF q
  <2>2. op' \in [Tasks -> Query']
    BY <1>1, <1>2, <2>1, DoesTyped
  <2>3. TypeOK'
    BY <1>1, <1>2, <2>2 DEF TypeOK
  <2>4. Inserting' = Inserting \ {t} /\ \A j : Mentioning(j)' = Mentioning(j) \ {t}
    BY <1>1, <2>1, DoesCounted
  <2>5. OpenAccounted'
    BY <1>1, <1>2, <2>4, OpenShrinks
  <2>6. MentionsAccounted'
    BY <1>1, <1>2, <2>4, MentionsShrink
  <2> QED
    BY <2>3, <2>5, <2>6 DEF IInv
<1>7. CASE /\ rows[i].mentioned < MaxMentions
           /\ Does(t, [step |-> "mention", row |-> i, summary |-> rows[i].summary])
  <2> DEFINE q == [step |-> "mention", row |-> i, summary |-> rows[i].summary]
  <2>1. rows[i].summary \in Topics /\ rows[i].mentioned \in Nat
    BY <1>5 DEF Row
  <2>2. q \in Query' /\ q.step = "mention" /\ q.row = i /\ Does(t, q)
    BY <1>2, <1>4, <1>7, <2>1 DEF Query
  <2> HIDE DEF q
  <2>3. op' \in [Tasks -> Query']
    BY <1>1, <1>2, <2>2, DoesTyped
  <2>4. TypeOK'
    BY <1>1, <1>2, <2>3 DEF TypeOK
  <2>5. /\ Inserting' = Inserting \ {t}
        /\ \A j : j # i => Mentioning(j)' = Mentioning(j) \ {t}
    BY <1>1, <2>2, DoesCounted
  <2>6. OpenAccounted'
    BY <1>1, <1>2, <2>5, OpenShrinks
  <2>7. MentionsAccounted'
    <3> SUFFICES ASSUME NEW j \in DOMAIN rows
                 PROVE  rows[j].mentioned + Cardinality(Mentioning(j)')
                          < MaxMentions + Cardinality(Tasks)
      BY <1>2 DEF MentionsAccounted
    <3>1. Mentioning(j)' \in SUBSET Tasks /\ Mentioning(j) \in SUBSET Tasks
      BY DEF Mentioning
    <3>2. /\ IsFiniteSet(Mentioning(j)) /\ Cardinality(Mentioning(j)) \in Nat
          /\ Cardinality(Mentioning(j)') \in Nat
          /\ Cardinality(Mentioning(j)') <= Cardinality(Tasks)
          /\ Cardinality(Tasks) \in Nat /\ MaxMentions \in Nat
      BY <1>1, <3>1, Finite DEF ThreadsAssumption
    <3>3. CASE j = i
      BY <1>7, <2>1, <3>2, <3>3
    <3>4. CASE j # i
      <4>1. Cardinality(Mentioning(j)') <= Cardinality(Mentioning(j))
        BY <2>5, <3>2, <3>4, FS_Subset
      <4>2. rows[j] \in Row
        BY <1>4
      <4>3. rows[j].mentioned \in Nat
        BY <4>2 DEF Row
      <4>4. rows[j].mentioned + Cardinality(Mentioning(j)) < MaxMentions + Cardinality(Tasks)
        BY <1>1 DEF MentionsAccounted
      <4> QED
        BY <3>2, <4>1, <4>3, <4>4
    <3> QED
      BY <3>3, <3>4
  <2> QED
    BY <2>4, <2>6, <2>7 DEF IInv
<1> QED
  BY <1>3, <1>6, <1>7

LEMMA RetireKeeps ==
  ASSUME ThreadsAssumption, IInv, NEW t \in Tasks, Retire(t)
  PROVE  IInv'
<1>1. rows \in Seq(Row)
  BY DEF IInv, TypeOK
<1>2. op[t].row \in DOMAIN rows
  BY QueryFacts DEF Retire, IInv
<1>3. rows' = [rows EXCEPT ![op[t].row].status = "stale"]
  BY DEF Retire
<1>4. \A i \in DOMAIN rows : rows[i] \in Row
  BY <1>1
<1>5. [rows[op[t].row] EXCEPT !.status = "stale"] \in Row
  BY <1>2, <1>4 DEF Row
<1>6. rows' \in Seq(Row) /\ DOMAIN rows' = DOMAIN rows
  BY <1>1, <1>2, <1>3, <1>5
<1>7. \A i \in DOMAIN rows : /\ rows'[i].mentioned = rows[i].mentioned
                             /\ rows'[i].status \in {rows[i].status, "stale"}
  BY <1>2, <1>3, <1>4 DEF Row
<1>8. Open' \subseteq Open
  BY <1>6, <1>7 DEF Open
<1> QED
  BY <1>6, <1>7, <1>8, EndsKeep DEF Retire

\* The task that mentions a row leaves one term as it adds to the other.
LEMMA MentionKeeps ==
  ASSUME ThreadsAssumption, IInv, NEW t \in Tasks, Mention(t)
  PROVE  IInv'
<1> DEFINE r == op[t].row
<1>1. TypeOK /\ OpenAccounted /\ MentionsAccounted
  BY DEF IInv
<1>2. rows \in Seq(Row)
  BY <1>1 DEF TypeOK
<1>3. r \in DOMAIN rows /\ op[t].summary \in Topics
  BY <1>1, QueryFacts DEF Mention
<1>4. /\ rows' = [rows EXCEPT ![r].mentioned = @ + 1, ![r].recent = TRUE]
      /\ hinted' = [hinted EXCEPT ![op[t].summary] = @ + 1]
      /\ Does(t, Idle) /\ raised' = raised
  BY DEF Mention
<1>5. \A i \in DOMAIN rows : rows[i] \in Row /\ rows[i].mentioned \in Nat
  <2>1. \A i \in DOMAIN rows : rows[i] \in Row
    BY <1>2
  <2> QED
    BY <2>1 DEF Row
<1>6. [rows[r] EXCEPT !.mentioned = rows[r].mentioned + 1, !.recent = TRUE] \in Row
  <2> DEFINE old == rows[r]
  <2>1. old \in Row
    BY <1>3, <1>5
  <2> HIDE DEF old
  <2>2. old.mentioned + 1 \in Nat
    BY <2>1 DEF Row
  <2>3. \A n \in Nat : [old EXCEPT !.mentioned = n, !.recent = TRUE] \in Row
    BY <2>1 DEF Row
  <2> QED
    BY <2>2, <2>3 DEF old
<1>7. rows' = [rows EXCEPT ![r] =
                 [rows[r] EXCEPT !.mentioned = rows[r].mentioned + 1, !.recent = TRUE]]
  <2> HIDE DEF r
  <2> QED
    BY <1>2, <1>3, <1>4
<1>8. rows' \in Seq(Row) /\ DOMAIN rows' = DOMAIN rows
  BY <1>2, <1>3, <1>6, <1>7
<1>9. /\ rows'[r].mentioned = rows[r].mentioned + 1
      /\ \A i \in DOMAIN rows : /\ i # r => rows'[i] = rows[i]
                                /\ rows'[i].status = rows[i].status
  <2> DEFINE new == [rows[r] EXCEPT !.mentioned = rows[r].mentioned + 1, !.recent = TRUE]
  <2>1. /\ new.mentioned = rows[r].mentioned + 1
        /\ new.status = rows[r].status
    BY <1>3, <1>5 DEF Row
  <2>2. rows' = [rows EXCEPT ![r] = new]
    BY <1>7
  <2> HIDE DEF new
  <2>3. rows'[r] = new /\ \A i \in DOMAIN rows : i # r => rows'[i] = rows[i]
    BY <1>2, <1>3, <2>2
  <2> QED
    BY <2>1, <2>3
<1>10. Idle \in Query' /\ Idle.step = "idle"
  BY DEF Query, Idle
<1>11. op' \in [Tasks -> Query']
  BY <1>1, <1>4, <1>8, <1>10, DoesTyped
<1>12. hinted' \in [Topics -> Nat]
  BY <1>1, <1>3, <1>4 DEF TypeOK
<1>13. TypeOK'
  BY <1>1, <1>4, <1>8, <1>11, <1>12 DEF TypeOK
<1>14. Inserting' = Inserting \ {t} /\ \A i : Mentioning(i)' = Mentioning(i) \ {t}
  BY <1>1, <1>4, <1>10, DoesCounted
<1>15. Open' \subseteq Open
  BY <1>8, <1>9 DEF Open
<1>16. OpenAccounted'
  BY <1>1, <1>14, <1>15, OpenShrinks
<1> HIDE DEF r
<1>17. MentionsAccounted'
  <2> SUFFICES ASSUME NEW i \in DOMAIN rows
               PROVE  rows'[i].mentioned + Cardinality(Mentioning(i)')
                        < MaxMentions + Cardinality(Tasks)
    BY <1>8 DEF MentionsAccounted
  <2>1. Mentioning(i) \in SUBSET Tasks
    BY DEF Mentioning
  <2>2. /\ IsFiniteSet(Mentioning(i)) /\ Cardinality(Mentioning(i)) \in Nat
        /\ Cardinality(Tasks) \in Nat /\ MaxMentions \in Nat
    BY <1>1, <2>1, Finite DEF ThreadsAssumption
  <2>3. rows[i].mentioned + Cardinality(Mentioning(i)) < MaxMentions + Cardinality(Tasks)
    BY <1>1 DEF MentionsAccounted
  <2>4. CASE i = r
    <3>1. t \in Mentioning(i)
      BY <2>4 DEF Mentioning, Mention, r
    <3>2. Cardinality(Mentioning(i)') = Cardinality(Mentioning(i)) - 1
      BY <1>14, <2>2, <3>1, FS_RemoveElement
    <3> QED
      BY <1>5, <1>9, <2>2, <2>3, <2>4, <3>2
  <2>5. CASE i # r
    <3>1. rows'[i] = rows[i]
      BY <1>9, <2>5
    <3>2. /\ IsFiniteSet(Mentioning(i)')
          /\ Cardinality(Mentioning(i)') <= Cardinality(Mentioning(i))
      BY <1>14, <2>2, FS_Subset
    <3>3. Cardinality(Mentioning(i)') \in Nat
      BY <3>2, FS_CardinalityType
    <3> QED
      BY <1>5, <2>2, <2>3, <3>1, <3>2, <3>3
  <2> QED
    BY <2>4, <2>5
<1> QED
  BY <1>13, <1>16, <1>17 DEF IInv

LEMMA CooldownPassesKeeps ==
  ASSUME ThreadsAssumption, IInv, NEW i \in DOMAIN rows, CooldownPasses(i)
  PROVE  IInv'
<1>1. rows \in Seq(Row)
  BY DEF IInv, TypeOK
<1>2. rows' = [rows EXCEPT ![i].recent = FALSE]
  BY DEF CooldownPasses
<1>3. \A j \in DOMAIN rows : rows[j] \in Row
  BY <1>1
<1>4. [rows[i] EXCEPT !.recent = FALSE] \in Row
  BY <1>3 DEF Row
<1>5. rows' \in Seq(Row) /\ DOMAIN rows' = DOMAIN rows
  BY <1>1, <1>2, <1>4
<1>6. \A j \in DOMAIN rows : /\ rows'[j].mentioned = rows[j].mentioned
                             /\ rows'[j].status = rows[j].status
  BY <1>2, <1>3 DEF Row
<1>7. Open' \subseteq Open
  BY <1>5, <1>6 DEF Open
<1> QED
  BY <1>5, <1>6, <1>7, RowsKeep DEF CooldownPasses

LEMMA QueryFailsKeeps ==
  ASSUME ThreadsAssumption, IInv, NEW t \in Tasks, QueryFails(t)
  PROVE  IInv'
<1>1. rows \in Seq(Row) /\ rows' = rows
  BY DEF QueryFails, IInv, TypeOK
<1>2. Open' = Open
  BY <1>1 DEF Open
<1> QED
  BY <1>1, <1>2, EndsKeep DEF QueryFails

-----------------------------------------------------------------------------
LEMMA Inductive ==
  ASSUME ThreadsAssumption, IInv, [Next]_vars
  PROVE  IInv'
<1>1. CASE UNCHANGED vars
  <2>1. rows \in Seq(Row)
    BY DEF IInv, TypeOK
  <2>2. rows' = rows /\ op' = op /\ raised' = raised /\ hinted' = hinted
    BY <1>1 DEF vars
  <2>3. Open' = Open
    BY <2>2 DEF Open
  <2> QED
    BY <2>1, <2>2, <2>3, RowsKeep
<1>2. ASSUME NEW t \in Tasks, Task(t) PROVE IInv'
  <2>1. ASSUME NEW s \in Topics, OpenThread(t, s) PROVE IInv'
    BY <2>1, OpenThreadKeeps
  <2>2. CASE Replace(t)
    BY <2>2, ReplaceKeeps
  <2>3. CASE Insert(t)
    BY <2>3, InsertKeeps
  <2>4. CASE ResolveThread(t)
    BY <2>4, ResolveThreadKeeps
  <2>5. CASE GetOpenThread(t)
    BY <2>5, GetOpenThreadKeeps
  <2>6. CASE Retire(t)
    BY <2>6, RetireKeeps
  <2>7. CASE Mention(t)
    BY <2>7, MentionKeeps
  <2>8. CASE QueryFails(t)
    BY <2>8, QueryFailsKeeps
  <2> QED
    BY <1>2, <2>1, <2>2, <2>3, <2>4, <2>5, <2>6, <2>7, <2>8 DEF Task
<1>3. ASSUME NEW i \in DOMAIN rows, CooldownPasses(i) PROVE IInv'
  BY <1>3, CooldownPassesKeeps
<1> QED
  BY <1>1, <1>2, <1>3 DEF Next

LEMMA Invariant == Spec => []IInv
<1>1. Init => IInv
  BY ThreadsAssumption, Initially
<1>2. IInv /\ [Next]_vars => IInv'
  BY ThreadsAssumption, Inductive
<1> QED
  BY <1>1, <1>2, PTL DEF Spec

\* Whatever runs together, the rows and what tasks hold of them keep their
\* types.
THEOREM ThreadsTypeCorrect == Spec => []TypeOK
<1>1. IInv => TypeOK
  BY DEF IInv
<1> QED
  BY <1>1, Invariant, PTL

\* A pair never has more open threads than operations run together: one, if
\* they do not (threads.py:50).
THEOREM OpenThreadsBounded == Spec => []OpenBounded
<1>1. ASSUME IInv PROVE OpenBounded
  <2>1. Inserting \in SUBSET Tasks /\ TypeOK /\ OpenAccounted
    BY <1>1 DEF Inserting, IInv
  <2>2. IsFiniteSet(Open) /\ Cardinality(Inserting) \in Nat /\ Cardinality(Tasks) \in Nat
    BY <2>1, ThreadsAssumption, Finite
  <2>3. Cardinality(Open) \in Nat
    BY <2>2, FS_CardinalityType
  <2> QED
    BY <2>1, <2>2, <2>3 DEF OpenBounded, OpenAccounted
<1> QED
  BY <1>1, Invariant, PTL

\* Turns that read a thread's count together take it past MAX_MENTIONS by no
\* more than their number less one (threads.py:21, 101-108).
THEOREM MentionsBound == Spec => []MentionsBounded
<1>1. ASSUME IInv PROVE MentionsBounded
  <2> SUFFICES ASSUME NEW i \in DOMAIN rows
               PROVE  rows[i].mentioned < MaxMentions + Cardinality(Tasks)
    BY DEF MentionsBounded
  <2>1. Mentioning(i) \in SUBSET Tasks /\ TypeOK /\ MentionsAccounted
    BY <1>1 DEF Mentioning, IInv
  <2>2. /\ Cardinality(Mentioning(i)) \in Nat
        /\ Cardinality(Tasks) \in Nat /\ MaxMentions \in Nat
    BY <2>1, ThreadsAssumption, Finite DEF ThreadsAssumption
  <2>3. rows \in Seq(Row)
    BY <2>1 DEF TypeOK
  <2>4. rows[i] \in Row
    BY <2>3
  <2>5. rows[i].mentioned \in Nat
    BY <2>4 DEF Row
  <2> QED
    BY <2>1, <2>2, <2>5 DEF MentionsAccounted
<1> QED
  BY <1>1, Invariant, PTL

-----------------------------------------------------------------------------
(* The wiki: what a cycle knows and what it stores                         *)

Chunk == [claim : Nat, text : Nat]

CycleState ==
  [step : {"idle", "learn", "page", "fetch", "delete", "upsert"},
   titles : SUBSET Pages, known : SUBSET (Pages \X Nat), text : Nat]

WikiTypeOK ==
  /\ wiki \in [Pages -> Seq(Version)]
  /\ store \in [Pages -> Seq(Chunk)]
  /\ crawler \in [Crawlers -> CycleState]
  /\ torn \in SUBSET Pages

\* A revision a cycle knows has been made, and the text it has fetched is of that
\* revision or of a later one.
Informed(c) ==
  /\ \A k \in crawler[c].known : k[2] \in 1..Len(wiki[k[1]])
  /\ crawler[c].step \in {"delete", "upsert"} =>
       \A p \in Pages : At(c, p) =>
         /\ crawler[c].text \in 1..Len(wiki[p])
         /\ crawler[c].text >= Rev(c, p)

\* So it is with what is stored.
Founded(p) ==
  \A i \in DOMAIN store[p] :
    /\ store[p][i].text \in 1..Len(wiki[p])
    /\ store[p][i].text >= store[p][i].claim

\* Where no two replacements overlap, one that has deleted the chunks finds none.
Alone(p) ==
  p \notin torn =>
    /\ \A c, d \in Replacing(p) : c = d
    /\ Replacing(p) # {} => store[p] = <<>>

Whole(p) ==
  store[p] # <<>> =>
    /\ \A i, j \in DOMAIN store[p] : store[p][i] = store[p][j]
    /\ Len(store[p]) = wiki[p][store[p][1].text].chunks

WikiInv ==
  /\ WikiTypeOK
  /\ \A c \in Crawlers : Informed(c)
  /\ \A p \in Pages : Founded(p) /\ Alone(p) /\ (p \notin torn => Whole(p))

\* A cycle is at one page.
LEMMA AtOnePage ==
  ASSUME WikiAssumption, NEW c, NEW p \in Pages, NEW q \in Pages, At(c, p), At(c, q)
  PROVE  p = q
<1>1. p \in Nat /\ q \in Nat
  BY DEF WikiAssumption
<1>2. p <= q /\ q <= p
  BY DEF At
<1> QED BY <1>1, <1>2

\* What it knows of that page is among what it knows.
LEMMA RevIsKnown ==
  ASSUME NEW c, NEW p, At(c, p)
  PROVE  \E k \in crawler[c].known : k[1] = p /\ k[2] = Rev(c, p)
BY DEF At, Rev

\* What a cycle is at and knows depends on nothing but itself.
LEMMA AsBefore ==
  ASSUME NEW c, NEW p, crawler'[c].known = crawler[c].known
  PROVE  At(c, p)' = At(c, p) /\ Rev(c, p)' = Rev(c, p)
BY DEF At, Rev

\* A cycle that passes a page, or ends, replaces nothing and knows nothing new.
LEMMA PassedOn ==
  ASSUME NEW c, NEW p
  PROVE  /\ Passed(c, p).step \in {"idle", "page"}
         /\ Passed(c, p).known \subseteq crawler[c].known
BY DEF Passed, Taken, NoCycle

LEMMA PassedType ==
  ASSUME WikiTypeOK, NEW c \in Crawlers, NEW p
  PROVE  Passed(c, p) \in CycleState
BY DEF Passed, Taken, NoCycle, WikiTypeOK, CycleState

LEMMA NoCycleType == NoCycle \in CycleState
BY DEF NoCycle, CycleState


\* Revisions are added and none is changed.
LEMMA WikiGrows ==
  ASSUME WikiTypeOK, NEW p \in Pages, [WikiNext]_wikiVars
  PROVE  /\ Len(wiki[p]) \in Nat /\ Len(wiki'[p]) \in Nat
         /\ Len(wiki[p]) <= Len(wiki'[p])
         /\ \A i \in 1..Len(wiki[p]) : wiki'[p][i] = wiki[p][i]
<1>1. wiki[p] \in Seq(Version)
  BY DEF WikiTypeOK
<1>2. ASSUME NEW q \in Pages, Edited(q)
      PROVE  wiki'[p] = wiki[p] \/ \E v \in Version : wiki'[p] = Append(wiki[p], v)
  BY <1>2 DEF Edited, WikiTypeOK
<1>3. ASSUME wiki' # wiki PROVE \E q \in Pages : Edited(q)
  BY <1>3 DEF WikiNext, wikiVars, Cycle, Lists, Learns, Page, Purges, Skips, Wants, Fetches,
              Deletes, Upserts, Fails, Stops
<1>4. wiki'[p] = wiki[p] \/ \E v \in Version : wiki'[p] = Append(wiki[p], v)
  BY <1>2, <1>3
<1> QED BY <1>1, <1>4

-----------------------------------------------------------------------------
(* What a step does to one cycle, and to the chunks of one page            *)

\* A step of the cycle c takes it to the state s.
LEMMA CyclesGo ==
  ASSUME NEW c, Cycle(c) \/ Fails(c) \/ Stops(c)
  PROVE  \E s : Goes(c, s)
<1>1. CASE Lists(c)
  BY <1>1 DEF Lists
<1>2. CASE Learns(c)
  BY <1>2 DEF Learns
<1>3. ASSUME NEW p \in Pages, Page(c, p) PROVE \E s : Goes(c, s)
  BY <1>3 DEF Page, Purges, Skips, Wants, Fetches, Deletes, Upserts
<1>4. CASE Fails(c) \/ Stops(c)
  BY <1>4 DEF Fails, Stops
<1> QED BY <1>1, <1>2, <1>3, <1>4 DEF Cycle

LEMMA CyclesType ==
  ASSUME WikiTypeOK, NEW c \in Crawlers, NEW s \in CycleState, Goes(c, s)
  PROVE  /\ crawler' \in [Crawlers -> CycleState]
         /\ crawler'[c] = s
         /\ \A d \in Crawlers \ {c} : crawler'[d] = crawler[d]
BY DEF WikiTypeOK, Goes

IsLatest(k) == wiki[k[1]] # <<>> /\ k[2] = Len(wiki[k[1]])

LEMMA BatchesType ==
  ASSUME WikiTypeOK, NEW c \in Crawlers, Lists(c) \/ Learns(c)
  PROVE  \E s \in CycleState :
           /\ Goes(c, s)
           /\ s.step \in {"idle", "learn", "page"}
           /\ \A k \in s.known : k \in crawler[c].known \/ IsLatest(k)
<1> USE DEF NoCycle, CycleState
<1>1. CASE Lists(c)
  <2> DEFINE titles == {p \in Pages : Exists(p)}
             s == IF titles = {} THEN NoCycle
                  ELSE [NoCycle EXCEPT !.step = "learn", !.titles = titles]
  <2>1. Goes(c, s)
    BY <1>1 DEF Lists
  <2>2. s \in CycleState /\ s.step \in {"idle", "learn"} /\ s.known = {}
    OBVIOUS
  <2> QED BY <2>1, <2>2
<1>2. CASE Learns(c)
  <2> DEFINE batch == Batch(crawler[c].titles)
             learnt == {<<p, Len(wiki[p])>> : p \in {q \in batch : Exists(q)}}
             known == crawler[c].known \cup learnt
             left  == crawler[c].titles \ batch
             s == IF left # {} THEN [crawler[c] EXCEPT !.titles = left, !.known = known]
                  ELSE IF known = {} THEN NoCycle
                  ELSE [NoCycle EXCEPT !.step = "page", !.known = known]
  <2>1. Goes(c, s) /\ crawler[c].step = "learn"
    BY <1>2 DEF Learns
  <2>2. crawler[c] \in CycleState
    BY DEF WikiTypeOK
  <2>3. batch \subseteq Pages
    BY <2>2 DEF Batch
  <2>4. learnt \subseteq Pages \X Nat
    BY <2>3 DEF WikiTypeOK
  <2>5. \A k \in learnt : IsLatest(k)
    BY DEF Exists, IsLatest
  <2> HIDE DEF batch, learnt
  <2>6. s \in CycleState /\ s.step \in {"idle", "learn", "page"} /\ s.known \subseteq known
    BY <2>1, <2>2, <2>4
  <2>7. \A k \in s.known : k \in crawler[c].known \/ IsLatest(k)
    BY <2>5, <2>6
  <2> HIDE DEF s
  <2> QED BY <2>1, <2>6, <2>7
<1> QED BY <1>1, <1>2

-----------------------------------------------------------------------------
(* Types                                                                   *)

\* What a page's chunks become when they are written over.
LEMMA OverwritesFacts ==
  ASSUME WikiTypeOK, NEW p \in Pages, NEW claim \in Nat, NEW text \in 1..Len(wiki[p]),
         Overwrites(p, claim, text)
  PROVE  /\ store' \in [Pages -> Seq(Chunk)]
         /\ \A q \in Pages \ {p} : store'[q] = store[q]
         /\ \A i \in DOMAIN store'[p] :
              \/ store'[p][i] = [claim |-> claim, text |-> text]
              \/ i \in DOMAIN store[p] /\ store'[p][i] = store[p][i]
         /\ store[p] = <<>> =>
              /\ Len(store'[p]) = wiki[p][text].chunks
              /\ \A i \in DOMAIN store'[p] :
                   store'[p][i] = [claim |-> claim, text |-> text]
<1> DEFINE n == wiki[p][text].chunks
           new == [i \in 1..(IF Len(store[p]) > n THEN Len(store[p]) ELSE n) |->
                     IF i <= n THEN [claim |-> claim, text |-> text] ELSE store[p][i]]
<1>1. store[p] \in Seq(Chunk) /\ wiki[p] \in Seq(Version)
  BY DEF WikiTypeOK
<1>2. text \in Nat /\ wiki[p][text] \in Version
  BY <1>1
<1>3. n \in Nat
  BY <1>2, WikiAssumption DEF Version, WikiAssumption
<1>4. [claim |-> claim, text |-> text] \in Chunk
  BY <1>2 DEF Chunk
<1>5. store' = [store EXCEPT ![p] = new]
  BY DEF Overwrites
<1> HIDE DEF n
<1>6. Len(store[p]) \in Nat /\ \A i \in 1..Len(store[p]) : store[p][i] \in Chunk
  BY <1>1
<1>7. /\ new \in Seq(Chunk)
      /\ Len(new) = IF Len(store[p]) > n THEN Len(store[p]) ELSE n
      /\ \A i \in 1..Len(new) :
           new[i] = IF i <= n THEN [claim |-> claim, text |-> text] ELSE store[p][i]
  BY <1>3, <1>4, <1>6
<1> HIDE DEF new
<1>8. store'[p] = new
  BY <1>5 DEF WikiTypeOK
<1>9. \A i \in DOMAIN new :
        \/ new[i] = [claim |-> claim, text |-> text]
        \/ i \in DOMAIN store[p] /\ new[i] = store[p][i]
  BY <1>1, <1>3, <1>7
<1>10. store[p] = <<>> =>
         Len(new) = n /\ \A i \in DOMAIN new : new[i] = [claim |-> claim, text |-> text]
  BY <1>3, <1>7
<1> QED BY <1>5, <1>7, <1>8, <1>9, <1>10 DEF WikiTypeOK, n

LEMMA WikiTypeStep ==
  ASSUME WikiAssumption, WikiInv, [WikiNext]_wikiVars
  PROVE  WikiTypeOK'
<1>0. WikiTypeOK
  BY DEF WikiInv
<1>1. ASSUME NEW p \in Pages, Edited(p) PROVE WikiTypeOK'
  BY <1>0, <1>1 DEF Edited, WikiTypeOK
<1>2. ASSUME NEW c \in Crawlers, Lists(c) \/ Learns(c) PROVE WikiTypeOK'
  BY <1>0, <1>2, BatchesType, CyclesType DEF Lists, Learns, WikiTypeOK
<1>3. ASSUME NEW c \in Crawlers, NEW p \in Pages, Purges(c, p) \/ Skips(c, p)
      PROVE  WikiTypeOK'
  <2>1. crawler' \in [Crawlers -> CycleState]
    BY <1>0, <1>3, PassedType, CyclesType DEF Purges, Skips
  <2>2. store' = store \/ store' = [store EXCEPT ![p] = <<>>]
    BY <1>3 DEF Purges, Skips
  <2>3. torn' = torn \/ torn' = torn \ {p}
    BY <1>3 DEF Purges, Skips
  <2>4. UNCHANGED wiki
    BY <1>3 DEF Purges, Skips
  <2>5. store' \in [Pages -> Seq(Chunk)]
    <3>1. <<>> \in Seq(Chunk)
      OBVIOUS
    <3> QED BY <1>0, <2>2, <3>1 DEF WikiTypeOK
  <2>6. torn' \in SUBSET Pages
    BY <1>0, <2>3 DEF WikiTypeOK
  <2> QED BY <1>0, <2>1, <2>4, <2>5, <2>6 DEF WikiTypeOK
<1>4. ASSUME NEW c \in Crawlers, NEW p \in Pages, Wants(c, p) \/ Fetches(c, p)
      PROVE  WikiTypeOK'
  <2>1. crawler[c] \in CycleState /\ Len(wiki[p]) \in Nat
    BY <1>0 DEF WikiTypeOK
  <2>2. /\ [crawler[c] EXCEPT !.step = "fetch"] \in CycleState
        /\ [crawler[c] EXCEPT !.step = "delete", !.text = Len(wiki[p])] \in CycleState
    BY <2>1 DEF CycleState
  <2>3. crawler' \in [Crawlers -> CycleState]
    BY <1>0, <1>4, <2>2, PassedType, CyclesType DEF Wants, Fetches
  <2> QED BY <1>0, <1>4, <2>3 DEF Wants, Fetches, WikiTypeOK
<1>5. ASSUME NEW c \in Crawlers, NEW p \in Pages, Deletes(c, p) PROVE WikiTypeOK'
  <2>1. crawler[c] \in CycleState
    BY <1>0 DEF WikiTypeOK
  <2>2. [crawler[c] EXCEPT !.step = "upsert"] \in CycleState
    BY <2>1 DEF CycleState
  <2>3. crawler' \in [Crawlers -> CycleState]
    BY <1>0, <1>5, <2>2, CyclesType DEF Deletes
  <2>4. store' \in [Pages -> Seq(Chunk)] /\ torn' \subseteq Pages
    BY <1>0, <1>5 DEF Deletes, WikiTypeOK
  <2> QED BY <1>0, <1>5, <2>3, <2>4 DEF Deletes, WikiTypeOK
<1>6. ASSUME NEW c \in Crawlers, NEW p \in Pages, Upserts(c, p) PROVE WikiTypeOK'
  <2>1. Rev(c, p) \in Nat /\ crawler[c].text \in 1..Len(wiki[p])
    BY <1>6, RevIsKnown DEF Upserts, WikiInv, WikiTypeOK, CycleState, Informed
  <2>2. store' \in [Pages -> Seq(Chunk)]
    BY <1>0, <1>6, <2>1, OverwritesFacts DEF Upserts
  <2>3. crawler' \in [Crawlers -> CycleState]
    BY <1>0, <1>6, PassedType, CyclesType DEF Upserts
  <2> QED BY <1>0, <1>6, <2>2, <2>3 DEF Upserts, WikiTypeOK
<1>7. ASSUME NEW c \in Crawlers, Fails(c) \/ Stops(c) PROVE WikiTypeOK'
  <2>1. crawler' \in [Crawlers -> CycleState]
    BY <1>0, <1>7, PassedType, NoCycleType, CyclesType DEF Fails, Stops
  <2> QED BY <1>0, <1>7, <2>1 DEF Fails, Stops, WikiTypeOK
<1>8. CASE UNCHANGED wikiVars
  BY <1>0, <1>8 DEF wikiVars, WikiTypeOK
<1> QED BY <1>1, <1>2, <1>3, <1>4, <1>5, <1>6, <1>7, <1>8 DEF WikiNext, Cycle, Page

-----------------------------------------------------------------------------
(* Text is never older than its revision                                   *)

\* A cycle that has stayed where it was, or passed on, is informed as before.
LEMMA StaysInformed ==
  ASSUME WikiInv, [WikiNext]_wikiVars, NEW c \in Crawlers,
         \/ crawler'[c] = crawler[c]
         \/ /\ crawler'[c].step \notin {"delete", "upsert"}
            /\ crawler'[c].known \subseteq crawler[c].known
  PROVE  Informed(c)'
<1>1. crawler[c] \in CycleState /\ Informed(c)
  BY DEF WikiInv, WikiTypeOK
<1>2. ASSUME NEW p \in Pages PROVE \A i \in 1..Len(wiki[p]) : i \in 1..Len(wiki'[p])
  BY WikiGrows DEF WikiInv
<1>3. crawler'[c].known \subseteq crawler[c].known
  OBVIOUS
<1>4. \A k \in crawler'[c].known : k[2] \in 1..Len(wiki'[k[1]])
  BY <1>1, <1>2, <1>3 DEF Informed, CycleState
<1>5. ASSUME crawler'[c] = crawler[c], crawler[c].step \in {"delete", "upsert"},
             NEW p \in Pages, At(c, p)'
      PROVE  crawler'[c].text \in 1..Len(wiki'[p]) /\ crawler'[c].text >= Rev(c, p)'
  <2>1. At(c, p) /\ Rev(c, p)' = Rev(c, p)
    BY <1>5, AsBefore
  <2> QED BY <1>1, <1>2, <1>5, <2>1 DEF Informed
<1> QED BY <1>4, <1>5 DEF Informed

LEMMA InformedStep ==
  ASSUME WikiAssumption, WikiInv, [WikiNext]_wikiVars, NEW d \in Crawlers
  PROVE  Informed(d)'
<1>0. /\ WikiTypeOK /\ WikiTypeOK'
      /\ crawler[d] \in CycleState /\ Informed(d)
  BY WikiTypeStep DEF WikiInv, WikiTypeOK
<1>1. CASE crawler'[d] = crawler[d]
  BY <1>1, StaysInformed
<1>2. CASE Lists(d) \/ Learns(d)
  <2>1. PICK s \in CycleState :
          /\ Goes(d, s)
          /\ s.step \in {"idle", "learn", "page"}
          /\ \A k \in s.known : k \in crawler[d].known \/ IsLatest(k)
    BY <1>0, <1>2, BatchesType
  <2>2. crawler'[d] = s /\ wiki' = wiki
    BY <1>0, <1>2, <2>1, CyclesType DEF Lists, Learns
  <2>3. ASSUME NEW k \in s.known PROVE k[2] \in 1..Len(wiki[k[1]])
    <3>1. k[1] \in Pages
      BY DEF CycleState
    <3>2. wiki[k[1]] \in Seq(Version)
      BY <1>0, <3>1 DEF WikiTypeOK
    <3> QED BY <1>0, <2>1, <3>2 DEF Informed, IsLatest
  <2> QED BY <2>1, <2>2, <2>3 DEF Informed
<1>3. ASSUME NEW p \in Pages, Goes(d, Passed(d, p)) PROVE Informed(d)'
  <2>1. crawler'[d] = Passed(d, p)
    BY <1>0, <1>3, PassedType, CyclesType
  <2> QED BY <2>1, PassedOn, StaysInformed
<1>4. ASSUME NEW p \in Pages, Wants(d, p) PROVE Informed(d)'
  <2>1. /\ crawler'[d].step = "fetch"
        /\ crawler'[d].known = crawler[d].known
    BY <1>0, <1>4 DEF Wants, Goes, WikiTypeOK, CycleState
  <2> QED BY <2>1, StaysInformed
<1>5. ASSUME NEW p \in Pages, Fetches(d, p), ~ Goes(d, Passed(d, p)) PROVE Informed(d)'
  <2>1. Goes(d, [crawler[d] EXCEPT !.step = "delete", !.text = Len(wiki[p])]) /\ At(d, p)
    BY <1>5 DEF Fetches
  <2>2. /\ crawler'[d].known = crawler[d].known
        /\ crawler'[d].text = Len(wiki[p])
    BY <1>0, <2>1 DEF Goes, WikiTypeOK, CycleState
  <2>4. wiki' = wiki
    BY <1>5 DEF Fetches
  <2>5. ASSUME NEW q \in Pages, At(d, q)'
        PROVE  crawler'[d].text \in 1..Len(wiki'[q]) /\ crawler'[d].text >= Rev(d, q)'
    <3>1. At(d, q) /\ Rev(d, q)' = Rev(d, q)
      BY <2>2, <2>5, AsBefore
    <3>2. q = p
      BY <2>1, <3>1, AtOnePage
    <3>3. Rev(d, p) \in 1..Len(wiki[p])
      BY <1>0, <2>1, RevIsKnown DEF Informed
    <3>4. Len(wiki[p]) \in Nat
      BY <1>0 DEF WikiTypeOK
    <3> QED BY <2>2, <2>4, <3>1, <3>2, <3>3, <3>4
  <2> QED BY <1>0, <2>2, <2>4, <2>5 DEF Informed
<1>6. ASSUME NEW p \in Pages, Deletes(d, p) PROVE Informed(d)'
  <2>1. /\ crawler'[d].known = crawler[d].known
        /\ crawler'[d].text = crawler[d].text
        /\ crawler[d].step = "delete"
        /\ wiki' = wiki
    BY <1>0, <1>6 DEF Deletes, Goes, WikiTypeOK, CycleState
  <2>2. ASSUME NEW q \in Pages, At(d, q)'
        PROVE  crawler'[d].text \in 1..Len(wiki'[q]) /\ crawler'[d].text >= Rev(d, q)'
    <3>1. At(d, q) /\ Rev(d, q)' = Rev(d, q)
      BY <2>1, <2>2, AsBefore
    <3> QED BY <1>0, <2>1, <3>1 DEF Informed
  <2> QED BY <1>0, <2>1, <2>2 DEF Informed
<1>7. ASSUME Goes(d, NoCycle) PROVE Informed(d)'
  <2>1. crawler'[d] = NoCycle
    BY <1>0, <1>7, NoCycleType, CyclesType
  <2> QED BY <2>1 DEF NoCycle, Informed
<1>8. ASSUME NEW c \in Crawlers, c # d, Cycle(c) \/ Fails(c) \/ Stops(c)
      PROVE  crawler'[d] = crawler[d]
  <2>1. PICK s : Goes(c, s)
    BY <1>8, CyclesGo
  <2> QED BY <1>0, <1>8, <2>1 DEF Goes, WikiTypeOK
<1>9. ASSUME NEW p \in Pages, Page(d, p) PROVE Informed(d)'
  BY <1>3, <1>4, <1>5, <1>6, <1>9 DEF Page, Purges, Skips, Upserts
<1>10. CASE Fails(d) \/ Stops(d)
  BY <1>3, <1>7, <1>10 DEF Fails, Stops
<1>11. ASSUME NEW p \in Pages, Edited(p) PROVE crawler'[d] = crawler[d]
  BY <1>11 DEF Edited
<1>12. CASE UNCHANGED wikiVars
  BY <1>1, <1>12 DEF wikiVars
<1> QED BY <1>1, <1>2, <1>8, <1>9, <1>10, <1>11, <1>12 DEF WikiNext, Cycle

\* Chunks that are as they were, or of a text not older than what they claim.
LEMMA FoundedStep ==
  ASSUME WikiAssumption, WikiInv, [WikiNext]_wikiVars, NEW p \in Pages
  PROVE  Founded(p)'
<1>0. /\ WikiTypeOK
      /\ Founded(p)
  BY DEF WikiInv
<1>1. \A i \in 1..Len(wiki[p]) : i \in 1..Len(wiki'[p])
  BY <1>0, WikiGrows
<1>2. CASE store'[p] = store[p]
  BY <1>0, <1>1, <1>2 DEF Founded
<1>3. CASE store'[p] = <<>>
  BY <1>3 DEF Founded
<1>4. ASSUME NEW c \in Crawlers, NEW q \in Pages, Upserts(c, q) PROVE Founded(p)'
  <2> DEFINE new == [claim |-> Rev(c, q), text |-> crawler[c].text]
  <2>1. At(c, q) /\ Informed(c) /\ crawler[c].step = "upsert"
    BY <1>4 DEF Upserts, WikiInv
  <2>2. crawler[c].text \in 1..Len(wiki[q]) /\ crawler[c].text >= Rev(c, q)
    BY <2>1 DEF Informed
  <2>3. Rev(c, q) \in Nat
    BY <1>0, <2>1, RevIsKnown DEF WikiTypeOK, CycleState
  <2>4. /\ q # p => store'[p] = store[p]
        /\ q = p => \A i \in DOMAIN store'[p] :
                      \/ store'[p][i] = new
                      \/ i \in DOMAIN store[p] /\ store'[p][i] = store[p][i]
    BY <1>0, <1>4, <2>2, <2>3, OverwritesFacts DEF Upserts
  <2>5. CASE q = p
    BY <1>0, <1>1, <2>2, <2>4, <2>5 DEF Founded
  <2> QED BY <1>2, <2>4, <2>5
<1>5. ASSUME NEW c \in Crawlers, NEW q \in Pages, Purges(c, q) \/ Deletes(c, q)
      PROVE  store'[p] = <<>> \/ store'[p] = store[p]
  BY <1>0, <1>5 DEF Purges, Deletes, WikiTypeOK
<1>6. ASSUME store' # store
      PROVE  \E c \in Crawlers, q \in Pages : Purges(c, q) \/ Deletes(c, q) \/ Upserts(c, q)
  BY <1>6 DEF WikiNext, wikiVars, Cycle, Page, Edited, Lists, Learns, Skips, Wants, Fetches,
              Fails, Stops
<1> QED BY <1>2, <1>3, <1>4, <1>5, <1>6

-----------------------------------------------------------------------------
(* Pages are whole                                                         *)


\* A step of the cycle c adds no replacement of p but its own, by Deletes.
LEMMA ReplacingStep ==
  ASSUME WikiAssumption, WikiInv, [WikiNext]_wikiVars,
         NEW c \in Crawlers, Cycle(c) \/ Fails(c) \/ Stops(c), NEW p \in Pages
  PROVE  /\ \A d \in Replacing(p)' : d = c \/ d \in Replacing(p)
         /\ c \in Replacing(p)' => Deletes(c, p)
<1>0. WikiTypeOK /\ WikiTypeOK'
  BY WikiTypeStep DEF WikiInv
<1>1. PICK s : Goes(c, s)
  BY CyclesGo
<1>2. \A d \in Crawlers \ {c} : crawler'[d] = crawler[d]
  BY <1>0, <1>1 DEF Goes, WikiTypeOK
<1>3. ASSUME NEW d \in Replacing(p)', d # c PROVE d \in Replacing(p)
  <2>1. d \in Crawlers /\ crawler'[d] = crawler[d] /\ At(d, p)' /\ crawler'[d].step = "upsert"
    BY <1>2, <1>3 DEF Replacing
  <2> QED BY <2>1, AsBefore DEF Replacing
<1>4. ASSUME crawler'[c].step = "upsert", At(c, p)' PROVE Deletes(c, p)
  <2>1. ASSUME NEW q, Goes(c, Passed(c, q)) PROVE FALSE
    BY <1>0, <1>4, <2>1, PassedType, CyclesType, PassedOn
  <2>2. ~ Goes(c, NoCycle)
    BY <1>0, <1>4, NoCycleType, CyclesType DEF NoCycle
  <2>3. ~ (Lists(c) \/ Learns(c))
    BY <1>0, <1>4, BatchesType, CyclesType
  <2>4. ASSUME NEW q \in Pages, Wants(c, q) \/ Fetches(c, q) PROVE FALSE
    <3>1. CASE Goes(c, [crawler[c] EXCEPT !.step = "fetch"])
      BY <1>0, <1>4, <3>1 DEF Goes, WikiTypeOK, CycleState
    <3>2. CASE Goes(c, [crawler[c] EXCEPT !.step = "delete", !.text = Len(wiki[q])])
      BY <1>0, <1>4, <3>2 DEF Goes, WikiTypeOK, CycleState
    <3> QED BY <2>1, <2>4, <3>1, <3>2 DEF Wants, Fetches
  <2>5. PICK q \in Pages : Deletes(c, q)
    BY <2>1, <2>2, <2>3, <2>4 DEF Cycle, Page, Fails, Stops, Purges, Skips, Upserts
  <2>6. crawler'[c].known = crawler[c].known
    BY <1>0, <2>5 DEF Deletes, Goes, WikiTypeOK, CycleState
  <2>7. At(c, p) /\ At(c, q)
    BY <1>4, <2>5, <2>6, AsBefore DEF Deletes
  <2> QED BY <2>5, <2>7, AtOnePage
<1> QED BY <1>3, <1>4 DEF Replacing

\* What else happens to a page in such a step.
LEMMA PageStep ==
  ASSUME WikiTypeOK, NEW c \in Crawlers, Cycle(c) \/ Fails(c) \/ Stops(c), NEW p \in Pages
  PROVE  /\ wiki' = wiki
         /\ \/ store'[p] = store[p]
            \/ store'[p] = <<>> /\ (Purges(c, p) \/ Deletes(c, p))
            \/ Upserts(c, p)
         /\ p \notin torn' =>
              \/ p \notin torn
              \/ Purges(c, p) /\ \A d, e \in Replacing(p) : d = e
              \/ Deletes(c, p) /\ Replacing(p) = {}
<1>1. CASE UNCHANGED <<wiki, store, torn>>
  BY <1>1
<1>2. ASSUME NEW q \in Pages, Purges(c, q)
      PROVE  /\ wiki' = wiki
             /\ store' = [store EXCEPT ![q] = <<>>]
             /\ \/ torn' = torn
                \/ torn' = torn \ {q} /\ \A d, e \in Replacing(q) : d = e
  BY <1>2 DEF Purges
<1>3. ASSUME NEW q \in Pages, Deletes(c, q)
      PROVE  /\ wiki' = wiki
             /\ store' = [store EXCEPT ![q] = <<>>]
             /\ \/ torn' = torn \cup {q}
                \/ torn' = torn \ {q} /\ Replacing(q) = {}
  BY <1>3 DEF Deletes
<1>4. ASSUME NEW q \in Pages, Upserts(c, q)
      PROVE  /\ wiki' = wiki /\ torn' = torn
             /\ p # q => store'[p] = store[p]
  BY <1>4 DEF Upserts, Overwrites, WikiTypeOK
<1>5. \/ UNCHANGED <<wiki, store, torn>>
      \/ \E q \in Pages : Purges(c, q) \/ Deletes(c, q) \/ Upserts(c, q)
  BY DEF Cycle, Page, Lists, Learns, Skips, Wants, Fetches, Fails, Stops
<1>6. ASSUME NEW q \in Pages, Purges(c, q) \/ Deletes(c, q)
      PROVE  store'[p] = IF p = q THEN <<>> ELSE store[p]
  BY <1>2, <1>3, <1>6 DEF WikiTypeOK
<1> QED BY <1>1, <1>2, <1>3, <1>4, <1>5, <1>6

LEMMA AloneStep ==
  ASSUME WikiAssumption, WikiInv, [WikiNext]_wikiVars, NEW p \in Pages
  PROVE  Alone(p)'
<1>0. WikiTypeOK /\ Alone(p)
  BY DEF WikiInv
<1>1. ASSUME NEW c \in Crawlers, Cycle(c) \/ Fails(c) \/ Stops(c) PROVE Alone(p)'
  <2>1. /\ \A d \in Replacing(p)' : d = c \/ d \in Replacing(p)
        /\ c \in Replacing(p)' => Deletes(c, p)
    BY <1>1, ReplacingStep
  <2>2. SUFFICES ASSUME p \notin torn'
                 PROVE  /\ \A d, e \in Replacing(p)' : d = e
                        /\ Replacing(p)' # {} => store'[p] = <<>>
    BY DEF Alone
  <2>3. \/ store'[p] = store[p]
        \/ store'[p] = <<>>
        \/ Upserts(c, p)
    BY <1>0, <1>1, PageStep
  <2>4. \/ p \notin torn
        \/ Purges(c, p) /\ \A d, e \in Replacing(p) : d = e
        \/ Deletes(c, p) /\ Replacing(p) = {}
    BY <1>0, <1>1, <2>2, PageStep
  <2>5. CASE Deletes(c, p)
    <3>1. Replacing(p) = {}
      BY <2>2, <2>5 DEF Deletes
    <3>2. store'[p] = <<>>
      BY <1>0, <2>5 DEF Deletes, WikiTypeOK
    <3> QED BY <2>1, <3>1, <3>2
  <2>6. CASE ~ Deletes(c, p)
    <3>1. Replacing(p)' \subseteq Replacing(p) \ {c}
      BY <2>1, <2>6
    <3>2. \A d, e \in Replacing(p) : d = e
      BY <1>0, <2>4, <2>6 DEF Alone
    <3>3. Purges(c, p) => store'[p] = <<>>
      BY <1>0 DEF Purges, WikiTypeOK
    <3>4. Upserts(c, p) => Replacing(p)' = {}
      BY <3>1, <3>2 DEF Upserts, Replacing
    <3> QED BY <1>0, <2>3, <2>4, <2>6, <3>1, <3>2, <3>3, <3>4 DEF Alone
  <2> QED BY <2>5, <2>6
<1>2. CASE UNCHANGED <<store, crawler, torn>>
  BY <1>0, <1>2 DEF Alone, Replacing, At
<1> QED BY <1>1, <1>2 DEF WikiNext, wikiVars, Edited

\* Chunks are written where there are none, all of one text: nothing is left of
\* another.
LEMMA WholeStep ==
  ASSUME WikiAssumption, WikiInv, [WikiNext]_wikiVars, NEW p \in Pages, p \notin torn'
  PROVE  Whole(p)'
<1>0. WikiTypeOK /\ Alone(p) /\ Founded(p) /\ (p \notin torn => Whole(p))
  BY DEF WikiInv
<1>1. ASSUME store'[p] = store[p], p \notin torn PROVE Whole(p)'
  <2>1. store[p] \in Seq(Chunk)
    BY <1>0 DEF WikiTypeOK
  <2>2. store[p] # <<>> => store[p][1].text \in 1..Len(wiki[p])
    BY <1>0, <2>1 DEF Founded
  <2> QED BY <1>0, <1>1, <2>2, WikiGrows DEF Whole
<1>2. CASE store'[p] = <<>>
  BY <1>2 DEF Whole
<1>3. ASSUME NEW c \in Crawlers, Upserts(c, p) PROVE Whole(p)'
  <2>1. p \notin torn /\ wiki' = wiki
    BY <1>3 DEF Upserts
  <2>2. store[p] = <<>>
    BY <1>0, <1>3, <2>1 DEF Upserts, Alone, Replacing
  <2>3. Informed(c) /\ At(c, p) /\ crawler[c].step = "upsert"
    BY <1>3 DEF WikiInv, Upserts
  <2>4. crawler[c].text \in 1..Len(wiki[p])
    BY <2>3 DEF Informed
  <2>5. Rev(c, p) \in Nat
    BY <1>0, <2>3, RevIsKnown DEF WikiTypeOK, CycleState
  <2>6. Overwrites(p, Rev(c, p), crawler[c].text)
    BY <1>3 DEF Upserts
  <2>7. /\ store'[p] \in Seq(Chunk)
        /\ Len(store'[p]) = wiki[p][crawler[c].text].chunks
        /\ \A i \in DOMAIN store'[p] :
             store'[p][i] = [claim |-> Rev(c, p), text |-> crawler[c].text]
    <3>1. store' \in [Pages -> Seq(Chunk)]
      BY <1>0, <2>4, <2>5, <2>6, OverwritesFacts
    <3>2. /\ Len(store'[p]) = wiki[p][crawler[c].text].chunks
          /\ \A i \in DOMAIN store'[p] :
               store'[p][i] = [claim |-> Rev(c, p), text |-> crawler[c].text]
      <4> QED BY <1>0, <2>2, <2>4, <2>5, <2>6, OverwritesFacts
    <3> QED BY <3>1, <3>2
  <2> QED BY <2>1, <2>7 DEF Whole
<1>4. ASSUME NEW c \in Crawlers, Cycle(c) \/ Fails(c) \/ Stops(c) PROVE Whole(p)'
  <2>1. \/ store'[p] = store[p] /\ p \notin torn
        \/ store'[p] = <<>>
        \/ Upserts(c, p)
    BY <1>0, <1>4, PageStep DEF Purges, Deletes, WikiTypeOK
  <2> QED BY <1>1, <1>2, <1>3, <2>1
<1>5. CASE UNCHANGED <<store, torn>>
  BY <1>1, <1>5
<1> QED BY <1>4, <1>5 DEF WikiNext, wikiVars, Edited

LEMMA WikiInvariant == WikiSpec => []WikiInv
<1>1. WikiInit => WikiInv
  BY WikiAssumption
  DEF WikiInit, WikiInv, WikiTypeOK, Informed, Founded, Alone, Whole, Replacing, At,
      NoCycle, CycleState
<1>2. WikiInv /\ [WikiNext]_wikiVars => WikiInv'
  BY WikiAssumption, WikiTypeStep, InformedStep, FoundedStep, AloneStep, WholeStep
  DEF WikiInv
<1> QED BY <1>1, <1>2, PTL DEF WikiSpec

\* Every variable keeps its type.
THEOREM WikiTypeCorrect == WikiSpec => []WikiTypeOK
<1>1. WikiInv => WikiTypeOK
  BY DEF WikiInv
<1> QED BY <1>1, WikiInvariant, PTL

\* Text is never older than the revision it is stored with, for any pages, edits,
\* failures and cycles, in batches of any size (replace_page).
THEOREM TextIsNotOlder == WikiSpec => []TextNotOlder
<1>1. WikiInv => TextNotOlder
  BY DEF WikiInv, Founded, TextNotOlder
<1> QED BY <1>1, WikiInvariant, PTL

\* Save where replacements overlapped, a page's chunks are all those of one text.
THEOREM StoredWhole == WikiSpec => []PagesAreWhole
<1>1. WikiInv => PagesAreWhole
  BY DEF WikiInv, Whole, PagesAreWhole
<1> QED BY <1>1, WikiInvariant, PTL

=============================================================================
