-------------------------------- MODULE Threads --------------------------------
(***************************************************************************)
(* The unresolved topics of one NPC with one player:                       *)
(* orchestrator/threads.py, a query a step.                                *)
(*                                                                         *)
(* A turn asks get_open_thread for a hint while it builds its context, and *)
(* spawns open_thread or resolve_thread when the model says so; these run  *)
(* beside the player's later turns.  No operation uses a transaction.      *)
(***************************************************************************)
EXTENDS Naturals, Sequences, FiniteSets

CONSTANTS
  Tasks,         \* operations running at the same time
  Topics,        \* summaries, each opened once (a bound on a behaviour)
  MaxMentions    \* MAX_MENTIONS (3 in threads.py)

ASSUME ThreadsAssumption ==
  /\ IsFiniteSet(Tasks)
  /\ IsFiniteSet(Topics)
  /\ MaxMentions \in Nat

VARIABLES
  rows,     \* the pair's rows of conversation_threads
  op,       \* what each task has read, and the query it does next
  raised,   \* topics opened so far; their number stands for the time
  hinted    \* history: how often each topic was given as a hint

vars == <<rows, op, raised, hinted>>

Open == {i \in DOMAIN rows : rows[i].status = "open"}

\* ORDER BY opened_at ASC LIMIT 1
Oldest == {i \in Open : \A j \in Open : rows[i].opened <= rows[j].opened}

Idle == [step |-> "idle"]

Init ==
  /\ rows = <<>>
  /\ op = [t \in Tasks |-> Idle]
  /\ raised = {}
  /\ hinted = [s \in Topics |-> 0]

Does(t, query) == op' = [op EXCEPT ![t] = query]

-----------------------------------------------------------------------------
(* open_thread *)

\* Mutant: whether a thread is open already is not looked at.
OpenThreadBlindly(t, s) ==
  /\ op[t] = Idle
  /\ s \notin raised
  /\ raised' = raised \cup {s}
  /\ Does(t, [step |-> "insert", summary |-> s, opened |-> Cardinality(raised)])
  /\ UNCHANGED <<rows, hinted>>

\* SELECT an open row (any, if there are several); opened_at is taken here.
OpenThread(t, s) ==
  /\ op[t] = Idle
  /\ s \notin raised
  /\ raised' = raised \cup {s}
  /\ IF Open = {}
     THEN Does(t, [step |-> "insert", summary |-> s, opened |-> Cardinality(raised)])
     ELSE \E i \in Open : Does(t, [step |-> "replace", summary |-> s, row |-> i])
  /\ UNCHANGED <<rows, hinted>>

\* UPDATE ... SET summary WHERE id: nothing else of the row changes.
Replace(t) ==
  /\ op[t].step = "replace"
  /\ rows' = [rows EXCEPT ![op[t].row].summary = op[t].summary]
  /\ Does(t, Idle)
  /\ UNCHANGED <<raised, hinted>>

Insert(t) ==
  /\ op[t].step = "insert"
  /\ rows' = Append(rows, [summary |-> op[t].summary, status |-> "open",
                           opened |-> op[t].opened, mentioned |-> 0,
                           recent |-> FALSE])
  /\ Does(t, Idle)
  /\ UNCHANGED <<raised, hinted>>

-----------------------------------------------------------------------------
(* resolve_thread: one UPDATE of every open row *)

ResolveThread(t) ==
  /\ op[t] = Idle
  /\ rows' = [i \in DOMAIN rows |->
                IF i \in Open THEN [rows[i] EXCEPT !.status = "resolved"]
                              ELSE rows[i]]
  /\ UNCHANGED <<op, raised, hinted>>

-----------------------------------------------------------------------------
(* get_open_thread.  It changes nothing if no row is open, or the oldest   *)
(* was mentioned within the cooldown.                                      *)

\* Mutant: one mention too many before the row is stale.
GetOpenThreadOnceMore(t) ==
  /\ op[t] = Idle
  /\ \E i \in Oldest :
       \/ /\ rows[i].mentioned > MaxMentions
          /\ Does(t, [step |-> "retire", row |-> i])
       \/ /\ rows[i].mentioned <= MaxMentions
          /\ ~rows[i].recent
          /\ Does(t, [step |-> "mention", row |-> i, summary |-> rows[i].summary])
  /\ UNCHANGED <<rows, raised, hinted>>

GetOpenThread(t) ==
  /\ op[t] = Idle
  /\ \E i \in Oldest :
       \/ /\ rows[i].mentioned >= MaxMentions
          /\ Does(t, [step |-> "retire", row |-> i])
       \/ /\ rows[i].mentioned < MaxMentions
          /\ ~rows[i].recent
          /\ Does(t, [step |-> "mention", row |-> i, summary |-> rows[i].summary])
  /\ UNCHANGED <<rows, raised, hinted>>

Retire(t) ==
  /\ op[t].step = "retire"
  /\ rows' = [rows EXCEPT ![op[t].row].status = "stale"]
  /\ Does(t, Idle)
  /\ UNCHANGED <<raised, hinted>>

\* The hint given is the summary read before.
Mention(t) ==
  /\ op[t].step = "mention"
  /\ rows' = [rows EXCEPT ![op[t].row].mentioned = @ + 1,
                          ![op[t].row].recent = TRUE]
  /\ hinted' = [hinted EXCEPT ![op[t].summary] = @ + 1]
  /\ Does(t, Idle)
  /\ UNCHANGED raised

-----------------------------------------------------------------------------
\* MENTION_COOLDOWN_S have passed since the row was last mentioned.
CooldownPasses(i) ==
  /\ rows[i].recent
  /\ rows' = [rows EXCEPT ![i].recent = FALSE]
  /\ UNCHANGED <<op, raised, hinted>>

\* A query raises: the task, or the turn, ends there.
QueryFails(t) ==
  /\ op[t] # Idle
  /\ Does(t, Idle)
  /\ UNCHANGED <<rows, raised, hinted>>

Task(t) ==
  \/ \E s \in Topics : OpenThread(t, s)
  \/ Replace(t) \/ Insert(t)
  \/ ResolveThread(t)
  \/ GetOpenThread(t) \/ Retire(t) \/ Mention(t)
  \/ QueryFails(t)

Next ==
  \/ \E t \in Tasks : Task(t)
  \/ \E i \in DOMAIN rows : CooldownPasses(i)

Spec == Init /\ [][Next]_vars

-----------------------------------------------------------------------------
(* Properties *)

Row == [summary : Topics, status : {"open", "resolved", "stale"}, opened : Nat,
        mentioned : Nat, recent : BOOLEAN]

Query ==
  {Idle}
    \cup [step : {"insert"}, summary : Topics, opened : Nat]
    \cup [step : {"replace", "mention"}, summary : Topics, row : DOMAIN rows]
    \cup [step : {"retire"}, row : DOMAIN rows]

\* Every variable keeps its type; what a task has read of a row stays a row.
TypeOK ==
  /\ rows \in Seq(Row)
  /\ op \in [Tasks -> Query]
  /\ raised \subseteq Topics
  /\ hinted \in [Topics -> Nat]

\* "One open thread per (npc_id, player_id) at a time" (threads.py:50) is true
\* of operations one after the other; of concurrent ones, which may all find no
\* row, there are never more open threads than operations run at a time, and
\* these do not pile up.
OpenBounded == Cardinality(Open) <= Cardinality(Tasks)

\* A thread is mentioned MAX_MENTIONS times (threads.py:21), and beyond that
\* only by the turns that read its count together.
MentionsBounded ==
  \A i \in DOMAIN rows : rows[i].mentioned < MaxMentions + Cardinality(Tasks)

\* A thread goes stale when it has "already been surfaced MAX_MENTIONS times"
\* and "the player isn't engaging with it" (threads.py:81-84).  Does not hold:
\* a topic that replaces another's summary inherits its count, and goes stale
\* without having been mentioned once.
StaleWasHinted ==
  \A i \in DOMAIN rows :
    rows[i].status = "stale" => hinted[rows[i].summary] >= MaxMentions
=============================================================================
