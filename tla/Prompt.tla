-------------------------------- MODULE Prompt --------------------------------
(***************************************************************************)
(* One call of the language model for one line of an NPC:                  *)
(* orchestrator/llm_client.py.  The context is cut to fit the slot's       *)
(* tokens, one item at a time; the completion is read as a spoken line     *)
(* with tags before, behind or around it.                                  *)
(*                                                                         *)
(* A completion is a sequence of tokens: a word, a line break, or a tag.   *)
(* "guide" is ACTION: OFFER_GUIDE, "action" any other ACTION with its      *)
(* word; "open" is THREAD: OPEN, "thread" any other THREAD; "tone" is TONE *)
(* with its word; "target" and "summary" are the bare GUIDE_TARGET: and    *)
(* THREAD_SUMMARY:, whose value is free text; "stray" is any other word in *)
(* capitals with a colon.                                                  *)
(***************************************************************************)
EXTENDS Naturals, Sequences, FiniteSets

CONSTANTS
  Sizes,         \* what an item takes of the budget
  FixedSizes,    \* what the template and the utterance take
  BlankSize,     \* what "(nothing notable)" takes in place of an empty list
  Budget,        \* _PROMPT_TOKEN_BUDGET
  Caps,          \* most items of facts, memories and wiki of a stranger
  CompanionCaps, \* and of a companion (MAX_FACTS_COMPANION, ...)
  MaxItems,      \* items found for each list (a bound on the inputs)
  MaxTokens      \* tokens of a completion (a bound on the inputs)

ASSUME PromptAssumption ==
  /\ Sizes \subseteq Nat /\ FixedSizes \subseteq Nat
  /\ {BlankSize, Budget, MaxItems, MaxTokens} \subseteq Nat
  /\ Caps \in Seq(Nat) /\ CompanionCaps \in Seq(Nat)
  /\ Len(Caps) = 3 /\ Len(CompanionCaps) = 3

VARIABLES
  stage,     \* trimming, fitted, asked, answered, failed
  fixed,     \* the size of what is not trimmed
  offered,   \* history: the three lists before trimming
  lists,     \* facts_list, memories_list, wiki_list
  raw,       \* the completion
  result     \* the DialogueResult, of tokens given by their places in raw

promptVars == <<stage, fixed, offered, lists, raw, result>>

Lists == 1..3

UpTo(S, n) == UNION {[1..m -> S] : m \in 0..n}

-----------------------------------------------------------------------------
(* build_dialogue_messages *)

Total(items) ==
  LET sum[n \in 0..Len(items)] == IF n = 0 THEN 0 ELSE sum[n - 1] + items[n]
  IN  sum[Len(items)]

Rendered(ls) ==
  LET size(k) == IF ls[k] = <<>> THEN BlankSize ELSE Total(ls[k])
  IN  fixed + size(1) + size(2) + size(3)

Capped(items, n) == SubSeq(items, 1, IF Len(items) < n THEN Len(items) ELSE n)

NoLists == [k \in Lists |-> <<>>]
NoResult == [text |-> <<>>, target |-> <<>>, summary |-> <<>>, action |-> "none"]

PromptInit ==
  /\ \E found \in [Lists -> UpTo(Sizes, MaxItems)], caps \in {Caps, CompanionCaps} :
       offered = [k \in Lists |-> Capped(found[k], caps[k])]
  /\ fixed \in FixedSizes
  /\ lists = offered
  /\ stage = "trimming"
  /\ raw = <<>>
  /\ result = NoResult

\* Mutant: the first list that has an item.
FirstNonEmpty == CHOOSE k \in Lists :
  lists[k] # <<>> /\ \A j \in 1..(k - 1) : lists[j] = <<>>

\* max(..., key=len), which prefers the first of equals.
Longest == CHOOSE k \in Lists :
  /\ \A j \in Lists : Len(lists[j]) <= Len(lists[k])
  /\ \A j \in 1..(k - 1) : Len(lists[j]) < Len(lists[k])

TooLong == Rendered(lists) > Budget /\ lists # NoLists

Trim ==
  /\ stage = "trimming"
  /\ TooLong
  /\ lists' = [lists EXCEPT ![Longest] = SubSeq(@, 1, Len(@) - 1)]
  /\ UNCHANGED <<stage, fixed, offered, raw, result>>

Fits ==
  /\ stage = "trimming"
  /\ ~TooLong
  /\ stage' = "fitted"
  /\ UNCHANGED <<fixed, offered, lists, raw, result>>

\* complete posts the messages; what was in them is of no more interest.
Asks ==
  /\ stage = "fitted"
  /\ stage' = "asked"
  /\ offered' = NoLists
  /\ lists' = NoLists
  /\ UNCHANGED <<fixed, raw, result>>

\* The server refuses or does not answer: complete raises.
Fails ==
  /\ stage = "asked"
  /\ stage' = "failed"
  /\ UNCHANGED <<fixed, offered, lists, raw, result>>

-----------------------------------------------------------------------------
(* _parse_dialogue_response *)

Tags == {"guide", "action", "tone", "open", "thread", "target", "summary", "stray"}
Tokens == Tags \cup {"word", "break"}

\* The completion is stripped of white space at its ends.
Completions ==
  {c \in UpTo(Tokens, MaxTokens) :
     c # <<>> => c[1] # "break" /\ c[Len(c)] # "break"}

Places(c, kinds) == {i \in DOMAIN c : c[i] \in kinds}
Least(S) == CHOOSE i \in S : \A j \in S : i <= j
Most(S) == CHOOSE i \in S : \A j \in S : j <= i

\* Where the first match of a tag with one word for its value begins and ends:
\* at most one span.
Tagged(c, kinds) ==
  {[from |-> i, to |-> i] : i \in {j \in Places(c, kinds) :
                                     \A k \in Places(c, kinds) : j <= k}}

\* The value of a free-text tag at i: from the next token that is no line break,
\* up to the next tag, line break or end behind that.
ValueFrom(c, i) == {j \in (i + 1)..Len(c) :
                      c[j] # "break" /\ \A k \in (i + 1)..(j - 1) : c[k] = "break"}
ValueTo(c, j) == CHOOSE k \in j..Len(c) :
  /\ \A m \in (j + 1)..k : c[m] = "word"
  /\ k = Len(c) \/ c[k + 1] # "word"

FreeText(c, kind) ==
  LET tags  == {i \in Places(c, {kind}) : ValueFrom(c, i) # {}}
      first == {i \in tags : \A k \in tags : i <= k}
  IN  UNION {{[from |-> i, to |-> ValueTo(c, j), value |-> j] : j \in ValueFrom(c, i)}
               : i \in first}

ValueOf(spans) == IF spans = {} THEN <<>>
                  ELSE LET s == CHOOSE x \in spans : TRUE IN <<s.value, s.to>>

\* The words from place i up to place j, as <<i, j>> without the line breaks at
\* its ends; none if there is nothing else.
Stripped(c, i, j) ==
  LET rest == {k \in i..j : c[k] # "break"}
  IN  IF rest = {} THEN <<>> ELSE <<Least(rest), Most(rest)>>

\* Mutant: a tag that comes a second time is not looked for.
Untouched(c, span) == span

\* _strip_tag_region: up to the first tag of any shape.
StripTagRegion(c, span) ==
  IF span = <<>> THEN <<>>
  ELSE LET tags == {k \in span[1]..span[2] : c[k] \in Tags}
       IN  IF tags = {} THEN span ELSE Stripped(c, span[1], Least(tags) - 1)

\* Mutant: what follows the tags is never looked at.
ParseBefore(c) ==
  LET tags == Places(c, Tags)
  IN  [NoResult EXCEPT !.text =
         StripTagRegion(c, Stripped(c, 1, IF tags = {} THEN Len(c) ELSE Least(tags) - 1))]

Parse(c) ==
  LET first   == Tagged(c, {"guide", "action"})
      thread  == Tagged(c, {"open", "thread"})
      guide   == \E s \in first : c[s.from] = "guide"
      opens   == \E s \in thread : c[s.from] = "open"
      target  == IF guide THEN FreeText(c, "target") ELSE {}
      summary == IF opens THEN FreeText(c, "summary") ELSE {}
      spans   == first \cup target \cup Tagged(c, {"tone"}) \cup thread
                   \cup summary \cup Tagged(c, Tags)
      start   == IF spans = {} THEN Len(c) + 1 ELSE Least({s.from : s \in spans})
      end     == IF spans = {} THEN 0 ELSE Most({s.to : s \in spans})
      before  == Stripped(c, 1, start - 1)
      after   == Stripped(c, end + 1, Len(c))
  IN  [text    |-> StripTagRegion(c, IF before # <<>> THEN before ELSE after),
       target  |-> ValueOf(target),
       summary |-> ValueOf(summary),
       action  |-> IF first = {} THEN "none" ELSE IF guide THEN "guide" ELSE "action"]

Answers ==
  /\ stage = "asked"
  /\ raw' \in Completions
  /\ result' = Parse(raw')
  /\ stage' = "answered"
  /\ UNCHANGED <<fixed, offered, lists>>

PromptNext == Trim \/ Fits \/ Asks \/ Fails \/ Answers

PromptSpec == PromptInit /\ [][PromptNext]_promptVars

-----------------------------------------------------------------------------
(* Properties *)

Words(span) == IF span = <<>> THEN {} ELSE span[1]..span[2]

\* "none of them monopolizes the budget while the others go empty"
\* (llm_client.py:384-385), and "the oldest/least-relevant entries" go first
\* (338-339): when the loop ends the prompt fits or no item is left; each list
\* is the beginning of what was offered; a list that was cut is at most one item
\* shorter than any other; and one item more would have been one too many.
TrimmedFairly ==
  stage = "fitted" =>
    LET cut == {k \in Lists : lists[k] # offered[k]}
    IN  /\ Rendered(lists) <= Budget \/ lists = NoLists
        /\ \A k \in Lists : lists[k] = SubSeq(offered[k], 1, Len(lists[k]))
        /\ \A k \in cut, j \in Lists : Len(lists[j]) <= Len(lists[k]) + 1
        /\ cut # {} => \E k \in cut :
             Rendered([lists EXCEPT ![k] = SubSeq(offered[k], 1, Len(@) + 1)]) > Budget

\* A tag never reaches the player's screen, wherever and however often the
\* model puts it (llm_client.py:429-434, 443-457).
NoTagSpoken ==
  stage = "answered" => \A i \in Words(result.text) : raw[i] \notin Tags

\* A completion as the prompt asks for: each tag at most once, a free-text tag
\* only where it is due and with its value on its line, nothing in capitals else.
WellTagged(c) ==
  /\ \A k \in Tags : Cardinality(Places(c, {k})) <= 1
  /\ Cardinality(Places(c, {"guide", "action"})) <= 1
  /\ Cardinality(Places(c, {"open", "thread"})) <= 1
  /\ Places(c, {"stray"}) = {}
  /\ \A i \in Places(c, {"target", "summary"}) : i < Len(c) /\ c[i + 1] = "word"
  /\ Places(c, {"target"}) # {} => Places(c, {"guide"}) # {}
  /\ Places(c, {"summary"}) # {} => Places(c, {"open"}) # {}

\* The words before the first tag, or those after the last with its value.
Line(c) ==
  LET tags == Places(c, Tags)
      last == Most(tags)
      skip == IF c[last] \in {"target", "summary"} THEN ValueTo(c, last + 1) ELSE last
  IN  IF tags = {} THEN Stripped(c, 1, Len(c))
      ELSE IF Stripped(c, 1, Least(tags) - 1) # <<>>
      THEN Stripped(c, 1, Least(tags) - 1)
      ELSE Stripped(c, skip + 1, Len(c))

\* "the whole real sentence silently discarded", or rambling shown "as if it
\* were dialogue" (llm_client.py:478-504), is past: of a completion with the
\* tags asked for, in any order and on any side, the line and nothing but the
\* line is spoken, and place and topic are not taken from it.
LineIsSpoken ==
  stage = "answered" /\ WellTagged(raw) =>
    LET before == Words(Line(raw))
    IN  /\ result.text = Line(raw)
        /\ Words(result.target) \cap before = {}
        /\ Words(result.summary) \cap before = {}
=============================================================================
