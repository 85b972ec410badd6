----------------------------- MODULE LineProofs ------------------------------
(***************************************************************************)
(* What holds of the two ways an NPC comes by a line: the language model's *)
(* reply (Prompt), for any context, budget and completion, and a skill the *)
(* model wrote (Skills), for any number of versions, runs and restarts.    *)
(*                                                                         *)
(* Numbers come first.  The library's induction theorems are of operators; *)
(* the well-founded order of the naturals gives every set of them a least  *)
(* element, which serves instead: for the recursive sum of the budget, and *)
(* for the first and the last place of a completion.                       *)
(***************************************************************************)
EXTENDS Prompt, Skills, FiniteSetTheorems, SequenceTheorems,
        WellFoundedInduction, TLAPS

-----------------------------------------------------------------------------
(* Numbers *)

Less == {ss \in Nat \X Nat : ss[1] < ss[2]}

LEMMA LessWellFounded == IsWellFoundedOn(Less, Nat)
BY NatLessThanWellFounded, Zenon DEF OpToRel, Less

\* Every set of naturals that is not empty has a least element.
LEMMA LeastExists ==
  ASSUME NEW S \in SUBSET Nat, S # {}
  PROVE  \E m \in S : \A k \in S : m <= k
<1>1. PICK m \in S : \A k \in S : ~ (<<k, m>> \in Less)
  BY LessWellFounded, WFMin
<1>2. ASSUME NEW k \in S PROVE m <= k
  <2>1. <<k, m>> \notin Less
    BY <1>1
  <2>2. k \in Nat /\ m \in Nat
    OBVIOUS
  <2>3. ~ (k < m)
    BY <2>1, <2>2 DEF Less
  <2> QED BY <2>2, <2>3
<1> QED BY <1>2

\* One that is bounded has a greatest.
LEMMA GreatestExists ==
  ASSUME NEW S \in SUBSET Nat, S # {}, NEW n \in Nat, \A k \in S : k <= n
  PROVE  \E m \in S : \A k \in S : k <= m
<1> DEFINE T == {n - k : k \in S}
<1>1. T \in SUBSET Nat /\ T # {}
  <2>1. \A k \in S : n - k \in Nat
    OBVIOUS
  <2> QED BY <2>1
<1> HIDE DEF T
<1>2. PICK t \in T : \A u \in T : t <= u
  BY <1>1, LeastExists
<1>3. PICK m \in S : t = n - m
  BY DEF T
<1>4. ASSUME NEW k \in S PROVE k <= m
  <2>1. n - k \in T
    BY DEF T
  <2> QED BY <1>2, <1>3, <2>1
<1> QED BY <1>4

\* A set that has 0, and with a number the next, has all of them.
LEMMA SetInduction ==
  ASSUME NEW S, 0 \in S, \A k \in Nat : k \in S => k + 1 \in S
  PROVE  Nat \subseteq S
<1>1. SUFFICES ASSUME Nat \ S # {} PROVE FALSE
  OBVIOUS
<1>2. PICK m \in Nat \ S : \A k \in Nat \ S : m <= k
  BY <1>1, LeastExists
<1>3. m - 1 \in Nat
  BY <1>2
<1>4. m - 1 \in S
  BY <1>2, <1>3
<1> QED BY <1>2, <1>3, <1>4

-----------------------------------------------------------------------------
(* The budget *)

\* The sums of the beginnings of a list exist, and are natural numbers.
LEMMA SumsExist ==
  ASSUME NEW items \in Seq(Nat)
  PROVE  \E f \in [0..Len(items) -> Nat] :
           f = [n \in 0..Len(items) |-> IF n = 0 THEN 0 ELSE f[n - 1] + items[n]]
<1> DEFINE Sums(f, n) == /\ f \in [0..n -> Nat]
                         /\ f[0] = 0
                         /\ \A m \in 1..n : f[m] = f[m - 1] + items[m]
           S == {n \in Nat : n <= Len(items) => \E f : Sums(f, n)}
<1>1. Len(items) \in Nat /\ \A m \in 1..Len(items) : items[m] \in Nat
  OBVIOUS
<1>2. 0 \in S
  <2>1. Sums([m \in 0..0 |-> 0], 0)
    OBVIOUS
  <2> QED BY <2>1
<1>3. ASSUME NEW n \in Nat, n \in S PROVE n + 1 \in S
  <2>1. SUFFICES ASSUME n + 1 <= Len(items) PROVE n + 1 \in S
    <3>1. n + 1 \in Nat
      OBVIOUS
    <3> QED BY <3>1
  <2>2. PICK f : Sums(f, n)
    BY <1>1, <1>3, <2>1
  <2> DEFINE g == [m \in 0..(n + 1) |-> IF m = n + 1 THEN f[n] + items[n + 1] ELSE f[m]]
  <2>3. f[n] \in Nat /\ items[n + 1] \in Nat
    BY <1>1, <2>1, <2>2
  <2>4. g \in [0..(n + 1) -> Nat] /\ g[0] = 0
    BY <2>2, <2>3
  <2>5. ASSUME NEW m \in 1..(n + 1) PROVE g[m] = g[m - 1] + items[m]
    BY <2>2
  <2>6. Sums(g, n + 1)
    BY <2>4, <2>5
  <2> HIDE DEF g, Sums
  <2>7. n + 1 \in Nat /\ \E h : Sums(h, n + 1)
    BY <2>6
  <2> QED BY <2>7
<1> HIDE DEF S
<1>4. Len(items) \in S
  BY <1>1, <1>2, <1>3, SetInduction
<1>5. PICK f : Sums(f, Len(items))
  BY <1>4 DEF S
<1>6. f = [n \in 0..Len(items) |-> IF n = 0 THEN 0 ELSE f[n - 1] + items[n]]
  BY <1>1, <1>5
<1> QED BY <1>5, <1>6

\* The size of a list is a natural number.
LEMMA TotalIsNat ==
  ASSUME NEW items \in Seq(Nat)
  PROVE  Total(items) \in Nat
<1> DEFINE IsSum(f) == f = [n \in 0..Len(items) |-> IF n = 0 THEN 0 ELSE f[n - 1] + items[n]]
           sum == CHOOSE f : IsSum(f)
<1>1. Len(items) \in Nat /\ \A m \in 1..Len(items) : items[m] \in Nat
  OBVIOUS
<1>2. IsSum(sum)
  <2>1. \E f : IsSum(f)
    BY SumsExist
  <2> QED BY <2>1
<1>3. Total(items) = sum[Len(items)]
  BY DEF Total
<1> HIDE DEF sum
<1>4. sum[0] = 0 /\ \A n \in 1..Len(items) : sum[n] = sum[n - 1] + items[n]
  BY <1>1, <1>2
<1> DEFINE S == {n \in Nat : n <= Len(items) => sum[n] \in Nat}
<1>5. 0 \in S
  BY <1>4
<1>6. ASSUME NEW n \in Nat, n \in S PROVE n + 1 \in S
  BY <1>1, <1>4, <1>6
<1> HIDE DEF S
<1>7. Len(items) \in S
  BY <1>1, <1>5, <1>6, SetInduction
<1> QED BY <1>1, <1>3, <1>7 DEF S

-----------------------------------------------------------------------------
(* The cut of the lists                                                    *)

ListsOf(S) == [Lists -> Seq(S)]

\* The prompt has a size.
LEMMA RenderedIsNat ==
  ASSUME PromptAssumption, fixed \in Nat, NEW ls \in ListsOf(Nat)
  PROVE  Rendered(ls) \in Nat
<1> DEFINE size(k) == IF ls[k] = <<>> THEN BlankSize ELSE Total(ls[k])
<1>1. ASSUME NEW k \in Lists PROVE size(k) \in Nat
  BY TotalIsNat DEF PromptAssumption, ListsOf
<1>2. size(1) \in Nat /\ size(2) \in Nat /\ size(3) \in Nat
  BY <1>1 DEF Lists
<1>3. Rendered(ls) = fixed + size(1) + size(2) + size(3)
  BY DEF Rendered
<1> HIDE DEF size
<1> QED BY <1>2, <1>3

\* The beginnings of a list.
LEMMA BeginningIs ==
  ASSUME NEW S, NEW s \in Seq(S), NEW m \in 0..Len(s)
  PROVE  /\ SubSeq(s, 1, m) \in Seq(S)
         /\ Len(SubSeq(s, 1, m)) = m
         /\ \A i \in 1..m : SubSeq(s, 1, m)[i] = s[i]
<1>1. \A i \in 1..m : s[i] \in S
  OBVIOUS
<1>2. m \in Nat /\ m \in Int /\ 1 \in Int /\ m - 1 + 1 = m
  OBVIOUS
<1>3. /\ SubSeq(s, 1, m) \in Seq(S)
      /\ Len(SubSeq(s, 1, m)) = IF 1 <= m THEN m - 1 + 1 ELSE 0
      /\ \A i \in 1..(m - 1 + 1) : SubSeq(s, 1, m)[i] = s[1 + i - 1]
  BY <1>1, <1>2, SubSeqProperties
<1>4. Len(SubSeq(s, 1, m)) = m
  BY <1>2, <1>3
<1>5. ASSUME NEW i \in 1..m PROVE SubSeq(s, 1, m)[i] = s[i]
  <2>1. i \in 1..(m - 1 + 1) /\ 1 + i - 1 = i
    BY <1>2
  <2> QED BY <1>3, <2>1
<1> QED BY <1>3, <1>4, <1>5

\* A list cut twice is a list cut once.
LEMMA BeginningOfBeginning ==
  ASSUME NEW S, NEW s \in Seq(S), NEW m \in 0..Len(s), NEW j \in 0..m
  PROVE  SubSeq(SubSeq(s, 1, m), 1, j) = SubSeq(s, 1, j)
<1> DEFINE t == SubSeq(s, 1, m)
           a == SubSeq(t, 1, j)
           b == SubSeq(s, 1, j)
<1>1. t \in Seq(S) /\ Len(t) = m /\ \A i \in 1..m : t[i] = s[i]
  BY BeginningIs
<1>2. j \in 0..Len(t) /\ j \in 0..Len(s) /\ m \in Nat /\ \A i \in 1..j : i \in 1..m
  BY <1>1
<1>3. b \in Seq(S) /\ Len(b) = j /\ \A i \in 1..j : b[i] = s[i]
  BY <1>2, BeginningIs
<1> HIDE DEF t
<1>4. a \in Seq(S) /\ Len(a) = j /\ \A i \in 1..j : a[i] = t[i]
  BY <1>1, <1>2, BeginningIs
<1> HIDE DEF a, b
<1>5. a = b
  BY <1>1, <1>2, <1>3, <1>4, SeqEqual
<1> QED BY <1>5 DEF a, b, t

\* Some list is the longest, and none before it is as long.
LEMMA LongestIs ==
  ASSUME lists \in ListsOf(Nat)
  PROVE  /\ Longest \in Lists
         /\ \A j \in Lists : Len(lists[j]) <= Len(lists[Longest])
<1> DEFINE IsLongest(k) == /\ \A j \in Lists : Len(lists[j]) <= Len(lists[k])
                           /\ \A j \in 1..(k - 1) : Len(lists[j]) < Len(lists[k])
<1>1. Lists = {1, 2, 3}
  BY DEF Lists
<1>2. \A k \in Lists : Len(lists[k]) \in Nat
  BY DEF ListsOf
<1>3. \E k \in Lists : IsLongest(k)
  BY <1>1, <1>2
<1>4. Longest \in Lists /\ IsLongest(Longest)
  BY <1>3 DEF Longest
<1> QED BY <1>4

Cutting == stage \in {"trimming", "fitted"}

\* The sizes of items, and of what is not trimmed, are natural numbers.
ListsTyped ==
  /\ fixed \in Nat
  /\ offered \in ListsOf(Nat)
  /\ lists \in ListsOf(Nat)

Cut == {k \in Lists : lists[k] # offered[k]}

\* While the lists are cut, all that TrimmedFairly says of them when they fit.
CutInv ==
  Cutting =>
    /\ \A k \in Lists : /\ Len(lists[k]) <= Len(offered[k])
                        /\ lists[k] = SubSeq(offered[k], 1, Len(lists[k]))
    /\ \A k \in Cut, j \in Lists : Len(lists[j]) <= Len(lists[k]) + 1
    /\ Cut # {} => \E k \in Cut :
         Rendered([lists EXCEPT ![k] = SubSeq(offered[k], 1, Len(@) + 1)]) > Budget
    /\ stage = "fitted" => ~ TooLong

\* An iteration of the loop of build_dialogue_messages takes an item from a list
\* that is as long as any: it is then no more than one shorter, and with the item
\* the prompt was too long.
LEMMA TrimStep ==
  ASSUME PromptAssumption, ListsTyped, CutInv, Trim
  PROVE  ListsTyped' /\ CutInv'
<1>l. PICK l \in Lists : l = Longest
  BY LongestIs DEF ListsTyped
<1>n. PICK n \in Nat : n = Len(lists[l])
  BY DEF ListsTyped, ListsOf
<1>1. /\ l \in Lists
      /\ \A j \in Lists : Len(lists[j]) <= n
      /\ \A j \in Lists : Len(lists[j]) \in Nat /\ lists[j] \in Seq(Nat) /\ offered[j] \in Seq(Nat)
  BY <1>l, <1>n, LongestIs DEF ListsTyped, ListsOf
<1>2. /\ stage' = "trimming" /\ UNCHANGED <<fixed, offered>> /\ stage = "trimming"
      /\ lists' = [lists EXCEPT ![l] = SubSeq(lists[l], 1, n - 1)]
      /\ TooLong
  BY <1>l, <1>n DEF Trim
<1>3. n > 0 /\ n \in Nat /\ n - 1 \in Nat /\ n - 1 <= n
  <2>1. PICK j \in Lists : lists[j] # <<>>
    BY <1>2 DEF TooLong, NoLists, ListsTyped, ListsOf
  <2>2. n > 0 /\ n \in Nat
    BY <1>1, <1>n, <2>1
  <2> QED BY <2>2
<1>4. /\ lists'[l] = SubSeq(lists[l], 1, n - 1)
      /\ lists'[l] \in Seq(Nat) /\ Len(lists'[l]) = n - 1
      /\ \A j \in Lists \ {l} : lists'[j] = lists[j]
  <2>1. n - 1 \in 0..Len(lists[l]) /\ lists[l] \in Seq(Nat)
    BY <1>1, <1>3, <1>n
  <2>2. SubSeq(lists[l], 1, n - 1) \in Seq(Nat) /\ Len(SubSeq(lists[l], 1, n - 1)) = n - 1
    BY <2>1, BeginningIs
  <2>3. lists'[l] = SubSeq(lists[l], 1, n - 1) /\ \A j \in Lists \ {l} : lists'[j] = lists[j]
    BY <1>1, <1>2 DEF ListsTyped, ListsOf
  <2> QED BY <2>2, <2>3
<1>5. ListsTyped'
  BY <1>1, <1>2, <1>4 DEF ListsTyped, ListsOf
<1>6. /\ n <= Len(offered[l])
      /\ lists[l] = SubSeq(offered[l], 1, n)
  BY <1>1, <1>2, <1>n DEF CutInv, Cutting
<1>7. lists'[l] = SubSeq(offered[l], 1, n - 1)
  <2>1. n \in 0..Len(offered[l]) /\ n - 1 \in 0..n /\ offered[l] \in Seq(Nat)
    BY <1>1, <1>3, <1>6
  <2>2. SubSeq(SubSeq(offered[l], 1, n), 1, n - 1) = SubSeq(offered[l], 1, n - 1)
    BY <2>1, BeginningOfBeginning
  <2> QED BY <1>4, <1>6, <2>2
<1>8. /\ \A j \in Lists \ {l} : Len(lists'[j]) = Len(lists[j])
      /\ \A j \in Lists : Len(lists'[j]) \in Nat /\ Len(lists'[j]) <= Len(lists[j])
      /\ Len(lists'[l]) = n - 1 /\ \A j \in Lists : Len(lists[j]) <= n
  <2>1. \A j \in Lists \ {l} : Len(lists'[j]) = Len(lists[j])
    BY <1>4
  <2>2. Len(lists'[l]) \in Nat /\ Len(lists'[l]) <= Len(lists[l])
    BY <1>3, <1>4, <1>n
  <2>3. ASSUME NEW j \in Lists
        PROVE  Len(lists'[j]) \in Nat /\ Len(lists'[j]) <= Len(lists[j])
    <3>1. CASE j = l
      BY <2>2, <3>1
    <3>2. CASE j # l
      <4>1. Len(lists'[j]) = Len(lists[j]) /\ Len(lists[j]) \in Nat
        BY <1>1, <2>1, <3>2
      <4> QED BY <4>1
    <3> QED BY <3>1, <3>2
  <2>4. \A j \in Lists : Len(lists[j]) <= n
    BY <1>1
  <2> QED BY <1>4, <2>1, <2>3, <2>4
<1>9. ASSUME NEW k \in Lists
      PROVE  Len(lists'[k]) <= Len(offered'[k]) /\ lists'[k] = SubSeq(offered'[k], 1, Len(lists'[k]))
  <2>1. CASE k = l
    <3>1. Len(offered[l]) \in Nat
      BY <1>1
    <3> QED BY <1>2, <1>3, <1>4, <1>6, <1>7, <2>1, <3>1
  <2>2. CASE k # l
    <3>1. Len(lists[k]) <= Len(offered[k]) /\ lists[k] = SubSeq(offered[k], 1, Len(lists[k]))
      BY <1>2 DEF CutInv, Cutting
    <3>2. lists'[k] = lists[k]
      BY <1>4, <2>2
    <3> QED BY <1>2, <3>1, <3>2
  <2> QED BY <2>1, <2>2
<1>10. Cut' = Cut \cup {l}
  <2>1. lists'[l] # offered[l]
    <3>1. Len(offered[l]) \in Nat
      BY <1>1
    <3> QED BY <1>3, <1>4, <1>6, <3>1
  <2> QED BY <1>1, <1>2, <1>4, <2>1 DEF Cut
<1>11. ASSUME NEW k \in Cut', NEW j \in Lists PROVE Len(lists'[j]) <= Len(lists'[k]) + 1
  <2>1. k \in Lists
    BY DEF Cut
  <2>2. CASE k = l
    <3>1. Len(lists'[j]) \in Nat /\ Len(lists[j]) \in Nat /\ Len(lists'[j]) <= Len(lists[j])
          /\ Len(lists[j]) <= n /\ Len(lists'[k]) = n - 1
      BY <1>1, <1>8, <2>2
    <3> QED BY <1>3, <3>1
  <2>3. CASE k # l
    <3>1. Len(lists[j]) <= Len(lists[k]) + 1 /\ Len(lists'[k]) = Len(lists[k])
      BY <1>2, <1>8, <1>10, <2>1, <2>3 DEF CutInv, Cutting
    <3>2. /\ Len(lists'[j]) \in Nat /\ Len(lists'[j]) <= Len(lists[j])
          /\ Len(lists[j]) \in Nat /\ Len(lists[k]) \in Nat
      BY <1>1, <1>8, <2>1
    <3> QED BY <3>1, <3>2
  <2> QED BY <2>2, <2>3
<1>12. [lists' EXCEPT ![l] = SubSeq(offered'[l], 1, Len(lists'[l]) + 1)] = lists
  <2>1. SubSeq(offered[l], 1, Len(lists'[l]) + 1) = lists[l]
    <3>1. Len(lists'[l]) + 1 = n
      BY <1>3, <1>4
    <3> QED BY <1>6, <3>1
  <2>2. SubSeq(offered'[l], 1, Len(lists'[l]) + 1) = lists[l]
    BY <1>2, <2>1
  <2>3. lists' \in [Lists -> Seq(Nat)] /\ lists \in [Lists -> Seq(Nat)]
    BY <1>5 DEF ListsTyped, ListsOf
  <2> QED BY <1>1, <1>4, <2>2, <2>3
<1>13. Rendered([lists EXCEPT ![l] = SubSeq(offered[l], 1, Len(lists[l]) + 1)])' > Budget
  BY <1>2, <1>12 DEF TooLong, Rendered
<1> QED BY <1>2, <1>5, <1>9, <1>10, <1>11, <1>13 DEF CutInv, Cutting

-----------------------------------------------------------------------------
(* A completion and its parts *)

LEMMA LeastIs ==
  ASSUME NEW S \in SUBSET Nat, S # {}
  PROVE  Least(S) \in S /\ \A j \in S : Least(S) <= j
<1>1. \E i \in S : \A j \in S : i <= j
  BY LeastExists
<1> QED BY <1>1 DEF Least

LEMMA MostIs ==
  ASSUME NEW S \in SUBSET Nat, S # {}, NEW n \in Nat, \A j \in S : j <= n
  PROVE  Most(S) \in S /\ \A j \in S : j <= Most(S)
<1>1. \E i \in S : \A j \in S : j <= i
  BY GreatestExists
<1> QED BY <1>1 DEF Most

\* A set of at most one place has all its places equal.
LEMMA AtMostOne ==
  ASSUME NEW n \in Nat, NEW S \in SUBSET (1..n), Cardinality(S) <= 1,
         NEW x \in S, NEW y \in S
  PROVE  x = y
<1>1. SUFFICES ASSUME x # y PROVE FALSE
  OBVIOUS
<1>2. IsFiniteSet(S) /\ Cardinality(S) \in Nat
  <2>1. 1 \in Int /\ n \in Int
    OBVIOUS
  <2>2. IsFiniteSet(1..n)
    BY <2>1, FS_Interval
  <2>3. IsFiniteSet(S)
    BY <2>2, FS_Subset
  <2> QED BY <2>3, FS_CardinalityType
<1>3. IsFiniteSet({x}) /\ Cardinality({x}) = 1
  BY FS_Singleton
<1>4. IsFiniteSet({x} \cup {y}) /\ Cardinality({x} \cup {y}) = 2
  <2>1. y \notin {x}
    BY <1>1
  <2>2. /\ IsFiniteSet({x} \cup {y})
        /\ Cardinality({x} \cup {y}) = IF y \in {x} THEN Cardinality({x}) ELSE Cardinality({x}) + 1
    BY <1>3, FS_AddElement
  <2> QED BY <1>3, <2>1, <2>2
<1>5. {x} \cup {y} \subseteq S
  OBVIOUS
<1>6. Cardinality({x} \cup {y}) <= Cardinality(S)
  BY <1>2, <1>5, FS_Subset
<1> QED BY <1>2, <1>4, <1>6

LEMMA PlacesAre ==
  ASSUME NEW c \in Seq(Tokens), NEW kinds
  PROVE  /\ Len(c) \in Nat
         /\ Places(c, kinds) = {i \in 1..Len(c) : c[i] \in kinds}
         /\ Places(c, kinds) \subseteq 1..Len(c)
         /\ Places(c, kinds) \subseteq Nat
BY DEF Places

\* The words of a stripped stretch lie within it.
LEMMA StrippedIs ==
  ASSUME NEW c \in Seq(Tokens), NEW i \in Nat, NEW j \in Nat,
         Stripped(c, i, j) # <<>>
  PROVE  \E a, b \in i..j : a <= b /\ Stripped(c, i, j) = <<a, b>>
<1> DEFINE rest == {k \in i..j : c[k] # "break"}
<1>1. rest # {} /\ Stripped(c, i, j) = <<Least(rest), Most(rest)>>
  BY DEF Stripped
<1>2. rest \in SUBSET Nat /\ rest \subseteq i..j /\ \A k \in rest : k <= j
  OBVIOUS
<1> HIDE DEF rest
<1>3. Least(rest) \in rest /\ \A k \in rest : Least(rest) <= k
  BY <1>1, <1>2, LeastIs
<1>4. Most(rest) \in rest
  BY <1>1, <1>2, MostIs
<1> QED BY <1>1, <1>2, <1>3, <1>4

LEMMA StrippedWords ==
  ASSUME NEW c \in Seq(Tokens), NEW i \in Nat, NEW j \in Nat
  PROVE  Words(Stripped(c, i, j)) \subseteq i..j
<1>1. CASE Stripped(c, i, j) = <<>>
  BY <1>1 DEF Words
<1>2. CASE Stripped(c, i, j) # <<>>
  <2>1. PICK a, b \in i..j : a <= b /\ Stripped(c, i, j) = <<a, b>>
    BY <1>2, StrippedIs
  <2>2. Words(<<a, b>>) = a..b
    BY DEF Words
  <2>3. a..b \subseteq i..j
    BY <2>1
  <2> QED BY <2>1, <2>2, <2>3
<1> QED BY <1>1, <1>2

\* _strip_tag_region leaves no tag, and what had none as it was.
LEMMA RegionHasNoTag ==
  ASSUME NEW c \in Seq(Tokens), NEW i \in Nat, NEW j \in Nat
  PROVE  /\ \A k \in Words(StripTagRegion(c, Stripped(c, i, j))) : c[k] \notin Tags
         /\ (\A k \in i..j : c[k] \notin Tags)
              => StripTagRegion(c, Stripped(c, i, j)) = Stripped(c, i, j)
<1> DEFINE span == Stripped(c, i, j)
<1>1. CASE span = <<>>
  <2>1. StripTagRegion(c, span) = span
    BY <1>1 DEF StripTagRegion
  <2>2. Words(span) = {}
    BY <1>1 DEF Words
  <2> HIDE DEF span
  <2>3. \A k \in Words(StripTagRegion(c, span)) : c[k] \notin Tags
    BY <2>1, <2>2
  <2> QED BY <2>1, <2>3 DEF span
<1>2. CASE span # <<>>
  <2>1. PICK a, b \in i..j : a <= b /\ span = <<a, b>>
    BY <1>2, StrippedIs
  <2> HIDE DEF span
  <2> DEFINE tags == {k \in a..b : c[k] \in Tags}
  <2>2. a \in Nat /\ b \in Nat /\ tags \in SUBSET Nat /\ a..b \subseteq i..j
    BY <2>1
  <2>3. StripTagRegion(c, span) = IF tags = {} THEN span ELSE Stripped(c, a, Least(tags) - 1)
    BY <1>2, <2>1 DEF StripTagRegion
  <2>4. Words(span) = a..b
    BY <1>2, <2>1 DEF Words
  <2>5. CASE tags = {}
    <3>1. StripTagRegion(c, span) = span
      BY <2>3, <2>5
    <3>2. \A k \in a..b : c[k] \notin Tags
      BY <2>5
    <3>3. \A k \in Words(StripTagRegion(c, span)) : c[k] \notin Tags
      BY <2>4, <3>1, <3>2
    <3> QED BY <3>1, <3>3 DEF span
  <2>6. CASE tags # {}
    <3>1. Least(tags) \in tags /\ \A k \in tags : Least(tags) <= k
      BY <2>2, <2>6, LeastIs
    <3> DEFINE t == Least(tags)
    <3>2. t \in a..b /\ t \in i..j /\ c[t] \in Tags
      BY <2>2, <3>1
    <3>3. \A k \in a..(t - 1) : c[k] \notin Tags
      <4>1. t \in Nat
        BY <2>2, <3>2
      <4>2. ASSUME NEW k \in a..(t - 1), c[k] \in Tags PROVE FALSE
        <5>1. k \in a..b /\ ~ (t <= k)
          BY <2>2, <3>2, <4>1
        <5> QED BY <3>1, <4>2, <5>1
      <4> QED BY <4>2
    <3>4. StripTagRegion(c, span) = Stripped(c, a, t - 1)
      BY <2>3, <2>6
    <3> HIDE DEF t
    <3>5. t - 1 \in Nat \/ (t = 0 /\ a = 0)
      BY <2>2, <3>2
    <3>6. CASE t - 1 \in Nat
      <4>1. Words(Stripped(c, a, t - 1)) \subseteq a..(t - 1)
        BY <2>2, <3>6, StrippedWords
      <4>2. \A k \in Words(StripTagRegion(c, span)) : c[k] \notin Tags
        BY <3>3, <3>4, <4>1
      <4> QED BY <3>2, <4>2 DEF span
    <3>7. CASE t = 0 /\ a = 0
      <4>1. Stripped(c, a, t - 1) = <<>>
        BY <3>7 DEF Stripped
      <4>2. Words(StripTagRegion(c, span)) = {}
        BY <3>4, <4>1 DEF Words
      <4> QED BY <3>2, <4>2 DEF span
    <3> QED BY <3>5, <3>6, <3>7
  <2> QED BY <2>5, <2>6
<1> QED BY <1>1, <1>2

\* The first match of a tag with one word.
LEMMA TaggedIs ==
  ASSUME NEW c \in Seq(Tokens), NEW kinds
  PROVE  /\ \A s \in Tagged(c, kinds) : /\ s.to = s.from
                                        /\ s.from \in Places(c, kinds)
                                        /\ \A k \in Places(c, kinds) : s.from <= k
         /\ Places(c, kinds) # {} =>
              [from |-> Least(Places(c, kinds)), to |-> Least(Places(c, kinds))]
                \in Tagged(c, kinds)
<1> DEFINE P == Places(c, kinds)
<1>1. P \in SUBSET Nat
  BY PlacesAre
<1>2. ASSUME P # {}
      PROVE  [from |-> Least(P), to |-> Least(P)] \in Tagged(c, kinds)
  <2>1. Least(P) \in P /\ \A k \in P : Least(P) <= k
    BY <1>1, <1>2, LeastIs
  <2> HIDE DEF P
  <2> QED BY <2>1 DEF Tagged, P
<1>3. ASSUME NEW s \in Tagged(c, kinds)
      PROVE  s.to = s.from /\ s.from \in P /\ \A k \in P : s.from <= k
  BY DEF Tagged
<1> QED BY <1>2, <1>3

\* The value of a free-text tag ends within the completion, and is words.
LEMMA ValueToIs ==
  ASSUME NEW c \in Seq(Tokens), NEW j \in 1..Len(c)
  PROVE  /\ ValueTo(c, j) \in j..Len(c)
         /\ \A m \in (j + 1)..ValueTo(c, j) : c[m] = "word"
<1> DEFINE n == Len(c)
           stops == {k \in j..n : k = n \/ c[k + 1] # "word"}
           IsEnd(k) == /\ \A m \in (j + 1)..k : c[m] = "word"
                       /\ k = Len(c) \/ c[k + 1] # "word"
<1>1. n \in Nat /\ j \in Nat /\ j <= n
  OBVIOUS
<1>2. stops \in SUBSET Nat /\ n \in stops
  BY <1>1
<1>3. PICK k \in stops : \A m \in stops : k <= m
  BY <1>2, LeastExists
<1>4. ASSUME NEW m \in (j + 1)..k PROVE c[m] = "word"
  <2>1. m - 1 \in j..n /\ m - 1 < k /\ m - 1 + 1 = m /\ m - 1 # n
    BY <1>1, <1>3
  <2>2. m - 1 \notin stops
    <3>1. k \in Nat /\ m - 1 \in Nat /\ ~ (k <= m - 1)
      BY <1>1, <2>1
    <3> HIDE DEF stops
    <3> QED BY <1>3, <3>1
  <2> QED BY <2>1, <2>2
<1>5. k \in j..Len(c) /\ IsEnd(k)
  BY <1>3, <1>4
<1>6. ValueTo(c, j) \in j..Len(c) /\ IsEnd(ValueTo(c, j))
  <2>1. \E x \in j..Len(c) : IsEnd(x)
    BY <1>5
  <2>2. ValueTo(c, j) = CHOOSE x \in j..Len(c) : IsEnd(x)
    BY DEF ValueTo
  <2> HIDE DEF IsEnd
  <2> QED BY <2>1, <2>2
<1>7. \A m \in (j + 1)..ValueTo(c, j) : c[m] = "word"
  BY <1>6
<1> QED BY <1>6, <1>7

\* The match of a tag with free text.
LEMMA FreeTextIs ==
  ASSUME NEW c \in Seq(Tokens), NEW kind
  PROVE  \A s \in FreeText(c, kind) :
           /\ s.from \in Places(c, {kind})
           /\ s.value \in ValueFrom(c, s.from)
           /\ s.to = ValueTo(c, s.value)
           /\ s.from < s.value /\ s.value <= s.to /\ s.to <= Len(c)
           /\ s.from \in 1..Len(c) /\ s.value \in 1..Len(c) /\ s.to \in 1..Len(c)
<1> DEFINE tags  == {i \in Places(c, {kind}) : ValueFrom(c, i) # {}}
           first == {i \in tags : \A k \in tags : i <= k}
<1>1. Places(c, {kind}) \subseteq 1..Len(c) /\ Len(c) \in Nat
  BY PlacesAre
<1>2. SUFFICES ASSUME NEW s \in FreeText(c, kind)
      PROVE  /\ s.from \in Places(c, {kind})
             /\ s.value \in ValueFrom(c, s.from)
             /\ s.to = ValueTo(c, s.value)
             /\ s.from < s.value /\ s.value <= s.to /\ s.to <= Len(c)
             /\ s.from \in 1..Len(c) /\ s.value \in 1..Len(c) /\ s.to \in 1..Len(c)
  OBVIOUS
<1>3. PICK i \in first : s \in {[from |-> i, to |-> ValueTo(c, j), value |-> j] :
                                    j \in ValueFrom(c, i)}
  BY DEF FreeText
<1>4. i \in Places(c, {kind}) /\ i \in 1..Len(c)
  BY <1>1
<1> HIDE DEF first, tags
<1>5. PICK j \in ValueFrom(c, i) : s = [from |-> i, to |-> ValueTo(c, j), value |-> j]
  BY <1>3
<1>6. j \in (i + 1)..Len(c) /\ j \in 1..Len(c) /\ i < j
  BY <1>1, <1>4, <1>5 DEF ValueFrom
<1>7. ValueTo(c, j) \in j..Len(c)
  BY <1>6, ValueToIs
<1> QED BY <1>1, <1>4, <1>5, <1>6, <1>7

-----------------------------------------------------------------------------
(* Where the line is looked for: the parts of Parse, by name *)

Guides(c) == \E s \in Tagged(c, {"guide", "action"}) : c[s.from] = "guide"
Opens(c) == \E s \in Tagged(c, {"open", "thread"}) : c[s.from] = "open"
Target(c) == IF Guides(c) THEN FreeText(c, "target") ELSE {}
Summary(c) == IF Opens(c) THEN FreeText(c, "summary") ELSE {}
Spans(c) == Tagged(c, {"guide", "action"}) \cup Target(c) \cup Tagged(c, {"tone"})
              \cup Tagged(c, {"open", "thread"}) \cup Summary(c) \cup Tagged(c, Tags)
Froms(c) == {s.from : s \in Spans(c)}
Tos(c) == {s.to : s \in Spans(c)}
Start(c) == IF Spans(c) = {} THEN Len(c) + 1 ELSE Least(Froms(c))
End(c) == IF Spans(c) = {} THEN 0 ELSE Most(Tos(c))
Before(c) == Stripped(c, 1, Start(c) - 1)
After(c) == Stripped(c, End(c) + 1, Len(c))

\* They are the parts of Parse.
LEMMA ParseIs ==
  ASSUME NEW c
  PROVE  /\ Parse(c).text = StripTagRegion(c, IF Before(c) # <<>> THEN Before(c) ELSE After(c))
         /\ Parse(c).target = ValueOf(Target(c))
         /\ Parse(c).summary = ValueOf(Summary(c))
BY DEF Parse, Guides, Opens, Target, Summary, Spans, Froms, Tos, Start, End, Before, After

\* Each span is of a tag, and of the places of the completion.
LEMMA SpansAre ==
  ASSUME NEW c \in Seq(Tokens)
  PROVE  /\ \A s \in Spans(c) : /\ s.from \in Places(c, Tags)
                                /\ s.from \in 1..Len(c) /\ s.to \in 1..Len(c)
         /\ \A s \in Spans(c) : \/ s.to = s.from
                                \/ s \in FreeText(c, "target") \cup FreeText(c, "summary")
<1>1. ASSUME NEW kinds \in SUBSET Tags, NEW s \in Tagged(c, kinds)
      PROVE  s.from \in Places(c, Tags) /\ s.to = s.from
  <2>1. s.from \in Places(c, kinds) /\ s.to = s.from
    BY TaggedIs
  <2>2. Places(c, kinds) \subseteq Places(c, Tags)
    BY DEF Places
  <2> QED BY <2>1, <2>2
<1>2. ASSUME NEW kind \in Tags, NEW s \in FreeText(c, kind)
      PROVE  s.from \in Places(c, Tags) /\ s.to \in 1..Len(c)
  <2>1. s.from \in Places(c, {kind}) /\ s.to \in 1..Len(c)
    BY FreeTextIs
  <2>2. Places(c, {kind}) \subseteq Places(c, Tags)
    BY DEF Places
  <2> QED BY <2>1, <2>2
<1>3. /\ {"guide", "action"} \in SUBSET Tags /\ {"open", "thread"} \in SUBSET Tags
      /\ {"tone"} \in SUBSET Tags /\ Tags \in SUBSET Tags
      /\ "target" \in Tags /\ "summary" \in Tags
  BY DEF Tags
<1>4. SUFFICES ASSUME NEW s \in Spans(c)
      PROVE  /\ s.from \in Places(c, Tags) /\ s.to \in 1..Len(c)
             /\ \/ s.to = s.from
                \/ s \in FreeText(c, "target") \cup FreeText(c, "summary")
  BY PlacesAre
<1>5. Places(c, Tags) \subseteq 1..Len(c)
  BY PlacesAre
<1>6. \/ \E kinds \in SUBSET Tags : s \in Tagged(c, kinds)
      \/ s \in FreeText(c, "target") \/ s \in FreeText(c, "summary")
  BY <1>3 DEF Spans, Target, Summary
<1>7. CASE \E kinds \in SUBSET Tags : s \in Tagged(c, kinds)
  <2>1. s.from \in Places(c, Tags) /\ s.to = s.from
    BY <1>1, <1>7
  <2> QED BY <1>5, <2>1
<1>8. CASE s \in FreeText(c, "target") \/ s \in FreeText(c, "summary")
  <2>1. s.from \in Places(c, Tags) /\ s.to \in 1..Len(c)
    BY <1>2, <1>3, <1>8
  <2> QED BY <1>8, <2>1
<1> QED BY <1>6, <1>7, <1>8

\* The spans lie between the two.
LEMMA StartAndEnd ==
  ASSUME NEW c \in Seq(Tokens)
  PROVE  /\ Start(c) \in 1..(Len(c) + 1) /\ Start(c) - 1 \in Nat
         /\ End(c) \in 0..Len(c) /\ End(c) + 1 \in Nat
         /\ \A s \in Spans(c) : Start(c) <= s.from /\ s.to <= End(c)
         /\ Spans(c) # {} => Start(c) \in Froms(c) /\ End(c) \in Tos(c)
<1>1. Len(c) \in Nat
  OBVIOUS
<1>2. CASE Spans(c) = {}
  BY <1>1, <1>2 DEF Start, End
<1>3. CASE Spans(c) # {}
  <2>1. Froms(c) \subseteq 1..Len(c) /\ Tos(c) \subseteq 1..Len(c)
    BY SpansAre DEF Froms, Tos
  <2>2. /\ Froms(c) \in SUBSET Nat /\ Tos(c) \in SUBSET Nat /\ Froms(c) # {} /\ Tos(c) # {}
        /\ \A t \in Tos(c) : t <= Len(c)
    <3>1. Froms(c) # {} /\ Tos(c) # {}
      BY <1>3 DEF Froms, Tos
    <3> QED BY <1>1, <2>1, <3>1
  <2>3. Start(c) \in Froms(c) /\ \A i \in Froms(c) : Start(c) <= i
    BY <1>3, <2>2, LeastIs DEF Start
  <2>4. End(c) \in Tos(c) /\ \A i \in Tos(c) : i <= End(c)
    BY <1>1, <1>3, <2>2, MostIs DEF End
  <2>5. \A s \in Spans(c) : Start(c) <= s.from /\ s.to <= End(c)
    BY <2>3, <2>4 DEF Froms, Tos
  <2> QED BY <1>1, <2>1, <2>3, <2>4, <2>5
<1> QED BY <1>2, <1>3

\* Of any completion, no tag is in the text.
LEMMA TextHasNoTag ==
  ASSUME NEW c \in Seq(Tokens)
  PROVE  \A i \in Words(Parse(c).text) : c[i] \notin Tags
<1>1. Start(c) - 1 \in Nat /\ End(c) + 1 \in Nat /\ Len(c) \in Nat /\ 1 \in Nat
  BY StartAndEnd
<1>2. \A i \in Words(StripTagRegion(c, Before(c))) : c[i] \notin Tags
  BY <1>1, RegionHasNoTag DEF Before
<1>3. \A i \in Words(StripTagRegion(c, After(c))) : c[i] \notin Tags
  BY <1>1, RegionHasNoTag DEF After
<1>4. \/ Parse(c).text = StripTagRegion(c, Before(c))
      \/ Parse(c).text = StripTagRegion(c, After(c))
  BY ParseIs
<1> QED BY <1>2, <1>3, <1>4

-----------------------------------------------------------------------------
(* A completion with the tags asked for *)

\* Behind its free-text tag the value begins at once, and ends before any other tag.
LEMMA ValueAtOnce ==
  ASSUME NEW c \in Seq(Tokens), WellTagged(c),
         NEW kind \in {"target", "summary"}, NEW s \in FreeText(c, kind)
  PROVE  /\ s.value = s.from + 1 /\ s.from \in 1..Len(c) /\ s.from + 1 \in 1..Len(c)
         /\ s.to = ValueTo(c, s.from + 1)
         /\ \A i \in Places(c, Tags) : s.from < i => s.to < i
<1>1. /\ s.from \in Places(c, {kind}) /\ s.value \in ValueFrom(c, s.from)
      /\ s.to = ValueTo(c, s.value) /\ s.from \in 1..Len(c) /\ s.value \in 1..Len(c)
      /\ s.to \in 1..Len(c)
  BY FreeTextIs
<1>2. s.from < Len(c) /\ c[s.from + 1] = "word"
  <2>1. s.from \in Places(c, {"target", "summary"})
    BY <1>1 DEF Places
  <2> QED BY <2>1 DEF WellTagged
<1>3. s.from \in Nat /\ s.value \in Nat /\ s.to \in Nat /\ Len(c) \in Nat /\ s.from + 1 \in 1..Len(c)
  BY <1>1, <1>2
<1>4. s.value = s.from + 1
  <2>1. SUFFICES ASSUME s.value # s.from + 1 PROVE FALSE
    OBVIOUS
  <2>2. s.value \in (s.from + 1)..Len(c) /\ \A k \in (s.from + 1)..(s.value - 1) : c[k] = "break"
    BY <1>1 DEF ValueFrom
  <2>3. s.from + 1 \in (s.from + 1)..(s.value - 1)
    BY <1>3, <2>1, <2>2
  <2> QED BY <1>2, <2>2, <2>3
<1>5. \A m \in (s.from + 2)..s.to : c[m] = "word"
  <2>1. \A m \in (s.value + 1)..ValueTo(c, s.value) : c[m] = "word"
    BY <1>1, ValueToIs
  <2>2. s.value + 1 = s.from + 2
    BY <1>3, <1>4
  <2> QED BY <1>1, <2>1, <2>2
<1>6. ASSUME NEW i \in Places(c, Tags), s.from < i PROVE s.to < i
  <2>1. c[i] # "word" /\ i \in Nat
    BY PlacesAre DEF Places, Tags
  <2>2. i # s.from + 1
    BY <1>2, <2>1
  <2>3. i \notin (s.from + 2)..s.to
    BY <1>5, <2>1
  <2> QED BY <1>3, <1>6, <2>1, <2>2, <2>3
<1> QED BY <1>1, <1>3, <1>4, <1>6

\* The place the last tag takes to.
Skip(c) == LET last == Most(Places(c, Tags))
           IN  IF c[last] \in {"target", "summary"} THEN ValueTo(c, last + 1) ELSE last

\* There is a last tag.
LEMMA LastTag ==
  ASSUME NEW c \in Seq(Tokens), Places(c, Tags) # {}
  PROVE  /\ Most(Places(c, Tags)) \in Places(c, Tags)
         /\ \A i \in Places(c, Tags) : i <= Most(Places(c, Tags))
<1>1. Places(c, Tags) \in SUBSET Nat /\ Len(c) \in Nat /\ \A i \in Places(c, Tags) : i <= Len(c)
  <2>1. Places(c, Tags) \subseteq 1..Len(c) /\ Len(c) \in Nat
    BY PlacesAre
  <2> QED BY <2>1
<1> QED BY <1>1, MostIs

\* It is within the completion, at the last tag or behind it.
LEMMA SkipIs ==
  ASSUME NEW c \in Seq(Tokens), WellTagged(c), Places(c, Tags) # {}
  PROVE  Skip(c) \in Most(Places(c, Tags))..Len(c)
<1> DEFINE last == Most(Places(c, Tags))
<1>1. last \in Places(c, Tags) /\ last \in 1..Len(c) /\ last \in Nat /\ Len(c) \in Nat
  BY LastTag, PlacesAre
<1>2. CASE c[last] \in {"target", "summary"}
  <2>1. last \in Places(c, {"target", "summary"})
    BY <1>1, <1>2 DEF Places
  <2>2. last < Len(c)
    BY <2>1 DEF WellTagged
  <2>3. last + 1 \in 1..Len(c)
    BY <1>1, <2>2
  <2>4. ValueTo(c, last + 1) \in (last + 1)..Len(c)
    BY <2>3, ValueToIs
  <2>5. Skip(c) = ValueTo(c, last + 1)
    BY <1>2 DEF Skip
  <2> HIDE DEF last
  <2>6. Skip(c) \in last..Len(c)
    BY <1>1, <2>4, <2>5
  <2> QED BY <2>6 DEF last
<1>3. CASE c[last] \notin {"target", "summary"}
  <2>1. Skip(c) = last
    BY <1>3 DEF Skip
  <2> HIDE DEF last
  <2>2. Skip(c) \in last..Len(c)
    BY <1>1, <2>1
  <2> QED BY <2>2 DEF last
<1> QED BY <1>2, <1>3

\* A tag that comes at most once, and comes last, is matched there.
LEMMA LastIsMatched ==
  ASSUME NEW c \in Seq(Tokens), NEW kinds, Cardinality(Places(c, kinds)) <= 1,
         NEW i \in Places(c, kinds)
  PROVE  \E s \in Tagged(c, kinds) : s.from = i /\ s.to = i
<1>1. Places(c, kinds) \in SUBSET (1..Len(c)) /\ Places(c, kinds) \in SUBSET Nat /\ Len(c) \in Nat
  BY PlacesAre
<1>2. Least(Places(c, kinds)) \in Places(c, kinds)
  BY <1>1, LeastIs
<1>3. Least(Places(c, kinds)) = i
  BY <1>1, <1>2, AtMostOne
<1> QED BY <1>3, TaggedIs

\* A free-text tag that comes at most once, with a word behind it.
LEMMA FreeTextIsMatched ==
  ASSUME NEW c \in Seq(Tokens), NEW kind, Cardinality(Places(c, {kind})) <= 1,
         NEW i \in Places(c, {kind}), i < Len(c), c[i + 1] = "word"
  PROVE  \E s \in FreeText(c, kind) : s.from = i /\ s.to = ValueTo(c, i + 1)
<1> DEFINE tags  == {j \in Places(c, {kind}) : ValueFrom(c, j) # {}}
           first == {j \in tags : \A k \in tags : j <= k}
           s     == [from |-> i, to |-> ValueTo(c, i + 1), value |-> i + 1]
<1>1. Places(c, {kind}) \in SUBSET (1..Len(c)) /\ Len(c) \in Nat /\ i \in Nat /\ i + 1 \in 1..Len(c)
  BY PlacesAre
<1>2. i + 1 \in ValueFrom(c, i)
  BY <1>1 DEF ValueFrom
<1>3. ASSUME NEW j \in Places(c, {kind}) PROVE j = i
  BY <1>1, AtMostOne
<1>4. i \in first
  <2>1. i \in tags
    BY <1>2
  <2>2. ASSUME NEW k \in tags PROVE i <= k
    <3>1. k \in Places(c, {kind})
      OBVIOUS
    <3>2. k = i
      BY <1>3, <3>1
    <3> QED BY <1>1, <3>2
  <2> QED BY <2>1, <2>2
<1>5. s \in {[from |-> i, to |-> ValueTo(c, j), value |-> j] : j \in ValueFrom(c, i)}
  BY <1>2
<1>6. s \in FreeText(c, kind)
  BY <1>4, <1>5 DEF FreeText
<1> QED BY <1>6

\* The last tag is matched, with its value.
LEMMA SkipIsMatched ==
  ASSUME NEW c \in Seq(Tokens), WellTagged(c), Places(c, Tags) # {}
  PROVE  \E s \in Spans(c) : s.to = Skip(c)
<1> DEFINE l == Most(Places(c, Tags))
<1>1. l \in Places(c, Tags) /\ c[l] \in Tags /\ l \in 1..Len(c)
  BY LastTag, PlacesAre DEF Places
<1>2. Skip(c) = IF c[l] \in {"target", "summary"} THEN ValueTo(c, l + 1) ELSE l
  BY DEF Skip
<1> HIDE DEF l
<1>3. /\ \A k \in Tags : Cardinality(Places(c, {k})) <= 1
      /\ Cardinality(Places(c, {"guide", "action"})) <= 1
      /\ Cardinality(Places(c, {"open", "thread"})) <= 1
      /\ Places(c, {"stray"}) = {}
      /\ \A i \in Places(c, {"target", "summary"}) : i < Len(c) /\ c[i + 1] = "word"
      /\ Places(c, {"target"}) # {} => Places(c, {"guide"}) # {}
      /\ Places(c, {"summary"}) # {} => Places(c, {"open"}) # {}
  BY DEF WellTagged
<1>4. "tone" \in Tags /\ "target" \in Tags /\ "summary" \in Tags
  BY DEF Tags
<1>5. CASE c[l] \in {"guide", "action"}
  <2>1. l \in Places(c, {"guide", "action"}) /\ Skip(c) = l
    BY <1>1, <1>2, <1>5 DEF Places
  <2>2. \E s \in Tagged(c, {"guide", "action"}) : s.from = l /\ s.to = l
    BY <1>3, <2>1, LastIsMatched
  <2> QED BY <2>1, <2>2 DEF Spans
<1>6. CASE c[l] \in {"open", "thread"}
  <2>1. l \in Places(c, {"open", "thread"}) /\ Skip(c) = l
    BY <1>1, <1>2, <1>6 DEF Places
  <2>2. \E s \in Tagged(c, {"open", "thread"}) : s.from = l /\ s.to = l
    BY <1>3, <2>1, LastIsMatched
  <2> QED BY <2>1, <2>2 DEF Spans
<1>7. CASE c[l] = "tone"
  <2>1. l \in Places(c, {"tone"}) /\ Skip(c) = l
    BY <1>1, <1>2, <1>7 DEF Places
  <2>2. \E s \in Tagged(c, {"tone"}) : s.from = l /\ s.to = l
    BY <1>3, <1>4, <2>1, LastIsMatched
  <2> QED BY <2>1, <2>2 DEF Spans
<1>8. CASE c[l] = "stray"
  BY <1>1, <1>3, <1>8 DEF Places
<1>9. CASE c[l] = "target"
  <2>1. l \in Places(c, {"target"}) /\ l \in Places(c, {"target", "summary"})
        /\ Skip(c) = ValueTo(c, l + 1)
    BY <1>1, <1>2, <1>9 DEF Places
  <2>2. Guides(c)
    <3>1. PICK g \in Places(c, {"guide"}) : TRUE
      BY <1>3, <2>1
    <3>2. g \in Places(c, {"guide", "action"}) /\ c[g] = "guide"
      BY <3>1 DEF Places
    <3>3. \E s \in Tagged(c, {"guide", "action"}) : s.from = g /\ s.to = g
      BY <1>3, <3>2, LastIsMatched
    <3> QED BY <3>2, <3>3 DEF Guides
  <2>3. \E s \in FreeText(c, "target") : s.from = l /\ s.to = ValueTo(c, l + 1)
    <3>1. Cardinality(Places(c, {"target"})) <= 1
      BY <1>3, <1>4
    <3>2. l < Len(c) /\ c[l + 1] = "word"
      BY <1>3, <2>1
    <3> QED BY <2>1, <3>1, <3>2, FreeTextIsMatched
  <2> QED BY <2>1, <2>2, <2>3 DEF Spans, Target
<1>10. CASE c[l] = "summary"
  <2>1. l \in Places(c, {"summary"}) /\ l \in Places(c, {"target", "summary"})
        /\ Skip(c) = ValueTo(c, l + 1)
    BY <1>1, <1>2, <1>10 DEF Places
  <2>2. Opens(c)
    <3>1. PICK g \in Places(c, {"open"}) : TRUE
      BY <1>3, <2>1
    <3>2. g \in Places(c, {"open", "thread"}) /\ c[g] = "open"
      BY <3>1 DEF Places
    <3>3. \E s \in Tagged(c, {"open", "thread"}) : s.from = g /\ s.to = g
      BY <1>3, <3>2, LastIsMatched
    <3> QED BY <3>2, <3>3 DEF Opens
  <2>3. \E s \in FreeText(c, "summary") : s.from = l /\ s.to = ValueTo(c, l + 1)
    <3>1. Cardinality(Places(c, {"summary"})) <= 1
      BY <1>3, <1>4
    <3>2. l < Len(c) /\ c[l + 1] = "word"
      BY <1>3, <2>1
    <3> QED BY <2>1, <3>1, <3>2, FreeTextIsMatched
  <2> QED BY <2>1, <2>2, <2>3 DEF Spans, Summary
<1> QED BY <1>1, <1>5, <1>6, <1>7, <1>8, <1>9, <1>10 DEF Tags

\* The line stands before the first tag or behind the last, which is where it
\* is looked for.
LEMMA StartAndEndAre ==
  ASSUME NEW c \in Seq(Tokens), WellTagged(c), Places(c, Tags) # {}
  PROVE  Start(c) = Least(Places(c, Tags)) /\ End(c) = Skip(c)
<1> DEFINE T == Places(c, Tags)
           last == Most(T)
<1>1. T \in SUBSET Nat /\ T \in SUBSET (1..Len(c)) /\ Len(c) \in Nat
  BY PlacesAre
<1>2. Least(T) \in T /\ \A i \in T : Least(T) <= i
  BY <1>1, LeastIs
<1>3. last \in T /\ \A i \in T : i <= last
  BY LastTag
<1>4. Skip(c) \in last..Len(c)
  BY SkipIs
<1>5. /\ Start(c) \in 1..(Len(c) + 1) /\ End(c) \in 0..Len(c)
      /\ \A s \in Spans(c) : Start(c) <= s.from /\ s.to <= End(c)
      /\ Spans(c) # {} => Start(c) \in Froms(c) /\ End(c) \in Tos(c)
  BY StartAndEnd
<1>6. [from |-> Least(T), to |-> Least(T)] \in Spans(c)
  BY TaggedIs DEF Spans
<1>7. PICK s \in Spans(c) : s.from = Start(c)
  BY <1>5, <1>6 DEF Froms
<1>8. Start(c) = Least(T)
  <2>1. Start(c) <= Least(T)
    BY <1>5, <1>6
  <2>2. Start(c) \in T
    BY <1>7, SpansAre
  <2>3. Least(T) <= Start(c) /\ Least(T) \in Nat /\ Start(c) \in Nat
    BY <1>1, <1>2, <2>2
  <2> QED BY <2>1, <2>3
<1>9. PICK t \in Spans(c) : t.to = End(c)
  BY <1>5, <1>6 DEF Tos
<1>10. t.from \in T /\ t.from \in Nat /\ t.from <= last
  BY <1>1, <1>3, SpansAre
<1>11. last \in Nat /\ Skip(c) \in Nat /\ End(c) \in Nat /\ last <= Skip(c)
  BY <1>1, <1>3, <1>4, <1>5
<1>12. End(c) <= Skip(c)
  <2>1. CASE t.to = t.from
    <3> HIDE DEF last
    <3> QED BY <1>9, <1>10, <1>11, <2>1
  <2>2. CASE t \in FreeText(c, "target") \cup FreeText(c, "summary")
    <3>1. PICK kind \in {"target", "summary"} : t \in FreeText(c, kind)
      BY <2>2
    <3>2. /\ t.to = ValueTo(c, t.from + 1)
          /\ \A i \in T : t.from < i => t.to < i
      BY <3>1, ValueAtOnce
    <3>3. CASE t.from = last
      <4>1. t.from \in Places(c, {kind})
        BY <3>1, FreeTextIs
      <4>2. c[last] \in {"target", "summary"}
        BY <3>3, <4>1 DEF Places
      <4>3. Skip(c) = ValueTo(c, last + 1)
        BY <4>2 DEF Skip
      <4> HIDE DEF last
      <4> QED BY <1>9, <1>11, <3>2, <3>3, <4>3
    <3>4. CASE t.from # last
      <4> HIDE DEF last
      <4>1. t.from < last
        BY <1>10, <1>11, <3>4
      <4>2. t.to < last
        BY <1>3, <3>2, <4>1
      <4> QED BY <1>9, <1>11, <4>2
    <3> QED BY <3>3, <3>4
  <2> QED BY <2>1, <2>2, SpansAre
<1>13. Skip(c) <= End(c)
  <2>1. \E s1 \in Spans(c) : s1.to = Skip(c)
    BY SkipIsMatched
  <2> QED BY <1>5, <2>1
<1>14. End(c) = Skip(c)
  <2> HIDE DEF last
  <2> QED BY <1>11, <1>12, <1>13
<1> QED BY <1>8, <1>14

\* No tag stands on the side the line is looked for, so nothing is cut from it.
LEMMA TextIsTheLine ==
  ASSUME NEW c \in Seq(Tokens), WellTagged(c)
  PROVE  /\ Parse(c).text = Line(c)
         /\ Line(c) = Before(c) \/ Line(c) = After(c)
<1> DEFINE T == Places(c, Tags)
           last == Most(T)
<1>1. T \in SUBSET Nat /\ T \in SUBSET (1..Len(c)) /\ Len(c) \in Nat /\ 1 \in Nat
      /\ \A i \in 1..Len(c) : c[i] \in Tags => i \in T
  BY PlacesAre DEF Places
<1>2. CASE T = {}
  <2>1. Spans(c) = {}
    BY <1>2, SpansAre
  <2>2. Start(c) = Len(c) + 1 /\ Start(c) - 1 = Len(c)
    BY <1>1, <2>1 DEF Start
  <2>3. End(c) = 0 /\ End(c) + 1 = 1
    BY <2>1 DEF End
  <2>4. Before(c) = Stripped(c, 1, Len(c)) /\ After(c) = Stripped(c, 1, Len(c))
    BY <2>2, <2>3 DEF Before, After
  <2>5. Line(c) = Stripped(c, 1, Len(c))
    BY <1>2 DEF Line
  <2>6. \A k \in 1..Len(c) : c[k] \notin Tags
    BY <1>1, <1>2
  <2>7. StripTagRegion(c, Stripped(c, 1, Len(c))) = Stripped(c, 1, Len(c))
    BY <1>1, <2>6, RegionHasNoTag
  <2> QED BY <2>4, <2>5, <2>7, ParseIs
<1>3. CASE T # {}
  <2>1. /\ Start(c) = Least(T) /\ End(c) = Skip(c)
        /\ Start(c) - 1 \in Nat /\ End(c) + 1 \in Nat
        /\ Start(c) \in 1..(Len(c) + 1) /\ End(c) \in 0..Len(c)
    BY <1>3, StartAndEndAre, StartAndEnd
  <2>2. Least(T) \in T /\ \A i \in T : Least(T) <= i
    BY <1>1, <1>3, LeastIs
  <2>3. last \in T /\ (\A i \in T : i <= last) /\ Skip(c) \in last..Len(c)
    BY <1>3, LastTag, SkipIs
  <2>4. Line(c) = IF Before(c) # <<>> THEN Before(c) ELSE After(c)
    <3>1. Line(c) = IF Stripped(c, 1, Least(T) - 1) # <<>>
                    THEN Stripped(c, 1, Least(T) - 1)
                    ELSE Stripped(c, Skip(c) + 1, Len(c))
      BY <1>3 DEF Line, Skip
    <3> QED BY <2>1, <3>1 DEF Before, After
  <2>5. ASSUME NEW k \in 1..(Start(c) - 1), c[k] \in Tags PROVE FALSE
    <3>1. k \in 1..Len(c) /\ ~ (Start(c) <= k)
      BY <1>1, <2>1
    <3> QED BY <1>1, <2>1, <2>2, <2>5, <3>1
  <2>6. ASSUME NEW k \in (End(c) + 1)..Len(c), c[k] \in Tags PROVE FALSE
    <3>1. last \in Nat /\ last <= End(c)
      BY <1>1, <2>1, <2>3
    <3>2. k \in 1..Len(c) /\ k \in Nat /\ k > End(c) /\ End(c) \in Nat
      BY <1>1, <2>1
    <3>3. k <= last
      BY <1>1, <2>3, <2>6, <3>2
    <3> HIDE DEF last
    <3> QED BY <3>1, <3>2, <3>3
  <2>7. StripTagRegion(c, Before(c)) = Before(c)
    BY <1>1, <2>1, <2>5, RegionHasNoTag DEF Before
  <2>8. StripTagRegion(c, After(c)) = After(c)
    BY <1>1, <2>1, <2>6, RegionHasNoTag DEF After
  <2> QED BY <2>4, <2>7, <2>8, ParseIs
<1> QED BY <1>2, <1>3

\* No word of a value is one of the line.
LEMMA ValueIsNotTheLine ==
  ASSUME NEW c \in Seq(Tokens), NEW kind, NEW spans, spans \subseteq FreeText(c, kind),
         spans \subseteq Spans(c)
  PROVE  Words(ValueOf(spans)) \cap (Words(Before(c)) \cup Words(After(c))) = {}
<1>1. /\ Start(c) \in 1..(Len(c) + 1) /\ Start(c) - 1 \in Nat
      /\ End(c) \in 0..Len(c) /\ End(c) + 1 \in Nat
      /\ \A s \in Spans(c) : Start(c) <= s.from /\ s.to <= End(c)
  BY StartAndEnd
<1>2. Len(c) \in Nat /\ 1 \in Nat
  OBVIOUS
<1>3. Words(Before(c)) \subseteq 1..(Start(c) - 1) /\ Words(After(c)) \subseteq (End(c) + 1)..Len(c)
  BY <1>1, <1>2, StrippedWords DEF Before, After
<1>4. CASE spans = {}
  BY <1>4 DEF ValueOf, Words
<1>5. CASE spans # {}
  <2>1. PICK s \in spans : ValueOf(spans) = <<s.value, s.to>>
    BY <1>5 DEF ValueOf
  <2>2. /\ s.from < s.value /\ s.value <= s.to
        /\ s.from \in Nat /\ s.value \in Nat /\ s.to \in Nat
        /\ Start(c) <= s.from /\ s.to <= End(c)
    <3>1. s \in FreeText(c, kind) /\ s \in Spans(c)
      OBVIOUS
    <3>2. /\ s.from < s.value /\ s.value <= s.to
          /\ s.from \in 1..Len(c) /\ s.value \in 1..Len(c) /\ s.to \in 1..Len(c)
      BY <3>1, FreeTextIs
    <3> QED BY <1>1, <1>2, <3>1, <3>2
  <2>3. Words(ValueOf(spans)) = s.value..s.to
    BY <2>1 DEF Words
  <2>4. \A k \in s.value..s.to : k \notin 1..(Start(c) - 1) /\ k \notin (End(c) + 1)..Len(c)
    BY <1>1, <1>2, <2>2
  <2> QED BY <1>3, <2>3, <2>4
<1> QED BY <1>4, <1>5

LEMMA LineAlone ==
  ASSUME NEW c \in Seq(Tokens), WellTagged(c)
  PROVE  /\ Parse(c).text = Line(c)
         /\ Words(Parse(c).target) \cap Words(Line(c)) = {}
         /\ Words(Parse(c).summary) \cap Words(Line(c)) = {}
<1>1. Target(c) \subseteq FreeText(c, "target") /\ Target(c) \subseteq Spans(c)
  BY DEF Target, Spans
<1>2. Summary(c) \subseteq FreeText(c, "summary") /\ Summary(c) \subseteq Spans(c)
  BY DEF Summary, Spans
<1>3. /\ Words(ValueOf(Target(c))) \cap (Words(Before(c)) \cup Words(After(c))) = {}
      /\ Words(ValueOf(Summary(c))) \cap (Words(Before(c)) \cup Words(After(c))) = {}
  BY <1>1, <1>2, ValueIsNotTheLine
<1>4. Words(Line(c)) \subseteq Words(Before(c)) \cup Words(After(c))
  BY TextIsTheLine
<1>5. Parse(c).target = ValueOf(Target(c)) /\ Parse(c).summary = ValueOf(Summary(c))
  BY ParseIs
<1> QED BY <1>3, <1>4, <1>5, TextIsTheLine

-----------------------------------------------------------------------------
(* The theorems *)

\* What is kept of a completion is what Parse says of it.
ReplyInv == stage = "answered" => raw \in Seq(Tokens) /\ result = Parse(raw)

PromptInv == ListsTyped /\ CutInv /\ ReplyInv

\* A function on the first numbers is a sequence.
LEMMA FunIsSeq ==
  ASSUME NEW S, NEW m \in Nat, NEW f \in [1..m -> S]
  PROVE  f \in Seq(S) /\ Len(f) \in Nat
OBVIOUS

\* What is found is capped, and not cut yet.
LEMMA PromptStarts == PromptInit => PromptInv
<1> SUFFICES ASSUME PromptInit PROVE PromptInv
  OBVIOUS
<1> USE PromptAssumption
<1>1. PICK found \in [Lists -> UpTo(Sizes, MaxItems)], caps \in {Caps, CompanionCaps} :
        offered = [k \in Lists |-> Capped(found[k], caps[k])]
  BY DEF PromptInit
<1>2. ASSUME NEW k \in Lists PROVE Capped(found[k], caps[k]) \in Seq(Nat)
  <2>1. found[k] \in UpTo(Sizes, MaxItems) /\ Sizes \subseteq Nat /\ MaxItems \in Nat
    BY DEF PromptAssumption
  <2>2. PICK m \in 0..MaxItems : found[k] \in [1..m -> Sizes]
    BY <2>1 DEF UpTo
  <2>3. found[k] \in Seq(Nat) /\ Len(found[k]) \in Nat
    <3>1. m \in Nat
      BY <2>1
    <3>2. found[k] \in [1..m -> Nat]
      BY <2>1, <2>2
    <3> QED BY <3>1, <3>2, FunIsSeq
  <2>4. caps[k] \in Nat
    <3>1. caps \in Seq(Nat) /\ k \in 1..Len(caps)
      BY DEF PromptAssumption, Lists
    <3> QED BY <3>1, ElementOfSeq
  <2> DEFINE n == IF Len(found[k]) < caps[k] THEN Len(found[k]) ELSE caps[k]
  <2>5. n \in 0..Len(found[k])
    BY <2>3, <2>4
  <2>6. Capped(found[k], caps[k]) = SubSeq(found[k], 1, n)
    BY DEF Capped
  <2> HIDE DEF n
  <2>7. SubSeq(found[k], 1, n) \in Seq(Nat)
    BY <2>3, <2>5, BeginningIs
  <2> QED BY <2>6, <2>7
<1>3. offered \in ListsOf(Nat) /\ lists = offered /\ stage = "trimming" /\ fixed \in Nat
  BY <1>1, <1>2 DEF PromptInit, ListsOf, PromptAssumption
<1>4. ListsTyped
  BY <1>3 DEF ListsTyped
<1>5. ASSUME NEW k \in Lists
      PROVE  Len(lists[k]) <= Len(offered[k]) /\ lists[k] = SubSeq(offered[k], 1, Len(lists[k]))
  <2>1. offered[k] \in Seq(Nat) /\ Len(offered[k]) \in Nat /\ lists[k] = offered[k]
    BY <1>3 DEF ListsOf
  <2>2. SubSeq(offered[k], 1, Len(offered[k])) = offered[k]
    BY <2>1, SubSeqFull
  <2> QED BY <2>1, <2>2
<1>6. Cut = {}
  BY <1>3 DEF Cut
<1>7. CutInv
  BY <1>3, <1>5, <1>6 DEF CutInv
<1> QED BY <1>3, <1>4, <1>7 DEF PromptInv, ReplyInv

\* What CutInv speaks of, when the lists do not change.
LEMMA CutUnchanged ==
  ASSUME UNCHANGED <<fixed, offered, lists>>
  PROVE  /\ Cut' = Cut /\ TooLong' = TooLong
         /\ \A k \in Lists :
              Rendered([lists EXCEPT ![k] = SubSeq(offered[k], 1, Len(@) + 1)])'
                = Rendered([lists EXCEPT ![k] = SubSeq(offered[k], 1, Len(@) + 1)])
BY DEF Cut, TooLong, Rendered

\* Trim alone cuts, Answers alone reads a completion.
LEMMA PromptStep ==
  ASSUME PromptInv, [PromptNext]_promptVars
  PROVE  PromptInv'
<1> USE PromptAssumption
<1>1. CASE Trim
  <2>1. ListsTyped' /\ CutInv'
    BY <1>1, TrimStep DEF PromptInv
  <2>2. ReplyInv'
    BY <1>1 DEF Trim, ReplyInv
  <2> QED BY <2>1, <2>2 DEF PromptInv
<1>2. CASE Fits
  <2>1. ListsTyped'
    BY <1>2 DEF Fits, PromptInv, ListsTyped
  <2>2. /\ stage = "trimming" /\ ~ TooLong /\ stage' = "fitted"
        /\ UNCHANGED <<fixed, offered, lists, raw, result>>
    BY <1>2 DEF Fits
  <2>3. CutInv'
    <3>1. Cut \subseteq Lists
      BY DEF Cut
    <3> QED BY <2>2, <3>1, CutUnchanged DEF PromptInv, CutInv, Cutting
  <2>4. ReplyInv'
    BY <2>2 DEF ReplyInv
  <2> QED BY <2>1, <2>3, <2>4 DEF PromptInv
<1>3. CASE Asks
  <2>1. NoLists \in ListsOf(Nat)
    <3>1. <<>> \in Seq(Nat)
      OBVIOUS
    <3> QED BY <3>1 DEF NoLists, ListsOf
  <2> QED BY <1>3, <2>1 DEF Asks, PromptInv, ListsTyped, CutInv, Cutting, ReplyInv
<1>4. CASE Fails
  BY <1>4 DEF Fails, PromptInv, ListsTyped, CutInv, Cutting, ReplyInv
<1>5. CASE Answers
  <2>1. raw' \in Seq(Tokens)
    <3>1. raw' \in UpTo(Tokens, MaxTokens)
      BY <1>5 DEF Answers, Completions
    <3>2. PICK m \in 0..MaxTokens : raw' \in [1..m -> Tokens]
      BY <3>1 DEF UpTo
    <3>3. m \in Nat
      BY DEF PromptAssumption
    <3> QED BY <3>2, <3>3
  <2>2. stage' = "answered" /\ result' = Parse(raw') /\ UNCHANGED <<fixed, offered, lists>>
    BY <1>5 DEF Answers
  <2>3. ReplyInv'
    BY <2>1, <2>2 DEF ReplyInv
  <2> QED BY <2>2, <2>3 DEF PromptInv, ListsTyped, CutInv, Cutting
<1>6. CASE UNCHANGED promptVars
  <2>1. UNCHANGED <<stage, fixed, offered, lists, raw, result>>
    BY <1>6 DEF promptVars
  <2>2. ListsTyped' /\ ReplyInv'
    BY <2>1 DEF PromptInv, ListsTyped, ReplyInv
  <2>3. CutInv'
    <3>1. Cut \subseteq Lists
      BY DEF Cut
    <3> QED BY <2>1, <3>1, CutUnchanged DEF PromptInv, CutInv, Cutting
  <2> QED BY <2>2, <2>3 DEF PromptInv
<1> QED BY <1>1, <1>2, <1>3, <1>4, <1>5, <1>6 DEF PromptNext

\* All three, always.
LEMMA PromptInvariant == PromptSpec => []PromptInv
<1>1. PromptInit => PromptInv
  BY PromptStarts
<1>2. PromptInv /\ [PromptNext]_promptVars => PromptInv'
  BY PromptStep
<1> QED BY <1>1, <1>2, PTL DEF PromptSpec

\* When the loop of build_dialogue_messages ends the prompt fits or no item is
\* left, no list pays for the others, and not one item was cut too many.
THEOREM CutsAreFair == PromptSpec => []TrimmedFairly
<1>1. PromptInv => TrimmedFairly
  <2> SUFFICES ASSUME PromptInv, stage = "fitted" PROVE
        LET cut == {k \in Lists : lists[k] # offered[k]}
        IN  /\ Rendered(lists) <= Budget \/ lists = NoLists
            /\ \A k \in Lists : lists[k] = SubSeq(offered[k], 1, Len(lists[k]))
            /\ \A k \in cut, j \in Lists : Len(lists[j]) <= Len(lists[k]) + 1
            /\ cut # {} => \E k \in cut :
                 Rendered([lists EXCEPT ![k] = SubSeq(offered[k], 1, Len(@) + 1)]) > Budget
    BY DEF TrimmedFairly
  <2>1. Rendered(lists) <= Budget \/ lists = NoLists
    <3>1. Rendered(lists) \in Nat /\ Budget \in Nat
      BY PromptAssumption, RenderedIsNat DEF PromptInv, ListsTyped, PromptAssumption
    <3>2. ~ (Rendered(lists) > Budget) \/ lists = NoLists
      BY DEF PromptInv, CutInv, Cutting, TooLong
    <3> QED BY <3>1, <3>2
  <2> QED BY <2>1 DEF PromptInv, CutInv, Cutting, Cut
<1> QED BY <1>1, PromptInvariant, PTL

\* No tag is spoken, of whatever completion: where a tag comes a second time,
\* or one that is not known, _strip_tag_region ends the text.
THEOREM TagsAreNotSpoken == PromptSpec => []NoTagSpoken
<1>1. PromptInv => NoTagSpoken
  BY TextHasNoTag DEF PromptInv, ReplyInv, NoTagSpoken
<1> QED BY <1>1, PromptInvariant, PTL

\* Of a completion with the tags asked for the whole line is spoken and nothing
\* else, wherever the tags stand, and place and topic are not words of it.
THEOREM LineIsFound == PromptSpec => []LineIsSpoken
<1>1. PromptInv => LineIsSpoken
  <2> SUFFICES ASSUME PromptInv, stage = "answered", WellTagged(raw)
               PROVE  /\ result.text = Line(raw)
                      /\ Words(result.target) \cap Words(Line(raw)) = {}
                      /\ Words(result.summary) \cap Words(Line(raw)) = {}
    BY DEF LineIsSpoken
  <2>1. raw \in Seq(Tokens) /\ result = Parse(raw)
    BY DEF PromptInv, ReplyInv
  <2> QED BY <2>1, LineAlone
<1> QED BY <1>1, PromptInvariant, PTL

-----------------------------------------------------------------------------
(* Skills: types *)

File == Drafts \X Nat

SkillsTypeOK ==
  /\ clock \in Nat /\ started \in Nat
  /\ candidates \in SUBSET Drafts
  /\ approved \in SUBSET File
  /\ passed \in SUBSET Drafts
  /\ evolving \in [draft : Drafts \cup {NoFile}, step : {"off", "validates", "notifies"}]
  /\ notices \in Seq(Drafts \cup {NoFile})
  /\ byNpc \in [Npcs -> File \cup {NoFile}]
  /\ running \in File \cup {NoFile}
  /\ seenLines \in Nat
  /\ outbox \in Seq(Nat) /\ sent \in Seq(Nat)

LEMMA ScanType ==
  ASSUME NEW bound \in Nat, approved \subseteq File, \A f \in approved : f[2] <= bound,
         NEW n \in Npcs
  PROVE  \/ /\ Scan[n] = NoFile
            /\ \A f \in approved : ~ (NpcOf(f[1]) = n /\ Eligible(f))
         \/ /\ Scan[n] \in approved
            /\ NpcOf(Scan[n][1]) = n
            /\ Eligible(Scan[n])
            /\ \A f \in approved : NpcOf(f[1]) = n /\ Eligible(f) => f[2] <= Scan[n][2]
<1> DEFINE files == {f \in approved : NpcOf(f[1]) = n /\ Eligible(f)}
           ages == {bound - f[2] : f \in files}
<1>1. Scan[n] = IF files = {} THEN NoFile
                ELSE CHOOSE f \in files : \A g \in files : g[2] <= f[2]
  BY DEF Scan
<1>2. CASE files = {}
  BY <1>1, <1>2
<1>3. CASE files # {}
  <2>1. \A f \in files : f[2] \in Nat /\ bound - f[2] \in Nat
    BY DEF File
  <2>2. ages \in SUBSET Nat /\ ages # {}
    BY <1>3, <2>1
  <2> HIDE DEF ages
  <2>3. PICK a \in ages : \A b \in ages : a <= b
    BY <2>2, LeastExists
  <2>4. PICK f \in files : a = bound - f[2]
    BY DEF ages
  <2>5. \A g \in files : a <= bound - g[2]
    BY <2>3 DEF ages
  <2>6. \A g \in files : g[2] <= f[2]
    BY <2>1, <2>4, <2>5
  <2> HIDE DEF files
  <2>7. Scan[n] \in files /\ \A g \in files : g[2] <= Scan[n][2]
    BY <1>1, <1>3, <2>6
  <2> QED BY <2>7 DEF files
<1> QED BY <1>2, <1>3

\* No file is younger than the clock, nor is the process; of Pest, a file approved
\* after the start is younger than that.
ClockInv ==
  /\ started <= clock
  /\ \A f \in approved : f[2] <= clock

\* What the last scan found is, of Pest, what a scan would find now, unless it has
\* been deleted.
TableInv ==
  \A n \in Npcs :
    byNpc[n] # NoFile =>
      /\ NpcOf(byNpc[n][1]) = n
      /\ Eligible(byNpc[n])
      /\ n = Pest =>
           \A f \in approved : NpcOf(f[1]) = Pest /\ Eligible(f) => f[2] <= byNpc[n][2]

\* What is in approved/, or is to be told, has passed.
PassedInv ==
  /\ \A f \in approved : f[1] \in passed
  /\ evolving.step = "notifies" => evolving.draft \in passed
  /\ NoticedWasApproved

\* Lines are sent in their order: those to come are behind those that have gone.
LinesInv ==
  /\ \A i \in DOMAIN sent : sent[i] <= seenLines
  /\ \A i \in DOMAIN outbox : outbox[i] <= seenLines
  /\ \A i \in DOMAIN sent, j \in DOMAIN outbox : sent[i] < outbox[j]
  /\ \A i, j \in DOMAIN outbox : i < j => outbox[i] < outbox[j]
  /\ SentOncePerRun

SkillsInv == SkillsTypeOK /\ ClockInv /\ TableInv /\ PassedInv /\ LinesInv

-----------------------------------------------------------------------------
(* The steps, by what they leave alone *)

\* Drafting and validation, but for the copy of a file.
Drafting ==
  \/ \E d \in Drafts : WriterDrafts(d) \/ EvolveDrafts(d)
  \/ CronStarts
  \/ \E s \in Scripts : Ends(s) \/ Judges(s) \/ Moves(s) \/ Killed(s)
  \/ Checks

\* What it says of the process, and of the files that are approved.
LEMMA DraftingSteps ==
  ASSUME SkillsTypeOK, PassedInv, Drafting
  PROVE  /\ UNCHANGED <<clock, approved, passed, notices, process>>
         /\ candidates' \in SUBSET Drafts
         /\ evolving' \in [draft : Drafts \cup {NoFile}, step : {"off", "validates", "notifies"}]
         /\ evolving'.step = "notifies" => evolving'.draft \in passed
<1>0. evolving \in [draft : Drafts \cup {NoFile}, step : {"off", "validates", "notifies"}]
  BY DEF SkillsTypeOK
<1>1. ASSUME NEW d \in Drafts, Writes(d)
      PROVE  /\ UNCHANGED <<clock, approved, passed, notices, process>>
             /\ candidates' \in SUBSET Drafts
  BY <1>1 DEF Writes, SkillsTypeOK, process
<1>2. ASSUME NEW d \in Drafts, WriterDrafts(d) PROVE UNCHANGED evolving
  BY <1>2 DEF WriterDrafts
<1>3. ASSUME NEW d \in Drafts, EvolveDrafts(d)
      PROVE  evolving' = [draft |-> d, step |-> "validates"]
  BY <1>3 DEF EvolveDrafts
<1>4. ASSUME CronStarts \/ \E s \in Scripts : Ends(s) \/ Judges(s)
      PROVE  UNCHANGED <<clock, approved, passed, notices, process, candidates, evolving>>
  BY <1>4 DEF CronStarts, Ends, Judges, Validates, process
<1>5. ASSUME NEW s \in Scripts, Moves(s)
      PROVE  /\ UNCHANGED <<clock, approved, passed, notices, process, evolving>>
             /\ candidates' \in SUBSET Drafts
  <2>1. candidates' \subseteq candidates
    BY <1>5 DEF Moves
  <2> QED BY <1>5, <2>1 DEF Moves, Validates, process, SkillsTypeOK
<1>6. ASSUME NEW s \in Scripts, Killed(s)
      PROVE  /\ UNCHANGED <<clock, approved, passed, notices, process, candidates>>
             /\ evolving' \in {evolving, NoDraft}
  BY <1>6 DEF Killed, process
<1>7. ASSUME Checks
      PROVE  /\ UNCHANGED <<clock, approved, passed, notices, process, candidates>>
             /\ \/ evolving' = NoDraft
                \/ /\ evolving' = [evolving EXCEPT !.step = "notifies"]
                   /\ evolving.draft \in passed
  BY <1>7 DEF Checks, WasApproved, PassedInv, process
<1>8. ASSUME NEW d \in Drafts, WriterDrafts(d) \/ EvolveDrafts(d) PROVE Writes(d)
  BY <1>8 DEF WriterDrafts, EvolveDrafts
<1>9. CASE \E d \in Drafts : WriterDrafts(d) \/ EvolveDrafts(d)
  BY <1>0, <1>1, <1>2, <1>3, <1>8, <1>9 DEF PassedInv
<1>10. CASE CronStarts \/ \E s \in Scripts : Ends(s) \/ Judges(s) \/ Moves(s)
  BY <1>0, <1>4, <1>5, <1>10 DEF PassedInv, SkillsTypeOK
<1>11. CASE \E s \in Scripts : Killed(s)
  BY <1>0, <1>6, <1>11 DEF PassedInv, SkillsTypeOK, NoDraft
<1>12. CASE Checks
  <2>1. [evolving EXCEPT !.step = "notifies"]
          = [draft |-> evolving.draft, step |-> "notifies"]
    BY <1>0
  <2>2. evolving.draft \in Drafts \cup {NoFile}
    BY <1>0
  <2> QED BY <1>7, <1>12, <2>1, <2>2 DEF SkillsTypeOK, NoDraft
<1> QED BY <1>9, <1>10, <1>11, <1>12 DEF Drafting

\* The steps of the process that answers the NPCs.
Serving == (\E n \in Npcs : TryDecide(n)) \/ Decides \/ Polls \/ SendsLine

LEMMA SkillsCases ==
  ASSUME [SkillsNext]_skillsVars
  PROVE  \/ Drafting
         \/ \E s \in Scripts : Copies(s)
         \/ Notifies
         \/ Serving
         \/ \E n \in Npcs : RollsBack(n)
         \/ Restart
         \/ UNCHANGED skillsVars
BY DEF SkillsNext, Validation, Drafting, Serving

\* What copying a file does to the process, and to the files of it.
LEMMA CopyStep ==
  ASSUME SkillsTypeOK, NEW s \in Scripts, Copies(s)
  PROVE  /\ UNCHANGED <<candidates, evolving, notices, process>>
         /\ \/ UNCHANGED <<clock, approved, passed>>
            \/ \E d \in candidates :
                 /\ clock' = clock + 1
                 /\ approved' = approved \cup {<<d, clock'>>}
                 /\ passed' = passed \cup {d}
BY DEF Copies, Ticks, process

\* What a decision runs is in approved/, and is what the table has for the NPC.
LEMMA DecideStep ==
  ASSUME SkillsTypeOK, ClockInv, NEW n \in Npcs, TryDecide(n)
  PROVE  /\ UNCHANGED <<clock, sandbox, started, seenLines, outbox, sent>>
         /\ byNpc' \in {byNpc, Scan}
         /\ running' = byNpc'[n]
         /\ running' \in approved \cup {NoFile}
<1>1. PICK table \in {byNpc, Scan} :
        LET fresh == IF table[n] \in approved \cup {NoFile} THEN table ELSE Scan
        IN  byNpc' = fresh /\ running' = fresh[n]
  BY DEF TryDecide
<1>2. Scan[n] \in approved \cup {NoFile}
  BY ScanType DEF SkillsTypeOK, ClockInv
<1>3. UNCHANGED <<clock, sandbox, started, seenLines, outbox, sent>>
  BY DEF TryDecide
<1> QED BY <1>1, <1>2, <1>3

-----------------------------------------------------------------------------
(* The inductive step *)

LEMMA ServingTypes ==
  ASSUME SkillsTypeOK, ClockInv, Serving
  PROVE  SkillsTypeOK'
<1>1. ASSUME NEW n \in Npcs, TryDecide(n) PROVE SkillsTypeOK'
  <2>1. Scan \in [Npcs -> File \cup {NoFile}]
    <3>1. \A m \in Npcs : Scan[m] \in File \cup {NoFile}
      BY ScanType DEF SkillsTypeOK, ClockInv
    <3> QED BY <3>1 DEF Scan
  <2>2. byNpc' \in [Npcs -> File \cup {NoFile}]
    BY <1>1, <2>1, DecideStep DEF SkillsTypeOK
  <2>3. running' \in File \cup {NoFile}
    BY <1>1, DecideStep DEF SkillsTypeOK
  <2> QED BY <1>1, <2>2, <2>3, DecideStep DEF SkillsTypeOK, sandbox
<1>2. CASE Decides
  BY <1>2 DEF Decides, SkillsTypeOK, sandbox
<1>3. CASE Polls
  <2> DEFINE new == [i \in 1..(Len(notices) - seenLines) |-> seenLines + i]
  <2>1. /\ UNCHANGED <<clock, sandbox, started, byNpc, running, sent>>
        /\ seenLines' = Len(notices)
        /\ outbox' \in {<<>>, new}
        /\ seenLines < Len(notices)
    BY <1>3 DEF Polls
  <2>2. Len(notices) \in Nat /\ seenLines \in Nat
    BY DEF SkillsTypeOK
  <2>3. new \in Seq(Nat) /\ <<>> \in Seq(Nat)
    BY <2>1, <2>2
  <2> HIDE DEF new
  <2>4. outbox' \in Seq(Nat)
    BY <2>1, <2>3
  <2> QED BY <2>1, <2>2, <2>4 DEF SkillsTypeOK, sandbox
<1>4. CASE SendsLine
  <2>1. outbox # <<>> /\ outbox \in Seq(Nat) /\ sent \in Seq(Nat)
    BY <1>4 DEF SendsLine, SkillsTypeOK
  <2>2. /\ Tail(outbox) \in Seq(Nat) /\ <<>> \in Seq(Nat)
        /\ Append(sent, Head(outbox)) \in Seq(Nat)
    BY <2>1
  <2>3. outbox' \in Seq(Nat) /\ sent' \in Seq(Nat)
    BY <1>4, <2>1, <2>2 DEF SendsLine
  <2> QED BY <1>4, <2>3 DEF SendsLine, SkillsTypeOK, sandbox
<1> QED BY <1>1, <1>2, <1>3, <1>4 DEF Serving

LEMMA SkillsTypeStep ==
  ASSUME SkillsInv, [SkillsNext]_skillsVars
  PROVE  SkillsTypeOK'
<1>0. SkillsTypeOK /\ PassedInv /\ ClockInv
  BY DEF SkillsInv
<1>1. CASE Drafting
  BY <1>0, <1>1, DraftingSteps DEF SkillsTypeOK, process
<1>2. ASSUME NEW s \in Scripts, Copies(s) PROVE SkillsTypeOK'
  <2>1. clock' \in Nat /\ passed' \in SUBSET Drafts
    <3>1. clock \in Nat /\ passed \in SUBSET Drafts /\ candidates \in SUBSET Drafts
      BY <1>0 DEF SkillsTypeOK
    <3>2. \/ UNCHANGED <<clock, passed>>
          \/ \E d \in candidates : clock' = clock + 1 /\ passed' = passed \cup {d}
      BY <1>0, <1>2, CopyStep
    <3> QED BY <3>1, <3>2
  <2>2. approved' \in SUBSET File
    BY <1>0, <1>2, CopyStep DEF SkillsTypeOK, File
  <2> QED BY <1>0, <1>2, <2>1, <2>2, CopyStep DEF SkillsTypeOK, process
<1>3. CASE Notifies
  <2>0. evolving.draft \in Drafts \cup {NoFile} /\ notices \in Seq(Drafts \cup {NoFile})
    BY <1>0 DEF SkillsTypeOK
  <2>1. notices' \in Seq(Drafts \cup {NoFile})
    BY <1>3, <2>0 DEF Notifies
  <2> QED BY <1>0, <1>3, <2>1 DEF Notifies, SkillsTypeOK, process, NoDraft
<1>4. CASE Serving
  BY <1>0, <1>4, ServingTypes
<1>5. ASSUME NEW n \in Npcs, RollsBack(n) PROVE SkillsTypeOK'
  <2>1. approved' \subseteq approved
    BY <1>5 DEF RollsBack
  <2> QED BY <1>0, <1>5, <2>1 DEF RollsBack, SkillsTypeOK, process
<1>6. CASE Restart
  BY <1>0, <1>6 DEF Restart, Ticks, SkillsTypeOK, sandbox
<1>7. CASE UNCHANGED skillsVars
  BY <1>0, <1>7 DEF skillsVars, SkillsTypeOK
<1> QED BY <1>1, <1>2, <1>3, <1>4, <1>5, <1>6, <1>7, SkillsCases

LEMMA ClockStep ==
  ASSUME SkillsInv, [SkillsNext]_skillsVars
  PROVE  ClockInv'
<1>0. SkillsTypeOK /\ PassedInv /\ ClockInv
  BY DEF SkillsInv
<1> USE <1>0 DEF ClockInv
<1>1. CASE Drafting
  BY <1>1, DraftingSteps DEF process
<1>2. ASSUME NEW s \in Scripts, Copies(s) PROVE ClockInv'
  <2>1. started' = started /\ clock \in Nat /\ started \in Nat
    BY <1>2, CopyStep DEF process, SkillsTypeOK
  <2>2. \A f \in approved : f[2] \in Nat
    BY DEF SkillsTypeOK, File
  <2>3. CASE UNCHANGED <<clock, approved>>
    BY <2>1, <2>3
  <2>4. CASE clock' = clock + 1 /\ \E d : approved' = approved \cup {<<d, clock'>>}
    BY <2>1, <2>2, <2>4
  <2> QED BY <1>2, <2>3, <2>4, CopyStep
<1>3. CASE Notifies
  BY <1>3 DEF Notifies, process
<1>4. CASE Serving
  BY <1>4, DecideStep DEF Serving, Decides, Polls, SendsLine, sandbox
<1>5. ASSUME NEW n \in Npcs, RollsBack(n) PROVE ClockInv'
  BY <1>5 DEF RollsBack, process
<1>6. CASE Restart
  BY <1>6 DEF Restart, Ticks, sandbox, SkillsTypeOK, File
<1>7. CASE UNCHANGED skillsVars
  BY <1>7 DEF skillsVars
<1> QED BY <1>1, <1>2, <1>3, <1>4, <1>5, <1>6, <1>7, SkillsCases

LEMMA TableStep ==
  ASSUME SkillsInv, [SkillsNext]_skillsVars
  PROVE  TableInv'
<1>0. SkillsTypeOK /\ PassedInv /\ ClockInv /\ TableInv
  BY DEF SkillsInv
<1>1. ASSUME UNCHANGED <<byNpc, started>>, approved' \subseteq approved PROVE TableInv'
  BY <1>0, <1>1 DEF TableInv, Eligible
<1>2. ASSUME NEW s \in Scripts, Copies(s) PROVE TableInv'
  <2>1. UNCHANGED <<byNpc, started>>
    BY <1>0, <1>2, CopyStep DEF process
  <2>2. ASSUME NEW f \in approved', NpcOf(f[1]) = Pest, Eligible(f)
        PROVE  f \in approved
    <3>1. f \in approved \/ f[2] = clock + 1
      BY <1>0, <1>2, CopyStep
    <3>2. f[2] <= started /\ started <= clock /\ clock \in Nat /\ started \in Nat
      BY <1>0, <2>2 DEF Eligible, ClockInv, SkillsTypeOK
    <3> QED BY <3>1, <3>2
  <2>3. \A g : Eligible(g)' = Eligible(g)
    BY <2>1 DEF Eligible
  <2> QED BY <1>0, <2>1, <2>2, <2>3 DEF TableInv
<1>3. CASE Serving
  <2>1. CASE UNCHANGED <<byNpc, started, approved>>
    BY <1>1, <2>1
  <2>2. ASSUME NEW n \in Npcs, TryDecide(n) PROVE TableInv'
    <3>1. byNpc' \in {byNpc, Scan} /\ UNCHANGED <<started, approved>>
      BY <1>0, <2>2, DecideStep DEF sandbox
    <3>2. CASE byNpc' = Scan
      <4>1. \A g : Eligible(g)' = Eligible(g)
        BY <3>1 DEF Eligible
      <4>2. ASSUME NEW m \in Npcs, Scan[m] # NoFile
            PROVE  /\ NpcOf(Scan[m][1]) = m
                   /\ Eligible(Scan[m])
                   /\ m = Pest =>
                        \A f \in approved :
                          NpcOf(f[1]) = Pest /\ Eligible(f) => f[2] <= Scan[m][2]
        BY <1>0, <4>2, ScanType DEF SkillsTypeOK, ClockInv
      <4> QED BY <3>1, <3>2, <4>1, <4>2 DEF TableInv
    <3> QED BY <1>1, <3>1, <3>2
  <2> QED BY <1>3, <2>1, <2>2 DEF Serving, Decides, Polls, SendsLine, sandbox
<1>4. CASE Restart
  BY <1>4 DEF Restart, TableInv
<1>5. CASE Drafting \/ Notifies \/ UNCHANGED skillsVars
  BY <1>0, <1>1, <1>5, DraftingSteps DEF Notifies, skillsVars, process
<1>6. ASSUME NEW n \in Npcs, RollsBack(n) PROVE TableInv'
  BY <1>1, <1>6 DEF RollsBack, process
<1> QED BY <1>2, <1>3, <1>4, <1>5, <1>6, SkillsCases

LEMMA PassedStep ==
  ASSUME SkillsInv, [SkillsNext]_skillsVars
  PROVE  PassedInv'
<1>0. SkillsTypeOK /\ PassedInv /\ ClockInv
  BY DEF SkillsInv
<1> USE <1>0 DEF PassedInv, NoticedWasApproved
<1>1. CASE Drafting
  BY <1>1, DraftingSteps
<1>2. ASSUME NEW s \in Scripts, Copies(s) PROVE PassedInv'
  BY <1>2, CopyStep
<1>3. CASE Notifies
  <2>1. /\ notices' \in {notices, Append(notices, evolving.draft)}
        /\ evolving.draft \in passed
        /\ notices \in Seq(Drafts \cup {NoFile})
    BY <1>3 DEF Notifies, SkillsTypeOK
  <2>2. ASSUME NEW i \in DOMAIN notices' PROVE notices'[i] \in passed
    BY <2>1
  <2> QED BY <1>3, <2>2 DEF Notifies, NoDraft
<1>4. CASE Serving
  BY <1>4, DecideStep DEF Serving, Decides, Polls, SendsLine, sandbox
<1>5. ASSUME NEW n \in Npcs, RollsBack(n) PROVE PassedInv'
  BY <1>5 DEF RollsBack
<1>6. CASE Restart
  BY <1>6 DEF Restart, sandbox
<1>7. CASE UNCHANGED skillsVars
  BY <1>7 DEF skillsVars
<1> QED BY <1>1, <1>2, <1>3, <1>4, <1>5, <1>6, <1>7, SkillsCases

LEMMA LinesStep ==
  ASSUME SkillsInv, [SkillsNext]_skillsVars
  PROVE  LinesInv'
<1>0. SkillsTypeOK /\ PassedInv /\ ClockInv /\ LinesInv
  BY DEF SkillsInv
<1>1. CASE UNCHANGED <<seenLines, outbox, sent>>
  BY <1>0, <1>1 DEF LinesInv, SentOncePerRun
<1>2. CASE Polls
  <2> DEFINE new == [i \in 1..(Len(notices) - seenLines) |-> seenLines + i]
  <2>1. /\ outbox' \in {<<>>, new}
        /\ sent' = sent /\ seenLines' = Len(notices) /\ seenLines < Len(notices)
        /\ Len(notices) \in Nat /\ seenLines \in Nat /\ sent \in Seq(Nat)
    BY <1>0, <1>2 DEF Polls, SkillsTypeOK
  <2>2. \A i \in DOMAIN sent : sent[i] <= seenLines /\ sent[i] \in Nat
    BY <1>0, <2>1 DEF LinesInv
  <2>3. /\ \A i \in DOMAIN new : new[i] <= Len(notices) /\ seenLines < new[i]
        /\ \A i, j \in DOMAIN new : i < j => new[i] < new[j]
        /\ \A i \in DOMAIN new : new[i] \in Nat
    BY <2>1
  <2> HIDE DEF new
  <2>4. \A i \in DOMAIN sent, j \in DOMAIN new : sent[i] < new[j]
    BY <2>1, <2>2, <2>3
  <2>5. CASE outbox' = new
    BY <1>0, <2>1, <2>2, <2>3, <2>4, <2>5 DEF LinesInv, SentOncePerRun
  <2>6. CASE outbox' = <<>>
    BY <1>0, <2>1, <2>2, <2>6 DEF LinesInv, SentOncePerRun
  <2> QED BY <2>1, <2>5, <2>6
<1>3. CASE SendsLine
  <2>1. /\ outbox # <<>> /\ outbox \in Seq(Nat) /\ sent \in Seq(Nat)
        /\ seenLines' = seenLines
    BY <1>0, <1>3 DEF SendsLine, SkillsTypeOK
  <2>2. CASE outbox' = <<>> /\ UNCHANGED sent
    BY <1>0, <2>1, <2>2 DEF LinesInv, SentOncePerRun
  <2>3. CASE sent' = Append(sent, Head(outbox)) /\ outbox' = Tail(outbox)
    <3>1. /\ Len(sent') = Len(sent) + 1
          /\ \A i \in 1..Len(sent) : sent'[i] = sent[i]
          /\ sent'[Len(sent) + 1] = outbox[1]
          /\ DOMAIN sent' = 1..(Len(sent) + 1)
          /\ Len(outbox) \in Nat /\ Len(outbox) > 0 /\ Len(sent) \in Nat
      BY <2>1, <2>3
    <3>2. /\ DOMAIN outbox' = 1..(Len(outbox) - 1)
          /\ \A i \in DOMAIN outbox' : outbox'[i] = outbox[i + 1]
      BY <2>1, <2>3
    <3>3. /\ \A i \in 1..Len(sent) : sent[i] <= seenLines
          /\ \A i \in 1..Len(outbox) : outbox[i] <= seenLines
          /\ \A i \in 1..Len(sent), j \in 1..Len(outbox) : sent[i] < outbox[j]
          /\ \A i, j \in 1..Len(outbox) : i < j => outbox[i] < outbox[j]
          /\ \A i, j \in 1..Len(sent) : i < j => sent[i] < sent[j]
      BY <1>0, <2>1 DEF LinesInv, SentOncePerRun
    <3>4. /\ \A i \in DOMAIN sent' : sent'[i] <= seenLines
          /\ \A i, j \in DOMAIN sent' : i < j => sent'[i] < sent'[j]
      BY <3>1, <3>3
    <3>5. /\ \A i \in DOMAIN outbox' : outbox'[i] <= seenLines
          /\ \A i, j \in DOMAIN outbox' : i < j => outbox'[i] < outbox'[j]
      <4>1. \A i \in DOMAIN outbox' : i \in Nat /\ i + 1 \in 1..Len(outbox)
        BY <3>1, <3>2
      <4>2. \A i, j \in DOMAIN outbox' : i < j => i + 1 < j + 1
        BY <3>1, <3>2
      <4> QED BY <3>2, <3>3, <4>1, <4>2
    <3>6. \A i \in DOMAIN sent', j \in DOMAIN outbox' : sent'[i] < outbox'[j]
      BY <3>1, <3>2, <3>3
    <3> QED BY <2>1, <3>4, <3>5, <3>6 DEF LinesInv, SentOncePerRun
  <2> QED BY <1>3, <2>2, <2>3 DEF SendsLine
<1>4. CASE Restart
  BY <1>4 DEF Restart, LinesInv, SentOncePerRun
<1>5. ASSUME NEW s \in Scripts, Copies(s) PROVE LinesInv'
  BY <1>0, <1>1, <1>5, CopyStep DEF process
<1>6. CASE Drafting \/ Notifies \/ UNCHANGED skillsVars
  BY <1>0, <1>1, <1>6, DraftingSteps DEF Notifies, skillsVars, process
<1>7. ASSUME NEW n \in Npcs, RollsBack(n) PROVE LinesInv'
  BY <1>1, <1>7 DEF RollsBack, process
<1>8. CASE Serving
  BY <1>0, <1>1, <1>2, <1>3, <1>8, DecideStep DEF Serving, Decides
<1> QED BY <1>4, <1>5, <1>6, <1>7, <1>8, SkillsCases

LEMMA SkillsInvariant == SkillsSpec => []SkillsInv
<1>1. SkillsInit => SkillsInv
  BY DEF SkillsInit, SkillsInv, SkillsTypeOK, ClockInv, TableInv, PassedInv, LinesInv,
         NoticedWasApproved, SentOncePerRun, NoDraft
<1>2. SkillsInv /\ [SkillsNext]_skillsVars => SkillsInv'
  BY SkillsTypeStep, ClockStep, TableStep, PassedStep, LinesStep DEF SkillsInv
<1> QED BY <1>1, <1>2, PTL DEF SkillsSpec

\* Every variable keeps its type.
THEOREM SkillsTypeCorrect == SkillsSpec => []SkillsTypeOK
<1>1. SkillsInv => SkillsTypeOK
  BY DEF SkillsInv
<1> QED BY <1>1, SkillsInvariant, PTL

\* Whatever scripts run side by side, end early or are killed, the owner is told
\* of candidates that have passed (pest_evolve.py).
THEOREM NoticesAreTrue == SkillsSpec => []NoticedWasApproved
<1>1. SkillsInv => NoticedWasApproved
  BY DEF SkillsInv, PassedInv
<1> QED BY <1>1, SkillsInvariant, PTL

\* A process sends the lines in their order and none twice (pest_notice_daemon).
THEOREM LinesInOrder == SkillsSpec => []SentOncePerRun
<1>1. SkillsInv => SentOncePerRun
  BY DEF SkillsInv, LinesInv
<1> QED BY <1>1, SkillsInvariant, PTL

\* What begins to run is approved, and of Pest the newest that was when the
\* process started (skill_runtime.py).
THEOREM ActiveOnly == SkillsSpec => RunsTheActive
<1>1. SkillsInv /\ SkillsInv' /\ [SkillsNext]_skillsVars =>
        [running = NoFile /\ running' # NoFile =>
           LET d == running'[1]
           IN  /\ running' \in approved
               /\ NpcOf(d) = Pest =>
                    /\ running'[2] <= started
                    /\ \A f \in approved :
                         NpcOf(f[1]) = Pest /\ f[2] <= started => f[2] <= running'[2]]_skillsVars
  <2> SUFFICES ASSUME SkillsInv, SkillsInv', [SkillsNext]_skillsVars,
                      running = NoFile, running' # NoFile
               PROVE  /\ running' \in approved
                      /\ NpcOf(running'[1]) = Pest =>
                           /\ running'[2] <= started
                           /\ \A f \in approved :
                                NpcOf(f[1]) = Pest /\ f[2] <= started
                                  => f[2] <= running'[2]
    OBVIOUS
  <2>0. SkillsTypeOK /\ PassedInv /\ ClockInv /\ TableInv'
    BY DEF SkillsInv
  <2>1. PICK n \in Npcs : TryDecide(n)
    <3>1. ~ (Drafting \/ Notifies \/ \E s \in Scripts : Copies(s))
      BY <2>0, DraftingSteps, CopyStep DEF Notifies, process
    <3>2. ~ (Restart \/ UNCHANGED skillsVars \/ \E n \in Npcs : RollsBack(n))
      BY DEF Restart, skillsVars, RollsBack, process
    <3> QED BY <3>1, <3>2, SkillsCases DEF Serving, Decides, Polls, SendsLine
  <2>2. /\ running' = byNpc'[n] /\ running' \in approved
        /\ UNCHANGED <<approved, started>>
    BY <2>0, <2>1, DecideStep DEF sandbox
  <2>3. /\ NpcOf(byNpc'[n][1]) = n
        /\ Eligible(byNpc[n])'
        /\ n = Pest =>
             \A f \in approved' : NpcOf(f[1]) = Pest /\ Eligible(f)' => f[2] <= byNpc'[n][2]
    BY <2>0, <2>2 DEF TableInv
  <2>4. \A g : Eligible(g)' = Eligible(g)
    BY <2>2 DEF Eligible
  <2>5. CASE NpcOf(running'[1]) = Pest
    BY <2>2, <2>3, <2>4, <2>5 DEF Eligible
  <2> QED BY <2>2, <2>5
<1> QED BY <1>1, SkillsInvariant, PTL DEF SkillsSpec, RunsTheActive

=============================================================================
