---------------------------- MODULE LookupProofs ----------------------------
(***************************************************************************)
(* The inductive invariant of Lookup, and from it, for any number of       *)
(* objects, pages of any size and every kind of data source: the types,    *)
(* that a lookup misses nothing that was there all the time unless the     *)
(* list has changed in the wrong way, and that it finds nothing twice that *)
(* is there once unless the pages have begun again.                        *)
(***************************************************************************)
EXTENDS Lookup, CountingProofs

-----------------------------------------------------------------------------
(***************************************************************************)
(* The inductive invariant.                                                *)
(***************************************************************************)

Paged == kind.lists \in {"pages", "search"}
Offset == kind.lists = "offset"
FirstOnly == kind.lists \in {"once", "query"}

After(c) == {i \in Listed : i > c}

Came == ObjectsOf(matches)

\* Of these objects, everything that is looked for has come.
HaveCome(S) == \A i \in S : Asked(i) /\ Matches(i) => i \in Came

\* Nothing has come twice.
Distinct == \A m, n \in matches : m[2] = n[2] => m = n

\* Where a listing stands while it goes on.
Going ==
    pc = "list" =>
        /\ count = 0 => total = 0 /\ cursor = 0 /\ matches = {}
        /\ Paged /\ count > 0 => count < total
        /\ Offset => total = 0 /\ count <= Objects
        /\ FirstOnly => count = 0

\* Either what stayed has come, and the pages have begun again, or it has come up
\* to the cursor, and what is left is not more than what was announced.
NoneMissed ==
    pc = "list" /\ count > 0 =>
        /\ Paged /\ "created" \notin since =>
              \/ HaveCome(stayed)
              \/ /\ HaveCome({i \in stayed : i <= cursor})
                 /\ count + Cardinality(After(cursor)) <= total
        /\ Offset /\ "deleted" \notin since =>
              HaveCome({i \in stayed : Before(i) <= count})

\* A listing that is over has seen everything, unless it stopped at the second.
AllSeen ==
    pc = "pick" /\ Whole => HaveCome(stayed) \/ (kind.picks = "only" /\ Cardinality(matches) > 1)

\* The pages have not begun again, and what is left is enough.
NoneTwice ==
    /\ pc = "list" /\ count > 0 =>
          /\ Paged /\ "deleted" \notin since =>
                /\ \A i \in Came : i <= cursor
                /\ count + Cardinality(After(cursor)) >= total
          /\ Offset /\ "created" \notin since =>
                \A i \in Came \cap Listed : Before(i) <= count
    /\ pc \in {"list", "pick"}
       /\ (IF Offset THEN "created" ELSE "deleted") \notin since => Distinct

IInv == TypeOK /\ Going /\ NoneMissed /\ AllSeen /\ NoneTwice
          /\ NothingStayedMissed /\ NoFalseMultiple

-----------------------------------------------------------------------------
(***************************************************************************)
(* The list.                                                               *)
(***************************************************************************)

LEMMA Constants == /\ Objects \in Nat /\ Objects >= 1
                   /\ PageSize \in Nat /\ PageSize >= 1
                   /\ Kinds \subseteq Profile
BY LookupAssumption

LEMMA KindType ==
    ASSUME TypeOK
    PROVE  /\ Paged \/ Offset \/ FirstOnly
           /\ ~(Paged /\ Offset) /\ ~(Paged /\ FirstOnly) /\ ~(Offset /\ FirstOnly)
<1>1. kind \in Profile
  BY Constants DEF TypeOK
<1>2. kind.lists \in {"pages", "search", "offset", "once", "query"}
  BY <1>1 DEF Profile
<1> QED  BY <1>2 DEF Paged, Offset, FirstOnly

\* What is listed is counted as CountingProofs does.
LEMMA ListedFacts ==
    /\ Listed \in SUBSET (1 .. Objects) /\ Listed \in SUBSET Int
    /\ IsFiniteSet(Listed) /\ Cardinality(Listed) \in 0 .. Objects
    /\ \A i : Before(i) = Rank(Listed, i) /\ Before(i) \in 0 .. Objects
    /\ Before(0) = 0
<1>1. Listed \in SUBSET (1 .. Objects)
  BY DEF Listed, Id
<1>2. IsFiniteSet(1 .. Objects) /\ Cardinality(1 .. Objects) = Objects
  <2>1. /\ IsFiniteSet(1 .. Objects)
        /\ Cardinality(1 .. Objects) = IF 1 > Objects THEN 0 ELSE Objects - 1 + 1
    BY FS_Interval, Constants
  <2> QED  BY <2>1, Constants
<1>3. /\ IsFiniteSet(Listed) /\ Cardinality(Listed) \in Nat
      /\ Cardinality(Listed) <= Objects
  BY <1>1, <1>2, FS_Subset, FS_CardinalityType
<1>4. \A i : Before(i) = Rank(Listed, i)
  BY DEF Before, Rank
<1>5. \A i : Before(i) \in 0 .. Objects
  <2> TAKE i
  <2>1. Rank(Listed, i) \in Nat /\ Rank(Listed, i) <= Cardinality(Listed)
    BY <1>3, RankType
  <2> QED  BY <1>3, <1>4, <2>1, Constants
<1>6. Before(0) = 0
  <2>1. \A j \in Listed : ~(j <= 0)
    BY <1>1
  <2>2. {j \in Listed : j <= 0} = {}
    BY <2>1
  <2> QED  BY <2>2, FS_EmptySet DEF Before
<1>7. Listed \in SUBSET Int
  BY <1>1
<1> QED  BY <1>1, <1>3, <1>4, <1>5, <1>6, <1>7, Constants

\* The order of the list.
LEMMA ListOrder ==
    ASSUME NEW i \in Listed, NEW c \in Nat
    PROVE  /\ i \in 1 .. Objects
           /\ c < i <=> Before(c) < Before(i)
           /\ Before(c) \in Nat /\ Before(i) \in 1 .. Objects
<1>1. i \in 1 .. Objects /\ i \in Int /\ c \in Int
  BY ListedFacts
<1>2. \A d \in Nat : d < i <=> Before(d) < Before(i)
  BY <1>1, ListedFacts, RankAfter
<1>3. Before(0) < Before(i)
  BY <1>1, <1>2
<1>4. Before(c) \in Nat /\ Before(i) \in 0 .. Objects
  BY ListedFacts
<1> QED  BY <1>1, <1>2, <1>3, <1>4, ListedFacts

LEMMA MaxOf ==
    ASSUME NEW S \in SUBSET Listed, S # {}
    PROVE  Max(S) \in S /\ \A m \in S : m <= Max(S)
<1>1. S \in SUBSET (0 .. Objects)
  BY ListedFacts, Constants
<1>2. \E n \in S : \A m \in S : m <= n
  BY <1>1, GreatestElement, Constants
<1>3. \E n \in S : \A m \in S : n >= m
  BY <1>1, <1>2
<1>4. Max(S) \in S /\ \A m \in S : Max(S) >= m
  BY <1>3 DEF Max
<1> QED  BY <1>1, <1>4

-----------------------------------------------------------------------------
(***************************************************************************)
(* A page.                                                                 *)
(***************************************************************************)

LEMMA FirstType ==
    ASSUME TypeOK
    PROVE  First \in Nat
BY ListedFacts DEF TypeOK, First

\* A page has what comes next, and is not larger than it may be.
LEMMA PageFacts ==
    ASSUME TypeOK
    PROVE  /\ Page \in SUBSET Listed
           /\ Cardinality(Page) \in Nat /\ Cardinality(Page) <= PageSize
           /\ \A i \in Page : First < Before(i) /\ Before(i) <= First + PageSize
           /\ \A i \in Listed : First < Before(i) /\ Before(i) <= First + PageSize => i \in Page
<1>1. First \in Nat /\ First + PageSize \in Nat /\ First <= First + PageSize
  BY FirstType, Constants
<1>2. Page \in SUBSET Listed
  BY DEF Page
<1>3. \A i \in Page : Rank(Listed, i) \in First + 1 .. First + PageSize
  BY ListedFacts DEF Page
<1>4. /\ Cardinality(Page) \in Nat
      /\ Cardinality(Page) <= (First + PageSize) - First
  BY <1>1, <1>2, <1>3, ListedFacts, RankBetween
<1>5. \A i \in Listed : i \in Page <=> First < Before(i) /\ Before(i) <= First + PageSize
  <2> TAKE i \in Listed
  <2>1. Before(i) \in Nat
    BY ListedFacts
  <2> QED  BY <1>1, <2>1, Constants DEF Page
<1> QED  BY <1>1, <1>2, <1>4, <1>5, Constants

\* Nothing is left after an empty page.
LEMMA EmptyPage ==
    ASSUME TypeOK, Page = {}, NEW i \in Listed
    PROVE  Before(i) <= First
<1> SUFFICES ASSUME First < Before(i) PROVE FALSE
  BY FirstType, ListOrder
<1>1. First + 1 \in 1 .. Cardinality(Listed)
  <2>1. Rank(Listed, i) <= Cardinality(Listed) /\ Before(i) = Rank(Listed, i)
    BY ListedFacts, RankType
  <2> QED  BY <2>1, FirstType, ListedFacts
<1>2. PICK j \in Listed : Rank(Listed, j) = First + 1
  BY <1>1, ListedFacts, RankOnto, Constants
<1>3. Before(j) = First + 1
  BY <1>2, ListedFacts
<1>4. j \in Page
  BY <1>3, FirstType, PageFacts, Constants
<1> QED  BY <1>4

\* A page without a cursor is the last one; otherwise the cursor is its last
\* object.
LEMMA CursorFacts ==
    ASSUME TypeOK
    PROVE  \/ Cursor(Page) = 0 /\ \A i \in Listed : First < Before(i) => i \in Page
           \/ /\ Cursor(Page) \in Page /\ Cursor(Page) \in 1 .. Objects
              /\ \A i \in Page : i <= Cursor(Page)
<1>1. CASE Page = {}
  <2>1. \A i \in Listed : Before(i) <= First /\ Before(i) \in Nat
    BY <1>1, EmptyPage, ListedFacts
  <2>2. Cursor(Page) = 0
    BY <1>1 DEF Cursor
  <2> QED  BY <2>1, <2>2, FirstType
<1>2. CASE Page # {} /\ Max(Page) = Max(Listed)
  <2>1. Cursor(Page) = 0
    BY <1>2 DEF Cursor
  <2>2. Listed # {} /\ Page \in SUBSET Listed
    BY <1>2, PageFacts
  <2>3. Max(Page) \in Page /\ Max(Page) \in Listed /\ \A i \in Listed : i <= Max(Page)
    BY <1>2, <2>2, MaxOf
  <2>4. ASSUME NEW i \in Listed, First < Before(i) PROVE i \in Page
    <3>1. i \in 1 .. Objects /\ Max(Page) \in 1 .. Objects
      BY <2>3, ListedFacts
    <3>2. ~(Before(Max(Page)) < Before(i))
      BY <2>3, <3>1, ListOrder
    <3>3. Before(Max(Page)) <= First + PageSize
      BY <2>3, PageFacts
    <3> QED  BY <2>4, <3>2, <3>3, FirstType, ListedFacts, PageFacts, Constants
  <2> QED  BY <2>1, <2>4
<1>3. CASE Page # {} /\ Max(Page) # Max(Listed)
  <2>1. Cursor(Page) = Max(Page)
    BY <1>3 DEF Cursor
  <2>2. Max(Page) \in Page /\ \A i \in Page : i <= Max(Page)
    BY <1>3, PageFacts, MaxOf
  <2> QED  BY <2>1, <2>2, PageFacts, ListedFacts
<1> QED  BY <1>1, <1>2, <1>3

\* What comes after the cursor is the page, and what comes after the page.
LEMMA PageAfterCursor ==
    ASSUME TypeOK, ~Offset
    PROVE  /\ Cardinality(After(cursor)) \in Nat
           /\ Cardinality(After(Cursor(Page))) \in Nat
           /\ Cursor(Page) = 0 => After(cursor) = Page
           /\ Cursor(Page) # 0 =>
                 /\ \A i \in Listed : i <= Cursor(Page) => i <= cursor \/ i \in Page
                 /\ Cardinality(After(cursor))
                       = Cardinality(Page) + Cardinality(After(Cursor(Page)))
                 /\ cursor < Cursor(Page)
<1>1. cursor \in Nat /\ First = Before(cursor) /\ \A i \in Listed : i \in Nat
  BY ListedFacts DEF TypeOK, First, Offset
<1>2. \A i \in Listed : i > cursor <=> First < Before(i)
  BY <1>1, ListOrder
<1>3. Page \in SUBSET After(cursor)
  BY <1>2, PageFacts DEF After
<1>4. After(cursor) \in SUBSET Listed /\ After(Cursor(Page)) \in SUBSET Listed
  BY DEF After
<1>5. IsFiniteSet(After(cursor)) /\ IsFiniteSet(After(Cursor(Page)))
  BY <1>4, ListedFacts, FS_Subset
<1>6. ASSUME Cursor(Page) = 0 PROVE After(cursor) = Page
  <2>1. ~(Cursor(Page) \in 1 .. Objects)
    BY <1>6
  <2>2. \A i \in Listed : First < Before(i) => i \in Page
    BY <2>1, CursorFacts
  <2> QED  BY <1>2, <1>3, <2>2 DEF After
<1>7. ASSUME Cursor(Page) # 0
      PROVE  /\ \A i \in Listed : i <= Cursor(Page) => i <= cursor \/ i \in Page
             /\ Cardinality(After(cursor))
                   = Cardinality(Page) + Cardinality(After(Cursor(Page)))
             /\ cursor < Cursor(Page)
  <2> DEFINE c == Cursor(Page)
  <2>1. c \in Page /\ c \in 1 .. Objects /\ \A i \in Page : i <= c
    BY <1>7, CursorFacts
  <2>2. c \in Listed /\ Before(c) <= First + PageSize /\ cursor < c
    BY <1>1, <1>2, <2>1, PageFacts
  <2> HIDE DEF c
  <2>3. ASSUME NEW i \in Listed, i <= c, i > cursor PROVE i \in Page
    <3>1. ~(Before(c) < Before(i))
      BY <1>1, <2>1, <2>3, ListOrder
    <3>2. Before(i) \in Nat /\ Before(c) \in Nat
      BY ListedFacts
    <3>3. First < Before(i) /\ Before(i) <= First + PageSize
      BY <1>2, <2>2, <2>3, <3>1, <3>2, FirstType, Constants
    <3> QED  BY <3>3, PageFacts
  <2>4. After(cursor) \ Page = After(c)
    <3>1. ASSUME NEW i \in Listed PROVE i > c => i > cursor /\ i \notin Page
      BY <1>1, <2>1, <2>2
    <3>2. ASSUME NEW i \in Listed PROVE i > cursor /\ i \notin Page => i > c
      BY <1>1, <2>1, <2>3
    <3> QED  BY <3>1, <3>2 DEF After
  <2>5. Cardinality(After(cursor)) = Cardinality(Page) + Cardinality(After(cursor) \ Page)
    BY <1>3, <1>5, SplitInTwo
  <2>6. \A i \in Listed : i <= c => i <= cursor \/ i \in Page
    BY <1>1, <2>3
  <2> QED  BY <2>2, <2>4, <2>5, <2>6 DEF c
<1> QED  BY <1>5, <1>6, <1>7, FS_CardinalityType

\* By number, no more objects come than there are.
LEMMA OffsetPage ==
    ASSUME TypeOK, Offset, count <= Objects
    PROVE  count + Cardinality(Page) <= Objects
<1>1. count \in Nat /\ First = count
  BY DEF TypeOK, First, Offset
<1>2. Page \in SUBSET Listed /\ Cardinality(Page) \in Nat
  BY PageFacts
<1>3. \A i \in Page : Rank(Listed, i) \in count + 1 .. Objects
  <2> TAKE i \in Page
  <2>1. First < Before(i) /\ Before(i) = Rank(Listed, i) /\ Before(i) \in 0 .. Objects
    BY PageFacts, ListedFacts
  <2> QED  BY <1>1, <2>1
<1>4. Cardinality(Page) <= Objects - count
  BY <1>1, <1>2, <1>3, ListedFacts, RankBetween, Constants
<1> QED  BY <1>1, <1>2, <1>4, Constants

-----------------------------------------------------------------------------
(***************************************************************************)
(* What a step does to what the invariant speaks of.                       *)
(***************************************************************************)

LEMMA HitsFacts ==
    ASSUME TypeOK
    PROVE  /\ ObjectsOf(matches \cup Hits(Page)) = Came \cup {i \in Page : Matches(i)}
           /\ \A m \in Hits(Page) : m[2] \in Page
           /\ \A m, n \in Hits(Page) : m[2] = n[2] => m = n
           /\ \A i \in Page : count + Before(i) - First \in count + 1 .. count + PageSize
           /\ Offset => \A i \in Page : count + Before(i) - First = Before(i)
           /\ \A m \in Hits(Page) : \E i \in Page : m = <<count + Before(i) - First, i>>
<1>1. \A m \in Hits(Page) : \E i \in Page :
          Matches(i) /\ m = <<count + Before(i) - First, i>>
  BY DEF Hits
<1>2. \A i \in Page : Matches(i) => <<count + Before(i) - First, i>> \in Hits(Page)
  BY DEF Hits
<1>3. ObjectsOf(matches \cup Hits(Page)) = Came \cup {i \in Page : Matches(i)}
  <2>1. ASSUME NEW x \in ObjectsOf(matches \cup Hits(Page))
        PROVE  x \in Came \cup {i \in Page : Matches(i)}
    BY <1>1, <2>1 DEF ObjectsOf, Came
  <2>2. ASSUME NEW x \in Came
        PROVE  x \in ObjectsOf(matches \cup Hits(Page))
    BY <2>2 DEF ObjectsOf, Came
  <2>3. ASSUME NEW x \in Page, Matches(x)
        PROVE  x \in ObjectsOf(matches \cup Hits(Page))
    <3>1. <<count + Before(x) - First, x>>[2] = x
      OBVIOUS
    <3> QED  BY <1>2, <2>3, <3>1 DEF ObjectsOf
  <2> QED  BY <2>1, <2>2, <2>3
<1>4. count \in Nat
  BY DEF TypeOK
<1>5. \A i \in Page : count + Before(i) - First \in count + 1 .. count + PageSize
  <2> TAKE i \in Page
  <2>1. Before(i) \in Nat /\ First < Before(i) /\ Before(i) <= First + PageSize
    BY PageFacts, ListedFacts
  <2> QED  BY <1>4, <2>1, FirstType, Constants
<1>6. Offset => \A i \in Page : count + Before(i) - First = Before(i)
  <2> SUFFICES ASSUME Offset, NEW i \in Page PROVE count + Before(i) - First = Before(i)
    OBVIOUS
  <2>1. First = count /\ Before(i) \in Nat
    BY ListedFacts DEF First, Offset
  <2> QED  BY <1>4, <2>1
<1>7. \A m \in Hits(Page) : m[2] \in Page /\ m = <<count + Before(m[2]) - First, m[2]>>
  BY <1>1
<1> QED  BY <1>1, <1>3, <1>5, <1>6, <1>7

\* A page comes.
Announced == IF Offset THEN 0 ELSE IF total = 0 THEN Cardinality(Listed) ELSE total
StopsAtSecond == kind.picks = "only" /\ Cardinality(matches') > 1

LEMMA FetchEffect ==
    ASSUME TypeOK, Fetch
    PROVE  /\ pc = "list" /\ pc' \in {"list", "pick"}
           /\ total' = Announced
           /\ count' = count + Cardinality(Page)
           /\ cursor' = Cursor(Page)
           /\ matches' = matches \cup Hits(Page)
           /\ Came' = Came \cup {i \in Page : Matches(i)}
           /\ pc' = "list" => \/ Paged /\ count' < total'
                              \/ Offset /\ count' > count
           /\ pc' = "pick" => \/ StopsAtSecond
                              \/ Paged /\ count' >= total'
                              \/ Offset /\ ~(count' > count)
                              \/ FirstOnly
           /\ UNCHANGED <<inventory, there, result, found, history>>
<1>1. /\ pc = "list"
      /\ total' = Announced
      /\ count' = count + Cardinality(Page)
      /\ cursor' = Cursor(Page)
      /\ matches' = matches \cup Hits(Page)
      /\ pc' = IF More(total', count') /\ ~StopsAtSecond THEN "list" ELSE "pick"
      /\ UNCHANGED <<inventory, there, result, found, history>>
  BY DEF Fetch, Announced, Offset, Seen, NextCursor, StopsAtSecond
<1>2. Came' = Came \cup {i \in Page : Matches(i)}
  <2>1. Came' = ObjectsOf(matches \cup Hits(Page))
    BY <1>1 DEF Came, ObjectsOf
  <2> QED  BY <2>1, HitsFacts
<1>3. /\ Paged => (More(total', count') <=> count' < total')
      /\ Offset => (More(total', count') <=> count' > count)
      /\ FirstOnly => ~More(total', count')
  BY DEF More, Paged, Offset, FirstOnly
<1>4. count \in Nat /\ Cardinality(Page) \in Nat /\ count' \in Nat /\ total' \in Nat
  BY <1>1, PageFacts, ListedFacts DEF TypeOK, Announced
<1> QED  BY <1>1, <1>2, <1>3, <1>4, KindType

\* A step that leaves the names alone leaves alone what is looked for.
LEMMA SameNames ==
    ASSUME UNCHANGED inventory
    PROVE  /\ \A i : (Asked(i))' = Asked(i) /\ (Matches(i))' = Matches(i)
           /\ \A i, how : (Is(i, how))' = Is(i, how)
           /\ Paged' = Paged /\ Offset' = Offset /\ FirstOnly' = FirstOnly
BY DEF inventory, Asked, Matches, Begins, Is, Paged, Offset, FirstOnly

LEMMA SameList ==
    ASSUME UNCHANGED <<inventory, there>>
    PROVE  /\ Listed' = Listed
           /\ \A i : (Before(i))' = Before(i)
           /\ \A c : (After(c))' = After(c)
BY SameNames DEF Listed, Before, After

\* What others create is added to the list, what they delete taken out.
LEMMA ListGrows ==
    ASSUME TypeOK, Create
    PROVE  /\ Listed \in SUBSET Listed'
           /\ \A c : Before(c) <= (Before(c))' /\ (Before(c))' \in Nat
           /\ \A c : /\ Cardinality(After(c)) <= Cardinality((After(c))')
                     /\ Cardinality((After(c))') \in Nat
<1>1. PICK i \in Id : /\ there[i] = "future" /\ there' = [there EXCEPT ![i] = "there"]
                      /\ UNCHANGED inventory
  BY DEF Create
<1>2. Listed \in SUBSET Listed'
  BY <1>1, SameNames DEF Listed, TypeOK
<1>3. Listed' \in SUBSET (1 .. Objects)
  BY DEF Listed, Id
<1>4. IsFiniteSet(Listed')
  <2>1. IsFiniteSet(1 .. Objects)
    BY FS_Interval, Constants
  <2> QED  BY <1>3, <2>1, FS_Subset
<1> QED  BY <1>2, <1>4, SubsetCounts DEF Before, After, Rank

LEMMA ListShrinks ==
    ASSUME TypeOK, Delete
    PROVE  /\ Listed' \in SUBSET Listed
           /\ \A c : (Before(c))' <= Before(c) /\ (Before(c))' \in Nat
           /\ \A c : /\ Cardinality((After(c))') <= Cardinality(After(c))
                     /\ Cardinality((After(c))') \in Nat
<1>1. PICK i \in Id : /\ there[i] = "there" /\ there' = [there EXCEPT ![i] = "gone"]
                      /\ UNCHANGED inventory
  BY DEF Delete
<1>2. Listed' \in SUBSET Listed
  BY <1>1, SameNames DEF Listed, TypeOK
<1> QED  BY <1>2, ListedFacts, SubsetCounts DEF Before, After, Rank

-----------------------------------------------------------------------------
(***************************************************************************)
(* Types.                                                                  *)
(***************************************************************************)

LEMMA CountType ==
    ASSUME TypeOK, Going, Fetch
    PROVE  /\ count' \in 0 .. Objects + PageSize - 1
           /\ Offset => count' <= Objects
           /\ matches' \subseteq (1 .. Objects + PageSize - 1) \X Id
<1>1. pc = "list" /\ count' = count + Cardinality(Page) /\ matches' = matches \cup Hits(Page)
  BY FetchEffect
<1>2. count \in Nat /\ Cardinality(Page) \in Nat /\ Cardinality(Page) <= PageSize
  BY PageFacts DEF TypeOK
<1>3. Offset => count + Cardinality(Page) <= Objects
  BY <1>1, OffsetPage DEF Going
<1>4. ~Offset => count <= Objects - 1
  <2>1. Paged \/ FirstOnly \/ Offset
    BY KindType
  <2>2. total \in 0 .. Objects /\ (Paged /\ count > 0 => count < total) /\ (FirstOnly => count = 0)
    BY <1>1 DEF Going, TypeOK
  <2> QED  BY <1>2, <2>1, <2>2, Constants
<1>5. \A i \in Page : count + Before(i) - First \in 1 .. Objects + PageSize - 1
  <2> TAKE i \in Page
  <2>1. count + Before(i) - First \in count + 1 .. count + PageSize
    BY HitsFacts
  <2>2. Offset => count + Before(i) - First \in 0 .. Objects
    BY HitsFacts, ListedFacts
  <2> QED  BY <1>2, <1>4, <2>1, <2>2, Constants
<1>6. Page \subseteq Id
  BY DEF Page, Listed
<1>7. Hits(Page) \subseteq (1 .. Objects + PageSize - 1) \X Id
  <2> SUFFICES ASSUME NEW m \in Hits(Page) PROVE m \in (1 .. Objects + PageSize - 1) \X Id
    OBVIOUS
  <2>1. PICK i \in Page : m = <<count + Before(i) - First, i>>
    BY HitsFacts
  <2> QED  BY <1>5, <1>6, <2>1
<1> QED  BY <1>1, <1>2, <1>3, <1>4, <1>7, Constants DEF TypeOK

LEMMA TypeStep ==
    ASSUME TypeOK, Going, [Next]_vars
    PROVE  TypeOK'
<1>1. CASE Begin
  BY <1>1, Constants DEF Begin, TypeOK, inventory
<1>2. CASE Fetch
  <2>1. /\ pc' \in {"list", "pick"} /\ total' = Announced /\ cursor' = Cursor(Page)
        /\ UNCHANGED <<inventory, there, result, found, history>>
    BY <1>2, FetchEffect
  <2>2. total' \in 0 .. Objects
    BY <2>1, ListedFacts, Constants DEF Announced, TypeOK
  <2>3. cursor' \in 0 .. Objects
    BY <2>1, CursorFacts, Constants
  <2> QED  BY <1>2, <2>1, <2>2, <2>3, CountType DEF TypeOK, inventory, history
<1>3. CASE Take
  <2>1. Candidates \subseteq matches
    BY DEF Candidates
  <2>2. ObjectsOf(Candidates) \subseteq Id
    BY <2>1 DEF ObjectsOf, TypeOK
  <2> QED  BY <1>3, <2>2 DEF Take, TypeOK, inventory, listing, history
<1>4. CASE Fail
  BY <1>4 DEF Fail, TypeOK, inventory, listing, history
<1>5. CASE Get
  BY <1>5 DEF Get, TypeOK, inventory, listing
<1>6. CASE Create
  BY <1>6 DEF Create, TypeOK, inventory, listing
<1>7. CASE Delete
  BY <1>7 DEF Delete, TypeOK, inventory, listing
<1>8. CASE UNCHANGED vars
  BY <1>8 DEF vars, TypeOK, inventory, listing, history
<1> QED  BY <1>1, <1>2, <1>3, <1>4, <1>5, <1>6, <1>7, <1>8 DEF Next

-----------------------------------------------------------------------------
(***************************************************************************)
(* The rest of the invariant.                                              *)
(***************************************************************************)

LEMMA GoingStep ==
    ASSUME TypeOK, Going, [Next]_vars
    PROVE  Going'
<1>1. CASE Begin
  BY <1>1, Constants DEF Begin, Going
<1>2. CASE Fetch
  <2> SUFFICES ASSUME pc' = "list"
               PROVE  /\ count' = 0 => total' = 0 /\ cursor' = 0 /\ matches' = {}
                      /\ Paged /\ count' > 0 => count' < total'
                      /\ Offset => total' = 0 /\ count' <= Objects
                      /\ FirstOnly => count' = 0
    BY <1>2, FetchEffect, SameNames DEF Going
  <2>1. /\ pc = "list" /\ total' = Announced /\ count' = count + Cardinality(Page)
        /\ (Paged /\ count' < total') \/ (Offset /\ count' > count)
    BY <1>2, FetchEffect
  <2>2. count \in Nat /\ Cardinality(Page) \in Nat
    BY PageFacts DEF TypeOK
  <2>3. count' # 0
    <3> SUFFICES ASSUME count' = 0 PROVE FALSE
      OBVIOUS
    <3>1. count = 0 /\ Cardinality(Page) = 0 /\ Paged /\ total = 0 /\ cursor = 0
      BY <2>1, <2>2 DEF Going
    <3>2. Page = {} /\ ~Offset /\ First = 0
      <4>1. IsFiniteSet(Page)
        BY PageFacts, ListedFacts, FS_Subset
      <4> QED  BY <3>1, <4>1, FS_EmptySet, KindType, ListedFacts DEF First, Offset
    <3>3. Listed = {}
      <4> SUFFICES ASSUME NEW i \in Listed PROVE FALSE
        OBVIOUS
      <4>1. Before(i) <= 0 /\ Before(i) \in 1 .. Objects
        BY <3>2, EmptyPage, ListOrder
      <4> QED  BY <4>1
    <3>4. total' = 0
      BY <2>1, <3>1, <3>2, <3>3, FS_EmptySet DEF Announced
    <3> QED  BY <2>1, <2>2, <3>1, <3>4
  <2> QED  BY <1>2, <2>1, <2>2, <2>3, CountType, KindType DEF Announced
<1>3. CASE Take \/ Fail
  BY <1>3 DEF Take, Fail, Going
<1>4. CASE Get \/ Create \/ Delete \/ UNCHANGED vars
  BY <1>4, SameNames DEF Get, Create, Delete, vars, listing, Going
<1> QED  BY <1>1, <1>2, <1>3, <1>4 DEF Next

\* Everything that is asked for and that stayed is listed.
LEMMA StayedIsListed ==
    ASSUME TypeOK, NEW i \in stayed, Asked(i)
    PROVE  i \in Listed
BY DEF TypeOK, Listed

\* After a page, what stayed has come, or has come up to the cursor.
UpToCursor == HaveCome({i \in stayed : i <= cursor}) /\ cursor # 0

LEMMA PagesGoOn ==
    ASSUME TypeOK, Going, NoneMissed, Fetch, Paged, "created" \notin since
    PROVE  \/ HaveCome(stayed)'
           \/ /\ UpToCursor'
              /\ count' + Cardinality((After(cursor))') <= total'
<1>1. /\ pc = "list" /\ total' = Announced /\ count' = count + Cardinality(Page)
      /\ cursor' = Cursor(Page) /\ Came' = Came \cup {i \in Page : Matches(i)}
      /\ UNCHANGED <<inventory, there, stayed>>
  BY FetchEffect DEF history
<1>2. /\ \A i : (Asked(i))' = Asked(i) /\ (Matches(i))' = Matches(i)
      /\ (After(cursor))' = After(cursor')
  BY <1>1, SameNames, SameList DEF After
<1>3. ~Offset /\ count \in Nat /\ total \in Nat /\ cursor \in Nat /\ Cardinality(Page) \in Nat
  BY KindType, PageFacts DEF TypeOK
<1>4. CASE HaveCome(stayed)
  BY <1>1, <1>2, <1>4 DEF HaveCome
<1>5. CASE ~HaveCome(stayed)
  <2>1. /\ HaveCome({i \in stayed : i <= cursor})
        /\ count + Cardinality(After(cursor)) <= Announced
    <3>1. CASE count > 0
      BY <1>1, <1>3, <1>5, <3>1 DEF NoneMissed, Going, Announced
    <3>2. CASE count = 0
      <4>1. total = 0 /\ cursor = 0
        BY <1>1, <3>2 DEF Going
      <4>2. \A i \in Listed : i > 0 /\ ~(i <= 0)
        BY ListedFacts
      <4>3. After(cursor) = Listed
        BY <4>1, <4>2 DEF After
      <4>4. HaveCome({i \in stayed : i <= cursor})
        BY <4>1, <4>2, StayedIsListed DEF HaveCome
      <4> QED  BY <1>3, <3>2, <4>1, <4>3, <4>4, ListedFacts DEF Announced
    <3> QED  BY <1>3, <3>1, <3>2
  <2>2. CASE Cursor(Page) = 0
    <3>1. After(cursor) = Page
      BY <1>3, <2>2, PageAfterCursor
    <3>2. ASSUME NEW i \in stayed, Asked(i), Matches(i) PROVE i \in Came'
      <4>1. i \in Listed
        BY <3>2, StayedIsListed
      <4>2. CASE i <= cursor
        BY <1>1, <2>1, <3>2, <4>2 DEF HaveCome
      <4>3. CASE i > cursor
        BY <1>1, <3>1, <3>2, <4>1, <4>3 DEF After
      <4>4. i \in Nat
        BY <4>1, ListedFacts
      <4> QED  BY <1>3, <4>2, <4>3, <4>4
    <3> QED  BY <1>1, <1>2, <3>2 DEF HaveCome
  <2>3. CASE Cursor(Page) # 0
    <3>1. /\ \A i \in Listed : i <= Cursor(Page) => i <= cursor \/ i \in Page
          /\ Cardinality(After(cursor)) = Cardinality(Page) + Cardinality(After(Cursor(Page)))
          /\ Cardinality(After(Cursor(Page))) \in Nat
      BY <1>3, <2>3, PageAfterCursor
    <3>2. ASSUME NEW i \in stayed, i <= Cursor(Page), Asked(i), Matches(i) PROVE i \in Came'
      <4>1. i <= cursor \/ i \in Page
        BY <3>1, <3>2, StayedIsListed
      <4> QED  BY <1>1, <2>1, <3>2, <4>1 DEF HaveCome
    <3>3. HaveCome({i \in stayed : i <= cursor})'
      BY <1>1, <1>2, <3>2 DEF HaveCome
    <3>4. count' + Cardinality(After(cursor')) <= total'
      BY <1>1, <1>3, <2>1, <3>1, ListedFacts DEF Announced
    <3> QED  BY <1>1, <1>2, <2>3, <3>3, <3>4 DEF UpToCursor
  <2> QED  BY <2>2, <2>3
<1> QED  BY <1>4, <1>5

\* By number, what stayed has come up to the end of the page.
LEMMA NumbersGoOn ==
    ASSUME TypeOK, Going, NoneMissed, Fetch, Offset, "deleted" \notin since
    PROVE  HaveCome({i \in stayed : Before(i) <= count})'
<1>1. /\ pc = "list" /\ count' = count + Cardinality(Page)
      /\ Came' = Came \cup {i \in Page : Matches(i)}
      /\ UNCHANGED <<inventory, there, stayed>>
  BY FetchEffect DEF history
<1>2. \A i : /\ (Asked(i))' = Asked(i) /\ (Matches(i))' = Matches(i)
             /\ (Before(i))' = Before(i)
  BY <1>1, SameNames, SameList
<1>3. First = count /\ count \in Nat /\ Cardinality(Page) \in Nat /\ Cardinality(Page) <= PageSize
  BY PageFacts DEF First, Offset, TypeOK
<1>4. ASSUME NEW i \in stayed, Before(i) <= count', Asked(i), Matches(i) PROVE i \in Came'
  <2>1. i \in Listed /\ Before(i) \in 1 .. Objects
    BY <1>4, StayedIsListed, ListOrder
  <2>2. CASE Before(i) <= count
    <3>1. count > 0
      BY <1>3, <2>1, <2>2
    <3>2. HaveCome({j \in stayed : Before(j) <= count})
      BY <1>1, <3>1 DEF NoneMissed
    <3> QED  BY <1>1, <1>4, <2>2, <3>2 DEF HaveCome
  <2>3. CASE Before(i) > count
    <3>1. i \in Page
      BY <1>1, <1>3, <1>4, <2>1, <2>3, PageFacts, Constants
    <3> QED  BY <1>1, <1>4, <3>1
  <2> QED  BY <1>3, <2>1, <2>2, <2>3
<1> QED  BY <1>1, <1>2, <1>4 DEF HaveCome

LEMMA NoneMissedStep ==
    ASSUME TypeOK, Going, NoneMissed, [Next]_vars
    PROVE  NoneMissed'
<1>1. CASE Begin
  BY <1>1 DEF Begin, NoneMissed
<1>2. CASE Fetch
  <2>1. UNCHANGED <<inventory, since>>
    BY <1>2, FetchEffect DEF history
  <2>2. Paged' = Paged /\ Offset' = Offset
    BY <2>1, SameNames
  <2>3. Paged /\ "created" \notin since =>
            \/ HaveCome(stayed)'
            \/ /\ UpToCursor'
               /\ count' + Cardinality((After(cursor))') <= total'
    BY <1>2, PagesGoOn
  <2>4. Offset /\ "deleted" \notin since => HaveCome({i \in stayed : Before(i) <= count})'
    BY <1>2, NumbersGoOn
  <2> QED  BY <2>1, <2>2, <2>3, <2>4 DEF NoneMissed, UpToCursor
<1>3. CASE Take \/ Fail \/ Get
  BY <1>3 DEF Take, Fail, Get, NoneMissed
<1>4. CASE Create
  <2>1. /\ UNCHANGED <<inventory, pc, listing, stayed>> /\ since' = since \cup {"created"}
    BY <1>4 DEF Create
  <2>2. /\ Offset' = Offset /\ Came' = Came /\ count' = count
        /\ \A i : (Asked(i))' = Asked(i) /\ (Matches(i))' = Matches(i)
    BY <2>1, SameNames DEF Came, ObjectsOf, listing
  <2>3. \A i : Before(i) <= count \/ ~((Before(i))' <= count)
    <3> TAKE i
    <3>1. Before(i) <= (Before(i))' /\ (Before(i))' \in Nat /\ Before(i) \in Nat
      BY <1>4, ListGrows, ListedFacts
    <3> QED  BY <3>1 DEF TypeOK
  <2>4. HaveCome({i \in stayed : Before(i) <= count})
           => HaveCome({i \in stayed : Before(i) <= count})'
    BY <2>1, <2>2, <2>3 DEF HaveCome
  <2> QED  BY <2>1, <2>2, <2>4 DEF NoneMissed
<1>5. CASE Delete
  <2>1. /\ UNCHANGED <<inventory, pc, listing>> /\ stayed' \subseteq stayed
        /\ since' = since \cup {"deleted"}
    BY <1>5 DEF Delete
  <2>2. /\ Paged' = Paged /\ Came' = Came /\ UNCHANGED <<count, total, cursor>>
        /\ \A i : (Asked(i))' = Asked(i) /\ (Matches(i))' = Matches(i)
    BY <2>1, SameNames DEF Came, ObjectsOf, listing
  <2>3. /\ HaveCome(stayed) => HaveCome(stayed)'
        /\ HaveCome({i \in stayed : i <= cursor}) => HaveCome({i \in stayed : i <= cursor})'
    BY <2>1, <2>2 DEF HaveCome
  <2>4. count + Cardinality(After(cursor)) <= total
           => count' + Cardinality((After(cursor))') <= total'
    <3>1. (After(cursor))' = {i \in Listed' : i > cursor}
      BY <2>2 DEF After
    <3>2. /\ Cardinality((After(cursor))') <= Cardinality(After(cursor))
          /\ Cardinality((After(cursor))') \in Nat
      BY <1>5, <3>1, ListShrinks, ListedFacts, SubsetCounts DEF After
    <3>3. Cardinality(After(cursor)) \in Nat
      BY ListedFacts, SubsetCounts DEF After
    <3> QED  BY <2>2, <3>2, <3>3 DEF TypeOK
  <2> QED  BY <2>1, <2>2, <2>3, <2>4 DEF NoneMissed
<1>6. CASE UNCHANGED vars
  <2>1. UNCHANGED <<inventory, there, pc, total, count, cursor, matches, stayed, since>>
    BY <1>6 DEF vars, listing, history
  <2>2. /\ Paged' = Paged /\ Offset' = Offset /\ Came' = Came
        /\ \A i : (Asked(i))' = Asked(i) /\ (Matches(i))' = Matches(i)
        /\ \A i : (Before(i))' = Before(i)
        /\ (After(cursor))' = After(cursor)
    BY <2>1, SameNames, SameList DEF Came, ObjectsOf, After
  <2> QED  BY <2>1, <2>2 DEF NoneMissed, HaveCome
<1> QED  BY <1>1, <1>2, <1>3, <1>4, <1>5, <1>6 DEF Next

\* What a listing that is over has seen.
LEMMA AllSeenStep ==
    ASSUME TypeOK, Going, NoneMissed, AllSeen, [Next]_vars
    PROVE  AllSeen'
<1>1. CASE Begin
  BY <1>1 DEF Begin, AllSeen
<1>2. CASE Fetch
  <2> SUFFICES ASSUME pc' = "pick", Whole', ~StopsAtSecond PROVE HaveCome(stayed)'
    BY <1>2, FetchEffect, KindType DEF AllSeen, StopsAtSecond, inventory
  <2>1. /\ pc = "list" /\ total' = Announced /\ count' = count + Cardinality(Page)
        /\ cursor' = Cursor(Page) /\ Came' = Came \cup {i \in Page : Matches(i)}
        /\ UNCHANGED <<inventory, there, stayed, since>>
        /\ (Paged /\ count' >= total') \/ (Offset /\ ~(count' > count)) \/ FirstOnly
    BY <1>2, FetchEffect DEF history
  <2>2. /\ \A i : (Asked(i))' = Asked(i) /\ (Matches(i))' = Matches(i)
        /\ \A i : (Before(i))' = Before(i)
        /\ Listed' = Listed
    BY <2>1, SameNames, SameList
  <2>3. /\ count \in Nat /\ Cardinality(Page) \in Nat /\ Page \in SUBSET Listed
        /\ count' \in Nat /\ total' \in Nat
    BY <2>1, PageFacts, ListedFacts DEF TypeOK, Announced
  <2>4. CASE Paged
    <3>1. "created" \notin since
      BY <2>1, <2>4 DEF Whole, Paged, inventory
    <3>2. SUFFICES ASSUME UpToCursor', count' + Cardinality((After(cursor))') <= total'
                   PROVE  HaveCome(stayed)'
      BY <1>2, <2>4, <3>1, PagesGoOn
    <3>3. (After(cursor))' = {i \in Listed : i > cursor'}
      BY <2>2 DEF After
    <3>4. /\ IsFiniteSet({i \in Listed : i > cursor'})
          /\ Cardinality({i \in Listed : i > cursor'}) \in Nat
      <4>1. {i \in Listed : i > cursor'} \in SUBSET Listed
        OBVIOUS
      <4> QED  BY <4>1, ListedFacts, FS_Subset, FS_CardinalityType
    <3>5. Cardinality({i \in Listed : i > cursor'}) = 0
      BY <2>1, <2>3, <2>4, <3>2, <3>3, <3>4, KindType
    <3>6. {i \in Listed : i > cursor'} = {}
      BY <3>4, <3>5, FS_EmptySet
    <3>7. ASSUME NEW i \in stayed, Asked(i) PROVE i <= cursor'
      <4>1. i \in Listed
        BY <3>7, StayedIsListed
      <4>2. i \in Nat /\ cursor' \in Nat
        BY <2>1, <4>1, ListedFacts, CursorFacts
      <4> QED  BY <3>6, <4>1, <4>2
    <3> QED  BY <2>1, <2>2, <3>2, <3>7 DEF UpToCursor, HaveCome
  <2>5. CASE Offset
    <3>1. "deleted" \notin since
      BY <2>1, <2>5 DEF Whole, Offset, inventory
    <3>2. HaveCome({i \in stayed : Before(i) <= count})'
      BY <1>2, <2>5, <3>1, NumbersGoOn
    <3>3. Cardinality(Page) = 0 /\ First = count
      BY <2>1, <2>3, <2>5, KindType DEF First, Offset
    <3>4. Page = {}
      BY <2>3, <3>3, ListedFacts, FS_Subset, FS_EmptySet
    <3>5. ASSUME NEW i \in stayed, Asked(i) PROVE Before(i) <= count'
      BY <2>1, <2>3, <3>3, <3>4, <3>5, StayedIsListed, EmptyPage
    <3> QED  BY <2>1, <2>2, <3>2, <3>5 DEF HaveCome
  <2>6. CASE FirstOnly
    <3>1. /\ Cardinality(Listed) <= PageSize
      BY <2>1, <2>6, KindType, ListedFacts
         DEF Whole, Going, Announced, Paged, Offset, FirstOnly, inventory
    <3>2. First = 0
      BY <2>1, <2>6, ListedFacts DEF Going, First, FirstOnly
    <3>3. ASSUME NEW i \in stayed, Asked(i) PROVE i \in Page
      <4>1. i \in Listed
        BY <3>3, StayedIsListed
      <4>2. Before(i) = Rank(Listed, i) /\ Rank(Listed, i) <= Cardinality(Listed)
        BY ListedFacts, RankType
      <4>3. Before(i) \in 1 .. Objects
        BY <4>1, ListOrder
      <4> QED  BY <3>1, <3>2, <4>1, <4>2, <4>3, PageFacts, ListedFacts, Constants
    <3> QED  BY <2>1, <2>2, <3>3 DEF HaveCome
  <2> QED  BY <2>4, <2>5, <2>6, KindType
<1>3. CASE Take \/ Fail \/ Get
  BY <1>3 DEF Take, Fail, Get, AllSeen
<1>4. CASE Create \/ Delete
  <2>1. /\ UNCHANGED <<inventory, pc, listing>> /\ stayed' \subseteq stayed
        /\ since \subseteq since'
    BY <1>4 DEF Create, Delete
  <2>2. /\ Came' = Came /\ matches' = matches
        /\ \A i : (Asked(i))' = Asked(i) /\ (Matches(i))' = Matches(i)
    BY <2>1, SameNames DEF Came, ObjectsOf, listing
  <2>3. Whole' => Whole
    BY <2>1 DEF Whole, inventory, listing
  <2>4. HaveCome(stayed) => HaveCome(stayed)'
    BY <2>1, <2>2 DEF HaveCome
  <2> QED  BY <2>1, <2>2, <2>3, <2>4 DEF AllSeen, inventory
<1>5. CASE UNCHANGED vars
  <2>1. UNCHANGED <<inventory, pc, total, matches, stayed, since>>
    BY <1>5 DEF vars, listing, history
  <2>2. /\ Came' = Came
        /\ \A i : (Asked(i))' = Asked(i) /\ (Matches(i))' = Matches(i)
    BY <2>1, SameNames DEF Came, ObjectsOf
  <2> QED  BY <2>1, <2>2 DEF AllSeen, HaveCome, Whole, inventory
<1> QED  BY <1>1, <1>2, <1>3, <1>4, <1>5 DEF Next

\* What takes everything asks for everything.
LEMMA AllAsked ==
    ASSUME TypeOK, kind.picks = "all", NEW i
    PROVE  Asked(i)
BY LookupAssumption DEF TypeOK, Asked

\* Of several there is one to take.
LEMMA SomeCandidate ==
    ASSUME TypeOK, matches # {}
    PROVE  Candidates # {}
<1> DEFINE S == {m[1] : m \in matches}
<1>1. PICK b \in Nat : \A m \in matches : m[1] \in 1 .. b
  <2>1. Objects + PageSize - 1 \in Nat
    BY Constants
  <2> QED  BY <2>1 DEF TypeOK
<1>2. S \in SUBSET Nat /\ S \in SUBSET (0 .. b) /\ S # {}
  BY <1>1
<1>3. PICK x \in S : \A y \in S : x <= y
  BY <1>2, LeastElement
<1>4. PICK z \in S : \A y \in S : y <= z
  BY <1>2, GreatestElement
<1>5. PICK m \in matches : m[1] = x
  BY <1>3
<1>6. PICK n \in matches : n[1] = z
  BY <1>4
<1>7. m \in {k \in matches : \A l \in matches : k[1] <= l[1]}
  BY <1>3, <1>5
<1>8. n \in {k \in matches : \A l \in matches : k[1] >= l[1]}
  <2>1. \A l \in matches : n[1] >= l[1]
    BY <1>2, <1>4, <1>6
  <2> QED  BY <2>1
<1> HIDE DEF S
<1> QED  BY <1>7, <1>8 DEF Candidates

\* What a lookup then says.
LEMMA NothingStayedMissedStep ==
    ASSUME TypeOK, AllSeen, NothingStayedMissed, [Next]_vars
    PROVE  NothingStayedMissed'
<1>1. CASE Begin \/ Fetch
  BY <1>1, FetchEffect DEF Begin, NothingStayedMissed, ByName
<1>2. CASE Take
  <2> SUFFICES ASSUME Whole, result' # "multiple"
               PROVE  /\ result' = "missing" => \A i \in stayed : ~(Asked(i) /\ Matches(i))
                      /\ result' = "all" => stayed \subseteq found'
                      /\ result' = "found" /\ kind.picks = "prefer" =>
                            \/ \A i \in stayed : ~Is(i, "exact")
                            \/ \A i \in found' : Is(i, "exact")
    <3>1. UNCHANGED <<inventory, there, listing, stayed, since>>
      BY <1>2 DEF Take, history
    <3>2. /\ Whole' = Whole /\ stayed' = stayed /\ kind' = kind
          /\ \A i, how : (Is(i, how))' = Is(i, how)
          /\ \A i : (Asked(i))' = Asked(i) /\ (Matches(i))' = Matches(i)
      BY <3>1, SameNames DEF Whole, inventory, listing
    <3> QED  BY <3>2 DEF NothingStayedMissed
  <2>1. /\ pc = "pick"
        /\ result' = IF kind.picks = "all" THEN "all"
                     ELSE CASE Candidates = {} -> "missing"
                            [] Cardinality(Candidates) > 1 -> "multiple"
                            [] OTHER -> "found"
        /\ found' = IF result' \in {"all", "found"} THEN ObjectsOf(Candidates) ELSE {}
    BY <1>2 DEF Take
  <2>2. kind.picks = "only" => Candidates = matches
    BY DEF Candidates
  <2>3. HaveCome(stayed)
    <3> SUFFICES ASSUME kind.picks = "only", Cardinality(matches) > 1 PROVE FALSE
      BY <2>1 DEF AllSeen
    <3>1. matches # {}
      BY FS_EmptySet
    <3> QED  BY <2>1, <2>2, <3>1
  <2>4. result' = "missing" => \A i \in stayed : ~(Asked(i) /\ Matches(i))
    <3> SUFFICES ASSUME Candidates = {}, NEW i \in stayed, Asked(i), Matches(i) PROVE FALSE
      BY <2>1
    <3>1. i \in Came
      BY <2>3 DEF HaveCome
    <3>2. matches # {}
      BY <3>1 DEF Came, ObjectsOf
    <3>3. Candidates # {}
      BY <3>2, SomeCandidate
    <3> QED  BY <3>3
  <2>5. result' = "all" => stayed \subseteq found'
    <3> SUFFICES ASSUME result' = "all", kind.picks = "all", NEW i \in stayed
                 PROVE  i \in found'
      BY <2>1
    <3>1. Candidates = matches
      BY DEF Candidates
    <3>2. found' = Came
      BY <2>1, <3>1 DEF Came
    <3>3. Asked(i) /\ Matches(i)
      BY AllAsked DEF Matches
    <3> QED  BY <2>3, <3>2, <3>3 DEF HaveCome
  <2>6. result' = "found" /\ kind.picks = "prefer" =>
            \/ \A i \in stayed : ~Is(i, "exact")
            \/ \A i \in found' : Is(i, "exact")
    <3> SUFFICES ASSUME result' = "found", kind.picks = "prefer",
                        NEW i \in stayed, Is(i, "exact"), NEW j \in found'
                 PROVE  Is(j, "exact")
      OBVIOUS
    <3>1. Asked(i) /\ Matches(i)
      BY DEF Asked, Matches, Begins
    <3>2. PICK m \in matches : m[2] = i
      BY <2>3, <3>1 DEF HaveCome, Came, ObjectsOf
    <3>3. Candidates = {n \in matches : Is(n[2], "exact")}
      BY <3>2 DEF Candidates
    <3> QED  BY <2>1, <3>3 DEF ObjectsOf
  <2> QED  BY <2>4, <2>5, <2>6
<1>3. CASE Fail \/ Get
  BY <1>3 DEF Fail, Get, NothingStayedMissed, ByName
<1>4. CASE Create \/ Delete \/ UNCHANGED vars
  <2>1. /\ UNCHANGED <<inventory, pc, total, result, found>> /\ stayed' \subseteq stayed
        /\ since \subseteq since'
    BY <1>4 DEF Create, Delete, vars, listing, history
  <2>2. /\ \A i : (Asked(i))' = Asked(i) /\ (Matches(i))' = Matches(i)
        /\ \A i, how : (Is(i, how))' = Is(i, how)
    BY <2>1, SameNames
  <2>3. (ByName' => ByName) /\ (Whole' => Whole)
    BY <2>1 DEF ByName, Whole, inventory
  <2> QED  BY <2>1, <2>2, <2>3 DEF NothingStayedMissed, inventory
<1> QED  BY <1>1, <1>2, <1>3, <1>4 DEF Next

\* The objects of a page come one after the other.
LEMMA PageFull ==
    ASSUME TypeOK, NEW i \in Page
    PROVE  Before(i) - First <= Cardinality(Page)
<1> DEFINE Up == {j \in Listed : j <= i}
<1> DEFINE Head == {j \in Up : j \in Page}
<1> DEFINE Rest == {j \in Listed : Before(j) <= First}
<1>1. Up \in SUBSET Listed /\ IsFiniteSet(Up) /\ Head \in SUBSET Up
  <2>1. Up \in SUBSET Listed
    OBVIOUS
  <2> QED  BY <2>1, ListedFacts, FS_Subset
<1>2. /\ Cardinality(Up) = Cardinality(Head) + Cardinality(Up \ Head)
      /\ Cardinality(Head) \in Nat /\ Cardinality(Up \ Head) \in Nat
  BY <1>1, SplitInTwo
<1>3. Up \ Head \in SUBSET Rest
  <2> SUFFICES ASSUME NEW j \in Up, j \notin Page PROVE Before(j) <= First
    OBVIOUS
  <2>1. i \in Listed /\ j \in Listed /\ j <= i
    BY PageFacts
  <2>2. i \in Nat /\ j \in Nat /\ Before(j) \in Nat /\ Before(i) \in Nat
    BY <2>1, ListedFacts
  <2>3. ~(Before(i) < Before(j))
    BY <2>1, <2>2, ListOrder
  <2>4. Before(i) <= First + PageSize /\ ~(First < Before(j) /\ Before(j) <= First + PageSize)
    BY <2>1, PageFacts
  <2> QED  BY <2>2, <2>3, <2>4, FirstType, Constants
<1>4. IsFiniteSet(Rest) /\ Cardinality(Rest) \in Nat /\ Cardinality(Rest) <= First
  <2>1. Rest \in SUBSET Listed
    OBVIOUS
  <2>2. \A j \in Rest : Rank(Listed, j) \in 0 + 1 .. First
    <3> TAKE j \in Rest
    <3>1. Before(j) \in 1 .. Objects /\ Before(j) = Rank(Listed, j) /\ Before(j) <= First
      BY ListOrder, ListedFacts
    <3> QED  BY <3>1, FirstType
  <2>3. 0 <= First /\ First - 0 = First
    BY FirstType
  <2> QED  BY <2>1, <2>2, <2>3, FirstType, ListedFacts, RankBetween
<1>5. Cardinality(Up \ Head) <= Cardinality(Rest)
  BY <1>3, <1>4, FS_Subset
<1>6. Cardinality(Head) <= Cardinality(Page)
  <2>1. Head \in SUBSET Page /\ IsFiniteSet(Page)
    BY PageFacts, ListedFacts, FS_Subset
  <2> QED  BY <2>1, FS_Subset
<1>7. Before(i) = Cardinality(Up) /\ Cardinality(Page) \in Nat
  BY PageFacts DEF Before
<1> HIDE DEF Up, Head, Rest
<1> QED  BY <1>2, <1>4, <1>5, <1>6, <1>7, FirstType

\* While nothing is deleted (or, by number, created), the pages do not begin
\* again, and nothing comes twice.
Steady == (IF Offset THEN "created" ELSE "deleted") \notin since

LEMMA FetchNoneTwice ==
    ASSUME TypeOK, Going, NoneTwice, Fetch, Steady
    PROVE  Distinct'
<1>1. pc = "list" /\ matches' = matches \cup Hits(Page)
  BY FetchEffect
<1>2. \A m, n \in matches : m[2] = n[2] => m = n
  BY <1>1 DEF NoneTwice, Steady, Distinct
<1>3. \A m, n \in Hits(Page) : m[2] = n[2] => m = n
  BY HitsFacts
<1>4. Came \cap Page = {}
  <2> SUFFICES ASSUME NEW i \in Came, i \in Page PROVE FALSE
    OBVIOUS
  <2>0. i \in Listed /\ First < Before(i) /\ Before(i) \in Nat
    BY PageFacts, ListedFacts
  <2>1. /\ i \in Listed /\ First < Before(i) /\ Before(i) \in Nat /\ i \in Nat
        /\ count \in Nat /\ cursor \in Nat
    BY <2>0, ListedFacts DEF TypeOK
  <2>2. count > 0
    BY <1>1, <2>1 DEF Going, Came, ObjectsOf
  <2>3. CASE Offset
    BY <1>1, <2>1, <2>2, <2>3 DEF NoneTwice, Steady, First, Offset
  <2>4. CASE Paged
    <3>1. i <= cursor /\ First = Before(cursor)
      BY <1>1, <2>2, <2>4, KindType DEF NoneTwice, Steady, First, Offset
    <3> QED  BY <2>1, <3>1, ListOrder
  <2>5. CASE FirstOnly
    BY <1>1, <2>2, <2>5 DEF Going
  <2> QED  BY <2>3, <2>4, <2>5, KindType
<1>5. ASSUME NEW m \in matches, NEW n \in Hits(Page) PROVE m[2] # n[2]
  BY <1>4, HitsFacts DEF Came, ObjectsOf
<1>6. \A m, n \in matches' : m[2] = n[2] => m = n
  BY <1>1, <1>2, <1>3, <1>5
<1> QED  BY <1>6 DEF Distinct

LEMMA FetchUpTo ==
    ASSUME TypeOK, Going, NoneTwice, Fetch, pc' = "list", Steady
    PROVE  /\ Paged => /\ \A i \in Came' : i <= cursor'
                       /\ count' + Cardinality(After(cursor')) >= total'
           /\ Offset => \A i \in Came' \cap Listed : Before(i) <= count'
<1>1. /\ pc = "list" /\ total' = Announced /\ count' = count + Cardinality(Page)
      /\ cursor' = Cursor(Page) /\ Came' = Came \cup {i \in Page : Matches(i)}
      /\ (Paged /\ count' < total') \/ (Offset /\ count' > count)
  BY FetchEffect
<1>2. /\ count \in Nat /\ cursor \in Nat /\ total \in Nat /\ Cardinality(Page) \in Nat
      /\ Page \in SUBSET Listed /\ \A i \in Listed : i \in Nat
      /\ Came \subseteq Nat
  BY PageFacts, ListedFacts DEF TypeOK, Came, ObjectsOf, Id
<1>3. ASSUME Paged
      PROVE  /\ \A i \in Came' : i <= cursor'
             /\ count' + Cardinality(After(cursor')) >= total'
  <2>1. ~Offset /\ count' < total'
    BY <1>1, <1>3, KindType
  <2>2. (\A i \in Came : i <= cursor) /\ count + Cardinality(After(cursor)) >= Announced
    <3>1. CASE count > 0
      <4>1. total # 0
        BY <1>1, <1>2, <1>3, <3>1 DEF Going
      <4> QED  BY <1>1, <1>3, <2>1, <3>1, <4>1 DEF NoneTwice, Steady, Announced
    <3>2. CASE count = 0
      <4>1. matches = {} /\ total = 0 /\ cursor = 0
        BY <1>1, <3>2 DEF Going
      <4>2. \A i \in Listed : i > 0
        BY ListedFacts
      <4>3. After(cursor) = Listed /\ Came = {}
        BY <4>1, <4>2 DEF After, Came, ObjectsOf
      <4> QED  BY <2>1, <3>2, <4>1, <4>3, ListedFacts DEF Announced
    <3> QED  BY <1>2, <3>1, <3>2
  <2>3. Cardinality(After(cursor)) \in Nat /\ Announced \in Nat
    BY <1>2, <2>1, PageAfterCursor, ListedFacts DEF Announced
  <2>4. Cursor(Page) # 0
    <3> SUFFICES ASSUME Cursor(Page) = 0 PROVE FALSE
      OBVIOUS
    <3>1. After(cursor) = Page
      BY <2>1, PageAfterCursor
    <3> QED  BY <1>1, <1>2, <2>1, <2>2, <2>3, <3>1
  <2>5. /\ Cardinality(After(cursor)) = Cardinality(Page) + Cardinality(After(Cursor(Page)))
        /\ Cardinality(After(Cursor(Page))) \in Nat
        /\ cursor < Cursor(Page)
        /\ \A i \in Page : i <= Cursor(Page)
        /\ Cursor(Page) \in Nat
    BY <2>1, <2>4, PageAfterCursor, CursorFacts
  <2> QED  BY <1>1, <1>2, <2>2, <2>3, <2>5
<1>4. ASSUME Offset, NEW i \in Came' \cap Listed PROVE Before(i) <= count'
  <2>1. CASE i \in Came
    <3>1. count > 0
      BY <1>1, <1>2, <2>1 DEF Going, Came, ObjectsOf
    <3>2. Before(i) <= count /\ Before(i) \in Nat
      BY <1>1, <1>4, <2>1, <3>1, ListedFacts DEF NoneTwice, Steady
    <3> QED  BY <1>1, <1>2, <3>2
  <2>2. CASE i \in Page
    <3>1. Before(i) - First <= Cardinality(Page) /\ First = count /\ Before(i) \in Nat
      BY <1>4, <2>2, PageFull, ListedFacts DEF First, Offset
    <3> QED  BY <1>1, <1>2, <3>1
  <2> QED  BY <1>1, <1>4, <2>1, <2>2
<1> QED  BY <1>3, <1>4

LEMMA NoneTwiceStep ==
    ASSUME TypeOK, Going, NoneTwice, [Next]_vars
    PROVE  NoneTwice'
<1>1. CASE Begin
  BY <1>1 DEF Begin, NoneTwice, Distinct
<1>2. CASE Fetch
  <2>1. UNCHANGED <<inventory, there, since>> /\ pc' \in {"list", "pick"}
    BY <1>2, FetchEffect DEF history
  <2>2. /\ Paged' = Paged /\ Offset' = Offset /\ ~(Paged /\ Offset)
        /\ Listed' = Listed /\ \A i : (Before(i))' = Before(i)
        /\ (After(cursor))' = After(cursor')
    BY <2>1, SameNames, SameList, KindType DEF After
  <2>3. Steady => Distinct'
    BY <1>2, FetchNoneTwice
  <2>4. pc' = "list" /\ Steady =>
            /\ Paged => /\ \A i \in Came' : i <= cursor'
                        /\ count' + Cardinality(After(cursor')) >= total'
            /\ Offset => \A i \in Came' \cap Listed : Before(i) <= count'
    BY <1>2, FetchUpTo
  <2> QED  BY <2>1, <2>2, <2>3, <2>4 DEF NoneTwice, Steady
<1>3. CASE Take \/ Fail \/ Get
  <2>1. pc' = "idle" \/ (pc' = pc /\ pc = "idle")
    BY <1>3 DEF Take, Fail, Get
  <2> QED  BY <2>1 DEF NoneTwice
<1>4. CASE Create
  <2>1. /\ UNCHANGED <<inventory, pc, listing>> /\ since' = since \cup {"created"}
    BY <1>4 DEF Create
  <2>2. /\ Paged' = Paged /\ Offset' = Offset /\ Came' = Came /\ Distinct' = Distinct
        /\ UNCHANGED <<count, total, cursor>>
    BY <2>1, SameNames DEF Came, ObjectsOf, Distinct, listing
  <2>3. count + Cardinality(After(cursor)) >= total
           => count' + Cardinality((After(cursor))') >= total'
    <3>1. Listed \in SUBSET Listed' /\ IsFiniteSet(Listed')
      <4>1. Listed' \in SUBSET (1 .. Objects) /\ IsFiniteSet(1 .. Objects)
        BY FS_Interval, Constants DEF Listed, Id
      <4> QED  BY <1>4, <4>1, ListGrows, FS_Subset
    <3>2. (After(cursor))' = {i \in Listed' : i > cursor}
      BY <2>2 DEF After
    <3>3. /\ Cardinality(After(cursor)) <= Cardinality((After(cursor))')
          /\ Cardinality(After(cursor)) \in Nat /\ Cardinality((After(cursor))') \in Nat
      BY <3>1, <3>2, SubsetCounts DEF After
    <3> QED  BY <2>2, <3>3 DEF TypeOK
  <2> QED  BY <2>1, <2>2, <2>3 DEF NoneTwice
<1>5. CASE Delete
  <2>1. /\ UNCHANGED <<inventory, pc, listing>> /\ since' = since \cup {"deleted"}
    BY <1>5 DEF Delete
  <2>2. /\ Paged' = Paged /\ Offset' = Offset /\ Came' = Came /\ Distinct' = Distinct
        /\ count' = count /\ ~(Paged /\ Offset)
    BY <2>1, SameNames, KindType DEF Came, ObjectsOf, Distinct, listing
  <2>3. (\A i \in Came \cap Listed : Before(i) <= count)
           => \A i \in Came \cap Listed' : (Before(i))' <= count
    <3> SUFFICES ASSUME \A i \in Came \cap Listed : Before(i) <= count,
                        NEW i \in Came, i \in Listed'
                 PROVE  (Before(i))' <= count
      OBVIOUS
    <3>1. /\ i \in Listed /\ (Before(i))' <= Before(i) /\ (Before(i))' \in Nat
          /\ Before(i) \in Nat
      BY <1>5, ListShrinks, ListedFacts
    <3> QED  BY <3>1 DEF TypeOK
  <2> QED  BY <2>1, <2>2, <2>3 DEF NoneTwice
<1>6. CASE UNCHANGED vars
  <2>1. UNCHANGED <<inventory, there, pc, total, count, cursor, matches, since>>
    BY <1>6 DEF vars, listing, history
  <2>2. /\ Paged' = Paged /\ Offset' = Offset /\ Came' = Came /\ Distinct' = Distinct
        /\ Listed' = Listed /\ \A i : (Before(i))' = Before(i)
        /\ (After(cursor))' = After(cursor)
    BY <2>1, SameNames, SameList DEF Came, ObjectsOf, Distinct, After
  <2> QED  BY <2>1, <2>2 DEF NoneTwice
<1> QED  BY <1>1, <1>2, <1>3, <1>4, <1>5, <1>6 DEF Next

LEMMA FiniteMatches ==
    ASSUME TypeOK, NEW S \in SUBSET matches
    PROVE  IsFiniteSet(S) /\ IsFiniteSet(ObjectsOf(S))
<1> DEFINE Place == 1 .. Objects + PageSize - 1
<1>1. IsFiniteSet(Place) /\ IsFiniteSet(Id)
  <2>1. Objects + PageSize - 1 \in Int
    BY Constants
  <2> QED  BY <2>1, FS_Interval, Constants DEF Id
<1>2. S \in SUBSET (Place \X Id)
  BY DEF TypeOK
<1> HIDE DEF Place
<1>3. IsFiniteSet(Place \X Id)
  BY <1>1, FS_Product
<1>4. ObjectsOf(S) \in SUBSET Id
  BY <1>2 DEF ObjectsOf
<1> QED  BY <1>1, <1>2, <1>3, <1>4, FS_Subset

\* "Multiple" is said of two objects.
LEMMA NoFalseMultipleStep ==
    ASSUME TypeOK, NoneTwice, NoFalseMultiple, [Next]_vars
    PROVE  NoFalseMultiple'
<1>1. CASE Begin \/ Fetch
  BY <1>1, FetchEffect DEF Begin, NoFalseMultiple
<1>2. CASE Take
  <2>1. UNCHANGED <<kind, name, matches, since>> /\ pc = "pick"
    BY <1>2 DEF Take, inventory, listing, history
  <2>2. Candidates' = Candidates /\ Offset' = Offset
    BY <2>1 DEF Candidates, Is, Offset
  <2> SUFFICES ASSUME result' = "multiple", Steady
               PROVE  Cardinality(ObjectsOf(Candidates)) > 1
    <3>1. ObjectsOf(Candidates)' = ObjectsOf(Candidates)
      BY <2>2 DEF ObjectsOf
    <3> QED  BY <2>1, <3>1 DEF NoFalseMultiple, Steady, Offset
  <2>3. Cardinality(Candidates) > 1
    BY <1>2 DEF Take
  <2>4. Candidates \in SUBSET matches
    BY DEF Candidates
  <2>5. IsFiniteSet(Candidates) /\ IsFiniteSet(ObjectsOf(Candidates))
    BY <2>4, FiniteMatches
  <2>6. PICK m \in Candidates, n \in Candidates : m # n
    BY <2>3, <2>5, MoreThanOne
  <2>7. m[2] # n[2]
    BY <2>1, <2>4, <2>6 DEF NoneTwice, Steady, Distinct
  <2>8. m[2] \in ObjectsOf(Candidates) /\ n[2] \in ObjectsOf(Candidates)
    BY DEF ObjectsOf
  <2> QED  BY <2>5, <2>7, <2>8, MoreThanOne
<1>3. CASE Fail \/ Get
  BY <1>3 DEF Fail, Get, NoFalseMultiple
<1>4. CASE Create \/ Delete \/ UNCHANGED vars
  <2>1. UNCHANGED <<kind, name, pc, matches, result>> /\ since \subseteq since'
    BY <1>4 DEF Create, Delete, vars, inventory, listing, history
  <2>2. Candidates' = Candidates
    BY <2>1 DEF Candidates, Is
  <2>3. ObjectsOf(Candidates)' = ObjectsOf(Candidates)
    BY <2>2 DEF ObjectsOf
  <2> QED  BY <2>1, <2>3 DEF NoFalseMultiple
<1> QED  BY <1>1, <1>2, <1>3, <1>4 DEF Next

-----------------------------------------------------------------------------
(***************************************************************************)
(* The theorems.                                                           *)
(***************************************************************************)

LEMMA InitInvariant == Init => IInv
<1> SUFFICES ASSUME Init PROVE IInv
  OBVIOUS
<1>1. TypeOK
  BY Constants DEF Init, TypeOK
<1>2. Going /\ NoneMissed /\ AllSeen /\ NoneTwice
  BY DEF Init, Going, NoneMissed, AllSeen, NoneTwice
<1>3. NothingStayedMissed /\ NoFalseMultiple
  BY DEF Init, NothingStayedMissed, ByName, NoFalseMultiple
<1> QED  BY <1>1, <1>2, <1>3 DEF IInv

LEMMA Invariance == Spec => []IInv
<1>1. IInv /\ [Next]_vars => IInv'
  BY TypeStep, GoingStep, NoneMissedStep, AllSeenStep, NoneTwiceStep,
     NothingStayedMissedStep, NoFalseMultipleStep DEF IInv
<1> QED  BY InitInvariant, <1>1, PTL DEF Spec

\* A lookup counts and remembers what the types say, however many objects there
\* are: no listing asks for a page after as many objects have come as there were.
THEOREM TypeCorrect == Spec => []TypeOK
<1>1. IInv => TypeOK
  BY DEF IInv
<1> QED  BY Invariance, <1>1, PTL

\* A lookup by name misses no object that was there all the time, unless others
\* created objects meanwhile (or deleted some, of pages asked for by number).
THEOREM NothingMissed == Spec => []NothingStayedMissed
<1>1. IInv => NothingStayedMissed
  BY DEF IInv
<1> QED  BY Invariance, <1>1, PTL

\* "Found multiple" is said of several objects, unless others deleted objects
\* meanwhile (or created some, of pages asked for by number).
THEOREM MultipleIsTrue == Spec => []NoFalseMultiple
<1>1. IInv => NoFalseMultiple
  BY DEF IInv
<1> QED  BY Invariance, <1>1, PTL

-----------------------------------------------------------------------------
\* What there is to say of Ends without fairness: a request that is not the last
\* brings something, or begins with the first page again, as long as anything is
\* listed.
Advances ==
    [][Fetch /\ pc' = "list" /\ Listed # {} =>
           count' > count \/ (cursor # 0 /\ cursor' = 0)]_vars

LEMMA FetchAdvances ==
    ASSUME TypeOK, Fetch, pc' = "list", Listed # {}
    PROVE  count' > count \/ (cursor # 0 /\ cursor' = 0)
<1>1. /\ count' = count + Cardinality(Page) /\ cursor' = Cursor(Page)
      /\ Paged \/ (Offset /\ count' > count)
  BY FetchEffect
<1>2. CASE Offset
  BY <1>1, <1>2, KindType
<1>3. CASE Page # {}
  <2>1. IsFiniteSet(Page) /\ Cardinality(Page) \in Nat /\ Cardinality(Page) # 0
    BY <1>3, PageFacts, ListedFacts, FS_Subset, FS_EmptySet
  <2> QED  BY <1>1, <2>1 DEF TypeOK
<1>4. CASE ~Offset /\ Page = {}
  <2>1. cursor' = 0
    BY <1>1, <1>4 DEF Cursor
  <2>2. cursor # 0
    <3> SUFFICES ASSUME cursor = 0 PROVE FALSE
      OBVIOUS
    <3>1. PICK i \in Listed : TRUE
      OBVIOUS
    <3>2. First = 0
      BY <1>4, ListedFacts DEF First, Offset
    <3>3. Before(i) <= 0
      BY <1>4, <3>1, <3>2, EmptyPage
    <3>4. Before(i) \in 1 .. Objects
      BY <3>1, ListOrder
    <3> QED  BY <3>3, <3>4, Constants
  <2> QED  BY <2>1, <2>2
<1> QED  BY <1>2, <1>3, <1>4

\* handlePagination, the searches and the listings by offset ask for no page in
\* vain: every request but the last brings objects, of which TypeOK bounds the
\* number, or follows one that has found nothing behind the cursor.
THEOREM ListingAdvances == Spec => Advances
<1>1. TypeOK /\ [Next]_vars =>
          [Fetch /\ pc' = "list" /\ Listed # {} =>
               count' > count \/ (cursor # 0 /\ cursor' = 0)]_vars
  BY FetchAdvances
<1> QED  BY TypeCorrect, <1>1, PTL DEF Spec, Advances
=============================================================================
