------------------------------- MODULE Lookup -------------------------------
(***************************************************************************)
(* A data source looks an object up by its name while other users create   *)
(* and delete objects: the list is read page by page, and nothing keeps    *)
(* the pages consistent with each other.                                   *)
(*                                                                         *)
(* Objects are numbered in the order in which NSX lists them.  A page      *)
(* comes with a cursor that names its last object, and the last page       *)
(* without one: a request without a cursor is answered with the first      *)
(* page.                                                                   *)
(***************************************************************************)
EXTENDS DataSources, FiniteSetsExt

CONSTANTS
    Kinds,       \* profiles of data sources
    Objects,     \* how many objects there can be
    PageSize     \* objects in a page

ASSUME LookupAssumption ==
    /\ Kinds \subseteq Profile
    /\ \A k \in Kinds : k.picks = "all" => k.lists \notin {"search", "query"}
    /\ {Objects, PageSize} \subseteq Nat \ {0}

Id == 1 .. Objects

VARIABLES
    kind,        \* how the data source lists and picks
    there,       \* each object: not yet created, there, or deleted
    name,        \* each object's name: the one that is looked for, one that
                 \* begins with it, or another
    pc,
    total,       \* how many objects the first page has announced, 0 before
    count,       \* how many objects have come
    cursor,      \* the last object of the last page, 0 for none
    matches,     \* the objects that have come and match, each with its place
                 \* among all that have come: one that comes twice is there twice
    result,      \* how the last lookup ended
    found,       \* what it has found
    stayed,      \* the objects that were there all the time
    since        \* what others have done since the lookup began

inventory == <<kind, name>>
listing == <<total, count, cursor, matches>>
history == <<stayed, since>>
vars == <<inventory, there, pc, listing, result, found, history>>

Is(i, how) == name[i] = how

\* "prefer a perfect match. If not - prefix match"
Begins(i) == Is(i, "exact") \/ Is(i, "prefix")
Matches(i) == CASE kind.picks = "all" -> TRUE
                [] kind.picks = "only" -> Is(i, "exact")
                [] OTHER -> Begins(i)

-----------------------------------------------------------------------------
\* Pages.

\* What the request asks for.
Asked(i) == CASE kind.lists = "search" -> Begins(i)
              [] kind.lists = "query" -> Is(i, "exact")
              [] OTHER -> TRUE

Listed == {i \in Id : there[i] = "there" /\ Asked(i)}

Before(i) == Cardinality({j \in Listed : j <= i})

\* How many objects come before the page: those of the pages before it, or those
\* up to the cursor.
First == IF kind.lists = "offset" THEN count ELSE Before(cursor)

Page == {i \in Listed : Before(i) \in First + 1 .. First + PageSize}

\* The last page has no cursor.
Cursor(page) ==
    IF page = {} \/ Max(page) = Max(Listed) THEN 0 ELSE Max(page)

-----------------------------------------------------------------------------
\* The lookup.

Begin ==
    /\ pc = "idle"
    /\ pc' = "list"
    /\ total' = 0 /\ count' = 0 /\ cursor' = 0 /\ matches' = {}
    /\ result' = "none"
    /\ found' = {}
    /\ stayed' = {i \in Id : there[i] = "there"}
    /\ since' = {}
    /\ UNCHANGED <<inventory, there>>

MutOneMore(announced, seen) == seen <= announced
MutOneLess(announced, seen) == seen + 1 < announced
\* Of a listing that announces nothing, there is more until a page is empty.
More(announced, seen) ==
    CASE kind.lists = "offset" -> seen > count
      [] kind.lists \in {"pages", "search"} -> seen < announced
      [] OTHER -> FALSE

MutThisPage(page) == Cardinality(page)
Seen(page) == count + Cardinality(page)

MutNoCursor(page) == 0
NextCursor(page) == Cursor(page)

\* What matches of a page, and where it comes.
Hits(page) == {<<count + Before(i) - First, i>> : i \in {j \in page : Matches(j)}}

\* A data source that takes the exact name only stops at the second.
Fetch ==
    /\ pc = "list"
    /\ LET page == Page
           announced == IF kind.lists = "offset" THEN 0
                        ELSE IF total = 0 THEN Cardinality(Listed) ELSE total
           seen == Seen(page)
           all == matches \cup Hits(page)
       IN  /\ total' = announced
           /\ count' = seen
           /\ cursor' = NextCursor(page)
           /\ matches' = all
           /\ pc' = IF More(announced, seen) /\ ~(kind.picks = "only" /\ Cardinality(all) > 1)
                    THEN "list" ELSE "pick"
    /\ UNCHANGED <<inventory, there, result, found, history>>

\* A perfect match hides the others.
Candidates ==
    LET exact == {m \in matches : Is(m[2], "exact")}
    IN  CASE kind.picks = "prefer" /\ exact # {} -> exact
          [] kind.picks = "first" -> {m \in matches : \A n \in matches : m[1] <= n[1]}
          [] kind.picks = "last" -> {m \in matches : \A n \in matches : m[1] >= n[1]}
          [] OTHER -> matches

ObjectsOf(hits) == {m[2] : m \in hits}

Take ==
    /\ pc = "pick"
    /\ pc' = "idle"
    /\ result' = IF kind.picks = "all" THEN "all"
                 ELSE CASE Candidates = {} -> "missing"
                        [] Cardinality(Candidates) > 1 -> "multiple"
                        [] OTHER -> "found"
    /\ found' = IF result' \in {"all", "found"} THEN ObjectsOf(Candidates) ELSE {}
    /\ UNCHANGED <<inventory, there, listing, history>>

Fail ==
    /\ pc = "list"
    /\ pc' = "idle"
    /\ result' = "error"
    /\ UNCHANGED <<inventory, there, listing, found, history>>

\* By the id, a lookup is one call.
Get ==
    /\ pc = "idle"
    /\ \E i \in Id :
          /\ result' = IF there[i] = "there" THEN "found" ELSE "missing"
          /\ found' = {i} \cap {j \in Id : there[j] = "there"}
    /\ stayed' = {}
    /\ UNCHANGED <<inventory, there, pc, listing, since>>

-----------------------------------------------------------------------------
\* Other users.

Create ==
    \E i \in Id :
        /\ there[i] = "future"
        /\ there' = [there EXCEPT ![i] = "there"]
        /\ since' = since \cup {"created"}
        /\ UNCHANGED <<inventory, pc, listing, result, found, stayed>>

Delete ==
    \E i \in Id :
        /\ there[i] = "there"
        /\ there' = [there EXCEPT ![i] = "gone"]
        /\ since' = since \cup {"deleted"}
        /\ stayed' = stayed \ {i}
        /\ UNCHANGED <<inventory, pc, listing, result, found>>

-----------------------------------------------------------------------------
Init ==
    /\ kind \in Kinds
    /\ there \in [Id -> {"future", "there"}]
    /\ name \in [Id -> {"exact", "prefix", "other"}]
    /\ pc = "idle"
    /\ total = 0 /\ count = 0 /\ cursor = 0 /\ matches = {}
    /\ result = "none"
    /\ found = {}
    /\ stayed = {}
    /\ since = {}

Next == Begin \/ Fetch \/ Take \/ Fail \/ Get \/ Create \/ Delete

Spec == Init /\ [][Next]_vars

\* Every call is answered.
FairSpec == Spec /\ WF_vars(Fetch) /\ WF_vars(Take)

-----------------------------------------------------------------------------
\* Properties.

\* No listing asks for a page after as many objects have come as there were.
TypeOK ==
    /\ kind \in Kinds
    /\ there \in [Id -> {"future", "there", "gone"}]
    /\ name \in [Id -> {"exact", "prefix", "other"}]
    /\ pc \in {"idle", "list", "pick"}
    /\ total \in 0 .. Objects
    /\ count \in 0 .. Objects + PageSize - 1
    /\ cursor \in 0 .. Objects
    /\ matches \subseteq (1 .. Objects + PageSize - 1) \X Id
    /\ result \in {"none", "all", "found", "missing", "multiple", "error"}
    /\ found \subseteq Id
    /\ stayed \subseteq {i \in Id : there[i] = "there"}
    /\ since \subseteq {"created", "deleted"}

ByName == pc = "idle" /\ result # "none" /\ stayed # {}

\* Listings that look at the first page see every object there is if there is
\* one page of them.
Whole ==
    \/ kind.lists \in {"pages", "search"} /\ "created" \notin since
    \/ kind.lists = "offset" /\ "deleted" \notin since
    \/ kind.lists \in {"once", "query"} /\ total <= PageSize /\ "created" \notin since

\* A listing can only miss an object that is there all the time if others
\* create objects meanwhile (or, of pages that are asked for by number, delete
\* some): a lookup that fails as "not found", or that takes an object whose
\* name only begins with the name, has seen that nothing has the name.
NothingStayedMissed ==
    ByName /\ Whole =>
        /\ result = "missing" => \A i \in stayed : ~(Asked(i) /\ Matches(i))
        /\ result = "all" => stayed \subseteq found
        /\ result = "found" /\ kind.picks = "prefer" =>
              \/ \A i \in stayed : ~Is(i, "exact")
              \/ \A i \in found : Is(i, "exact")

\* "Found multiple": there are several, unless objects were deleted meanwhile,
\* so that the pages have begun again (or, by number, created, so that they
\* have moved).
NoFalseMultiple ==
    pc = "idle" /\ result = "multiple"
    /\ (IF kind.lists = "offset" THEN "created" ELSE "deleted") \notin since
    => Cardinality(ObjectsOf(Candidates)) > 1

\* A listing ends, or everything it lists has been deleted: then the pages
\* that were announced never come, and the loop does not end.
Ends == pc = "list" ~> (pc # "list" \/ Listed = {})
=============================================================================
