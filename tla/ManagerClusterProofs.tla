------------------------ MODULE ManagerClusterProofs ------------------------
(***************************************************************************)
(* The inductive invariant of ManagerCluster, and from it, for any number  *)
(* of nodes, retries, faults, administrators and changes of the            *)
(* configuration: the types, that an apply that refreshes and succeeds has *)
(* formed the cluster, and that it leaves no node behind.                  *)
(***************************************************************************)
EXTENDS ManagerCluster, CountingProofs

-----------------------------------------------------------------------------
(***************************************************************************)
(* The inductive invariant.                                                *)
(***************************************************************************)

\* Which function runs, with what is left of its loops.
Phases ==
    /\ pc \in {"idle", "plan", "refresh"} => doing = "none"
    /\ pc \in {"info", "read"} => doing \in {"create", "update"}
    /\ pc = "nodes" => doing # "none"
    /\ pc # "nodes" => toRemove = {} /\ toJoin = {}
    /\ pc # "idle" => result = "none"
    /\ pc = "refresh" => state # Absent
    /\ doing = "create" => state = Absent
    /\ doing \in {"update", "delete"} => state # Absent
    /\ doing = "delete" => toJoin = {}

\* After a refresh, nodes are known by their own ids, and those that are known
\* are there.
Known ==
    refreshed /\ pc \notin {"idle", "refresh"} =>
        /\ \A i \in DOMAIN Entries : Entries[i].id = Entries[i].ip
        /\ ~disturbed /\ pc \in {"plan", "info"} =>
              \A i \in DOMAIN Ips : Ips[i] \in cluster

\* Update removes nothing that it is to keep.
Keeps == doing = "update" => \A i \in toRemove : Ips[i] \notin ToSet(want)

\* What the resource has joined, and is not to keep, is yet to be removed.
Leaves ==
    refreshed /\ pc \in {"nodes", "read"} =>
        \A i \in DOMAIN Ips :
            \/ Ips[i] \notin ours
            \/ i \in toRemove
            \/ doing = "update" /\ Ips[i] \in ToSet(want)

\* What is not there is yet to be joined.
Joins ==
    refreshed /\ ~disturbed /\ pc \in {"nodes", "read"} /\ doing # "delete" =>
        \A i \in DOMAIN want : want[i] \in cluster \/ i \in toJoin

\* Before anything has gone wrong, the state, the cluster and what the resource
\* has joined agree; while a loop runs, but for what is left of it.
Calm == faults = 0 /\ others = 0 /\ ~gaveUp

Agree ==
    /\ \A i \in DOMAIN Ips : Ips[i] \in cluster
    /\ \A n \in cluster : n \in ToSet(Ips)

Underway ==
    /\ \A i \in toRemove : Ips[i] \in cluster
    /\ \A i \in toJoin : want[i] \notin cluster
    /\ \A n \in cluster : \/ \E i \in toRemove : Ips[i] = n
                          \/ doing # "delete" /\ n \in ToSet(want)
    /\ doing # "delete" => \A i \in DOMAIN want : want[i] \in cluster \/ i \in toJoin

OwnIds ==
    /\ \A i \in DOMAIN Entries : Entries[i].id = Entries[i].ip
    /\ \A i, j \in DOMAIN Ips : Ips[i] = Ips[j] => i = j

Untroubled ==
    Calm =>
        /\ result \in {"none", "ok"}
        /\ OwnIds
        /\ ours = cluster
        /\ pc \notin {"nodes", "read"} => Agree
        /\ pc \in {"nodes", "read"} => Underway

IInv == TypeOK /\ Phases /\ Known /\ Keeps /\ Leaves /\ Joins /\ OkMeansJoined /\ Untroubled

-----------------------------------------------------------------------------
(***************************************************************************)
(* Lists of nodes.                                                         *)
(***************************************************************************)

LEMMA Constants ==
    /\ None \notin Node
    /\ Absent \notin [node : Seq(Entry), tainted : BOOLEAN]
    /\ MaxRetries \in Nat /\ MaxFaults \in Nat /\ MaxOthers \in Nat /\ MaxEdits \in Nat
BY ManagerClusterAssumption

LEMMA ListType ==
    ASSUME NEW s \in List
    PROVE  s \in Seq(Node) /\ DOMAIN s = 1 .. Len(s) /\ \A i \in DOMAIN s : s[i] \in Node
<1>1. s \in SeqOf(Node, Cardinality(Node))
  BY DEF List
<1>2. PICK m \in 0 .. Cardinality(Node) : s \in [1 .. m -> Node]
  BY <1>1 DEF SeqOf
<1>3. m \in Nat
  BY <1>2
<1> QED  BY <1>2, <1>3

LEMMA ListsType ==
    ASSUME TypeOK
    PROVE  /\ want \in Seq(Node) /\ \A i \in DOMAIN want : want[i] \in Node
           /\ Entries \in Seq(Entry)
           /\ DOMAIN Entries = 1 .. Len(Entries)
           /\ \A i \in DOMAIN Entries : Entries[i] \in Entry
           /\ Ips \in Seq(Node)
           /\ DOMAIN Ips = DOMAIN Entries /\ Len(Ips) = Len(Entries)
           /\ \A i \in DOMAIN Ips : Ips[i] = Entries[i].ip /\ Ips[i] \in Node
<1>1. want \in Seq(Node) /\ \A i \in DOMAIN want : want[i] \in Node
  BY ListType DEF TypeOK
<1>2. Entries \in Seq(Entry)
  BY DEF TypeOK, Entries
<1>3. /\ DOMAIN Entries = 1 .. Len(Entries) /\ Len(Entries) \in Nat
      /\ \A i \in DOMAIN Entries : Entries[i] \in Entry
  BY <1>2
<1>4. \A i \in DOMAIN Entries : Entries[i].ip \in Node
  BY <1>3 DEF Entry
<1>5. Ips \in [1 .. Len(Entries) -> Node]
  BY <1>3, <1>4 DEF Ips
<1>6. Ips \in Seq(Node) /\ DOMAIN Ips = DOMAIN Entries /\ Len(Ips) = Len(Entries)
  BY <1>3, <1>5
<1>7. \A i \in DOMAIN Ips : Ips[i] = Entries[i].ip /\ Ips[i] \in Node
  BY <1>4, <1>6 DEF Ips
<1> QED  BY <1>1, <1>2, <1>3, <1>6, <1>7

LEMMA MinOf ==
    ASSUME NEW s \in Seq(Node) \cup Seq(Entry), NEW S \in SUBSET DOMAIN s, S # {}
    PROVE  Min(S) \in S
<1>1. S \in SUBSET Nat
  OBVIOUS
<1>2. \E n \in S : \A m \in S : n <= m
  BY <1>1, LeastElement
<1> QED  BY <1>2 DEF Min

LEMMA ResourceType ==
    ASSUME NEW nodes \in Seq(Entry), NEW tainted \in BOOLEAN
    PROVE  /\ Resource(nodes, tainted) \in [node : Seq(Entry), tainted : BOOLEAN]
           /\ Resource(nodes, tainted) # Absent
           /\ Resource(nodes, tainted).node = nodes
BY Constants DEF Resource

LEMMA SavedType ==
    ASSUME TypeOK, Phases, doing \in {"create", "update"}
    PROVE  Saved \in [node : Seq(Entry), tainted : BOOLEAN]
<1> DEFINE id(i) == IF doing = "update" /\ i \in DOMAIN state.node THEN state.node[i].id ELSE None
<1> DEFINE nodes == [i \in DOMAIN want |-> [ip |-> want[i], id |-> id(i)]]
<1>1. \A i : id(i) \in Node \cup {None}
  <2> SUFFICES ASSUME NEW i, doing = "update", i \in DOMAIN state.node
               PROVE  state.node[i].id \in Node \cup {None}
    OBVIOUS
  <2>1. Entries = state.node
    BY DEF Phases, Entries
  <2>2. state.node[i] \in Entry
    BY <2>1, ListsType
  <2> QED  BY <2>2 DEF Entry
<1>2. \A i \in DOMAIN want : [ip |-> want[i], id |-> id(i)] \in Entry
  BY <1>1, ListsType DEF Entry
<1>3. nodes \in Seq(Entry)
  <2>1. want \in Seq(Node) /\ DOMAIN want = 1 .. Len(want) /\ Len(want) \in Nat
    BY ListsType
  <2>2. nodes \in [1 .. Len(want) -> Entry]
    BY <1>2, <2>1
  <2> QED  BY <2>1, <2>2
<1>4. Saved = Resource(nodes, doing = "create")
  BY DEF Saved
<1>5. (doing = "create") \in BOOLEAN
  OBVIOUS
<1> HIDE DEF nodes
<1> QED  BY <1>3, <1>4, <1>5, ResourceType

\* What Read finds: the nodes of the list that are there, in its order.
LEMMA FoundFacts ==
    ASSUME NEW nodes \in Seq(Node)
    PROVE  /\ Found(nodes) \in Seq(Entry)
           /\ \A k \in DOMAIN Found(nodes) :
                 /\ Found(nodes)[k].id = Found(nodes)[k].ip
                 /\ Found(nodes)[k].ip \in cluster
           /\ \A i \in DOMAIN nodes : nodes[i] \in cluster =>
                 \E k \in DOMAIN Found(nodes) : Found(nodes)[k].ip = nodes[i]
           /\ (\A i \in DOMAIN nodes : nodes[i] \in cluster) =>
                 /\ DOMAIN Found(nodes) = DOMAIN nodes
                 /\ \A k \in DOMAIN nodes : Found(nodes)[k].ip = nodes[k]
<1> DEFINE n == Len(nodes)
<1> DEFINE S == {i \in DOMAIN nodes : nodes[i] \in cluster}
<1> DEFINE at(k) == CHOOSE i \in S : Cardinality({j \in S : j <= i}) = k
<1>1. n \in Nat /\ DOMAIN nodes = 1 .. n /\ S \in SUBSET (1 .. n)
  OBVIOUS
<1>2. IsFiniteSet(1 .. n) /\ Cardinality(1 .. n) = n
  <2>1. IsFiniteSet(1 .. n) /\ Cardinality(1 .. n) = IF 1 > n THEN 0 ELSE n - 1 + 1
    BY <1>1, FS_Interval
  <2> QED  BY <1>1, <2>1
<1>3. IsFiniteSet(S) /\ Cardinality(S) \in Nat
  BY <1>1, <1>2, FS_Subset, FS_CardinalityType
<1>4. Found(nodes) = [k \in 1 .. Cardinality(S) |-> [ip |-> nodes[at(k)], id |-> nodes[at(k)]]]
  BY DEF Found
<1>5. \A k : at(k) = CHOOSE i \in S : Rank(S, i) = k
  BY DEF Rank
<1> HIDE DEF S, at
<1>6. \A k \in 1 .. Cardinality(S) : at(k) \in S /\ Rank(S, at(k)) = k
  <2> TAKE k \in 1 .. Cardinality(S)
  <2>1. \E i \in S : Rank(S, i) = k
    BY <1>1, RankOnto
  <2> QED  BY <1>5, <2>1
<1>7. \A k \in 1 .. Cardinality(S) : nodes[at(k)] \in Node /\ nodes[at(k)] \in cluster
  BY <1>6 DEF S
<1>8. Found(nodes) \in [1 .. Cardinality(S) -> Entry]
  BY <1>4, <1>7 DEF Entry
<1>9. \A i \in S : Rank(S, i) \in 1 .. Cardinality(S) /\ at(Rank(S, i)) = i
  <2> SUFFICES ASSUME NEW i \in S
               PROVE  Rank(S, i) \in 1 .. Cardinality(S) /\ at(Rank(S, i)) = i
    OBVIOUS
  <2>1. S \in SUBSET Int /\ i \in Int /\ 0 < i
    BY <1>1
  <2>2. Rank(S, i) \in Nat /\ Rank(S, i) <= Cardinality(S) /\ Rank(S, 0) \in Nat
    BY <1>3, RankType
  <2>3. Rank(S, 0) < Rank(S, i)
    BY <1>3, <2>1, RankAfter
  <2>4. Rank(S, i) \in 1 .. Cardinality(S)
    BY <1>3, <2>2, <2>3
  <2> DEFINE j == at(Rank(S, i))
  <2>5. j \in S /\ Rank(S, j) = Rank(S, i)
    BY <1>6, <2>4
  <2> HIDE DEF j
  <2>6. j \in Int
    BY <2>1, <2>5
  <2>7. ~(i < j)
    BY <1>3, <2>1, <2>2, <2>5, RankAfter
  <2>8. ~(j < i)
    BY <1>3, <2>1, <2>2, <2>5, <2>6, RankAfter
  <2>9. j = i
    BY <2>1, <2>6, <2>7, <2>8
  <2> QED  BY <2>4, <2>9 DEF j
<1>10. \A i \in DOMAIN nodes : nodes[i] \in cluster =>
           \E k \in DOMAIN Found(nodes) : Found(nodes)[k].ip = nodes[i]
  <2> SUFFICES ASSUME NEW i \in S
               PROVE  \E k \in DOMAIN Found(nodes) : Found(nodes)[k].ip = nodes[i]
    BY DEF S
  <2>1. Rank(S, i) \in DOMAIN Found(nodes) /\ Found(nodes)[Rank(S, i)].ip = nodes[i]
    BY <1>4, <1>9
  <2> QED  BY <2>1
<1>11. ASSUME \A i \in DOMAIN nodes : nodes[i] \in cluster
       PROVE  /\ DOMAIN Found(nodes) = DOMAIN nodes
              /\ \A k \in DOMAIN nodes : Found(nodes)[k].ip = nodes[k]
  <2>1. S = 1 .. n
    BY <1>1, <1>11 DEF S
  <2>2. \A k \in 1 .. n : Rank(S, k) = k
    <3> TAKE k \in 1 .. n
    <3>1. {j \in S : j <= k} = 1 .. k
      BY <2>1
    <3>2. Cardinality(1 .. k) = IF 1 > k THEN 0 ELSE k - 1 + 1
      BY FS_Interval
    <3>3. Cardinality(1 .. k) = k
      BY <3>2
    <3> QED  BY <3>1, <3>3 DEF Rank
  <2>3. \A k \in 1 .. n : at(k) = k
    BY <1>9, <2>1, <2>2
  <2>4. Found(nodes) = [k \in 1 .. n |-> [ip |-> nodes[at(k)], id |-> nodes[at(k)]]]
    BY <1>2, <1>4, <2>1
  <2>5. \A k \in 1 .. n : Found(nodes)[k].ip = nodes[k]
    BY <2>3, <2>4
  <2>6. DOMAIN Found(nodes) = 1 .. n
    BY <2>4
  <2>7. DOMAIN Found(nodes) = DOMAIN nodes
    BY <1>1, <2>6
  <2>8. \A k \in DOMAIN nodes : Found(nodes)[k].ip = nodes[k]
    BY <1>1, <2>5
  <2> QED  BY <2>7, <2>8
<1>12. Found(nodes) \in Seq(Entry)
  BY <1>3, <1>8
<1>13. ASSUME NEW k \in DOMAIN Found(nodes)
       PROVE  Found(nodes)[k].id = Found(nodes)[k].ip /\ Found(nodes)[k].ip \in cluster
  <2>1. /\ k \in 1 .. Cardinality(S)
        /\ Found(nodes)[k] = [ip |-> nodes[at(k)], id |-> nodes[at(k)]]
    BY <1>4
  <2> QED  BY <1>7, <2>1
<1> QED  BY <1>10, <1>11, <1>12, <1>13

-----------------------------------------------------------------------------
(***************************************************************************)
(* The types.                                                              *)
(***************************************************************************)

\* The next node of the loops.
LEMMA NextNode ==
    ASSUME TypeOK
    PROVE  /\ toRemove # {} => Min(toRemove) \in toRemove /\ Min(toRemove) \in DOMAIN Entries
           /\ toJoin # {} => /\ Min(toJoin) \in toJoin /\ Min(toJoin) \in DOMAIN want
                             /\ Coming \in Node /\ Coming \in ToSet(want)
<1>1. toRemove # {} => Min(toRemove) \in toRemove
  BY ListsType, MinOf DEF TypeOK
<1>2. toJoin # {} => Min(toJoin) \in toJoin
  BY ListsType, MinOf DEF TypeOK
<1>3. toJoin # {} => Coming \in Node /\ Coming \in ToSet(want)
  <2> SUFFICES ASSUME toJoin # {} PROVE Coming \in Node /\ Coming \in ToSet(want)
    OBVIOUS
  <2>1. Min(toJoin) \in DOMAIN want
    BY <1>2 DEF TypeOK
  <2> QED  BY <2>1, ListsType DEF Coming, ToSet
<1> QED  BY <1>1, <1>2, <1>3 DEF TypeOK

\* A call changes the cluster by one node, and what the resource has joined with it.
LEMMA EffectType ==
    ASSUME TypeOK
    PROVE  /\ Removed \subseteq cluster /\ Effect \subseteq Node
           /\ toJoin # {} => Joined \subseteq Node
<1>1. toJoin # {} => Joined \subseteq Node
  BY NextNode DEF Joined, TypeOK
<1> QED  BY <1>1 DEF Removed, Effect, TypeOK

LEMMA ClusterStep ==
    ASSUME TypeOK, [Next]_vars
    PROVE  cluster' \subseteq Node /\ ours' \subseteq cluster'
<1>1. cluster \subseteq Node /\ ours \subseteq cluster
  BY DEF TypeOK
<1>2. CASE Plan \/ Info \/ GiveUp \/ RemoveMissing \/ Looped \/ Refresh \/ Read
  <2>1. cluster' = cluster /\ ours' = (ours \cap cluster) \cup (cluster \ cluster)
    BY <1>2 DEF Plan, Info, GiveUp, RemoveMissing, Looped, Refresh, Read, Replaced, Move, End
  <2> QED  BY <1>1, <2>1
<1>3. CASE RemoveNode
  <2>1. cluster' = Removed /\ ours' = (ours \cap Removed) \cup (Removed \ cluster)
    BY <1>3 DEF RemoveNode, Move
  <2> QED  BY <1>1, <2>1, EffectType
<1>4. CASE JoinNode
  <2>1. \E c \in {cluster, Joined} :
            cluster' = c /\ ours' = (ours \cap c) \cup (c \ cluster) /\ toJoin # {}
    BY <1>4 DEF JoinNode, Move, End
  <2> QED  BY <1>1, <2>1, EffectType
<1>5. CASE SentAgain \/ CallFails \/ Kill
  <2>1. \E c \in {cluster, Effect} :
            cluster' = c /\ ours' = (ours \cap c) \cup (c \ cluster)
    BY <1>5 DEF SentAgain, CallFails, Kill, End
  <2> QED  BY <1>1, <2>1, EffectType
<1>6. CASE Administrator
  BY <1>1, <1>6 DEF Administrator
<1>7. CASE \/ \E refresh \in BOOLEAN : BeginAgain(refresh) \/ BeginEdited(refresh)
           \/ NoAddress \/ UNCHANGED vars
  <2>1. cluster' = cluster /\ ours' = ours
    BY <1>7 DEF NoAddress, BeginAgain, BeginEdited, Begin, vars
  <2> QED  BY <1>1, <2>1
<1> QED  BY <1>2, <1>3, <1>4, <1>5, <1>6, <1>7 DEF Next, Progress

\* What the state becomes.
StateType == state = Absent \/ state \in [node : Seq(Entry), tainted : BOOLEAN]

LEMMA FailedType ==
    ASSUME TypeOK, Phases
    PROVE  FailedState = Absent \/ FailedState \in [node : Seq(Entry), tainted : BOOLEAN]
BY SavedType DEF FailedState, TypeOK

LEMMA StateStep ==
    ASSUME TypeOK, Phases, [Next]_vars
    PROVE  StateType'
<1>1. StateType
  BY DEF TypeOK, StateType
<1>2. CASE Refresh
  <2>1. state' = Resource(Found(Ips), state.tainted) /\ state # Absent
    BY <1>2 DEF Refresh, Phases
  <2>2. Found(Ips) \in Seq(Entry) /\ state.tainted \in BOOLEAN
    BY <1>1, <2>1, FoundFacts, ListsType DEF StateType
  <2> QED  BY <2>1, <2>2, ResourceType DEF StateType
<1>3. CASE Read
  <2>1. state' = Resource(Found(want), FALSE)
    BY <1>3 DEF Read, End
  <2>2. Found(want) \in Seq(Entry)
    BY FoundFacts, ListsType
  <2> QED  BY <2>1, <2>2, ResourceType DEF StateType
<1>4. CASE ~Refresh /\ ~Read
  <2>1. state' \in {state, Absent, FailedState}
    BY <1>4 DEF Next, Progress, Plan, Info, NoAddress, GiveUp, RemoveNode, RemoveMissing,
                JoinNode, Looped, SentAgain, CallFails, Kill, Administrator, BeginAgain, BeginEdited, Begin,
                Replaced, Move, End, vars
  <2> QED  BY <1>1, <2>1, FailedType DEF StateType
<1> QED  BY <1>2, <1>3, <1>4

\* What is left of the loops are places of the lists.
LEMMA LoopsStep ==
    ASSUME TypeOK, Phases, [Next]_vars
    PROVE  want' \in List /\ toRemove' \subseteq DOMAIN Entries' /\ toJoin' \subseteq DOMAIN want'
<1>1. want \in List /\ toRemove \subseteq DOMAIN Entries /\ toJoin \subseteq DOMAIN want
  BY DEF TypeOK
<1>2. CASE Plan
  <2>1. want' = want /\ state' = state /\ (toRemove' \in {{}, toRemove, DOMAIN Entries})
        /\ toJoin' \in {{}, toJoin}
    BY <1>2 DEF Plan, Within, apply, End
  <2>2. Entries' = Entries
    BY <2>1 DEF Entries
  <2> QED  BY <1>1, <2>1, <2>2
<1>3. CASE Info
  <2>1. want' = want /\ state' = state /\ toRemove' = Obsolete /\ toJoin' = New
    BY <1>3 DEF Info, Within, apply
  <2>2. Entries' = Entries /\ DOMAIN Ips = DOMAIN Entries
    BY <2>1, ListsType DEF Entries
  <2>3. Obsolete \subseteq DOMAIN Entries /\ New \subseteq DOMAIN want
    BY <2>2 DEF Obsolete, New
  <2> QED  BY <1>1, <2>1, <2>2, <2>3
<1>4. CASE RemoveNode \/ NoAddress \/ SentAgain \/ Administrator \/ UNCHANGED vars
  <2>1. want' = want /\ state' = state /\ toRemove' \subseteq toRemove /\ toJoin' = toJoin
    BY <1>4 DEF RemoveNode, NoAddress, SentAgain, Fault, Administrator, Within, loops, apply, vars
  <2>2. Entries' = Entries
    BY <2>1 DEF Entries
  <2> QED  BY <1>1, <2>1, <2>2
<1>5. CASE RemoveMissing \/ Looped
  <2>1. /\ want' = want
        /\ \/ toRemove' = {} /\ toJoin' \in {{}, toJoin}
           \/ state' = state /\ toRemove' = toRemove /\ toJoin' = toJoin
    BY <1>5 DEF RemoveMissing, Looped, Replaced, End, Within, apply
  <2>2. state' = state => Entries' = Entries
    BY DEF Entries
  <2> QED  BY <1>1, <2>1, <2>2
<1>6. CASE JoinNode
  <2>1. /\ want' = want
        /\ \/ toRemove' = {} /\ toJoin' = {}
           \/ state' = state /\ toRemove' = toRemove /\ toJoin' \subseteq toJoin
    BY <1>6 DEF JoinNode, End, Within, apply
  <2>2. state' = state => Entries' = Entries
    BY DEF Entries
  <2> QED  BY <1>1, <2>1, <2>2
<1>7. CASE Refresh
  <2>1. want' = want /\ toRemove' = {} /\ toJoin' = {}
    BY <1>7 DEF Refresh, Phases, Within, apply
  <2> QED  BY <1>1, <2>1
<1>8. CASE Read \/ GiveUp \/ CallFails \/ Kill
  <2>1. want' = want /\ toRemove' = {} /\ toJoin' = {}
    BY <1>8 DEF Read, GiveUp, CallFails, Kill, Fault, End, Within, apply
  <2> QED  BY <1>1, <2>1
<1>9. CASE \E refresh \in BOOLEAN : BeginAgain(refresh) \/ BeginEdited(refresh)
  <2>1. want' \in List /\ toRemove' = {} /\ toJoin' = {}
    BY <1>1, <1>9 DEF BeginAgain, BeginEdited, Begin, Phases, loops
  <2> QED  BY <2>1
<1> QED  BY <1>2, <1>3, <1>4, <1>5, <1>6, <1>7, <1>8, <1>9 DEF Next, Progress

LEMMA CountersStep ==
    ASSUME TypeOK, [Next]_vars
    PROVE  /\ tries' \in 0 .. MaxRetries
           /\ faults' \in 0 .. MaxFaults
           /\ others' \in 0 .. MaxOthers
           /\ edits' \in 0 .. MaxEdits
<1>1. CASE Progress
  <2>1. /\ tries' \in {0, tries} \/ (tries < MaxRetries /\ tries' = tries + 1)
        /\ UNCHANGED <<faults, others, edits>>
    BY <1>1 DEF Progress, Plan, Info, NoAddress, GiveUp, RemoveNode, RemoveMissing, JoinNode, Looped, Refresh, Read,
                Replaced, Move, End, Within, apply
  <2> QED  BY <2>1, Constants DEF TypeOK
<1>2. CASE SentAgain
  BY <1>2, Constants DEF SentAgain, LastTry, Fault, apply, TypeOK
<1>3. CASE CallFails \/ Kill
  BY <1>3, Constants DEF CallFails, Kill, End, Fault, apply, TypeOK
<1>4. CASE Administrator
  BY <1>4, Constants DEF Administrator, loops, apply, TypeOK
<1>5. CASE \E refresh \in BOOLEAN : BeginAgain(refresh) \/ BeginEdited(refresh)
  BY <1>5, Constants DEF BeginAgain, BeginEdited, Begin, loops, TypeOK
<1>6. CASE UNCHANGED vars
  BY <1>6 DEF vars, loops, apply, TypeOK
<1> QED  BY <1>1, <1>2, <1>3, <1>4, <1>5, <1>6 DEF Next

LEMMA PhaseTypes ==
    ASSUME TypeOK, [Next]_vars
    PROVE  /\ pc' \in {"idle", "plan", "refresh", "info", "nodes", "read"}
           /\ doing' \in {"none", "create", "update", "delete"}
           /\ result' \in {"none", "ok", "missing", "error", "killed"}
           /\ refreshed' \in BOOLEAN
           /\ disturbed' \in BOOLEAN
           /\ gaveUp' \in BOOLEAN
<1>1. CASE Progress
  BY <1>1 DEF Progress, Plan, Info, NoAddress, GiveUp, RemoveNode, RemoveMissing, JoinNode,
              Looped, Refresh, Read, Replaced, Move, End, Within, apply, TypeOK
<1>2. CASE SentAgain \/ CallFails \/ Kill
  BY <1>2 DEF SentAgain, CallFails, Kill, End, Fault, apply, TypeOK
<1>3. CASE Administrator
  BY <1>3 DEF Administrator, apply, TypeOK
<1>4. CASE \E refresh \in BOOLEAN : BeginAgain(refresh) \/ BeginEdited(refresh)
  BY <1>4 DEF BeginAgain, BeginEdited, Begin, TypeOK
<1>5. CASE UNCHANGED vars
  BY <1>5 DEF vars, apply, TypeOK
<1> QED  BY <1>1, <1>2, <1>3, <1>4, <1>5 DEF Next

LEMMA TypeStep ==
    ASSUME TypeOK, Phases, [Next]_vars
    PROVE  TypeOK'
BY ClusterStep, StateStep, LoopsStep, CountersStep, PhaseTypes DEF TypeOK, StateType

LEMMA PhasesStep ==
    ASSUME TypeOK, Phases, [Next]_vars
    PROVE  Phases'
<1>1. CASE Plan
  BY <1>1 DEF Plan, Move, End, Phases
<1>2. CASE Info
  BY <1>2 DEF Info, Move, Phases
<1>3. CASE RemoveNode \/ JoinNode
  BY <1>3 DEF RemoveNode, JoinNode, Move, End, Phases
<1>4. CASE RemoveMissing \/ Looped
  <2>1. CASE pc' = "idle"
    BY <1>4, <2>1 DEF RemoveMissing, Looped, Replaced, Move, End, Phases
  <2>2. CASE pc' = "info"
    <3>1. Replaced /\ doing = "delete"
      BY <1>4, <2>2 DEF RemoveMissing, Looped, Move, End
    <3> QED  BY <1>4, <3>1 DEF RemoveMissing, Looped, Replaced, Move, Phases
  <2>3. CASE pc' = "read"
    <3>1. /\ pc = "nodes" /\ doing \in {"create", "update"} /\ toRemove = {} /\ toJoin = {}
          /\ UNCHANGED <<state, doing, toRemove, toJoin, result>>
      BY <1>4, <2>3 DEF RemoveMissing, Looped, Replaced, Move, End, Phases, TypeOK
    <3> QED  BY <2>3, <3>1 DEF Phases
  <2> QED  BY <1>4, <2>1, <2>2, <2>3 DEF RemoveMissing, Looped, Replaced, Move, End
<1>5. CASE Refresh
  <2>1. state' = Resource(Found(Ips), state.tainted) /\ state # Absent
    BY <1>5 DEF Refresh, Phases
  <2>2. Found(Ips) \in Seq(Entry) /\ state.tainted \in BOOLEAN
    BY <2>1, FoundFacts, ListsType DEF TypeOK
  <2>3. state' # Absent
    BY <2>1, <2>2, ResourceType
  <2> QED  BY <1>5, <2>3 DEF Refresh, Move, Phases
<1>6. CASE Read \/ GiveUp \/ CallFails \/ Kill
  BY <1>6 DEF Read, GiveUp, CallFails, Kill, End, Phases
<1>7. CASE NoAddress \/ SentAgain \/ Administrator
  BY <1>7 DEF NoAddress, SentAgain, Administrator, loops, Phases
<1>8. CASE \E refresh \in BOOLEAN : BeginAgain(refresh) \/ BeginEdited(refresh)
  BY <1>8 DEF BeginAgain, BeginEdited, Begin, loops, Phases
<1>9. CASE UNCHANGED vars
  BY <1>9 DEF vars, loops, Phases
<1> QED  BY <1>1, <1>2, <1>3, <1>4, <1>5, <1>6, <1>7, <1>8, <1>9 DEF Next, Progress

-----------------------------------------------------------------------------
(***************************************************************************)
(* What an apply knows and what is left of it.                             *)
(***************************************************************************)

LEMMA KnownStep ==
    ASSUME TypeOK, Phases, Known, [Next]_vars
    PROVE  Known'
<1>1. CASE Refresh
  <2>1. /\ state' = Resource(Found(Ips), state.tainted) /\ state # Absent
        /\ cluster' = cluster
    BY <1>1 DEF Refresh, Move, Phases
  <2>2. Found(Ips) \in Seq(Entry) /\ state.tainted \in BOOLEAN
    BY <2>1, FoundFacts, ListsType DEF TypeOK
  <2>3. Entries' = Found(Ips)
    BY <2>1, <2>2, ResourceType DEF Entries
  <2>4. \A i \in DOMAIN Entries' : /\ Entries'[i].id = Entries'[i].ip
                                    /\ Entries'[i].ip \in cluster'
    BY <2>1, <2>3, FoundFacts, ListsType
  <2>5. \A i \in DOMAIN Ips' : Ips'[i] \in cluster'
    BY <2>4 DEF Ips
  <2> QED  BY <2>4, <2>5 DEF Known
<1>2. CASE Plan \/ Info
  <2>1. /\ UNCHANGED <<cluster, state, refreshed, disturbed>>
        /\ pc \in {"plan", "info"}
    BY <1>2 DEF Plan, Info, Move, End, Within, apply
  <2>2. Entries' = Entries /\ Ips' = Ips
    BY <2>1 DEF Entries, Ips
  <2> QED  BY <2>1, <2>2 DEF Known
<1>3. CASE Replaced
  <2>1. Entries' = <<>>
    BY <1>3 DEF Replaced, Entries
  <2>2. DOMAIN Entries' = {} /\ DOMAIN Ips' = {}
    BY <2>1 DEF Ips
  <2> QED  BY <2>2 DEF Known
<1>4. CASE pc' = "idle"
  BY <1>4 DEF Known
<1>5. CASE (RemoveNode \/ RemoveMissing \/ JoinNode \/ Looped) /\ pc' # "idle" /\ ~Replaced
  <2>1. UNCHANGED <<state, refreshed>> /\ pc = "nodes" /\ pc' \in {"nodes", "read"}
    BY <1>5 DEF RemoveNode, RemoveMissing, JoinNode, Looped, Move, End, Within, apply
  <2>2. Entries' = Entries
    BY <2>1 DEF Entries
  <2> QED  BY <2>1, <2>2 DEF Known
<1>6. CASE NoAddress \/ SentAgain \/ Administrator \/ UNCHANGED vars
  <2>1. /\ UNCHANGED <<state, pc, refreshed>>
        /\ disturbed' \/ (disturbed' = disturbed /\ (cluster' = cluster \/ pc = "nodes"))
    BY <1>6 DEF NoAddress, SentAgain, Effect, Administrator, Within, Fault, apply, vars
  <2>2. Entries' = Entries /\ Ips' = Ips
    BY <2>1 DEF Entries, Ips
  <2> QED  BY <2>1, <2>2 DEF Known
<1>7. CASE \E refresh \in BOOLEAN : BeginAgain(refresh) \/ BeginEdited(refresh)
  <2>1. /\ state' = state
        /\ refreshed' => pc' = "refresh" \/ state = Absent
    BY <1>7 DEF BeginAgain, BeginEdited, Begin
  <2>2. state = Absent => DOMAIN Entries' = {} /\ DOMAIN Ips' = {}
    BY <2>1 DEF Entries, Ips
  <2> QED  BY <2>1, <2>2 DEF Known
<1>8. Read \/ GiveUp \/ CallFails \/ Kill => pc' = "idle"
  BY DEF Read, GiveUp, CallFails, Kill, End
<1> QED  BY <1>1, <1>2, <1>3, <1>4, <1>5, <1>6, <1>7, <1>8 DEF Next, Progress

LEMMA KeepsStep ==
    ASSUME TypeOK, Phases, Keeps, [Next]_vars
    PROVE  Keeps'
<1>1. CASE Info
  <2>1. want' = want /\ state' = state /\ toRemove' = Obsolete
    BY <1>1 DEF Info, Within, apply
  <2>2. Ips' = Ips
    BY <2>1 DEF Ips, Entries
  <2> QED  BY <2>1, <2>2 DEF Keeps, Obsolete
<1>2. CASE doing' # "update" \/ toRemove' = {}
  BY <1>2 DEF Keeps
<1>3. CASE ~Info /\ doing' = "update" /\ toRemove' # {}
  <2>1. want' = want /\ state' = state /\ doing = "update" /\ toRemove' \subseteq toRemove
    BY <1>3 DEF Next, Progress, Plan, NoAddress, GiveUp, RemoveNode, RemoveMissing, JoinNode,
                Looped, Refresh, Read, SentAgain, CallFails, Kill, Administrator, BeginAgain,
                BeginEdited, Begin, Replaced, Move, End, Within, Fault, apply, loops, vars, Phases
  <2>2. Ips' = Ips
    BY <2>1 DEF Ips, Entries
  <2> QED  BY <2>1, <2>2 DEF Keeps
<1> QED  BY <1>1, <1>2, <1>3

\* Removing a node of the list takes it from what the resource has joined.
LEMMA RemovedIsGone ==
    ASSUME TypeOK, Phases, Known, refreshed, pc = "nodes", toRemove # {}
    PROVE  Leaving = Ips[Min(toRemove)] /\ Ips[Min(toRemove)] \notin Removed
<1>1. Leaving = Ips[Min(toRemove)]
  BY NextNode, ListsType DEF Known, Leaving
<1> QED  BY <1>1 DEF Removed

LEMMA UpdateRemoves ==
    ASSUME TypeOK, Phases, Known, Keeps, refreshed, pc = "nodes", toRemove # {}, doing # "delete"
    PROVE  Leaving \notin ToSet(want)
<1>1. doing = "update"
  <2>1. doing = "create" => DOMAIN Entries = {}
    BY DEF Phases, Entries
  <2> QED  BY <2>1 DEF Phases, TypeOK
<1> QED  BY <1>1, RemovedIsGone, NextNode DEF Keeps

\* A step of the loops, or another's, that leaves the state and the
\* configuration as they are, and adds to what the resource has joined only
\* nodes of the configuration.
LEMMA LeavesKept ==
    ASSUME TypeOK, Leaves, pc = "nodes", UNCHANGED <<state, want, doing, refreshed>>,
           ours' \subseteq ours \cup ToSet(want), toJoin = {} => ours' \subseteq ours,
           doing = "delete" => toJoin = {}, doing = "create" => state = Absent,
           doing \in {"create", "update", "delete"},
           \A i \in toRemove : i \in toRemove' \/ Ips[i] \notin ours'
    PROVE  Leaves'
<1> SUFFICES ASSUME refreshed, NEW i \in DOMAIN Ips
             PROVE  \/ Ips[i] \notin ours'
                    \/ i \in toRemove'
                    \/ doing = "update" /\ Ips[i] \in ToSet(want)
  <2>1. Ips' = Ips
    BY DEF Ips, Entries
  <2> QED  BY <2>1 DEF Leaves
<1>1. Ips[i] \notin ours \/ i \in toRemove \/ (doing = "update" /\ Ips[i] \in ToSet(want))
  BY DEF Leaves
<1>2. doing # "create"
  BY DEF Ips, Entries
<1> QED  BY <1>1, <1>2

LEMMA LeavesStep ==
    ASSUME TypeOK, Phases, Known, Keeps, Leaves, [Next]_vars
    PROVE  Leaves'
<1>1. CASE pc' \notin {"nodes", "read"}
  BY <1>1 DEF Leaves
<1>2. CASE Plan
  <2> SUFFICES ASSUME pc' = "nodes" PROVE Leaves'
    BY <1>1, <1>2 DEF Plan, Move, End
  <2>1. state' = state /\ toRemove' = DOMAIN Entries
    BY <1>2 DEF Plan, Move, End
  <2>2. DOMAIN Ips' = DOMAIN Entries
    BY <2>1, ListsType DEF Ips, Entries
  <2> QED  BY <2>1, <2>2 DEF Leaves
<1>3. CASE Info
  <2>1. want' = want /\ state' = state /\ toRemove' = Obsolete /\ doing' = doing
    BY <1>3 DEF Info, Within, apply
  <2>2. Ips' = Ips
    BY <2>1 DEF Ips, Entries
  <2>3. doing = "create" => DOMAIN Ips = {}
    BY DEF Phases, Ips, Entries
  <2>4. doing \in {"create", "update"}
    BY <1>3 DEF Info, Phases
  <2> QED  BY <2>1, <2>2, <2>3, <2>4 DEF Leaves, Obsolete
<1>4. CASE RemoveNode
  <2>1. /\ pc = "nodes" /\ toRemove # {} /\ toRemove' = toRemove \ {Min(toRemove)}
        /\ UNCHANGED <<state, doing, toJoin, want, refreshed>>
        /\ ours' = (ours \cap Removed) \cup (Removed \ cluster)
    BY <1>4 DEF RemoveNode, Move, Within, apply
  <2>2. ours' \subseteq ours /\ ours' \subseteq Removed
    BY <2>1, EffectType
  <2>3. refreshed => Ips[Min(toRemove)] \notin ours'
    BY <2>1, <2>2, RemovedIsGone
  <2>4. CASE refreshed
    BY <2>1, <2>2, <2>3, <2>4, LeavesKept DEF Phases, TypeOK
  <2>5. CASE ~refreshed
    BY <2>1, <2>5 DEF Leaves
  <2> QED  BY <2>4, <2>5
<1>5. CASE JoinNode /\ pc' = "nodes"
  <2>1. /\ pc = "nodes" /\ toJoin # {} /\ toRemove' = toRemove
        /\ UNCHANGED <<state, doing, want, refreshed>>
        /\ ours' = (ours \cap Joined) \cup (Joined \ cluster)
    BY <1>5 DEF JoinNode, Move, End, Within, apply
  <2>2. ours' \subseteq ours \cup ToSet(want)
    BY <2>1, NextNode DEF Joined
  <2> QED  BY <2>1, <2>2, LeavesKept DEF Phases, TypeOK
<1>6. CASE Looped /\ pc' = "read"
  <2>1. /\ pc = "nodes" /\ toRemove' = toRemove
        /\ UNCHANGED <<state, doing, want, refreshed>>
        /\ ours' = (ours \cap cluster) \cup (cluster \ cluster)
    BY <1>6 DEF Looped, Replaced, Move, End, Within, apply
  <2>2. ours' \subseteq ours
    BY <2>1
  <2> QED  BY <2>1, <2>2, LeavesKept DEF Phases, TypeOK
<1>7. CASE SentAgain
  <2>1. /\ pc = "nodes" /\ toRemove' = toRemove /\ (toRemove # {} \/ toJoin # {})
        /\ UNCHANGED <<state, doing, want, refreshed>>
        /\ ours' = (ours \cap Effect) \cup (Effect \ cluster)
    BY <1>7 DEF SentAgain, Effect, Fault, apply
  <2>2. ours' \subseteq ours \cup ToSet(want) /\ (toJoin = {} => ours' \subseteq ours)
    BY <2>1, NextNode, EffectType DEF Effect, Joined, Removed
  <2> QED  BY <2>1, <2>2, LeavesKept DEF Phases, TypeOK
<1>8. CASE NoAddress \/ Administrator \/ UNCHANGED vars
  <2>1. /\ UNCHANGED <<pc, toRemove, state, doing, want, refreshed>> /\ ours' \subseteq ours
    BY <1>8 DEF NoAddress, Administrator, Within, loops, apply, vars
  <2>2. Ips' = Ips
    BY <2>1 DEF Ips, Entries
  <2> QED  BY <2>1, <2>2 DEF Leaves
<1>9. ~(Refresh \/ Read \/ GiveUp \/ CallFails \/ Kill)
      \/ pc' \notin {"nodes", "read"}
  BY DEF Refresh, Read, GiveUp, CallFails, Kill, Move, End
<1>10. RemoveMissing => pc' \notin {"nodes", "read"}
  BY DEF RemoveMissing, Replaced, Move, End
<1>11. JoinNode \/ Looped => pc' \in {"nodes", "idle", "info", "read"}
  BY DEF JoinNode, Looped, Replaced, Move, End
<1>12. (JoinNode => pc' # "read") /\ (Looped => pc' # "nodes")
  BY DEF JoinNode, Looped, Replaced, Move, End
<1>13. (\E refresh \in BOOLEAN : BeginAgain(refresh) \/ BeginEdited(refresh)) =>
           pc' \notin {"nodes", "read"}
  BY DEF BeginAgain, BeginEdited, Begin
<1> QED  BY <1>1, <1>2, <1>3, <1>4, <1>5, <1>6, <1>7, <1>8, <1>9, <1>10, <1>11, <1>12, <1>13
         DEF Next, Progress

\* A node that joins is joined, and none that is wanted leaves.
LEMMA JoinsStep ==
    ASSUME TypeOK, Phases, Known, Keeps, Joins, [Next]_vars
    PROVE  Joins'
<1>1. CASE pc' \notin {"nodes", "read"} \/ doing' = "delete" \/ disturbed' \/ ~refreshed'
  BY <1>1 DEF Joins
<1>2. CASE Info /\ refreshed /\ ~disturbed
  <2>1. /\ pc = "info" /\ cluster' = cluster /\ want' = want /\ toJoin' = New
    BY <1>2 DEF Info, Move, Within, apply
  <2>2. \A n \in ToSet(Ips) : n \in cluster
    BY <1>2, <2>1 DEF Known, ToSet
  <2> QED  BY <2>1, <2>2 DEF Joins, New
<1>3. CASE RemoveNode /\ refreshed /\ ~disturbed /\ doing # "delete"
  <2>1. /\ pc = "nodes" /\ toRemove # {} /\ UNCHANGED <<want, toJoin>> /\ cluster' = Removed
    BY <1>3 DEF RemoveNode, Move, Within, apply
  <2>2. Leaving \notin ToSet(want)
    BY <1>3, <2>1, UpdateRemoves
  <2> QED  BY <1>3, <2>1, <2>2 DEF Joins, Removed, ToSet
<1>4. CASE JoinNode /\ refreshed /\ ~disturbed /\ doing # "delete" /\ pc' = "nodes"
  <2>1. /\ pc = "nodes" /\ toJoin # {} /\ want' = want /\ cluster' = Joined
        /\ toJoin' = toJoin \ {Min(toJoin)}
    BY <1>4 DEF JoinNode, Move, End, Within, apply
  <2> QED  BY <1>4, <2>1 DEF Joins, Joined, Coming
<1>5. CASE SentAgain /\ refreshed /\ ~disturbed /\ doing # "delete"
  <2>1. pc = "nodes" /\ UNCHANGED <<want, toJoin>> /\ cluster' = Effect
    BY <1>5 DEF SentAgain, Effect, Fault, apply
  <2>2. toRemove # {} => Leaving \notin ToSet(want)
    BY <1>5, <2>1, UpdateRemoves
  <2> QED  BY <1>5, <2>1, <2>2 DEF Joins, Effect, Removed, Joined, ToSet
<1>6. CASE Looped \/ NoAddress \/ UNCHANGED vars
  <2>1. \/ pc' \notin {"nodes", "read"}
        \/ /\ UNCHANGED <<cluster, want, toJoin, doing, refreshed, disturbed>>
           /\ pc = pc' \/ pc = "nodes"
    BY <1>6 DEF Looped, NoAddress, Replaced, Move, End, Within, apply, loops, vars
  <2> QED  BY <2>1 DEF Joins
<1>7. Plan \/ Info \/ RemoveNode \/ JoinNode \/ SentAgain => UNCHANGED <<refreshed, disturbed>>
  BY DEF Plan, Info, RemoveNode, JoinNode, SentAgain, Within, Fault, apply
<1>8. /\ RemoveNode \/ SentAgain => doing' = doing
      /\ JoinNode => pc' = "idle" \/ (pc' = "nodes" /\ doing' = doing)
      /\ Plan => pc' \notin {"nodes", "read"} \/ doing' = "delete"
  <2>1. RemoveNode \/ SentAgain => doing' = doing
    BY DEF RemoveNode, SentAgain
  <2>2. JoinNode => pc' = "idle" \/ (pc' = "nodes" /\ doing' = doing)
    BY DEF JoinNode, Move, End
  <2>3. Plan => pc' \notin {"nodes", "read"} \/ doing' = "delete"
    <3> SUFFICES ASSUME Plan, pc' \in {"nodes", "read"} PROVE doing' = "delete"
      OBVIOUS
    <3>1. pc' # "idle" /\ pc' # "info"
      OBVIOUS
    <3> QED  BY <3>1 DEF Plan, Move, End
  <2> QED  BY <2>1, <2>2, <2>3
<1>9. Refresh \/ Read \/ GiveUp \/ CallFails \/ Kill \/ RemoveMissing =>
          pc' \notin {"nodes", "read"}
  BY DEF Refresh, Read, GiveUp, CallFails, Kill, RemoveMissing, Replaced, Move, End
<1>10. Administrator => disturbed'
  BY DEF Administrator
<1>11. (\E refresh \in BOOLEAN : BeginAgain(refresh) \/ BeginEdited(refresh)) =>
           pc' \notin {"nodes", "read"}
  BY DEF BeginAgain, BeginEdited, Begin
<1> QED  BY <1>1, <1>2, <1>3, <1>4, <1>5, <1>6, <1>7, <1>8, <1>9, <1>10, <1>11
         DEF Next, Progress

\* An apply that ends well leaves what it was asked for.
LEMMA OkStep ==
    ASSUME TypeOK, Phases, Known, Joins, OkMeansJoined, [Next]_vars
    PROVE  OkMeansJoined'
<1>1. CASE pc' # "idle" \/ result' # "ok" \/ disturbed' \/ ~refreshed'
  BY <1>1 DEF OkMeansJoined
<1>2. CASE Plan /\ refreshed /\ ~disturbed
  <2> SUFFICES ASSUME pc' = "idle" PROVE OkMeansJoined'
    BY <1>1
  <2>1. UpToDate /\ pc = "plan" /\ UNCHANGED <<cluster, state, want>>
    BY <1>2 DEF Plan, Move, End, Within, apply
  <2>2. Ips = want
    <3>1. state = Absent => Ips = <<>>
      BY DEF Ips, Entries
    <3> QED  BY <2>1, <3>1 DEF UpToDate
  <2>3. ToSet(want) \subseteq cluster
    BY <1>2, <2>1, <2>2 DEF Known, ToSet
  <2>4. Ips' = Ips
    BY <2>1 DEF Ips, Entries
  <2> QED  BY <2>1, <2>2, <2>3, <2>4 DEF OkMeansJoined, Applied
<1>3. CASE Looped /\ pc' = "idle"
  <2>1. want = <<>> /\ want' = want /\ state' = Absent
    BY <1>3 DEF Looped, Replaced, Move, End, Within, apply
  <2>2. Ips' = <<>> /\ ToSet(want) = {}
    BY <2>1 DEF Ips, Entries, ToSet
  <2> QED  BY <2>1, <2>2 DEF OkMeansJoined, Applied
<1>4. CASE Read /\ refreshed /\ ~disturbed
  <2>1. /\ pc = "read" /\ cluster' = cluster /\ want' = want
        /\ state' = Resource(Found(want), FALSE)
    BY <1>4 DEF Read, End, Within, apply
  <2>2. \A i \in DOMAIN want : want[i] \in cluster
    BY <1>4, <2>1 DEF Joins, Phases
  <2>3. Entries' = Found(want)
    <3>1. Found(want) \in Seq(Entry)
      BY FoundFacts, ListsType
    <3> QED  BY <2>1, <3>1, ResourceType DEF Entries
  <2>4. /\ DOMAIN Found(want) = DOMAIN want
        /\ \A k \in DOMAIN want : Found(want)[k].ip = want[k]
    BY <2>2, FoundFacts, ListsType
  <2>5. Ips' = want
    <3>1. want = [k \in DOMAIN want |-> want[k]]
      BY ListsType
    <3> QED  BY <2>3, <2>4, <3>1 DEF Ips
  <2> QED  BY <2>1, <2>2, <2>5 DEF OkMeansJoined, Applied, ToSet
<1>5. CASE UNCHANGED vars
  <2>1. UNCHANGED <<pc, result, refreshed, disturbed, cluster, want, state>>
    BY <1>5 DEF vars, apply
  <2> QED  BY <2>1 DEF OkMeansJoined, Applied, Ips, Entries
<1>6. Plan \/ Read => UNCHANGED <<refreshed, disturbed>>
  BY DEF Plan, Read, Within, apply
<1>7. Info \/ NoAddress \/ GiveUp \/ RemoveNode \/ RemoveMissing \/ JoinNode \/ Refresh
          \/ CallFails \/ Kill =>
          pc' # "idle" \/ result' # "ok"
  BY DEF Info, NoAddress, GiveUp, RemoveNode, RemoveMissing, JoinNode, Refresh, CallFails, Kill, Replaced, Move, End
<1>8. SentAgain => pc' # "idle"
  BY DEF SentAgain, Effect
<1>9. Administrator => disturbed'
  BY DEF Administrator
<1>10. (\E refresh \in BOOLEAN : BeginAgain(refresh) \/ BeginEdited(refresh)) => pc' # "idle"
  BY DEF BeginAgain, BeginEdited, Begin
<1> QED  BY <1>1, <1>2, <1>3, <1>4, <1>5, <1>6, <1>7, <1>8, <1>9, <1>10 DEF Next, Progress

-----------------------------------------------------------------------------
(***************************************************************************)
(* Before anything has gone wrong.                                         *)
(***************************************************************************)

\* Every fault and every administrator is counted.
LEMMA CalmStep ==
    ASSUME TypeOK, [Next]_vars, Calm'
    PROVE  /\ Calm
           /\ \/ Progress /\ ~GiveUp
              \/ \E refresh \in BOOLEAN : BeginAgain(refresh) \/ BeginEdited(refresh)
              \/ UNCHANGED vars
<1>1. faults \in Nat /\ others \in Nat
  BY Constants DEF TypeOK
<1>2. SentAgain \/ CallFails \/ Kill => faults' = faults + 1
  BY DEF SentAgain, CallFails, Kill, Fault
<1>3. Administrator => others' = others + 1
  BY DEF Administrator
<1>4. CASE Progress
  <2>1. ~GiveUp
    BY DEF GiveUp, Calm
  <2>2. UNCHANGED <<faults, others, gaveUp>>
    BY <1>4, <2>1 DEF Progress, Plan, Info, NoAddress, RemoveNode, RemoveMissing, JoinNode,
                      Looped, Refresh, Read, Within
  <2> QED  BY <1>4, <2>1, <2>2 DEF Calm
<1>5. CASE \E refresh \in BOOLEAN : BeginAgain(refresh) \/ BeginEdited(refresh)
  BY <1>5 DEF BeginAgain, BeginEdited, Begin, Calm
<1>6. CASE UNCHANGED vars
  BY <1>6 DEF vars, Calm
<1> QED  BY <1>1, <1>2, <1>3, <1>4, <1>5, <1>6 DEF Next, Calm

\* A configuration lists no node twice.
LEMMA NoneListedTwice ==
    ASSUME TypeOK, NEW i \in DOMAIN want, NEW j \in DOMAIN want, want[i] = want[j]
    PROVE  i = j
BY DEF TypeOK, List

\* A list all of which is there is read as it is.
LEMMA FoundAgrees ==
    ASSUME TypeOK, NEW nodes \in Seq(Node), NEW tainted \in BOOLEAN,
           \A i \in DOMAIN nodes : nodes[i] \in cluster,
           \A n \in cluster : n \in ToSet(nodes),
           \A i, j \in DOMAIN nodes : nodes[i] = nodes[j] => i = j,
           state' = Resource(Found(nodes), tainted), cluster' = cluster
    PROVE  OwnIds' /\ Agree'
<1>1. Entries' = Found(nodes)
  <2>1. Found(nodes) \in Seq(Entry)
    BY FoundFacts
  <2> QED  BY <2>1, ResourceType DEF Entries
<1>2. /\ DOMAIN Found(nodes) = DOMAIN nodes
      /\ \A k \in DOMAIN nodes : Found(nodes)[k].ip = nodes[k]
      /\ \A k \in DOMAIN nodes : Found(nodes)[k].id = Found(nodes)[k].ip
  BY FoundFacts
<1>3. DOMAIN Ips' = DOMAIN nodes /\ \A k \in DOMAIN nodes : Ips'[k] = nodes[k]
  BY <1>1, <1>2 DEF Ips
<1>4. OwnIds'
  BY <1>1, <1>2, <1>3 DEF OwnIds
<1>5. Agree'
  BY <1>3 DEF Agree, ToSet
<1> QED  BY <1>4, <1>5

LEMMA UntroubledStep ==
    ASSUME TypeOK, Phases, Keeps, Untroubled, [Next]_vars
    PROVE  Untroubled'
<1> SUFFICES ASSUME Calm' PROVE Untroubled'
  BY DEF Untroubled
<1>1. /\ result \in {"none", "ok"} /\ OwnIds /\ ours = cluster
      /\ pc \notin {"nodes", "read"} => Agree
      /\ pc \in {"nodes", "read"} => Underway
  BY CalmStep DEF Untroubled
<1>2. CASE Plan
  <2>1. /\ UNCHANGED <<cluster, state, want>> /\ result' \in {result, "ok"} /\ pc = "plan"
        /\ ours' = (ours \cap cluster) \cup (cluster \ cluster)
        /\ \/ pc' \in {"idle", "info"}
           \/ pc' = "nodes" /\ doing' = "delete" /\ toRemove' = DOMAIN Entries /\ toJoin' = toJoin
    BY <1>2 DEF Plan, Move, End, Within, apply
  <2>2. Entries' = Entries /\ Ips' = Ips /\ ours' = cluster'
    BY <1>1, <2>1 DEF Entries, Ips
  <2>3. OwnIds' /\ Agree /\ Agree'
    BY <1>1, <2>1, <2>2 DEF OwnIds, Agree
  <2>4. pc' = "nodes" => Underway'
    <3>1. toJoin = {} /\ DOMAIN Ips = DOMAIN Entries
      BY <2>1, ListsType DEF Phases
    <3> QED  BY <2>1, <2>2, <2>3, <3>1 DEF Underway, Agree, ToSet
  <2> QED  BY <1>1, <2>1, <2>2, <2>3, <2>4 DEF Untroubled
<1>3. CASE Info
  <2>1. /\ UNCHANGED <<cluster, state, want, result, doing>> /\ pc = "info" /\ pc' = "nodes"
        /\ ours' = (ours \cap cluster) \cup (cluster \ cluster)
        /\ toRemove' = Obsolete /\ toJoin' = New
    BY <1>3 DEF Info, Move, Within, apply
  <2>2. Entries' = Entries /\ Ips' = Ips /\ ours' = cluster'
    BY <1>1, <2>1 DEF Entries, Ips
  <2>3. OwnIds' /\ Agree
    BY <1>1, <2>1, <2>2 DEF OwnIds
  <2>4. doing # "delete"
    BY <2>1 DEF Phases
  <2>5. Underway'
    <3>1. \A i \in Obsolete : Ips[i] \in cluster
      BY <2>3 DEF Agree, Obsolete
    <3>2. \A i \in New : want[i] \notin cluster
      BY <2>3 DEF Agree, New
    <3>3. \A n \in cluster : (\E i \in Obsolete : Ips[i] = n) \/ n \in ToSet(want)
      BY <2>3 DEF Agree, Obsolete, ToSet
    <3>4. \A i \in DOMAIN want : want[i] \in cluster \/ i \in New
      BY <2>3 DEF Agree, New, ToSet
    <3> QED  BY <2>1, <2>2, <2>4, <3>1, <3>2, <3>3, <3>4 DEF Underway
  <2> QED  BY <1>1, <2>1, <2>2, <2>3, <2>5 DEF Untroubled
<1>4. CASE RemoveNode
  <2>1. /\ UNCHANGED <<state, want, result, doing, toJoin>> /\ pc = "nodes" /\ pc' = "nodes"
        /\ cluster' = Removed /\ ours' = (ours \cap Removed) \cup (Removed \ cluster)
        /\ toRemove # {} /\ toRemove' = toRemove \ {Min(toRemove)}
    BY <1>4 DEF RemoveNode, Move, Within, apply
  <2>2. Entries' = Entries /\ Ips' = Ips /\ ours' = cluster'
    BY <1>1, <2>1, EffectType DEF Entries, Ips
  <2>3. OwnIds'
    BY <1>1, <2>2 DEF OwnIds
  <2> DEFINE m == Min(toRemove)
  <2>4. m \in toRemove /\ m \in DOMAIN Ips /\ Leaving = Ips[m]
    BY <1>1, <2>1, NextNode, ListsType DEF OwnIds, Leaving
  <2>5. doing # "delete" => Leaving \notin ToSet(want)
    <3>1. doing = "create" => DOMAIN Ips = {}
      BY DEF Phases, Ips, Entries
    <3>2. doing # "delete" => doing = "update"
      BY <2>1, <2>4, <3>1 DEF Phases, TypeOK
    <3> QED  BY <2>4, <3>2 DEF Keeps
  <2>6. \A i \in toRemove : i \in DOMAIN Ips
    BY ListsType DEF TypeOK
  <2> HIDE DEF m
  <2>7. Underway'
    <3>1. \A i \in toRemove \ {m} : Ips[i] \in Removed
      BY <1>1, <2>1, <2>4, <2>6 DEF Underway, OwnIds, Removed
    <3>2. \A i \in toJoin : want[i] \notin Removed
      BY <1>1, <2>1 DEF Underway, Removed
    <3>3. \A n \in Removed : \/ \E i \in toRemove \ {m} : Ips[i] = n
                             \/ doing # "delete" /\ n \in ToSet(want)
      BY <1>1, <2>1, <2>4 DEF Underway, Removed
    <3>4. doing # "delete" => \A i \in DOMAIN want : want[i] \in Removed \/ i \in toJoin
      BY <1>1, <2>1, <2>5 DEF Underway, Removed, ToSet
    <3> QED  BY <2>1, <2>2, <3>1, <3>2, <3>3, <3>4 DEF Underway, m
  <2> QED  BY <1>1, <2>1, <2>2, <2>3, <2>7 DEF Untroubled
<1>5. CASE RemoveMissing
  <2>1. pc = "nodes" /\ toRemove # {} /\ Leaving \notin cluster
    BY <1>5 DEF RemoveMissing
  <2>2. Min(toRemove) \in toRemove /\ Leaving = Ips[Min(toRemove)]
    BY <1>1, <2>1, NextNode, ListsType DEF OwnIds, Leaving
  <2> QED  BY <1>1, <2>1, <2>2 DEF Underway
<1>6. CASE JoinNode
  <2>1. pc = "nodes" /\ toRemove = {} /\ toJoin # {}
    BY <1>6 DEF JoinNode
  <2> DEFINE m == Min(toJoin)
  <2>2. /\ m \in toJoin /\ m \in DOMAIN want /\ Coming = want[m]
        /\ Coming \in ToSet(want) /\ Coming \notin cluster
    BY <1>1, <2>1, NextNode DEF Coming, Underway
  <2>3. /\ UNCHANGED <<state, want, result, doing, toRemove>> /\ pc' = "nodes"
        /\ cluster' = Joined /\ ours' = (ours \cap Joined) \cup (Joined \ cluster)
        /\ toJoin' = toJoin \ {m}
    BY <1>6, <2>2 DEF JoinNode, Move, End, Within, apply
  <2>4. Entries' = Entries /\ Ips' = Ips /\ ours' = cluster'
    BY <1>1, <2>3 DEF Entries, Ips, Joined
  <2>5. OwnIds'
    BY <1>1, <2>4 DEF OwnIds
  <2>6. doing # "delete" /\ \A i \in toJoin : i \in DOMAIN want
    BY <2>1 DEF Phases, TypeOK
  <2> HIDE DEF m
  <2>7. Underway'
    <3>1. \A i \in toJoin \ {m} : want[i] \notin Joined
      BY <1>1, <2>1, <2>2, <2>6, NoneListedTwice DEF Underway, Joined
    <3>2. \A n \in Joined : n \in ToSet(want)
      BY <1>1, <2>1, <2>2 DEF Underway, Joined
    <3>3. \A i \in DOMAIN want : want[i] \in Joined \/ i \in toJoin \ {m}
      BY <1>1, <2>1, <2>2, <2>6 DEF Underway, Joined
    <3> QED  BY <2>1, <2>3, <2>4, <2>6, <3>1, <3>2, <3>3 DEF Underway
  <2> QED  BY <1>1, <2>3, <2>4, <2>5, <2>7 DEF Untroubled
<1>7. CASE Looped
  <2>1. /\ pc = "nodes" /\ toRemove = {} /\ toJoin = {} /\ cluster' = cluster
        /\ ours' = (ours \cap cluster) \cup (cluster \ cluster)
        /\ result' \in {result, "ok"}
        /\ \/ doing = "delete" /\ state' = Absent /\ pc' \in {"idle", "info"}
           \/ doing # "delete" /\ pc' = "read" /\ UNCHANGED <<state, want, doing, toRemove, toJoin>>
    BY <1>7 DEF Looped, Replaced, Move, End, Within, apply
  <2>2. ours' = cluster'
    BY <1>1, <2>1
  <2>3. CASE doing = "delete"
    <3>1. cluster = {}
      BY <1>1, <2>1, <2>3 DEF Underway
    <3>2. DOMAIN Entries' = {} /\ DOMAIN Ips' = {}
      BY <2>1, <2>3 DEF Entries, Ips
    <3>3. OwnIds' /\ Agree'
      BY <2>1, <3>1, <3>2 DEF OwnIds, Agree
    <3> QED  BY <1>1, <2>1, <2>2, <2>3, <3>3 DEF Untroubled
  <2>4. CASE doing # "delete"
    <3>1. Entries' = Entries /\ Ips' = Ips
      BY <2>1, <2>4 DEF Entries, Ips
    <3>2. OwnIds' /\ Underway'
      BY <1>1, <2>1, <2>4, <3>1 DEF OwnIds, Underway
    <3> QED  BY <1>1, <2>1, <2>2, <2>4, <3>2 DEF Untroubled
  <2> QED  BY <2>3, <2>4
<1>8. CASE Refresh
  <2>1. /\ pc = "refresh" /\ pc' = "plan" /\ UNCHANGED <<cluster, result>>
        /\ ours' = (ours \cap cluster) \cup (cluster \ cluster)
        /\ state' = Resource(Found(Ips), state.tainted) /\ state # Absent
    BY <1>8 DEF Refresh, Move, Phases
  <2>2. Agree
    BY <1>1, <2>1
  <2>3. OwnIds' /\ Agree'
    BY <1>1, <2>1, <2>2, FoundAgrees, ListsType DEF OwnIds, Agree, TypeOK
  <2> QED  BY <1>1, <2>1, <2>3 DEF Untroubled
<1>9. CASE Read
  <2>1. /\ pc = "read" /\ pc' = "idle" /\ cluster' = cluster /\ result' = "ok"
        /\ ours' = (ours \cap cluster) \cup (cluster \ cluster)
        /\ state' = Resource(Found(want), FALSE)
    BY <1>9 DEF Read, End
  <2>2. /\ \A i \in DOMAIN want : want[i] \in cluster
        /\ \A n \in cluster : n \in ToSet(want)
    BY <1>1, <2>1 DEF Underway, Phases
  <2>3. OwnIds' /\ Agree'
    BY <2>1, <2>2, FoundAgrees, ListsType, NoneListedTwice
  <2> QED  BY <1>1, <2>1, <2>3 DEF Untroubled
<1>10. CASE \E refresh \in BOOLEAN : BeginAgain(refresh) \/ BeginEdited(refresh)
  <2>1. UNCHANGED <<cluster, state, ours>> /\ result' = "none" /\ pc = "idle"
        /\ pc' \in {"refresh", "plan"}
    BY <1>10 DEF BeginAgain, BeginEdited, Begin
  <2>2. Entries' = Entries /\ Ips' = Ips
    BY <2>1 DEF Entries, Ips
  <2>3. OwnIds' /\ Agree'
    BY <1>1, <2>1, <2>2 DEF OwnIds, Agree
  <2> QED  BY <1>1, <2>1, <2>3 DEF Untroubled
<1>11. CASE NoAddress \/ UNCHANGED vars
  <2>1. UNCHANGED <<cluster, state, ours, result, pc, doing, toRemove, toJoin, want>>
    BY <1>11 DEF NoAddress, Within, vars, loops, apply
  <2>2. Entries' = Entries /\ Ips' = Ips
    BY <2>1 DEF Entries, Ips
  <2>3. OwnIds' = OwnIds /\ Agree' = Agree /\ Underway' = Underway
    BY <2>1, <2>2 DEF OwnIds, Agree, Underway
  <2> QED  BY <1>1, <2>1, <2>3 DEF Untroubled
<1> QED  BY <1>2, <1>3, <1>4, <1>5, <1>6, <1>7, <1>8, <1>9, <1>10, <1>11, CalmStep DEF Progress

-----------------------------------------------------------------------------
(***************************************************************************)
(* The theorems.                                                           *)
(***************************************************************************)

LEMMA InitInvariant == Init => IInv
<1> SUFFICES ASSUME Init PROVE IInv
  OBVIOUS
<1>1. TypeOK
  <2>1. /\ cluster \subseteq Node /\ ours \subseteq cluster
        /\ toRemove \subseteq DOMAIN Entries /\ toJoin \subseteq DOMAIN want
    BY DEF Init
  <2>2. /\ tries \in 0 .. MaxRetries /\ faults \in 0 .. MaxFaults
        /\ others \in 0 .. MaxOthers /\ edits \in 0 .. MaxEdits
    BY Constants DEF Init
  <2> QED  BY <2>1, <2>2 DEF Init, TypeOK
<1>2. Phases /\ Known /\ Keeps /\ Leaves /\ Joins /\ OkMeansJoined
  BY DEF Init, Phases, Known, Keeps, Leaves, Joins, OkMeansJoined
<1>3. Untroubled
  <2>1. DOMAIN Entries = {} /\ DOMAIN Ips = {} /\ cluster = {}
    BY DEF Init, Entries, Ips
  <2> QED  BY <2>1 DEF Init, Untroubled, OwnIds, Agree
<1> QED  BY <1>1, <1>2, <1>3 DEF IInv

LEMMA Invariance == Spec => []IInv
<1>1. IInv /\ [Next]_vars => IInv'
  BY TypeStep, PhasesStep, KnownStep, KeepsStep, LeavesStep, JoinsStep, OkStep,
     UntroubledStep DEF IInv
<1> QED  BY InitInvariant, <1>1, PTL DEF Spec

\* What is left of the loops are places of the two lists, and no call is sent
\* more often than max_retries allows.
THEOREM TypeCorrect == Spec => []TypeOK
<1>1. IInv => TypeOK
  BY DEF IInv
<1> QED  BY Invariance, <1>1, PTL

\* An apply that refreshes and succeeds, while no administrator interferes, has
\* formed the cluster of the configuration: whatever applies before it have left.
THEOREM SuccessMeansFormed == Spec => []OkMeansJoined
<1>1. IInv => OkMeansJoined
  BY DEF IInv
<1> QED  BY Invariance, <1>1, PTL

\* A call that ends an apply well.
LEMMA NothingLeftStep ==
    ASSUME IInv, [Next]_vars, pc # "idle", result' = "ok", refreshed
    PROVE  Orphans' \subseteq Orphans
<1> USE DEF IInv
<1>1. result = "none"
  BY DEF Phases
<1>2. CASE Plan
  <2>1. state' = state /\ cluster' = cluster /\ ours' = (ours \cap cluster) \cup (cluster \ cluster)
    BY <1>2 DEF Plan, Move, End
  <2>2. Ips' = Ips /\ ours' \subseteq ours
    BY <2>1 DEF Ips, Entries
  <2> QED  BY <2>2 DEF Orphans
<1>3. CASE Looped
  <2>1. /\ pc = "nodes" /\ doing = "delete" /\ toRemove = {}
        /\ ours' = (ours \cap cluster) \cup (cluster \ cluster)
    BY <1>1, <1>3 DEF Looped, Replaced, Move, End
  <2>2. \A n \in ToSet(Ips) : n \notin ours
    BY <2>1 DEF Leaves, ToSet
  <2>3. ours' \subseteq ours
    BY <2>1
  <2> QED  BY <2>2, <2>3 DEF Orphans
<1>4. CASE Read
  <2>1. /\ pc = "read" /\ state' = Resource(Found(want), FALSE)
        /\ ours' = (ours \cap cluster) \cup (cluster \ cluster)
    BY <1>4 DEF Read, End
  <2>2. \A n \in ToSet(Ips) : n \notin ours \/ n \in ToSet(want)
    BY <2>1 DEF Leaves, ToSet, Phases
  <2>3. Entries' = Found(want)
    <3>1. Found(want) \in Seq(Entry)
      BY FoundFacts, ListsType
    <3> QED  BY <2>1, <3>1, ResourceType DEF Entries
  <2>4. ASSUME NEW n \in ToSet(want), n \in cluster PROVE n \in ToSet(Ips')
    <3>1. PICK i \in DOMAIN want : want[i] = n
      BY DEF ToSet
    <3>2. PICK k \in DOMAIN Found(want) : Found(want)[k].ip = n
      BY <2>4, <3>1, FoundFacts, ListsType
    <3>3. k \in DOMAIN Ips' /\ Ips'[k] = n
      BY <2>3, <3>2 DEF Ips
    <3> QED  BY <3>3 DEF ToSet
  <2>5. ours' \subseteq ours /\ ours' \subseteq cluster
    BY <2>1
  <2>6. ToSet(Ips)' = ToSet(Ips')
    BY DEF ToSet
  <2> QED  BY <2>2, <2>4, <2>5, <2>6 DEF Orphans
<1>5. Info \/ GiveUp \/ RemoveNode \/ RemoveMissing \/ JoinNode \/ Refresh \/ CallFails
          \/ Kill => result' # "ok"
  BY <1>1 DEF Info, GiveUp, RemoveNode, RemoveMissing, JoinNode, Refresh, CallFails, Kill, Replaced, Move, End
<1>6. NoAddress \/ SentAgain \/ Administrator \/ UNCHANGED vars => result' = result
  BY DEF NoAddress, SentAgain, Administrator, vars
<1>7. ~(\E refresh \in BOOLEAN : BeginAgain(refresh) \/ BeginEdited(refresh))
  BY DEF BeginAgain, BeginEdited, Begin
<1> QED  BY <1>1, <1>2, <1>3, <1>4, <1>5, <1>6, <1>7 DEF Next, Progress

\* An apply that refreshes and succeeds leaves no node behind in the cluster that
\* the resource has joined and does not know, except those it did not know before.
THEOREM SuccessLeavesNothing == Spec => OkLeavesNothing
<1>1. IInv /\ [Next]_vars =>
          [pc # "idle" /\ result' = "ok" /\ refreshed => Orphans' \subseteq Orphans]_vars
  BY NothingLeftStep
<1> QED  BY Invariance, <1>1, PTL DEF Spec, OkLeavesNothing

\* As long as no call fails or is sent again, Terraform is not killed, no
\* administrator has been there and no apply has given up waiting for the address
\* of the manager (as all of them do if max_retries is none), every apply succeeds
\* and knows all the nodes it has joined: what convergence leaves out takes one of
\* these to come about.
THEOREM TroubleIsForced == Spec => []FailsOnlyInTrouble
<1>1. IInv => FailsOnlyInTrouble
  BY DEF IInv, Untroubled, FailsOnlyInTrouble, Calm, Agree, Orphans
<1> QED  BY Invariance, <1>1, PTL
=============================================================================
