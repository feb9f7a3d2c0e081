--------------------------- MODULE ManagerCluster ---------------------------
(***************************************************************************)
(* nsxt_manager_cluster: the nodes that join the cluster of the manager    *)
(* the provider talks to.  Its functions are loops over nodes, with an API *)
(* call for each: a loop that fails leaves the calls before it done.  How  *)
(* the manager answers, what Terraform keeps, and the administrators who   *)
(* add and remove nodes themselves, are external.                          *)
(***************************************************************************)
EXTENDS Naturals, FiniteSets, SequencesExt

CONSTANTS
    Node,         \* nodes, by their addresses and by the ids they are given
    None,         \* no id
    Absent,       \* no resource in the state
    MaxRetries,   \* max_retries of the provider configuration
    MaxFaults,    \* bound on lost calls and kills
    MaxOthers,    \* bound on what administrators do
    MaxEdits      \* bound on changes of the configuration

\* What the state keeps of a node.
Entry == [ip : Node, id : Node \cup {None}]

ASSUME ManagerClusterAssumption ==
    /\ IsFiniteSet(Node)
    /\ None \notin Node
    /\ Absent \notin [node : Seq(Entry), tainted : BOOLEAN]
    /\ {MaxRetries, MaxFaults, MaxOthers, MaxEdits} \subseteq Nat

VARIABLES
    cluster,     \* the nodes that have joined
    want,        \* the nodes of the configuration, in order; <<>> for no resource
    state,       \* the resource in the Terraform state
    pc,          \* the next call; that of the loops is "nodes"
    doing,       \* the function that runs
    toRemove,    \* what is left of the loops: places in the list of the state
    toJoin,      \* and in that of the configuration
    tries,       \* how often the call has been sent again, or the address asked for
    result,      \* how the last apply ended
    ours,        \* the nodes that the resource has joined and that have not left
    refreshed,   \* the apply has begun with a refresh
    disturbed,   \* administrators have been there since
    gaveUp,      \* an apply has ended without the address of the manager
    faults, others, edits

loops == <<toRemove, toJoin, tries>>
apply == <<want, refreshed, edits>>
vars == <<cluster, state, pc, doing, loops, result, ours, apply, disturbed, gaveUp, faults,
          others>>

\* Lists of nodes.
List == {s \in SeqOf(Node, Cardinality(Node)) : \A i, j \in DOMAIN s : s[i] = s[j] => i = j}

Entries == IF state = Absent THEN <<>> ELSE state.node
Ips == [i \in DOMAIN Entries |-> Entries[i].ip]

Resource(nodes, tainted) == [node |-> nodes, tainted |-> tainted]

Within == UNCHANGED <<apply, disturbed, gaveUp, faults, others>>

\* The loops go on.
Move(label, c) ==
    /\ pc' = label
    /\ tries' = 0
    /\ cluster' = c
    /\ ours' = (ours \cap c) \cup (c \ cluster)
    /\ UNCHANGED <<result>>

End(how, c, s) ==
    /\ pc' = "idle"
    /\ doing' = "none"
    /\ toRemove' = {} /\ toJoin' = {} /\ tries' = 0
    /\ cluster' = c
    /\ ours' = (ours \cap c) \cup (c \ cluster)
    /\ state' = s
    /\ result' = how

-----------------------------------------------------------------------------
\* An apply.

Begin(refresh) ==
    /\ pc = "idle"
    /\ pc' = IF refresh /\ state # Absent THEN "refresh" ELSE "plan"
    /\ result' = "none"
    /\ refreshed' = refresh
    /\ disturbed' = (disturbed /\ ~refresh)
    /\ UNCHANGED <<cluster, state, doing, loops, ours, gaveUp, faults, others>>

BeginAgain(refresh) == Begin(refresh) /\ UNCHANGED <<want, edits>>

BeginEdited(refresh) ==
    /\ Begin(refresh)
    /\ edits < MaxEdits
    /\ edits' = edits + 1
    /\ want' \in List \ {want}

UpToDate ==
    IF want = <<>> THEN state = Absent
    ELSE state # Absent /\ Ips = want /\ ~state.tainted

\* Terraform calls Create, Update or Delete; the first two ask the cluster
\* for its id and the address of the manager before they do anything.
Plan ==
    /\ pc = "plan"
    /\ \/ UpToDate /\ End("ok", cluster, state)
       \/ /\ state = Absent /\ ~UpToDate
          /\ doing' = "create"
          /\ Move("info", cluster)
          /\ UNCHANGED <<state, toRemove, toJoin>>
       \/ /\ state # Absent /\ want # <<>> /\ ~state.tainted /\ ~UpToDate
          /\ doing' = "update"
          /\ Move("info", cluster)
          /\ UNCHANGED <<state, toRemove, toJoin>>
       \/ /\ state # Absent /\ (want = <<>> \/ state.tainted)
          /\ doing' = "delete"
          /\ toRemove' = DOMAIN Entries
          /\ Move("nodes", cluster)
          /\ UNCHANGED <<state, toJoin>>
    /\ Within

\* An Update that fails saves the addresses of the configuration, with the ids
\* that were at their places; a Create that fails in its Read, without ids.
Saved == Resource([i \in DOMAIN want |->
                      [ip |-> want[i],
                       id |-> IF doing = "update" /\ i \in DOMAIN state.node
                              THEN state.node[i].id ELSE None]],
                  doing = "create")

FailedState ==
    IF doing = "update" \/ (doing = "create" /\ pc = "read") THEN Saved ELSE state

MutRemovesNone == {}
\* Update removes the nodes that are not in the new list.
Obsolete == {i \in DOMAIN Ips : Ips[i] \notin ToSet(want)}

MutJoinsAll == DOMAIN want
\* It joins those that are not in the old list; Create joins all.
New == {i \in DOMAIN want : want[i] \notin ToSet(Ips)}

\* getClusterInfoFromHostNode: the cluster is read until its first node has an
\* address, at most max_retries times, and not once if that is none.
Info ==
    /\ pc = "info" /\ tries < MaxRetries
    /\ toRemove' = Obsolete
    /\ toJoin' = New
    /\ Move("nodes", cluster)
    /\ UNCHANGED <<state, doing>>
    /\ Within

NoAddress ==
    /\ pc = "info" /\ tries < MaxRetries
    /\ tries' = tries + 1
    /\ UNCHANGED <<cluster, state, pc, doing, toRemove, toJoin, result, ours>>
    /\ Within

GiveUp ==
    /\ pc = "info" /\ tries = MaxRetries
    /\ gaveUp' = TRUE
    /\ End("error", cluster, FailedState)
    /\ UNCHANGED <<apply, disturbed, faults, others>>

-----------------------------------------------------------------------------
\* The loops.

\* The node that is removed, by the id of the old list, and the one that joins.
Leaving == Entries[Min(toRemove)].id
Coming == want[Min(toJoin)]

Removed == cluster \ {Leaving}
Joined == cluster \cup {Coming}

RemoveNode ==
    /\ pc = "nodes" /\ toRemove # {}
    /\ Leaving \in cluster
    /\ toRemove' = toRemove \ {Min(toRemove)}
    /\ Move("nodes", Removed)
    /\ UNCHANGED <<state, doing, toJoin>>
    /\ Within

\* A Delete that is part of a replacement is followed by Create.
Replaced ==
    /\ state' = Absent
    /\ doing' = "create"
    /\ toRemove' = {}
    /\ Move("info", cluster)
    /\ UNCHANGED toJoin

\* A node that is not there is an error to Update.  To Delete it is a success:
\* it returns, whatever is left of the loop.
RemoveMissing ==
    /\ pc = "nodes" /\ toRemove # {}
    /\ Leaving \notin cluster
    /\ \/ doing = "delete" /\ want = <<>> /\ End("missing", cluster, Absent)
       \/ doing = "delete" /\ want # <<>> /\ Replaced
       \/ (doing = "update" \/ Leaving = None) /\ End("error", cluster, FailedState)
    /\ Within

\* A node that has joined already cannot join.
JoinNode ==
    /\ pc = "nodes" /\ toRemove = {} /\ toJoin # {}
    /\ \/ /\ Coming \notin cluster
          /\ toJoin' = toJoin \ {Min(toJoin)}
          /\ Move("nodes", Joined)
          /\ UNCHANGED <<state, doing, toRemove>>
       \/ /\ Coming \in cluster
          /\ End("error", cluster, FailedState)
    /\ Within

Looped ==
    /\ pc = "nodes" /\ toRemove = {} /\ toJoin = {}
    /\ \/ doing = "delete" /\ want = <<>> /\ End("ok", cluster, Absent)
       \/ doing = "delete" /\ want # <<>> /\ Replaced
       \/ /\ doing # "delete"
          /\ Move("read", cluster)
          /\ UNCHANGED <<state, doing, toRemove, toJoin>>
    /\ Within

MutKeepsAll(nodes) == [i \in DOMAIN nodes |-> [ip |-> nodes[i], id |-> nodes[i]]]
\* Read completes the nodes of the list that are in the cluster, and drops the
\* others.
Found(nodes) ==
    LET joined == {i \in DOMAIN nodes : nodes[i] \in cluster}
        at(k) == CHOOSE i \in joined : Cardinality({j \in joined : j <= i}) = k
    IN  [k \in 1 .. Cardinality(joined) |-> [ip |-> nodes[at(k)], id |-> nodes[at(k)]]]

Refresh ==
    /\ pc = "refresh"
    /\ state' = Resource(Found(Ips), state.tainted)
    /\ Move("plan", cluster)
    /\ UNCHANGED <<doing, toRemove, toJoin>>
    /\ Within

Read ==
    /\ pc = "read"
    /\ End("ok", cluster, Resource(Found(want), FALSE))
    /\ Within

-----------------------------------------------------------------------------
\* Faults and administrators.

Fault ==
    /\ faults < MaxFaults
    /\ faults' = faults + 1
    /\ UNCHANGED <<apply, disturbed, gaveUp, others>>

\* What the next call does, if it does it.
Effect ==
    IF pc # "nodes" THEN cluster
    ELSE IF toRemove # {} THEN Removed
    ELSE IF toJoin # {} THEN Joined
    ELSE cluster

MutOneTryMore == tries > MaxRetries
LastTry == tries >= MaxRetries

\* The answer is lost and the request sent again.
SentAgain ==
    /\ Effect # cluster
    /\ ~LastTry
    /\ tries' = tries + 1
    /\ cluster' = Effect
    /\ ours' = (ours \cap Effect) \cup (Effect \ cluster)
    /\ UNCHANGED <<state, pc, doing, toRemove, toJoin, result>>
    /\ Fault

\* Probes and the connection to a node fail as calls do.
CallFails ==
    /\ pc \in {"refresh", "info", "nodes", "read"}
    /\ \E c \in {cluster, Effect} : End("error", c, FailedState)
    /\ Fault

Kill ==
    /\ pc # "idle"
    /\ End("killed", cluster, state)
    /\ Fault

Administrator ==
    /\ others < MaxOthers
    /\ others' = others + 1
    /\ disturbed' = TRUE
    /\ \E n \in Node : cluster' = IF n \in cluster THEN cluster \ {n} ELSE cluster \cup {n}
    /\ ours' = ours \cap cluster'
    /\ UNCHANGED <<state, pc, doing, loops, result, apply, gaveUp, faults>>

-----------------------------------------------------------------------------
Init ==
    /\ cluster = {}
    /\ want \in List
    /\ state = Absent
    /\ pc = "idle"
    /\ doing = "none"
    /\ toRemove = {} /\ toJoin = {} /\ tries = 0
    /\ result = "none"
    /\ ours = {}
    /\ refreshed = FALSE
    /\ disturbed = FALSE
    /\ gaveUp = FALSE
    /\ faults = 0 /\ others = 0 /\ edits = 0

Progress ==
    \/ Plan \/ Info \/ NoAddress \/ GiveUp
    \/ RemoveNode \/ RemoveMissing \/ JoinNode \/ Looped \/ Refresh \/ Read

Next ==
    \/ Progress
    \/ SentAgain \/ CallFails \/ Kill \/ Administrator
    \/ \E refresh \in BOOLEAN : BeginAgain(refresh) \/ BeginEdited(refresh)

Spec == Init /\ [][Next]_vars

\* Every call ends or fails, the manager has its address sooner or later, and
\* the resource is applied again, with a refresh.
FairSpec == Spec /\ WF_vars(Progress) /\ SF_vars(Info) /\ SF_vars(BeginAgain(TRUE))

-----------------------------------------------------------------------------
\* Properties.

TypeOK ==
    /\ cluster \subseteq Node
    /\ want \in List
    /\ state = Absent \/ state \in [node : Seq(Entry), tainted : BOOLEAN]
    /\ pc \in {"idle", "plan", "refresh", "info", "nodes", "read"}
    /\ doing \in {"none", "create", "update", "delete"}
    /\ toRemove \subseteq DOMAIN Entries
    /\ toJoin \subseteq DOMAIN want
    /\ tries \in 0 .. MaxRetries
    /\ result \in {"none", "ok", "missing", "error", "killed"}
    /\ ours \subseteq cluster
    /\ refreshed \in BOOLEAN
    /\ disturbed \in BOOLEAN
    /\ gaveUp \in BOOLEAN
    /\ faults \in 0 .. MaxFaults
    /\ others \in 0 .. MaxOthers
    /\ edits \in 0 .. MaxEdits

\* Nodes that the resource has joined and does not know.
Orphans == ours \ ToSet(Ips)

Applied == Ips = want /\ ToSet(want) \subseteq cluster

\* An apply that refreshes and succeeds has formed the cluster of the
\* configuration, whatever the applies before it have left behind.
OkMeansJoined == pc = "idle" /\ result = "ok" /\ refreshed /\ ~disturbed => Applied

\* The resource leaves a node behind in the cluster only when it fails, or when
\* it is destroyed and comes to a node that is not there.  (Without a refresh,
\* it may know nodes by the ids of others.)
OkLeavesNothing ==
    [][pc # "idle" /\ result' = "ok" /\ refreshed => Orphans' \subseteq Orphans]_vars

\* As long as no call fails or is sent again, Terraform is not killed, no
\* administrator has been there and the manager has had its address in time,
\* every apply succeeds and knows all the nodes it has joined: whatever the
\* configuration becomes, and with or without a refresh.
FailsOnlyInTrouble ==
    faults = 0 /\ others = 0 /\ ~gaveUp =>
        /\ result \in {"none", "ok"}
        /\ pc = "idle" => Orphans = {}

\* A node that is in the cluster and not in the state cannot join.
Stuck == \E i \in DOMAIN want : want[i] \in cluster \ ToSet(Ips)

\* When nothing fails any more, the cluster ends as configured, unless a failed
\* apply has joined a node that it does not know.
Converges == <>[](Applied \/ Stuck)
=============================================================================
