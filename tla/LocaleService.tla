--------------------------- MODULE LocaleService ---------------------------
(***************************************************************************)
(* The locale service of a Tier-0 gateway: one NSX object that several     *)
(* resources write, each a part of it.  nsxt_policy_tier0_gateway owns the *)
(* edge cluster, nsxt_policy_tier0_gateway_ha_vip_config the HA VIPs and   *)
(* nsxt_policy_gateway_redistribution_config the redistribution rules;     *)
(* other fields belong to users of the NSX UI.  Terraform runs the         *)
(* operations of the three resources at the same time; every call to NSX   *)
(* is a step.  A part is set with a PATCH that names only that part, but   *)
(* cleared by writing back the whole object as it was read.                *)
(***************************************************************************)
EXTENDS Naturals

CONSTANTS
    Value,        \* what a part can hold
    None,         \* a part that is not set
    MaxRetries,   \* max_retries of the provider configuration
    MaxOps,       \* bound on operations and changes by other users
    MaxFaults     \* bound on calls that fail

ASSUME ValueAssumption ==
    /\ Value # {}
    /\ None \notin Value
    /\ MaxRetries \in Nat
    /\ MaxOps \in Nat
    /\ MaxFaults \in Nat

Owner == {"edge", "haVip", "redist"}
Part == Owner \cup {"other"}
Content == [Part -> Value \cup {None}]
Empty == [p \in Part |-> None]

VARIABLES
    exists,     \* the service exists on NSX
    rev,        \* its _revision
    parts,      \* its content
    pc,         \* the call each owner's operation is about to make
    want,       \* what its last operation is to write; None deletes
    seen,       \* the service as it has read it
    attempts,   \* how often it has tried
    since,      \* the revision when it began
    result,     \* how it ended
    ops,        \* number of operations and changes by others so far
    faults      \* number of failed calls so far

service == <<exists, rev, parts>>
operation == <<pc, want, seen, attempts, since, result>>
vars == <<service, operation, ops, faults>>

Copy == [exists : BOOLEAN, rev : Nat, parts : Content]
NoCopy == [exists |-> FALSE, rev |-> 0, parts |-> Empty]

-----------------------------------------------------------------------------
\* Control of an operation.

Calls == {"find", "patch", "get", "put", "list", "gateway", "read"}

Goto(o, label) == pc' = [pc EXCEPT ![o] = label]

End(o, how) ==
    /\ Goto(o, "idle")
    /\ result' = [result EXCEPT ![o] = how]
    /\ seen' = [seen EXCEPT ![o] = NoCopy]
    /\ attempts' = [attempts EXCEPT ![o] = 0]
    /\ UNCHANGED <<want, since>>

ReadService(o) ==
    seen' = [seen EXCEPT ![o] = [exists |-> exists, rev |-> rev, parts |-> parts]]

MutOneTryLess(o) == attempts[o] + 1 >= MaxRetries
MutOneTryMore(o) == attempts[o] > MaxRetries
LastTry(o) == attempts[o] = MaxRetries

\* retryUponPreconditionFailed: after an InvalidRequest the whole of
\* readAndUpdate is tried again, maxRetryAttempts times.
Again(o) ==
    \/ LastTry(o) /\ End(o, "error")
    \/ /\ ~LastTry(o)
       /\ Goto(o, "get")
       /\ attempts' = [attempts EXCEPT ![o] = @ + 1]
       /\ seen' = [seen EXCEPT ![o] = NoCopy]
       /\ UNCHANGED <<want, since, result>>

\* The gateway is taking its locale service away.
Removing == pc["edge"] # "idle" /\ want["edge"] = None

\* The call an operation starts with: an update of a redistribution
\* configuration knows its locale service, a create looks it up.
FirstCall(o, v, label) ==
    \/ o = "edge" /\ label = "list"
    \/ o # "edge" /\ v = None /\ label = "get"
    \/ o # "edge" /\ v # None /\ label = "patch"
    \/ o = "redist" /\ v # None /\ label = "find"

\* Terraform deletes the resources that depend on a locale service before the
\* gateway removes it, and creates them after.
Begin(o) ==
    /\ pc[o] = "idle"
    /\ ops < MaxOps
    /\ ~Removing
    /\ \E v \in Value \cup {None} :
        /\ o = "edge" /\ v = None => \A q \in Owner : pc[q] = "idle"
        /\ want' = [want EXCEPT ![o] = v]
        /\ \E label \in Calls : FirstCall(o, v, label) /\ Goto(o, label)
    /\ since' = [since EXCEPT ![o] = rev]
    /\ result' = [result EXCEPT ![o] = "none"]
    /\ ops' = ops + 1
    /\ UNCHANGED <<service, seen, attempts, faults>>

-----------------------------------------------------------------------------
\* What the calls do to the service.

\* A PATCH creates the service or changes the parts it is given; a part that
\* is nil is not sent.
Patch(body) ==
    /\ exists' = TRUE
    /\ rev' = rev + 1
    /\ parts' = [p \in Part |->
                    IF p \in DOMAIN body /\ body[p] # None THEN body[p] ELSE parts[p]]

\* A PUT replaces the service if it has the revision of the one it replaces.
Put(body, revision) ==
    /\ revision = rev
    /\ rev' = rev + 1
    /\ parts' = body
    /\ UNCHANGED exists

MutFresh(copy) == TRUE
\* enforceRevision: a gateway written with a stale locale service is refused.
Fresh(copy) == copy.exists => copy.rev = rev

(***************************************************************************)
(* The gateway's PATCH of the whole hierarchy.  With locale_service blocks *)
(* it keeps the HA VIPs and the revision of the service it has listed;     *)
(* with edge_cluster_path it sends back all of the service it has read.    *)
(***************************************************************************)
Kept(copy) == IF copy.exists THEN {{"haVip"}, Part} ELSE {{}}

PatchGateway(copy) ==
    /\ Fresh(copy)
    /\ \E kept \in Kept(copy) :
          Patch([p \in kept \cup {"edge"} |->
                    IF p = "edge" THEN want["edge"] ELSE copy.parts[p]])

\* A child that is marked for deletion has no revision.
Remove ==
    /\ exists' = FALSE
    /\ parts' = Empty
    /\ UNCHANGED rev

Effect(o) ==
    \/ pc[o] = "patch" /\ Patch([p \in {o} |-> want[o]])
    \/ pc[o] = "put" /\ Put([seen[o].parts EXCEPT ![o] = None], seen[o].rev)
    \/ pc[o] = "gateway" /\ want[o] # None /\ PatchGateway(seen[o])
    \/ pc[o] = "gateway" /\ want[o] = None /\ Remove

-----------------------------------------------------------------------------
\* The calls of the operations.

\* Without a locale service there is nothing to redistribute from.
Find(o) ==
    /\ pc[o] = "find"
    /\ \/ exists /\ Goto(o, "patch") /\ UNCHANGED <<want, seen, attempts, since, result>>
       \/ ~exists /\ End(o, "error")
    /\ UNCHANGED <<service, ops, faults>>

\* The deletion of a part of a service that is not found succeeds.
Get(o) ==
    /\ pc[o] = "get"
    /\ \/ /\ exists
          /\ ReadService(o)
          /\ Goto(o, "put")
          /\ UNCHANGED <<want, attempts, since, result>>
       \/ ~exists /\ End(o, "ok")
    /\ UNCHANGED <<service, ops, faults>>

\* The gateway lists its locale services; with edge_cluster_path a gateway
\* that has none is an error.
List(o) ==
    /\ pc[o] = "list"
    /\ \/ ReadService(o) /\ Goto(o, "gateway") /\ UNCHANGED <<want, attempts, since, result>>
       \/ ~exists /\ want[o] # None /\ End(o, "error")
    /\ UNCHANGED <<service, ops, faults>>

\* A call that changes the service.  The deletion of a part reads nothing back.
Write(o) ==
    /\ Effect(o)
    /\ \/ /\ pc[o] # "put"
          /\ Goto(o, "read")
          /\ UNCHANGED <<want, seen, attempts, since, result>>
       \/ pc[o] = "put" /\ End(o, "ok")
    /\ UNCHANGED <<ops, faults>>

\* NSX refuses a stale revision.  Only the deletions try again.
Refused(o) ==
    /\ \/ pc[o] = "put" /\ seen[o].rev # rev /\ Again(o)
       \/ pc[o] = "gateway" /\ want[o] # None /\ ~Fresh(seen[o]) /\ End(o, "error")
    /\ UNCHANGED <<service, ops, faults>>

ReadBack(o) ==
    /\ pc[o] = "read"
    /\ End(o, "ok")
    /\ UNCHANGED <<service, ops, faults>>

\* A call fails, before or after it has taken its effect.  Connection errors
\* are InvalidRequest errors too (policy_errors.go), and so tried again.
CallFails(o) ==
    /\ pc[o] # "idle"
    /\ faults < MaxFaults
    /\ faults' = faults + 1
    /\ UNCHANGED service \/ Effect(o)
    /\ \/ End(o, "error")
       \/ pc[o] \in {"get", "put"} /\ Again(o)
    /\ UNCHANGED ops

\* Somebody else changes the service.
OtherUser ==
    /\ exists
    /\ ops < MaxOps
    /\ ops' = ops + 1
    /\ \E v \in Value : parts' = [parts EXCEPT !["other"] = v]
    /\ rev' = rev + 1
    /\ UNCHANGED <<exists, operation, faults>>

\* Nothing is left to do within the bound.
Quiescent ==
    /\ ops = MaxOps
    /\ \A o \in Owner : pc[o] = "idle"
    /\ UNCHANGED vars

-----------------------------------------------------------------------------
\* The gateway has been created with an edge cluster.
Init ==
    /\ exists = TRUE
    /\ rev = 0
    /\ \E v \in Value : parts = [p \in Part |-> IF p = "edge" THEN v ELSE None]
    /\ pc = [o \in Owner |-> "idle"]
    /\ want = [o \in Owner |-> None]
    /\ seen = [o \in Owner |-> NoCopy]
    /\ attempts = [o \in Owner |-> 0]
    /\ since = [o \in Owner |-> 0]
    /\ result = [o \in Owner |-> "none"]
    /\ ops = 0
    /\ faults = 0

Step(o) == Begin(o) \/ Find(o) \/ Get(o) \/ List(o) \/ Write(o) \/ Refused(o)
              \/ ReadBack(o) \/ CallFails(o)

Next == (\E o \in Owner : Step(o)) \/ OtherUser \/ Quiescent

Spec == Init /\ [][Next]_vars

-----------------------------------------------------------------------------
\* Properties.

TypeOK ==
    /\ exists \in BOOLEAN
    /\ rev \in Nat
    /\ parts \in Content
    /\ pc \in [Owner -> Calls \cup {"idle"}]
    /\ want \in [Owner -> Value \cup {None}]
    /\ seen \in [Owner -> Copy]
    /\ attempts \in [Owner -> 0 .. MaxRetries]
    /\ since \in [Owner -> Nat]
    /\ result \in [Owner -> {"none", "ok", "error"}]
    /\ ops \in 0 .. MaxOps
    /\ faults \in 0 .. MaxFaults

\* However the operations interleave, fail and try again, each part is a
\* register that only its owner writes, an operation that succeeds leaves its
\* part as it wants it, and nobody's write is undone ("Use patch to only update
\* the relevant fields", "keep the HA vip config").
Registers == INSTANCE PartRegisters WITH
    Root <- "edge",
    running <- {o \in Owner : pc[o] # "idle"}

PartsAreRegisters == Registers!Spec

\* A stale revision, and no failed call, ends a deletion.
GivesUp(o) ==
    /\ pc[o] = "put" /\ pc'[o] = "idle"
    /\ result'[o] = "error"
    /\ faults' = faults

\* A deletion gives up on a stale revision only under contention: the service
\* has changed, or a call has failed, more than max_retries times since it
\* began.
GivesUpOnlyUnderContention ==
    [][\A o \in Owner : GivesUp(o) => rev - since[o] + faults > MaxRetries]_vars
=============================================================================
