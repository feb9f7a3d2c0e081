---------------------------- MODULE ExcludeList ----------------------------
(***************************************************************************)
(* nsxt_policy_firewall_exclude_list_member: one resource for each member  *)
(* of the firewall exclude list, all of which read the list, change it and *)
(* write it back (nsxt/resource_nsxt_policy_firewall_exclude_list_member   *)
(* .go), trying again on a stale revision.  Terraform runs them at the     *)
(* same time, and users of the NSX UI change the list as well.             *)
(***************************************************************************)
EXTENDS Naturals, SequencesExt

CONSTANTS
    Member,       \* members that have a resource
    Foreign,      \* members that have none
    MaxRetries,   \* max_retries of the provider configuration
    MaxOps,       \* bound on operations and changes by other users
    MaxFaults     \* bound on calls that fail

ASSUME MemberAssumption ==
    /\ Member \cap Foreign = {}
    /\ "noRoot" \notin Member \cup Foreign
    /\ MaxRetries \in Nat
    /\ MaxOps \in Nat
    /\ MaxFaults \in Nat

VARIABLES
    exists,     \* the list exists on NSX
    rev,        \* its _revision
    members,    \* its members, in order
    pc,         \* the call each operation is about to make
    want,       \* "on" for a create, "off" for a delete
    seen,       \* the list as the operation has read it
    attempts,   \* how often it has tried
    result,     \* how it ended
    inState,    \* the resource is in the terraform state
    ops,        \* number of operations and changes by others so far
    faults      \* number of failed calls so far

list == <<exists, rev, members>>
operation == <<pc, want, seen, attempts, result, inState>>
vars == <<list, operation, ops, faults>>

Copy == [rev : Nat, members : Seq(Member \cup Foreign)]
NoCopy == [rev |-> 0, members |-> <<>>]

Listed == ToSet(members)

-----------------------------------------------------------------------------
\* Control of an operation.

Goto(m, label) == pc' = [pc EXCEPT ![m] = label]

End(m, how) ==
    /\ Goto(m, "idle")
    /\ result' = [result EXCEPT ![m] = how]
    /\ seen' = [seen EXCEPT ![m] = NoCopy]
    /\ attempts' = [attempts EXCEPT ![m] = 0]
    /\ UNCHANGED want

\* A delete that succeeds takes the resource out of the state.
EndDelete(m, how) ==
    /\ End(m, how)
    /\ inState' = [inState EXCEPT ![m] = how # "ok"]

MutOneTryMore(m) == attempts[m] > MaxRetries
LastTry(m) == attempts[m] = MaxRetries

\* retryUponPreconditionFailed.
Again(m) ==
    \/ LastTry(m) /\ End(m, "error")
    \/ /\ ~LastTry(m)
       /\ Goto(m, "get")
       /\ attempts' = [attempts EXCEPT ![m] = @ + 1]
       /\ seen' = [seen EXCEPT ![m] = NoCopy]
       /\ UNCHANGED <<want, result>>

\* A create of a resource that is not in the state, or a delete of one that is.
Begin(m) ==
    /\ pc[m] = "idle"
    /\ ops < MaxOps
    /\ Goto(m, "get")
    /\ want' = [want EXCEPT ![m] = IF inState[m] THEN "off" ELSE "on"]
    /\ result' = [result EXCEPT ![m] = "none"]
    /\ ops' = ops + 1
    /\ UNCHANGED <<list, seen, attempts, inState, faults>>

-----------------------------------------------------------------------------
MutBlindAdd(m) == FALSE
\* memberInList, before the member is added.
AlreadyListed(m) == m \in Listed

\* A list that does not exist is taken for one that holds the new member,
\* which is then found to be there.
GetToAdd(m) ==
    /\ pc[m] = "get" /\ want[m] = "on"
    /\ \/ /\ exists /\ ~AlreadyListed(m)
          /\ seen' = [seen EXCEPT ![m] = [rev |-> rev, members |-> members]]
          /\ Goto(m, "put")
          /\ UNCHANGED <<want, attempts, result>>
       \/ (exists => AlreadyListed(m)) /\ End(m, "error")
    /\ UNCHANGED <<list, inState, ops, faults>>

\* A list, or a member, that is not there is nothing left to delete.
GetToRemove(m) ==
    /\ pc[m] = "get" /\ want[m] = "off"
    /\ \/ /\ exists /\ m \in Listed
          /\ seen' = [seen EXCEPT ![m] = [rev |-> rev, members |-> members]]
          /\ Goto(m, "put")
          /\ UNCHANGED <<want, attempts, result, inState>>
       \/ (exists => m \notin Listed) /\ EndDelete(m, "ok")
    /\ UNCHANGED <<list, ops, faults>>

MutTailLost(m) ==
    IF want[m] = "on" THEN Append(seen[m].members, m)
    ELSE SubSeq(seen[m].members, 1, SelectInSeq(seen[m].members, LAMBDA e : e = m) - 1)

\* The member is added at the end, or its first occurrence taken out.
Changed(m) == IF want[m] = "on" THEN Append(seen[m].members, m)
              ELSE RemoveFirst(seen[m].members, m)

MutFresh(m) == TRUE
Fresh(m) == seen[m].rev = rev

\* NSX takes an update that has the revision of the list it replaces.
Effect(m) ==
    /\ pc[m] = "put"
    /\ Fresh(m)
    /\ members' = Changed(m)
    /\ rev' = rev + 1
    /\ UNCHANGED exists

\* A create sets the id and reads the list back.
Put(m) ==
    /\ Effect(m)
    /\ \/ /\ want[m] = "on"
          /\ Goto(m, "read")
          /\ inState' = [inState EXCEPT ![m] = TRUE]
          /\ UNCHANGED <<want, seen, attempts, result>>
       \/ want[m] = "off" /\ EndDelete(m, "ok")
    /\ UNCHANGED <<ops, faults>>

Refused(m) ==
    /\ pc[m] = "put"
    /\ ~Fresh(m)
    /\ Again(m)
    /\ UNCHANGED <<list, inState, ops, faults>>

\* A member that is not in the list is a NotFound error here.
ReadBack(m) ==
    /\ pc[m] = "read"
    /\ End(m, IF m \in Listed THEN "ok" ELSE "error")
    /\ UNCHANGED <<list, inState, ops, faults>>

\* A call fails, before or after it has taken its effect; a connection error
\* is tried again like a stale revision.
CallFails(m) ==
    /\ pc[m] # "idle"
    /\ faults < MaxFaults
    /\ faults' = faults + 1
    /\ UNCHANGED list \/ Effect(m)
    /\ End(m, "error") \/ (pc[m] # "read" /\ Again(m))
    /\ UNCHANGED <<inState, ops>>

\* Somebody else creates the list, or adds or removes a member.
OtherUser ==
    /\ ops < MaxOps
    /\ ops' = ops + 1
    /\ exists' = TRUE
    /\ rev' = rev + 1
    /\ \E f \in Foreign :
          members' = IF f \in Listed THEN RemoveFirst(members, f) ELSE Append(members, f)
    /\ UNCHANGED <<operation, faults>>

\* Nothing is left to do within the bound.
Quiescent ==
    /\ ops = MaxOps
    /\ \A m \in Member : pc[m] = "idle"
    /\ UNCHANGED vars

-----------------------------------------------------------------------------
Init ==
    /\ exists \in BOOLEAN
    /\ rev = 0
    /\ members = <<>>
    /\ pc = [m \in Member |-> "idle"]
    /\ want = [m \in Member |-> "off"]
    /\ seen = [m \in Member |-> NoCopy]
    /\ attempts = [m \in Member |-> 0]
    /\ result = [m \in Member |-> "none"]
    /\ inState = [m \in Member |-> FALSE]
    /\ ops = 0
    /\ faults = 0

Step(m) == Begin(m) \/ GetToAdd(m) \/ GetToRemove(m) \/ Put(m) \/ Refused(m)
              \/ ReadBack(m) \/ CallFails(m)

Next == (\E m \in Member : Step(m)) \/ OtherUser \/ Quiescent

Spec == Init /\ [][Next]_vars

-----------------------------------------------------------------------------
\* Properties.

TypeOK ==
    /\ exists \in BOOLEAN
    /\ rev \in Nat
    /\ members \in Seq(Member \cup Foreign)
    /\ pc \in [Member -> {"idle", "get", "put", "read"}]
    /\ want \in [Member -> {"on", "off"}]
    /\ seen \in [Member -> Copy]
    /\ attempts \in [Member -> 0 .. MaxRetries]
    /\ result \in [Member -> {"none", "ok", "error"}]
    /\ inState \in [Member -> BOOLEAN]
    /\ ops \in 0 .. MaxOps
    /\ faults \in 0 .. MaxFaults

\* No member is listed twice, although an add whose answer was lost is tried
\* again (a delete takes out the first occurrence only).
ListedOnce == IsInjective(members)

\* The list holds exactly the members whose resources are in the terraform
\* state; the two may differ only while an operation runs or after one failed.
StateMatchesList ==
    \A m \in Member :
        pc[m] = "idle" /\ result[m] # "error" => (inState[m] <=> m \in Listed)

\* However the operations interleave, fail and try again, none of them adds or
\* removes another's member, and one that succeeds has its member as it wants:
\* each member is a register of its own.
Registers == INSTANCE PartRegisters WITH
    Value <- {"on"},
    None <- "off",
    Part <- Member \cup Foreign,
    Owner <- Member,
    Root <- "noRoot",
    parts <- [m \in Member \cup Foreign |-> IF m \in Listed THEN "on" ELSE "off"],
    running <- {m \in Member : pc[m] # "idle"}

MembersAreRegisters == Registers!Spec
=============================================================================
