--------------------------- MODULE PartRegisters ---------------------------
(***************************************************************************)
(* What the resources that share an NSX object may rely on: each owns a    *)
(* part of it that nobody else writes, an operation writes what it wants   *)
(* while it runs, possibly more than once and even if it fails in the end, *)
(* and an operation that succeeds leaves its part as wanted.               *)
(***************************************************************************)
CONSTANTS
    Value,     \* what a part can hold
    None,      \* an empty part
    Part,      \* the parts of the object
    Owner,     \* the parts that a resource owns
    Root       \* the owner that has created the object, and removes it with
               \* None; not an owner where no resource stands for the object

VARIABLES
    parts,     \* the object
    want,      \* what the last operation of each owner is to write
    running,   \* the owners that have an operation running
    result     \* how the last operation of each owner ended

vars == <<parts, want, running, result>>

Empty == [p \in Part |-> None]

Begin(o) ==
    /\ o \notin running
    /\ \E v \in Value \cup {None} : want' = [want EXCEPT ![o] = v]
    /\ running' = running \cup {o}
    /\ result' = [result EXCEPT ![o] = "none"]
    /\ UNCHANGED parts

\* The object after an operation has taken its effect.
Written(o) ==
    IF o = Root /\ want[o] = None THEN Empty ELSE [parts EXCEPT ![o] = want[o]]

Write(o) ==
    /\ o \in running
    /\ parts' = Written(o)
    /\ \/ UNCHANGED <<running, result>>
       \/ /\ running' = running \ {o}
          /\ \E r \in {"ok", "error"} : result' = [result EXCEPT ![o] = r]
    /\ UNCHANGED want

Succeed(o) ==
    /\ o \in running
    /\ parts[o] = want[o]
    /\ running' = running \ {o}
    /\ result' = [result EXCEPT ![o] = "ok"]
    /\ UNCHANGED <<parts, want>>

Fail(o) ==
    /\ o \in running
    /\ running' = running \ {o}
    /\ result' = [result EXCEPT ![o] = "error"]
    /\ UNCHANGED <<parts, want>>

\* Somebody else changes a part that no resource owns.
Other ==
    /\ \E p \in Part \ Owner, v \in Value \cup {None} : parts' = [parts EXCEPT ![p] = v]
    /\ UNCHANGED <<want, running, result>>

Init ==
    /\ \E v \in Value : parts = [p \in Part |-> IF p = Root THEN v ELSE None]
    /\ want = [o \in Owner |-> None]
    /\ running = {}
    /\ result = [o \in Owner |-> "none"]

Next == Other \/ \E o \in Owner : Begin(o) \/ Write(o) \/ Succeed(o) \/ Fail(o)

Spec == Init /\ [][Next]_vars
=============================================================================
