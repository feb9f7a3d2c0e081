------------------------- MODULE ExcludeListProofs -------------------------
(***************************************************************************)
(* The inductive invariant of ExcludeList, and from it, for any members,   *)
(* any max_retries and any number of operations and faults: the types,     *)
(* that no member is listed twice, that the list agrees with the terraform *)
(* state, and the refinement of PartRegisters.                             *)
(***************************************************************************)
EXTENDS ExcludeList, TLAPS

Entry == Member \cup Foreign

\* Two readings of the list with the same revision are the same, and the member
\* to add is not in the copy, the one to remove is.
FreshCopy(m) ==
    pc[m] = "put" =>
        /\ seen[m].rev <= rev
        /\ seen[m].rev = rev => exists /\ members = seen[m].members
        /\ want[m] = "on" <=> m \notin ToSet(seen[m].members)

\* A member that has been added, and is being read back, is there to be found.
ReadsItsWrite(m) ==
    pc[m] = "read" => want[m] = "on" /\ inState[m] /\ m \in Listed

\* Nothing is in a list that does not exist.
Gone == ~exists => members = <<>>

IInv ==
    /\ TypeOK
    /\ ListedOnce
    /\ Gone
    /\ \A m \in Member : FreshCopy(m) /\ ReadsItsWrite(m)
    /\ StateMatchesList

-----------------------------------------------------------------------------
(***************************************************************************)
(* Lists without repetition.                                               *)
(***************************************************************************)

\* Adding a member at the end.
LEMMA Appended ==
    ASSUME NEW S, NEW s \in Seq(S), NEW e \in S
    PROVE  /\ Append(s, e) \in Seq(S)
           /\ ToSet(Append(s, e)) = ToSet(s) \cup {e}
           /\ IsInjective(s) /\ e \notin ToSet(s) => IsInjective(Append(s, e))
<1>1. /\ Append(s, e) \in Seq(S)
      /\ DOMAIN s = 1 .. Len(s) /\ DOMAIN Append(s, e) = 1 .. Len(s) + 1
      /\ Len(s) \in Nat
      /\ Append(s, e)[Len(s) + 1] = e
      /\ \A i \in 1 .. Len(s) : Append(s, e)[i] = s[i]
  OBVIOUS
<1>2. ToSet(Append(s, e)) = ToSet(s) \cup {e}
  <2>1. ASSUME NEW x \in ToSet(Append(s, e)) PROVE x \in ToSet(s) \cup {e}
    BY <1>1, <2>1 DEF ToSet
  <2>2. ASSUME NEW x \in ToSet(s) \cup {e} PROVE x \in ToSet(Append(s, e))
    BY <1>1, <2>2 DEF ToSet
  <2>. QED
    BY <2>1, <2>2
<1>3. ASSUME IsInjective(s), e \notin ToSet(s) PROVE IsInjective(Append(s, e))
  BY <1>1, <1>3 DEF IsInjective, ToSet
<1>. QED
  BY <1>1, <1>2, <1>3

\* Taking out what is not there changes nothing.
LEMMA NotThere ==
    ASSUME NEW S, NEW s \in Seq(S), NEW e, e \notin ToSet(s)
    PROVE  RemoveFirst(s, e) = s
<1>1. ~ \E i \in 1 .. Len(s) : s[i] = e
  BY DEF ToSet
<1>. QED
  BY <1>1 DEF RemoveFirst

\* The first occurrence in a list without repetition is the only one.
LEMMA OnlyOccurrence ==
    ASSUME NEW S, NEW s \in Seq(S), IsInjective(s), NEW k \in 1 .. Len(s)
    PROVE  RemoveFirst(s, s[k]) = RemoveAt(s, k)
<1>1. {i \in 1 .. Len(s) : s[i] = s[k]} = {k}
  BY DEF IsInjective
<1>2. Min({k}) = k
  BY DEF Min
<1>3. SelectInSeq(s, LAMBDA v : v = s[k]) = k
  BY <1>1, <1>2 DEF SelectInSeq
<1>. QED
  BY <1>3 DEF RemoveFirst

\* The elements of two lists, one after the other.
LEMMA Joined ==
    ASSUME NEW S, NEW f \in Seq(S), NEW g \in Seq(S)
    PROVE  /\ f \o g \in Seq(S)
           /\ Len(f \o g) = Len(f) + Len(g)
           /\ \A i \in 1 .. Len(f \o g) :
                 (f \o g)[i] = IF i <= Len(f) THEN f[i] ELSE g[i - Len(f)]
OBVIOUS

\* Taking out the only occurrence.
LEMMA Removed ==
    ASSUME NEW S, NEW s \in Seq(S), IsInjective(s), NEW e
    PROVE  /\ RemoveFirst(s, e) \in Seq(S)
           /\ ToSet(RemoveFirst(s, e)) = ToSet(s) \ {e}
           /\ IsInjective(RemoveFirst(s, e))
<1>1. CASE e \notin ToSet(s)
  BY <1>1, NotThere
<1>2. CASE e \in ToSet(s)
  <2>1. PICK k \in 1 .. Len(s) : e = s[k]
    BY <1>2 DEF ToSet
  <2> DEFINE r == RemoveAt(s, k)
  <2>2. RemoveFirst(s, e) = r
    BY <2>1, OnlyOccurrence
  <2>3. /\ r \in Seq(S)
        /\ DOMAIN s = 1 .. Len(s) /\ DOMAIN r = 1 .. Len(s) - 1
        /\ Len(s) \in Nat /\ k \in 1 .. Len(s)
        /\ \A i \in 1 .. Len(s) - 1 : r[i] = IF i < k THEN s[i] ELSE s[i + 1]
    <3>1. /\ SubSeq(s, 1, k - 1) \in Seq(S)
          /\ Len(SubSeq(s, 1, k - 1)) = k - 1
          /\ \A i \in 1 .. k - 1 : SubSeq(s, 1, k - 1)[i] = s[i]
      OBVIOUS
    <3>2. /\ SubSeq(s, k + 1, Len(s)) \in Seq(S)
          /\ Len(SubSeq(s, k + 1, Len(s))) = Len(s) - k
          /\ \A i \in 1 .. Len(s) - k : SubSeq(s, k + 1, Len(s))[i] = s[k + i]
      OBVIOUS
    <3> DEFINE front == SubSeq(s, 1, k - 1)
               back == SubSeq(s, k + 1, Len(s))
    <3>3. r = front \o back
      BY DEF RemoveAt
    <3> HIDE DEF front, back, r
    <3>4. /\ r \in Seq(S)
          /\ Len(r) = Len(front) + Len(back)
          /\ \A i \in 1 .. Len(r) :
                r[i] = IF i <= Len(front) THEN front[i] ELSE back[i - Len(front)]
      <4>1. front \in Seq(S) /\ back \in Seq(S)
        BY <3>1, <3>2 DEF front, back
      <4>. QED
        BY <3>3, <4>1, Joined
    <3>5. Len(front) = k - 1 /\ Len(back) = Len(s) - k
      BY <3>1, <3>2 DEF front, back
    <3>6. Len(s) \in Nat /\ k \in 1 .. Len(s) /\ DOMAIN s = 1 .. Len(s)
      OBVIOUS
    <3>7. Len(r) = Len(s) - 1 /\ DOMAIN r = 1 .. Len(r)
      BY <3>4, <3>5, <3>6
    <3>8. ASSUME NEW i \in 1 .. Len(s) - 1
          PROVE  r[i] = IF i < k THEN s[i] ELSE s[i + 1]
      <4>1. CASE i < k
        <5>1. r[i] = front[i] /\ i \in 1 .. k - 1
          BY <3>4, <3>5, <3>6, <3>7, <4>1
        <5>. QED
          BY <3>1, <4>1, <5>1 DEF front
      <4>2. CASE ~(i < k)
        <5>1. r[i] = back[i - (k - 1)] /\ i - (k - 1) \in 1 .. Len(s) - k
          BY <3>4, <3>5, <3>6, <3>7, <4>2
        <5>2. back[i - (k - 1)] = s[k + (i - (k - 1))]
          BY <3>2, <5>1 DEF back
        <5>. QED
          BY <3>6, <4>2, <5>1, <5>2
      <4>. QED
        BY <4>1, <4>2
    <3>. QED
      BY <3>4, <3>6, <3>7, <3>8
  <2> HIDE DEF r
  <2>4. ToSet(r) = ToSet(s) \ {e}
    <3>1. ASSUME NEW x \in ToSet(r) PROVE x \in ToSet(s) \ {e}
      <4>1. PICK i \in 1 .. Len(s) - 1 : x = IF i < k THEN s[i] ELSE s[i + 1]
        BY <2>3, <3>1 DEF ToSet
      <4>2. PICK j \in 1 .. Len(s) : x = s[j] /\ j # k
        BY <2>3, <4>1
      <4>. QED
        BY <2>1, <2>3, <4>2 DEF ToSet, IsInjective
    <3>2. ASSUME NEW x \in ToSet(s) \ {e} PROVE x \in ToSet(r)
      <4>1. PICK j \in 1 .. Len(s) : x = s[j] /\ j # k
        BY <2>1, <2>3, <3>2 DEF ToSet
      <4>2. PICK i \in 1 .. Len(s) - 1 : x = r[i]
        <5>1. CASE j < k
          BY <2>3, <4>1, <5>1
        <5>2. CASE j > k
          <6>1. j - 1 \in 1 .. Len(s) - 1 /\ r[j - 1] = s[j]
            BY <2>3, <4>1, <5>2
          <6>. QED
            BY <4>1, <6>1
        <5>. QED
          BY <2>3, <4>1, <5>1, <5>2
      <4>. QED
        BY <2>3, <4>2 DEF ToSet
    <3>. QED
      BY <3>1, <3>2
  <2>5. IsInjective(r)
    <3>. SUFFICES ASSUME NEW a \in 1 .. Len(s) - 1, NEW b \in 1 .. Len(s) - 1, r[a] = r[b]
                  PROVE  a = b
      BY <2>3 DEF IsInjective
    <3>. QED
      BY <2>3 DEF IsInjective
  <2>. QED
    BY <2>2, <2>3, <2>4, <2>5
<1>. QED
  BY <1>1, <1>2

-----------------------------------------------------------------------------
(***************************************************************************)
(* What a step does to the list and to the other operations.               *)
(***************************************************************************)

\* A call that takes effect adds or takes out the member of its resource.
LEMMA EffectWrites ==
    ASSUME IInv, NEW m \in Member, Effect(m)
    PROVE  /\ UNCHANGED exists /\ exists /\ rev' = rev + 1
           /\ members' \in Seq(Entry)
           /\ IsInjective(members')
           /\ Listed' = IF want[m] = "on" THEN Listed \cup {m} ELSE Listed \ {m}
<1>1. /\ exists /\ members = seen[m].members /\ members \in Seq(Entry)
      /\ IsInjective(members) /\ m \in Entry
      /\ want[m] = "on" <=> m \notin Listed
  BY DEF IInv, TypeOK, ListedOnce, FreshCopy, Effect, Fresh, Listed, Entry
<1>2. UNCHANGED exists /\ rev' = rev + 1 /\ members' = Changed(m)
  BY DEF Effect
<1>3. CASE want[m] = "on"
  <2>1. members' = Append(members, m)
    BY <1>1, <1>2, <1>3 DEF Changed
  <2>. QED
    BY <1>1, <1>2, <1>3, <2>1, Appended DEF Listed
<1>4. CASE want[m] # "on"
  <2>1. members' = RemoveFirst(members, m)
    BY <1>1, <1>2, <1>4 DEF Changed
  <2>. QED
    BY <1>1, <1>2, <1>4, <2>1, Removed DEF Listed
<1>. QED
  BY <1>3, <1>4

\* The list after any step of an operation: its type, nobody is listed twice, and
\* the others are listed as before.
ListMoved(m) ==
    /\ exists' \in BOOLEAN
    /\ rev' \in Nat /\ rev <= rev'
    /\ rev' = rev => UNCHANGED list
    /\ members' \in Seq(Entry)
    /\ ListedOnce'
    /\ Gone'
    /\ \A q \in Member : q # m => (q \in Listed' <=> q \in Listed)

LEMMA ListMoves ==
    ASSUME IInv, NEW m \in Member, Effect(m) \/ UNCHANGED list
    PROVE  ListMoved(m)
<1>1. exists \in BOOLEAN /\ rev \in Nat /\ members \in Seq(Entry) /\ ListedOnce /\ Gone
  BY DEF IInv, TypeOK, Entry
<1>2. CASE Effect(m)
  BY <1>1, <1>2, EffectWrites DEF ListMoved, ListedOnce, Gone
<1>3. CASE UNCHANGED list
  BY <1>1, <1>3 DEF ListMoved, ListedOnce, Gone, list, Listed
<1>. QED
  BY <1>2, <1>3

\* What an operation may do to itself.
Own(m, label, w, copy, n, how, held) ==
    /\ pc' = [pc EXCEPT ![m] = label]
    /\ want' = [want EXCEPT ![m] = w]
    /\ seen' = [seen EXCEPT ![m] = copy]
    /\ attempts' = [attempts EXCEPT ![m] = n]
    /\ result' = [result EXCEPT ![m] = how]
    /\ inState' = [inState EXCEPT ![m] = held]

Labels == {"idle", "get", "put", "read"}

\* An operation that keeps its own part of the invariant keeps all of it.
LEMMA OwnStep ==
    ASSUME IInv, NEW m \in Member, ListMoved(m),
           NEW label \in Labels, NEW w \in {"on", "off"}, NEW copy \in Copy,
           NEW n \in 0 .. MaxRetries, NEW how \in {"none", "ok", "error"},
           NEW held \in BOOLEAN, Own(m, label, w, copy, n, how, held),
           ops' \in 0 .. MaxOps, faults' \in 0 .. MaxFaults,
           label = "put" =>
               /\ UNCHANGED list /\ exists
               /\ copy = [rev |-> rev, members |-> members]
               /\ w = "on" <=> m \notin Listed,
           label = "read" => w = "on" /\ inState'[m] /\ m \in Listed',
           label = "idle" /\ how # "error" => (held <=> m \in Listed')
    PROVE  IInv'
<1>1. TypeOK'
  BY DEF IInv, TypeOK, Own, ListMoved, Labels, Entry
<1>2. ASSUME NEW q \in Member PROVE FreshCopy(q)'
  <2>1. CASE q = m
    BY <1>2, <2>1 DEF IInv, TypeOK, Own, FreshCopy, list, Listed
  <2>2. CASE q # m
    <3>1. pc'[q] = pc[q] /\ want'[q] = want[q] /\ seen'[q] = seen[q]
      BY <1>2, <2>2 DEF IInv, TypeOK, Own
    <3>2. FreshCopy(q) /\ rev \in Nat /\ rev' \in Nat /\ rev <= rev' /\ seen[q].rev \in Nat
      BY <1>2 DEF IInv, TypeOK, ListMoved, Copy
    <3>3. rev' = rev => UNCHANGED list
      BY DEF ListMoved
    <3>. QED
      BY <3>1, <3>2, <3>3 DEF FreshCopy, list
  <2>. QED
    BY <2>1, <2>2
<1>3. ASSUME NEW q \in Member
      PROVE  /\ ReadsItsWrite(q)'
             /\ pc'[q] = "idle" /\ result'[q] # "error" => (inState'[q] <=> q \in Listed')
  <2>1. CASE q = m
    BY <1>3, <2>1 DEF IInv, TypeOK, Own, ReadsItsWrite
  <2>2. CASE q # m
    <3>1. /\ pc'[q] = pc[q] /\ want'[q] = want[q]
          /\ result'[q] = result[q] /\ inState'[q] = inState[q]
      BY <1>3, <2>2 DEF IInv, TypeOK, Own
    <3>2. q \in Listed' <=> q \in Listed
      BY <1>3, <2>2 DEF ListMoved
    <3>. QED
      BY <1>3, <3>1, <3>2 DEF IInv, ReadsItsWrite, StateMatchesList
  <2>. QED
    BY <2>1, <2>2
<1>. QED
  BY <1>1, <1>2, <1>3 DEF IInv, ListMoved, StateMatchesList

\* An operation that ends, or tries again.
LEMMA EndStep ==
    ASSUME IInv, NEW m \in Member, ListMoved(m),
           NEW how \in {"ok", "error"}, End(m, how),
           NEW held \in BOOLEAN, inState' = [inState EXCEPT ![m] = held],
           how = "ok" => (held <=> m \in Listed'),
           ops' \in 0 .. MaxOps, faults' \in 0 .. MaxFaults
    PROVE  IInv'
<1>1. want[m] \in {"on", "off"} /\ 0 \in 0 .. MaxRetries /\ NoCopy \in Copy
  BY MemberAssumption DEF IInv, TypeOK, NoCopy, Copy
<1>2. Own(m, "idle", want[m], NoCopy, 0, how, held)
  BY DEF Own, End, Goto, IInv, TypeOK
<1>. QED
  BY <1>1, <1>2, OwnStep DEF Labels

LEMMA AgainStep ==
    ASSUME IInv, NEW m \in Member, ListMoved(m), Again(m), UNCHANGED inState,
           ops' \in 0 .. MaxOps, faults' \in 0 .. MaxFaults
    PROVE  IInv'
<1>1. /\ want[m] \in {"on", "off"} /\ NoCopy \in Copy /\ attempts[m] \in 0 .. MaxRetries
      /\ result[m] \in {"none", "ok", "error"} /\ inState[m] \in BOOLEAN
      /\ inState' = [inState EXCEPT ![m] = inState[m]]
  BY MemberAssumption DEF IInv, TypeOK, NoCopy, Copy
<1>2. CASE End(m, "error")
  BY <1>1, <1>2, EndStep
<1>3. CASE ~LastTry(m) /\ ~End(m, "error")
  <2>1. attempts[m] + 1 \in 0 .. MaxRetries
    BY <1>1, <1>3, MemberAssumption DEF LastTry
  <2>2. Own(m, "get", want[m], NoCopy, attempts[m] + 1, result[m], inState[m])
    BY <1>1, <1>3 DEF Own, Again, Goto, IInv, TypeOK
  <2>. QED
    BY <1>1, <2>1, <2>2, OwnStep DEF Labels
<1>. QED
  BY <1>2, <1>3 DEF Again

LEMMA StepInvariant ==
    ASSUME IInv, NEW m \in Member, Step(m)
    PROVE  IInv'
<1>t. /\ want[m] \in {"on", "off"} /\ attempts[m] \in 0 .. MaxRetries
      /\ result[m] \in {"none", "ok", "error"} /\ inState[m] \in BOOLEAN
      /\ seen[m] \in Copy
      /\ inState' = inState => inState' = [inState EXCEPT ![m] = inState[m]]
      /\ ops \in 0 .. MaxOps /\ faults \in 0 .. MaxFaults
  BY DEF IInv, TypeOK
<1>c. [rev |-> rev, members |-> members] \in Copy
  BY DEF IInv, TypeOK, Copy
<1>u. UNCHANGED list => ListMoved(m) /\ Listed' = Listed
  BY ListMoves DEF list, Listed
<1>e. Effect(m) => ListMoved(m)
  BY ListMoves
<1>1. CASE Begin(m)
  <2>1. PICK w \in {"on", "off"} : want' = [want EXCEPT ![m] = w]
    BY <1>1 DEF Begin
  <2>2. Own(m, "get", w, seen[m], attempts[m], "none", inState[m])
    BY <1>1, <2>1 DEF Own, Begin, Goto, IInv, TypeOK
  <2>3. ops' \in 0 .. MaxOps /\ faults' \in 0 .. MaxFaults /\ UNCHANGED list
    BY <1>1, <1>t, MemberAssumption DEF Begin
  <2>. QED
    BY <1>t, <1>u, <2>2, <2>3, OwnStep DEF Labels
<1>2. CASE GetToAdd(m)
  <2>1. ops' \in 0 .. MaxOps /\ faults' \in 0 .. MaxFaults /\ UNCHANGED list
    BY <1>2, <1>t DEF GetToAdd
  <2>2. CASE End(m, "error")
    BY <1>2, <1>t, <1>u, <2>1, <2>2, EndStep DEF GetToAdd
  <2>3. CASE ~End(m, "error")
    <3>1. Own(m, "put", want[m], [rev |-> rev, members |-> members], attempts[m],
              result[m], inState[m])
      BY <1>2, <2>3 DEF Own, GetToAdd, Goto, IInv, TypeOK
    <3>2. exists /\ want[m] = "on" /\ m \notin Listed
      BY <1>2, <2>3 DEF GetToAdd, AlreadyListed
    <3>. QED
      BY <1>c, <1>t, <1>u, <2>1, <3>1, <3>2, OwnStep DEF Labels
  <2>. QED
    BY <2>2, <2>3
<1>3. CASE GetToRemove(m)
  <2>1. ops' \in 0 .. MaxOps /\ faults' \in 0 .. MaxFaults /\ UNCHANGED list
    BY <1>3, <1>t DEF GetToRemove
  <2>2. CASE (exists => m \notin Listed) /\ EndDelete(m, "ok")
    <3>1. m \notin Listed
      BY <2>2 DEF IInv, Gone, Listed, ToSet
    <3>2. End(m, "ok") /\ inState' = [inState EXCEPT ![m] = FALSE]
      BY <2>2 DEF EndDelete
    <3>. QED
      BY <1>u, <2>1, <3>1, <3>2, EndStep
  <2>3. CASE ~ ((exists => m \notin Listed) /\ EndDelete(m, "ok"))
    <3>1. Own(m, "put", want[m], [rev |-> rev, members |-> members], attempts[m],
              result[m], inState[m])
      BY <1>3, <2>3 DEF Own, GetToRemove, Goto, IInv, TypeOK
    <3>2. exists /\ want[m] = "off" /\ m \in Listed
      BY <1>3, <2>3 DEF GetToRemove
    <3>. QED
      BY <1>c, <1>t, <1>u, <2>1, <3>1, <3>2, OwnStep DEF Labels
  <2>. QED
    BY <2>2, <2>3
<1>4. CASE Put(m)
  <2>1. /\ ops' \in 0 .. MaxOps /\ faults' \in 0 .. MaxFaults
        /\ Effect(m) /\ ListMoved(m)
    BY <1>4, <1>e, <1>t DEF Put
  <2>2. CASE want[m] = "on"
    <3>1. PICK held \in BOOLEAN :
              held /\ Own(m, "read", want[m], seen[m], attempts[m], result[m], held)
      BY <1>4, <2>2 DEF Own, Put, Goto, IInv, TypeOK
    <3>2. m \in Listed' /\ inState'[m]
      BY <2>1, <2>2, <3>1, EffectWrites DEF Own, IInv, TypeOK
    <3>3. "read" \in Labels /\ "read" # "put" /\ "read" # "idle"
      BY DEF Labels
    <3>4. PICK copy \in Copy : copy = seen[m]
      BY <1>t
    <3>5. PICK n \in 0 .. MaxRetries : n = attempts[m]
      BY <1>t
    <3>6. PICK how \in {"none", "ok", "error"} : how = result[m]
      BY <1>t
    <3>7. Own(m, "read", "on", copy, n, how, held)
      BY <2>2, <3>1, <3>4, <3>5, <3>6
    <3>8. IInv /\ ListMoved(m) /\ held
      BY <2>1, <3>1
    <3>9. ops' \in 0 .. MaxOps /\ faults' \in 0 .. MaxFaults
      BY <2>1
    <3>. QED
      BY <3>2, <3>3, <3>7, <3>8, <3>9, OwnStep
  <2>3. CASE want[m] # "on"
    <3>1. End(m, "ok") /\ inState' = [inState EXCEPT ![m] = FALSE]
      BY <1>4, <2>3 DEF Put, EndDelete
    <3>2. m \notin Listed'
      BY <2>1, <2>3, EffectWrites
    <3>. QED
      BY <2>1, <3>1, <3>2, EndStep
  <2>. QED
    BY <2>2, <2>3
<1>5. CASE Refused(m)
  <2>1. ops' \in 0 .. MaxOps /\ faults' \in 0 .. MaxFaults /\ UNCHANGED list
    BY <1>5, <1>t DEF Refused
  <2>. QED
    BY <1>5, <1>u, <2>1, AgainStep DEF Refused
<1>6. CASE ReadBack(m)
  <2>1. ops' \in 0 .. MaxOps /\ faults' \in 0 .. MaxFaults /\ UNCHANGED list
    BY <1>6, <1>t DEF ReadBack
  <2>2. m \in Listed /\ inState[m] = TRUE /\ End(m, "ok") /\ UNCHANGED inState
    BY <1>6, <1>t DEF ReadBack, IInv, ReadsItsWrite
  <2>. QED
    BY <1>t, <1>u, <2>1, <2>2, EndStep
<1>7. CASE CallFails(m)
  <2>1. ops' \in 0 .. MaxOps /\ faults' \in 0 .. MaxFaults /\ UNCHANGED inState
    BY <1>7, <1>t, MemberAssumption DEF CallFails
  <2>2. ListMoved(m)
    BY <1>7, <1>e, <1>u DEF CallFails
  <2>3. CASE End(m, "error")
    BY <1>t, <2>1, <2>2, <2>3, EndStep
  <2>4. CASE Again(m)
    BY <2>1, <2>2, <2>4, AgainStep
  <2>. QED
    BY <1>7, <2>3, <2>4 DEF CallFails
<1>. QED
  BY <1>1, <1>2, <1>3, <1>4, <1>5, <1>6, <1>7 DEF Step

\* Other users change what has no resource.
LEMMA OtherMoves ==
    ASSUME IInv, OtherUser
    PROVE  \E f \in Foreign :
              /\ members' \in Seq(Entry)
              /\ IsInjective(members')
              /\ Listed' = IF f \in Listed THEN Listed \ {f} ELSE Listed \cup {f}
<1>1. PICK f \in Foreign :
          members' = IF f \in Listed THEN RemoveFirst(members, f) ELSE Append(members, f)
  BY DEF OtherUser
<1>2. f \in Entry /\ members \in Seq(Entry) /\ IsInjective(members)
  BY DEF IInv, TypeOK, ListedOnce, Entry
<1>3. CASE f \in Listed
  BY <1>1, <1>2, <1>3, Removed DEF Listed
<1>4. CASE f \notin Listed
  BY <1>1, <1>2, <1>4, Appended DEF Listed
<1>. QED
  BY <1>3, <1>4

LEMMA OtherInvariant ==
    ASSUME IInv, OtherUser
    PROVE  IInv'
<1>1. PICK f \in Foreign :
          /\ members' \in Seq(Entry)
          /\ IsInjective(members')
          /\ Listed' = IF f \in Listed THEN Listed \ {f} ELSE Listed \cup {f}
  BY OtherMoves
<1>2. /\ exists' = TRUE /\ rev' = rev + 1 /\ ops' = ops + 1 /\ ops < MaxOps
      /\ UNCHANGED <<pc, want, seen, attempts, result, inState, faults>>
  BY DEF OtherUser, operation
<1>3. \A m \in Member : m \in Listed' <=> m \in Listed
  BY <1>1, MemberAssumption
<1>4. TypeOK'
  BY <1>1, <1>2, MemberAssumption DEF IInv, TypeOK, Entry
<1>5. ListedOnce' /\ Gone'
  BY <1>1, <1>2 DEF ListedOnce, Gone
<1>6. ASSUME NEW m \in Member PROVE FreshCopy(m)' /\ ReadsItsWrite(m)'
  <2>1. rev \in Nat /\ seen[m].rev \in Nat /\ FreshCopy(m) /\ ReadsItsWrite(m)
    BY <1>6 DEF IInv, TypeOK, Copy
  <2>. QED
    BY <1>2, <1>3, <1>6, <2>1 DEF FreshCopy, ReadsItsWrite
<1>7. StateMatchesList'
  BY <1>2, <1>3 DEF IInv, StateMatchesList
<1>. QED
  BY <1>4, <1>5, <1>6, <1>7 DEF IInv

LEMMA InitInvariant == Init => IInv
<1>. SUFFICES ASSUME Init PROVE IInv
  OBVIOUS
<1>1. TypeOK
  BY MemberAssumption DEF Init, TypeOK, NoCopy, Copy
<1>. QED
  BY <1>1 DEF Init, IInv, ListedOnce, IsInjective, Gone, FreshCopy, ReadsItsWrite,
              StateMatchesList, Listed, ToSet

THEOREM Invariant == Spec => []IInv
<1>1. IInv /\ [Next]_vars => IInv'
  <2>. SUFFICES ASSUME IInv, [Next]_vars PROVE IInv'
    OBVIOUS
  <2>1. CASE UNCHANGED vars
    BY <2>1 DEF vars, list, operation, IInv, TypeOK, ListedOnce, Gone, FreshCopy,
                ReadsItsWrite, StateMatchesList, Listed
  <2>. QED
    BY <2>1, StepInvariant, OtherInvariant DEF Next, Quiescent
<1>. QED
  BY <1>1, InitInvariant, PTL DEF Spec

\* No operation leaves its labels, or tries more often than max_retries allows.
THEOREM TypeCorrect == Spec => []TypeOK
BY Invariant, PTL DEF IInv

\* No member is listed twice, although adds whose answer is lost are sent again.
THEOREM NoneListedTwice == Spec => []ListedOnce
BY Invariant, PTL DEF IInv

\* A member is listed if and only if its resource is in the terraform state, but
\* for operations that run or that have failed.
THEOREM ListAgrees == Spec => []StateMatchesList
BY Invariant, PTL DEF IInv

-----------------------------------------------------------------------------
(***************************************************************************)
(* Refinement: PartRegisters sees a part for each member, on while it is   *)
(* listed, and which operations run.                                       *)
(***************************************************************************)

Parts == [m \in Entry |-> IF m \in Listed THEN "on" ELSE "off"]

Running == {m \in Member : pc[m] # "idle"}

Seen == <<Parts, want, Running, result>>

LEMMA RunningMoves ==
    ASSUME IInv, NEW m \in Member, NEW label \in Labels, pc' = [pc EXCEPT ![m] = label]
    PROVE  Running' = IF label = "idle" THEN Running \ {m} ELSE Running \cup {m}
BY DEF Running, IInv, TypeOK

LEMMA PartsStay == Listed' = Listed => Parts' = Parts
BY DEF Parts

\* A call that takes effect writes the part of its operation.
LEMMA EffectWritesPart ==
    ASSUME IInv, NEW m \in Member, Effect(m)
    PROVE  Parts' = [Parts EXCEPT ![m] = want[m]]
<1>1. Listed' = IF want[m] = "on" THEN Listed \cup {m} ELSE Listed \ {m}
  BY EffectWrites
<1>2. want[m] \in {"on", "off"} /\ m \in Entry
  BY DEF IInv, TypeOK, Entry
<1>. QED
  BY <1>1, <1>2 DEF Parts

\* A step to another call that leaves the list alone is not seen.
LEMMA MoveStutters ==
    ASSUME IInv, NEW m \in Member, pc[m] # "idle", NEW label \in Labels \ {"idle"},
           pc' = [pc EXCEPT ![m] = label], UNCHANGED <<list, want, result>>
    PROVE  UNCHANGED Seen
<1>1. Running' = Running
  BY RunningMoves DEF Running
<1>2. Parts' = Parts
  BY PartsStay DEF list, Listed
<1>. QED
  BY <1>1, <1>2 DEF Seen

LEMMA EndRefines ==
    ASSUME IInv, NEW m \in Member, pc[m] # "idle", NEW how \in {"ok", "error"},
           End(m, how), UNCHANGED list,
           how = "ok" => (m \in Listed <=> want[m] = "on")
    PROVE  Registers!Next
<1>1. Running' = Running \ {m} /\ m \in Running
  BY RunningMoves DEF End, Goto, Running, Labels
<1>2. result' = [result EXCEPT ![m] = how] /\ UNCHANGED <<Parts, want>>
  BY PartsStay DEF End, list, Listed
<1>3. how = "ok" => Parts[m] = want[m]
  BY DEF Parts, Entry, IInv, TypeOK
<1>4. Registers!Succeed(m) \/ Registers!Fail(m)
  BY <1>1, <1>2, <1>3 DEF Registers!Succeed, Registers!Fail, Running, Parts, Entry
<1>. QED
  BY <1>4 DEF Registers!Next

\* The operation goes on after its write, or ends with it.
LEMMA WriteGoesOn ==
    ASSUME IInv, NEW m \in Member, Effect(m), NEW label \in Labels \ {"idle"},
           pc' = [pc EXCEPT ![m] = label], UNCHANGED <<want, result>>
    PROVE  Registers!Next
<1>1. Running' = Running /\ m \in Running
  BY RunningMoves DEF Running, Effect
<1>2. Parts' = [Parts EXCEPT ![m] = want[m]]
  BY EffectWritesPart
<1>3. m # "noRoot"
  BY MemberAssumption
<1>4. Registers!Write(m)
  BY <1>1, <1>2, <1>3 DEF Registers!Write, Registers!Written, Running, Parts, Entry
<1>. QED
  BY <1>4 DEF Registers!Next

LEMMA WriteEnds ==
    ASSUME IInv, NEW m \in Member, Effect(m), NEW how \in {"ok", "error"}, End(m, how)
    PROVE  Registers!Next
<1>1. Running' = Running \ {m} /\ m \in Running
  BY RunningMoves DEF End, Goto, Running, Labels, Effect
<1>2. Parts' = [Parts EXCEPT ![m] = want[m]]
  BY EffectWritesPart
<1>3. m # "noRoot"
  BY MemberAssumption
<1>4. result' = [result EXCEPT ![m] = how] /\ UNCHANGED want
  BY DEF End
<1>5. Registers!Write(m)
  BY <1>1, <1>2, <1>3, <1>4
  DEF Registers!Write, Registers!Written, Running, Parts, Entry
<1>. QED
  BY <1>5 DEF Registers!Next

\* What is tried again is not seen, what is given up has failed.
LEMMA AgainRefines ==
    ASSUME IInv, NEW m \in Member, pc[m] # "idle", Again(m),
           UNCHANGED list \/ Effect(m)
    PROVE  Registers!Next \/ UNCHANGED Seen
<1>1. CASE End(m, "error")
  BY <1>1, EndRefines, WriteEnds
<1>2. CASE Goto(m, "get") /\ UNCHANGED <<want, result>>
  <2>1. "get" \in Labels \ {"idle"}
    BY DEF Labels
  <2>. QED
    BY <1>2, <2>1, MoveStutters, WriteGoesOn DEF Goto
<1>. QED
  BY <1>1, <1>2 DEF Again

LEMMA StepRefines ==
    ASSUME IInv, NEW m \in Member, Step(m)
    PROVE  Registers!Next \/ UNCHANGED Seen
<1>l. {"get", "put", "read"} \subseteq Labels \ {"idle"}
  BY DEF Labels
<1>1. CASE Begin(m)
  <2>1. PICK w \in {"on"} \cup {"off"} : want' = [want EXCEPT ![m] = w]
    BY <1>1 DEF Begin
  <2>2. m \notin Running /\ Running' = Running \cup {m}
    BY <1>1, <1>l, RunningMoves DEF Begin, Goto, Running
  <2>3. result' = [result EXCEPT ![m] = "none"] /\ UNCHANGED Parts
    BY <1>1, PartsStay DEF Begin, list, Listed
  <2>4. Registers!Begin(m)
    BY <2>1, <2>2, <2>3 DEF Registers!Begin, Running, Parts, Entry
  <2>. QED
    BY <2>4 DEF Registers!Next
<1>2. CASE GetToAdd(m)
  BY <1>2, <1>l, EndRefines, MoveStutters DEF GetToAdd, Goto
<1>3. CASE GetToRemove(m)
  <2>1. ~exists => m \notin Listed
    BY DEF IInv, Gone, Listed, ToSet
  <2>. QED
    BY <1>3, <1>l, <2>1, EndRefines, MoveStutters DEF GetToRemove, Goto, EndDelete
<1>4. CASE Put(m)
  BY <1>4, <1>l, WriteGoesOn, WriteEnds DEF Put, Goto, EndDelete
<1>5. CASE Refused(m)
  BY <1>5, AgainRefines DEF Refused
<1>6. CASE ReadBack(m)
  BY <1>6, EndRefines DEF ReadBack, IInv, ReadsItsWrite
<1>7. CASE CallFails(m)
  <2>1. CASE Again(m)
    BY <1>7, <2>1, AgainRefines DEF CallFails
  <2>2. CASE End(m, "error")
    BY <1>7, <2>2, EndRefines, WriteEnds DEF CallFails
  <2>. QED
    BY <1>7, <2>1, <2>2 DEF CallFails
<1>. QED
  BY <1>1, <1>2, <1>3, <1>4, <1>5, <1>6, <1>7 DEF Step

LEMMA OtherRefines ==
    ASSUME IInv, OtherUser
    PROVE  Registers!Next
<1>1. PICK f \in Foreign :
          Listed' = IF f \in Listed THEN Listed \ {f} ELSE Listed \cup {f}
  BY OtherMoves
<1>2. f \in Entry \ Member
  BY MemberAssumption DEF Entry
<1>3. \E v \in {"on"} \cup {"off"} : Parts' = [Parts EXCEPT ![f] = v]
  BY <1>1, <1>2 DEF Parts
<1>4. UNCHANGED <<want, Running, result>>
  BY DEF OtherUser, operation, Running
<1>5. Registers!Other
  BY <1>2, <1>3, <1>4 DEF Registers!Other, Running, Parts, Entry
<1>. QED
  BY <1>5 DEF Registers!Next

\* Each member is a register of its resource: nobody else adds or removes it,
\* and an operation that succeeds leaves it as it wants.
THEOREM Refinement == Spec => MembersAreRegisters
<1>1. Init => Registers!Init
  <2>. SUFFICES ASSUME Init PROVE Registers!Init
    OBVIOUS
  <2>1. Listed = {} /\ Running = {}
    BY DEF Init, Listed, ToSet, Running
  <2>2. Parts = [m \in Entry |-> "off"]
    BY <2>1 DEF Parts
  <2>. QED
    BY <2>1, <2>2, MemberAssumption DEF Init, Registers!Init, Running, Parts, Entry
<1>2. IInv /\ [Next]_vars => [Registers!Next]_Registers!vars
  <2>1. ASSUME UNCHANGED Seen PROVE UNCHANGED Registers!vars
    BY <2>1 DEF Seen, Registers!vars, Parts, Running, Entry
  <2>2. UNCHANGED vars => UNCHANGED Seen
    BY DEF vars, list, operation, Seen, Parts, Running, Listed
  <2>. QED
    BY <2>1, <2>2, StepRefines, OtherRefines DEF Next, Quiescent
<1>. QED
  BY <1>1, <1>2, Invariant, PTL DEF Spec, MembersAreRegisters, Registers!Spec
=============================================================================
