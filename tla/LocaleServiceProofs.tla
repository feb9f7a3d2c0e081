------------------------ MODULE LocaleServiceProofs ------------------------
(***************************************************************************)
(* The inductive invariant of LocaleService, and from it, for any values,  *)
(* any max_retries and any number of operations and faults: the types, the *)
(* refinement of PartRegisters, and the bound on the retries.              *)
(***************************************************************************)
EXTENDS LocaleService, TLAPS

\* Which owner makes which calls, and for what.
Role(o) ==
    /\ pc[o] \in {"list", "gateway"} => o = "edge"
    /\ pc[o] \in {"get", "put"} => o # "edge" /\ want[o] = None
    /\ pc[o] \in {"find", "patch"} => o # "edge" /\ want[o] # None

\* A copy with the current revision is the service.
FreshCopy(o) ==
    /\ pc[o] = "put" => seen[o].exists
    /\ pc[o] \in {"put", "gateway"} =>
          /\ seen[o].rev <= rev
          /\ seen[o].exists /\ seen[o].rev = rev => exists /\ parts = seen[o].parts

\* A part that has been written stays as written while it is read back.
ReadsItsWrite(o) == pc[o] = "read" => parts[o] = want[o]

\* Every attempt but the current one was spoilt by a change or a failed call.
Effort(o) ==
    /\ pc[o] = "idle" => attempts[o] = 0
    /\ attempts[o] + since[o] <= rev + faults
    /\ pc[o] = "put" => attempts[o] + since[o] <= seen[o].rev + faults

Sound(o) == Role(o) /\ FreshCopy(o) /\ ReadsItsWrite(o) /\ Effort(o)

\* A gateway that removes its locale service is alone.
Alone == Removing => \A o \in Owner \ {"edge"} : pc[o] = "idle"

\* Nothing is left of a service that is gone.
Gone == ~exists => parts = Empty

IInv == TypeOK /\ (\A o \in Owner : Sound(o)) /\ Alone /\ Gone

-----------------------------------------------------------------------------
\* Only the gateway can be at work while it removes its service.
LEMMA RemoverIsGateway ==
    ASSUME Alone, NEW o \in Owner, pc[o] # "idle", Removing
    PROVE  o = "edge"
BY DEF Alone, Removing, Owner

\* What a call does to the service when it takes effect: the part of its
\* owner becomes what the owner wants, and nothing else changes, unless the
\* gateway removes the service.
LEMMA EffectWrites ==
    ASSUME IInv, ValueAssumption, NEW o \in Owner, Effect(o)
    PROVE  /\ ~Removing => /\ exists' = TRUE
                           /\ rev' = rev + 1
                           /\ parts' = [parts EXCEPT ![o] = want[o]]
           /\ Removing => /\ o = "edge"
                          /\ exists' = FALSE
                          /\ rev' = rev
                          /\ parts' = Empty
<1>1. /\ parts \in Content
      /\ want[o] \in Value \cup {None}
      /\ seen[o] \in Copy
      /\ o \in Part
  BY DEF IInv, TypeOK, Part
<1>2. pc[o] # "idle"
  BY DEF Effect
<1>3. ASSUME pc[o] = "patch", Patch([p \in {o} |-> want[o]])
      PROVE  /\ ~Removing
             /\ exists' = TRUE /\ rev' = rev + 1
             /\ parts' = [parts EXCEPT ![o] = want[o]]
  <2>1. o # "edge" /\ want[o] # None
    BY <1>3 DEF IInv, Sound, Role
  <2>2. ~Removing
    BY <1>2, <2>1, RemoverIsGateway DEF IInv
  <2>3. parts' = [parts EXCEPT ![o] = want[o]]
    BY <1>1, <1>3, <2>1 DEF Patch, Content
  <2>. QED
    BY <1>3, <2>2, <2>3 DEF Patch
<1>4. ASSUME pc[o] = "put", Put([seen[o].parts EXCEPT ![o] = None], seen[o].rev)
      PROVE  /\ ~Removing
             /\ exists' = TRUE /\ rev' = rev + 1
             /\ parts' = [parts EXCEPT ![o] = want[o]]
  <2>1. o # "edge" /\ want[o] = None
    BY <1>4 DEF IInv, Sound, Role
  <2>2. ~Removing
    BY <1>2, <2>1, RemoverIsGateway DEF IInv
  <2>3. exists /\ parts = seen[o].parts
    BY <1>4 DEF IInv, Sound, FreshCopy, Put
  <2>4. exists' = TRUE
    BY <1>4, <2>3 DEF Put, IInv, TypeOK
  <2>. QED
    BY <1>4, <2>1, <2>2, <2>3, <2>4 DEF Put
<1>5. ASSUME pc[o] = "gateway", want[o] # None, PatchGateway(seen[o])
      PROVE  /\ ~Removing
             /\ exists' = TRUE /\ rev' = rev + 1
             /\ parts' = [parts EXCEPT ![o] = want[o]]
  <2>1. o = "edge"
    BY <1>5 DEF IInv, Sound, Role
  <2>2. ~Removing
    BY <1>5, <2>1 DEF Removing
  <2>3. PICK kept \in Kept(seen[o]) :
            Patch([p \in kept \cup {"edge"} |->
                      IF p = "edge" THEN want["edge"] ELSE seen[o].parts[p]])
    BY <1>5 DEF PatchGateway
  <2>4. \A p \in kept : parts[p] = seen[o].parts[p]
    <3>1. CASE seen[o].exists
      BY <1>5, <3>1 DEF IInv, Sound, FreshCopy, PatchGateway, Fresh
    <3>2. CASE ~seen[o].exists
      BY <3>2 DEF Kept
    <3>. QED
      BY <3>1, <3>2
  <2>5. parts' = [parts EXCEPT ![o] = want[o]]
    BY <1>1, <1>5, <2>1, <2>3, <2>4 DEF Patch, Content
  <2>. QED
    BY <2>2, <2>3, <2>5 DEF Patch
<1>6. ASSUME pc[o] = "gateway", want[o] = None, Remove
      PROVE  /\ Removing /\ o = "edge"
             /\ exists' = FALSE /\ rev' = rev /\ parts' = Empty
  <2>1. o = "edge"
    BY <1>6 DEF IInv, Sound, Role
  <2>. QED
    BY <1>6, <2>1 DEF Removing, Remove
<1>. QED
  BY <1>3, <1>4, <1>5, <1>6 DEF Effect

-----------------------------------------------------------------------------
\* The service after any step: its type, and that its revision only grows.
LEMMA ServiceMoves ==
    ASSUME IInv, ValueAssumption, NEW o \in Owner, Effect(o) \/ UNCHANGED service
    PROVE  /\ exists' \in BOOLEAN
           /\ rev' \in Nat /\ rev <= rev'
           /\ parts' \in Content
           /\ Gone'
           /\ \A q \in Owner : q # o /\ pc[q] # "idle" => parts'[q] = parts[q]
           /\ \A q \in Owner :
                 q # o /\ pc[q] # "idle" /\ rev' = rev
                    => exists' = exists /\ parts' = parts
<1>1. /\ exists \in BOOLEAN /\ rev \in Nat /\ parts \in Content /\ Gone
      /\ want[o] \in Value \cup {None}
  BY DEF IInv, TypeOK
<1>2. Empty \in Content
  BY DEF Empty, Content
<1>3. CASE UNCHANGED service
  BY <1>1, <1>3 DEF service, Gone
<1>4. CASE Effect(o) /\ ~Removing
  <2>1. exists' = TRUE /\ rev' = rev + 1 /\ parts' = [parts EXCEPT ![o] = want[o]]
    BY <1>4, EffectWrites
  <2>2. \A q \in Owner : q # o => parts'[q] = parts[q]
    BY <1>1, <2>1 DEF Content, Part
  <2>3. parts' \in Content
    BY <1>1, <2>1 DEF Content
  <2>4. Gone'
    BY <2>1 DEF Gone
  <2>5. rev' # rev /\ rev <= rev' /\ rev' \in Nat
    BY <1>1, <2>1
  <2>. QED
    BY <2>1, <2>2, <2>3, <2>4, <2>5
<1>5. CASE Effect(o) /\ Removing
  <2>1. o = "edge" /\ exists' = FALSE /\ rev' = rev /\ parts' = Empty
    BY <1>5, EffectWrites
  <2>2. \A q \in Owner : q # o => pc[q] = "idle"
    BY <1>5, <2>1 DEF IInv, Alone
  <2>3. Gone'
    BY <2>1 DEF Gone, Empty
  <2>4. rev <= rev' /\ rev' \in Nat
    BY <1>1, <2>1
  <2>. QED
    BY <1>2, <2>1, <2>2, <2>3, <2>4
<1>. QED
  BY <1>3, <1>4, <1>5

-----------------------------------------------------------------------------
\* A step of an owner leaves what holds of the others as it is.
LEMMA OthersStaySound ==
    ASSUME IInv, ValueAssumption, NEW o \in Owner, NEW q \in Owner, q # o,
           Effect(o) \/ UNCHANGED service,
           faults' \in Nat, faults <= faults',
           pc'[q] = pc[q], want'[q] = want[q], seen'[q] = seen[q],
           attempts'[q] = attempts[q], since'[q] = since[q]
    PROVE  Sound(q)'
<1>1. Sound(q)
  BY DEF IInv
<1>2. /\ rev \in Nat /\ rev' \in Nat /\ rev <= rev' /\ faults \in Nat
      /\ attempts[q] \in Nat /\ since[q] \in Nat /\ seen[q].rev \in Nat
  BY ServiceMoves DEF IInv, TypeOK, Copy
<1>3. Role(q)'
  BY <1>1 DEF Sound, Role
<1>4. FreshCopy(q)'
  <2>1. pc[q] \in {"put", "gateway"} /\ rev' = rev => exists' = exists /\ parts' = parts
    BY ServiceMoves
  <2>. QED
    BY <1>1, <1>2, <2>1 DEF Sound, FreshCopy
<1>5. ReadsItsWrite(q)'
  <2>1. pc[q] = "read" => parts'[q] = parts[q]
    BY ServiceMoves
  <2>. QED
    BY <1>1, <2>1 DEF Sound, ReadsItsWrite
<1>6. Effort(q)'
  BY <1>1, <1>2 DEF Sound, Effort
<1>. QED
  BY <1>3, <1>4, <1>5, <1>6 DEF Sound

\* How an owner's variables change in one of its steps, whatever the call.
Frame(o) ==
    /\ pc' \in [Owner -> Calls \cup {"idle"}]
    /\ want' \in [Owner -> Value \cup {None}]
    /\ seen' \in [Owner -> Copy]
    /\ attempts' \in [Owner -> 0 .. MaxRetries]
    /\ since' \in [Owner -> Nat]
    /\ result' \in [Owner -> {"none", "ok", "error"}]
    /\ ops' \in 0 .. MaxOps
    /\ faults' \in 0 .. MaxFaults /\ faults <= faults'
    /\ \A q \in Owner : q # o =>
          /\ pc'[q] = pc[q] /\ want'[q] = want[q] /\ seen'[q] = seen[q]
          /\ attempts'[q] = attempts[q] /\ since'[q] = since[q]

\* What is left to show of a step.
LEMMA StepInv ==
    ASSUME IInv, ValueAssumption, NEW o \in Owner,
           Effect(o) \/ UNCHANGED service,
           Frame(o), Sound(o)', Alone'
    PROVE  IInv'
<1>1. faults' \in Nat
  BY DEF Frame, ValueAssumption
<1>2. \A q \in Owner : Sound(q)'
  BY <1>1, OthersStaySound DEF Frame
<1>3. TypeOK'
  BY ServiceMoves DEF Frame, TypeOK
<1>4. Gone'
  BY ServiceMoves
<1>. QED
  BY <1>2, <1>3, <1>4 DEF IInv

\* An operation that ends leaves nothing behind that could go wrong.
LEMMA EndSound ==
    ASSUME IInv, ValueAssumption, NEW o \in Owner, NEW how \in {"ok", "error"},
           End(o, how), Effect(o) \/ UNCHANGED service,
           ops' = ops, faults' \in 0 .. MaxFaults, faults <= faults'
    PROVE  Frame(o) /\ Sound(o)' /\ Alone'
<1>1. /\ rev \in Nat /\ rev' \in Nat /\ rev <= rev' /\ faults \in Nat /\ faults' \in Nat
      /\ attempts[o] \in Nat /\ since[o] \in Nat /\ attempts[o] + since[o] <= rev + faults
  BY ServiceMoves DEF IInv, TypeOK, Sound, Effort, ValueAssumption
<1>2. /\ pc' = [pc EXCEPT ![o] = "idle"]
      /\ attempts' = [attempts EXCEPT ![o] = 0]
      /\ seen' = [seen EXCEPT ![o] = NoCopy]
      /\ result' = [result EXCEPT ![o] = how]
      /\ UNCHANGED <<want, since>>
  BY DEF End, Goto
<1>3. NoCopy \in Copy
  BY DEF NoCopy, Copy, Content, Empty
<1>4. Frame(o)
  BY <1>2, <1>3 DEF Frame, IInv, TypeOK, ValueAssumption
<1>5. pc'[o] = "idle" /\ attempts'[o] = 0 /\ since'[o] = since[o]
  BY <1>2 DEF IInv, TypeOK
<1>6. Sound(o)'
  BY <1>1, <1>5 DEF Sound, Role, FreshCopy, ReadsItsWrite, Effort
<1>7. Alone'
  BY <1>2 DEF IInv, TypeOK, Alone, Removing, Owner
<1>. QED
  BY <1>4, <1>6, <1>7

\* Trying again takes an attempt that a change or a failed call has spoilt.
LEMMA AgainSound ==
    ASSUME IInv, ValueAssumption, NEW o \in Owner,
           pc[o] \in {"get", "put"}, Again(o), Effect(o) \/ UNCHANGED service,
           ops' = ops, faults' \in 0 .. MaxFaults, faults <= faults',
           attempts[o] + 1 + since[o] <= rev' + faults'
    PROVE  Frame(o) /\ Sound(o)' /\ Alone'
<1>1. CASE End(o, "error")
  BY <1>1, EndSound
<1>2. CASE ~LastTry(o) /\ ~End(o, "error")
  <2>1. /\ pc' = [pc EXCEPT ![o] = "get"]
        /\ attempts' = [attempts EXCEPT ![o] = @ + 1]
        /\ seen' = [seen EXCEPT ![o] = NoCopy]
        /\ UNCHANGED <<want, since, result>>
        /\ attempts[o] # MaxRetries
    BY <1>2 DEF Again, Goto, LastTry
  <2>2. NoCopy \in Copy
    BY DEF NoCopy, Copy, Content, Empty
  <2>3. attempts[o] + 1 \in 0 .. MaxRetries
    BY <2>1 DEF IInv, TypeOK, ValueAssumption
  <2>4. Frame(o)
    BY <2>1, <2>2, <2>3 DEF Frame, IInv, TypeOK, Calls
  <2>5. /\ pc'[o] = "get" /\ attempts'[o] = attempts[o] + 1
        /\ since'[o] = since[o] /\ want'[o] = want[o]
    BY <2>1 DEF IInv, TypeOK
  <2>6. Role(o)'
    BY <2>5 DEF IInv, Sound, Role
  <2>7. Effort(o)'
    BY <2>5 DEF Effort
  <2>8. Sound(o)'
    BY <2>5, <2>6, <2>7 DEF Sound, FreshCopy, ReadsItsWrite
  <2>9. Alone'
    <3>1. o # "edge"
      BY DEF IInv, Sound, Role
    <3>2. \A q \in Owner : pc'[q] = "idle" <=> pc[q] = "idle"
      BY <2>1 DEF IInv, TypeOK
    <3>. QED
      BY <3>1, <3>2, <2>1 DEF IInv, Alone, Removing, Owner
  <2>. QED
    BY <2>4, <2>8, <2>9
<1>. QED
  BY <1>1, <1>2 DEF Again

\* A step to the next call, which counts no attempt, writes no part, and reads
\* the service at most.
LEMMA MoveSound ==
    ASSUME IInv, ValueAssumption, NEW o \in Owner, NEW label \in Calls,
           pc[o] # "idle", pc' = [pc EXCEPT ![o] = label],
           Effect(o) \/ UNCHANGED service,
           UNCHANGED <<want, attempts, since, result, ops, faults>>,
           seen' \in [Owner -> Copy],
           \A q \in Owner : q # o => seen'[q] = seen[q],
           Role(o)', FreshCopy(o)', ReadsItsWrite(o)',
           label = "put" => seen'[o].rev = rev
    PROVE  IInv'
<1>1. Frame(o)
  <2>1. TypeOK
    BY DEF IInv
  <2>2. pc' \in [Owner -> Calls \cup {"idle"}]
    BY <2>1 DEF TypeOK
  <2>3. faults <= faults'
    BY <2>1 DEF TypeOK, ValueAssumption
  <2>4. \A q \in Owner : q # o => pc'[q] = pc[q]
    BY <2>1 DEF TypeOK
  <2>. QED
    BY <2>1, <2>2, <2>3, <2>4 DEF Frame, TypeOK
<1>2. pc'[o] = label
  BY DEF IInv, TypeOK
<1>3. /\ rev \in Nat /\ rev' \in Nat /\ rev <= rev' /\ faults \in Nat
      /\ attempts[o] \in Nat /\ since[o] \in Nat /\ attempts[o] + since[o] <= rev + faults
  BY ServiceMoves DEF IInv, TypeOK, Sound, Effort
<1>4. Effort(o)'
  BY <1>2, <1>3 DEF Effort, Calls
<1>5. Alone'
  <2>1. \A q \in Owner : pc'[q] = "idle" <=> pc[q] = "idle"
    BY DEF IInv, TypeOK, Calls
  <2>. QED
    BY <2>1 DEF IInv, Alone, Removing, Owner
<1>. QED
  BY <1>1, <1>4, <1>5, StepInv DEF Sound

-----------------------------------------------------------------------------
\* The steps of an operation.

LEMMA BeginStep ==
    ASSUME IInv, ValueAssumption, NEW o \in Owner, Begin(o)
    PROVE  IInv'
<1>1. PICK v \in Value \cup {None}, label \in Calls :
          /\ o = "edge" /\ v = None => \A q \in Owner : pc[q] = "idle"
          /\ want' = [want EXCEPT ![o] = v]
          /\ FirstCall(o, v, label)
          /\ pc' = [pc EXCEPT ![o] = label]
  BY DEF Begin, Goto
<1>2. /\ pc[o] = "idle" /\ ~Removing /\ ops < MaxOps
      /\ since' = [since EXCEPT ![o] = rev]
      /\ result' = [result EXCEPT ![o] = "none"]
      /\ ops' = ops + 1
      /\ UNCHANGED <<service, seen, attempts, faults>>
  BY DEF Begin
<1>3. Frame(o)
  BY <1>1, <1>2 DEF Frame, IInv, TypeOK, ValueAssumption
<1>4. /\ pc'[o] = label /\ want'[o] = v /\ since'[o] = rev
      /\ attempts'[o] = attempts[o] /\ rev' = rev /\ faults' = faults
  BY <1>1, <1>2 DEF IInv, TypeOK, service
<1>5. attempts[o] = 0
  BY <1>2 DEF IInv, Sound, Effort
<1>6. Sound(o)'
  BY <1>4, <1>5, <1>1 DEF Sound, Role, FreshCopy, ReadsItsWrite, Effort, FirstCall, IInv, TypeOK
<1>7. Alone'
  BY <1>1, <1>2 DEF IInv, TypeOK, Alone, Removing, Owner, Calls
<1>. QED
  BY <1>2, <1>3, <1>6, <1>7, StepInv

LEMMA FindStep ==
    ASSUME IInv, ValueAssumption, NEW o \in Owner, Find(o)
    PROVE  IInv'
<1>1. pc[o] = "find" /\ UNCHANGED <<service, ops, faults>>
  BY DEF Find
<1>2. CASE End(o, "error")
  <2>1. faults' \in 0 .. MaxFaults /\ faults <= faults'
    BY <1>1 DEF IInv, TypeOK, ValueAssumption
  <2>. QED
    BY <1>1, <1>2, <2>1, EndSound, StepInv
<1>3. CASE pc' = [pc EXCEPT ![o] = "patch"] /\ UNCHANGED <<want, seen, attempts, since, result>>
  <2>1. pc'[o] = "patch"
    BY <1>3 DEF IInv, TypeOK
  <2>2. Role(o)' /\ FreshCopy(o)' /\ ReadsItsWrite(o)'
    BY <1>1, <1>3, <2>1 DEF IInv, Sound, Role, FreshCopy, ReadsItsWrite
  <2>3. "patch" \in Calls /\ seen' \in [Owner -> Copy]
    BY <1>3 DEF Calls, IInv, TypeOK
  <2>. QED
    BY <1>1, <1>3, <2>2, <2>3, MoveSound
<1>. QED
  BY <1>2, <1>3 DEF Find, Goto

\* Reading gives a copy with the current revision.
LEMMA ReadGives ==
    ASSUME IInv, NEW o \in Owner, ReadService(o), UNCHANGED service
    PROVE  /\ seen' \in [Owner -> Copy]
           /\ \A q \in Owner : q # o => seen'[q] = seen[q]
           /\ seen'[o].rev = rev
           /\ seen'[o].exists = exists
           /\ seen'[o].exists /\ seen'[o].rev = rev' => exists' = exists /\ parts' = seen'[o].parts
           /\ seen'[o].rev <= rev'
<1>1. [exists |-> exists, rev |-> rev, parts |-> parts] \in Copy
  BY DEF IInv, TypeOK, Copy
<1>2. seen' = [seen EXCEPT ![o] = [exists |-> exists, rev |-> rev, parts |-> parts]]
  BY DEF ReadService
<1>3. exists' = exists /\ rev' = rev /\ parts' = parts /\ rev \in Nat
  BY DEF service, IInv, TypeOK
<1>4. seen'[o] = [exists |-> exists, rev |-> rev, parts |-> parts]
  BY <1>2 DEF IInv, TypeOK
<1>. QED
  BY <1>1, <1>2, <1>3, <1>4 DEF IInv, TypeOK

LEMMA GetStep ==
    ASSUME IInv, ValueAssumption, NEW o \in Owner, Get(o)
    PROVE  IInv'
<1>1. pc[o] = "get" /\ UNCHANGED <<service, ops, faults>>
  BY DEF Get
<1>2. CASE End(o, "ok")
  <2>1. faults' \in 0 .. MaxFaults /\ faults <= faults'
    BY <1>1 DEF IInv, TypeOK, ValueAssumption
  <2>. QED
    BY <1>1, <1>2, <2>1, EndSound, StepInv
<1>3. CASE /\ exists
           /\ ReadService(o)
           /\ pc' = [pc EXCEPT ![o] = "put"]
           /\ UNCHANGED <<want, attempts, since, result>>
  <2>1. pc'[o] = "put"
    BY <1>3 DEF IInv, TypeOK
  <2>2. Role(o)' /\ FreshCopy(o)' /\ ReadsItsWrite(o)'
    BY <1>1, <1>3, <2>1, ReadGives DEF IInv, Sound, Role, FreshCopy, ReadsItsWrite
  <2>. QED
    BY <1>1, <1>3, <2>2, ReadGives, MoveSound DEF Calls
<1>. QED
  BY <1>2, <1>3 DEF Get, Goto

LEMMA ListStep ==
    ASSUME IInv, ValueAssumption, NEW o \in Owner, List(o)
    PROVE  IInv'
<1>1. pc[o] = "list" /\ UNCHANGED <<service, ops, faults>>
  BY DEF List
<1>2. CASE End(o, "error")
  <2>1. faults' \in 0 .. MaxFaults /\ faults <= faults'
    BY <1>1 DEF IInv, TypeOK, ValueAssumption
  <2>. QED
    BY <1>1, <1>2, <2>1, EndSound, StepInv
<1>3. CASE /\ ReadService(o)
           /\ pc' = [pc EXCEPT ![o] = "gateway"]
           /\ UNCHANGED <<want, attempts, since, result>>
  <2>1. pc'[o] = "gateway"
    BY <1>3 DEF IInv, TypeOK
  <2>2. Role(o)' /\ FreshCopy(o)' /\ ReadsItsWrite(o)'
    BY <1>1, <1>3, <2>1, ReadGives DEF IInv, Sound, Role, FreshCopy, ReadsItsWrite
  <2>. QED
    BY <1>1, <1>3, <2>2, ReadGives, MoveSound DEF Calls
<1>. QED
  BY <1>2, <1>3 DEF List, Goto

LEMMA WriteStep ==
    ASSUME IInv, ValueAssumption, NEW o \in Owner, Write(o)
    PROVE  IInv'
<1>1. Effect(o) /\ UNCHANGED <<ops, faults>>
  BY DEF Write
<1>2. pc[o] \in {"patch", "put", "gateway"}
  BY <1>1 DEF Effect
<1>3. CASE End(o, "ok")
  <2>1. faults' \in 0 .. MaxFaults /\ faults <= faults'
    BY <1>1 DEF IInv, TypeOK, ValueAssumption
  <2>. QED
    BY <1>1, <1>3, <2>1, EndSound, StepInv
<1>4. CASE pc' = [pc EXCEPT ![o] = "read"] /\ UNCHANGED <<want, seen, attempts, since, result>>
  <2>1. pc'[o] = "read" /\ want'[o] = want[o]
    BY <1>4 DEF IInv, TypeOK
  <2>2. parts'[o] = want[o]
    <3>1. CASE ~Removing
      <4>1. parts' = [parts EXCEPT ![o] = want[o]]
        BY <1>1, <3>1, EffectWrites
      <4>. QED
        BY <4>1 DEF IInv, TypeOK, Content, Part
    <3>2. CASE Removing
      <4>1. o = "edge" /\ parts' = Empty
        BY <1>1, <3>2, EffectWrites
      <4>. QED
        BY <3>2, <4>1 DEF Removing, Empty, Part, Owner
    <3>. QED
      BY <3>1, <3>2
  <2>3. Role(o)' /\ FreshCopy(o)' /\ ReadsItsWrite(o)'
    BY <2>1, <2>2 DEF Role, FreshCopy, ReadsItsWrite
  <2>4. "read" \in Calls /\ seen' \in [Owner -> Copy]
    BY <1>4 DEF Calls, IInv, TypeOK
  <2>. QED
    BY <1>1, <1>2, <1>4, <2>3, <2>4, MoveSound
<1>. QED
  BY <1>3, <1>4 DEF Write, Goto

LEMMA RefusedStep ==
    ASSUME IInv, ValueAssumption, NEW o \in Owner, Refused(o)
    PROVE  IInv'
<1>1. UNCHANGED <<service, ops, faults>>
  BY DEF Refused
<1>2. faults' \in 0 .. MaxFaults /\ faults <= faults'
  BY <1>1 DEF IInv, TypeOK, ValueAssumption
<1>3. CASE End(o, "error")
  BY <1>1, <1>2, <1>3, EndSound, StepInv
<1>4. CASE pc[o] = "put" /\ seen[o].rev # rev /\ Again(o)
  <2>1. /\ seen[o].rev \in Nat /\ rev \in Nat /\ faults \in Nat
        /\ attempts[o] \in Nat /\ since[o] \in Nat
    BY DEF IInv, TypeOK, Copy
  <2>2. seen[o].rev <= rev /\ attempts[o] + since[o] <= seen[o].rev + faults
    BY <1>4 DEF IInv, Sound, FreshCopy, Effort
  <2>3. attempts[o] + 1 + since[o] <= rev' + faults'
    BY <1>1, <1>4, <2>1, <2>2 DEF service
  <2>. QED
    BY <1>1, <1>2, <1>4, <2>3, AgainSound, StepInv
<1>. QED
  BY <1>3, <1>4 DEF Refused

LEMMA ReadBackStep ==
    ASSUME IInv, ValueAssumption, NEW o \in Owner, ReadBack(o)
    PROVE  IInv'
<1>1. End(o, "ok") /\ UNCHANGED <<service, ops, faults>>
  BY DEF ReadBack
<1>2. faults' \in 0 .. MaxFaults /\ faults <= faults'
  BY <1>1 DEF IInv, TypeOK, ValueAssumption
<1>. QED
  BY <1>1, <1>2, EndSound, StepInv

LEMMA CallFailsStep ==
    ASSUME IInv, ValueAssumption, NEW o \in Owner, CallFails(o)
    PROVE  IInv'
<1>1. /\ UNCHANGED service \/ Effect(o)
      /\ ops' = ops /\ faults' = faults + 1 /\ faults < MaxFaults
  BY DEF CallFails
<1>2. faults' \in 0 .. MaxFaults /\ faults <= faults'
  BY <1>1 DEF IInv, TypeOK, ValueAssumption
<1>3. CASE End(o, "error")
  BY <1>1, <1>2, <1>3, EndSound, StepInv
<1>4. CASE pc[o] \in {"get", "put"} /\ Again(o)
  <2>1. /\ rev \in Nat /\ rev' \in Nat /\ rev <= rev' /\ faults \in Nat
        /\ attempts[o] \in Nat /\ since[o] \in Nat
    BY <1>1, ServiceMoves DEF IInv, TypeOK
  <2>2. attempts[o] + since[o] <= rev + faults
    BY DEF IInv, Sound, Effort
  <2>3. attempts[o] + 1 + since[o] <= rev' + faults'
    BY <1>1, <2>1, <2>2
  <2>. QED
    BY <1>1, <1>2, <1>4, <2>3, AgainSound, StepInv
<1>. QED
  BY <1>3, <1>4 DEF CallFails

\* A change by somebody else makes every copy stale.
LEMMA OtherUserStep ==
    ASSUME IInv, ValueAssumption, OtherUser
    PROVE  IInv'
<1>1. PICK v \in Value : parts' = [parts EXCEPT !["other"] = v]
  BY DEF OtherUser
<1>2. /\ exists /\ exists' = exists /\ rev' = rev + 1
      /\ ops < MaxOps /\ ops' = ops + 1
      /\ UNCHANGED <<pc, want, seen, attempts, since, result, faults>>
  BY DEF OtherUser, operation
<1>3. /\ rev \in Nat /\ faults \in Nat /\ parts \in Content
      /\ \A o \in Owner : seen[o].rev \in Nat /\ attempts[o] \in Nat /\ since[o] \in Nat
  BY DEF IInv, TypeOK, Copy
<1>4. TypeOK'
  <2>1. parts' \in Content
    BY <1>1, <1>3 DEF Content
  <2>2. ops' \in 0 .. MaxOps
    BY <1>2 DEF IInv, TypeOK, ValueAssumption
  <2>. QED
    BY <1>2, <2>1, <2>2 DEF IInv, TypeOK
<1>5. ASSUME NEW o \in Owner
      PROVE  Sound(o)'
  <2>1. Sound(o)
    BY DEF IInv
  <2>2. parts'[o] = parts[o]
    BY <1>1, <1>3 DEF Content, Part, Owner
  <2>3. Role(o)' /\ ReadsItsWrite(o)'
    BY <1>2, <2>1, <2>2 DEF Sound, Role, ReadsItsWrite
  <2>4. FreshCopy(o)'
    BY <1>2, <1>3, <2>1 DEF Sound, FreshCopy
  <2>5. Effort(o)'
    BY <1>2, <1>3, <2>1 DEF Sound, Effort
  <2>. QED
    BY <2>3, <2>4, <2>5 DEF Sound
<1>6. Alone' /\ Gone'
  BY <1>2 DEF IInv, Alone, Removing, Gone
<1>. QED
  BY <1>4, <1>5, <1>6 DEF IInv

-----------------------------------------------------------------------------
LEMMA InitInv ==
    ASSUME ValueAssumption, Init
    PROVE  IInv
<1>1. parts \in Content
  BY DEF Init, Empty, Content
<1>2. NoCopy \in Copy
  BY DEF NoCopy, Copy, Content, Empty
<1>3. TypeOK
  BY <1>1, <1>2 DEF Init, TypeOK, ValueAssumption
<1>4. \A o \in Owner : Sound(o)
  BY DEF Init, Sound, Role, FreshCopy, ReadsItsWrite, Effort
<1>5. Alone /\ Gone
  BY DEF Init, Alone, Gone, Removing, Owner
<1>. QED
  BY <1>3, <1>4, <1>5 DEF IInv

LEMMA InvStep ==
    ASSUME IInv, ValueAssumption, [Next]_vars
    PROVE  IInv'
<1>1. ASSUME NEW o \in Owner, Step(o)
      PROVE  IInv'
  BY <1>1, BeginStep, FindStep, GetStep, ListStep, WriteStep, RefusedStep,
     ReadBackStep, CallFailsStep DEF Step
<1>2. CASE OtherUser
  BY <1>2, OtherUserStep
<1>3. CASE UNCHANGED vars
  BY <1>3 DEF vars, service, operation, IInv, TypeOK, Sound, Role, FreshCopy,
              ReadsItsWrite, Effort, Alone, Removing, Gone
<1>. QED
  BY <1>1, <1>2, <1>3 DEF Next, Quiescent

LEMMA Invariance == Spec => []IInv
<1>1. Init => IInv
  BY InitInv, ValueAssumption
<1>2. IInv /\ [Next]_vars => IInv'
  BY InvStep, ValueAssumption
<1>. QED
  BY <1>1, <1>2, PTL DEF Spec

-----------------------------------------------------------------------------
\* Every variable keeps its type; in particular an operation never tries more
\* often than max_retries allows (retryUponPreconditionFailed).
THEOREM TypeCorrect == Spec => []TypeOK
<1>1. IInv => TypeOK
  BY DEF IInv
<1>. QED
  BY <1>1, Invariance, PTL

\* A deletion that gives up on a stale revision has met more changes and failed
\* calls than max_retries, whatever the value of max_retries.
THEOREM GivesUpUnderContention == Spec => GivesUpOnlyUnderContention
<1>1. ASSUME IInv, [Next]_vars, NEW o \in Owner, GivesUp(o)
      PROVE  rev - since[o] + faults > MaxRetries
  <2>1. /\ seen[o].rev \in Nat /\ rev \in Nat /\ faults \in Nat
        /\ attempts[o] \in Nat /\ since[o] \in Nat
    BY <1>1 DEF IInv, TypeOK, Copy
  <2>2. pc[o] = "put" /\ pc'[o] = "idle" /\ result'[o] = "error" /\ faults' = faults
    BY <1>1 DEF GivesUp
  <2>3. seen[o].rev # rev /\ Again(o)
    <3>1. ASSUME NEW q \in Owner, Step(q)
          PROVE  q = o /\ Refused(q)
      <4>1. q = o
        BY <1>1, <2>2, <3>1 DEF Step, Begin, Find, Get, List, Write, Refused, ReadBack,
           CallFails, End, Again, Goto, IInv, TypeOK
      <4>2. ~Write(q)
        BY <1>1, <2>2, <4>1 DEF Write, End, IInv, TypeOK
      <4>3. ~CallFails(q)
        BY <2>1, <2>2 DEF CallFails
      <4>. QED
        BY <2>2, <3>1, <4>1, <4>2, <4>3 DEF Step, Begin, Find, Get, List, ReadBack
    <3>2. ~OtherUser /\ ~UNCHANGED vars
      BY <2>2 DEF OtherUser, vars, operation
    <3>. QED
      BY <1>1, <2>2, <3>1, <3>2 DEF Next, Quiescent, Refused
  <2>4. attempts[o] = MaxRetries
    BY <2>2, <2>3, <1>1 DEF Again, LastTry, Goto, IInv, TypeOK
  <2>5. seen[o].rev <= rev /\ attempts[o] + since[o] <= seen[o].rev + faults
    BY <1>1, <2>2 DEF IInv, Sound, FreshCopy, Effort
  <2>. QED
    BY <2>1, <2>3, <2>4, <2>5, ValueAssumption
<1>2. IInv /\ [Next]_vars => \A o \in Owner : GivesUp(o) => rev - since[o] + faults > MaxRetries
  BY <1>1
<1>. QED
  BY <1>2, Invariance, PTL DEF Spec, GivesUpOnlyUnderContention

-----------------------------------------------------------------------------
\* Refinement: PartRegisters sees the parts, and which operations run.

Running == {o \in Owner : pc[o] # "idle"}

LEMMA RunningMoves ==
    ASSUME TypeOK, NEW o \in Owner, NEW label, pc' = [pc EXCEPT ![o] = label]
    PROVE  Running' = IF label = "idle" THEN Running \ {o} ELSE Running \cup {o}
BY DEF TypeOK, Running

\* The effect of a call is the abstract write.
LEMMA EffectIsWritten ==
    ASSUME IInv, ValueAssumption, NEW o \in Owner, Effect(o)
    PROVE  parts' = Registers!Written(o)
<1>1. CASE ~Removing
  <2>1. ~(o = "edge" /\ want[o] = None)
    BY <1>1 DEF Effect, Removing
  <2>. QED
    BY <1>1, <2>1, EffectWrites DEF Registers!Written
<1>2. CASE Removing
  BY <1>2, EffectWrites DEF Removing, Registers!Written, Registers!Empty, Empty
<1>. QED
  BY <1>1, <1>2

\* A step that only moves an operation on is a stutter.
LEMMA MoveStutters ==
    ASSUME IInv, NEW o \in Owner, NEW label \in Calls, pc[o] # "idle",
           pc' = [pc EXCEPT ![o] = label], UNCHANGED <<parts, want, result>>
    PROVE  UNCHANGED <<parts, want, Running, result>>
<1>1. Running' = Running
  BY RunningMoves DEF IInv, Calls, Running
<1>. QED
  BY <1>1

\* An operation that ends without an effect succeeds with its part as wanted,
\* or fails.
LEMMA EndRefines ==
    ASSUME IInv, NEW o \in Owner, NEW how \in {"ok", "error"}, pc[o] # "idle",
           End(o, how), UNCHANGED parts, how = "ok" => parts[o] = want[o]
    PROVE  Registers!Succeed(o) \/ Registers!Fail(o)
<1>1. Running' = Running \ {o} /\ o \in Running
  BY RunningMoves DEF IInv, End, Goto, Running
<1>2. result' = [result EXCEPT ![o] = how] /\ UNCHANGED <<parts, want>>
  BY DEF End
<1>. QED
  BY <1>1, <1>2 DEF Registers!Succeed, Registers!Fail, Running

\* A call that takes effect writes; the operation goes on or ends.
LEMMA EffectRefines ==
    ASSUME IInv, ValueAssumption, NEW o \in Owner, Effect(o),
           \/ \E label \in Calls : /\ pc' = [pc EXCEPT ![o] = label]
                                   /\ UNCHANGED <<want, result>>
           \/ \E how \in {"ok", "error"} : End(o, how)
    PROVE  Registers!Write(o)
<1>1. o \in Running
  BY DEF Effect, Running
<1>2. parts' = Registers!Written(o)
  BY EffectIsWritten
<1>3. CASE \E label \in Calls : /\ pc' = [pc EXCEPT ![o] = label]
                                /\ UNCHANGED <<want, result>>
  <2>1. PICK label \in Calls : pc' = [pc EXCEPT ![o] = label] /\ UNCHANGED <<want, result>>
    BY <1>3
  <2>2. label # "idle"
    BY DEF Calls
  <2>3. Running' = Running \cup {o}
    BY <2>1, <2>2, RunningMoves DEF IInv
  <2>4. Running' = Running
    BY <1>1, <2>3
  <2>. QED
    BY <1>1, <1>2, <2>1, <2>4 DEF Registers!Write, Running
<1>4. CASE \E how \in {"ok", "error"} : End(o, how)
  <2>1. Running' = Running \ {o}
    BY <1>4, RunningMoves DEF IInv, End, Goto
  <2>2. (\E r \in {"ok", "error"} : result' = [result EXCEPT ![o] = r]) /\ UNCHANGED want
    BY <1>4 DEF End
  <2>. QED
    BY <1>1, <1>2, <2>1, <2>2 DEF Registers!Write, Running
<1>. QED
  BY <1>3, <1>4

LEMMA StepRefines ==
    ASSUME IInv, ValueAssumption, NEW o \in Owner, Step(o)
    PROVE  [Registers!Next]_<<parts, want, Running, result>>
<1>1. CASE Begin(o)
  <2>1. PICK v \in Value \cup {None}, label \in Calls :
            want' = [want EXCEPT ![o] = v] /\ pc' = [pc EXCEPT ![o] = label]
    BY <1>1 DEF Begin, Goto
  <2>2. /\ o \notin Running /\ Running' = Running \cup {o}
        /\ result' = [result EXCEPT ![o] = "none"] /\ UNCHANGED parts
    BY <1>1, <2>1, RunningMoves DEF Begin, service, Running, IInv, Calls
  <2>. QED
    BY <2>1, <2>2 DEF Registers!Begin, Registers!Next, Running
<1>2. CASE Find(o)
  <2>1. pc[o] = "find" /\ UNCHANGED parts
    BY <1>2 DEF Find, service
  <2>. QED
    BY <1>2, <2>1, MoveStutters, EndRefines DEF Find, Goto, Calls, Registers!Next
<1>3. CASE Get(o)
  <2>1. pc[o] = "get" /\ UNCHANGED parts
    BY <1>3 DEF Get, service
  <2>2. ~exists => parts[o] = want[o]
    BY <2>1 DEF IInv, Gone, Empty, Part, Sound, Role
  <2>. QED
    BY <1>3, <2>1, <2>2, MoveStutters, EndRefines DEF Get, Goto, Calls, Registers!Next
<1>4. CASE List(o)
  <2>1. pc[o] = "list" /\ UNCHANGED parts
    BY <1>4 DEF List, service
  <2>. QED
    BY <1>4, <2>1, MoveStutters, EndRefines DEF List, Goto, Calls, Registers!Next
<1>5. CASE Write(o)
  BY <1>5, EffectRefines DEF Write, Goto, Calls, Registers!Next
<1>6. ASSUME UNCHANGED parts, pc[o] # "idle", End(o, "error") \/ Again(o)
      PROVE  [Registers!Next]_<<parts, want, Running, result>>
  BY <1>6, MoveStutters, EndRefines DEF Again, Goto, Calls, Registers!Next
<1>7. CASE Refused(o)
  BY <1>6, <1>7 DEF Refused, service
<1>8. CASE ReadBack(o)
  <2>1. pc[o] = "read" /\ parts[o] = want[o] /\ UNCHANGED parts /\ End(o, "ok")
    BY <1>8 DEF ReadBack, service, IInv, Sound, ReadsItsWrite
  <2>. QED
    BY <2>1, EndRefines DEF Registers!Next
<1>9. CASE CallFails(o)
  <2>1. CASE UNCHANGED service
    BY <1>6, <1>9, <2>1 DEF CallFails, service
  <2>2. CASE Effect(o)
    BY <1>9, <2>2, EffectRefines DEF CallFails, Again, Goto, Calls, Registers!Next
  <2>. QED
    BY <1>9, <2>1, <2>2 DEF CallFails
<1>. QED
  BY <1>1, <1>2, <1>3, <1>4, <1>5, <1>7, <1>8, <1>9 DEF Step

\* LocaleService implements PartRegisters: each part of a locale service is a
\* register of its owner, whatever the other resources, other users and failed
\* calls do meanwhile.
THEOREM Refinement == Spec => PartsAreRegisters
<1>1. Init => Registers!Init
  BY DEF Init, Registers!Init, Registers!Empty, Empty
<1>2. IInv /\ [Next]_vars => [Registers!Next]_Registers!vars
  <2>. SUFFICES ASSUME IInv, [Next]_vars
                PROVE  [Registers!Next]_<<parts, want, Running, result>>
    BY DEF Registers!vars, Running
  <2>1. ASSUME NEW o \in Owner, Step(o)
        PROVE  [Registers!Next]_<<parts, want, Running, result>>
    BY <2>1, StepRefines, ValueAssumption
  <2>2. CASE OtherUser
    BY <2>2 DEF OtherUser, operation, Registers!Other, Registers!Next, Part, Owner
  <2>3. CASE UNCHANGED vars
    BY <2>3 DEF vars, service, operation, Running
  <2>. QED
    BY <2>1, <2>2, <2>3 DEF Next, Quiescent
<1>. QED
  BY <1>1, <1>2, Invariance, PTL DEF Spec, PartsAreRegisters, Registers!Spec
=============================================================================
