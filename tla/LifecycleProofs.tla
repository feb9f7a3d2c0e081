-------------------------- MODULE LifecycleProofs --------------------------
(***************************************************************************)
(* Proofs about Lifecycle for every set of profiles, any values, and any   *)
(* number of retries, faults, other users and changes of the               *)
(* configuration.                                                          *)
(***************************************************************************)
EXTENDS Lifecycle, TLAPS

-----------------------------------------------------------------------------
(***************************************************************************)
(* The inductive invariant: what each call of the functions can rely on.   *)
(***************************************************************************)

\* Create runs without a resource in the state, the others with one.
Creating == {"import", "check", "create", "second", "undo", "readCreated"}
Changing == {"update", "clear", "readUpdated"}
Deleting == {"wait", "getPart", "delete", "gone"}

ControlOK ==
    /\ pc \in Creating => state = Absent
    /\ pc \in Changing \cup Deleting \cup {"refresh"} => state # Absent
    /\ pc \in Creating \cup Changing \cup {"get"} => want # None
    /\ pc \in Changing \cup {"get"} /\ state # Absent => ~state.tainted
    /\ pc = "clear" => kind.second = "clear"
    /\ refused => pc = "clear"

\* What the object holds has been held, and the call after a write that was
\* accepted finds that the object has held what was wanted.
HeldOK ==
    /\ None \in held
    /\ object # Absent => object.val \in held
    /\ pc \in {"second", "readCreated", "readUpdated"} => want \in held
    /\ pc = "clear" /\ ~refused => want \in held

\* An object that Terraform has created is in the state or is about to be.
\* An object without a fixed name is Terraform's, if there is one.
OriginOK ==
    /\ object # Absent /\ object.origin = "ours" =>
          /\ ~Attached
          /\ state = Absent =>
                pc \in {"second", "undo", "readCreated"} \/ (pc = "create" /\ tries > 0)
    /\ object # Absent /\ ~named => object.origin = "ours"
    /\ Attached => named
    /\ pc = "get" /\ state = Absent => ~(kind.checked /\ named)
    /\ pc = "create" /\ kind.checked /\ ~Attached /\ object # Absent =>
          object.origin \in {"ours", "during"}

\* A revision is behind an object if it is not ahead of what was seen of it, and
\* older than what others have made of it since.
Behind(revision, o) ==
    o # Absent =>
        /\ o.seen = "current" => revision <= o.rev
        /\ o.seen = "outdated" => revision < o.rev

\* The revision that is sent is behind the object, unless nobody has seen it: it
\* is not the object that the resource was created with.
SeenOK ==
    /\ Behind(0, object)
    /\ pc \in {"get", "getPart"} => kind.update # "revised"
    /\ kind.update = "revised" /\ kind.second # "clear" /\ state # Absent =>
          Behind(state.rev, object)
    /\ kind.update = "reread" /\ pc = "update" => Behind(fetched, object)
    /\ Attached /\ object # Absent /\ (state # Absent \/ pc \in {"second", "readCreated"}) =>
          object.seen # "never"

\* After a refresh, and with nobody else there, the state has what the object
\* holds, and the calls after a write find what is wanted.
Undisturbed == refreshed /\ ~disturbed /\ kind.forgets # "any"

InStep == object # Absent /\ object.val = state.val

MatchOK ==
    Undisturbed =>
        /\ pc = "plan" /\ state # Absent => InStep
        /\ pc \in {"readCreated", "readUpdated", "second"} /\ object # Absent =>
              object.val = want
        /\ pc = "clear" /\ ~refused /\ object # Absent => object.val = want

\* The hidden argument of an object o: if the state can be relied on, it is what the
\* state says, if the state says anything, but for an Update under way, which may have
\* given it that of the configuration; and after a write it is the latter.
SecretOf(o) ==
    kind.hides # "nothing" /\ ~doubt /\ o # Absent /\ o.secret # None =>
        /\ state # Absent /\ pc # "readUpdated" =>
              \/ state.secret \in {None, o.secret}
              \/ pc = "update" /\ o.secret = secret
        /\ pc \in {"second", "readCreated", "readUpdated"} => o.secret = secret

SecretOK == SecretOf(object)

IInv == TypeOK /\ ControlOK /\ HeldOK /\ StateNeverAhead /\ OriginOK /\ SeenOK
          /\ SecretOK /\ MatchOK /\ OkMeansApplied

-----------------------------------------------------------------------------
\* The constants.
LEMMA Constants ==
    /\ None \notin Value /\ None \notin Secret /\ FirstSecrets \subseteq Secret
    /\ Absent \notin Object /\ Absent \notin Resource
    /\ MaxRetries \in Nat /\ MaxFaults \in Nat /\ MaxOthers \in Nat /\ MaxEdits \in Nat
BY LifecycleAssumption, AbsentAssumption

LEMMA KindFacts ==
    ASSUME TypeOK
    PROVE  /\ kind \in Profile
           /\ kind.delete # "delete" => kind.names = "place"
           /\ kind.forgets = "any" => Attached /\ kind.update = "patch" /\ ~Partial
           /\ kind.hides # "nothing" =>
                 ~Attached /\ kind.readBack /\ kind.second # "clear" /\ ~kind.halves
BY LifecycleAssumption, KindsAssumption DEF TypeOK, Attached, Partial

\* The hidden arguments.
LEMMA HiddenTypes ==
    ASSUME TypeOK
    PROVE  /\ Hideable \subseteq Hidden
           /\ secret \in Hidden
           /\ kind.hides # "nothing" => secret # None
           /\ state # Absent => state.secret \in Hidden
           /\ object # Absent => object.secret \in Hidden
BY Constants DEF TypeOK, Hideable, Hidden, Resource, Object

\* An object, written; the prover wants the fields one by one.
LEMMA WithRev ==
    ASSUME NEW o \in Object, NEW r \in Nat
    PROVE  [o EXCEPT !.rev = r] \in Object
BY DEF Object

LEMMA WithVal ==
    ASSUME NEW o \in Object, NEW v \in Content
    PROVE  [o EXCEPT !.val = v] \in Object
BY DEF Object

LEMMA WithSeen ==
    ASSUME NEW o \in Object, NEW s \in {"never", "current", "outdated"}
    PROVE  [o EXCEPT !.seen = s] \in Object
BY DEF Object

LEMMA WithSecret ==
    ASSUME NEW o \in Object, NEW h \in Hidden
    PROVE  [o EXCEPT !.secret = h] \in Object
BY DEF Object

LEMMA ChangedObject ==
    ASSUME NEW o \in Object, NEW v \in Content, NEW h \in Hidden,
           NEW s \in {"never", "current", "outdated"}
    PROVE  LET w == [o EXCEPT !.rev = @ + 1, !.val = v, !.secret = h, !.seen = s]
           IN  /\ w \in Object
               /\ w.rev = o.rev + 1 /\ w.val = v /\ w.origin = o.origin
               /\ w.secret = h /\ w.seen = s
<1> DEFINE o1 == [o EXCEPT !.rev = o.rev + 1]
           o2 == [o1 EXCEPT !.val = v]
           o3 == [o2 EXCEPT !.secret = h]
           o4 == [o3 EXCEPT !.seen = s]
<1>1. o.rev + 1 \in Nat
  BY DEF Object
<1>2. o1 \in Object
  BY <1>1, WithRev
<1>3. o2 \in Object
  BY <1>2, WithVal
<1>4. o3 \in Object
  BY <1>3, WithSecret
<1>5. o4 \in Object
  BY <1>4, WithSeen
<1>6. LET w == [o EXCEPT !.rev = @ + 1, !.val = v, !.secret = h, !.seen = s]
      IN  /\ w.rev = o.rev + 1 /\ w.val = v /\ w.origin = o.origin
          /\ w.secret = h /\ w.seen = s
  BY DEF Object
<1> QED  BY <1>5, <1>6

\* The object, written; a write that sends the hidden argument gives it that of the
\* configuration.
LEMMA WrittenObject ==
    ASSUME TypeOK, object # Absent, NEW v \in Content
    PROVE  /\ Written(v) \in Object
           /\ Written(v).rev = object.rev + 1 /\ Written(v).val = v
           /\ Written(v).origin = object.origin /\ Written(v).seen = "current"
           /\ Written(v).secret = IF Sends THEN secret ELSE object.secret
<1>1. object \in Object
  BY DEF TypeOK
<1>2. PICK h \in Hidden : h = IF Sends THEN secret ELSE object.secret
  BY HiddenTypes
<1>3. PICK s \in {"never", "current", "outdated"} : s = "current"
  OBVIOUS
<1>4. Written(v) = [object EXCEPT !.rev = @ + 1, !.val = v, !.secret = h, !.seen = s]
  BY <1>2, <1>3 DEF Written
<1>5. [object EXCEPT !.rev = @ + 1, !.val = v, !.secret = h, !.seen = s] \in Object
  BY <1>1, <1>2, <1>3, ChangedObject
<1>6. /\ Written(v).rev = object.rev + 1 /\ Written(v).val = v
      /\ Written(v).origin = object.origin /\ Written(v).seen = "current"
      /\ Written(v).secret = h
  BY <1>1, <1>3, <1>4 DEF Object
<1> QED  BY <1>2, <1>4, <1>5, <1>6

LEMMA NewObject ==
    ASSUME TypeOK
    PROVE  /\ New(want) \in Object /\ New(want).val = want
           /\ New(want).secret = IF Sends THEN secret ELSE None
BY HiddenTypes DEF TypeOK, New, Object, Hidden

\* What the writes make of the object.
LEMMA OutcomeType ==
    ASSUME TypeOK, ControlOK, Accepted
    PROVE  /\ Outcome \in Object \cup {Absent}
           /\ Outcome # Absent => Outcome.val \in {want, None}
<1>1. ASSUME object # Absent, NEW v \in Content
      PROVE  Written(v) \in Object /\ Written(v).val = v
  BY <1>1, WrittenObject
<1>2. New(want) \in Object /\ New(want).val = want
  BY NewObject
<1>3. pc \notin {"create", "update"} => object # Absent
  BY DEF Accepted, CreateAccepted, UpdateAccepted, EmptyAccepted, DeleteAccepted
<1>4. want \in Content /\ None \in Content
  BY DEF TypeOK, Content
<1> QED  BY <1>1, <1>2, <1>3, <1>4 DEF Outcome

LEMMA WrittenIsWanted ==
    ASSUME TypeOK, pc \in {"create", "update"}
    PROVE  Outcome # Absent /\ Outcome.val = want
<1>1. CASE object = Absent
  BY <1>1, NewObject, Constants DEF Outcome
<1>2. CASE object # Absent
  <2>1. Written(want) \in Object /\ Written(want).val = want
    BY <1>2, WrittenObject DEF TypeOK
  <2> QED  BY <1>2, <2>1, Constants DEF Outcome
<1> QED  BY <1>1, <1>2

\* The first of two requests leaves an object that differs in its value only.
LEMMA HalfWritten ==
    ASSUME TypeOK, ControlOK, InHalves, NEW v \in Value
    PROVE  /\ Half(v) \in Object /\ Half(v) # Absent /\ Accepted /\ Outcome # Absent
           /\ Half(v).rev = Outcome.rev /\ Half(v).origin = Outcome.origin
           /\ Half(v).seen = Outcome.seen
<1>1. Outcome \in Object
  BY OutcomeType DEF InHalves
<1>2. Half(v) \in Object
  BY <1>1, WithVal DEF Half, Content
<1>3. /\ Half(v).rev = Outcome.rev /\ Half(v).origin = Outcome.origin
      /\ Half(v).seen = Outcome.seen
  BY <1>1 DEF Half, Object
<1> QED  BY <1>2, <1>3, Constants DEF InHalves

LEMMA EndType ==
    ASSUME TypeOK, NEW how \in {"none", "ok", "error", "killed"},
           NEW o \in Object \cup {Absent}, NEW s \in Resource \cup {Absent},
           End(how, o, s), Within \/ Fault
    PROVE  TypeOK'
<1>1. object' \in Object \cup {Absent}
  <2>1. CASE object' = [o EXCEPT !.origin = "lost"] /\ o \in Object
    BY <2>1 DEF Object
  <2> QED  BY <2>1 DEF End, Lost
<1>2. held' \subseteq Content
  <2>1. CASE o = Absent
    BY <2>1 DEF TypeOK, End, Holds
  <2>2. CASE o \in Object
    BY <2>2 DEF TypeOK, End, Holds, Object
  <2> QED  BY <2>1, <2>2
<1>3. strays' \in Nat
  BY DEF TypeOK, End
<1>4. faults' \in 0 .. MaxFaults
  BY Constants DEF TypeOK, Within, Fault
<1>5. UNCHANGED <<kind, named, want, secret, refreshed, disturbed, others, edits>>
  BY DEF Within, Fault, choice, apply
<1>6. /\ pc' = "idle" /\ tries' = 0 /\ fetched' = 0 /\ refused' = FALSE
      /\ result' = how /\ state' = s /\ doubt' = (doubt \/ LeavesDoubt(how))
  BY DEF End
<1>7. tries' \in 0 .. MaxRetries /\ fetched' \in Nat
  BY <1>6, Constants
<1>8. refused' \in BOOLEAN /\ named' \in BOOLEAN /\ refreshed' \in BOOLEAN /\ disturbed' \in BOOLEAN
  BY <1>5, <1>6 DEF TypeOK
<1>9. secret' \in Hideable'
  BY <1>5 DEF TypeOK, Hideable
<1>10. doubt' \in BOOLEAN
  BY <1>6
<1> QED
  BY <1>1, <1>2, <1>3, <1>4, <1>5, <1>6, <1>7, <1>8, <1>9, <1>10 DEF TypeOK

LEMMA MoveType ==
    ASSUME TypeOK, NEW label \in Calls \cup {"plan"},
           NEW o \in Object \cup {Absent}, Move(label, o), Within \/ Fault,
           state' \in Resource \cup {Absent}, fetched' \in Nat, refused' \in BOOLEAN
    PROVE  TypeOK'
<1>1. held' \subseteq Content
  BY DEF TypeOK, Move, Holds, Object
<1>2. faults' \in 0 .. MaxFaults
  BY Constants DEF TypeOK, Within, Fault
<1>3. secret' \in Hideable'
  BY DEF TypeOK, Hideable, Within, Fault, choice, apply
<1>4. doubt' \in BOOLEAN
  BY DEF Move
<1> QED
  BY <1>1, <1>2, <1>3, <1>4, Constants DEF TypeOK, Move, Within, Fault, choice, apply

\* What goes into the state.
LEMMA StateTypes ==
    ASSUME TypeOK
    PROVE  /\ object # Absent => Read \in Object /\ Read.val = object.val
           /\ object = Absent => Read = Absent
           /\ object # Absent /\ (pc = "refresh" => state # Absent) =>
                 \A t \in BOOLEAN : Copied(t) \in Resource
           /\ state # Absent => Unapplied \in Resource
           /\ Tainted \in Resource
<1>1. ASSUME object # Absent
      PROVE  Read \in Object /\ Read.val = object.val
  <2>1. object \in Object
    BY <1>1 DEF TypeOK
  <2> QED  BY <1>1, <2>1, WithSeen DEF Read, Object
<1>2. ASSUME object # Absent, NEW t \in BOOLEAN, pc = "refresh" => state # Absent
      PROVE  Copied(t) \in Resource
  <2>1. Remembered \in Hidden
    BY <1>2, HiddenTypes DEF Remembered, Hidden
  <2> QED  BY <1>2, <2>1 DEF TypeOK, Object, Resource, Copied
<1>3. ASSUME state # Absent
      PROVE  Unapplied \in Resource
  BY <1>3, HiddenTypes DEF TypeOK, Resource, Unapplied
<1>4. Tainted \in Resource
  BY HiddenTypes DEF TypeOK, Resource, Tainted
<1> QED  BY <1>1, <1>2, <1>3, <1>4 DEF Read

LEMMA FailedStateType ==
    ASSUME TypeOK, ControlOK
    PROVE  FailedState \in Resource \cup {Absent}
BY StateTypes DEF TypeOK, ControlOK, Changing, FailedState

LEMMA DeletedType ==
    ASSUME TypeOK, NEW o \in Object \cup {Absent}, Deleted(o), Within \/ Fault
    PROVE  TypeOK'
<1>1. CASE End("ok", o, Absent)
  BY <1>1, EndType
<1>2. CASE Move(CreateFrom, o) /\ state' = Absent /\ fetched' = 0 /\ UNCHANGED refused
  <2>1. CreateFrom \in Calls
    BY DEF CreateFrom, Calls
  <2>2. refused' \in BOOLEAN
    BY <1>2 DEF TypeOK
  <2> QED  BY <1>2, <2>1, <2>2, MoveType
<1> QED  BY <1>1, <1>2 DEF Deleted

LEMMA FailsType ==
    ASSUME TypeOK, ControlOK, NEW o \in Object \cup {Absent},
           Fails(o), Within \/ Fault
    PROVE  TypeOK'
<1>1. ASSUME Forgets(o)
      PROVE  TypeOK'
  <2>1. CASE Move("plan", o) /\ state' = Absent /\ UNCHANGED function
    <3>1. fetched' \in Nat /\ refused' \in BOOLEAN
      BY <2>1 DEF TypeOK, function
    <3> QED  BY <2>1, <3>1, MoveType
  <2>2. CASE End("error", o, Absent)
    BY <2>2, EndType
  <2> QED  BY <1>1, <2>1, <2>2 DEF Forgets
<1>2. ASSUME Swallows(o), state # Absent
      PROVE  TypeOK'
  <2>1. CASE End("ok", o, Unapplied)
    BY <1>2, <2>1, EndType, StateTypes
  <2>2. CASE Deleted(o)
    BY <2>2, DeletedType
  <2> QED  BY <1>2, <2>1, <2>2 DEF Swallows
<1>3. CASE Move("undo", o) /\ UNCHANGED <<state, function>>
  <2>1. state' \in Resource \cup {Absent} /\ fetched' \in Nat /\ refused' \in BOOLEAN
    BY <1>3 DEF TypeOK, function
  <2> QED  BY <1>3, <2>1, MoveType DEF Calls
<1>4. CASE Move("clear", o) /\ refused' = TRUE /\ UNCHANGED <<state, fetched>>
  <2>1. state' \in Resource \cup {Absent} /\ fetched' \in Nat
    BY <1>4 DEF TypeOK
  <2> QED  BY <1>4, <2>1, MoveType DEF Calls
<1>5. CASE End("error", o, FailedState)
  BY <1>5, EndType, FailedStateType
<1> QED  BY <1>1, <1>2, <1>3, <1>4, <1>5 DEF Fails, Swallowed

LEMMA OtherType ==
    ASSUME TypeOK, Other, object' \in Object \cup {Absent}, held' \subseteq Content
    PROVE  TypeOK'
<1>1. others' \in 0 .. MaxOthers
  BY Constants DEF TypeOK, Other
<1>2. secret' \in Hideable'
  BY DEF TypeOK, Hideable, Other, choice, apply
<1>3. doubt' \in BOOLEAN
  BY DEF Other
<1> QED  BY <1>1, <1>2, <1>3 DEF TypeOK, Other, choice, function, apply

LEMMA FirstCallType ==
    FirstCall \in Calls
BY DEF FirstCall, CreateFrom, UpdateFrom, DeleteFrom, Calls

LEMMA TypeStep ==
    ASSUME TypeOK, ControlOK, [Next]_vars
    PROVE  TypeOK'
<1> USE DEF Calls, Reads
<1>f. fetched \in Nat /\ refused \in BOOLEAN /\ state \in Resource \cup {Absent}
      /\ object \in Object \cup {Absent}
  BY DEF TypeOK
<1>s. UNCHANGED <<state, function>> =>
          state' \in Resource \cup {Absent} /\ fetched' \in Nat /\ refused' \in BOOLEAN
  BY <1>f DEF function
<1>o. Accepted => Outcome \in Object \cup {Absent}
  BY OutcomeType
<1>r. Read \in Object \cup {Absent} /\ (object # Absent => object.rev \in Nat)
  BY <1>f, StateTypes DEF Object
<1>1. CASE Plan
  <2>1. CASE End("ok", object, state)
    BY <1>1, <1>f, <2>1, EndType DEF Plan
  <2>2. CASE Move(FirstCall, object) /\ UNCHANGED <<state, function>>
    BY <1>1, <1>f, <1>s, <2>2, MoveType, FirstCallType DEF Plan
  <2> QED  BY <1>1, <2>1, <2>2 DEF Plan
<1>2. CASE ReadFinds
  <2>1. object # Absent /\ Within /\ (pc = "refresh" => state # Absent)
    BY <1>2 DEF ReadFinds, Visible, ControlOK
  <2>2. CASE pc = "refresh" /\ Move("plan", Read) /\ state' = Copied(state.tainted)
               /\ UNCHANGED function
    <3>1. state.tainted \in BOOLEAN
      BY <1>f, <2>2 DEF ControlOK, Resource
    <3>2. state' \in Resource
      BY <2>1, <2>2, <3>1, StateTypes
    <3> QED  BY <1>f, <1>r, <2>1, <2>2, <3>2, MoveType DEF function
  <2>3. ASSUME NEW how \in {"none", "ok"}, End(how, Read, Copied(FALSE))
        PROVE  TypeOK'
    BY <1>r, <2>1, <2>3, StateTypes, EndType
  <2> QED  BY <1>2, <2>2, <2>3 DEF ReadFinds
<1>3. CASE ReadMisses
  <2>1. CASE End("error", object, FailedState)
    BY <1>3, <1>f, <2>1, FailedStateType, EndType DEF ReadMisses
  <2>2. CASE Forgets(object)
    <3>1. CASE Move("plan", object) /\ state' = Absent /\ UNCHANGED function
      BY <1>3, <1>f, <3>1, MoveType DEF ReadMisses, function
    <3>2. CASE End("error", object, Absent)
      BY <1>3, <1>f, <3>2, EndType DEF ReadMisses
    <3> QED  BY <2>2, <3>1, <3>2 DEF Forgets
  <2> QED  BY <1>3, <2>1, <2>2 DEF ReadMisses
<1>4. CASE Check
  <2>1. CASE /\ Move("create", Read)
             /\ fetched' = IF object = Absent THEN 0 ELSE object.rev
             /\ UNCHANGED <<state, refused>>
    <3>1. fetched' \in Nat /\ state' \in Resource \cup {Absent} /\ refused' \in BOOLEAN
      BY <1>f, <1>r, <2>1
    <3> QED  BY <1>4, <1>r, <2>1, <3>1, MoveType DEF Check
  <2>2. CASE End("error", object, state)
    BY <1>4, <1>f, <2>2, EndType DEF Check
  <2> QED  BY <1>4, <2>1, <2>2 DEF Check
<1>5. CASE Get
  <2>1. CASE /\ object # Absent
             /\ Move(AfterGet, Read)
             /\ fetched' = object.rev
             /\ UNCHANGED <<state, refused>>
    <3>1. fetched' \in Nat /\ state' \in Resource \cup {Absent} /\ refused' \in BOOLEAN
      BY <1>f, <1>r, <2>1
    <3>2. AfterGet \in Calls
      BY DEF AfterGet
    <3> QED  BY <1>5, <1>r, <2>1, <3>1, <3>2, MoveType DEF Get
  <2>2. CASE Fails(object)
    BY <1>5, <1>f, <2>2, FailsType DEF Get
  <2> QED  BY <1>5, <2>1, <2>2 DEF Get, Visible
<1>6. CASE Write
  <2>1. CASE Move(NextCall, Outcome) /\ UNCHANGED <<state, function>>
    <3>1. NextCall \in Calls
      BY DEF NextCall
    <3> QED  BY <1>6, <1>s, <1>o, <2>1, <3>1, MoveType DEF Write
  <2>2. CASE End("ok", Outcome, Unapplied) /\ pc = "update"
    <3>1. Unapplied \in Resource
      BY <2>2, StateTypes DEF ControlOK, Changing
    <3> QED  BY <1>6, <1>o, <2>2, <3>1, EndType DEF Write
  <2> QED  BY <1>6, <2>1, <2>2 DEF Write
<1>7. CASE WriteRefused
  BY <1>7, <1>f, FailsType DEF WriteRefused
<1>8. CASE Clear
  <2>1. CASE Move("readUpdated", object) /\ UNCHANGED <<state, function>>
    BY <1>8, <1>f, <1>s, <2>1, MoveType DEF Clear
  <2>2. CASE End("error", object, FailedState)
    BY <1>8, <1>f, <2>2, FailedStateType, EndType DEF Clear
  <2>3. CASE Accepted /\ End("error", Outcome, FailedState)
    BY <1>8, <1>o, <2>3, FailedStateType, EndType DEF Clear
  <2> QED  BY <1>8, <2>1, <2>2, <2>3 DEF Clear
<1>9. CASE Second
  <2>1. CASE Move("readCreated", object) /\ UNCHANGED <<state, function>>
    BY <1>9, <1>f, <1>s, <2>1, MoveType DEF Second
  <2>2. CASE Fails(object)
    BY <1>9, <1>f, <2>2, FailsType DEF Second
  <2> QED  BY <1>9, <2>1, <2>2 DEF Second
<1>10. CASE Undo
  BY <1>10, <1>f, <1>o, EndType DEF Undo
<1>11. CASE WaitBefore
  <2>1. CASE Move("delete", object) /\ UNCHANGED <<state, function>>
    BY <1>11, <1>f, <1>s, <2>1, MoveType DEF WaitBefore
  <2>2. CASE Accepted /\ Move("delete", Outcome) /\ UNCHANGED <<state, function>>
    BY <1>11, <1>o, <1>s, <2>2, MoveType DEF WaitBefore
  <2>3. CASE Fails(object)
    BY <1>11, <1>f, <2>3, FailsType DEF WaitBefore
  <2> QED  BY <1>11, <2>1, <2>2, <2>3 DEF WaitBefore
<1>12. CASE Delete
  <2>1. CASE Deleted(object)
    BY <1>12, <1>f, <2>1, DeletedType DEF Delete
  <2>2. CASE Accepted /\ Deleted(Outcome)
    BY <1>12, <1>o, <2>2, DeletedType DEF Delete
  <2>3. CASE Accepted /\ Move("gone", Outcome) /\ UNCHANGED <<state, function>>
    BY <1>12, <1>o, <1>s, <2>3, MoveType DEF Delete
  <2> QED  BY <1>12, <2>1, <2>2, <2>3 DEF Delete
<1>13. CASE DeleteRefused
  <2>1. CASE Deleted(object)
    BY <1>13, <1>f, <2>1, DeletedType DEF DeleteRefused
  <2>2. CASE End("error", object, state)
    BY <1>13, <1>f, <2>2, EndType DEF DeleteRefused
  <2> QED  BY <1>13, <2>1, <2>2 DEF DeleteRefused
<1>14. CASE WaitAfter
  <2>1. CASE Deleted(object)
    BY <1>14, <1>f, <2>1, DeletedType DEF WaitAfter
  <2>2. CASE End("error", object, state)
    BY <1>14, <1>f, <2>2, EndType DEF WaitAfter
  <2> QED  BY <1>14, <2>1, <2>2 DEF WaitAfter
<1>15. CASE SentAgain
  <2>1. tries' \in 0 .. MaxRetries
    BY <1>15, Constants DEF TypeOK, SentAgain, LastTry
  <2>2. faults' \in 0 .. MaxFaults
    BY <1>15, Constants DEF TypeOK, SentAgain, Fault
  <2>3. object' \in Object \cup {Absent} /\ strays' \in Nat
    BY <1>15, <1>o DEF TypeOK, SentAgain
  <2>4. held' \subseteq Content
    <3>1. CASE Outcome = Absent
      BY <1>15, <3>1 DEF TypeOK, SentAgain, Holds
    <3>2. CASE Outcome \in Object
      BY <1>15, <3>2 DEF TypeOK, SentAgain, Holds, Object
    <3> QED  BY <1>15, <1>o, <3>1, <3>2 DEF SentAgain
  <2>5. UNCHANGED <<kind, named, want, secret, state, pc, fetched, refused, result,
                    refreshed, disturbed, doubt, others, edits>>
    BY <1>15 DEF SentAgain, Fault, function, choice, apply
  <2> QED  BY <2>1, <2>2, <2>3, <2>4, <2>5 DEF TypeOK, Hideable
<1>16. CASE CallFails
  <2>1. ASSUME InHalves, NEW v \in Value, Fails(Half(v))
        PROVE  TypeOK'
    BY <1>16, <2>1, HalfWritten, FailsType DEF CallFails
  <2> QED  BY <1>16, <1>f, <1>o, <2>1, FailsType DEF CallFails
<1>17. CASE Unrealized
  BY <1>17, <1>f, FailedStateType, EndType DEF Unrealized
<1>18. CASE Kill
  BY <1>18, <1>f, EndType DEF Kill
<1>19. CASE OtherChanges
  <2>1. PICK v \in Content, h \in Hideable :
          object' = [object EXCEPT !.rev = @ + 1, !.val = v, !.secret = h,
                        !.seen = IF @ = "current" THEN "outdated" ELSE @]
    BY <1>19 DEF OtherChanges, Content
  <2>2. object' \in Object
    <3>1. object \in Object
      BY <1>19, <1>f DEF OtherChanges
    <3> DEFINE s == IF object.seen = "current" THEN "outdated" ELSE object.seen
    <3>2. s \in {"never", "current", "outdated"}
      BY <3>1 DEF Object
    <3>3. [object EXCEPT !.rev = @ + 1, !.val = v, !.secret = h, !.seen = s] \in Object
      BY <3>1, <3>2, ChangedObject, HiddenTypes
    <3> QED  BY <2>1, <3>3
  <2>3. held' \subseteq Content
    BY <1>19, <2>2 DEF TypeOK, OtherChanges, Object
  <2> QED  BY <1>19, <2>2, <2>3, OtherType DEF OtherChanges
<1>20. CASE OtherDeletes
  BY <1>20, OtherType DEF OtherDeletes, TypeOK
<1>21. CASE OtherCreates
  <2>1. object' \in Object /\ held' \subseteq Content
    BY <1>21, HiddenTypes DEF OtherCreates, Object, Content, TypeOK
  <2> QED  BY <1>21, <2>1, OtherType DEF OtherCreates
<1>22. ASSUME NEW refresh \in BOOLEAN, BeginAgain(refresh) \/ BeginEdited(refresh)
       PROVE  TypeOK'
  <2>1. object' \in Object \cup {Absent}
    BY <1>22, <1>f DEF BeginAgain, BeginEdited, Begin, Object
  <2>2. want' \in Content /\ edits' \in 0 .. MaxEdits
    BY <1>22, Constants DEF BeginAgain, BeginEdited, TypeOK
  <2>3. /\ pc' \in {"refresh", "plan"} /\ refreshed' \in BOOLEAN
        /\ disturbed' \in BOOLEAN /\ result' = "none"
    BY <1>22 DEF BeginAgain, BeginEdited, Begin
  <2>4. UNCHANGED <<kind, named, strays, held, state, fetched, refused, tries, doubt,
                    faults, others>>
    BY <1>22 DEF BeginAgain, BeginEdited, Begin, function, choice
  <2>5. /\ kind' \in Kinds /\ named' \in BOOLEAN /\ strays' \in Nat /\ held' \subseteq Content
        /\ state' \in Resource \cup {Absent} /\ fetched' \in Nat /\ refused' \in BOOLEAN
        /\ tries' \in 0 .. MaxRetries /\ faults' \in 0 .. MaxFaults
        /\ others' \in 0 .. MaxOthers /\ doubt' \in BOOLEAN
    BY <2>4 DEF TypeOK
  <2>6. pc' \in Calls \cup {"idle", "plan"} /\ result' \in {"none", "ok", "error", "killed"}
    BY <2>3
  <2>7. secret' \in Hideable'
    BY <1>22, <2>4 DEF BeginAgain, BeginEdited, TypeOK, Hideable
  <2> QED  BY <2>1, <2>2, <2>3, <2>5, <2>6, <2>7 DEF TypeOK
<1>23. CASE Import
  <2>1. pc' \in Calls
    BY <1>23 DEF Import
  <2>2. UNCHANGED <<kind, named, object, strays, held, state, fetched, refused, tries, result,
                    want, secret, refreshed, disturbed, doubt, faults, others, edits>>
    BY <1>23 DEF Import, Within, nsx, function, choice, apply
  <2> QED  BY <2>1, <2>2 DEF TypeOK, Hideable
<1>24. CASE UNCHANGED vars
  BY <1>24 DEF vars, TypeOK, Hideable, nsx, function, choice, apply
<1> QED
  BY <1>1, <1>2, <1>3, <1>4, <1>5, <1>6, <1>7, <1>8, <1>9, <1>10, <1>11, <1>12, <1>13,
     <1>14, <1>15, <1>16, <1>17, <1>18, <1>19, <1>20, <1>21, <1>22, <1>23, <1>24
     DEF Next, Progress, Disturbance

-----------------------------------------------------------------------------
(***************************************************************************)
(* ControlOK.                                                              *)
(***************************************************************************)

\* What the calls leave alone.
LEMMA Kept ==
    ASSUME Within \/ Fault
    PROVE  UNCHANGED <<kind, named, want, secret, refreshed, disturbed, others, edits>>
BY DEF Within, Fault, choice, apply

LEMMA EndControl ==
    ASSUME NEW how, NEW o, NEW s, End(how, o, s)
    PROVE  ControlOK'
BY DEF End, ControlOK, Creating, Changing, Deleting

LEMMA DeletedControl ==
    ASSUME ControlOK, NEW o, Deleted(o), pc # "clear", Within \/ Fault
    PROVE  ControlOK'
<1>1. CASE End("ok", o, Absent)
  BY <1>1, EndControl
<1>2. CASE /\ want # None /\ Move(CreateFrom, o) /\ state' = Absent
           /\ fetched' = 0 /\ UNCHANGED refused
  <2>1. pc' \in {"check", "get", "create"} /\ ~refused' /\ want' # None
    BY <1>2, Kept DEF Move, CreateFrom, ControlOK
  <2> QED  BY <1>2, <2>1 DEF ControlOK, Creating, Changing, Deleting
<1> QED  BY <1>1, <1>2 DEF Deleted

LEMMA FailsControl ==
    ASSUME ControlOK, NEW o, Fails(o), Within \/ Fault
    PROVE  ControlOK'
<1>1. CASE pc = "refresh" /\ Move("plan", o) /\ UNCHANGED function
  <2>1. pc' = "plan" /\ refused' = refused
    BY <1>1 DEF Move, function
  <2> QED  BY <1>1, <2>1 DEF ControlOK, Creating, Changing, Deleting
<1>2. CASE pc = "getPart" /\ Deleted(o)
  BY <1>2, DeletedControl
<1>3. CASE pc = "second" /\ Move("undo", o) /\ UNCHANGED <<state, function>>
  <2>1. pc' = "undo" /\ state' = state /\ refused' = refused
    BY <1>3 DEF Move, function
  <2> QED  BY <1>3, <2>1, Kept DEF ControlOK, Creating, Changing, Deleting
<1>4. CASE pc = "update" /\ kind.second = "clear" /\ Move("clear", o) /\ UNCHANGED state
  <2>1. pc' = "clear" /\ state' = state
    BY <1>4 DEF Move
  <2> QED  BY <1>4, <2>1, Kept DEF ControlOK, Creating, Changing, Deleting
<1> QED
  BY <1>1, <1>2, <1>3, <1>4, EndControl DEF Fails, Forgets, Swallows

LEMMA ControlStep ==
    ASSUME TypeOK, ControlOK, [Next]_vars
    PROVE  ControlOK'
<1> USE DEF ControlOK, Creating, Changing, Deleting
<1>1. CASE Plan
  <2>1. CASE ~UpToDate /\ Move(FirstCall, object) /\ UNCHANGED <<state, function>>
    <3>1. UNCHANGED <<state, refused, want, kind>> /\ pc' = FirstCall /\ pc = "plan"
      BY <1>1, <2>1, Kept DEF Plan, Move, function
    <3> QED
      BY <2>1, <3>1 DEF UpToDate, FirstCall, CreateFrom, UpdateFrom, DeleteFrom, Replaces
  <2> QED  BY <1>1, <2>1, EndControl DEF Plan
<1>2. CASE ReadFinds
  <2>1. CASE pc = "refresh" /\ Move("plan", Read) /\ UNCHANGED function
    BY <2>1 DEF Move, function
  <2> QED  BY <1>2, <2>1, EndControl DEF ReadFinds
<1>3. CASE ReadMisses
  <2>1. CASE pc = "refresh" /\ Move("plan", object) /\ UNCHANGED function
    BY <2>1 DEF Move, function
  <2> QED  BY <1>3, <2>1, EndControl DEF ReadMisses, Forgets
<1>4. CASE Check
  <2>1. CASE Move("create", Read) /\ UNCHANGED <<state, refused>>
    BY <1>4, <2>1, Kept DEF Check, Move
  <2> QED  BY <1>4, <2>1, EndControl DEF Check
<1>5. CASE Get
  <2>1. CASE Move(AfterGet, Read) /\ UNCHANGED <<state, refused>>
    BY <1>5, <2>1, Kept DEF Get, Move, AfterGet
  <2>2. CASE Fails(object)
    BY <1>5, <2>2, FailsControl DEF Get
  <2> QED  BY <1>5, <2>1, <2>2 DEF Get
<1>6. CASE Write
  <2>1. CASE Move(NextCall, Outcome) /\ UNCHANGED <<state, function>>
    BY <1>6, <2>1, Kept DEF Write, Move, NextCall, function
  <2> QED  BY <1>6, <2>1, EndControl DEF Write
<1>7. CASE WriteRefused
  BY <1>7, FailsControl DEF WriteRefused
<1>8. CASE Clear
  <2>1. CASE ~refused /\ Move("readUpdated", object) /\ UNCHANGED <<state, function>>
    BY <1>8, <2>1, Kept DEF Clear, Move, function
  <2> QED  BY <1>8, <2>1, EndControl DEF Clear
<1>9. CASE Second
  <2>1. CASE Move("readCreated", object) /\ UNCHANGED <<state, function>>
    BY <1>9, <2>1, Kept DEF Second, Move, function
  <2>2. CASE Fails(object)
    BY <1>9, <2>2, FailsControl DEF Second
  <2> QED  BY <1>9, <2>1, <2>2 DEF Second
<1>10. CASE Undo
  BY <1>10, EndControl DEF Undo
<1>11. CASE WaitBefore
  <2>1. ASSUME NEW o, Move("delete", o), UNCHANGED <<state, function>>
        PROVE  ControlOK'
    BY <1>11, <2>1 DEF WaitBefore, Move, function
  <2>2. CASE Fails(object)
    BY <1>11, <2>2, FailsControl DEF WaitBefore
  <2> QED  BY <1>11, <2>1, <2>2 DEF WaitBefore
<1>12. CASE Delete
  <2>1. ASSUME NEW o, Deleted(o)
        PROVE  ControlOK'
    BY <1>12, <2>1, DeletedControl DEF Delete
  <2>2. CASE Move("gone", Outcome) /\ UNCHANGED <<state, function>>
    BY <1>12, <2>2 DEF Delete, Move, function
  <2> QED  BY <1>12, <2>1, <2>2 DEF Delete
<1>13. CASE DeleteRefused
  BY <1>13, DeletedControl, EndControl DEF DeleteRefused
<1>14. CASE WaitAfter
  BY <1>14, DeletedControl, EndControl DEF WaitAfter
<1>15. CASE SentAgain
  BY <1>15, Kept DEF SentAgain, function
<1>16. CASE CallFails
  BY <1>16, FailsControl DEF CallFails
<1>17. CASE Unrealized
  BY <1>17, EndControl DEF Unrealized
<1>18. CASE Kill
  BY <1>18, EndControl DEF Kill
<1>19. CASE OtherChanges \/ OtherDeletes \/ OtherCreates
  <2>1. UNCHANGED <<pc, state, want, kind, refused>>
    BY <1>19 DEF OtherChanges, OtherDeletes, OtherCreates, Other, function, apply, choice
  <2> QED  BY <2>1
<1>20. ASSUME NEW refresh \in BOOLEAN, BeginAgain(refresh) \/ BeginEdited(refresh)
       PROVE  ControlOK'
  BY <1>20 DEF BeginAgain, BeginEdited, Begin, function
<1>21. CASE Import
  BY <1>21, Kept DEF Import, function
<1>22. CASE UNCHANGED vars
  BY <1>22 DEF vars, function, apply, choice
<1> QED
  BY <1>1, <1>2, <1>3, <1>4, <1>5, <1>6, <1>7, <1>8, <1>9, <1>10, <1>11, <1>12, <1>13,
     <1>14, <1>15, <1>16, <1>17, <1>18, <1>19, <1>20, <1>21, <1>22
     DEF Next, Progress, Disturbance

-----------------------------------------------------------------------------
(***************************************************************************)
(* HeldOK and StateNeverAhead.                                             *)
(***************************************************************************)
LEMMA EndHeld ==
    ASSUME HeldOK, NEW how, NEW o \in Object \cup {Absent}, NEW s, End(how, o, s),
           Within \/ Fault,
           s # Absent /\ Partial => s.val \in held'
    PROVE  HeldOK' /\ StateNeverAhead'
<1>1. pc' = "idle" /\ state' = s /\ held \subseteq held'
  BY DEF End, Holds
<1>2. object' # Absent => object'.val \in held'
  <2>1. CASE object' = [o EXCEPT !.origin = "lost"] /\ o \in Object
    <3>1. object'.val = o.val
      BY <2>1 DEF Object
    <3> QED  BY <2>1, <3>1, Constants DEF End, Holds
  <2>2. CASE object' = o
    BY <2>2 DEF End, Holds
  <2> QED  BY <2>1, <2>2 DEF End, Lost
<1> QED  BY <1>1, <1>2, Kept DEF HeldOK, StateNeverAhead, Partial

LEMMA MoveHeld ==
    ASSUME HeldOK, NEW label, NEW o, Move(label, o), Within \/ Fault,
           state' # Absent /\ Partial => state'.val \in held',
           label \in {"second", "readCreated", "readUpdated"} \/ (label = "clear" /\ ~refused')
               => want \in held'
    PROVE  HeldOK' /\ StateNeverAhead'
<1>1. pc' = label /\ object' = o /\ held \subseteq held'
  BY DEF Move, Holds
<1>2. object' # Absent => object'.val \in held'
  BY DEF Move, Holds
<1> QED  BY <1>1, <1>2, Kept DEF HeldOK, StateNeverAhead, Partial

LEMMA DeletedHeld ==
    ASSUME TypeOK, HeldOK, NEW o \in Object \cup {Absent}, Deleted(o), Within \/ Fault
    PROVE  HeldOK' /\ StateNeverAhead'
<1>1. CASE End("ok", o, Absent)
  BY <1>1, EndHeld
<1>2. CASE Move(CreateFrom, o) /\ state' = Absent
  BY <1>2, MoveHeld DEF CreateFrom
<1> QED  BY <1>1, <1>2 DEF Deleted

\* The state a failed function leaves: what it was, or what has been written.
LEMMA FailedStateHeld ==
    ASSUME ControlOK, HeldOK, StateNeverAhead,
           FailedState # Absent, Partial
    PROVE  FailedState.val \in held
BY DEF ControlOK, Changing, HeldOK, StateNeverAhead, FailedState, Tainted, Unapplied, Partial

LEMMA FailsHeld ==
    ASSUME TypeOK, ControlOK, HeldOK, StateNeverAhead,
           NEW o \in Object \cup {Absent}, Fails(o), Within \/ Fault
    PROVE  HeldOK' /\ StateNeverAhead'
<1>1. CASE pc = "refresh" /\ Move("plan", o) /\ state' = Absent
  BY <1>1, MoveHeld
<1>2. CASE End("error", o, Absent)
  BY <1>2, EndHeld
<1>3. CASE Deleted(o)
  BY <1>3, DeletedHeld
<1>4. CASE End("ok", o, Unapplied) /\ Swallowed
  BY <1>4, KindFacts, EndHeld DEF Swallowed
<1>5. CASE Move("undo", o) /\ UNCHANGED <<state, function>>
  <2>1. state' # Absent /\ Partial => state'.val \in held'
    BY <1>5 DEF Move, Holds, StateNeverAhead, Partial
  <2> QED  BY <1>5, <2>1, MoveHeld
<1>6. CASE Move("clear", o) /\ refused' = TRUE /\ UNCHANGED state
  <2>1. state' # Absent /\ Partial => state'.val \in held'
    BY <1>6 DEF Move, Holds, StateNeverAhead, Partial
  <2> QED  BY <1>6, <2>1, MoveHeld
<1>7. CASE End("error", o, FailedState)
  <2>1. held \subseteq held'
    BY <1>7 DEF End, Holds
  <2> QED  BY <1>7, <2>1, FailedStateHeld, EndHeld
<1> QED
  BY <1>1, <1>2, <1>3, <1>4, <1>5, <1>6, <1>7 DEF Fails, Forgets, Swallows

LEMMA HeldStep ==
    ASSUME TypeOK, ControlOK, HeldOK, StateNeverAhead, [Next]_vars
    PROVE  HeldOK' /\ StateNeverAhead'
<1>o. object \in Object \cup {Absent} /\ (Accepted => Outcome \in Object \cup {Absent})
  BY OutcomeType DEF TypeOK
<1>r. Read \in Object \cup {Absent} /\ (Read # Absent => object # Absent /\ Read.val = object.val)
  BY <1>o, StateTypes
<1>m. ASSUME NEW label, NEW o, Move(label, o), UNCHANGED state,
             Within \/ Fault,
             label \in {"second", "readCreated", "readUpdated"}
                 \/ (label = "clear" /\ ~refused') => want \in held'
      PROVE  HeldOK' /\ StateNeverAhead'
  <2>1. state' # Absent /\ Partial => state'.val \in held'
    BY <1>m DEF Move, Holds, StateNeverAhead, Partial
  <2> QED  BY <1>m, <2>1, MoveHeld
<1>e. ASSUME NEW o \in Object \cup {Absent}, NEW how, End(how, o, state) \/ End(how, o, FailedState),
             Within \/ Fault
      PROVE  HeldOK' /\ StateNeverAhead'
  <2>1. held \subseteq held'
    BY <1>e DEF End, Holds
  <2>2. state # Absent /\ Partial => state.val \in held
    BY DEF StateNeverAhead, Partial
  <2> QED  BY <1>e, <2>1, <2>2, FailedStateHeld, EndHeld
<1>1. CASE Plan
  <2>1. CASE Move(FirstCall, object) /\ UNCHANGED state
    BY <1>1, <2>1, <1>m DEF Plan, FirstCall, CreateFrom, UpdateFrom, DeleteFrom
  <2> QED  BY <1>1, <2>1, <1>o, <1>e DEF Plan
<1>2. CASE ReadFinds
  <2>1. object # Absent /\ Read # Absent /\ Within
    BY <1>2, <1>o, Constants, StateTypes DEF ReadFinds, Visible
  <2>2. \A t : Copied(t).val = object.val
    BY DEF Copied
  <2>3. CASE Move("plan", Read) /\ state' = Copied(state.tainted)
    <3>1. object.val \in held'
      BY <1>r, <2>1, <2>3 DEF Move, Holds
    <3> QED  BY <2>1, <2>2, <2>3, <3>1, MoveHeld
  <2>4. ASSUME NEW how, End(how, Read, Copied(FALSE))
        PROVE  HeldOK' /\ StateNeverAhead'
    <3>1. object.val \in held'
      BY <1>r, <2>1, <2>4 DEF End, Holds
    <3> QED  BY <1>r, <2>1, <2>2, <2>4, <3>1, EndHeld
  <2> QED  BY <1>2, <2>3, <2>4 DEF ReadFinds
<1>3. CASE ReadMisses
  <2>1. CASE Forgets(object)
    BY <1>3, <1>o, <2>1, MoveHeld, EndHeld DEF ReadMisses, Forgets
  <2> QED  BY <1>3, <2>1, <1>o, <1>e DEF ReadMisses
<1>4. CASE Check
  <2>1. CASE Move("create", Read) /\ UNCHANGED state
    BY <1>4, <2>1, <1>m DEF Check
  <2> QED  BY <1>4, <2>1, <1>o, <1>e DEF Check
<1>5. CASE Get
  <2>1. CASE Move(AfterGet, Read) /\ UNCHANGED state
    BY <1>5, <2>1, <1>m DEF Get, AfterGet
  <2> QED  BY <1>5, <1>o, <2>1, FailsHeld DEF Get
<1>6. CASE Write
  <2>1. Outcome # Absent /\ Outcome.val = want
    BY <1>6, WrittenIsWanted DEF Write
  <2>2. CASE Move(NextCall, Outcome) /\ UNCHANGED <<state, function>>
    <3>1. want \in held'
      BY <2>1, <2>2 DEF Move, Holds
    <3> QED  BY <1>6, <2>2, <3>1, <1>m DEF Write
  <2>3. CASE End("ok", Outcome, Unapplied) /\ pc = "update"
    <3>1. Unapplied.val = want
      BY <2>3 DEF ControlOK, Changing, TypeOK, Resource, Unapplied
    <3>2. want \in held'
      BY <2>1, <2>3 DEF End, Holds
    <3> QED  BY <1>6, <1>o, <2>3, <3>1, <3>2, EndHeld DEF Write
  <2> QED  BY <1>6, <2>2, <2>3 DEF Write
<1>7. CASE WriteRefused
  BY <1>7, <1>o, FailsHeld DEF WriteRefused
<1>8. CASE Clear
  <2>1. CASE ~refused /\ Move("readUpdated", object) /\ UNCHANGED state
    <3>1. want \in held'
      BY <1>8, <2>1 DEF Clear, HeldOK, Move, Holds
    <3> QED  BY <1>8, <2>1, <3>1, <1>m DEF Clear
  <2> QED  BY <1>8, <2>1, <1>o, <1>e DEF Clear
<1>9. CASE Second
  <2>1. CASE Move("readCreated", object) /\ UNCHANGED state
    <3>1. want \in held'
      BY <1>9, <2>1 DEF Second, HeldOK, Move, Holds
    <3> QED  BY <1>9, <2>1, <3>1, <1>m DEF Second
  <2> QED  BY <1>9, <1>o, <2>1, FailsHeld DEF Second
<1>10. CASE Undo
  BY <1>10, <1>o, <1>e DEF Undo
<1>11. CASE WaitBefore
  <2>1. ASSUME NEW o, Move("delete", o), UNCHANGED state
        PROVE  HeldOK' /\ StateNeverAhead'
    BY <1>11, <2>1, <1>m DEF WaitBefore
  <2> QED  BY <1>11, <1>o, <2>1, FailsHeld DEF WaitBefore
<1>12. CASE Delete
  <2>1. CASE Move("gone", Outcome) /\ UNCHANGED state
    BY <1>12, <2>1, <1>m DEF Delete
  <2> QED  BY <1>12, <1>o, <2>1, DeletedHeld DEF Delete
<1>13. CASE DeleteRefused
  BY <1>13, <1>o, <1>e, DeletedHeld DEF DeleteRefused
<1>14. CASE WaitAfter
  BY <1>14, <1>o, <1>e, DeletedHeld DEF WaitAfter
<1>15. CASE SentAgain
  <2>1. UNCHANGED <<kind, named, want, pc, state, refused>> /\ held \subseteq held'
    BY <1>15, Kept DEF SentAgain, Holds, function
  <2>2. object' # Absent => object'.val \in held'
    BY <1>15 DEF SentAgain, Holds
  <2> QED  BY <2>1, <2>2 DEF HeldOK, StateNeverAhead
<1>16. CASE CallFails
  <2>1. ASSUME InHalves, NEW v \in Value, Fails(Half(v))
        PROVE  HeldOK' /\ StateNeverAhead'
    BY <1>16, <2>1, HalfWritten, FailsHeld DEF CallFails
  <2> QED  BY <1>16, <1>o, <2>1, FailsHeld DEF CallFails
<1>17. CASE Unrealized
  BY <1>17, <1>o, <1>e DEF Unrealized
<1>18. CASE Kill
  BY <1>18, <1>o, <1>e DEF Kill
<1>19. CASE OtherChanges \/ OtherDeletes \/ OtherCreates
  <2>1. UNCHANGED <<pc, state, want, kind, refused>>
    BY <1>19 DEF OtherChanges, OtherDeletes, OtherCreates, Other, function, apply, choice
  <2>2. CASE OtherChanges
    <3>1. held \subseteq held' /\ object'.val \in held'
      BY <2>2 DEF OtherChanges
    <3> QED  BY <2>1, <3>1 DEF HeldOK, StateNeverAhead
  <2>3. CASE OtherDeletes
    <3>1. held' = held /\ object' = Absent
      BY <2>3 DEF OtherDeletes
    <3> QED  BY <2>1, <3>1 DEF HeldOK, StateNeverAhead
  <2>4. CASE OtherCreates
    <3>1. held \subseteq held' /\ object'.val \in held'
      BY <2>4 DEF OtherCreates
    <3> QED  BY <2>1, <3>1 DEF HeldOK, StateNeverAhead
  <2> QED  BY <1>19, <2>2, <2>3, <2>4
<1>20. ASSUME NEW refresh \in BOOLEAN, BeginAgain(refresh) \/ BeginEdited(refresh)
       PROVE  HeldOK' /\ StateNeverAhead'
  <2>1. UNCHANGED <<state, held, kind, refused>> /\ pc' \in {"refresh", "plan"}
    BY <1>20 DEF BeginAgain, BeginEdited, Begin, function, choice
  <2>2. object' = object \/ (object # Absent /\ object' = [object EXCEPT !.origin = "before"])
    BY <1>20 DEF BeginAgain, BeginEdited, Begin
  <2>3. object' # Absent => object'.val \in held'
    BY <1>o, <2>1, <2>2 DEF HeldOK, Object
  <2> QED  BY <2>1, <2>3 DEF HeldOK, StateNeverAhead
<1>21. CASE Import
  BY <1>21, Kept DEF Import, function, nsx, HeldOK, StateNeverAhead
<1>22. CASE UNCHANGED vars
  BY <1>22 DEF vars, function, apply, choice, nsx, HeldOK, StateNeverAhead
<1> QED
  BY <1>1, <1>2, <1>3, <1>4, <1>5, <1>6, <1>7, <1>8, <1>9, <1>10, <1>11, <1>12, <1>13,
     <1>14, <1>15, <1>16, <1>17, <1>18, <1>19, <1>20, <1>21, <1>22
     DEF Next, Progress, Disturbance

-----------------------------------------------------------------------------
(***************************************************************************)
(* OriginOK.                                                               *)
(***************************************************************************)
Ours(o) == o # Absent /\ o.origin = "ours"

\* What the calls make of the object's origin.
Sound(o) ==
    /\ Ours(o) => ~Attached
    /\ o # Absent /\ ~named => o.origin = "ours"

LEMMA OutcomeOrigin ==
    ASSUME TypeOK, ControlOK, OriginOK, Accepted
    PROVE  /\ Sound(Outcome)
           /\ object # Absent /\ Outcome # Absent => Outcome.origin = object.origin
           /\ object = Absent /\ Outcome # Absent => Outcome.origin = "ours"
           /\ pc \in {"delete", "undo"} => Outcome = Absent \/ Attached
<1>1. ASSUME object # Absent, NEW v \in Content
      PROVE  Written(v).origin = object.origin
  BY <1>1, WrittenObject
<1>2. want \in Content /\ None \in Content
  BY DEF TypeOK, Content
<1>3. object = Absent => pc \in {"create", "update"} /\ ~Attached
  BY DEF Accepted, CreateAccepted, UpdateAccepted, EmptyAccepted, DeleteAccepted
<1>4. New(want).origin = "ours"
  BY DEF New
<1>5. object # Absent /\ Outcome # Absent => Outcome.origin = object.origin
  BY <1>1, <1>2 DEF Outcome
<1>6. object = Absent => Outcome.origin = "ours" /\ ~Attached
  BY <1>3, <1>4 DEF Outcome
<1>7. pc \in {"delete", "undo"} => Outcome = Absent \/ Attached
  BY DEF Outcome
<1> QED  BY <1>5, <1>6, <1>7 DEF Sound, Ours, OriginOK

LEMMA EndOrigin ==
    ASSUME OriginOK, NEW how, NEW o \in Object \cup {Absent}, NEW s, End(how, o, s),
           Sound(o), Within \/ Fault
    PROVE  OriginOK'
<1>1. pc' = "idle" /\ state' = s /\ UNCHANGED <<kind, named>>
  BY Kept DEF End
<1>2. CASE Lost(o, s) /\ named
  <2>1. object'.origin = "lost"
    BY <1>2 DEF End, Lost, Object
  <2> QED  BY <1>1, <1>2, <2>1 DEF OriginOK, Attached
<1>3. CASE Lost(o, s) /\ ~named
  <2>1. object' = Absent
    BY <1>3 DEF End
  <2> QED  BY <1>1, <2>1 DEF OriginOK, Attached
<1>4. CASE ~Lost(o, s)
  <2>1. object' = o
    BY <1>4 DEF End
  <2> QED  BY <1>1, <1>4, <2>1 DEF OriginOK, Attached, Lost, Sound, Ours
<1> QED  BY <1>2, <1>3, <1>4

LEMMA MoveOrigin ==
    ASSUME OriginOK, NEW label, NEW o, Move(label, o), Sound(o), Within \/ Fault,
           Ours(o) /\ state' = Absent => label \in {"second", "undo", "readCreated"},
           label = "get" /\ state' = Absent => ~(kind.checked /\ named),
           label = "create" /\ kind.checked /\ ~Attached => o = Absent
    PROVE  OriginOK'
<1>1. pc' = label /\ object' = o /\ UNCHANGED <<kind, named>>
  BY Kept DEF Move
<1> QED  BY <1>1 DEF OriginOK, Attached, Sound, Ours

LEMMA DeletedOrigin ==
    ASSUME OriginOK, NEW o \in Object \cup {Absent}, Deleted(o), Sound(o),
           o = Absent \/ Attached, Within \/ Fault
    PROVE  OriginOK'
<1>1. CASE End("ok", o, Absent)
  BY <1>1, EndOrigin
<1>2. CASE Move(CreateFrom, o) /\ state' = Absent
  BY <1>2, MoveOrigin DEF CreateFrom, Sound, Ours
<1> QED  BY <1>1, <1>2 DEF Deleted

LEMMA FailsOrigin ==
    ASSUME TypeOK, ControlOK, OriginOK, NEW o \in Object \cup {Absent}, Sound(o),
           Fails(o), Within \/ Fault
    PROVE  OriginOK'
<1>1. CASE Swallowed /\ Forgets(o)
  <2>1. Attached
    BY <1>1, KindFacts DEF Swallowed
  <2>2. CASE Move("plan", o) /\ state' = Absent
    BY <2>1, <2>2, MoveOrigin DEF Sound
  <2> QED  BY <1>1, <2>2, EndOrigin DEF Forgets
<1>2. CASE Swallowed /\ Swallows(o)
  <2>1. Attached
    BY <1>2, KindFacts DEF Swallowed
  <2> QED  BY <1>2, <2>1, EndOrigin, DeletedOrigin DEF Swallows
<1>3. CASE Move("undo", o) /\ UNCHANGED <<state, function>>
  BY <1>3, MoveOrigin
<1>4. CASE pc = "update" /\ Move("clear", o) /\ UNCHANGED <<state, fetched>>
  <2>1. state' # Absent
    BY <1>4 DEF ControlOK, Changing
  <2> QED  BY <1>4, <2>1, MoveOrigin
<1>5. CASE End("error", o, FailedState)
  BY <1>5, EndOrigin
<1> QED  BY <1>1, <1>2, <1>3, <1>4, <1>5 DEF Fails

LEMMA OriginStep ==
    ASSUME TypeOK, ControlOK, OriginOK, [Next]_vars
    PROVE  OriginOK'
<1>o. object \in Object \cup {Absent} /\ (Accepted => Outcome \in Object \cup {Absent})
  BY OutcomeType DEF TypeOK
<1>s. Sound(object)
  BY DEF Sound, Ours, OriginOK
<1>a. Accepted => Sound(Outcome)
  BY OutcomeOrigin
<1>r. /\ Read \in Object \cup {Absent} /\ Sound(Read)
      /\ Ours(Read) => Ours(object)
      /\ object = Absent => Read = Absent
  <2>1. CASE object = Absent
    BY <2>1 DEF Read, Sound, Ours
  <2>2. CASE object \in Object /\ object # Absent
    <3>1. Read \in Object /\ Read.origin = object.origin
      BY <2>2, WithSeen DEF Read, Object
    <3> QED  BY <1>s, <2>2, <3>1 DEF Sound, Ours
  <2> QED  BY <1>o, <2>1, <2>2
<1>n. state = Absent /\ pc \notin {"create", "second", "undo", "readCreated"} => ~Ours(object)
  BY DEF OriginOK, Ours
<1>1. CASE Plan
  <2>1. CASE Move(FirstCall, object) /\ UNCHANGED <<state, function>>
    <3>1. Ours(object) /\ state' = Absent => FALSE
      BY <1>1, <1>n, <2>1 DEF Plan
    <3>2. state # Absent => FirstCall \notin {"create", "check"}
      BY DEF FirstCall, UpdateFrom, DeleteFrom
    <3>3. state = Absent => FirstCall = CreateFrom
      BY DEF FirstCall
    <3>4. FirstCall = "get" /\ state' = Absent => ~(kind.checked /\ named)
      BY <2>1, <3>3 DEF CreateFrom
    <3>5. FirstCall = "create" /\ kind.checked /\ ~Attached => object = Absent
      <4>1. FirstCall = "create" => state = Absent /\ ~(kind.checked /\ named)
        BY <3>2, <3>3 DEF CreateFrom
      <4> QED  BY <1>1, <1>n, <1>s, <4>1 DEF Plan, Sound, Ours
    <3> QED  BY <1>1, <1>s, <2>1, <3>1, <3>4, <3>5, MoveOrigin DEF Plan
  <2> QED  BY <1>1, <2>1, <1>o, <1>s, EndOrigin DEF Plan
<1>2. CASE ReadFinds
  <2>1. CASE pc = "refresh" /\ Move("plan", Read) /\ state' = Copied(state.tainted)
    <3>1. state.tainted \in BOOLEAN
      BY <2>1 DEF ControlOK, TypeOK, Resource
    <3>2. object # Absent
      BY <1>2 DEF ReadFinds, Visible
    <3>3. state' # Absent
      BY <2>1, <3>1, <3>2, StateTypes, Constants DEF ControlOK
    <3> QED  BY <1>2, <1>r, <2>1, <3>3, MoveOrigin DEF ReadFinds
  <2> QED  BY <1>2, <2>1, <1>r, EndOrigin DEF ReadFinds
<1>3. CASE ReadMisses
  <2>1. ~Ours(object)
    BY <1>3, <1>s DEF ReadMisses, Visible, Sound, Ours
  <2> QED  BY <1>3, <2>1, <1>o, <1>s, EndOrigin, MoveOrigin DEF ReadMisses, Forgets
<1>4. CASE Check
  <2>1. CASE NameFree /\ Move("create", Read) /\ UNCHANGED <<state, refused>>
    <3>1. ~Attached => Read = Absent
      BY <1>r, <2>1 DEF NameFree, Visible
    <3>2. ~Ours(Read)
      BY <1>r, <3>1 DEF Ours, Sound
    <3> QED  BY <1>4, <1>r, <2>1, <3>1, <3>2, MoveOrigin DEF Check
  <2> QED  BY <1>4, <2>1, <1>o, <1>s, EndOrigin DEF Check
<1>5. CASE Get
  <2>1. CASE Move(AfterGet, Read) /\ UNCHANGED <<state, refused>>
    <3>1. Ours(Read) /\ state' = Absent => FALSE
      BY <1>5, <1>n, <1>r, <2>1 DEF Get, ControlOK, Deleting
    <3>2. AfterGet = "create" /\ kind.checked /\ ~Attached => Read = Absent
      BY <1>5, <1>n, <1>s, <1>r DEF Get, AfterGet, OriginOK, Sound, Ours
    <3> QED  BY <1>5, <1>r, <2>1, <3>1, <3>2, MoveOrigin DEF Get, AfterGet
  <2> QED  BY <1>5, <1>o, <1>s, <2>1, FailsOrigin DEF Get
<1>6. CASE Write
  <2>1. CASE Move(NextCall, Outcome) /\ UNCHANGED <<state, function>>
    BY <1>6, <1>a, <2>1, MoveOrigin DEF Write, NextCall, ControlOK, Changing
  <2> QED  BY <1>6, <1>o, <1>a, <2>1, EndOrigin DEF Write
<1>7. CASE WriteRefused
  BY <1>7, <1>o, <1>s, FailsOrigin DEF WriteRefused
<1>8. CASE Clear
  <2>1. CASE Move("readUpdated", object) /\ UNCHANGED <<state, function>>
    BY <1>8, <1>s, <2>1, MoveOrigin DEF Clear, ControlOK, Changing
  <2> QED  BY <1>8, <2>1, <1>o, <1>s, <1>a, EndOrigin DEF Clear
<1>9. CASE Second
  <2>1. CASE Move("readCreated", object) /\ UNCHANGED <<state, function>>
    BY <1>9, <1>s, <2>1, MoveOrigin DEF Second
  <2> QED  BY <1>9, <1>o, <1>s, <2>1, FailsOrigin DEF Second
<1>10. CASE Undo
  BY <1>10, <1>o, <1>s, <1>a, EndOrigin DEF Undo
<1>11. CASE WaitBefore
  <2>1. ASSUME NEW o, Sound(o), Move("delete", o), UNCHANGED <<state, function>>
        PROVE  OriginOK'
    BY <1>11, <2>1, MoveOrigin DEF WaitBefore, ControlOK, Deleting
  <2> QED  BY <1>11, <1>o, <1>s, <1>a, <2>1, FailsOrigin DEF WaitBefore
<1>12. CASE Delete
  <2>1. CASE Deleted(object) /\ kind.delete = "keep"
    BY <1>12, <1>o, <1>s, <2>1, DeletedOrigin DEF Delete, Attached
  <2>2. CASE Accepted /\ Deleted(Outcome)
    BY <1>12, <1>o, <1>a, <2>2, OutcomeOrigin, DeletedOrigin DEF Delete
  <2>3. CASE Accepted /\ Move("gone", Outcome) /\ UNCHANGED <<state, function>>
    BY <1>12, <1>a, <2>3, MoveOrigin DEF Delete, ControlOK, Deleting
  <2> QED  BY <1>12, <2>1, <2>2, <2>3 DEF Delete
<1>13. CASE DeleteRefused
  BY <1>13, <1>o, <1>s, DeletedOrigin, EndOrigin DEF DeleteRefused
<1>14. CASE WaitAfter
  BY <1>14, <1>o, <1>s, DeletedOrigin, EndOrigin DEF WaitAfter
<1>15. CASE SentAgain
  <2>1. UNCHANGED <<kind, named, pc, state>> /\ tries' > 0
    BY <1>15, Kept DEF SentAgain, function, TypeOK
  <2>2. CASE object' = Absent
    BY <2>1, <2>2 DEF OriginOK, Attached
  <2>3. CASE object' = Outcome
    <3>1. Accepted
      BY <1>15 DEF SentAgain
    <3>2. state = Absent => pc \in {"create", "undo"}
      BY <3>1 DEF Accepted, ControlOK, Changing, Deleting
    <3> QED
      BY <2>1, <2>3, <3>1, <3>2, <1>a, OutcomeOrigin DEF OriginOK, Attached, Sound, Ours
  <2> QED  BY <1>15, <2>2, <2>3 DEF SentAgain
<1>16. CASE CallFails
  <2>1. ASSUME InHalves, NEW v \in Value, Fails(Half(v))
        PROVE  OriginOK'
    <3>1. Half(v) \in Object /\ Sound(Half(v))
      BY <1>a, <2>1, HalfWritten DEF Sound, Ours
    <3> QED  BY <1>16, <2>1, <3>1, FailsOrigin DEF CallFails
  <2> QED  BY <1>16, <1>o, <1>s, <1>a, <2>1, FailsOrigin DEF CallFails
<1>17. CASE Unrealized
  <2>1. Sound(Absent)
    BY DEF Sound, Ours
  <2> QED  BY <1>17, <2>1, <1>o, <1>s, EndOrigin DEF Unrealized
<1>18. CASE Kill
  BY <1>18, <1>o, <1>s, EndOrigin DEF Kill
<1>19. CASE OtherChanges
  <2>1. UNCHANGED <<kind, named, pc, state, tries>>
    BY <1>19 DEF OtherChanges, Other, choice
  <2>2. object' # Absent => object'.origin = object.origin
    BY <1>19, <1>o DEF OtherChanges, Object
  <2>3. object # Absent
    BY <1>19 DEF OtherChanges
  <2> QED  BY <2>1, <2>2, <2>3 DEF OriginOK, Attached
<1>20. CASE OtherDeletes
  BY <1>20 DEF OtherDeletes, Other, choice, OriginOK, Attached
<1>21. CASE OtherCreates
  <2>1. UNCHANGED <<kind, named, pc, state, tries>> /\ object'.origin = "during" /\ named
    BY <1>21 DEF OtherCreates, Other, choice
  <2> QED  BY <2>1 DEF OriginOK, Attached
<1>22. ASSUME NEW refresh \in BOOLEAN, BeginAgain(refresh) \/ BeginEdited(refresh)
       PROVE  OriginOK'
  <2>1. /\ UNCHANGED <<kind, named, state>>
        /\ pc = "idle" /\ pc' \in {"refresh", "plan"}
    BY <1>22 DEF BeginAgain, BeginEdited, Begin, choice
  <2>2. \/ object' = object
        \/ object # Absent /\ object.origin = "during" /\ object' = [object EXCEPT !.origin = "before"]
    BY <1>22 DEF BeginAgain, BeginEdited, Begin
  <2>3. CASE object' = object
    BY <2>1, <2>3 DEF OriginOK, Attached
  <2>4. CASE object # Absent /\ object.origin = "during" /\ object' = [object EXCEPT !.origin = "before"]
    <3>1. object'.origin = "before"
      BY <1>o, <2>4 DEF Object
    <3> QED  BY <2>1, <2>4, <3>1 DEF OriginOK, Attached
  <2> QED  BY <2>2, <2>3, <2>4
<1>23. CASE Import
  BY <1>23, Kept DEF Import, nsx, OriginOK, Attached
<1>24. CASE UNCHANGED vars
  BY <1>24 DEF vars, choice, nsx, OriginOK, Attached
<1> QED
  BY <1>1, <1>2, <1>3, <1>4, <1>5, <1>6, <1>7, <1>8, <1>9, <1>10, <1>11, <1>12, <1>13,
     <1>14, <1>15, <1>16, <1>17, <1>18, <1>19, <1>20, <1>21, <1>22, <1>23, <1>24
     DEF Next, Progress, Disturbance

-----------------------------------------------------------------------------
(***************************************************************************)
(* SeenOK.                                                                 *)
(***************************************************************************)
SendsRevision == kind.update = "revised" /\ kind.second # "clear"

\* The object o goes with a resource in the state that has this revision.
Fits(revision, o) ==
    /\ SendsRevision => Behind(revision, o)
    /\ Attached /\ o # Absent => o.seen # "never"

\* A write that is accepted leaves an object that has been seen.
LEMMA OutcomeSeen ==
    ASSUME TypeOK, ControlOK, SeenOK, Accepted
    PROVE  /\ Behind(0, Outcome)
           /\ Attached /\ Outcome # Absent => Outcome.seen # "never"
           /\ state # Absent => Fits(state.rev, Outcome)
           /\ kind.update = "reread" /\ pc = "update" => Behind(fetched, Outcome)
<1>1. want \in Content /\ None \in Content
  BY DEF TypeOK, Content
<1>2. ASSUME object # Absent, NEW v \in Content
      PROVE  /\ Written(v).seen = "current" /\ Written(v).rev = object.rev + 1
             /\ object.rev \in Nat /\ object.seen \in {"never", "current", "outdated"}
  BY <1>2, WrittenObject DEF TypeOK, Object
<1>3. New(want).seen = "current" /\ New(want).rev = 0
  BY DEF New
<1>4. object = Absent => pc \in {"create", "update"}
  BY DEF Accepted, CreateAccepted, UpdateAccepted, EmptyAccepted, DeleteAccepted
<1>5. Outcome # Absent => Outcome.seen = "current" /\ Outcome.rev \in Nat
  BY <1>1, <1>2, <1>3, <1>4 DEF Outcome
<1>6. Behind(0, Outcome)
  BY <1>5 DEF Behind
<1>7. ASSUME object # Absent, NEW v \in Content, NEW r \in Nat,
             r = object.rev \/ (Behind(r, object) /\ object.seen # "never")
      PROVE  Behind(r, Written(v))
  BY <1>2, <1>7 DEF Behind
<1>8. state # Absent => state.rev \in Nat
  BY DEF TypeOK, Resource
<1>9. ASSUME state # Absent, SendsRevision
      PROVE  Behind(state.rev, Outcome)
  <2>1. pc \in {"update", "wait", "delete"}
    BY <1>9 DEF Accepted, ControlOK, Creating, SendsRevision
  <2>2. CASE pc = "update"
    <3>1. object # Absent /\ object.rev = state.rev
      BY <1>9, <2>2 DEF Accepted, UpdateAccepted, SendsRevision, Fresh
    <3> QED  BY <1>1, <1>7, <1>8, <1>9, <2>2, <3>1 DEF Outcome
  <2>3. CASE pc = "wait"
    <3>1. object # Absent /\ object.rev = state.rev
      BY <2>3 DEF Accepted, EmptyAccepted, Fresh
    <3> QED  BY <1>1, <1>7, <1>8, <1>9, <2>3, <3>1 DEF Outcome
  <2>4. CASE pc = "delete" /\ Attached
    <3>1. object # Absent /\ object.seen # "never" /\ Behind(state.rev, object)
      BY <1>4, <1>9, <2>4 DEF SeenOK, SendsRevision
    <3> QED  BY <1>1, <1>7, <1>8, <1>9, <2>4, <3>1 DEF Outcome
  <2>5. CASE pc = "delete" /\ ~Attached
    BY <2>5 DEF Outcome, Behind
  <2> QED  BY <2>1, <2>2, <2>3, <2>4, <2>5
<1>10. ASSUME kind.update = "reread", pc = "update"
      PROVE  Behind(fetched, Outcome)
  <2>1. object # Absent /\ object.rev = fetched /\ fetched \in Nat
    BY <1>10 DEF Accepted, UpdateAccepted, Fresh, TypeOK
  <2> QED  BY <1>1, <1>7, <1>10, <2>1 DEF Outcome
<1> QED  BY <1>5, <1>6, <1>9, <1>10 DEF Fits

LEMMA EndSeen ==
    ASSUME SeenOK, NEW how, NEW o \in Object \cup {Absent}, NEW s, End(how, o, s),
           Behind(0, o), s # Absent => Fits(s.rev, o), Within \/ Fault
    PROVE  SeenOK'
<1>1. pc' = "idle" /\ state' = s /\ UNCHANGED kind
  BY Kept DEF End
<1>2. object' = Absent \/ (object' # Absent /\ o # Absent /\ object'.rev = o.rev /\ object'.seen = o.seen)
  <2>1. CASE object' = [o EXCEPT !.origin = "lost"] /\ o \in Object /\ o # Absent
    BY <2>1 DEF Object
  <2> QED  BY <2>1 DEF End, Lost
<1>3. ASSUME NEW r, Behind(r, o)
      PROVE  Behind(r, object')
  BY <1>2, <1>3 DEF Behind
<1> QED  BY <1>1, <1>2, <1>3 DEF SeenOK, Fits, SendsRevision, Attached

LEMMA MoveSeen ==
    ASSUME SeenOK, NEW label, NEW o, Move(label, o),
           Behind(0, o), state' # Absent => Fits(state'.rev, o), Within \/ Fault,
           label \in {"get", "getPart"} => kind.update # "revised",
           label = "update" => kind.update # "reread" \/ Behind(fetched', o),
           label \in {"second", "readCreated"} /\ Attached /\ o # Absent => o.seen # "never"
    PROVE  SeenOK'
<1>1. pc' = label /\ object' = o /\ UNCHANGED kind
  BY Kept DEF Move
<1> QED  BY <1>1 DEF SeenOK, Fits, SendsRevision, Attached

\* What a call leaves that failed, or a deletion.
LEMMA LooksUpSeen ==
    ASSUME TypeOK, LooksUp
    PROVE  kind.update # "revised"
BY KindFacts DEF LooksUp

LEMMA DeletedSeen ==
    ASSUME TypeOK, SeenOK, NEW o \in Object \cup {Absent}, Deleted(o), Behind(0, o),
           Within \/ Fault
    PROVE  SeenOK'
<1>1. CASE End("ok", o, Absent)
  BY <1>1, EndSeen
<1>2. CASE Move(CreateFrom, o) /\ state' = Absent
  BY <1>2, MoveSeen, LooksUpSeen DEF CreateFrom
<1> QED  BY <1>1, <1>2 DEF Deleted

LEMMA FailedStateFits ==
    ASSUME TypeOK, ControlOK, NEW o, Behind(0, o), state # Absent => Fits(state.rev, o),
           pc = "readCreated" /\ Attached /\ o # Absent => o.seen # "never",
           FailedState # Absent
    PROVE  Fits(FailedState.rev, o)
<1>1. CASE pc = "readCreated"
  BY <1>1 DEF FailedState, Tainted, Fits
<1>2. CASE FailedState = Unapplied /\ state # Absent
  BY <1>2 DEF Unapplied, TypeOK, Resource
<1>3. CASE FailedState = state
  BY <1>3
<1> QED  BY <1>1, <1>2, <1>3 DEF FailedState, ControlOK, Changing

LEMMA FailsSeen ==
    ASSUME TypeOK, ControlOK, SeenOK, NEW o \in Object \cup {Absent}, Behind(0, o),
           state # Absent => Fits(state.rev, o),
           pc = "readCreated" /\ Attached /\ o # Absent => o.seen # "never",
           Fails(o), Within \/ Fault
    PROVE  SeenOK'
<1>1. CASE Forgets(o)
  BY <1>1, MoveSeen, EndSeen DEF Forgets
<1>2. CASE Swallowed /\ Swallows(o)
  <2>1. state # Absent /\ Unapplied.rev = state.rev
    BY <1>2 DEF Swallowed, Unapplied, TypeOK, Resource
  <2> QED  BY <1>2, <2>1, EndSeen, DeletedSeen DEF Swallows
<1>3. CASE Move("undo", o) /\ UNCHANGED <<state, function>>
  BY <1>3, MoveSeen
<1>4. CASE Move("clear", o) /\ UNCHANGED <<state, fetched>>
  BY <1>4, MoveSeen
<1>5. CASE End("error", o, FailedState)
  BY <1>5, EndSeen, FailedStateFits
<1> QED  BY <1>1, <1>2, <1>3, <1>4, <1>5 DEF Fails

LEMMA SeenStep ==
    ASSUME TypeOK, ControlOK, SeenOK, [Next]_vars
    PROVE  SeenOK'
<1>o. object \in Object \cup {Absent} /\ (Accepted => Outcome \in Object \cup {Absent})
  BY OutcomeType DEF TypeOK
<1>s. /\ Behind(0, object)
      /\ state # Absent => Fits(state.rev, object)
      /\ pc \in {"second", "readCreated"} /\ Attached /\ object # Absent => object.seen # "never"
  BY DEF SeenOK, Fits, SendsRevision
<1>a. Accepted => /\ Behind(0, Outcome)
                  /\ state # Absent => Fits(state.rev, Outcome)
                  /\ Attached /\ Outcome # Absent => Outcome.seen # "never"
  BY OutcomeSeen
<1>r. /\ Read \in Object \cup {Absent} /\ Behind(0, Read)
      /\ object # Absent => Read.seen = "current" /\ Read.rev = object.rev /\ object.rev \in Nat
  <2>1. CASE object = Absent
    BY <2>1 DEF Read, Behind
  <2>2. CASE object \in Object /\ object # Absent
    <3>1. Read \in Object /\ Read.seen = "current" /\ Read.rev = object.rev /\ object.rev \in Nat
      BY <2>2, WithSeen DEF Read, Object
    <3> QED  BY <2>2, <3>1 DEF Behind
  <2> QED  BY <1>o, <2>1, <2>2
<1>1. CASE Plan
  <2>1. CASE Move(FirstCall, object) /\ UNCHANGED <<state, function>>
    <3>1. FirstCall \in {"get", "getPart"} => LooksUp
      BY DEF FirstCall, CreateFrom, UpdateFrom, DeleteFrom
    <3>2. FirstCall = "update" => kind.update # "reread"
      BY DEF FirstCall, CreateFrom, UpdateFrom, DeleteFrom, LooksUp
    <3>3. FirstCall \notin {"second", "readCreated"}
      BY DEF FirstCall, CreateFrom, UpdateFrom, DeleteFrom
    <3> QED  BY <1>1, <1>s, <2>1, <3>1, <3>2, <3>3, LooksUpSeen, MoveSeen DEF Plan
  <2> QED  BY <1>1, <2>1, <1>o, <1>s, EndSeen DEF Plan
<1>2. CASE ReadFinds
  <2>1. object # Absent
    BY <1>2 DEF ReadFinds, Visible
  <2>2. \A t : Copied(t).rev = object.rev
    BY DEF Copied
  <2>3. \A t : Fits(Copied(t).rev, Read)
    BY <1>r, <2>1, <2>2 DEF Fits, Behind
  <2>4. CASE Move("plan", Read) /\ state' = Copied(state.tainted)
    BY <1>2, <1>r, <2>3, <2>4, MoveSeen DEF ReadFinds
  <2> QED  BY <1>2, <2>3, <2>4, <1>r, EndSeen DEF ReadFinds
<1>3. CASE ReadMisses
  BY <1>3, <1>o, <1>s, EndSeen, MoveSeen, FailedStateFits DEF ReadMisses, Forgets
<1>4. CASE Check
  <2>1. CASE Move("create", Read) /\ UNCHANGED <<state, refused>>
    BY <1>4, <1>r, <2>1, MoveSeen DEF Check, ControlOK, Creating
  <2> QED  BY <1>4, <2>1, <1>o, <1>s, EndSeen DEF Check
<1>5. CASE Get
  <2>1. CASE object # Absent /\ Move(AfterGet, Read) /\ fetched' = object.rev
                  /\ UNCHANGED <<state, refused>>
    <3>1. Behind(fetched', Read)
      BY <1>r, <2>1 DEF Behind
    <3>2. state # Absent => Fits(state.rev, Read)
      BY <1>5, <1>r, <2>1 DEF Get, SeenOK, Fits, SendsRevision
    <3> QED  BY <1>5, <1>r, <2>1, <3>1, <3>2, MoveSeen DEF Get, AfterGet
  <2> QED  BY <1>5, <1>o, <1>s, <2>1, FailsSeen DEF Get, Visible
<1>6. CASE Write
  <2>1. CASE Move(NextCall, Outcome) /\ UNCHANGED <<state, function>>
    BY <1>6, <1>a, <2>1, MoveSeen DEF Write, NextCall
  <2>2. CASE pc = "update" /\ End("ok", Outcome, Unapplied)
    <3>1. state # Absent /\ Unapplied.rev = state.rev
      BY <2>2 DEF ControlOK, Changing, Unapplied, TypeOK, Resource
    <3> QED  BY <1>6, <1>o, <1>a, <2>2, <3>1, EndSeen DEF Write
  <2> QED  BY <1>6, <2>1, <2>2 DEF Write
<1>7. CASE WriteRefused
  BY <1>7, <1>o, <1>s, FailsSeen DEF WriteRefused
<1>8. CASE Clear
  <2>1. CASE Move("readUpdated", object) /\ UNCHANGED <<state, function>>
    BY <1>8, <1>s, <2>1, MoveSeen DEF Clear
  <2>2. CASE End("error", object, FailedState)
    BY <1>8, <1>o, <1>s, <2>2, EndSeen, FailedStateFits DEF Clear
  <2>3. CASE Accepted /\ End("error", Outcome, FailedState)
    BY <1>8, <1>o, <1>a, <2>3, EndSeen, FailedStateFits DEF Clear
  <2> QED  BY <1>8, <2>1, <2>2, <2>3 DEF Clear
<1>9. CASE Second
  <2>1. CASE Move("readCreated", object) /\ UNCHANGED <<state, function>>
    BY <1>9, <1>s, <2>1, MoveSeen DEF Second
  <2> QED  BY <1>9, <1>o, <1>s, <2>1, FailsSeen DEF Second
<1>10. CASE Undo
  BY <1>10, <1>o, <1>s, <1>a, EndSeen DEF Undo
<1>11. CASE WaitBefore
  <2>1. CASE Move("delete", object) /\ UNCHANGED <<state, function>>
    BY <1>11, <1>s, <2>1, MoveSeen DEF WaitBefore
  <2>2. CASE Accepted /\ Move("delete", Outcome) /\ UNCHANGED <<state, function>>
    BY <1>11, <1>a, <2>2, MoveSeen DEF WaitBefore
  <2> QED  BY <1>11, <1>o, <1>s, <2>1, <2>2, FailsSeen DEF WaitBefore
<1>12. CASE Delete
  <2>1. CASE Accepted /\ Move("gone", Outcome) /\ UNCHANGED <<state, function>>
    BY <1>12, <1>a, <2>1, MoveSeen DEF Delete
  <2> QED  BY <1>12, <1>o, <1>s, <1>a, <2>1, DeletedSeen DEF Delete
<1>13. CASE DeleteRefused
  BY <1>13, <1>o, <1>s, DeletedSeen, EndSeen DEF DeleteRefused
<1>14. CASE WaitAfter
  BY <1>14, <1>o, <1>s, DeletedSeen, EndSeen DEF WaitAfter
<1>15. CASE SentAgain
  <2>1. UNCHANGED <<kind, pc, state, fetched>> /\ Accepted
    BY <1>15, Kept DEF SentAgain, function
  <2>2. CASE object' = Absent
    BY <2>1, <2>2 DEF SeenOK, Attached, Behind
  <2>3. CASE object' = Outcome
    BY <2>1, <2>3, OutcomeSeen DEF SeenOK, Attached, Fits, SendsRevision
  <2> QED  BY <1>15, <2>2, <2>3 DEF SentAgain
<1>16. CASE CallFails
  <2>1. CASE Fails(object)
    BY <1>16, <1>o, <1>s, <2>1, FailsSeen DEF CallFails
  <2>2. CASE Accepted /\ Fails(Outcome)
    BY <1>16, <1>o, <1>a, <2>2, FailsSeen DEF CallFails
  <2>3. ASSUME InHalves, NEW v \in Value, Fails(Half(v))
        PROVE  SeenOK'
    <3>1. Half(v) \in Object /\ Behind(0, Half(v)) /\ Half(v).seen = Outcome.seen
          /\ (state # Absent => Fits(state.rev, Half(v)))
      BY <1>a, <2>3, HalfWritten DEF Behind, Fits
    <3>2. pc # "readCreated"
      BY <2>3 DEF InHalves
    <3> QED  BY <1>16, <2>3, <3>1, <3>2, FailsSeen DEF CallFails
  <2> QED  BY <1>16, <2>1, <2>2, <2>3 DEF CallFails
<1>17. CASE Unrealized
  <2>1. \A r : Behind(r, Absent) /\ Fits(r, Absent)
    BY DEF Behind, Fits
  <2> QED  BY <1>17, <2>1, <1>o, <1>s, EndSeen, FailedStateFits DEF Unrealized
<1>18. CASE Kill
  BY <1>18, <1>o, <1>s, EndSeen DEF Kill
<1>19. CASE OtherChanges
  <2>1. UNCHANGED <<kind, pc, state, fetched>>
    BY <1>19 DEF OtherChanges, Other, choice, function
  <2>2. object # Absent /\ object.rev \in Nat /\ object.seen \in {"never", "current", "outdated"}
    BY <1>19, <1>o DEF OtherChanges, Object
  <2>3. /\ object'.rev = object.rev + 1
        /\ object'.seen = IF object.seen = "current" THEN "outdated" ELSE object.seen
    BY <1>19, <1>o, <2>2 DEF OtherChanges, Object
  <2>4. ASSUME NEW r \in Nat, Behind(r, object)
        PROVE  Behind(r, object')
    BY <2>2, <2>3, <2>4 DEF Behind
  <2>5. (state # Absent => state.rev \in Nat) /\ fetched \in Nat
    BY DEF TypeOK, Resource
  <2>6. object.seen # "never" => object'.seen # "never"
    BY <2>3
  <2> QED  BY <2>1, <2>2, <2>4, <2>5, <2>6 DEF SeenOK, Attached
<1>20. CASE OtherDeletes
  <2>1. object' = Absent /\ UNCHANGED <<kind, pc, state, fetched>>
    BY <1>20 DEF OtherDeletes, Other, choice, function
  <2> QED  BY <2>1 DEF SeenOK, Attached, Behind
<1>21. CASE OtherCreates
  <2>1. /\ UNCHANGED <<kind, pc, state, fetched>>
        /\ object'.seen = "never" /\ ~Attached
    BY <1>21 DEF OtherCreates, Other, choice, function
  <2> QED  BY <2>1 DEF SeenOK, Attached, Behind
<1>22. ASSUME NEW refresh \in BOOLEAN, BeginAgain(refresh) \/ BeginEdited(refresh)
       PROVE  SeenOK'
  <2>1. UNCHANGED <<kind, state>> /\ pc' \in {"refresh", "plan"}
    BY <1>22 DEF BeginAgain, BeginEdited, Begin, choice
  <2>2. \/ object' = object
        \/ object # Absent /\ object' = [object EXCEPT !.origin = "before"]
    BY <1>22 DEF BeginAgain, BeginEdited, Begin
  <2>3. CASE object' = object
    BY <2>1, <2>3 DEF SeenOK, Attached
  <2>4. CASE object # Absent /\ object' = [object EXCEPT !.origin = "before"]
    <3>1. object'.rev = object.rev /\ object'.seen = object.seen
      BY <1>o, <2>4 DEF Object
    <3>2. \A r : Behind(r, object) => Behind(r, object')
      BY <2>4, <3>1 DEF Behind
    <3> QED  BY <2>1, <2>4, <3>1, <3>2 DEF SeenOK, Attached
  <2> QED  BY <2>2, <2>3, <2>4
<1>23. CASE Import
  BY <1>23, Kept DEF Import, nsx, SeenOK, Attached
<1>24. CASE UNCHANGED vars
  BY <1>24 DEF vars, choice, nsx, function, SeenOK, Attached
<1> QED
  BY <1>1, <1>2, <1>3, <1>4, <1>5, <1>6, <1>7, <1>8, <1>9, <1>10, <1>11, <1>12, <1>13,
     <1>14, <1>15, <1>16, <1>17, <1>18, <1>19, <1>20, <1>21, <1>22, <1>23, <1>24
     DEF Next, Progress, Disturbance

-----------------------------------------------------------------------------
(***************************************************************************)
(* SecretOK.                                                               *)
(***************************************************************************)
LEMMA ReadSecret ==
    ASSUME TypeOK, object # Absent
    PROVE  Read.secret = object.secret
BY DEF TypeOK, Read, Object

\* What a write makes of it: it is sent, or left as it was.
LEMMA OutcomeSecret ==
    ASSUME TypeOK, ControlOK, SecretOK, Accepted
    PROVE  /\ Sends /\ Outcome # Absent => Outcome.secret = secret
           /\ ~Sends /\ Outcome # Absent /\ Outcome.secret # None =>
                 object # Absent /\ Outcome.secret = object.secret
           /\ SecretOf(Outcome)
<1>1. want \in Content /\ None \in Content
  BY DEF TypeOK, Content
<1>2. object = Absent => Outcome = New(want)
  BY DEF Outcome, Accepted, CreateAccepted, UpdateAccepted, EmptyAccepted, DeleteAccepted
<1>3. object # Absent /\ Outcome # Absent => \E v \in Content : Outcome = Written(v)
  BY <1>1 DEF Outcome
<1>4. Sends /\ Outcome # Absent => Outcome.secret = secret
  BY <1>2, <1>3, NewObject, WrittenObject
<1>5. ~Sends /\ Outcome # Absent /\ Outcome.secret # None =>
          object # Absent /\ Outcome.secret = object.secret
  BY <1>2, <1>3, NewObject, WrittenObject
<1>6. SecretOf(Outcome)
  <2>1. pc \notin {"second", "readCreated", "readUpdated"}
    BY DEF Accepted
  <2>2. pc = "create" => state = Absent
    BY DEF ControlOK, Creating
  <2>3. CASE Sends
    BY <1>4, <2>1, <2>2, <2>3 DEF Sends, SecretOf
  <2>4. CASE ~Sends
    BY <1>5, <2>1, <2>4 DEF SecretOK, SecretOf
  <2> QED  BY <2>3, <2>4
<1> QED  BY <1>4, <1>5, <1>6

LEMMA EndSecret ==
    ASSUME NEW how, NEW o \in Object \cup {Absent}, NEW s, End(how, o, s),
           Within \/ Fault,
           kind.hides # "nothing" /\ ~doubt /\ ~LeavesDoubt(how)
               /\ o # Absent /\ o.secret # None /\ s # Absent
               => s.secret \in {None, o.secret}
    PROVE  SecretOK'
<1>1. pc' = "idle" /\ state' = s /\ doubt' = (doubt \/ LeavesDoubt(how)) /\ kind' = kind
  BY Kept DEF End
<1>2. s # Absent => object' = o
  BY DEF End, Lost
<1> QED  BY <1>1, <1>2 DEF SecretOK, SecretOf

LEMMA MoveSecret ==
    ASSUME NEW label, NEW o, Move(label, o), Within \/ Fault,
           kind.hides # "nothing" /\ (~doubt \/ Sends) /\ o # Absent /\ o.secret # None =>
               /\ state' # Absent /\ label # "readUpdated" =>
                     \/ state'.secret \in {None, o.secret}
                     \/ label = "update" /\ o.secret = secret
               /\ label \in {"second", "readCreated", "readUpdated"} => o.secret = secret
    PROVE  SecretOK'
<1>1. pc' = label /\ object' = o /\ doubt' = (doubt /\ ~Sends) /\ kind' = kind /\ secret' = secret
  BY Kept DEF Move
<1>2. ~doubt' => ~doubt \/ Sends
  BY <1>1
<1> QED  BY <1>1, <1>2 DEF SecretOK, SecretOf

LEMMA DeletedSecret ==
    ASSUME NEW o \in Object \cup {Absent}, Deleted(o), Within \/ Fault
    PROVE  SecretOK'
<1>1. CASE End("ok", o, Absent)
  BY <1>1, EndSecret
<1>2. CASE Move(CreateFrom, o) /\ state' = Absent
  BY <1>2, MoveSecret DEF CreateFrom
<1> QED  BY <1>1, <1>2 DEF Deleted

\* The state a failed function leaves agrees with the object, or there is a doubt.
LEMMA FailedStateSecret ==
    ASSUME TypeOK, ControlOK, NEW o, SecretOf(o),
           kind.hides # "nothing", ~doubt, ~LeavesDoubt("error"),
           o # Absent, o.secret # None, FailedState # Absent
    PROVE  FailedState.secret \in {None, o.secret}
<1>1. CASE pc = "readCreated"
  BY <1>1 DEF FailedState, Tainted, SecretOf
<1>2. CASE pc = "readUpdated"
  <2>1. Unapplied.secret = secret
    BY <1>2 DEF Unapplied, ControlOK, Changing, TypeOK, Resource
  <2> QED  BY <1>2, <2>1 DEF FailedState, SecretOf
<1>3. CASE pc \in {"update", "clear"} \/ (pc = "get" /\ state # Absent)
  <2>1. state # Absent /\ state.secret = secret
    BY <1>3 DEF LeavesDoubt, ControlOK, Changing
  <2>2. Unapplied.secret = secret
    BY <2>1 DEF Unapplied, TypeOK, Resource
  <2>3. secret \in {None, o.secret}
    BY <1>3, <2>1 DEF SecretOf
  <2> QED  BY <1>3, <2>1, <2>2, <2>3 DEF FailedState
<1>4. CASE pc \notin {"readCreated", "readUpdated", "update", "clear"}
             /\ ~(pc = "get" /\ state # Absent)
  BY <1>4 DEF FailedState, SecretOf
<1> QED  BY <1>1, <1>2, <1>3, <1>4

LEMMA FailsSecret ==
    ASSUME TypeOK, ControlOK, NEW o \in Object \cup {Absent}, SecretOf(o), Fails(o),
           Within \/ Fault
    PROVE  SecretOK'
<1>1. CASE pc = "refresh" /\ Move("plan", o) /\ state' = Absent
  BY <1>1, MoveSecret
<1>2. CASE End("error", o, Absent)
  BY <1>2, EndSecret
<1>3. CASE Swallowed /\ Swallows(o)
  <2>1. kind.hides = "nothing"
    BY <1>3, KindFacts DEF Swallowed
  <2> QED  BY <1>3, <2>1, EndSecret, DeletedSecret DEF Swallows
<1>4. CASE pc = "second" /\ Move("undo", o) /\ UNCHANGED <<state, function>>
  <2>1. state' = Absent
    BY <1>4 DEF ControlOK, Creating
  <2> QED  BY <1>4, <2>1, MoveSecret
<1>5. CASE kind.second = "clear" /\ Move("clear", o)
  <2>1. kind.hides = "nothing"
    BY <1>5, KindFacts
  <2> QED  BY <1>5, <2>1, MoveSecret
<1>6. CASE End("error", o, FailedState)
  BY <1>6, FailedStateSecret, EndSecret
<1> QED  BY <1>1, <1>2, <1>3, <1>4, <1>5, <1>6 DEF Fails, Forgets

LEMMA SecretStep ==
    ASSUME TypeOK, ControlOK, SecretOK, [Next]_vars
    PROVE  SecretOK'
<1>o. object \in Object \cup {Absent} /\ (Accepted => Outcome \in Object \cup {Absent})
  BY OutcomeType DEF TypeOK
<1>s. SecretOf(object) /\ (Accepted => SecretOf(Outcome))
  BY OutcomeSecret DEF SecretOK
<1>r. /\ Read \in Object \cup {Absent} /\ SecretOf(Read)
      /\ object # Absent => Read.secret = object.secret
  BY <1>o, StateTypes, ReadSecret DEF SecretOK, SecretOf
<1>m. ASSUME NEW label, NEW o, Move(label, o), UNCHANGED state, Within \/ Fault, SecretOf(o),
             pc \notin {"create", "update", "readUpdated"},
             label \in {"second", "readCreated", "readUpdated"} =>
                 pc \in {"second"} \/ kind.hides = "nothing"
      PROVE  SecretOK'
  <2>1. ~Sends
    BY <1>m DEF Sends
  <2> QED  BY <1>m, <2>1, MoveSecret DEF SecretOf
<1>e. ASSUME NEW o \in Object \cup {Absent}, NEW how, End(how, o, state),
             Within \/ Fault, SecretOf(o),
             pc \in {"update", "readUpdated"} => how \in {"error", "killed"}
      PROVE  SecretOK'
  <2>1. ASSUME kind.hides # "nothing", ~doubt, ~LeavesDoubt(how),
               o # Absent, o.secret # None, state # Absent
        PROVE  state.secret \in {None, o.secret}
    BY <1>e, <2>1 DEF LeavesDoubt, SecretOf
  <2> QED  BY <1>e, <2>1, EndSecret
<1>f. ASSUME NEW o \in Object \cup {Absent}, End("error", o, FailedState), Within \/ Fault, SecretOf(o)
      PROVE  SecretOK'
  BY <1>f, FailedStateSecret, EndSecret
<1>1. CASE Plan
  <2>1. CASE Move(FirstCall, object) /\ UNCHANGED state
    <3>1. FirstCall \notin {"second", "readCreated", "readUpdated"}
      BY DEF FirstCall, CreateFrom, UpdateFrom, DeleteFrom
    <3> QED  BY <1>1, <1>s, <1>m, <2>1, <3>1 DEF Plan
  <2> QED  BY <1>1, <1>o, <1>s, <1>e, <2>1 DEF Plan
<1>2. CASE ReadFinds
  <2>1. object # Absent /\ Within
    BY <1>2 DEF ReadFinds, Visible
  <2>2. \A t : Copied(t).secret = Remembered
    BY DEF Copied
  <2>3. CASE pc = "refresh" /\ Move("plan", Read) /\ state' = Copied(state.tainted)
    <3>1. state'.secret = state.secret /\ state # Absent
      BY <2>2, <2>3 DEF Remembered, ControlOK
    <3> QED  BY <1>r, <2>1, <2>3, <3>1, MoveSecret DEF SecretOf, Sends
  <2>4. CASE pc = "import" /\ End("none", Read, Copied(FALSE))
    BY <1>r, <2>1, <2>2, <2>4, EndSecret DEF Remembered
  <2>5. CASE pc \in {"readCreated", "readUpdated"} /\ End("ok", Read, Copied(FALSE))
    BY <1>r, <2>1, <2>2, <2>5, EndSecret DEF Remembered, SecretOf
  <2> QED  BY <1>2, <2>3, <2>4, <2>5 DEF ReadFinds
<1>3. CASE ReadMisses
  <2>1. CASE pc = "refresh" /\ Move("plan", object) /\ state' = Absent
    BY <1>3, <2>1, MoveSecret DEF ReadMisses
  <2>2. CASE End("error", object, Absent)
    BY <1>3, <1>o, <2>2, EndSecret DEF ReadMisses
  <2> QED  BY <1>3, <1>o, <1>s, <1>f, <2>1, <2>2 DEF ReadMisses, Forgets
<1>4. CASE Check
  BY <1>4, <1>o, <1>s, <1>r, <1>m, <1>e DEF Check
<1>5. CASE Get
  <2>1. CASE Move(AfterGet, Read) /\ UNCHANGED state
    BY <1>5, <1>r, <1>m, <2>1 DEF Get, AfterGet
  <2> QED  BY <1>5, <1>o, <1>s, <2>1, FailsSecret DEF Get
<1>6. CASE Write
  <2>1. CASE Move(NextCall, Outcome) /\ UNCHANGED <<state, function>>
    <3>1. Sends /\ Outcome # Absent => Outcome.secret = secret
      BY <1>6, OutcomeSecret DEF Write
    <3>2. CASE pc = "create"
      BY <1>6, <2>1, <3>1, <3>2, MoveSecret DEF Write, ControlOK, Creating, Sends
    <3>3. CASE pc = "update" /\ kind.hides # "nothing"
      <4>1. NextCall = "readUpdated"
        BY <3>3, KindFacts DEF NextCall
      <4>2. ~Sends => state.secret = secret /\ secret # None
        BY <3>3, HiddenTypes DEF Sends
      <4>3. state # Absent
        BY <3>3 DEF ControlOK, Changing
      <4>4. ~Sends /\ ~doubt /\ Outcome # Absent /\ Outcome.secret # None
              => Outcome.secret = secret
        BY <1>6, <1>s, <3>3, <4>2, <4>3 DEF Write, SecretOf
      <4> QED  BY <1>6, <2>1, <3>1, <4>1, <4>4, MoveSecret DEF Write
    <3>4. CASE kind.hides = "nothing"
      BY <1>6, <2>1, <3>4, MoveSecret DEF Write
    <3> QED  BY <1>6, <3>2, <3>3, <3>4 DEF Write
  <2>2. CASE pc = "update" /\ ~kind.readBack /\ End("ok", Outcome, Unapplied)
    <3>1. kind.hides = "nothing"
      BY <2>2, KindFacts
    <3> QED  BY <1>6, <1>o, <2>2, <3>1, EndSecret DEF Write
  <2> QED  BY <1>6, <2>1, <2>2 DEF Write
<1>7. CASE WriteRefused
  BY <1>7, <1>o, <1>s, FailsSecret DEF WriteRefused
<1>8. CASE Clear
  <2>1. kind.hides = "nothing"
    BY <1>8, KindFacts DEF Clear, ControlOK
  <2>2. CASE Move("readUpdated", object)
    BY <1>8, <2>1, <2>2, MoveSecret DEF Clear
  <2> QED  BY <1>8, <1>o, <1>s, <1>f, <2>2 DEF Clear
<1>9. CASE Second
  <2>1. CASE Move("readCreated", object) /\ UNCHANGED <<state, function>>
    BY <1>9, <1>s, <1>m, <2>1 DEF Second
  <2> QED  BY <1>9, <1>o, <1>s, <2>1, FailsSecret DEF Second
<1>10. CASE Undo
  BY <1>10, <1>o, <1>s, <1>e DEF Undo
<1>11. CASE WaitBefore
  <2>1. CASE Move("delete", object) /\ UNCHANGED <<state, function>>
    BY <1>11, <1>s, <1>m, <2>1 DEF WaitBefore
  <2>2. CASE Accepted /\ Move("delete", Outcome) /\ UNCHANGED <<state, function>>
    BY <1>11, <1>s, <1>m, <2>2 DEF WaitBefore
  <2> QED  BY <1>11, <1>o, <1>s, <2>1, <2>2, FailsSecret DEF WaitBefore
<1>12. CASE Delete
  <2>1. CASE Accepted /\ Move("gone", Outcome) /\ UNCHANGED <<state, function>>
    BY <1>12, <1>s, <1>m, <2>1 DEF Delete
  <2> QED  BY <1>12, <1>o, <2>1, DeletedSecret DEF Delete
<1>13. CASE DeleteRefused
  BY <1>13, <1>o, <1>s, <1>e, DeletedSecret DEF DeleteRefused
<1>14. CASE WaitAfter
  BY <1>14, <1>o, <1>s, <1>e, DeletedSecret DEF WaitAfter
<1>15. CASE SentAgain
  <2>1. UNCHANGED <<kind, secret, pc, state, doubt>> /\ Accepted
    BY <1>15, Kept DEF SentAgain
  <2>2. object' = Absent \/ object' = Outcome
    BY <1>15 DEF SentAgain
  <2> QED  BY <1>s, <2>1, <2>2 DEF SecretOK, SecretOf
<1>16. CASE CallFails
  <2>1. ASSUME InHalves, NEW v \in Value, Fails(Half(v))
        PROVE  SecretOK'
    <3>1. kind.hides = "nothing"
      BY <2>1, KindFacts DEF InHalves
    <3>2. Half(v) \in Object /\ SecretOf(Half(v))
      BY <2>1, <3>1, HalfWritten DEF SecretOf
    <3> QED  BY <1>16, <2>1, <3>2, FailsSecret DEF CallFails
  <2> QED  BY <1>16, <1>o, <1>s, <2>1, FailsSecret DEF CallFails
<1>17. CASE Unrealized
  <2>1. SecretOf(Absent)
    BY DEF SecretOf
  <2> QED  BY <1>17, <1>o, <1>s, <1>f, <2>1 DEF Unrealized
<1>18. CASE Kill
  BY <1>18, <1>o, <1>s, <1>e DEF Kill
<1>19. CASE OtherChanges \/ OtherDeletes \/ OtherCreates
  <2>1. doubt' = (kind.hides # "nothing") /\ kind' = kind
    BY <1>19 DEF OtherChanges, OtherDeletes, OtherCreates, Other, choice
  <2> QED  BY <2>1 DEF SecretOK, SecretOf
<1>20. ASSUME NEW refresh \in BOOLEAN, BeginAgain(refresh) \/ BeginEdited(refresh)
       PROVE  SecretOK'
  <2>1. /\ UNCHANGED <<kind, state, doubt>>
        /\ pc = "idle" /\ pc' \in {"refresh", "plan"}
    BY <1>20 DEF BeginAgain, BeginEdited, Begin, choice
  <2>2. \/ object' = object
        \/ object # Absent /\ object' = [object EXCEPT !.origin = "before"]
    BY <1>20 DEF BeginAgain, BeginEdited, Begin
  <2>3. object' # Absent => object # Absent /\ object'.secret = object.secret
    BY <1>o, <2>2 DEF Object
  <2> QED  BY <2>1, <2>3 DEF SecretOK, SecretOf
<1>21. CASE Import
  <2>1. UNCHANGED <<kind, secret, object, doubt, state>> /\ pc' = "import" /\ state = Absent
    BY <1>21, Kept DEF Import, nsx
  <2> QED  BY <2>1 DEF SecretOK, SecretOf
<1>22. CASE UNCHANGED vars
  <2>1. UNCHANGED <<kind, secret, object, doubt, state, pc>>
    BY <1>22 DEF vars, choice, nsx, apply
  <2> QED  BY <2>1 DEF SecretOK, SecretOf
<1> QED
  BY <1>1, <1>2, <1>3, <1>4, <1>5, <1>6, <1>7, <1>8, <1>9, <1>10, <1>11, <1>12, <1>13,
     <1>14, <1>15, <1>16, <1>17, <1>18, <1>19, <1>20, <1>21, <1>22
     DEF Next, Progress, Disturbance

-----------------------------------------------------------------------------
(***************************************************************************)
(* MatchOK and OkMeansApplied.                                             *)
(***************************************************************************)

\* Applied, for an object and a state to come.
Agree(o, s) ==
    IF want = None THEN s = Absent
    ELSE /\ s # Absent /\ ~s.tainted /\ s.val = want /\ o # Absent /\ o.val = want
         /\ kind.hides # "nothing" /\ ~doubt /\ o.secret # None =>
               s.secret = secret /\ o.secret = secret

LEMMA EndMatch ==
    ASSUME NEW how, NEW o, NEW s, End(how, o, s), Within \/ Fault,
           Undisturbed /\ how = "ok" => Agree(o, s)
    PROVE  MatchOK' /\ OkMeansApplied'
<1>1. /\ pc' = "idle" /\ state' = s /\ result' = how /\ (s # Absent => object' = o)
      /\ doubt => doubt'
  BY DEF End, Lost
<1>2. UNCHANGED <<kind, want, secret, refreshed, disturbed>>
  BY Kept
<1>3. MatchOK'
  BY <1>1 DEF MatchOK
<1>4. Undisturbed' /\ result' = "ok" => Agree(o, s)
  BY <1>1, <1>2 DEF Undisturbed
<1>5. Agree(o, s) /\ result' = "ok" => Applied' /\ (Known => HiddenApplied)'
  BY <1>1, <1>2 DEF Agree, Applied, Known, HiddenApplied
<1> QED  BY <1>3, <1>4, <1>5 DEF OkMeansApplied, Undisturbed

LEMMA MoveMatch ==
    ASSUME NEW label, label # "idle", NEW o, Move(label, o), Within \/ Fault,
           label = "plan" /\ state' # Absent => o # Absent /\ o.val = state'.val,
           Undisturbed /\ (label \in {"readCreated", "readUpdated", "second"}
                               \/ (label = "clear" /\ ~refused'))
               => o = Absent \/ o.val = want
    PROVE  MatchOK' /\ OkMeansApplied'
<1>1. pc' = label /\ object' = o
  BY DEF Move
<1> QED  BY <1>1, Kept DEF MatchOK, InStep, OkMeansApplied, Undisturbed

LEMMA DeletedMatch ==
    ASSUME NEW o, Deleted(o), Within \/ Fault
    PROVE  MatchOK' /\ OkMeansApplied'
<1>1. CASE want = None /\ End("ok", o, Absent)
  BY <1>1, EndMatch DEF Agree
<1>2. CASE Move(CreateFrom, o)
  BY <1>2, MoveMatch DEF CreateFrom
<1> QED  BY <1>1, <1>2 DEF Deleted

LEMMA FailsMatch ==
    ASSUME NEW o, Fails(o), Within \/ Fault
    PROVE  MatchOK' /\ OkMeansApplied'
<1>1. CASE Forgets(o)
  BY <1>1, MoveMatch, EndMatch DEF Forgets
<1>2. CASE Swallowed /\ Swallows(o)
  <2>1. ~Undisturbed
    BY <1>2 DEF Swallowed, Undisturbed
  <2> QED  BY <1>2, <2>1, EndMatch, DeletedMatch DEF Swallows
<1>3. CASE Move("undo", o)
  BY <1>3, MoveMatch
<1>4. CASE Move("clear", o) /\ refused' = TRUE
  BY <1>4, MoveMatch
<1>5. CASE End("error", o, FailedState)
  BY <1>5, EndMatch
<1> QED  BY <1>1, <1>2, <1>3, <1>4, <1>5 DEF Fails

LEMMA MatchStep ==
    ASSUME TypeOK, ControlOK, SecretOK, MatchOK, OkMeansApplied, [Next]_vars
    PROVE  MatchOK' /\ OkMeansApplied'
<1>r. object # Absent => Read # Absent /\ Read.val = object.val /\ Read.secret = object.secret
  BY StateTypes, Constants, ReadSecret
<1>1. CASE Plan
  <2>1. CASE UpToDate /\ End("ok", object, state)
    <3>1. kind.hides # "nothing" /\ ~doubt /\ object # Absent /\ object.secret # None
            /\ state # Absent /\ state.secret = secret
            => object.secret = secret
      BY <1>1, HiddenTypes DEF Plan, SecretOK, SecretOf
    <3>2. Undisturbed => Agree(object, state)
      BY <1>1, <2>1, <3>1 DEF Plan, UpToDate, Same, Agree, MatchOK, InStep
    <3> QED  BY <1>1, <2>1, <3>2, EndMatch DEF Plan
  <2>2. CASE Move(FirstCall, object)
    BY <1>1, <2>2, MoveMatch DEF Plan, FirstCall, CreateFrom, UpdateFrom, DeleteFrom
  <2> QED  BY <1>1, <2>1, <2>2 DEF Plan
<1>2. CASE ReadFinds
  <2>1. object # Absent
    BY <1>2 DEF ReadFinds, Visible
  <2>2. \A t : Copied(t).val = object.val
    BY DEF Copied
  <2>3. CASE Move("plan", Read) /\ state' = Copied(state.tainted)
    BY <1>2, <1>r, <2>1, <2>2, <2>3, MoveMatch DEF ReadFinds
  <2>4. CASE End("none", Read, Copied(FALSE))
    BY <1>2, <2>4, EndMatch DEF ReadFinds
  <2>5. CASE pc \in {"readCreated", "readUpdated"} /\ End("ok", Read, Copied(FALSE))
    <3>1. want # None /\ (Undisturbed => object.val = want)
      BY <2>1, <2>5 DEF ControlOK, Creating, Changing, MatchOK
    <3>2. Copied(FALSE) # Absent /\ ~Copied(FALSE).tainted /\ Copied(FALSE).secret = secret
      BY <2>1, <2>5, StateTypes, Constants DEF Copied, Remembered
    <3>3. kind.hides # "nothing" /\ ~doubt /\ Read.secret # None => Read.secret = secret
      BY <1>r, <2>1, <2>5 DEF SecretOK, SecretOf
    <3>4. Undisturbed => Agree(Read, Copied(FALSE))
      BY <1>r, <2>1, <2>2, <3>1, <3>2, <3>3 DEF Agree
    <3> QED  BY <1>2, <2>5, <3>4, EndMatch DEF ReadFinds
  <2> QED  BY <1>2, <2>3, <2>4, <2>5 DEF ReadFinds
<1>3. CASE ReadMisses
  BY <1>3, EndMatch, MoveMatch DEF ReadMisses, Forgets
<1>4. CASE Check
  BY <1>4, EndMatch, MoveMatch DEF Check
<1>5. CASE Get
  BY <1>5, MoveMatch, FailsMatch DEF Get, AfterGet
<1>6. CASE Write
  <2>1. Outcome # Absent /\ Outcome.val = want
    BY <1>6, WrittenIsWanted DEF Write
  <2>2. CASE Move(NextCall, Outcome) /\ UNCHANGED <<state, function>>
    BY <1>6, <2>1, <2>2, MoveMatch DEF Write, NextCall
  <2>3. CASE pc = "update" /\ ~kind.readBack /\ End("ok", Outcome, Unapplied)
    <3>1. state # Absent /\ want # None /\ ~state.tainted /\ state \in Resource
      BY <2>3 DEF ControlOK, Changing, Creating, TypeOK
    <3>2. Unapplied # Absent /\ Unapplied.val = want /\ ~Unapplied.tainted
      BY <3>1, StateTypes, Constants DEF Unapplied, Resource
    <3>3. kind.hides = "nothing"
      BY <2>3, KindFacts
    <3> QED  BY <1>6, <2>1, <2>3, <3>1, <3>2, <3>3, EndMatch DEF Write, Agree
  <2> QED  BY <1>6, <2>2, <2>3 DEF Write
<1>7. CASE WriteRefused
  BY <1>7, FailsMatch DEF WriteRefused
<1>8. CASE Clear
  <2>1. CASE ~refused /\ Move("readUpdated", object)
    BY <1>8, <2>1, MoveMatch DEF Clear, MatchOK
  <2> QED  BY <1>8, <2>1, EndMatch DEF Clear
<1>9. CASE Second
  <2>1. CASE Move("readCreated", object)
    BY <1>9, <2>1, MoveMatch DEF Second, MatchOK
  <2> QED  BY <1>9, <2>1, FailsMatch DEF Second
<1>10. CASE Undo
  BY <1>10, EndMatch DEF Undo
<1>11. CASE WaitBefore
  BY <1>11, MoveMatch, FailsMatch DEF WaitBefore
<1>12. CASE Delete
  BY <1>12, MoveMatch, DeletedMatch DEF Delete
<1>13. CASE DeleteRefused
  BY <1>13, EndMatch, DeletedMatch DEF DeleteRefused
<1>14. CASE WaitAfter
  BY <1>14, EndMatch, DeletedMatch DEF WaitAfter
<1>15. CASE SentAgain
  <2>1. pc' = pc /\ refused' = refused
    BY <1>15 DEF SentAgain, function
  <2>2. pc \in {"create", "update", "wait", "delete", "undo"} \/ (pc = "clear" /\ refused)
    BY <1>15 DEF SentAgain, Accepted
  <2> QED  BY <2>1, <2>2 DEF MatchOK, OkMeansApplied
<1>16. CASE CallFails
  BY <1>16, FailsMatch DEF CallFails
<1>17. CASE Unrealized
  BY <1>17, EndMatch DEF Unrealized
<1>18. CASE Kill
  BY <1>18, EndMatch DEF Kill
<1>19. CASE OtherChanges \/ OtherDeletes \/ OtherCreates
  <2>1. disturbed'
    BY <1>19 DEF OtherChanges, OtherDeletes, OtherCreates, Other
  <2> QED  BY <2>1 DEF MatchOK, OkMeansApplied, Undisturbed
<1>20. ASSUME NEW refresh \in BOOLEAN, BeginAgain(refresh) \/ BeginEdited(refresh)
       PROVE  MatchOK' /\ OkMeansApplied'
  <2>1. /\ pc' = IF refresh /\ state # Absent THEN "refresh" ELSE "plan"
        /\ refreshed' = refresh /\ state' = state
    BY <1>20 DEF BeginAgain, BeginEdited, Begin
  <2> QED  BY <2>1 DEF MatchOK, OkMeansApplied, Undisturbed
<1>21. CASE Import
  BY <1>21 DEF Import, MatchOK, OkMeansApplied
<1>22. CASE UNCHANGED vars
  <2>1. UNCHANGED <<kind, object, want, secret, state, pc, refused, result, refreshed,
                    disturbed, doubt>>
    BY <1>22 DEF vars, choice, nsx, function, apply
  <2> QED
    BY <2>1 DEF MatchOK, OkMeansApplied, Applied, HiddenApplied, Known, InStep, Undisturbed
<1> QED
  BY <1>1, <1>2, <1>3, <1>4, <1>5, <1>6, <1>7, <1>8, <1>9, <1>10, <1>11, <1>12, <1>13,
     <1>14, <1>15, <1>16, <1>17, <1>18, <1>19, <1>20, <1>21, <1>22
     DEF Next, Progress, Disturbance

-----------------------------------------------------------------------------
(***************************************************************************)
(* The invariant.                                                          *)
(***************************************************************************)
LEMMA InitInvariant == Init => IInv
<1> SUFFICES ASSUME Init
             PROVE  IInv
  OBVIOUS
<1> USE DEF Init
<1>1. kind \in Profile /\ (Attached => kind.names = "place")
  BY LifecycleAssumption, KindsAssumption DEF Attached
<1>2. named \in BOOLEAN /\ (Attached => named)
  BY <1>1 DEF Profile
<1>3. object \in Object \cup {Absent}
  BY DEF Object, Content, Hidden
<1>4. TypeOK
  <2>1. want \in Content /\ held \subseteq Content
    BY LifecycleAssumption DEF Content
  <2>2. tries \in 0 .. MaxRetries /\ faults \in 0 .. MaxFaults /\ others \in 0 .. MaxOthers
        /\ edits \in 0 .. MaxEdits
    BY Constants
  <2>3. secret \in Hideable
    BY Constants DEF Hideable
  <2> QED  BY <1>2, <1>3, <2>1, <2>2, <2>3 DEF TypeOK
<1>5. ControlOK
  BY DEF ControlOK, Creating, Changing, Deleting
<1>6. object # Absent => /\ Attached
                         /\ object.val = None /\ object.origin = "before" /\ object.seen = "never"
  OBVIOUS
<1>7. HeldOK /\ StateNeverAhead
  BY <1>6 DEF HeldOK, StateNeverAhead
<1>8. OriginOK
  BY <1>2, <1>6 DEF OriginOK
<1>9. SeenOK
  BY <1>6 DEF SeenOK, Behind
<1>10. MatchOK /\ OkMeansApplied
  BY DEF MatchOK, OkMeansApplied
<1>11. SecretOK
  BY DEF SecretOK, SecretOf
<1> QED  BY <1>4, <1>5, <1>7, <1>8, <1>9, <1>10, <1>11 DEF IInv

LEMMA StepInvariant == IInv /\ [Next]_vars => IInv'
BY TypeStep, ControlStep, HeldStep, OriginStep, SeenStep, SecretStep, MatchStep DEF IInv

THEOREM Invariant == Spec => []IInv
BY InitInvariant, StepInvariant, PTL DEF Spec

\* The states are the states of a resource.
THEOREM TypeCorrect == Spec => []TypeOK
BY Invariant, PTL DEF IInv

\* Whatever the applies before it have left, an apply that has refreshed and that
\* reports success has made the object what the configuration says.
THEOREM SuccessIsTrue == Spec => []OkMeansApplied
BY Invariant, PTL DEF IInv

\* A resource that asks for partial updates has nothing in the state that the
\* object has not held.
THEOREM StateTrails == Spec => []StateNeverAhead
BY Invariant, PTL DEF IInv

-----------------------------------------------------------------------------
(***************************************************************************)
(* Action properties.                                                      *)
(***************************************************************************)

\* A Create that checks the name takes over nothing that was there before.
THEOREM CreatesOnlyFree == Spec => CreateTakesOnlyFree
<1>1. ASSUME IInv, [Next]_vars
      PROVE  [OurWrite /\ pc = "create" /\ kind.checked /\ ~Attached
                => object.origin \in {"ours", "during"}]_vars
  BY <1>1 DEF IInv, OriginOK, OurWrite
<1> QED  BY <1>1, Invariant, PTL DEF Spec, CreateTakesOnlyFree

\* A call that ends changes no revision, but by its write.
LEMMA RevisionKept ==
    ASSUME TypeOK, pc = "update", [Next]_vars, OurWrite
    PROVE  Accepted
<1> SUFFICES ASSUME ~Accepted
             PROVE  FALSE
  OBVIOUS
<1>o. object \in Object /\ object # Absent
  BY DEF TypeOK, OurWrite
<1>e. ASSUME NEW how, NEW s, End(how, object, s)
      PROVE  FALSE
  <2>1. object'.rev = object.rev
    <3>1. CASE object' = [object EXCEPT !.origin = "lost"]
      BY <1>o, <3>1 DEF Object
    <3> QED  BY <1>e, <3>1 DEF End, OurWrite
  <2> QED  BY <2>1 DEF OurWrite
<1>a. ASSUME NEW how, NEW s, End(how, Absent, s)
      PROVE  FALSE
  BY <1>a DEF End, Lost, OurWrite
<1>m. ASSUME NEW label, Move(label, object)
      PROVE  FALSE
  BY <1>m DEF Move, OurWrite
<1>f. ASSUME Fails(object)
      PROVE  FALSE
  BY <1>f, <1>e, <1>m DEF Fails, Forgets, Swallows, Deleted
<1>1. ~Plan /\ ~ReadFinds /\ ~ReadMisses /\ ~Check /\ ~Get /\ ~Clear /\ ~Second /\ ~Undo
      /\ ~WaitBefore /\ ~Delete /\ ~DeleteRefused /\ ~WaitAfter /\ ~Import
  BY DEF Plan, ReadFinds, ReadMisses, Reads, Check, Get, Clear, Second, Undo, WaitBefore,
         Delete, DeleteRefused, WaitAfter, Import
<1>2. ~Write /\ ~SentAgain
  BY DEF Write, SentAgain
<1>3. ~WriteRefused
  BY <1>f DEF WriteRefused
<1>4. ~CallFails
  BY <1>f DEF CallFails, InHalves
<1>5. ~Unrealized /\ ~Kill
  BY <1>e DEF Unrealized, Kill, Reads
<1>6. ~OtherChanges /\ ~OtherDeletes /\ ~OtherCreates
  <2>1. others \in Nat
    BY Constants DEF TypeOK
  <2>2. ~Other
    BY <2>1 DEF Other, OurWrite
  <2> QED  BY <2>2 DEF OtherChanges, OtherDeletes, OtherCreates
<1>7. \A refresh \in BOOLEAN : ~BeginAgain(refresh) /\ ~BeginEdited(refresh)
  BY DEF BeginAgain, BeginEdited, Begin
<1>8. ~UNCHANGED vars
  BY DEF vars, nsx, OurWrite
<1> QED
  BY <1>1, <1>2, <1>3, <1>4, <1>5, <1>6, <1>7, <1>8 DEF Next, Progress, Disturbance

\* An update with a revision overwrites nothing that Terraform has not seen.
THEOREM NothingLost == Spec => NothingUnseenOverwritten
<1>1. ASSUME IInv, [Next]_vars
      PROVE  [OurWrite /\ pc \in {"update", "clear"} /\ kind.update \in {"revised", "reread"}
                    /\ kind.second # "clear"
                => object.seen # "outdated"]_vars
  <2> SUFFICES ASSUME OurWrite, pc \in {"update", "clear"},
                      kind.update \in {"revised", "reread"}, kind.second # "clear",
                      object.seen = "outdated"
               PROVE  FALSE
    BY <1>1
  <2>1. pc = "update"
    BY <1>1 DEF IInv, ControlOK
  <2>2. Accepted
    BY <1>1, <2>1, RevisionKept DEF IInv
  <2>3. state # Absent /\ object # Absent
    BY <1>1, <2>1 DEF IInv, ControlOK, Changing, OurWrite
  <2>4. object.rev \in Nat
    BY <1>1, <2>3 DEF IInv, TypeOK, Object
  <2>5. CASE kind.update = "revised"
    <3>1. object.rev = state.rev
      BY <2>1, <2>2, <2>5 DEF Accepted, UpdateAccepted, Fresh
    <3>2. state.rev < object.rev
      BY <1>1, <2>3, <2>5 DEF IInv, SeenOK, Behind
    <3> QED  BY <2>4, <3>1, <3>2
  <2>6. CASE kind.update = "reread"
    <3>1. object.rev = fetched
      BY <2>1, <2>2, <2>6 DEF Accepted, UpdateAccepted, Fresh
    <3>2. fetched < object.rev
      BY <1>1, <2>1, <2>3, <2>6 DEF IInv, SeenOK, Behind
    <3> QED  BY <2>4, <3>1, <3>2
  <2> QED  BY <2>5, <2>6
<1> QED  BY <1>1, Invariant, PTL DEF Spec, NothingUnseenOverwritten

\* A call that ends loses an object only if the object is Terraform's and nothing
\* of it goes into the state.
LEMMA LossIsAnEnd ==
    ASSUME strays \in Nat, NEW how, NEW o, NEW s, End(how, o, s), strays' > strays
    PROVE  s = Absent /\ Ours(o)
BY DEF End, Lost, Ours

LEMMA FailsLoses ==
    ASSUME TypeOK, ControlOK, OriginOK, NEW o, Sound(o), Fails(o), strays' > strays
    PROVE  state = Absent /\ Ours(o) /\ pc \notin {"second", "readCreated"}
<1>n. strays \in Nat
  BY DEF TypeOK
<1>m. ASSUME NEW label, Move(label, o)
      PROVE  FALSE
  BY <1>m, <1>n DEF Move
<1>1. ~(Swallowed /\ (Forgets(o) \/ Swallows(o)))
  <2>1. Swallowed => ~Ours(o)
    BY KindFacts DEF Swallowed, Sound
  <2> QED  BY <1>m, <1>n, <2>1, LossIsAnEnd DEF Forgets, Swallows, Deleted
<1>2. pc # "second" /\ End("error", o, FailedState)
  BY <1>m, <1>1 DEF Fails
<1>3. FailedState = Absent /\ Ours(o)
  BY <1>n, <1>2, LossIsAnEnd
<1>4. Tainted # Absent /\ (state # Absent => Unapplied # Absent)
  BY StateTypes, Constants
<1> QED  BY <1>2, <1>3, <1>4 DEF FailedState, ControlOK, Changing

\* The provider loses an object it has created only with the answer of a create or
\* of a rollback, or with Terraform.
THEOREM LossIsForced == Spec => LossNeedsLostAnswer
<1>1. ASSUME IInv, [Next]_vars
      PROVE  [strays' > strays =>
                  \/ pc \in {"create", "undo"} /\ (faults' > faults \/ tries > 0)
                  \/ result' = "killed"]_vars
  <2> SUFFICES ASSUME strays' > strays,
                      ~(pc \in {"create", "undo"} /\ (faults' > faults \/ tries > 0)),
                      result' # "killed"
               PROVE  FALSE
    BY <1>1
  <2> USE DEF IInv
  <2>t. TypeOK /\ ControlOK /\ OriginOK /\ strays \in Nat /\ faults \in Nat
    BY <1>1, Constants DEF TypeOK
  <2>s. Sound(object) /\ (Accepted => Sound(Outcome))
    BY <2>t, OutcomeOrigin DEF OriginOK, Sound, Ours
  <2>n. state = Absent /\ pc \notin {"second", "undo", "readCreated"} => ~Ours(object)
    <3>1. tries \in Nat
      BY <2>t, Constants DEF TypeOK
    <3> QED  BY <2>t, <3>1 DEF OriginOK, Ours
  <2>m. ASSUME NEW label, NEW o, Move(label, o)
        PROVE  FALSE
    BY <2>m, <2>t DEF Move
  <2>e. ASSUME NEW how, NEW o, NEW s, End(how, o, s)
        PROVE  s = Absent /\ Ours(o)
    BY <2>e, <2>t, LossIsAnEnd
  <2>d. ASSUME NEW o, Deleted(o), o = Absent \/ Attached, Sound(o)
        PROVE  FALSE
    BY <2>d, <2>e, <2>m DEF Deleted, Sound, Ours
  <2>f. ASSUME Fails(object), pc # "undo"
        PROVE  FALSE
    BY <2>f, <2>n, <2>s, <2>t, FailsLoses
  <2>c. ASSUME FailedState = Absent, Ours(object), pc \in Reads \cup {"clear"}
        PROVE  FALSE
    <3>1. Tainted # Absent /\ (state # Absent => Unapplied # Absent)
      BY <2>t, StateTypes, Constants
    <3> QED  BY <2>c, <2>n, <2>t, <3>1 DEF FailedState, Reads, ControlOK, Changing
  <2>1. ~Plan
    BY <2>e, <2>m, <2>n DEF Plan
  <2>2. ~ReadFinds
    <3>1. object # Absent /\ pc # "refresh" => Copied(FALSE) # Absent
      BY <2>t, StateTypes, Constants
    <3>2. pc = "refresh" => state # Absent
      BY <2>t DEF ControlOK
    <3> QED  BY <2>e, <2>m, <3>1, <3>2 DEF ReadFinds, Visible
  <2>3. ~ReadMisses
    BY <2>c, <2>e, <2>m, <2>s DEF ReadMisses, Forgets, Visible, Sound, Ours
  <2>4. ~Check
    BY <2>e, <2>m, <2>n DEF Check
  <2>5. ~Get
    BY <2>f, <2>m DEF Get
  <2>6. ~Write
    <3>1. pc = "update" => Unapplied # Absent
      BY <2>t, StateTypes, Constants DEF ControlOK, Changing
    <3> QED  BY <2>e, <2>m, <3>1 DEF Write
  <2>7. ~WriteRefused
    BY <2>f DEF WriteRefused
  <2>8. ~Clear
    <3>1. pc = "clear" => FailedState # Absent
      BY <2>t, StateTypes, Constants DEF FailedState, ControlOK, Changing
    <3> QED  BY <2>e, <2>m, <3>1 DEF Clear
  <2>9. ~Second
    BY <2>f, <2>m DEF Second
  <2>10. ~Undo
    <3>1. pc = "undo" /\ ~Accepted => object = Absent
      BY DEF Accepted
    <3>2. pc = "undo" /\ Accepted => ~Ours(Outcome)
      BY <2>s, <2>t, OutcomeOrigin DEF Sound, Ours
    <3> QED  BY <2>e, <3>1, <3>2 DEF Undo, Ours
  <2>11. ~WaitBefore
    BY <2>f, <2>m DEF WaitBefore
  <2>12. ~Delete
    BY <2>d, <2>m, <2>s, <2>t, OutcomeOrigin DEF Delete, Attached
  <2>13. ~DeleteRefused
    <3>1. pc = "delete" => state # Absent
      BY <2>t DEF ControlOK, Deleting
    <3> QED  BY <2>d, <2>e, <2>s, <3>1 DEF DeleteRefused
  <2>14. ~WaitAfter
    <3>1. pc = "gone" => state # Absent
      BY <2>t DEF ControlOK, Deleting
    <3> QED  BY <2>d, <2>e, <2>s, <3>1 DEF WaitAfter
  <2>15. ~SentAgain
    BY <2>t DEF SentAgain, Fault
  <2>16. ~CallFails
    <3>1. CallFails => faults' > faults
      BY <2>t DEF CallFails, Fault
    <3>2. ASSUME CallFails, Accepted, Fails(Outcome)
          PROVE  FALSE
      <4>1. pc \notin {"create", "undo"} /\ state = Absent
        BY <2>s, <2>t, <3>1, <3>2, FailsLoses
      <4> QED  BY <2>t, <3>2, <4>1 DEF Accepted, ControlOK, Changing, Deleting
    <3>3. ASSUME CallFails, InHalves, NEW v \in Value, Fails(Half(v))
          PROVE  FALSE
      <4>1. Sound(Half(v)) /\ Accepted
        BY <2>s, <2>t, <3>3, HalfWritten DEF Sound, Ours
      <4>2. pc \notin {"create", "undo"} /\ state = Absent
        BY <2>t, <3>1, <3>3, <4>1, FailsLoses
      <4> QED  BY <2>t, <4>1, <4>2 DEF Accepted, ControlOK, Changing, Deleting
    <3> QED  BY <2>f, <3>1, <3>2, <3>3 DEF CallFails
  <2>17. ~Unrealized
    BY <2>c, <2>e DEF Unrealized, Ours
  <2>18. ~Kill
    BY DEF Kill, End
  <2>19. ~OtherChanges /\ ~OtherDeletes /\ ~OtherCreates
    <3>1. ~Other
      BY <2>t DEF Other
    <3> QED  BY <3>1 DEF OtherChanges, OtherDeletes, OtherCreates
  <2>20. \A refresh \in BOOLEAN : ~BeginAgain(refresh) /\ ~BeginEdited(refresh)
    BY <2>t DEF BeginAgain, BeginEdited, Begin
  <2>21. ~Import
    BY <2>t DEF Import, nsx
  <2>22. ~UNCHANGED vars
    BY <2>t DEF vars, nsx
  <2> QED
    BY <1>1, <2>1, <2>2, <2>3, <2>4, <2>5, <2>6, <2>7, <2>8, <2>9, <2>10, <2>11, <2>12,
       <2>13, <2>14, <2>15, <2>16, <2>17, <2>18, <2>19, <2>20, <2>21, <2>22
       DEF Next, Progress, Disturbance
<1> QED  BY <1>1, Invariant, PTL DEF Spec, LossNeedsLostAnswer
=============================================================================
