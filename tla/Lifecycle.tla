----------------------------- MODULE Lifecycle -----------------------------
(***************************************************************************)
(* One resource of the provider over its life: apply after apply,          *)
(* Terraform calls the resource's Read, Create, Update and Delete          *)
(* functions, and every API call they make is a step.  Calls are refused,  *)
(* lost before or after they took effect, and sent again by the connector; *)
(* Terraform is killed between calls; other users create, change and       *)
(* delete the object meanwhile.  How a resource uses the API is its        *)
(* `kind', one of the profiles of ResourceKinds: the same runs check all   *)
(* of them.  What Terraform saves of a function that fails, and what NSX   *)
(* makes of a request, is external.                                        *)
(***************************************************************************)
EXTENDS Naturals, ResourceKinds

CONSTANTS
    Kinds,        \* profiles of resources
    Value,        \* what an object can hold and Read returns
    Secret,       \* what an argument can be that no Read returns
    FirstValues, FirstSecrets,  \* those that are configured at first
    None,         \* no content, no such argument; no resource configured
    Absent,       \* no object; no resource in the state
    MaxRetries,   \* max_retries of the provider configuration
    MaxFaults,    \* bound on failed calls and kills
    MaxOthers,    \* bound on operations of other users
    MaxEdits      \* bound on changes of the configuration

ASSUME LifecycleAssumption ==
    /\ Kinds \subseteq Profile
    /\ Value # {}
    /\ FirstValues \subseteq Value /\ FirstSecrets \subseteq Secret
    /\ None \notin Value \cup Secret
    /\ {MaxRetries, MaxFaults, MaxOthers, MaxEdits} \subseteq Nat

\* A setting has its place.  What takes any error of a lookup for an object that
\* is gone is a setting, which it patches.  What has a hidden argument is an object
\* of its own, and Read ends its Update.
ASSUME KindsAssumption ==
    \A k \in Kinds :
        /\ k.delete # "delete" => k.names = "place"
        /\ k.forgets = "any" => k.delete # "delete" /\ k.update = "patch" /\ ~k.partial
        /\ k.hides # "nothing" =>
              k.delete = "delete" /\ k.readBack /\ k.second # "clear" /\ ~k.halves

VARIABLES
    kind,       \* how the resource uses the API
    named,      \* its object has a fixed name: nsx_id is given, or it is a place
    object,     \* the object it refers to, or would refer to, on NSX
    strays,     \* how many objects it has created and then lost
    held,       \* everything the object has held
    want,       \* what the configuration asks for
    secret,     \* its argument that no Read returns
    state,      \* the resource in the Terraform state
    pc,         \* the call about to be made
    fetched,    \* the revision that was read for the write to come
    refused,    \* the write before this call has failed
    tries,      \* how often the call has been sent again
    result,     \* how the last apply ended
    refreshed,  \* it has begun with a refresh
    disturbed,  \* other users have been there since the last refresh began
    doubt,      \* the hidden argument of the object may not be that of the state
    faults, others, edits

nsx == <<object, strays, held>>
function == <<fetched, refused>>
apply == <<want, secret, refreshed, edits>>
choice == <<kind, named>>
vars == <<choice, nsx, state, pc, function, tries, result, apply, disturbed, doubt, faults, others>>

(***************************************************************************)
(* `origin' and `seen' are history: who has created the object - Terraform *)
(* as the resource in its state, Terraform before it lost the id, or       *)
(* somebody else before or during this apply - and whether Terraform has   *)
(* seen its content, and others have changed it since.  So is `doubt':     *)
(* since Terraform last sent the hidden argument, others have been at the  *)
(* object, or an Update that was to change it has failed.                  *)
(***************************************************************************)
Content == Value \cup {None}
Hidden == Secret \cup {None}

Object == [rev : Nat, val : Content, secret : Hidden,
           origin : {"ours", "lost", "before", "during"},
           seen : {"never", "current", "outdated"}]

Resource == [rev : Nat, val : Content, secret : Hidden, tainted : BOOLEAN]

ASSUME AbsentAssumption == Absent \notin Object \cup Resource

Reads == {"import", "refresh", "readCreated", "readUpdated"}
Calls == Reads \cup {"check", "create", "second", "undo", "get", "update", "clear",
                     "wait", "getPart", "delete", "gone"}

\* The object is a setting of its parent: it is reset, not deleted.
Attached == kind.delete # "delete"

\* A setting that Create checks for is there when it has content.
Visible == object # Absent /\ (Attached /\ kind.checked => object.val # None)

-----------------------------------------------------------------------------
\* Control of an apply.

Holds(o) == held' = IF o = Absent THEN held ELSE held \cup {o.val}

MutOnlyAtCreate == pc = "create"
\* A Create sends the hidden argument, and so does an Update, or one that is to
\* change it (HasChange).
Sends ==
    \/ pc = "create"
    \/ pc = "update" /\ (kind.hides = "sent" \/ state.secret # secret)

\* The function goes on to its next call; after a write it does if the write was
\* accepted.
Move(label, o) ==
    /\ pc' = label
    /\ doubt' = (doubt /\ ~Sends)
    /\ tries' = 0
    /\ object' = o
    /\ Holds(o)
    /\ UNCHANGED <<strays, result>>

\* An object that Terraform has created and that is not in its state is lost;
\* without a name there is no way back to it.
Lost(o, s) == s = Absent /\ o # Absent /\ o.origin = "ours"

\* An Update that was to change the hidden argument has not come to its end.
LeavesDoubt(how) ==
    /\ how \in {"error", "killed"}
    /\ pc \in {"get", "update", "clear", "readUpdated"}
    /\ state # Absent /\ state.secret # secret

\* The function returns and Terraform saves the state s.
End(how, o, s) ==
    /\ pc' = "idle"
    /\ doubt' = (doubt \/ LeavesDoubt(how))
    /\ tries' = 0
    /\ fetched' = 0
    /\ refused' = FALSE
    /\ result' = how
    /\ state' = s
    /\ strays' = IF Lost(o, s) THEN strays + 1 ELSE strays
    /\ object' = IF ~Lost(o, s) THEN o
                 ELSE IF named THEN [o EXCEPT !.origin = "lost"] ELSE Absent
    /\ Holds(o)

Within == UNCHANGED <<choice, apply, disturbed, faults, others>>

\* terraform apply, with or without a refresh.
Begin(refresh) ==
    /\ pc = "idle"
    /\ pc' = IF refresh /\ state # Absent THEN "refresh" ELSE "plan"
    /\ refreshed' = refresh
    /\ disturbed' = (disturbed /\ ~refresh)
    /\ result' = "none"
    /\ object' = IF object # Absent /\ object.origin = "during"
                 THEN [object EXCEPT !.origin = "before"] ELSE object
    /\ UNCHANGED <<choice, strays, held, state, function, tries, doubt, faults, others>>

BeginAgain(refresh) == Begin(refresh) /\ UNCHANGED <<want, secret, edits>>

\* The hidden argument is one of some kinds only.
Hideable == IF kind.hides = "nothing" THEN {None} ELSE Secret

BeginEdited(refresh) ==
    /\ Begin(refresh)
    /\ edits < MaxEdits
    /\ edits' = edits + 1
    /\ want' \in Content
    /\ secret' \in Hideable
    /\ want' # want \/ (want # None /\ secret' # secret)
    /\ want' = None => secret' = secret

\* The first calls of Create, Update and Delete.
LooksUp == kind.update = "reread" \/ kind.forgets = "any"

CreateFrom ==
    IF kind.checked /\ named THEN "check" ELSE IF LooksUp THEN "get" ELSE "create"

UpdateFrom == IF LooksUp THEN "get" ELSE "update"

DeleteFrom ==
    IF kind.waits \in {"before", "empty"} THEN "wait"
    ELSE IF LooksUp THEN "getPart" ELSE "delete"

\* The state says what the configuration says.
Same == state.val = want /\ state.secret = secret

Replaces == state.tainted \/ (kind.update = "recreate" /\ ~Same)

\* terraform import of a resource that is configured: the importer takes the
\* name from the user, Read does the rest.
Import ==
    /\ pc = "idle"
    /\ state = Absent /\ named /\ want # None
    /\ pc' = "import"
    /\ UNCHANGED <<nsx, state, function, tries, result, doubt>>
    /\ Within

\* Terraform compares the state with the configuration.
FirstCall ==
    IF state = Absent THEN CreateFrom
    ELSE IF want = None \/ Replaces THEN DeleteFrom
    ELSE UpdateFrom

UpToDate ==
    IF state = Absent THEN want = None
    ELSE want # None /\ ~state.tainted /\ Same

Plan ==
    /\ pc = "plan"
    /\ \/ UpToDate /\ End("ok", object, state)
       \/ ~UpToDate /\ Move(FirstCall, object) /\ UNCHANGED <<state, function>>
    /\ Within

-----------------------------------------------------------------------------
\* What the writes do on NSX.

New(v) == [rev |-> 0, val |-> v, secret |-> IF Sends THEN secret ELSE None,
           origin |-> "ours", seen |-> "current"]
Written(v) == [object EXCEPT !.rev = @ + 1, !.val = v,
                             !.secret = IF Sends THEN secret ELSE @, !.seen = "current"]
Read == IF object = Absent THEN Absent ELSE [object EXCEPT !.seen = "current"]

MutAnyRevision(revision) == TRUE
\* A PUT is accepted with the revision of the object it replaces.
Fresh(revision) == object.rev = revision

\* A setting can only be written where its parent is, a PUT without a revision
\* creates what is not there, a PATCH creates or changes.
CreateAccepted ==
    IF Attached
    THEN object # Absent /\ (kind.update = "reread" => Fresh(fetched))
    ELSE kind.create = "put" => object = Absent

UpdateAccepted ==
    \/ kind.update = "patch" /\ (Attached => object # Absent)
    \/ kind.update = "revised" /\ object # Absent /\ Fresh(state.rev)
    \/ kind.update = "reread" /\ object # Absent /\ Fresh(fetched)
    \/ kind.update = "unrevised" /\ object # Absent /\ Fresh(0)

DeleteAccepted == object # Absent /\ (kind.update = "reread" => Fresh(fetched))

EmptyAccepted == kind.waits = "empty" /\ object # Absent /\ Fresh(state.rev)

Accepted ==
    \/ pc = "create" /\ CreateAccepted
    \/ pc = "update" /\ UpdateAccepted
    \/ pc = "wait" /\ EmptyAccepted
    \/ pc = "delete" /\ kind.delete # "keep" /\ DeleteAccepted
    \/ pc = "undo" /\ object # Absent
    \/ pc = "clear" /\ refused /\ object # Absent

\* The object after the write.
Outcome ==
    IF pc \in {"create", "update"}
    THEN IF object = Absent THEN New(want) ELSE Written(want)
    ELSE IF pc \in {"clear", "wait"} \/ Attached THEN Written(None)
    ELSE Absent

\* A function of two requests whose second fails has written a part of the values.
Half(v) == [Outcome EXCEPT !.val = v]

InHalves ==
    /\ kind.halves /\ Accepted /\ Outcome # Absent
    /\ pc \in {"update", "delete"} \/ (pc = "create" /\ kind.second = "none")

-----------------------------------------------------------------------------
\* Calls that fail.

MutNeverPartial == FALSE
\* d.Partial(true): Terraform keeps the values it had.
Partial == kind.partial

\* An Update that fails saves the values it has not applied.
Unapplied == [state EXCEPT !.val = want, !.secret = secret]

Tainted == [rev |-> 0, val |-> want, secret |-> secret, tainted |-> TRUE]

\* What the function leaves in the state when its call fails.  The Read that
\* ends an Update is behind the handling of the Update's error.
MutIdAfterRead == IF pc \in {"update", "readUpdated"} THEN Unapplied ELSE state
FailedState ==
    IF pc = "readCreated" THEN Tainted
    ELSE IF pc = "readUpdated" THEN Unapplied
    ELSE IF pc \in {"update", "clear"} \/ (pc = "get" /\ state # Absent)
    THEN IF Partial THEN state ELSE Unapplied
    ELSE state

\* Read takes the resource from the state.  Terraform accepts it from a
\* refresh only.
Forgets(o) ==
    \/ /\ pc = "refresh"
       /\ Move("plan", o)
       /\ state' = Absent
       /\ UNCHANGED function
    \/ pc # "refresh" /\ End("error", o, Absent)

\* Terraform replaces a resource by deleting and creating it.
Deleted(o) ==
    \/ want = None /\ End("ok", o, Absent)
    \/ /\ want # None
       /\ Move(CreateFrom, o)
       /\ state' = Absent
       /\ fetched' = 0
       /\ UNCHANGED refused

\* "When VM is deleted, we don't want to error out": an Update or a Delete
\* whose lookup fails succeeds.
Swallows(o) ==
    \/ pc = "get" /\ End("ok", o, Unapplied)
    \/ pc = "getPart" /\ Deleted(o)

Swallowed ==
    /\ kind.forgets = "any"
    /\ pc \in Reads \cup {"get", "getPart"} /\ state # Absent

(***************************************************************************)
(* The call has failed, refused or not, and left the object o.  A Create   *)
(* of two calls is rolled back; the Update of a firewall section looks at  *)
(* the outcome of its first call after the others; a Read that swallows    *)
(* the error of its lookup has other calls to fail.                        *)
(***************************************************************************)
Fails(o) ==
    \/ Swallowed /\ pc \in Reads /\ Forgets(o)
    \/ Swallowed /\ Swallows(o)
    \/ /\ pc = "second"
       /\ Move("undo", o)
       /\ UNCHANGED <<state, function>>
    \/ /\ pc = "update" /\ kind.second = "clear"
       /\ Move("clear", o)
       /\ refused' = TRUE
       /\ UNCHANGED <<state, fetched>>
    \/ /\ pc # "second" /\ (Swallowed => pc \in Reads)
       /\ End("error", o, FailedState)

-----------------------------------------------------------------------------
\* Reads.

\* What no Read returns stays what it is in the state: after a Create or an Update
\* what the configuration says, and nothing after an import.
Remembered ==
    IF pc = "refresh" THEN state.secret ELSE IF pc = "import" THEN None ELSE secret

MutKeptRevision(tainted) ==
    [rev |-> IF state = Absent THEN 0 ELSE state.rev, val |-> object.val,
     secret |-> Remembered, tainted |-> tainted]
Copied(tainted) ==
    [rev |-> object.rev, val |-> object.val, secret |-> Remembered, tainted |-> tainted]

ReadFinds ==
    /\ pc \in Reads
    /\ Visible
    /\ \/ /\ pc = "refresh"
          /\ Move("plan", Read)
          /\ state' = Copied(state.tainted)
          /\ UNCHANGED function
       \/ /\ pc = "import"
          /\ End("none", Read, Copied(FALSE))
       \/ /\ pc \in {"readCreated", "readUpdated"}
          /\ End("ok", Read, Copied(FALSE))
    /\ Within

\* The Read of an object that is gone forgets it, or returns the error.
ReadMisses ==
    /\ pc \in Reads
    /\ ~Visible
    /\ \/ kind.forgets \in {"never", "either"} /\ End("error", object, FailedState)
       \/ kind.forgets # "never" /\ Forgets(object)
    /\ Within

MutAlwaysFree == TRUE
\* getOrGenerateID: a name that is taken is an error.
NameFree == ~Visible /\ (Attached => object # Absent)

\* For a setting the same call reads what is written back.
Check ==
    /\ pc = "check"
    /\ \/ /\ NameFree
          /\ Move("create", Read)
          /\ fetched' = IF object = Absent THEN 0 ELSE object.rev
          /\ UNCHANGED <<state, refused>>
       \/ ~NameFree /\ End("error", object, state)
    /\ Within

\* A function that changes a part of an object reads the whole of it.
AfterGet ==
    IF pc = "getPart" THEN "delete" ELSE IF state = Absent THEN "create" ELSE "update"

Get ==
    /\ pc \in {"get", "getPart"}
    /\ \/ /\ IF AfterGet = "update" THEN Visible ELSE object # Absent
          /\ Move(AfterGet, Read)
          /\ fetched' = object.rev
          /\ UNCHANGED <<state, refused>>
       \/ /\ ~(IF AfterGet = "update" THEN Visible ELSE object # Absent)
          /\ Fails(object)
    /\ Within

-----------------------------------------------------------------------------
\* Writes.

NextCall ==
    IF pc = "create" THEN IF kind.second = "rollback" THEN "second" ELSE "readCreated"
    ELSE IF kind.second = "clear" THEN "clear" ELSE "readUpdated"

\* An Update that reads nothing back keeps the revision it had.
Write ==
    /\ pc \in {"create", "update"}
    /\ Accepted
    /\ \/ /\ pc = "create" \/ kind.readBack
          /\ Move(NextCall, Outcome)
          /\ UNCHANGED <<state, function>>
       \/ /\ pc = "update" /\ ~kind.readBack
          /\ End("ok", Outcome, Unapplied)
    /\ Within

\* The name is taken, the revision is stale, the object is gone.
WriteRefused ==
    /\ pc \in {"create", "update"}
    /\ ~Accepted
    /\ Fails(object)
    /\ Within

\* A section that is given rules has nothing to clear.
Clear ==
    /\ pc = "clear"
    /\ \/ ~refused /\ Move("readUpdated", object) /\ UNCHANGED <<state, function>>
       \/ refused /\ End("error", object, FailedState)
       \/ Accepted /\ End("error", Outcome, FailedState)
    /\ Within

\* A Create of two calls sets the id after the second.
Second ==
    /\ pc = "second"
    /\ \/ object # Absent /\ Move("readCreated", object) /\ UNCHANGED <<state, function>>
       \/ object = Absent /\ Fails(object)
    /\ Within

Undo ==
    /\ pc = "undo"
    /\ End("error", IF Accepted THEN Outcome ELSE object, state)
    /\ Within

\* Ports are detached, hosts are cleaned up; or the object is emptied with the
\* revision of the state, if there is anything in it.
WaitBefore ==
    /\ pc = "wait"
    /\ \/ kind.waits \in {"before", "empty"} /\ Move("delete", object) /\ UNCHANGED <<state, function>>
       \/ Accepted /\ Move("delete", Outcome) /\ UNCHANGED <<state, function>>
       \/ kind.waits = "empty" /\ ~Accepted /\ Fails(object)
    /\ Within

\* Some settings cannot be deleted: Delete does nothing.
Delete ==
    /\ pc = "delete"
    /\ \/ kind.delete = "keep" /\ Deleted(object)
       \/ kind.waits # "after" /\ Accepted /\ Deleted(Outcome)
       \/ /\ kind.waits = "after" /\ Accepted
          /\ Move("gone", Outcome)
          /\ UNCHANGED <<state, function>>
    /\ Within

\* To delete what is not there succeeds, or does not.
DeleteRefused ==
    /\ pc = "delete"
    /\ kind.delete # "keep"
    /\ ~Accepted
    /\ \/ kind.absent # "error" /\ object = Absent /\ Deleted(object)
       \/ (kind.absent # "ok" \/ object # Absent) /\ End("error", object, state)
    /\ Within

\* The wait ends when the object is gone, or with a timeout.
WaitAfter ==
    /\ pc = "gone"
    /\ \/ object = Absent /\ Deleted(object)
       \/ object # Absent /\ End("error", object, state)
    /\ Within

-----------------------------------------------------------------------------
\* Faults, and other users.

Fault == faults < MaxFaults /\ faults' = faults + 1 /\ UNCHANGED <<choice, apply, disturbed, others>>

MutOneTryMore == tries > MaxRetries
LastTry == tries = MaxRetries

\* The answer of a call is lost and the same request sent again.  What a POST
\* has created is lost with the answer.
SentAgain ==
    /\ Accepted
    /\ ~LastTry
    /\ tries' = tries + 1
    /\ LET loses == pc = "create" /\ kind.create = "post"
       IN  /\ object' = IF loses THEN Absent ELSE Outcome
           /\ strays' = IF loses THEN strays + 1 ELSE strays
           /\ Holds(Outcome)
    /\ UNCHANGED <<pc, state, function, result, doubt>>
    /\ Fault

\* The last try of a call fails, with or without effect, or after the first of two
\* requests.
CallFails ==
    /\ pc \in Calls
    /\ \/ Fails(object)
       \/ Accepted /\ Fails(Outcome)
       \/ InHalves /\ \E v \in Value : Fails(Half(v))
    /\ Fault

\* The Read of a logical switch that is not realized deletes the switch.
Unrealized ==
    /\ kind.second = "verify"
    /\ pc \in Reads
    /\ object # Absent
    /\ End("error", Absent, FailedState) \/ End("error", object, FailedState)
    /\ Fault

\* Terraform dies between two calls.
Kill ==
    /\ pc # "idle"
    /\ End("killed", object, state)
    /\ Fault

Other ==
    /\ others < MaxOthers
    /\ others' = others + 1
    /\ disturbed' = TRUE
    /\ doubt' = (kind.hides # "nothing")
    /\ UNCHANGED <<choice, strays, state, pc, function, tries, result, apply, faults>>

\* (A change of both is two changes.)
OtherChanges ==
    /\ object # Absent
    /\ \E v \in IF Attached THEN Content ELSE Value, s \in Hideable :
          /\ \/ v # object.val /\ s = object.secret
             \/ v = object.val /\ s # object.secret
          /\ object' = [object EXCEPT !.rev = @ + 1, !.val = v, !.secret = s,
                           !.seen = IF @ = "current" THEN "outdated" ELSE @]
    /\ held' = held \cup {object'.val}
    /\ Other

OtherDeletes ==
    /\ object # Absent
    /\ object' = Absent
    /\ UNCHANGED held
    /\ Other

OtherCreates ==
    /\ named /\ ~Attached /\ object = Absent
    /\ \E v \in Value, s \in Hideable :
          /\ object' = [rev |-> 0, val |-> v, secret |-> s,
                        origin |-> "during", seen |-> "never"]
          /\ held' = held \cup {v}
    /\ Other

-----------------------------------------------------------------------------
Init ==
    /\ kind \in Kinds
    /\ named \in CASE kind.names = "user" -> BOOLEAN
                   [] kind.names = "server" -> {FALSE}
                   [] kind.names = "place" -> {TRUE}
    /\ object = IF Attached
                THEN [rev |-> 0, val |-> None, secret |-> None,
                      origin |-> "before", seen |-> "never"]
                ELSE Absent
    /\ strays = 0
    /\ held = {None}
    /\ want \in FirstValues
    /\ secret \in IF kind.hides = "nothing" THEN {None} ELSE FirstSecrets
    /\ state = Absent
    /\ pc = "idle"
    /\ fetched = 0
    /\ refused = FALSE
    /\ tries = 0
    /\ result = "none"
    /\ refreshed = FALSE
    /\ disturbed = FALSE
    /\ doubt = FALSE
    /\ faults = 0 /\ others = 0 /\ edits = 0

Progress ==
    \/ Plan \/ ReadFinds \/ ReadMisses \/ Check \/ Get
    \/ Write \/ WriteRefused \/ Clear \/ Second \/ Undo
    \/ WaitBefore \/ Delete \/ DeleteRefused \/ WaitAfter

Disturbance ==
    SentAgain \/ CallFails \/ Unrealized \/ Kill \/ OtherChanges \/ OtherDeletes \/ OtherCreates

Next ==
    \/ Progress
    \/ Disturbance
    \/ \E refresh \in BOOLEAN : BeginAgain(refresh) \/ BeginEdited(refresh)
    \/ Import

Spec == Init /\ [][Next]_vars

\* Every call ends or fails, and the resource is applied again, with a refresh.
FairSpec == Spec /\ WF_vars(Progress) /\ SF_vars(BeginAgain(TRUE))

-----------------------------------------------------------------------------
\* Properties.

TypeOK ==
    /\ kind \in Kinds
    /\ named \in BOOLEAN
    /\ object \in Object \cup {Absent}
    /\ strays \in Nat
    /\ held \subseteq Content
    /\ want \in Content
    /\ secret \in Hideable
    /\ state \in Resource \cup {Absent}
    /\ pc \in Calls \cup {"idle", "plan"}
    /\ fetched \in Nat
    /\ refused \in BOOLEAN
    /\ tries \in 0 .. MaxRetries
    /\ result \in {"none", "ok", "error", "killed"}
    /\ refreshed \in BOOLEAN
    /\ disturbed \in BOOLEAN
    /\ doubt \in BOOLEAN
    /\ faults \in 0 .. MaxFaults
    /\ others \in 0 .. MaxOthers
    /\ edits \in 0 .. MaxEdits

\* The state agrees with NSX and with the configuration, as far as Read shows.
Applied ==
    IF want = None THEN state = Absent
    ELSE /\ state # Absent /\ ~state.tainted /\ state.val = want
         /\ object # Absent /\ object.val = want

\* The argument that no Read returns agrees as well.
HiddenApplied == want = None \/ (state.secret = secret /\ object.secret = secret)

\* The state can be relied on for it.  An Update that leaves it out and finds no
\* object creates one without it.
Known == kind.hides # "nothing" /\ ~doubt /\ object # Absent /\ object.secret # None

\* An apply that refreshes and reports success has made the object what the
\* configuration says, whatever the applies before it have left behind, unless
\* others have been at the object since.  What no Read returns may differ from then
\* on if others have been at the object before, or an Update that was to change it
\* has failed: the state says what was not applied, and no refresh shows it.  (The
\* kind that takes any error of its lookup for an object that is gone succeeds
\* without having done anything.)
OkMeansApplied ==
    pc = "idle" /\ result = "ok" /\ refreshed /\ ~disturbed /\ kind.forgets # "any"
    => Applied /\ (Known => HiddenApplied)

\* "Trigger partial update to avoid terraform updating state based on failed
\* intent": for the resources that do so, the state never holds a value that
\* the object has not held.
StateNeverAhead == kind.partial /\ state # Absent => state.val \in held

\* An update that sends the revision never overwrites a change that others
\* have made to the object since Terraform last saw it, not even when it is
\* sent again.  (An object that others have deleted and created again begins
\* with the same revisions: such an object Terraform has never seen.  The Update of
\* nsxt_firewall_section, whose last calls delete rules without a revision, does
\* overwrite such changes and is left out.)
OurWrite ==
    /\ others' = others
    /\ object # Absent /\ object' # Absent /\ object'.rev # object.rev

NothingUnseenOverwritten ==
    [][OurWrite /\ pc \in {"update", "clear"} /\ kind.update \in {"revised", "reread"}
          /\ kind.second # "clear"
       => object.seen # "outdated"]_vars

\* A Create that checks the name takes over no object that was there when the
\* apply began.
CreateTakesOnlyFree ==
    [][OurWrite /\ pc = "create" /\ kind.checked /\ ~Attached
       => object.origin \in {"ours", "during"}]_vars

\* The provider loses an object it has created only if the answer of a create
\* or of a rollback is lost, or Terraform is killed.
LossNeedsLostAnswer ==
    [][strays' > strays =>
          \/ pc \in {"create", "undo"} /\ (faults' > faults \/ tries > 0)
          \/ result' = "killed"]_vars

(***************************************************************************)
(* No apply can mend these: the name is taken, by others or by an object   *)
(* whose id was lost; the parent of a setting is gone; the Read of an      *)
(* object that is gone does not forget it; the revision is never sent.     *)
(***************************************************************************)
Stuck ==
    \/ state = Absent /\ want # None /\ named /\ kind.checked /\ Visible
    \/ Attached /\ object = Absent
    \/ state # Absent /\ ~Visible /\ kind.forgets \notin {"yes", "any"}
    \/ kind.update = "unrevised" /\ state # Absent /\ object # Absent /\ object.rev > 0

\* The object has another hidden argument than the configuration and the state.
Unseen == ~Known /\ state # Absent /\ object # Absent /\ state.secret = secret

\* When others leave the object alone and the calls stop failing, the resource
\* ends as configured, and stays so, but for what no Read returns when the state
\* cannot be relied on for it.
Converges == <>[](Stuck \/ (Applied /\ (HiddenApplied \/ Unseen)))
=============================================================================
