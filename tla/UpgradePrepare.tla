--------------------------- MODULE UpgradePrepare ---------------------------
(***************************************************************************)
(* What comes before nsxt_upgrade_run: nsxt_upgrade_prepare uploads the    *)
(* bundle, upgrades the upgrade coordinator and has NSX check every        *)
(* component; nsxt_upgrade_precheck_acknowledge acknowledges warnings; the *)
(* data source nsxt_upgrade_prepare_ready says whether the upgrade may     *)
(* begin.  The Read of the first runs all checks again, and so does every  *)
(* refresh: the acknowledgements that NSX drops with the old results are   *)
(* remembered by the provider for as long as that takes.  NSX, Terraform   *)
(* and the administrators are external.                                    *)
(***************************************************************************)
EXTENDS Naturals, FiniteSetsExt

CONSTANTS
    Component,    \* precheckComponentTypes
    Warnings,     \* those whose checks may warn
    Failures,     \* those whose checks may fail
    Absent,       \* no resource in the state
    MaxTroubles   \* bound on failures and kills, on what administrators do, and
                  \* on changes of the configuration, together

ASSUME UpgradePrepareAssumption ==
    /\ Warnings \subseteq Component /\ Failures \subseteq Component
    /\ MaxTroubles \in Nat

VARIABLES
    problems,    \* what the checks would find
    strict,      \* whether NSX refuses to acknowledge a warning it has not found
    bundle,      \* the last upload
    target,      \* the bundle that is in place; 0 for none
    uc,          \* the upgrade coordinator
    checks,      \* the state of the checks of each component
    checkedFor,  \* the target they have been started for
    found,       \* what they have found
    acked,       \* the warnings that are acknowledged
    started,     \* the upgrade has begun (with more than pre-upgraded hosts)
    want,        \* the configuration
    prepare,     \* the two resources in the Terraform state
    ack,
    pc,          \* the next call
    doing,       \* the function that runs
    todo,        \* what is planned for the acknowledgements
    left,        \* the warnings that are left of a loop of acknowledgements
    result,      \* how the last apply ended
    had, busy,   \* what was acknowledged when it began; the coordinator was busy
    asked,       \* the warnings that anybody has ever meant to acknowledge
    refreshed,   \* the apply has begun with a refresh
    disturbed,   \* administrators have been there since
    faults, others, edits

given == <<problems, strict, started>>
uploads == <<bundle, target>>
prechecks == <<checks, checkedFor, found, acked>>
nsx == <<given, uploads, uc, prechecks>>
resources == <<prepare, ack>>
control == <<pc, doing, todo, left, result>>
apply == <<want, had, busy, refreshed, edits>>
vars == <<nsx, resources, control, apply, asked, disturbed, faults, others>>

Findings == [warning : SUBSET Warnings, failure : SUBSET Failures]
Nothing == [warning |-> {}, failure |-> {}]
Url == 1 .. 2
Config == [url : Url, wait : 1 .. 2, acks : SUBSET Warnings]
Prepare == [url : Url, wait : 1 .. 2, target : {0} \cup Url, tainted : BOOLEAN]
Ack == [ids : SUBSET Warnings, target : {0} \cup Url, tainted : BOOLEAN]

ASSUME AbsentAssumption == Absent \notin Prepare \cup Ack

Reading == {"summary", "previous", "execute", "wait", "reack", "failures"}
Calls == Reading \cup {"upload", "uploading", "eula", "uc", "ucwait", "acks", "ready"}

More == faults + others + edits < MaxTroubles

Within == UNCHANGED <<apply, asked, disturbed, faults, others>>

Move(label) == pc' = label /\ UNCHANGED <<doing, todo, result>>

End(how) ==
    /\ pc' = "idle"
    /\ doing' = "none"
    /\ todo' = "none"
    /\ left' = {}
    /\ result' = how

-----------------------------------------------------------------------------
\* An apply.

Begin(refresh) ==
    /\ pc = "idle"
    /\ pc' = IF refresh /\ prepare # Absent THEN "summary" ELSE "plan"
    /\ doing' = "refresh"
    /\ result' = "none"
    /\ had' = acked /\ busy' = (uc = "upgrading")
    /\ asked' = asked \cup want'.acks
    /\ refreshed' = refresh
    /\ disturbed' = (disturbed /\ ~refresh)
    /\ UNCHANGED <<nsx, resources, todo, left, faults, others>>

BeginAgain(refresh) == UNCHANGED <<want, edits>> /\ Begin(refresh)

BeginEdited(refresh) ==
    /\ More
    /\ edits' = edits + 1
    /\ \/ want' = [want EXCEPT !.url = 3 - @]
       \/ want' = [want EXCEPT !.wait = 3 - @]
       \/ \E c \in Warnings : want' = [want EXCEPT !.acks = SymDiff(@, {c})]
    /\ Begin(refresh)

\* A changed url forces a new resource.
Prepares == prepare # Absent => prepare.tainted \/ prepare.url # want.url
UpToDate == ~Prepares /\ prepare.wait = want.wait

MutKeepsTainted == FALSE
Tainted == ack.tainted

\* target_version, which forces a new resource, is that of nsxt_upgrade_prepare.
AckPlan ==
    IF ack = Absent \/ Prepares THEN "create"
    ELSE IF Tainted \/ ack.target # prepare.target THEN "create"
    ELSE IF ack.ids # want.acks THEN "update"
    ELSE "none"

\* After nsxt_upgrade_prepare come the acknowledgements and the data source.
Onwards(plan) ==
    /\ pc' = IF plan = "none" THEN "ready" ELSE "acks"
    /\ left' = IF plan = "none" THEN {} ELSE want.acks
    /\ doing' = "acks"
    /\ UNCHANGED result

\* What is replaced is deleted first; both Delete functions do nothing.
Plan ==
    /\ pc = "plan"
    /\ todo' = AckPlan
    /\ ack' = IF AckPlan = "create" THEN Absent ELSE ack
    /\ \/ /\ ~UpToDate
          /\ pc' = "upload"
          /\ doing' = IF Prepares THEN "create" ELSE "update"
          /\ prepare' = IF Prepares THEN Absent ELSE prepare
          /\ UNCHANGED <<left, result>>
       \/ UpToDate /\ Onwards(AckPlan) /\ UNCHANGED prepare
    /\ UNCHANGED nsx
    /\ Within

-----------------------------------------------------------------------------
\* What Terraform saves of a function that fails.

\* target_version is there as soon as Read has set it.
SavedPrepare(tainted) ==
    [url |-> want.url, wait |-> want.wait, tainted |-> tainted,
     target |-> IF pc \in Reading \ {"summary"} THEN target
                ELSE IF prepare = Absent THEN 0
                ELSE prepare.target]

\* Create sets the id after prepareForUpgrade, so that only its Read can leave
\* the resource behind, tainted.  An Update saves the configuration, in which
\* the url is the old one.
FailedPrepare ==
    IF doing = "update" THEN SavedPrepare(FALSE)
    ELSE IF doing = "create" /\ pc \in Reading THEN SavedPrepare(TRUE)
    ELSE prepare

\* The Create of the acknowledgements sets its id first of all.
FailedAck ==
    IF pc # "acks" THEN ack
    ELSE [ids |-> want.acks, target |-> prepare.target, tainted |-> todo = "create"]

Fail == End("error") /\ prepare' = FailedPrepare /\ ack' = FailedAck

-----------------------------------------------------------------------------
\* prepareForUpgrade.

\* The bundle is uploaded if its url has changed, which it has in a Create and
\* never in an Update.
UploadBundle ==
    /\ pc = "upload"
    /\ \/ /\ doing = "update"
          /\ Move("eula")
          /\ UNCHANGED bundle
       \/ /\ doing = "create"
          /\ Move("uploading")
          /\ bundle' = [url |-> want.url, status |-> "uploading"]
    /\ UNCHANGED <<given, target, uc, prechecks, resources, left>>
    /\ Within

WaitForBundleUpload ==
    /\ pc = "uploading"
    /\ \/ bundle.status = "success" /\ Move("eula") /\ UNCHANGED <<resources, left>>
       \/ bundle.status = "failed" /\ Fail
    /\ UNCHANGED nsx
    /\ Within

AcceptUserAgreement ==
    /\ pc = "eula"
    /\ Move("uc")
    /\ UNCHANGED <<nsx, resources, left>>
    /\ Within

UpgradeUc ==
    /\ pc = "uc"
    /\ \/ uc = "updated" /\ Move("summary") /\ UNCHANGED uc
       \/ uc # "updated" /\ Move("ucwait") /\ uc' = "upgrading"
    /\ UNCHANGED <<given, uploads, prechecks, resources, left>>
    /\ Within

\* To the wait, a coordinator that failed is one that is done.
WaitForUcUpgrade ==
    /\ pc = "ucwait"
    /\ uc \in {"updated", "failed"}
    /\ Move("summary")
    /\ UNCHANGED <<nsx, resources, left>>
    /\ Within

-----------------------------------------------------------------------------
\* resourceNsxtUpgradePrepareRead.

\* getSummaryInfo: nothing is checked before the coordinator is updated and
\* after the upgrade has begun.
PrecheckNeeded == uc = "updated" /\ ~started

Summary ==
    /\ pc = "summary"
    /\ Move(IF PrecheckNeeded THEN "previous" ELSE "failures")
    /\ UNCHANGED <<nsx, resources, left>>
    /\ Within

MutForgetsAcknowledged == {}
MutAllWarnings == found.warning
PreviousAcknowledged == acked

Previous ==
    /\ pc = "previous"
    /\ left' = PreviousAcknowledged
    /\ Move("execute")
    /\ UNCHANGED <<nsx, resources>>
    /\ Within

ExecutePreupgradeChecks ==
    /\ pc = "execute"
    /\ checks' = [c \in Component |-> "running"]
    /\ checkedFor' = target
    /\ found' = Nothing
    /\ acked' = {}
    /\ Move("wait")
    /\ UNCHANGED <<given, uploads, uc, resources, left>>
    /\ Within

MutAnyState == {"running", "done", "aborted"}
PrecheckTargets == {"done", "aborted"}

WaitForPrecheckComplete ==
    /\ pc = "wait"
    /\ \A c \in Component : checks[c] \in PrecheckTargets
    /\ Move("reack")
    /\ UNCHANGED <<nsx, resources, left>>
    /\ Within

\* acknowledgePrecheckWarnings.  A warning that has not been found cannot be
\* acknowledged: NSX refuses, or ignores it.
AcknowledgePrecheckWarnings ==
    /\ pc \in {"reack", "acks"}
    /\ \E c \in left :
           \/ /\ c \in found.warning
              /\ acked' = acked \cup {c}
              /\ left' = left \ {c}
              /\ UNCHANGED <<pc, doing, todo, result, resources>>
           \/ /\ c \notin found.warning /\ ~strict
              /\ left' = left \ {c}
              /\ UNCHANGED <<acked, pc, doing, todo, result, resources>>
           \/ /\ c \notin found.warning /\ strict
              /\ Fail
              /\ UNCHANGED acked
    /\ UNCHANGED <<given, uploads, uc, checks, checkedFor, found>>
    /\ Within

Reacknowledged ==
    /\ pc = "reack" /\ left = {}
    /\ Move("failures")
    /\ UNCHANGED <<nsx, resources, left>>
    /\ Within

\* The failures are read, and the function ends.
ReadFailures ==
    /\ pc = "failures"
    /\ \/ /\ doing = "refresh"
          /\ prepare' = [prepare EXCEPT !.target = target]
          /\ pc' = "plan"
          /\ UNCHANGED <<doing, left, result>>
       \/ doing # "refresh" /\ prepare' = SavedPrepare(FALSE) /\ Onwards(todo)
    /\ UNCHANGED <<nsx, ack, todo>>
    /\ Within

-----------------------------------------------------------------------------
\* The acknowledgements and the data source.

Acknowledged ==
    /\ pc = "acks" /\ left = {}
    /\ ack' = [ids |-> want.acks, target |-> prepare.target, tainted |-> FALSE]
    /\ Move("ready")
    /\ UNCHANGED <<nsx, prepare, left>>
    /\ Within

MutFailuresOnly == found.failure = {}
ReadyToUpgrade == found.failure = {} /\ found.warning \subseteq acked

Ready ==
    /\ pc = "ready"
    /\ End(IF ReadyToUpgrade THEN "ok" ELSE "notready")
    /\ UNCHANGED <<nsx, resources>>
    /\ Within

-----------------------------------------------------------------------------
\* NSX.

\* Another bundle needs another coordinator.
BundleArrives ==
    /\ bundle.status = "uploading"
    /\ bundle' = [bundle EXCEPT !.status = "success"]
    /\ target' = bundle.url
    /\ uc' = IF target = bundle.url THEN uc ELSE "old"
    /\ UNCHANGED <<given, prechecks, resources, control, apply, asked, disturbed, faults, others>>

UcUpgraded ==
    /\ uc = "upgrading"
    /\ uc' = "updated"
    /\ UNCHANGED <<given, uploads, prechecks, resources, control, apply, asked, disturbed, faults, others>>

CheckEnds(c) ==
    /\ checks[c] = "running"
    /\ checks' = [checks EXCEPT ![c] = "done"]
    /\ found' = [warning |-> found.warning \cup ({c} \cap problems.warning),
                 failure |-> found.failure \cup ({c} \cap problems.failure)]
    /\ UNCHANGED <<checkedFor, acked>>
    /\ UNCHANGED <<given, uploads, uc, resources, control, apply, asked, disturbed, faults, others>>

-----------------------------------------------------------------------------
\* Faults and administrators.

Fault == More /\ faults' = faults + 1 /\ UNCHANGED <<apply, asked, disturbed, others>>

\* A call fails, or a wait times out.  When the answer to a call is lost, the
\* next step fails.
CallFails ==
    /\ pc \in Calls
    /\ Fail
    /\ UNCHANGED nsx
    /\ Fault

Kill ==
    /\ pc # "idle"
    /\ End("killed")
    /\ UNCHANGED <<nsx, resources>>
    /\ Fault

NsxFails ==
    /\ \/ /\ bundle.status = "uploading"
          /\ bundle' = [bundle EXCEPT !.status = "failed"]
          /\ UNCHANGED uc
       \/ /\ uc = "upgrading"
          /\ uc' = "failed"
          /\ UNCHANGED bundle
    /\ UNCHANGED <<given, target, prechecks, resources, control>>
    /\ Fault

Administrator ==
    /\ More
    /\ others' = others + 1
    /\ disturbed' = TRUE
    /\ \/ /\ \/ \E c \in Warnings : problems' = [problems EXCEPT !.warning = SymDiff(@, {c})]
             \/ \E c \in Failures : problems' = [problems EXCEPT !.failure = SymDiff(@, {c})]
          /\ UNCHANGED <<checks, acked, started>>
       \/ /\ \E c \in found.warning \ acked : acked' = acked \cup {c}
          /\ UNCHANGED <<problems, checks, started>>
       \/ /\ \E c \in Component : checks[c] = "running" /\ checks' = [checks EXCEPT ![c] = "aborted"]
          /\ UNCHANGED <<problems, acked, started>>
       \/ /\ uc = "updated" /\ ~started
          /\ started' = TRUE
          /\ UNCHANGED <<problems, checks, acked>>
    /\ asked' = asked \cup acked'
    /\ UNCHANGED <<strict, uploads, uc, checkedFor, found, resources, control, apply, faults>>

-----------------------------------------------------------------------------
Init ==
    /\ problems \in Findings
    /\ strict \in BOOLEAN
    /\ started = FALSE
    /\ bundle = [url |-> 1, status |-> "none"]
    /\ target = 0
    /\ uc = "old"
    /\ checks = [c \in Component |-> "none"]
    /\ checkedFor = 0
    /\ found = Nothing
    /\ acked = {}
    /\ want \in [url : {1}, wait : {1}, acks : SUBSET Warnings]
    /\ prepare = Absent /\ ack = Absent
    /\ pc = "idle" /\ doing = "none" /\ todo = "none"
    /\ left = {}
    /\ result = "none"
    /\ had = {} /\ busy = FALSE
    /\ asked = {}
    /\ refreshed = FALSE /\ disturbed = FALSE
    /\ faults = 0 /\ others = 0 /\ edits = 0

Progress ==
    \/ Plan \/ UploadBundle \/ WaitForBundleUpload \/ AcceptUserAgreement
    \/ UpgradeUc \/ WaitForUcUpgrade
    \/ Summary \/ Previous \/ ExecutePreupgradeChecks \/ WaitForPrecheckComplete
    \/ AcknowledgePrecheckWarnings \/ Reacknowledged \/ ReadFailures
    \/ Acknowledged \/ Ready

Nsx == BundleArrives \/ UcUpgraded \/ \E c \in Component : CheckEnds(c)

Next ==
    \/ Progress \/ Nsx
    \/ CallFails \/ Kill \/ NsxFails \/ Administrator
    \/ \E refresh \in BOOLEAN : BeginAgain(refresh) \/ BeginEdited(refresh)

Spec == Init /\ [][Next]_vars

\* Calls return, NSX ends what it has begun, and the user applies again, with
\* a refresh.
FairSpec == Spec /\ WF_vars(Progress) /\ WF_vars(Nsx) /\ SF_vars(BeginAgain(TRUE))

-----------------------------------------------------------------------------
\* Properties.

TypeOK ==
    /\ problems \in Findings /\ found \in Findings
    /\ strict \in BOOLEAN /\ started \in BOOLEAN
    /\ bundle \in [url : Url, status : {"none", "uploading", "success", "failed"}]
    /\ {target, checkedFor} \subseteq {0} \cup Url
    /\ uc \in {"old", "upgrading", "updated", "failed"} /\ busy \in BOOLEAN
    /\ checks \in [Component -> {"none", "running", "done", "aborted"}]
    /\ acked \subseteq found.warning
    /\ want \in Config
    /\ prepare \in Prepare \cup {Absent}
    /\ ack \in Ack \cup {Absent}
    /\ pc \in Calls \cup {"idle", "plan"}
    /\ doing \in {"none", "refresh", "create", "update", "acks"}
    /\ todo \in {"none", "create", "update"}
    /\ left \subseteq Warnings /\ had \subseteq Warnings /\ asked \subseteq Warnings
    /\ pc = "reack" => \A c \in Component : checks[c] # "running"
    /\ result \in {"none", "ok", "notready", "error", "killed"}
    /\ refreshed \in BOOLEAN /\ disturbed \in BOOLEAN
    /\ {faults, others, edits} \subseteq 0 .. MaxTroubles

Ended == pc = "idle" /\ result \in {"ok", "notready"}

Checked == checkedFor = target /\ \A c \in Component : checks[c] = "done"

\* An apply says ready only if the bundle of the configuration is in place,
\* whatever uploads before it were left half done.  If it refreshes, every
\* component has been checked for that bundle, and nothing is wrong that nobody
\* has acknowledged, unless the coordinator is not updated, or was still busy
\* when the apply began: it may end when the apply has skipped the checks.
ReadyMeansChecked ==
    pc = "idle" /\ result = "ok" =>
        /\ target = want.url
        /\ refreshed /\ ~disturbed /\ ~started /\ uc = "updated" /\ ~busy =>
              Checked /\ problems.failure = {} /\ problems.warning \subseteq acked

\* An apply that comes to its end runs all checks again without losing an
\* acknowledgement, its own or that of an administrator before it.
AcknowledgementsSurvive == Ended /\ ~disturbed => had \cap found.warning \subseteq acked

\* Whatever is run again and acknowledged again: nothing is acknowledged that
\* neither the configuration nor an administrator ever meant to acknowledge.
OnlyWhatWasAsked == acked \subseteq asked

\* What the configuration cannot help.
Blocked ==
    \/ started
    \/ problems.failure # {} \/ ~(problems.warning \subseteq want.acks)
    \/ strict /\ ~(want.acks \subseteq problems.warning)

\* The coordinator has failed, which the wait takes for its end: the state says
\* that everything is done, and nothing is done any more.
Forgotten == UpToDate /\ uc # "updated"

\* The checks have been run again and the acknowledgements not, which the state
\* does not show.
LostAcks ==
    /\ ack # Absent /\ ~ack.tainted /\ ack.ids = want.acks
    /\ ~(want.acks \cap found.warning \subseteq acked)

\* Applied again and again, the configuration gets ready, unless there is
\* something in its way, or a fault or an administrator has come between.
GetsReady ==
    []<>(pc = "idle" /\ (\/ result = "ok" /\ uc = "updated" /\ target = want.url /\ Checked
                         \/ Blocked
                         \/ (faults + others > 0 /\ (Forgotten \/ LostAcks))))
=============================================================================
