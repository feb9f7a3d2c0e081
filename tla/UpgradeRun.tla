----------------------------- MODULE UpgradeRun -----------------------------
(***************************************************************************)
(* The nsxt_upgrade_run resource (nsxt/resource_nsxt_upgrade_run.go):      *)
(* terraform applies, one after the other, each of which configures the    *)
(* upgrade plan of the components that changed and then upgrades the       *)
(* components in order.  Every call to NSX is a step of its own, so the    *)
(* coordinator moves between any two of them; an apply can fail at every   *)
(* call, time out in every wait and be killed at any point, and the next   *)
(* apply starts from whatever it left behind.                              *)
(***************************************************************************)
EXTENDS UpgradeCoordinator

CONSTANTS
    EdgeChoices,      \* plans the configuration may hold for EDGE
    HostChoices,      \* plans the configuration may hold for HOST
    FinalizeChoices,  \* values of finalize_upgrade_setting
    MaxApplies        \* bound on the number of applies

ASSUME ChoicesAssumption ==
    /\ ApiFaults \in BOOLEAN
    /\ EdgeChoices \subseteq PlanChoice \ {"vlcm"}
    /\ HostChoices \subseteq PlanChoice
    /\ FinalizeChoices \subseteq {"unset", "on", "off"}
    /\ MaxApplies \in Nat

VARIABLES
    pc,           \* the call the running apply is about to make
    at,           \* index in ComponentList of the component it is working on
    prevPartial,  \* last component that may end paused; "none" at first
    hasVLCM,      \* some host group is to be staged in vLCM
    desired,      \* the configuration being applied
    saved,        \* the configuration in the terraform state
    inState,      \* the resource is in the terraform state
    applies,      \* number of applies so far
    result        \* how the last apply ended

local == <<at, prevPartial, hasVLCM>>
terraform == <<desired, saved, inState, applies, result>>
vars == <<nsx, pc, local, terraform>>

\* The resource's arguments: a plan for EDGE and HOST, and the finalization.
Arguments == Customizable \cup {"FINALIZE_UPGRADE"}
Config == {cfg \in [Arguments -> PlanChoice \cup FinalizeChoices] :
              /\ cfg["EDGE"] \in EdgeChoices
              /\ cfg["HOST"] \in HostChoices
              /\ cfg["FINALIZE_UPGRADE"] \in FinalizeChoices}
NoConfig == [c \in Arguments |-> IF c = "FINALIZE_UPGRADE" THEN "unset" ELSE "none"]

Current == ComponentList[at]
AtEnd == at > Len(ComponentList)

\* d.HasChange on the keys of a component.
HasChange(c) == saved[c] # desired[c]

\* finalize_upgrade_setting is looked at only when it has changed.
FinalizeUpgrade ==
    ~(HasChange("FINALIZE_UPGRADE") /\ desired["FINALIZE_UPGRADE"] = "off")

\* getPartialUpgradeMap: under this configuration the component may end paused.
MayPause(cfg, c) == c \in Customizable /\ cfg[c] \in {"partial", "vlcm"}

MutAlwaysPartial(c) == c \in Component
IsPartial(c) == MayPause(desired, c)

-----------------------------------------------------------------------------
\* How an apply ends: its variables are gone, the terraform state stays.

EndApply(how) ==
    /\ pc' = "idle"
    /\ at' = 1
    /\ prevPartial' = "none"
    /\ hasVLCM' = FALSE
    /\ desired' = NoConfig
    /\ result' = how
    /\ UNCHANGED applies

\* A create that fails leaves no resource behind, or one that is tainted and
\* that the next apply replaces, which comes to the same.  An update that fails
\* without d.Partial(true) is saved by the plugin SDK as if it had succeeded.
Fail ==
    /\ EndApply("error")
    /\ saved' = IF inState THEN desired ELSE saved
    /\ UNCHANGED inState

\* The provider process dies: the terraform state is not written.
Die(how) == EndApply(how) /\ UNCHANGED <<saved, inState>>

Goto(label) == pc' = label /\ UNCHANGED <<local, terraform>>
NextComponent(label) ==
    pc' = label /\ at' = at + 1 /\ UNCHANGED <<prevPartial, hasVLCM, terraform>>

-----------------------------------------------------------------------------
(***************************************************************************)
(* waitUpgradeForStatus: polls a status until it is one of target.  FAILED *)
(* is an error even where it is a target, a status that is neither pending *)
(* nor target is an error, and so is a timeout.  A refresh that fails      *)
(* hands WaitForState a nil *upgradeStatusAndDetail in a non-nil           *)
(* interface, which the error path dereferences: the provider panics.      *)
(***************************************************************************)
Reached(s, target) == s \in target \ {"FAILED"}

WaitUntil(s, pending, target, next) ==
    /\ Reachable
    /\ Reached(s, target)
    /\ next

WaitUnexpected(s, pending, target) ==
    /\ Reachable
    /\ ~Reached(s, target)
    /\ s \notin pending \ {"FAILED"}
    /\ Fail
    /\ UNCHANGED nsx

-----------------------------------------------------------------------------
\* terraform: a create, or an update when the configuration has a difference.
ApplyStart ==
    /\ pc = "idle"
    /\ applies < MaxApplies
    /\ \E cfg \in Config :
        /\ inState => cfg # saved
        /\ desired' = cfg
    /\ pc' = "begin"
    /\ applies' = applies + 1
    /\ result' = "none"
    /\ UNCHANGED <<nsx, local, saved, inState>>

\* resourceNsxtUpgradeRunDelete only forgets the resource.
Destroy ==
    /\ pc = "idle"
    /\ inState
    /\ inState' = FALSE
    /\ saved' = NoConfig
    /\ result' = "none"
    /\ UNCHANGED <<nsx, pc, local, desired, applies>>

\* The ready id is verified and the target version read.
Begin ==
    /\ pc = "begin"
    /\ Reachable
    /\ Goto("prep")
    /\ UNCHANGED nsx

-----------------------------------------------------------------------------
\* prepareUpgrade.

PrepareSkip ==
    /\ pc = "prep"
    /\ ~AtEnd
    /\ Current \in Customizable => ~HasChange(Current)
    /\ NextComponent("prep")
    /\ UNCHANGED nsx

PrepareCheck ==
    /\ pc = "prep"
    /\ ~AtEnd
    /\ Current \in Customizable
    /\ HasChange(Current)
    /\ Reachable
    /\ \/ status[Current] = "SUCCESS" /\ NextComponent("prep")
       \/ status[Current] = "IN_PROGRESS" /\ Goto("prepPause")
       \/ status[Current] \notin {"SUCCESS", "IN_PROGRESS"} /\ Goto("prepWait")
    /\ UNCHANGED nsx

\* The error of Pause is ignored.
PreparePause ==
    /\ pc = "prepPause"
    /\ Goto("prepWait")
    /\ \/ Reachable /\ PausePlan
       \/ CallFails /\ UNCHANGED nsx

PrepareWait ==
    /\ pc = "prepWait"
    /\ \/ WaitUntil(status[Current], InFlight, Static, Goto("prepReset") /\ UNCHANGED nsx)
       \/ WaitUnexpected(status[Current], InFlight, Static)

PrepareReset ==
    /\ pc = "prepReset"
    /\ Reachable
    /\ ResetPlan(Current)
    /\ Goto("prepGroups")

\* What the groups alone make of the plan: nothing where none is configured.
Partway == IF desired[Current] = "none" THEN "none" ELSE "mixed"

\* updateUpgradeUnitGroups: hasVLCM is reset for every component.
PrepareGroups ==
    /\ pc = "prepGroups"
    /\ Reachable
    /\ SetPlan(Current, Partway)
    /\ hasVLCM' = (desired[Current] = "vlcm")
    /\ pc' = "prepSetting"
    /\ UNCHANGED <<at, prevPartial, terraform>>

\* updateComponentUpgradePlanSetting completes the plan of the component.
PrepareSetting ==
    /\ pc = "prepSetting"
    /\ Reachable
    /\ SetPlan(Current, desired[Current])
    /\ NextComponent("prep")

PrepareDone ==
    /\ pc = "prep"
    /\ AtEnd
    /\ pc' = "run"
    /\ at' = 1
    /\ UNCHANGED <<nsx, prevPartial, hasVLCM, terraform>>

-----------------------------------------------------------------------------
\* runUpgrade.

RunSkipFinalize ==
    /\ pc = "run"
    /\ ~AtEnd
    /\ Current = "FINALIZE_UPGRADE"
    /\ ~FinalizeUpgrade
    /\ NextComponent("run")
    /\ UNCHANGED nsx

MutNoOverallWait ==
    /\ pc = "run"
    /\ ~AtEnd
    /\ Current = "FINALIZE_UPGRADE" => FinalizeUpgrade
    /\ Reachable
    /\ Goto("runCheck")
    /\ UNCHANGED nsx

\* The overall status is waited for, so that no upgrade started before is
\* still in flight.
RunWaitOverall ==
    /\ pc = "run"
    /\ ~AtEnd
    /\ Current = "FINALIZE_UPGRADE" => FinalizeUpgrade
    /\ \/ WaitUntil(overall, InFlight, Static, Goto("runCheck") /\ UNCHANGED nsx)
       \/ WaitUnexpected(overall, InFlight, Static)

MutNoPrevCheck ==
    /\ pc = "runCheck"
    /\ Reachable
    /\ Goto("runStatus")
    /\ UNCHANGED nsx

\* After a component that may have ended paused, nothing is started unless
\* that component is upgraded.
RunCheckPrevious ==
    /\ pc = "runCheck"
    /\ \/ prevPartial = "none" /\ Goto("runStatus")
       \/ /\ prevPartial # "none" /\ Reachable
          /\ \/ status[prevPartial] = "SUCCESS" /\ Goto("runStatus")
             \/ status[prevPartial] # "SUCCESS" /\ NextComponent("run")
    /\ UNCHANGED nsx

RunCheckStatus ==
    /\ pc = "runStatus"
    /\ Reachable
    /\ \/ status[Current] = "SUCCESS" /\ NextComponent("run")
       \/ /\ status[Current] # "SUCCESS"
          /\ prevPartial' = IF IsPartial(Current) THEN Current ELSE prevPartial
          /\ pc' = IF hasVLCM /\ Current = "HOST" THEN "runStage" ELSE "runUpgrade"
          /\ UNCHANGED <<at, hasVLCM, terraform>>
    /\ UNCHANGED nsx

RunStage ==
    /\ pc = "runStage"
    /\ Reachable
    /\ staged' = TRUE
    /\ UNCHANGED <<given, status, overall, plan, manager>>
    /\ Goto("runUpgrade")

RunStart ==
    /\ pc = "runUpgrade"
    /\ Reachable
    /\ StartUpgrade(Current)
    /\ Goto("runWait")

MutWaitOnPaused == {"IN_PROGRESS", "PAUSING", "PAUSED"}
RunPending == {"IN_PROGRESS"} \cup (IF IsPartial(Current) THEN {"PAUSING"} ELSE {})
MutPausedIsEnough == {"SUCCESS", "PAUSED"}
RunTarget == {"SUCCESS"} \cup (IF IsPartial(Current) THEN {"PAUSED"} ELSE {})

RunWait ==
    /\ pc = "runWait"
    /\ \/ WaitUntil(status[Current], RunPending, RunTarget,
                    NextComponent("run") /\ UNCHANGED nsx)
       \/ WaitUnexpected(status[Current], RunPending, RunTarget)

RunDone ==
    /\ pc = "run"
    /\ AtEnd
    /\ Goto("read")
    /\ UNCHANGED nsx

\* Post checks are triggered, whatever they answer, the id is set, and the
\* output read.
Finish ==
    /\ pc = "read"
    /\ Reachable
    /\ EndApply("ok")
    /\ saved' = desired
    /\ inState' = TRUE
    /\ UNCHANGED nsx

-----------------------------------------------------------------------------
\* What can go wrong with a running apply.

Waiting == {"prepWait", "run", "runWait"}
Calls == {"begin", "prep", "prepReset", "prepGroups", "prepSetting", "runCheck",
          "runStatus", "runStage", "runUpgrade", "read"}

Polling ==
    /\ pc \in Waiting
    /\ ~AtEnd
    /\ pc = "run" /\ Current = "FINALIZE_UPGRADE" => FinalizeUpgrade

\* The status a wait polls, and the values it goes on waiting for.
Polled == IF pc = "run" THEN overall ELSE status[Current]
Pending == IF pc = "runWait" THEN RunPending ELSE InFlight

\* The wait for the MP component goes on while the manager does not answer.
PollTolerated == pc = "runWait" /\ Current = "MP"

Timeout ==
    /\ Polling
    /\ Polled \in Pending \/ (PollTolerated /\ ~Reachable)
    /\ Fail
    /\ UNCHANGED nsx

\* A call fails, with the effect it has on NSX or, when the answer was lost or
\* a list of groups was written in part, after it.
CallError ==
    /\ CallFails
    /\ pc \in Calls
    /\ pc = "prep" => ~AtEnd /\ Current \in Customizable /\ HasChange(Current)
    /\ pc = "runCheck" => prevPartial # "none"
    /\ Fail
    /\ \/ UNCHANGED nsx
       \/ ApiFaults /\ pc = "prepReset" /\ ResetPlan(Current)
       \/ ApiFaults /\ pc = "prepGroups" /\ SetPlan(Current, Partway)
       \/ ApiFaults /\ pc = "prepSetting" /\ SetPlan(Current, desired[Current])
       \/ ApiFaults /\ pc = "runUpgrade" /\ StartUpgrade(Current)

\* A poll fails and the provider panics (see waitUpgradeForStatus above).
Panic ==
    /\ Polling
    /\ ApiFaults \/ (~Reachable /\ ~PollTolerated)
    /\ Die("panic")
    /\ UNCHANGED nsx

\* Terraform is interrupted.
Kill ==
    /\ pc # "idle"
    /\ Die("killed")
    /\ UNCHANGED nsx

Fault == Timeout \/ CallError \/ Panic \/ Kill

\* No apply is left within the bound.
Quiescent ==
    /\ pc = "idle"
    /\ applies = MaxApplies
    /\ UNCHANGED vars

-----------------------------------------------------------------------------
Prepare == PrepareSkip \/ PrepareCheck \/ PreparePause \/ PrepareWait \/ PrepareReset
              \/ PrepareGroups \/ PrepareSetting \/ PrepareDone
Run == RunSkipFinalize \/ RunWaitOverall \/ RunCheckPrevious \/ RunCheckStatus
          \/ RunStage \/ RunStart \/ RunWait \/ RunDone

ApplyStep == Begin \/ Prepare \/ Run \/ Finish

Environment == NsxStep /\ UNCHANGED <<pc, local, terraform>>

Init ==
    /\ NsxInit
    /\ pc = "idle"
    /\ at = 1
    /\ prevPartial = "none"
    /\ hasVLCM = FALSE
    /\ desired = NoConfig
    /\ saved = NoConfig
    /\ inState = FALSE
    /\ applies = 0
    /\ result = "none"

Next == ApplyStart \/ Destroy \/ ApplyStep \/ Fault \/ Environment \/ Quiescent

Spec == Init /\ [][Next]_vars

\* The provider keeps running and NSX makes progress; no fault is promised,
\* a timeout least of all.
FairSpec == Spec /\ WF_vars(ApplyStep) /\ WF_vars(Environment)

-----------------------------------------------------------------------------
\* Properties.

PCs == Calls \cup Waiting \cup {"idle", "prepPause"}

TypeOK ==
    /\ NsxTypeOK
    /\ pc \in PCs
    /\ at \in 1 .. Len(ComponentList) + 1
    /\ prevPartial \in Customizable \cup {"none"}
    /\ hasVLCM \in BOOLEAN
    /\ desired \in Config \cup {NoConfig}
    /\ saved \in Config \cup {NoConfig}
    /\ inState \in BOOLEAN
    /\ applies \in 0 .. MaxApplies
    /\ result \in {"none", "ok", "error", "panic", "killed"}

\* Components are upgraded in the order of the component list, whatever
\* applies fail or are interrupted on the way: one that has been started has
\* only upgraded components before it, hosts upgraded beforehand excepted.
\* (upgrade_run docs: MP "won't be processed, because that requires EDGE and
\* HOST to be fully upgraded".)
UpgradeOrder ==
    \A i, j \in 1 .. Len(ComponentList) :
        i < j /\ status[ComponentList[j]] # "NOT_STARTED" /\ ~Beforehand(ComponentList[j])
            => status[ComponentList[i]] = "SUCCESS"

Starts(c) == status[c] # "IN_PROGRESS" /\ status'[c] = "IN_PROGRESS"

\* An upgrade is started only when nothing is in flight any more, not even in
\* the overall status, which lags behind the components.
NoOverlappingStart ==
    [][\A c \in Component :
          Starts(c) => overall \notin InFlight /\ NoneInFlight]_vars

\* The plan of a component is never touched while the component is in flight
\* or after it has been upgraded.
PlanChangedOnlyAtRest ==
    [][\A c \in Customizable :
          plan'[c] # plan[c] => status[c] \notin InFlight \cup {"SUCCESS"}]_vars

\* A component whose configuration changed with this apply is started with
\* exactly that configuration on NSX, after staging when it asks for staging,
\* and finalization is not started when this apply turned it off.
StartedAsConfigured ==
    [][\A c \in Arguments :
          Starts(c) /\ HasChange(c) =>
             IF c = "FINALIZE_UPGRADE" THEN desired[c] # "off"
             ELSE /\ plan[c] = desired[c]
                  /\ desired[c] = "vlcm" => staged]_vars

\* What the configuration in the state leaves to be upgraded.
Unfinished == {i \in 1 .. Len(ComponentList) :
                  /\ status[ComponentList[i]] # "SUCCESS"
                  /\ ComponentList[i] = "FINALIZE_UPGRADE"
                        => saved["FINALIZE_UPGRADE"] # "off"}

\* An apply that ends well leaves everything upgraded, except finalization
\* when it was turned off, and except from a component that the configuration
\* allows to end paused, and that is paused, onwards.
OkMeansUpgraded ==
    result = "ok" =>
        \A i \in Unfinished :
            \/ /\ MayPause(saved, ComponentList[i])
               /\ status[ComponentList[i]] = "PAUSED"
            \/ \E j \in Unfinished : j < i

\* Every apply ends, without the help of its timeouts.
ApplyEnds == pc # "idle" ~> pc = "idle"
=============================================================================
