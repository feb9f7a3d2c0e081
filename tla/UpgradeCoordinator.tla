------------------------- MODULE UpgradeCoordinator -------------------------
(***************************************************************************)
(* The NSX upgrade coordinator, as the nsxt_upgrade_run resource sees it.  *)
(* It is not part of the provider: its state and the effect of the calls   *)
(* on it are taken from how nsxt/resource_nsxt_upgrade_run.go uses the API *)
(* (which statuses it waits for, which errors it expects, and its comments *)
(* on what the calls do).                                                  *)
(*                                                                         *)
(* Nothing here refuses a call.  NSX rejects an upgrade started while      *)
(* another is in flight, and a change to a component in flight; the        *)
(* properties of UpgradeRun say that the provider never sends such a call. *)
(***************************************************************************)
EXTENDS Naturals, Sequences

CONSTANT ApiFaults    \* TRUE: any call may fail at any time

VARIABLES
    post9,        \* the target version is 9.0.0 or later
    preUpgraded,  \* the hosts were upgraded before the upgrade began
    status,       \* upgrade status of each component
    overall,      \* the overall status, which follows the components with a lag
    plan,         \* the plan each customisable component has on NSX
    staged,       \* the host upgrade has been staged in vLCM
    manager       \* availability of the manager around its own restart

given == <<post9, preUpgraded>>
nsx == <<given, status, overall, plan, staged, manager>>

Component == {"EDGE", "HOST", "MP", "FINALIZE_UPGRADE"}
Customizable == {"EDGE", "HOST"}

(***************************************************************************)
(* What a plan says of the groups of a component: NSX's default plan, all  *)
(* groups enabled, some group disabled or paused after each unit, some     *)
(* group staged in vLCM.  NSX can also hold the remains of a configuration *)
(* that failed half way, "mixed".                                          *)
(***************************************************************************)
PlanChoice == {"none", "full", "partial", "vlcm"}
PlanValue  == PlanChoice \cup {"mixed"}

Status == {"NOT_STARTED", "IN_PROGRESS", "PAUSING", "PAUSED", "FAILED", "SUCCESS"}

\* inFlightComponentUpgradeStatus and staticComponentUpgradeStatus.
InFlight == {"IN_PROGRESS", "PAUSING"}
MutStaticCountsSuccess == {"FAILED", "NOT_STARTED", "PAUSED", "SUCCESS"}
Static == {"FAILED", "NOT_STARTED", "PAUSED"}

MutHostFirst == IF post9 THEN <<"MP", "HOST", "EDGE", "FINALIZE_UPGRADE">>
                         ELSE <<"HOST", "EDGE", "MP">>

\* getUpgradeComponentList: the order in which components are upgraded.
ComponentList == IF post9 THEN <<"MP", "EDGE", "HOST", "FINALIZE_UPGRADE">>
                          ELSE <<"EDGE", "HOST", "MP">>

Listed == {ComponentList[i] : i \in 1 .. Len(ComponentList)}

\* Calls are not answered while the manager restarts, and with ApiFaults
\* they may also fail for any other reason.
Reachable == manager # "down"
CallFails == ApiFaults \/ ~Reachable

NoneInFlight == \A c \in Component : status[c] \notin InFlight

\* What the overall status becomes once no component is in flight.
Summary ==
    IF \A c \in Listed : status[c] = "SUCCESS" THEN "SUCCESS"
    ELSE IF \E c \in Listed : status[c] = "FAILED" THEN "FAILED"
    ELSE IF \A c \in Listed : status[c] = "NOT_STARTED" THEN "NOT_STARTED"
    ELSE "PAUSED"

NsxTypeOK ==
    /\ post9 \in BOOLEAN
    /\ preUpgraded \in BOOLEAN
    /\ status \in [Component -> Status]
    /\ overall \in Status
    /\ plan \in [Customizable -> PlanValue]
    /\ staged \in BOOLEAN
    /\ manager \in {"up", "restartDue", "down"}

\* The component was upgraded before the upgrade began.
Beforehand(c) == c = "HOST" /\ preUpgraded

\* From 9.0.0 on the hosts may have been upgraded beforehand, which leaves the
\* overall status paused (isVCF9HostUpgrade in resource_nsxt_upgrade_prepare.go).
NsxInit ==
    /\ post9 \in BOOLEAN
    /\ preUpgraded \in (IF post9 THEN BOOLEAN ELSE {FALSE})
    /\ status = [c \in Component |->
                    IF Beforehand(c) THEN "SUCCESS" ELSE "NOT_STARTED"]
    /\ overall = IF preUpgraded THEN "PAUSED" ELSE "NOT_STARTED"
    /\ plan = [c \in Customizable |-> "none"]
    /\ staged = FALSE
    /\ manager = "up"

-----------------------------------------------------------------------------
\* The effect of the plan calls: Upgrade(component), Pause(), Reset(component).

StartUpgrade(c) ==
    /\ status' = [status EXCEPT ![c] = "IN_PROGRESS"]
    /\ overall' = "IN_PROGRESS"
    /\ UNCHANGED <<given, plan, staged, manager>>

PausePlan ==
    /\ status' = [c \in Component |->
                    IF status[c] = "IN_PROGRESS" THEN "PAUSING" ELSE status[c]]
    /\ overall' = IF overall = "IN_PROGRESS" THEN "PAUSING" ELSE overall
    /\ UNCHANGED <<given, plan, staged, manager>>

\* A reset restores the default plan; a paused component may start over.
ResetPlan(c) ==
    /\ plan' = [plan EXCEPT ![c] = "none"]
    /\ \E s \in {status[c], "NOT_STARTED"} : status' = [status EXCEPT ![c] = s]
    /\ staged' = (staged /\ c # "HOST")
    /\ UNCHANGED <<given, overall, manager>>

SetPlan(c, p) ==
    /\ plan' = [plan EXCEPT ![c] = p]
    /\ UNCHANGED <<given, status, overall, staged, manager>>

-----------------------------------------------------------------------------
\* Steps of NSX itself.

\* A component in flight ends: upgraded, failed, or paused, because it was
\* asked to, because a group of it is disabled, or because it met an error.
NsxFinish(c) ==
    /\ status[c] \in InFlight
    /\ \/ /\ status' = [status EXCEPT ![c] = "SUCCESS"]
          /\ manager' = IF c = "MP" THEN "restartDue" ELSE manager
       \/ /\ status' = [status EXCEPT ![c] = "FAILED"]
          /\ UNCHANGED manager
       \/ /\ c \in Customizable \/ status[c] = "PAUSING"
          /\ status' = [status EXCEPT ![c] = "PAUSED"]
          /\ UNCHANGED manager
    /\ UNCHANGED <<given, overall, plan, staged>>

\* The overall status stays in progress for a while after the last component
\* in flight has ended.
NsxSettle ==
    /\ NoneInFlight
    /\ overall # Summary
    /\ overall' = Summary
    /\ UNCHANGED <<given, status, plan, staged, manager>>

\* After its own upgrade the manager restarts and does not answer meanwhile.
NsxRestart ==
    /\ manager = "restartDue"
    /\ manager' = "down"
    /\ UNCHANGED <<given, status, overall, plan, staged>>

NsxReturn ==
    /\ manager = "down"
    /\ manager' = "up"
    /\ UNCHANGED <<given, status, overall, plan, staged>>

NsxStep == (\E c \in Component : NsxFinish(c)) \/ NsxSettle \/ NsxRestart \/ NsxReturn
=============================================================================
