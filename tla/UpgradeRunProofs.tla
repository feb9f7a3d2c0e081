-------------------------- MODULE UpgradeRunProofs --------------------------
(***************************************************************************)
(* Proofs about UpgradeRun for every choice of its constants: any number   *)
(* of applies, any configurations, with or without API faults.             *)
(***************************************************************************)
EXTENDS UpgradeRun, TLAPS

N == Len(ComponentList)

-----------------------------------------------------------------------------
(***************************************************************************)
(* The inductive invariant.  UpgradeOrder alone is not inductive: that the *)
(* component about to be started has only upgraded components before it    *)
(* depends on how far the loop of runUpgrade has come, and on what it      *)
(* remembers of the last component that may have ended paused.             *)
(***************************************************************************)
PrepareCalls == {"prepPause", "prepWait", "prepReset", "prepGroups", "prepSetting"}
StartCalls == {"runStatus", "runStage", "runUpgrade"}
RunCalls == StartCalls \cup {"run", "runCheck", "runWait", "read"}

\* Wherever a component is being worked on, there is one.
CurrentExists ==
    /\ pc \in PrepareCalls \cup StartCalls \cup {"runCheck", "runWait"} => at <= N
    /\ pc \in PrepareCalls => Current \in Customizable

\* A static overall status means that nothing is in flight.
OverallIsSafe == overall \in InFlight \/ NoneInFlight

\* A component keeps still while its plan is being rewritten.
PrepareAtRest ==
    pc \in {"prepReset", "prepGroups", "prepSetting"}
        => status[Current] \in {"NOT_STARTED", "PAUSED"}

\* Between the wait for the overall status and the start nothing gets going.
QuietBeforeStart ==
    pc \in StartCalls \cup {"runCheck"} => overall \notin InFlight

\* Finalization, which may be skipped, comes last.
Done(i) == \/ status[ComponentList[i]] = "SUCCESS"
           \/ ComponentList[i] = "FINALIZE_UPGRADE" /\ ~FinalizeUpgrade
DoneBefore == \A i \in 1 .. at - 1 : Done(i)

\* runUpgrade has left only upgraded components behind, or it has left one
\* paused, and remembers it.
PrefixDone ==
    /\ pc \in StartCalls \cup {"runWait"} => DoneBefore
    /\ pc \in {"run", "runCheck", "read"} =>
          DoneBefore \/ (prevPartial # "none" /\ status[prevPartial] = "PAUSED")

\* What prevPartial remembers: a component behind the current one or, once it
\* has been decided to start it, the current one.
PrevIsBehind ==
    /\ pc \notin RunCalls => prevPartial = "none"
    /\ pc \in {"runStage", "runUpgrade", "runWait"} /\ IsPartial(Current)
          => prevPartial = Current
    /\ prevPartial # "none" =>
          \E k \in 1 .. N :
              /\ ComponentList[k] = prevPartial
              /\ k <= at
              /\ pc \in {"run", "runCheck", "runStatus", "read"} => k < at

\* What is about to be started is not upgraded yet.
NotUpgradedYet == pc \in {"runStage", "runUpgrade"} => status[Current] # "SUCCESS"

IInv == TypeOK /\ CurrentExists /\ OverallIsSafe /\ PrepareAtRest /\ QuietBeforeStart
          /\ NotUpgradedYet /\ PrevIsBehind /\ PrefixDone /\ UpgradeOrder

-----------------------------------------------------------------------------
(***************************************************************************)
(* What StartedAsConfigured needs besides.                                 *)
(***************************************************************************)

\* The plan of a component that changed is in place once prepareUpgrade is
\* past it, and hasVLCM then speaks of the host groups.
InPlace(c) ==
    HasChange(c) /\ status[c] # "SUCCESS" =>
        /\ plan[c] = desired[c]
        /\ c = "HOST" => hasVLCM = (desired[c] = "vlcm")

PlansInPlace ==
    /\ pc \in PrepareCalls \cup {"prep"} =>
          \A i \in 1 .. at - 1, c \in Customizable : ComponentList[i] = c => InPlace(c)
    /\ pc \in RunCalls => \A c \in Customizable : InPlace(c)
    /\ pc = "prepSetting" /\ Current = "HOST" => hasVLCM = (desired["HOST"] = "vlcm")

StagedInTime == pc = "runUpgrade" /\ Current = "HOST" /\ hasVLCM => staged

FinalizeWanted ==
    pc \in StartCalls \cup {"runCheck"} /\ Current = "FINALIZE_UPGRADE" => FinalizeUpgrade

\* An apply begins with the first component.
FromTheFirst == pc \in {"idle", "begin"} => at = 1

ConfigInv == IInv /\ FromTheFirst /\ PlansInPlace /\ StagedInTime /\ FinalizeWanted

-----------------------------------------------------------------------------
(***************************************************************************)
(* What OkMeansUpgraded needs besides.                                     *)
(***************************************************************************)

\* What was upgraded beforehand stays upgraded.
BeforehandDone == \A c \in Component : Beforehand(c) => status[c] = "SUCCESS"

\* Only a component that may end paused is remembered, and the output is read
\* after the last component.
PrevMayPause == prevPartial # "none" => IsPartial(prevPartial)
ReadAtEnd == pc = "read" => AtEnd

\* How an apply ends well: everything is upgraded, or a component is paused
\* that the configuration allows to end so, and everything before it upgraded.
AllUpgraded == Unfinished = {}
PausedAt(k) ==
    /\ status[ComponentList[k]] = "PAUSED" /\ MayPause(saved, ComponentList[k])
    /\ \A i \in 1 .. k - 1 : status[ComponentList[i]] = "SUCCESS"

OkAtRest == result = "ok" => pc = "idle" /\ (AllUpgraded \/ \E k \in 1 .. N : PausedAt(k))

EndInv == IInv /\ BeforehandDone /\ PrevMayPause /\ ReadAtEnd /\ OkAtRest

-----------------------------------------------------------------------------
\* Facts about the component list: no component twice, finalization last,
\* edges before hosts.
LEMMA ListFacts ==
    ASSUME post9 \in BOOLEAN
    PROVE  /\ N \in {3, 4}
           /\ \A i \in 1 .. N : ComponentList[i] \in Component
           /\ \A i, j \in 1 .. N : ComponentList[i] = ComponentList[j] => i = j
           /\ \A i \in 1 .. N : ComponentList[i] = "FINALIZE_UPGRADE" => i = N
           /\ \A i, j \in 1 .. N :
                 ComponentList[i] = "HOST" /\ ComponentList[j] = "EDGE" => j < i
           /\ \A c \in Customizable : \E i \in 1 .. N : ComponentList[i] = c
<1>1. CASE post9
  BY <1>1 DEF N, ComponentList, Component, Customizable
<1>2. CASE ~post9
  BY <1>2 DEF N, ComponentList, Component, Customizable
<1> QED  BY <1>1, <1>2

\* The target version, and with it the list, never changes.
LEMMA ListStable ==
    ASSUME post9' = post9
    PROVE  ComponentList' = ComponentList /\ N' = N
BY DEF ComponentList, N

\* A configuration holds a plan for each customizable component.
LEMMA DesiredPlan ==
    ASSUME desired \in Config \cup {NoConfig}, NEW c \in Customizable
    PROVE  desired[c] \in PlanChoice
<1>1. CASE desired \in Config
  <2>1. EdgeChoices \subseteq PlanChoice /\ HostChoices \subseteq PlanChoice
    BY ChoicesAssumption
  <2>2. desired["EDGE"] \in EdgeChoices /\ desired["HOST"] \in HostChoices
    BY <1>1 DEF Config
  <2> QED  BY <2>1, <2>2 DEF Customizable
<1>2. CASE desired = NoConfig
  BY <1>2 DEF NoConfig, Arguments, Customizable, PlanChoice
<1> QED  BY <1>1, <1>2

LEMMA CurrentIsComponent ==
    ASSUME TypeOK, at <= N
    PROVE  Current \in Component
BY ListFacts DEF TypeOK, NsxTypeOK, Current, N

\* No step changes the target version, or what was upgraded beforehand.
LEMMA TargetStable ==
    ASSUME [Next]_vars
    PROVE  post9' = post9 /\ preUpgraded' = preUpgraded
BY DEF Next, given, vars, nsx, ApplyStart, Destroy, ApplyStep, Fault, Environment, Quiescent,
       Begin, Prepare, Run, Finish, PrepareSkip, PrepareCheck, PreparePause, PrepareWait,
       PrepareReset, PrepareGroups, PrepareSetting, PrepareDone, RunSkipFinalize,
       RunWaitOverall, RunCheckPrevious, RunCheckStatus, RunStage, RunStart, RunWait,
       RunDone, Timeout, CallError, Panic, Kill, WaitUntil, WaitUnexpected, StartUpgrade,
       PausePlan, ResetPlan, SetPlan, NsxStep, NsxFinish, NsxSettle, NsxRestart, NsxReturn

-----------------------------------------------------------------------------
LEMMA BoundIsNat == MaxApplies \in Nat
BY ChoicesAssumption

\* The first state satisfies the invariant.
LEMMA InitInv == Init => ConfigInv
<1> SUFFICES ASSUME Init PROVE ConfigInv
  OBVIOUS
<1>1. /\ pc = "idle" /\ at = 1 /\ applies = 0 /\ prevPartial = "none" /\ result = "none"
      /\ desired = NoConfig /\ saved = NoConfig
  BY DEF Init
<1>2. hasVLCM = FALSE /\ inState = FALSE
  BY DEF Init
<1>3. /\ status = [c \in Component |-> IF Beforehand(c) THEN "SUCCESS" ELSE "NOT_STARTED"]
      /\ overall \in {"NOT_STARTED", "PAUSED"}
      /\ plan = [c \in Customizable |-> "none"] /\ manager = "up"
  BY DEF Init, NsxInit
<1>4. post9 \in BOOLEAN /\ preUpgraded \in BOOLEAN /\ staged = FALSE
  BY DEF Init, NsxInit
<1>5. TypeOK
  <2>1. at \in 1 .. N + 1
    BY <1>1, <1>4, ListFacts
  <2>2. status \in [Component -> Status] /\ overall \in Status
    BY <1>3 DEF Status
  <2>3. plan \in [Customizable -> PlanValue]
    BY <1>3 DEF PlanValue, PlanChoice
  <2>4. applies \in 0 .. MaxApplies
    BY <1>1, BoundIsNat
  <2> QED  BY <1>1, <1>2, <1>3, <1>4, <2>1, <2>2, <2>3, <2>4 DEF TypeOK, NsxTypeOK, PCs, N
<1>6. /\ CurrentExists /\ PrepareAtRest /\ QuietBeforeStart /\ NotUpgradedYet
      /\ PrevIsBehind /\ PrefixDone
  BY <1>1 DEF CurrentExists, PrepareAtRest, QuietBeforeStart, NotUpgradedYet, PrevIsBehind,
     PrefixDone, PrepareCalls, StartCalls
<1>7. OverallIsSafe
  BY <1>3 DEF OverallIsSafe, NoneInFlight, InFlight
<1>8. UpgradeOrder
  BY <1>3, <1>4, ListFacts DEF UpgradeOrder, N
<1>9. FromTheFirst /\ PlansInPlace /\ StagedInTime /\ FinalizeWanted
  BY <1>1 DEF FromTheFirst, PlansInPlace, StagedInTime, FinalizeWanted, PrepareCalls, RunCalls, StartCalls
<1> QED  BY <1>5, <1>6, <1>7, <1>8, <1>9 DEF ConfigInv, IInv

-----------------------------------------------------------------------------
(***************************************************************************)
(* Every step, seen from NSX: the one call that can change it and the      *)
(* point of the apply at which it is made.                                 *)
(***************************************************************************)
Stage == staged' = TRUE /\ UNCHANGED <<given, status, overall, plan, manager>>

NsxMove ==
    \/ UNCHANGED nsx
    \/ NsxStep /\ UNCHANGED <<pc, local, terraform>>
    \/ pc = "prepPause" /\ PausePlan
    \/ pc = "prepReset" /\ ResetPlan(Current)
    \/ pc = "prepGroups" /\ SetPlan(Current, Partway)
    \/ pc = "prepSetting" /\ SetPlan(Current, desired[Current])
    \/ pc = "runStage" /\ Stage
    \/ pc = "runUpgrade" /\ pc' \in {"runWait", "idle"} /\ StartUpgrade(Current)

LEMMA NsxMoves ==
    ASSUME [Next]_vars
    PROVE  NsxMove
<1>1. CASE ApplyStart \/ Destroy \/ Begin \/ PrepareSkip \/ PrepareCheck \/ PrepareWait \/ PrepareDone
  BY <1>1 DEF ApplyStart, Destroy, Begin, PrepareSkip, PrepareCheck, PrepareWait, PrepareDone,
     WaitUntil, WaitUnexpected, NsxMove, nsx
<1>2. CASE PreparePause \/ PrepareReset \/ PrepareGroups \/ PrepareSetting
  BY <1>2 DEF PreparePause, PrepareReset, PrepareGroups, PrepareSetting, NsxMove
<1>3. CASE RunSkipFinalize \/ RunWaitOverall \/ RunCheckPrevious \/ RunCheckStatus \/ RunWait \/ RunDone \/ Finish
  BY <1>3 DEF RunSkipFinalize, RunWaitOverall, RunCheckPrevious, RunCheckStatus, RunWait, RunDone,
     Finish, WaitUntil, WaitUnexpected, NsxMove
<1>4. CASE RunStage \/ RunStart
  BY <1>4 DEF RunStage, RunStart, Goto, Stage, NsxMove
<1>5. CASE Fault
  BY <1>5 DEF Fault, Timeout, CallError, Panic, Kill, Fail, EndApply, NsxMove
<1>6. CASE Environment \/ Quiescent \/ UNCHANGED vars
  BY <1>6 DEF Environment, Quiescent, vars, NsxMove
<1> QED
  BY <1>1, <1>2, <1>3, <1>4, <1>5, <1>6 DEF Next, ApplyStep, Prepare, Run

-----------------------------------------------------------------------------
\* The state of NSX keeps its types.
LEMMA NsxTypeStep ==
    ASSUME TypeOK, CurrentExists, [Next]_vars
    PROVE  NsxTypeOK'
<1> DEFINE c == Current
<1>1. /\ status \in [Component -> Status] /\ overall \in Status /\ post9' \in BOOLEAN
      /\ plan \in [Customizable -> PlanValue] /\ staged \in BOOLEAN
      /\ manager \in {"up", "restartDue", "down"}
      /\ preUpgraded' \in BOOLEAN
  BY TargetStable DEF TypeOK, NsxTypeOK
<1>2. {"NOT_STARTED", "IN_PROGRESS", "PAUSING", "PAUSED", "FAILED", "SUCCESS"} = Status
  BY DEF Status
<1>3. CASE UNCHANGED nsx
  BY <1>1, <1>3 DEF nsx, NsxTypeOK
<1>4. ASSUME NEW d \in Component, NsxFinish(d) PROVE NsxTypeOK'
  BY <1>1, <1>2, <1>4 DEF NsxFinish, NsxTypeOK
<1>5. CASE NsxSettle \/ NsxRestart \/ NsxReturn
  BY <1>1, <1>2, <1>5 DEF NsxSettle, NsxRestart, NsxReturn, NsxTypeOK, Summary
<1>6. CASE PausePlan
  BY <1>1, <1>2, <1>6 DEF PausePlan, NsxTypeOK
<1>7. CASE ResetPlan(c)
  BY <1>1, <1>2, <1>7 DEF ResetPlan, NsxTypeOK, PlanValue, PlanChoice
<1>8. CASE SetPlan(c, Partway)
  BY <1>1, <1>8 DEF SetPlan, NsxTypeOK, PlanValue, PlanChoice, Partway
<1>9. CASE pc = "prepSetting" /\ SetPlan(c, desired[c])
  <2>1. desired[c] \in PlanValue
    BY <1>9, DesiredPlan DEF CurrentExists, PrepareCalls, PlanValue, TypeOK
  <2> QED  BY <1>1, <1>9, <2>1 DEF SetPlan, NsxTypeOK
<1>10. CASE Stage
  BY <1>1, <1>10 DEF Stage, NsxTypeOK
<1>11. CASE StartUpgrade(c)
  BY <1>1, <1>2, <1>11 DEF StartUpgrade, NsxTypeOK
<1> HIDE DEF c
<1> QED
  BY NsxMoves, <1>3, <1>4, <1>5, <1>6, <1>7, <1>8, <1>9, <1>10, <1>11 DEF NsxMove, NsxStep, c

-----------------------------------------------------------------------------
\* The state of the apply keeps its types.
LocalTypes == pc \in PCs /\ at \in 1 .. N + 1 /\ prevPartial \in Customizable \cup {"none"}
                 /\ hasVLCM \in BOOLEAN
StateTypes == /\ desired \in Config \cup {NoConfig} /\ saved \in Config \cup {NoConfig}
              /\ inState \in BOOLEAN /\ applies \in 0 .. MaxApplies
              /\ result \in {"none", "ok", "error", "panic", "killed"}

LEMMA LocalTypeStep ==
    ASSUME TypeOK, CurrentExists, [Next]_vars
    PROVE  LocalTypes'
<1>1. N \in {3, 4} /\ N' = N /\ N = Len(ComponentList)
  BY TargetStable, ListFacts, ListStable DEF TypeOK, NsxTypeOK, N
<1>2. LocalTypes
  BY DEF TypeOK, LocalTypes, N
<1>3. {"idle", "begin", "prep", "prepPause", "prepWait", "prepReset", "prepGroups", "prepSetting",
       "run", "runCheck", "runStatus", "runStage", "runUpgrade", "runWait", "read"} = PCs
  BY DEF PCs, Calls, Waiting
<1>4. /\ pc \in PrepareCalls \cup StartCalls \cup {"runCheck", "runWait"} => at <= N
      /\ ~AtEnd => at <= N
  BY <1>1, <1>2 DEF CurrentExists, AtEnd, LocalTypes
<1>5. ASSUME NEW how, EndApply(how) PROVE LocalTypes'
  <2>1. at' = 1 /\ pc' = "idle" /\ prevPartial' = "none" /\ hasVLCM' = FALSE
    BY <1>5 DEF EndApply
  <2>2. at' \in 1 .. N' + 1
    BY <1>1, <2>1
  <2> QED  BY <1>3, <2>1, <2>2 DEF LocalTypes
<1>6. ASSUME NEW p \in PCs, Goto(p) PROVE LocalTypes'
  BY <1>1, <1>2, <1>6 DEF Goto, local, LocalTypes
<1>7. ASSUME NEW p \in PCs, NextComponent(p), at <= N PROVE LocalTypes'
  BY <1>1, <1>2, <1>7 DEF NextComponent, LocalTypes
<1>8. CASE UNCHANGED <<pc, local>>
  BY <1>1, <1>2, <1>8 DEF local, LocalTypes
<1>9. CASE ApplyStart
  BY <1>1, <1>2, <1>3, <1>9 DEF ApplyStart, local, LocalTypes
<1>10. CASE Destroy \/ Environment \/ Quiescent \/ UNCHANGED vars
  BY <1>8, <1>10 DEF Destroy, Environment, Quiescent, vars
<1>11. CASE Begin \/ PreparePause \/ PrepareReset \/ RunStage \/ RunStart \/ RunDone
  BY <1>3, <1>6, <1>11 DEF Begin, PreparePause, PrepareReset, RunStage, RunStart, RunDone
<1>12. CASE PrepareSkip \/ RunSkipFinalize
  BY <1>3, <1>4, <1>7, <1>12 DEF PrepareSkip, RunSkipFinalize
<1>13. CASE PrepareCheck
  BY <1>3, <1>4, <1>6, <1>7, <1>13 DEF PrepareCheck
<1>14. CASE PrepareWait \/ RunWaitOverall
  BY <1>3, <1>5, <1>6, <1>14 DEF PrepareWait, RunWaitOverall, WaitUntil, WaitUnexpected, Fail
<1>15. CASE RunWait
  BY <1>3, <1>4, <1>5, <1>7, <1>15 DEF RunWait, WaitUntil, WaitUnexpected, Fail
<1>16. CASE PrepareGroups
  BY <1>1, <1>2, <1>3, <1>16 DEF PrepareGroups, LocalTypes
<1>17. CASE PrepareSetting
  BY <1>3, <1>4, <1>7, <1>17 DEF PrepareSetting, PrepareCalls
<1>18. CASE PrepareDone
  BY <1>1, <1>2, <1>3, <1>18 DEF PrepareDone, LocalTypes
<1>19. CASE RunCheckPrevious
  BY <1>3, <1>4, <1>6, <1>7, <1>19 DEF RunCheckPrevious
<1>20. CASE RunCheckStatus
  <2>1. CASE NextComponent("run")
    BY <1>3, <1>4, <1>7, <1>20, <2>1 DEF RunCheckStatus, StartCalls
  <2>2. CASE ~NextComponent("run")
    BY <1>1, <1>2, <1>3, <1>20, <2>2 DEF RunCheckStatus, IsPartial, MayPause, LocalTypes
  <2> QED  BY <2>1, <2>2
<1>21. CASE Finish \/ Fault
  BY <1>5, <1>21 DEF Finish, Fault, Timeout, CallError, Panic, Kill, Fail, Die
<1> QED
  BY <1>9, <1>10, <1>11, <1>12, <1>13, <1>14, <1>15, <1>16, <1>17, <1>18, <1>19, <1>20, <1>21
  DEF Next, ApplyStep, Prepare, Run

LEMMA StateTypeStep ==
    ASSUME TypeOK, [Next]_vars
    PROVE  StateTypes'
<1>1. StateTypes
  BY DEF TypeOK, StateTypes
<1>2. ASSUME NEW how \in {"none", "ok", "error", "panic", "killed"}, EndApply(how),
             saved' \in {saved, desired}, inState' \in BOOLEAN
      PROVE  StateTypes'
  BY <1>1, <1>2 DEF EndApply, StateTypes
<1>3. CASE UNCHANGED terraform
  BY <1>1, <1>3 DEF terraform, StateTypes
<1>4. CASE Fail
  BY <1>1, <1>2, <1>4 DEF Fail, StateTypes
<1>5. CASE Finish
  BY <1>2, <1>5 DEF Finish
<1>6. CASE Panic \/ Kill
  BY <1>1, <1>2, <1>6 DEF Panic, Kill, Die, StateTypes
<1>7. CASE ApplyStart
  BY <1>1, <1>7, BoundIsNat DEF ApplyStart, StateTypes
<1>8. CASE Destroy
  BY <1>1, <1>8 DEF Destroy, StateTypes
<1>9. CASE Begin \/ Prepare
  BY <1>3, <1>4, <1>9 DEF Begin, Prepare, PrepareSkip, PrepareCheck, PreparePause, PrepareWait,
     PrepareReset, PrepareGroups, PrepareSetting, PrepareDone, WaitUntil, WaitUnexpected,
     Goto, NextComponent
<1>10. CASE Run
  BY <1>3, <1>4, <1>10 DEF Run, RunSkipFinalize, RunWaitOverall, RunCheckPrevious,
     RunCheckStatus, RunStage, RunStart, RunWait, RunDone, WaitUntil, WaitUnexpected,
     Goto, NextComponent
<1>11. CASE Timeout \/ CallError
  BY <1>4, <1>11 DEF Timeout, CallError
<1>12. CASE Environment \/ Quiescent \/ UNCHANGED vars
  BY <1>3, <1>12 DEF Environment, Quiescent, vars
<1> QED
  BY <1>5, <1>6, <1>7, <1>8, <1>9, <1>10, <1>11, <1>12 DEF Next, ApplyStep, Fault

\* No step leaves the types.
LEMMA TypeStep ==
    ASSUME TypeOK, CurrentExists, [Next]_vars
    PROVE  TypeOK'
BY NsxTypeStep, LocalTypeStep, StateTypeStep DEF TypeOK, LocalTypes, StateTypes, N

-----------------------------------------------------------------------------
(***************************************************************************)
(* Every step, seen from the apply: nothing, an end or a beginning, or one *)
(* call that was answered and took it further.                             *)
(***************************************************************************)
WaitedPrepare ==
    pc = "prepWait" /\ Reached(status[Current], Static) /\ Goto("prepReset") /\ UNCHANGED nsx
WaitedOverall ==
    /\ pc = "run" /\ ~AtEnd /\ (Current = "FINALIZE_UPGRADE" => FinalizeUpgrade)
    /\ Reached(overall, Static) /\ Goto("runCheck") /\ UNCHANGED nsx
WaitedRun ==
    pc = "runWait" /\ Reached(status[Current], RunTarget) /\ NextComponent("run") /\ UNCHANGED nsx

EndOrBegin ==
    /\ pc' \in {"idle", "begin"}
    /\ \/ prevPartial' = "none" /\ at' = 1
       \/ pc = "idle" /\ UNCHANGED <<prevPartial, at>>

ApplyMove ==
    \/ UNCHANGED <<pc, local, terraform>>
    \/ EndOrBegin
    \/ Begin \/ PrepareSkip \/ PrepareCheck \/ PreparePause \/ WaitedPrepare
    \/ PrepareReset \/ PrepareGroups \/ PrepareSetting \/ PrepareDone
    \/ RunSkipFinalize \/ WaitedOverall \/ RunCheckPrevious \/ RunCheckStatus
    \/ RunStage \/ RunStart \/ WaitedRun \/ RunDone

LEMMA ApplyMoves ==
    ASSUME [Next]_vars
    PROVE  ApplyMove
<1>1. Fail => EndOrBegin
  BY DEF Fail, EndApply, EndOrBegin
<1>2. CASE ApplyStart \/ Destroy \/ Finish
  BY <1>2 DEF ApplyStart, Destroy, Finish, EndApply, local, EndOrBegin, ApplyMove
<1>3. CASE PrepareWait
  BY <1>1, <1>3 DEF PrepareWait, WaitUntil, WaitUnexpected, WaitedPrepare, ApplyMove
<1>4. CASE RunWaitOverall
  BY <1>1, <1>4 DEF RunWaitOverall, WaitUntil, WaitUnexpected, WaitedOverall, ApplyMove
<1>5. CASE RunWait
  BY <1>1, <1>5 DEF RunWait, WaitUntil, WaitUnexpected, WaitedRun, ApplyMove
<1>6. CASE Fault
  BY <1>1, <1>6 DEF Fault, Timeout, CallError, Panic, Kill, Die, EndApply, EndOrBegin, ApplyMove
<1>7. CASE Environment \/ Quiescent \/ UNCHANGED vars
  BY <1>7 DEF Environment, Quiescent, vars, ApplyMove
<1> QED
  BY <1>2, <1>3, <1>4, <1>5, <1>6, <1>7 DEF Next, ApplyStep, Prepare, Run, ApplyMove

-----------------------------------------------------------------------------
\* The calls that leave the component they work on leave a component.
LEMMA CurrentExistsStep ==
    ASSUME TypeOK, CurrentExists, [Next]_vars
    PROVE  CurrentExists'
<1> DEFINE Working == PrepareCalls \cup StartCalls \cup {"runCheck", "runWait"}
<1>1. ComponentList' = ComponentList /\ N' = N /\ N = Len(ComponentList)
  BY TargetStable, ListStable DEF N
<1>2. at' = at => Current' = Current
  BY <1>1 DEF Current
<1>3. at \in Nat /\ N \in Nat
  BY ListFacts DEF TypeOK, NsxTypeOK, N
<1>4. ~AtEnd => at <= N
  BY <1>1, <1>3 DEF AtEnd
<1>5. CASE pc' \notin Working
  BY <1>5 DEF CurrentExists
<1>6. CASE UNCHANGED <<pc, local>>
  BY <1>1, <1>2, <1>6 DEF CurrentExists, local
<1>7. CASE PrepareCheck
  BY <1>1, <1>2, <1>4, <1>5, <1>7
     DEF PrepareCheck, Goto, NextComponent, local, CurrentExists, PrepareCalls, StartCalls
<1>8. CASE PreparePause \/ WaitedPrepare \/ PrepareReset \/ PrepareGroups
  BY <1>1, <1>2, <1>8
     DEF PreparePause, WaitedPrepare, PrepareReset, PrepareGroups, Goto, local,
         CurrentExists, PrepareCalls, StartCalls
<1>9. CASE WaitedOverall
  BY <1>1, <1>2, <1>4, <1>9
     DEF WaitedOverall, Goto, local, CurrentExists, PrepareCalls, StartCalls
<1>10. CASE RunCheckPrevious \/ RunCheckStatus \/ RunStage \/ RunStart
  BY <1>1, <1>2, <1>5, <1>10
     DEF RunCheckPrevious, RunCheckStatus, RunStage, RunStart, Goto, NextComponent, local,
         CurrentExists, PrepareCalls, StartCalls
<1>11. CASE Begin \/ PrepareSkip \/ PrepareSetting \/ PrepareDone
  BY <1>5, <1>11 DEF Begin, PrepareSkip, PrepareSetting, PrepareDone, Goto, NextComponent,
     PrepareCalls, StartCalls
<1>12. CASE RunSkipFinalize \/ WaitedRun \/ RunDone \/ EndOrBegin
  BY <1>5, <1>12 DEF EndOrBegin, RunSkipFinalize, WaitedRun, RunDone, Goto, NextComponent,
     PrepareCalls, StartCalls
<1> QED
  BY ApplyMoves, <1>6, <1>7, <1>8, <1>9, <1>10, <1>11, <1>12 DEF ApplyMove

\* A static overall status still means that nothing is in flight.
LEMMA OverallIsSafeStep ==
    ASSUME TypeOK, OverallIsSafe, [Next]_vars
    PROVE  OverallIsSafe'
<1>1. status \in [Component -> Status] /\ Summary \notin InFlight
  BY DEF TypeOK, NsxTypeOK, Summary, InFlight
<1>2. CASE UNCHANGED <<status, overall>>
  BY <1>2 DEF OverallIsSafe, NoneInFlight
<1>3. CASE PausePlan
  BY <1>3 DEF PausePlan, OverallIsSafe, NoneInFlight, InFlight
<1>4. ASSUME NEW c, ResetPlan(c) PROVE OverallIsSafe'
  BY <1>1, <1>4 DEF ResetPlan, OverallIsSafe, NoneInFlight, InFlight
<1>5. ASSUME NEW c, StartUpgrade(c) PROVE OverallIsSafe'
  BY <1>5 DEF StartUpgrade, OverallIsSafe, InFlight
<1>6. ASSUME NEW c \in Component, NsxFinish(c) PROVE OverallIsSafe'
  BY <1>1, <1>6 DEF NsxFinish, OverallIsSafe, NoneInFlight
<1>7. CASE NsxSettle
  BY <1>7 DEF NsxSettle, OverallIsSafe, NoneInFlight
<1> QED
  BY NsxMoves, <1>2, <1>3, <1>4, <1>5, <1>6, <1>7
     DEF NsxMove, NsxStep, NsxRestart, NsxReturn, SetPlan, Stage, nsx

\* The component whose plan is being rewritten stays at rest.
LEMMA PrepareAtRestStep ==
    ASSUME TypeOK, CurrentExists, PrepareAtRest, [Next]_vars
    PROVE  PrepareAtRest'
<1> DEFINE Rewriting == {"prepReset", "prepGroups", "prepSetting"}
           Resting == {"NOT_STARTED", "PAUSED"}
<1>1. ComponentList' = ComponentList
  BY TargetStable, ListStable
<1>2. at' = at => Current' = Current
  BY <1>1 DEF Current
<1>3. status \in [Component -> Status]
  BY DEF TypeOK, NsxTypeOK
<1>4. CASE pc' \notin Rewriting
  BY <1>4 DEF PrepareAtRest
<1>5. CASE UNCHANGED <<pc, local, terraform>> /\ pc \in Rewriting
  <2>1. Current' = Current /\ status[Current] \in Resting
    BY <1>2, <1>5 DEF local, PrepareAtRest
  <2>2. status'[Current] \in Resting
    <3>1. CASE status' = status
      BY <2>1, <3>1
    <3>2. Current \in Component
      BY <1>5, CurrentIsComponent DEF CurrentExists, PrepareCalls
    <3>3. ASSUME NEW c \in Component, NsxFinish(c) PROVE status'[Current] \in Resting
      BY <1>3, <2>1, <3>2, <3>3 DEF NsxFinish, InFlight
    <3>4. CASE ResetPlan(Current)
      BY <1>3, <2>1, <3>2, <3>4 DEF ResetPlan
    <3>5. status' = status \/ NsxStep \/ ResetPlan(Current)
      BY NsxMoves, <1>5 DEF NsxMove, SetPlan, nsx
    <3> QED  BY <3>1, <3>3, <3>4, <3>5 DEF NsxStep, NsxSettle, NsxRestart, NsxReturn
  <2> QED  BY <1>5, <2>1, <2>2 DEF PrepareAtRest
<1>6. CASE WaitedPrepare
  BY <1>2, <1>6 DEF WaitedPrepare, Reached, Static, Goto, local, nsx, PrepareAtRest
<1>7. CASE PrepareReset
  <2>1. Current' = Current /\ status[Current] \in Resting
    BY <1>2, <1>7 DEF PrepareReset, Goto, local, PrepareAtRest
  <2>2. status'[Current] \in Resting
    BY <1>3, <1>7, <2>1 DEF PrepareReset, ResetPlan
  <2> QED  BY <2>1, <2>2 DEF PrepareAtRest
<1>8. CASE PrepareGroups
  BY <1>2, <1>8 DEF PrepareGroups, SetPlan, PrepareAtRest
<1>9. CASE Begin \/ PrepareSkip \/ PrepareCheck \/ PreparePause \/ PrepareSetting \/ PrepareDone
  BY <1>4, <1>9 DEF Begin, PrepareSkip, PrepareCheck, PreparePause, PrepareSetting,
     PrepareDone, Goto, NextComponent
<1>10. CASE RunSkipFinalize \/ WaitedOverall \/ RunCheckPrevious \/ RunCheckStatus \/ RunStage
              \/ RunStart \/ WaitedRun \/ RunDone
  BY <1>4, <1>10 DEF RunSkipFinalize, WaitedOverall, RunCheckPrevious, RunCheckStatus,
     RunStage, RunStart, WaitedRun, RunDone, Goto, NextComponent
<1>11. CASE EndOrBegin
  BY <1>4, <1>11 DEF EndOrBegin
<1> QED
  BY ApplyMoves, <1>4, <1>5, <1>6, <1>7, <1>8, <1>9, <1>10, <1>11 DEF ApplyMove

\* From the wait for the overall status to the start, the overall status is
\* never in flight.
LEMMA QuietBeforeStartStep ==
    ASSUME QuietBeforeStart, [Next]_vars
    PROVE  QuietBeforeStart'
<1> DEFINE Checking == StartCalls \cup {"runCheck"}
<1>1. CASE pc' \notin Checking
  BY <1>1 DEF QuietBeforeStart
<1>2. CASE pc \in Checking /\ (UNCHANGED nsx \/ NsxStep \/ Stage)
  BY <1>2 DEF QuietBeforeStart, NsxStep, NsxFinish, NsxSettle, NsxRestart, NsxReturn,
     Stage, nsx, Summary, InFlight
<1>3. CASE UNCHANGED <<pc, local, terraform>> /\ pc \in Checking
  <2>1. UNCHANGED nsx \/ NsxStep \/ Stage
    BY NsxMoves, <1>3 DEF NsxMove, StartCalls
  <2> QED  BY <1>2, <1>3, <2>1
<1>4. CASE WaitedOverall
  BY <1>4 DEF WaitedOverall, Reached, Static, InFlight, nsx, QuietBeforeStart
<1>5. CASE RunCheckPrevious \/ RunCheckStatus \/ RunStage
  BY <1>2, <1>5 DEF RunCheckPrevious, RunCheckStatus, RunStage, Stage, StartCalls
<1>6. CASE Begin \/ PrepareSkip \/ PrepareCheck \/ PreparePause \/ PrepareSetting \/ PrepareDone
             \/ WaitedPrepare \/ PrepareReset \/ PrepareGroups
  BY <1>1, <1>6 DEF Begin, PrepareSkip, PrepareCheck, PreparePause, PrepareSetting,
     PrepareDone, WaitedPrepare, PrepareReset, PrepareGroups, Goto, NextComponent, StartCalls
<1>7. CASE RunSkipFinalize \/ RunStart \/ WaitedRun \/ RunDone \/ EndOrBegin
  BY <1>1, <1>7 DEF EndOrBegin, RunSkipFinalize, RunStart, WaitedRun, RunDone, Goto, NextComponent, StartCalls
<1> QED
  BY ApplyMoves, <1>1, <1>3, <1>4, <1>5, <1>6, <1>7 DEF ApplyMove

\* A component about to be started does not get upgraded by someone else.
LEMMA NotUpgradedYetStep ==
    ASSUME TypeOK, CurrentExists, OverallIsSafe, QuietBeforeStart, NotUpgradedYet, [Next]_vars
    PROVE  NotUpgradedYet'
<1> DEFINE Decided == {"runStage", "runUpgrade"}
<1>1. ComponentList' = ComponentList
  BY TargetStable, ListStable
<1>2. at' = at => Current' = Current
  BY <1>1 DEF Current
<1>3. pc \in StartCalls => NoneInFlight
  BY DEF OverallIsSafe, QuietBeforeStart
<1>4. CASE pc' \notin Decided
  BY <1>4 DEF NotUpgradedYet
<1>5. CASE pc \in Decided /\ at' = at /\ (UNCHANGED nsx \/ NsxStep \/ Stage)
  <2>1. status' = status
    BY <1>3, <1>5 DEF NsxStep, NsxFinish, NsxSettle, NsxRestart, NsxReturn, NoneInFlight,
       StartCalls, Stage, nsx
  <2> QED  BY <1>2, <1>5, <2>1 DEF NotUpgradedYet
<1>6. CASE UNCHANGED <<pc, local, terraform>> /\ pc \in Decided
  <2>1. UNCHANGED nsx \/ NsxStep \/ Stage
    BY NsxMoves, <1>6 DEF NsxMove
  <2> QED  BY <1>5, <1>6, <2>1 DEF local
<1>7. CASE RunCheckStatus
  BY <1>2, <1>4, <1>7 DEF RunCheckStatus, NextComponent, nsx, NotUpgradedYet
<1>8. CASE RunStage
  BY <1>5, <1>8 DEF RunStage, Stage, Goto, local
<1>9. CASE Begin \/ PrepareSkip \/ PrepareCheck \/ PreparePause \/ PrepareSetting \/ PrepareDone
             \/ WaitedPrepare \/ PrepareReset \/ PrepareGroups
  BY <1>4, <1>9 DEF Begin, PrepareSkip, PrepareCheck, PreparePause, PrepareSetting,
     PrepareDone, WaitedPrepare, PrepareReset, PrepareGroups, Goto, NextComponent
<1>10. CASE RunSkipFinalize \/ WaitedOverall \/ RunCheckPrevious \/ RunStart \/ WaitedRun \/ RunDone
              \/ EndOrBegin
  BY <1>4, <1>10 DEF EndOrBegin, RunSkipFinalize, WaitedOverall, RunCheckPrevious, RunStart, WaitedRun,
     RunDone, Goto, NextComponent
<1> QED
  BY ApplyMoves, <1>4, <1>6, <1>7, <1>8, <1>9, <1>10 DEF ApplyMove

\* runUpgrade keeps remembering the last component that may have ended paused.
LEMMA PrevIsBehindStep ==
    ASSUME TypeOK, CurrentExists, PrevIsBehind, [Next]_vars
    PROVE  PrevIsBehind'
<1> DEFINE Decided == {"runStage", "runUpgrade", "runWait"}
           Behind(k) == ComponentList[k] = prevPartial /\ k <= at
                           /\ (pc \in {"run", "runCheck", "runStatus", "read"} => k < at)
<1>1. ComponentList' = ComponentList /\ N' = N /\ N \in Nat /\ at \in Nat
  BY TargetStable, ListStable, ListFacts DEF TypeOK, NsxTypeOK, N
<1>2. at' = at => Current' = Current
  BY <1>1 DEF Current
<1>3. at' = at /\ desired' = desired => IsPartial(Current)' = IsPartial(Current)
  BY <1>2 DEF IsPartial, MayPause
<1>4. CASE UNCHANGED <<pc, local, terraform>>
  BY <1>1, <1>2, <1>3, <1>4 DEF PrevIsBehind, local, terraform
<1>5. CASE prevPartial' = "none" /\ pc' \notin Decided
  BY <1>5 DEF PrevIsBehind
<1>6. CASE pc \notin RunCalls /\ prevPartial' = prevPartial /\ pc' \notin Decided
  BY <1>5, <1>6 DEF PrevIsBehind
<1>7. CASE EndOrBegin
  BY <1>5, <1>6, <1>7 DEF EndOrBegin, RunCalls, StartCalls
<1>8. CASE Begin \/ PrepareSkip \/ PrepareCheck \/ PreparePause \/ PrepareSetting \/ PrepareDone
             \/ WaitedPrepare \/ PrepareReset \/ PrepareGroups
  BY <1>6, <1>8 DEF Begin, PrepareSkip, PrepareCheck, PreparePause, PrepareSetting,
     PrepareDone, WaitedPrepare, PrepareReset, PrepareGroups, Goto, NextComponent, local,
     RunCalls, StartCalls
\* The calls of runUpgrade that leave prevPartial alone and go on to one that
\* does not depend on the current component.
<1>9. ASSUME pc \in RunCalls, pc' \in RunCalls \ Decided, UNCHANGED prevPartial,
             \/ at' = at + 1
             \/ at' = at /\ pc \notin Decided
      PROVE  PrevIsBehind'
  <2>1. CASE prevPartial = "none"
    BY <1>5, <1>9, <2>1
  <2>2. ASSUME NEW k \in 1 .. N, Behind(k) PROVE PrevIsBehind'
    <3>1. k < at'
      BY <1>1, <1>9, <2>2 DEF RunCalls, StartCalls
    <3>2. ComponentList'[k] = prevPartial' /\ k \in 1 .. N' /\ k <= at'
      BY <1>1, <1>9, <2>2, <3>1
    <3> QED  BY <1>9, <3>1, <3>2 DEF PrevIsBehind
  <2> QED  BY <2>1, <2>2 DEF PrevIsBehind
<1>10. CASE RunSkipFinalize \/ WaitedOverall \/ RunCheckPrevious \/ WaitedRun \/ RunDone
  BY <1>9, <1>10 DEF RunSkipFinalize, WaitedOverall, RunCheckPrevious, WaitedRun, RunDone,
     Goto, NextComponent, local, RunCalls, StartCalls
<1>11. CASE RunCheckStatus
  <2>1. CASE NextComponent("run")
    BY <1>9, <1>11, <2>1 DEF RunCheckStatus, NextComponent, RunCalls, StartCalls
  <2>2. CASE ~NextComponent("run") /\ ~IsPartial(Current)
    BY <1>1, <1>2, <1>3, <1>11, <2>2
       DEF RunCheckStatus, PrevIsBehind, RunCalls, StartCalls, terraform
  <2>3. CASE ~NextComponent("run") /\ IsPartial(Current)
    <3>1. prevPartial' = Current /\ at' = at /\ pc' \in {"runStage", "runUpgrade"}
      BY <1>11, <2>3 DEF RunCheckStatus
    <3>2. at \in 1 .. N' /\ ComponentList'[at] = prevPartial' /\ at <= at'
      BY <1>1, <1>11, <3>1 DEF RunCheckStatus, CurrentExists, Current, StartCalls, TypeOK
    <3> QED  BY <1>2, <3>1, <3>2 DEF PrevIsBehind, RunCalls, StartCalls
  <2> QED  BY <2>1, <2>2, <2>3
<1>12. CASE RunStage \/ RunStart
  BY <1>1, <1>2, <1>3, <1>12
     DEF RunStage, RunStart, Goto, local, terraform, PrevIsBehind, RunCalls, StartCalls
<1> QED
  BY ApplyMoves, <1>4, <1>7, <1>8, <1>10, <1>11, <1>12 DEF ApplyMove

\* Outside prepareUpgrade and apart from the start of an upgrade, what is
\* upgraded or paused stays so.
Starting == pc = "runUpgrade" /\ pc' \in {"runWait", "idle"}

LEMMA SettledStays ==
    ASSUME TypeOK, [Next]_vars, pc \in RunCalls, ~Starting,
           NEW c \in Component, status[c] \in {"SUCCESS", "PAUSED"}
    PROVE  status'[c] = status[c]
<1>1. status \in [Component -> Status]
  BY DEF TypeOK, NsxTypeOK
<1>2. UNCHANGED nsx \/ NsxStep \/ Stage
  BY NsxMoves DEF NsxMove, RunCalls, StartCalls, Starting
<1>3. ASSUME NEW d \in Component, NsxFinish(d) PROVE status'[c] = status[c]
  BY <1>1, <1>3 DEF NsxFinish, InFlight
<1> QED
  BY <1>2, <1>3 DEF NsxStep, NsxSettle, NsxRestart, NsxReturn, Stage, nsx

\* runUpgrade leaves only upgraded components behind, or one that is paused.
LEMMA PrefixDoneStep ==
    ASSUME TypeOK, CurrentExists, PrevIsBehind, PrefixDone, [Next]_vars
    PROVE  PrefixDone'
<1> DEFINE Paused == prevPartial # "none" /\ status[prevPartial] = "PAUSED"
           Working == StartCalls \cup {"runWait"}
           Between == {"run", "runCheck", "read"}
<1>1. /\ ComponentList' = ComponentList /\ N \in Nat /\ at \in 1 .. N + 1
      /\ \A i \in 1 .. N : ComponentList[i] \in Component
      /\ \A i, j \in 1 .. N : ComponentList[i] = ComponentList[j] => i = j
      /\ \A i \in 1 .. N : ComponentList[i] = "FINALIZE_UPGRADE" => i = N
  BY TargetStable, ListStable, ListFacts DEF TypeOK, NsxTypeOK, N
<1>2. status \in [Component -> Status] /\ prevPartial \in Customizable \cup {"none"}
  BY DEF TypeOK, NsxTypeOK
<1>3. CASE pc' \notin RunCalls
  BY <1>3 DEF PrefixDone, RunCalls, StartCalls
<1>4. ASSUME pc \in RunCalls, ~Starting, UNCHANGED terraform, NEW i \in 1 .. N, Done(i)
      PROVE  Done(i)'
  BY <1>1, <1>4, SettledStays DEF Done, terraform, FinalizeUpgrade, HasChange
<1>5. ASSUME pc \in RunCalls, ~Starting, UNCHANGED prevPartial, Paused
      PROVE  Paused'
  BY <1>2, <1>5, SettledStays DEF Customizable, Component
<1>6. ASSUME pc \in RunCalls, ~Starting, UNCHANGED terraform, at' = at, DoneBefore
      PROVE  DoneBefore'
  BY <1>1, <1>4, <1>6 DEF DoneBefore
<1>7. ASSUME pc \in RunCalls, ~Starting, UNCHANGED terraform,
             at' = at + 1, DoneBefore, at <= N, Done(at)
      PROVE  DoneBefore'
  BY <1>1, <1>4, <1>7 DEF DoneBefore
<1>8. CASE UNCHANGED <<pc, local, terraform>> /\ pc \in RunCalls
  <2>1. ~Starting
    BY <1>8 DEF Starting
  <2> QED  BY <1>5, <1>6, <1>8, <2>1 DEF PrefixDone, local
<1>9. CASE EndOrBegin \/ Begin \/ PrepareSkip \/ PrepareCheck \/ PreparePause \/ WaitedPrepare
             \/ PrepareReset \/ PrepareGroups \/ PrepareSetting
  BY <1>3, <1>9 DEF EndOrBegin, Begin, PrepareSkip, PrepareCheck, PreparePause, WaitedPrepare,
     PrepareReset, PrepareGroups, PrepareSetting, Goto, NextComponent, RunCalls, StartCalls
<1>10. CASE PrepareDone
  <2>1. at' = 1 /\ pc' = "run"
    BY <1>10 DEF PrepareDone
  <2>2. DoneBefore'
    BY <2>1 DEF DoneBefore
  <2> QED  BY <2>1, <2>2 DEF PrefixDone, StartCalls
<1>11. CASE RunSkipFinalize
  <2>1. /\ pc = "run" /\ pc' = "run" /\ at' = at + 1 /\ UNCHANGED prevPartial
        /\ at <= N /\ Done(at) /\ UNCHANGED terraform
    BY <1>1, <1>11 DEF RunSkipFinalize, NextComponent, AtEnd, Current, Done, N
  <2>2. pc \in RunCalls /\ ~Starting
    BY <2>1 DEF Starting, RunCalls
  <2> QED  BY <1>5, <1>7, <2>1, <2>2 DEF PrefixDone, StartCalls
<1>12. CASE WaitedOverall \/ RunDone
  <2>1. /\ pc = "run" /\ pc' \in {"runCheck", "read"} /\ at' = at
        /\ UNCHANGED <<prevPartial, terraform>>
    BY <1>12 DEF WaitedOverall, RunDone, Goto, local
  <2>2. pc \in RunCalls /\ ~Starting
    BY <2>1 DEF Starting, RunCalls
  <2> QED  BY <1>5, <1>6, <2>1, <2>2 DEF PrefixDone, StartCalls
<1>13. CASE RunCheckPrevious
  <2>1. /\ pc = "runCheck" /\ pc \in RunCalls /\ ~Starting
        /\ UNCHANGED <<prevPartial, terraform>>
    BY <1>13 DEF RunCheckPrevious, Goto, NextComponent, local, Starting, RunCalls
  <2>2. CASE pc' = "runStatus" /\ at' = at
    <3>1. prevPartial = "none" \/ status[prevPartial] = "SUCCESS"
      BY <1>13, <2>2 DEF RunCheckPrevious, NextComponent
    <3> QED  BY <1>6, <2>1, <2>2, <3>1 DEF PrefixDone, StartCalls
  <2>3. CASE pc' = "run" /\ status[prevPartial] # "SUCCESS" /\ prevPartial # "none"
    <3>1. PICK k \in 1 .. N : ComponentList[k] = prevPartial /\ k < at
      BY <2>1, <2>3 DEF PrevIsBehind
    <3>2. ComponentList[k] # "FINALIZE_UPGRADE"
      BY <1>2, <2>3, <3>1 DEF Customizable
    <3>3. ~Done(k)
      BY <2>3, <3>1, <3>2 DEF Done
    <3>4. ~DoneBefore
      BY <1>1, <3>1, <3>3 DEF DoneBefore
    <3>5. Paused'
      BY <1>5, <2>1, <3>4 DEF PrefixDone
    <3> QED  BY <2>3, <3>5 DEF PrefixDone, StartCalls
  <2> QED  BY <1>13, <2>2, <2>3 DEF RunCheckPrevious, Goto, NextComponent, local
<1>14. CASE RunCheckStatus
  <2>1. /\ pc = "runStatus" /\ pc \in RunCalls /\ ~Starting /\ DoneBefore /\ at <= N
        /\ UNCHANGED terraform
    BY <1>14 DEF RunCheckStatus, NextComponent, Starting, RunCalls, StartCalls, PrefixDone, CurrentExists
  <2>2. CASE status[Current] = "SUCCESS" /\ NextComponent("run")
    <3>1. DoneBefore'
      BY <1>7, <2>1, <2>2 DEF Done, Current, NextComponent
    <3> QED  BY <2>2, <3>1 DEF PrefixDone, NextComponent, StartCalls
  <2>3. CASE at' = at /\ pc' \in {"runStage", "runUpgrade"}
    <3>1. DoneBefore'
      BY <1>6, <2>1, <2>3
    <3> QED  BY <2>3, <3>1 DEF PrefixDone, StartCalls
  <2> QED  BY <1>14, <2>2, <2>3 DEF RunCheckStatus
<1>15. CASE RunStage
  <2>1. /\ pc \in RunCalls /\ ~Starting /\ DoneBefore /\ at' = at /\ pc' = "runUpgrade"
        /\ UNCHANGED terraform
    BY <1>15 DEF RunStage, Goto, local, Starting, RunCalls, StartCalls, PrefixDone
  <2> QED  BY <1>6, <2>1 DEF PrefixDone, StartCalls
<1>16. CASE RunStart
  <2>1. /\ pc = "runUpgrade" /\ pc' = "runWait" /\ at' = at /\ DoneBefore /\ at <= N
        /\ status' = [status EXCEPT ![Current] = "IN_PROGRESS"]
        /\ UNCHANGED terraform
    BY <1>16 DEF RunStart, Goto, local, StartUpgrade, StartCalls, PrefixDone, CurrentExists
  <2>2. ASSUME NEW i \in 1 .. at - 1 PROVE Done(i)'
    <3>1. i \in 1 .. N /\ i # at /\ at \in 1 .. N
      BY <1>1, <2>1
    <3>2. ComponentList[i] # Current /\ ComponentList[i] \in Component
      BY <1>1, <3>1 DEF Current
    <3> QED
      BY <1>1, <1>2, <2>1, <3>2 DEF Done, DoneBefore, terraform, FinalizeUpgrade, HasChange
  <2>3. DoneBefore'
    BY <2>1, <2>2 DEF DoneBefore
  <2> QED  BY <2>1, <2>3 DEF PrefixDone, StartCalls
<1>17. CASE WaitedRun
  <2>1. /\ pc = "runWait" /\ pc \in RunCalls /\ ~Starting /\ DoneBefore /\ at <= N
        /\ pc' = "run" /\ at' = at + 1 /\ UNCHANGED <<prevPartial, terraform>>
        /\ status[Current] \in RunTarget
    BY <1>17 DEF WaitedRun, NextComponent, Starting, RunCalls, StartCalls, PrefixDone,
       CurrentExists, Reached
  <2>2. CASE status[Current] = "SUCCESS"
    <3>1. DoneBefore'
      BY <1>7, <2>1, <2>2 DEF Done, Current
    <3> QED  BY <2>1, <3>1 DEF PrefixDone, StartCalls
  <2>3. CASE status[Current] = "PAUSED" /\ IsPartial(Current)
    <3>1. prevPartial = Current /\ Current # "none"
      BY <2>1, <2>3 DEF PrevIsBehind, IsPartial, MayPause, Customizable
    <3>2. Paused'
      BY <1>5, <2>1, <2>3, <3>1
    <3> QED  BY <2>1, <3>2 DEF PrefixDone, StartCalls
  <2> QED  BY <2>1, <2>2, <2>3 DEF RunTarget
<1> QED
  BY ApplyMoves, <1>3, <1>8, <1>9, <1>10, <1>11, <1>12, <1>13, <1>14, <1>15, <1>16, <1>17
     DEF ApplyMove

\* Apart from the start of an upgrade, nothing gets going and nothing upgraded
\* is undone.
KeepsProgress(c) ==
    /\ status[c] = "SUCCESS" => status'[c] = "SUCCESS"
    /\ status[c] = "NOT_STARTED" => status'[c] = "NOT_STARTED"
    /\ status'[c] = "IN_PROGRESS" => status[c] = "IN_PROGRESS"

LEMMA ProgressKept ==
    ASSUME TypeOK, CurrentExists, PrepareAtRest, [Next]_vars, ~Starting, NEW c \in Component
    PROVE  KeepsProgress(c)
<1>1. status \in [Component -> Status]
  BY DEF TypeOK, NsxTypeOK
<1>2. CASE status' = status
  BY <1>2 DEF KeepsProgress
<1>3. ASSUME NEW d \in Component, NsxFinish(d) PROVE KeepsProgress(c)
  BY <1>1, <1>3 DEF NsxFinish, InFlight, KeepsProgress
<1>4. CASE PausePlan
  BY <1>1, <1>4 DEF PausePlan, KeepsProgress
<1>5. CASE pc = "prepReset" /\ ResetPlan(Current)
  <2>1. Current \in Component /\ status[Current] \in {"NOT_STARTED", "PAUSED"}
    BY <1>5, CurrentIsComponent DEF CurrentExists, PrepareAtRest, PrepareCalls
  <2> QED  BY <1>1, <1>5, <2>1 DEF ResetPlan, KeepsProgress
<1> QED
  BY NsxMoves, <1>2, <1>3, <1>4, <1>5
     DEF NsxMove, NsxStep, NsxSettle, NsxRestart, NsxReturn, SetPlan, Stage, Starting, nsx, KeepsProgress

\* The upgrade order is kept.
LEMMA UpgradeOrderStep ==
    ASSUME TypeOK, CurrentExists, PrepareAtRest, NotUpgradedYet, PrefixDone, UpgradeOrder,
           [Next]_vars
    PROVE  UpgradeOrder'
<1>1. /\ ComponentList' = ComponentList /\ N \in Nat /\ at \in 1 .. N + 1
      /\ \A i \in 1 .. N : ComponentList[i] \in Component
      /\ \A i, j \in 1 .. N : ComponentList[i] = ComponentList[j] => i = j
      /\ \A i \in 1 .. N : ComponentList[i] = "FINALIZE_UPGRADE" => i = N
  BY TargetStable, ListStable, ListFacts DEF TypeOK, NsxTypeOK, N
<1>2. status \in [Component -> Status]
  BY DEF TypeOK, NsxTypeOK
<1> SUFFICES ASSUME NEW i \in 1 .. N, NEW j \in 1 .. N, i < j,
                    status'[ComponentList[j]] # "NOT_STARTED",
                    ~Beforehand(ComponentList[j])
             PROVE  status'[ComponentList[i]] = "SUCCESS"
  BY <1>1, TargetStable DEF UpgradeOrder, N, Beforehand
<1>3. status[ComponentList[j]] # "NOT_STARTED" => status[ComponentList[i]] = "SUCCESS"
  BY DEF UpgradeOrder, N
<1>4. CASE Starting /\ StartUpgrade(Current)
  <2>1. /\ at \in 1 .. N /\ DoneBefore /\ status[Current] # "SUCCESS"
        /\ status' = [status EXCEPT ![Current] = "IN_PROGRESS"]
    BY <1>1, <1>4 DEF Starting, StartUpgrade, CurrentExists, StartCalls, PrefixDone, NotUpgradedYet
  <2>2. status[ComponentList[i]] = "SUCCESS"
    <3>1. CASE j = at
      BY <1>1, <2>1, <3>1 DEF DoneBefore, Done
    <3>2. CASE j # at
      BY <1>1, <1>2, <1>3, <2>1, <3>2 DEF Current
    <3> QED  BY <3>1, <3>2
  <2> QED  BY <1>1, <1>2, <2>1, <2>2
<1>5. CASE Starting /\ ~StartUpgrade(Current)
  <2>1. UNCHANGED nsx \/ NsxStep
    BY NsxMoves, <1>5 DEF NsxMove, Starting
  <2>2. ASSUME NEW d \in Component, NsxFinish(d) PROVE status'[ComponentList[i]] = "SUCCESS"
    BY <1>1, <1>2, <1>3, <2>2 DEF NsxFinish, InFlight
  <2> QED  BY <1>3, <2>1, <2>2 DEF NsxStep, NsxSettle, NsxRestart, NsxReturn, nsx
<1>6. CASE ~Starting
  BY <1>1, <1>3, <1>6, ProgressKept DEF KeepsProgress
<1> QED  BY <1>4, <1>5, <1>6

\* Every step keeps the invariant.
LEMMA InvStep ==
    ASSUME IInv, [Next]_vars
    PROVE  IInv'
BY TypeStep, CurrentExistsStep, OverallIsSafeStep, PrepareAtRestStep, QuietBeforeStartStep,
   NotUpgradedYetStep, PrevIsBehindStep, PrefixDoneStep, UpgradeOrderStep DEF IInv

LEMMA Invariance == Spec => []IInv
<1>1. Init => IInv
  BY InitInv DEF ConfigInv
<1>2. IInv /\ [Next]_vars => IInv'
  BY InvStep
<1> QED  BY <1>1, <1>2, PTL DEF Spec

-----------------------------------------------------------------------------
\* Away from the calls that rewrite it, a plan that is in place stays there.
LEMMA InPlaceKept ==
    ASSUME IInv, [Next]_vars, UNCHANGED <<saved, desired>>, NEW c \in Customizable, InPlace(c),
           c # Current \/ pc \notin PrepareCalls,
           c = "HOST" => UNCHANGED hasVLCM
    PROVE  InPlace(c)'
<1>1. HasChange(c)' = HasChange(c)
  BY DEF HasChange
<1>2. plan'[c] = plan[c]
  <2>1. plan \in [Customizable -> PlanValue]
    BY DEF IInv, TypeOK, NsxTypeOK
  <2> QED
    BY <2>1, NsxMoves DEF NsxMove, NsxStep, NsxFinish, NsxSettle, NsxRestart, NsxReturn,
       PausePlan, ResetPlan, SetPlan, Stage, StartUpgrade, nsx, PrepareCalls
<1>3. status[c] = "SUCCESS" => status'[c] = "SUCCESS"
  <2>1. CASE ~Starting
    BY <2>1, ProgressKept DEF IInv, KeepsProgress, Customizable, Component
  <2>2. CASE Starting
    <3>1. status \in [Component -> Status] /\ c \in Component /\ status[Current] # "SUCCESS"
      BY <2>2 DEF IInv, TypeOK, NsxTypeOK, Customizable, Component, NotUpgradedYet, Starting
    <3>2. CASE StartUpgrade(Current)
      BY <3>1, <3>2 DEF StartUpgrade
    <3>3. CASE UNCHANGED nsx \/ NsxStep
      BY <3>1, <3>3 DEF NsxStep, NsxFinish, NsxSettle, NsxRestart, NsxReturn, nsx, InFlight
    <3> QED  BY <2>2, <3>2, <3>3, NsxMoves DEF NsxMove, Starting
  <2> QED  BY <2>1, <2>2
<1> QED  BY <1>1, <1>2, <1>3 DEF InPlace

\* An apply begins with the first component.
LEMMA FromTheFirstStep ==
    ASSUME TypeOK, FromTheFirst, [Next]_vars
    PROVE  FromTheFirst'
<1>1. CASE EndOrBegin \/ UNCHANGED <<pc, local, terraform>>
  BY <1>1 DEF EndOrBegin, FromTheFirst, local
<1>2. CASE pc' \notin {"idle", "begin"}
  BY <1>2 DEF FromTheFirst
<1>3. CASE Begin \/ PrepareSkip \/ PrepareCheck \/ PreparePause \/ WaitedPrepare
             \/ PrepareReset \/ PrepareGroups \/ PrepareSetting \/ PrepareDone
  BY <1>2, <1>3 DEF Begin, PrepareSkip, PrepareCheck, PreparePause, WaitedPrepare,
     PrepareReset, PrepareGroups, PrepareSetting, PrepareDone, Goto, NextComponent
<1>4. CASE RunSkipFinalize \/ WaitedOverall \/ RunCheckPrevious \/ RunCheckStatus
             \/ RunStage \/ RunStart \/ WaitedRun \/ RunDone
  BY <1>2, <1>4 DEF RunSkipFinalize, WaitedOverall, RunCheckPrevious, RunCheckStatus,
     RunStage, RunStart, WaitedRun, RunDone, Goto, NextComponent
<1> QED  BY ApplyMoves, <1>1, <1>3, <1>4 DEF ApplyMove

\* prepareUpgrade leaves the plans of the components that changed in place.
LEMMA PlansInPlaceStep ==
    ASSUME IInv, FromTheFirst, PlansInPlace, [Next]_vars
    PROVE  PlansInPlace'
<1> DEFINE Preparing == PrepareCalls \cup {"prep"}
           PreparedTo(n) ==
               \A i \in 1 .. n, c \in Customizable : ComponentList[i] = c => InPlace(c)
           AllInPlace == \A c \in Customizable : InPlace(c)
           VLCMKnown == hasVLCM = (desired["HOST"] = "vlcm")
<1>1. /\ ComponentList' = ComponentList /\ N \in Nat /\ at \in 1 .. N + 1
      /\ \A i, j \in 1 .. N : ComponentList[i] = ComponentList[j] => i = j
      /\ \A i, j \in 1 .. N :
            ComponentList[i] = "HOST" /\ ComponentList[j] = "EDGE" => j < i
      /\ \A c \in Customizable : \E i \in 1 .. N : ComponentList[i] = c
  BY TargetStable, ListStable, ListFacts DEF IInv, TypeOK, NsxTypeOK, N
<1>2. at' = at => Current' = Current
  BY <1>1 DEF Current
<1>3. pc \in PrepareCalls => at \in 1 .. N /\ Current \in Customizable
  BY <1>1 DEF IInv, CurrentExists
<1>4. pc \in Preparing => PreparedTo(at - 1)
  BY DEF PlansInPlace
<1>5. CASE pc' \notin Preparing \cup RunCalls
  BY <1>5 DEF PlansInPlace, PrepareCalls
<1>6. CASE EndOrBegin
  BY <1>5, <1>6 DEF EndOrBegin, PrepareCalls, RunCalls, StartCalls
<1>7. CASE Begin
  BY <1>7 DEF Begin, Goto, local, FromTheFirst, PlansInPlace, PrepareCalls, RunCalls, StartCalls
\* The components behind the current one stay prepared.
<1>8. ASSUME pc \in Preparing, UNCHANGED <<saved, desired>>,
             UNCHANGED hasVLCM \/ pc = "prepGroups",
             NEW i \in 1 .. at - 1, NEW c \in Customizable, ComponentList[i] = c
      PROVE  InPlace(c)'
  <2>1. InPlace(c)
    BY <1>4, <1>8
  <2>2. c # Current \/ pc \notin PrepareCalls
    BY <1>1, <1>3, <1>8 DEF Current
  <2>3. c = "HOST" => UNCHANGED hasVLCM
    <3> SUFFICES ASSUME c = "HOST", pc = "prepGroups" PROVE FALSE
      BY <1>8
    <3>1. at \in 1 .. N /\ Current = "EDGE"
      BY <1>3, <2>2 DEF PrepareCalls, Customizable
    <3> QED  BY <1>1, <1>8, <3>1 DEF Current
  <2> QED  BY <1>8, <2>1, <2>2, <2>3, InPlaceKept
<1>9. ASSUME pc \in Preparing, UNCHANGED <<at, hasVLCM, saved, desired>>,
             pc' \in Preparing, pc' # "prepSetting" \/ pc = "prepSetting"
      PROVE  PlansInPlace'
  <2>1. PreparedTo(at - 1)'
    BY <1>1, <1>8, <1>9
  <2>2. (pc = "prepSetting" /\ Current = "HOST" => VLCMKnown)'
    BY <1>2, <1>9 DEF PlansInPlace
  <2> QED  BY <1>9, <2>1, <2>2 DEF PlansInPlace, PrepareCalls, RunCalls, StartCalls
<1>10. CASE UNCHANGED <<pc, local, terraform>> /\ pc \in Preparing
  BY <1>9, <1>10 DEF local, terraform
<1>11. CASE PreparePause \/ WaitedPrepare \/ PrepareReset
  BY <1>9, <1>11 DEF PreparePause, WaitedPrepare, PrepareReset, Goto, local, terraform, PrepareCalls
<1>12. CASE PrepareGroups
  <2>1. /\ pc = "prepGroups" /\ pc' = "prepSetting" /\ at' = at /\ UNCHANGED <<saved, desired>>
        /\ hasVLCM' = (desired[Current] = "vlcm")
    BY <1>12 DEF PrepareGroups, terraform
  <2>2. PreparedTo(at - 1)'
    BY <1>1, <1>8, <2>1 DEF PrepareCalls
  <2>3. (Current = "HOST" => VLCMKnown)'
    BY <1>2, <2>1
  <2> QED  BY <2>1, <2>2, <2>3 DEF PlansInPlace, RunCalls, StartCalls
\* The current component is prepared and left behind.
<1>13. ASSUME pc \in Preparing, NextComponent("prep"), at <= N,
              \A c \in Customizable : c = Current => InPlace(c)'
       PROVE  PlansInPlace'
  <2>1. UNCHANGED <<hasVLCM, saved, desired>> /\ at' = at + 1 /\ pc' = "prep"
    BY <1>13 DEF NextComponent, terraform
  <2>2. ASSUME NEW i \in 1 .. at, NEW c \in Customizable, ComponentList[i] = c
        PROVE  InPlace(c)'
    <3>1. CASE i = at
      BY <1>13, <2>2, <3>1 DEF Current
    <3>2. CASE i # at
      BY <1>1, <1>8, <1>13, <2>1, <2>2, <3>2
    <3> QED  BY <3>1, <3>2
  <2>3. PreparedTo(at - 1)'
    BY <1>1, <2>1, <2>2
  <2> QED  BY <2>1, <2>3 DEF PlansInPlace, RunCalls, StartCalls
<1>14. CASE PrepareSkip
  <2>1. /\ pc = "prep" /\ NextComponent("prep") /\ at <= N
        /\ Current \in Customizable => ~HasChange(Current)
    BY <1>1, <1>14 DEF PrepareSkip, AtEnd, N
  <2>2. ASSUME NEW c \in Customizable, c = Current PROVE InPlace(c)'
    BY <2>1, <2>2 DEF NextComponent, terraform, InPlace, HasChange
  <2> QED  BY <1>13, <2>1, <2>2
<1>15. CASE PrepareCheck
  <2>1. CASE Goto("prepPause") \/ Goto("prepWait")
    BY <1>9, <1>15, <2>1 DEF PrepareCheck, Goto, local, terraform, PrepareCalls
  <2>2. CASE status[Current] = "SUCCESS" /\ NextComponent("prep")
    <3>1. pc = "prep" /\ at <= N /\ UNCHANGED nsx
      BY <1>1, <1>15 DEF PrepareCheck, AtEnd, N
    <3>2. ASSUME NEW c \in Customizable, c = Current PROVE InPlace(c)'
      BY <2>2, <3>1, <3>2 DEF nsx, InPlace
    <3> QED  BY <1>13, <2>2, <3>1, <3>2
  <2> QED  BY <1>15, <2>1, <2>2 DEF PrepareCheck
<1>16. CASE PrepareSetting
  <2>1. /\ pc = "prepSetting" /\ NextComponent("prep") /\ at <= N
        /\ plan' = [plan EXCEPT ![Current] = desired[Current]]
        /\ Current = "HOST" => VLCMKnown
    BY <1>3, <1>16 DEF PrepareSetting, SetPlan, PrepareCalls, PlansInPlace
  <2>2. ASSUME NEW c \in Customizable, c = Current PROVE InPlace(c)'
    <3>1. plan'[c] = desired[c]
      BY <2>1, <2>2 DEF IInv, TypeOK, NsxTypeOK
    <3>2. UNCHANGED <<hasVLCM, desired>>
      BY <2>1 DEF NextComponent, terraform
    <3> QED  BY <2>1, <2>2, <3>1, <3>2 DEF InPlace
  <2> QED  BY <1>13, <2>1, <2>2 DEF PrepareCalls
<1>17. ASSUME pc \in {"prep"} \cup RunCalls, pc' \in RunCalls, AllInPlace,
              UNCHANGED <<hasVLCM, saved, desired>>
       PROVE  PlansInPlace'
  <2>1. pc \notin PrepareCalls
    BY <1>17 DEF PrepareCalls, RunCalls, StartCalls
  <2>2. ASSUME NEW c \in Customizable PROVE InPlace(c)'
    BY <1>17, <2>1, <2>2, InPlaceKept
  <2> QED  BY <1>17, <2>2 DEF PlansInPlace, PrepareCalls, RunCalls, StartCalls
<1>18. CASE PrepareDone
  <2>1. pc = "prep" /\ pc' = "run" /\ at = N + 1 /\ UNCHANGED <<hasVLCM, saved, desired>>
    BY <1>1, <1>18 DEF PrepareDone, AtEnd, terraform, N
  <2>2. AllInPlace
    BY <1>1, <1>4, <2>1
  <2> QED  BY <1>17, <2>1, <2>2 DEF RunCalls
<1>19. pc \in RunCalls => AllInPlace
  BY DEF PlansInPlace
<1>20. CASE UNCHANGED <<pc, local, terraform>> /\ pc \in RunCalls
  BY <1>17, <1>19, <1>20 DEF local, terraform
<1>21. CASE RunSkipFinalize \/ WaitedOverall \/ RunCheckPrevious \/ RunCheckStatus
              \/ RunStage \/ RunStart \/ WaitedRun \/ RunDone
  <2>1. pc \in RunCalls /\ pc' \in RunCalls /\ UNCHANGED <<hasVLCM, saved, desired>>
    BY <1>21 DEF RunSkipFinalize, WaitedOverall, RunCheckPrevious, RunCheckStatus,
       RunStage, RunStart, WaitedRun, RunDone, Goto, NextComponent, local, terraform,
       RunCalls, StartCalls
  <2> QED  BY <1>17, <1>19, <2>1
<1> QED
  BY ApplyMoves, <1>5, <1>6, <1>7, <1>10, <1>11, <1>12, <1>14, <1>15, <1>16, <1>18, <1>20, <1>21
     DEF ApplyMove

\* A host upgrade with staged groups is started after the staging.
LEMMA StagedInTimeStep ==
    ASSUME StagedInTime, [Next]_vars
    PROVE  StagedInTime'
<1>1. at' = at => Current' = Current
  BY TargetStable, ListStable DEF Current
<1>2. CASE pc' # "runUpgrade"
  BY <1>2 DEF StagedInTime
<1>3. CASE UNCHANGED <<pc, local, terraform>> /\ pc = "runUpgrade"
  <2>1. UNCHANGED staged
    BY <1>3, NsxMoves DEF NsxMove, NsxStep, NsxFinish, NsxSettle, NsxRestart, NsxReturn,
       StartUpgrade, nsx
  <2> QED  BY <1>1, <1>3, <2>1 DEF StagedInTime, local
<1>4. CASE RunCheckStatus
  BY <1>1, <1>4 DEF RunCheckStatus, NextComponent, StagedInTime
<1>5. CASE RunStage
  BY <1>5 DEF RunStage, StagedInTime
<1>6. CASE EndOrBegin \/ Begin \/ PrepareSkip \/ PrepareCheck \/ PreparePause \/ WaitedPrepare
             \/ PrepareReset \/ PrepareGroups \/ PrepareSetting \/ PrepareDone
  BY <1>2, <1>6 DEF EndOrBegin, Begin, PrepareSkip, PrepareCheck, PreparePause, WaitedPrepare,
     PrepareReset, PrepareGroups, PrepareSetting, PrepareDone, Goto, NextComponent
<1>7. CASE RunSkipFinalize \/ WaitedOverall \/ RunCheckPrevious \/ RunStart \/ WaitedRun \/ RunDone
  BY <1>2, <1>7 DEF RunSkipFinalize, WaitedOverall, RunCheckPrevious, RunStart, WaitedRun,
     RunDone, Goto, NextComponent
<1> QED  BY ApplyMoves, <1>2, <1>3, <1>4, <1>5, <1>6, <1>7 DEF ApplyMove

\* Finalization is gone into only where it is wanted.
LEMMA FinalizeWantedStep ==
    ASSUME FinalizeWanted, [Next]_vars
    PROVE  FinalizeWanted'
<1>1. at' = at => Current' = Current
  BY TargetStable, ListStable DEF Current
<1>2. UNCHANGED <<saved, desired>> => FinalizeUpgrade' = FinalizeUpgrade
  BY DEF FinalizeUpgrade, HasChange
<1>3. CASE pc' \notin StartCalls \cup {"runCheck"}
  BY <1>3 DEF FinalizeWanted
<1>4. CASE /\ pc \in StartCalls \cup {"runCheck"}
           /\ UNCHANGED <<at, saved, desired>>
  BY <1>1, <1>2, <1>4 DEF FinalizeWanted
<1>5. CASE UNCHANGED <<pc, local, terraform>>
  BY <1>3, <1>4, <1>5 DEF local, terraform
<1>6. CASE WaitedOverall
  BY <1>1, <1>2, <1>6 DEF WaitedOverall, Goto, local, terraform, FinalizeWanted
<1>7. CASE RunCheckPrevious \/ RunCheckStatus \/ RunStage
  BY <1>3, <1>4, <1>7 DEF RunCheckPrevious, RunCheckStatus, RunStage, Goto, NextComponent,
     local, terraform, StartCalls
<1>8. CASE EndOrBegin \/ Begin \/ PrepareSkip \/ PrepareCheck \/ PreparePause \/ WaitedPrepare
             \/ PrepareReset \/ PrepareGroups \/ PrepareSetting \/ PrepareDone
  BY <1>3, <1>8 DEF EndOrBegin, Begin, PrepareSkip, PrepareCheck, PreparePause, WaitedPrepare,
     PrepareReset, PrepareGroups, PrepareSetting, PrepareDone, Goto, NextComponent, StartCalls
<1>9. CASE RunSkipFinalize \/ RunStart \/ WaitedRun \/ RunDone
  BY <1>3, <1>9 DEF RunSkipFinalize, RunStart, WaitedRun, RunDone, Goto, NextComponent, StartCalls
<1> QED  BY ApplyMoves, <1>5, <1>6, <1>7, <1>8, <1>9 DEF ApplyMove

LEMMA ConfigInvariance == Spec => []ConfigInv
<1>1. ConfigInv /\ [Next]_vars => ConfigInv'
  BY InvStep, FromTheFirstStep, PlansInPlaceStep, StagedInTimeStep, FinalizeWantedStep
     DEF ConfigInv, IInv
<1> QED  BY <1>1, InitInv, PTL DEF Spec

-----------------------------------------------------------------------------
\* No step takes back what was upgraded beforehand: nothing upgraded is started.
LEMMA BeforehandStep ==
    ASSUME IInv, BeforehandDone, [Next]_vars
    PROVE  BeforehandDone'
<1> SUFFICES ASSUME NEW c \in Component, status[c] = "SUCCESS"
             PROVE  status'[c] = "SUCCESS"
  BY TargetStable DEF BeforehandDone, Beforehand
<1>1. status \in [Component -> Status]
  BY DEF IInv, TypeOK, NsxTypeOK
<1>2. CASE ~Starting
  BY <1>2, ProgressKept DEF IInv, KeepsProgress
<1>3. CASE Starting
  <2>1. UNCHANGED nsx \/ NsxStep \/ StartUpgrade(Current)
    BY <1>3, NsxMoves DEF NsxMove, Starting
  <2>2. status[Current] # "SUCCESS"
    BY <1>3 DEF IInv, NotUpgradedYet, Starting
  <2> QED
    BY <1>1, <2>1, <2>2
    DEF StartUpgrade, NsxStep, NsxFinish, InFlight, NsxSettle, NsxRestart, NsxReturn, nsx
<1> QED  BY <1>2, <1>3

LEMMA PrevMayPauseStep ==
    ASSUME IInv, PrevMayPause, [Next]_vars
    PROVE  PrevMayPause'
<1>1. CASE prevPartial' = "none"
  BY <1>1 DEF PrevMayPause
<1>2. CASE UNCHANGED <<prevPartial, desired>>
  BY <1>2 DEF PrevMayPause, IsPartial, MayPause
<1>3. CASE RunCheckStatus
  BY <1>3 DEF RunCheckStatus, NextComponent, terraform, PrevMayPause, IsPartial, MayPause
<1>4. CASE ApplyStart \/ Destroy
  BY <1>1, <1>4 DEF ApplyStart, Destroy, local, IInv, PrevIsBehind, RunCalls, StartCalls
<1>5. CASE Finish \/ Fault
  BY <1>1, <1>5 DEF Finish, Fault, Timeout, CallError, Panic, Kill, Fail, Die, EndApply
<1>6. CASE Begin \/ Prepare
  BY <1>1, <1>2, <1>6 DEF Begin, Prepare, PrepareSkip, PrepareCheck, PreparePause, PrepareWait,
     PrepareReset, PrepareGroups, PrepareSetting, PrepareDone, Goto, NextComponent, local,
     terraform, WaitUntil, WaitUnexpected, Fail, EndApply
<1>7. CASE Run /\ ~RunCheckStatus
  BY <1>1, <1>2, <1>7 DEF Run, RunSkipFinalize, RunWaitOverall, RunCheckPrevious, RunStage,
     RunStart, RunWait, RunDone, Goto, NextComponent, local, terraform, WaitUntil,
     WaitUnexpected, Fail, EndApply
<1>8. CASE Environment \/ Quiescent \/ UNCHANGED vars
  BY <1>2, <1>8 DEF Environment, Quiescent, vars, local, terraform
<1> QED
  BY <1>3, <1>4, <1>5, <1>6, <1>7, <1>8 DEF Next, ApplyStep

LEMMA ReadAtEndStep ==
    ASSUME IInv, ReadAtEnd, [Next]_vars
    PROVE  ReadAtEnd'
<1>1. ComponentList' = ComponentList
  BY TargetStable, ListStable
<1>2. CASE pc' # "read"
  BY <1>2 DEF ReadAtEnd
<1>3. CASE UNCHANGED <<pc, local, terraform>>
  BY <1>1, <1>3 DEF ReadAtEnd, AtEnd, local
<1>4. CASE RunDone
  BY <1>1, <1>4 DEF RunDone, Goto, local, AtEnd, ReadAtEnd
<1>5. CASE EndOrBegin \/ Begin \/ PrepareSkip \/ PrepareCheck \/ PreparePause \/ WaitedPrepare
             \/ PrepareReset \/ PrepareGroups \/ PrepareSetting \/ PrepareDone
  BY <1>2, <1>5 DEF EndOrBegin, Begin, PrepareSkip, PrepareCheck, PreparePause, WaitedPrepare,
     PrepareReset, PrepareGroups, PrepareSetting, PrepareDone, Goto, NextComponent
<1>6. CASE RunSkipFinalize \/ WaitedOverall \/ RunCheckPrevious \/ RunCheckStatus
             \/ RunStage \/ RunStart \/ WaitedRun
  BY <1>2, <1>6 DEF RunSkipFinalize, WaitedOverall, RunCheckPrevious, RunCheckStatus,
     RunStage, RunStart, WaitedRun, Goto, NextComponent
<1> QED  BY ApplyMoves, <1>3, <1>4, <1>5, <1>6 DEF ApplyMove

\* An apply that ends well has come to the end of the list with everything
\* upgraded, or has remembered a component that is paused; by the order of the
\* upgrade everything before that one is upgraded.
LEMMA FinishEndsWell ==
    ASSUME EndInv, Finish
    PROVE  AllUpgraded' \/ \E k \in 1 .. N : PausedAt(k)'
<1>1. /\ N \in Nat /\ \A i \in 1 .. N : ComponentList[i] \in Component
      /\ at = N + 1 /\ saved' = desired /\ UNCHANGED <<status, post9>>
  BY ListFacts DEF EndInv, IInv, TypeOK, NsxTypeOK, ReadAtEnd, AtEnd, Finish, nsx, given, N
<1>2. ComponentList' = ComponentList /\ N' = N
  BY <1>1, ListStable
<1>3. DoneBefore \/ (prevPartial # "none" /\ status[prevPartial] = "PAUSED")
  BY DEF EndInv, IInv, PrefixDone, Finish
<1>4. CASE DoneBefore
  <2>1. ASSUME NEW i \in 1 .. N, status[ComponentList[i]] # "SUCCESS"
        PROVE  ComponentList[i] = "FINALIZE_UPGRADE" /\ desired["FINALIZE_UPGRADE"] = "off"
    BY <1>1, <1>4, <2>1 DEF DoneBefore, Done, FinalizeUpgrade
  <2> QED  BY <1>1, <1>2, <2>1 DEF AllUpgraded, Unfinished, N
<1>5. CASE prevPartial # "none" /\ status[prevPartial] = "PAUSED"
  <2>1. PICK k \in 1 .. N : ComponentList[k] = prevPartial
    BY <1>5 DEF EndInv, IInv, PrevIsBehind
  <2>2. ~Beforehand(ComponentList[k])
    BY <1>1, <1>5, <2>1 DEF EndInv, BeforehandDone
  <2>3. \A i \in 1 .. k - 1 : status[ComponentList[i]] = "SUCCESS"
    BY <1>1, <1>5, <2>1, <2>2 DEF EndInv, IInv, UpgradeOrder, N
  <2>4. MayPause(desired, ComponentList[k])
    BY <1>5, <2>1 DEF EndInv, PrevMayPause, IsPartial
  <2> QED  BY <1>1, <1>2, <1>5, <2>1, <2>3, <2>4 DEF PausedAt, MayPause
<1> QED  BY <1>3, <1>4, <1>5

\* Between two applies what is upgraded or paused stays so.
LEMMA OkAtRestStep ==
    ASSUME EndInv, [Next]_vars
    PROVE  OkAtRest'
<1>1. /\ ComponentList' = ComponentList /\ N' = N /\ N \in Nat
      /\ \A i \in 1 .. N : ComponentList[i] \in Component
      /\ status \in [Component -> Status]
  BY TargetStable, ListStable, ListFacts DEF EndInv, IInv, TypeOK, NsxTypeOK
<1>2. CASE result' # "ok"
  BY <1>2 DEF OkAtRest
<1>3. CASE UNCHANGED <<pc, local, terraform>> /\ (NsxStep \/ UNCHANGED nsx)
  <2> SUFFICES ASSUME result = "ok" PROVE OkAtRest'
    BY <1>2, <1>3 DEF terraform
  <2>1. pc' = "idle" /\ saved' = saved /\ pc = "idle"
    BY <1>3 DEF EndInv, OkAtRest, terraform
  <2>2. ASSUME NEW c \in Component, status[c] \in {"SUCCESS", "PAUSED"}
        PROVE  status'[c] = status[c]
    BY <1>1, <1>3, <2>2 DEF NsxStep, NsxFinish, InFlight, NsxSettle, NsxRestart, NsxReturn, nsx
  <2>3. CASE AllUpgraded
    <3>1. AllUpgraded'
      BY <1>1, <2>1, <2>2, <2>3 DEF AllUpgraded, Unfinished, N
    <3> QED  BY <2>1, <3>1 DEF OkAtRest
  <2>4. ASSUME NEW k \in 1 .. N, PausedAt(k) PROVE OkAtRest'
    <3>1. PausedAt(k)'
      BY <1>1, <2>1, <2>2, <2>4 DEF PausedAt, MayPause
    <3> QED  BY <1>1, <2>1, <2>4, <3>1 DEF OkAtRest
  <2> QED  BY <2>3, <2>4 DEF EndInv, OkAtRest
<1>4. CASE Finish
  BY <1>1, <1>4, FinishEndsWell DEF Finish, EndApply, OkAtRest
<1>5. CASE ApplyStart \/ Destroy \/ Fault
  BY <1>2, <1>5
  DEF ApplyStart, Destroy, Fault, Timeout, CallError, Panic, Kill, Fail, Die, EndApply
<1>6. CASE pc # "idle" /\ result' = result
  BY <1>2, <1>6 DEF EndInv, OkAtRest
<1>7. CASE Begin \/ Prepare
  BY <1>2, <1>6, <1>7 DEF Begin, Prepare, PrepareSkip, PrepareCheck, PreparePause, PrepareWait,
     PrepareReset, PrepareGroups, PrepareSetting, PrepareDone, Goto, NextComponent,
     terraform, WaitUntil, WaitUnexpected, Fail, EndApply
<1>8. CASE Run
  BY <1>2, <1>6, <1>8 DEF Run, RunSkipFinalize, RunWaitOverall, RunCheckPrevious, RunCheckStatus,
     RunStage, RunStart, RunWait, RunDone, Goto, NextComponent, terraform, WaitUntil,
     WaitUnexpected, Fail, EndApply
<1>9. CASE Environment \/ Quiescent \/ UNCHANGED vars
  BY <1>3, <1>9 DEF Environment, Quiescent, vars
<1> QED
  BY <1>4, <1>5, <1>7, <1>8, <1>9 DEF Next, ApplyStep

LEMMA EndInvariance == Spec => []EndInv
<1>1. Init => EndInv
  <2>1. ASSUME Init PROVE IInv
    BY <2>1, InitInv DEF ConfigInv
  <2>2. ASSUME Init PROVE BeforehandDone /\ PrevMayPause /\ ReadAtEnd /\ OkAtRest
    BY <2>2 DEF Init, NsxInit, BeforehandDone, PrevMayPause, ReadAtEnd, OkAtRest
  <2> QED  BY <2>1, <2>2 DEF EndInv
<1>2. EndInv /\ [Next]_vars => EndInv'
  BY InvStep, BeforehandStep, PrevMayPauseStep, ReadAtEndStep, OkAtRestStep DEF EndInv
<1> QED  BY <1>1, <1>2, PTL DEF Spec

-----------------------------------------------------------------------------
\* In every state each variable holds a value of its type, and the index of
\* the component an apply works on stays within the component list.
THEOREM TypeCorrect == Spec => []TypeOK
<1>1. IInv => TypeOK
  BY DEF IInv
<1> QED  BY <1>1, Invariance, PTL

\* Components are upgraded in the order of getUpgradeComponentList, for any
\* number of applies and whatever way each of them ends.
THEOREM UpgradeOrderHolds == Spec => []UpgradeOrder
<1>1. IInv => UpgradeOrder
  BY DEF IInv
<1> QED  BY <1>1, Invariance, PTL

\* The wait for the overall status keeps runUpgrade from starting an upgrade
\* while another one is in flight, left behind by an earlier apply included.
THEOREM StartsDoNotOverlap == Spec => NoOverlappingStart
<1>1. ASSUME IInv, [Next]_vars, NEW c \in Component, Starts(c)
      PROVE  overall \notin InFlight /\ NoneInFlight
  <2>1. Starting
    BY <1>1, ProgressKept DEF IInv, Starts, KeepsProgress
  <2>2. overall \notin InFlight
    BY <1>1, <2>1 DEF IInv, QuietBeforeStart, Starting, StartCalls
  <2> QED  BY <1>1, <2>2 DEF IInv, OverallIsSafe
<1>2. IInv /\ [Next]_vars =>
        [\A c \in Component : Starts(c) => overall \notin InFlight /\ NoneInFlight]_vars
  BY <1>1
<1> QED  BY <1>2, Invariance, PTL DEF Spec, NoOverlappingStart

\* prepareUpgrade rewrites the plan of a component only while the component is
\* at rest and not upgraded.
THEOREM PlanChangesAtRest == Spec => PlanChangedOnlyAtRest
<1>1. ASSUME IInv, [Next]_vars, NEW c \in Customizable, plan'[c] # plan[c]
      PROVE  status[c] \notin InFlight \cup {"SUCCESS"}
  <2>1. plan \in [Customizable -> PlanValue]
    BY <1>1 DEF IInv, TypeOK, NsxTypeOK
  <2>2. /\ pc \in {"prepReset", "prepGroups", "prepSetting"}
        /\ c = Current
    BY <1>1, <2>1, NsxMoves DEF NsxMove, NsxStep, NsxFinish, NsxSettle, NsxRestart, NsxReturn,
       PausePlan, ResetPlan, SetPlan, Stage, StartUpgrade, nsx
  <2>3. status[c] \in {"NOT_STARTED", "PAUSED"}
    BY <1>1, <2>2 DEF IInv, PrepareAtRest
  <2> QED  BY <2>3 DEF InFlight
<1>2. IInv /\ [Next]_vars =>
        [\A c \in Customizable :
            plan'[c] # plan[c] => status[c] \notin InFlight \cup {"SUCCESS"}]_vars
  BY <1>1
<1> QED  BY <1>2, Invariance, PTL DEF Spec, PlanChangedOnlyAtRest

\* A component whose configuration changed is started with that configuration
\* in place, staged when it is to be, and finalization only if wanted.
THEOREM StartsAsConfigured == Spec => StartedAsConfigured
<1> DEFINE AsConfigured(c) ==
               IF c = "FINALIZE_UPGRADE" THEN desired[c] # "off"
               ELSE plan[c] = desired[c] /\ (desired[c] = "vlcm" => staged)
<1>1. ASSUME ConfigInv, [Next]_vars, NEW c \in Arguments, Starts(c), HasChange(c)
      PROVE  AsConfigured(c)
  <2>1. c \in Component
    BY DEF Arguments, Customizable, Component
  <2>2. Starting
    BY <1>1, <2>1, ProgressKept DEF ConfigInv, IInv, Starts, KeepsProgress
  <2>3. c = Current
    <3>1. status \in [Component -> Status]
      BY <1>1 DEF ConfigInv, IInv, TypeOK, NsxTypeOK
    <3>2. UNCHANGED nsx \/ NsxStep \/ StartUpgrade(Current)
      BY <1>1, <2>2, NsxMoves DEF NsxMove, Starting
    <3> QED  BY <1>1, <2>1, <3>1, <3>2 DEF Starts, StartUpgrade, NsxStep, NsxFinish, NsxSettle,
       NsxRestart, NsxReturn, nsx
  <2>4. CASE c = "FINALIZE_UPGRADE"
    BY <1>1, <2>2, <2>3, <2>4 DEF ConfigInv, FinalizeWanted, FinalizeUpgrade, Starting, StartCalls
  <2>5. CASE c # "FINALIZE_UPGRADE"
    <3>1. c \in Customizable /\ InPlace(c) /\ status[c] # "SUCCESS"
      BY <1>1, <2>2, <2>3, <2>5 DEF Arguments, ConfigInv, IInv, PlansInPlace, NotUpgradedYet,
         Starting, RunCalls, StartCalls
    <3>2. plan[c] = desired[c] /\ (c = "HOST" => hasVLCM = (desired[c] = "vlcm"))
      BY <1>1, <3>1 DEF InPlace
    <3>3. desired[c] = "vlcm" => c = "HOST"
      <4>1. desired \in Config \cup {NoConfig} /\ "vlcm" \notin EdgeChoices
        BY <1>1, ChoicesAssumption DEF ConfigInv, IInv, TypeOK
      <4>2. desired["EDGE"] # "vlcm"
        BY <4>1 DEF Config, NoConfig, Arguments, Customizable
      <4> QED  BY <3>1, <4>2 DEF Customizable
    <3>4. desired[c] = "vlcm" => staged
      BY <1>1, <2>2, <2>3, <3>2, <3>3 DEF ConfigInv, StagedInTime, Starting
    <3> QED  BY <2>5, <3>2, <3>4
  <2> QED  BY <2>4, <2>5
<1>2. ConfigInv /\ [Next]_vars =>
        [\A c \in Arguments :
            Starts(c) /\ HasChange(c) =>
               IF c = "FINALIZE_UPGRADE" THEN desired[c] # "off"
               ELSE /\ plan[c] = desired[c]
                    /\ desired[c] = "vlcm" => staged]_vars
  BY <1>1
<1> QED  BY <1>2, ConfigInvariance, PTL DEF Spec, StartedAsConfigured

\* An apply that reports success has upgraded everything it was to upgrade, or
\* has left paused what the configuration allows to end so, and what comes after.
THEOREM SuccessMeansUpgraded == Spec => []OkMeansUpgraded
<1>1. ASSUME EndInv PROVE OkMeansUpgraded
  <2> SUFFICES ASSUME result = "ok", NEW i \in Unfinished
               PROVE  \/ /\ MayPause(saved, ComponentList[i])
                         /\ status[ComponentList[i]] = "PAUSED"
                      \/ \E j \in Unfinished : j < i
    BY DEF OkMeansUpgraded
  <2>1. PICK k \in 1 .. N : PausedAt(k)
    BY <1>1 DEF EndInv, OkAtRest, AllUpgraded
  <2>2. i \in 1 .. N /\ N \in Nat /\ status[ComponentList[i]] # "SUCCESS"
    BY <1>1, ListFacts DEF Unfinished, N, EndInv, IInv, TypeOK, NsxTypeOK
  <2>3. k <= i
    BY <2>1, <2>2 DEF PausedAt
  <2>4. k \in Unfinished
    BY <2>1 DEF PausedAt, Unfinished, N, MayPause, Customizable
  <2> QED  BY <2>1, <2>2, <2>3, <2>4 DEF PausedAt
<1> QED  BY <1>1, EndInvariance, PTL
=============================================================================
