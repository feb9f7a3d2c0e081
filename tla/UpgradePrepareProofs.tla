------------------------ MODULE UpgradePrepareProofs ------------------------
(***************************************************************************)
(* The inductive invariant of UpgradePrepare, and from it, for any         *)
(* components, warnings and failures and any number of troubles: the       *)
(* types, that nothing is acknowledged that nobody meant to acknowledge,   *)
(* that acknowledgements survive the checks that are run again, and that   *)
(* an apply that says ready has had everything checked.                    *)
(***************************************************************************)
EXTENDS UpgradePrepare, TLAPS

-----------------------------------------------------------------------------
(***************************************************************************)
(* The inductive invariant.                                                *)
(***************************************************************************)

Preparing == {"upload", "uploading", "eula", "uc", "ucwait"}

\* The functions that look at the resource in the state run with one.
ControlOK ==
    /\ pc \in Preparing => doing \in {"create", "update"}
    /\ pc \in Reading => doing \in {"refresh", "create", "update"}
    /\ pc \in {"acks", "ready"} => prepare \in Prepare
    /\ doing = "update" => prepare \in Prepare
    /\ doing = "refresh" /\ pc \in Reading => prepare \in Prepare

\* What is about to be acknowledged is what somebody meant to acknowledge.
AskedOK ==
    /\ acked \subseteq asked
    /\ left \subseteq asked
    /\ pc # "idle" => want.acks \subseteq asked

\* A bundle that has arrived is in place, and a resource in the state is that of
\* the bundle that was uploaded last: what replaces it begins with no resource.
PlaceOK ==
    /\ bundle.status = "success" => target = bundle.url
    /\ prepare # Absent => bundle.status = "success" /\ bundle.url = prepare.url
    /\ pc \in Preparing \cup Reading /\ doing = "create" => prepare = Absent
    /\ pc \in Preparing \cup Reading /\ doing = "update" => prepare.url = want.url
    /\ pc = "uploading" => doing = "create" /\ bundle.url = want.url
    /\ doing = "create" /\ pc \in {"eula", "uc", "ucwait"} \cup Reading =>
          bundle.status = "success" /\ bundle.url = want.url
    /\ pc \in {"acks", "ready"} \/ (pc = "idle" /\ result = "ok") =>
          prepare # Absent /\ prepare.url = want.url

\* While the checks are run again, what was acknowledged is acknowledged, or
\* remembered.
Rechecking == {"execute", "wait", "reack"}

\* The checks that run, or that are done, were begun by the Read.  What they
\* find are the problems there are.
Checking == {"wait", "reack"}

FindsProblems ==
    /\ \A c \in Component :
          /\ checks[c] \in {"running", "done"}
          /\ checks[c] = "done" =>
                /\ c \in problems.warning => c \in found.warning
                /\ c \in problems.failure => c \in found.failure
    /\ found.warning \subseteq problems.warning
    /\ found.failure \subseteq problems.failure

RememberedOK ==
    ~disturbed =>
        /\ pc \in Checking => FindsProblems
        /\ pc # "idle" =>
              \A c \in had \cap problems.warning :
                  c \in acked \/ (pc \in Rechecking /\ c \in left)
        /\ pc = "execute" => had \cap problems.warning \subseteq left
        /\ pc \notin Rechecking \cup {"idle"} => had \cap found.warning \subseteq acked
        /\ Ended => had \cap (found.warning \cup problems.warning) \subseteq acked

\* The coordinator is busy only while the provider waits for it.
BusyOK ==
    ~busy /\ uc = "upgrading" =>
        pc = "ucwait" \/ (pc = "idle" /\ result \notin {"ok", "notready"})

\* An apply that has refreshed, with nobody else there, and a coordinator that is
\* updated.
Quiet == refreshed /\ ~disturbed /\ ~started /\ ~busy /\ uc = "updated"

Complete == checkedFor = target /\ FindsProblems /\ \A c \in Component : checks[c] = "done"

ReadyOK ==
    Quiet =>
        /\ pc = "wait" => checkedFor = target
        /\ pc \in {"reack", "failures", "acks", "ready"} => Complete
        /\ pc = "plan" /\ prepare # Absent => Complete
        /\ pc = "idle" /\ result = "ok" =>
              Complete /\ found.failure = {} /\ found.warning \subseteq acked

IInv == TypeOK /\ ControlOK /\ PlaceOK /\ AskedOK /\ RememberedOK /\ BusyOK /\ ReadyOK

-----------------------------------------------------------------------------
(***************************************************************************)
(* Types.                                                                  *)
(***************************************************************************)

LEMMA Constants ==
    /\ Warnings \subseteq Component /\ Failures \subseteq Component /\ MaxTroubles \in Nat
BY UpgradePrepareAssumption

LEMMA Difference ==
    ASSUME NEW S, NEW A \in SUBSET S, NEW c \in S
    PROVE  SymDiff(A, {c}) \in SUBSET S
BY DEF SymDiff

\* Records, written; the prover wants the fields one by one.
LEMMA Written ==
    ASSUME NEW w \in Config, NEW u \in Url, NEW t \in 1 .. 2, NEW a \in SUBSET Warnings
    PROVE  /\ [w EXCEPT !.url = u] \in Config
           /\ [w EXCEPT !.wait = t] \in Config
           /\ [w EXCEPT !.acks = a] \in Config
BY DEF Config

LEMMA Saved ==
    ASSUME TypeOK, NEW tainted \in BOOLEAN
    PROVE  SavedPrepare(tainted) \in Prepare
BY DEF TypeOK, SavedPrepare, Config, Prepare

LEMMA FailedTypes ==
    ASSUME TypeOK, ControlOK
    PROVE  /\ FailedPrepare \in Prepare \cup {Absent}
           /\ FailedAck \in Ack \cup {Absent}
<1>1. FailedPrepare \in Prepare \cup {Absent}
  BY Saved DEF FailedPrepare, TypeOK
<1>2. FailedAck \in Ack \cup {Absent}
  BY DEF FailedAck, TypeOK, ControlOK, Prepare, Ack, Config
<1> QED  BY <1>1, <1>2

LEMMA Counters ==
    ASSUME TypeOK, More
    PROVE  /\ faults + 1 \in 0 .. MaxTroubles
           /\ others + 1 \in 0 .. MaxTroubles
           /\ edits + 1 \in 0 .. MaxTroubles
BY Constants DEF TypeOK, More

\* A failure, and a kill.
LEMMA FailTypes ==
    ASSUME TypeOK, ControlOK, Fail \/ (End("killed") /\ UNCHANGED resources)
    PROVE  /\ prepare' \in Prepare \cup {Absent} /\ ack' \in Ack \cup {Absent}
           /\ pc' = "idle" /\ doing' = "none" /\ todo' = "none" /\ left' = {}
           /\ result' \in {"error", "killed"}
BY FailedTypes DEF Fail, End, resources, TypeOK

LEMMA BeginTypes ==
    ASSUME TypeOK, ControlOK, NEW refresh \in BOOLEAN, want' \in Config, Begin(refresh),
           edits' \in 0 .. MaxTroubles
    PROVE  TypeOK' /\ ControlOK'
BY DEF Begin, nsx, given, uploads, prechecks, resources, TypeOK, ControlOK, Config,
       Calls, Reading, Preparing, Findings

LEMMA TypeStep == TypeOK /\ ControlOK /\ [Next]_vars => TypeOK' /\ ControlOK'
<1> SUFFICES ASSUME TypeOK, ControlOK, [Next]_vars
             PROVE  TypeOK' /\ ControlOK'
  OBVIOUS
<1> USE DEF nsx, given, uploads, prechecks, resources, control, apply, Within, Move, End
<1>1. ASSUME NEW refresh \in BOOLEAN, BeginAgain(refresh)
      PROVE  TypeOK' /\ ControlOK'
  BY <1>1, BeginTypes DEF BeginAgain, TypeOK
<1>2. ASSUME NEW refresh \in BOOLEAN, BeginEdited(refresh)
      PROVE  TypeOK' /\ ControlOK'
  <2>1. want' \in Config
    <3>1. /\ want \in Config /\ want.url \in Url /\ want.wait \in 1 .. 2
          /\ want.acks \in SUBSET Warnings
      BY DEF TypeOK, Config
    <3>2. 3 - want.url \in Url /\ 3 - want.wait \in 1 .. 2
      BY <3>1 DEF Url
    <3>3. \A c \in Warnings : SymDiff(want.acks, {c}) \in SUBSET Warnings
      BY <3>1, Difference
    <3> QED  BY <1>2, <3>1, <3>2, <3>3, Written DEF BeginEdited
  <2> QED  BY <1>2, <2>1, BeginTypes, Counters DEF BeginEdited
<1>3. CASE Plan
  BY <1>3
  DEF Plan, Onwards, UpToDate, Prepares, AckPlan, TypeOK, ControlOK, Config, Calls,
              Reading, Preparing
<1>4. CASE UploadBundle
  BY <1>4 DEF UploadBundle, TypeOK, ControlOK, Config, Calls, Reading, Preparing
<1>5. CASE WaitForBundleUpload
  <2>1. CASE Fail
    BY <1>5, <2>1, FailTypes
    DEF WaitForBundleUpload, TypeOK, ControlOK, Reading, Preparing
  <2>2. CASE ~Fail
    BY <1>5, <2>2 DEF WaitForBundleUpload, TypeOK, ControlOK, Calls, Reading, Preparing
  <2> QED  BY <2>1, <2>2
<1>6. CASE AcceptUserAgreement
  BY <1>6 DEF AcceptUserAgreement, TypeOK, ControlOK, Calls, Reading, Preparing
<1>7. CASE UpgradeUc
  BY <1>7 DEF UpgradeUc, TypeOK, ControlOK, Calls, Reading, Preparing
<1>8. CASE WaitForUcUpgrade
  BY <1>8 DEF WaitForUcUpgrade, TypeOK, ControlOK, Calls, Reading, Preparing
<1>9. CASE Summary
  BY <1>9 DEF Summary, TypeOK, ControlOK, Calls, Reading, Preparing
<1>10. CASE Previous
  BY <1>10
  DEF Previous, PreviousAcknowledged, TypeOK, ControlOK, Calls, Reading, Preparing,
      Findings
<1>11. CASE ExecutePreupgradeChecks
  BY <1>11
  DEF ExecutePreupgradeChecks, Nothing, TypeOK, ControlOK, Calls, Reading, Preparing,
      Findings
<1>12. CASE WaitForPrecheckComplete
  BY <1>12
  DEF WaitForPrecheckComplete, PrecheckTargets, TypeOK, ControlOK, Calls, Reading,
      Preparing
<1>13. CASE AcknowledgePrecheckWarnings
  <2>1. CASE Fail
    BY <1>13, <2>1, FailTypes
    DEF AcknowledgePrecheckWarnings, TypeOK, ControlOK, Reading, Preparing
  <2>2. CASE ~Fail
    BY <1>13, <2>2
    DEF AcknowledgePrecheckWarnings, TypeOK, ControlOK, Calls, Reading, Preparing
  <2> QED  BY <2>1, <2>2
<1>14. CASE Reacknowledged
  BY <1>14 DEF Reacknowledged, TypeOK, ControlOK, Calls, Reading, Preparing
<1>15. CASE ReadFailures
  <2>1. prepare' \in Prepare
    <3>1. doing = "refresh" => [prepare EXCEPT !.target = target] \in Prepare
      BY <1>15 DEF ReadFailures, TypeOK, ControlOK, Prepare, Reading, Preparing
    <3> QED  BY <1>15, <3>1, Saved DEF ReadFailures
  <2>2. want.acks \subseteq Warnings
    BY DEF TypeOK, Config
  <2>3. pc' \in {"plan", "ready", "acks"} /\ doing' \in {"refresh", "acks"}
    BY <1>15 DEF ReadFailures, Onwards
  <2>4. left' \subseteq Warnings /\ UNCHANGED <<todo, result>>
    BY <1>15, <2>2 DEF ReadFailures, Onwards, TypeOK
  <2> QED
    BY <1>15, <2>1, <2>3, <2>4
    DEF ReadFailures, TypeOK, ControlOK, Calls, Reading, Preparing
<1>16. CASE Acknowledged
  <2>1. ack' \in Ack
    BY <1>16 DEF Acknowledged, TypeOK, ControlOK, Prepare, Ack, Config
  <2> QED  BY <1>16, <2>1 DEF Acknowledged, TypeOK, ControlOK, Calls, Reading, Preparing
<1>17. CASE Ready
  BY <1>17 DEF Ready, TypeOK, ControlOK, Reading, Preparing
<1>18. CASE BundleArrives
  BY <1>18 DEF BundleArrives, TypeOK, ControlOK
<1>19. CASE UcUpgraded
  BY <1>19 DEF UcUpgraded, TypeOK, ControlOK
<1>20. ASSUME NEW c \in Component, CheckEnds(c)
       PROVE  TypeOK' /\ ControlOK'
  BY <1>20 DEF CheckEnds, TypeOK, ControlOK, Findings
<1>21. CASE CallFails \/ Kill
  BY <1>21, FailTypes, Counters
  DEF CallFails, Kill, Fault, TypeOK, ControlOK, Reading, Preparing
<1>22. CASE NsxFails
  BY <1>22, Counters DEF NsxFails, Fault, TypeOK, ControlOK
<1>23. CASE Administrator
  <2>1. problems' \in Findings
    <3>1. \A c \in Warnings :
              [problems EXCEPT !.warning = SymDiff(problems.warning, {c})] \in Findings
      BY Difference DEF TypeOK, Findings
    <3>2. \A c \in Failures :
              [problems EXCEPT !.failure = SymDiff(problems.failure, {c})] \in Findings
      BY Difference DEF TypeOK, Findings
    <3>3. \/ \E c \in Warnings :
                problems' = [problems EXCEPT !.warning = SymDiff(problems.warning, {c})]
          \/ \E c \in Failures :
                problems' = [problems EXCEPT !.failure = SymDiff(problems.failure, {c})]
          \/ problems' = problems
      BY <1>23, Zenon DEF Administrator
    <3>4. problems \in Findings
      BY DEF TypeOK
    <3> QED  BY <3>1, <3>2, <3>3, <3>4, Zenon
  <2>2. acked' \subseteq found.warning /\ found.warning \subseteq Warnings
    BY <1>23 DEF Administrator, TypeOK, Findings
  <2>3. checks' \in [Component -> {"none", "running", "done", "aborted"}]
    BY <1>23 DEF Administrator, TypeOK
  <2>4. \A c \in Component : checks'[c] = "running" => checks[c] = "running"
    BY <1>23 DEF Administrator, TypeOK
  <2>5. asked' \subseteq Warnings /\ others' \in 0 .. MaxTroubles /\ started' \in BOOLEAN
    BY <1>23, <2>2, Counters DEF Administrator, TypeOK
  <2>6. pc' = "reack" => \A c \in Component : checks'[c] # "running"
    BY <1>23, <2>4 DEF Administrator, TypeOK
  <2>7. disturbed' = TRUE
    BY <1>23 DEF Administrator
  <2>8. UNCHANGED <<strict, uploads, uc, checkedFor, found, resources, control, apply, faults>>
    BY <1>23 DEF Administrator
  <2> QED
    BY <2>1, <2>2, <2>3, <2>5, <2>6, <2>7, <2>8 DEF TypeOK, ControlOK
<1>24. CASE UNCHANGED vars
  BY <1>24 DEF vars, TypeOK, ControlOK
<1> QED
  BY <1>1, <1>2, <1>3, <1>4, <1>5, <1>6, <1>7, <1>8, <1>9, <1>10, <1>11, <1>12, <1>13,
     <1>14, <1>15, <1>16, <1>17, <1>18, <1>19, <1>20, <1>21, <1>22, <1>23, <1>24
  DEF Next, Progress, Nsx


\* A function that fails leaves what is there, or what Read has set.
LEMMA FailPlace ==
    ASSUME TypeOK, ControlOK, PlaceOK, pc \in Calls, Fail, UNCHANGED <<bundle, target, want>>
    PROVE  PlaceOK'
<1>1. pc' = "idle" /\ doing' = "none" /\ result' = "error" /\ prepare' = FailedPrepare
  BY DEF Fail, End
<1>2. FailedPrepare = prepare \/ FailedPrepare.url = want.url
  BY DEF FailedPrepare, SavedPrepare
<1>3. FailedPrepare # prepare => bundle.status = "success" /\ bundle.url = want.url
  <2>1. doing = "update" => prepare # Absent
    BY AbsentAssumption DEF ControlOK
  <2>2. doing = "update" => pc \in Preparing \cup Reading \cup {"acks", "ready"}
    BY DEF Calls, Preparing
  <2>3. doing = "update" => prepare.url = want.url
    BY <2>2 DEF PlaceOK
  <2> QED  BY <2>1, <2>3 DEF FailedPrepare, PlaceOK
<1> QED  BY <1>1, <1>2, <1>3 DEF PlaceOK, Preparing, Reading

\* The bundle that is in place.
LEMMA PlaceStep ==
    ASSUME TypeOK, ControlOK, PlaceOK, [Next]_vars
    PROVE  PlaceOK'
<1> USE DEF nsx, given, uploads, prechecks, resources, control, apply, Within, Move, End
<1>1. ASSUME NEW refresh \in BOOLEAN, BeginAgain(refresh) \/ BeginEdited(refresh)
      PROVE  PlaceOK'
  BY <1>1 DEF BeginAgain, BeginEdited, Begin, PlaceOK, ControlOK, TypeOK, Preparing, Reading
<1>2. CASE Plan
  BY <1>2
  DEF Plan, Onwards, Prepares, UpToDate, PlaceOK, ControlOK, TypeOK, Preparing, Reading, Calls,
      Prepare
<1>3. CASE UploadBundle
  BY <1>3
  DEF UploadBundle, PlaceOK, ControlOK, TypeOK, Preparing, Reading, Calls,
      Prepare
<1>4. CASE WaitForBundleUpload
  BY <1>4
  DEF WaitForBundleUpload, Fail, FailedPrepare, SavedPrepare, PlaceOK, ControlOK, TypeOK, Preparing, Reading, Calls,
      Prepare
<1>5. CASE AcceptUserAgreement
  BY <1>5
  DEF AcceptUserAgreement, PlaceOK, ControlOK, TypeOK, Preparing, Reading, Calls,
      Prepare
<1>6. CASE UpgradeUc
  BY <1>6
  DEF UpgradeUc, PlaceOK, ControlOK, TypeOK, Preparing, Reading, Calls,
      Prepare
<1>7. CASE WaitForUcUpgrade
  BY <1>7
  DEF WaitForUcUpgrade, PlaceOK, ControlOK, TypeOK, Preparing, Reading, Calls,
      Prepare
<1>8. CASE Summary
  BY <1>8
  DEF Summary, PlaceOK, ControlOK, TypeOK, Preparing, Reading, Calls,
      Prepare
<1>9. CASE Previous
  BY <1>9
  DEF Previous, PlaceOK, ControlOK, TypeOK, Preparing, Reading, Calls,
      Prepare
<1>10. CASE ExecutePreupgradeChecks
  BY <1>10
  DEF ExecutePreupgradeChecks, PlaceOK, ControlOK, TypeOK, Preparing, Reading, Calls,
      Prepare
<1>11. CASE WaitForPrecheckComplete
  BY <1>11
  DEF WaitForPrecheckComplete, PlaceOK, ControlOK, TypeOK, Preparing, Reading, Calls,
      Prepare
<1>12. CASE AcknowledgePrecheckWarnings
  <2>1. CASE Fail
    BY <1>12, <2>1, FailPlace DEF AcknowledgePrecheckWarnings, Calls, Reading
  <2>2. CASE ~Fail
    BY <1>12, <2>2 DEF AcknowledgePrecheckWarnings, PlaceOK, Preparing, Reading
  <2> QED  BY <2>1, <2>2
<1>13. CASE Reacknowledged
  BY <1>13
  DEF Reacknowledged, PlaceOK, ControlOK, TypeOK, Preparing, Reading, Calls,
      Prepare
<1>14. CASE ReadFailures
  <2>1. pc = "failures" /\ UNCHANGED <<bundle, target, want, result>>
    BY <1>14 DEF ReadFailures, Onwards
  <2>2. CASE doing = "refresh"
    <3>1. prepare # Absent
      BY <2>1, <2>2, AbsentAssumption DEF ControlOK, Reading
    <3>2. pc' = "plan" /\ doing' = "refresh" /\ prepare' = [prepare EXCEPT !.target = target]
      BY <1>14, <2>2 DEF ReadFailures
    <3>3. prepare \in Prepare
      BY <3>1 DEF TypeOK
    <3>4. prepare'.url = prepare.url
      BY <3>2, <3>3 DEF Prepare
    <3> QED  BY <2>1, <3>1, <3>2, <3>4 DEF PlaceOK, Preparing, Reading
  <2>3. CASE doing # "refresh"
    <3>1. prepare'.url = want.url /\ prepare' = SavedPrepare(FALSE)
      BY <1>14, <2>3 DEF ReadFailures, SavedPrepare
    <3>2. doing \in {"create", "update"} /\ (doing = "update" => prepare # Absent)
      BY <2>1, <2>3, AbsentAssumption DEF ControlOK, Reading
    <3>3. bundle.status = "success" /\ bundle.url = want.url
      BY <2>1, <3>2 DEF PlaceOK, Reading
    <3>4. prepare' # Absent
      BY <3>1, Saved, AbsentAssumption
    <3>5. pc' \in {"ready", "acks"} /\ doing' = "acks"
      BY <1>14, <2>3 DEF ReadFailures, Onwards
    <3> QED  BY <2>1, <3>1, <3>3, <3>4, <3>5 DEF PlaceOK, Preparing, Reading
  <2> QED  BY <2>2, <2>3
<1>15. CASE Acknowledged
  BY <1>15
  DEF Acknowledged, PlaceOK, ControlOK, TypeOK, Preparing, Reading, Calls,
      Prepare
<1>16. CASE Ready
  BY <1>16
  DEF Ready, PlaceOK, ControlOK, TypeOK, Preparing, Reading, Calls,
      Prepare
<1>17. CASE BundleArrives
  BY <1>17
  DEF BundleArrives, PlaceOK, ControlOK, TypeOK, Preparing, Reading, Calls,
      Prepare
<1>18. CASE UcUpgraded
  BY <1>18
  DEF UcUpgraded, PlaceOK, ControlOK, TypeOK, Preparing, Reading, Calls,
      Prepare
<1>19. ASSUME NEW c \in Component, CheckEnds(c)
      PROVE  PlaceOK'
  BY <1>19 DEF CheckEnds, PlaceOK
<1>20. CASE CallFails
  BY <1>20, FailPlace DEF CallFails, Fault
<1>21. CASE Kill
  BY <1>21
  DEF Kill, Fault, PlaceOK, ControlOK, TypeOK, Preparing, Reading, Calls,
      Prepare
<1>22. CASE NsxFails
  BY <1>22
  DEF NsxFails, Fault, PlaceOK, ControlOK, TypeOK, Preparing, Reading, Calls,
      Prepare
<1>23. CASE Administrator
  BY <1>23
  DEF Administrator, PlaceOK, ControlOK, TypeOK, Preparing, Reading, Calls,
      Prepare
<1>24. CASE UNCHANGED vars
  BY <1>24 DEF vars, PlaceOK
<1> QED
  BY <1>1, <1>2, <1>3, <1>4, <1>5, <1>6, <1>7, <1>8, <1>9, <1>10, <1>11, <1>12, <1>13,
     <1>14, <1>15, <1>16, <1>17, <1>18, <1>19, <1>20, <1>21, <1>22, <1>23, <1>24
  DEF Next, Progress, Nsx

\* Acknowledgements come from the configuration, from administrators, or from memory.
LEMMA AskedStep ==
    ASSUME TypeOK, AskedOK, [Next]_vars
    PROVE  AskedOK'
<1> USE DEF nsx, given, uploads, prechecks, resources, control, apply, Within, Move, End
<1>1. ASSUME NEW refresh \in BOOLEAN, BeginAgain(refresh) \/ BeginEdited(refresh)
      PROVE  AskedOK'
  BY <1>1 DEF BeginAgain, BeginEdited, Begin, AskedOK
<1>2. CASE Plan
  BY <1>2 DEF Plan, Onwards, AskedOK
<1>3. CASE UploadBundle
  BY <1>3 DEF UploadBundle, AskedOK
<1>4. CASE WaitForBundleUpload
  BY <1>4 DEF WaitForBundleUpload, Fail, AskedOK
<1>5. CASE AcceptUserAgreement
  BY <1>5 DEF AcceptUserAgreement, AskedOK
<1>6. CASE UpgradeUc
  BY <1>6 DEF UpgradeUc, AskedOK
<1>7. CASE WaitForUcUpgrade
  BY <1>7 DEF WaitForUcUpgrade, AskedOK
<1>8. CASE Summary
  BY <1>8 DEF Summary, AskedOK
<1>9. CASE Previous
  BY <1>9 DEF Previous, PreviousAcknowledged, AskedOK
<1>10. CASE ExecutePreupgradeChecks
  BY <1>10 DEF ExecutePreupgradeChecks, Nothing, AskedOK
<1>11. CASE WaitForPrecheckComplete
  BY <1>11 DEF WaitForPrecheckComplete, PrecheckTargets, AskedOK
<1>12. CASE AcknowledgePrecheckWarnings
  BY <1>12 DEF AcknowledgePrecheckWarnings, Fail, AskedOK
<1>13. CASE Reacknowledged
  BY <1>13 DEF Reacknowledged, AskedOK
<1>14. CASE ReadFailures
  BY <1>14 DEF ReadFailures, Onwards, AskedOK
<1>15. CASE Acknowledged
  BY <1>15 DEF Acknowledged, AskedOK
<1>16. CASE Ready
  BY <1>16 DEF Ready, ReadyToUpgrade, AskedOK
<1>17. CASE BundleArrives
  BY <1>17 DEF BundleArrives, AskedOK
<1>18. CASE UcUpgraded
  BY <1>18 DEF UcUpgraded, AskedOK
<1>19. ASSUME NEW c \in Component, CheckEnds(c)
      PROVE  AskedOK'
  BY <1>19 DEF CheckEnds, AskedOK
<1>20. CASE CallFails
  BY <1>20 DEF CallFails, Fail, Fault, AskedOK
<1>21. CASE Kill
  BY <1>21 DEF Kill, Fault, AskedOK
<1>22. CASE NsxFails
  BY <1>22 DEF NsxFails, Fault, AskedOK
<1>23. CASE Administrator
  BY <1>23 DEF Administrator, AskedOK
<1>24. CASE UNCHANGED vars
  BY <1>24 DEF vars, AskedOK
<1> QED
  BY <1>1, <1>2, <1>3, <1>4, <1>5, <1>6, <1>7, <1>8, <1>9, <1>10, <1>11, <1>12, <1>13,
     <1>14, <1>15, <1>16, <1>17, <1>18, <1>19, <1>20, <1>21, <1>22, <1>23, <1>24
  DEF Next, Progress, Nsx

\* Only the provider has the coordinator upgraded, and it waits for it.
LEMMA BusyStep ==
    ASSUME TypeOK, BusyOK, [Next]_vars
    PROVE  BusyOK'
<1> USE DEF nsx, given, uploads, prechecks, resources, control, apply, Within, Move, End
<1>1. ASSUME NEW refresh \in BOOLEAN, BeginAgain(refresh) \/ BeginEdited(refresh)
      PROVE  BusyOK'
  BY <1>1 DEF BeginAgain, BeginEdited, Begin, BusyOK, TypeOK, Ended
<1>2. CASE Plan
  BY <1>2 DEF Plan, Onwards, BusyOK, TypeOK, Ended
<1>3. CASE UploadBundle
  BY <1>3 DEF UploadBundle, BusyOK, TypeOK, Ended
<1>4. CASE WaitForBundleUpload
  BY <1>4 DEF WaitForBundleUpload, Fail, BusyOK, TypeOK, Ended
<1>5. CASE AcceptUserAgreement
  BY <1>5 DEF AcceptUserAgreement, BusyOK, TypeOK, Ended
<1>6. CASE UpgradeUc
  BY <1>6 DEF UpgradeUc, BusyOK, TypeOK, Ended
<1>7. CASE WaitForUcUpgrade
  BY <1>7 DEF WaitForUcUpgrade, BusyOK, TypeOK, Ended
<1>8. CASE Summary
  BY <1>8 DEF Summary, BusyOK, TypeOK, Ended
<1>9. CASE Previous
  BY <1>9 DEF Previous, PreviousAcknowledged, BusyOK, TypeOK, Ended
<1>10. CASE ExecutePreupgradeChecks
  BY <1>10 DEF ExecutePreupgradeChecks, Nothing, BusyOK, TypeOK, Ended
<1>11. CASE WaitForPrecheckComplete
  BY <1>11 DEF WaitForPrecheckComplete, PrecheckTargets, BusyOK, TypeOK, Ended
<1>12. CASE AcknowledgePrecheckWarnings
  BY <1>12 DEF AcknowledgePrecheckWarnings, Fail, BusyOK, TypeOK, Ended
<1>13. CASE Reacknowledged
  BY <1>13 DEF Reacknowledged, BusyOK, TypeOK, Ended
<1>14. CASE ReadFailures
  BY <1>14 DEF ReadFailures, Onwards, BusyOK, TypeOK, Ended
<1>15. CASE Acknowledged
  BY <1>15 DEF Acknowledged, BusyOK, TypeOK, Ended
<1>16. CASE Ready
  BY <1>16 DEF Ready, ReadyToUpgrade, BusyOK, TypeOK, Ended
<1>17. CASE BundleArrives
  BY <1>17 DEF BundleArrives, BusyOK, TypeOK, Ended
<1>18. CASE UcUpgraded
  BY <1>18 DEF UcUpgraded, BusyOK, TypeOK, Ended
<1>19. ASSUME NEW c \in Component, CheckEnds(c)
      PROVE  BusyOK'
  BY <1>19 DEF CheckEnds, BusyOK, TypeOK, Ended
<1>20. CASE CallFails
  BY <1>20 DEF CallFails, Fail, Fault, BusyOK, TypeOK, Ended
<1>21. CASE Kill
  BY <1>21 DEF Kill, Fault, BusyOK, TypeOK, Ended
<1>22. CASE NsxFails
  BY <1>22 DEF NsxFails, Fault, BusyOK, TypeOK, Ended
<1>23. CASE Administrator
  BY <1>23 DEF Administrator, BusyOK, TypeOK, Ended
<1>24. CASE UNCHANGED vars
  BY <1>24 DEF vars, BusyOK, TypeOK, Ended
<1> QED
  BY <1>1, <1>2, <1>3, <1>4, <1>5, <1>6, <1>7, <1>8, <1>9, <1>10, <1>11, <1>12, <1>13,
     <1>14, <1>15, <1>16, <1>17, <1>18, <1>19, <1>20, <1>21, <1>22, <1>23, <1>24
  DEF Next, Progress, Nsx

\* What was acknowledged is acknowledged or remembered.
LEMMA RememberedStep ==
    ASSUME TypeOK, ControlOK, RememberedOK, [Next]_vars
    PROVE  RememberedOK'
<1> USE DEF nsx, given, uploads, prechecks, resources, control, apply, Within, Move, End
<1>1. ASSUME NEW refresh \in BOOLEAN, BeginAgain(refresh) \/ BeginEdited(refresh)
      PROVE  RememberedOK'
  BY <1>1
  DEF BeginAgain, BeginEdited, Begin, RememberedOK, FindsProblems, Ended, Checking,
      Rechecking, Calls, Reading, TypeOK, Findings
<1>2. CASE Plan
  BY <1>2
  DEF Plan, Onwards, RememberedOK, FindsProblems, Ended, Checking, Rechecking, Calls,
      Reading, TypeOK, Findings
<1>3. CASE UploadBundle
  BY <1>3
  DEF UploadBundle, RememberedOK, FindsProblems, Ended, Checking, Rechecking, Calls,
      Reading, TypeOK, Findings
<1>4. CASE WaitForBundleUpload
  BY <1>4
  DEF WaitForBundleUpload, Fail, RememberedOK, FindsProblems, Ended, Checking,
      Rechecking, Calls, Reading, TypeOK, Findings
<1>5. CASE AcceptUserAgreement
  BY <1>5
  DEF AcceptUserAgreement, RememberedOK, FindsProblems, Ended, Checking, Rechecking,
      Calls, Reading, TypeOK, Findings
<1>6. CASE UpgradeUc
  BY <1>6
  DEF UpgradeUc, RememberedOK, FindsProblems, Ended, Checking, Rechecking, Calls,
      Reading, TypeOK, Findings
<1>7. CASE WaitForUcUpgrade
  BY <1>7
  DEF WaitForUcUpgrade, RememberedOK, FindsProblems, Ended, Checking, Rechecking, Calls,
      Reading, TypeOK, Findings
<1>8. CASE Summary
  BY <1>8
  DEF Summary, RememberedOK, FindsProblems, Ended, Checking, Rechecking, Calls, Reading,
      TypeOK, Findings
<1>9. CASE Previous
  BY <1>9
  DEF Previous, PreviousAcknowledged, RememberedOK, FindsProblems, Ended, Checking,
      Rechecking, Calls, Reading, TypeOK, Findings
<1>10. CASE ExecutePreupgradeChecks
  BY <1>10
  DEF ExecutePreupgradeChecks, Nothing, RememberedOK, FindsProblems, Ended, Checking,
      Rechecking, Calls, Reading, TypeOK, Findings
<1>11. CASE WaitForPrecheckComplete
  BY <1>11
  DEF WaitForPrecheckComplete, PrecheckTargets, RememberedOK, FindsProblems, Ended,
      Checking, Rechecking, Calls, Reading, TypeOK, Findings
<1>12. CASE AcknowledgePrecheckWarnings
  <2> SUFFICES ASSUME ~disturbed' PROVE RememberedOK'
    BY DEF RememberedOK
  <2>1. /\ ~disturbed /\ pc \in {"reack", "acks"}
        /\ UNCHANGED <<found, problems, checks, had, disturbed>>
    BY <1>12 DEF AcknowledgePrecheckWarnings, Fail
  <2>2. CASE pc' = "idle" /\ result' = "error"
    BY <2>2 DEF RememberedOK, Ended, Checking, Rechecking
  <2>3. ASSUME NEW c \in left, left' = left \ {c}, UNCHANGED pc,
               acked \subseteq acked', c \in found.warning => c \in acked'
        PROVE  RememberedOK'
    <3>1. pc = "reack" => FindsProblems /\ (c \in problems.warning => c \in acked')
      <4>1. ASSUME pc = "reack" PROVE FindsProblems /\ \A k \in Component : checks[k] = "done"
        BY <2>1, <4>1 DEF RememberedOK, FindsProblems, Checking, TypeOK
      <4> QED  BY <2>3, <4>1, Constants DEF FindsProblems, TypeOK, Findings
    <3> QED
      BY <2>1, <2>3, <3>1 DEF RememberedOK, FindsProblems, Ended, Checking, Rechecking
  <2> QED
    BY <1>12, <2>2, <2>3 DEF AcknowledgePrecheckWarnings, Fail
<1>13. CASE Reacknowledged
  BY <1>13
  DEF Reacknowledged, RememberedOK, FindsProblems, Ended, Checking, Rechecking, Calls,
      Reading, TypeOK, Findings
<1>14. CASE ReadFailures
  BY <1>14
  DEF ReadFailures, Onwards, RememberedOK, FindsProblems, Ended, Checking, Rechecking,
      Calls, Reading, TypeOK, Findings
<1>15. CASE Acknowledged
  BY <1>15
  DEF Acknowledged, RememberedOK, FindsProblems, Ended, Checking, Rechecking, Calls,
      Reading, TypeOK, Findings
<1>16. CASE Ready
  BY <1>16
  DEF Ready, ReadyToUpgrade, RememberedOK, FindsProblems, Ended, Checking, Rechecking,
      Calls, Reading, TypeOK, Findings
<1>17. CASE BundleArrives
  BY <1>17
  DEF BundleArrives, RememberedOK, FindsProblems, Ended, Checking, Rechecking, Calls,
      Reading, TypeOK, Findings
<1>18. CASE UcUpgraded
  BY <1>18
  DEF UcUpgraded, RememberedOK, FindsProblems, Ended, Checking, Rechecking, Calls,
      Reading, TypeOK, Findings
<1>19. ASSUME NEW c \in Component, CheckEnds(c)
      PROVE  RememberedOK'
  <2> SUFFICES ASSUME ~disturbed' PROVE RememberedOK'
    BY DEF RememberedOK
  <2>1. /\ ~disturbed /\ checks[c] = "running"
        /\ UNCHANGED <<problems, had, acked, left, pc, result, disturbed>>
        /\ checks' = [checks EXCEPT ![c] = "done"]
        /\ found'.warning = found.warning \cup ({c} \cap problems.warning)
        /\ found'.failure = found.failure \cup ({c} \cap problems.failure)
    BY <1>19 DEF CheckEnds
  <2>2. FindsProblems => FindsProblems'
    BY <2>1 DEF FindsProblems, TypeOK
  <2> QED
    BY <2>1, <2>2 DEF RememberedOK, Ended, Checking, Rechecking
<1>20. CASE CallFails
  BY <1>20
  DEF CallFails, Fail, Fault, RememberedOK, FindsProblems, Ended, Checking, Rechecking,
      Calls, Reading, TypeOK, Findings
<1>21. CASE Kill
  BY <1>21
  DEF Kill, Fault, RememberedOK, FindsProblems, Ended, Checking, Rechecking, Calls,
      Reading, TypeOK, Findings
<1>22. CASE NsxFails
  BY <1>22
  DEF NsxFails, Fault, RememberedOK, FindsProblems, Ended, Checking, Rechecking, Calls,
      Reading, TypeOK, Findings
<1>23. CASE Administrator
  BY <1>23
  DEF Administrator, RememberedOK, FindsProblems, Ended, Checking, Rechecking, Calls,
      Reading, TypeOK, Findings
<1>24. CASE UNCHANGED vars
  BY <1>24
  DEF vars, RememberedOK, FindsProblems, Ended, Checking, Rechecking, Calls, Reading,
      TypeOK, Findings
<1> QED
  BY <1>1, <1>2, <1>3, <1>4, <1>5, <1>6, <1>7, <1>8, <1>9, <1>10, <1>11, <1>12, <1>13,
     <1>14, <1>15, <1>16, <1>17, <1>18, <1>19, <1>20, <1>21, <1>22, <1>23, <1>24
  DEF Next, Progress, Nsx

\* What is ready has been checked.
LEMMA ReadyStep ==
    ASSUME TypeOK, ControlOK, RememberedOK, BusyOK, ReadyOK, [Next]_vars
    PROVE  ReadyOK'
<1> USE DEF nsx, given, uploads, prechecks, resources, control, apply, Within, Move, End
<1>1. ASSUME NEW refresh \in BOOLEAN, BeginAgain(refresh) \/ BeginEdited(refresh)
      PROVE  ReadyOK'
  BY <1>1
  DEF BeginAgain, BeginEdited, Begin, RememberedOK, BusyOK, ReadyOK, Quiet, Complete,
      FindsProblems, Checking, TypeOK, Findings, ControlOK, Calls, Reading, Preparing
<1>2. CASE Plan
  <2>1. pc' \in {"acks", "ready"} => prepare # Absent
    BY <1>2 DEF Plan, Onwards, UpToDate, Prepares
  <2>2. pc' \in {"upload", "acks", "ready"} \/ (pc' = "idle" /\ result' # "ok")
    BY <1>2 DEF Plan, Onwards
  <2> QED
    BY <1>2, <2>1, <2>2 DEF Plan, ReadyOK, Quiet, Complete, FindsProblems
<1>3. CASE UploadBundle
  BY <1>3
  DEF UploadBundle, RememberedOK, BusyOK, ReadyOK, Quiet, Complete, FindsProblems,
      Checking, TypeOK, Findings, ControlOK, Calls, Reading, Preparing
<1>4. CASE WaitForBundleUpload
  BY <1>4
  DEF WaitForBundleUpload, Fail, RememberedOK, BusyOK, ReadyOK, Quiet, Complete,
      FindsProblems, Checking, TypeOK, Findings, ControlOK, Calls, Reading, Preparing
<1>5. CASE AcceptUserAgreement
  BY <1>5
  DEF AcceptUserAgreement, RememberedOK, BusyOK, ReadyOK, Quiet, Complete,
      FindsProblems, Checking, TypeOK, Findings, ControlOK, Calls, Reading, Preparing
<1>6. CASE UpgradeUc
  BY <1>6
  DEF UpgradeUc, RememberedOK, BusyOK, ReadyOK, Quiet, Complete, FindsProblems,
      Checking, TypeOK, Findings, ControlOK, Calls, Reading, Preparing
<1>7. CASE WaitForUcUpgrade
  BY <1>7
  DEF WaitForUcUpgrade, RememberedOK, BusyOK, ReadyOK, Quiet, Complete, FindsProblems,
      Checking, TypeOK, Findings, ControlOK, Calls, Reading, Preparing
<1>8. CASE Summary
  <2>1. Quiet' => pc' = "previous"
    BY <1>8 DEF Summary, PrecheckNeeded, Quiet
  <2> QED
    BY <1>8, <2>1 DEF Summary, ReadyOK
<1>9. CASE Previous
  BY <1>9
  DEF Previous, PreviousAcknowledged, RememberedOK, BusyOK, ReadyOK, Quiet, Complete,
      FindsProblems, Checking, TypeOK, Findings, ControlOK, Calls, Reading, Preparing
<1>10. CASE ExecutePreupgradeChecks
  BY <1>10
  DEF ExecutePreupgradeChecks, Nothing, RememberedOK, BusyOK, ReadyOK, Quiet, Complete,
      FindsProblems, Checking, TypeOK, Findings, ControlOK, Calls, Reading, Preparing
<1>11. CASE WaitForPrecheckComplete
  BY <1>11
  DEF WaitForPrecheckComplete, PrecheckTargets, RememberedOK, BusyOK, ReadyOK, Quiet,
      Complete, FindsProblems, Checking, TypeOK, Findings, ControlOK, Calls, Reading,
      Preparing
<1>12. CASE AcknowledgePrecheckWarnings
  BY <1>12
  DEF AcknowledgePrecheckWarnings, Fail, RememberedOK, BusyOK, ReadyOK, Quiet, Complete,
      FindsProblems, Checking, TypeOK, Findings, ControlOK, Calls, Reading, Preparing
<1>13. CASE Reacknowledged
  BY <1>13
  DEF Reacknowledged, RememberedOK, BusyOK, ReadyOK, Quiet, Complete, FindsProblems,
      Checking, TypeOK, Findings, ControlOK, Calls, Reading, Preparing
<1>14. CASE ReadFailures
  BY <1>14
  DEF ReadFailures, Onwards, RememberedOK, BusyOK, ReadyOK, Quiet, Complete,
      FindsProblems, Checking, TypeOK, Findings, ControlOK, Calls, Reading, Preparing
<1>15. CASE Acknowledged
  BY <1>15
  DEF Acknowledged, RememberedOK, BusyOK, ReadyOK, Quiet, Complete, FindsProblems,
      Checking, TypeOK, Findings, ControlOK, Calls, Reading, Preparing
<1>16. CASE Ready
  BY <1>16
  DEF Ready, ReadyToUpgrade, RememberedOK, BusyOK, ReadyOK, Quiet, Complete,
      FindsProblems, Checking, TypeOK, Findings, ControlOK, Calls, Reading, Preparing
<1>17. CASE BundleArrives
  BY <1>17
  DEF BundleArrives, RememberedOK, BusyOK, ReadyOK, Quiet, Complete, FindsProblems,
      Checking, TypeOK, Findings, ControlOK, Calls, Reading, Preparing
<1>18. CASE UcUpgraded
  BY <1>18
  DEF UcUpgraded, RememberedOK, BusyOK, ReadyOK, Quiet, Complete, FindsProblems,
      Checking, TypeOK, Findings, ControlOK, Calls, Reading, Preparing
<1>19. ASSUME NEW c \in Component, CheckEnds(c)
      PROVE  ReadyOK'
  BY <1>19
  DEF CheckEnds, RememberedOK, BusyOK, ReadyOK, Quiet, Complete, FindsProblems,
      Checking, TypeOK, Findings, ControlOK, Calls, Reading, Preparing
<1>20. CASE CallFails
  BY <1>20
  DEF CallFails, Fail, Fault, RememberedOK, BusyOK, ReadyOK, Quiet, Complete,
      FindsProblems, Checking, TypeOK, Findings, ControlOK, Calls, Reading, Preparing
<1>21. CASE Kill
  BY <1>21
  DEF Kill, Fault, RememberedOK, BusyOK, ReadyOK, Quiet, Complete, FindsProblems,
      Checking, TypeOK, Findings, ControlOK, Calls, Reading, Preparing
<1>22. CASE NsxFails
  BY <1>22
  DEF NsxFails, Fault, RememberedOK, BusyOK, ReadyOK, Quiet, Complete, FindsProblems,
      Checking, TypeOK, Findings, ControlOK, Calls, Reading, Preparing
<1>23. CASE Administrator
  BY <1>23
  DEF Administrator, RememberedOK, BusyOK, ReadyOK, Quiet, Complete, FindsProblems,
      Checking, TypeOK, Findings, ControlOK, Calls, Reading, Preparing
<1>24. CASE UNCHANGED vars
  BY <1>24
  DEF vars, RememberedOK, BusyOK, ReadyOK, Quiet, Complete, FindsProblems, Checking,
      TypeOK, Findings, ControlOK, Calls, Reading, Preparing
<1> QED
  BY <1>1, <1>2, <1>3, <1>4, <1>5, <1>6, <1>7, <1>8, <1>9, <1>10, <1>11, <1>12, <1>13,
     <1>14, <1>15, <1>16, <1>17, <1>18, <1>19, <1>20, <1>21, <1>22, <1>23, <1>24
  DEF Next, Progress, Nsx

-----------------------------------------------------------------------------
(***************************************************************************)
(* The theorems.                                                           *)
(***************************************************************************)

LEMMA InitInvariant == Init => IInv
<1> SUFFICES ASSUME Init PROVE IInv
  OBVIOUS
<1>1. want \in Config
  BY DEF Init, Config, Url
<1>2. TypeOK
  <2>1. Nothing \in Findings /\ Nothing.warning = {}
    BY DEF Nothing, Findings
  <2>2. bundle \in [url : Url, status : {"none", "uploading", "success", "failed"}]
    BY DEF Init, Url
  <2>3. problems \in Findings /\ strict \in BOOLEAN /\ started = FALSE /\ busy = FALSE
    BY DEF Init
  <2>4. {target, checkedFor} \subseteq {0} \cup Url /\ uc = "old" /\ acked = {}
    BY DEF Init
  <2>5. checks = [c \in Component |-> "none"] /\ found = Nothing
    BY DEF Init
  <2>6. pc = "idle" /\ doing = "none" /\ todo = "none" /\ result = "none"
    BY DEF Init
  <2>7. left = {} /\ had = {} /\ asked = {} /\ prepare = Absent /\ ack = Absent
    BY DEF Init
  <2>8. refreshed = FALSE /\ disturbed = FALSE /\ faults = 0 /\ others = 0 /\ edits = 0
    BY DEF Init
  <2>9. checks \in [Component -> {"none", "running", "done", "aborted"}]
    BY <2>5
  <2>10. {faults, others, edits} \subseteq 0 .. MaxTroubles
    BY <2>8, Constants
  <2>11. acked \subseteq found.warning /\ found \in Findings
    BY <2>1, <2>4, <2>5
  <2>12. left \subseteq Warnings /\ had \subseteq Warnings /\ asked \subseteq Warnings
    BY <2>7
  <2>13. prepare \in Prepare \cup {Absent} /\ ack \in Ack \cup {Absent}
    BY <2>7
  <2>14. started \in BOOLEAN /\ busy \in BOOLEAN /\ refreshed \in BOOLEAN /\ disturbed \in BOOLEAN
    BY <2>3, <2>8
  <2> QED
    BY <1>1, <2>2, <2>3, <2>4, <2>6, <2>9, <2>10, <2>11, <2>12, <2>13, <2>14 DEF TypeOK
<1>3. ControlOK /\ PlaceOK /\ AskedOK /\ BusyOK /\ RememberedOK /\ ReadyOK
  BY
  DEF Init, ControlOK, PlaceOK, Preparing, AskedOK, BusyOK, RememberedOK, Checking, Rechecking,
         Ended, ReadyOK, Quiet, Reading
<1> QED  BY <1>2, <1>3 DEF IInv

THEOREM Invariant == Spec => []IInv
<1>1. IInv /\ [Next]_vars => IInv'
  BY TypeStep, PlaceStep, AskedStep, BusyStep, RememberedStep, ReadyStep DEF IInv
<1> QED  BY <1>1, InitInvariant, PTL DEF Spec

\* The states are those of the resources, the bundle, the coordinator and the
\* checks.
THEOREM TypeCorrect == Spec => []TypeOK
BY Invariant, PTL DEF IInv

\* The data source says ready only with the bundle of the configuration in place,
\* of what has been checked for that bundle, and of which nothing is wrong that is
\* not acknowledged.
THEOREM ReadyIsChecked == Spec => []ReadyMeansChecked
<1>1. IInv => ReadyMeansChecked
  BY Constants
  DEF IInv, TypeOK, PlaceOK, ReadyOK, Quiet, Complete, FindsProblems, ReadyMeansChecked,
      Checked, Findings
<1> QED  BY <1>1, Invariant, PTL

\* Running all checks again loses no acknowledgement.
THEOREM NothingForgotten == Spec => []AcknowledgementsSurvive
<1>1. IInv => AcknowledgementsSurvive
  BY DEF IInv, RememberedOK, AcknowledgementsSurvive
<1> QED  BY <1>1, Invariant, PTL

\* The provider acknowledges nothing of its own accord.
THEOREM NothingUnasked == Spec => []OnlyWhatWasAsked
<1>1. IInv => OnlyWhatWasAsked
  BY DEF IInv, AskedOK, OnlyWhatWasAsked
<1> QED  BY <1>1, Invariant, PTL
=============================================================================
