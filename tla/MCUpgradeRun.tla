---------------------------- MODULE MCUpgradeRun ----------------------------
(***************************************************************************)
(* What the documentation and the comments say of nsxt_upgrade_run, and    *)
(* the code does not do.  Each property is checked by a run of its own     *)
(* that shows how it is violated.                                          *)
(***************************************************************************)
EXTENDS UpgradeRun

\* The restart of the manager after its own upgrade does not end the apply:
\* "After MP upgrade is completed, NSXT will restart [...] Keep polling for
\* this case" (resource_nsxt_upgrade_run.go:565-566).
RestartIsTolerated == result # "panic"

\* Components that are upgraded already are skipped: "If component is already
\* upgraded, resume" (resource_nsxt_upgrade_run.go:815).
UpgradedIsSkipped ==
    [][overall = "SUCCESS" /\ pc = "run" /\ pc' = "idle" => result' # "error"]_vars

\* Finalization waits for the user: finalize_upgrade_setting "allows execution
\* without the finalization stage" (website/docs/guides/upgrade.html.markdown:191).
FinalizedWhenEnabled ==
    [][Starts("FINALIZE_UPGRADE") => desired["FINALIZE_UPGRADE"] # "off"]_vars

\* The groups are configured before the upgrade is executed: "It will first
\* configure upgrade unit groups and upgrade plan settings [...] Then it will
\* execute the upgrade" (website/docs/r/upgrade_run.html.markdown:12-13).
ConfiguredBeforeStart ==
    [][\A c \in Customizable :
          Starts(c) /\ desired[c] # "none" => plan[c] = desired[c]]_vars
=============================================================================
