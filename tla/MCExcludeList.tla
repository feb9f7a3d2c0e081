--------------------------- MODULE MCExcludeList ---------------------------
(***************************************************************************)
(* What the documentation says of nsxt_policy_firewall_exclude_list_member *)
(* and the code does not do.                                               *)
(***************************************************************************)
EXTENDS ExcludeList

\* A create that meets no failing call adds its member, unless the member is
\* listed already: the resource "provides a method for the management of a
\* firewall exclude list members"
\* (website/docs/r/policy_firewall_exclude_list_member.html.markdown:10), and
\* the create has a branch for a list that does not exist yet.
MemberCanBeAdded ==
    [][\A m \in Member :
          pc[m] = "get" /\ pc'[m] = "idle" /\ result'[m] = "error" /\ faults' = faults
              => m \in Listed]_vars
=============================================================================
