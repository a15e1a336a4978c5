----------------------------- MODULE Lifecycle -----------------------------
(***************************************************************************)
(* Proof lifecycle, outcomes and currentness: src/src/lifecycle.cpp and    *)
(* the outcomes src/src/evaluate_set.cpp can produce.                      *)
(***************************************************************************)

LifecycleStates == {"DECLARED", "CURRENT", "REVALIDATION_REQUIRED", "SUPERSEDED",
                    "REVOKED", "RETIRED", "HISTORICAL"}

TerminalStates == {"REVOKED", "RETIRED"}

\* The states apply_lifecycle is called with: revoke, retire, mark_historical, supersede.
LifecycleTargets == {"REVOKED", "RETIRED", "HISTORICAL", "SUPERSEDED"}

\* lifecycle_transition_allowed: the pairs from # to that the switch lists.
TransitionTable ==
    ({"DECLARED"} \X {"CURRENT", "REVALIDATION_REQUIRED", "REVOKED", "RETIRED", "SUPERSEDED"})
    \cup ({"CURRENT"} \X {"REVALIDATION_REQUIRED", "SUPERSEDED", "REVOKED", "RETIRED", "HISTORICAL"})
    \cup ({"REVALIDATION_REQUIRED"} \X {"CURRENT", "SUPERSEDED", "REVOKED", "RETIRED", "HISTORICAL"})
    \cup ({"SUPERSEDED"} \X {"CURRENT", "REVOKED", "RETIRED", "HISTORICAL"})
    \cup ({"HISTORICAL"} \X {"CURRENT", "SUPERSEDED", "REVOKED", "RETIRED"})

TransitionAllowed(from, to) == from = to \/ <<from, to>> \in TransitionTable

-----------------------------------------------------------------------------
\* What a complete evaluation concludes, and what ends one early (reject): a
\* rejected evaluation carries no dependencies and no matrix.
ConclusiveOutcomes == {"PROVEN_DIVERSE", "NOT_DIVERSE"}
CompletedOutcomes == ConclusiveOutcomes
                       \cup {"UNKNOWN_INCOMPLETE_EVIDENCE", "REVALIDATION_REQUIRED"}
RejectedOutcomes == {"MALFORMED", "RESOURCE_LIMIT", "UNAUTHORIZED",
                     "STALE_PATH_AUTHORITY", "STALE_TOPOLOGY"}
Outcomes == CompletedOutcomes \cup RejectedOutcomes

Currentness == {"CURRENT", "STALE_PATH_AUTHORITY", "STALE_TOPOLOGY", "STALE_FAILURE_DOMAIN",
                "STALE_POLICY", "FENCED_PUBLISHER", "INCOMPLETE_EVIDENCE",
                "REVALIDATION_REQUIRED"}

CurrentnessForOutcome(outcome) ==
    CASE outcome \in ConclusiveOutcomes -> "CURRENT"
      [] outcome \in {"STALE_PATH_AUTHORITY", "UNAUTHORIZED"} -> "STALE_PATH_AUTHORITY"
      [] outcome = "STALE_TOPOLOGY" -> "STALE_TOPOLOGY"
      [] outcome = "UNKNOWN_INCOMPLETE_EVIDENCE" -> "INCOMPLETE_EVIDENCE"
      [] OTHER -> "REVALIDATION_REQUIRED"

\* The lifecycle a committed revision starts in (runtime.cpp, phase 3).
LifecycleForOutcome(outcome) ==
    CASE outcome = "REVALIDATION_REQUIRED" -> "REVALIDATION_REQUIRED"
      [] outcome \in {"MALFORMED", "RESOURCE_LIMIT", "UNAUTHORIZED"} -> "DECLARED"
      [] OTHER -> "CURRENT"

UnknownBehaviors == {"REJECT_PROOF", "DEMOTE_TO_REVALIDATION"}

\* unknown_outcome: what missing evidence becomes under a policy.
UnknownOutcome(unknown_behavior) ==
    IF unknown_behavior = "DEMOTE_TO_REVALIDATION"
      THEN "REVALIDATION_REQUIRED" ELSE "UNKNOWN_INCOMPLETE_EVIDENCE"
=============================================================================
