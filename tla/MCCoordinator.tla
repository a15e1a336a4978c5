--------------------------- MODULE MCCoordinator ---------------------------
(* TLC instances of the coordinator: one publisher, one policy, one request *)
(* and one scope, one or two boots.                                         *)
EXTENDS Coordinator, TLC

CONSTANTS pol, e1, d1, d2

MCRequest == [policy |-> pol, policy_generation |-> 1, paths |-> [path \in Paths |-> 1]]
MCRequests == {MCRequest}
MCContents == {[require_path_authority_current |-> TRUE, unknown_behavior |-> "REJECT_PROOF"]}
MCPayloads == {PolicyPayload(c) : c \in Contents} \cup {RequestPayload(r) : r \in Requests}

MCActors ==
    [publisher : Publishers, boot : Boots, scope : Scopes, epoch : 1..MaxEpoch, attempt : Attempts,
     expected_policy_generation : {0}, expected_proof_generation : {0}]
MCRegistrations == [publisher : Publishers, boot : Boots, scope : Scopes, epoch : 1..MaxEpoch]

MCFootprint(r, t) == {e1}
MCNoDomains(r, d) == {}

\* A request consults both domains, and its paths share the first.
MCConsulted(r, d) == {d1, d2}
MCShared(r, d) == {d1}

Symmetry == Permutations(Attempts) \cup Permutations(Boots) \cup Permutations(Evaluators)
=============================================================================
