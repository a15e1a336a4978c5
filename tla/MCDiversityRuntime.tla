------------------------- MODULE MCDiversityRuntime -------------------------
(* TLC instances of the diversity runtime: small sets of callers, requests *)
(* and evidence, chosen per configuration.                                 *)
EXTENDS DiversityRuntime, TLC

CONSTANTS pol, e1, e2, d1, d2

\* One publisher and one scope; a boot acts at either epoch, with or without
\* an expected proof generation.
MCActors(epochs, expectations, policy_generations) ==
    [publisher : Publishers, boot : Boots, scope : Scopes, epoch : epochs, attempt : Attempts,
     expected_policy_generation : policy_generations, expected_proof_generation : expectations]

MCRegistrations == [publisher : Publishers, boot : Boots, scope : Scopes, epoch : 1..MaxEpoch]

MCRequest(g) == [policy |-> pol, policy_generation |-> g, paths |-> [path \in Paths |-> 1]]

MCContents == {[require_path_authority_current |-> TRUE, unknown_behavior |-> "REJECT_PROOF"]}

\* A policy that does not ask Path Authority: only refresh_currentness does.
MCContentsLenient ==
    {[require_path_authority_current |-> FALSE, unknown_behavior |-> "DEMOTE_TO_REVALIDATION"]}

MCPayloads ==
    {PolicyPayload(c) : c \in Contents} \cup {RequestPayload(r) : r \in Requests}
    \cup {LifecyclePayload(r, target) : r \in Requests, target \in Targets}

\* The footprint and the classification move with their generation.
MCFootprint(r, t) == IF t = 1 THEN {e1} ELSE {e2}
MCConsulted(r, d) == IF d = 1 THEN {d1} ELSE {d2}

MCNoEvidence(r, generation) == {}

MCRequests1 == {MCRequest(1)}

ActorsPlain == MCActors(1..MaxEpoch, {0}, {0})

\* Attempts are interchangeable, so let the first policy publication be under the
\* first of them, and so on; an evaluation does not read the policy expectation.
FirstExpected ==
    CHOOSE f \in [Attempts -> 0..3] : \A a, b \in Attempts : f[a] = f[b] => a = b
ActorsPolicy ==
    {a \in MCActors(1..MaxEpoch, {0}, 0..3) : a.expected_policy_generation = FirstExpected[a.attempt]}

ActorsExpecting == MCActors(1..MaxEpoch, {0, 1}, {0})
Symmetry == Permutations(Attempts) \cup Permutations(Boots) \cup Permutations(Evaluators)
=============================================================================
