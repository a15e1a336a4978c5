----------------------------- MODULE MCDecoding -----------------------------
(* TLC instance of the codecs: proofs of two and of three paths whose pairs   *)
(* share a link, share none or are not known to, as evaluate_diversity makes  *)
(* them of those verdicts, and one that it rejects.                           *)
EXTENDS Decoding

Path(i) == CASE i = 0 -> "path 0" [] i = 1 -> "path 1" [] i = 2 -> "path 2"
Request(n) == [policy |-> "policy", policy_generation |-> 1,
               paths |-> [i \in 1..n |-> [path |-> Path(i - 1), authority_generation |-> 1]]]
MCRequests == {Request(2), Request(3)}
MCproof_identity(request) == IF Len(request.paths) = 2 THEN "proof of two" ELSE "proof of three"

SharedLink(i, j) ==
    [kind |-> "SHARED_LINK", relation |-> "FAILURE_DOMAIN", id |-> "link", paths |-> <<i, j>>]
Verdict(v, shared) ==
    [klass |-> "LINK_DISJOINT", shared |-> shared, shared_total |-> Len(shared),
     evidence_complete |-> v # "unknown", detail |-> IF v = "none" THEN 0 ELSE 1,
     outcome |-> CASE v = "shared"  -> "NOT_DIVERSE"
                   [] v = "none"    -> "PROVEN_DIVERSE"
                   [] v = "unknown" -> "UNKNOWN_INCOMPLETE_EVIDENCE"]
SharedOf(i, j, v) == IF v = "shared" THEN <<SharedLink(i, j)>> ELSE <<>>
PairCell(i, j, v) ==
    [left |-> i, right |-> j, independent |-> v = "none", evidence_complete |-> v # "unknown",
     classes |-> <<Verdict(v, SharedOf(i, j, v))>>, primary_conflict |-> SharedOf(i, j, v)]

Advisory == [klass |-> "DEVICE_DISJOINT", outcome |-> "PROVEN_DIVERSE", evidence_complete |-> TRUE,
             shared |-> <<>>, shared_total |-> 0, detail |-> 0]
Binding(request) ==
    [policy_generation |-> 1, topology_generation |-> 1, failure_domain_generation |-> 1,
     epoch |-> 1, endpoint_exemption |-> "NONE",
     paths |-> [i \in DOMAIN request.paths |->
                   [path |-> request.paths[i].path, generation |-> 1]],
     topology_entities |-> <<[kind |-> "LINK", id |-> "link"]>>]
NoWitness == [present |-> FALSE, requested_k |-> 0, achieved |-> 0, maximum_exact |-> FALSE,
              indices |-> <<>>]

Evaluation(request, outcome, class, cells, witness) ==
    [outcome |-> outcome, detail |-> 1, limit |-> <<>>, classes |-> <<class>>,
     advisories |-> <<Advisory>>, conflicts |-> class.shared, conflicts_total |-> Len(class.shared),
     matrix |-> [order |-> [i \in DOMAIN request.paths |-> request.paths[i].path], cells |-> cells],
     witness |-> witness, dependencies |-> Binding(request)]

(* All pairs of two paths. *)
OfPair(request, v) ==
    LET class == Verdict(v, SharedOf(0, 1, v))
    IN  Evaluation(request, class.outcome, class, <<PairCell(0, 1, v)>>, NoWitness)

(* Two independent paths out of three of which the first two share a link:    *)
(* the class result is that of the witness.                                   *)
OfThree(request) ==
    Evaluation(request, "PROVEN_DIVERSE", Verdict("none", <<>>),
              <<PairCell(0, 1, "shared"), PairCell(0, 2, "none"), PairCell(1, 2, "none")>>,
              [present |-> TRUE, requested_k |-> 2, achieved |-> 2, maximum_exact |-> TRUE,
               indices |-> <<0, 2>>])

(* reject_limit: no class, no matrix and no dependencies. *)
Rejected(request) ==
    [outcome |-> "RESOURCE_LIMIT", detail |-> 1,
     limit |-> <<[bound |-> "MAX_PAIRWISE_CELLS", observed |-> 2, allowed |-> 1]>>,
     classes |-> <<>>, advisories |-> <<>>, conflicts |-> <<>>, conflicts_total |-> 0,
     matrix |-> [order |-> <<>>, cells |-> <<>>], witness |-> NoWitness,
     dependencies |-> [policy_generation |-> 0, topology_generation |-> 0,
                       failure_domain_generation |-> 0, epoch |-> 1, endpoint_exemption |-> "NONE",
                       paths |-> <<>>, topology_entities |-> <<>>]]

MCEvaluations(request) ==
    IF Len(request.paths) = 3 THEN {OfThree(request)}
    ELSE {OfPair(request, v) : v \in {"shared", "none", "unknown"}} \cup {Rejected(request)}

RackPolicy(description) ==
    [id |-> "policy", generation |-> 1, scope |-> "scope",
     required_classes |-> <<"LINK_DISJOINT", "FAILURE_DOMAIN_DISJOINT">>,
     endpoint_exemption |-> "NONE", minimum_independent_paths |-> 2,
     semantics |-> "ALL_PAIRS", completeness |-> "REQUIRE_COMPLETE_EVIDENCE",
     unknown_behavior |-> "REJECT_PROOF", allowed_failure_domain_relations |-> <<"RACK">>,
     require_path_authority_current |-> TRUE, description |-> description]
MCPolicies == {RackPolicy(1), RackPolicy(max_detail + 1)}
=============================================================================
