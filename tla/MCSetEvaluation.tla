--------------------------- MODULE MCSetEvaluation ---------------------------
(* TLC instance of the evaluator: three families of calls, one for the      *)
(* search on path sets, one for endpoint exemptions, one for memberships.   *)
EXTENDS SetEvaluation

CONSTANTS SetSizes, DomainsOf

Composition(links, link_complete) ==
    [sources |-> {}, destinations |-> {}, transit_nodes |-> {}, links |-> links, devices |-> {},
     link_complete |-> link_complete, node_complete |-> TRUE, device_complete |-> TRUE,
     endpoint_complete |-> TRUE]

Policy(classes, k, semantics, completeness, behavior, relations, exemption) ==
    [required_classes |-> classes, minimum_independent_paths |-> k, semantics |-> semantics,
     completeness |-> completeness, unknown_behavior |-> behavior,
     allowed_failure_domain_relations |-> relations, endpoint_exemption |-> exemption]

Modes == {"REQUIRE_COMPLETE_EVIDENCE", "PROVEN_CONFLICT_DECISIVE"}
NoView == <<>>

\* Sets of paths over three links: every conflict graph that three links give.
Links == 1..3
LinkCompositions == {Composition(s, c) : s \in SUBSET Links, c \in BOOLEAN}
ListedLinks == {c \in LinkCompositions : Cardinality(c.links) \in {1, 2}}
SetPolicies ==
    {Policy({"LINK_DISJOINT"}, 2, "ALL_PAIRS", m, "REJECT_PROOF", {}, "NONE") : m \in Modes}
      \cup {Policy({"LINK_DISJOINT"}, k, "AT_LEAST_K_INDEPENDENT", "REQUIRE_COMPLETE_EVIDENCE",
                   "DEMOTE_TO_REVALIDATION", {}, "NONE") : k \in 2..3}
\* Links are interchangeable: the first path has link 1, or links 1 and 2.
LinkPaths(n) == {paths \in [1..n -> ListedLinks] : paths[1].links \in {{1}, {1, 2}}}
SetInputs ==
    UNION {[policy : SetPolicies, paths : LinkPaths(n), view : {NoView}] : n \in SetSizes}
      \cup [policy : SetPolicies, paths : [1..(max_paths_per_proof + 1) -> {Composition({1}, TRUE)}],
            view : {NoView}]

\* Pairs of paths over two nodes in every role.
NodeCompositions ==
    {[Composition({}, TRUE) EXCEPT !.sources = {x \in 1..2 : f[x] = "source"},
                                   !.destinations = {x \in 1..2 : f[x] = "destination"},
                                   !.transit_nodes = {x \in 1..2 : f[x] = "transit"},
                                   !.node_complete = n, !.endpoint_complete = e]
       : f \in [1..2 -> Roles \cup {"absent"}], n \in BOOLEAN, e \in BOOLEAN}
NodeInputs ==
    [policy : {Policy({"TRANSIT_NODE_DISJOINT"}, 2, "ALL_PAIRS", "PROVEN_CONFLICT_DECISIVE",
                      "REJECT_PROOF", {}, x) : x \in EndpointExemptions},
     paths : [1..2 -> NodeCompositions], view : {NoView}]

\* Two paths of one link each and two relations.
MemberLinks == 11..12
MemberCompositions == {Composition(s, TRUE) : s \in SUBSET MemberLinks}
Evidence == [domains : SUBSET DomainsOf, complete : BOOLEAN]
MembershipViews == [{"RACK", "CONDUIT"} -> [{"LINK"} \X MemberLinks -> Evidence]]
MembershipInputs ==
    [policy : {Policy(c, 2, "ALL_PAIRS", m, "REJECT_PROOF", r, "NONE")
                 : c \in {{"RACK_DISJOINT"}, {"FAILURE_DOMAIN_DISJOINT"}, {"LINK_DISJOINT", "RACK_DISJOINT"}},
                   m \in Modes, r \in {{}, {"RACK", "CONDUIT"}}},
     paths : {<<Composition({11}, c), Composition({12}, TRUE)>> : c \in BOOLEAN},
     view : MembershipViews]

MCInputs == SetInputs \cup NodeInputs \cup MembershipInputs
MCCompositions ==
    {c \in LinkCompositions \cup NodeCompositions \cup MemberCompositions :
       c.link_complete /\ c.node_complete /\ c.endpoint_complete}
MCViews == {NoView} \cup MembershipViews
==============================================================================
