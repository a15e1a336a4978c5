--------------------------- MODULE PairEvaluation ---------------------------
(***************************************************************************)
(* One pair of paths judged against a policy (src/src/evaluate_pair.cpp),  *)
(* and the matrix cell made of it (src/src/evaluate_set.cpp).              *)
(*                                                                         *)
(* A composition holds the sets a path is made of and whether the topology *)
(* claims each of them is complete; a view maps a relation and an entity   *)
(* to the domains the registry lists and whether it claims to list all of  *)
(* them (shared risk groups are one more relation, "SRLG").  PARTIAL and   *)
(* ABSENT coverage are treated alike by the code and are one value here.   *)
(***************************************************************************)
EXTENDS Lifecycle

StructuralClasses == {"LINK_DISJOINT", "TRANSIT_NODE_DISJOINT", "DEVICE_DISJOINT"}
MembershipClasses == {"RACK_DISJOINT", "POD_DISJOINT", "SITE_DISJOINT",
                      "FAILURE_DOMAIN_DISJOINT", "SHARED_RISK_GROUP_DISJOINT"}
DiversityClasses == StructuralClasses \cup MembershipClasses

EndpointExemptions == {"NONE", "SHARED_SOURCE_AND_DESTINATION", "SHARED_SOURCE_ONLY",
                       "SHARED_DESTINATION_ONLY", "ANY_ENDPOINT"}

-----------------------------------------------------------------------------
(* What two paths have in common.                                          *)

\* path_entities: everything of a path that failure domains are asked about.
PathEntities(c) ==
    ({"LINK"} \X c.links) \cup ({"NODE"} \X c.transit_nodes)
      \cup ({"ENDPOINT"} \X (c.sources \cup c.destinations)) \cup ({"DEVICE"} \X c.devices)

AllNodes(c) == c.transit_nodes \cup c.sources \cup c.destinations

ExemptEndpoints(l, r, exemption) ==
    CASE exemption = "NONE" -> {}
      [] exemption = "SHARED_SOURCE_AND_DESTINATION" ->
           (l.sources \cap r.sources) \cup (l.destinations \cap r.destinations)
      [] exemption = "SHARED_SOURCE_ONLY" -> l.sources \cap r.sources
      [] exemption = "SHARED_DESTINATION_ONLY" -> l.destinations \cap r.destinations
      [] exemption = "ANY_ENDPOINT" ->
           (l.sources \cup l.destinations) \cap (r.sources \cup r.destinations)

\* The relations a class asks the registry about: one, or the ones the policy declares.
RelationsOf(klass, policy) ==
    CASE klass = "RACK_DISJOINT" -> {"RACK"}
      [] klass = "POD_DISJOINT" -> {"POD"}
      [] klass = "SITE_DISJOINT" -> {"SITE"}
      [] klass = "SHARED_RISK_GROUP_DISJOINT" -> {"SRLG"}
      [] klass = "FAILURE_DOMAIN_DISJOINT" -> policy.allowed_failure_domain_relations
      [] OTHER -> {}

\* collect_domain_membership, collect_srlg_membership
Membership(view, relation, c) == UNION {view[relation][e].domains : e \in PathEntities(c)}
MembershipComplete(view, relation, c) == \A e \in PathEntities(c) : view[relation][e].complete

\* The resources the evaluator of a class finds on both paths.
ClassShared(klass, policy, view, l, r) ==
    CASE klass = "LINK_DISJOINT" -> l.links \cap r.links
      [] klass = "DEVICE_DISJOINT" -> l.devices \cap r.devices
      [] klass = "TRANSIT_NODE_DISJOINT" ->
           (AllNodes(l) \cap AllNodes(r)) \ ExemptEndpoints(l, r, policy.endpoint_exemption)
      [] OTHER -> UNION {{relation} \X (Membership(view, relation, l) \cap Membership(view, relation, r))
                           : relation \in RelationsOf(klass, policy)}

\* Whether the evidence of a class is complete for both paths.  A class that
\* asks the registry looks at the coverage of the entities the composition
\* lists, and not at whether the composition lists them all.
ClassComplete(klass, policy, view, l, r) ==
    CASE klass = "LINK_DISJOINT" -> l.link_complete /\ r.link_complete
      [] klass = "DEVICE_DISJOINT" -> l.device_complete /\ r.device_complete
      [] klass = "TRANSIT_NODE_DISJOINT" ->
           /\ l.node_complete /\ r.node_complete
           /\ l.endpoint_complete /\ r.endpoint_complete
      [] OTHER -> /\ RelationsOf(klass, policy) # {}
                  /\ \A relation \in RelationsOf(klass, policy) :
                       MembershipComplete(view, relation, l) /\ MembershipComplete(view, relation, r)

-----------------------------------------------------------------------------
(* The verdict of a class, and the cell of a pair.                         *)

\* Something shared decides; nothing shared proves only with complete evidence.
ClassOutcome_EmptyIsProof(shared, complete) ==
    IF shared # {} THEN "NOT_DIVERSE" ELSE "PROVEN_DIVERSE"
ClassOutcome(shared, complete) ==
    IF shared # {} THEN "NOT_DIVERSE"
    ELSE IF complete THEN "PROVEN_DIVERSE" ELSE "UNKNOWN_INCOMPLETE_EVIDENCE"

ClassResult(klass, policy, view, l, r) ==
    [outcome |-> ClassOutcome(ClassShared(klass, policy, view, l, r),
                              ClassComplete(klass, policy, view, l, r)),
     evidence_complete |-> ClassComplete(klass, policy, view, l, r)]

\* A cell keeps the results of the required classes only.
PairwiseCell(policy, view, l, r) ==
    [klass \in policy.required_classes |-> ClassResult(klass, policy, view, l, r)]

Independent(cell) ==
    \A klass \in DOMAIN cell :
        cell[klass].outcome = "PROVEN_DIVERSE" /\ cell[klass].evidence_complete

CellComplete(cell) == \A klass \in DOMAIN cell : cell[klass].evidence_complete

CellHasConflict(cell) == \E klass \in DOMAIN cell : cell[klass].outcome = "NOT_DIVERSE"

-----------------------------------------------------------------------------
(* Reference: the fabric as it is, of which the evidence shows a part.     *)

Roles == {"source", "destination", "transit"}
NodesIn(c, role) ==
    CASE role = "source" -> c.sources
      [] role = "destination" -> c.destinations
      [] role = "transit" -> c.transit_nodes

\* The pairs of roles in which two paths may share a node (README, section 3).
ExemptRoles(exemption) ==
    CASE exemption = "NONE" -> {}
      [] exemption = "SHARED_SOURCE_AND_DESTINATION" ->
           {<<"source", "source">>, <<"destination", "destination">>}
      [] exemption = "SHARED_SOURCE_ONLY" -> {<<"source", "source">>}
      [] exemption = "SHARED_DESTINATION_ONLY" -> {<<"destination", "destination">>}
      [] exemption = "ANY_ENDPOINT" ->
           {"source", "destination"} \X {"source", "destination"}

\* A node plays one role in a path: domain.hpp defines transit nodes as what is
\* neither source nor destination, and a path does not end where it starts.
OneRole(c) ==
    \A a, b \in Roles : a # b => NodesIn(c, a) \cap NodesIn(c, b) = {}

\* w is a path of which composition c shows a part, and all where it says so.
CompositionShows(c, w) ==
    /\ OneRole(w)
    /\ c.links \subseteq w.links
    /\ c.devices \subseteq w.devices
    /\ \A role \in Roles : NodesIn(c, role) \subseteq NodesIn(w, role)
    /\ c.link_complete => c.links = w.links
    /\ c.device_complete => c.devices = w.devices
    /\ c.node_complete => c.transit_nodes = w.transit_nodes
    /\ c.endpoint_complete => c.sources = w.sources /\ c.destinations = w.destinations

\* A composition that says it is complete, in every respect.
WhollyKnown(c) == c.link_complete /\ c.node_complete /\ c.device_complete /\ c.endpoint_complete

\* w is a classification of which view shows a part.
ViewShows(view, w) ==
    /\ DOMAIN view = DOMAIN w
    /\ \A relation \in DOMAIN view : \A e \in DOMAIN view[relation] :
         /\ e \in DOMAIN w[relation]
         /\ view[relation][e].domains \subseteq w[relation][e].domains
         /\ view[relation][e].complete => view[relation][e].domains = w[relation][e].domains

\* A view answers for every entity of a path under every relation asked about.
Covers(view, klass, policy, c) ==
    \A relation \in RelationsOf(klass, policy) :
        relation \in DOMAIN view /\ PathEntities(c) \subseteq DOMAIN view[relation]

\* What the class is about: two paths have a resource in common.
ReallyShare(klass, policy, view, l, r) ==
    CASE klass = "LINK_DISJOINT" -> \E x \in l.links : x \in r.links
      [] klass = "DEVICE_DISJOINT" -> \E x \in l.devices : x \in r.devices
      [] klass = "TRANSIT_NODE_DISJOINT" ->
           \E a, b \in Roles :
             /\ NodesIn(l, a) \cap NodesIn(r, b) # {}
             /\ <<a, b>> \notin ExemptRoles(policy.endpoint_exemption)
      [] OTHER -> \E relation \in RelationsOf(klass, policy) :
                    \E e \in PathEntities(l), f \in PathEntities(r) :
                      view[relation][e].domains \cap view[relation][f].domains # {}
=============================================================================
