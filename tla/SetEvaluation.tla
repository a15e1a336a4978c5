--------------------------- MODULE SetEvaluation ---------------------------
(***************************************************************************)
(* evaluate_diversity (src/src/evaluate_set.cpp) on evidence that does not *)
(* move: the pairwise matrix, the conflict graphs and their maximum        *)
(* independent subsets (src/src/evaluate_graph.cpp), and the outcome.      *)
(* Refusals that depend on moving evidence are in DiversityRuntime.        *)
(*                                                                         *)
(* Paths are numbered in canonical order; a list of indices that the code  *)
(* sorts is a set.                                                         *)
(***************************************************************************)
EXTENDS PairEvaluation, Integers, FiniteSets, Sequences

CONSTANTS
    Inputs,                 \* what evaluate_diversity is called with: [policy, paths, view]
    Compositions, Views,    \* the fabrics the properties quantify over
    None,
    max_paths_per_proof, max_pairwise_cells, max_k_subset_paths, max_required_classes

\* Limits::self_consistent, for the bounds evaluate_diversity uses.
SelfConsistent ==
    /\ max_paths_per_proof >= 2 /\ max_required_classes >= 1 /\ max_k_subset_paths >= 2
    /\ (max_paths_per_proof * (max_paths_per_proof - 1)) \div 2 <= max_pairwise_cells
    /\ max_k_subset_paths <= max_paths_per_proof

ASSUME LimitsAssumption ==
    /\ {max_paths_per_proof, max_pairwise_cells, max_k_subset_paths, max_required_classes} \subseteq Nat
    /\ SelfConsistent

\* A call names its paths in order, and the registry answers for all of their
\* elements (an entity it does not know has ABSENT coverage).
ASSUME InputsAssumption ==
    /\ None \notin Outcomes
    /\ \A in \in Inputs :
         /\ Len(in.paths) \in Nat /\ DOMAIN in.paths = 1..Len(in.paths)
         /\ in.policy.endpoint_exemption \in EndpointExemptions
         /\ \A k \in in.policy.required_classes, i \in DOMAIN in.paths :
              Covers(in.view, k, in.policy, in.paths[i])

\* A node plays one role in a path (domain.hpp: a transit node is neither a source
\* nor a destination).
ASSUME RolesAssumption == \A in \in Inputs : \A i \in DOMAIN in.paths : OneRole(in.paths[i])

VARIABLES
    input,      \* the call
    result      \* None until it returns

vars == <<input, result>>

Init == input \in Inputs /\ result = None

-----------------------------------------------------------------------------
(* Matrix and graphs.                                                      *)

Pairs(n) == {p \in (1..n) \X (1..n) : p[1] < p[2]}

Matrix(in) ==
    [p \in Pairs(Len(in.paths)) |->
        PairwiseCell(in.policy, in.view, in.paths[p[1]], in.paths[p[2]])]

\* graph_from_matrix, as a set of edges: the pairs that are not proven
\* independent, or only those with an observed conflict.
GraphFromMatrix(matrix, known_conflict_only) ==
    {{p[1], p[2]} : p \in {q \in DOMAIN matrix :
        IF known_conflict_only THEN CellHasConflict(matrix[q]) ELSE ~Independent(matrix[q])}}

Neighbours(graph, v, n) == {u \in 1..n : {u, v} \in graph /\ u # v}

Lowest(S) == CHOOSE v \in S : \A u \in S : v <= u

MisCardinality(graph, n) ==
    LET card[candidates \in SUBSET (1..n)] ==
          IF candidates = {} THEN 0
          ELSE LET vertex == Lowest(candidates)
                   without == candidates \ {vertex}
                   excluded == card[without]
                   included == 1 + card[without \ Neighbours(graph, vertex, n)]
               IN  IF included > excluded THEN included ELSE excluded
    IN  card

\* mis_witness: take the first vertex that keeps the maximum within reach.
MisWitness_FirstVertex(graph, n) ==
    LET rest(candidates, v) == (candidates \ Neighbours(graph, v, n)) \ {v}
        take[candidates \in SUBSET (1..n)] ==
          IF candidates = {} THEN {}
          ELSE {Lowest(candidates)} \cup take[rest(candidates, Lowest(candidates))]
    IN  take[1..n]
MisWitness(graph, n) ==
    LET card == MisCardinality(graph, n)
        rest(candidates, v) == (candidates \ Neighbours(graph, v, n)) \ {v}
        take[candidates \in SUBSET (1..n)] ==
          LET useful == {v \in candidates : 1 + card[rest(candidates, v)] = card[candidates]}
          IN  IF useful = {} THEN {}
              ELSE {Lowest(useful)} \cup take[rest(candidates, Lowest(useful))]
    IN  take[1..n]

IndependentSets(graph, n) ==
    {S \in SUBSET (1..n) : \A u, v \in S : {u, v} \notin graph}

\* mis_exhaustive: the first of the largest independent sets, counting masks up.
Mask(S, n) ==
    LET bits[i \in 0..n] ==
          IF i = 0 THEN 0 ELSE 2 * bits[i - 1] + (IF n - i + 1 \in S THEN 1 ELSE 0)
    IN  bits[n]
MisExhaustive(graph, n) ==
    CHOOSE S \in IndependentSets(graph, n) :
        \A T \in IndependentSets(graph, n) :
            \/ Cardinality(T) < Cardinality(S)
            \/ Cardinality(T) = Cardinality(S) /\ Mask(S, n) <= Mask(T, n)

\* verify_witness re-derives the independence of a subset from the cells.
VerifyWitness(matrix, indices) ==
    \A p \in indices \X indices : p[1] < p[2] =>
        p \in DOMAIN matrix /\ Independent(matrix[p]) /\ CellComplete(matrix[p])

-----------------------------------------------------------------------------
(* Steps 1 and 5: refusals of the shape, aggregation, the witness.         *)

\* validate_policy, for what the evaluator depends on.
ValidPolicy(policy) ==
    /\ policy.required_classes # {}
    /\ Cardinality(policy.required_classes) <= max_required_classes
    /\ policy.required_classes \subseteq DiversityClasses
    /\ policy.minimum_independent_paths \in 2..max_paths_per_proof
    /\ "FAILURE_DOMAIN_DISJOINT" \in policy.required_classes =>
         policy.allowed_failure_domain_relations # {}

IsAtLeastK(policy) == policy.semantics = "AT_LEAST_K_INDEPENDENT"

\* The checks before the matrix, and the one after it, in the order of the code.
ShapeRefusal(in) ==
    LET count == Len(in.paths)
    IN  IF ~ValidPolicy(in.policy) \/ count < 2 \/ count < in.policy.minimum_independent_paths
          THEN "MALFORMED"
        ELSE IF \/ count > max_paths_per_proof
                \/ Cardinality(Pairs(count)) > max_pairwise_cells
                \/ IsAtLeastK(in.policy) /\ (count > max_k_subset_paths \/ count > 32)
          THEN "RESOURCE_LIMIT"
        ELSE None

\* aggregate_class: the worst outcome, PROVEN_DIVERSE when there is none.
Aggregated(sources) ==
    LET outcomes == {s.outcome : s \in sources}
    IN  [outcome |-> IF "NOT_DIVERSE" \in outcomes THEN "NOT_DIVERSE"
                     ELSE IF "UNKNOWN_INCOMPLETE_EVIDENCE" \in outcomes
                            THEN "UNKNOWN_INCOMPLETE_EVIDENCE" ELSE "PROVEN_DIVERSE",
         evidence_complete |-> \A s \in sources : s.evidence_complete]

\* gather: the results the cells hold for a class.
AggregateClass_FirstPath(matrix, cells, klass) ==
    Aggregated({matrix[p][klass] : p \in {q \in cells : q[1] = 1 /\ klass \in DOMAIN matrix[q]}})
AggregateClass(matrix, cells, klass) ==
    Aggregated({matrix[p][klass] : p \in {q \in cells : klass \in DOMAIN matrix[q]}})

CellsWithin(matrix, subset) == {p \in DOMAIN matrix : p[1] \in subset /\ p[2] \in subset}

\* The subset that is certainly independent, cross-checked up to 16 paths.
CertainWitness(matrix, n) ==
    LET certain == GraphFromMatrix(matrix, FALSE)
        found == MisWitness(certain, n)
        brute == IF n <= 16 THEN MisExhaustive(certain, n) ELSE found
        best == IF Cardinality(brute) > Cardinality(found) THEN brute ELSE found
    IN  [indices |-> {v \in 1..n : v \in best},
         exact |-> Cardinality(brute) = Cardinality(found)]

NoWitness == [present |-> FALSE, requested_k |-> 0, indices |-> {}, achieved |-> 0, maximum_exact |-> FALSE]

\* AT_LEAST_K_INDEPENDENT: enough paths are certainly independent (outcome
\* still open), enough would be if no more conflicts turned up, or neither.
AtLeastK_CertainOnly(policy, matrix, n) ==
    LET certain == CertainWitness(matrix, n)
        enough == Cardinality(certain.indices) >= policy.minimum_independent_paths
    IN  [outcome |-> IF enough THEN None ELSE "NOT_DIVERSE",
         witness |-> [present |-> TRUE, requested_k |-> policy.minimum_independent_paths,
                      indices |-> certain.indices, achieved |-> Cardinality(certain.indices),
                      maximum_exact |-> certain.exact],
         cells |-> IF enough THEN CellsWithin(matrix, certain.indices) ELSE DOMAIN matrix]
AtLeastK(policy, matrix, n) ==
    LET k == policy.minimum_independent_paths
        certain == CertainWitness(matrix, n)
        optimistic == MisWitness(GraphFromMatrix(matrix, TRUE), n)
        enough == Cardinality(certain.indices) >= k
        hopeful == ~enough /\ Cardinality(optimistic) >= k
    IN  [outcome |-> IF enough THEN None
                     ELSE IF hopeful THEN UnknownOutcome(policy.unknown_behavior)
                     ELSE IF certain.exact THEN "NOT_DIVERSE" ELSE "REVALIDATION_REQUIRED",
         witness |-> [present |-> TRUE, requested_k |-> k,
                      indices |-> IF hopeful THEN optimistic ELSE certain.indices,
                      achieved |-> Cardinality(certain.indices), maximum_exact |-> certain.exact],
         cells |-> IF enough THEN CellsWithin(matrix, certain.indices) ELSE DOMAIN matrix]

SetWise(policy, matrix, n) ==
    IF IsAtLeastK(policy) THEN AtLeastK(policy, matrix, n)
    ELSE [outcome |-> None, witness |-> NoWitness, cells |-> DOMAIN matrix]

-----------------------------------------------------------------------------
(* Step 6, and the call.                                                   *)

ClassifyOutcome_UnknownFirst(policy, outcomes) ==
    IF "UNKNOWN_INCOMPLETE_EVIDENCE" \in outcomes THEN UnknownOutcome(policy.unknown_behavior)
    ELSE IF "NOT_DIVERSE" \in outcomes THEN "NOT_DIVERSE" ELSE "PROVEN_DIVERSE"
ClassifyOutcome(policy, outcomes) ==
    LET any_unknown == "UNKNOWN_INCOMPLETE_EVIDENCE" \in outcomes
        any_conflict == "NOT_DIVERSE" \in outcomes
        dominates == policy.completeness = "REQUIRE_COMPLETE_EVIDENCE"
    IN  IF any_unknown /\ (dominates \/ ~any_conflict) THEN UnknownOutcome(policy.unknown_behavior)
        ELSE IF any_conflict THEN "NOT_DIVERSE" ELSE "PROVEN_DIVERSE"

Refused(outcome) == [outcome |-> outcome, classes |-> <<>>, advisories |-> <<>>, witness |-> NoWitness]

Concluded(policy, matrix, set_wise) ==
    LET classes == [k \in policy.required_classes |-> AggregateClass(matrix, set_wise.cells, k)]
    IN  [outcome |-> IF set_wise.outcome # None THEN set_wise.outcome
                     ELSE ClassifyOutcome(policy, {classes[k].outcome : k \in DOMAIN classes}),
         classes |-> classes,
         advisories |-> [k \in DiversityClasses \ policy.required_classes |->
                            AggregateClass(matrix, set_wise.cells, k)],
         witness |-> set_wise.witness]

\* Step 1 may end the call before there is a matrix.
Reject ==
    /\ result = None
    /\ ShapeRefusal(input) # None
    /\ result' = Refused(ShapeRefusal(input))
    /\ UNCHANGED input

Conclude ==
    /\ result = None
    /\ ShapeRefusal(input) = None
    /\ \E matrix \in {Matrix(input)} :
         \E set_wise \in {SetWise(input.policy, matrix, Len(input.paths))} :
           result' = Concluded(input.policy, matrix, set_wise)
    /\ UNCHANGED input

EvaluateDiversity == Reject \/ Conclude

Next == EvaluateDiversity
Spec == Init /\ [][Next]_vars

-----------------------------------------------------------------------------
(* Properties.                                                             *)
Returned(outcomes) == result # None /\ result.outcome \in outcomes

\* The fabrics the evidence is a part of.
PathsShownBy(c) == {w \in Compositions : CompositionShows(c, w)}
ViewsShownBy(view) == {w \in Views : ViewShows(view, w)}

\* The sets of paths that are enough for a policy when they are mutually apart.
Enough(policy, paths) ==
    IF IsAtLeastK(policy)
      THEN {S \in SUBSET DOMAIN paths : Cardinality(S) >= policy.minimum_independent_paths}
      ELSE {DOMAIN paths}

\* The requirement of a policy, met by what is seen of a fabric.
Meets(policy, paths, view) ==
    \E S \in Enough(policy, paths) : \A i, j \in S : i < j =>
        \A k \in policy.required_classes : ~ReallyShare(k, policy, view, paths[i], paths[j])

\* A class finds no resource on both paths, in any fabric the evidence shows a part of.
ApartInEvery(klass, policy, view, c, d) ==
    \A v \in ViewsShownBy(view), l \in PathsShownBy(c), r \in PathsShownBy(d) :
        ~ReallyShare(klass, policy, v, l, r)

\* PROVEN_DIVERSE holds whatever the evidence does not show (memberships the
\* registry has not listed, elements the topology has not listed), except under
\* a class that asks the registry about a path that is only partly known.
ProvenIsSoundOfKnownPaths ==
    Returned({"PROVEN_DIVERSE"}) =>
        \E S \in Enough(input.policy, input.paths) : \A i, j \in S : i < j =>
            \A k \in input.policy.required_classes :
                \/ ApartInEvery(k, input.policy, input.view, input.paths[i], input.paths[j])
                \/ /\ k \in MembershipClasses
                   /\ ~(WhollyKnown(input.paths[i]) /\ WhollyKnown(input.paths[j]))

\* NOT_DIVERSE holds whatever the evidence does not show: nothing that turns
\* up later gives the paths the independence that was denied.
NotDiverseIsSound ==
    Returned({"NOT_DIVERSE"}) =>
        \A S \in Enough(input.policy, input.paths) : \E i, j \in S :
            /\ i < j
            /\ \E k \in input.policy.required_classes :
                 \A v \in ViewsShownBy(input.view),
                    l \in PathsShownBy(input.paths[i]), r \in PathsShownBy(input.paths[j]) :
                     ReallyShare(k, input.policy, v, l, r)

\* Evidence that every class counts as complete is always decided, and decided right: the set-wise result
\* of pairwise verdicts is the requirement itself, for all pairs and for K paths.
DecidedWhenComplete ==
    /\ result # None /\ ShapeRefusal(input) = None
    /\ \A p \in Pairs(Len(input.paths)) : CellComplete(Matrix(input)[p])
    => result.outcome = IF Meets(input.policy, input.paths, input.view)
                          THEN "PROVEN_DIVERSE" ELSE "NOT_DIVERSE"

\* Where a conflict is decisive (PROVEN_CONFLICT_DECISIVE, and K paths under
\* either requirement), an open outcome means that the evidence seen so far
\* meets the requirement: only missing evidence stands in the way.
OpenOnlyForMissingEvidence ==
    /\ Returned({"UNKNOWN_INCOMPLETE_EVIDENCE", "REVALIDATION_REQUIRED"})
    /\ IsAtLeastK(input.policy) \/ input.policy.completeness = "PROVEN_CONFLICT_DECISIVE"
    => /\ Meets(input.policy, input.paths, input.view)
       /\ \E p \in Pairs(Len(input.paths)) : ~CellComplete(Matrix(input)[p])

\* The branch-and-bound search is exact: it agrees with the enumeration of all
\* subsets, and a subset it names as proven is one verify_witness accepts and
\* the lexicographically first of its size (the comment above mis_cardinality).
WitnessExact ==
    result # None /\ result.witness.present =>
        LET matrix == Matrix(input)
            proven == {S \in SUBSET DOMAIN input.paths : VerifyWitness(matrix, S)}
            first(S, T) == S = T \/ Lowest((S \ T) \cup (T \ S)) \in S
        IN  /\ result.witness.maximum_exact
            /\ \A S \in proven : Cardinality(S) <= result.witness.achieved
            /\ result.witness.achieved >= result.witness.requested_k =>
                 /\ result.witness.indices \in proven
                 /\ \A S \in proven : Cardinality(S) = result.witness.achieved
                                        => first(result.witness.indices, S)

-----------------------------------------------------------------------------
(* What the code does not keep.                                            *)

\* "Neither mode can produce PROVEN_DIVERSE from incomplete evidence" (README,
\* section 4): it holds in every fabric the evidence may be a part of, partly
\* known paths included (evaluate_domain_relation does not look at whether a
\* composition lists all of the path).
ProvenIsSound ==
    Returned({"PROVEN_DIVERSE"}) =>
        \E S \in Enough(input.policy, input.paths) : \A i, j \in S : i < j =>
            \A k \in input.policy.required_classes :
                ApartInEvery(k, input.policy, input.view, input.paths[i], input.paths[j])
=============================================================================
