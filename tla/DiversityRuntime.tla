-------------------------- MODULE DiversityRuntime --------------------------
(***************************************************************************)
(* The diversity runtime: src/src/runtime.cpp and src/src/runtime_ops.cpp, *)
(* class DiversityRuntime, over the publication authority it is given.     *)
(*                                                                         *)
(* Every method body runs under the runtime's mutex except the middle of   *)
(* evaluate (phase 2), the gap between the two locks of revalidate, the    *)
(* middle of refresh_currentness, and the two calls fence_boot makes.      *)
(* What runs under the mutex is one step here; each stretch outside it is  *)
(* a step of its own, so that every other caller, the evidence views and   *)
(* the publication authority may move in between.                          *)
(*                                                                         *)
(* A proof identity is the digest of its canonical request, so a request   *)
(* (policy, policy generation, the authority generation bound for each     *)
(* path) stands for its identity.  Class results, matrices, witnesses,     *)
(* details and statistics are not kept: a revision carries what the        *)
(* runtime reads again, its outcome and its dependencies.                  *)
(***************************************************************************)
EXTENDS PublicationAuthority, Lifecycle, Sequences

CONSTANTS
    Evaluators,         \* concurrent calls of evaluate and revalidate
    Refreshers,         \* concurrent calls of refresh_currentness
    Actors,             \* the ActingAuthority values callers present
    Registrations,      \* the sessions workers ask for
    Policies,           \* DiversityPolicyId
    Contents,           \* policy contents
    Requests,           \* canonical proof requests
    Targets,            \* the lifecycle operations callers use
    Paths, Entities, Domains,
    Footprint(_, _),    \* the entities of a request's paths at a topology generation
    Consulted(_, _),    \* the domains an evaluation consults at a classification generation
    Verdicts,           \* outcomes structure and failure-domain evidence may lead to
    max_policies,       \* Limits::max_policies
    max_proofs,         \* Limits::max_proofs
    max_history,        \* Limits::max_history
    MaxGeneration,      \* the generation can_advance refuses to pass (2^64 - 1)
    MaxTopology,        \* bounds on how often the evidence moves
    MaxDomains,
    MaxPath,
    UnstablePaths       \* bound: the paths Path Authority moves

\* An ActingAuthority with its optimistic-concurrency expectations.
Actor == [publisher : Publishers, boot : Boots, scope : Scopes, epoch : 0..MaxEpoch,
          attempt : Attempts, expected_policy_generation : Nat, expected_proof_generation : Nat]

Content == [require_path_authority_current : BOOLEAN, unknown_behavior : UnknownBehaviors]

\* paths maps each path of the set to the Path Authority generation bound for it.
IsRequest(r) ==
    /\ r.policy \in Policies
    /\ r.policy_generation \in Nat
    /\ DOMAIN r.paths \subseteq Paths
    /\ \A path \in DOMAIN r.paths : r.paths[path] \in Nat

\* What admit compares: the digest of a policy covers neither its identity nor
\* its generation, the one of a request covers all of it, the one of a
\* lifecycle operation the proof identity and the target state.
PolicyPayload(content) == <<"policy", content>>
RequestPayload(request) == <<"request", request>>
LifecyclePayload(request, target) == <<"lifecycle", request, target>>

ASSUME RuntimeAssumption ==
    /\ Actors \subseteq Actor
    /\ Registrations \subseteq SessionRequest
    /\ Contents \subseteq Content
    /\ \A r \in Requests : IsRequest(r)
    /\ Verdicts \subseteq Outcomes
    /\ Targets \subseteq LifecycleTargets
    /\ \A c \in Contents : PolicyPayload(c) \in Payloads
    /\ \A r \in Requests : RequestPayload(r) \in Payloads
    /\ \A r \in Requests, target \in Targets : LifecyclePayload(r, target) \in Payloads

ASSUME EvidenceAssumption ==
    /\ UnstablePaths \subseteq Paths
    /\ \A r \in Requests, t \in 1..MaxTopology : Footprint(r, t) \subseteq Entities
    /\ \A r \in Requests, d \in 1..MaxDomains : Consulted(r, d) \subseteq Domains

ASSUME RuntimeLimitsAssumption ==
    /\ max_policies \in Nat \ {0} /\ max_proofs \in Nat \ {0} /\ max_history \in Nat \ {0}
    /\ MaxGeneration \in Nat \ {0}
    /\ MaxTopology \in Nat \ {0} /\ MaxDomains \in Nat \ {0} /\ MaxPath \in Nat \ {0}
    /\ IsFiniteSet(Policies) /\ IsFiniteSet(Requests)

VARIABLES
    policies,           \* policy -> what is published under it, or None
    proofs,             \* request -> the current revision of its record, or None
    history,            \* request -> retained revisions: generation, lifecycle and paths
    snapshots,          \* request -> generations of the retained snapshots
    by_path, by_domain, by_entity, by_policy, by_boot,  \* the reverse indexes, as
    by_topology_generation,                             \* sets of pairs <<key, request>>
    by_failure_domain_generation,
    evaluations,        \* evaluator -> the evaluate or revalidate call it is in, or None
    refreshes,          \* refresher -> the refresh_currentness call it is in, or None
    fencing,            \* boots whose fence_boot call has yet to demote
    topology,           \* external: PathStructureView::topology_generation
    failure_domains,    \* external: FailureDomainView::generation
    path_authority,     \* external: path -> its generation and whether it is authorized
    fence_done,         \* history: boots whose fence_boot call has returned
    policy_floor,       \* history: policy -> highest published generation demote_policy swept
    applied             \* history: attempts under which a revision was committed

storeVars == <<policies, proofs, history, snapshots>>
indexVars == <<by_path, by_domain, by_entity, by_policy, by_boot,
               by_topology_generation, by_failure_domain_generation>>
callVars == <<evaluations, refreshes, fencing>>
evidenceVars == <<topology, failure_domains, path_authority>>
ghostVars == <<fence_done, policy_floor, applied>>
vars == <<authorityVars, storeVars, indexVars, callVars, evidenceVars, ghostVars>>

-----------------------------------------------------------------------------
Policy == [generation : 1..MaxGeneration, content : Contents]

\* A DiversityProof: outcome, lifecycle, dependencies and provenance.
Revision == [generation : 0..MaxGeneration, outcome : Outcomes,
             lifecycle : LifecycleStates, currentness : Currentness,
             policy_generation : Nat, topology_generation : 0..MaxTopology,
             failure_domain_generation : 0..MaxDomains, epoch : 0..MaxEpoch,
             paths : SUBSET Paths, entities : SUBSET Entities,
             boot : Boots \cup {None}, attempt : Attempts \cup {None}]

\* A default-constructed record: what an evaluation leaves behind when it
\* creates the record and then refuses the expected proof generation.
EmptyRevision == [generation |-> Unset, outcome |-> "MALFORMED", lifecycle |-> "DECLARED",
                  currentness |-> "REVALIDATION_REQUIRED", policy_generation |-> Unset,
                  topology_generation |-> Unset, failure_domain_generation |-> Unset,
                  epoch |-> Unset, paths |-> {}, entities |-> {},
                  boot |-> None, attempt |-> None]

Evaluation == [pc : {"admit", "observe", "judge", "recheck", "commit"},
               request : Requests, authority : Actors, content : Contents \cup {None},
               topology : 0..MaxTopology, domains : 0..MaxDomains,
               outcome : Outcomes \cup {None}, consulted : SUBSET Domains, drift : BOOLEAN]

Refresh == [live : SUBSET Requests, questions : SUBSET (Requests \X Paths),
            unread : SUBSET Policies, published : [Policies -> Nat],
            unasked : SUBSET Requests,
            stale_paths : SUBSET Requests, stale_policies : SUBSET Requests]

ASSUME RuntimeNoneAssumption ==
    /\ None \notin Policy /\ None \notin Revision /\ None \notin Evaluation
    /\ None \notin Refresh /\ None \notin Contents /\ None \notin Outcomes
    /\ None \notin Boots /\ None \notin Attempts

Retained == [generation : 0..MaxGeneration, lifecycle : LifecycleStates, paths : SUBSET Paths]

StoreTypeOK ==
    /\ policies \in [Policies -> Policy \cup {None}]
    /\ proofs \in [Requests -> Revision \cup {None}]
    /\ history \in [Requests -> Seq(Retained)]
    /\ snapshots \in [Requests -> Seq(1..MaxGeneration)]

IndexTypeOK ==
    /\ by_path \subseteq Paths \X Requests
    /\ by_domain \subseteq Domains \X Requests
    /\ by_entity \subseteq Entities \X Requests
    /\ by_policy \subseteq Policies \X Requests
    /\ by_boot \subseteq Boots \X Requests
    /\ by_topology_generation \subseteq (0..MaxTopology) \X Requests
    /\ by_failure_domain_generation \subseteq (0..MaxDomains) \X Requests

CallTypeOK ==
    /\ evaluations \in [Evaluators -> Evaluation \cup {None}]
    /\ refreshes \in [Refreshers -> Refresh \cup {None}]
    /\ fencing \subseteq Boots

EvidenceTypeOK ==
    /\ topology \in 1..MaxTopology
    /\ failure_domains \in 1..MaxDomains
    /\ path_authority \in [Paths -> [generation : 1..MaxPath, authorized : BOOLEAN]]

GhostTypeOK ==
    /\ fence_done \subseteq Boots
    /\ policy_floor \in [Policies -> Nat]
    /\ applied \subseteq Attempts

TypeOK ==
    /\ AuthorityTypeOK
    /\ StoreTypeOK
    /\ IndexTypeOK
    /\ CallTypeOK
    /\ EvidenceTypeOK
    /\ GhostTypeOK

Init ==
    /\ AuthorityInit
    /\ policies = [p \in Policies |-> None]
    /\ proofs = [r \in Requests |-> None]
    /\ history = [r \in Requests |-> <<>>]
    /\ snapshots = [r \in Requests |-> <<>>]
    /\ by_path = {} /\ by_domain = {} /\ by_entity = {} /\ by_policy = {} /\ by_boot = {}
    /\ by_topology_generation = {} /\ by_failure_domain_generation = {}
    /\ evaluations = [t \in Evaluators |-> None]
    /\ refreshes = [t \in Refreshers |-> None]
    /\ fencing = {}
    /\ topology = 1
    /\ failure_domains = 1
    /\ path_authority = [p \in Paths |-> [generation |-> 1, authorized |-> TRUE]]
    /\ fence_done = {}
    /\ policy_floor = [p \in Policies |-> 0]
    /\ applied = {}

-----------------------------------------------------------------------------
(* Helpers shared by the operations.                                       *)

\* is_current of runtime_ops.cpp, on the record stored for r.
IsCurrent(r) == proofs[r] # None /\ proofs[r].lifecycle = "CURRENT"
                                 /\ proofs[r].currentness = "CURRENT"

PolicyGeneration(p) == IF policies[p] = None THEN Unset ELSE policies[p].generation

PublishedPolicies == {p \in Policies : policies[p] # None}
StoredProofs == {r \in Requests : proofs[r] # None}

CanAdvance_PastTheEnd(generation) == TRUE

CanAdvance(generation) == generation # MaxGeneration

Push_OneTooMany(s, x) == IF Len(s) > max_history THEN Append(Tail(s), x) ELSE Append(s, x)

\* Retention: the oldest entry goes once max_history are kept.
Push(s, x) == IF Len(s) >= max_history THEN Append(Tail(s), x) ELSE Append(s, x)

RetainedOf(revision) ==
    [generation |-> revision.generation, lifecycle |-> revision.lifecycle, paths |-> revision.paths]

\* A path binding no longer holds: Path Authority is at another generation of
\* the path, or no longer authorizes the one bound.
BindingStale(r, path) ==
    \/ path_authority[path].generation # r.paths[path]
    \/ ~path_authority[path].authorized

-----------------------------------------------------------------------------
(* publish_policy.  A refusal after admission forgets the attempt again,   *)
(* and a replay writes nothing, so only a publication changes state.       *)
PolicyAccepted(p, content, a) ==
    /\ AdmitStatus(a, PolicyPayload(content)) = "ACCEPTED"
    /\ a.expected_policy_generation = PolicyGeneration(p)
    /\ policies[p] = None => Cardinality(PublishedPolicies) < max_policies
    /\ CanAdvance(PolicyGeneration(p))

PublishPolicy(p, content, a) ==
    /\ PolicyAccepted(p, content, a)
    /\ attempts' = AttemptsWith(a.attempt, PolicyPayload(content))
    /\ policies' = [policies EXCEPT ![p] =
                      [generation |-> PolicyGeneration(p) + 1, content |-> content]]
    /\ UNCHANGED <<epoch, epoch_restored, sessions, fenced, proofs, history, snapshots,
                   indexVars, callVars, evidenceVars, ghostVars>>

-----------------------------------------------------------------------------
(* evaluate, phase 1: admission and the policy snapshot, under the lock.   *)
PolicyMatches(r) ==
    policies[r.policy] # None /\ policies[r.policy].generation = r.policy_generation

Entered(r, a) == AdmitStatus(a, RequestPayload(r)) = "ACCEPTED" /\ PolicyMatches(r)

EnterEvaluation(t, r, a) ==
    /\ Entered(r, a)
    /\ attempts' = AttemptsWith(a.attempt, RequestPayload(r))
    /\ evaluations' = [evaluations EXCEPT ![t] =
                         [pc |-> "observe", request |-> r, authority |-> a,
                          content |-> policies[r.policy].content,
                          topology |-> Unset, domains |-> Unset, outcome |-> None,
                          consulted |-> {}, drift |-> FALSE]]
    /\ UNCHANGED <<epoch, epoch_restored, sessions, fenced, storeVars, indexVars,
                   refreshes, fencing, evidenceVars, ghostVars>>

Evaluate(t, r, a) == evaluations[t] = None /\ EnterEvaluation(t, r, a)

(* revalidate looks the stored request up under one lock and evaluates it  *)
(* under another.  An empty record holds no request that could be admitted.*)
CanRevalidate(r) ==
    /\ proofs[r] # None
    /\ proofs[r].lifecycle \notin TerminalStates
    /\ proofs[r].generation # Unset

Revalidate(t, r, a) ==
    /\ evaluations[t] = None
    /\ CanRevalidate(r)
    /\ evaluations' = [evaluations EXCEPT ![t] =
                         [pc |-> "admit", request |-> r, authority |-> a, content |-> None,
                          topology |-> Unset, domains |-> Unset, outcome |-> None,
                          consulted |-> {}, drift |-> FALSE]]
    /\ UNCHANGED <<authorityVars, storeVars, indexVars, refreshes, fencing, evidenceVars, ghostVars>>

InPhase(t, pc) == evaluations[t] # None /\ evaluations[t].pc = pc

RevalidateEnter(t) ==
    InPhase(t, "admit") /\ EnterEvaluation(t, evaluations[t].request, evaluations[t].authority)

RevalidateRefused(t) ==
    /\ InPhase(t, "admit")
    /\ ~Entered(evaluations[t].request, evaluations[t].authority)
    /\ evaluations' = [evaluations EXCEPT ![t] = None]
    /\ UNCHANGED <<authorityVars, storeVars, indexVars, refreshes, fencing, evidenceVars, ghostVars>>

-----------------------------------------------------------------------------
(* evaluate, phase 2: outside every lock.  The watermarks are read first,  *)
(* then Path Authority and the evidence, then watermarks and Path          *)
(* Authority again.                                                        *)
Observe(t) ==
    /\ InPhase(t, "observe")
    /\ evaluations' = [evaluations EXCEPT ![t].pc = "judge", ![t].topology = topology,
                                          ![t].domains = failure_domains]
    /\ UNCHANGED <<authorityVars, storeVars, indexVars, refreshes, fencing, evidenceVars, ghostVars>>

\* Step 2 of evaluate_diversity: the paths whose binding ends the evaluation.
RefusedPaths(e) ==
    {path \in DOMAIN e.request.paths :
        e.content.require_path_authority_current /\ BindingStale(e.request, path)}

PathRefusal(r, path) ==
    IF path_authority[path].generation # r.paths[path] THEN "STALE_PATH_AUTHORITY" ELSE "UNAUTHORIZED"

\* Step 1, decided by the request, the policy and the limits alone.
EarlyRejections == Verdicts \cap {"MALFORMED", "RESOURCE_LIMIT"}

\* Steps 3 to 6: the structure and classification evidence decide; what is
\* missing counts as the policy says.
EvidenceOutcomes(e) ==
    {IF v = "UNKNOWN_INCOMPLETE_EVIDENCE" THEN UnknownOutcome(e.content.unknown_behavior) ELSE v :
        v \in Verdicts}

\* A diversity proof needs two paths.
JudgedOutcomes(e) ==
    IF Cardinality(DOMAIN e.request.paths) < 2 THEN {"MALFORMED"}
    ELSE IF RefusedPaths(e) = {} THEN EvidenceOutcomes(e)
    ELSE EarlyRejections \cup {PathRefusal(e.request, path) : path \in RefusedPaths(e)}

Judge(t) ==
    /\ InPhase(t, "judge")
    /\ \E outcome \in JudgedOutcomes(evaluations[t]) :
         evaluations' = [evaluations EXCEPT
             ![t].pc = "recheck",
             ![t].outcome = outcome,
             ![t].consulted = IF outcome \in RejectedOutcomes
                                THEN {} ELSE Consulted(evaluations[t].request, failure_domains)]
    /\ UNCHANGED <<authorityVars, storeVars, indexVars, refreshes, fencing, evidenceVars, ghostVars>>

Drifted_DomainsUnchecked(e) ==
    \/ topology # e.topology
    \/ e.outcome \notin RejectedOutcomes /\ RefusedPaths(e) # {}

\* A rejected evaluation lists no path dependency, so Path Authority is not
\* asked again for it.
Drifted(e) ==
    \/ topology # e.topology
    \/ failure_domains # e.domains
    \/ e.outcome \notin RejectedOutcomes /\ RefusedPaths(e) # {}

Recheck(t) ==
    /\ InPhase(t, "recheck")
    /\ evaluations' = [evaluations EXCEPT ![t].pc = "commit", ![t].drift = Drifted(evaluations[t])]
    /\ UNCHANGED <<authorityVars, storeVars, indexVars, refreshes, fencing, evidenceVars, ghostVars>>

-----------------------------------------------------------------------------
(* evaluate, phase 3: verification and commit, under the lock.             *)
EndEvaluation(t) == evaluations' = [evaluations EXCEPT ![t] = None]

StillAuthorized_FenceUnchecked(e) == PolicyMatches(e.request) /\ epoch = e.authority.epoch

StillAuthorized_PolicyUnchecked(e) ==
    epoch = e.authority.epoch /\ e.authority.boot \notin fenced

\* The publication may go on: policy, epoch and boot are still as admitted.
StillAuthorized(e) ==
    /\ PolicyMatches(e.request)
    /\ epoch = e.authority.epoch
    /\ e.authority.boot \notin fenced

HasRoom(r) == proofs[r] # None \/ Cardinality(StoredProofs) < max_proofs

\* The record the commit works on: a new one is empty.
RecordOf(r) == IF proofs[r] = None THEN EmptyRevision ELSE proofs[r]

ExpectationHolds(e) ==
    \/ e.authority.expected_proof_generation = Unset
    \/ e.authority.expected_proof_generation = RecordOf(e.request).generation

\* The revision an evaluation amounts to.  Drift turns the outcome into
\* REVALIDATION_REQUIRED and keeps the dependencies.
RevisionOf(e) ==
    LET outcome == IF e.drift THEN "REVALIDATION_REQUIRED" ELSE e.outcome
        rejected == e.outcome \in RejectedOutcomes
    IN  [generation |-> RecordOf(e.request).generation + 1,
         outcome |-> outcome,
         lifecycle |-> LifecycleForOutcome(outcome),
         currentness |-> CurrentnessForOutcome(outcome),
         policy_generation |-> IF rejected THEN Unset ELSE e.request.policy_generation,
         topology_generation |-> IF rejected THEN Unset ELSE e.topology,
         failure_domain_generation |-> IF rejected THEN Unset ELSE e.domains,
         epoch |-> e.authority.epoch,
         paths |-> IF rejected THEN {} ELSE DOMAIN e.request.paths,
         entities |-> IF rejected THEN {} ELSE Footprint(e.request, e.topology),
         boot |-> e.authority.boot,
         attempt |-> e.authority.attempt]

\* proof_semantic_digest: generation, lifecycle, currentness and provenance are
\* not part of it.
SemanticDigest(v) == <<v.outcome, v.policy_generation, v.topology_generation,
                       v.failure_domain_generation, v.epoch, v.paths, v.entities>>

SameRevision(e) ==
    /\ ~e.drift
    /\ RecordOf(e.request).generation # Unset
    /\ SemanticDigest(RecordOf(e.request)) = SemanticDigest(RevisionOf(e))

\* The policy, the epoch or the boot moved, or the registry is full: the
\* attempt is forgotten and nothing is recorded.
CommitRefused(t) ==
    /\ InPhase(t, "commit")
    /\ ~(StillAuthorized(evaluations[t]) /\ HasRoom(evaluations[t].request))
    /\ ForgetAttempt(evaluations[t].authority.attempt)
    /\ EndEvaluation(t)
    /\ UNCHANGED <<storeVars, indexVars, refreshes, fencing, evidenceVars, ghostVars>>

\* The record is created before the expected proof generation is looked at, so
\* a refused expectation leaves an empty record behind.
CommitConflict(t) ==
    /\ InPhase(t, "commit")
    /\ LET e == evaluations[t] IN
         /\ StillAuthorized(e) /\ HasRoom(e.request)
         /\ ~ExpectationHolds(e) \/ ~CanAdvance(RecordOf(e.request).generation)
         /\ ForgetAttempt(e.authority.attempt)
         /\ proofs' = [proofs EXCEPT ![e.request] = RecordOf(e.request)]
    /\ EndEvaluation(t)
    /\ UNCHANGED <<policies, history, snapshots, indexVars, refreshes, fencing, evidenceVars, ghostVars>>

Committable(t) ==
    /\ InPhase(t, "commit")
    /\ StillAuthorized(evaluations[t])
    /\ HasRoom(evaluations[t].request)
    /\ ExpectationHolds(evaluations[t])
    /\ CanAdvance(RecordOf(evaluations[t].request).generation)

CommitUnchanged_Revives(t) ==
    /\ Committable(t)
    /\ SameRevision(evaluations[t])
    /\ proofs' = [proofs EXCEPT ![evaluations[t].request].lifecycle = RevisionOf(evaluations[t]).lifecycle,
                                ![evaluations[t].request].currentness = RevisionOf(evaluations[t]).currentness]
    /\ EndEvaluation(t)
    /\ UNCHANGED <<authorityVars, policies, history, snapshots, indexVars, refreshes, fencing,
                   evidenceVars, ghostVars>>

CommitUnchanged(t) ==
    /\ Committable(t)
    /\ SameRevision(evaluations[t])
    /\ EndEvaluation(t)
    /\ UNCHANGED <<authorityVars, storeVars, indexVars, refreshes, fencing, evidenceVars, ghostVars>>

IndexRevision(r, v, consulted) ==
    /\ by_path' = by_path \cup ((DOMAIN r.paths) \X {r})
    /\ by_domain' = by_domain \cup (consulted \X {r})
    /\ by_entity' = by_entity \cup (v.entities \X {r})
    /\ by_policy' = by_policy \cup {<<r.policy, r>>}
    /\ by_boot' = by_boot \cup {<<v.boot, r>>}
    /\ by_topology_generation' = by_topology_generation \cup {<<v.topology_generation, r>>}
    /\ by_failure_domain_generation' =
         by_failure_domain_generation \cup {<<v.failure_domain_generation, r>>}

CommitRevision(t) ==
    /\ Committable(t)
    /\ ~SameRevision(evaluations[t])
    /\ LET e == evaluations[t]
           r == e.request
           old == RecordOf(r)
       IN  /\ proofs' = [proofs EXCEPT ![r] = RevisionOf(e)]
           /\ history' = [history EXCEPT ![r] =
                            IF old.generation = Unset THEN @ ELSE Push(@, RetainedOf(old))]
           /\ snapshots' = [snapshots EXCEPT ![r] = Push(@, old.generation + 1)]
           /\ IndexRevision(r, RevisionOf(e), e.consulted)
           /\ applied' = applied \cup {e.authority.attempt}
    /\ EndEvaluation(t)
    /\ UNCHANGED <<authorityVars, policies, refreshes, fencing, evidenceVars, fence_done, policy_floor>>

-----------------------------------------------------------------------------
(* apply_lifecycle, for revoke, retire, mark_historical and supersede.  A  *)
(* replay is answered from the record only while the proof is still in the *)
(* target state; otherwise it goes on like a new attempt.                  *)
LifecycleStatus(r, target, a) == AdmitStatus(a, LifecyclePayload(r, target))

LifecycleApplied(r, target, a) ==
    /\ LifecycleStatus(r, target, a) \in {"ACCEPTED", "IDEMPOTENT"}
    /\ proofs[r] # None
    /\ proofs[r].lifecycle # target
    /\ TransitionAllowed(proofs[r].lifecycle, target)
    /\ attempts' = AttemptsWith(a.attempt, LifecyclePayload(r, target))
    /\ history' = [history EXCEPT ![r] = Push(@, RetainedOf(proofs[r]))]
    /\ proofs' = [proofs EXCEPT ![r].lifecycle = target, ![r].currentness = "REVALIDATION_REQUIRED"]
    /\ UNCHANGED <<epoch, epoch_restored, sessions, fenced, policies, snapshots,
                   indexVars, callVars, evidenceVars, ghostVars>>

LifecycleUnchanged(r, target, a) ==
    /\ LifecycleStatus(r, target, a) = "ACCEPTED"
    /\ proofs[r] # None
    /\ proofs[r].lifecycle = target
    /\ attempts' = AttemptsWith(a.attempt, LifecyclePayload(r, target))
    /\ UNCHANGED <<epoch, epoch_restored, sessions, fenced, storeVars,
                   indexVars, callVars, evidenceVars, ghostVars>>

\* A replay whose transition the table refuses by now forgets the attempt.
LifecycleForgotten(r, target, a) ==
    /\ LifecycleStatus(r, target, a) = "IDEMPOTENT"
    /\ proofs[r] # None => ~TransitionAllowed(proofs[r].lifecycle, target)
    /\ ForgetAttempt(a.attempt)
    /\ UNCHANGED <<storeVars, indexVars, callVars, evidenceVars, ghostVars>>

-----------------------------------------------------------------------------
(* Invalidation.  Candidates come from a reverse index; only the current   *)
(* ones among them are demoted.                                            *)
Demoted(R, why) ==
    [r \in Requests |-> IF r \in R /\ IsCurrent(r)
                         THEN [proofs[r] EXCEPT !.lifecycle = "REVALIDATION_REQUIRED",
                                                !.currentness = why]
                         ELSE proofs[r]]

Indexed(index, keys) == {r \in Requests : \E k \in keys : <<k, r>> \in index}

DemoteTopologyEntities(E, generation) ==
    /\ proofs' = Demoted({r \in Indexed(by_entity, E) :
                            proofs[r].topology_generation < generation}, "STALE_TOPOLOGY")
    /\ UNCHANGED <<authorityVars, policies, history, snapshots, indexVars, callVars,
                   evidenceVars, ghostVars>>

\* The buckets below the generation are swept whole and erased.
Below(index, generation) == {entry \in index : entry[1] < generation}

DemoteTopologyGeneration(generation) ==
    /\ proofs' = Demoted({entry[2] : entry \in Below(by_topology_generation, generation)},
                         "STALE_TOPOLOGY")
    /\ by_topology_generation' =
         by_topology_generation \ Below(by_topology_generation, generation)
    /\ UNCHANGED <<authorityVars, policies, history, snapshots, by_path, by_domain, by_entity,
                   by_policy, by_boot, by_failure_domain_generation, callVars,
                   evidenceVars, ghostVars>>

DemoteFailureDomainGeneration(generation) ==
    /\ proofs' = Demoted({entry[2] : entry \in Below(by_failure_domain_generation, generation)},
                         "STALE_FAILURE_DOMAIN")
    /\ by_failure_domain_generation' =
         by_failure_domain_generation \ Below(by_failure_domain_generation, generation)
    /\ UNCHANGED <<authorityVars, policies, history, snapshots, by_path, by_domain, by_entity,
                   by_policy, by_boot, by_topology_generation, callVars,
                   evidenceVars, ghostVars>>

DemoteDomains(D, generation) ==
    /\ proofs' = Demoted({r \in Indexed(by_domain, D) :
                            proofs[r].failure_domain_generation < generation},
                         "STALE_FAILURE_DOMAIN")
    /\ UNCHANGED <<authorityVars, policies, history, snapshots, indexVars, callVars,
                   evidenceVars, ghostVars>>

DemotePath(path) ==
    /\ proofs' = Demoted(Indexed(by_path, {path}), "STALE_PATH_AUTHORITY")
    /\ UNCHANGED <<authorityVars, policies, history, snapshots, indexVars, callVars,
                   evidenceVars, ghostVars>>

\* Any generation is swept; the floor counts those published by now.
Swept(p, generation) ==
    IF generation <= PolicyGeneration(p) THEN generation ELSE PolicyGeneration(p)

DemotePolicy(p, generation) ==
    /\ proofs' = Demoted({r \in Indexed(by_policy, {p}) :
                            proofs[r].policy_generation < generation}, "STALE_POLICY")
    /\ policy_floor' = [policy_floor EXCEPT ![p] =
                           IF @ < Swept(p, generation) THEN Swept(p, generation) ELSE @]
    /\ UNCHANGED <<authorityVars, policies, history, snapshots, indexVars, callVars,
                   evidenceVars, fence_done, applied>>

BootDemoted(b) == Demoted(Indexed(by_boot, {b}), "FENCED_PUBLISHER")

DemoteBoot(b) ==
    /\ proofs' = BootDemoted(b)
    /\ UNCHANGED <<authorityVars, policies, history, snapshots, indexVars, callVars,
                   evidenceVars, ghostVars>>

(* fence_boot fences in the publication authority, then demotes.           *)
FenceBootBegin(b) ==
    /\ FenceBoot(b)
    /\ fencing' = fencing \cup {b}
    /\ UNCHANGED <<storeVars, indexVars, evaluations, refreshes, evidenceVars, ghostVars>>

FenceBootDemote(b) ==
    /\ b \in fencing
    /\ proofs' = BootDemoted(b)
    /\ fencing' = fencing \ {b}
    /\ fence_done' = fence_done \cup {b}
    /\ UNCHANGED <<authorityVars, policies, history, snapshots, indexVars, evaluations,
                   refreshes, evidenceVars, policy_floor, applied>>

-----------------------------------------------------------------------------
(* refresh_currentness.  Phase 1 collects the questions under the lock,    *)
(* phase 2 asks them one at a time with no lock held across them, phase 3  *)
(* applies the answers under the lock.                                     *)
RefreshBegin(t) ==
    /\ refreshes[t] = None
    /\ LET live == {r \in Requests : IsCurrent(r)} IN
         refreshes' = [refreshes EXCEPT ![t] =
             [live |-> live,
              questions |-> {q \in live \X Paths : q[2] \in proofs[q[1]].paths},
              unread |-> {r.policy : r \in live},
              published |-> [p \in Policies |-> Unset],
              unasked |-> live,
              stale_paths |-> {}, stale_policies |-> {}]]
    /\ UNCHANGED <<authorityVars, storeVars, indexVars, evaluations, fencing, evidenceVars, ghostVars>>

InRefresh(t) == refreshes[t] # None

RefreshAskPath_WithdrawalUnseen(t) ==
    /\ InRefresh(t)
    /\ \E q \in refreshes[t].questions :
         refreshes' = [refreshes EXCEPT
             ![t].questions = @ \ {q},
             ![t].stale_paths =
                 IF path_authority[q[2]].generation # q[1].paths[q[2]] THEN @ \cup {q[1]} ELSE @]
    /\ UNCHANGED <<authorityVars, storeVars, indexVars, evaluations, fencing, evidenceVars, ghostVars>>

RefreshAskPath(t) ==
    /\ InRefresh(t)
    /\ \E q \in refreshes[t].questions :
         refreshes' = [refreshes EXCEPT
             ![t].questions = @ \ {q},
             ![t].stale_paths = IF BindingStale(q[1], q[2]) THEN @ \cup {q[1]} ELSE @]
    /\ UNCHANGED <<authorityVars, storeVars, indexVars, evaluations, fencing, evidenceVars, ghostVars>>

RefreshReadPolicy(t) ==
    /\ InRefresh(t) /\ refreshes[t].questions = {}
    /\ \E p \in refreshes[t].unread :
         refreshes' = [refreshes EXCEPT ![t].unread = @ \ {p},
                                        ![t].published[p] = PolicyGeneration(p)]
    /\ UNCHANGED <<authorityVars, storeVars, indexVars, evaluations, fencing, evidenceVars, ghostVars>>

RefreshReadProof(t) ==
    /\ InRefresh(t) /\ refreshes[t].questions = {}
    /\ \E r \in refreshes[t].unasked :
         /\ r.policy \notin refreshes[t].unread
         /\ refreshes' = [refreshes EXCEPT
               ![t].unasked = @ \ {r},
               ![t].stale_policies =
                   IF proofs[r].policy_generation # refreshes[t].published[r.policy]
                     THEN @ \cup {r} ELSE @]
    /\ UNCHANGED <<authorityVars, storeVars, indexVars, evaluations, fencing, evidenceVars, ghostVars>>

RefreshApply(t) ==
    /\ InRefresh(t) /\ refreshes[t].questions = {} /\ refreshes[t].unasked = {}
    /\ LET f == refreshes[t] IN
         proofs' = [r \in Requests |->
             IF r \in f.live \cap f.stale_policies THEN Demoted({r}, "STALE_POLICY")[r]
             ELSE IF r \in f.live \cap f.stale_paths THEN Demoted({r}, "STALE_PATH_AUTHORITY")[r]
             ELSE proofs[r]]
    /\ refreshes' = [refreshes EXCEPT ![t] = None]
    /\ UNCHANGED <<authorityVars, policies, history, snapshots, indexVars, evaluations, fencing,
                   evidenceVars, ghostVars>>

-----------------------------------------------------------------------------
(* The evidence views, as evidence.cpp keeps them in memory: they move on  *)
(* their own, only forward, and a path whose authorization is withdrawn    *)
(* gets it back only at a new generation.                                  *)
AdvanceTopology == topology < MaxTopology /\ topology' = topology + 1
                     /\ UNCHANGED <<failure_domains, path_authority>>
AdvanceFailureDomains == failure_domains < MaxDomains /\ failure_domains' = failure_domains + 1
                           /\ UNCHANGED <<topology, path_authority>>
AdvancePath(path) ==
    /\ path_authority[path].generation < MaxPath
    /\ path_authority' = [path_authority EXCEPT ![path] =
                            [generation |-> @.generation + 1, authorized |-> TRUE]]
    /\ UNCHANGED <<topology, failure_domains>>
WithdrawPath(path) ==
    /\ path_authority' = [path_authority EXCEPT ![path].authorized = FALSE]
    /\ UNCHANGED <<topology, failure_domains>>

EvidenceMoves ==
    /\ \/ AdvanceTopology
       \/ AdvanceFailureDomains
       \/ \E path \in UnstablePaths : AdvancePath(path) \/ WithdrawPath(path)
    /\ UNCHANGED <<authorityVars, storeVars, indexVars, callVars, ghostVars>>

\* register_publisher hands the session to the publication authority; the
\* embedding program restores the epoch there.
AuthorityMoves ==
    /\ \/ \E e \in 1..MaxEpoch : RestoreEpoch(e)
       \/ \E s \in Registrations : RegisterPublisher(s) \/ RegisterPublisherLimitExceeded(s)
    /\ UNCHANGED <<storeVars, indexVars, callVars, evidenceVars, ghostVars>>

EvaluationStep(t) ==
    \/ RevalidateEnter(t) \/ RevalidateRefused(t)
    \/ Observe(t) \/ Judge(t) \/ Recheck(t)
    \/ CommitRefused(t) \/ CommitConflict(t) \/ CommitUnchanged(t) \/ CommitRevision(t)

RefreshStep(t) ==
    RefreshAskPath(t) \/ RefreshReadPolicy(t) \/ RefreshReadProof(t) \/ RefreshApply(t)

LifecycleStep(r, target, a) ==
    LifecycleApplied(r, target, a) \/ LifecycleUnchanged(r, target, a) \/ LifecycleForgotten(r, target, a)

InvalidationStep ==
    \/ \E entity \in Entities, g \in 1..MaxTopology : DemoteTopologyEntities({entity}, g)
    \/ \E g \in 1..MaxTopology : DemoteTopologyGeneration(g)
    \/ \E g \in 1..MaxDomains : DemoteFailureDomainGeneration(g)
    \/ \E domain \in Domains, g \in 1..MaxDomains : DemoteDomains({domain}, g)
    \/ \E path \in Paths : DemotePath(path)
    \/ \E p \in Policies, g \in 1..MaxGeneration : DemotePolicy(p, g)

Next ==
    \/ AuthorityMoves
    \/ EvidenceMoves
    \/ \E p \in Policies, content \in Contents, a \in Actors : PublishPolicy(p, content, a)
    \/ \E t \in Evaluators, r \in Requests, a \in Actors : Evaluate(t, r, a) \/ Revalidate(t, r, a)
    \/ \E t \in Evaluators : EvaluationStep(t)
    \/ \E r \in Requests, target \in Targets, a \in Actors : LifecycleStep(r, target, a)
    \/ InvalidationStep
    \/ \E b \in Boots : FenceBootBegin(b) \/ FenceBootDemote(b) \/ DemoteBoot(b)
    \/ \E t \in Refreshers : RefreshBegin(t) \/ RefreshStep(t)

Spec == Init /\ [][Next]_vars

-----------------------------------------------------------------------------
(* Properties.                                                             *)

\* A proof is in each reverse index but that of the domains, under every key it
\* depends on.
IndexedButDomains(r) ==
    /\ (DOMAIN r.paths) \X {r} \subseteq by_path
    /\ Footprint(r, proofs[r].topology_generation) \X {r} \subseteq by_entity
    /\ <<r.policy, r>> \in by_policy
    /\ <<proofs[r].boot, r>> \in by_boot
    /\ <<proofs[r].topology_generation, r>> \in by_topology_generation
    /\ <<proofs[r].failure_domain_generation, r>> \in by_failure_domain_generation

\* No current proof can be missed by an invalidation: each one is in every
\* reverse index under every key it depends on.  The domains are those of the
\* classification generation the revision records, although the evaluation
\* read them some time after it read that generation.
IndexComplete ==
    \A r \in Requests : IsCurrent(r) =>
        /\ IndexedButDomains(r)
        /\ Consulted(r, proofs[r].failure_domain_generation) \X {r} \subseteq by_domain

\* Once fence_boot has returned, nothing the boot published is current, and
\* nothing it still has in evaluation becomes current later.
FenceSweepHolds ==
    \A r \in Requests : IsCurrent(r) => proofs[r].boot \notin fence_done

\* Once demote_policy has swept a published generation, no proof of an older
\* generation of the policy is current, however late its evaluation commits.
PolicySweepHolds ==
    \A r \in Requests : IsCurrent(r) => proofs[r].policy_generation >= policy_floor[r.policy]

\* The calls of evaluate past admission.
Running == {t \in Evaluators : evaluations[t] # None /\ evaluations[t].pc # "admit"}

\* An attempt commits at most one revision: an evaluation past admission is the
\* only one under its attempt, and no revision was committed under it before.
EvaluationAppliedOnce ==
    \A t \in Running :
        /\ evaluations[t].authority.attempt \notin applied
        /\ \A u \in Running :
             evaluations[u].authority.attempt = evaluations[t].authority.attempt => u = t

\* Retained revisions and snapshots are in the order they were committed, end
\* where the current revision begins, and never outgrow max_history.
RevisionsOrdered ==
    \A r \in StoredProofs :
        /\ Len(history[r]) <= max_history /\ Len(snapshots[r]) <= max_history
        /\ \A i, j \in DOMAIN history[r] : i <= j =>
             history[r][i].generation <= history[r][j].generation
        /\ \A i \in DOMAIN history[r] : history[r][i].generation <= proofs[r].generation
        /\ \A i \in DOMAIN snapshots[r] :
             snapshots[r][i] = proofs[r].generation - (Len(snapshots[r]) - i)

\* A revision that was demoted or moved by an operator is never current again:
\* only a later revision of the same proof is.
RevisionNeverRevived ==
    [][\A r \in Requests : proofs[r] # None =>
         /\ proofs'[r] # None
         /\ proofs'[r].generation >= proofs[r].generation
         /\ (~IsCurrent(r) /\ IsCurrent(r)') => proofs'[r].generation > proofs[r].generation]_vars

-----------------------------------------------------------------------------
(* refresh_currentness as the repair of late commits: fairness.            *)

\* A caller that is in a method keeps running, and the embedding program calls
\* refresh_currentness again and again.
Fairness ==
    /\ \A t \in Evaluators : WF_vars(EvaluationStep(t))
    /\ \A t \in Refreshers : WF_vars(RefreshBegin(t)) /\ WF_vars(RefreshStep(t))

FairSpec == Spec /\ Fairness

\* The proof rests on a path binding or a policy generation that has moved.
Outdated(r) ==
    \/ proofs[r].policy_generation # PolicyGeneration(r.policy)
    \/ \E path \in proofs[r].paths : BindingStale(r, path)

\* An evaluation may commit a proof as current after Path Authority or the
\* policy has moved, and a refresh may act on old answers; a proof that no longer
\* holds still does not stay current while refresh_currentness is called.
OutdatedProofsDemoted ==
    \A r \in Requests : []<>~(IsCurrent(r) /\ Outdated(r))

-----------------------------------------------------------------------------
(* What the documentation says of the program and the code does not keep.  *)

\* README, section 9: "A late result can never become current."
LateResultNeverCurrent ==
    [][\A t \in Evaluators, r \in Requests :
         CommitRevision(t) /\ evaluations[t].request = r /\ IsCurrent(r)' =>
            /\ proofs'[r].topology_generation = topology
            /\ proofs'[r].failure_domain_generation = failure_domains]_vars
=============================================================================
