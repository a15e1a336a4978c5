-------------------- MODULE DiversityRuntimeSafetyProofs --------------------
(***************************************************************************)
(* The safety of invalidation, fencing and attempts, for every number of   *)
(* callers, requests, boots and generations.                               *)
(***************************************************************************)
EXTENDS DiversityRuntimeProofs

-----------------------------------------------------------------------------
(* How a proof becomes current: only by the commit of a new revision.      *)

\* What every step except a commit does to the proof of r.
NotRevived(r) ==
    /\ IsCurrent(r)' => proofs'[r] = proofs[r] /\ IsCurrent(r)
    /\ proofs[r] # None => proofs'[r] # None /\ proofs'[r].generation = proofs[r].generation

LEMMA OnlyCommitsRevive ==
  ASSUME TypeInv, [Next]_vars, ~\E t \in Evaluators : CommitRevision(t), NEW r \in Requests
  PROVE  NotRevived(r)
<1>0. StoreTypeOK
  BY DEF TypeInv, RuntimeTypeOK
<1>1. CASE UNCHANGED proofs
  BY <1>1 DEF NotRevived, IsCurrent
<1>2. CASE OnlyDemoted
  BY <1>0, <1>2, DemotionKeepsCurrent DEF NotRevived
<1>3. ASSUME NEW t \in Evaluators, CommitConflict(t) PROVE NotRevived(r)
  <2>1. proofs' = [proofs EXCEPT ![evaluations[t].request] = RecordOf(evaluations[t].request)]
    BY <1>3 DEF CommitConflict
  <2>2. CASE proofs'[r] = proofs[r]
    BY <2>2 DEF NotRevived, IsCurrent
  <2>3. CASE proofs'[r] # proofs[r]
    <3>1. proofs[r] = None /\ proofs'[r] = EmptyRevision
      BY <1>0, <2>1, <2>3 DEF StoreTypeOK, RecordOf
    <3> QED
      BY <3>1 DEF NotRevived, IsCurrent, EmptyRevision
  <2> QED
    BY <2>2, <2>3
<1>4. ASSUME NEW q \in Requests, NEW target \in Targets, NEW a \in Actors,
             LifecycleStep(q, target, a), ~UNCHANGED proofs
      PROVE  NotRevived(r)
  <2>1. LifecycleApplied(q, target, a)
    BY <1>4 DEF LifecycleStep, LifecycleUnchanged, LifecycleForgotten, storeVars
  <2>2. CASE r # q
    BY <1>0, <2>1, <2>2 DEF LifecycleApplied, StoreTypeOK, NotRevived, IsCurrent
  <2>3. CASE r = q
    <3>1. proofs[r] \in Revision
      BY <1>0, <2>1, <2>3 DEF LifecycleApplied, StoreTypeOK
    <3>2. target \in LifecycleStates /\ "REVALIDATION_REQUIRED" \in Currentness
      BY RuntimeAssumption DEF LifecycleTargets, LifecycleStates, Currentness
    <3>3. proofs'[r] = [proofs[r] EXCEPT !.lifecycle = target, !.currentness = "REVALIDATION_REQUIRED"]
      BY <1>0, <2>1, <2>3 DEF LifecycleApplied, StoreTypeOK
    <3>4. /\ proofs'[r] \in Revision
          /\ proofs'[r].currentness = "REVALIDATION_REQUIRED"
          /\ proofs'[r].generation = proofs[r].generation
      BY <3>1, <3>2, <3>3 DEF Revision
    <3>5. proofs'[r] # None
      BY <3>4, RuntimeNoneAssumption
    <3> QED
      BY <3>4, <3>5 DEF NotRevived, IsCurrent
  <2> QED
    BY <2>2, <2>3
<1>5. CASE InvalidationStep \/ \E b \in Boots : FenceBootDemote(b) \/ DemoteBoot(b)
  BY <1>0, <1>2, <1>5, InvalidationDemotes
<1>6. ASSUME NEW t \in Refreshers, RefreshBegin(t) \/ RefreshStep(t) PROVE NotRevived(r)
  <2>1. CASE RefreshApply(t)
    BY <1>0, <1>2, <2>1, RefreshApplyDemotes
  <2>2. CASE ~RefreshApply(t)
    BY <1>1, <1>6, <2>2 DEF RefreshBegin, RefreshStep, RefreshAskPath, RefreshReadPolicy,
       RefreshReadProof, storeVars
  <2> QED
    BY <2>1, <2>2
<1>7. CASE AuthorityMoves \/ EvidenceMoves
  BY <1>1, <1>7 DEF AuthorityMoves, EvidenceMoves, storeVars
<1>8. ASSUME NEW p \in Policies, NEW content \in Contents, NEW a \in Actors,
             PublishPolicy(p, content, a)
      PROVE  NotRevived(r)
  BY <1>1, <1>8 DEF PublishPolicy
<1>9. ASSUME NEW t \in Evaluators, NEW q \in Requests, NEW a \in Actors,
             Evaluate(t, q, a) \/ Revalidate(t, q, a)
      PROVE  NotRevived(r)
  BY <1>1, <1>9 DEF Evaluate, EnterEvaluation, Revalidate, storeVars
<1>10. ASSUME NEW t \in Evaluators, EvaluationStep(t) PROVE NotRevived(r)
  <2>1. CASE CommitConflict(t)
    BY <1>3, <2>1
  <2>2. CASE ~CommitConflict(t)
    BY <1>1, <1>10, <2>2 DEF EvaluationStep, RevalidateEnter, EnterEvaluation, RevalidateRefused,
       Observe, Judge, Recheck, CommitRefused, CommitUnchanged, storeVars
  <2> QED
    BY <2>1, <2>2
<1>11. ASSUME NEW b \in Boots, FenceBootBegin(b) PROVE NotRevived(r)
  BY <1>1, <1>11 DEF FenceBootBegin, storeVars
<1>12. CASE UNCHANGED vars
  BY <1>1, <1>12 DEF vars, storeVars
<1> QED
  BY <1>1, <1>4, <1>5, <1>6, <1>7, <1>8, <1>9, <1>10, <1>11, <1>12 DEF Next

\* What a commit does to the proof of its request, and when that is current.
LEMMA CommitWrites ==
  ASSUME TypeInv, NEW t \in Evaluators, CommitRevision(t), NEW r \in Requests,
         evaluations[t].request = r
  PROVE  LET e == evaluations[t]
         IN  /\ e \in Evaluation /\ IsRequest(r) /\ e.authority \in Actors
             /\ e.authority.boot \in Boots /\ e.authority.attempt \in Attempts
             /\ e.topology \in 1..MaxTopology /\ e.domains \in 1..MaxDomains
             /\ proofs' = [proofs EXCEPT ![r] = RevisionOf(e)]
             /\ RevisionOf(e) \in Revision
             /\ RevisionOf(e).generation = RecordOf(r).generation + 1
             /\ RecordOf(r).generation \in Nat
             /\ RevisionOf(e).boot = e.authority.boot
             /\ IsCurrent(r)' =>
                  /\ e.consulted = Consulted(r, e.domains)
                  /\ RevisionOf(e).policy_generation = r.policy_generation
                  /\ RevisionOf(e).topology_generation = e.topology
                  /\ RevisionOf(e).failure_domain_generation = e.domains
                  /\ RevisionOf(e).entities = Footprint(r, e.topology)
<1> DEFINE e == evaluations[t]
<1>1. /\ e # None /\ e.pc = "commit" /\ PhaseConsistent(e)
      /\ e \in Evaluation /\ IsRequest(r) /\ e.authority \in Actors
      /\ e.authority.boot \in Boots /\ e.authority.attempt \in Attempts
  BY EvaluationParts DEF CommitRevision, Committable, InPhase, TypeInv, RuntimeTypeOK, EvaluationsConsistent
<1>2. proofs' = [proofs EXCEPT ![r] = RevisionOf(e)] /\ RevisionOf(e) \in Revision
  BY RevisionType DEF CommitRevision
<1>3. RevisionOf(e).generation = RecordOf(r).generation + 1 /\ RevisionOf(e).boot = e.authority.boot
  BY DEF RevisionOf
<1>4. RecordOf(r).generation \in Nat
  BY <1>1, RecordType, RuntimeLimitsAssumption DEF Revision, TypeInv, RuntimeTypeOK
<1>5. e.topology \in 1..MaxTopology /\ e.domains \in 1..MaxDomains
  <2>1. topology \in 1..MaxTopology /\ failure_domains \in 1..MaxDomains
    BY DEF TypeInv, RuntimeTypeOK, EvidenceTypeOK
  <2> QED
    BY <1>1, <2>1, RuntimeLimitsAssumption DEF PhaseConsistent
<1>6. ASSUME IsCurrent(r)' PROVE ~e.drift /\ e.outcome \notin RejectedOutcomes
  <2>1. proofs'[r] = RevisionOf(e)
    BY <1>1, <1>2 DEF TypeInv, RuntimeTypeOK, StoreTypeOK
  <2>2. proofs'[r].currentness = "CURRENT"
    BY <1>6 DEF IsCurrent
  <2>3. RevisionOf(e).currentness =
          CurrentnessForOutcome(IF e.drift THEN "REVALIDATION_REQUIRED" ELSE e.outcome)
    BY DEF RevisionOf
  <2>4. CurrentnessForOutcome(IF e.drift THEN "REVALIDATION_REQUIRED" ELSE e.outcome) = "CURRENT"
    BY <2>1, <2>2, <2>3
  <2> QED
    BY <2>4 DEF CurrentnessForOutcome, ConclusiveOutcomes, RejectedOutcomes
<1>7. ASSUME IsCurrent(r)'
      PROVE  /\ e.consulted = Consulted(r, e.domains)
             /\ RevisionOf(e).policy_generation = r.policy_generation
             /\ RevisionOf(e).topology_generation = e.topology
             /\ RevisionOf(e).failure_domain_generation = e.domains
             /\ RevisionOf(e).entities = Footprint(r, e.topology)
  BY <1>1, <1>6, <1>7 DEF PhaseConsistent, RevisionOf
<1> QED
  BY <1>1, <1>2, <1>3, <1>4, <1>5, <1>7

-----------------------------------------------------------------------------
(* Sweeps.  A sweep finds what it must demote through a reverse index, so  *)
(* what it promises rests on the indexes being complete; what commits      *)
(* after it rests on the checks of phase 3.                                *)

\* No step but a commit removes an index entry a current proof needs: the only
\* erasures are of the generation buckets a sweep has just demoted.
LEMMA IndexesKept ==
  ASSUME TypeInv, [Next]_vars, ~\E t \in Evaluators : CommitRevision(t), NEW r \in Requests
  PROVE  /\ UNCHANGED <<by_path, by_domain, by_entity, by_policy, by_boot>>
         /\ \A g \in 0..MaxTopology : IsCurrent(r)' /\ <<g, r>> \in by_topology_generation =>
              <<g, r>> \in by_topology_generation'
         /\ \A g \in 0..MaxDomains : IsCurrent(r)' /\ <<g, r>> \in by_failure_domain_generation =>
              <<g, r>> \in by_failure_domain_generation'
<1> DEFINE Kept ==
      /\ UNCHANGED <<by_path, by_domain, by_entity, by_policy, by_boot>>
      /\ \A g \in 0..MaxTopology : IsCurrent(r)' /\ <<g, r>> \in by_topology_generation =>
           <<g, r>> \in by_topology_generation'
      /\ \A g \in 0..MaxDomains : IsCurrent(r)' /\ <<g, r>> \in by_failure_domain_generation =>
           <<g, r>> \in by_failure_domain_generation'
<1>0. StoreTypeOK
  BY DEF TypeInv, RuntimeTypeOK
<1>1. CASE UNCHANGED indexVars
  BY <1>1 DEF indexVars
<1>2. ASSUME NEW g \in 1..MaxTopology, DemoteTopologyGeneration(g) PROVE Kept
  <2> DEFINE R == {entry[2] : entry \in Below(by_topology_generation, g)}
  <2>1. \A q \in Requests \cap R : ~IsCurrent(q)'
    BY <1>0, <1>2, DemotedOnlyDemotes DEF DemoteTopologyGeneration, Currentness
  <2>2. ASSUME NEW h \in 0..MaxTopology, <<h, r>> \in by_topology_generation,
               <<h, r>> \notin by_topology_generation'
        PROVE  ~IsCurrent(r)'
    <3>1. <<h, r>> \in Below(by_topology_generation, g)
      BY <1>2, <2>2 DEF DemoteTopologyGeneration
    <3>2. r \in R
      BY <3>1
    <3> QED
      BY <2>1, <3>2
  <2> QED
    BY <1>2, <2>2 DEF DemoteTopologyGeneration
<1>3. ASSUME NEW g \in 1..MaxDomains, DemoteFailureDomainGeneration(g) PROVE Kept
  <2> DEFINE R == {entry[2] : entry \in Below(by_failure_domain_generation, g)}
  <2>1. \A q \in Requests \cap R : ~IsCurrent(q)'
    BY <1>0, <1>3, DemotedOnlyDemotes DEF DemoteFailureDomainGeneration, Currentness
  <2>2. ASSUME NEW h \in 0..MaxDomains, <<h, r>> \in by_failure_domain_generation,
               <<h, r>> \notin by_failure_domain_generation'
        PROVE  ~IsCurrent(r)'
    <3>1. <<h, r>> \in Below(by_failure_domain_generation, g)
      BY <1>3, <2>2 DEF DemoteFailureDomainGeneration
    <3>2. r \in R
      BY <3>1
    <3> QED
      BY <2>1, <3>2
  <2> QED
    BY <1>3, <2>2 DEF DemoteFailureDomainGeneration
<1>4. CASE InvalidationStep
  <2>1. CASE \E g \in 1..MaxTopology : DemoteTopologyGeneration(g)
    BY <1>2, <2>1
  <2>2. CASE \E g \in 1..MaxDomains : DemoteFailureDomainGeneration(g)
    BY <1>3, <2>2
  <2>3. CASE ~(\E g \in 1..MaxTopology : DemoteTopologyGeneration(g))
             /\ ~(\E g \in 1..MaxDomains : DemoteFailureDomainGeneration(g))
    BY <1>1, <1>4, <2>3 DEF InvalidationStep, DemoteTopologyEntities, DemoteDomains, DemotePath, DemotePolicy
  <2> QED
    BY <2>1, <2>2, <2>3
<1>5. ASSUME NEW t \in Evaluators, EvaluationStep(t) PROVE Kept
  BY <1>1, <1>5 DEF EvaluationStep, RevalidateEnter, EnterEvaluation, RevalidateRefused,
     Observe, Judge, Recheck, CommitRefused, CommitConflict, CommitUnchanged
<1>6. ASSUME NEW t \in Refreshers, RefreshBegin(t) \/ RefreshStep(t) PROVE Kept
  BY <1>1, <1>6 DEF RefreshBegin, RefreshStep, RefreshAskPath, RefreshReadPolicy, RefreshReadProof, RefreshApply
<1>7. ASSUME NEW b \in Boots, FenceBootBegin(b) \/ FenceBootDemote(b) \/ DemoteBoot(b) PROVE Kept
  BY <1>1, <1>7 DEF FenceBootBegin, FenceBootDemote, DemoteBoot
<1>8. ASSUME NEW q \in Requests, NEW target \in Targets, NEW a \in Actors, LifecycleStep(q, target, a)
      PROVE  Kept
  BY <1>1, <1>8 DEF LifecycleStep, LifecycleApplied, LifecycleUnchanged, LifecycleForgotten
<1>9. ASSUME NEW t \in Evaluators, NEW q \in Requests, NEW a \in Actors,
             Evaluate(t, q, a) \/ Revalidate(t, q, a)
      PROVE  Kept
  BY <1>1, <1>9 DEF Evaluate, EnterEvaluation, Revalidate
<1>10. ASSUME NEW p \in Policies, NEW content \in Contents, NEW a \in Actors, PublishPolicy(p, content, a)
      PROVE  Kept
  BY <1>1, <1>10 DEF PublishPolicy
<1>11. CASE AuthorityMoves \/ EvidenceMoves \/ UNCHANGED vars
  BY <1>1, <1>11 DEF AuthorityMoves, EvidenceMoves, vars
<1> QED
  BY <1>4, <1>5, <1>6, <1>7, <1>8, <1>9, <1>10, <1>11 DEF Next

\* The part of IndexComplete that is about r.
ProofIndexed(r) ==
    /\ IndexedButDomains(r)
    /\ Consulted(r, proofs[r].failure_domain_generation) \X {r} \subseteq by_domain

LEMMA IndexCompleteParts == IndexComplete <=> \A r \in Requests : IsCurrent(r) => ProofIndexed(r)
  BY DEF IndexComplete, ProofIndexed

\* A commit extends the indexes by what its own revision needs and keeps all
\* that other proofs need.
LEMMA CommitIndexes ==
  ASSUME TypeInv, IndexComplete, NEW t \in Evaluators, CommitRevision(t),
         NEW r \in Requests, IsCurrent(r)'
  PROVE  ProofIndexed(r)'
<1> DEFINE e == evaluations[t]
<1>1. CASE e.request # r
  <2>1. e.request \in Requests
    BY EvaluationParts DEF CommitRevision, Committable, InPhase, TypeInv, RuntimeTypeOK
  <2>2. proofs'[r] = proofs[r]
    BY <1>1, <2>1 DEF CommitRevision, TypeInv, RuntimeTypeOK, StoreTypeOK
  <2>3. IsCurrent(r)
    BY <2>2 DEF IsCurrent
  <2>4. ProofIndexed(r)
    BY <2>3, IndexCompleteParts
  <2> QED
    BY <2>2, <2>4 DEF ProofIndexed, IndexedButDomains, CommitRevision, IndexRevision
<1>2. CASE e.request = r
  <2>1. /\ proofs'[r] = RevisionOf(e)
        /\ e.consulted = Consulted(r, e.domains)
        /\ RevisionOf(e).topology_generation = e.topology
        /\ RevisionOf(e).failure_domain_generation = e.domains
        /\ RevisionOf(e).entities = Footprint(r, e.topology)
    BY <1>2, CommitWrites DEF TypeInv, RuntimeTypeOK, StoreTypeOK
  <2>2. IndexRevision(r, RevisionOf(e), e.consulted)
    BY <1>2 DEF CommitRevision
  <2> QED
    BY <2>1, <2>2 DEF ProofIndexed, IndexedButDomains, IndexRevision
<1> QED
  BY <1>1, <1>2

\* Fences and floors recorded when a sweep returned, against the authority and
\* the policies as they are now.
FencesRecorded == fencing \subseteq fenced /\ fence_done \subseteq fenced
FloorsPublished == \A p \in Policies : policy_floor[p] <= PolicyGeneration(p)

\* A current proof records the policy generation its request was made for.
PolicyRecorded ==
    \A r \in Requests : IsCurrent(r) => proofs[r].policy_generation = r.policy_generation

SweepInv ==
    /\ IndexComplete
    /\ FencesRecorded /\ FenceSweepHolds
    /\ FloorsPublished /\ PolicyRecorded /\ PolicySweepHolds

LEMMA IndexCompleteNext ==
  ASSUME TypeInv, SweepInv, [Next]_vars PROVE IndexComplete'
<1> SUFFICES ASSUME NEW r \in Requests, IsCurrent(r)' PROVE ProofIndexed(r)'
  BY DEF IndexComplete, ProofIndexed
<1>1. CASE \E t \in Evaluators : CommitRevision(t)
  BY <1>1, CommitIndexes DEF SweepInv
<1>2. CASE ~\E t \in Evaluators : CommitRevision(t)
  <2>1. proofs'[r] = proofs[r] /\ IsCurrent(r)
    BY <1>2, OnlyCommitsRevive DEF NotRevived
  <2>2. proofs[r] \in Revision
    BY <2>1 DEF IsCurrent, TypeInv, RuntimeTypeOK, StoreTypeOK
  <2>3. proofs[r].topology_generation \in 0..MaxTopology
        /\ proofs[r].failure_domain_generation \in 0..MaxDomains
    BY <2>2 DEF Revision
  <2>4. ProofIndexed(r)
    BY <2>1, IndexCompleteParts DEF SweepInv
  <2> QED
    BY <1>2, <2>1, <2>3, <2>4, IndexesKept DEF ProofIndexed, IndexedButDomains
<1> QED
  BY <1>1, <1>2

\* Which steps move what the sweeps are measured against.
LEMMA SweepSteps ==
  ASSUME [Next]_vars
  PROVE  /\ fence_done' # fence_done => \E b \in Boots : FenceBootDemote(b)
         /\ ~(fencing' \subseteq fencing) => \E b \in Boots : FenceBootBegin(b)
         /\ policy_floor' # policy_floor => \E p \in Policies, g \in 1..MaxGeneration : DemotePolicy(p, g)
         /\ policies' # policies =>
              \E p \in Policies, content \in Contents, a \in Actors : PublishPolicy(p, content, a)
<1> DEFINE Moves ==
      /\ fence_done' # fence_done => \E b \in Boots : FenceBootDemote(b)
      /\ ~(fencing' \subseteq fencing) => \E b \in Boots : FenceBootBegin(b)
      /\ policy_floor' # policy_floor => \E p \in Policies, g \in 1..MaxGeneration : DemotePolicy(p, g)
      /\ policies' # policies =>
           \E p \in Policies, content \in Contents, a \in Actors : PublishPolicy(p, content, a)
<1>1. CASE UNCHANGED <<fence_done, fencing, policy_floor, policies>>
  BY <1>1
<1>2. CASE InvalidationStep
  <2>1. CASE \E p \in Policies, g \in 1..MaxGeneration : DemotePolicy(p, g)
    BY <2>1 DEF DemotePolicy, callVars
  <2>2. CASE ~\E p \in Policies, g \in 1..MaxGeneration : DemotePolicy(p, g)
    BY <1>1, <1>2, <2>2 DEF InvalidationStep, DemoteTopologyEntities, DemoteTopologyGeneration,
       DemoteFailureDomainGeneration, DemoteDomains, DemotePath, callVars, ghostVars
  <2> QED
    BY <2>1, <2>2
<1>3. ASSUME NEW b \in Boots, FenceBootBegin(b) \/ FenceBootDemote(b) \/ DemoteBoot(b) PROVE Moves
  BY <1>3 DEF FenceBootBegin, FenceBootDemote, DemoteBoot, callVars, ghostVars, storeVars
<1>4. ASSUME NEW t \in Evaluators, EvaluationStep(t) PROVE Moves
  BY <1>1, <1>4 DEF EvaluationStep, RevalidateEnter, EnterEvaluation, RevalidateRefused,
     Observe, Judge, Recheck, CommitRefused, CommitConflict, CommitUnchanged, CommitRevision,
     callVars, ghostVars, storeVars
<1>5. ASSUME NEW t \in Refreshers, RefreshBegin(t) \/ RefreshStep(t) PROVE Moves
  BY <1>1, <1>5 DEF RefreshBegin, RefreshStep, RefreshAskPath, RefreshReadPolicy, RefreshReadProof,
     RefreshApply, callVars, ghostVars, storeVars
<1>6. ASSUME NEW q \in Requests, NEW target \in Targets, NEW a \in Actors, LifecycleStep(q, target, a)
      PROVE  Moves
  BY <1>1, <1>6 DEF LifecycleStep, LifecycleApplied, LifecycleUnchanged, LifecycleForgotten,
     callVars, ghostVars, storeVars
<1>7. ASSUME NEW t \in Evaluators, NEW q \in Requests, NEW a \in Actors,
             Evaluate(t, q, a) \/ Revalidate(t, q, a)
      PROVE  Moves
  BY <1>1, <1>7 DEF Evaluate, EnterEvaluation, Revalidate, callVars, ghostVars, storeVars
<1>8. ASSUME NEW p \in Policies, NEW content \in Contents, NEW a \in Actors, PublishPolicy(p, content, a)
      PROVE  Moves
  BY <1>8 DEF PublishPolicy, callVars, ghostVars
<1>9. CASE AuthorityMoves \/ EvidenceMoves \/ UNCHANGED vars
  BY <1>1, <1>9 DEF AuthorityMoves, EvidenceMoves, vars, callVars, ghostVars, storeVars
<1> QED
  BY <1>2, <1>3, <1>4, <1>5, <1>6, <1>7, <1>8, <1>9 DEF Next

LEMMA FencesNext ==
  ASSUME TypeInv, SweepInv, [Next]_vars PROVE FencesRecorded' /\ FenceSweepHolds'
<1>1. fenced \subseteq fenced'
  BY AuthorityStep, FenceListGrows DEF TypeInv, RuntimeTypeOK, AuthorityInv
<1>2. FencesRecorded'
  <2>1. ASSUME NEW b \in Boots, FenceBootDemote(b) PROVE FencesRecorded'
    BY <1>1, <2>1 DEF FenceBootDemote, FencesRecorded, SweepInv
  <2>2. ASSUME NEW b \in Boots, FenceBootBegin(b) PROVE FencesRecorded'
    BY <1>1, <2>2 DEF FenceBootBegin, FenceBoot, FencesRecorded, SweepInv, ghostVars
  <2>3. CASE fencing' \subseteq fencing /\ fence_done' = fence_done
    BY <1>1, <2>3 DEF FencesRecorded, SweepInv
  <2> QED
    BY <2>1, <2>2, <2>3, SweepSteps
<1>3. ASSUME NEW r \in Requests, IsCurrent(r)' PROVE proofs'[r].boot \notin fence_done'
  <2>1. ASSUME NEW t \in Evaluators, CommitRevision(t), evaluations[t].request = r
        PROVE  proofs'[r].boot \notin fence_done'
    <3>1. proofs'[r].boot = evaluations[t].authority.boot
      <4>1. proofs'[r] = RevisionOf(evaluations[t])
        BY <2>1 DEF CommitRevision, TypeInv, RuntimeTypeOK, StoreTypeOK
      <4> QED
        BY <4>1 DEF RevisionOf
    <3>2. evaluations[t].authority.boot \notin fenced
      BY <2>1 DEF CommitRevision, Committable, StillAuthorized
    <3>3. fence_done' = fence_done
      BY <2>1 DEF CommitRevision
    <3> QED
      BY <3>1, <3>2, <3>3 DEF SweepInv, FencesRecorded
  <2>2. ASSUME proofs'[r] = proofs[r], IsCurrent(r) PROVE proofs'[r].boot \notin fence_done'
    <3>1. CASE fence_done' = fence_done
      BY <2>2, <3>1 DEF SweepInv, FenceSweepHolds
    <3>2. ASSUME NEW b \in Boots, FenceBootDemote(b) PROVE proofs'[r].boot \notin fence_done'
      <4>1. \A q \in Requests \cap Indexed(by_boot, {b}) : ~IsCurrent(q)'
        BY <3>2, DemotedOnlyDemotes
        DEF FenceBootDemote, BootDemoted, TypeInv, RuntimeTypeOK, Currentness
      <4>2. <<proofs[r].boot, r>> \in by_boot
        BY <2>2 DEF SweepInv, IndexComplete, IndexedButDomains
      <4>3. proofs[r].boot # b
        BY <1>3, <4>1, <4>2 DEF Indexed
      <4> QED
        BY <2>2, <3>2, <4>3 DEF FenceBootDemote, SweepInv, FenceSweepHolds
    <3> QED
      BY <3>1, <3>2, SweepSteps
  <2>3. CASE ~\E t \in Evaluators : CommitRevision(t)
    BY <1>3, <2>2, <2>3, OnlyCommitsRevive DEF NotRevived
  <2>4. ASSUME NEW t \in Evaluators, CommitRevision(t), evaluations[t].request # r
        PROVE  proofs'[r].boot \notin fence_done'
    <3>1. proofs'[r] = proofs[r]
      BY <2>4 DEF CommitRevision, TypeInv, RuntimeTypeOK, StoreTypeOK
    <3> QED
      BY <1>3, <2>2, <3>1 DEF IsCurrent
  <2> QED
    BY <2>1, <2>3, <2>4
<1> QED
  BY <1>2, <1>3 DEF FenceSweepHolds

LEMMA FloorsNext ==
  ASSUME TypeInv, SweepInv, [Next]_vars
  PROVE  FloorsPublished' /\ PolicyRecorded' /\ PolicySweepHolds'
<1>0. /\ \A p \in Policies : policy_floor[p] \in Nat
      /\ \A r \in Requests : IsRequest(r)
      /\ \A p \in Policies : PolicyGeneration(p) \in Nat
  BY RuntimeAssumption, RuntimeLimitsAssumption
  DEF TypeInv, RuntimeTypeOK, GhostTypeOK, StoreTypeOK, PolicyGeneration, Policy, Unset
<1>1. FloorsPublished'
  <2>1. ASSUME NEW p \in Policies, NEW content \in Contents, NEW a \in Actors,
               PublishPolicy(p, content, a)
        PROVE  FloorsPublished'
    <3>1. policies' = [policies EXCEPT ![p] =
                         [generation |-> PolicyGeneration(p) + 1, content |-> content]]
          /\ policy_floor' = policy_floor
      BY <2>1 DEF PublishPolicy, ghostVars
    <3>2. [generation |-> PolicyGeneration(p) + 1, content |-> content] \in Policy
      <4>1. PolicyGeneration(p) \in 0..MaxGeneration /\ PolicyGeneration(p) # MaxGeneration
        BY <2>1, RuntimeLimitsAssumption
        DEF PolicyGeneration, TypeInv, RuntimeTypeOK, StoreTypeOK, Policy, Unset, PublishPolicy, PolicyAccepted, CanAdvance
      <4>2. PolicyGeneration(p) + 1 \in 1..MaxGeneration
        BY <4>1, RuntimeLimitsAssumption
      <4> QED
        BY <4>2 DEF Policy
    <3>3. PolicyGeneration(p)' = PolicyGeneration(p) + 1
      BY <3>1, <3>2, RuntimeNoneAssumption DEF PolicyGeneration, TypeInv, RuntimeTypeOK, StoreTypeOK
    <3>4. \A q \in Policies \ {p} : PolicyGeneration(q)' = PolicyGeneration(q)
      BY <3>1 DEF PolicyGeneration, TypeInv, RuntimeTypeOK, StoreTypeOK
    <3> QED
      BY <1>0, <3>1, <3>3, <3>4 DEF SweepInv, FloorsPublished
  <2>2. ASSUME NEW p \in Policies, NEW g \in 1..MaxGeneration, DemotePolicy(p, g) PROVE FloorsPublished'
    <3>1. /\ policies' = policies
          /\ policy_floor' = [policy_floor EXCEPT ![p] =
                                 IF @ < Swept(p, g) THEN Swept(p, g) ELSE @]
          /\ Swept(p, g) <= PolicyGeneration(p)
      BY <1>0, <2>2 DEF DemotePolicy, Swept
    <3>2. \A q \in Policies : PolicyGeneration(q)' = PolicyGeneration(q)
      BY <3>1 DEF PolicyGeneration
    <3>3. \A q \in Policies : policy_floor'[q] \in {policy_floor[q], Swept(p, g)} /\ (q # p => policy_floor'[q] = policy_floor[q])
      BY <3>1 DEF TypeInv, RuntimeTypeOK, GhostTypeOK
    <3> QED
      BY <3>1, <3>2, <3>3 DEF SweepInv, FloorsPublished
  <2>3. CASE policies' = policies /\ policy_floor' = policy_floor
    BY <2>3 DEF SweepInv, FloorsPublished, PolicyGeneration
  <2>4. ASSUME NEW p \in Policies, NEW content \in Contents, NEW a \in Actors,
               PublishPolicy(p, content, a)
        PROVE  policy_floor' = policy_floor
    BY <2>4 DEF PublishPolicy, ghostVars
  <2> QED
    BY <2>1, <2>2, <2>3, SweepSteps
<1>2. ASSUME NEW r \in Requests, IsCurrent(r)'
      PROVE  /\ proofs'[r].policy_generation = r.policy_generation
             /\ proofs'[r].policy_generation >= policy_floor'[r.policy]
  <2>1. ASSUME NEW t \in Evaluators, CommitRevision(t), evaluations[t].request = r
        PROVE  /\ proofs'[r].policy_generation = r.policy_generation
               /\ proofs'[r].policy_generation >= policy_floor'[r.policy]
    <3>1. proofs'[r] = RevisionOf(evaluations[t]) /\ policy_floor' = policy_floor
      BY <2>1 DEF CommitRevision, TypeInv, RuntimeTypeOK, StoreTypeOK
    <3>2. proofs'[r].policy_generation = r.policy_generation
      BY <1>2, <2>1, <3>1, CommitWrites
    <3>3. PolicyMatches(r)
      BY <2>1 DEF CommitRevision, Committable, StillAuthorized
    <3>4. r.policy_generation = PolicyGeneration(r.policy)
      BY <3>3 DEF PolicyMatches, PolicyGeneration
    <3>5. r.policy \in Policies
      BY <1>0 DEF IsRequest
    <3> QED
      BY <1>0, <3>1, <3>2, <3>4, <3>5 DEF SweepInv, FloorsPublished
  <2>2. ASSUME proofs'[r] = proofs[r], IsCurrent(r)
        PROVE  /\ proofs'[r].policy_generation = r.policy_generation
               /\ proofs'[r].policy_generation >= policy_floor'[r.policy]
    <3>1. /\ proofs[r].policy_generation = r.policy_generation
          /\ proofs[r].policy_generation >= policy_floor[r.policy]
          /\ <<r.policy, r>> \in by_policy
          /\ r.policy \in Policies /\ r.policy_generation \in Nat
      BY <1>0, <2>2 DEF SweepInv, PolicyRecorded, PolicySweepHolds, IndexComplete, IndexedButDomains, IsRequest
    <3>2. CASE policy_floor' = policy_floor
      BY <2>2, <3>1, <3>2
    <3>3. ASSUME NEW p \in Policies, NEW g \in 1..MaxGeneration, DemotePolicy(p, g)
          PROVE  proofs[r].policy_generation >= policy_floor'[r.policy]
      <4> DEFINE R == {q \in Indexed(by_policy, {p}) : proofs[q].policy_generation < g}
      <4>1. \A q \in Requests \cap R : ~IsCurrent(q)'
        BY <3>3, DemotedOnlyDemotes DEF DemotePolicy, TypeInv, RuntimeTypeOK, Currentness
      <4>2. r \notin R
        BY <1>2, <4>1
      <4>3. r.policy = p => ~(proofs[r].policy_generation < g)
        BY <3>1, <4>2 DEF Indexed
      <4>4. \/ policy_floor'[r.policy] = policy_floor[r.policy]
            \/ r.policy = p /\ policy_floor'[r.policy] = Swept(p, g)
        BY <3>1, <3>3 DEF DemotePolicy, TypeInv, RuntimeTypeOK, GhostTypeOK
      <4>5. Swept(p, g) <= g /\ Swept(p, g) \in Nat
        BY <1>0 DEF Swept
      <4> QED
        BY <3>1, <4>3, <4>4, <4>5
    <3> QED
      BY <2>2, <3>1, <3>2, <3>3, SweepSteps
  <2>3. CASE ~\E t \in Evaluators : CommitRevision(t)
    BY <1>2, <2>2, <2>3, OnlyCommitsRevive DEF NotRevived
  <2>4. ASSUME NEW t \in Evaluators, CommitRevision(t), evaluations[t].request # r
        PROVE  proofs'[r] = proofs[r] /\ IsCurrent(r)
    <3>1. proofs'[r] = proofs[r]
      BY <2>4 DEF CommitRevision, TypeInv, RuntimeTypeOK, StoreTypeOK
    <3> QED
      BY <1>2, <3>1 DEF IsCurrent
  <2> QED
    BY <2>1, <2>2, <2>3, <2>4
<1> QED
  BY <1>1, <1>2 DEF PolicyRecorded, PolicySweepHolds

\* The sweeps' inductive invariant: complete indexes, fences and floors that
\* never run ahead of the authority and the policies, and current proofs on
\* the right side of both.
THEOREM SweepInvariant == Spec => [](TypeInv /\ SweepInv)
<1>1. Init => SweepInv
  <2> SUFFICES ASSUME Init PROVE SweepInv
    OBVIOUS
  <2>1. \A r \in Requests : ~IsCurrent(r)
    BY DEF Init, IsCurrent
  <2>2. FencesRecorded /\ FloorsPublished
    BY DEF Init, FencesRecorded, FloorsPublished, PolicyGeneration, Unset
  <2> QED
    BY <2>1, <2>2 DEF SweepInv, IndexComplete, FenceSweepHolds, PolicyRecorded, PolicySweepHolds
<1>2. TypeInv /\ SweepInv /\ [Next]_vars => SweepInv'
  BY IndexCompleteNext, FencesNext, FloorsNext DEF SweepInv
<1> QED
  BY <1>1, <1>2, TypeInvariant, PTL DEF Spec

\* No current proof can be missed by an invalidation: every proof that is
\* current is in each reverse index under every key it depends on.
THEOREM IndexesComplete == Spec => []IndexComplete
  BY SweepInvariant, PTL DEF SweepInv

\* Once fence_boot has returned for a boot, nothing that boot published is
\* current, then or later, however its evaluations in flight end.
THEOREM FencedBootStaysDemoted == Spec => []FenceSweepHolds
  BY SweepInvariant, PTL DEF SweepInv

\* Once demote_policy has swept a published generation, no proof of an older
\* generation of that policy is current, however late its evaluation commits.
THEOREM SweptPolicyStaysDemoted == Spec => []PolicySweepHolds
  BY SweepInvariant, PTL DEF SweepInv

-----------------------------------------------------------------------------
\* A revision that was demoted or moved by an operator is never current again:
\* what is current later is a later revision, with a higher generation.
THEOREM DemotionIsFinal == Spec => RevisionNeverRevived
<1> DEFINE Kept == \A r \in Requests : proofs[r] # None =>
         /\ proofs'[r] # None
         /\ proofs'[r].generation >= proofs[r].generation
         /\ (~IsCurrent(r) /\ IsCurrent(r)') => proofs'[r].generation > proofs[r].generation
<1>1. TypeInv /\ [Next]_vars => Kept
  <2> SUFFICES ASSUME TypeInv, [Next]_vars, NEW r \in Requests, proofs[r] # None
               PROVE  /\ proofs'[r] # None
                      /\ proofs'[r].generation >= proofs[r].generation
                      /\ (~IsCurrent(r) /\ IsCurrent(r)') => proofs'[r].generation > proofs[r].generation
    OBVIOUS
  <2>0. proofs[r] \in Revision /\ proofs[r].generation \in Nat
    BY RuntimeLimitsAssumption DEF TypeInv, RuntimeTypeOK, StoreTypeOK, Revision
  <2>1. CASE ~\E t \in Evaluators : CommitRevision(t)
    BY <2>0, <2>1, OnlyCommitsRevive DEF NotRevived
  <2>2. ASSUME NEW t \in Evaluators, CommitRevision(t), evaluations[t].request # r
        PROVE  proofs'[r] = proofs[r]
    BY <2>2 DEF CommitRevision, TypeInv, RuntimeTypeOK, StoreTypeOK
  <2>3. CASE proofs'[r] = proofs[r]
    BY <2>0, <2>3 DEF IsCurrent
  <2>4. ASSUME NEW t \in Evaluators, CommitRevision(t), evaluations[t].request = r
        PROVE  proofs'[r] # None /\ proofs'[r].generation = proofs[r].generation + 1
    <3>1. proofs'[r] = RevisionOf(evaluations[t])
      BY <2>4 DEF CommitRevision, TypeInv, RuntimeTypeOK, StoreTypeOK
    <3>2. RevisionOf(evaluations[t]) # None
      BY <2>4, RevisionType, RuntimeNoneAssumption DEF CommitRevision
    <3>3. RecordOf(r) = proofs[r]
      BY DEF RecordOf
    <3>4. RevisionOf(evaluations[t]).generation = proofs[r].generation + 1
      BY <2>4, <3>3, CommitWrites
    <3> QED
      BY <2>0, <3>1, <3>2, <3>4
  <2> QED
    BY <2>0, <2>1, <2>2, <2>3, <2>4
<1> QED
  BY <1>1, TypeInvariant, PTL DEF Spec, RevisionNeverRevived

-----------------------------------------------------------------------------
(* Attempts.  An attempt stays bound to the request it was admitted with   *)
(* for as long as its evaluation runs, so nothing else is admitted under   *)
(* it; a commit keeps it bound, so it is never admitted again.             *)

Enters(t) ==
    \/ \E r \in Requests, a \in Actors : Evaluate(t, r, a)
    \/ RevalidateEnter(t)

Forgets(t) == CommitRefused(t) \/ CommitConflict(t)

AttemptsBound ==
    /\ \A t \in Running :
         attempts[evaluations[t].authority.attempt] = RequestPayload(evaluations[t].request)
    /\ \A x \in applied : \E r \in Requests : attempts[x] = RequestPayload(r)

AttemptInv == AttemptsBound /\ EvaluationAppliedOnce

LEMMA AcceptedIsNew ==
  ASSUME NEW a, NEW payload, AdmitStatus(a, payload) = "ACCEPTED"
  PROVE  attempts[a.attempt] = None
<1>1. ValidateStatus(a) = "ACCEPTED"
  BY DEF AdmitStatus
<1> QED
  BY <1>1 DEF AdmitStatus

\* No step but the refusal of its own evaluation moves an attempt that is bound
\* to a request.
LEMMA BoundAttemptKept ==
  ASSUME TypeInv, [Next]_vars, NEW x \in Attempts, NEW r \in Requests,
         attempts[x] = RequestPayload(r),
         \A t \in Evaluators : Forgets(t) => evaluations[t].authority.attempt # x
  PROVE  attempts'[x] = attempts[x]
<1>0. /\ attempts \in [Attempts -> Payloads \cup {None}] /\ attempts[x] # None
      /\ \A a \in Actors : a.attempt \in Attempts
  BY RuntimeAssumption, NoneAssumption DEF TypeInv, AuthorityInv, AuthorityTypeOK, Actor
<1>1. CASE attempts' = attempts
  BY <1>1
<1>2. ASSUME NEW a \in Actors, NEW payload, AdmitStatus(a, payload) = "ACCEPTED",
             attempts' = AttemptsWith(a.attempt, payload)
      PROVE  attempts'[x] = attempts[x]
  BY <1>0, <1>2, AcceptedIsNew DEF AttemptsWith
<1>3. ASSUME NEW t \in Evaluators, EvaluationStep(t) PROVE attempts'[x] = attempts[x]
  <2>1. CASE Forgets(t)
    <3>1. evaluations[t] # None
      BY <2>1 DEF Forgets, CommitRefused, CommitConflict, InPhase
    <3>2. ForgetAttempt(evaluations[t].authority.attempt)
      BY <2>1 DEF Forgets, CommitRefused, CommitConflict
    <3> QED
      BY <1>0, <2>1, <3>1, <3>2 DEF ForgetAttempt, AttemptsWith
  <2>2. CASE RevalidateEnter(t)
    <3>1. evaluations[t].authority \in Actors
      BY <2>2, EvaluationParts DEF RevalidateEnter, InPhase, TypeInv, RuntimeTypeOK
    <3> QED
      BY <1>2, <2>2, <3>1 DEF RevalidateEnter, EnterEvaluation, Entered
  <2>3. CASE ~Forgets(t) /\ ~RevalidateEnter(t)
    BY <1>1, <1>3, <2>3 DEF Forgets, EvaluationStep, RevalidateRefused, Observe, Judge, Recheck,
       CommitUnchanged, CommitRevision, authorityVars
  <2> QED
    BY <2>1, <2>2, <2>3
<1>4. ASSUME NEW q \in Requests, NEW target \in Targets, NEW a \in Actors, LifecycleStep(q, target, a)
      PROVE  attempts'[x] = attempts[x]
  <2>1. CASE LifecycleStatus(q, target, a) = "ACCEPTED"
    BY <1>2, <1>4, <2>1 DEF LifecycleStep, LifecycleApplied, LifecycleUnchanged, LifecycleForgotten,
       LifecycleStatus
  <2>2. CASE LifecycleStatus(q, target, a) = "IDEMPOTENT"
    <3>1. attempts[a.attempt] = LifecyclePayload(q, target)
      <4>1. ValidateStatus(a) # "IDEMPOTENT"
        BY DEF ValidateStatus
      <4> QED
        BY <2>2, <4>1 DEF LifecycleStatus, AdmitStatus
    <3>2. a.attempt # x
      BY <3>1 DEF LifecyclePayload, RequestPayload
    <3> QED
      BY <1>0, <1>4, <3>2 DEF LifecycleStep, LifecycleApplied, LifecycleUnchanged, LifecycleForgotten,
         ForgetAttempt, AttemptsWith
  <2> QED
    BY <1>4, <2>1, <2>2 DEF LifecycleStep, LifecycleApplied, LifecycleUnchanged, LifecycleForgotten
<1>5. CASE AuthorityMoves
  BY <1>1, <1>5 DEF AuthorityMoves, RestoreEpoch, RegisterPublisher, RegisterPublisherLimitExceeded
<1>6. ASSUME NEW p \in Policies, NEW content \in Contents, NEW a \in Actors, PublishPolicy(p, content, a)
      PROVE  attempts'[x] = attempts[x]
  BY <1>2, <1>6 DEF PublishPolicy, PolicyAccepted
<1>7. ASSUME NEW t \in Evaluators, NEW q \in Requests, NEW a \in Actors,
             Evaluate(t, q, a) \/ Revalidate(t, q, a)
      PROVE  attempts'[x] = attempts[x]
  BY <1>1, <1>2, <1>7 DEF Evaluate, EnterEvaluation, Entered, Revalidate, authorityVars
<1>8. CASE InvalidationStep \/ \E b \in Boots : FenceBootDemote(b) \/ DemoteBoot(b)
  BY <1>1, <1>8, InvalidationDemotes DEF TypeInv, RuntimeTypeOK, authorityVars
<1>9. ASSUME NEW b \in Boots, FenceBootBegin(b) PROVE attempts'[x] = attempts[x]
  BY <1>1, <1>9 DEF FenceBootBegin, FenceBoot
<1>10. ASSUME NEW t \in Refreshers, RefreshBegin(t) \/ RefreshStep(t) PROVE attempts'[x] = attempts[x]
  BY <1>1, <1>10 DEF RefreshBegin, RefreshStep, RefreshAskPath, RefreshReadPolicy, RefreshReadProof,
     RefreshApply, authorityVars
<1>11. CASE EvidenceMoves \/ UNCHANGED vars
  BY <1>1, <1>11 DEF EvidenceMoves, vars, authorityVars
<1> QED
  BY <1>3, <1>4, <1>5, <1>6, <1>7, <1>8, <1>9, <1>10, <1>11 DEF Next

\* Which evaluations run after a step: those that ran before it and the one
\* that has just been admitted.
LEMMA RunningAfter ==
  ASSUME TypeInv, [Next]_vars, NEW t \in Evaluators, t \in Running'
  PROVE  \/ Enters(t)
         \/ /\ t \in Running
            /\ evaluations'[t].authority = evaluations[t].authority
            /\ evaluations'[t].request = evaluations[t].request
<1> DEFINE Before == /\ t \in Running
                     /\ evaluations'[t].authority = evaluations[t].authority
                     /\ evaluations'[t].request = evaluations[t].request
<1>0. evaluations'[t] # None /\ evaluations'[t].pc # "admit" /\ evaluations \in [Evaluators -> Evaluation \cup {None}]
  BY DEF Running, TypeInv, RuntimeTypeOK, CallTypeOK
<1>1. CASE evaluations'[t] = evaluations[t]
  BY <1>0, <1>1 DEF Running
<1>2. ASSUME NEW u \in Evaluators, EvaluationStep(u) PROVE Enters(t) \/ Before
  <2>1. CASE RevalidateEnter(u)
    <3>1. CASE u = t
      BY <2>1, <3>1 DEF Enters
    <3>2. CASE u # t
      BY <1>0, <1>1, <2>1, <3>2 DEF RevalidateEnter, EnterEvaluation
    <3> QED
      BY <3>1, <3>2
  <2>2. CASE Observe(u) \/ Judge(u) \/ Recheck(u)
    <3>1. CASE u # t
      BY <1>0, <1>1, <2>2, <3>1 DEF Observe, Judge, Recheck
    <3>2. CASE u = t
      <4>1. evaluations[t] # None /\ evaluations[t] \in Evaluation /\ evaluations[t].pc # "admit"
        BY <1>0, <2>2, <3>2 DEF Observe, Judge, Recheck, InPhase
      <4>2. CASE Observe(t)
        <5>1. evaluations'[t] = [evaluations[t] EXCEPT !.pc = "judge", !.topology = topology,
                                                       !.domains = failure_domains]
          BY <1>0, <4>1, <4>2 DEF Observe
        <5> QED
          BY <4>1, <5>1 DEF Evaluation, Running
      <4>3. CASE Judge(t)
        <5>1. PICK outcome \in JudgedOutcomes(evaluations[t]) :
                evaluations' = [evaluations EXCEPT
                    ![t].pc = "recheck",
                    ![t].outcome = outcome,
                    ![t].consulted = IF outcome \in RejectedOutcomes
                                       THEN {} ELSE Consulted(evaluations[t].request, failure_domains)]
          BY <4>3 DEF Judge
        <5>2. /\ evaluations'[t].authority = evaluations[t].authority
              /\ evaluations'[t].request = evaluations[t].request
          BY <1>0, <4>1, <5>1 DEF Evaluation
        <5> QED
          BY <4>1, <5>2 DEF Running
      <4>4. CASE Recheck(t)
        <5>1. evaluations'[t] = [evaluations[t] EXCEPT !.pc = "commit", !.drift = Drifted(evaluations[t])]
          BY <1>0, <4>1, <4>4 DEF Recheck
        <5> QED
          BY <4>1, <5>1 DEF Evaluation, Running
      <4> QED
        BY <2>2, <3>2, <4>2, <4>3, <4>4
    <3> QED
      BY <3>1, <3>2
  <2>3. CASE evaluations' = [evaluations EXCEPT ![u] = None]
    BY <1>0, <1>1, <2>3
  <2> QED
    BY <1>2, <2>1, <2>2, <2>3 DEF EvaluationStep, RevalidateRefused, CommitRefused, CommitConflict,
       CommitUnchanged, CommitRevision, EndEvaluation
<1>3. ASSUME NEW u \in Evaluators, NEW q \in Requests, NEW a \in Actors,
             Evaluate(u, q, a) \/ Revalidate(u, q, a)
      PROVE  Enters(t) \/ Before
  <2>1. CASE u # t
    BY <1>0, <1>1, <1>3, <2>1 DEF Evaluate, EnterEvaluation, Revalidate
  <2>2. CASE u = t /\ Evaluate(u, q, a)
    BY <2>2 DEF Enters
  <2>3. CASE u = t /\ Revalidate(u, q, a)
    BY <1>0, <2>3 DEF Revalidate
  <2> QED
    BY <1>3, <2>1, <2>2, <2>3
<1>4. CASE evaluations' = evaluations
  BY <1>1, <1>4
<1>5. ASSUME NEW q \in Requests, NEW target \in Targets, NEW a \in Actors, LifecycleStep(q, target, a)
      PROVE  evaluations' = evaluations
  BY <1>5 DEF LifecycleStep, LifecycleApplied, LifecycleUnchanged, LifecycleForgotten, callVars
<1>6. ASSUME AuthorityMoves \/ EvidenceMoves \/ UNCHANGED vars PROVE evaluations' = evaluations
  BY <1>6 DEF AuthorityMoves, EvidenceMoves, vars, callVars
<1>7. ASSUME NEW p \in Policies, NEW content \in Contents, NEW a \in Actors, PublishPolicy(p, content, a)
      PROVE  evaluations' = evaluations
  BY <1>7 DEF PublishPolicy, callVars
<1>8. ASSUME InvalidationStep \/ \E b \in Boots : FenceBootDemote(b) \/ DemoteBoot(b)
      PROVE  evaluations' = evaluations
  BY <1>8, InvalidationDemotes DEF TypeInv, RuntimeTypeOK
<1>9. ASSUME NEW b \in Boots, FenceBootBegin(b) PROVE evaluations' = evaluations
  BY <1>9 DEF FenceBootBegin
<1>10. ASSUME NEW u \in Refreshers, RefreshBegin(u) \/ RefreshStep(u) PROVE evaluations' = evaluations
  BY <1>10 DEF RefreshBegin, RefreshStep, RefreshAskPath, RefreshReadPolicy, RefreshReadProof, RefreshApply
<1> QED
  BY <1>2, <1>3, <1>4, <1>5, <1>6, <1>7, <1>8, <1>9, <1>10 DEF Next

LEMMA AttemptNext ==
  ASSUME TypeInv, AttemptInv, [Next]_vars PROVE AttemptInv'
<1>0. /\ attempts \in [Attempts -> Payloads \cup {None}] /\ applied \subseteq Attempts
      /\ \A r \in Requests : RequestPayload(r) # None
  BY RuntimeAssumption, NoneAssumption
  DEF TypeInv, RuntimeTypeOK, GhostTypeOK, AuthorityInv, AuthorityTypeOK
<1>1. \A t \in Running : /\ evaluations[t].request \in Requests
                         /\ evaluations[t].authority.attempt \in Attempts
  BY EvaluationParts DEF Running, TypeInv, RuntimeTypeOK
<1>2. ASSUME NEW t \in Evaluators, Forgets(t) \/ CommitRevision(t) PROVE t \in Running /\ t \notin Running'
  BY <1>2 DEF Forgets, CommitRefused, CommitConflict, CommitRevision, Committable, InPhase, Running,
     EndEvaluation, TypeInv, RuntimeTypeOK, CallTypeOK
<1>3. ASSUME NEW t \in Evaluators, Enters(t)
      PROVE  /\ evaluations'[t].request \in Requests
             /\ evaluations'[t].authority.attempt \in Attempts
             /\ attempts[evaluations'[t].authority.attempt] = None
             /\ attempts' = AttemptsWith(evaluations'[t].authority.attempt,
                                         RequestPayload(evaluations'[t].request))
             /\ applied' = applied
             /\ \A u \in Evaluators \ {t} : evaluations'[u] = evaluations[u]
  <2>1. PICK r \in Requests, a \in Actors : EnterEvaluation(t, r, a)
    <3>1. CASE RevalidateEnter(t)
      BY <3>1, EvaluationParts DEF RevalidateEnter, InPhase, TypeInv, RuntimeTypeOK
    <3> QED
      BY <1>3, <3>1 DEF Enters, Evaluate
  <2>2. evaluations'[t].request = r /\ evaluations'[t].authority = a
    BY <2>1 DEF EnterEvaluation, TypeInv, RuntimeTypeOK, CallTypeOK
  <2>3. a.attempt \in Attempts
    BY RuntimeAssumption DEF Actor
  <2>4. attempts[a.attempt] = None
    BY <2>1, AcceptedIsNew DEF EnterEvaluation, Entered
  <2>5. attempts' = AttemptsWith(a.attempt, RequestPayload(r)) /\ applied' = applied
    BY <2>1 DEF EnterEvaluation, ghostVars
  <2>6. \A u \in Evaluators \ {t} : evaluations'[u] = evaluations[u]
    BY <2>1 DEF EnterEvaluation, TypeInv, RuntimeTypeOK, CallTypeOK
  <2> QED
    BY <2>2, <2>3, <2>4, <2>5, <2>6
<1>4. \A t \in Running' : t \in Evaluators
  BY DEF Running
<1>5. ASSUME NEW t \in Running' PROVE
        attempts'[evaluations'[t].authority.attempt] = RequestPayload(evaluations'[t].request)
  <2>1. CASE Enters(t)
    BY <1>0, <1>3, <1>4, <2>1 DEF AttemptsWith
  <2>2. CASE ~Enters(t)
    <3>1. /\ t \in Running
          /\ evaluations'[t].authority = evaluations[t].authority
          /\ evaluations'[t].request = evaluations[t].request
      BY <1>4, <2>2, RunningAfter
    <3>2. \A u \in Evaluators : Forgets(u) =>
            evaluations[u].authority.attempt # evaluations[t].authority.attempt
      BY <1>2, <1>5, <3>1 DEF AttemptInv, EvaluationAppliedOnce
    <3>3. attempts[evaluations[t].authority.attempt] = RequestPayload(evaluations[t].request)
      BY <3>1 DEF AttemptInv, AttemptsBound
    <3> QED
      BY <1>1, <3>1, <3>2, <3>3, BoundAttemptKept
  <2> QED
    BY <2>1, <2>2
<1>6. applied' = applied \/ \E t \in Evaluators : CommitRevision(t)
  <2>1. ASSUME NEW t \in Evaluators, EvaluationStep(t), ~CommitRevision(t) PROVE applied' = applied
    BY <2>1 DEF EvaluationStep, RevalidateEnter, EnterEvaluation, RevalidateRefused,
       Observe, Judge, Recheck, CommitRefused, CommitConflict, CommitUnchanged, ghostVars
  <2>2. ASSUME NEW q \in Requests, NEW target \in Targets, NEW a \in Actors, LifecycleStep(q, target, a)
        PROVE  applied' = applied
    BY <2>2 DEF LifecycleStep, LifecycleApplied, LifecycleUnchanged, LifecycleForgotten, ghostVars
  <2>3. ASSUME NEW u \in Refreshers, RefreshBegin(u) \/ RefreshStep(u) PROVE applied' = applied
    BY <2>3 DEF RefreshBegin, RefreshStep, RefreshAskPath, RefreshReadPolicy, RefreshReadProof,
       RefreshApply, ghostVars
  <2>4. ASSUME InvalidationStep \/ \E b \in Boots : FenceBootDemote(b) \/ DemoteBoot(b)
        PROVE  applied' = applied
    BY <2>4, InvalidationDemotes DEF TypeInv, RuntimeTypeOK
  <2>5. ASSUME NEW b \in Boots, FenceBootBegin(b) PROVE applied' = applied
    BY <2>5 DEF FenceBootBegin, ghostVars
  <2>6. ASSUME AuthorityMoves \/ EvidenceMoves \/ UNCHANGED vars PROVE applied' = applied
    BY <2>6 DEF AuthorityMoves, EvidenceMoves, vars, ghostVars
  <2>7. ASSUME NEW p \in Policies, NEW content \in Contents, NEW a \in Actors, PublishPolicy(p, content, a)
        PROVE  applied' = applied
    BY <2>7 DEF PublishPolicy, ghostVars
  <2>8. ASSUME NEW t \in Evaluators, NEW q \in Requests, NEW a \in Actors,
               Evaluate(t, q, a) \/ Revalidate(t, q, a)
        PROVE  applied' = applied
    BY <2>8 DEF Evaluate, EnterEvaluation, Revalidate, ghostVars
  <2> QED
    BY <2>1, <2>2, <2>3, <2>4, <2>5, <2>6, <2>7, <2>8 DEF Next
<1>7. ASSUME NEW t \in Evaluators, CommitRevision(t)
      PROVE  /\ applied' = applied \cup {evaluations[t].authority.attempt}
             /\ attempts' = attempts
  BY <1>7 DEF CommitRevision, authorityVars
<1>8. ASSUME NEW x \in applied' PROVE \E r \in Requests : attempts'[x] = RequestPayload(r)
  <2>1. CASE x \in applied
    <3>1. PICK r \in Requests : attempts[x] = RequestPayload(r)
      BY <2>1 DEF AttemptInv, AttemptsBound
    <3>2. \A u \in Evaluators : Forgets(u) => evaluations[u].authority.attempt # x
      BY <1>2, <2>1 DEF AttemptInv, EvaluationAppliedOnce
    <3> QED
      BY <1>0, <2>1, <3>1, <3>2, BoundAttemptKept
  <2>2. CASE x \notin applied
    <3>1. PICK t \in Evaluators : CommitRevision(t)
      BY <1>6, <1>8, <2>2
    <3>2. x = evaluations[t].authority.attempt
      BY <1>7, <1>8, <2>2, <3>1
    <3> QED
      BY <1>1, <1>2, <1>7, <3>1, <3>2 DEF AttemptInv, AttemptsBound
  <2> QED
    BY <2>1, <2>2
<1>9. ASSUME NEW t \in Running' PROVE evaluations'[t].authority.attempt \notin applied'
  <2>1. CASE Enters(t)
    BY <1>0, <1>3, <1>4, <2>1 DEF AttemptInv, AttemptsBound
  <2>2. CASE ~Enters(t)
    <3>1. /\ t \in Running
          /\ evaluations'[t].authority = evaluations[t].authority
      BY <1>4, <2>2, RunningAfter
    <3>2. CASE applied' = applied
      BY <3>1, <3>2 DEF AttemptInv, EvaluationAppliedOnce
    <3>3. ASSUME NEW u \in Evaluators, CommitRevision(u)
          PROVE  evaluations'[t].authority.attempt \notin applied'
      BY <1>2, <1>7, <1>9, <3>1, <3>3 DEF AttemptInv, EvaluationAppliedOnce
    <3> QED
      BY <1>6, <3>2, <3>3
  <2> QED
    BY <2>1, <2>2
<1>10. ASSUME NEW t \in Running', NEW u \in Running', u # t
       PROVE  evaluations'[u].authority.attempt # evaluations'[t].authority.attempt
  <2>1. ASSUME NEW v \in Running', NEW w \in Running', v # w, Enters(v)
        PROVE  evaluations'[w].authority.attempt # evaluations'[v].authority.attempt
    <3>1. evaluations'[w] = evaluations[w] /\ w \in Running
      BY <1>3, <1>4, <2>1 DEF Running
    <3>2. attempts[evaluations[w].authority.attempt] # None
      BY <1>0, <1>1, <3>1 DEF AttemptInv, AttemptsBound
    <3> QED
      BY <1>3, <1>4, <2>1, <3>1, <3>2
  <2>2. CASE ~Enters(t) /\ ~Enters(u)
    <3>1. /\ t \in Running /\ evaluations'[t].authority = evaluations[t].authority
          /\ u \in Running /\ evaluations'[u].authority = evaluations[u].authority
      BY <1>4, <2>2, RunningAfter
    <3> QED
      BY <1>10, <3>1 DEF AttemptInv, EvaluationAppliedOnce
  <2> QED
    BY <1>10, <2>1, <2>2
<1>11. AttemptsBound'
  BY <1>5, <1>8 DEF AttemptsBound
<1>12. EvaluationAppliedOnce'
  BY <1>9, <1>10 DEF EvaluationAppliedOnce
<1> QED
  BY <1>11, <1>12 DEF AttemptInv

\* An attempt commits at most one revision, whoever replays it and whenever:
\* an evaluation past admission is the only one under its attempt, and nothing
\* was committed under it before.
THEOREM AttemptsApplyOnce == Spec => []EvaluationAppliedOnce
<1>1. Init => AttemptInv
  BY DEF Init, AttemptInv, AttemptsBound, EvaluationAppliedOnce, Running
<1>2. TypeInv /\ AttemptInv /\ [Next]_vars => AttemptInv'
  BY AttemptNext
<1>3. AttemptInv => EvaluationAppliedOnce
  BY DEF AttemptInv
<1> QED
  BY <1>1, <1>2, <1>3, TypeInvariant, PTL DEF Spec

-----------------------------------------------------------------------------
(* Retention.                                                              *)

\* Push appends, dropping the oldest entry once max_history are kept: what is left
\* of s is its end, moved by dropped places.
LEMMA PushProperties ==
  ASSUME NEW S, NEW s \in Seq(S), NEW x \in S, Len(s) <= max_history
  PROVE  LET dropped == IF Len(s) >= max_history THEN 1 ELSE 0
             kept == Push(s, x)
         IN  /\ Len(kept) = Len(s) + 1 - dropped /\ Len(s) \in Nat
             /\ Len(kept) \in 1..max_history
             /\ kept[Len(kept)] = x
             /\ \A i \in 1..(Len(kept) - 1) : kept[i] = s[i + dropped] /\ i + dropped \in 1..Len(s)
<1>0. max_history \in Nat \ {0} /\ Len(s) \in Nat
  BY RuntimeLimitsAssumption
<1>1. CASE Len(s) >= max_history
  <2>1. s # <<>> /\ Len(s) = max_history
    BY <1>0, <1>1
  <2>2. /\ Tail(s) \in Seq(S) /\ Len(Tail(s)) = Len(s) - 1
        /\ \A i \in 1..(Len(s) - 1) : Tail(s)[i] = s[i + 1]
    BY <1>0, <2>1
  <2>3. Push(s, x) = Append(Tail(s), x)
    BY <1>1 DEF Push
  <2>4. /\ Len(Push(s, x)) = Len(s) /\ Push(s, x)[Len(s)] = x
        /\ \A i \in 1..(Len(s) - 1) : Push(s, x)[i] = Tail(s)[i]
    BY <1>0, <2>1, <2>2, <2>3
  <2> QED
    BY <1>0, <1>1, <2>1, <2>2, <2>4
<1>2. CASE ~(Len(s) >= max_history)
  <2>1. Push(s, x) = Append(s, x)
    BY <1>2 DEF Push
  <2>2. /\ Len(Push(s, x)) = Len(s) + 1 /\ Push(s, x)[Len(s) + 1] = x
        /\ \A i \in 1..Len(s) : Push(s, x)[i] = s[i]
    BY <1>0, <2>1
  <2> QED
    BY <1>0, <1>2, <2>2
<1> QED
  BY <1>1, <1>2

\* What RevisionsOrdered says of the history h and the snapshots s of a proof at
\* generation g.
HistoryOrdered(h, g) ==
    /\ Len(h) <= max_history
    /\ \A i, j \in DOMAIN h : i <= j => h[i].generation <= h[j].generation
    /\ \A i \in DOMAIN h : h[i].generation <= g

SnapshotsConsecutive(s, g) ==
    /\ Len(s) <= max_history
    /\ \A i \in DOMAIN s : s[i] = g - (Len(s) - i)

LEMMA HistoryPushed ==
  ASSUME NEW h \in Seq(Retained), NEW g \in Nat, NEW after \in Nat, after >= g,
         HistoryOrdered(h, g), NEW x \in Retained, x.generation = g
  PROVE  HistoryOrdered(Push(h, x), after)
<1> DEFINE dropped == IF Len(h) >= max_history THEN 1 ELSE 0
           kept == Push(h, x)
<1>0. Len(h) <= max_history /\ max_history \in Nat
  BY RuntimeLimitsAssumption DEF HistoryOrdered
<1>1. /\ Len(kept) = Len(h) + 1 - dropped /\ Len(h) \in Nat
      /\ Len(kept) \in 1..max_history
      /\ kept[Len(kept)] = x
      /\ \A i \in 1..(Len(kept) - 1) : kept[i] = h[i + dropped] /\ i + dropped \in 1..Len(h)
  BY <1>0, PushProperties
<1>2. DOMAIN kept = 1..Len(kept) /\ DOMAIN h = 1..Len(h)
  BY PushType
<1>3. dropped \in Nat
  OBVIOUS
<1>4. \A i \in 1..Len(h) : h[i].generation \in Nat
  <2>1. \A i \in 1..Len(h) : h[i] \in Retained
    BY <1>2
  <2> QED
    BY <2>1, RuntimeLimitsAssumption DEF Retained
<1> HIDE DEF dropped, kept
<1>5. \A i \in 1..Len(kept) : kept[i].generation <= g
  BY <1>1, <1>2 DEF HistoryOrdered
<1>6. \A i, j \in 1..Len(kept) : i <= j => kept[i].generation <= kept[j].generation
  <2> SUFFICES ASSUME NEW i \in 1..Len(kept), NEW j \in 1..Len(kept), i <= j
               PROVE  kept[i].generation <= kept[j].generation
    OBVIOUS
  <2>1. CASE j = Len(kept)
    BY <1>1, <1>5, <2>1
  <2>2. CASE j # Len(kept)
    <3>1. i \in 1..(Len(kept) - 1) /\ j \in 1..(Len(kept) - 1)
      BY <1>1, <2>2
    <3>2. /\ i + dropped \in DOMAIN h /\ j + dropped \in DOMAIN h /\ i + dropped <= j + dropped
          /\ kept[i] = h[i + dropped] /\ kept[j] = h[j + dropped]
      BY <1>1, <1>2, <1>3, <3>1
    <3> QED
      BY <3>2 DEF HistoryOrdered
  <2> QED
    BY <2>1, <2>2
<1>7. \A i \in 1..Len(kept) : kept[i].generation \in Nat
  BY <1>1, <1>4
<1>8. \A i \in 1..Len(kept) : kept[i].generation <= after
  BY <1>5, <1>7
<1>9. Len(kept) <= max_history
  BY <1>0, <1>1
<1> QED
  BY <1>2, <1>6, <1>8, <1>9 DEF HistoryOrdered, kept

LEMMA SnapshotsPushed ==
  ASSUME NEW s \in Seq(1..MaxGeneration), NEW g \in Nat, g + 1 \in 1..MaxGeneration,
         SnapshotsConsecutive(s, g)
  PROVE  SnapshotsConsecutive(Push(s, g + 1), g + 1)
<1> DEFINE dropped == IF Len(s) >= max_history THEN 1 ELSE 0
           kept == Push(s, g + 1)
<1>0. Len(s) <= max_history /\ max_history \in Nat
  BY RuntimeLimitsAssumption DEF SnapshotsConsecutive
<1>1. /\ Len(kept) = Len(s) + 1 - dropped /\ Len(s) \in Nat
      /\ Len(kept) \in 1..max_history
      /\ kept[Len(kept)] = g + 1
      /\ \A i \in 1..(Len(kept) - 1) : kept[i] = s[i + dropped] /\ i + dropped \in 1..Len(s)
  BY <1>0, PushProperties
<1>2. DOMAIN kept = 1..Len(kept) /\ DOMAIN s = 1..Len(s)
  BY PushType
<1>3. dropped \in Nat
  OBVIOUS
<1> HIDE DEF dropped, kept
<1>4. ASSUME NEW i \in 1..Len(kept) PROVE kept[i] = g + 1 - (Len(kept) - i)
  <2>1. CASE i = Len(kept)
    BY <1>1, <2>1
  <2>2. CASE i # Len(kept)
    <3>1. i \in 1..(Len(kept) - 1)
      BY <1>1, <2>2
    <3>2. kept[i] = g - (Len(s) - (i + dropped))
      BY <1>1, <1>2, <3>1 DEF SnapshotsConsecutive
    <3> QED
      BY <1>1, <1>3, <3>2
  <2> QED
    BY <2>1, <2>2
<1>5. SnapshotsConsecutive(kept, g + 1)
  BY <1>0, <1>1, <1>2, <1>4 DEF SnapshotsConsecutive
<1> QED
  BY <1>5 DEF kept

\* The inductive form: it also covers a proof that is not stored yet.
RetentionInv ==
    \A r \in Requests :
        /\ proofs[r] = None => history[r] = <<>> /\ snapshots[r] = <<>>
        /\ proofs[r] # None =>
             /\ HistoryOrdered(history[r], proofs[r].generation)
             /\ SnapshotsConsecutive(snapshots[r], proofs[r].generation)

LEMMA EmptyIsOrdered ==
  ASSUME NEW g PROVE HistoryOrdered(<<>>, g) /\ SnapshotsConsecutive(<<>>, g)
<1>1. Len(<<>>) <= max_history /\ DOMAIN <<>> = {}
  BY RuntimeLimitsAssumption
<1> QED
  BY <1>1 DEF HistoryOrdered, SnapshotsConsecutive

\* The only steps that touch what is retained.
LEMMA RetainedKept ==
  ASSUME [Next]_vars, ~\E t \in Evaluators : CommitRevision(t),
         ~\E r \in Requests, target \in Targets, a \in Actors : LifecycleApplied(r, target, a)
  PROVE  UNCHANGED <<history, snapshots>>
<1>1. CASE UNCHANGED vars
  BY <1>1 DEF vars, storeVars
<1>2. CASE AuthorityMoves \/ EvidenceMoves
  BY <1>2 DEF AuthorityMoves, EvidenceMoves, storeVars
<1>3. ASSUME NEW p \in Policies, NEW content \in Contents, NEW a \in Actors,
             PublishPolicy(p, content, a)
      PROVE  UNCHANGED <<history, snapshots>>
  BY <1>3 DEF PublishPolicy
<1>4. ASSUME NEW t \in Evaluators, NEW r \in Requests, NEW a \in Actors,
             Evaluate(t, r, a) \/ Revalidate(t, r, a)
      PROVE  UNCHANGED <<history, snapshots>>
  BY <1>4 DEF Evaluate, EnterEvaluation, Revalidate, storeVars
<1>5. ASSUME NEW t \in Evaluators, EvaluationStep(t) PROVE UNCHANGED <<history, snapshots>>
  BY <1>5 DEF EvaluationStep, RevalidateEnter, EnterEvaluation, RevalidateRefused, Observe, Judge,
     Recheck, CommitRefused, CommitConflict, CommitUnchanged, storeVars
<1>6. ASSUME NEW r \in Requests, NEW target \in Targets, NEW a \in Actors, LifecycleStep(r, target, a)
      PROVE  UNCHANGED <<history, snapshots>>
  BY <1>6 DEF LifecycleStep, LifecycleUnchanged, LifecycleForgotten, storeVars
<1>7. CASE InvalidationStep
  BY <1>7 DEF InvalidationStep, DemoteTopologyEntities, DemoteTopologyGeneration,
     DemoteFailureDomainGeneration, DemoteDomains, DemotePath, DemotePolicy
<1>8. ASSUME NEW b \in Boots, FenceBootBegin(b) \/ FenceBootDemote(b) \/ DemoteBoot(b)
      PROVE  UNCHANGED <<history, snapshots>>
  BY <1>8 DEF FenceBootBegin, FenceBootDemote, DemoteBoot, storeVars
<1>9. ASSUME NEW t \in Refreshers, RefreshBegin(t) \/ RefreshStep(t)
      PROVE  UNCHANGED <<history, snapshots>>
  BY <1>9 DEF RefreshBegin, RefreshStep, RefreshAskPath, RefreshReadPolicy, RefreshReadProof,
     RefreshApply, storeVars
<1> QED
  BY <1>1, <1>2, <1>3, <1>4, <1>5, <1>6, <1>7, <1>8, <1>9 DEF Next

LEMMA RetentionNext == TypeInv /\ RetentionInv /\ [Next]_vars => RetentionInv'
<1> SUFFICES ASSUME TypeInv, RetentionInv, [Next]_vars, NEW r \in Requests
             PROVE  /\ proofs'[r] = None => history'[r] = <<>> /\ snapshots'[r] = <<>>
                    /\ proofs'[r] # None =>
                         /\ HistoryOrdered(history'[r], proofs'[r].generation)
                         /\ SnapshotsConsecutive(snapshots'[r], proofs'[r].generation)
  BY DEF RetentionInv, HistoryOrdered, SnapshotsConsecutive
<1>0. StoreTypeOK /\ MaxGeneration \in Nat
  BY RuntimeLimitsAssumption DEF TypeInv, RuntimeTypeOK
<1>a. /\ history[r] \in Seq(Retained) /\ snapshots[r] \in Seq(1..MaxGeneration)
      /\ proofs[r] # None => /\ proofs[r] \in Revision /\ proofs[r].generation \in 0..MaxGeneration
                             /\ RetainedOf(proofs[r]) \in Retained
                             /\ RetainedOf(proofs[r]).generation = proofs[r].generation
  <2>1. proofs[r] # None => proofs[r] \in Revision
    BY <1>0 DEF StoreTypeOK
  <2>2. history[r] \in Seq(Retained) /\ snapshots[r] \in Seq(1..MaxGeneration)
    BY <1>0 DEF StoreTypeOK
  <2> QED
    BY <2>1, <2>2 DEF Revision, RetainedOf, Retained
<1>b. /\ proofs[r] = None => history[r] = <<>> /\ snapshots[r] = <<>>
      /\ proofs[r] # None => /\ HistoryOrdered(history[r], proofs[r].generation)
                             /\ SnapshotsConsecutive(snapshots[r], proofs[r].generation)
  BY DEF RetentionInv
<1>1. CASE history'[r] = history[r] /\ snapshots'[r] = snapshots[r] /\ NotRevived(r)
  BY <1>b, <1>1, EmptyIsOrdered DEF NotRevived
<1>2. ASSUME NEW t \in Evaluators, CommitRevision(t), evaluations[t].request = r
      PROVE  /\ proofs'[r] # None
             /\ HistoryOrdered(history'[r], proofs'[r].generation)
             /\ SnapshotsConsecutive(snapshots'[r], proofs'[r].generation)
  <2> DEFINE old == RecordOf(r)
  <2>1. /\ proofs'[r] = RevisionOf(evaluations[t]) /\ proofs'[r] # None
        /\ proofs'[r].generation = old.generation + 1 /\ old.generation \in Nat
        /\ proofs'[r].generation \in 1..MaxGeneration
    <3>1. proofs'[r] = RevisionOf(evaluations[t]) /\ RevisionOf(evaluations[t]) \in Revision
      <4>1. proofs' = [proofs EXCEPT ![r] = RevisionOf(evaluations[t])] /\ RevisionOf(evaluations[t]) \in Revision
        BY <1>2, CommitWrites
      <4>2. DOMAIN proofs = Requests
        BY <1>0 DEF StoreTypeOK
      <4> QED
        BY <4>1, <4>2
    <3>2. RevisionOf(evaluations[t]).generation = old.generation + 1 /\ old.generation \in Nat
      BY <1>2, CommitWrites
    <3>3. RevisionOf(evaluations[t]).generation \in 0..MaxGeneration
      BY <3>1 DEF Revision
    <3> QED
      BY <1>0, <3>1, <3>2, <3>3, RuntimeNoneAssumption
  <2>2. /\ history'[r] = IF old.generation = Unset THEN history[r] ELSE Push(history[r], RetainedOf(old))
        /\ snapshots'[r] = Push(snapshots[r], old.generation + 1)
    BY <1>0, <1>2 DEF CommitRevision, StoreTypeOK
  <2>3. HistoryOrdered(history[r], old.generation) /\ SnapshotsConsecutive(snapshots[r], old.generation)
    <3>1. CASE proofs[r] = None
      BY <1>b, <3>1, EmptyIsOrdered
    <3>2. CASE proofs[r] # None
      BY <1>b, <3>2 DEF RecordOf
    <3> QED
      BY <3>1, <3>2
  <2>4. SnapshotsConsecutive(snapshots'[r], old.generation + 1)
    BY <1>a, <2>1, <2>2, <2>3, SnapshotsPushed
  <2>5. HistoryOrdered(history'[r], old.generation + 1)
    <3>1. CASE old.generation = Unset
      <4>1. \A i \in DOMAIN history[r] : history[r][i].generation \in Nat
        <5>1. \A i \in DOMAIN history[r] : history[r][i] \in Retained
          BY <1>a
        <5> QED
          BY <1>0, <5>1 DEF Retained
      <4> QED
        BY <2>1, <2>2, <2>3, <3>1, <4>1 DEF HistoryOrdered
    <3>2. CASE old.generation # Unset
      <4>1. old = proofs[r] /\ proofs[r] # None
        BY <3>2 DEF RecordOf, EmptyRevision
      <4> HIDE DEF old
      <4>2. RetainedOf(old) \in Retained /\ RetainedOf(old).generation = old.generation
        BY <1>a, <4>1
      <4>3. HistoryOrdered(Push(history[r], RetainedOf(old)), old.generation + 1)
        BY <1>a, <2>1, <2>3, <4>2, HistoryPushed
      <4> QED
        BY <2>2, <3>2, <4>3
    <3> QED
      BY <3>1, <3>2
  <2> QED
    BY <2>1, <2>4, <2>5
<1>3. ASSUME NEW t \in Evaluators, CommitRevision(t), evaluations[t].request # r
      PROVE  history'[r] = history[r] /\ snapshots'[r] = snapshots[r] /\ NotRevived(r)
  <2>1. history'[r] = history[r] /\ snapshots'[r] = snapshots[r] /\ proofs'[r] = proofs[r]
    BY <1>0, <1>3 DEF CommitRevision, StoreTypeOK
  <2> QED
    BY <2>1 DEF NotRevived, IsCurrent
<1>4. ASSUME NEW q \in Requests, NEW target \in Targets, NEW a \in Actors,
             LifecycleApplied(q, target, a), ~\E t \in Evaluators : CommitRevision(t)
      PROVE  /\ proofs'[r] = None => history'[r] = <<>> /\ snapshots'[r] = <<>>
             /\ proofs'[r] # None => /\ HistoryOrdered(history'[r], proofs'[r].generation)
                                     /\ SnapshotsConsecutive(snapshots'[r], proofs'[r].generation)
  <2>1. NotRevived(r) /\ snapshots' = snapshots
    BY <1>4, OnlyCommitsRevive DEF LifecycleApplied
  <2>2. CASE q # r
    BY <1>0, <1>1, <1>4, <2>1, <2>2 DEF LifecycleApplied, StoreTypeOK
  <2>3. CASE q = r
    <3>1. /\ proofs[r] # None /\ proofs'[r] # None /\ proofs'[r].generation = proofs[r].generation
          /\ history'[r] = Push(history[r], RetainedOf(proofs[r]))
      BY <1>0, <1>4, <2>1, <2>3 DEF LifecycleApplied, StoreTypeOK, NotRevived
    <3>2. proofs[r].generation \in Nat /\ proofs[r].generation >= proofs[r].generation
      BY <1>0, <1>a, <3>1
    <3>3. HistoryOrdered(history'[r], proofs[r].generation)
      BY <1>a, <1>b, <3>1, <3>2, HistoryPushed
    <3> QED
      BY <1>b, <2>1, <3>1, <3>3
  <2> QED
    BY <2>2, <2>3
<1>5. CASE /\ ~\E t \in Evaluators : CommitRevision(t)
           /\ ~\E q \in Requests, target \in Targets, a \in Actors : LifecycleApplied(q, target, a)
  BY <1>1, <1>5, RetainedKept, OnlyCommitsRevive
<1> QED
  BY <1>1, <1>2, <1>3, <1>4, <1>5

\* In every reachable state the retained revisions of a proof are in the order they
\* were committed and end where its current revision begins, its snapshots are the
\* last consecutive generations up to the current one, and neither exceeds
\* max_history.
THEOREM RetentionIsOrdered == Spec => []RevisionsOrdered
<1>1. Init => RetentionInv
  BY DEF Init, RetentionInv
<1>2. TypeInv /\ RetentionInv /\ [Next]_vars => RetentionInv'
  BY RetentionNext
<1>3. RetentionInv => RevisionsOrdered
  BY DEF RetentionInv, RevisionsOrdered, StoredProofs, HistoryOrdered, SnapshotsConsecutive
<1> QED
  BY <1>1, <1>2, <1>3, TypeInvariant, PTL DEF Spec
=============================================================================
