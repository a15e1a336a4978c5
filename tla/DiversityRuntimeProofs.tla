----------------------- MODULE DiversityRuntimeProofs -----------------------
(***************************************************************************)
(* Proofs about the diversity runtime, for every number of callers,        *)
(* requests, boots and generations.                                        *)
(***************************************************************************)
EXTENDS DiversityRuntime, PublicationAuthorityProofs

-----------------------------------------------------------------------------
(* Every step of the runtime is a step of its publication authority, or    *)
(* leaves it alone.                                                        *)

\* Admission looks at five fields of the acting authority, so the runtime's
\* larger record is admitted exactly when its projection is.
LEMMA AdmissionIsAuthorityStep ==
  ASSUME NEW a \in Actors, NEW payload \in Payloads,
         AdmitStatus(a, payload) = "ACCEPTED",
         attempts' = AttemptsWith(a.attempt, payload),
         UNCHANGED <<epoch, epoch_restored, sessions, fenced>>
  PROVE  AuthorityNext
<1> DEFINE b == [publisher |-> a.publisher, boot |-> a.boot, scope |-> a.scope,
                 epoch |-> a.epoch, attempt |-> a.attempt]
<1>1. b \in ActingAuthority
  BY RuntimeAssumption DEF Actor, ActingAuthority
<1>2. AdmitStatus(b, payload) = AdmitStatus(a, payload) /\ b.attempt = a.attempt
  BY DEF AdmitStatus, ValidateStatus
<1>3. Admit(b, payload)
  BY <1>2 DEF Admit
<1> QED
  BY <1>1, <1>3 DEF AuthorityNext

\* An attempt that a replay records again keeps its payload.
LEMMA ReplayKeepsAttempts ==
  ASSUME AuthorityTypeOK, NEW a \in Actors, NEW payload \in Payloads,
         AdmitStatus(a, payload) = "IDEMPOTENT"
  PROVE  AttemptsWith(a.attempt, payload) = attempts
<1>1. ValidateStatus(a) # "IDEMPOTENT"
  BY DEF ValidateStatus
<1>2. attempts[a.attempt] = payload
  BY <1>1 DEF AdmitStatus
<1> QED
  BY <1>2 DEF AttemptsWith, AuthorityTypeOK

LEMMA AuthorityStep == AuthorityTypeOK /\ CallTypeOK /\ [Next]_vars => [AuthorityNext]_authorityVars
<1> SUFFICES ASSUME AuthorityTypeOK, CallTypeOK, [Next]_vars
             PROVE  AuthorityNext \/ UNCHANGED authorityVars
  OBVIOUS
<1>1. CASE AuthorityMoves
  BY <1>1, RuntimeAssumption DEF AuthorityMoves, AuthorityNext
<1>2. CASE EvidenceMoves
  BY <1>2 DEF EvidenceMoves
<1>3. ASSUME NEW p \in Policies, NEW content \in Contents, NEW a \in Actors,
             PublishPolicy(p, content, a)
      PROVE  AuthorityNext
  <2>1. PolicyPayload(content) \in Payloads
    BY RuntimeAssumption
  <2> QED
    BY <1>3, <2>1, AdmissionIsAuthorityStep DEF PublishPolicy, PolicyAccepted
<1>4. ASSUME NEW t \in Evaluators, NEW r \in Requests, NEW a \in Actors, EnterEvaluation(t, r, a)
      PROVE  AuthorityNext
  <2>1. RequestPayload(r) \in Payloads
    BY RuntimeAssumption
  <2> QED
    BY <1>4, <2>1, AdmissionIsAuthorityStep DEF EnterEvaluation, Entered
<1>5. ASSUME NEW t \in Evaluators, EvaluationStep(t)
      PROVE  AuthorityNext \/ UNCHANGED authorityVars
  <2>1. ASSUME evaluations[t] # None
        PROVE  /\ evaluations[t].request \in Requests
               /\ evaluations[t].authority \in Actors
               /\ evaluations[t].authority.attempt \in Attempts
    BY <2>1, RuntimeAssumption DEF CallTypeOK, Evaluation, Actor
  <2>2. CASE RevalidateEnter(t)
    BY <1>4, <2>1, <2>2 DEF RevalidateEnter, InPhase
  <2>3. CASE RevalidateRefused(t) \/ Observe(t) \/ Judge(t) \/ Recheck(t)
               \/ CommitUnchanged(t) \/ CommitRevision(t)
    BY <2>3 DEF RevalidateRefused, Observe, Judge, Recheck, CommitUnchanged, CommitRevision
  <2>4. CASE CommitRefused(t) \/ CommitConflict(t)
    BY <2>1, <2>4 DEF CommitRefused, CommitConflict, InPhase, AuthorityNext
  <2> QED
    BY <1>5, <2>2, <2>3, <2>4 DEF EvaluationStep
<1>6. ASSUME NEW r \in Requests, NEW target \in Targets, NEW a \in Actors, LifecycleStep(r, target, a)
      PROVE  AuthorityNext \/ UNCHANGED authorityVars
  <2>1. LifecyclePayload(r, target) \in Payloads /\ a.attempt \in Attempts
    BY RuntimeAssumption DEF Actor
  <2>2. CASE LifecycleStatus(r, target, a) = "ACCEPTED"
    BY <1>6, <2>1, <2>2, AdmissionIsAuthorityStep
    DEF LifecycleStep, LifecycleApplied, LifecycleUnchanged, LifecycleForgotten, LifecycleStatus
  <2>3. CASE LifecycleForgotten(r, target, a)
    BY <2>1, <2>3 DEF LifecycleForgotten, AuthorityNext
  <2>4. CASE LifecycleStatus(r, target, a) = "IDEMPOTENT" /\ LifecycleApplied(r, target, a)
    BY <2>1, <2>4, ReplayKeepsAttempts DEF LifecycleApplied, LifecycleStatus, authorityVars
  <2> QED
    BY <1>6, <2>2, <2>3, <2>4 DEF LifecycleStep, LifecycleApplied, LifecycleUnchanged
<1>7. CASE InvalidationStep
  BY <1>7 DEF InvalidationStep, DemoteTopologyEntities, DemoteTopologyGeneration,
     DemoteFailureDomainGeneration, DemoteDomains, DemotePath, DemotePolicy
<1>8. ASSUME NEW b \in Boots, FenceBootBegin(b) \/ FenceBootDemote(b) \/ DemoteBoot(b)
      PROVE  AuthorityNext \/ UNCHANGED authorityVars
  BY <1>8 DEF FenceBootBegin, FenceBootDemote, DemoteBoot, AuthorityNext
<1>9. ASSUME NEW t \in Refreshers, RefreshBegin(t) \/ RefreshStep(t)
      PROVE  UNCHANGED authorityVars
  BY <1>9 DEF RefreshBegin, RefreshStep, RefreshAskPath, RefreshReadPolicy, RefreshReadProof, RefreshApply
<1>10. ASSUME NEW t \in Evaluators, NEW r \in Requests, NEW a \in Actors,
              Evaluate(t, r, a) \/ Revalidate(t, r, a)
       PROVE  AuthorityNext \/ UNCHANGED authorityVars
  BY <1>4, <1>10 DEF Evaluate, Revalidate
<1> QED
  BY <1>1, <1>2, <1>3, <1>5, <1>6, <1>7, <1>8, <1>9, <1>10 DEF Next, vars

-----------------------------------------------------------------------------
(* Types, together with what a running evaluation carries: without the     *)
(* latter a committed revision could not be shown to be one.               *)

\* The watermarks of an evaluation lie behind the evidence, and the domains it
\* consulted are those of a classification between its watermark and now; once
\* the recheck found no drift they are those of the watermark itself.
PhaseConsistent(e) ==
    /\ e.pc # "admit" => e.content \in Contents
    /\ e.pc \in {"judge", "recheck", "commit"} =>
         e.topology \in 1..topology /\ e.domains \in 1..failure_domains
    /\ e.pc \in {"recheck", "commit"} => e.outcome \in Outcomes
    /\ e.pc = "recheck" /\ e.outcome \notin RejectedOutcomes =>
         \E d \in 1..failure_domains : e.domains <= d /\ e.consulted = Consulted(e.request, d)
    /\ e.pc = "commit" /\ e.outcome \notin RejectedOutcomes /\ ~e.drift =>
         e.consulted = Consulted(e.request, e.domains)

EvaluationsConsistent ==
    \A t \in Evaluators : evaluations[t] # None => PhaseConsistent(evaluations[t])

RuntimeTypeOK == StoreTypeOK /\ IndexTypeOK /\ CallTypeOK /\ EvidenceTypeOK /\ GhostTypeOK

TypeInv == AuthorityInv /\ RuntimeTypeOK /\ EvaluationsConsistent

LEMMA TypeInit == Init => RuntimeTypeOK /\ EvaluationsConsistent
<1> SUFFICES ASSUME Init PROVE RuntimeTypeOK /\ EvaluationsConsistent
  OBVIOUS
<1>1. StoreTypeOK
  BY DEF Init, StoreTypeOK
<1>2. IndexTypeOK /\ CallTypeOK /\ EvaluationsConsistent
  BY DEF Init, IndexTypeOK, CallTypeOK, EvaluationsConsistent
<1>3. EvidenceTypeOK
  <2>1. topology \in 1..MaxTopology /\ failure_domains \in 1..MaxDomains /\ 1 \in 1..MaxPath
    BY RuntimeLimitsAssumption DEF Init
  <2> QED
    BY <2>1 DEF Init, EvidenceTypeOK
<1>4. GhostTypeOK
  BY DEF Init, GhostTypeOK
<1> QED
  BY <1>1, <1>2, <1>3, <1>4 DEF RuntimeTypeOK

\* A running evaluation and its parts.
LEMMA EvaluationParts ==
  ASSUME CallTypeOK, NEW t \in Evaluators, evaluations[t] # None
  PROVE  /\ evaluations[t] \in Evaluation
         /\ evaluations[t].request \in Requests
         /\ evaluations[t].authority \in Actors
         /\ evaluations[t].authority.attempt \in Attempts
         /\ evaluations[t].authority.boot \in Boots
         /\ evaluations[t].authority.epoch \in 0..MaxEpoch
         /\ IsRequest(evaluations[t].request)
  BY RuntimeAssumption DEF CallTypeOK, Evaluation, Actor

\* Replacing one evaluation by a consistent one while the evidence stands still.
LEMMA EvaluationReplaced ==
  ASSUME CallTypeOK, EvaluationsConsistent, NEW t \in Evaluators, NEW e \in Evaluation \cup {None},
         e # None => PhaseConsistent(e),
         evaluations' = [evaluations EXCEPT ![t] = e],
         UNCHANGED <<refreshes, fencing, topology, failure_domains>>
  PROVE  CallTypeOK' /\ EvaluationsConsistent'
<1>1. CallTypeOK'
  BY DEF CallTypeOK
<1>2. \A u \in Evaluators : evaluations'[u] # None => PhaseConsistent(evaluations'[u])
  BY DEF CallTypeOK, EvaluationsConsistent
<1> QED
  BY <1>1, <1>2 DEF EvaluationsConsistent, PhaseConsistent

\* What the steps of a call of evaluate do to the calls in progress.
LEMMA EnterType ==
  ASSUME TypeInv, NEW t \in Evaluators, NEW r \in Requests, NEW a \in Actors, EnterEvaluation(t, r, a)
  PROVE  RuntimeTypeOK' /\ EvaluationsConsistent'
<1> DEFINE e == [pc |-> "observe", request |-> r, authority |-> a,
                 content |-> policies[r.policy].content,
                 topology |-> Unset, domains |-> Unset, outcome |-> None,
                 consulted |-> {}, drift |-> FALSE]
<1>1. policies[r.policy].content \in Contents
  BY RuntimeAssumption DEF EnterEvaluation, Entered, PolicyMatches, TypeInv, RuntimeTypeOK,
     StoreTypeOK, Policy, IsRequest
<1>2. Unset \in 0..MaxTopology /\ Unset \in 0..MaxDomains
  BY RuntimeLimitsAssumption DEF Unset
<1>3. e \in Evaluation
  BY <1>1, <1>2 DEF Evaluation
<1>4. PhaseConsistent(e)
  BY <1>1 DEF PhaseConsistent
<1>5. CallTypeOK' /\ EvaluationsConsistent'
  BY <1>3, <1>4, EvaluationReplaced DEF EnterEvaluation, TypeInv, RuntimeTypeOK, evidenceVars
<1> QED
  BY <1>5 DEF EnterEvaluation, TypeInv, RuntimeTypeOK, StoreTypeOK, IndexTypeOK, EvidenceTypeOK,
     GhostTypeOK, storeVars, indexVars, evidenceVars, ghostVars

LEMMA RevalidateType ==
  ASSUME TypeInv, NEW t \in Evaluators, NEW r \in Requests, NEW a \in Actors, Revalidate(t, r, a)
  PROVE  RuntimeTypeOK' /\ EvaluationsConsistent'
<1> DEFINE e == [pc |-> "admit", request |-> r, authority |-> a, content |-> None,
                 topology |-> Unset, domains |-> Unset, outcome |-> None,
                 consulted |-> {}, drift |-> FALSE]
<1>1. Unset \in 0..MaxTopology /\ Unset \in 0..MaxDomains
  BY RuntimeLimitsAssumption DEF Unset
<1>2. e \in Evaluation
  BY <1>1 DEF Evaluation
<1>3. PhaseConsistent(e)
  BY DEF PhaseConsistent
<1>4. CallTypeOK' /\ EvaluationsConsistent'
  BY <1>2, <1>3, EvaluationReplaced DEF Revalidate, TypeInv, RuntimeTypeOK, evidenceVars
<1> QED
  BY <1>4 DEF Revalidate, TypeInv, RuntimeTypeOK, StoreTypeOK, IndexTypeOK, EvidenceTypeOK,
     GhostTypeOK, storeVars, indexVars, evidenceVars, ghostVars

\* Phase 2 and the ends of a call write nothing but the call itself.
LEMMA PhaseType ==
  ASSUME TypeInv, NEW t \in Evaluators,
         RevalidateRefused(t) \/ Observe(t) \/ Judge(t) \/ Recheck(t)
           \/ CommitRefused(t) \/ CommitUnchanged(t)
  PROVE  RuntimeTypeOK' /\ EvaluationsConsistent'
<1> DEFINE old == evaluations[t]
<1>0. /\ UNCHANGED <<storeVars, indexVars, refreshes, fencing, evidenceVars, ghostVars>>
      /\ old \in Evaluation /\ old # None /\ PhaseConsistent(old)
      /\ CallTypeOK /\ EvaluationsConsistent /\ EvidenceTypeOK
      /\ topology \in 1..MaxTopology /\ failure_domains \in 1..MaxDomains
      /\ old.request \in Requests
  BY EvaluationParts DEF RevalidateRefused, Observe, Judge, Recheck, CommitRefused, CommitUnchanged,
     Committable, InPhase, TypeInv, RuntimeTypeOK, EvaluationsConsistent, EvidenceTypeOK
<1> SUFFICES CallTypeOK' /\ EvaluationsConsistent'
  BY <1>0 DEF TypeInv, RuntimeTypeOK, StoreTypeOK, IndexTypeOK, EvidenceTypeOK,
     GhostTypeOK, storeVars, indexVars, evidenceVars, ghostVars
<1>1. CASE RevalidateRefused(t) \/ CommitRefused(t) \/ CommitUnchanged(t)
  BY <1>0, <1>1, EvaluationReplaced
  DEF RevalidateRefused, CommitRefused, CommitUnchanged, EndEvaluation, evidenceVars
<1>2. CASE Observe(t)
  <2> DEFINE e == [old EXCEPT !.pc = "judge", !.topology = topology, !.domains = failure_domains]
  <2>1. evaluations' = [evaluations EXCEPT ![t] = e]
    BY <1>2 DEF Observe
  <2>0. topology \in 0..MaxTopology /\ failure_domains \in 0..MaxDomains
    BY <1>0, RuntimeLimitsAssumption
  <2>2. e \in Evaluation
    BY <1>0, <2>0 DEF Evaluation
  <2>3. PhaseConsistent(e)
    BY <1>0, <1>2, RuntimeLimitsAssumption DEF PhaseConsistent, Evaluation, Observe, InPhase
  <2> QED
    BY <1>0, <2>1, <2>2, <2>3, EvaluationReplaced DEF evidenceVars
<1>3. CASE Judge(t)
  <2>1. PICK outcome \in JudgedOutcomes(old) :
          evaluations' = [evaluations EXCEPT
             ![t].pc = "recheck", ![t].outcome = outcome,
             ![t].consulted = IF outcome \in RejectedOutcomes
                                THEN {} ELSE Consulted(old.request, failure_domains)]
    BY <1>3 DEF Judge
  <2> DEFINE c == IF outcome \in RejectedOutcomes THEN {} ELSE Consulted(old.request, failure_domains)
             e == [old EXCEPT !.pc = "recheck", !.outcome = outcome, !.consulted = c]
  <2>2. evaluations' = [evaluations EXCEPT ![t] = e]
    BY <2>1
  <2>3. outcome \in Outcomes
    BY RuntimeAssumption DEF JudgedOutcomes, EarlyRejections, EvidenceOutcomes, UnknownOutcome,
       PathRefusal, Outcomes, CompletedOutcomes, RejectedOutcomes
  <2>4. c \in SUBSET Domains
    BY <1>0, EvidenceAssumption
  <2>5. e \in Evaluation
    BY <1>0, <2>3, <2>4 DEF Evaluation
  <2>6. old.pc = "judge" /\ old.topology \in 1..topology /\ old.domains \in 1..failure_domains
          /\ old.content \in Contents
    BY <1>0, <1>3 DEF Judge, InPhase, PhaseConsistent
  <2>7. /\ e.pc = "recheck" /\ e.outcome = outcome /\ e.consulted = c /\ e.request = old.request
        /\ e.topology = old.topology /\ e.domains = old.domains /\ e.content = old.content
    BY <1>0 DEF Evaluation
  <2>8. PhaseConsistent(e)
    <3>1. failure_domains \in 1..failure_domains /\ old.domains <= failure_domains
      BY <1>0, <2>6, RuntimeLimitsAssumption
    <3> QED
      BY <2>3, <2>6, <2>7, <3>1 DEF PhaseConsistent
  <2> QED
    BY <1>0, <2>2, <2>5, <2>8, EvaluationReplaced DEF evidenceVars
<1>4. CASE Recheck(t)
  <2> DEFINE e == [old EXCEPT !.pc = "commit", !.drift = Drifted(old)]
  <2>1. evaluations' = [evaluations EXCEPT ![t] = e]
    BY <1>4 DEF Recheck
  <2>2. Drifted(old) \in BOOLEAN
    BY DEF Drifted
  <2>3. e \in Evaluation
    BY <1>0, <2>2 DEF Evaluation
  <2>4. /\ e.pc = "commit" /\ e.outcome = old.outcome /\ e.consulted = old.consulted
        /\ e.request = old.request /\ e.topology = old.topology /\ e.domains = old.domains
        /\ e.content = old.content /\ e.drift = Drifted(old)
    BY <1>0 DEF Evaluation
  <2>5. old.pc = "recheck"
    BY <1>4 DEF Recheck, InPhase
  <2>6. ASSUME old.outcome \notin RejectedOutcomes, ~Drifted(old)
        PROVE  old.consulted = Consulted(old.request, old.domains)
    <3>1. PICK d \in 1..failure_domains :
            old.domains <= d /\ old.consulted = Consulted(old.request, d)
      BY <1>0, <2>5, <2>6 DEF PhaseConsistent
    <3>2. old.domains = failure_domains
      BY <2>6 DEF Drifted
    <3> QED
      BY <1>0, <3>1, <3>2, RuntimeLimitsAssumption
  <2>7. PhaseConsistent(e)
    BY <1>0, <2>4, <2>5, <2>6 DEF PhaseConsistent
  <2> QED
    BY <1>0, <2>1, <2>3, <2>7, EvaluationReplaced DEF evidenceVars
<1> QED
  BY <1>1, <1>2, <1>3, <1>4

-----------------------------------------------------------------------------
(* Retention.                                                              *)
LEMMA PushType ==
  ASSUME NEW S, NEW s \in Seq(S), NEW x \in S
  PROVE  Push(s, x) \in Seq(S)
<1>1. CASE Len(s) >= max_history
  <2>1. s # <<>>
    BY <1>1, RuntimeLimitsAssumption
  <2>2. Tail(s) \in Seq(S)
    BY <2>1
  <2> QED
    BY <1>1, <2>2 DEF Push
<1>2. CASE ~(Len(s) >= max_history)
  BY <1>2 DEF Push
<1> QED
  BY <1>1, <1>2

\* The record a commit works on, and the revision it writes.
LEMMA RecordType ==
  ASSUME StoreTypeOK, NEW r \in Requests
  PROVE  RecordOf(r) \in Revision
<1>1. EmptyRevision \in Revision
  BY RuntimeLimitsAssumption, LimitsAssumption
  DEF EmptyRevision, Revision, Unset, Outcomes, RejectedOutcomes, LifecycleStates, Currentness
<1> QED
  BY <1>1 DEF RecordOf, StoreTypeOK

LEMMA OutcomeMaps ==
  ASSUME NEW outcome \in Outcomes
  PROVE  LifecycleForOutcome(outcome) \in LifecycleStates /\ CurrentnessForOutcome(outcome) \in Currentness
<1>1. LifecycleForOutcome(outcome) \in LifecycleStates
  BY DEF LifecycleForOutcome, LifecycleStates
<1>2. CurrentnessForOutcome(outcome) \in Currentness
  BY DEF CurrentnessForOutcome, Currentness, ConclusiveOutcomes
<1> QED
  BY <1>1, <1>2

LEMMA RevisionType ==
  ASSUME TypeInv, NEW t \in Evaluators, Committable(t)
  PROVE  RevisionOf(evaluations[t]) \in Revision
<1> DEFINE e == evaluations[t]
           outcome == IF e.drift THEN "REVALIDATION_REQUIRED" ELSE e.outcome
<1>1. /\ e \in Evaluation /\ e # None /\ PhaseConsistent(e) /\ e.pc = "commit"
      /\ e.request \in Requests /\ IsRequest(e.request)
      /\ e.authority.attempt \in Attempts /\ e.authority.boot \in Boots
      /\ e.authority.epoch \in 0..MaxEpoch
  BY EvaluationParts DEF Committable, InPhase, TypeInv, RuntimeTypeOK, EvaluationsConsistent
<1>2. e.topology \in 1..MaxTopology /\ e.domains \in 1..MaxDomains /\ e.outcome \in Outcomes
  <2>1. topology \in 1..MaxTopology /\ failure_domains \in 1..MaxDomains
    BY DEF TypeInv, RuntimeTypeOK, EvidenceTypeOK
  <2> QED
    BY <1>1, <2>1, RuntimeLimitsAssumption DEF PhaseConsistent
<1>3. outcome \in Outcomes
  BY <1>2 DEF Outcomes, CompletedOutcomes
<1>4. LifecycleForOutcome(outcome) \in LifecycleStates /\ CurrentnessForOutcome(outcome) \in Currentness
  BY <1>3, OutcomeMaps
<1>5. RecordOf(e.request).generation + 1 \in 0..MaxGeneration
  <2>1. RecordOf(e.request).generation \in 0..MaxGeneration
    BY <1>1, RecordType DEF TypeInv, RuntimeTypeOK, Revision
  <2>2. RecordOf(e.request).generation # MaxGeneration
    BY DEF Committable, CanAdvance
  <2> QED
    BY <2>1, <2>2, RuntimeLimitsAssumption
<1>6. Footprint(e.request, e.topology) \in SUBSET Entities
  BY <1>1, <1>2, EvidenceAssumption
<1>7. /\ e.topology \in 0..MaxTopology /\ Unset \in 0..MaxTopology
      /\ e.domains \in 0..MaxDomains /\ Unset \in 0..MaxDomains /\ Unset \in Nat
  BY <1>2, RuntimeLimitsAssumption DEF Unset
<1>8. e.request.policy_generation \in Nat /\ DOMAIN e.request.paths \in SUBSET Paths
  BY <1>1 DEF IsRequest
<1> QED
  BY <1>1, <1>3, <1>4, <1>5, <1>6, <1>7, <1>8 DEF RevisionOf, Revision

LEMMA CommitConflictType ==
  ASSUME TypeInv, NEW t \in Evaluators, CommitConflict(t)
  PROVE  RuntimeTypeOK' /\ EvaluationsConsistent'
<1>1. evaluations[t] # None /\ evaluations[t].request \in Requests
  BY EvaluationParts DEF CommitConflict, InPhase, TypeInv, RuntimeTypeOK
<1>2. StoreTypeOK'
  BY <1>1, RecordType DEF CommitConflict, TypeInv, RuntimeTypeOK, StoreTypeOK
<1>3. CallTypeOK' /\ EvaluationsConsistent'
  BY EvaluationReplaced DEF CommitConflict, EndEvaluation, TypeInv, RuntimeTypeOK, evidenceVars
<1> QED
  BY <1>2, <1>3 DEF CommitConflict, TypeInv, RuntimeTypeOK, IndexTypeOK, EvidenceTypeOK,
     GhostTypeOK, indexVars, evidenceVars, ghostVars

LEMMA CommitRevisionType ==
  ASSUME TypeInv, NEW t \in Evaluators, CommitRevision(t)
  PROVE  RuntimeTypeOK' /\ EvaluationsConsistent'
<1> DEFINE e == evaluations[t]
           r == e.request
           v == RevisionOf(e)
<1>1. /\ e \in Evaluation /\ e # None /\ r \in Requests /\ IsRequest(r)
      /\ e.authority.attempt \in Attempts /\ e.authority.boot \in Boots
  BY EvaluationParts DEF CommitRevision, Committable, InPhase, TypeInv, RuntimeTypeOK
<1>2. v \in Revision
  BY RevisionType DEF CommitRevision
<1>3. RecordOf(r) \in Revision
  BY <1>1, RecordType DEF TypeInv, RuntimeTypeOK
<1>4. RecordOf(r).generation + 1 \in 1..MaxGeneration
  <2>1. RecordOf(r).generation \in 0..MaxGeneration
    BY <1>3 DEF Revision
  <2>2. RecordOf(r).generation # MaxGeneration
    BY DEF CommitRevision, Committable, CanAdvance
  <2> QED
    BY <2>1, <2>2, RuntimeLimitsAssumption
<1>5. StoreTypeOK'
  <2>1. RetainedOf(RecordOf(r)) \in Retained
    BY <1>3 DEF RetainedOf, Retained, Revision
  <2>2. history[r] \in Seq(Retained) /\ snapshots[r] \in Seq(1..MaxGeneration)
    BY <1>1 DEF TypeInv, RuntimeTypeOK, StoreTypeOK
  <2>3. Push(history[r], RetainedOf(RecordOf(r))) \in Seq(Retained)
    BY <2>1, <2>2, PushType
  <2>4. Push(snapshots[r], RecordOf(r).generation + 1) \in Seq(1..MaxGeneration)
    BY <1>4, <2>2, PushType
  <2>5. proofs' \in [Requests -> Revision \cup {None}]
    BY <1>2 DEF CommitRevision, TypeInv, RuntimeTypeOK, StoreTypeOK
  <2>6. history' \in [Requests -> Seq(Retained)]
    BY <2>2, <2>3 DEF CommitRevision, TypeInv, RuntimeTypeOK, StoreTypeOK
  <2>7. snapshots' \in [Requests -> Seq(1..MaxGeneration)]
    BY <2>4 DEF CommitRevision, TypeInv, RuntimeTypeOK, StoreTypeOK
  <2> QED
    BY <2>5, <2>6, <2>7 DEF StoreTypeOK, CommitRevision, TypeInv, RuntimeTypeOK
<1>6. IndexTypeOK'
  <2>1. IndexRevision(r, v, e.consulted)
    BY DEF CommitRevision
  <2>2. /\ DOMAIN r.paths \subseteq Paths /\ r.policy \in Policies
        /\ v.entities \subseteq Entities /\ v.boot \in Boots
        /\ v.topology_generation \in 0..MaxTopology
        /\ v.failure_domain_generation \in 0..MaxDomains
        /\ e.consulted \subseteq Domains
    <3>1. v.boot = e.authority.boot
      BY DEF RevisionOf
    <3> QED
      BY <1>1, <1>2, <3>1 DEF Revision, IsRequest, Evaluation
  <2>3. IndexTypeOK
    BY DEF TypeInv, RuntimeTypeOK
  <2> QED
    BY <1>1, <2>1, <2>2, <2>3 DEF IndexRevision, IndexTypeOK
<1>7. CallTypeOK' /\ EvaluationsConsistent'
  BY EvaluationReplaced DEF CommitRevision, EndEvaluation, TypeInv, RuntimeTypeOK, evidenceVars
<1>8. EvidenceTypeOK' /\ GhostTypeOK'
  BY <1>1 DEF CommitRevision, TypeInv, RuntimeTypeOK, EvidenceTypeOK, GhostTypeOK, evidenceVars
<1> QED
  BY <1>5, <1>6, <1>7, <1>8 DEF RuntimeTypeOK

LEMMA LifecycleType ==
  ASSUME TypeInv, NEW r \in Requests, NEW target \in Targets, NEW a \in Actors,
         LifecycleStep(r, target, a)
  PROVE  RuntimeTypeOK' /\ EvaluationsConsistent'
<1>1. CASE LifecycleApplied(r, target, a)
  <2>1. proofs[r] \in Revision /\ target \in LifecycleStates /\ "REVALIDATION_REQUIRED" \in Currentness
    BY <1>1, RuntimeAssumption DEF LifecycleApplied, TypeInv, RuntimeTypeOK, StoreTypeOK,
       LifecycleTargets, LifecycleStates, Currentness
  <2> DEFINE v == [proofs[r] EXCEPT !.lifecycle = target, !.currentness = "REVALIDATION_REQUIRED"]
  <2>2. v \in Revision
    BY <2>1 DEF Revision
  <2>3. proofs' = [proofs EXCEPT ![r] = v]
    BY <1>1 DEF LifecycleApplied
  <2>4. RetainedOf(proofs[r]) \in Retained
    BY <2>1 DEF RetainedOf, Retained, Revision
  <2>5. Push(history[r], RetainedOf(proofs[r])) \in Seq(Retained)
    BY <2>4, PushType DEF TypeInv, RuntimeTypeOK, StoreTypeOK
  <2>6. StoreTypeOK'
    BY <1>1, <2>2, <2>3, <2>5 DEF LifecycleApplied, TypeInv, RuntimeTypeOK, StoreTypeOK
  <2> QED
    BY <1>1, <2>6 DEF LifecycleApplied, TypeInv, RuntimeTypeOK, IndexTypeOK, CallTypeOK,
       EvidenceTypeOK, GhostTypeOK, EvaluationsConsistent, PhaseConsistent, indexVars, callVars,
       evidenceVars, ghostVars
<1>2. CASE LifecycleUnchanged(r, target, a) \/ LifecycleForgotten(r, target, a)
  BY <1>2 DEF LifecycleUnchanged, LifecycleForgotten, TypeInv, RuntimeTypeOK, StoreTypeOK,
     IndexTypeOK, CallTypeOK, EvidenceTypeOK, GhostTypeOK, EvaluationsConsistent, PhaseConsistent,
     storeVars, indexVars, callVars, evidenceVars, ghostVars
<1> QED
  BY <1>1, <1>2 DEF LifecycleStep

-----------------------------------------------------------------------------
(* Demotion: what every invalidation does to the stored proofs.            *)

\* A proof is left alone or was current and no longer is.
OnlyDemoted ==
    \A r \in Requests :
        \/ proofs'[r] = proofs[r]
        \/ /\ IsCurrent(r)
           /\ \E why \in Currentness \ {"CURRENT"} :
                proofs'[r] = [proofs[r] EXCEPT !.lifecycle = "REVALIDATION_REQUIRED",
                                               !.currentness = why]

LEMMA DemotedOnlyDemotes ==
  ASSUME StoreTypeOK, NEW R, NEW why \in Currentness \ {"CURRENT"}, proofs' = Demoted(R, why)
  PROVE  /\ OnlyDemoted
         /\ proofs' \in [Requests -> Revision \cup {None}]
         /\ \A r \in Requests \cap R : ~IsCurrent(r)'
<1>1. \A r \in Requests : proofs'[r] = IF r \in R /\ IsCurrent(r)
        THEN [proofs[r] EXCEPT !.lifecycle = "REVALIDATION_REQUIRED", !.currentness = why]
        ELSE proofs[r]
  BY DEF Demoted
<1>2. \A r \in Requests : IsCurrent(r) => proofs[r] \in Revision
  BY DEF StoreTypeOK, IsCurrent
<1>3. OnlyDemoted
  BY <1>1 DEF OnlyDemoted
<1>4. \A r \in Requests : proofs'[r] \in Revision \cup {None}
  <2> SUFFICES ASSUME NEW r \in Requests PROVE proofs'[r] \in Revision \cup {None}
    OBVIOUS
  <2>1. CASE r \in R /\ IsCurrent(r)
    <3>1. "REVALIDATION_REQUIRED" \in LifecycleStates
      BY DEF LifecycleStates
    <3> QED
      BY <1>1, <1>2, <2>1, <3>1 DEF Revision
  <2>2. CASE ~(r \in R /\ IsCurrent(r))
    BY <1>1, <2>2 DEF StoreTypeOK
  <2> QED
    BY <2>1, <2>2
<1>5. proofs' \in [Requests -> Revision \cup {None}]
  BY <1>4 DEF Demoted
<1>6. ASSUME NEW r \in Requests \cap R PROVE ~IsCurrent(r)'
  <2>1. CASE IsCurrent(r)
    <3>1. proofs'[r].lifecycle = "REVALIDATION_REQUIRED"
      BY <1>1, <1>2, <2>1 DEF Revision
    <3> QED
      BY <3>1 DEF IsCurrent
  <2>2. CASE ~IsCurrent(r)
    BY <1>1, <2>2 DEF IsCurrent
  <2> QED
    BY <2>1, <2>2
<1> QED
  BY <1>3, <1>5, <1>6

\* A proof that is current after a demotion is the one it was.
LEMMA DemotionKeepsCurrent ==
  ASSUME StoreTypeOK, OnlyDemoted, NEW r \in Requests
  PROVE  /\ IsCurrent(r)' => proofs'[r] = proofs[r] /\ IsCurrent(r)
         /\ proofs[r] # None => proofs'[r] # None /\ proofs'[r].generation = proofs[r].generation
<1>1. CASE proofs'[r] = proofs[r]
  BY <1>1 DEF IsCurrent
<1>2. CASE proofs'[r] # proofs[r]
  <2>1. PICK why \in Currentness \ {"CURRENT"} :
          proofs'[r] = [proofs[r] EXCEPT !.lifecycle = "REVALIDATION_REQUIRED", !.currentness = why]
    BY <1>2 DEF OnlyDemoted
  <2>2. IsCurrent(r)
    BY <1>2 DEF OnlyDemoted
  <2>3. proofs[r] \in Revision
    BY <2>2 DEF IsCurrent, StoreTypeOK
  <2>4. "REVALIDATION_REQUIRED" \in LifecycleStates
    BY DEF LifecycleStates
  <2>5. /\ proofs'[r] \in Revision
        /\ proofs'[r].lifecycle = "REVALIDATION_REQUIRED"
        /\ proofs'[r].generation = proofs[r].generation
    BY <2>1, <2>3, <2>4 DEF Revision
  <2>6. proofs'[r] # None
    BY <2>5, RuntimeNoneAssumption
  <2> QED
    BY <2>5, <2>6 DEF IsCurrent
<1> QED
  BY <1>1, <1>2

\* Every invalidation, the end of fence_boot and the end of a refresh only
\* demote, and touch no index except to erase swept buckets.
LEMMA InvalidationDemotes ==
  ASSUME StoreTypeOK, InvalidationStep \/ \E b \in Boots : FenceBootDemote(b) \/ DemoteBoot(b)
  PROVE  /\ OnlyDemoted
         /\ proofs' \in [Requests -> Revision \cup {None}]
         /\ UNCHANGED <<authorityVars, policies, history, snapshots, by_path, by_domain, by_entity,
                        by_policy, by_boot, evaluations, refreshes, evidenceVars, applied>>
<1>0. {"STALE_TOPOLOGY", "STALE_FAILURE_DOMAIN", "STALE_PATH_AUTHORITY", "STALE_POLICY",
       "FENCED_PUBLISHER"} \subseteq Currentness \ {"CURRENT"}
  BY DEF Currentness
<1>1. ASSUME NEW E, NEW g, DemoteTopologyEntities(E, g)
      PROVE  OnlyDemoted /\ proofs' \in [Requests -> Revision \cup {None}]
  BY <1>0, <1>1, DemotedOnlyDemotes DEF DemoteTopologyEntities
<1>2. ASSUME NEW g, DemoteTopologyGeneration(g)
      PROVE  OnlyDemoted /\ proofs' \in [Requests -> Revision \cup {None}]
  BY <1>0, <1>2, DemotedOnlyDemotes DEF DemoteTopologyGeneration
<1>3. ASSUME NEW g, DemoteFailureDomainGeneration(g)
      PROVE  OnlyDemoted /\ proofs' \in [Requests -> Revision \cup {None}]
  BY <1>0, <1>3, DemotedOnlyDemotes DEF DemoteFailureDomainGeneration
<1>4. ASSUME NEW D, NEW g, DemoteDomains(D, g)
      PROVE  OnlyDemoted /\ proofs' \in [Requests -> Revision \cup {None}]
  BY <1>0, <1>4, DemotedOnlyDemotes DEF DemoteDomains
<1>5. ASSUME NEW path, DemotePath(path)
      PROVE  OnlyDemoted /\ proofs' \in [Requests -> Revision \cup {None}]
  BY <1>0, <1>5, DemotedOnlyDemotes DEF DemotePath
<1>6. ASSUME NEW p, NEW g, DemotePolicy(p, g)
      PROVE  OnlyDemoted /\ proofs' \in [Requests -> Revision \cup {None}]
  BY <1>0, <1>6, DemotedOnlyDemotes DEF DemotePolicy
<1>7. ASSUME NEW b, FenceBootDemote(b) \/ DemoteBoot(b)
      PROVE  OnlyDemoted /\ proofs' \in [Requests -> Revision \cup {None}]
  BY <1>0, <1>7, DemotedOnlyDemotes DEF FenceBootDemote, DemoteBoot, BootDemoted
<1>8. UNCHANGED <<authorityVars, policies, history, snapshots, by_path, by_domain, by_entity,
                  by_policy, by_boot, evaluations, refreshes, evidenceVars, applied>>
  BY DEF InvalidationStep, DemoteTopologyEntities, DemoteTopologyGeneration, DemoteDomains,
     DemoteFailureDomainGeneration, DemotePath, DemotePolicy, FenceBootDemote, DemoteBoot,
     indexVars, callVars, ghostVars
<1> QED
  BY <1>1, <1>2, <1>3, <1>4, <1>5, <1>6, <1>7, <1>8 DEF InvalidationStep

LEMMA RefreshApplyDemotes ==
  ASSUME StoreTypeOK, NEW t \in Refreshers, RefreshApply(t)
  PROVE  OnlyDemoted /\ proofs' \in [Requests -> Revision \cup {None}]
<1> DEFINE f == refreshes[t]
           P == Demoted(Requests, "STALE_POLICY")
           Q == Demoted(Requests, "STALE_PATH_AUTHORITY")
<1>1. \A r \in Requests : proofs'[r] \in {P[r], Q[r], proofs[r]}
  BY DEF RefreshApply, Demoted
<1>2. {"STALE_PATH_AUTHORITY", "STALE_POLICY"} \subseteq Currentness \ {"CURRENT"}
  BY DEF Currentness
<1>3. OnlyDemoted
  BY <1>1, <1>2 DEF Demoted, OnlyDemoted
<1>4. ASSUME NEW r \in Requests PROVE proofs'[r] \in Revision \cup {None}
  <2>1. CASE proofs'[r] = proofs[r]
    BY <2>1 DEF StoreTypeOK
  <2>2. CASE proofs'[r] # proofs[r]
    <3>1. PICK why \in Currentness \ {"CURRENT"} :
            proofs'[r] = [proofs[r] EXCEPT !.lifecycle = "REVALIDATION_REQUIRED", !.currentness = why]
      BY <1>3, <2>2 DEF OnlyDemoted
    <3>2. proofs[r] \in Revision
      BY <1>3, <2>2 DEF OnlyDemoted, IsCurrent, StoreTypeOK
    <3>3. "REVALIDATION_REQUIRED" \in LifecycleStates
      BY DEF LifecycleStates
    <3> QED
      BY <3>1, <3>2, <3>3 DEF Revision
  <2> QED
    BY <2>1, <2>2
<1> QED
  BY <1>3, <1>4 DEF RefreshApply

-----------------------------------------------------------------------------
(* The remaining steps and the type theorem.                               *)
LEMMA InvalidationType ==
  ASSUME TypeInv, InvalidationStep \/ \E b \in Boots : FenceBootDemote(b) \/ DemoteBoot(b)
  PROVE  RuntimeTypeOK' /\ EvaluationsConsistent'
<1>1. /\ proofs' \in [Requests -> Revision \cup {None}]
      /\ UNCHANGED <<policies, history, snapshots, by_path, by_domain, by_entity,
                     by_policy, by_boot, evaluations, refreshes, evidenceVars, applied>>
  BY InvalidationDemotes DEF TypeInv, RuntimeTypeOK
<1>2. StoreTypeOK'
  BY <1>1 DEF TypeInv, RuntimeTypeOK, StoreTypeOK
<1>3. /\ by_topology_generation' \subseteq by_topology_generation
      /\ by_failure_domain_generation' \subseteq by_failure_domain_generation
      /\ fencing' \subseteq fencing
      /\ fence_done' \subseteq fence_done \cup Boots
  BY DEF InvalidationStep, DemoteTopologyEntities, DemoteTopologyGeneration, DemoteDomains,
     DemoteFailureDomainGeneration, DemotePath, DemotePolicy, FenceBootDemote, DemoteBoot,
     indexVars, callVars, ghostVars
<1>4. policy_floor' \in [Policies -> Nat]
  <2>1. ASSUME NEW p \in Policies, NEW g \in 1..MaxGeneration, DemotePolicy(p, g)
        PROVE  policy_floor' \in [Policies -> Nat]
    <3>1. Swept(p, g) \in Nat
      BY DEF Swept, PolicyGeneration, Policy, Unset, TypeInv, RuntimeTypeOK, StoreTypeOK
    <3> QED
      BY <2>1, <3>1 DEF DemotePolicy, TypeInv, RuntimeTypeOK, GhostTypeOK
  <2>2. CASE UNCHANGED policy_floor
    BY <2>2 DEF TypeInv, RuntimeTypeOK, GhostTypeOK
  <2> QED
    BY <2>1, <2>2 DEF InvalidationStep, DemoteTopologyEntities, DemoteTopologyGeneration,
       DemoteDomains, DemoteFailureDomainGeneration, DemotePath, FenceBootDemote, DemoteBoot, ghostVars
<1> QED
  BY <1>1, <1>2, <1>3, <1>4 DEF TypeInv, RuntimeTypeOK, IndexTypeOK, CallTypeOK, EvidenceTypeOK,
     GhostTypeOK, EvaluationsConsistent, PhaseConsistent, evidenceVars

LEMMA RefreshType ==
  ASSUME TypeInv, NEW t \in Refreshers, RefreshBegin(t) \/ RefreshStep(t)
  PROVE  RuntimeTypeOK' /\ EvaluationsConsistent'
<1>1. UNCHANGED <<policies, history, snapshots, indexVars, evaluations, fencing, evidenceVars, ghostVars>>
  BY DEF RefreshBegin, RefreshStep, RefreshAskPath, RefreshReadPolicy, RefreshReadProof,
     RefreshApply, storeVars
<1>2. refreshes[t] # None => refreshes[t] \in Refresh
  BY DEF TypeInv, RuntimeTypeOK, CallTypeOK
<1>3. StoreTypeOK'
  <2>1. CASE RefreshApply(t)
    BY <1>1, <2>1, RefreshApplyDemotes DEF TypeInv, RuntimeTypeOK, StoreTypeOK
  <2>2. CASE ~RefreshApply(t)
    BY <1>1, <2>2 DEF RefreshBegin, RefreshStep, RefreshAskPath, RefreshReadPolicy,
       RefreshReadProof, storeVars, TypeInv, RuntimeTypeOK, StoreTypeOK
  <2> QED
    BY <2>1, <2>2
<1>4. \A p \in Policies : PolicyGeneration(p) \in Nat
  BY RuntimeLimitsAssumption DEF PolicyGeneration, TypeInv, RuntimeTypeOK, StoreTypeOK, Policy, Unset
<1>5. refreshes' \in [Refreshers -> Refresh \cup {None}]
  <2>1. CASE RefreshBegin(t)
    <3> DEFINE live == {r \in Requests : IsCurrent(r)}
               f == [live |-> live,
                     questions |-> {q \in live \X Paths : q[2] \in proofs[q[1]].paths},
                     unread |-> {r.policy : r \in live},
                     published |-> [p \in Policies |-> Unset],
                     unasked |-> live,
                     stale_paths |-> {}, stale_policies |-> {}]
    <3>1. {r.policy : r \in live} \subseteq Policies
      BY RuntimeAssumption DEF IsRequest
    <3>2. [p \in Policies |-> Unset] \in [Policies -> Nat]
      BY DEF Unset
    <3>3. {q \in live \X Paths : q[2] \in proofs[q[1]].paths} \in SUBSET (Requests \X Paths)
      OBVIOUS
    <3>4. f \in Refresh
      BY <3>1, <3>2, <3>3 DEF Refresh
    <3>5. refreshes' = [refreshes EXCEPT ![t] = f]
      BY <2>1 DEF RefreshBegin
    <3> QED
      BY <3>4, <3>5 DEF TypeInv, RuntimeTypeOK, CallTypeOK
  <2>2. CASE RefreshAskPath(t)
    <3>1. PICK q \in refreshes[t].questions :
            refreshes' = [refreshes EXCEPT
               ![t].questions = @ \ {q},
               ![t].stale_paths = IF BindingStale(q[1], q[2]) THEN @ \cup {q[1]} ELSE @]
      BY <2>2 DEF RefreshAskPath
    <3> DEFINE s == IF BindingStale(q[1], q[2]) THEN refreshes[t].stale_paths \cup {q[1]}
                                                ELSE refreshes[t].stale_paths
               f == [refreshes[t] EXCEPT !.questions = refreshes[t].questions \ {q}, !.stale_paths = s]
    <3>2. refreshes[t] \in Refresh
      BY <1>2, <2>2 DEF RefreshAskPath, InRefresh
    <3>3. q[1] \in Requests /\ s \in SUBSET Requests
      BY <3>2 DEF Refresh
    <3>4. f \in Refresh
      BY <3>2, <3>3 DEF Refresh
    <3>5. refreshes' = [refreshes EXCEPT ![t] = f]
      BY <3>1, <3>2 DEF Refresh, TypeInv, RuntimeTypeOK, CallTypeOK
    <3> QED
      BY <3>4, <3>5 DEF TypeInv, RuntimeTypeOK, CallTypeOK
  <2>3. CASE RefreshReadPolicy(t)
    <3>1. PICK p \in refreshes[t].unread :
            refreshes' = [refreshes EXCEPT ![t].unread = @ \ {p}, ![t].published[p] = PolicyGeneration(p)]
      BY <2>3 DEF RefreshReadPolicy
    <3>2. refreshes[t] \in Refresh
      BY <1>2, <2>3 DEF RefreshReadPolicy, InRefresh
    <3> DEFINE m == [refreshes[t].published EXCEPT ![p] = PolicyGeneration(p)]
               f == [refreshes[t] EXCEPT !.unread = refreshes[t].unread \ {p}, !.published = m]
    <3>3. p \in Policies /\ m \in [Policies -> Nat]
      BY <1>4, <3>2 DEF Refresh
    <3>4. f \in Refresh
      BY <3>2, <3>3 DEF Refresh
    <3>5. refreshes' = [refreshes EXCEPT ![t] = f]
      BY <3>1, <3>2 DEF Refresh, TypeInv, RuntimeTypeOK, CallTypeOK
    <3> QED
      BY <3>4, <3>5 DEF TypeInv, RuntimeTypeOK, CallTypeOK
  <2>4. CASE RefreshReadProof(t)
    <3>1. PICK r \in refreshes[t].unasked :
            refreshes' = [refreshes EXCEPT
               ![t].unasked = @ \ {r},
               ![t].stale_policies =
                   IF proofs[r].policy_generation # refreshes[t].published[r.policy]
                     THEN @ \cup {r} ELSE @]
      BY <2>4 DEF RefreshReadProof
    <3>2. refreshes[t] \in Refresh
      BY <1>2, <2>4 DEF RefreshReadProof, InRefresh
    <3> DEFINE s == IF proofs[r].policy_generation # refreshes[t].published[r.policy]
                      THEN refreshes[t].stale_policies \cup {r} ELSE refreshes[t].stale_policies
               f == [refreshes[t] EXCEPT !.unasked = refreshes[t].unasked \ {r}, !.stale_policies = s]
    <3>3. r \in Requests /\ s \in SUBSET Requests
      BY <3>2 DEF Refresh
    <3>4. f \in Refresh
      BY <3>2, <3>3 DEF Refresh
    <3>5. refreshes' = [refreshes EXCEPT ![t] = f]
      BY <3>1, <3>2 DEF Refresh, TypeInv, RuntimeTypeOK, CallTypeOK
    <3> QED
      BY <3>4, <3>5 DEF TypeInv, RuntimeTypeOK, CallTypeOK
  <2>5. CASE RefreshApply(t)
    BY <2>5 DEF RefreshApply, TypeInv, RuntimeTypeOK, CallTypeOK
  <2> QED
    BY <2>1, <2>2, <2>3, <2>4, <2>5 DEF RefreshStep
<1> QED
  BY <1>1, <1>3, <1>5 DEF TypeInv, RuntimeTypeOK, IndexTypeOK, CallTypeOK, EvidenceTypeOK,
     GhostTypeOK, EvaluationsConsistent, PhaseConsistent, indexVars, evidenceVars, ghostVars

\* The evidence only moves forward, so the watermarks of running evaluations
\* stay behind it.
LEMMA EvidenceType ==
  ASSUME TypeInv, EvidenceMoves
  PROVE  RuntimeTypeOK' /\ EvaluationsConsistent'
<1>1. topology \in 1..MaxTopology /\ failure_domains \in 1..MaxDomains
  BY DEF TypeInv, RuntimeTypeOK, EvidenceTypeOK
<1>2. /\ topology' \in 1..MaxTopology /\ failure_domains' \in 1..MaxDomains
      /\ topology <= topology' /\ failure_domains <= failure_domains'
  BY <1>1, RuntimeLimitsAssumption
  DEF EvidenceMoves, AdvanceTopology, AdvanceFailureDomains, AdvancePath, WithdrawPath
<1>3. path_authority' \in [Paths -> [generation : 1..MaxPath, authorized : BOOLEAN]]
  <2>1. path_authority \in [Paths -> [generation : 1..MaxPath, authorized : BOOLEAN]]
    BY DEF TypeInv, RuntimeTypeOK, EvidenceTypeOK
  <2>2. ASSUME NEW path \in Paths, AdvancePath(path)
        PROVE  path_authority' \in [Paths -> [generation : 1..MaxPath, authorized : BOOLEAN]]
    <3>1. path_authority[path].generation + 1 \in 1..MaxPath
      BY <2>1, <2>2, RuntimeLimitsAssumption DEF AdvancePath
    <3> QED
      BY <2>1, <2>2, <3>1 DEF AdvancePath
  <2>3. ASSUME NEW path \in Paths, WithdrawPath(path)
        PROVE  path_authority' \in [Paths -> [generation : 1..MaxPath, authorized : BOOLEAN]]
    BY <2>1, <2>3 DEF WithdrawPath
  <2>4. CASE UNCHANGED path_authority
    BY <2>1, <2>4
  <2> QED
    BY <2>2, <2>3, <2>4, EvidenceAssumption DEF EvidenceMoves, AdvanceTopology, AdvanceFailureDomains
<1>4. UNCHANGED <<storeVars, indexVars, callVars, ghostVars>>
  BY DEF EvidenceMoves
<1>5. EvaluationsConsistent'
  <2> SUFFICES ASSUME NEW t \in Evaluators, evaluations[t] # None
               PROVE  PhaseConsistent(evaluations[t])'
    BY <1>4 DEF EvaluationsConsistent, callVars
  <2>1. PhaseConsistent(evaluations[t])
    BY DEF TypeInv, EvaluationsConsistent
  <2> DEFINE e == evaluations[t]
  <2>2. 1..topology \subseteq 1..topology' /\ 1..failure_domains \subseteq 1..failure_domains'
    BY <1>1, <1>2, RuntimeLimitsAssumption
  <2>3. evaluations'[t] = evaluations[t]
    BY <1>4 DEF callVars
  <2> QED
    BY <2>1, <2>2, <2>3 DEF PhaseConsistent
<1> QED
  BY <1>2, <1>3, <1>4, <1>5 DEF TypeInv, RuntimeTypeOK, StoreTypeOK, IndexTypeOK, CallTypeOK,
     EvidenceTypeOK, GhostTypeOK, storeVars, indexVars, callVars, ghostVars

LEMMA PublishType ==
  ASSUME TypeInv, NEW p \in Policies, NEW content \in Contents, NEW a \in Actors,
         PublishPolicy(p, content, a)
  PROVE  RuntimeTypeOK' /\ EvaluationsConsistent'
<1>1. PolicyGeneration(p) \in 0..MaxGeneration
  BY RuntimeLimitsAssumption DEF PolicyGeneration, TypeInv, RuntimeTypeOK, StoreTypeOK, Policy, Unset
<1>2. PolicyGeneration(p) + 1 \in 1..MaxGeneration
  BY <1>1, RuntimeLimitsAssumption DEF PublishPolicy, PolicyAccepted, CanAdvance
<1>3. [generation |-> PolicyGeneration(p) + 1, content |-> content] \in Policy
  BY <1>2 DEF Policy
<1>4. StoreTypeOK'
  BY <1>3 DEF PublishPolicy, TypeInv, RuntimeTypeOK, StoreTypeOK
<1> QED
  BY <1>4 DEF PublishPolicy, TypeInv, RuntimeTypeOK, IndexTypeOK, CallTypeOK,
     EvidenceTypeOK, GhostTypeOK, EvaluationsConsistent, PhaseConsistent, indexVars, callVars,
     evidenceVars, ghostVars

LEMMA OtherType ==
  ASSUME TypeInv, AuthorityMoves \/ (\E b \in Boots : FenceBootBegin(b)) \/ UNCHANGED vars
  PROVE  RuntimeTypeOK' /\ EvaluationsConsistent'
<1>1. /\ UNCHANGED <<storeVars, indexVars, evaluations, refreshes, evidenceVars, ghostVars>>
      /\ fencing' \subseteq fencing \cup Boots
  BY DEF AuthorityMoves, FenceBootBegin, vars, callVars
<1> QED
  BY <1>1 DEF TypeInv, RuntimeTypeOK, StoreTypeOK, IndexTypeOK, CallTypeOK,
     EvidenceTypeOK, GhostTypeOK, EvaluationsConsistent, PhaseConsistent, storeVars, indexVars,
     evidenceVars, ghostVars

LEMMA TypeNext == TypeInv /\ [Next]_vars => TypeInv'
<1> SUFFICES ASSUME TypeInv, [Next]_vars PROVE TypeInv'
  OBVIOUS
<1>1. AuthorityInv'
  BY AuthorityStep, AuthorityNextInv DEF TypeInv, RuntimeTypeOK, AuthorityInv
<1> SUFFICES RuntimeTypeOK' /\ EvaluationsConsistent'
  BY <1>1 DEF TypeInv
<1>2. CASE AuthorityMoves \/ (\E b \in Boots : FenceBootBegin(b)) \/ UNCHANGED vars
  BY <1>2, OtherType
<1>3. CASE EvidenceMoves
  BY <1>3, EvidenceType
<1>4. ASSUME NEW p \in Policies, NEW content \in Contents, NEW a \in Actors,
             PublishPolicy(p, content, a)
      PROVE  RuntimeTypeOK' /\ EvaluationsConsistent'
  BY <1>4, PublishType
<1>5. ASSUME NEW t \in Evaluators, NEW r \in Requests, NEW a \in Actors,
             Evaluate(t, r, a) \/ Revalidate(t, r, a)
      PROVE  RuntimeTypeOK' /\ EvaluationsConsistent'
  BY <1>5, EnterType, RevalidateType DEF Evaluate
<1>6. ASSUME NEW t \in Evaluators, EvaluationStep(t)
      PROVE  RuntimeTypeOK' /\ EvaluationsConsistent'
  <2>1. CASE RevalidateEnter(t)
    <3>1. evaluations[t].request \in Requests /\ evaluations[t].authority \in Actors
      BY <2>1, EvaluationParts DEF RevalidateEnter, InPhase, TypeInv, RuntimeTypeOK
    <3> QED
      BY <2>1, <3>1, EnterType DEF RevalidateEnter
  <2> QED
    BY <1>6, <2>1, PhaseType, CommitConflictType, CommitRevisionType DEF EvaluationStep
<1>7. ASSUME NEW r \in Requests, NEW target \in Targets, NEW a \in Actors, LifecycleStep(r, target, a)
      PROVE  RuntimeTypeOK' /\ EvaluationsConsistent'
  BY <1>7, LifecycleType
<1>8. CASE InvalidationStep \/ \E b \in Boots : FenceBootDemote(b) \/ DemoteBoot(b)
  BY <1>8, InvalidationType
<1>9. ASSUME NEW t \in Refreshers, RefreshBegin(t) \/ RefreshStep(t)
      PROVE  RuntimeTypeOK' /\ EvaluationsConsistent'
  BY <1>9, RefreshType
<1> QED
  BY <1>2, <1>3, <1>4, <1>5, <1>6, <1>7, <1>8, <1>9 DEF Next

\* The invariant all theorems about the runtime rest on: types, the authority's
\* invariant, and what each call of evaluate carries between its phases.
THEOREM TypeInvariant == Spec => []TypeInv
<1>1. Init => TypeInv
  BY TypeInit, AuthorityInitInv DEF Init, TypeInv
<1> QED
  BY <1>1, TypeNext, PTL DEF Spec

\* The runtime's state keeps its types whatever callers, evidence views and the
\* publication authority do: no generation passes the end of its space, every
\* committed revision is complete and every index holds keys of its kind.
THEOREM TypeCorrect == Spec => []TypeOK
<1>1. TypeInv => TypeOK
  BY DEF TypeInv, RuntimeTypeOK, TypeOK, AuthorityInv
<1> QED
  BY <1>1, TypeInvariant, PTL

\* The runtime drives its publication authority only through the authority's
\* own operations, so everything proved of the authority holds inside it.
THEOREM RuntimeUsesAuthority == Spec => AuthoritySpec
<1>1. Init => AuthorityInit
  BY DEF Init
<1>2. TypeInv /\ [Next]_vars => [AuthorityNext]_authorityVars
  BY AuthorityStep DEF TypeInv, RuntimeTypeOK, AuthorityInv
<1> QED
  BY <1>1, <1>2, TypeInvariant, PTL DEF Spec, AuthoritySpec
=============================================================================
