------------------------- MODULE CoordinatorProofs -------------------------
(***************************************************************************)
(* The coordinator and its store, for every number of connections, boots,  *)
(* policies, requests and generations, whether or not the disk fails, and  *)
(* however often the process is killed and started again.                  *)
(***************************************************************************)
EXTENDS Coordinator, DiversityRuntimeSafetyProofs

-----------------------------------------------------------------------------
(* What a step of the runtime leaves of a stored proof.                    *)

\* All of a revision but its lifecycle and its currentness.
SameEvidence(v, w) ==
    /\ w.generation = v.generation /\ w.policy_generation = v.policy_generation
    /\ w.epoch = v.epoch /\ w.boot = v.boot

EvidenceKept(r) ==
    /\ proofs[r] # None => proofs'[r] # None /\ SameEvidence(proofs[r], proofs'[r])
    /\ proofs[r] = None => proofs'[r] \in {None, EmptyRevision}

\* Only a commit writes a revision: every other step moves its lifecycle at most.
LEMMA OnlyCommitsWrite ==
  ASSUME TypeInv, [Next]_vars, ~\E t \in Evaluators : CommitRevision(t), NEW r \in Requests
  PROVE  EvidenceKept(r)
<1>0. StoreTypeOK /\ proofs \in [Requests -> Revision \cup {None}]
  BY DEF TypeInv, RuntimeTypeOK, StoreTypeOK
<1>a. proofs[r] # None => proofs[r] \in Revision
  BY <1>0
<1>1. CASE proofs'[r] = proofs[r]
  BY <1>1 DEF EvidenceKept, SameEvidence
<1>2. CASE OnlyDemoted
  <2>1. CASE proofs'[r] # proofs[r]
    <3>1. PICK why \in Currentness \ {"CURRENT"} :
            proofs'[r] = [proofs[r] EXCEPT !.lifecycle = "REVALIDATION_REQUIRED", !.currentness = why]
      BY <1>2, <2>1 DEF OnlyDemoted
    <3>2. proofs[r] # None /\ proofs[r] \in Revision
      BY <1>a, <1>2, <2>1 DEF OnlyDemoted, IsCurrent
    <3>3. proofs'[r] \in Revision /\ SameEvidence(proofs[r], proofs'[r])
      BY <3>1, <3>2 DEF Revision, SameEvidence, LifecycleStates
    <3> QED
      BY <3>2, <3>3, RuntimeNoneAssumption DEF EvidenceKept
  <2> QED
    BY <1>1, <2>1
<1>3. ASSUME NEW t \in Evaluators, CommitConflict(t) PROVE EvidenceKept(r)
  <2>1. proofs' = [proofs EXCEPT ![evaluations[t].request] = RecordOf(evaluations[t].request)]
    BY <1>3 DEF CommitConflict
  <2>2. CASE proofs'[r] # proofs[r]
    <3>1. proofs[r] = None /\ proofs'[r] = EmptyRevision
      BY <1>0, <2>1, <2>2 DEF RecordOf
    <3> QED
      BY <3>1 DEF EvidenceKept
  <2> QED
    BY <1>1, <2>2
<1>4. ASSUME NEW q \in Requests, NEW target \in Targets, NEW a \in Actors,
             LifecycleApplied(q, target, a)
      PROVE  EvidenceKept(r)
  <2>1. CASE r # q
    BY <1>0, <1>1, <1>4, <2>1 DEF LifecycleApplied
  <2>2. CASE r = q
    <3>1. /\ proofs[r] # None
          /\ proofs'[r] = [proofs[r] EXCEPT !.lifecycle = target, !.currentness = "REVALIDATION_REQUIRED"]
      BY <1>0, <1>4, <2>2 DEF LifecycleApplied
    <3>2. target \in LifecycleStates /\ "REVALIDATION_REQUIRED" \in Currentness
      BY RuntimeAssumption DEF LifecycleTargets, LifecycleStates, Currentness
    <3>3. proofs'[r] \in Revision /\ SameEvidence(proofs[r], proofs'[r])
      BY <1>a, <3>1, <3>2 DEF Revision, SameEvidence
    <3> QED
      BY <3>1, <3>3, RuntimeNoneAssumption DEF EvidenceKept
  <2> QED
    BY <2>1, <2>2
<1>5. CASE InvalidationStep \/ \E b \in Boots : FenceBootDemote(b) \/ DemoteBoot(b)
  BY <1>0, <1>2, <1>5, InvalidationDemotes
<1>6. ASSUME NEW t \in Refreshers, RefreshApply(t) PROVE EvidenceKept(r)
  BY <1>0, <1>2, <1>6, RefreshApplyDemotes
<1>7. CASE UNCHANGED proofs
  BY <1>1, <1>7
<1>8. \/ UNCHANGED proofs
      \/ \E t \in Evaluators : CommitConflict(t)
      \/ \E q \in Requests, target \in Targets, a \in Actors : LifecycleApplied(q, target, a)
      \/ InvalidationStep \/ \E b \in Boots : FenceBootDemote(b) \/ DemoteBoot(b)
      \/ \E t \in Refreshers : RefreshApply(t)
  <2>1. CASE UNCHANGED vars
    BY <2>1 DEF vars, storeVars
  <2>2. CASE AuthorityMoves \/ EvidenceMoves
    BY <2>2 DEF AuthorityMoves, EvidenceMoves, storeVars
  <2>3. ASSUME NEW p \in Policies, NEW content \in Contents, NEW a \in Actors,
               PublishPolicy(p, content, a)
        PROVE  UNCHANGED proofs
    BY <2>3 DEF PublishPolicy
  <2>4. ASSUME NEW t \in Evaluators, NEW q \in Requests, NEW a \in Actors,
               Evaluate(t, q, a) \/ Revalidate(t, q, a)
        PROVE  UNCHANGED proofs
    BY <2>4 DEF Evaluate, EnterEvaluation, Revalidate, storeVars
  <2>5. ASSUME NEW t \in Evaluators, EvaluationStep(t) PROVE UNCHANGED proofs \/ CommitConflict(t)
    BY <2>5 DEF EvaluationStep, RevalidateEnter, EnterEvaluation, RevalidateRefused, Observe,
       Judge, Recheck, CommitRefused, CommitUnchanged, storeVars
  <2>6. ASSUME NEW q \in Requests, NEW target \in Targets, NEW a \in Actors,
               LifecycleStep(q, target, a)
        PROVE  UNCHANGED proofs \/ LifecycleApplied(q, target, a)
    BY <2>6 DEF LifecycleStep, LifecycleUnchanged, LifecycleForgotten, storeVars
  <2>7. ASSUME NEW b \in Boots, FenceBootBegin(b) PROVE UNCHANGED proofs
    BY <2>7 DEF FenceBootBegin, storeVars
  <2>8. ASSUME NEW t \in Refreshers, RefreshBegin(t) \/ RefreshStep(t)
        PROVE  UNCHANGED proofs \/ RefreshApply(t)
    BY <2>8 DEF RefreshBegin, RefreshStep, RefreshAskPath, RefreshReadPolicy, RefreshReadProof,
       storeVars
  <2> QED
    BY <2>1, <2>2, <2>3, <2>4, <2>5, <2>6, <2>7, <2>8 DEF Next
<1> QED
  BY <1>3, <1>4, <1>5, <1>6, <1>7, <1>8

-----------------------------------------------------------------------------
(* The runtime only moves on, and its contents hang together.              *)

LEMMA PolicyGenerationType ==
  ASSUME StoreTypeOK, NEW p \in Policies
  PROVE  PolicyGeneration(p) \in 0..MaxGeneration
  BY RuntimeLimitsAssumption DEF StoreTypeOK, PolicyGeneration, Policy, Unset

LEMMA PoliciesGrow ==
  ASSUME TypeInv, [Next]_vars, NEW p \in Policies
  PROVE  PolicyGeneration(p)' >= PolicyGeneration(p)
<1>0. StoreTypeOK /\ PolicyGeneration(p) \in Nat
  BY PolicyGenerationType, RuntimeLimitsAssumption DEF TypeInv, RuntimeTypeOK
<1>1. CASE policies' = policies
  BY <1>0, <1>1 DEF PolicyGeneration
<1>2. ASSUME NEW q \in Policies, NEW content \in Contents, NEW a \in Actors,
             PublishPolicy(q, content, a)
      PROVE  PolicyGeneration(p)' >= PolicyGeneration(p)
  <2> DEFINE new == [generation |-> PolicyGeneration(q) + 1, content |-> content]
  <2>1. policies' = [policies EXCEPT ![q] = new]
    BY <1>2 DEF PublishPolicy
  <2>2. CASE p # q
    BY <1>0, <2>1, <2>2 DEF PolicyGeneration, StoreTypeOK
  <2>3. CASE p = q
    <3>1. PolicyGeneration(p) \in 0..MaxGeneration /\ PolicyGeneration(p) # MaxGeneration
      BY <1>0, <1>2, <2>3, PolicyGenerationType DEF PublishPolicy, PolicyAccepted, CanAdvance
    <3>2. new \in Policy /\ new.generation = PolicyGeneration(p) + 1
      BY <2>3, <3>1, RuntimeLimitsAssumption DEF Policy
    <3>3. policies'[p] = new /\ new # None
      BY <1>0, <2>1, <2>3, <3>2, RuntimeNoneAssumption DEF StoreTypeOK
    <3> QED
      BY <1>0, <3>2, <3>3 DEF PolicyGeneration
  <2> QED
    BY <2>2, <2>3
<1> QED
  BY <1>1, <1>2, SweepSteps

LEMMA ProofsGrow ==
  ASSUME TypeInv, [Next]_vars, NEW r \in Requests
  PROVE  Generation(proofs'[r]) >= Generation(proofs[r])
<1>0. /\ StoreTypeOK /\ MaxGeneration \in Nat
      /\ proofs[r] # None => proofs[r] \in Revision /\ proofs[r].generation \in Nat
  BY RuntimeLimitsAssumption DEF TypeInv, RuntimeTypeOK, StoreTypeOK, Revision
<1>1. Generation(proofs[r]) \in Nat
  BY <1>0 DEF Generation, Unset
<1>2. CASE ~\E t \in Evaluators : CommitRevision(t)
  <2>1. EvidenceKept(r)
    BY <1>2, OnlyCommitsWrite
  <2>2. CASE proofs[r] # None
    BY <1>0, <2>1, <2>2 DEF EvidenceKept, SameEvidence, Generation
  <2>3. CASE proofs[r] = None
    <3>1. EmptyRevision.generation = 0
      BY DEF EmptyRevision, Unset
    <3> QED
      BY <2>1, <2>3, <3>1 DEF EvidenceKept, Generation, Unset
  <2> QED
    BY <2>2, <2>3
<1>3. ASSUME NEW t \in Evaluators, CommitRevision(t), evaluations[t].request = r
      PROVE  Generation(proofs'[r]) >= Generation(proofs[r])
  <2>1. /\ proofs'[r] = RevisionOf(evaluations[t]) /\ proofs'[r] \in Revision
        /\ proofs'[r].generation = RecordOf(r).generation + 1 /\ RecordOf(r).generation \in Nat
    <3>1. proofs'[r] = RevisionOf(evaluations[t]) /\ RevisionOf(evaluations[t]) \in Revision
      <4>1. proofs' = [proofs EXCEPT ![r] = RevisionOf(evaluations[t])] /\ RevisionOf(evaluations[t]) \in Revision
        BY <1>3, CommitWrites
      <4>2. DOMAIN proofs = Requests
        BY <1>0 DEF StoreTypeOK
      <4> QED
        BY <4>1, <4>2
    <3>2. /\ RevisionOf(evaluations[t]).generation = RecordOf(r).generation + 1
          /\ RecordOf(r).generation \in Nat
      BY <1>3, CommitWrites
    <3> QED
      BY <3>1, <3>2
  <2>2. proofs[r] # None => RecordOf(r) = proofs[r]
    BY DEF RecordOf
  <2> QED
    BY <1>0, <2>1, <2>2, RuntimeNoneAssumption DEF Generation, Unset
<1>4. ASSUME NEW t \in Evaluators, CommitRevision(t), evaluations[t].request # r
      PROVE  proofs'[r] = proofs[r]
  BY <1>0, <1>4 DEF CommitRevision, StoreTypeOK
<1> QED
  BY <1>1, <1>2, <1>3, <1>4

\* No step of a running process takes back an epoch, a fence, a policy or a revision.
LEMMA RuntimeMovesOn ==
  ASSUME TypeInv, [Next]_vars
  PROVE  /\ epoch' >= epoch
         /\ fenced \subseteq fenced'
         /\ \A p \in Policies : PolicyGeneration(p)' >= PolicyGeneration(p)
         /\ \A r \in Requests : Generation(proofs'[r]) >= Generation(proofs[r])
<1>1. AuthorityInv /\ AuthorityTypeOK /\ CallTypeOK
  BY DEF TypeInv, AuthorityInv, RuntimeTypeOK
<1>2. [AuthorityNext]_authorityVars
  BY <1>1, AuthorityStep
<1>3. epoch' >= epoch /\ fenced \subseteq fenced'
  BY <1>1, <1>2, EpochGrows, FenceListGrows
<1> QED
  BY <1>3, PoliciesGrow, ProofsGrow

\* What a stored revision says of the policy, the epoch and the boot it was
\* published under.
RuntimeSound ==
    \A r \in Requests : proofs[r] # None =>
        /\ proofs[r].policy_generation <= PolicyGeneration(r.policy)
        /\ proofs[r].epoch <= epoch
        /\ proofs[r].generation # Unset => proofs[r].boot \in Boots

LEMMA SoundNext == TypeInv /\ RuntimeSound /\ [Next]_vars => RuntimeSound'
<1> SUFFICES ASSUME TypeInv, RuntimeSound, [Next]_vars, NEW r \in Requests, proofs'[r] # None
             PROVE  /\ proofs'[r].policy_generation <= PolicyGeneration(r.policy)'
                    /\ proofs'[r].epoch <= epoch'
                    /\ proofs'[r].generation # Unset => proofs'[r].boot \in Boots
  BY DEF RuntimeSound
<1>0. /\ StoreTypeOK /\ AuthorityTypeOK /\ TypeInv'
      /\ r.policy \in Policies /\ r.policy_generation \in Nat
  BY TypeNext, RuntimeAssumption DEF TypeInv, RuntimeTypeOK, AuthorityInv, IsRequest
<1>1. /\ PolicyGeneration(r.policy) \in Nat /\ PolicyGeneration(r.policy)' \in Nat
      /\ epoch \in Nat /\ epoch' \in Nat
  <2>1. StoreTypeOK' /\ AuthorityTypeOK'
    BY <1>0 DEF TypeInv, RuntimeTypeOK, AuthorityInv
  <2>2. PolicyGeneration(r.policy)' \in 0..MaxGeneration
    BY <1>0, <2>1, RuntimeLimitsAssumption DEF StoreTypeOK, PolicyGeneration, Policy, Unset
  <2> QED
    BY <1>0, <2>1, <2>2, PolicyGenerationType, LimitsAssumption, RuntimeLimitsAssumption
    DEF AuthorityTypeOK
<1>2. PolicyGeneration(r.policy)' >= PolicyGeneration(r.policy) /\ epoch' >= epoch
  BY <1>0, RuntimeMovesOn
<1>3. CASE proofs[r] # None /\ SameEvidence(proofs[r], proofs'[r])
  <2>1. proofs[r] \in Revision
    BY <1>0, <1>3 DEF StoreTypeOK
  <2>2. proofs[r].policy_generation \in Nat /\ proofs[r].epoch \in Nat
    BY <2>1, LimitsAssumption DEF Revision
  <2> QED
    BY <1>1, <1>2, <1>3, <2>2 DEF RuntimeSound, SameEvidence
<1>4. CASE proofs'[r] = EmptyRevision
  BY <1>1, <1>4 DEF EmptyRevision, Unset
<1>5. CASE ~\E t \in Evaluators : CommitRevision(t)
  BY <1>3, <1>4, <1>5, OnlyCommitsWrite DEF EvidenceKept
<1>6. ASSUME NEW t \in Evaluators, CommitRevision(t), evaluations[t].request = r
      PROVE  /\ proofs'[r].policy_generation <= PolicyGeneration(r.policy)'
             /\ proofs'[r].epoch <= epoch'
             /\ proofs'[r].boot \in Boots
  <2> DEFINE e == evaluations[t]
  <2>1. /\ proofs'[r] = RevisionOf(e) /\ RevisionOf(e).boot = e.authority.boot
        /\ e.authority.boot \in Boots
    <3>1. /\ proofs' = [proofs EXCEPT ![r] = RevisionOf(e)] /\ RevisionOf(e).boot = e.authority.boot
          /\ e.authority.boot \in Boots
      BY <1>0, <1>6, CommitWrites
    <3>2. DOMAIN proofs = Requests
      BY <1>0 DEF StoreTypeOK
    <3> QED
      BY <3>1, <3>2
  <2>2. /\ RevisionOf(e).policy_generation \in {Unset, r.policy_generation}
        /\ RevisionOf(e).epoch = e.authority.epoch
    BY <1>6 DEF RevisionOf
  <2>3. e.authority.epoch = epoch /\ PolicyGeneration(r.policy) = r.policy_generation
    BY <1>6 DEF CommitRevision, Committable, StillAuthorized, PolicyMatches, PolicyGeneration
  <2> QED
    BY <1>0, <1>1, <1>2, <2>1, <2>2, <2>3 DEF Unset
<1>7. ASSUME NEW t \in Evaluators, CommitRevision(t), evaluations[t].request # r
      PROVE  proofs'[r] = proofs[r]
  BY <1>0, <1>7 DEF CommitRevision, StoreTypeOK
<1> QED
  BY <1>3, <1>5, <1>6, <1>7 DEF SameEvidence

-----------------------------------------------------------------------------
(* The inductive invariant of the coordinator.                             *)

StoredContents ==
    [epoch : 1..MaxEpoch, policies : [Policies -> Policy \cup {None}],
     proofs : [Requests -> Revision \cup {None}], history : [Requests -> Seq(Retained)],
     fenced : SUBSET Boots]

Replies == [key : Policies \cup Requests, generation : Nat]

ConnectionState ==
    [pc : {"idle", "call", "demote", "save", "write", "reply"},
     boot : Boots \cup {None}, fences : Boots \cup {None}, leaving : BOOLEAN,
     reply : Replies \cup {None}, copy : StoredContents \cup {None}]

ProcessTypeOK ==
    /\ status \in {"down", "starting", "serving"}
    /\ connections \in [Evaluators -> ConnectionState \cup {None}]
    /\ store \in StoredContents \cup {None}
    /\ acked \in [Policies \cup Requests -> Nat]

\* Contents a runtime may be started from: Consistent, and what load relies on
\* besides when it rebuilds the indexes and goes on from the history.
SoundContents(contents) ==
    \A r \in Requests :
        /\ contents.proofs[r] = None => contents.history[r] = <<>>
        /\ contents.proofs[r] # None =>
             /\ contents.proofs[r].policy_generation <= Generation(contents.policies[r.policy])
             /\ contents.proofs[r].epoch <= contents.epoch
             /\ contents.proofs[r].generation # Unset => contents.proofs[r].boot \in Boots
             /\ HistoryOrdered(contents.history[r], contents.proofs[r].generation)

\* A thread that demotes has a boot to demote for, and a process that is down no threads.
ThreadsInv ==
    /\ \A c \in Open : connections[c].pc = "demote" => connections[c].fences \in Boots
    /\ status = "down" => Open = {}

\* What was written, and what is copied to be written, is a state the runtime was in.
StoreInv ==
    /\ store # None => SoundContents(store)
    /\ StoreNeverAhead

CopyInv ==
    \A c \in Open : connections[c].copy # None =>
        SoundContents(connections[c].copy) /\ NotAhead(connections[c].copy)

RuntimeInv == TypeInv /\ RetentionInv /\ RuntimeSound

CoordinatorInv == RuntimeInv /\ ProcessTypeOK /\ ThreadsInv /\ StoreInv /\ CopyInv

-----------------------------------------------------------------------------
(* The copy save takes.                                                    *)

LEMMA CopyIsSound ==
  ASSUME RuntimeInv
  PROVE  StoreContents \in StoredContents /\ SoundContents(StoreContents) /\ NotAhead(StoreContents)
<1>0. TypeInv /\ RetentionInv /\ RuntimeSound /\ StoreTypeOK /\ AuthorityTypeOK
  BY DEF RuntimeInv, TypeInv, RuntimeTypeOK, AuthorityInv
<1>1. /\ StoreContents.epoch = epoch /\ StoreContents.policies = policies
      /\ StoreContents.proofs = proofs /\ StoreContents.history = history
      /\ StoreContents.fenced = fenced
  BY DEF StoreContents
<1>2. StoreContents \in StoredContents
  BY <1>0 DEF StoreContents, StoredContents, StoreTypeOK, AuthorityTypeOK
<1>3. \A p \in Policies : Generation(policies[p]) = PolicyGeneration(p)
  BY DEF Generation, PolicyGeneration
<1>4. \A r \in Requests : r.policy \in Policies
  BY RuntimeAssumption DEF IsRequest
<1>5. SoundContents(StoreContents)
  BY <1>0, <1>1, <1>3, <1>4 DEF SoundContents, RuntimeSound, RetentionInv
<1>6. NotAhead(StoreContents)
  <2>1. epoch <= epoch
    BY <1>0, LimitsAssumption DEF AuthorityTypeOK
  <2>2. \A p \in Policies : PolicyGeneration(p) <= PolicyGeneration(p)
    BY <1>0, PolicyGenerationType, RuntimeLimitsAssumption
  <2>3. \A r \in Requests : Generation(proofs[r]) <= Generation(proofs[r])
    <3>1. \A r \in Requests : proofs[r] # None => proofs[r] \in Revision
      BY <1>0 DEF StoreTypeOK
    <3>2. \A r \in Requests : Generation(proofs[r]) \in Nat
      BY <3>1, RuntimeLimitsAssumption DEF Generation, Revision, Unset
    <3> QED
      BY <3>2
  <2> QED
    BY <1>1, <1>3, <2>1, <2>2, <2>3 DEF NotAhead
<1> QED
  BY <1>2, <1>5, <1>6

\* What the runtime was not behind of, it is not behind of later.
LEMMA StaysNotAhead ==
  ASSUME TypeInv, [Next]_vars, NEW k \in StoredContents, NotAhead(k)
  PROVE  /\ k.epoch <= epoch'
         /\ k.fenced \subseteq fenced'
         /\ \A p \in Policies : Generation(k.policies[p]) <= PolicyGeneration(p)'
         /\ \A r \in Requests : Generation(k.proofs[r]) <= Generation(proofs'[r])
<1>0. TypeInv' /\ StoreTypeOK /\ AuthorityTypeOK
  BY TypeNext DEF TypeInv, RuntimeTypeOK, AuthorityInv
<1>1. StoreTypeOK' /\ AuthorityTypeOK'
  BY <1>0 DEF TypeInv, RuntimeTypeOK, AuthorityInv
<1>2. k.epoch \in Nat /\ epoch \in Nat /\ epoch' \in Nat
  BY <1>0, <1>1, LimitsAssumption DEF StoredContents, AuthorityTypeOK
<1>3. ASSUME NEW p \in Policies
      PROVE  /\ Generation(k.policies[p]) \in Nat
             /\ PolicyGeneration(p) \in Nat /\ PolicyGeneration(p)' \in Nat
  <2>1. k.policies[p] # None => k.policies[p] \in Policy
    BY DEF StoredContents
  <2>2. Generation(k.policies[p]) \in Nat
    BY <2>1, RuntimeLimitsAssumption DEF Policy, Generation, Unset
  <2>3. PolicyGeneration(p)' \in 0..MaxGeneration
    BY <1>1, RuntimeLimitsAssumption DEF StoreTypeOK, PolicyGeneration, Policy, Unset
  <2> QED
    BY <1>0, <2>2, <2>3, PolicyGenerationType, RuntimeLimitsAssumption
<1>4. ASSUME NEW r \in Requests
      PROVE  /\ Generation(k.proofs[r]) \in Nat
             /\ Generation(proofs[r]) \in Nat /\ Generation(proofs'[r]) \in Nat
  <2>1. \A v \in Revision : v.generation \in Nat
    BY RuntimeLimitsAssumption DEF Revision
  <2>2. k.proofs[r] \in Revision \cup {None} /\ proofs[r] \in Revision \cup {None}
        /\ proofs'[r] \in Revision \cup {None}
    BY <1>0, <1>1 DEF StoredContents, StoreTypeOK
  <2> QED
    BY <2>1, <2>2 DEF Generation, Unset
<1> QED
  BY <1>2, <1>3, <1>4, RuntimeMovesOn DEF NotAhead


-----------------------------------------------------------------------------
(* A step of the coordinator, seen from the runtime.                       *)

\* Except when the process is killed or started, the runtime takes a step of its
\* own specification or none: what the wire adds is only which steps are taken when.
LEMMA RuntimeStep ==
  ASSUME ProcessTypeOK, ThreadsInv, [CoordinatorNext]_systemVars
  PROVE  [Next]_vars \/ Kill \/ Load
<1>1. CASE UNCHANGED systemVars
  BY <1>1 DEF systemVars
<1>2. ASSUME NEW c \in Evaluators, NEW s \in Registrations, Hello(c, s) PROVE [Next]_vars
  <2>1. CASE RegisterPublisher(s) \/ RegisterPublisherLimitExceeded(s)
    BY <1>2, <2>1 DEF Hello, Next, AuthorityMoves
  <2>2. CASE UNCHANGED authorityVars
    BY <1>2, <2>2 DEF Hello, vars
  <2> QED
    BY <1>2, <2>1, <2>2 DEF Hello
<1>3. ASSUME NEW c \in Evaluators, NEW p \in Policies, NEW content \in Contents, NEW a \in Actors,
             PublishPolicyFrame(c, p, content, a)
      PROVE  [Next]_vars
  BY <1>3 DEF PublishPolicyFrame, Next
<1>4. ASSUME NEW c \in Evaluators, NEW r \in Requests, NEW a \in Actors,
             PublishProofFrame(c, r, a) \/ RevalidateFrame(c, r, a)
      PROVE  [Next]_vars
  BY <1>4 DEF PublishProofFrame, RevalidateFrame, Next
<1>5. ASSUME NEW c \in Evaluators, NEW b \in Boots, FenceFrame(c, b) PROVE [Next]_vars
  BY <1>5 DEF FenceFrame, Next
<1>6. ASSUME NEW c \in Evaluators, Call(c) PROVE [Next]_vars
  BY <1>6 DEF Call, Next
<1>7. ASSUME NEW c \in Evaluators, Disconnect(c) PROVE [Next]_vars
  <2>1. CASE connections[c].boot = None
    BY <1>7, <2>1 DEF Disconnect
  <2>2. CASE connections[c].boot # None
    <3>1. connections[c].boot \in Boots
      BY <1>7, <2>2 DEF Disconnect, At, ProcessTypeOK, ConnectionState
    <3> QED
      BY <1>7, <2>2, <3>1 DEF Disconnect, Next
  <2> QED
    BY <2>1, <2>2
<1>8. ASSUME NEW c \in Evaluators, DemoteFenced(c) PROVE [Next]_vars
  <2>1. connections[c].fences \in Boots
    BY <1>8 DEF DemoteFenced, At, ThreadsInv, Open
  <2> QED
    BY <1>8, <2>1 DEF DemoteFenced, Next
<1>9. ASSUME NEW c \in Evaluators,
             Accept(c) \/ SaveCopy(c) \/ WriteStore(c) \/ WriteFails(c) \/ SendReply(c)
      PROVE  UNCHANGED vars
  BY <1>9 DEF Accept, SaveCopy, WriteStore, WriteFails, SendReply
<1>10. CASE EvidenceMoves /\ UNCHANGED coordinatorVars
  BY <1>10 DEF Next
<1>11. CASE Serve
  BY <1>11 DEF Serve
<1> QED
  BY <1>1, <1>2, <1>3, <1>4, <1>5, <1>6, <1>7, <1>8, <1>9, <1>10, <1>11
  DEF CoordinatorNext, Frame, ThreadStep

-----------------------------------------------------------------------------
(* A step of the coordinator, seen from its threads.                       *)

\* What the thread of c may be left as: its copy is the one it had or a new one of
\* the runtime, and it demotes only for a boot.
MayBecome(c, new) ==
    /\ new \in ConnectionState
    /\ new.pc = "demote" => new.fences \in Boots
    /\ \/ new.copy = None
       \/ new.copy = StoreContents /\ UNCHANGED vars
       \/ connections[c] # None /\ new.copy = connections[c].copy

ThreadMoved(c) ==
    \E new : /\ connections' = [connections EXCEPT ![c] = new]
             /\ new = None \/ MayBecome(c, new)

LEMMA ReplyType ==
  ASSUME TypeInv, NEW c \in Evaluators
  PROVE  EvaluationReply(c) \in Replies \cup {None}
<1> DEFINE e == evaluations[c]
<1>1. CASE ~Committable(c)
  BY <1>1 DEF EvaluationReply
<1>2. CASE Committable(c)
  <2>1. e.request \in Requests
    BY <1>2, EvaluationParts DEF Committable, InPhase, TypeInv, RuntimeTypeOK
  <2>2. RevisionOf(e).generation \in Nat
    BY <1>2, RevisionType, RuntimeLimitsAssumption DEF Revision
  <2>3. SameRevision(e) => proofs[e.request].generation \in Nat
    <3>1. SameRevision(e) => proofs[e.request] # None
      BY DEF SameRevision, RecordOf, EmptyRevision
    <3>2. proofs[e.request] # None => proofs[e.request] \in Revision
      BY <2>1 DEF TypeInv, RuntimeTypeOK, StoreTypeOK
    <3> QED
      BY <3>1, <3>2, RuntimeLimitsAssumption DEF Revision
  <2>4. PICK g \in Nat : EvaluationReply(c) = Reply(e.request, g)
    BY <1>2, <2>2, <2>3 DEF EvaluationReply
  <2> QED
    BY <2>1, <2>4 DEF Reply, Replies
<1> QED
  BY <1>1, <1>2

\* Where a thread goes from the states it has typed fields in.
LEMMA ConnectionParts ==
  ASSUME ProcessTypeOK, ThreadsInv, NEW c \in Evaluators, connections[c] # None
  PROVE  /\ connections[c] \in ConnectionState
         /\ connections[c].boot \in Boots \cup {None}
         /\ connections[c].reply \in Replies \cup {None}
         /\ connections[c].copy \in StoredContents \cup {None}
         /\ connections[c].pc = "demote" => connections[c].fences \in Boots
<1>1. connections[c] \in ConnectionState
  BY DEF ProcessTypeOK
<1> QED
  BY <1>1 DEF ConnectionState, ThreadsInv, Open

LEMMA GoesMoves ==
  ASSUME ProcessTypeOK, ThreadsInv, NEW c \in Evaluators, connections[c] # None,
         NEW pc \in {"idle", "call", "save", "write", "reply"}, Goes(c, pc)
  PROVE  ThreadMoved(c)
<1> DEFINE new == [connections[c] EXCEPT !.pc = pc]
<1>1. connections' = [connections EXCEPT ![c] = new]
  BY DEF Goes, ProcessTypeOK
<1>2. new \in ConnectionState /\ new.pc = pc /\ new.copy = connections[c].copy
  BY ConnectionParts DEF ConnectionState
<1> QED
  BY <1>1, <1>2 DEF ThreadMoved, MayBecome

LEMMA SaveMoves ==
  ASSUME ProcessTypeOK, ThreadsInv, NEW c \in Evaluators, connections[c] # None,
         NEW reply \in Replies \cup {None}, GoesToSave(c, reply)
  PROVE  ThreadMoved(c)
<1> DEFINE new == [connections[c] EXCEPT !.pc = "save", !.reply = reply]
<1>1. connections' = [connections EXCEPT ![c] = new]
  BY DEF GoesToSave, ProcessTypeOK
<1>2. new \in ConnectionState /\ new.pc = "save" /\ new.copy = connections[c].copy
  BY ConnectionParts DEF ConnectionState
<1> QED
  BY <1>1, <1>2 DEF ThreadMoved, MayBecome

LEMMA FrameMoves ==
  ASSUME CoordinatorInv, NEW c \in Evaluators, Frame(c)
  PROVE  ThreadMoved(c) /\ connections[c] # None /\ UNCHANGED <<status, store, acked>>
<1>0. /\ ProcessTypeOK /\ ThreadsInv /\ TypeInv
      /\ connections \in [Evaluators -> ConnectionState \cup {None}]
      /\ None \in Replies \cup {None}
  BY DEF CoordinatorInv, RuntimeInv, ProcessTypeOK
<1>1. ASSUME NEW s \in Registrations, Hello(c, s)
      PROVE  ThreadMoved(c) /\ connections[c] # None /\ UNCHANGED <<status, store, acked>>
  <2> DEFINE new == [connections[c] EXCEPT !.boot = s.boot]
  <2>0. connections[c] # None /\ connections[c].pc = "idle" /\ s.boot \in Boots
    BY <1>1, RuntimeAssumption DEF Hello, At, SessionRequest
  <2>1. connections' = [connections EXCEPT ![c] = new]
    BY <1>0, <1>1 DEF Hello
  <2>2. new \in ConnectionState /\ new.pc = "idle" /\ new.copy = connections[c].copy
    BY <1>0, <2>0, ConnectionParts DEF ConnectionState
  <2>3. ThreadMoved(c)
    BY <2>0, <2>1, <2>2 DEF ThreadMoved, MayBecome
  <2> QED
    BY <1>1, <2>0, <2>3 DEF Hello
<1>2. ASSUME NEW p \in Policies, NEW content \in Contents, NEW a \in Actors,
             PublishPolicyFrame(c, p, content, a)
      PROVE  ThreadMoved(c) /\ connections[c] # None /\ UNCHANGED <<status, store, acked>>
  <2>1. PolicyGeneration(p) + 1 \in Nat
    BY <1>0, PolicyGenerationType, RuntimeLimitsAssumption DEF TypeInv, RuntimeTypeOK
  <2>2. Reply(p, PolicyGeneration(p) + 1) \in Replies \cup {None}
    BY <2>1 DEF Reply, Replies
  <2> QED
    BY <1>0, <1>2, <2>2, SaveMoves DEF PublishPolicyFrame, At
<1>3. ASSUME NEW r \in Requests, NEW a \in Actors,
             PublishProofFrame(c, r, a) \/ RevalidateFrame(c, r, a)
      PROVE  ThreadMoved(c) /\ connections[c] # None /\ UNCHANGED <<status, store, acked>>
  BY <1>0, <1>3, SaveMoves, GoesMoves DEF PublishProofFrame, RevalidateFrame, At
<1>4. ASSUME NEW b \in Boots, FenceFrame(c, b)
      PROVE  ThreadMoved(c) /\ connections[c] # None /\ UNCHANGED <<status, store, acked>>
  <2> DEFINE new == [connections[c] EXCEPT !.pc = "demote", !.fences = b]
  <2>0. connections[c] # None
    BY <1>4 DEF FenceFrame, At
  <2>1. connections' = [connections EXCEPT ![c] = new]
    BY <1>0, <1>4 DEF FenceFrame
  <2>2. new \in ConnectionState /\ new.fences = b /\ new.copy = connections[c].copy
    BY <1>0, <2>0, ConnectionParts DEF ConnectionState
  <2>3. ThreadMoved(c)
    BY <2>0, <2>1, <2>2 DEF ThreadMoved, MayBecome
  <2> QED
    BY <1>4, <2>0, <2>3 DEF FenceFrame
<1> QED
  BY <1>1, <1>2, <1>3, <1>4 DEF Frame

LEMMA ThreadStepMoves ==
  ASSUME CoordinatorInv, NEW c \in Evaluators,
         Disconnect(c) \/ Call(c) \/ DemoteFenced(c) \/ SaveCopy(c) \/ SendReply(c)
  PROVE  /\ ThreadMoved(c) /\ connections[c] # None /\ UNCHANGED <<status, store>>
         /\ acked' \in [Policies \cup Requests -> Nat]
<1>0. /\ ProcessTypeOK /\ ThreadsInv /\ TypeInv /\ RuntimeInv
      /\ connections \in [Evaluators -> ConnectionState \cup {None}]
      /\ acked \in [Policies \cup Requests -> Nat]
  BY DEF CoordinatorInv, RuntimeInv, ProcessTypeOK
<1>a. connections[c] # None /\ UNCHANGED <<status, store>>
  BY DEF Disconnect, Call, DemoteFenced, SaveCopy, SendReply, At
<1>b. connections[c] \in ConnectionState
  BY <1>0, <1>a
<1>1. CASE Disconnect(c)
  <2> DEFINE new == [connections[c] EXCEPT !.pc = "demote", !.leaving = TRUE,
                                           !.fences = connections[c].boot]
  <2>1. CASE connections[c].boot = None
    BY <1>0, <1>a, <1>1, <2>1 DEF Disconnect, ThreadMoved
  <2>2. CASE connections[c].boot # None
    <3>1. connections[c].boot \in Boots
      BY <1>0, <1>a, <2>2, ConnectionParts
    <3>2. connections' = [connections EXCEPT ![c] = new]
      BY <1>0, <1>1, <2>2 DEF Disconnect
    <3>3. new \in ConnectionState /\ new.fences \in Boots /\ new.copy = connections[c].copy
      BY <1>b, <3>1 DEF ConnectionState
    <3>4. ThreadMoved(c)
      BY <1>a, <3>2, <3>3 DEF ThreadMoved, MayBecome
    <3> QED
      BY <1>0, <1>a, <1>1, <3>4 DEF Disconnect
  <2> QED
    BY <2>1, <2>2
<1>2. CASE Call(c)
  <2>1. CASE UNCHANGED connections
    <3>1. connections' = [connections EXCEPT ![c] = connections[c]]
      BY <1>0, <2>1
    <3>2. connections[c].pc = "demote" => connections[c].fences \in Boots
      BY <1>0, <1>a, ConnectionParts
    <3>3. ThreadMoved(c)
      BY <1>a, <1>b, <3>1, <3>2 DEF ThreadMoved, MayBecome
    <3> QED
      BY <1>0, <1>a, <1>2, <3>3 DEF Call
  <2>2. CASE GoesToSave(c, EvaluationReply(c))
    <3>1. ThreadMoved(c)
      BY <1>0, <1>a, <2>2, ReplyType, SaveMoves
    <3> QED
      BY <1>0, <1>a, <1>2, <3>1 DEF Call
  <2> QED
    BY <1>2, <2>1, <2>2 DEF Call
<1>3. CASE DemoteFenced(c)
  <2> DEFINE pc == IF connections[c].leaving THEN "save" ELSE "idle"
             new == [connections[c] EXCEPT !.fences = None, !.pc = pc]
  <2>1. connections' = [connections EXCEPT ![c] = new]
    BY <1>0, <1>3 DEF DemoteFenced
  <2>2. new \in ConnectionState /\ new.pc # "demote" /\ new.copy = connections[c].copy
    BY <1>b DEF ConnectionState
  <2>3. ThreadMoved(c)
    BY <1>a, <2>1, <2>2 DEF ThreadMoved, MayBecome
  <2> QED
    BY <1>0, <1>a, <1>3, <2>3 DEF DemoteFenced
<1>4. CASE SaveCopy(c)
  <2> DEFINE new == [connections[c] EXCEPT !.pc = "write", !.copy = StoreContents]
  <2>1. connections' = [connections EXCEPT ![c] = new] /\ UNCHANGED vars
    BY <1>0, <1>4 DEF SaveCopy
  <2>2. StoreContents \in StoredContents
    BY <1>0, CopyIsSound
  <2>3. new \in ConnectionState /\ new.pc = "write" /\ new.copy = StoreContents
    BY <1>b, <2>2 DEF ConnectionState
  <2>4. ThreadMoved(c)
    BY <2>1, <2>3 DEF ThreadMoved, MayBecome
  <2> QED
    BY <1>0, <1>a, <1>4, <2>4 DEF SaveCopy
<1>5. CASE SendReply(c)
  <2> DEFINE new == [connections[c] EXCEPT !.pc = "idle", !.reply = None]
  <2>1. connections' = [connections EXCEPT ![c] = new]
    BY <1>0, <1>5 DEF SendReply
  <2>2. new \in ConnectionState /\ new.pc = "idle" /\ new.copy = connections[c].copy
    BY <1>b DEF ConnectionState
  <2>3. ThreadMoved(c)
    BY <1>a, <2>1, <2>2 DEF ThreadMoved, MayBecome
  <2>4. /\ connections[c].reply \in Replies \cup {None}
        /\ connections[c].reply # None => /\ connections[c].reply.key \in Policies \cup Requests
                                          /\ connections[c].reply.generation \in Nat
    BY <1>b DEF ConnectionState, Replies
  <2>5. acked' \in [Policies \cup Requests -> Nat]
    BY <1>0, <1>5, <2>4 DEF SendReply
  <2> QED
    BY <1>a, <2>3, <2>5
<1> QED
  BY <1>1, <1>2, <1>3, <1>4, <1>5

\* The end of a save, whether or not the write succeeded.
LEMMA SavedMoves ==
  ASSUME ProcessTypeOK, NEW c \in Evaluators, connections[c] # None, Saved(c)
  PROVE  ThreadMoved(c)
<1>0. /\ connections \in [Evaluators -> ConnectionState \cup {None}]
      /\ connections[c] \in ConnectionState
  BY DEF ProcessTypeOK
<1>1. CASE connections[c].leaving
  <2>1. connections' = [connections EXCEPT ![c] = None]
    BY <1>0, <1>1 DEF Saved
  <2> QED
    BY <2>1 DEF ThreadMoved
<1>2. CASE ~connections[c].leaving
  <2> DEFINE new == [connections[c] EXCEPT !.pc = "reply", !.copy = None]
  <2>1. connections' = [connections EXCEPT ![c] = new]
    BY <1>0, <1>2 DEF Saved
  <2>2. new \in ConnectionState /\ new.pc = "reply" /\ new.copy = None
    BY <1>0 DEF ConnectionState
  <2> QED
    BY <2>1, <2>2 DEF ThreadMoved, MayBecome
<1> QED
  BY <1>1, <1>2

\* Every step of a connection moves its own thread, and puts on disk at most the
\* copy this thread took.
LEMMA ConnectionMoves ==
  ASSUME CoordinatorInv, NEW c \in Evaluators,
         Accept(c) \/ Frame(c) \/ Disconnect(c) \/ ThreadStep(c)
  PROVE  /\ ThreadMoved(c)
         /\ status # "down" /\ status' = status
         /\ \/ store' = store
            \/ c \in Open /\ store' = connections[c].copy /\ UNCHANGED vars
         /\ acked' \in [Policies \cup Requests -> Nat]
<1>0. /\ ProcessTypeOK /\ ThreadsInv
      /\ acked \in [Policies \cup Requests -> Nat]
  BY DEF CoordinatorInv, ProcessTypeOK
<1>a. connections[c] # None => status # "down" /\ c \in Open
  BY <1>0 DEF ThreadsInv, Open
<1>1. CASE Accept(c)
  <2>1. Idle(None) \in ConnectionState /\ Idle(None).pc = "idle" /\ Idle(None).copy = None
    BY DEF Idle, ConnectionState
  <2>2. ThreadMoved(c)
    BY <1>1, <2>1 DEF Accept, ThreadMoved, MayBecome
  <2> QED
    BY <1>0, <1>1, <2>2 DEF Accept
<1>2. CASE Frame(c)
  BY <1>0, <1>a, <1>2, FrameMoves
<1>3. CASE Disconnect(c) \/ Call(c) \/ DemoteFenced(c) \/ SaveCopy(c) \/ SendReply(c)
  BY <1>a, <1>3, ThreadStepMoves
<1>4. CASE WriteStore(c) \/ WriteFails(c)
  <2>1. connections[c] # None /\ Saved(c)
    BY <1>4 DEF WriteStore, WriteFails, At
  <2>2. ThreadMoved(c)
    BY <1>0, <2>1, SavedMoves
  <2> QED
    BY <1>0, <1>a, <1>4, <2>1, <2>2 DEF WriteStore, WriteFails
<1> QED
  BY <1>1, <1>2, <1>3, <1>4 DEF ThreadStep

-----------------------------------------------------------------------------
(* The invariant while the process runs.                                   *)

LEMMA RunningRuntime ==
  ASSUME RuntimeInv, [Next]_vars PROVE RuntimeInv'
<1>1. TypeInv' /\ RetentionInv' /\ RuntimeSound'
  BY TypeNext, RetentionNext, SoundNext DEF RuntimeInv
<1> QED
  BY <1>1 DEF RuntimeInv

LEMMA RunningStore ==
  ASSUME CoordinatorInv, [Next]_vars, status' = status,
         \/ store' = store
         \/ /\ UNCHANGED vars
            /\ \E k : /\ store' = k
                      /\ k # None => k \in StoredContents /\ SoundContents(k) /\ NotAhead(k)
  PROVE  StoreInv' /\ store' \in StoredContents \cup {None}
<1>0. /\ TypeInv /\ StoreInv /\ ProcessTypeOK
  BY DEF CoordinatorInv, RuntimeInv
<1>1. PICK k : k = store'
  OBVIOUS
<1>2. k # None => k \in StoredContents /\ SoundContents(k)
  BY <1>0, <1>1 DEF StoreInv, ProcessTypeOK
<1>3. ASSUME status # "down", k # None, Readable(k) PROVE NotAhead(k)
  BY <1>0, <1>1, <1>3 DEF StoreInv, StoreNeverAhead
<1>4. ASSUME status # "down", k # None, Readable(k)
      PROVE  /\ k.epoch <= epoch' /\ k.fenced \subseteq fenced'
             /\ \A p \in Policies : Generation(k.policies[p]) <= PolicyGeneration(p)'
             /\ \A r \in Requests : Generation(k.proofs[r]) <= Generation(proofs'[r])
  BY <1>0, <1>2, <1>3, <1>4, StaysNotAhead
<1>5. StoreNeverAhead'
  BY <1>1, <1>4 DEF StoreNeverAhead, NotAhead, Readable, Decodes
<1> QED
  BY <1>1, <1>2, <1>5 DEF StoreInv, SoundContents

LEMMA RunningCopies ==
  ASSUME CoordinatorInv, [Next]_vars, NEW c \in Evaluators, ThreadMoved(c)
  PROVE  /\ CopyInv'
         /\ connections' \in [Evaluators -> ConnectionState \cup {None}]
         /\ \A d \in Evaluators :
              connections'[d] # None /\ connections'[d].pc = "demote" => connections'[d].fences \in Boots
<1>0. /\ RuntimeInv /\ TypeInv /\ ThreadsInv /\ CopyInv /\ ProcessTypeOK
      /\ connections \in [Evaluators -> ConnectionState \cup {None}]
  BY DEF CoordinatorInv, RuntimeInv, ProcessTypeOK
<1>1. PICK new : /\ connections' = [connections EXCEPT ![c] = new]
                 /\ new = None \/ MayBecome(c, new)
  BY DEF ThreadMoved
<1>2. connections' \in [Evaluators -> ConnectionState \cup {None}]
  BY <1>0, <1>1 DEF MayBecome
<1>3. \A d \in Evaluators : connections'[d] = IF d = c THEN new ELSE connections[d]
  BY <1>0, <1>1
<1>4. \A d \in Evaluators :
        connections'[d] # None /\ connections'[d].pc = "demote" => connections'[d].fences \in Boots
  BY <1>0, <1>1, <1>3, ConnectionParts DEF MayBecome
<1>5. ASSUME NEW d \in Evaluators, NEW k, connections'[d] # None, k = connections'[d].copy, k # None
      PROVE  /\ SoundContents(k) /\ k.epoch <= epoch' /\ k.fenced \subseteq fenced'
             /\ \A p \in Policies : Generation(k.policies[p]) <= PolicyGeneration(p)'
             /\ \A r \in Requests : Generation(k.proofs[r]) <= Generation(proofs'[r])
  <2>1. \/ connections[d] # None /\ k = connections[d].copy
        \/ k = StoreContents
    BY <1>1, <1>3, <1>5 DEF MayBecome
  <2>2. k \in StoredContents /\ SoundContents(k) /\ NotAhead(k)
    <3>1. CASE connections[d] # None /\ k = connections[d].copy
      BY <1>0, <1>5, <3>1, ConnectionParts DEF CopyInv, Open
    <3>2. CASE k = StoreContents
      BY <1>0, <3>2, CopyIsSound
    <3> QED
      BY <2>1, <3>1, <3>2
  <2> QED
    BY <1>0, <2>2, StaysNotAhead
<1>6. CopyInv'
  BY <1>5 DEF CopyInv, Open, NotAhead, SoundContents
<1> QED
  BY <1>2, <1>4, <1>6

\* A step of a connection keeps the invariant, also when it writes a copy that it
\* took before other connections moved the runtime on.
LEMMA ConnectionKeepsInv ==
  ASSUME CoordinatorInv, [Next]_vars, NEW c \in Evaluators,
         Accept(c) \/ Frame(c) \/ Disconnect(c) \/ ThreadStep(c)
  PROVE  CoordinatorInv'
<1>0. RuntimeInv /\ ProcessTypeOK /\ ThreadsInv /\ CopyInv
  BY DEF CoordinatorInv
<1>1. /\ ThreadMoved(c)
      /\ status # "down" /\ status' = status
      /\ \/ store' = store
         \/ c \in Open /\ store' = connections[c].copy /\ UNCHANGED vars
      /\ acked' \in [Policies \cup Requests -> Nat]
  BY ConnectionMoves
<1>2. StoreInv' /\ store' \in StoredContents \cup {None}
  <2>1. c \in Open /\ connections[c].copy # None =>
          /\ connections[c].copy \in StoredContents
          /\ SoundContents(connections[c].copy) /\ NotAhead(connections[c].copy)
    BY <1>0, ConnectionParts DEF CopyInv, Open
  <2> QED
    BY <1>1, <2>1, RunningStore
<1>3. CopyInv' /\ connections' \in [Evaluators -> ConnectionState \cup {None}]
  BY <1>1, RunningCopies
<1>4. \A d \in Evaluators :
        connections'[d] # None /\ connections'[d].pc = "demote" => connections'[d].fences \in Boots
  BY <1>1, RunningCopies
<1>5. ProcessTypeOK' /\ ThreadsInv'
  BY <1>0, <1>1, <1>2, <1>3, <1>4 DEF ProcessTypeOK, ThreadsInv, Open
<1> QED
  BY <1>0, <1>2, <1>3, <1>5, RunningRuntime DEF CoordinatorInv

\* So does a step no connection takes: the evidence moves, or the process has
\* saved what it started from.
LEMMA ServeKeepsInv ==
  ASSUME CoordinatorInv,
         Serve \/ (EvidenceMoves /\ UNCHANGED coordinatorVars) \/ UNCHANGED systemVars
  PROVE  CoordinatorInv'
<1>0. RuntimeInv /\ ProcessTypeOK /\ ThreadsInv /\ CopyInv /\ StoreInv
  BY DEF CoordinatorInv
<1>a. [Next]_vars /\ UNCHANGED <<connections, acked>>
  BY DEF Serve, Next, coordinatorVars, systemVars
<1>1. CopyInv'
  <2>1. ASSUME NEW d \in Evaluators, NEW k, connections'[d] # None, k = connections'[d].copy, k # None
        PROVE  /\ SoundContents(k) /\ k.epoch <= epoch' /\ k.fenced \subseteq fenced'
               /\ \A p \in Policies : Generation(k.policies[p]) <= PolicyGeneration(p)'
               /\ \A r \in Requests : Generation(k.proofs[r]) <= Generation(proofs'[r])
    <3>1. k \in StoredContents /\ SoundContents(k) /\ NotAhead(k)
      BY <1>0, <1>a, <2>1, ConnectionParts DEF CopyInv, Open
    <3> QED
      BY <1>0, <1>a, <3>1, StaysNotAhead DEF RuntimeInv
  <2> QED
    BY <2>1 DEF CopyInv, Open, NotAhead, SoundContents
<1>2. CASE UNCHANGED <<status, store>>
  <2>1. StoreInv'
    BY <1>a, <1>2, RunningStore
  <2>2. ProcessTypeOK' /\ ThreadsInv'
    BY <1>0, <1>a, <1>2 DEF ProcessTypeOK, ThreadsInv, Open
  <2> QED
    BY <1>0, <1>a, <1>1, <2>1, <2>2, RunningRuntime DEF CoordinatorInv
<1>3. CASE Serve
  <2>0. PICK k : k = store'
    OBVIOUS
  <2>1. /\ status # "down" /\ status' = "serving" /\ UNCHANGED vars
        /\ k = store \/ k = StoreContents
    BY <1>3, <2>0 DEF Serve
  <2>2. StoreContents \in StoredContents /\ SoundContents(StoreContents) /\ NotAhead(StoreContents)
    BY <1>0, CopyIsSound
  <2>3. k # None => k \in StoredContents /\ SoundContents(k)
    BY <1>0, <2>1, <2>2 DEF StoreInv, ProcessTypeOK
  <2>4. k # None /\ Readable(k) => NotAhead(k)
    BY <1>0, <2>1, <2>2 DEF StoreInv, StoreNeverAhead
  <2>5. StoreNeverAhead'
    <3>1. UNCHANGED <<epoch, fenced, policies, proofs>>
      BY <2>1 DEF vars, authorityVars, storeVars
    <3> QED
      BY <2>0, <2>4, <3>1 DEF StoreNeverAhead, NotAhead, Readable, Decodes, PolicyGeneration
  <2>6. StoreInv'
    BY <2>0, <2>3, <2>5 DEF StoreInv, SoundContents
  <2>7. ProcessTypeOK' /\ ThreadsInv'
    BY <1>0, <1>a, <2>0, <2>1, <2>3 DEF ProcessTypeOK, ThreadsInv, Open
  <2> QED
    BY <1>0, <1>a, <1>1, <2>6, <2>7, RunningRuntime DEF CoordinatorInv
<1> QED
  BY <1>2, <1>3 DEF coordinatorVars, systemVars

-----------------------------------------------------------------------------
(* The invariant when the process is killed or started.                    *)

\* A runtime that holds sound, readable contents and nothing else is in order:
\* what load rebuilds is typed, and its history goes on where the file ends.
LEMMA RestoredInv ==
  ASSUME NEW k \in StoredContents, SoundContents(k), Readable(k), RuntimeHolds(k),
         TypeInv, epoch_restored' \in BOOLEAN, ~epoch_restored' => k.epoch = 1
  PROVE  RuntimeInv'
<1>0. /\ k.epoch \in 1..MaxEpoch /\ k.policies \in [Policies -> Policy \cup {None}]
      /\ k.proofs \in [Requests -> Revision \cup {None}]
      /\ k.history \in [Requests -> Seq(Retained)] /\ k.fenced \subseteq Boots
  BY DEF StoredContents
<1>a. ASSUME NEW r \in Requests, k.proofs[r] # None
      PROVE  /\ k.proofs[r] \in Revision /\ k.proofs[r].generation \in 1..MaxGeneration
             /\ k.proofs[r].boot \in Boots /\ k.proofs[r].entities \subseteq Entities
             /\ k.proofs[r].topology_generation \in 0..MaxTopology
             /\ k.proofs[r].failure_domain_generation \in 0..MaxDomains
  <2>1. k.proofs[r] \in Revision
    BY <1>0, <1>a
  <2>2. k.proofs[r].generation # Unset
    BY <1>a DEF Readable, Decodes
  <2>3. k.proofs[r].boot \in Boots
    BY <1>a, <2>2 DEF SoundContents
  <2> QED
    BY <2>1, <2>2, <2>3, RuntimeLimitsAssumption DEF Revision, Unset
<1>b. \A r \in Requests : IsRequest(r)
  BY RuntimeAssumption
<1>1. AuthorityInv'
  <2>1. /\ sessions' = [b \in Boots |-> None] /\ attempts' = [a \in Attempts |-> None]
        /\ epoch' = k.epoch /\ fenced' = k.fenced
    BY DEF RuntimeHolds
  <2>2. AuthorityTypeOK'
    BY <1>0, <2>1 DEF AuthorityTypeOK
  <2>3. RegisteredBoots' = {} /\ LiveBoots' = {}
    BY <2>1 DEF RegisteredBoots, LiveBoots
  <2> QED
    BY <2>1, <2>2, <2>3 DEF AuthorityInv, FenceRecordsAgree, OneLiveIncarnation, UnrestoredEpoch
<1>2. StoreTypeOK'
  <2>1. snapshots' \in [Requests -> Seq(1..MaxGeneration)]
    <3>1. \A r \in Requests : k.proofs[r] # None => <<k.proofs[r].generation>> \in Seq(1..MaxGeneration)
      BY <1>a
    <3>2. <<>> \in Seq(1..MaxGeneration)
      OBVIOUS
    <3> QED
      BY <3>1, <3>2 DEF RuntimeHolds, Stored
  <2> QED
    BY <1>0, <2>1 DEF StoreTypeOK, RuntimeHolds
<1>3. IndexTypeOK'
  <2> DEFINE loaded == Stored(k)
  <2>0. \A r \in loaded : /\ r \in Requests /\ k.proofs[r] # None
                          /\ DOMAIN r.paths \subseteq Paths /\ r.policy \in Policies
    BY <1>b DEF Stored, IsRequest
  <2>1. \A r \in loaded : LoadedDomains(r, k.proofs[r]) \subseteq Domains
    <3> SUFFICES ASSUME NEW r \in loaded PROVE LoadedDomains(r, k.proofs[r]) \subseteq Domains
      OBVIOUS
    <3>1. r \in Requests /\ k.proofs[r].failure_domain_generation \in 0..MaxDomains
      BY <1>a, <2>0
    <3>2. CASE k.proofs[r].failure_domain_generation = Unset
      BY <3>2 DEF LoadedDomains
    <3>3. CASE k.proofs[r].failure_domain_generation # Unset
      <4>1. k.proofs[r].failure_domain_generation \in 1..MaxDomains
        BY <3>1, <3>3, RuntimeLimitsAssumption DEF Unset
      <4>2. Shared(r, k.proofs[r].failure_domain_generation) \subseteq Domains
        BY <3>1, <4>1, CoordinatorAssumption, EvidenceAssumption
      <4> QED
        BY <4>2 DEF LoadedDomains
    <3> QED
      BY <3>2, <3>3
  <2>2. LoadedIndexes(k)
    BY DEF RuntimeHolds
  <2>3. by_path' \subseteq Paths \X Requests
    BY <2>0, <2>2 DEF LoadedIndexes
  <2>4. by_domain' \subseteq Domains \X Requests
    BY <2>0, <2>1, <2>2 DEF LoadedIndexes
  <2>5. by_entity' \subseteq Entities \X Requests
    BY <1>a, <2>0, <2>2 DEF LoadedIndexes
  <2>6. by_policy' \subseteq Policies \X Requests
    BY <2>0, <2>2 DEF LoadedIndexes
  <2>7. by_boot' \subseteq Boots \X Requests
    BY <1>a, <2>0, <2>2 DEF LoadedIndexes
  <2>8. /\ by_topology_generation' \subseteq (0..MaxTopology) \X Requests
        /\ by_failure_domain_generation' \subseteq (0..MaxDomains) \X Requests
    BY <1>a, <2>0, <2>2 DEF LoadedIndexes
  <2> QED
    BY <2>3, <2>4, <2>5, <2>6, <2>7, <2>8 DEF IndexTypeOK
<1>4. CallTypeOK' /\ EvaluationsConsistent'
  BY DEF RuntimeHolds, CallTypeOK, EvaluationsConsistent, TypeInv, RuntimeTypeOK
<1>5. EvidenceTypeOK' /\ GhostTypeOK'
  BY DEF RuntimeHolds, EvidenceTypeOK, evidenceVars, GhostTypeOK, TypeInv, RuntimeTypeOK
<1>6. RetentionInv'
  <2> SUFFICES ASSUME NEW r \in Requests
               PROVE  /\ proofs'[r] = None => history'[r] = <<>> /\ snapshots'[r] = <<>>
                      /\ proofs'[r] # None =>
                           /\ HistoryOrdered(history'[r], proofs'[r].generation)
                           /\ SnapshotsConsecutive(snapshots'[r], proofs'[r].generation)
    BY DEF RetentionInv, HistoryOrdered, SnapshotsConsecutive
  <2>1. /\ proofs'[r] = k.proofs[r] /\ history'[r] = k.history[r]
        /\ snapshots'[r] = IF k.proofs[r] # None THEN <<k.proofs[r].generation>> ELSE <<>>
    BY DEF RuntimeHolds, Stored
  <2>2. CASE k.proofs[r] = None
    BY <2>1, <2>2 DEF SoundContents
  <2>3. CASE k.proofs[r] # None
    <3> DEFINE g == k.proofs[r].generation
    <3>1. HistoryOrdered(k.history[r], g) /\ g \in Nat
      BY <1>a, <2>3 DEF SoundContents
    <3>2. SnapshotsConsecutive(<<g>>, g)
      <4>1. Len(<<g>>) = 1 /\ DOMAIN <<g>> = {1} /\ <<g>>[1] = g - (1 - 1) /\ 1 <= max_history
        BY <3>1, RuntimeLimitsAssumption
      <4> QED
        BY <4>1 DEF SnapshotsConsecutive
    <3> QED
      BY <2>1, <2>3, <3>1, <3>2
  <2> QED
    BY <2>2, <2>3
<1>7. RuntimeSound'
  <2> SUFFICES ASSUME NEW r \in Requests, proofs'[r] # None
               PROVE  /\ proofs'[r].policy_generation <= PolicyGeneration(r.policy)'
                      /\ proofs'[r].epoch <= epoch'
                      /\ proofs'[r].generation # Unset => proofs'[r].boot \in Boots
    BY DEF RuntimeSound
  <2>1. /\ proofs' = k.proofs /\ epoch' = k.epoch
        /\ PolicyGeneration(r.policy)' = Generation(k.policies[r.policy])
    BY DEF RuntimeHolds, PolicyGeneration, Generation
  <2> QED
    BY <2>1 DEF SoundContents
<1> QED
  BY <1>1, <1>2, <1>3, <1>4, <1>5, <1>6, <1>7 DEF RuntimeInv, TypeInv, RuntimeTypeOK

LEMMA EmptyContentsSound ==
  EmptyContents \in StoredContents /\ SoundContents(EmptyContents) /\ Readable(EmptyContents)
<1>1. 1 \in 1..MaxEpoch
  BY LimitsAssumption
<1> QED
  BY <1>1 DEF EmptyContents, StoredContents, SoundContents, Readable

\* What a process starts from is sound, because what was written is, and behind
\* nothing that it could load.
LEMMA StartingContentsSound ==
  ASSUME CoordinatorInv, StartingContents.epoch <= MaxEpoch
  PROVE  /\ StartingContents \in StoredContents
         /\ SoundContents(StartingContents) /\ Readable(StartingContents)
<1>0. /\ store # None => store \in StoredContents /\ SoundContents(store)
  BY DEF CoordinatorInv, StoreInv, ProcessTypeOK
<1>1. CASE store # None /\ Readable(store)
  <2> DEFINE k == StartingContents
  <2>1. k = [store EXCEPT !.epoch = @ + 1]
    BY <1>1 DEF StartingContents
  <2>2. /\ k.epoch = store.epoch + 1 /\ k.policies = store.policies /\ k.proofs = store.proofs
        /\ k.history = store.history /\ k.fenced = store.fenced
    BY <1>0, <1>1, <2>1 DEF StoredContents
  <2>3. store.epoch \in 1..MaxEpoch /\ k.epoch \in 1..MaxEpoch
    BY <1>0, <1>1, <2>2, LimitsAssumption DEF StoredContents
  <2>4. k \in StoredContents
    BY <1>0, <1>1, <2>1, <2>3, <2>2 DEF StoredContents
  <2>5. \A r \in Requests : store.proofs[r] # None => store.proofs[r].epoch \in Nat
    BY <1>0, <1>1, LimitsAssumption DEF StoredContents, Revision
  <2>6. SoundContents(k)
    <3>1. \A r \in Requests : store.proofs[r] # None => store.proofs[r].epoch <= k.epoch
      BY <1>0, <1>1, <2>2, <2>3, <2>5, LimitsAssumption DEF SoundContents
    <3> HIDE DEF k
    <3> QED
      BY <1>0, <1>1, <2>2, <3>1 DEF SoundContents
  <2>7. Readable(k)
    BY <1>1, <2>2 DEF Readable
  <2> QED
    BY <2>4, <2>6, <2>7
<1>2. CASE ~(store # None /\ Readable(store))
  BY <1>2, EmptyContentsSound DEF StartingContents
<1> QED
  BY <1>1, <1>2

LEMMA KillKeepsInv == CoordinatorInv /\ Kill => CoordinatorInv'
<1> SUFFICES ASSUME CoordinatorInv, Kill PROVE CoordinatorInv'
  OBVIOUS
<1>0. /\ RuntimeInv /\ TypeInv /\ ProcessTypeOK /\ StoreInv
      /\ status' = "down" /\ store' = store /\ acked' = acked
      /\ connections' = [c \in Evaluators |-> None]
  BY DEF CoordinatorInv, RuntimeInv, Kill
<1>1. RuntimeInv'
  <2>1. EmptyContents.epoch = 1
    BY DEF EmptyContents
  <2> QED
    BY <1>0, <2>1, EmptyContentsSound, RestoredInv DEF Kill
<1>2. ProcessTypeOK' /\ ThreadsInv' /\ CopyInv'
  BY <1>0 DEF ProcessTypeOK, ThreadsInv, CopyInv, Open
<1>3. StoreInv'
  BY <1>0 DEF StoreInv, StoreNeverAhead, SoundContents
<1> QED
  BY <1>1, <1>2, <1>3 DEF CoordinatorInv

\* Nothing of a store that can be loaded is lost by loading it.
LEMMA LoadKeepsInv == CoordinatorInv /\ Load => CoordinatorInv'
<1> SUFFICES ASSUME CoordinatorInv, Load PROVE CoordinatorInv'
  OBVIOUS
<1>0. /\ RuntimeInv /\ TypeInv /\ ProcessTypeOK /\ StoreInv /\ ThreadsInv
      /\ status = "down" /\ status' = "starting"
      /\ UNCHANGED <<connections, store, acked>>
  BY DEF CoordinatorInv, RuntimeInv, Load
<1>1. RuntimeInv'
  <2>1. PICK k : k = StartingContents
    OBVIOUS
  <2>2. /\ k \in StoredContents /\ SoundContents(k) /\ Readable(k)
        /\ RuntimeHolds(k) /\ epoch_restored' = TRUE
    BY <2>1, StartingContentsSound DEF Load
  <2> QED
    BY <1>0, <2>2, RestoredInv
<1>2. ProcessTypeOK' /\ ThreadsInv' /\ CopyInv'
  BY <1>0 DEF ProcessTypeOK, ThreadsInv, CopyInv, Open
<1>3. StoreNeverAhead'
  <2> SUFFICES ASSUME store # None, Readable(store)
               PROVE  /\ store.epoch <= epoch' /\ store.fenced \subseteq fenced'
                      /\ \A p \in Policies : Generation(store.policies[p]) <= PolicyGeneration(p)'
                      /\ \A r \in Requests : Generation(store.proofs[r]) <= Generation(proofs'[r])
    BY <1>0 DEF StoreNeverAhead, NotAhead, Readable, Decodes
  <2>0. store \in StoredContents
    BY <1>0 DEF ProcessTypeOK
  <2>1. /\ epoch' = store.epoch + 1 /\ fenced' = store.fenced
        /\ policies' = store.policies /\ proofs' = store.proofs
    BY <2>0 DEF Load, RuntimeHolds, StartingContents, StoredContents
  <2>2. store.epoch \in Nat
    BY <2>0, LimitsAssumption DEF StoredContents
  <2>3. ASSUME NEW p \in Policies
        PROVE  Generation(store.policies[p]) <= PolicyGeneration(p)'
    <3>1. store.policies[p] # None => store.policies[p] \in Policy
      BY <2>0 DEF StoredContents
    <3>2. Generation(store.policies[p]) \in Nat
      BY <3>1, RuntimeLimitsAssumption DEF Generation, Policy, Unset
    <3>3. PolicyGeneration(p)' = Generation(store.policies[p])
      BY <2>1 DEF PolicyGeneration, Generation
    <3> QED
      BY <3>2, <3>3
  <2>4. ASSUME NEW r \in Requests
        PROVE  Generation(store.proofs[r]) <= Generation(proofs'[r])
    <3>1. store.proofs[r] # None => store.proofs[r] \in Revision
      BY <2>0 DEF StoredContents
    <3>2. Generation(store.proofs[r]) \in Nat
      BY <3>1, RuntimeLimitsAssumption DEF Generation, Revision, Unset
    <3> QED
      BY <2>1, <3>2
  <2> QED
    BY <2>1, <2>2, <2>3, <2>4
<1>4. StoreInv'
  BY <1>0, <1>3 DEF StoreInv, SoundContents
<1> QED
  BY <1>1, <1>2, <1>4 DEF CoordinatorInv

-----------------------------------------------------------------------------
(* The reverse indexes across a restart.                                   *)

\* What load relies on when it rebuilds the entity index: a current revision lists
\* the entities of its paths, in the runtime as in every copy of it.
FootprintsRecorded(stored) ==
    \A r \in Requests :
        stored[r] # None /\ stored[r].lifecycle = "CURRENT" /\ stored[r].currentness = "CURRENT" =>
            stored[r].entities = Footprint(r, stored[r].topology_generation)

\* The part of RestoredIndexComplete that is about r; the domains load would index
\* r under are among those it consulted.
RestoredIndexed(r) ==
    /\ IndexedButDomains(r)
    /\ LoadedDomains(r, proofs[r]) \X {r} \subseteq by_domain
    /\ proofs[r].epoch = epoch =>
         Consulted(r, proofs[r].failure_domain_generation) \X {r} \subseteq by_domain

RuntimeIndexed ==
    /\ \A r \in Requests : IsCurrent(r) => RestoredIndexed(r)
    /\ FootprintsRecorded(proofs)

IndexInv ==
    /\ RuntimeIndexed
    /\ store # None => FootprintsRecorded(store.proofs)
    /\ \A c \in Open : connections[c].copy # None => FootprintsRecorded(connections[c].copy.proofs)

LEMMA LoadedAreConsulted ==
  ASSUME NEW r \in Requests, NEW v, v.failure_domain_generation \in 0..MaxDomains
  PROVE  LoadedDomains(r, v) \subseteq Consulted(r, v.failure_domain_generation)
<1>1. CASE v.failure_domain_generation = Unset
  BY <1>1 DEF LoadedDomains
<1>2. CASE v.failure_domain_generation # Unset
  <2>1. v.failure_domain_generation \in 1..MaxDomains
    BY <1>2, RuntimeLimitsAssumption DEF Unset
  <2> QED
    BY <2>1, CoordinatorAssumption DEF LoadedDomains
<1> QED
  BY <1>1, <1>2

\* A revision committed now is indexed under all it depends on.
LEMMA CommittedIsIndexed ==
  ASSUME TypeInv, NEW t \in Evaluators, CommitRevision(t), NEW r \in Requests,
         evaluations[t].request = r, IsCurrent(r)'
  PROVE  /\ RestoredIndexed(r)'
         /\ proofs'[r].entities = Footprint(r, proofs'[r].topology_generation)
<1> DEFINE e == evaluations[t]
<1>1. /\ proofs'[r] = RevisionOf(e)
      /\ e.domains \in 1..MaxDomains
      /\ e.consulted = Consulted(r, e.domains)
      /\ RevisionOf(e).topology_generation = e.topology
      /\ RevisionOf(e).failure_domain_generation = e.domains
      /\ RevisionOf(e).entities = Footprint(r, e.topology)
  BY CommitWrites DEF TypeInv, RuntimeTypeOK, StoreTypeOK
<1>2. IndexRevision(r, RevisionOf(e), e.consulted)
  BY DEF CommitRevision
<1>3. LoadedDomains(r, RevisionOf(e)) \subseteq Consulted(r, e.domains)
  BY <1>1, LoadedAreConsulted
<1>4. IndexedButDomains(r)'
  BY <1>1, <1>2 DEF IndexedButDomains, IndexRevision
<1>5. Consulted(r, e.domains) \X {r} \subseteq by_domain'
  BY <1>1, <1>2 DEF IndexRevision
<1>6. LoadedDomains(r, proofs'[r]) \X {r} \subseteq by_domain'
  BY <1>1, <1>3, <1>5
<1> QED
  BY <1>1, <1>4, <1>5, <1>6 DEF RestoredIndexed, LoadedDomains

\* A proof that a step leaves as it is stays indexed: commits only add to the
\* indexes, sweeps erase below what is current, and the epoch only grows.
LEMMA UntouchedStaysIndexed ==
  ASSUME TypeInv, RuntimeSound, [Next]_vars, NEW r \in Requests, IsCurrent(r), IsCurrent(r)',
         proofs'[r] = proofs[r], RestoredIndexed(r)
  PROVE  RestoredIndexed(r)'
<1>0. /\ proofs[r] \in Revision
      /\ proofs[r].topology_generation \in 0..MaxTopology
      /\ proofs[r].failure_domain_generation \in 0..MaxDomains
      /\ proofs[r].epoch \in Nat
  <2>1. proofs[r] \in Revision
    BY DEF IsCurrent, TypeInv, RuntimeTypeOK, StoreTypeOK
  <2> QED
    BY <2>1, LimitsAssumption DEF Revision
<1>1. /\ by_path \subseteq by_path' /\ by_domain \subseteq by_domain'
      /\ by_entity \subseteq by_entity' /\ by_policy \subseteq by_policy'
      /\ by_boot \subseteq by_boot'
      /\ <<proofs[r].topology_generation, r>> \in by_topology_generation'
      /\ <<proofs[r].failure_domain_generation, r>> \in by_failure_domain_generation'
  <2>1. CASE \E t \in Evaluators : CommitRevision(t)
    BY <2>1 DEF CommitRevision, IndexRevision, RestoredIndexed, IndexedButDomains
  <2>2. CASE ~\E t \in Evaluators : CommitRevision(t)
    BY <1>0, <2>2, IndexesKept DEF RestoredIndexed, IndexedButDomains
  <2> QED
    BY <2>1, <2>2
<1>2. IndexedButDomains(r)'
  BY <1>1 DEF RestoredIndexed, IndexedButDomains
<1>3. LoadedDomains(r, proofs'[r]) \X {r} \subseteq by_domain'
  BY <1>1 DEF RestoredIndexed
<1>4. proofs[r].epoch = epoch' => proofs[r].epoch = epoch
  <2>1. proofs[r].epoch <= epoch /\ epoch <= epoch'
    BY RuntimeMovesOn DEF RuntimeSound, IsCurrent
  <2>2. epoch \in Nat /\ epoch' \in Nat
    <3>1. AuthorityTypeOK /\ AuthorityTypeOK'
      BY TypeNext DEF TypeInv, AuthorityInv
    <3> QED
      BY <3>1, LimitsAssumption DEF AuthorityTypeOK
  <2> QED
    BY <1>0, <2>1, <2>2
<1> QED
  BY <1>1, <1>2, <1>3, <1>4 DEF RestoredIndexed, LoadedDomains

LEMMA RunningIndexes ==
  ASSUME RuntimeInv, RuntimeIndexed, [Next]_vars PROVE RuntimeIndexed'
<1>0. TypeInv /\ RuntimeSound
  BY DEF RuntimeInv
<1>1. ASSUME NEW r \in Requests, IsCurrent(r)'
      PROVE  /\ RestoredIndexed(r)'
             /\ proofs'[r].entities = Footprint(r, proofs'[r].topology_generation)
  <2>1. CASE \E t \in Evaluators : CommitRevision(t) /\ evaluations[t].request = r
    BY <1>0, <1>1, <2>1, CommittedIsIndexed
  <2>2. CASE ~\E t \in Evaluators : CommitRevision(t) /\ evaluations[t].request = r
    <3>1. proofs'[r] = proofs[r]
      <4>1. CASE ~\E t \in Evaluators : CommitRevision(t)
        BY <1>0, <1>1, <4>1, OnlyCommitsRevive DEF NotRevived
      <4>2. ASSUME NEW t \in Evaluators, CommitRevision(t) PROVE proofs'[r] = proofs[r]
        BY <1>0, <2>2, <4>2 DEF CommitRevision, TypeInv, RuntimeTypeOK, StoreTypeOK
      <4> QED
        BY <4>1, <4>2
    <3>2. IsCurrent(r)
      BY <1>1, <3>1 DEF IsCurrent
    <3>3. RestoredIndexed(r) /\ proofs[r].entities = Footprint(r, proofs[r].topology_generation)
      BY <3>2 DEF RuntimeIndexed, FootprintsRecorded, IsCurrent
    <3> QED
      BY <1>0, <1>1, <3>1, <3>2, <3>3, UntouchedStaysIndexed
  <2> QED
    BY <2>1, <2>2
<1> QED
  BY <1>1 DEF RuntimeIndexed, FootprintsRecorded, IsCurrent

\* What load rebuilds is enough for contents that only proofs of earlier epochs fill.
LEMMA RestoredIsIndexed ==
  ASSUME NEW k, FootprintsRecorded(k.proofs), RuntimeHolds(k),
         \A r \in Requests : k.proofs[r] # None => k.proofs[r].epoch # k.epoch
  PROVE  RuntimeIndexed'
<1>1. proofs' = k.proofs /\ epoch' = k.epoch /\ LoadedIndexes(k)
  BY DEF RuntimeHolds
<1>2. ASSUME NEW r \in Requests, IsCurrent(r)' PROVE RestoredIndexed(r)'
  <2>1. r \in Stored(k) /\ k.proofs[r] # None
    BY <1>1, <1>2 DEF IsCurrent, Stored
  <2>2. k.proofs[r].entities = Footprint(r, k.proofs[r].topology_generation)
    BY <1>1, <1>2 DEF FootprintsRecorded, IsCurrent
  <2>3. IndexedButDomains(r)'
    BY <1>1, <2>1, <2>2 DEF IndexedButDomains, LoadedIndexes
  <2>4. LoadedDomains(r, k.proofs[r]) \X {r} \subseteq by_domain'
    BY <1>1, <2>1 DEF LoadedIndexes
  <2>5. LoadedDomains(r, proofs[r])' = LoadedDomains(r, k.proofs[r])
    BY <1>1 DEF LoadedDomains
  <2> QED
    BY <1>1, <2>1, <2>3, <2>4, <2>5 DEF RestoredIndexed
<1> QED
  BY <1>1, <1>2 DEF RuntimeIndexed, FootprintsRecorded

LEMMA IndexNext ==
  ASSUME CoordinatorInv, IndexInv, [CoordinatorNext]_systemVars PROVE IndexInv'
<1>0. /\ RuntimeInv /\ ProcessTypeOK /\ ThreadsInv /\ StoreInv
      /\ connections \in [Evaluators -> ConnectionState \cup {None}]
  BY DEF CoordinatorInv, ProcessTypeOK
<1>1. CASE Kill
  <2>1. FootprintsRecorded(EmptyContents.proofs)
        /\ \A r \in Requests : EmptyContents.proofs[r] = None
    BY DEF FootprintsRecorded, EmptyContents
  <2>2. RuntimeIndexed'
    BY <1>1, <2>1, RestoredIsIndexed DEF Kill
  <2> QED
    BY <1>1, <2>2 DEF IndexInv, Kill, Open, FootprintsRecorded
<1>2. CASE Load
  <2>1. PICK k : k = StartingContents
    OBVIOUS
  <2>2. /\ FootprintsRecorded(k.proofs)
        /\ \A r \in Requests : k.proofs[r] # None => k.proofs[r].epoch # k.epoch
    <3>1. CASE store # None /\ Readable(store)
      <4>1. /\ store \in StoredContents /\ SoundContents(store) /\ FootprintsRecorded(store.proofs)
        BY <1>0, <3>1 DEF ProcessTypeOK, StoreInv, IndexInv
      <4>2. k.proofs = store.proofs /\ k.epoch = store.epoch + 1
        BY <2>1, <3>1, <4>1 DEF StartingContents, StoredContents
      <4>3. store.epoch \in Nat
        BY <4>1, LimitsAssumption DEF StoredContents
      <4>4. ASSUME NEW r \in Requests, store.proofs[r] # None PROVE store.proofs[r].epoch # store.epoch + 1
        <5>1. store.proofs[r] \in Revision /\ store.proofs[r].epoch <= store.epoch
          BY <4>1, <4>4 DEF StoredContents, SoundContents
        <5>2. store.proofs[r].epoch \in Nat
          BY <5>1, LimitsAssumption DEF Revision
        <5> QED
          BY <4>3, <5>1, <5>2
      <4> QED
        BY <4>1, <4>2, <4>4
    <3>2. CASE ~(store # None /\ Readable(store))
      BY <2>1, <3>2 DEF StartingContents, EmptyContents, FootprintsRecorded
    <3> QED
      BY <3>1, <3>2
  <2>3. RuntimeIndexed'
    BY <1>2, <2>1, <2>2, RestoredIsIndexed DEF Load
  <2> QED
    BY <1>2, <2>3 DEF IndexInv, Load, Open, FootprintsRecorded
<1>3. ASSUME [Next]_vars, NEW c \in Evaluators,
             Accept(c) \/ Frame(c) \/ Disconnect(c) \/ ThreadStep(c)
      PROVE  IndexInv'
  <2>1. RuntimeIndexed'
    BY <1>0, <1>3, RunningIndexes DEF IndexInv
  <2>2. /\ ThreadMoved(c)
        /\ \/ store' = store
           \/ c \in Open /\ store' = connections[c].copy
    BY <1>3, ConnectionMoves
  <2>3. ASSUME store' # None PROVE FootprintsRecorded(store'.proofs)
    BY <2>2, <2>3 DEF IndexInv
  <2>4. PICK new : /\ connections' = [connections EXCEPT ![c] = new]
                   /\ new = None \/ MayBecome(c, new)
    BY <2>2 DEF ThreadMoved
  <2>5. ASSUME NEW d \in Evaluators, connections'[d] # None, connections'[d].copy # None
        PROVE  FootprintsRecorded(connections'[d].copy.proofs)
    <3>1. CASE connections[d] # None /\ connections'[d].copy = connections[d].copy
      BY <2>5, <3>1 DEF IndexInv, Open
    <3>2. CASE connections'[d].copy = StoreContents
      BY <3>2 DEF StoreContents, IndexInv, RuntimeIndexed
    <3> QED
      BY <1>0, <2>4, <2>5, <3>1, <3>2 DEF MayBecome
  <2>6. \A d \in Open' : connections'[d].copy # None => FootprintsRecorded(connections'[d].copy.proofs)
    BY <2>5 DEF Open
  <2> QED
    BY <2>1, <2>3, <2>6 DEF IndexInv, FootprintsRecorded
<1>4. CASE Serve \/ (EvidenceMoves /\ UNCHANGED coordinatorVars) \/ UNCHANGED systemVars
  <2>1. [Next]_vars /\ connections' = connections /\ store' \in {store, StoreContents}
    BY <1>4 DEF Serve, Next, coordinatorVars, systemVars
  <2>2. RuntimeIndexed'
    BY <1>0, <2>1, RunningIndexes DEF IndexInv
  <2>3. ASSUME store' # None PROVE FootprintsRecorded(store'.proofs)
    BY <2>1, <2>3 DEF IndexInv, RuntimeIndexed, StoreContents
  <2> QED
    BY <2>1, <2>2, <2>3 DEF IndexInv, FootprintsRecorded, Open
<1>5. [Next]_vars \/ Kill \/ Load
  BY <1>0, RuntimeStep
<1> QED
  BY <1>1, <1>2, <1>3, <1>4, <1>5 DEF CoordinatorNext

-----------------------------------------------------------------------------
(* The theorems.                                                           *)

LEMMA CoordinatorInitInv == CoordinatorInit => CoordinatorInv
<1> SUFFICES ASSUME CoordinatorInit PROVE CoordinatorInv
  OBVIOUS
<1>1. Init /\ AuthorityInit
  BY DEF CoordinatorInit, Init
<1>2. TypeInv
  BY <1>1, TypeInit, AuthorityInitInv DEF TypeInv
<1>3. RetentionInv /\ RuntimeSound
  BY <1>1 DEF Init, RetentionInv, RuntimeSound
<1>4. ProcessTypeOK /\ ThreadsInv /\ StoreInv /\ CopyInv
  BY DEF CoordinatorInit, ProcessTypeOK, ThreadsInv, StoreInv, StoreNeverAhead, CopyInv, Open
<1> QED
  BY <1>2, <1>3, <1>4 DEF CoordinatorInv, RuntimeInv

\* The inductive invariant of the coordinator, through every interleaving of the
\* connections' saves, failed writes, kills and restarts.
THEOREM CoordinatorInvariant == CoordinatorSpec => []CoordinatorInv
<1>1. CoordinatorInv /\ [CoordinatorNext]_systemVars => CoordinatorInv'
  <2> SUFFICES ASSUME CoordinatorInv, [CoordinatorNext]_systemVars PROVE CoordinatorInv'
    OBVIOUS
  <2>1. [Next]_vars \/ Kill \/ Load
    BY RuntimeStep DEF CoordinatorInv
  <2>2. CASE Kill \/ Load
    BY <2>2, KillKeepsInv, LoadKeepsInv
  <2>3. CASE [Next]_vars
    BY <2>2, <2>3, ConnectionKeepsInv, ServeKeepsInv DEF CoordinatorNext
  <2> QED
    BY <2>1, <2>2, <2>3
<1> QED
  BY <1>1, CoordinatorInitInv, PTL DEF CoordinatorSpec

\* Whatever is on disk, or copied to go there, hangs together (save of
\* runtime_store.cpp, copied under the runtime's lock and written without it).
THEOREM DiskIsConsistent == CoordinatorSpec => []StoreConsistent
<1>1. ASSUME NEW k, SoundContents(k) PROVE Consistent(k)
  BY <1>1 DEF SoundContents, HistoryOrdered, Consistent
<1>2. CoordinatorInv => StoreConsistent
  BY <1>1 DEF CoordinatorInv, StoreInv, CopyInv, StoreConsistent
<1> QED
  BY <1>2, CoordinatorInvariant, PTL

\* A running coordinator is at or past every store that it could load: no epoch,
\* fence, policy or revision that was durable is lost by a restart, and no save
\* that overlaps others leaves the disk ahead of the runtime.
THEOREM RestartLosesNothingDurable == CoordinatorSpec => []StoreNeverAhead
<1>1. CoordinatorInv => StoreNeverAhead
  BY DEF CoordinatorInv, StoreInv
<1> QED
  BY <1>1, CoordinatorInvariant, PTL

\* A restored runtime is as sound as one that was never stopped: what load puts
\* together again is typed, its retained revisions are in order and go on from
\* the stored ones, and at most one boot acts for a publisher.
THEOREM RestoredRuntimeIsSound ==
  CoordinatorSpec => [](TypeOK /\ RevisionsOrdered /\ OneLiveIncarnation)
<1>1. RetentionInv => RevisionsOrdered
  BY DEF RetentionInv, HistoryOrdered, SnapshotsConsecutive, RevisionsOrdered, StoredProofs
<1>2. CoordinatorInv => TypeOK /\ RevisionsOrdered /\ OneLiveIncarnation
  BY <1>1 DEF CoordinatorInv, RuntimeInv, TypeInv, AuthorityInv, RuntimeTypeOK, TypeOK
<1> QED
  BY <1>2, CoordinatorInvariant, PTL

\* A restart loses no index entry but those of the domains that a stored proof
\* consulted and its class results do not share: a current proof of an earlier
\* process is found by every other invalidation, and one of this process by all
\* (load of runtime_store.cpp, commit of runtime.cpp).
THEOREM RestartKeepsIndexes == CoordinatorSpec => []RestoredIndexComplete
<1>1. CoordinatorInit => IndexInv
  <2> SUFFICES ASSUME CoordinatorInit PROVE IndexInv
    OBVIOUS
  <2>1. /\ store = None /\ \A r \in Requests : proofs[r] = None
        /\ \A c \in Evaluators : connections[c] = None
    BY DEF CoordinatorInit, Init
  <2> QED
    BY <2>1 DEF IndexInv, RuntimeIndexed, FootprintsRecorded, IsCurrent, Open
<1>2. CoordinatorInv /\ IndexInv /\ [CoordinatorNext]_systemVars => IndexInv'
  BY IndexNext
<1>3. IndexInv => RestoredIndexComplete
  BY DEF IndexInv, RuntimeIndexed, RestoredIndexed, RestoredIndexComplete
<1> QED
  BY <1>1, <1>2, <1>3, CoordinatorInvariant, PTL DEF CoordinatorSpec
=============================================================================
