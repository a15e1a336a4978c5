--------------------- MODULE PublicationAuthorityProofs ---------------------
(***************************************************************************)
(* Proofs, for every set of publishers, boots and attempts and every       *)
(* limit, of the properties of the publication authority.                  *)
(***************************************************************************)
EXTENDS PublicationAuthorityRefinement, FiniteSetTheorems, TLAPS

\* Before the first restore the epoch still is the one of the constructor.
\* Without it the unchecked first restore_epoch could be thought to go back.
UnrestoredEpoch == ~epoch_restored => epoch = 1

\* The inductive invariant of the authority.
AuthorityInv ==
    /\ AuthorityTypeOK
    /\ FenceRecordsAgree
    /\ OneLiveIncarnation
    /\ UnrestoredEpoch

-----------------------------------------------------------------------------
(* What fencing a set of boots does to the session table.                  *)
LEMMA SessionsFencedType ==
  ASSUME AuthorityTypeOK, NEW B \in SUBSET Boots
  PROVE  /\ SessionsFenced(B) \in [Boots -> Session \cup {None}]
         /\ \A b \in Boots : SessionsFenced(B)[b] = None <=> sessions[b] = None
         /\ \A b \in Boots : sessions[b] # None =>
              /\ sessions[b] \in Session
              /\ SessionsFenced(B)[b].publisher = sessions[b].publisher
              /\ SessionsFenced(B)[b].fenced <=> (b \in B \/ sessions[b].fenced)
<1>1. ASSUME NEW b \in Boots, sessions[b] # None
      PROVE  /\ sessions[b] \in Session
             /\ [sessions[b] EXCEPT !.fenced = TRUE] \in Session
             /\ [sessions[b] EXCEPT !.fenced = TRUE].publisher = sessions[b].publisher
             /\ [sessions[b] EXCEPT !.fenced = TRUE].fenced = TRUE
  BY <1>1 DEF AuthorityTypeOK, Session
<1> QED
  BY <1>1, NoneAssumption DEF SessionsFenced, AuthorityTypeOK, Session

\* The constructor establishes the inductive invariant.
LEMMA AuthorityInitInv == AuthorityInit => AuthorityInv
<1> SUFFICES ASSUME AuthorityInit PROVE AuthorityInv
  OBVIOUS
<1>1. AuthorityTypeOK
  <2>1. epoch \in 1..MaxEpoch
    BY LimitsAssumption DEF AuthorityInit
  <2>2. epoch_restored \in BOOLEAN /\ fenced \in SUBSET Boots
    BY DEF AuthorityInit
  <2>3. /\ sessions \in [Boots -> Session \cup {None}]
        /\ attempts \in [Attempts -> Payloads \cup {None}]
    BY DEF AuthorityInit
  <2> QED
    BY <2>1, <2>2, <2>3 DEF AuthorityTypeOK
<1>2. RegisteredBoots = {}
  BY DEF AuthorityInit, RegisteredBoots
<1>3. FenceRecordsAgree /\ OneLiveIncarnation
  BY <1>2 DEF FenceRecordsAgree, OneLiveIncarnation, LiveBoots
<1> QED
  BY <1>1, <1>3 DEF AuthorityInv, AuthorityInit, UnrestoredEpoch

\* restore_epoch keeps the inductive invariant.
LEMMA RestoreEpochInv ==
  ASSUME AuthorityInv, NEW e \in 0..MaxEpoch, RestoreEpoch(e)
  PROVE  AuthorityInv'
  BY LimitsAssumption
  DEF RestoreEpoch, AuthorityInv, AuthorityTypeOK, FenceRecordsAgree,
      OneLiveIncarnation, LiveBoots, RegisteredBoots, UnrestoredEpoch, Unset

\* An accepted registration keeps the inductive invariant.
LEMMA RegisterPublisherInv ==
  ASSUME AuthorityInv, NEW s \in SessionRequest, RegisterPublisher(s)
  PROVE  AuthorityInv'
<1> DEFINE new == [publisher |-> s.publisher, scope |-> s.scope,
                   epoch |-> s.epoch, fenced |-> FALSE]
           R == Replaced(s)
<1>0. R \in SUBSET Boots /\ s.boot \in Boots /\ s.boot \notin R /\ s.boot \notin fenced
  BY DEF Replaced, RegisteredBoots, SessionRequest, RegisterPublisher,
         RegistrationReachesSessions
<1>1. new \in Session
  BY LimitsAssumption DEF SessionRequest, Session
<1>2. sessions' = [SessionsFenced(R) EXCEPT ![s.boot] = new]
  BY DEF RegisterPublisher
<1>3. fenced' = fenced \cup R
  BY <1>0 DEF RegisterPublisher
<1>4. /\ SessionsFenced(R) \in [Boots -> Session \cup {None}]
      /\ \A b \in Boots : SessionsFenced(R)[b] = None <=> sessions[b] = None
      /\ \A b \in Boots : sessions[b] # None =>
            /\ SessionsFenced(R)[b].publisher = sessions[b].publisher
            /\ SessionsFenced(R)[b].fenced <=> (b \in R \/ sessions[b].fenced)
  BY <1>0, SessionsFencedType DEF AuthorityInv
<1>5. AuthorityTypeOK'
  BY <1>0, <1>1, <1>2, <1>3, <1>4 DEF AuthorityInv, AuthorityTypeOK, RegisterPublisher
<1>6. FenceRecordsAgree'
  BY <1>0, <1>1, <1>2, <1>3, <1>4
  DEF AuthorityInv, FenceRecordsAgree, RegisteredBoots, AuthorityTypeOK
<1>7. OneLiveIncarnation'
  <2> SUFFICES ASSUME NEW b \in LiveBoots', NEW c \in LiveBoots',
                      sessions'[b].publisher = sessions'[c].publisher
               PROVE  b = c
    BY DEF OneLiveIncarnation
  <2>1. ASSUME NEW x \in LiveBoots', x # s.boot
        PROVE  /\ x \in LiveBoots
               /\ sessions'[x].publisher = sessions[x].publisher
               /\ sessions[x].publisher # s.publisher
    BY <2>1, <1>0, <1>2, <1>3, <1>4
    DEF LiveBoots, RegisteredBoots, Replaced, AuthorityInv, AuthorityTypeOK
  <2>2. sessions'[s.boot].publisher = s.publisher
    BY <1>0, <1>2, <1>4
  <2> QED
    BY <2>1, <2>2 DEF AuthorityInv, OneLiveIncarnation
<1>8. UnrestoredEpoch'
  BY DEF RegisterPublisher, AuthorityInv, UnrestoredEpoch
<1> QED
  BY <1>5, <1>6, <1>7, <1>8 DEF AuthorityInv

\* Fencing any set of boots in both records keeps the inductive invariant.
LEMMA FenceSetInv ==
  ASSUME AuthorityInv, NEW B \in SUBSET Boots,
         sessions' = SessionsFenced(B), fenced' = fenced \cup B,
         UNCHANGED <<epoch, epoch_restored, attempts>>
  PROVE  AuthorityInv'
<1>1. /\ SessionsFenced(B) \in [Boots -> Session \cup {None}]
      /\ \A b \in Boots : SessionsFenced(B)[b] = None <=> sessions[b] = None
      /\ \A b \in Boots : sessions[b] # None =>
            /\ SessionsFenced(B)[b].publisher = sessions[b].publisher
            /\ SessionsFenced(B)[b].fenced <=> (b \in B \/ sessions[b].fenced)
  BY SessionsFencedType DEF AuthorityInv
<1>2. AuthorityTypeOK'
  BY <1>1 DEF AuthorityInv, AuthorityTypeOK
<1>3. FenceRecordsAgree'
  BY <1>1 DEF AuthorityInv, FenceRecordsAgree, RegisteredBoots
<1>4. OneLiveIncarnation'
  BY <1>1 DEF AuthorityInv, OneLiveIncarnation, LiveBoots, RegisteredBoots
<1> QED
  BY <1>2, <1>3, <1>4 DEF AuthorityInv, UnrestoredEpoch

\* Every call of the authority keeps the inductive invariant.
LEMMA AuthorityNextInv == AuthorityInv /\ [AuthorityNext]_authorityVars => AuthorityInv'
<1> SUFFICES ASSUME AuthorityInv, [AuthorityNext]_authorityVars PROVE AuthorityInv'
  OBVIOUS
<1>1. ASSUME NEW e \in 0..MaxEpoch, RestoreEpoch(e) PROVE AuthorityInv'
  BY <1>1, RestoreEpochInv
<1>2. ASSUME NEW s \in SessionRequest, RegisterPublisher(s) PROVE AuthorityInv'
  BY <1>2, RegisterPublisherInv
<1>3. ASSUME NEW s \in SessionRequest, RegisterPublisherLimitExceeded(s) PROVE AuthorityInv'
  <2>1. Replaced(s) \in SUBSET Boots
    BY DEF Replaced, RegisteredBoots
  <2> QED
    BY <1>3, <2>1, FenceSetInv DEF RegisterPublisherLimitExceeded
<1>4. ASSUME NEW b \in Boots, FenceBoot(b) PROVE AuthorityInv'
  BY <1>4, FenceSetInv DEF FenceBoot
<1>5. ASSUME NEW a \in Attempts, NEW d \in Payloads \cup {None},
             attempts' = AttemptsWith(a, d),
             UNCHANGED <<epoch, epoch_restored, sessions, fenced>>
      PROVE  AuthorityInv'
  BY <1>5 DEF AttemptsWith, AuthorityInv, AuthorityTypeOK, FenceRecordsAgree,
              OneLiveIncarnation, LiveBoots, RegisteredBoots, UnrestoredEpoch
<1>6. ASSUME NEW a \in ActingAuthority, NEW payload \in Payloads, Admit(a, payload)
      PROVE  AuthorityInv'
  BY <1>5, <1>6 DEF Admit, ActingAuthority
<1>7. ASSUME NEW attempt \in Attempts, ForgetAttempt(attempt) PROVE AuthorityInv'
  BY <1>5, <1>7 DEF ForgetAttempt
<1>8. CASE UNCHANGED authorityVars
  BY <1>8 DEF authorityVars, AuthorityInv, AuthorityTypeOK, FenceRecordsAgree,
              OneLiveIncarnation, LiveBoots, RegisteredBoots, UnrestoredEpoch
<1> QED
  BY <1>1, <1>2, <1>3, <1>4, <1>6, <1>7, <1>8 DEF AuthorityNext

\* The inductive invariant holds in every reachable state of the authority.
THEOREM AuthorityInvariant == AuthoritySpec => []AuthorityInv
  BY AuthorityInitInv, AuthorityNextInv, PTL DEF AuthoritySpec

\* The state of the authority keeps its types: epochs stay within the bound,
\* every stored session is complete, every recorded attempt has a payload.
THEOREM AuthorityTypeCorrect == AuthoritySpec => []AuthorityTypeOK
  BY AuthorityInvariant, PTL DEF AuthorityInv

\* At most one boot may act for a publisher, in every reachable state.
THEOREM AtMostOneLiveIncarnation == AuthoritySpec => []OneLiveIncarnation
  BY AuthorityInvariant, PTL DEF AuthorityInv

\* The two places the authority keeps a fence in never disagree.
THEOREM FenceRecordsNeverDisagree == AuthoritySpec => []FenceRecordsAgree
  BY AuthorityInvariant, PTL DEF AuthorityInv

-----------------------------------------------------------------------------
\* A step leaves every fenced boot on the list.
LEMMA FenceListGrows == [AuthorityNext]_authorityVars => fenced \subseteq fenced'
  BY DEF AuthorityNext, authorityVars, RestoreEpoch, RegisterPublisher,
         RegisterPublisherLimitExceeded, RegistrationReachesSessions, FenceBoot, Admit,
         ForgetAttempt

\* No call of the authority un-fences a boot: the assignment fenced[boot] =
\* false of register_publisher is only reached by a boot that is not fenced.
THEOREM FencingIsPermanent == AuthoritySpec => FencedForever
<1>1. [AuthorityNext]_authorityVars => [fenced \subseteq fenced']_authorityVars
  BY FenceListGrows
<1> QED
  BY <1>1, PTL DEF AuthoritySpec, FencedForever

\* A step of the authority leaves the epoch where it is or moves it forward.
LEMMA EpochGrows == AuthorityInv /\ [AuthorityNext]_authorityVars => epoch' >= epoch
<1> SUFFICES ASSUME AuthorityInv, [AuthorityNext]_authorityVars PROVE epoch' >= epoch
  OBVIOUS
<1>1. epoch \in Nat
  BY LimitsAssumption DEF AuthorityInv, AuthorityTypeOK
<1>2. ASSUME NEW e \in 0..MaxEpoch, RestoreEpoch(e) PROVE epoch' >= epoch
  BY <1>1, <1>2, LimitsAssumption
  DEF RestoreEpoch, AuthorityInv, AuthorityTypeOK, UnrestoredEpoch, Unset
<1>3. (\E e \in 0..MaxEpoch : RestoreEpoch(e)) \/ epoch' = epoch
  BY DEF AuthorityNext, RegisterPublisher, RegisterPublisherLimitExceeded,
         FenceBoot, Admit, ForgetAttempt, authorityVars
<1> QED
  BY <1>1, <1>2, <1>3

\* The epoch never moves back.
THEOREM EpochIsMonotone == AuthoritySpec => EpochNeverDecreases
<1>1. AuthorityInv /\ [AuthorityNext]_authorityVars => [epoch' >= epoch]_authorityVars
  BY EpochGrows
<1> QED
  BY <1>1, AuthorityInvariant, PTL DEF AuthoritySpec, EpochNeverDecreases

\* An attempt that was admitted with one payload is never answered for another:
\* admit refuses it, and no other call writes the table except to forget it.
THEOREM AttemptKeepsItsPayload == AuthoritySpec => AttemptNeverRebound
<1> DEFINE Kept == \A a \in Attempts : attempts[a] # None => attempts'[a] \in {attempts[a], None}
<1>1. AuthorityInv /\ [AuthorityNext]_authorityVars => [Kept]_authorityVars
  <2> SUFFICES ASSUME AuthorityInv, AuthorityNext PROVE Kept
    OBVIOUS
  <2>0. attempts \in [Attempts -> Payloads \cup {None}]
    BY DEF AuthorityInv, AuthorityTypeOK
  <2>1. ASSUME NEW a \in ActingAuthority, NEW payload \in Payloads, Admit(a, payload) PROVE Kept
    <3>1. ValidateStatus(a) = "ACCEPTED"
      BY <2>1 DEF Admit, AdmitStatus
    <3>2. attempts[a.attempt] = None
      BY <2>1, <3>1 DEF Admit, AdmitStatus
    <3>3. attempts' = [attempts EXCEPT ![a.attempt] = payload]
      BY <2>1 DEF Admit, AttemptsWith
    <3> QED
      BY <2>0, <3>2, <3>3
  <2>2. ASSUME NEW attempt \in Attempts, ForgetAttempt(attempt) PROVE Kept
    BY <2>0, <2>2 DEF ForgetAttempt, AttemptsWith
  <2>3. CASE UNCHANGED attempts
    BY <2>3
  <2> QED
    BY <2>1, <2>2, <2>3 DEF AuthorityNext, RestoreEpoch, RegisterPublisher,
       RegisterPublisherLimitExceeded, FenceBoot
<1> QED
  BY <1>1, AuthorityInvariant, PTL DEF AuthoritySpec, AttemptNeverRebound

-----------------------------------------------------------------------------
\* A finite table below its limit stays within it when one key is added.
LEMMA AddedKeyWithinLimit ==
  ASSUME NEW T, NEW K, IsFiniteSet(K), T \subseteq K, NEW k \in K, NEW limit \in Nat,
         Cardinality(T) <= limit, k \in T \/ ~(Cardinality(T) >= limit)
  PROVE  Cardinality(T \cup {k}) <= limit
<1>1. IsFiniteSet(T)
  BY FS_Subset
<1>2. Cardinality(T) \in Nat
  BY <1>1, FS_CardinalityType
<1>3. CASE k \in T
  <2>1. T \cup {k} = T
    BY <1>3
  <2> QED
    BY <2>1
<1>4. CASE k \notin T
  <2>1. Cardinality(T \cup {k}) = Cardinality(T) + 1
    BY <1>1, <1>4, FS_AddElement
  <2> QED
    BY <1>2, <1>4, <2>1
<1> QED
  BY <1>3, <1>4

\* Both tables stay within their limits: a registration is refused before it
\* adds a session too many, an admission before it records an attempt too many.
THEOREM TablesStayBounded == AuthoritySpec => []TablesBounded
<1>1. AuthorityInit => TablesBounded
  <2> SUFFICES ASSUME AuthorityInit PROVE TablesBounded
    OBVIOUS
  <2>1. RegisteredBoots = {} /\ TrackedAttempts = {}
    BY DEF AuthorityInit, RegisteredBoots, TrackedAttempts
  <2> QED
    BY <2>1, FS_EmptySet, LimitsAssumption DEF TablesBounded
<1>2. AuthorityInv /\ TablesBounded /\ [AuthorityNext]_authorityVars => TablesBounded'
  <2> SUFFICES ASSUME AuthorityInv, TablesBounded, [AuthorityNext]_authorityVars
               PROVE  TablesBounded'
    OBVIOUS
  <2>1. ASSUME NEW B \in SUBSET Boots, sessions' = SessionsFenced(B), UNCHANGED attempts
        PROVE  TablesBounded'
    <3>1. RegisteredBoots' = RegisteredBoots
      BY <2>1, SessionsFencedType DEF RegisteredBoots, AuthorityInv
    <3> QED
      BY <2>1, <3>1 DEF TablesBounded, TrackedAttempts
  <2>2. ASSUME NEW s \in SessionRequest, RegisterPublisher(s) PROVE TablesBounded'
    <3>1. Replaced(s) \in SUBSET Boots /\ s.boot \in Boots
      BY DEF Replaced, RegisteredBoots, SessionRequest
    <3>2. RegisteredBoots' = RegisteredBoots \cup {s.boot}
      <4>1. /\ SessionsFenced(Replaced(s)) \in [Boots -> Session \cup {None}]
            /\ \A b \in Boots : SessionsFenced(Replaced(s))[b] = None <=> sessions[b] = None
        BY <3>1, SessionsFencedType DEF AuthorityInv
      <4>2. [publisher |-> s.publisher, scope |-> s.scope,
             epoch |-> s.epoch, fenced |-> FALSE] # None
        <5>1. [publisher |-> s.publisher, scope |-> s.scope,
               epoch |-> s.epoch, fenced |-> FALSE] \in Session
          BY LimitsAssumption DEF SessionRequest, Session
        <5> QED
          BY <5>1, NoneAssumption
      <4> QED
        BY <2>2, <3>1, <4>1, <4>2 DEF RegisterPublisher, RegisteredBoots
    <3>3. Cardinality(RegisteredBoots \cup {s.boot}) <= max_publishers
      BY <2>2, <3>1, AddedKeyWithinLimit, BootsAssumption, LimitsAssumption
      DEF RegisterPublisher, RegistrationOverLimit, TablesBounded, RegisteredBoots
    <3> QED
      BY <2>2, <3>2, <3>3 DEF RegisterPublisher, TablesBounded, TrackedAttempts
  <2>3. ASSUME NEW a \in ActingAuthority, NEW payload \in Payloads, Admit(a, payload)
        PROVE  TablesBounded'
    <3>1. a.attempt \in Attempts
      BY DEF ActingAuthority
    <3>2. TrackedAttempts' = TrackedAttempts \cup {a.attempt}
      BY <2>3, <3>1, NoneAssumption
      DEF Admit, AttemptsWith, TrackedAttempts, AuthorityInv, AuthorityTypeOK
    <3>3. ~(Cardinality(TrackedAttempts) >= max_attempts_tracked)
      BY <2>3 DEF Admit, AdmitStatus
    <3>4. Cardinality(TrackedAttempts \cup {a.attempt}) <= max_attempts_tracked
      BY <3>1, <3>3, AddedKeyWithinLimit, BootsAssumption, LimitsAssumption
      DEF TablesBounded, TrackedAttempts
    <3> QED
      BY <2>3, <3>2, <3>4 DEF Admit, TablesBounded, RegisteredBoots
  <2>4. ASSUME NEW attempt \in Attempts, ForgetAttempt(attempt) PROVE TablesBounded'
    <3>1. TrackedAttempts' \subseteq TrackedAttempts
      BY <2>4 DEF ForgetAttempt, AttemptsWith, TrackedAttempts, AuthorityInv, AuthorityTypeOK
    <3>2. IsFiniteSet(TrackedAttempts)
      BY BootsAssumption, FS_Subset DEF TrackedAttempts
    <3>3. Cardinality(TrackedAttempts') <= Cardinality(TrackedAttempts)
          /\ Cardinality(TrackedAttempts') \in Nat /\ Cardinality(TrackedAttempts) \in Nat
      BY <3>1, <3>2, FS_Subset, FS_CardinalityType
    <3> QED
      BY <2>4, <3>3, LimitsAssumption DEF ForgetAttempt, TablesBounded, RegisteredBoots
  <2>5. ASSUME UNCHANGED <<sessions, attempts>> PROVE TablesBounded'
    BY <2>5 DEF TablesBounded, RegisteredBoots, TrackedAttempts
  <2>6. ASSUME NEW s \in SessionRequest, RegisterPublisherLimitExceeded(s)
        PROVE  TablesBounded'
    <3>1. Replaced(s) \in SUBSET Boots
      BY DEF Replaced, RegisteredBoots
    <3> QED
      BY <2>1, <2>6, <3>1 DEF RegisterPublisherLimitExceeded
  <2>7. ASSUME NEW b \in Boots, FenceBoot(b) PROVE TablesBounded'
    BY <2>1, <2>7 DEF FenceBoot
  <2> QED
    BY <2>2, <2>3, <2>4, <2>5, <2>6, <2>7 DEF AuthorityNext, authorityVars, RestoreEpoch
<1> QED
  BY <1>1, <1>2, AuthorityInvariant, PTL DEF AuthoritySpec

-----------------------------------------------------------------------------
\* Where the session table only gains fences on B, the abstract owner of the
\* boots in B disappears and every other owner stays.
LEMMA OwnerAfterFencing ==
  ASSUME AuthorityInv, NEW B \in SUBSET Boots,
         sessions' = SessionsFenced(B), fenced' = fenced \cup B
  PROVE  Owner' = [b \in Boots |-> IF b \in B THEN None ELSE Owner[b]]
<1>1. \A b \in Boots : /\ SessionsFenced(B)[b] = None <=> sessions[b] = None
                       /\ sessions[b] # None =>
                            SessionsFenced(B)[b].publisher = sessions[b].publisher
  BY SessionsFencedType DEF AuthorityInv
<1> QED
  BY <1>1 DEF Owner, LiveBoots, RegisteredBoots

\* A live boot's abstract owner is its publisher; a boot that is not live has
\* none, and no publisher is None.
LEMMA OwnerIsPublisher ==
  ASSUME AuthorityInv, NEW p \in Publishers
  PROVE  Incarnations!SpeakersFor(p) = {b \in LiveBoots : sessions[b].publisher = p}
  BY NoneAssumption DEF Incarnations!SpeakersFor, Owner, LiveBoots, RegisteredBoots

\* The authority implements the abstract hand-over of publisher incarnations.
THEOREM AuthorityImplementsIncarnations == AuthoritySpec => ImplementsIncarnations
<1>1. AuthorityInit => Incarnations!Init
  BY DEF AuthorityInit, Incarnations!Init, Owner, LiveBoots, RegisteredBoots
<1>2. AuthorityInv /\ [AuthorityNext]_authorityVars => [Incarnations!Next]_(Incarnations!vars)
  <2> SUFFICES ASSUME AuthorityInv, [AuthorityNext]_authorityVars
               PROVE  Incarnations!Next \/ UNCHANGED <<Owner, fenced>>
    BY DEF Incarnations!vars
  <2>1. ASSUME UNCHANGED <<sessions, fenced>> PROVE UNCHANGED <<Owner, fenced>>
    BY <2>1 DEF Owner, LiveBoots, RegisteredBoots
  <2>2. ASSUME NEW s \in SessionRequest, RegisterPublisher(s)
        PROVE  Incarnations!Acquire(s.publisher, s.boot)
    <3> DEFINE R == Replaced(s)
    <3>0. R \in SUBSET Boots /\ s.boot \in Boots /\ s.boot \notin R
          /\ s.boot \notin fenced /\ s.publisher \in Publishers
      BY <2>2 DEF Replaced, RegisteredBoots, SessionRequest, RegisterPublisher,
                  RegistrationReachesSessions
    <3>1. /\ sessions'[s.boot] # None /\ sessions'[s.boot].publisher = s.publisher
          /\ \A b \in Boots \ {s.boot} : sessions'[b] = SessionsFenced(R)[b]
      <4> DEFINE new == [publisher |-> s.publisher, scope |-> s.scope,
                         epoch |-> s.epoch, fenced |-> FALSE]
      <4>1. SessionsFenced(R) \in [Boots -> Session \cup {None}]
        BY <3>0, SessionsFencedType DEF AuthorityInv
      <4>2. new \in Session /\ new.publisher = s.publisher
        BY LimitsAssumption DEF SessionRequest, Session
      <4>3. sessions' = [SessionsFenced(R) EXCEPT ![s.boot] = new]
        BY <2>2 DEF RegisterPublisher
      <4> QED
        BY <3>0, <4>1, <4>2, <4>3, NoneAssumption
    <3>2. \A b \in Boots : /\ SessionsFenced(R)[b] = None <=> sessions[b] = None
                           /\ sessions[b] # None =>
                                SessionsFenced(R)[b].publisher = sessions[b].publisher
      BY <3>0, SessionsFencedType DEF AuthorityInv
    <3>3. fenced' = fenced \cup R
      BY <2>2, <3>0 DEF RegisterPublisher
    <3>4. Incarnations!SpeakersFor(s.publisher)
            = {b \in LiveBoots : sessions[b].publisher = s.publisher}
      BY <3>0, OwnerIsPublisher
    <3>5. fenced' = fenced \cup (Incarnations!SpeakersFor(s.publisher) \ {s.boot})
      BY <3>0, <3>3, <3>4 DEF LiveBoots, Replaced
    <3>6. Owner' = [x \in Boots |->
                      IF x = s.boot THEN s.publisher
                      ELSE IF x \in Incarnations!SpeakersFor(s.publisher) THEN None ELSE Owner[x]]
      <4>1. Owner'[s.boot] = s.publisher
        BY <3>0, <3>1, <3>3 DEF Owner, LiveBoots, RegisteredBoots
      <4>2. ASSUME NEW x \in Boots, x # s.boot
            PROVE  Owner'[x] = IF x \in Incarnations!SpeakersFor(s.publisher)
                                 THEN None ELSE Owner[x]
        <5>1. (sessions'[x] # None) <=> (sessions[x] # None)
          BY <3>1, <3>2, <4>2
        <5>2. sessions[x] # None => sessions'[x].publisher = sessions[x].publisher
          BY <3>1, <3>2, <4>2
        <5>3. x \in LiveBoots' <=> (x \in LiveBoots /\ x \notin R)
          BY <3>3, <5>1 DEF LiveBoots, RegisteredBoots
        <5>4. x \in Incarnations!SpeakersFor(s.publisher) <=> (x \in LiveBoots /\ x \in R)
          BY <3>4, <4>2 DEF LiveBoots, Replaced
        <5> QED
          BY <5>2, <5>3, <5>4 DEF Owner, LiveBoots, RegisteredBoots
      <4> QED
        BY <3>0, <4>1, <4>2 DEF Owner
    <3> QED
      BY <3>0, <3>5, <3>6 DEF Incarnations!Acquire
  <2>3. ASSUME NEW s \in SessionRequest, RegisterPublisherLimitExceeded(s)
        PROVE  Incarnations!Displace(s.publisher)
    <3> DEFINE R == Replaced(s)
               S == Incarnations!SpeakersFor(s.publisher)
    <3>1. R \in SUBSET Boots /\ s.publisher \in Publishers
      BY DEF Replaced, RegisteredBoots, SessionRequest
    <3>2. S = {b \in LiveBoots : sessions[b].publisher = s.publisher}
      BY <3>1, OwnerIsPublisher
    <3>3. sessions[s.boot] = None
      BY <2>3 DEF RegisterPublisherLimitExceeded, RegistrationOverLimit, RegisteredBoots,
                  SessionRequest
    <3>4. fenced \cup R = fenced \cup S /\ S \subseteq R
      BY <3>2, <3>3 DEF LiveBoots, Replaced, RegisteredBoots
    <3>5. \A b \in R \ S : Owner[b] = None
      BY <3>1, <3>2 DEF Owner, Replaced, LiveBoots
    <3>6. Owner' = [b \in Boots |-> IF b \in R THEN None ELSE Owner[b]]
      BY <2>3, <3>1, OwnerAfterFencing DEF RegisterPublisherLimitExceeded
    <3>7. Owner' = [b \in Boots |-> IF b \in S THEN None ELSE Owner[b]]
      BY <3>4, <3>5, <3>6
    <3> QED
      BY <2>3, <3>4, <3>7 DEF Incarnations!Displace, RegisterPublisherLimitExceeded
  <2>4. ASSUME NEW b \in Boots, FenceBoot(b) PROVE Incarnations!Retire(b)
    <3>1. Owner' = [c \in Boots |-> IF c \in {b} THEN None ELSE Owner[c]]
      BY <2>4, OwnerAfterFencing DEF FenceBoot
    <3>2. Owner \in [Boots -> Publishers \cup {None}]
      BY DEF Owner, LiveBoots, RegisteredBoots, AuthorityInv, AuthorityTypeOK, Session
    <3> QED
      BY <2>4, <3>1, <3>2 DEF FenceBoot, Incarnations!Retire
  <2> QED
    BY <2>1, <2>2, <2>3, <2>4
    DEF AuthorityNext, authorityVars, RestoreEpoch, Admit, ForgetAttempt,
        Incarnations!Next, SessionRequest
<1> QED
  BY <1>1, <1>2, AuthorityInvariant, PTL
  DEF AuthoritySpec, ImplementsIncarnations, Incarnations!Spec
=============================================================================
