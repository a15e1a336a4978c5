------------------------ MODULE PublicationAuthority ------------------------
(***************************************************************************)
(* The distributed publication authority: src/src/authority.cpp, class     *)
(* PublicationAuthority.  Every method of the class takes the object's own *)
(* mutex for its whole body, so each call is one atomic step here.         *)
(*                                                                         *)
(* Generations and epochs are numbers and 0 is the unset one, as in        *)
(* Generation<Tag> (strong_id.hpp).  A map from boots to bool is the set   *)
(* of the boots mapped to true: no reader tells "absent" from "false".     *)
(***************************************************************************)
EXTENDS Naturals, FiniteSets

CONSTANTS
    Publishers,             \* PublisherId
    Boots,                  \* WorkerBootId
    Scopes,                 \* ScopeId
    Attempts,               \* MutationAttemptId
    Payloads,               \* digests of mutation contents
    None,                   \* no session, no recorded payload
    max_publishers,         \* Limits::max_publishers
    max_attempts_tracked,   \* Limits::max_attempts_tracked
    MaxEpoch                \* bound on the epochs a coordinator restores

Unset == 0

\* A stored PublisherSession; the boot is the key it is stored under.
Session == [publisher : Publishers, scope : Scopes, epoch : Nat, fenced : BOOLEAN]

\* The session a worker asks for, and the authority a mutation acts under.
SessionRequest == [publisher : Publishers, boot : Boots, scope : Scopes, epoch : 0..MaxEpoch]
ActingAuthority == [publisher : Publishers, boot : Boots, scope : Scopes,
                    epoch : 0..MaxEpoch, attempt : Attempts]

ASSUME LimitsAssumption ==
    /\ max_publishers \in Nat \ {0}
    /\ max_attempts_tracked \in Nat \ {0}
    /\ MaxEpoch \in Nat \ {0}

ASSUME NoneAssumption == None \notin Session /\ None \notin Payloads /\ None \notin Publishers

ASSUME BootsAssumption == IsFiniteSet(Boots) /\ IsFiniteSet(Attempts)

VARIABLES
    epoch,          \* the coordinator's epoch
    epoch_restored, \* whether restore_epoch has been accepted once
    sessions,       \* boot -> its session, or None
    fenced,         \* the boots fenced for good
    attempts        \* attempt -> the payload it was admitted with, or None

authorityVars == <<epoch, epoch_restored, sessions, fenced, attempts>>

AuthorityTypeOK ==
    /\ epoch \in 1..MaxEpoch
    /\ epoch_restored \in BOOLEAN
    /\ sessions \in [Boots -> Session \cup {None}]
    /\ fenced \in SUBSET Boots
    /\ attempts \in [Attempts -> Payloads \cup {None}]

AuthorityInit ==
    /\ epoch = 1
    /\ epoch_restored = FALSE
    /\ sessions = [b \in Boots |-> None]
    /\ fenced = {}
    /\ attempts = [a \in Attempts |-> None]

RegisteredBoots == {b \in Boots : sessions[b] # None}
TrackedAttempts == {a \in Attempts : attempts[a] # None}

-----------------------------------------------------------------------------
(* A definition named X_Y with an underscore is X with the fault Y: the    *)
(* mutants the properties are tried against.                               *)
-----------------------------------------------------------------------------
(* restore_epoch: the first restore takes any set epoch, a later one only  *)
(* an epoch that is not lower.                                             *)
RestoreEpoch_AnyEpoch(e) ==
    /\ e # Unset
    /\ epoch' = e
    /\ epoch_restored' = TRUE
    /\ UNCHANGED <<sessions, fenced, attempts>>

RestoreEpoch_UnsetTaken(e) ==
    /\ ~(epoch_restored /\ e < epoch)
    /\ epoch' = e
    /\ epoch_restored' = TRUE
    /\ UNCHANGED <<sessions, fenced, attempts>>

RestoreEpoch(e) ==
    /\ e # Unset
    /\ ~(epoch_restored /\ e < epoch)
    /\ epoch' = e
    /\ epoch_restored' = TRUE
    /\ UNCHANGED <<sessions, fenced, attempts>>

-----------------------------------------------------------------------------
(* register_publisher.  The boots the new one replaces are fenced before   *)
(* the limit is looked at, so a registration refused with LIMIT_EXCEEDED   *)
(* has fenced them already.                                                *)
Replaced_SameScopeOnly(s) ==
    {b \in RegisteredBoots :
        sessions[b].publisher = s.publisher /\ sessions[b].scope = s.scope /\ b # s.boot}

Replaced(s) == {b \in RegisteredBoots : sessions[b].publisher = s.publisher /\ b # s.boot}

RegistrationReachesSessions_FenceUnchecked(s) ==
    /\ s.epoch # Unset
    /\ s.epoch = epoch

RegistrationReachesSessions(s) ==
    /\ s.epoch # Unset
    /\ s.boot \notin fenced
    /\ s.epoch = epoch

RegistrationOverLimit_OffByOne(s) ==
    s.boot \notin RegisteredBoots /\ Cardinality(RegisteredBoots) > max_publishers

RegistrationOverLimit(s) ==
    s.boot \notin RegisteredBoots /\ Cardinality(RegisteredBoots) >= max_publishers

SessionsFenced_FlagNotSet(B) == sessions

SessionsFenced(B) ==
    [b \in Boots |-> IF b \in B /\ sessions[b] # None
                       THEN [sessions[b] EXCEPT !.fenced = TRUE] ELSE sessions[b]]

RegisterPublisher(s) ==
    /\ RegistrationReachesSessions(s)
    /\ ~RegistrationOverLimit(s)
    /\ sessions' = [SessionsFenced(Replaced(s)) EXCEPT ![s.boot] =
                      [publisher |-> s.publisher, scope |-> s.scope,
                       epoch |-> s.epoch, fenced |-> FALSE]]
    /\ fenced' = (fenced \cup Replaced(s)) \ {s.boot}
    /\ UNCHANGED <<epoch, epoch_restored, attempts>>

RegisterPublisherLimitExceeded(s) ==
    /\ RegistrationReachesSessions(s)
    /\ RegistrationOverLimit(s)
    /\ sessions' = SessionsFenced(Replaced(s))
    /\ fenced' = fenced \cup Replaced(s)
    /\ UNCHANGED <<epoch, epoch_restored, attempts>>

-----------------------------------------------------------------------------
(* fence_boot: permanent, whether or not the boot ever registered.         *)
FenceBoot(b) ==
    /\ fenced' = fenced \cup {b}
    /\ sessions' = SessionsFenced({b})
    /\ UNCHANGED <<epoch, epoch_restored, attempts>>

-----------------------------------------------------------------------------
(* validate and the first half of admit: the first check that fails        *)
(* decides the status.                                                     *)
ValidateStatus(a) ==
    IF a.epoch = Unset THEN "MALFORMED"
    ELSE IF a.boot \in fenced THEN "FENCED_PUBLISHER"
    ELSE IF a.epoch # epoch THEN "STALE_EPOCH"
    ELSE IF sessions[a.boot] = None THEN "UNAUTHORIZED"
    ELSE IF sessions[a.boot].fenced THEN "FENCED_PUBLISHER"
    ELSE IF sessions[a.boot].publisher # a.publisher THEN "UNAUTHORIZED"
    ELSE IF sessions[a.boot].scope # a.scope THEN "SCOPE_MISMATCH"
    ELSE "ACCEPTED"

AdmitStatus_ConflictUnchecked(a, payload) ==
    IF ValidateStatus(a) # "ACCEPTED" THEN ValidateStatus(a)
    ELSE IF attempts[a.attempt] = payload THEN "IDEMPOTENT"
    ELSE IF Cardinality(TrackedAttempts) >= max_attempts_tracked THEN "LIMIT_EXCEEDED"
    ELSE "ACCEPTED"

AdmitStatus_ReplayAccepted(a, payload) ==
    IF ValidateStatus(a) # "ACCEPTED" THEN ValidateStatus(a)
    ELSE IF attempts[a.attempt] \notin {None, payload} THEN "ATTEMPT_CONFLICT"
    ELSE IF Cardinality(TrackedAttempts) >= max_attempts_tracked THEN "LIMIT_EXCEEDED"
    ELSE "ACCEPTED"

(* admit: a known attempt is answered from the record, a new one is        *)
(* recorded while there is room.                                           *)
AdmitStatus(a, payload) ==
    IF ValidateStatus(a) # "ACCEPTED" THEN ValidateStatus(a)
    ELSE IF attempts[a.attempt] = payload THEN "IDEMPOTENT"
    ELSE IF attempts[a.attempt] # None THEN "ATTEMPT_CONFLICT"
    ELSE IF Cardinality(TrackedAttempts) >= max_attempts_tracked THEN "LIMIT_EXCEEDED"
    ELSE "ACCEPTED"

AttemptsWith(attempt, payload) == [attempts EXCEPT ![attempt] = payload]

Admit(a, payload) ==
    /\ AdmitStatus(a, payload) = "ACCEPTED"
    /\ attempts' = AttemptsWith(a.attempt, payload)
    /\ UNCHANGED <<epoch, epoch_restored, sessions, fenced>>

ForgetAttempt(attempt) ==
    /\ attempts' = AttemptsWith(attempt, None)
    /\ UNCHANGED <<epoch, epoch_restored, sessions, fenced>>

-----------------------------------------------------------------------------
AuthorityNext ==
    \/ \E e \in 0..MaxEpoch : RestoreEpoch(e)
    \/ \E s \in SessionRequest : RegisterPublisher(s) \/ RegisterPublisherLimitExceeded(s)
    \/ \E b \in Boots : FenceBoot(b)
    \/ \E a \in ActingAuthority, payload \in Payloads : Admit(a, payload)
    \/ \E attempt \in Attempts : ForgetAttempt(attempt)

AuthoritySpec == AuthorityInit /\ [][AuthorityNext]_authorityVars

-----------------------------------------------------------------------------
(* Properties.                                                             *)

\* A boot that may act: registered and not fenced.
LiveBoots == {b \in RegisteredBoots : b \notin fenced}

\* The fence list and the flag kept inside each session never disagree, so the
\* second fence test of admit (on the session) refuses exactly the boots the
\* first one (on the fence list) refuses.
FenceRecordsAgree ==
    \A b \in RegisteredBoots : sessions[b].fenced <=> b \in fenced

\* At most one boot may act for a publisher: registering a new incarnation
\* leaves no older one able to publish, even when the registration itself is
\* refused for want of room.
OneLiveIncarnation ==
    \A b, c \in LiveBoots : sessions[b].publisher = sessions[c].publisher => b = c

\* The attempt table stays within max_attempts_tracked and the session table
\* within max_publishers, whatever is registered, re-registered or fenced.
TablesBounded ==
    /\ Cardinality(TrackedAttempts) <= max_attempts_tracked
    /\ Cardinality(RegisteredBoots) <= max_publishers

\* Fencing is permanent: no call of the authority takes a boot off the list.
FencedForever == [][fenced \subseteq fenced']_authorityVars

\* The epoch never moves back, although the first restore_epoch after
\* construction is not compared with the epoch it replaces.
EpochNeverDecreases == [][epoch' >= epoch]_authorityVars

\* An admitted attempt keeps the payload it was admitted with until it is
\* forgotten: no admission, registration, fence or epoch change rebinds it.
AttemptNeverRebound ==
    [][\A a \in Attempts : attempts[a] # None => attempts'[a] \in {attempts[a], None}]_authorityVars
=============================================================================
