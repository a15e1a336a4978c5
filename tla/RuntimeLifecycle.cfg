CONSTANTS
    pol = pol  e1 = e1  e2 = e2  d1 = d1  d2 = d2
    Publishers = {p1}
    Boots = {b1}
    Scopes = {s1}
    Attempts = {a1, a2, a3, a4}
    Payloads <- MCPayloads
    None = None
    max_publishers = 1
    max_attempts_tracked = 4
    MaxEpoch = 1
    Evaluators = {t1}
    Refreshers = {f1}
    Actors <- ActorsPolicy
    Registrations <- MCRegistrations
    Policies = {pol}
    Contents <- MCContentsLenient
    Requests <- MCRequests1
    Targets = {"HISTORICAL", "REVOKED"}
    Paths = {l1, l2}
    Entities = {}
    Domains = {}
    Footprint <- MCNoEvidence
    Consulted <- MCNoEvidence
    Verdicts = {"PROVEN_DIVERSE"}
    max_policies = 1
    max_proofs = 1
    max_history = 1
    MaxGeneration = 2
    MaxTopology = 1
    MaxDomains = 1
    UnstablePaths = {l1}
    MaxPath = 1
CHECK_DEADLOCK FALSE
SPECIFICATION FairSpec
INVARIANTS
    TypeOK
    PolicySweepHolds
    RevisionsOrdered
PROPERTIES
    RevisionNeverRevived
    OutdatedProofsDemoted
