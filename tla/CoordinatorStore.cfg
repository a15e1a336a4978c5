CONSTANTS
    pol = pol  e1 = e1  d1 = d1  d2 = d2
    Publishers = {p1}
    Boots = {b1}
    Scopes = {s1}
    Attempts = {a1, a2}
    Payloads <- MCPayloads
    None = None
    max_publishers = 2
    max_attempts_tracked = 2
    MaxEpoch = 2
    Evaluators = {c1, c2}
    Refreshers = {}
    Actors <- MCActors
    Registrations <- MCRegistrations
    Policies = {pol}
    Contents <- MCContents
    Requests <- MCRequests
    Targets = {}
    Paths = {l1, l2}
    Entities = {e1}
    Domains = {d1, d2}
    Footprint <- MCFootprint
    Consulted <- MCConsulted
    Shared <- MCShared
    Verdicts = {"PROVEN_DIVERSE", "NOT_DIVERSE"}
    max_policies = 1
    max_proofs = 1
    max_history = 1
    MaxGeneration = 2
    MaxTopology = 1
    MaxDomains = 1
    UnstablePaths = {l1}
    MaxPath = 1
    DiskFails = TRUE
SYMMETRY Symmetry
CHECK_DEADLOCK FALSE
SPECIFICATION CoordinatorSpec
INVARIANTS
    StoreConsistent
    StoreNeverAhead
    RestoredIndexComplete
    FenceSweepHolds
    EvaluationAppliedOnce
