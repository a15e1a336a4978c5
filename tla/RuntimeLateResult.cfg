CONSTANTS
    pol = pol  e1 = e1  e2 = e2  d1 = d1  d2 = d2
    Publishers = {p1}
    Boots = {b1}
    Scopes = {s1}
    Attempts = {a1, a2}
    Payloads <- MCPayloads
    None = None
    max_publishers = 2
    max_attempts_tracked = 2
    MaxEpoch = 1
    Evaluators = {t1}
    Refreshers = {}
    Actors <- ActorsPlain
    Registrations <- MCRegistrations
    Policies = {pol}
    Contents <- MCContents
    Requests <- MCRequests1
    Targets = {}
    Paths = {l1, l2}
    Entities = {e1, e2}
    Domains = {d1}
    Footprint <- MCFootprint
    Consulted <- MCConsulted
    Verdicts = {"PROVEN_DIVERSE"}
    max_policies = 1
    max_proofs = 1
    max_history = 2
    MaxGeneration = 3
    MaxTopology = 2
    MaxDomains = 1
    UnstablePaths = {l1}
    MaxPath = 1
CHECK_DEADLOCK FALSE
SPECIFICATION Spec
PROPERTIES
    LateResultNeverCurrent
