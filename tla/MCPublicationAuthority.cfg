CONSTANTS
    Publishers = {p1, p2}
    Boots = {b1, b2, b3}
    Scopes = {s1, s2}
    Attempts = {a1, a2, a3}
    Payloads = {d1, d2}
    None = None
    max_publishers = 2
    max_attempts_tracked = 2
    MaxEpoch = 3
SYMMETRY Symmetry
SPECIFICATION AuthoritySpec
INVARIANTS
    AuthorityTypeOK
    FenceRecordsAgree
    OneLiveIncarnation
    TablesBounded
PROPERTIES
    FencedForever
    EpochNeverDecreases
    AttemptNeverRebound
    ImplementsIncarnations
