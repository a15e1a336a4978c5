CONSTANTS
    U32 = 8
    UNDEFINED = UNDEFINED
    MALFORMED = MALFORMED
    max_required_classes = 2
    max_conflicts_per_proof = 2
    max_paths_per_proof = 3
    max_pairwise_cells = 3
    max_topology_dependencies = 1
    max_persistence_record_bytes = 8
    max_snapshot_paths = 3
    max_diff_entries = 2
    max_store_records = 1
    max_history = 2
    max_store_bytes = 40
    max_query_results = 2
    Requests <- MCRequests
    proof_identity <- MCproof_identity
    Evaluations <- MCEvaluations
    Policies <- MCPolicies
    MaxGeneration = 2
    MaxFaulty = 1
    MaxValue = 3
SPECIFICATION Spec
INVARIANTS
    ReadAsWritten
    ReadBack
    AcceptedInFull
    AcceptedIsSound
    SnapshotIsWhatWasCaptured
    DiffIsFaithful
