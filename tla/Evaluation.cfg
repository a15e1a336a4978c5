CONSTANTS
    None = None
    SetSizes = {1, 3, 4}
    DomainsOf = {d1}
    Inputs <- MCInputs
    Compositions <- MCCompositions
    Views <- MCViews
    max_paths_per_proof = 4
    max_pairwise_cells = 6
    max_k_subset_paths = 4
    max_required_classes = 2
CHECK_DEADLOCK FALSE
SPECIFICATION Spec
INVARIANTS
    DecidedWhenComplete
    ProvenIsSoundOfKnownPaths
    NotDiverseIsSound
    OpenOnlyForMissingEvidence
    WitnessExact
