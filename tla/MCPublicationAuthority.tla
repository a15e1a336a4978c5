----------------------- MODULE MCPublicationAuthority -----------------------
(* TLC instance of the publication authority on its own.                   *)
EXTENDS PublicationAuthorityRefinement, TLC

Symmetry == Permutations(Publishers) \cup Permutations(Boots)
              \cup Permutations(Attempts) \cup Permutations(Payloads)
=============================================================================
