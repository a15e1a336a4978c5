------------------- MODULE PublicationAuthorityRefinement -------------------
(***************************************************************************)
(* The publication authority implements PublisherIncarnations: the boot    *)
(* that speaks for a publisher is the one with a live session for it.      *)
(***************************************************************************)
EXTENDS PublicationAuthority

Owner == [b \in Boots |-> IF b \in LiveBoots THEN sessions[b].publisher ELSE None]

Incarnations == INSTANCE PublisherIncarnations WITH owner <- Owner, retired <- fenced

\* Every call of the authority (register, refuse at the limit, fence, admit,
\* forget, restore_epoch) is a step of PublisherIncarnations or leaves it
\* unchanged: incarnations are handed over and retired, never brought back.
ImplementsIncarnations == Incarnations!Spec
=============================================================================
