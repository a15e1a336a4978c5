----------------------- MODULE PublisherIncarnations -----------------------
(***************************************************************************)
(* What the publication authority promises about worker incarnations,      *)
(* stated without sessions, epochs or scopes: a boot speaks for at most    *)
(* one publisher, a publisher is spoken for by at most one boot, and a     *)
(* boot that was displaced or declared dead never speaks again.            *)
(***************************************************************************)
CONSTANTS Publishers, Boots, None

VARIABLES
    owner,      \* boot -> the publisher it speaks for, or None
    retired     \* the boots that will never speak again

vars == <<owner, retired>>

SpeakersFor(p) == {b \in Boots : owner[b] = p}

Init ==
    /\ owner = [b \in Boots |-> None]
    /\ retired = {}

\* Boot b starts (or continues) to speak for p; whoever spoke for p retires.
Acquire(p, b) ==
    /\ b \notin retired
    /\ owner' = [x \in Boots |-> IF x = b THEN p
                                 ELSE IF x \in SpeakersFor(p) THEN None ELSE owner[x]]
    /\ retired' = retired \cup (SpeakersFor(p) \ {b})

\* The boot that speaks for p retires and nobody takes its place.
Displace(p) ==
    /\ owner' = [x \in Boots |-> IF x \in SpeakersFor(p) THEN None ELSE owner[x]]
    /\ retired' = retired \cup SpeakersFor(p)

Retire(b) ==
    /\ owner' = [owner EXCEPT ![b] = None]
    /\ retired' = retired \cup {b}

Next ==
    \/ \E p \in Publishers, b \in Boots : Acquire(p, b)
    \/ \E p \in Publishers : Displace(p)
    \/ \E b \in Boots : Retire(b)

Spec == Init /\ [][Next]_vars
=============================================================================
