------------------------- MODULE MCParticipantCache -------------------------
(* The instance of ParticipantCache for TLC, which names its constants in the cfg: the *)
(* calls are numbers.                                                                   *)
EXTENDS ParticipantCache

\* Calls are interchangeable: it is enough to look at behaviours in which they begin in
\* the order of their numbers.
BegunInOrder ==
    \A g, h \in Gets : g < h /\ pc[g] = "new" => pc[h] = "new"
=============================================================================
