--------------------------- MODULE MCKafkaProceed ---------------------------
(* Instances of KafkaProceed small enough for TLC. *)
EXTENDS KafkaProceed, TLC

Symmetric == Permutations(Parties)
=============================================================================
