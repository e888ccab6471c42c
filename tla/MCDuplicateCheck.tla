-------------------------- MODULE MCDuplicateCheck --------------------------
(* Instances of DuplicateCheck small enough for TLC. *)
EXTENDS DuplicateCheck, TLC

\* Calls, ids and hashes are only compared.
Symmetric == Permutations(Comparisons) \cup Permutations(Ids) \cup Permutations(Hashes)

\* One that rejects, one that may resolve false instead, one that may do anything.
AnySave == {{"reject"}, {"reject", "false"}, {"reject", "false", "overwrite"}}
=============================================================================
