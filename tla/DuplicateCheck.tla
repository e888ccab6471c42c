--------------------------- MODULE DuplicateCheck ---------------------------
(***************************************************************************)
(* duplicateCheckComparator of src/util/comparators: look the id up, then  *)
(* compare hashes or save the hash.  Calls run concurrently (handlers of   *)
(* several processes, redeliveries); the two functions it is given reach a *)
(* table that is external.                                                 *)
(***************************************************************************)
EXTENDS Naturals

CONSTANTS
    Comparisons, \* calls of duplicateCheckComparator: bounds their number
    Ids,
    Hashes,      \* what generateSha256, or hashOverride, gives for a payload
    Misses,      \* what getDuplicateDataFunc resolves to without a row
    SaveFuncs,   \* saveHashFunc functions, by what they may do when the id has a row
    Absent

Missing == {"null", "undefined"}

ASSUME AbsentAssumption == Absent \notin Ids \cup Hashes
ASSUME MissAssumption == Misses \subseteq Missing /\ Missing \cap Hashes = {}
ASSUME SaveAssumption == SaveFuncs \subseteq SUBSET {"reject", "false", "overwrite"}

VARIABLES
    table,    \* id -> hash: the table behind the two functions
    stage,    \* where each call is
    id, hash, \* its arguments: id and generatedHash
    record,   \* duplicateHashRecordResult: a hash, or what a miss resolved to
    saved,    \* saveHashFuncOverrideResult
    onConflict, \* the saveHashFunc that all calls are given
    earlier   \* history: the calls that had resolved when this one began

comparatorVars == <<table, stage, id, hash, record, saved, onConflict, earlier>>

ComparatorTypeOK ==
    /\ table      \in [Ids -> Hashes \cup {Absent}]
    /\ stage      \in [Comparisons -> {"new", "lookup", "save", "resolved", "rejected"}]
    /\ id         \in [Comparisons -> Ids \cup {Absent}]
    /\ hash       \in [Comparisons -> Hashes \cup {Absent}]
    /\ record     \in [Comparisons -> Hashes \cup Missing]
    /\ saved      \in [Comparisons -> BOOLEAN]
    /\ onConflict \in SaveFuncs
    /\ earlier    \in [Comparisons -> SUBSET Comparisons]
    /\ \A c \in Comparisons : stage[c] \in {"lookup", "save", "resolved"} =>
                         id[c] \in Ids /\ hash[c] \in Hashes

ComparatorInit ==
    /\ table      = [i \in Ids |-> Absent]
    /\ stage      = [c \in Comparisons |-> "new"]
    /\ id         = [c \in Comparisons |-> Absent]
    /\ hash       = [c \in Comparisons |-> Absent]
    /\ record     = [c \in Comparisons |-> "null"]
    /\ saved      = [c \in Comparisons |-> FALSE]
    /\ onConflict \in SaveFuncs
    /\ earlier    = [c \in Comparisons |-> {}]

\* The two fields of the returned object.
HasDuplicateId(c)   == stage[c] = "resolved" /\ record[c] # "null"
HasDuplicateHash(c) == HasDuplicateId(c) /\ record[c] = hash[c]

\* A call reported its message as the first of its id, and saved its hash.
First(c) == stage[c] = "resolved" /\ ~HasDuplicateId(c) /\ saved[c]

-----------------------------------------------------------------------------
Goto(c, l) == stage' = [stage EXCEPT ![c] = l]

\* A null argument throws before anything is asked of the table.
NullArgument(c) ==
    /\ stage[c] = "new"
    /\ Goto(c, "rejected")
    /\ UNCHANGED <<table, id, hash, record, saved, earlier, onConflict>>

DuplicateCheckComparator(c, i, h) ==
    /\ stage[c] = "new"
    /\ id'      = [id      EXCEPT ![c] = i]
    /\ hash'    = [hash    EXCEPT ![c] = h]
    /\ earlier' = [earlier EXCEPT ![c] = {d \in Comparisons : stage[d] = "resolved"}]
    /\ Goto(c, "lookup")
    /\ UNCHANGED <<table, record, saved, onConflict>>

\* Mutants of Found: the hash is compared with itself; a row with another hash counts
\* as a miss.
FoundOwnHash(c) ==
    /\ stage[c] = "lookup" /\ table[id[c]] # Absent
    /\ record' = [record EXCEPT ![c] = hash[c]]
    /\ Goto(c, "resolved")
    /\ UNCHANGED <<table, id, hash, saved, earlier, onConflict>>

FoundByHash(c) ==
    /\ stage[c] = "lookup" /\ table[id[c]] # Absent
    /\ record' = [record EXCEPT ![c] = IF table[id[c]] = hash[c] THEN @ ELSE "null"]
    /\ Goto(c, "resolved")
    /\ UNCHANGED <<table, id, hash, saved, earlier, onConflict>>

\* compareById finds a row: compareByHash follows at once.
Found(c) ==
    /\ stage[c] = "lookup" /\ table[id[c]] # Absent
    /\ record' = [record EXCEPT ![c] = table[id[c]]]
    /\ Goto(c, "resolved")
    /\ UNCHANGED <<table, id, hash, saved, earlier, onConflict>>

\* No row: only null counts as a miss; reading .hash of undefined rejects.
NotFound(c, m) ==
    /\ stage[c] = "lookup" /\ table[id[c]] = Absent
    /\ record' = [record EXCEPT ![c] = m]
    /\ Goto(c, IF m = "null" THEN "save" ELSE "rejected")
    /\ UNCHANGED <<table, id, hash, saved, earlier, onConflict>>

\* saveHashFunc stores the hash, and resolves unless its answer is lost.
Save(c) ==
    /\ stage[c] = "save"
    /\ table[id[c]] = Absent \/ "overwrite" \in onConflict
    /\ table' = [table EXCEPT ![id[c]] = hash[c]]
    /\ \/ Goto(c, "resolved") /\ saved' = [saved EXCEPT ![c] = TRUE]
       \/ Goto(c, "rejected") /\ UNCHANGED saved
    /\ UNCHANGED <<id, hash, record, earlier, onConflict>>

\* Mutants of SaveConflicts: the rejection is swallowed; the answer false is taken for
\* a saved hash.
SaveConflictsSwallowed(c) ==
    /\ stage[c] = "save" /\ table[id[c]] # Absent
    /\ Goto(c, "resolved")
    /\ UNCHANGED <<table, id, hash, record, saved, earlier, onConflict>>

SaveConflictsSaved(c) ==
    /\ stage[c] = "save" /\ table[id[c]] # Absent
    /\ \/ "reject" \in onConflict /\ Goto(c, "rejected") /\ UNCHANGED saved
       \/ "false" \in onConflict /\ Goto(c, "resolved") /\ saved' = [saved EXCEPT ![c] = TRUE]
    /\ UNCHANGED <<table, id, hash, record, earlier, onConflict>>

\* The row is there by now: saveHashFunc rejects, or resolves false, which the
\* comparator returns without looking at it.
SaveConflicts(c) ==
    /\ stage[c] = "save" /\ table[id[c]] # Absent
    /\ \/ "reject" \in onConflict /\ Goto(c, "rejected")
       \/ "false" \in onConflict /\ Goto(c, "resolved")
    /\ UNCHANGED <<table, id, hash, record, saved, earlier, onConflict>>

\* Either function rejects with nothing stored.  A crash of the caller's process is
\* a call that takes no further step; its redelivery is another call.
TableFails(c) ==
    /\ stage[c] \in {"lookup", "save"}
    /\ Goto(c, "rejected")
    /\ UNCHANGED <<table, id, hash, record, saved, earlier, onConflict>>

ComparatorNext ==
    \E c \in Comparisons :
        \/ NullArgument(c)
        \/ \E i \in Ids, h \in Hashes : DuplicateCheckComparator(c, i, h)
        \/ Found(c)
        \/ \E m \in Misses : NotFound(c, m)
        \/ Save(c) \/ SaveConflicts(c) \/ TableFails(c)

ComparatorSpec == ComparatorInit /\ [][ComparatorNext]_comparatorVars

-----------------------------------------------------------------------------
(* Properties                                                              *)

NoOverwrite == "overwrite" \notin onConflict

\* However calls interleave between the lookup and the save, at most one call per
\* id reports a new message (hasDuplicateId false with a hash saved), provided
\* saveHashFunc never overwrites a row.
OneFirst ==
    NoOverwrite =>
        \A c, d \in Comparisons : First(c) /\ First(d) /\ id[c] = id[d] => c = d

\* A save that rejects on conflict is needed for hasDuplicateId alone to tell the
\* first message of an id, which is all callers look at.
OneNewId ==
    NoOverwrite /\ "false" \notin onConflict =>
    \A c, d \in Comparisons :
        /\ stage[c] = "resolved" /\ stage[d] = "resolved" /\ id[c] = id[d]
        /\ ~HasDuplicateId(c) /\ ~HasDuplicateId(d)
        => c = d

\* Two resolved verdicts on one id are consistent for ever: the one that found a
\* duplicate says hasDuplicateHash exactly when the payload equals the first's.
VerdictsAgree ==
    NoOverwrite =>
    \A c, d \in Comparisons :
        /\ First(c) /\ HasDuplicateId(d) /\ id[c] = id[d]
        => (HasDuplicateHash(d) <=> hash[d] = hash[c])

\* A message checked after another of its id was reported is a duplicate, whatever
\* saveHashFunc does on conflict.
LaterIsDuplicate ==
    \A c, d \in Comparisons :
        /\ c \in earlier[d] /\ id[c] = id[d]
        /\ stage[d] = "resolved"
        => HasDuplicateId(d)
=============================================================================
