---------------------------- MODULE MemoryStore ----------------------------
(***************************************************************************)
(* The in-memory record store (internal/store/memory.go) under the calls   *)
(* of the SObject handlers (internal/handlers/sobject.go), the loader and  *)
(* the reset.  Every method holds the store's RWMutex throughout: one      *)
(* action is one call.                                                     *)
(*                                                                         *)
(* An index entry is a Go slice of ids; its order is abstracted and its    *)
(* multiplicities are kept: indexes[t][f][v][i] is how often i occurs.     *)
(***************************************************************************)
EXTENDS StoreRecords

VARIABLES
    data,     \* data[t]: the records of type t, a partial map from id to record
    indexes   \* the secondary indexes

vars == <<data, indexes>>

Records(t) == DOMAIN data[t]

\* The records GetByIndex returns: the ids of the entry that exist.
GetByIndex(t, f, v) == {i \in Records(t) : indexes[t][f][v][i] > 0}

\* updateIndexes: record i is appended to the entries of its values.
updateIndexes(t, i, record) ==
    indexes' = [indexes EXCEPT ![t] =
        [f \in Field |-> [v \in Value |-> [j \in Id |->
            IF /\ j = i /\ f \in indexedFields[t] /\ record.fields[f] = v
               /\ indexes[t][f][v][j] = 0
            THEN 1
            ELSE indexes[t][f][v][j]]]]]

\* A bug: an entry is shortened whether or not i is in it.
removeFromIndexesUnchecked(t, i) ==
    indexes' = [indexes EXCEPT ![t] =
        [f \in Field |-> [v \in Value |-> [j \in Id |->
            IF j = i THEN indexes[t][f][v][j] - 1 ELSE indexes[t][f][v][j]]]]]

\* removeFromIndexes: every occurrence of i in the entries of its type.
removeFromIndexes(t, i) ==
    indexes' = [indexes EXCEPT ![t] =
        [f \in Field |-> [v \in Value |-> [j \in Id |->
            IF j = i THEN 0 ELSE indexes[t][f][v][j]]]]]

Empty == [t \in Type |-> <<>>]
NoEntries ==
    [t \in Type |-> [f \in Field |-> [v \in Value |-> [i \in Id |-> 0]]]]

Init == data = Empty /\ indexes = NoEntries

Put(t, i, record) ==
    data' = [data EXCEPT ![t] =
        [j \in Records(t) \cup {i} |-> IF j = i THEN record ELSE data[t][j]]]

\* Create: with the id of the body, which may be taken, or a generated one.
Create(t, i, fields) ==
    LET record == [Id |-> i, fields |-> fields]
    IN  Put(t, i, record) /\ updateIndexes(t, i, record)

\* A bug: the merged record is stored and the indexes are left alone.
UpdateIndexesForgotten(t, i, patch) ==
    /\ i \in Records(t)
    /\ Put(t, i, Merged(data[t][i], patch))
    /\ UNCHANGED indexes

\* HandleUpdate drops the Id of the body; Update merges the rest.
Update(t, i, patch) ==
    /\ i \in Records(t)
    /\ LET record == Merged(data[t][i], patch)
       IN  Put(t, i, record) /\ updateIndexes(t, i, record)

\* A bug: only the record is deleted.
DeleteKeepsEntries(t, i) ==
    /\ i \in Records(t)
    /\ data' = [data EXCEPT ![t] = [j \in Records(t) \ {i} |-> data[t][j]]]
    /\ UNCHANGED indexes

Delete(t, i) ==
    /\ i \in Records(t)
    /\ removeFromIndexes(t, i)
    /\ data' = [data EXCEPT ![t] = [j \in Records(t) \ {i} |-> data[t][j]]]

\* A bug: the records are dropped, their index entries are not.
ClearKeepsEntries == data' = Empty /\ UNCHANGED indexes

\* The first half of POST /admin/reset.
Clear == data' = Empty /\ indexes' = NoEntries

Next ==
    \/ \E t \in Type, i \in Id :
        \/ \E fields \in Fields : Create(t, i, fields)
        \/ \E patch \in Patches : Update(t, i, patch)
        \/ Delete(t, i)
    \/ Clear

Spec == Init /\ [][Next]_vars

-----------------------------------------------------------------------------
(* Properties. *)

\* The values each variable may take.
TypeOK ==
    /\ DOMAIN data = Type
    /\ \A t \in Type :
        /\ Records(t) \subseteq Id
        /\ \A i \in Records(t) : data[t][i] \in Record
    /\ indexes \in [Type -> [Field -> [Value -> [Id -> Nat]]]]

\* A related list of the pages misses no record: whatever was created, overwritten,
\* patched and deleted before, GetByIndex returns for an indexed field every
\* record that has the value.
IndexComplete ==
    \A t \in Type, f \in Field, v \in Value :
        f \in indexedFields[t] =>
            {i \in Records(t) : data[t][i].fields[f] = v} \subseteq GetByIndex(t, f, v)

\* A related list shows a record once, and a deleted record leaves no entry for
\* a later record of the same id to be found by.
EntriesExact ==
    \A t \in Type, f \in Field, v \in Value, i \in Id :
        /\ indexes[t][f][v][i] <= 1
        /\ indexes[t][f][v][i] > 0 => i \in Records(t)

\* A record is filed under the Id it carries.
IdMatchesKey == \A t \in Type : \A i \in Records(t) : data[t][i].Id = i

\* updateIndexes "updates secondary indexes for a record": a lookup returns
\* only records that have the value, as the SQLite store's does.
IndexSound ==
    \A t \in Type, f \in Field, v \in Value :
        \A i \in GetByIndex(t, f, v) : data[t][i].fields[f] = v
=============================================================================
