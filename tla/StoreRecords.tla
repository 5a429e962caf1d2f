---------------------------- MODULE StoreRecords ----------------------------
(***************************************************************************)
(* The records of internal/store: what both stores keep and what a caller  *)
(* hands them.                                                             *)
(*                                                                         *)
(* A record is its Id field and the fields some type indexes.  A field is  *)
(* a string of Value or Absent, which stands for a missing field, an empty *)
(* string or a value that is no string: updateIndexes treats them alike.   *)
(***************************************************************************)
EXTENDS Integers

CONSTANTS
    Type,           \* object types
    Id,             \* record ids
    Field,          \* string fields of the records
    Value,          \* non-empty strings
    Absent,         \* no usable string
    indexedFields   \* indexedFields[t]: the fields indexed for type t

ASSUME ConstantsAssumption ==
    /\ Absent \notin Value
    /\ indexedFields \in [Type -> SUBSET Field]

Fields == [Field -> Value \cup {Absent}]
Record == [Id : Id, fields : Fields]

\* A PATCH body: some fields, each with its new value.
Patches == UNION {[S -> Value \cup {Absent}] : S \in SUBSET Field}

\* for k, v := range data { existing[k] = v }
Merged(record, patch) ==
    [record EXCEPT !.fields =
        [f \in Field |-> IF f \in DOMAIN patch THEN patch[f] ELSE @[f]]]

\* The pairs of field and value a record holds.
Holds(record) == {p \in Field \X Value : record.fields[p[1]] = p[2]}
=============================================================================
