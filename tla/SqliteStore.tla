---------------------------- MODULE SqliteStore ----------------------------
(***************************************************************************)
(* The SQLite record store (internal/store/sqlite.go): one table keyed by  *)
(* type and id, a mutex, and no secondary index.                           *)
(*                                                                         *)
(* Create, Delete and Clear are one statement each.  Update is two, a      *)
(* SELECT of the record and an UPDATE with what was merged into it, with   *)
(* no transaction around them: the mutex alone keeps other writers out in  *)
(* between, and the process may die there.  Readers take the read lock, so *)
(* they see the table between calls.                                       *)
(***************************************************************************)
EXTENDS StoreRecords

CONSTANTS
    Call,   \* calls of Update that may be in flight
    NoCall  \* who holds the mutex when nobody does

ASSUME CallAssumption == NoCall \notin Call

VARIABLES
    table,      \* sf_objects, a partial map from type and id to record
    mu,         \* the call that holds s.mu, or NoCall
    updating    \* updating[c]: what an Update in flight was given and has read

sqliteVars == <<table, mu, updating>>

RowKey == Type \X Id

Stored(t) == {i \in Id : <<t, i>> \in DOMAIN table}

\* GetByIndex filters the records of the type by their field.
Scanned(t, f, v) == {i \in Stored(t) : table[<<t, i>>].fields[f] = v}

SqliteInit == table = <<>> /\ mu = NoCall /\ updating = <<>>

\* A bug: the id drawn for a record that brings none is not put into the record.
CreateRowWithoutId(t, i, fields) ==
    /\ mu = NoCall
    /\ table' = [k \in DOMAIN table \cup {<<t, i>>} |->
                    IF k = <<t, i>> THEN [Id |-> Absent, fields |-> fields] ELSE table[k]]
    /\ UNCHANGED <<mu, updating>>

\* INSERT OR REPLACE, under the id of the record or one drawn for it.
CreateRow(t, i, fields) ==
    /\ mu = NoCall
    /\ table' = [k \in DOMAIN table \cup {<<t, i>>} |->
                    IF k = <<t, i>> THEN [Id |-> i, fields |-> fields] ELSE table[k]]
    /\ UNCHANGED <<mu, updating>>

\* A bug: an Update reads its record before it takes the lock.
SelectExistingUnlocked(c, t, i, patch) ==
    /\ c \notin DOMAIN updating /\ i \in Stored(t)
    /\ updating' = [d \in DOMAIN updating \cup {c} |->
           IF d = c THEN [key |-> <<t, i>>, patch |-> patch, existing |-> table[<<t, i>>]]
           ELSE updating[d]]
    /\ UNCHANGED <<table, mu>>

\* Update, up to its SELECT; without a row the call ends with ErrNotFound.
SelectExisting(c, t, i, patch) ==
    /\ mu = NoCall /\ c \notin DOMAIN updating /\ i \in Stored(t)
    /\ mu' = c
    /\ updating' = [d \in DOMAIN updating \cup {c} |->
           IF d = c THEN [key |-> <<t, i>>, patch |-> patch, existing |-> table[<<t, i>>]]
           ELSE updating[d]]
    /\ UNCHANGED table

\* The call c returns, and its deferred unlock runs.
Returns(c) == mu' = NoCall /\ updating' = [d \in DOMAIN updating \ {c} |-> updating[d]]

\* The UPDATE of the row, with the record that was read and merged.
UpdateRow(c) ==
    /\ c \in DOMAIN updating
    /\ LET u == updating[c]
       IN  table' = [table EXCEPT ![u.key] = Merged(u.existing, u.patch)]
    /\ Returns(c)

\* The record cannot be decoded or encoded, or the statement fails.
UpdateFails(c) == c \in DOMAIN updating /\ Returns(c) /\ UNCHANGED table

\* A bug: the row is looked for by its id alone.
DeleteRowsOfId(t, i) ==
    /\ mu = NoCall /\ i \in Stored(t)
    /\ table' = [k \in {r \in DOMAIN table : r[2] # i} |-> table[k]]
    /\ UNCHANGED <<mu, updating>>

DeleteRow(t, i) ==
    /\ mu = NoCall /\ i \in Stored(t)
    /\ table' = [k \in DOMAIN table \ {<<t, i>>} |-> table[k]]
    /\ UNCHANGED <<mu, updating>>

ClearTable == mu = NoCall /\ table' = <<>> /\ UNCHANGED <<mu, updating>>

\* The statement of a Create, a Delete or a Clear fails.  The first two return
\* the error; Clear drops it, and its caller goes on as if the table were empty.
StatementFails == mu = NoCall /\ UNCHANGED sqliteVars

\* The process dies and the database is opened again: every statement was
\* committed when it returned.
Reopen == mu' = NoCall /\ updating' = <<>> /\ UNCHANGED table

SqliteNext ==
    \/ \E t \in Type, i \in Id :
        \/ \E fields \in Fields : CreateRow(t, i, fields)
        \/ \E c \in Call, patch \in Patches : SelectExisting(c, t, i, patch)
        \/ DeleteRow(t, i)
    \/ \E c \in Call : UpdateRow(c) \/ UpdateFails(c)
    \/ ClearTable \/ StatementFails
    \/ Reopen

SqliteSpec == SqliteInit /\ [][SqliteNext]_sqliteVars

-----------------------------------------------------------------------------
(* Properties. *)

\* The values each variable may take.
TableTypeOK ==
    /\ DOMAIN table \subseteq RowKey
    /\ \A k \in DOMAIN table : table[k] \in Record
    /\ mu \in Call \cup {NoCall}
    /\ DOMAIN updating \subseteq Call
    /\ \A c \in DOMAIN updating :
        updating[c] \in [key : RowKey, patch : Patches, existing : Record]

\* No update is lost: the record an Update writes is the record as it is at that
\* moment with the fields of the call in it, although it merges them into one it
\* read before, and no other row changes with it (SQLiteStore.Update).
NoLostUpdate ==
    [][\A c \in Call :
        (c \in DOMAIN updating /\ table' # table) =>
            LET k == updating[c].key
            IN  table' = [table EXCEPT ![k] = Merged(table[k], updating[c].patch)]]_sqliteVars

RecordsOf == [t \in Type |-> [i \in Stored(t) |-> table[<<t, i>>]]]

Scans ==
    [t \in Type |-> [i \in Id |-> {p \in Field \X Value : i \in Scanned(t, p[1], p[2])}]]

\* SELECT DISTINCT object_type
ObjectTypes == {t \in Type : Stored(t) # {}}

TablePromise ==
    INSTANCE RecordStore WITH records <- RecordsOf, found <- Scans, types <- ObjectTypes

\* The SQLite store keeps what store.Store promises, also when the process dies
\* within an Update: each call takes effect at once, as a whole or not at all.
\* Of a Clear that has no effect the caller is not told.
TableImplementsRecordStore == TablePromise!Spec
=============================================================================
