------------------------------- MODULE Stores -------------------------------
(***************************************************************************)
(* The record store of a server: SQLite if it was given a path for the     *)
(* database, else the one in memory (cmd/salesforce-mock/main.go).  The    *)
(* choice is made at start-up; the handlers use either through store.Store *)
(* and cannot tell which it is.  Discovery is modelled over the store in   *)
(* memory, whose list of types is the one that outlives its records.       *)
(***************************************************************************)
EXTENDS Discovery, SqliteStore

VARIABLE dataStore    \* the store behind the interface

storesVars == <<dataStore, discoveryVars, sqliteVars>>

StoresInit == dataStore \in {"memory", "sqlite"} /\ DiscoveryInit /\ SqliteInit

MemoryCall == dataStore = "memory" /\ DiscoveryNext /\ UNCHANGED sqliteVars

\* As in StoreCall, records have no more than the fields their type indexes.
SqliteCall ==
    /\ dataStore = "sqlite" /\ SqliteNext /\ UNCHANGED discoveryVars
    /\ \A k \in DOMAIN table' : Bare(k[1], table'[k].fields)
    /\ \A c \in DOMAIN updating' : Bare(updating'[c].key[1], updating'[c].patch)

StoresNext == (MemoryCall \/ SqliteCall) /\ UNCHANGED dataStore

StoresSpec == StoresInit /\ [][StoresNext]_storesVars

-----------------------------------------------------------------------------
(* Properties. *)

\* The values each variable may take.
StoresTypeOK == TypeOK /\ TableTypeOK

\* The related lists of the pages are the records that have the value, each once,
\* whatever was created, overwritten, patched and deleted before: the indexes miss
\* no record and keep no entry of one that is gone (MemoryStore).
IndexesFollowRecords == IndexComplete /\ EntriesExact

\* Whichever store the server was started with, its callers get what store.Store
\* promises: calls take effect at once and whole, also when the process dies
\* within one, no update undoes what another wrote, and a lookup finds a record
\* by its indexed fields and by nothing its id has not held.  A call that fails
\* changes nothing; a Clear that fails does not say so.
StoreKeepsPromise == ImplementsRecordStore /\ TableImplementsRecordStore /\ NoLostUpdate
=============================================================================
