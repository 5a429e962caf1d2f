--------------------------- MODULE SeedLifecycle ---------------------------
(***************************************************************************)
(* Where the records of the server come from and when they go: start-up    *)
(* (cmd/salesforce-mock/main.go), the loader (internal/store/loader.go),   *)
(* POST /admin/reset (internal/server/router.go) and the SObject handlers  *)
(* (internal/handlers/sobject.go), over a record store that is in memory   *)
(* or a SQLite database (internal/store/memory.go, sqlite.go).             *)
(*                                                                         *)
(* One store call is atomic; a load is one call per record, file by file,  *)
(* and nothing keeps requests or other resets away meanwhile.  The process *)
(* may stop anywhere; a SQLite database survives it.                       *)
(*                                                                         *)
(* Object types are numbered in load order, Account being 1.  The fields   *)
(* of a record are abstracted to who wrote it last.  The records of a file *)
(* are stored in any order.                                                *)
(***************************************************************************)
EXTENDS Naturals

CONSTANTS
    Request,     \* resets that can be in flight at once
    Main,        \* the start-up code
    Id,          \* records
    NTypes,      \* number of object types
    objectType,  \* objectType[i]: the type of record i
    Seed,        \* the records of the seed directory
    Scenario     \* the records of the scenario overlay

ASSUME ConstantsAssumption ==
    /\ Main \notin Request
    /\ NTypes \in Nat \ {0}
    /\ objectType \in [Id -> 1..NTypes]
    /\ Seed \subseteq Id /\ Scenario \subseteq Id

VARIABLES
    store,       \* the record store: a partial map from record to last writer
    mode,        \* where the process is in main
    loading,     \* the loaders at work
    file,        \* file[p]: the object type whose file loader p is in
    rest,        \* rest[p]: records of that file loader p has not stored yet
    deleted,     \* history: records a request deleted and nobody stored since
    clean,       \* history: only loaders wrote since a reset last began
    cleared,     \* history: only loaders wrote since Clear last emptied the store
    failed,      \* history: a load has failed, and no reset has begun since
    interrupted  \* history: a stop cut a load short, and no reset since

loadVars    == <<loading, file, rest>>
historyVars == <<deleted, clean, cleared, failed, interrupted>>
vars == <<store, mode, loading, file, rest, deleted, clean, cleared, failed,
          interrupted>>

Loader == Request \cup {Main}
Writer == {"seed", "scenario", "request"}

Present == DOMAIN store
Count(type) == {i \in Present : objectType[i] = type}

\* Create and Update both leave the record in place.
Put(i, writer) ==
    /\ store' = [j \in Present \cup {i} |-> IF j = i THEN writer ELSE store[j]]
    /\ deleted' = deleted \ {i}

Init ==
    /\ store = <<>>
    /\ mode = "down"
    /\ loading = {}
    /\ file = [p \in Loader |-> 0]
    /\ rest = [p \in Loader |-> {}]
    /\ deleted = {} /\ clean = FALSE /\ cleared = FALSE
    /\ failed = FALSE /\ interrupted = FALSE

-----------------------------------------------------------------------------
(* The loader, for start-up (seed, then scenario) and for resets (seed).   *)

Overlay(p) == p = Main /\ mode = "overlay"
Source(p) == IF Overlay(p) THEN Scenario ELSE Seed

StartLoading(p) ==
    /\ loading' = loading \cup {p}
    /\ file' = [file EXCEPT ![p] = 0]
    /\ rest' = [rest EXCEPT ![p] = {}]

StopLoading(p) ==
    /\ loading' = loading \ {p}
    /\ UNCHANGED <<file, rest>>

\* A bug: one file too many.
OpenFilePastEnd(p) ==
    /\ p \in loading
    /\ rest[p] = {} /\ file[p] <= NTypes
    /\ file' = [file EXCEPT ![p] = @ + 1]
    /\ rest' = [rest EXCEPT ![p] = {i \in Source(p) : objectType[i] = file[p] + 1}]
    /\ UNCHANGED <<store, mode, loading, historyVars>>

\* The next file of loadOrder is read and parsed; a missing one is skipped.
OpenFile(p) ==
    /\ p \in loading
    /\ rest[p] = {} /\ file[p] < NTypes
    /\ file' = [file EXCEPT ![p] = @ + 1]
    /\ rest' = [rest EXCEPT ![p] = {i \in Source(p) : objectType[i] = file[p] + 1}]
    /\ UNCHANGED <<store, mode, loading, historyVars>>

\* LoadRecords: one Create, over whatever is stored under that id.
LoadRecord(p) ==
    /\ p \in loading
    /\ \E i \in rest[p] :
        /\ Put(i, IF Overlay(p) THEN "scenario" ELSE "seed")
        /\ rest' = [rest EXCEPT ![p] = @ \ {i}]
    /\ UNCHANGED <<mode, loading, file, clean, cleared, failed, interrupted>>

\* A bug: the load ends at the first missing or empty file.
LoadedEarly(p) == p \in loading /\ rest[p] = {}

\* The last record of the last file is stored.
Loaded(p) == p \in loading /\ file[p] = NTypes /\ rest[p] = {}

-----------------------------------------------------------------------------
(* Start-up. *)

\* A database that holds an Account is taken for seeded.
Boot ==
    /\ mode = "down"
    /\ StartLoading(Main)
    /\ mode' = IF Count(1) = {} THEN "seeding" ELSE "overlay"
    /\ UNCHANGED <<store, historyVars>>

\* Count drops the error of its query and returns 0: seeded over what is there.
BootUncounted ==
    /\ mode = "down"
    /\ StartLoading(Main)
    /\ mode' = "seeding"
    /\ UNCHANGED <<store, historyVars>>

\* The scenario follows the seed, whether or not the seed was loaded whole.
Seeded ==
    /\ mode = "seeding"
    /\ Loaded(Main)
    /\ mode' = "overlay"
    /\ StartLoading(Main)
    /\ UNCHANGED <<store, historyVars>>

SeedingFails ==
    /\ mode = "seeding"
    /\ mode' = "overlay"
    /\ failed' = TRUE
    /\ StartLoading(Main)
    /\ UNCHANGED <<store, deleted, clean, cleared, interrupted>>

Serve ==
    /\ mode = "overlay"
    /\ Loaded(Main)
    /\ mode' = "serving"
    /\ StopLoading(Main)
    /\ UNCHANGED <<store, historyVars>>

ScenarioFails ==
    /\ mode = "overlay"
    /\ mode' = "serving"
    /\ StopLoading(Main)
    /\ UNCHANGED <<store, historyVars>>

\* The process stops, at once or after a signal.  A database is there when
\* it starts again ...
Stop ==
    /\ mode # "down"
    /\ mode' = "down"
    /\ loading' = {}
    /\ interrupted' = (interrupted \/ loading # {})
    /\ clean' = FALSE /\ cleared' = FALSE
    /\ UNCHANGED <<store, file, rest, deleted, failed>>

\* ... and the in-memory store is not, nor is a database file that was
\* taken away meanwhile.
StopEmpty ==
    /\ mode # "down"
    /\ mode' = "down"
    /\ loading' = {}
    /\ store' = <<>> /\ deleted' = {}
    /\ clean' = FALSE /\ cleared' = FALSE
    /\ failed' = FALSE /\ interrupted' = FALSE
    /\ UNCHANGED <<file, rest>>

-----------------------------------------------------------------------------
(* Requests. *)

\* A bug: the seed is loaded over what is there.
ClearForgotten(r) ==
    /\ mode = "serving" /\ r \notin loading
    /\ StartLoading(r)
    /\ deleted' = {} /\ clean' = TRUE /\ cleared' = TRUE
    /\ failed' = FALSE /\ interrupted' = FALSE
    /\ UNCHANGED <<store, mode>>

\* POST /admin/reset: Clear, and the load begins.
Clear(r) ==
    /\ mode = "serving" /\ r \notin loading
    /\ store' = <<>>
    /\ StartLoading(r)
    /\ deleted' = {} /\ clean' = TRUE /\ cleared' = TRUE
    /\ failed' = FALSE /\ interrupted' = FALSE
    /\ UNCHANGED mode

\* The DELETE of a SQLite store fails, and Clear drops the error: the seed is
\* loaded over what is there.
ClearFails(r) ==
    /\ mode = "serving" /\ r \notin loading
    /\ StartLoading(r)
    /\ clean' = TRUE
    /\ failed' = FALSE /\ interrupted' = FALSE
    /\ UNCHANGED <<store, mode, deleted, cleared>>

\* reset_complete.
ResetComplete(r) ==
    /\ Loaded(r)
    /\ StopLoading(r)
    /\ UNCHANGED <<store, mode, historyVars>>

\* A file cannot be read or parsed: 500, what was stored stays.
ResetFails(r) ==
    /\ r \in loading
    /\ StopLoading(r)
    /\ failed' = TRUE
    /\ UNCHANGED <<store, mode, deleted, clean, cleared, interrupted>>

\* POST /sobjects/{type}, with an id of its own or a generated one.
HandleCreate(i) ==
    /\ mode = "serving"
    /\ Put(i, "request")
    /\ clean' = FALSE /\ cleared' = FALSE
    /\ UNCHANGED <<mode, loadVars, failed, interrupted>>

\* PATCH /sobjects/{type}/{id}.
HandleUpdate(i) ==
    /\ mode = "serving"
    /\ i \in Present
    /\ Put(i, "request")
    /\ clean' = FALSE /\ cleared' = FALSE
    /\ UNCHANGED <<mode, loadVars, failed, interrupted>>

\* DELETE /sobjects/{type}/{id}.
HandleDelete(i) ==
    /\ mode = "serving"
    /\ i \in Present
    /\ store' = [j \in Present \ {i} |-> store[j]]
    /\ deleted' = deleted \cup {i}
    /\ clean' = FALSE /\ cleared' = FALSE
    /\ UNCHANGED <<mode, loadVars, failed, interrupted>>

Next ==
    \/ \E p \in Loader : OpenFile(p) \/ LoadRecord(p)
    \/ Boot \/ BootUncounted \/ Seeded \/ SeedingFails \/ Serve \/ ScenarioFails
    \/ Stop \/ StopEmpty
    \/ \E r \in Request : \/ Clear(r) \/ ClearFails(r)
                        \/ ResetComplete(r) \/ ResetFails(r)
    \/ \E i \in Id : HandleCreate(i) \/ HandleUpdate(i) \/ HandleDelete(i)

Spec == Init /\ [][Next]_vars

-----------------------------------------------------------------------------
(* Properties. *)

\* The values each variable may take.
TypeOK ==
    /\ Present \subseteq Id /\ \A i \in Present : store[i] \in Writer
    /\ mode \in {"down", "seeding", "overlay", "serving"}
    /\ loading \subseteq Loader
    /\ Main \in loading <=> mode \in {"seeding", "overlay"}
    /\ file \in [Loader -> 0..NTypes]
    /\ rest \in [Loader -> SUBSET Id]
    /\ deleted \subseteq Id \ Present
    /\ {clean, cleared, failed, interrupted} \subseteq BOOLEAN

Settled == mode = "serving" /\ loading = {}

\* Once every load has ended, and none failed or was cut short, the store has
\* every seed record but the ones requests deleted, however resets and
\* requests were interleaved.
SeedServed ==
    Settled /\ ~failed /\ ~interrupted => Seed \subseteq Present \cup deleted

\* Resets restore the seed data: when nobody but resets wrote since one last
\* began, every seed record is there as the seed has it, however the resets
\* overlapped and whether or not their Clear took effect.  Other records are
\* gone only if nobody but resets wrote since a Clear that did: a reset whose
\* DELETE fails completes with the old records beside the seed.
ResetRestores ==
    Settled /\ clean /\ ~failed =>
        /\ \A i \in Seed : i \in Present /\ store[i] = "seed"
        /\ cleared => Present = Seed

=============================================================================
