--------------------------- MODULE PhotoLibrary ---------------------------
(***************************************************************************)
(* Profile photos: the command that walks over the personas of the         *)
(* database (cmd/generate_photos/main.go), the library of photos it keeps  *)
(* in metadata.json (internal/generator/photo), the profile_images table   *)
(* it fills (internal/db/queries.go) and that table's JSON backup          *)
(* (internal/db/backup.go).                                                *)
(*                                                                         *)
(* A run of the command is a process that handles its personas one after   *)
(* the other.  Nothing is shared with another run but the files and the    *)
(* database: the mutex of MetadataStore belongs to one process and is let  *)
(* go between Load and Save, and Save is os.WriteFile, which truncates the *)
(* file before it writes.  A run may crash anywhere, and a file or the     *)
(* database may refuse a write, which the command logs before it goes on.  *)
(*                                                                         *)
(* The traits of a persona are drawn from a generator seeded with its ID:  *)
(* they are the same in every run.  A photo is named by the UUID of the    *)
(* call that made it; what a crash leaves half downloaded belongs to no    *)
(* photo and is not modelled.                                              *)
(***************************************************************************)
EXTENDS ZaiClient, Sequences, FiniteSets, SequencesExt

CONSTANTS
    Runner,       \* runs of the command that may be under way together
    Persona,
    PersonaLists, \* what --type and --limit leave of the personas
    Traits(_),    \* what NewPersonSeed draws for a persona
    Torn,         \* a metadata file left half written
    MaxRuns       \* bound on the processes started: runs, backups, recoveries

\* A run that finds no personas ends there, and the database has finitely many.
ASSUME PhotoConstants ==
    IsFiniteSet(Persona) /\ PersonaLists \subseteq Seq(Persona) \ {<<>>}

VARIABLES
    run,      \* run[r]: the run
    metadata, \* metadata.json
    rows,     \* profile_images
    staged,   \* profile_images.json.tmp
    backup,   \* profile_images.json
    emptied,  \* RecoverFromJSON between its DELETE and its transaction
    runs,     \* history: the processes started
    together, \* history: two runs were under way at once
    damaged   \* history: a write of the metadata was cut off, by a crash or an error

photoVars == <<run, metadata, rows, staged, backup, emptied, runs, together, damaged>>
shelf == <<staged, backup, emptied>>
past == <<runs, together, damaged>>

Photo == [id : Job, of : Persona, inUseBy : SUBSET Persona]
Row == [id : Job, persona : Persona]
NoRun == [pc |-> "idle", list |-> <<>>, n |-> 0, photo |-> Empty, held |-> <<>>, failed |-> FALSE]
Under(r) == run[r].list[run[r].n]
Readable == metadata # Torn

PhotoInit ==
    /\ run = [r \in Runner |-> NoRun]
    /\ metadata = <<>> /\ rows = {} /\ backup = Empty /\ staged = Empty /\ emptied = Empty
    /\ runs = 0 /\ together = FALSE /\ damaged = FALSE

-----------------------------------------------------------------------------
AgeRanges == <<"under-20", "20-30", "30-40", "40-50", "50-60", "60+">>

AgeWeight(a, b) ==
    LET far == CHOOSE d \in 0 .. 5 : \E i, j \in 1 .. 6 :
                    /\ AgeRanges[i] = a /\ AgeRanges[j] = b
                    /\ d = IF i < j THEN j - i ELSE i - j
    IN  IF far = 0 THEN 15 ELSE IF far = 1 THEN 7 ELSE 0

Same(photo, person, trait, weight) == IF photo[trait] = person[trait] THEN weight ELSE 0

calculateMatchScore(photo, person) ==
    IF photo.gender # person.gender \/ photo.ethnicity # person.ethnicity THEN 0
    ELSE 60 + AgeWeight(photo.age, person.age)
         + Same(photo, person, "hairColor", 10) + Same(photo, person, "glasses", 5)
         + Same(photo, person, "hairStyle", 5) + Same(photo, person, "build", 5)

MatchThreshold == 60

\* The best photo, of the best the least used, of those the first; Empty for
\* none.  A library that cannot be read has none.
Best(photos, p, fit) ==
    LET score(i) == calculateMatchScore(Traits(photos[i].of), Traits(p))
        users(i) == Cardinality(photos[i].inUseBy)
        ahead(i, k) ==
            \/ score(i) > score(k)
            \/ score(i) = score(k) /\ users(i) < users(k)
            \/ score(i) = score(k) /\ users(i) = users(k) /\ i <= k
    IN  IF fit = {} THEN Empty
        ELSE photos[CHOOSE i \in fit : \A k \in fit : ahead(i, k)].id

Fitting(photos, p) ==
    {i \in DOMAIN photos :
        calculateMatchScore(Traits(photos[i].of), Traits(p)) >= MatchThreshold}

FindMatch(p) == IF ~Readable THEN Empty ELSE Best(metadata, p, Fitting(metadata, p))

-----------------------------------------------------------------------------
Alter(r, state) == run' = [run EXCEPT ![r] = state]
At(r, pc) == [run[r] EXCEPT !.pc = pc]
NextPersona(r, failed) ==
    Alter(r, [At(r, IF run[r].n = Len(run[r].list) THEN "idle" ELSE "match")
                EXCEPT !.n = @ + 1, !.photo = Empty, !.held = <<>>, !.failed = @ \/ failed])

Start(r) ==
    /\ run[r].pc = "idle" /\ runs < MaxRuns
    /\ \E list \in PersonaLists :
        Alter(r, [NoRun EXCEPT !.pc = "match", !.list = list, !.n = 1])
    /\ runs' = runs + 1
    /\ together' = (together \/ \E s \in Runner \ {r} : run[s].pc # "idle")
    /\ UNCHANGED <<metadata, rows, shelf, damaged, clientVars>>

\* A bug: a persona with a match is passed over.
MatchAndPass(r) ==
    /\ run[r].pc = "match"
    /\ IF FindMatch(Under(r)) # Empty THEN NextPersona(r, FALSE) ELSE Alter(r, At(r, "again"))
    /\ UNCHANGED <<metadata, rows, shelf, past, clientVars>>

\* The command looks for a photo to share: a match ends the persona's turn
\* once it is marked, without a row of its own.
Match(r) ==
    /\ run[r].pc = "match"
    /\ LET m == FindMatch(Under(r))
       IN  IF m # Empty THEN Alter(r, [At(r, "mark") EXCEPT !.photo = m])
           ELSE Alter(r, At(r, "again"))
    /\ UNCHANGED <<metadata, rows, shelf, past, clientVars>>

\* A fresh UUID is as good as another.
Unused == {j \in Job : job[j].pc = "idle"}

\* GenerateAndSave looks again, and has a photo made.
GenerateAndSave(r) ==
    /\ run[r].pc = "again"
    /\ LET m == FindMatch(Under(r))
       IN  IF m # Empty
           THEN Alter(r, [At(r, "remark") EXCEPT !.photo = m]) /\ UNCHANGED clientVars
           ELSE /\ Unused # {}
                /\ LET j == CHOOSE j \in Unused : TRUE
                   IN  /\ Call(j, "image", TRUE)
                       /\ Alter(r, [At(r, "generate") EXCEPT !.photo = j])
    /\ UNCHANGED <<metadata, rows, shelf, past>>

\* MarkInUse: load, and save unless the persona has the photo already.  The
\* command logs a failure, GenerateAndSave returns it.
MarkInUse(r) ==
    /\ run[r].pc \in {"mark", "remark"}
    /\ LET hits == {i \in DOMAIN metadata : metadata[i].id = run[r].photo}
           after == IF run[r].pc = "mark" THEN "marked" ELSE "added"
       IN  IF ~Readable THEN NextPersona(r, TRUE)
           ELSE IF hits = {} THEN NextPersona(r, TRUE)
           ELSE \E i \in hits :
                IF Under(r) \in metadata[i].inUseBy
                THEN IF after = "marked" THEN NextPersona(r, FALSE) ELSE Alter(r, At(r, "insert"))
                ELSE Alter(r, [At(r, after) EXCEPT !.held =
                        [metadata EXCEPT ![i].inUseBy = @ \cup {Under(r)}]])
    /\ UNCHANGED <<metadata, rows, shelf, past, clientVars>>

\* A bug: the outcome of the call is not looked at.
GeneratedAnyhow(r) ==
    /\ run[r].pc = "generate" /\ job[run[r].photo].pc = "done"
    /\ Alter(r, At(r, "add"))
    /\ UNCHANGED <<metadata, rows, shelf, past, clientVars>>

\* Generate returns.
Generated(r) ==
    /\ run[r].pc = "generate" /\ job[run[r].photo].pc = "done"
    /\ IF job[run[r].photo].outcome = "file" THEN Alter(r, At(r, "add")) ELSE NextPersona(r, TRUE)
    /\ UNCHANGED <<metadata, rows, shelf, past, clientVars>>

\* A bug: the metadata is saved before the persona is noted in it.
AddUnmarked(r) ==
    /\ run[r].pc = "add"
    /\ IF Readable
       THEN Alter(r, [At(r, "added") EXCEPT !.held = Append(metadata,
                [id |-> run[r].photo, of |-> Under(r), inUseBy |-> {}])])
       ELSE NextPersona(r, TRUE)
    /\ UNCHANGED <<metadata, rows, shelf, past, clientVars>>

\* Add: load the library and append the photo.
Add(r) ==
    /\ run[r].pc = "add"
    /\ IF Readable
       THEN Alter(r, [At(r, "added") EXCEPT !.held = Append(metadata,
                [id |-> run[r].photo, of |-> Under(r), inUseBy |-> {Under(r)}])])
       ELSE NextPersona(r, TRUE)
    /\ UNCHANGED <<metadata, rows, shelf, past, clientVars>>

\* Save: os.WriteFile truncates the file ...
Truncate(r) ==
    /\ run[r].pc \in {"marked", "added"}
    /\ Alter(r, At(r, IF run[r].pc = "marked" THEN "write" ELSE "rewrite"))
    /\ metadata' = <<>>
    /\ UNCHANGED <<rows, shelf, past, clientVars>>

\* ... and writes it.
Write(r) ==
    /\ run[r].pc \in {"write", "rewrite"}
    /\ metadata' = run[r].held
    /\ IF run[r].pc = "write" THEN NextPersona(r, FALSE) ELSE Alter(r, At(r, "insert"))
    /\ UNCHANGED <<rows, shelf, past, clientVars>>

\* os.WriteFile returns an error: the file cannot be opened, or is truncated
\* and not written, or not to its end.  The run goes on without the photo.
SaveFails(r) ==
    /\ run[r].pc \in {"marked", "added", "write", "rewrite"}
    /\ IF run[r].pc \in {"write", "rewrite"}
       THEN damaged' = TRUE /\ metadata' \in {metadata, Torn}
       ELSE UNCHANGED <<damaged, metadata>>
    /\ NextPersona(r, TRUE)
    /\ UNCHANGED <<rows, shelf, runs, together, clientVars>>

\* The primary key and UNIQUE(persona_type, persona_id).
Accepts(table, new) == \A row \in table : row.id # new.id /\ row.persona # new.persona

\* An insert that is refused, or fails, is logged and forgotten.
InsertProfileImage(r) ==
    /\ run[r].pc = "insert"
    /\ LET new == [id |-> run[r].photo, persona |-> Under(r)]
       IN  \/ UNCHANGED rows
           \/ Accepts(rows, new) /\ rows' = rows \cup {new}
    /\ NextPersona(r, FALSE)
    /\ UNCHANGED <<metadata, shelf, past, clientVars>>

\* A run dies.  Between truncating and writing it leaves an empty file, or
\* one that ends in the middle.
Crash(r) ==
    /\ run[r].pc # "idle"
    /\ Alter(r, NoRun)
    /\ IF run[r].pc \in {"write", "rewrite"}
       THEN damaged' = TRUE /\ metadata' \in {metadata, Torn}
       ELSE UNCHANGED <<damaged, metadata>>
    /\ job' = [j \in Job |-> IF run[r].pc = "generate" /\ j = run[r].photo
                             THEN Done(j, "error") ELSE job[j]]
    /\ UNCHANGED <<rows, shelf, runs, together, files, clock>>

-----------------------------------------------------------------------------
(* The backup of profile_images.  Only tests call it: another process. *)

\* SyncMetadataToJSON: the table goes into a temporary file ...
SyncMetadataToJSON ==
    /\ staged = Empty /\ runs < MaxRuns
    /\ staged' = rows /\ runs' = runs + 1
    /\ UNCHANGED <<run, metadata, rows, backup, emptied, together, damaged, clientVars>>

\* ... that takes the backup's place, unless the process dies before.
Rename ==
    /\ staged # Empty
    /\ backup' \in {backup, staged} /\ staged' = Empty
    /\ UNCHANGED <<run, metadata, rows, emptied, past, clientVars>>

\* RecoverFromJSON: load the backup, empty the table and commit that.  A
\* missing backup holds no images.
DeleteAllProfileImages ==
    /\ emptied = Empty /\ runs < MaxRuns
    /\ rows' = {} /\ runs' = runs + 1
    /\ emptied' = IF backup \in {Empty, {}} THEN Empty ELSE backup
    /\ UNCHANGED <<run, metadata, staged, backup, together, damaged, clientVars>>

\* The batch is one transaction: all the images of the backup or, when one
\* is refused, none.  A crash before it leaves none too.
InsertProfileImagesBatch ==
    /\ emptied # Empty
    /\ rows' = IF \A new \in emptied : Accepts(rows, new) THEN rows \cup emptied ELSE rows
    /\ emptied' = Empty
    /\ UNCHANGED <<run, metadata, staged, backup, past, clientVars>>

RecoveryDies ==
    /\ emptied # Empty /\ emptied' = Empty
    /\ UNCHANGED <<run, metadata, rows, staged, backup, past, clientVars>>

Service == \E j \in Job : job[j].kind = "image" /\ Answered(j) /\ UNCHANGED photoVars

PhotoNext ==
    \/ Service
    \/ \E r \in Runner :
        \/ Start(r) \/ Match(r) \/ GenerateAndSave(r) \/ MarkInUse(r) \/ Generated(r)
        \/ Add(r) \/ Truncate(r) \/ Write(r) \/ SaveFails(r)
        \/ InsertProfileImage(r) \/ Crash(r)
    \/ SyncMetadataToJSON \/ Rename
    \/ DeleteAllProfileImages \/ InsertProfileImagesBatch \/ RecoveryDies

-----------------------------------------------------------------------------
Libraries == {Torn} \cup Seq(Photo)
Tables == {Empty} \cup SUBSET Row
PhotoTypeOK ==
    /\ metadata \in Libraries /\ rows \in SUBSET Row
    /\ staged \in Tables /\ backup \in Tables /\ emptied \in Tables

\* A row of profile_images shows an image that is on disk: through failed
\* generations, crashes between the steps of a persona's turn, runs that
\* overlap and recoveries from any backup.
RowsHaveImages == \A row \in rows : files[row.id] # Empty

\* No two runs overlapped, and no write of the library was cut off.  A write
\* that was, by a crash or by an error the command only logs, leaves the
\* library empty or unreadable, and nothing brings back what was in it.
Undisturbed == ~together /\ ~damaged
Settled == \A r \in Runner : run[r].pc \notin {"write", "rewrite"}

\* Until then, a row's photo is in the library and in use by its persona ...
RowsInLibrary ==
    Undisturbed /\ Settled =>
        \A row \in rows : \E i \in DOMAIN metadata :
            metadata[i].id = row.id /\ row.persona \in metadata[i].inUseBy

\* ... and a run that met no error gave each of its personas a photo.
RunsServeTheirPersonas ==
    Undisturbed /\ Settled =>
        \A r \in Runner : run[r].pc = "idle" /\ ~run[r].failed =>
            \A p \in Range(run[r].list) :
                \E i \in DOMAIN metadata : p \in metadata[i].inUseBy

\* The table, the library and the files agree: a row's image is on disk in
\* any case; while no two runs overlap and every write of the library that
\* truncated it came to its end, a row's photo is in the library and nobody a
\* run has served is without one, whatever else failed.
PhotosKept == RowsHaveImages /\ RowsInLibrary /\ RunsServeTheirPersonas
=============================================================================
