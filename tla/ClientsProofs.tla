---------------------------- MODULE ClientsProofs ----------------------------
(***************************************************************************)
(* The three machines of MCClients, for any number of calls, runs and      *)
(* prompts.                                                                *)
(*                                                                         *)
(* Files.  A call that returns a file has written it, and a file that a    *)
(* call named stays its own.  Two things in the code make it so and        *)
(* neither is where the file is written: the last attempt never ends in    *)
(* the 404 branch that leaves lastErr nil, and a name made from the clock  *)
(* is no name a caller gives.                                              *)
(*                                                                         *)
(* Photos.  A photo that anything names, a row, a backup, a library or a   *)
(* run, is on disk.  The rows and the personas served are backed by the    *)
(* library, which between Truncate and Write is what the one run under way *)
(* holds.                                                                  *)
(*                                                                         *)
(* Responses.  Every row of the cache answers the prompt it is kept under, *)
(* and a prompt that is in the cache has a nearest row.                    *)
(***************************************************************************)
EXTENDS MCClients, TLAPS, FiniteSetTheorems, SequenceTheorems

ClientSpec == ClientInit /\ [][ClientNext]_clientVars

\* What is true of the state x of call j between its steps.
Orderly(j, x) ==
    /\ x.pc \in {"wait", "check", "download"} \/ x.outcome = "file" =>
         IF x.named THEN x.path = j ELSE \E s \in Seconds : x.path = <<s>>
    /\ x.attempt = MaxRetries => x.lastErr
    /\ x.pc # "done" => x.outcome = "none"
    /\ x.pc = "done" => x.task = "none"

AllOrderly == \A j \in Job : Orderly(j, job[j])

ClientInv == ClientTypeOK /\ AllOrderly /\ SavedIsOwn

-----------------------------------------------------------------------------
\* The state of an idle call is a state.
LEMMA IdleState == NoJob \in JobState
    BY ClientConstants DEF NoJob, JobState, Paths, Seconds, Outcomes

\* A call that returns without a file, or goes on, keeps the invariant when
\* its own state does: no file has been touched.
LEMMA QuietStep ==
    ASSUME ClientInv, NEW j \in Job, NEW x \in JobState, Orderly(j, x), x.outcome # "file",
           job[j].outcome # "file", job' = [job EXCEPT ![j] = x], UNCHANGED <<files, clock>>
    PROVE  ClientInv'
    BY DEF ClientInv, ClientTypeOK, AllOrderly, SavedIsOwn

\* Returning is allowed wherever it leaves no file behind.
LEMMA ReturnStep ==
    ASSUME ClientInv, NEW j \in Job, job[j].pc # "done",
           NEW outcome \in Outcomes \ {"file"}, Return(j, outcome)
    PROVE  ClientInv'
<1>1. job[j] \in JobState /\ job[j].outcome # "file"
    BY DEF ClientInv, ClientTypeOK, AllOrderly, Orderly
<1>2. Done(j, outcome) \in JobState /\ Done(j, outcome).outcome # "file"
    BY <1>1, IdleState DEF Done, JobState
<1>3. Orderly(j, Done(j, outcome))
    BY <1>1, ClientConstants DEF Done, Orderly, NoJob
<1> QED
    BY <1>1, <1>2, <1>3, QuietStep DEF Return

\* So is going on from one state of the loops to the next.
LEMMA ContinueStep ==
    ASSUME ClientInv, NEW j \in Job, NEW x \in JobState, Orderly(j, x), x.pc # "done",
           job[j].pc # "done", Continue(j, x)
    PROVE  ClientInv'
<1>1. x.outcome # "file" /\ job[j].outcome # "file"
    BY DEF ClientInv, AllOrderly, Orderly
<1> QED
    BY <1>1, QuietStep DEF Continue

\* So is a call, of whatever kind.
LEMMA CallStep ==
    ASSUME ClientInv, NEW j \in Job, NEW kind \in {"image", "video"}, NEW named \in BOOLEAN,
           Call(j, kind, named)
    PROVE  ClientInv'
<1>1. job[j] \in JobState /\ Orderly(j, job[j])
    BY DEF ClientInv, ClientTypeOK, AllOrderly
<1> QED
    BY <1>1, ContinueStep, ZenonT(40) DEF Call, To, Orderly, JobState

\* A call that is given up leaves the files as they are.
LEMMA GivenUp ==
    ASSUME ClientInv, NEW j \in Job, job' = [job EXCEPT ![j] = Done(j, "error")],
           UNCHANGED <<files, clock>>
    PROVE  ClientInv'
<1>1. job[j] \in JobState
    BY DEF ClientInv, ClientTypeOK
<1>2. Done(j, "error") \in JobState /\ Done(j, "error").outcome = "error"
    BY <1>1, IdleState DEF Done, JobState, Outcomes
<1>3. Orderly(j, Done(j, "error"))
    BY <1>1, ClientConstants DEF Done, Orderly, NoJob
<1> QED
    BY <1>1, <1>2, <1>3 DEF ClientInv, ClientTypeOK, AllOrderly, SavedIsOwn

\* Every step of a call, of the service, of the caller and of the clock keeps
\* the calls orderly and their files their own.
LEMMA ClientStep ==
    ASSUME ClientInv, ClientNext \/ UNCHANGED clientVars
    PROVE  ClientInv'
<1> USE ClientConstants
<1>1. \A j \in Job : job[j] \in JobState /\ Orderly(j, job[j])
    BY DEF ClientInv, ClientTypeOK, AllOrderly
<1>2. ASSUME NEW j \in Job, NEW kind \in {"image", "video"}, NEW named \in BOOLEAN,
             Call(j, kind, named)
      PROVE  ClientInv'
    BY <1>2, CallStep
<1>3. ASSUME NEW j \in Job, job[j].pc = "submit"
      PROVE  /\ FileName(j) \in Paths
             /\ IF job[j].named THEN FileName(j) = j ELSE \E s \in Seconds : FileName(j) = <<s>>
    BY DEF FileName, Paths, ClientInv, ClientTypeOK
<1>4. ASSUME NEW j \in Job, SubmitImage(j) PROVE ClientInv'
    BY <1>1, <1>3, <1>4, ContinueStep, ReturnStep, ZenonT(40) DEF SubmitImage,
       To, Orderly, JobState, Outcomes
<1>5. ASSUME NEW j \in Job, SubmitVideo(j) PROVE ClientInv'
    BY <1>1, <1>3, <1>5, ContinueStep, ReturnStep, ZenonT(40) DEF SubmitVideo,
       To, Orderly, JobState, Outcomes
<1>6. ASSUME NEW j \in Job, Polled(j) \/ Expire(j) PROVE ClientInv'
  <2>1. CASE Cancelled(j) \/ Expire(j)
      BY <1>1, <2>1, ReturnStep DEF Cancelled, Expire, Outcomes
  <2>2. CASE FirstPoll(j)
    <3> DEFINE x == [To(j, "check") EXCEPT !.immediate = FALSE]
    <3>1. job[j].pc = "wait" /\ Continue(j, x)
        BY <2>2 DEF FirstPoll
    <3>2. x \in JobState /\ x.pc = "check"
        BY <1>1, ZenonT(40) DEF To, JobState
    <3>3. Orderly(j, x)
        BY <1>1, <3>1 DEF To, Orderly
    <3> QED
        BY <3>1, <3>2, <3>3, ContinueStep
  <2>3. CASE NextPoll(j)
    <3> DEFINE x == [To(j, "check") EXCEPT !.tick = FALSE]
    <3>1. job[j].pc = "wait" /\ Continue(j, x)
        BY <2>3 DEF NextPoll
    <3>2. x \in JobState /\ x.pc = "check"
        BY <1>1, ZenonT(40) DEF To, JobState
    <3>3. Orderly(j, x)
        BY <1>1, <3>1 DEF To, Orderly
    <3> QED
        BY <3>1, <3>2, <3>3, ContinueStep
  <2> QED
      BY <1>6, <2>1, <2>2, <2>3 DEF Polled
<1>7. ASSUME NEW j \in Job, CheckVideoStatus(j) PROVE ClientInv'
    BY <1>1, <1>7, ContinueStep, ReturnStep DEF CheckVideoStatus,
       StillProcessing, To, Orderly, JobState, Outcomes
<1>8. ASSUME NEW j \in Job, TaskEnds(j) \/ Cancel(j) \/ Interval(j) PROVE ClientInv'
  <2>1. CASE TaskEnds(j)
      BY <1>1, <2>1, ContinueStep DEF TaskEnds, Orderly, JobState
  <2>2. CASE Cancel(j)
      BY <1>1, <2>2, ContinueStep, ZenonT(40) DEF Cancel, Orderly, JobState
  <2>3. CASE Interval(j)
    <3> DEFINE left == IF job[j].left = 0 THEN 0 ELSE job[j].left - 1
               x == [job[j] EXCEPT !.tick = TRUE, !.left = left]
    <3>1. left \in 0 .. MaxWait
        BY <1>1 DEF JobState
    <3>2. x \in JobState /\ Orderly(j, x) /\ x.pc = job[j].pc
        BY <1>1, <3>1, ZenonT(40) DEF JobState, Orderly
    <3> QED
        BY <2>3, <3>2, ContinueStep DEF Interval
  <2> QED
      BY <1>8, <2>1, <2>2, <2>3
<1>9. ASSUME NEW j \in Job, Download(j) PROVE ClientInv'
  <2>1. CASE Continue(j, [job[j] EXCEPT !.attempt = @ + 1, !.lastErr = TRUE])
    <3> DEFINE x == [job[j] EXCEPT !.attempt = job[j].attempt + 1, !.lastErr = TRUE]
    <3>1. job[j].attempt + 1 \in 0 .. MaxRetries /\ job[j].pc = "download"
        BY <1>1, <1>9 DEF Download, JobState
    <3>2. x \in JobState
        BY <1>1, <3>1, ZenonT(40) DEF JobState
    <3>3. Orderly(j, x)
        BY <1>1, <3>1 DEF Orderly
    <3> QED
        BY <1>1, <2>1, <3>1, <3>2, <3>3, ContinueStep DEF JobState
  <2>2. CASE NotFound(j)
      BY <1>1, <1>9, <2>2, ContinueStep, ReturnStep DEF Download, NotFound,
         Orderly, JobState, Outcomes
  <2>3. CASE Return(j, "error")
      BY <1>1, <1>9, <2>3, ReturnStep DEF Download, Outcomes
  <2>4. CASE /\ job' = [job EXCEPT ![j] = Done(j, "file")]
             /\ files' = [files EXCEPT ![job[j].path] = j] /\ UNCHANGED clock
    <3>1. Done(j, "file") \in JobState /\ Orderly(j, Done(j, "file"))
        BY <1>1, <1>9, IdleState, ZenonT(40) DEF Download, Done, NoJob,
           Orderly, JobState, Outcomes
    <3>2. ClientTypeOK' /\ AllOrderly'
        BY <1>1, <2>4, <3>1 DEF ClientInv, ClientTypeOK, AllOrderly
    <3>3. SavedIsOwn'
      <4> SUFFICES ASSUME NEW k \in Job, job'[k].outcome = "file"
                   PROVE  IF job'[k].named THEN files'[job'[k].path] = k
                          ELSE files'[job'[k].path] # Empty
          BY DEF SavedIsOwn
      <4>1. job[j].path \in Paths /\ files \in [Paths -> Job \cup {Empty}] /\ Empty # j
          BY <1>1 DEF JobState, ClientInv, ClientTypeOK
      <4>2. CASE k = j
          BY <1>1, <2>4, <4>1, <4>2 DEF Done
      <4>3. CASE k # j
        <5>1. job'[k] = job[k] /\ job[k].path \in Paths
            BY <1>1, <2>4, <4>3 DEF JobState
        <5>2. job[k].named => job[k].path = k
            BY <1>1, <5>1 DEF Orderly
        <5>3. job[j].path = j \/ \E s \in Seconds : job[j].path = <<s>>
            BY <1>1, <1>9 DEF Download, Orderly
        <5>4. job[j].path # k
            BY <4>3, <5>3 DEF Seconds
        <5> QED
            BY <2>4, <4>1, <5>1, <5>2, <5>4 DEF ClientInv, SavedIsOwn
      <4> QED
          BY <4>2, <4>3
    <3> QED
        BY <3>2, <3>3 DEF ClientInv
  <2> QED
      BY <1>9, <2>1, <2>2, <2>3, <2>4 DEF Download
<1>10. ASSUME NEW j \in Job, Exhausted(j) PROVE ClientInv'
    BY <1>1, <1>10, ReturnStep DEF Exhausted, Orderly, Outcomes
<1>11. CASE Second
    BY <1>11 DEF Second, ClientInv, ClientTypeOK, AllOrderly, SavedIsOwn,
       Seconds
<1>12. CASE UNCHANGED clientVars
    BY <1>12 DEF clientVars, ClientInv, ClientTypeOK, AllOrderly, SavedIsOwn
<1> QED
    BY <1>2, <1>4, <1>5, <1>6, <1>7, <1>8, <1>9, <1>10, <1>11, <1>12 DEF
       ClientNext, Answered

\* Before the first call there is nothing out of order.
LEMMA ClientInitial == ClientInit => ClientInv
    BY IdleState, ClientConstants DEF ClientInit, ClientInv, ClientTypeOK,
       AllOrderly, Orderly, SavedIsOwn, NoJob, Seconds

\* The calls are orderly whatever the service answers and whoever cancels.
THEOREM ClientInvariance == ClientSpec => []ClientInv
<1>1. ClientInit => ClientInv
    BY ClientInitial
<1>2. ClientInv /\ [ClientNext]_clientVars => ClientInv'
    BY ClientStep
<1> QED
    BY <1>1, <1>2, PTL DEF ClientSpec

\* A call that returned a path and no error has written a file there, and
\* finds its own result in it if it named the file, whatever failed on the
\* way and whichever calls are made beside it.
THEOREM SavedFilesAreOwn == ClientSpec => []SavedIsOwn
<1>1. ClientInv => SavedIsOwn
    BY DEF ClientInv
<1> QED
    BY ClientInvariance, <1>1, PTL
-----------------------------------------------------------------------------
(* The photo library.                                                      *)

PhotoSpec == ClientInit /\ PhotoInit /\ [][PhotoNext]_<<clientVars, photoVars>>

RunState ==
    [pc : {"idle", "match", "mark", "again", "remark", "generate", "add", "marked", "write",
           "added", "rewrite", "insert"},
     list : Seq(Persona), n : Nat, photo : Job \cup {Empty}, held : Seq(Photo),
     failed : BOOLEAN]

Imaged(j) == j \in Job /\ files[j] # Empty
AllImaged(photos) == \A i \in DOMAIN photos : Imaged(photos[i].id)

\* The rows of the table, of its backups and of a recovery under way.
AnyRows == rows \cup UNION ({staged, backup, emptied} \ {Empty})

\* What a run knows of the persona it is at, and of the photo it has for it.
TurnOK(x) ==
    /\ x \in RunState /\ AllImaged(x.held)
    /\ IF x.pc = "idle" THEN x.list = <<>> \/ x.n > Len(x.list) ELSE x.n \in 1 .. Len(x.list)
    /\ x.pc = "generate" => x.photo \in Job /\ job[x.photo].named
    /\ x.pc \in {"add", "added", "rewrite", "insert"} => Imaged(x.photo)

\* Whatever names a photo, a row, a library, a backup or a run, names one
\* that is on disk.
ImagesInv ==
    /\ run \in [Runner -> RunState] /\ \A r \in Runner : TurnOK(run[r])
    /\ Readable => AllImaged(metadata)
    /\ \A row \in AnyRows : Imaged(row.id)

InUse(photos, id, p) == \E i \in DOMAIN photos : photos[i].id = id /\ p \in photos[i].inUseBy
Has(photos, p) == \E i \in DOMAIN photos : p \in photos[i].inUseBy
Serves(photos, x) == ~x.failed => \A m \in 1 .. Len(x.list) : m < x.n => Has(photos, x.list[m])

\* A library that backs the rows, and what the runs have done so far.
Agrees(photos) ==
    /\ \A row \in AnyRows : InUse(photos, row.id, row.persona)
    /\ \A r \in Runner : Serves(photos, run[r])

\* Every photo is in the other library too, with its users.
Within(photos, more) ==
    \A i \in DOMAIN photos : \A p \in photos[i].inUseBy : InUse(more, photos[i].id, p)

\* What a run under way has found in the library, or is about to save.
HoldsOK(x) ==
    /\ x.pc \in {"marked", "added"} => Within(metadata, x.held)
    /\ x.pc \in {"marked", "write"} => Has(x.held, x.list[x.n])
    /\ x.pc \in {"added", "rewrite"} => InUse(x.held, x.photo, x.list[x.n])
    /\ x.pc = "insert" => InUse(metadata, x.photo, x.list[x.n])
    /\ x.pc \in {"write", "rewrite"} => Agrees(x.held)

\* Runs that do not overlap and whose writes are not cut off: between Truncate and
\* Write the library is what the run holds.
LibraryInv ==
    Undisturbed =>
        /\ metadata \in Seq(Photo)
        /\ \A r, s \in Runner : run[r].pc # "idle" /\ run[s].pc # "idle" => r = s
        /\ \A r \in Runner : HoldsOK(run[r])
        /\ Settled => Agrees(metadata)

PhotoInv == ClientInv /\ PhotoTypeOK /\ ImagesInv /\ LibraryInv

-----------------------------------------------------------------------------
\* A set of natural numbers has a least element.
LEMMA Least ==
    ASSUME NEW T \in SUBSET Nat, T # {}
    PROVE  \E x \in T : \A y \in T : x <= y
<1>1. PICK x \in T : \A y \in T : <<y, x>> \notin OpToRel(<, Nat)
    BY WFMin, NatLessThanWellFounded
<1>2. \A y \in T : ~(y < x)
    BY <1>1 DEF OpToRel
<1> QED
    BY <1>2

\* The score of a photo is one of finitely many.
LEMMA ScoreType ==
    ASSUME NEW photo, NEW person
    PROVE  calculateMatchScore(photo, person) \in 0 .. 100
<1>1. AgeWeight(photo.age, person.age) \in 0 .. 15
    BY DEF AgeWeight
<1>2. ASSUME NEW trait, NEW weight \in 0 .. 10
      PROVE  Same(photo, person, trait, weight) \in 0 .. weight
    BY <1>2 DEF Same
<1>3. /\ Same(photo, person, "hairColor", 10) \in 0 .. 10
      /\ Same(photo, person, "glasses", 5) \in 0 .. 5
      /\ Same(photo, person, "hairStyle", 5) \in 0 .. 5
      /\ Same(photo, person, "build", 5) \in 0 .. 5
    BY <1>2
<1> QED
    BY <1>1, <1>3 DEF calculateMatchScore

\* Of the photos that fit there is a best: the score is bounded, and ties end
\* with the fewest users and the first place.
LEMMA BestFits ==
    ASSUME NEW photos \in Seq(Photo), NEW p, NEW fit \in SUBSET DOMAIN photos, fit # {}
    PROVE  \E i \in fit : Best(photos, p, fit) = photos[i].id
<1> DEFINE score(i) == calculateMatchScore(Traits(photos[i].of), Traits(p))
           users(i) == Cardinality(photos[i].inUseBy)
           ahead(i, k) ==
               \/ score(i) > score(k)
               \/ score(i) = score(k) /\ users(i) < users(k)
               \/ score(i) = score(k) /\ users(i) = users(k) /\ i <= k
<1>1. \A i \in fit : /\ i \in Nat /\ users(i) \in Nat
                     /\ score(i) \in Int /\ score(i) <= 100 /\ 100 - score(i) \in Nat
  <2>1. \A i \in fit : i \in Nat /\ photos[i] \in Photo
      BY LenProperties, ElementOfSeq
  <2>2. \A i \in fit : IsFiniteSet(photos[i].inUseBy)
      BY <2>1, FS_Subset, PhotoConstants DEF Photo
  <2>3. \A i \in fit : users(i) \in Nat /\ score(i) \in 0 .. 100
      BY <2>2, FS_CardinalityType, ScoreType
  <2>4. \A n \in 0 .. 100 : n \in Int /\ n <= 100 /\ 100 - n \in Nat
      OBVIOUS
  <2> HIDE DEF score
  <2> QED
      BY <2>1, <2>3, <2>4
<1> HIDE DEF score, users
<1>2. PICK s \in {100 - score(i) : i \in fit} : \A t \in {100 - score(i) : i \in fit} : s <= t
  <2>1. \A i \in fit : 100 - score(i) \in Nat
      BY <1>1
  <2>2. {100 - score(i) : i \in fit} \in SUBSET Nat /\ {100 - score(i) : i \in fit} # {}
      BY <2>1
  <2> QED
      BY <2>2, Least
<1> DEFINE high == {i \in fit : 100 - score(i) = s}
<1>3. PICK u \in {users(i) : i \in high} : \A t \in {users(i) : i \in high} : u <= t
  <2>1. {users(i) : i \in high} \in SUBSET Nat /\ {users(i) : i \in high} # {}
      BY <1>1, <1>2
  <2> QED
      BY <2>1, Least
<1> DEFINE few == {i \in high : users(i) = u}
<1>4. PICK i \in few : \A k \in few : i <= k
  <2>1. few \in SUBSET Nat /\ few # {}
      BY <1>1, <1>3
  <2> QED
      BY <2>1, Least
<1>5. i \in fit /\ \A k \in fit : ahead(i, k)
  <2> SUFFICES ASSUME NEW k \in fit PROVE ahead(i, k)
      BY <1>4
  <2>1. /\ score(i) \in Int /\ score(k) \in Int /\ users(i) \in Nat /\ users(k) \in Nat
        /\ 100 - score(i) = s /\ s <= 100 - score(k) /\ users(i) = u
      BY <1>1, <1>2, <1>4, ZenonT(40)
  <2>2. CASE score(k) = score(i)
    <3>1. k \in high /\ u <= users(k)
        BY <1>3, <2>1, <2>2
    <3>2. users(k) = users(i) => i <= k
        BY <1>4, <2>1, <3>1
    <3> HIDE DEF few, high
    <3> QED
        BY <2>1, <2>2, <3>1, <3>2
  <2>3. CASE score(k) # score(i)
    <3>1. score(i) > score(k)
        BY <2>1, <2>3
    <3> QED
        BY <3>1
  <2> QED
      BY <2>2, <2>3
<1>6. (CHOOSE c \in fit : \A k \in fit : ahead(c, k)) \in fit
    BY <1>5
<1>7. Best(photos, p, fit) = photos[CHOOSE c \in fit : \A k \in fit : ahead(c, k)].id
    BY DEF Best, score, users
<1> QED
    BY <1>6, <1>7

\* A photo found to share is one of the library's, and like enough to the
\* persona.
LEMMA FoundInLibrary ==
    ASSUME metadata \in Libraries, NEW p \in Persona, FindMatch(p) # Empty
    PROVE  \E i \in Fitting(metadata, p) : FindMatch(p) = metadata[i].id
<1>1. Readable /\ metadata \in Seq(Photo) /\ Fitting(metadata, p) # {}
    BY DEF FindMatch, Readable, Libraries, Best
<1> QED
    BY <1>1, BestFits DEF FindMatch, Fitting

\* The library outgrows another one: what the other backs, it backs.
LEMMA WithinAgrees ==
    ASSUME NEW photos, NEW more, Within(photos, more)
    PROVE  /\ \A id, p : InUse(photos, id, p) => InUse(more, id, p)
           /\ \A p : Has(photos, p) => Has(more, p)
           /\ Agrees(photos) => Agrees(more)
<1>1. \A id, p : InUse(photos, id, p) => InUse(more, id, p)
    BY DEF InUse, Within
<1>2. \A p : Has(photos, p) => Has(more, p)
    BY DEF InUse, Has, Within
<1> QED
    BY <1>1, <1>2 DEF Agrees, Serves

\* A run that goes on to its next persona, or ends.
LEMMA Moved ==
    ASSUME NEW r \in Runner, NEW failed \in BOOLEAN, TurnOK(run[r]), run[r].pc # "idle",
           NextPersona(r, failed)
    PROVE  \E x \in RunState :
              /\ Alter(r, x) /\ TurnOK(x) /\ x.pc \in {"idle", "match"}
              /\ x.list = run[r].list /\ x.n = run[r].n + 1 /\ x.failed = (run[r].failed \/ failed)
<1> DEFINE pc == IF run[r].n = Len(run[r].list) THEN "idle" ELSE "match"
           n == run[r].n + 1
           f == run[r].failed \/ failed
           x == [[run[r] EXCEPT !.pc = pc] EXCEPT !.n = n, !.photo = Empty, !.held = <<>>,
                    !.failed = f]
<1>1. Alter(r, x)
    BY DEF NextPersona, At
<1>2. run[r] \in RunState /\ Len(run[r].list) \in Nat /\ run[r].n \in 1 .. Len(run[r].list)
    BY DEF TurnOK
<1>a. n \in Nat /\ f \in BOOLEAN /\ pc \in {"idle", "match"}
    BY <1>2
<1> HIDE DEF n, f, pc
<1>b. <<>> \in Seq(Photo)
    OBVIOUS
<1>3. x \in RunState
    BY <1>2, <1>a, <1>b, ZenonT(40) DEF RunState
<1>4. /\ x.pc = pc /\ x.list = run[r].list /\ x.n = n /\ x.failed = f /\ x.held = <<>>
    BY <1>2, ZenonT(40) DEF RunState
<1>5. TurnOK(x)
    BY <1>2, <1>3, <1>4, <1>a DEF TurnOK, AllImaged, n, pc
<1> HIDE DEF x
<1> QED
    BY <1>1, <1>3, <1>4, <1>5, <1>a DEF n, f

\* What a run had done for its personas a larger library still backs, and the
\* rows and the other runs' too.
LEMMA AgreesStill ==
    ASSUME run \in [Runner -> RunState], NEW r \in Runner, NEW x, Alter(r, x),
           NEW photos, NEW more, Agrees(photos), Within(photos, more), Serves(more, x),
           \A row \in AnyRows' : row \in AnyRows \/ InUse(more, row.id, row.persona)
    PROVE  Agrees(more)'
<1>1. /\ \A id, p : InUse(photos, id, p) => InUse(more, id, p)
      /\ \A p : Has(photos, p) => Has(more, p)
    BY WithinAgrees
<1>2. ASSUME NEW s \in Runner PROVE Serves(more, run'[s])
  <2>1. run'[s] = run[s] \/ run'[s] = x
      BY DEF Alter
  <2> QED
      BY <1>1, <2>1 DEF Agrees, Serves
<1> QED
    BY <1>1, <1>2, ZenonT(40) DEF Agrees, Has

\* A run by itself keeps what it holds and what the library backs in step.
LEMMA AloneStep ==
    ASSUME ImagesInv, LibraryInv, NEW r \in Runner, NEW x, Alter(r, x),
           Undisturbed' =>
                /\ \A s \in Runner \ {r} : run[s].pc = "idle"
                /\ metadata' \in Seq(Photo) /\ HoldsOK(x)'
                /\ x.pc \notin {"write", "rewrite"} => Agrees(metadata)'
    PROVE  LibraryInv'
<1> SUFFICES ASSUME Undisturbed'
             PROVE  /\ metadata' \in Seq(Photo)
                    /\ \A a, b \in Runner : run'[a].pc # "idle" /\ run'[b].pc # "idle" => a = b
                    /\ \A s \in Runner : HoldsOK(run[s])'
                    /\ Settled' => Agrees(metadata)'
    BY DEF LibraryInv
<1>1. run' = [run EXCEPT ![r] = x] /\ run \in [Runner -> RunState]
    BY DEF Alter, ImagesInv
<1>2. \A s \in Runner \ {r} : run'[s].pc = "idle"
    BY <1>1
<1>3. HoldsOK(run[r])'
    BY <1>1
<1>4. \A s \in Runner \ {r} : HoldsOK(run[s])'
    BY <1>2 DEF HoldsOK
<1>5. Settled' => x.pc \notin {"write", "rewrite"}
    BY <1>1 DEF Settled
<1> QED
    BY <1>2, <1>3, <1>4, <1>5

\* What is known of a run that is under way by itself.
LEMMA Alone ==
    ASSUME PhotoInv, NEW r \in Runner, run[r].pc # "idle", Undisturbed
    PROVE  /\ \A s \in Runner \ {r} : run[s].pc = "idle"
           /\ metadata \in Seq(Photo) /\ HoldsOK(run[r])
           /\ run[r].pc \notin {"write", "rewrite"} => Agrees(metadata)
    BY DEF PhotoInv, LibraryInv, Settled

\* A step of a run that changes what names a photo only in the run.
LEMMA TurnImages ==
    ASSUME PhotoTypeOK, ImagesInv, NEW r \in Runner, NEW x, TurnOK(x)', Alter(r, x),
           \A j \in Job : (files[j] # Empty => files'[j] # Empty) /\ (job[j].named => job'[j].named),
           UNCHANGED <<metadata, rows, shelf>>
    PROVE  PhotoTypeOK' /\ ImagesInv'
<1>1. PhotoTypeOK' /\ AnyRows' = AnyRows
    BY DEF PhotoTypeOK, shelf, AnyRows
<1>2. run' = [run EXCEPT ![r] = x] /\ run' \in [Runner -> RunState]
    BY DEF Alter, ImagesInv, TurnOK
<1>3. ASSUME NEW s \in Runner PROVE TurnOK(run[s])'
  <2>1. CASE s = r
      BY <1>2, <2>1
  <2>2. CASE s # r
      BY <1>2, <2>2 DEF ImagesInv, TurnOK, AllImaged, Imaged
  <2> QED
      BY <2>1, <2>2
<1> QED
    BY <1>1, <1>2, <1>3 DEF ImagesInv, Readable, AllImaged, Imaged

\* A step of a run that touches nothing but the run.
LEMMA TurnStep ==
    ASSUME PhotoInv, NEW r \in Runner, NEW x, TurnOK(x), Alter(r, x), run[r].pc # "idle",
           {run[r].pc, x.pc} \cap {"write", "rewrite"} = {},
           Undisturbed /\ Agrees(metadata) /\ HoldsOK(run[r]) => HoldsOK(x) /\ Serves(metadata, x),
           UNCHANGED <<metadata, rows, shelf, past, clientVars>>
    PROVE  PhotoInv'
<1>1. ClientInv'
    BY DEF PhotoInv, ClientInv, ClientTypeOK, AllOrderly, SavedIsOwn,
       clientVars
<1>2. PhotoTypeOK' /\ ImagesInv'
    BY TurnImages DEF PhotoInv, TurnOK, AllImaged, Imaged, clientVars
<1>3. LibraryInv'
  <2>1. ASSUME Undisturbed'
        PROVE  /\ \A s \in Runner \ {r} : run[s].pc = "idle"
               /\ metadata' \in Seq(Photo) /\ HoldsOK(x)' /\ Agrees(metadata)'
    <3>1. /\ Undisturbed /\ \A s \in Runner \ {r} : run[s].pc = "idle"
          /\ metadata \in Seq(Photo) /\ HoldsOK(x) /\ Serves(metadata, x) /\ Agrees(metadata)
        BY <2>1, Alone DEF Undisturbed, past
    <3>2. AnyRows' = AnyRows /\ metadata' = metadata
        BY DEF AnyRows, shelf
    <3>3. HoldsOK(x)'
        BY <3>1, <3>2 DEF HoldsOK
    <3>4. Within(metadata, metadata)
        BY DEF Within, InUse
    <3>5. Agrees(metadata)'
        BY <3>1, <3>2, <3>4, AgreesStill DEF PhotoInv, ImagesInv
    <3> QED
        BY <3>1, <3>2, <3>3, <3>5
  <2> QED
      BY <2>1, AloneStep DEF PhotoInv
<1> QED
    BY <1>1, <1>2, <1>3 DEF PhotoInv

-----------------------------------------------------------------------------
(* The steps of a run's turn.                                              *)

\* A persona with a match shares its photo, one without has one made.
LEMMA MatchStep ==
    ASSUME PhotoInv, NEW r \in Runner, Match(r)
    PROVE  PhotoInv'
<1> DEFINE m == FindMatch(Under(r))
           x == IF m # Empty THEN [At(r, "mark") EXCEPT !.photo = m] ELSE At(r, "again")
<1>1. /\ TurnOK(run[r]) /\ run[r] \in RunState /\ run[r].pc = "match"
      /\ metadata \in Libraries /\ Under(r) \in Persona
    BY ElementOfSeq DEF PhotoInv, PhotoTypeOK, ImagesInv, TurnOK, RunState,
       Match, Under
<1>2. m \in Job \cup {Empty}
  <2>1. m # Empty => \E i \in DOMAIN metadata : metadata[i] \in Photo /\ m = metadata[i].id
      BY <1>1, FoundInLibrary, LenProperties, ElementOfSeq DEF Fitting,
         FindMatch, Readable, Libraries
  <2> QED
      BY <2>1 DEF Photo
<1> HIDE DEF m
<1>3. x \in RunState /\ x.pc \in {"mark", "again"} /\ x.list = run[r].list /\ x.n = run[r].n
      /\ x.held = run[r].held /\ x.failed = run[r].failed
    BY <1>1, <1>2, ZenonT(40) DEF At, RunState
<1>4. Alter(r, x)
    BY DEF Match, m
<1>5. TurnOK(x)
    BY <1>1, <1>3 DEF TurnOK
<1>6. HoldsOK(x) /\ (Agrees(metadata) => Serves(metadata, x))
    BY <1>3 DEF HoldsOK, Agrees, Serves
<1> HIDE DEF x
<1> QED
    BY <1>1, <1>3, <1>4, <1>5, <1>6, TurnStep DEF Match

\* A step that ends a persona's turn without a file or a table touched.
LEMMA TurnEnds ==
    ASSUME PhotoInv, NEW r \in Runner, NEW failed \in BOOLEAN, NextPersona(r, failed),
           run[r].pc \notin {"idle", "write", "rewrite"},
           UNCHANGED <<metadata, rows, shelf, past, clientVars>>,
           failed \/ Has(metadata, Under(r))
    PROVE  PhotoInv'
<1>1. TurnOK(run[r]) /\ run[r] \in RunState
    BY DEF PhotoInv, ImagesInv
<1>2. PICK x \in RunState :
        /\ Alter(r, x) /\ TurnOK(x) /\ x.pc \in {"idle", "match"}
        /\ x.list = run[r].list /\ x.n = run[r].n + 1 /\ x.failed = (run[r].failed \/ failed)
    BY <1>1, Moved
<1>3. HoldsOK(x)
    BY <1>2 DEF HoldsOK
<1>4. Agrees(metadata) => Serves(metadata, x)
    BY <1>1, <1>2 DEF Agrees, Serves, Under, RunState
<1> QED
    BY <1>2, <1>3, <1>4, TurnStep

\* A mark is found in the library; what it becomes is the library's own.
LEMMA MarkStep ==
    ASSUME PhotoInv, NEW r \in Runner, MarkInUse(r)
    PROVE  PhotoInv'
<1> DEFINE hits == {i \in DOMAIN metadata : metadata[i].id = run[r].photo}
           after == IF run[r].pc = "mark" THEN "marked" ELSE "added"
<1>1. /\ TurnOK(run[r]) /\ run[r] \in RunState /\ run[r].pc \in {"mark", "remark"}
      /\ metadata \in Libraries /\ Under(r) \in Persona
    BY ElementOfSeq DEF PhotoInv, PhotoTypeOK, ImagesInv, TurnOK, RunState,
       MarkInUse, Under
<1>2. CASE ~Readable \/ hits = {}
    BY <1>1, <1>2, TurnEnds DEF MarkInUse
<1>3. CASE Readable /\ hits # {}
  <2>1. /\ metadata \in Seq(Photo) /\ DOMAIN metadata = 1 .. Len(metadata)
        /\ \A i \in DOMAIN metadata : metadata[i] \in Photo /\ Imaged(metadata[i].id)
      BY <1>1, <1>3, LenProperties, ElementOfSeq DEF PhotoInv, ImagesInv,
         AllImaged, Libraries, Readable
  <2>2. PICK i \in hits :
            IF Under(r) \in metadata[i].inUseBy
            THEN IF after = "marked" THEN NextPersona(r, FALSE) ELSE Alter(r, At(r, "insert"))
            ELSE Alter(r, [At(r, after) EXCEPT !.held =
                    [metadata EXCEPT ![i].inUseBy = @ \cup {Under(r)}]])
      BY <1>1, <1>3 DEF MarkInUse
  <2>3. /\ i \in DOMAIN metadata /\ metadata[i] \in Photo /\ metadata[i].id = run[r].photo
        /\ Imaged(run[r].photo)
      BY <2>1, <2>2
  <2>4. CASE Under(r) \in metadata[i].inUseBy /\ run[r].pc = "mark"
      BY <1>1, <2>2, <2>3, <2>4, TurnEnds DEF MarkInUse, Has
  <2>5. CASE Under(r) \in metadata[i].inUseBy /\ run[r].pc = "remark"
    <3> DEFINE x == At(r, "insert")
    <3>1. x \in RunState /\ x.pc = "insert" /\ x.list = run[r].list /\ x.n = run[r].n
          /\ x.held = run[r].held /\ x.failed = run[r].failed /\ x.photo = run[r].photo
        BY <1>1, ZenonT(40) DEF At, RunState
    <3>2. TurnOK(x)
        BY <1>1, <2>3, <3>1 DEF TurnOK
    <3>3. HoldsOK(x) /\ (Agrees(metadata) => Serves(metadata, x))
        BY <2>3, <2>5, <3>1 DEF HoldsOK, Agrees, Serves, InUse, Under
    <3>4. Alter(r, x)
        BY <2>2, <2>5
    <3> HIDE DEF x
    <3> QED
        BY <1>1, <3>1, <3>2, <3>3, <3>4, TurnStep DEF MarkInUse
  <2>6. CASE Under(r) \notin metadata[i].inUseBy
    <3> DEFINE held == [metadata EXCEPT ![i].inUseBy = @ \cup {Under(r)}]
               photo == [metadata[i] EXCEPT !.inUseBy = @ \cup {Under(r)}]
               x == [At(r, after) EXCEPT !.held = held]
    <3>1. photo \in Photo /\ photo.id = metadata[i].id
          /\ photo.inUseBy = metadata[i].inUseBy \cup {Under(r)}
        BY <1>1, <2>3 DEF Photo
    <3>2. /\ held \in Seq(Photo) /\ DOMAIN held = DOMAIN metadata
          /\ \A k \in DOMAIN metadata : held[k] = IF k = i THEN photo ELSE metadata[k]
        BY <2>1, <2>3, <3>1, ExceptSeq, LenProperties
    <3> HIDE DEF held, photo
    <3>3. x \in RunState /\ x.pc \in {"marked", "added"} /\ x.list = run[r].list /\ x.n = run[r].n
          /\ x.held = held /\ x.failed = run[r].failed /\ x.photo = run[r].photo
        BY <1>1, <3>2, ZenonT(40) DEF At, RunState
    <3>4. TurnOK(x)
        BY <1>1, <2>1, <2>3, <3>1, <3>2, <3>3 DEF TurnOK, AllImaged
    <3>5. Within(metadata, held)
        BY <3>1, <3>2 DEF Within, InUse
    <3>6. InUse(held, run[r].photo, Under(r)) /\ Has(held, Under(r))
        BY <2>3, <3>1, <3>2 DEF InUse, Has
    <3>7. HoldsOK(x) /\ (Agrees(metadata) => Serves(metadata, x))
        BY <3>3, <3>5, <3>6 DEF HoldsOK, Agrees, Serves, Under
    <3>8. Alter(r, x)
        BY <2>2, <2>6 DEF held
    <3> HIDE DEF x
    <3> QED
        BY <1>1, <3>3, <3>4, <3>7, <3>8, TurnStep DEF MarkInUse
  <2> QED
      BY <1>1, <2>4, <2>5, <2>6
<1> QED
    BY <1>2, <1>3

\* A call that returned a photo has it on disk.
LEMMA GeneratedStep ==
    ASSUME PhotoInv, NEW r \in Runner, Generated(r)
    PROVE  PhotoInv'
<1>1. TurnOK(run[r]) /\ run[r] \in RunState /\ run[r].pc = "generate" /\ run[r].photo \in Job
      /\ job[run[r].photo].named
    BY DEF PhotoInv, ImagesInv, TurnOK, Generated
<1>2. CASE job[run[r].photo].outcome # "file"
    BY <1>1, <1>2, TurnEnds DEF Generated
<1>3. CASE job[run[r].photo].outcome = "file"
  <2> DEFINE x == At(r, "add")
  <2>1. Imaged(run[r].photo)
      BY <1>1, <1>3, ClientConstants DEF PhotoInv, ClientInv, SavedIsOwn,
         AllOrderly, Orderly, Imaged
  <2>2. x \in RunState /\ x.pc = "add" /\ x.list = run[r].list /\ x.n = run[r].n
        /\ x.held = run[r].held /\ x.failed = run[r].failed /\ x.photo = run[r].photo
      BY <1>1, ZenonT(40) DEF At, RunState
  <2>3. TurnOK(x)
      BY <1>1, <2>1, <2>2 DEF TurnOK
  <2>4. HoldsOK(x) /\ (Agrees(metadata) => Serves(metadata, x))
      BY <2>2 DEF HoldsOK, Agrees, Serves
  <2>5. Alter(r, x)
      BY <1>3 DEF Generated
  <2> HIDE DEF x
  <2> QED
      BY <1>1, <2>2, <2>3, <2>4, <2>5, TurnStep DEF Generated
<1> QED
    BY <1>2, <1>3

\* A new photo goes into the library with its persona.
LEMMA AddStep ==
    ASSUME PhotoInv, NEW r \in Runner, Add(r)
    PROVE  PhotoInv'
<1>1. /\ TurnOK(run[r]) /\ run[r] \in RunState /\ run[r].pc = "add" /\ Imaged(run[r].photo)
      /\ metadata \in Libraries /\ Under(r) \in Persona
    BY ElementOfSeq DEF PhotoInv, PhotoTypeOK, ImagesInv, TurnOK, RunState,
       Add, Under
<1>2. CASE ~Readable
    BY <1>1, <1>2, TurnEnds DEF Add
<1>3. CASE Readable
  <2> DEFINE photo == [id |-> run[r].photo, of |-> Under(r), inUseBy |-> {Under(r)}]
             held == Append(metadata, photo)
             x == [At(r, "added") EXCEPT !.held = held]
  <2>1. /\ metadata \in Seq(Photo) /\ DOMAIN metadata = 1 .. Len(metadata) /\ Len(metadata) \in Nat
        /\ \A i \in DOMAIN metadata : Imaged(metadata[i].id)
      BY <1>1, <1>3, LenProperties DEF PhotoInv, ImagesInv, AllImaged,
         Libraries, Readable
  <2>2. photo \in Photo /\ photo.id = run[r].photo /\ Under(r) \in photo.inUseBy
      BY <1>1 DEF Photo, Imaged
  <2> HIDE DEF photo
  <2>3. /\ held \in Seq(Photo) /\ DOMAIN held = 1 .. Len(metadata) + 1
        /\ \A k \in 1 .. Len(metadata) : held[k] = metadata[k]
        /\ held[Len(metadata) + 1] = photo
      BY <2>1, <2>2, AppendProperties, LenProperties
  <2> HIDE DEF held
  <2>4. x \in RunState /\ x.pc = "added" /\ x.list = run[r].list /\ x.n = run[r].n
        /\ x.held = held /\ x.failed = run[r].failed /\ x.photo = run[r].photo
      BY <1>1, <2>3, ZenonT(40) DEF At, RunState
  <2>5. AllImaged(held)
      BY <1>1, <2>1, <2>2, <2>3 DEF AllImaged
  <2>6. TurnOK(x)
      BY <1>1, <2>4, <2>5 DEF TurnOK
  <2>7. Within(metadata, held) /\ InUse(held, run[r].photo, Under(r))
      BY <2>1, <2>2, <2>3 DEF Within, InUse
  <2>8. HoldsOK(x) /\ (Agrees(metadata) => Serves(metadata, x))
      BY <2>4, <2>7 DEF HoldsOK, Agrees, Serves, Under
  <2>9. Alter(r, x)
      BY <1>3 DEF Add, held, photo
  <2> HIDE DEF x
  <2> QED
      BY <1>1, <2>4, <2>6, <2>8, <2>9, TurnStep DEF Add
<1> QED
    BY <1>2, <1>3

\* What a step of the service, or a new call, does to the calls and files.
LEMMA ServiceStep ==
    ASSUME ClientInv, NEW j \in Job,
           Answered(j) \/ Call(j, "image", TRUE)
    PROVE  /\ ClientInv'
           /\ \A i \in Job : (files[i] # Empty => files'[i] # Empty)
                             /\ (job[i].named => job'[i].named)
           /\ Call(j, "image", TRUE) => job'[j].named
<1>1. ClientInv'
    BY CallStep, ClientStep DEF ClientNext
<1>2. /\ job \in [Job -> JobState] /\ files \in [Paths -> Job \cup {Empty}] /\ Empty \notin Job
      /\ Job \subseteq Paths
    BY ClientConstants DEF ClientInv, ClientTypeOK, Paths
<1>3. \E x : job' = [job EXCEPT ![j] = x] /\ (job[j].named => x.named)
             /\ (Call(j, "image", TRUE) => x.named)
  <2>1. job[j] \in JobState
      BY <1>2
  <2>2. CASE Call(j, "image", TRUE)
    <3> DEFINE x == [To(j, "submit") EXCEPT !.kind = "image", !.named = TRUE]
    <3>1. job' = [job EXCEPT ![j] = x] /\ x.named
        BY <2>1, <2>2 DEF Call, Continue
    <3> QED
        BY <3>1
  <2>3. CASE Answered(j)
    <3>1. ASSUME NEW outcome, job' = [job EXCEPT ![j] = Done(j, outcome)]
          PROVE  \E x : job' = [job EXCEPT ![j] = x] /\ x.named = job[j].named
      <4>1. Done(j, outcome).named = job[j].named
          BY DEF Done
      <4> QED
          BY <3>1, <4>1
    <3>2. ASSUME NEW x, Continue(j, x), x.named = job[j].named
          PROVE  \E y : job' = [job EXCEPT ![j] = y] /\ y.named = job[j].named
        BY <3>2 DEF Continue
    <3>3. \E x : job' = [job EXCEPT ![j] = x] /\ x.named = job[j].named
      <4>1. CASE SubmitImage(j) \/ SubmitVideo(j)
          BY <2>1, <3>1, <3>2, <4>1 DEF SubmitImage, SubmitVideo, Return, To,
             JobState
      <4>2. CASE CheckVideoStatus(j) \/ Exhausted(j)
          BY <2>1, <3>1, <3>2, <4>2 DEF CheckVideoStatus, Exhausted,
             StillProcessing, Return, To, JobState
      <4>3. CASE Download(j)
          BY <2>1, <3>1, <3>2, <4>3 DEF Download, NotFound, Return, JobState
      <4> QED
          BY <2>3, <4>1, <4>2, <4>3 DEF Answered
    <3>4. ~Call(j, "image", TRUE)
        BY <2>3 DEF Call, Answered, SubmitImage, SubmitVideo,
           CheckVideoStatus, Download, Exhausted
    <3> QED
        BY <3>3, <3>4
  <2> QED
      BY <2>2, <2>3
<1>4. files' = files \/ \E p \in Paths : files' = [files EXCEPT ![p] = j]
    BY <1>2 DEF Answered, Call, SubmitImage, SubmitVideo, CheckVideoStatus,
       Download, Exhausted, NotFound, StillProcessing, Return, Continue
<1>5. \A i \in Job : files[i] # Empty => files'[i] # Empty
    BY <1>2, <1>4
<1>6. \A i \in Job : job[i].named => job'[i].named
    BY <1>2, <1>3
<1> QED
    BY <1>1, <1>2, <1>3, <1>5, <1>6

\* An image for a run, or a retry of one, is made while the runs go on.
LEMMA ServedStep ==
    ASSUME PhotoInv, Service
    PROVE  PhotoInv'
<1>1. PICK j \in Job : Answered(j) /\ UNCHANGED photoVars
    BY DEF Service
<1>2. /\ ClientInv'
      /\ \A i \in Job : (files[i] # Empty => files'[i] # Empty) /\ (job[i].named => job'[i].named)
    BY <1>1, ServiceStep DEF PhotoInv
<1>3. UNCHANGED <<run, metadata, rows, staged, backup, emptied, runs, together, damaged>>
    BY <1>1 DEF photoVars
<1>4. PhotoTypeOK' /\ AnyRows' = AnyRows
    BY <1>3 DEF PhotoInv, PhotoTypeOK, AnyRows
<1>5. \A i : Imaged(i) => Imaged(i)'
    BY <1>2 DEF Imaged
<1>6. ImagesInv'
    BY <1>2, <1>3, <1>4, <1>5 DEF PhotoInv, ImagesInv, TurnOK, AllImaged,
       Readable
<1>7. LibraryInv'
    BY <1>3, <1>4 DEF PhotoInv, LibraryInv, Undisturbed, Settled, HoldsOK,
       Agrees
<1> QED
    BY <1>2, <1>4, <1>6, <1>7 DEF PhotoInv

\* The second look finds a photo, or a call for one is made.
LEMMA GenerateStep ==
    ASSUME PhotoInv, NEW r \in Runner, GenerateAndSave(r)
    PROVE  PhotoInv'
<1> DEFINE m == FindMatch(Under(r))
<1>1. /\ TurnOK(run[r]) /\ run[r] \in RunState /\ run[r].pc = "again"
      /\ metadata \in Libraries /\ Under(r) \in Persona
    BY ElementOfSeq DEF PhotoInv, PhotoTypeOK, ImagesInv, TurnOK, RunState,
       GenerateAndSave, Under
<1>2. CASE m # Empty
  <2> DEFINE x == [At(r, "remark") EXCEPT !.photo = m]
  <2>1. m \in Job
    <3>1. \E i \in DOMAIN metadata : metadata[i] \in Photo /\ m = metadata[i].id
        BY <1>1, <1>2, FoundInLibrary, LenProperties, ElementOfSeq DEF
           Fitting, FindMatch, Readable, Libraries
    <3> QED
        BY <3>1 DEF Photo
  <2>2. Alter(r, x) /\ UNCHANGED <<metadata, rows, shelf, past, clientVars>>
      BY <1>2 DEF GenerateAndSave
  <2> HIDE DEF m
  <2>3. x \in RunState /\ x.pc = "remark" /\ x.list = run[r].list /\ x.n = run[r].n
        /\ x.held = run[r].held /\ x.failed = run[r].failed
      BY <1>1, <2>1, ZenonT(40) DEF At, RunState
  <2>4. TurnOK(x)
      BY <1>1, <2>3 DEF TurnOK
  <2>5. HoldsOK(x) /\ (Agrees(metadata) => Serves(metadata, x))
      BY <2>3 DEF HoldsOK, Agrees, Serves
  <2> HIDE DEF x
  <2> QED
      BY <1>1, <2>2, <2>3, <2>4, <2>5, TurnStep
<1>3. CASE m = Empty
  <2>1. PICK j \in Job : /\ Call(j, "image", TRUE)
                         /\ Alter(r, [At(r, "generate") EXCEPT !.photo = j])
    <3>1. Unused # {} /\ (CHOOSE j \in Unused : TRUE) \in Job
        BY <1>3 DEF GenerateAndSave, Unused
    <3> QED
        BY <1>3, <3>1 DEF GenerateAndSave
  <2> DEFINE y == [At(r, "generate") EXCEPT !.photo = j]
  <2>2. PICK x : x = y
      OBVIOUS
  <2>3. x \in RunState /\ x.pc = "generate" /\ x.list = run[r].list /\ x.n = run[r].n
        /\ x.held = run[r].held /\ x.failed = run[r].failed /\ x.photo = j
      BY <1>1, <2>2, ZenonT(40) DEF At, RunState
  <2>4. Alter(r, x) /\ UNCHANGED <<metadata, rows, shelf, past>>
      BY <2>1, <2>2 DEF GenerateAndSave
  <2>5. /\ ClientInv' /\ job'[j].named
        /\ \A i \in Job : (files[i] # Empty => files'[i] # Empty) /\ (job[i].named => job'[i].named)
      BY <2>1, ServiceStep DEF PhotoInv
  <2>6. TurnOK(x)'
      BY <1>1, <2>3, <2>5 DEF TurnOK, AllImaged, Imaged
  <2>7. PhotoTypeOK' /\ ImagesInv'
      BY <2>4, <2>5, <2>6, TurnImages DEF PhotoInv
  <2>8. ASSUME Undisturbed'
        PROVE  /\ \A s \in Runner \ {r} : run[s].pc = "idle"
               /\ metadata' \in Seq(Photo) /\ HoldsOK(x)' /\ Agrees(metadata)'
    <3>1. /\ \A s \in Runner \ {r} : run[s].pc = "idle"
          /\ metadata \in Seq(Photo) /\ Agrees(metadata)
        BY <1>1, <2>4, <2>8, Alone DEF Undisturbed, past
    <3>2. AnyRows' = AnyRows /\ metadata' = metadata
        BY <2>4 DEF AnyRows, shelf
    <3>3. HoldsOK(x)' /\ Serves(metadata, x)
        BY <2>3, <3>1 DEF HoldsOK, Agrees, Serves
    <3>4. Within(metadata, metadata)
        BY DEF Within, InUse
    <3>5. Agrees(metadata)'
        BY <2>4, <3>1, <3>2, <3>3, <3>4, AgreesStill DEF PhotoInv, ImagesInv
    <3> QED
        BY <3>1, <3>2, <3>3, <3>5
  <2>9. LibraryInv'
      BY <2>4, <2>8, AloneStep DEF PhotoInv
  <2> QED
      BY <2>5, <2>7, <2>9 DEF PhotoInv
<1> QED
    BY <1>2, <1>3

\* A run takes the library in hand, truncating the file, ...
LEMMA TruncateStep ==
    ASSUME PhotoInv, NEW r \in Runner, Truncate(r)
    PROVE  PhotoInv'
<1>1. TurnOK(run[r]) /\ run[r] \in RunState /\ run[r].pc \in {"marked", "added"}
    BY DEF PhotoInv, ImagesInv, Truncate
<1> DEFINE x == At(r, IF run[r].pc = "marked" THEN "write" ELSE "rewrite")
<1>2. PICK y : y = x
    OBVIOUS
<1>3. /\ y \in RunState /\ y.pc = (IF run[r].pc = "marked" THEN "write" ELSE "rewrite")
      /\ y.list = run[r].list /\ y.n = run[r].n
      /\ y.held = run[r].held /\ y.failed = run[r].failed /\ y.photo = run[r].photo
    BY <1>1, <1>2, ZenonT(40) DEF At, RunState
<1>4. /\ Alter(r, y) /\ metadata' = <<>> /\ UNCHANGED <<rows, shelf, past, clientVars>>
    BY <1>2 DEF Truncate
<1>5. ClientInv'
    BY <1>4 DEF PhotoInv, ClientInv, ClientTypeOK, AllOrderly, SavedIsOwn,
       clientVars
<1>6. TurnOK(y)
    BY <1>1, <1>3 DEF TurnOK
<1>7. PhotoTypeOK' /\ AnyRows' = AnyRows
    BY <1>4 DEF PhotoInv, PhotoTypeOK, Libraries, shelf, AnyRows
<1>8. ImagesInv'
  <2>1. ASSUME NEW s \in Runner PROVE TurnOK(run[s])'
    <3>1. run'[s] = run[s] \/ run'[s] = y
        BY <1>4 DEF Alter
    <3> QED
        BY <1>4, <1>6, <3>1 DEF PhotoInv, ImagesInv, TurnOK, AllImaged,
           Imaged, clientVars
  <2> QED
      BY <1>3, <1>4, <1>7, <2>1 DEF Alter, PhotoInv, ImagesInv, AllImaged,
         Imaged, clientVars
<1>9. ASSUME Undisturbed'
      PROVE  /\ \A s \in Runner \ {r} : run[s].pc = "idle"
             /\ metadata' \in Seq(Photo) /\ HoldsOK(y)'
  <2>1. /\ \A s \in Runner \ {r} : run[s].pc = "idle"
        /\ HoldsOK(run[r]) /\ Agrees(metadata)
      BY <1>1, <1>4, <1>9, Alone DEF Undisturbed, past
  <2>2. Within(metadata, y.held) /\ Agrees(y.held)
      BY <1>1, <1>3, <2>1, WithinAgrees DEF HoldsOK
  <2>3. Serves(y.held, y) /\ Within(y.held, y.held)
      BY <1>3, <2>2 DEF Agrees, Serves, Within, InUse
  <2>4. Agrees(y.held)'
      BY <1>4, <1>7, <2>2, <2>3, AgreesStill DEF PhotoInv, ImagesInv
  <2>5. HoldsOK(y)'
      BY <1>1, <1>3, <2>1, <2>4 DEF HoldsOK
  <2> QED
      BY <1>4, <2>1, <2>5
<1>10. LibraryInv'
    BY <1>3, <1>4, <1>9, AloneStep DEF PhotoInv
<1> QED
    BY <1>5, <1>7, <1>8, <1>10 DEF PhotoInv

\* ... and puts back what it holds.
LEMMA WriteStep ==
    ASSUME PhotoInv, NEW r \in Runner, Write(r)
    PROVE  PhotoInv'
<1>1. /\ TurnOK(run[r]) /\ run[r] \in RunState /\ run[r].pc \in {"write", "rewrite"}
      /\ AllImaged(run[r].held) /\ run[r].held \in Seq(Photo)
    BY DEF PhotoInv, ImagesInv, TurnOK, RunState, Write
<1>2. PICK y \in RunState :
        /\ Alter(r, y) /\ TurnOK(y) /\ y.list = run[r].list /\ y.failed = run[r].failed
        /\ \/ /\ run[r].pc = "write" /\ y.pc \in {"idle", "match"} /\ y.n = run[r].n + 1
           \/ /\ run[r].pc = "rewrite" /\ y.pc = "insert" /\ y.n = run[r].n
              /\ y.photo = run[r].photo
  <2>1. CASE run[r].pc = "write"
    <3>1. NextPersona(r, FALSE) /\ run[r].failed \in BOOLEAN
        BY <1>1, <2>1 DEF Write, RunState
    <3>2. PICK y \in RunState :
            /\ Alter(r, y) /\ TurnOK(y) /\ y.pc \in {"idle", "match"}
            /\ y.list = run[r].list /\ y.n = run[r].n + 1 /\ y.failed = (run[r].failed \/ FALSE)
        BY <1>1, <2>1, <3>1, Moved
    <3>3. y.failed = run[r].failed
        BY <3>1, <3>2
    <3> QED
        BY <2>1, <3>2, <3>3
  <2>2. CASE run[r].pc = "rewrite"
    <3> DEFINE x == At(r, "insert")
    <3>1. x \in RunState /\ x.pc = "insert" /\ x.list = run[r].list /\ x.n = run[r].n
          /\ x.held = run[r].held /\ x.failed = run[r].failed /\ x.photo = run[r].photo
        BY <1>1, ZenonT(40) DEF At, RunState
    <3>2. TurnOK(x)
        BY <1>1, <2>2, <3>1 DEF TurnOK
    <3>3. Alter(r, x)
        BY <2>2 DEF Write
    <3> HIDE DEF x
    <3> QED
        BY <2>2, <3>1, <3>2, <3>3
  <2> QED
      BY <1>1, <2>1, <2>2
<1>4. metadata' = run[r].held /\ UNCHANGED <<rows, shelf, past, clientVars>>
    BY DEF Write
<1>5. ClientInv'
    BY <1>4 DEF PhotoInv, ClientInv, ClientTypeOK, AllOrderly, SavedIsOwn,
       clientVars
<1>7. PhotoTypeOK' /\ AnyRows' = AnyRows
    BY <1>1, <1>4 DEF PhotoInv, PhotoTypeOK, Libraries, shelf, AnyRows
<1>8. ImagesInv'
  <2>1. ASSUME NEW s \in Runner PROVE TurnOK(run[s])'
    <3>1. run'[s] = run[s] \/ run'[s] = y
        BY <1>2 DEF Alter
    <3> QED
        BY <1>2, <1>4, <3>1 DEF PhotoInv, ImagesInv, TurnOK, AllImaged,
           Imaged, clientVars
  <2> QED
      BY <1>1, <1>2, <1>4, <1>7, <2>1 DEF Alter, PhotoInv, ImagesInv,
         AllImaged, Imaged, clientVars
<1>9. ASSUME Undisturbed'
      PROVE  /\ \A s \in Runner \ {r} : run[s].pc = "idle"
             /\ metadata' \in Seq(Photo) /\ HoldsOK(y)' /\ Agrees(metadata)'
  <2>1. /\ \A s \in Runner \ {r} : run[s].pc = "idle"
        /\ HoldsOK(run[r]) /\ Agrees(run[r].held)
      BY <1>1, <1>4, <1>9, Alone DEF Undisturbed, past, HoldsOK
  <2>2. Has(run[r].held, Under(r)) /\ (run[r].pc = "rewrite" => InUse(run[r].held, run[r].photo, Under(r)))
      BY <1>1, <2>1 DEF HoldsOK, Has, InUse, Under
  <2>3. Serves(run[r].held, y)
      BY <1>1, <1>2, <2>1, <2>2 DEF Agrees, Serves, Under, TurnOK
  <2>4. Within(run[r].held, run[r].held)
      BY DEF Within, InUse
  <2>5. PICK held : held = run[r].held
      OBVIOUS
  <2>6. Agrees(held)'
      BY <1>2, <1>7, <2>1, <2>3, <2>4, <2>5, AgreesStill DEF PhotoInv,
         ImagesInv
  <2>7. Agrees(metadata)'
      BY <1>4, <2>5, <2>6
  <2>8. HoldsOK(y)'
      BY <1>2, <1>4, <2>2 DEF HoldsOK, Under
  <2> QED
      BY <1>1, <1>4, <2>1, <2>7, <2>8
<1>10. LibraryInv'
    BY <1>2, <1>9, AloneStep DEF PhotoInv
<1> QED
    BY <1>5, <1>7, <1>8, <1>10 DEF PhotoInv

\* A write that is cut off disturbs the library; one that is not begun leaves
\* the persona unserved, and the run knows.
LEMMA SaveFailsStep ==
    ASSUME PhotoInv, NEW r \in Runner, SaveFails(r)
    PROVE  PhotoInv'
<1>1. /\ TurnOK(run[r]) /\ run[r] \in RunState /\ run[r].pc \in {"marked", "added", "write", "rewrite"}
      /\ NextPersona(r, TRUE) /\ UNCHANGED <<rows, shelf, clientVars>>
    BY DEF PhotoInv, ImagesInv, SaveFails
<1>2. CASE run[r].pc \in {"marked", "added"}
  <2>1. UNCHANGED <<metadata, rows, shelf, past, clientVars>>
      BY <1>2 DEF SaveFails, past
  <2> QED
      BY <1>1, <1>2, <2>1, TurnEnds
<1>3. CASE run[r].pc \in {"write", "rewrite"}
  <2>1. damaged' = TRUE /\ metadata' \in {metadata, Torn}
      BY <1>3 DEF SaveFails
  <2>2. PICK y \in RunState : Alter(r, y) /\ TurnOK(y)
      BY <1>1, Moved
  <2>3. ClientInv'
      BY <1>1 DEF PhotoInv, ClientInv, ClientTypeOK, AllOrderly, SavedIsOwn, clientVars
  <2>4. PhotoTypeOK' /\ AnyRows' = AnyRows
      BY <1>1, <2>1 DEF PhotoInv, PhotoTypeOK, Libraries, shelf, AnyRows
  <2>5. ImagesInv'
    <3>1. ASSUME NEW s \in Runner PROVE TurnOK(run[s])'
      <4>1. run'[s] = run[s] \/ run'[s] = y
          BY <2>2 DEF Alter
      <4> QED
          BY <1>1, <2>2, <4>1 DEF PhotoInv, ImagesInv, TurnOK, AllImaged, Imaged, clientVars
    <3>2. Readable' => metadata' = metadata
        BY <2>1 DEF Readable
    <3> QED
        BY <1>1, <2>2, <2>4, <3>1, <3>2 DEF Alter, PhotoInv, ImagesInv, AllImaged, Imaged, Readable, clientVars
  <2>6. LibraryInv'
      BY <2>1 DEF LibraryInv, Undisturbed
  <2> QED
      BY <2>3, <2>4, <2>5, <2>6 DEF PhotoInv
<1> QED
    BY <1>1, <1>2, <1>3

\* The insert is refused or the row is one of a photo in use by the persona.
LEMMA InsertStep ==
    ASSUME PhotoInv, NEW r \in Runner, InsertProfileImage(r)
    PROVE  PhotoInv'
<1> DEFINE new == [id |-> run[r].photo, persona |-> Under(r)]
<1>1. /\ TurnOK(run[r]) /\ run[r] \in RunState /\ run[r].pc = "insert"
      /\ Imaged(run[r].photo) /\ Under(r) \in Persona
    BY ElementOfSeq DEF PhotoInv, ImagesInv, TurnOK, RunState,
       InsertProfileImage, Under
<1>2. PICK y \in RunState :
        /\ Alter(r, y) /\ TurnOK(y) /\ y.pc \in {"idle", "match"}
        /\ y.list = run[r].list /\ y.n = run[r].n + 1 /\ (~y.failed => ~run[r].failed)
    BY <1>1, Moved DEF InsertProfileImage
<1>3. UNCHANGED <<metadata, shelf, past, clientVars>> /\ rows' \in {rows, rows \cup {new}}
    BY DEF InsertProfileImage
<1>4. new \in Row /\ new.id = run[r].photo /\ new.persona = Under(r)
    BY <1>1 DEF Row, Imaged
<1> HIDE DEF new
<1>5. AnyRows' \subseteq AnyRows \cup {new}
    BY <1>3 DEF AnyRows, shelf
<1>6. ClientInv'
    BY <1>3 DEF PhotoInv, ClientInv, ClientTypeOK, AllOrderly, SavedIsOwn,
       clientVars
<1>7. PhotoTypeOK'
    BY <1>3, <1>4 DEF PhotoInv, PhotoTypeOK, shelf
<1>8. ImagesInv'
  <2>1. ASSUME NEW s \in Runner PROVE TurnOK(run[s])'
    <3>1. run'[s] = run[s] \/ run'[s] = y
        BY <1>2 DEF Alter
    <3> QED
        BY <1>2, <1>3, <3>1 DEF PhotoInv, ImagesInv, TurnOK, AllImaged,
           Imaged, clientVars
  <2>2. \A row \in AnyRows' : Imaged(row.id)'
      BY <1>1, <1>3, <1>4, <1>5 DEF PhotoInv, ImagesInv, Imaged, clientVars
  <2> QED
      BY <1>2, <1>3, <2>1, <2>2 DEF Alter, PhotoInv, ImagesInv, AllImaged,
         Imaged, Readable, clientVars
<1>9. ASSUME Undisturbed'
      PROVE  /\ \A s \in Runner \ {r} : run[s].pc = "idle"
             /\ metadata' \in Seq(Photo) /\ HoldsOK(y)' /\ Agrees(metadata)'
  <2>1. /\ \A s \in Runner \ {r} : run[s].pc = "idle"
        /\ metadata \in Seq(Photo) /\ HoldsOK(run[r]) /\ Agrees(metadata)
      BY <1>1, <1>3, <1>9, Alone DEF Undisturbed, past
  <2>2. InUse(metadata, new.id, new.persona) /\ Has(metadata, Under(r))
      BY <1>1, <1>4, <2>1 DEF HoldsOK, Has, InUse, Under
  <2>3. Serves(metadata, y)
      BY <1>1, <1>2, <2>1, <2>2 DEF Agrees, Serves, Under, TurnOK
  <2>4. Within(metadata, metadata)
      BY DEF Within, InUse
  <2>5. PICK held : held = metadata
      OBVIOUS
  <2>6. \A row \in AnyRows' : row \in AnyRows \/ InUse(held, row.id, row.persona)
      BY <1>5, <2>2, <2>5
  <2>7. Agrees(held)'
      BY <1>2, <2>1, <2>3, <2>4, <2>5, <2>6, AgreesStill DEF PhotoInv,
         ImagesInv
  <2>8. Agrees(metadata)'
      BY <1>3, <2>5, <2>7
  <2>9. HoldsOK(y)'
      BY <1>2 DEF HoldsOK
  <2> QED
      BY <1>3, <2>1, <2>8, <2>9
<1>10. LibraryInv'
    BY <1>2, <1>9, AloneStep DEF PhotoInv
<1> QED
    BY <1>6, <1>7, <1>8, <1>10 DEF PhotoInv

\* A run that dies leaves its call's file, if any, and nothing unfinished but
\* the metadata it was writing.
LEMMA CrashStep ==
    ASSUME PhotoInv, NEW r \in Runner, Crash(r)
    PROVE  PhotoInv'
<1>1. TurnOK(run[r]) /\ run[r].pc # "idle" /\ job \in [Job -> JobState]
    BY DEF PhotoInv, ImagesInv, Crash, ClientInv, ClientTypeOK
<1>2. /\ Alter(r, NoRun) /\ UNCHANGED <<rows, shelf, runs, together, files, clock>>
      /\ IF run[r].pc \in {"write", "rewrite"}
         THEN damaged' = TRUE /\ metadata' \in {metadata, Torn}
         ELSE UNCHANGED <<damaged, metadata>>
    BY DEF Crash
<1>3. ClientInv' /\ \A j \in Job : job[j].named => job'[j].named
  <2>1. CASE run[r].pc = "generate"
    <3>1. run[r].photo \in Job /\ job' = [job EXCEPT ![run[r].photo] = Done(run[r].photo, "error")]
        BY <1>1, <2>1 DEF Crash, TurnOK
    <3>2. Done(run[r].photo, "error").named = job[run[r].photo].named
        BY DEF Done
    <3> QED
        BY <1>1, <1>2, <3>1, <3>2, GivenUp DEF PhotoInv
  <2>2. CASE run[r].pc # "generate"
    <3>1. job' = job
        BY <1>1, <2>2 DEF Crash
    <3> QED
        BY <1>2, <3>1 DEF PhotoInv, ClientInv, ClientTypeOK, AllOrderly,
           SavedIsOwn
  <2> QED
      BY <2>1, <2>2
<1>4. NoRun \in RunState /\ NoRun.pc = "idle" /\ NoRun.list = <<>> /\ NoRun.held = <<>>
    BY DEF NoRun, RunState
<1>5. PhotoTypeOK' /\ AnyRows' = AnyRows
    BY <1>2 DEF PhotoInv, PhotoTypeOK, Libraries, shelf, AnyRows
<1>6. ImagesInv'
  <2>1. ASSUME NEW s \in Runner PROVE TurnOK(run[s])'
    <3>1. run'[s] = run[s] \/ run'[s] = NoRun
        BY <1>2 DEF Alter
    <3> QED
        BY <1>2, <1>3, <1>4, <3>1 DEF PhotoInv, ImagesInv, TurnOK, AllImaged,
           Imaged
  <2>2. Readable' => metadata' = metadata
      BY <1>2 DEF Readable
  <2> QED
      BY <1>2, <1>4, <1>5, <2>1, <2>2 DEF Alter, PhotoInv, ImagesInv,
         AllImaged, Imaged, Readable
<1>7. ASSUME Undisturbed'
      PROVE  /\ \A s \in Runner \ {r} : run[s].pc = "idle"
             /\ metadata' \in Seq(Photo) /\ HoldsOK(NoRun)' /\ Agrees(metadata)'
  <2>1. run[r].pc \notin {"write", "rewrite"} /\ Undisturbed /\ metadata' = metadata
      BY <1>2, <1>7 DEF Undisturbed
  <2>2. /\ \A s \in Runner \ {r} : run[s].pc = "idle"
        /\ metadata \in Seq(Photo) /\ Agrees(metadata)
      BY <1>1, <2>1, Alone
  <2>3. Serves(metadata, NoRun) /\ Within(metadata, metadata)
      BY <1>4 DEF Serves, Within, InUse
  <2>4. PICK held : held = metadata
      OBVIOUS
  <2>5. Agrees(held)'
      BY <1>2, <1>5, <2>2, <2>3, <2>4, AgreesStill DEF PhotoInv, ImagesInv
  <2>6. Agrees(metadata)'
      BY <2>1, <2>4, <2>5
  <2>7. HoldsOK(NoRun)'
      BY <1>4 DEF HoldsOK
  <2> QED
      BY <2>1, <2>2, <2>6, <2>7
<1>8. LibraryInv'
    BY <1>2, <1>4, <1>7, AloneStep DEF PhotoInv
<1> QED
    BY <1>3, <1>5, <1>6, <1>8 DEF PhotoInv

\* A run begins, by itself or beside another.
LEMMA StartStep ==
    ASSUME PhotoInv, NEW r \in Runner, Start(r)
    PROVE  PhotoInv'
<1>1. PICK list \in PersonaLists :
        Alter(r, [NoRun EXCEPT !.pc = "match", !.list = list, !.n = 1])
    BY DEF Start
<1>2. /\ list \in Seq(Persona) /\ list # <<>> /\ Len(list) \in Nat \ {0}
    BY PhotoConstants, EmptySeq
<1>3. PICK y : y = [NoRun EXCEPT !.pc = "match", !.list = list, !.n = 1]
    OBVIOUS
<1>4. /\ y \in RunState /\ y.pc = "match" /\ y.list = list /\ y.n = 1 /\ y.held = <<>>
  <2>1. NoRun \in RunState /\ NoRun.held = <<>>
      BY DEF NoRun, RunState
  <2>2. 1 \in Nat
      OBVIOUS
  <2> QED
      BY <1>2, <1>3, <2>1, <2>2, ZenonT(40) DEF RunState
<1>5. TurnOK(y) /\ Alter(r, y)
    BY <1>1, <1>2, <1>3, <1>4 DEF TurnOK, AllImaged
<1>6. UNCHANGED <<metadata, rows, shelf, damaged, clientVars>>
      /\ together' = (together \/ \E s \in Runner \ {r} : run[s].pc # "idle")
      /\ run[r].pc = "idle"
    BY DEF Start
<1>7. ClientInv'
    BY <1>6 DEF PhotoInv, ClientInv, ClientTypeOK, AllOrderly, SavedIsOwn,
       clientVars
<1>8. PhotoTypeOK' /\ ImagesInv'
  <2>1. TurnOK(y)'
      BY <1>5, <1>6 DEF TurnOK, AllImaged, Imaged, clientVars
  <2> QED
      BY <1>5, <1>6, <2>1, TurnImages DEF PhotoInv, clientVars
<1>9. ASSUME Undisturbed'
      PROVE  /\ \A s \in Runner \ {r} : run[s].pc = "idle"
             /\ metadata' \in Seq(Photo) /\ HoldsOK(y)' /\ Agrees(metadata)'
  <2>1. Undisturbed /\ \A s \in Runner \ {r} : run[s].pc = "idle"
      BY <1>6, <1>9 DEF Undisturbed
  <2>2. metadata \in Seq(Photo) /\ Agrees(metadata)
      BY <1>6, <2>1 DEF PhotoInv, LibraryInv, Settled
  <2>3. Serves(metadata, y) /\ Within(metadata, metadata)
      BY <1>4 DEF Serves, Within, InUse
  <2>4. AnyRows' = AnyRows /\ metadata' = metadata
      BY <1>6 DEF AnyRows, shelf
  <2>5. PICK held : held = metadata
      OBVIOUS
  <2>6. Agrees(held)'
      BY <1>5, <2>2, <2>3, <2>4, <2>5, AgreesStill DEF PhotoInv, ImagesInv
  <2>7. Agrees(metadata)'
      BY <2>4, <2>5, <2>6
  <2>8. HoldsOK(y)'
      BY <1>4 DEF HoldsOK
  <2> QED
      BY <2>1, <2>2, <2>4, <2>7, <2>8
<1>10. LibraryInv'
    BY <1>4, <1>5, <1>9, AloneStep DEF PhotoInv
<1> QED
    BY <1>7, <1>8, <1>10 DEF PhotoInv

\* A backup and a recovery move rows about, and make none up.
LEMMA ShelfStep ==
    ASSUME PhotoInv,
           \/ SyncMetadataToJSON \/ Rename \/ DeleteAllProfileImages
           \/ InsertProfileImagesBatch \/ RecoveryDies
    PROVE  PhotoInv'
<1>1. /\ rows \in SUBSET Row /\ staged \in Tables /\ backup \in Tables /\ emptied \in Tables
    BY DEF PhotoInv, PhotoTypeOK
<1>2. UNCHANGED <<run, metadata, together, damaged, clientVars>>
    BY DEF SyncMetadataToJSON, Rename, DeleteAllProfileImages,
       InsertProfileImagesBatch, RecoveryDies, past
<1>3. PhotoTypeOK'
    BY <1>1, <1>2 DEF PhotoInv, PhotoTypeOK, Tables, SyncMetadataToJSON,
       Rename, DeleteAllProfileImages, InsertProfileImagesBatch, RecoveryDies
<1>4. AnyRows' \subseteq AnyRows
    BY <1>1 DEF AnyRows, SyncMetadataToJSON, Rename, DeleteAllProfileImages,
       InsertProfileImagesBatch, RecoveryDies
<1>5. ClientInv'
    BY <1>2 DEF PhotoInv, ClientInv, ClientTypeOK, AllOrderly, SavedIsOwn,
       clientVars
<1>6. ImagesInv'
    BY <1>2, <1>4 DEF PhotoInv, ImagesInv, TurnOK, AllImaged, Imaged,
       Readable, clientVars
<1>7. \A photos : Agrees(photos) => Agrees(photos)'
    BY <1>2, <1>4 DEF Agrees
<1>8. Agrees(metadata) => Agrees(metadata)'
  <2>1. PICK held : held = metadata
      OBVIOUS
  <2> QED
      BY <1>2, <1>7, <2>1
<1>9. ASSUME NEW r \in Runner, HoldsOK(run[r]) PROVE HoldsOK(run[r])'
  <2>1. PICK held : held = run[r].held
      OBVIOUS
  <2>2. Agrees(run[r].held) => Agrees(run[r].held)'
      BY <1>2, <1>7, <2>1
  <2> QED
      BY <1>2, <1>9, <2>2 DEF HoldsOK
<1>10. LibraryInv'
    BY <1>2, <1>8, <1>9 DEF PhotoInv, LibraryInv, Undisturbed, Settled
<1> QED
    BY <1>3, <1>5, <1>6, <1>10 DEF PhotoInv

\* Before the first run there is nothing to disagree.
LEMMA PhotoInitial ==
    ASSUME ClientInit, PhotoInit
    PROVE  PhotoInv
<1>1. NoRun \in RunState /\ NoRun.pc = "idle" /\ NoRun.list = <<>> /\ NoRun.held = <<>>
    BY DEF NoRun, RunState
<1>2. run \in [Runner -> RunState] /\ \A r \in Runner : TurnOK(run[r]) /\ HoldsOK(run[r])
    BY <1>1 DEF PhotoInit, TurnOK, HoldsOK, AllImaged
<1>3. PhotoTypeOK /\ AnyRows = {} /\ metadata = <<>> /\ metadata \in Seq(Photo)
    BY DEF PhotoInit, PhotoTypeOK, Libraries, Tables, AnyRows
<1>4. Agrees(metadata)
    BY <1>1, <1>3 DEF PhotoInit, Agrees, Serves
<1>5. ImagesInv
    BY <1>2, <1>3 DEF ImagesInv, AllImaged
<1>6. LibraryInv
    BY <1>1, <1>2, <1>3, <1>4 DEF PhotoInit, LibraryInv
<1>7. ClientInv
    BY ClientInitial
<1> QED
    BY <1>3, <1>5, <1>6, <1>7 DEF PhotoInv

\* Every step of a run, of its calls, of a backup and of a recovery keeps
\* photos, rows, backups and calls in step with each other.
LEMMA PhotoStep ==
    ASSUME PhotoInv, PhotoNext \/ UNCHANGED <<clientVars, photoVars>>
    PROVE  PhotoInv'
<1>1. CASE PhotoNext
    BY <1>1, ServedStep, StartStep, MatchStep, GenerateStep, MarkStep,
       GeneratedStep, AddStep, TruncateStep, WriteStep, SaveFailsStep, InsertStep, CrashStep,
       ShelfStep DEF PhotoNext
<1>2. CASE UNCHANGED <<clientVars, photoVars>>
  <2>1. AnyRows' = AnyRows
      BY <1>2 DEF photoVars, AnyRows
  <2>2. ClientInv'
      BY <1>2 DEF PhotoInv, ClientInv, ClientTypeOK, AllOrderly, SavedIsOwn,
         clientVars
  <2>3. PhotoTypeOK' /\ ImagesInv'
      BY <1>2, <2>1 DEF PhotoInv, PhotoTypeOK, ImagesInv, TurnOK, AllImaged,
         Imaged, Readable, clientVars, photoVars
  <2>4. LibraryInv'
      BY <1>2, <2>1 DEF PhotoInv, LibraryInv, Undisturbed, Settled, HoldsOK,
         Agrees, photoVars
  <2> QED
      BY <2>2, <2>3, <2>4 DEF PhotoInv
<1> QED
    BY <1>1, <1>2

\* Runs, backups and recoveries never name a photo that is not on disk.
THEOREM PhotoInvariance == PhotoSpec => []PhotoInv
<1>1. ClientInit /\ PhotoInit => PhotoInv
    BY PhotoInitial
<1>2. PhotoInv /\ [PhotoNext]_<<clientVars, photoVars>> => PhotoInv'
    BY PhotoStep
<1> QED
    BY <1>1, <1>2, PTL DEF PhotoSpec

\* However many runs of the command, backups and recoveries there are, and
\* wherever they die or fail: a row's image is on disk.  And as long as no two
\* runs overlap and no write of the library is cut off, by a crash or by an
\* error that is only logged, its photo is in the library and in use by its
\* persona, and a run that met no error left none of its personas without.
THEOREM PhotosAreKept == PhotoSpec => []PhotosKept
<1>1. PhotoInv => RowsHaveImages
    BY DEF PhotoInv, ImagesInv, AnyRows, Imaged, RowsHaveImages
<1>2. PhotoInv => RowsInLibrary
    BY DEF PhotoInv, LibraryInv, Agrees, AnyRows, InUse, RowsInLibrary
<1>3. PhotoInv => RunsServeTheirPersonas
  <2> SUFFICES ASSUME PhotoInv, Undisturbed, Settled, NEW r \in Runner,
                      run[r].pc = "idle", ~run[r].failed, NEW p \in Range(run[r].list)
               PROVE  \E i \in DOMAIN metadata : p \in metadata[i].inUseBy
      BY DEF RunsServeTheirPersonas
  <2>1. Agrees(metadata) /\ TurnOK(run[r]) /\ run[r].list \in Seq(Persona) /\ run[r].n \in Nat
      BY DEF PhotoInv, LibraryInv, ImagesInv, RunState
  <2>2. PICK m \in 1 .. Len(run[r].list) : p = run[r].list[m]
      BY <2>1, LenProperties DEF Range
  <2>3. m < run[r].n
      BY <2>1, <2>2 DEF TurnOK
  <2> QED
      BY <2>1, <2>2, <2>3 DEF Agrees, Serves, Has
<1> QED
    BY <1>1, <1>2, <1>3, PhotoInvariance, PTL DEF PhotosKept

-----------------------------------------------------------------------------
(* The response cache.                                                     *)

CacheSpec == CacheInit /\ [][CacheNext]_cacheVars

\* What is true of the state x of a call of Generate between its steps.
Fair(x) ==
    /\ x.reply # NoReply => Similarity(x.reply.to, x.prompt) >= Threshold
    /\ x.pc = "store" => x.reply = [to |-> x.prompt, by |-> x.model]
    /\ x.known => Stored(x.prompt)
    /\ x.pc \in {"chat", "store"} /\ x.known => x.blind

\* Every row answers the prompt it is kept under.
CacheInv ==
    /\ call \in [Caller -> CallState] /\ cache \in Seq(Entry)
    /\ \A i \in DOMAIN cache : cache[i].response.to = cache[i].key
    /\ \A c \in Caller : Fair(call[c])

\* A prompt that is in the cache has a nearest row: cosines are bounded.
LEMMA KnownIsNear ==
    ASSUME CacheInv, NEW p \in Prompt, Stored(p)
    PROVE  Nearest(p) # {}
<1> DEFINE sim(i) == Similarity(p, cache[i].key)
           T == {100 - sim(i) : i \in DOMAIN cache}
<1>1. \A i \in DOMAIN cache : cache[i].key \in Prompt /\ sim(i) \in -100 .. 100
  <2>1. \A i \in DOMAIN cache : cache[i] \in Entry
      BY LenProperties, ElementOfSeq DEF CacheInv
  <2> QED
      BY <2>1, SimilarityOfPrompts DEF Entry
<1>2. T \in SUBSET Nat /\ T # {}
    BY <1>1 DEF Stored
<1>3. PICK m \in T : \A y \in T : m <= y
    BY <1>2, Least
<1> DEFINE best == {i \in DOMAIN cache : 100 - sim(i) = m}
<1>4. best \in SUBSET Nat /\ best # {}
    BY <1>3 DEF CacheInv
<1>5. PICK i \in best : \A k \in best : i <= k
    BY <1>4, Least
<1>6. \A k \in DOMAIN cache : m <= 100 - sim(k)
    BY <1>3
<1>7. \A k \in DOMAIN cache : sim(k) < sim(i) \/ (sim(k) = sim(i) /\ i <= k)
  <2> SUFFICES ASSUME NEW k \in DOMAIN cache PROVE sim(k) < sim(i) \/ (sim(k) = sim(i) /\ i <= k)
      OBVIOUS
  <2>1. sim(k) \in Int /\ sim(i) \in Int /\ 100 - sim(i) = m /\ m <= 100 - sim(k)
      BY <1>1, <1>5, <1>6
  <2>2. sim(k) = sim(i) => k \in best
      BY <2>1
  <2>3. k \in best => i <= k
      BY <1>5
  <2> HIDE DEF best, sim
  <2> QED
      BY <2>1, <2>2, <2>3
<1>8. PICK k \in DOMAIN cache : cache[k].key = p
    BY DEF Stored
<1>9. sim(i) >= Threshold
    BY <1>1, <1>7, <1>8, SimilarityOfPrompts DEF Threshold
<1> QED
    BY <1>5, <1>7, <1>9 DEF Nearest

\* A call that goes on with the cache as it is keeps the invariant when its
\* own state does.
LEMMA CallGoesOn ==
    ASSUME CacheInv, NEW c \in Caller, NEW x \in CallState, Fair(x), Becomes(c, x),
           UNCHANGED cache
    PROVE  CacheInv'
    BY DEF CacheInv, Becomes, Fair, Stored

\* What is left of a sequence when its i-th element is taken away.
LEMMA Removed ==
    ASSUME NEW S, NEW s \in Seq(S), NEW i \in 1 .. Len(s)
    PROVE  /\ RemoveAt(s, i) \in Seq(S)
           /\ Len(RemoveAt(s, i)) = Len(s) - 1
           /\ \A k \in 1 .. Len(s) - 1 :
                RemoveAt(s, i)[k] = IF k < i THEN s[k] ELSE s[k + 1]
<1> DEFINE l == SubSeq(s, 1, i - 1)
           r == SubSeq(s, i + 1, Len(s))
<1>1. Len(s) \in Nat /\ i \in Int /\ \A k \in 1 .. Len(s) : s[k] \in S
    BY LenProperties, ElementOfSeq
<1>2. l \in Seq(S) /\ Len(l) = i - 1 /\ \A k \in 1 .. i - 1 : l[k] = s[k]
    BY <1>1, SubSeqProperties
<1>3. r \in Seq(S) /\ Len(r) = Len(s) - i /\ \A k \in 1 .. Len(s) - i : r[k] = s[i + k]
  <2>1. \A k \in i + 1 .. Len(s) : s[k] \in S
      BY <1>1
  <2>2. /\ r \in Seq(S) /\ Len(r) = IF i + 1 <= Len(s) THEN Len(s) - (i + 1) + 1 ELSE 0
        /\ \A k \in 1 .. Len(s) - (i + 1) + 1 : r[k] = s[i + 1 + k - 1]
      BY <1>1, <2>1, SubSeqProperties
  <2> QED
      BY <1>1, <2>2
<1> HIDE DEF l, r
<1>4. /\ l \o r \in Seq(S) /\ Len(l \o r) = Len(l) + Len(r)
      /\ \A k \in 1 .. Len(l) + Len(r) :
            (l \o r)[k] = IF k <= Len(l) THEN l[k] ELSE r[k - Len(l)]
    BY <1>2, <1>3, ConcatProperties
<1>5. RemoveAt(s, i) = l \o r
    BY DEF RemoveAt, l, r
<1>6. ASSUME NEW k \in 1 .. Len(s) - 1
      PROVE  (l \o r)[k] = IF k < i THEN s[k] ELSE s[k + 1]
  <2>1. CASE k < i
      BY <1>1, <1>2, <1>3, <1>4, <1>6, <2>1
  <2>2. CASE k >= i
    <3>1. k - (i - 1) \in 1 .. Len(s) - i /\ i + (k - (i - 1)) = k + 1
        BY <1>1, <1>6, <2>2
    <3>2. r[k - (i - 1)] = s[k + 1]
        BY <1>3, <3>1
    <3> QED
        BY <1>1, <1>2, <1>3, <1>4, <1>6, <2>2, <3>2
  <2>3. k < i \/ k >= i
      BY <1>1, <1>6
  <2> QED
      BY <2>1, <2>2, <2>3
<1>7. Len(l \o r) = Len(s) - 1
    BY <1>1, <1>2, <1>3, <1>4
<1> QED
    BY <1>4, <1>5, <1>6, <1>7

\* Storing a response keeps the rows' own, and forgets no prompt.
LEMMA ReplacedKeeps ==
    ASSUME CacheInv, NEW r \in Reply
    PROVE  /\ Replaced(r.to, r) \in Seq(Entry)
           /\ \A i \in DOMAIN Replaced(r.to, r) :
                Replaced(r.to, r)[i].response.to = Replaced(r.to, r)[i].key
           /\ \A p \in Prompt : Stored(p) =>
                \E i \in DOMAIN Replaced(r.to, r) : Replaced(r.to, r)[i].key = p
<1> DEFINE new == [key |-> r.to, response |-> r]
           old == CHOOSE i \in DOMAIN cache : cache[i].key = r.to
           rest == IF Stored(r.to) THEN RemoveAt(cache, old) ELSE cache
<1>1. new \in Entry /\ new.response.to = new.key /\ new.key = r.to
    BY DEF Entry, Reply
<1>2. cache \in Seq(Entry) /\ \A i \in DOMAIN cache : cache[i].response.to = cache[i].key
    BY DEF CacheInv
<1>3. /\ rest \in Seq(Entry)
      /\ \A i \in DOMAIN rest : rest[i].response.to = rest[i].key
      /\ \A i \in DOMAIN cache :
            cache[i].key = r.to \/ \E k \in DOMAIN rest : rest[k] = cache[i]
  <2>1. CASE ~Stored(r.to)
      BY <1>2, <2>1
  <2>2. CASE Stored(r.to)
    <3> HIDE DEF old
    <3>1. old \in DOMAIN cache /\ cache[old].key = r.to
        BY <2>2 DEF Stored, old
    <3>2. old \in 1 .. Len(cache) /\ rest = RemoveAt(cache, old)
        BY <1>2, <2>2, <3>1, LenProperties
    <3>3. /\ rest \in Seq(Entry) /\ Len(rest) = Len(cache) - 1 /\ Len(cache) \in Nat
          /\ DOMAIN rest = 1 .. Len(rest) /\ DOMAIN cache = 1 .. Len(cache)
          /\ \A k \in 1 .. Len(cache) - 1 : rest[k] = IF k < old THEN cache[k] ELSE cache[k + 1]
        BY <1>2, <3>2, Removed, LenProperties
    <3> HIDE DEF rest
    <3>4. ASSUME NEW i \in DOMAIN cache, i # old
          PROVE  \E k \in DOMAIN rest : rest[k] = cache[i]
      <4>1. CASE i < old
          BY <3>2, <3>3, <4>1
      <4>2. CASE i > old
        <5>1. i - 1 \in DOMAIN rest /\ rest[i - 1] = cache[i]
            BY <3>2, <3>3, <4>2
        <5> QED
            BY <5>1
      <4> QED
          BY <3>2, <3>3, <3>4, <4>1, <4>2
    <3>5. \A i \in DOMAIN rest : \E k \in DOMAIN cache : rest[i] = cache[k]
      <4>1. ASSUME NEW i \in DOMAIN rest
            PROVE  i \in DOMAIN cache /\ i + 1 \in DOMAIN cache
          BY <3>3, <4>1
      <4> QED
          BY <3>3, <4>1
    <3> QED
        BY <1>2, <3>1, <3>3, <3>4, <3>5, SMTT(20)
  <2> QED
      BY <2>1, <2>2
<1> HIDE DEF rest, new
<1>4. Replaced(r.to, r) = Append(rest, new)
    BY DEF Replaced, rest, new
<1>5. /\ Append(rest, new) \in Seq(Entry)
      /\ DOMAIN Append(rest, new) = 1 .. Len(rest) + 1 /\ DOMAIN rest = 1 .. Len(rest)
      /\ Len(rest) \in Nat
      /\ \A i \in 1 .. Len(rest) : Append(rest, new)[i] = rest[i]
      /\ Append(rest, new)[Len(rest) + 1] = new
    BY <1>1, <1>3, AppendProperties, LenProperties
<1>6. \A i \in DOMAIN Append(rest, new) :
        Append(rest, new)[i].response.to = Append(rest, new)[i].key
    BY <1>1, <1>3, <1>5
<1>7. ASSUME NEW p \in Prompt, Stored(p)
      PROVE  \E i \in DOMAIN Append(rest, new) : Append(rest, new)[i].key = p
  <2>1. PICK i \in DOMAIN cache : cache[i].key = p
      BY <1>7 DEF Stored
  <2>2. CASE p = r.to
      BY <1>1, <1>5, <2>2
  <2>3. CASE p # r.to
    <3>1. PICK k \in DOMAIN rest : rest[k] = cache[i]
        BY <1>3, <2>1, <2>3
    <3> QED
        BY <1>5, <2>1, <3>1
  <2> QED
      BY <2>2, <2>3
<1> QED
    BY <1>4, <1>5, <1>6, <1>7

\* Every step of a call keeps the rows' responses their own.
LEMMA CacheStep ==
    ASSUME CacheInv, CacheNext \/ UNCHANGED cacheVars
    PROVE  CacheInv'
<1>1. \A c \in Caller : call[c] \in CallState /\ Fair(call[c])
    BY DEF CacheInv
<1>2. ASSUME NEW c \in Caller, Generate(c) PROVE CacheInv'
  <2>1. PICK p \in Prompt, m \in LanguageModel :
            Becomes(c, [pc |-> "embed", prompt |-> p, model |-> m, reply |-> NoReply,
                        known |-> Stored(p), blind |-> FALSE])
      BY <1>2 DEF Generate
  <2> DEFINE x == [pc |-> "embed", prompt |-> p, model |-> m, reply |-> NoReply,
                   known |-> Stored(p), blind |-> FALSE]
  <2>2. Stored(p) \in BOOLEAN
      BY DEF Stored
  <2>3. x \in CallState /\ Fair(x)
      BY <2>2 DEF CallState, Fair
  <2> QED
      BY <1>2, <2>1, <2>3, CallGoesOn DEF Generate
<1>3. ASSUME NEW c \in Caller, Embed(c) PROVE CacheInv'
    BY <1>1, <1>3, CallGoesOn DEF Embed, Step, Returns, CallState, Fair
<1>4. ASSUME NEW c \in Caller, FindSimilar(c) PROVE CacheInv'
  <2>1. CASE Becomes(c, [call[c] EXCEPT !.pc = "chat", !.blind = TRUE])
      BY <1>1, <1>4, <2>1, CallGoesOn DEF FindSimilar, CallState, Fair
  <2>2. CASE Nearest(call[c].prompt) = {} /\ Step(c, "lookup", "chat")
    <3>1. ~call[c].known
        BY <1>1, <2>2, KnownIsNear DEF CallState, Fair
    <3> QED
        BY <1>1, <1>4, <2>2, <3>1, CallGoesOn DEF FindSimilar, Step,
           CallState, Fair
  <2>3. ASSUME NEW i \in Nearest(call[c].prompt), Returns(c, cache[i].response)
        PROVE  CacheInv'
    <3> DEFINE x == [call[c] EXCEPT !.pc = "done", !.reply = cache[i].response]
    <3>1. i \in DOMAIN cache /\ cache[i] \in Entry /\ cache[i].response.to = cache[i].key
        BY <2>3 DEF Nearest, CacheInv
    <3>2. Similarity(cache[i].response.to, call[c].prompt) >= Threshold
        BY <1>1, <2>3, <3>1, SimilarityOfPrompts DEF Nearest, CallState, Entry
    <3>3. x \in CallState /\ Fair(x)
        BY <1>1, <3>1, <3>2 DEF CallState, Fair, Entry
    <3> QED
        BY <1>4, <2>3, <3>3, CallGoesOn DEF FindSimilar, Returns
  <2> QED
      BY <1>4, <2>1, <2>2, <2>3 DEF FindSimilar
<1>5. ASSUME NEW c \in Caller, Chat(c) PROVE CacheInv'
  <2> DEFINE y == [to |-> call[c].prompt, by |-> call[c].model]
  <2>1. y \in Reply /\ Similarity(y.to, call[c].prompt) >= Threshold
      BY <1>1, SimilarityOfPrompts DEF CallState, Reply, Threshold
  <2> QED
      BY <1>1, <1>5, <2>1, CallGoesOn DEF Chat, Returns, CallState, Fair
<1>6. ASSUME NEW c \in Caller, Set(c) PROVE CacheInv'
  <2> DEFINE r == call[c].reply
             x == [call[c] EXCEPT !.pc = "done", !.reply = r]
  <2>1. r = [to |-> call[c].prompt, by |-> call[c].model] /\ r \in Reply
      BY <1>1, <1>6 DEF Set, Fair, CallState, Reply
  <2>2. x \in CallState /\ Fair(x)
      BY <1>1 DEF CallState, Fair
  <2>3. CASE cache' = cache
      BY <1>6, <2>2, <2>3, CallGoesOn DEF Set, Returns
  <2>4. CASE cache' = Replaced(r.to, r)
    <3>1. /\ cache' \in Seq(Entry) /\ \A i \in DOMAIN cache' : cache'[i].response.to = cache'[i].key
          /\ \A p \in Prompt : Stored(p) => Stored(p)'
        BY <2>1, <2>4, ReplacedKeeps DEF Stored
    <3>2. call' = [call EXCEPT ![c] = x]
        BY <1>6 DEF Set, Returns, Becomes
    <3>3. ASSUME NEW d \in Caller PROVE call'[d] \in CallState /\ Fair(call'[d])
        BY <1>1, <2>2, <3>2
    <3>4. ASSUME NEW d \in Caller PROVE Fair(call[d])'
        BY <3>1, <3>3 DEF Fair, CallState
    <3> QED
        BY <3>1, <3>2, <3>3, <3>4 DEF CacheInv
  <2> QED
      BY <1>6, <2>1, <2>3, <2>4 DEF Set
<1>7. CASE UNCHANGED cacheVars
    BY <1>7 DEF cacheVars, CacheInv, Fair, Stored
<1> QED
    BY <1>2, <1>3, <1>4, <1>5, <1>6, <1>7 DEF CacheNext

\* An empty cache serves nobody.
LEMMA CacheInitial == CacheInit => CacheInv
    BY DEF CacheInit, CacheInv, CallState, Fair

\* Whatever prompts are asked and however calls overlap, a response is the
\* model's to a prompt near enough to the one asked, and the model is not
\* asked for a prompt that was in the cache unless the lookup failed.
THEOREM CacheServes == CacheSpec => []HitsServe
<1>1. CacheInit => CacheInv
    BY CacheInitial
<1>2. CacheInv /\ [CacheNext]_cacheVars => CacheInv'
    BY CacheStep
<1>3. CacheInv => HitsServe
    BY DEF CacheInv, HitsServe, AnswersFit, KnownPromptsNotAsked, Fair
<1> QED
    BY <1>1, <1>2, <1>3, PTL DEF CacheSpec

-----------------------------------------------------------------------------
(* The machines beside each other.                                         *)

\* Two of the machines stand still while the third one runs.
ClientsInv ==
    /\ ClientInv /\ CacheInv
    /\ IF machine = "photos" THEN PhotoInv ELSE PhotoInit

\* Every variable of the three machines keeps its type.
THEOREM ClientsTyped == MCSpec => []TypeOK
<1>1. MCInit => ClientsInv
    BY ClientInitial, PhotoInitial, CacheInitial DEF MCInit, ClientsInv
<1>2. ClientsInv /\ [MCNext]_mcVars => ClientsInv'
  <2> SUFFICES ASSUME ClientsInv, [MCNext]_mcVars PROVE ClientsInv'
      OBVIOUS
  <2>1. UNCHANGED photoVars /\ machine' = machine /\ machine # "photos" =>
            (PhotoInit => PhotoInit')
      BY DEF photoVars, PhotoInit
  <2>2. UNCHANGED cacheVars => CacheInv'
      BY CacheStep DEF ClientsInv
  <2>3. CASE machine = "client" /\ machine' = machine /\ ClientNext /\ UNCHANGED <<photoVars, cacheVars>>
      BY <2>1, <2>2, <2>3, ClientStep DEF ClientsInv
  <2>4. CASE machine = "photos" /\ machine' = machine /\ PhotoNext /\ UNCHANGED cacheVars
      BY <2>2, <2>4, PhotoStep DEF ClientsInv, PhotoInv
  <2>5. CASE machine = "cache" /\ machine' = machine /\ CacheNext /\ UNCHANGED <<clientVars, photoVars>>
      BY <2>1, <2>5, ClientStep, CacheStep DEF ClientsInv
  <2>6. CASE UNCHANGED mcVars
      BY <2>1, <2>2, <2>6, ClientStep, PhotoStep DEF ClientsInv, mcVars
  <2> QED
      BY <2>3, <2>4, <2>5, <2>6 DEF MCNext
<1>3. ClientsInv => TypeOK
  <2>1. PhotoInit => PhotoTypeOK
      BY DEF PhotoInit, PhotoTypeOK, Libraries, Tables
  <2>2. CacheInv => CacheTypeOK
    <3> SUFFICES ASSUME CacheInv PROVE \A i \in DOMAIN cache : cache[i] \in Entry
        BY DEF CacheInv, CacheTypeOK, Range
    <3> QED
        BY LenProperties, ElementOfSeq DEF CacheInv
  <2> QED
      BY <2>1, <2>2 DEF ClientsInv, ClientInv, PhotoInv, TypeOK
<1> QED
    BY <1>1, <1>2, <1>3, PTL DEF MCSpec
=============================================================================
