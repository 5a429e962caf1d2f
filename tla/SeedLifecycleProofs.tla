------------------------ MODULE SeedLifecycleProofs ------------------------
(***************************************************************************)
(* The store holds the seed when the loads have ended, for any records,    *)
(* types, seeds and scenarios and any number of resets at once.  A load    *)
(* that was at work when another reset cleared the store can promise       *)
(* nothing of what it had stored before; the invariant says that at every  *)
(* moment one load at work will still store all that is missing, and after *)
(* a reset whose Clear failed also all that is not yet overwritten.        *)
(***************************************************************************)
EXTENDS SeedLifecycle, TLAPS

\* The seed records a loader has still to store.
Pending(p) == {i \in Seed : objectType[i] > file[p] \/ i \in rest[p]}
Missing == Seed \ (Present \cup deleted)

\* The seed records that are not there as the seed has them.
Stale == {i \in Seed : i \notin Present \/ store[i] # "seed"}

\* What is missing is all still to be stored by one of the loaders at work.
\* A stopped server has everything or nothing.
OnItsWay ==
    ~failed /\ ~interrupted =>
        \/ Missing = {}
        \/ mode = "down" /\ store = <<>>
        \/ \E p \in loading : ~Overlay(p) /\ Missing \subseteq Pending(p)

\* Loaders of the seed store records of the seed.
SeedOnly == \A p \in loading : ~Overlay(p) => rest[p] \subseteq Seed

\* Since a reset last began nobody wrote but such loaders, and one of them will
\* still store all that is not as the seed has it.
Overwrites ==
    clean => /\ mode = "serving"
             /\ ~failed => \/ Stale = {}
                           \/ \E p \in loading : Stale \subseteq Pending(p)

\* Since Clear last emptied the store it has nothing but records of the seed.
SeedAlone == cleared => clean /\ Present \subseteq Seed

\* A process that has stopped loads nothing.
Stopped == mode = "down" => loading = {}

IInv == TypeOK /\ Stopped /\ OnItsWay /\ SeedOnly /\ Overwrites /\ SeedAlone

-----------------------------------------------------------------------------
\* A loader that has come to its end has nothing left to store.
LEMMA NothingPending ==
    ASSUME NEW p \in Loader, Loaded(p)
    PROVE  Pending(p) = {}
    BY ConstantsAssumption DEF Loaded, Pending

\* A loader that has opened no file has all of the seed before it.
LEMMA AllPending ==
    ASSUME NEW p \in Loader, file'[p] = 0
    PROVE  Pending(p)' = Seed
    BY ConstantsAssumption DEF Pending

\* The store that a stopped process leaves behind in memory.
LEMMA EmptyStore == DOMAIN <<>> = {}
    OBVIOUS

\* The type invariant holds after every step.
LEMMA TypeStep ==
    ASSUME TypeOK, Next \/ UNCHANGED vars
    PROVE  TypeOK'
<1> USE ConstantsAssumption
<1>1. ASSUME NEW p \in Loader, OpenFile(p) PROVE TypeOK'
    BY <1>1 DEF TypeOK, OpenFile, historyVars, Present, Source
<1>2. ASSUME NEW p \in Loader, LoadRecord(p) PROVE TypeOK'
    BY <1>2 DEF TypeOK, LoadRecord, Writer, Present, Put
<1>3. ASSUME Boot PROVE TypeOK'
    BY <1>3 DEF TypeOK, Boot, historyVars, Loader, Present, StartLoading
<1>4. ASSUME Seeded PROVE TypeOK'
    BY <1>4 DEF TypeOK, Seeded, historyVars, Present, StartLoading
<1>5. ASSUME SeedingFails PROVE TypeOK'
    BY <1>5 DEF TypeOK, SeedingFails, Present, StartLoading
<1>6. ASSUME Serve PROVE TypeOK'
    BY <1>6 DEF TypeOK, Serve, historyVars, Present, StopLoading
<1>7. ASSUME ScenarioFails PROVE TypeOK'
    BY <1>7 DEF TypeOK, ScenarioFails, historyVars, Present, StopLoading
<1>8. ASSUME Stop PROVE TypeOK'
    BY <1>8 DEF TypeOK, Stop, Present
<1>9. ASSUME StopEmpty PROVE TypeOK'
    BY <1>9, EmptyStore DEF TypeOK, StopEmpty, Present
<1>10. ASSUME NEW r \in Request, Clear(r) PROVE TypeOK'
  <2>1. /\ Present' = {} /\ mode' = "serving" /\ loading' = loading \cup {r}
        /\ file' = [file EXCEPT ![r] = 0] /\ rest' = [rest EXCEPT ![r] = {}]
        /\ deleted' = {}
      BY <1>10, EmptyStore DEF Clear, StartLoading, Present
  <2>2. {clean, cleared, failed, interrupted}' \subseteq BOOLEAN
      BY <1>10 DEF Clear
  <2>3. r # Main /\ r \in Loader /\ mode = "serving"
      BY <1>10 DEF Loader, Clear
  <2> QED
      BY <2>1, <2>2, <2>3 DEF TypeOK
<1>11. ASSUME NEW r \in Request, ResetComplete(r) PROVE TypeOK'
    BY <1>11 DEF TypeOK, ResetComplete, historyVars, Present, StopLoading
<1>12. ASSUME NEW r \in Request, ResetFails(r) PROVE TypeOK'
    BY <1>12 DEF TypeOK, ResetFails, Present, StopLoading
<1>13. ASSUME NEW i \in Id, HandleCreate(i) PROVE TypeOK'
    BY <1>13 DEF TypeOK, HandleCreate, loadVars, Writer, Present, Put
<1>14. ASSUME NEW i \in Id, HandleUpdate(i) PROVE TypeOK'
    BY <1>14 DEF TypeOK, HandleUpdate, loadVars, Writer, Present, Put
<1>15. ASSUME NEW i \in Id, HandleDelete(i) PROVE TypeOK'
    BY <1>15 DEF TypeOK, HandleDelete, loadVars, Present
<1>16. CASE UNCHANGED vars
    BY <1>16 DEF TypeOK, vars, Present
<1>17. ASSUME BootUncounted PROVE TypeOK'
    BY <1>17 DEF TypeOK, BootUncounted, historyVars, Loader, Present,
       StartLoading
<1>18. ASSUME NEW r \in Request, ClearFails(r) PROVE TypeOK'
  <2>1. /\ UNCHANGED <<store, mode, deleted>> /\ loading' = loading \cup {r}
        /\ file' = [file EXCEPT ![r] = 0] /\ rest' = [rest EXCEPT ![r] = {}]
        /\ {clean, cleared, failed, interrupted}' \subseteq BOOLEAN
      BY <1>18 DEF TypeOK, ClearFails, StartLoading
  <2>2. r # Main /\ r \in Loader /\ mode = "serving"
      BY <1>18 DEF Loader, ClearFails
  <2> QED
      BY <2>1, <2>2 DEF TypeOK, Present
<1> QED
    BY <1>1, <1>2, <1>3, <1>4, <1>5, <1>6, <1>7, <1>8, <1>9, <1>10, <1>11,
       <1>12, <1>13, <1>14, <1>15, <1>16, <1>17, <1>18 DEF Next

\* After every step, what is missing is still to be stored by a load at work.
LEMMA OnItsWayStep ==
    ASSUME TypeOK, Stopped, OnItsWay, Next \/ UNCHANGED vars
    PROVE  OnItsWay'
<1> USE ConstantsAssumption
<1>1. ASSUME NEW p \in Loader, OpenFile(p) PROVE OnItsWay'
    BY <1>1 DEF TypeOK, OnItsWay, Missing, Pending, OpenFile, historyVars,
       Present, Overlay, Source
<1>2. ASSUME NEW p \in Loader, LoadRecord(p) PROVE OnItsWay'
  <2>1. PICK i \in rest[p] : /\ DOMAIN store' = Present \cup {i} /\ deleted' = deleted \ {i}
                              /\ rest' = [rest EXCEPT ![p] = rest[p] \ {i}]
      BY <1>2 DEF LoadRecord, Put
  <2>2. Missing' = Missing \ {i}
      BY <2>1 DEF Missing, Present
  <2>3. \A q \in loading : Pending(q) \ {i} \subseteq Pending(q)'
      BY <1>2, <2>1 DEF Pending, LoadRecord
  <2>4. UNCHANGED <<mode, loading, failed, interrupted>>
      BY <1>2 DEF LoadRecord
  <2>5. mode # "down"
      BY <1>2 DEF LoadRecord, Stopped
  <2> QED
      BY <2>2, <2>3, <2>4, <2>5 DEF OnItsWay, Overlay
<1>3. ASSUME Boot PROVE OnItsWay'
  <2>1. \A q \in loading : q # Main /\ Pending(q)' = Pending(q)
      BY <1>3 DEF Boot, StartLoading, TypeOK, Pending
  <2>2. CASE Count(1) = {}
    <3>1. Main \in loading' /\ ~Overlay(Main)' /\ file'[Main] = 0
        BY <1>3, <2>2 DEF Boot, StartLoading, Overlay, TypeOK, Loader
    <3> QED
        BY <3>1, AllPending DEF OnItsWay, Missing, Loader
  <2>3. CASE Count(1) # {}
    <3>1. store # <<>>
        BY <2>3, EmptyStore DEF Count, Present
    <3>2. UNCHANGED <<failed, interrupted, Missing>> /\ loading \subseteq loading'
        BY <1>3 DEF Boot, StartLoading, historyVars, Missing, Present
    <3> QED
        BY <2>1, <3>1, <3>2 DEF OnItsWay, Overlay
  <2> QED
      BY <2>2, <2>3
<1>4. ASSUME Seeded PROVE OnItsWay'
  <2>1. \A q \in loading \ {Main} : q \in loading' /\ Pending(q)' = Pending(q)
      BY <1>4 DEF Seeded, StartLoading, Pending
  <2>2. Pending(Main) = {}
      BY <1>4, NothingPending DEF Seeded, Loader
  <2>3. UNCHANGED <<failed, interrupted, Missing>> /\ mode = "seeding"
      BY <1>4 DEF Seeded, historyVars, Missing, Present
  <2> QED
      BY <2>1, <2>2, <2>3 DEF OnItsWay, Overlay
<1>5. ASSUME SeedingFails PROVE OnItsWay'
    BY <1>5 DEF OnItsWay, SeedingFails
<1>6. ASSUME Serve PROVE OnItsWay'
    BY <1>6 DEF OnItsWay, Missing, Pending, Serve, historyVars, Present,
       Overlay, StopLoading
<1>7. ASSUME ScenarioFails PROVE OnItsWay'
    BY <1>7 DEF OnItsWay, Missing, Pending, ScenarioFails, historyVars,
       Present, Overlay, StopLoading
<1>8. ASSUME Stop PROVE OnItsWay'
    BY <1>8 DEF OnItsWay, Missing, Stop, Present
<1>9. ASSUME StopEmpty PROVE OnItsWay'
    BY <1>9 DEF OnItsWay, StopEmpty
<1>10. ASSUME NEW r \in Request, Clear(r) PROVE OnItsWay'
    BY <1>10 DEF TypeOK, OnItsWay, Missing, Pending, Clear, Loader, Overlay,
       StartLoading
<1>11. ASSUME NEW r \in Request, ResetComplete(r) PROVE OnItsWay'
  <2>1. \A q \in loading \ {r} : q \in loading' /\ Pending(q)' = Pending(q)
      BY <1>11 DEF ResetComplete, StopLoading, Pending
  <2>2. Pending(r) = {}
      BY <1>11, NothingPending DEF ResetComplete, Loader
  <2>3. UNCHANGED <<failed, interrupted, mode, store, Missing>>
      BY <1>11 DEF ResetComplete, historyVars, Missing, Present
  <2> QED
      BY <2>1, <2>2, <2>3 DEF OnItsWay, Overlay
<1>12. ASSUME NEW r \in Request, ResetFails(r) PROVE OnItsWay'
    BY <1>12 DEF OnItsWay, ResetFails
<1>13. ASSUME NEW i \in Id, HandleCreate(i) PROVE OnItsWay'
    BY <1>13 DEF OnItsWay, Missing, Pending, HandleCreate, loadVars, Present,
       Put, Overlay
<1>14. ASSUME NEW i \in Id, HandleUpdate(i) PROVE OnItsWay'
    BY <1>14 DEF OnItsWay, Missing, Pending, HandleUpdate, loadVars, Present,
       Put, Overlay
<1>15. ASSUME NEW i \in Id, HandleDelete(i) PROVE OnItsWay'
    BY <1>15 DEF OnItsWay, Missing, Pending, HandleDelete, loadVars, Present,
       Overlay
<1>16. CASE UNCHANGED vars
    BY <1>16 DEF OnItsWay, Missing, Pending, vars, Present, Overlay
<1>17. ASSUME BootUncounted PROVE OnItsWay'
  <2>1. Main \in loading' /\ ~Overlay(Main)' /\ file'[Main] = 0
      BY <1>17 DEF BootUncounted, StartLoading, Overlay, TypeOK, Loader
  <2> QED
      BY <2>1, AllPending DEF OnItsWay, Missing, Loader
<1>18. ASSUME NEW r \in Request, ClearFails(r) PROVE OnItsWay'
  <2>1. r \in loading' /\ ~Overlay(r)' /\ file'[r] = 0
      BY <1>18 DEF ClearFails, StartLoading, Overlay, TypeOK, Loader
  <2> QED
      BY <2>1, AllPending DEF OnItsWay, Missing, Loader
<1> QED
    BY <1>1, <1>2, <1>3, <1>4, <1>5, <1>6, <1>7, <1>8, <1>9, <1>10, <1>11,
       <1>12, <1>13, <1>14, <1>15, <1>16, <1>17, <1>18 DEF Next

\* A process that does not run has no load at work.
LEMMA StoppedStep ==
    ASSUME TypeOK, Stopped, Next \/ UNCHANGED vars
    PROVE  Stopped'
    BY DEF Stopped, vars, Next, OpenFile, LoadRecord, Boot, Seeded,
       SeedingFails, Serve, ScenarioFails, Stop, StopEmpty, Clear, ResetComplete,
       BootUncounted, ClearFails, ResetFails, HandleCreate, HandleUpdate, HandleDelete, StopLoading

\* Loaders of the seed open files of the seed.
LEMMA SeedOnlyStep ==
    ASSUME TypeOK, SeedOnly, Next \/ UNCHANGED vars
    PROVE  SeedOnly'
<1> USE ConstantsAssumption
<1>1. ASSUME NEW p \in Loader, OpenFile(p) PROVE SeedOnly'
    BY <1>1 DEF SeedOnly, OpenFile, historyVars, Overlay, Source
<1>2. ASSUME NEW p \in Loader, LoadRecord(p) PROVE SeedOnly'
    BY <1>2 DEF SeedOnly, LoadRecord, Overlay
<1>3. ASSUME Boot \/ BootUncounted \/ Seeded \/ SeedingFails PROVE SeedOnly'
    BY <1>3 DEF TypeOK, SeedOnly, Boot, BootUncounted, Seeded, SeedingFails,
       Loader, Overlay, StartLoading
<1>4. ASSUME Serve \/ ScenarioFails PROVE SeedOnly'
    BY <1>4 DEF SeedOnly, Serve, ScenarioFails, Overlay, StopLoading
<1>5. ASSUME Stop \/ StopEmpty PROVE SeedOnly'
    BY <1>5 DEF SeedOnly, Stop, StopEmpty
<1>6. ASSUME NEW r \in Request, Clear(r) \/ ClearFails(r) PROVE SeedOnly'
    BY <1>6 DEF TypeOK, SeedOnly, Clear, ClearFails, Loader, Overlay,
       StartLoading
<1>7. ASSUME NEW r \in Request, ResetComplete(r) \/ ResetFails(r) PROVE SeedOnly'
    BY <1>7 DEF SeedOnly, ResetComplete, ResetFails, Overlay, StopLoading
<1>8. ASSUME NEW i \in Id, HandleCreate(i) \/ HandleUpdate(i) \/ HandleDelete(i)
      PROVE  SeedOnly'
    BY <1>8 DEF SeedOnly, HandleCreate, HandleUpdate, HandleDelete, loadVars,
       Overlay
<1>9. CASE UNCHANGED vars
    BY <1>9 DEF SeedOnly, vars, Overlay
<1> QED
    BY <1>1, <1>2, <1>3, <1>4, <1>5, <1>6, <1>7, <1>8, <1>9 DEF Next

\* What the last reset has not yet overwritten is still before a load at work,
\* also when another reset empties the store under it.
LEMMA OverwritesStep ==
    ASSUME TypeOK, Overwrites, Next \/ UNCHANGED vars
    PROVE  Overwrites'
<1> USE ConstantsAssumption
<1>1. ASSUME NEW p \in Loader, OpenFile(p) PROVE Overwrites'
  <2>1. CASE mode = "serving"
    <3>1. \A q \in loading : Pending(q) \subseteq Pending(q)'
        BY <1>1, <2>1 DEF TypeOK, OpenFile, Pending, Overlay, Source
    <3> QED
        BY <1>1, <3>1 DEF Overwrites, Stale, OpenFile, historyVars, Present
  <2>2. CASE mode # "serving"
      BY <1>1, <2>2 DEF Overwrites, OpenFile, historyVars
  <2> QED
      BY <2>1, <2>2
<1>2. ASSUME NEW p \in Loader, LoadRecord(p) PROVE Overwrites'
  <2>1. CASE ~clean'
      BY <2>1 DEF Overwrites
  <2>2. CASE clean'
    <3>1. clean /\ mode = "serving" /\ mode' = "serving" /\ failed' = failed
        BY <1>2, <2>2 DEF LoadRecord, Overwrites
    <3>2. PICK i \in rest[p] :
             /\ DOMAIN store' = Present \cup {i} /\ store'[i] = "seed"
             /\ \A j \in Present \ {i} : store'[j] = store[j]
             /\ rest' = [rest EXCEPT ![p] = rest[p] \ {i}]
        BY <1>2, <3>1 DEF LoadRecord, Put, Overlay
    <3>3. Stale' = Stale \ {i}
        BY <3>2 DEF Stale, Present
    <3>4. \A q \in loading : Pending(q) \ {i} \subseteq Pending(q)'
        BY <1>2, <3>2 DEF Pending, LoadRecord
    <3> QED
        BY <1>2, <3>1, <3>3, <3>4 DEF Overwrites, LoadRecord
  <2> QED
      BY <2>1, <2>2
<1>3. ASSUME Boot \/ BootUncounted \/ Seeded \/ SeedingFails \/ Serve \/ ScenarioFails
      PROVE  Overwrites'
    BY <1>3 DEF Overwrites, Boot, BootUncounted, Seeded, SeedingFails, Serve,
       ScenarioFails, historyVars
<1>4. ASSUME Stop \/ StopEmpty PROVE Overwrites'
    BY <1>4 DEF Overwrites, Stop, StopEmpty
<1>5. ASSUME NEW r \in Request, Clear(r) \/ ClearFails(r) PROVE Overwrites'
  <2>1. r \in Loader /\ r \in loading' /\ file'[r] = 0 /\ mode' = "serving"
      BY <1>5 DEF TypeOK, Clear, ClearFails, StartLoading, Loader
  <2>2. Pending(r)' = Seed
      BY <2>1, AllPending
  <2> QED
      BY <2>1, <2>2 DEF Overwrites, Stale
<1>6. ASSUME NEW r \in Request, ResetComplete(r) PROVE Overwrites'
  <2>1. \A q \in loading \ {r} : q \in loading' /\ Pending(q)' = Pending(q)
      BY <1>6 DEF ResetComplete, StopLoading, Pending
  <2>2. Pending(r) = {}
      BY <1>6, NothingPending DEF ResetComplete, Loader
  <2>3. UNCHANGED <<clean, failed, mode, Stale>>
      BY <1>6 DEF ResetComplete, historyVars, Stale, Present
  <2> QED
      BY <2>1, <2>2, <2>3 DEF Overwrites
<1>7. ASSUME NEW r \in Request, ResetFails(r) PROVE Overwrites'
    BY <1>7 DEF Overwrites, ResetFails
<1>8. ASSUME NEW i \in Id, HandleCreate(i) \/ HandleUpdate(i) \/ HandleDelete(i)
      PROVE  Overwrites'
    BY <1>8 DEF Overwrites, HandleCreate, HandleUpdate, HandleDelete
<1>9. CASE UNCHANGED vars
    BY <1>9 DEF Overwrites, Stale, Pending, vars, Present
<1> QED
    BY <1>1, <1>2, <1>3, <1>4, <1>5, <1>6, <1>7, <1>8, <1>9 DEF Next

\* A store that Clear emptied and only resets touched since has nothing but
\* what the loads have put there.
LEMMA SeedAloneStep ==
    ASSUME TypeOK, SeedOnly, Overwrites, SeedAlone, Next \/ UNCHANGED vars
    PROVE  SeedAlone'
<1> USE ConstantsAssumption
<1>1. ASSUME NEW p \in Loader, OpenFile(p) PROVE SeedAlone'
    BY <1>1 DEF SeedAlone, OpenFile, historyVars, Present
<1>2. ASSUME NEW p \in Loader, LoadRecord(p) PROVE SeedAlone'
    BY <1>2 DEF SeedOnly, Overwrites, SeedAlone, LoadRecord, Present, Put,
       Overlay
<1>3. ASSUME Boot \/ BootUncounted \/ Seeded \/ SeedingFails \/ Serve \/ ScenarioFails
      PROVE  SeedAlone'
    BY <1>3 DEF SeedAlone, Boot, BootUncounted, Seeded, SeedingFails, Serve,
       ScenarioFails, historyVars, Present
<1>4. ASSUME Stop \/ StopEmpty PROVE SeedAlone'
    BY <1>4 DEF SeedAlone, Stop, StopEmpty
<1>5. ASSUME NEW r \in Request, Clear(r) PROVE SeedAlone'
    BY <1>5, EmptyStore DEF SeedAlone, Clear, Present
<1>6. ASSUME NEW r \in Request, ClearFails(r) \/ ResetComplete(r) \/ ResetFails(r)
      PROVE  SeedAlone'
    BY <1>6 DEF SeedAlone, ClearFails, ResetComplete, ResetFails, historyVars,
       Present
<1>7. ASSUME NEW i \in Id, HandleCreate(i) \/ HandleUpdate(i) \/ HandleDelete(i)
      PROVE  SeedAlone'
    BY <1>7 DEF SeedAlone, HandleCreate, HandleUpdate, HandleDelete
<1>8. CASE UNCHANGED vars
    BY <1>8 DEF SeedAlone, vars, Present
<1> QED
    BY <1>1, <1>2, <1>3, <1>4, <1>5, <1>6, <1>7, <1>8 DEF Next

\* The invariant holds in every state of boots, loads, resets and requests.
THEOREM Invariance == Spec => []IInv
<1>1. Init => IInv
  <2> SUFFICES ASSUME Init PROVE IInv
      OBVIOUS
  <2>1. Present = {}
      BY EmptyStore DEF Init, Present
  <2>2. TypeOK
    <3>1. {clean, cleared, failed, interrupted} \subseteq BOOLEAN
        BY DEF Init
    <3>2. file \in [Loader -> 0..NTypes] /\ rest \in [Loader -> SUBSET Id]
        BY ConstantsAssumption DEF Init
    <3> QED
        BY <2>1, <3>1, <3>2 DEF Init, TypeOK
  <2> QED
      BY <2>2 DEF Init, IInv, Stopped, OnItsWay, SeedOnly, Overwrites, SeedAlone
<1>2. IInv /\ [Next]_vars => IInv'
    BY TypeStep, StoppedStep, OnItsWayStep, SeedOnlyStep, OverwritesStep,
       SeedAloneStep DEF IInv
<1> QED
    BY <1>1, <1>2, PTL DEF Spec

\* The type invariant of the record store, the loaders and the process.
THEOREM TypeCorrect == Spec => []TypeOK
<1>1. IInv => TypeOK
    BY DEF IInv
<1> QED
    BY Invariance, <1>1, PTL

\* When all loads have ended and none failed or was cut short, no seed record
\* is missing but those requests deleted, however many resets overlapped.
THEOREM SeedIsServed == Spec => []SeedServed
<1>1. IInv => SeedServed
    BY DEF IInv, OnItsWay, Missing, SeedServed, Settled
<1> QED
    BY Invariance, <1>1, PTL

\* Resets that overlapped with nothing but each other leave every seed record as
\* the seed has it, whether or not their Clear took effect, and nothing else if
\* nobody but them wrote since one that did.
THEOREM ResetsRestore == Spec => []ResetRestores
<1>1. IInv => ResetRestores
    BY DEF IInv, Overwrites, Stale, SeedAlone, ResetRestores, Settled
<1> QED
    BY Invariance, <1>1, PTL
=============================================================================
