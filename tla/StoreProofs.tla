---------------------------- MODULE StoreProofs ----------------------------
(***************************************************************************)
(* The two record stores and the discovery of the schema.                  *)
(*                                                                         *)
(* The secondary indexes of the memory store miss no record, for any       *)
(* types, ids, fields and strings.  The four properties are inductive      *)
(* together: completeness of the entries that a deletion leaves needs the  *)
(* entries to be keyed by the id they are removed for, and an overwritten  *)
(* or patched record is indexed anew by every call that stores it.         *)
(*                                                                         *)
(* What a client lists stays described, and every key that the code        *)
(* follows is described as one, for any types and calls.  What the store   *)
(* holds matters through one fact, that a record's type was noted when it  *)
(* was created; the rest is a comparison of the tables, type by type.      *)
(*                                                                         *)
(* Both stores keep the promise of RecordStore.  An index entry that       *)
(* outlives its value is something its record held, since a deletion takes *)
(* all entries of an id with it.  An Update of the SQLite store writes the *)
(* record it read before, which the mutex has kept as it was (Fresh).      *)
(* A server has one of the two, the other never gets a call: what is       *)
(* proved of each alone holds of the server.                               *)
(***************************************************************************)
EXTENDS Stores, TLAPS

\* The properties of MemoryStore, all at once.
IInv == TypeOK /\ IndexComplete /\ EntriesExact /\ IdMatchesKey

-----------------------------------------------------------------------------
(* What a call leaves behind. *)

\* A record with a patch merged into it is a record of the same Id.
LEMMA MergedRecord ==
    ASSUME NEW record \in Record, NEW patch \in Patches
    PROVE  Merged(record, patch) \in Record /\ Merged(record, patch).Id = record.Id
<1>1. \A f \in DOMAIN patch : patch[f] \in Value \cup {Absent}
    BY DEF Patches
<1> QED
    BY <1>1 DEF Merged, Record, Fields

\* Storing a record under its own Id and indexing it keeps the invariant:
\* this is all that Create and Update do.
LEMMA StoreStep ==
    ASSUME IInv, NEW t \in Type, NEW i \in Id, NEW record \in Record,
           record.Id = i, Put(t, i, record), updateIndexes(t, i, record)
    PROVE  IInv'
<1> USE ConstantsAssumption
<1>1. DOMAIN data = Type /\ indexes \in [Type -> [Field -> [Value -> [Id -> Nat]]]]
    BY DEF IInv, TypeOK
<1>2. /\ DOMAIN data' = Type
      /\ data'[t] = [j \in Records(t) \cup {i} |->
                       IF j = i THEN record ELSE data[t][j]]
      /\ \A u \in Type \ {t} : data'[u] = data[u]
    BY <1>1 DEF Put
<1>3. \A u \in Type, f \in Field, v \in Value, j \in Id :
        indexes'[u][f][v][j] =
            IF /\ u = t /\ j = i /\ f \in indexedFields[t]
               /\ record.fields[f] = v /\ indexes[t][f][v][j] = 0
            THEN 1 ELSE indexes[u][f][v][j]
    BY <1>1 DEF updateIndexes
<1>4. indexes' \in [Type -> [Field -> [Value -> [Id -> Nat]]]]
    BY <1>1 DEF updateIndexes
<1>5. \A u \in Type : Records(u)' = IF u = t THEN Records(t) \cup {i} ELSE Records(u)
    BY <1>2 DEF Records
<1>6. \A u \in Type : \A j \in Records(u)' :
        data'[u][j] = IF u = t /\ j = i THEN record ELSE data[u][j]
    BY <1>2, <1>5
<1>7. TypeOK'
    BY <1>2, <1>4, <1>5, <1>6 DEF IInv, TypeOK
<1>8. IdMatchesKey'
    BY <1>5, <1>6 DEF IInv, IdMatchesKey
<1>9. EntriesExact'
  <2> SUFFICES ASSUME NEW u \in Type, NEW f \in Field, NEW v \in Value,
                      NEW j \in Id
               PROVE  /\ indexes'[u][f][v][j] <= 1
                      /\ indexes'[u][f][v][j] > 0 => j \in Records(u)'
      BY DEF EntriesExact
  <2>1. /\ indexes[u][f][v][j] \in Nat /\ indexes[u][f][v][j] <= 1
        /\ indexes[u][f][v][j] > 0 => j \in Records(u)
      BY <1>1 DEF IInv, EntriesExact
  <2>2. i \in Records(t)' /\ Records(u) \subseteq Records(u)'
      BY <1>5
  <2> QED
      BY <1>3, <2>1, <2>2
<1>10. IndexComplete'
  <2> SUFFICES ASSUME NEW u \in Type, NEW f \in Field, NEW v \in Value,
                      f \in indexedFields[u],
                      NEW j \in Records(u)', data'[u][j].fields[f] = v
               PROVE  indexes'[u][f][v][j] > 0
      BY DEF IndexComplete, GetByIndex
  <2>1. j \in Id
      BY <1>7 DEF TypeOK
  <2>2. indexes[u][f][v][j] \in Nat
      BY <1>1, <2>1
  <2>3. CASE u = t /\ j = i
      BY <1>3, <1>6, <2>1, <2>2, <2>3
  <2>4. CASE ~(u = t /\ j = i)
    <3>1. j \in Records(u) /\ data[u][j].fields[f] = v
        BY <1>5, <1>6, <2>4
    <3>2. indexes[u][f][v][j] > 0
        BY <3>1 DEF IInv, IndexComplete, GetByIndex
    <3> QED
        BY <1>3, <2>1, <2>4, <3>2
  <2> QED
      BY <2>3, <2>4
<1> QED
    BY <1>7, <1>8, <1>9, <1>10 DEF IInv

\* Deleting a record with its entries keeps the invariant.
LEMMA DeleteStep ==
    ASSUME IInv, NEW t \in Type, NEW i \in Id, Delete(t, i)
    PROVE  IInv'
<1> USE ConstantsAssumption
<1>1. DOMAIN data = Type /\ indexes \in [Type -> [Field -> [Value -> [Id -> Nat]]]]
    BY DEF IInv, TypeOK
<1>2. /\ DOMAIN data' = Type
      /\ data'[t] = [j \in Records(t) \ {i} |-> data[t][j]]
      /\ \A u \in Type \ {t} : data'[u] = data[u]
    BY <1>1 DEF Delete
<1>3. \A u \in Type, f \in Field, v \in Value, j \in Id :
        indexes'[u][f][v][j] =
            IF u = t /\ j = i THEN 0 ELSE indexes[u][f][v][j]
    BY <1>1 DEF Delete, removeFromIndexes
<1>4. indexes' \in [Type -> [Field -> [Value -> [Id -> Nat]]]]
    BY <1>1 DEF Delete, removeFromIndexes
<1>5. \A u \in Type : Records(u)' = IF u = t THEN Records(t) \ {i} ELSE Records(u)
    BY <1>2 DEF Records
<1>6. \A u \in Type : \A j \in Records(u)' : j \in Records(u) /\ data'[u][j] = data[u][j]
    BY <1>2, <1>5
<1>7. TypeOK'
    BY <1>2, <1>4, <1>5, <1>6 DEF IInv, TypeOK
<1>8. IdMatchesKey'
    BY <1>6 DEF IInv, IdMatchesKey
<1>9. EntriesExact'
    BY <1>1, <1>3, <1>5 DEF IInv, EntriesExact
<1>10. IndexComplete'
  <2> SUFFICES ASSUME NEW u \in Type, NEW f \in Field, NEW v \in Value,
                      f \in indexedFields[u],
                      NEW j \in Records(u)', data'[u][j].fields[f] = v
               PROVE  indexes'[u][f][v][j] > 0
      BY DEF IndexComplete, GetByIndex
  <2>1. j \in Id /\ ~(u = t /\ j = i)
      BY <1>5, <1>7 DEF TypeOK
  <2>2. indexes[u][f][v][j] > 0
      BY <1>6 DEF IInv, IndexComplete, GetByIndex
  <2> QED
      BY <1>3, <2>1, <2>2
<1> QED
    BY <1>7, <1>8, <1>9, <1>10 DEF IInv

-----------------------------------------------------------------------------
(* The theorems about the store. *)

\* The invariant holds in every reachable state.
THEOREM Inductive == Spec => []IInv
<1>1. ASSUME data = Empty, indexes = NoEntries
      PROVE  IInv
    BY <1>1, ConstantsAssumption
    DEF IInv, TypeOK, IndexComplete, EntriesExact, IdMatchesKey, Records,
        GetByIndex, Empty, NoEntries
<1>2. Init => IInv
    BY <1>1 DEF Init
<1>3. ASSUME IInv, [Next]_vars
      PROVE  IInv'
  <2>1. ASSUME NEW t \in Type, NEW i \in Id, NEW fields \in Fields,
               Create(t, i, fields)
        PROVE  IInv'
    <3> DEFINE record == [Id |-> i, fields |-> fields]
    <3>1. record \in Record /\ record.Id = i
        BY DEF Record
    <3> QED
        BY <1>3, <2>1, <3>1, StoreStep DEF Create
  <2>2. ASSUME NEW t \in Type, NEW i \in Id, NEW patch \in Patches,
               Update(t, i, patch)
        PROVE  IInv'
    <3>1. data[t][i] \in Record /\ data[t][i].Id = i
        BY <1>3, <2>2 DEF Update, IInv, TypeOK, IdMatchesKey
    <3>2. Merged(data[t][i], patch) \in Record /\ Merged(data[t][i], patch).Id = i
        BY <3>1, MergedRecord
    <3> QED
        BY <1>3, <2>2, <3>2, StoreStep DEF Update
  <2>3. ASSUME NEW t \in Type, NEW i \in Id, Delete(t, i)
        PROVE  IInv'
      BY <1>3, <2>3, DeleteStep
  <2>4. CASE Clear
    <3>1. DOMAIN data' = Type /\ \A t \in Type : data'[t] = <<>>
        BY <2>4 DEF Clear, Empty
    <3>2. \A t \in Type : Records(t)' = {}
        BY <3>1 DEF Records
    <3>3. /\ indexes' \in [Type -> [Field -> [Value -> [Id -> Nat]]]]
          /\ \A t \in Type, f \in Field, v \in Value, i \in Id :
                indexes'[t][f][v][i] = 0
        BY <2>4 DEF Clear, NoEntries
    <3> QED
        BY <3>1, <3>2, <3>3
        DEF IInv, TypeOK, IndexComplete, EntriesExact, IdMatchesKey, GetByIndex
  <2>5. CASE UNCHANGED vars
      BY <1>3, <2>5
      DEF vars, IInv, TypeOK, IndexComplete, EntriesExact, IdMatchesKey,
          Records, GetByIndex
  <2> QED
      BY <1>3, <2>1, <2>2, <2>3, <2>4, <2>5 DEF Next
<1> QED
    BY <1>2, <1>3, PTL DEF Spec

\* Every reachable store is well typed.
THEOREM TypeCorrect == Spec => []TypeOK
<1>1. IInv => TypeOK
    BY DEF IInv
<1> QED
    BY <1>1, Inductive, PTL

\* A lookup by an indexed field returns every record that has the value.
THEOREM LookupsMissNothing == Spec => []IndexComplete
<1>1. IInv => IndexComplete
    BY DEF IInv
<1> QED
    BY <1>1, Inductive, PTL

\* No entry is duplicated and none outlives its record.
THEOREM EntriesFollowRecords == Spec => []EntriesExact
<1>1. IInv => EntriesExact
    BY DEF IInv
<1> QED
    BY <1>1, Inductive, PTL

-----------------------------------------------------------------------------
(* The tables of the describe and of the registry. *)

\* The types of the describe table.
Described ==
    {"Case", "EmailMessage", "CaseComment", "FeedItem", "FeedComment", "Task", "Event",
     "ContentDocument", "ContentVersion", "Account", "Contact", "User"}

\* The types that only the registry has.
Virtual == {"EntityDefinition", "FieldDefinition"}

\* The two tables are written with the same words.
LEMMA SameWords ==
    /\ Table!Optional = Registry!Optional /\ Table!Free = Registry!Free
    /\ Table!LongText = Registry!LongText /\ Table!Once = Registry!Once
    /\ Table!OnceOptional = Registry!OnceOptional /\ Table!Renamed = Registry!Renamed
    /\ Table!FixedOptional = Registry!FixedOptional /\ Table!Fixed = Registry!Fixed
    /\ \A names, type, access :
        Table!Plain(names, type, access) = Registry!Plain(names, type, access)
    /\ \A names, targets, access :
        Table!References(names, targets, access) = Registry!References(names, targets, access)
<1>1. /\ Table!Optional = Registry!Optional /\ Table!Free = Registry!Free
      /\ Table!LongText = Registry!LongText /\ Table!Once = Registry!Once
      /\ Table!OnceOptional = Registry!OnceOptional /\ Table!Renamed = Registry!Renamed
      /\ Table!FixedOptional = Registry!FixedOptional /\ Table!Fixed = Registry!Fixed
    BY DEF Table!Optional, Registry!Optional, Table!Free, Registry!Free,
           Table!LongText, Registry!LongText, Table!Once, Registry!Once,
           Table!OnceOptional, Registry!OnceOptional, Table!Renamed, Registry!Renamed,
           Table!FixedOptional, Registry!FixedOptional, Table!Fixed, Registry!Fixed
<1> QED
    BY <1>1, Zenon DEF Table!Plain, Registry!Plain, Table!References, Registry!References

\* They describe the same fields under the same prefix.
LEMMA SameFields ==
    /\ DOMAIN Table!objectMeta = Described
    /\ DOMAIN Registry!registry = Described \cup Virtual
    /\ \A t \in Described :
        /\ Table!objectMeta[t] = Registry!registry[t]
        /\ Table!objectMeta[t].keyPrefix = getIDPrefix(t)
        /\ Table!objectMeta[t].keyPrefix # "" /\ t \in DOMAIN Table!objectMeta
    /\ \A t \in Virtual : Registry!registry[t].keyPrefix = "000" /\ getIDPrefix(t) = "000"
<1>1. DOMAIN Table!objectMeta = Described
    BY DEF Table!objectMeta, Described
<1>2. DOMAIN Registry!registry = Described \cup Virtual
    BY DEF Registry!registry, Described, Virtual
<1>3. \A t \in Described : /\ Table!objectMeta[t].keyPrefix = getIDPrefix(t)
                           /\ Table!objectMeta[t].keyPrefix # ""
                           /\ Table!objectMeta[t].keyPrefix = Registry!registry[t].keyPrefix
  <2>1. \A f, p : Table!Named(f, p).keyPrefix = p /\ Registry!Named(f, p).keyPrefix = p
    BY DEF Table!Named, Registry!Named
  <2>2. ASSUME NEW t \in Described PROVE Table!objectMeta[t].keyPrefix = getIDPrefix(t)
    BY <2>1 DEF Described, Table!objectMeta, getIDPrefix
  <2>3. ASSUME NEW t \in Described
        PROVE  Table!objectMeta[t].keyPrefix = Registry!registry[t].keyPrefix
    BY <2>1 DEF Described, Table!objectMeta, Registry!registry
  <2>4. ASSUME NEW t \in Described PROVE Table!objectMeta[t].keyPrefix # ""
    <3>1. getIDPrefix(t) \in {"001", "003", "500", "005", "00a", "02s", "0D5", "0D7", "00T", "00U",
                             "069", "068"}
      BY DEF Described, getIDPrefix
    <3> QED
      BY <2>2, <3>1
  <2> QED
    BY <2>2, <2>3, <2>4
<1>4. \A t \in Virtual : Registry!registry[t].keyPrefix = "000" /\ getIDPrefix(t) = "000"
    BY DEF Virtual, Registry!registry, getIDPrefix, Registry!Named
<1>5. Table!commonFields = Registry!commonFields
    BY SameWords, Zenon DEF Table!commonFields, Registry!commonFields
<1>6. /\ Table!Case = Registry!caseMeta /\ Table!EmailMessage = Registry!emailMessageMeta
      /\ Table!CaseComment = Registry!caseCommentMeta /\ Table!FeedItem = Registry!feedItemMeta
      /\ Table!FeedComment = Registry!feedCommentMeta /\ Table!Task = Registry!taskMeta
    BY SameWords, Zenon
    DEF Table!Case, Registry!caseMeta, Table!EmailMessage, Registry!emailMessageMeta,
        Table!CaseComment, Registry!caseCommentMeta, Table!FeedItem, Registry!feedItemMeta,
        Table!FeedComment, Registry!feedCommentMeta, Table!Task, Registry!taskMeta
<1>7. /\ Table!Event = Registry!eventMeta
      /\ Table!ContentDocument = Registry!contentDocumentMeta
      /\ Table!ContentVersion = Registry!contentVersionMeta
      /\ Table!Account = Registry!accountMeta /\ Table!Contact = Registry!contactMeta
      /\ Table!User = Registry!userMeta
    BY SameWords, Zenon
    DEF Table!Event, Registry!eventMeta, Table!ContentDocument, Registry!contentDocumentMeta,
        Table!ContentVersion, Registry!contentVersionMeta, Table!Account, Registry!accountMeta,
        Table!Contact, Registry!contactMeta, Table!User, Registry!userMeta
<1>8. \A f, p : Table!Named(f, p) = Registry!Named(f, p)
    BY <1>5, Zenon DEF Table!Named, Registry!Named
<1>9. \A t \in Described : Table!objectMeta[t] = Registry!registry[t]
    BY <1>6, <1>7, <1>8 DEF Described, Table!objectMeta, Registry!registry
<1> QED
    BY <1>1, <1>2, <1>3, <1>4, <1>9

\* What the describe answers of a type in the tables.
LEMMA DescribedAs ==
    /\ \A t \in Described : getObjectMetadata(t) = Table!objectMeta[t]
    /\ \A t \in Described \cup Virtual :
        /\ getObjectMetadata(t) = Registry!registry[t]
        /\ getObjectMetadata(t).keyPrefix = getIDPrefix(t)
        /\ getObjectMetadata(t) # NotFound
<1>1. \A t \in Described : getObjectMetadata(t) = Table!objectMeta[t]
    BY SameFields DEF getObjectMetadata
<1>2. \A t \in Virtual : t \notin Described /\ getObjectMetadata(t) = Registry!registry[t]
    BY SameFields DEF getObjectMetadata, Virtual, Described
<1>3. NotFound.keyPrefix = ""
    BY DEF NotFound
<1> QED
    BY <1>1, <1>2, <1>3, SameFields

\* The types of the global describe are the types of the tables, each once.
LEMMA ListIsTables ==
    /\ Range(globalDescribeTypes) = Described \cup Virtual
    /\ \A k, m \in DOMAIN globalDescribeTypes :
        globalDescribeTypes[k] = globalDescribeTypes[m] => k = m
<1>1. PICK all : all = known \o Registry!Names
    OBVIOUS
<1>2. /\ Len(known) = 12 /\ Range(known) = Described
    BY DEF known, Described, Range
<1>3. /\ DOMAIN all = 1 .. 26
      /\ \A k \in 1 .. 12 : all[k] = known[k]
      /\ \A k \in 13 .. 26 : all[k] = Registry!Names[k - 12]
    BY <1>1 DEF known, Registry!Names
<1>4. /\ \A k \in 1 .. 12 : all[k] \in Described
      /\ \A k \in 13 .. 24 : all[k] \in Described
      /\ all[25] = "EntityDefinition" /\ all[26] = "FieldDefinition"
    BY <1>3 DEF known, Registry!Names, Described
<1>5. \A k, m \in 1 .. 12 : all[k] = all[m] => k = m
    BY <1>3 DEF known
<1>6. globalDescribeTypes = Restrict(all, {k \in DOMAIN all : k <= 12 \/ all[k] \notin Described})
    BY <1>1, <1>2 DEF globalDescribeTypes
<1>7. {k \in DOMAIN all : k <= 12 \/ all[k] \notin Described} = 1 .. 12 \cup {25, 26}
    BY <1>3, <1>4 DEF Described
<1>8. /\ DOMAIN globalDescribeTypes = 1 .. 12 \cup {25, 26}
      /\ \A k \in 1 .. 12 \cup {25, 26} : globalDescribeTypes[k] = all[k]
    BY <1>6, <1>7 DEF Restrict
<1>9. Range(globalDescribeTypes) = Described \cup Virtual
  <2>1. \A t \in Described : \E k \in 1 .. 12 : all[k] = t
    BY <1>2, <1>3 DEF Range, known
  <2> QED
    BY <1>4, <1>8, <2>1 DEF Range, Virtual
<1> QED
    BY <1>4, <1>5, <1>8, <1>9 DEF Described

\* Two types of the tables have two prefixes.
LEMMA PrefixesDiffer ==
    ASSUME NEW t \in Described \cup Virtual, NEW u \in Described \cup Virtual,
           getIDPrefix(t) = getIDPrefix(u), getIDPrefix(t) # "000"
    PROVE  t = u
<1>1. t \in Described /\ u \in Described
    BY SameFields
<1> DEFINE typeOf(p) ==
            CASE p = "001" -> "Account" [] p = "003" -> "Contact" [] p = "500" -> "Case"
              [] p = "005" -> "User" [] p = "00a" -> "CaseComment" [] p = "02s" -> "EmailMessage"
              [] p = "0D5" -> "FeedItem" [] p = "0D7" -> "FeedComment" [] p = "00T" -> "Task"
              [] p = "00U" -> "Event" [] p = "069" -> "ContentDocument"
              [] p = "068" -> "ContentVersion"
<1>2. \A x \in Described : typeOf(getIDPrefix(x)) = x
    BY DEF Described, getIDPrefix
<1> HIDE DEF typeOf
<1> QED
    BY <1>1, <1>2

-----------------------------------------------------------------------------
(* The keys that the code follows. *)

\* The references that the store and the query engine follow: type, key, and
\* the types on the other side.
LEMMA FollowedKeys ==
    ASSUME NEW t, NEW key, NEW parent,
           \/ t = "Case" /\ key = "AccountId" /\ parent = "Account"
           \/ t = "Case" /\ key = "ContactId" /\ parent = "Contact"
           \/ t = "Case" /\ key = "OwnerId" /\ parent = "User"
           \/ t = "Contact" /\ key = "AccountId" /\ parent = "Account"
           \/ t = "CaseComment" /\ key = "ParentId" /\ parent = "Case"
           \/ t = "CaseComment" /\ key = "CreatedById" /\ parent = "User"
           \/ t = "EmailMessage" /\ key = "ParentId" /\ parent = "Case"
           \/ t = "FeedItem" /\ key = "ParentId" /\ parent = "Case"
           \/ t = "FeedItem" /\ key = "CreatedById" /\ parent = "User"
           \/ t = "FeedComment" /\ key = "FeedItemId" /\ parent = "FeedItem"
           \/ t = "FeedComment" /\ key = "ParentId" /\ parent = "Case"
           \/ t = "Task" /\ key = "WhatId" /\ parent = "Case"
           \/ t = "Task" /\ key = "WhoId" /\ parent = "Contact"
           \/ t = "Event" /\ key = "WhatId" /\ parent = "Case"
           \/ t = "Event" /\ key = "WhoId" /\ parent = "Contact"
           \/ t = "ContentVersion" /\ key = "ContentDocumentId" /\ parent = "ContentDocument"
    PROVE  \E f \in getObjectMetadata(t).fields :
              /\ f.name = key /\ f.type = "reference" /\ parent \in f.refs
              /\ "filterable" \in f.access
<1> DEFINE Follows(fields, k, p) ==
              \E f \in fields : /\ f.name = k /\ f.type = "reference" /\ p \in f.refs
                                /\ "filterable" \in f.access
           Key(k, targets, access) ==
              [name |-> k, type |-> "reference", refs |-> targets, access |-> access]
<1>1. \A k, targets, access :
        Key(k, targets, access) \in Table!References({k}, targets, access)
    BY DEF Table!References
<1>2. /\ "filterable" \in Table!Optional /\ "filterable" \in Table!Free
      /\ "filterable" \in Table!Once /\ "filterable" \in Table!OnceOptional
      /\ "filterable" \in Table!Fixed
    BY DEF Table!Optional, Table!Free, Table!Once, Table!OnceOptional, Table!Fixed
<1>3. \A fields, k, p, targets, access :
        Key(k, targets, access) \in fields /\ p \in targets /\ "filterable" \in access
            => Follows(fields, k, p)
    OBVIOUS
<1>4. t \in Described
    BY DEF Described
<1>5. getObjectMetadata(t) = Table!objectMeta[t]
    BY <1>4, DescribedAs
<1>6. \A fields, p : fields \subseteq Table!Named(fields, p).fields
    BY DEF Table!Named
<1> HIDE DEF Follows, Key
<1>7. \A k, p, targets, access :
        Key(k, targets, access) \in getObjectMetadata(t).fields /\ p \in targets
        /\ "filterable" \in access => Follows(getObjectMetadata(t).fields, k, p)
    BY <1>3
<1>8. CASE t = "Case"
  <2>1. /\ Key("AccountId", {"Account"}, Table!Optional) \in Table!Case
        /\ Key("ContactId", {"Contact"}, Table!Optional) \in Table!Case
        /\ Key("OwnerId", {"User", "Group"}, Table!Free) \in Table!Case
    BY <1>1 DEF Table!Case
  <2>2. Table!Case \subseteq getObjectMetadata(t).fields
    BY <1>5, <1>6, <1>8 DEF Table!objectMeta
  <2> QED
    BY <1>2, <1>7, <1>8, <2>1, <2>2 DEF Follows
<1>9. CASE t = "Contact"
  <2>1. Key("AccountId", {"Account"}, Table!Optional) \in Table!Contact
    BY <1>1 DEF Table!Contact
  <2>2. Table!Contact \subseteq getObjectMetadata(t).fields
    BY <1>5, <1>6, <1>9 DEF Table!objectMeta
  <2> QED
    BY <1>2, <1>7, <1>9, <2>1, <2>2 DEF Follows
<1>10. CASE t = "CaseComment"
  <2>1. /\ Key("ParentId", {"Case"}, Table!Once) \in Table!CaseComment
        /\ Key("CreatedById", {"User"}, Table!Fixed) \in Table!CaseComment
    BY <1>1 DEF Table!CaseComment
  <2>2. Table!CaseComment \subseteq getObjectMetadata(t).fields
    BY <1>5, <1>6, <1>10 DEF Table!objectMeta
  <2> QED
    BY <1>2, <1>7, <1>10, <2>1, <2>2 DEF Follows
<1>11. CASE t = "EmailMessage"
  <2>1. Key("ParentId", {"Case"}, Table!Optional) \in Table!EmailMessage
    BY <1>1 DEF Table!EmailMessage
  <2>2. Table!EmailMessage \subseteq getObjectMetadata(t).fields
    BY <1>5, <1>6, <1>11 DEF Table!objectMeta
  <2> QED
    BY <1>2, <1>7, <1>11, <2>1, <2>2 DEF Follows
<1>12. CASE t = "FeedItem"
  <2>1. /\ Key("ParentId", {"Case", "Account", "Contact", "User"}, Table!Once) \in Table!FeedItem
        /\ Key("CreatedById", {"User"}, Table!Fixed) \in Table!FeedItem
    BY <1>1 DEF Table!FeedItem
  <2>2. Table!FeedItem \subseteq getObjectMetadata(t).fields
    BY <1>5, <1>6, <1>12 DEF Table!objectMeta
  <2> QED
    BY <1>2, <1>7, <1>12, <2>1, <2>2 DEF Follows
<1>13. CASE t = "FeedComment"
  <2>1. /\ Key("FeedItemId", {"FeedItem"}, Table!Once) \in Table!FeedComment
        /\ Key("ParentId", {"Case", "Account", "Contact", "User"}, Table!OnceOptional)
              \in Table!FeedComment
    BY <1>1 DEF Table!FeedComment
  <2>2. Table!FeedComment \subseteq getObjectMetadata(t).fields
    BY <1>5, <1>6, <1>13 DEF Table!objectMeta
  <2> QED
    BY <1>2, <1>7, <1>13, <2>1, <2>2 DEF Follows
<1>14. CASE t = "Task"
  <2>1. /\ Key("WhoId", {"Contact", "Lead"}, Table!Optional) \in Table!Task
        /\ Key("WhatId", {"Account", "Case", "Opportunity"}, Table!Optional) \in Table!Task
    BY <1>1 DEF Table!Task
  <2>2. Table!Task \subseteq getObjectMetadata(t).fields
    BY <1>5, <1>6, <1>14 DEF Table!objectMeta
  <2> QED
    BY <1>2, <1>7, <1>14, <2>1, <2>2 DEF Follows
<1>15. CASE t = "Event"
  <2>1. /\ Key("WhoId", {"Contact", "Lead"}, Table!Optional) \in Table!Event
        /\ Key("WhatId", {"Account", "Case", "Opportunity"}, Table!Optional) \in Table!Event
    BY <1>1 DEF Table!Event
  <2>2. Table!Event \subseteq getObjectMetadata(t).fields
    BY <1>5, <1>6, <1>15 DEF Table!objectMeta
  <2> QED
    BY <1>2, <1>7, <1>15, <2>1, <2>2 DEF Follows
<1>16. CASE t = "ContentVersion"
  <2>1. Key("ContentDocumentId", {"ContentDocument"}, Table!OnceOptional) \in Table!ContentVersion
    BY <1>1 DEF Table!ContentVersion
  <2>2. Table!ContentVersion \subseteq getObjectMetadata(t).fields
    BY <1>5, <1>6, <1>16 DEF Table!objectMeta
  <2> QED
    BY <1>2, <1>7, <1>16, <2>1, <2>2 DEF Follows
<1> QED
    BY <1>8, <1>9, <1>10, <1>11, <1>12, <1>13, <1>14, <1>15, <1>16

-----------------------------------------------------------------------------
(* The store, and what a client listed. *)

\* A type with records is one that a record was created for, and a client's
\* list is some of the types there are, each at its place.
DiscoveryInv ==
    /\ typed \subseteq Type
    /\ \A t \in Type : Records(t) # {} => t \in typed
    /\ DOMAIN listed \subseteq DOMAIN globalDescribeTypes
    /\ \A k \in DOMAIN listed : listed[k] = globalDescribeTypes[k]

\* The lists and the describes do not change the store: what is proved of
\* MemoryStore holds with them.
THEOREM StoreWithDiscovery == DiscoverySpec => Spec
<1>1. DiscoveryInit => Init
    BY DEF DiscoveryInit
<1>2. [DiscoveryNext]_discoveryVars => [Next]_vars
    BY DEF DiscoveryNext, discoveryVars, StoreCall, HandleGlobalDescribe, Next
<1> QED
    BY <1>1, <1>2, PTL DEF DiscoverySpec, Spec

\* Of a server's two stores each sees its own calls only: to it the server's
\* behaviour is one of its own (main).
THEOREM StoresBehaveAsAlone == StoresSpec => DiscoverySpec /\ SqliteSpec
<1>1. StoresInit => DiscoveryInit /\ SqliteInit
    BY DEF StoresInit
<1>2. [StoresNext]_storesVars => [DiscoveryNext]_discoveryVars /\ [SqliteNext]_sqliteVars
    BY DEF StoresNext, MemoryCall, SqliteCall, storesVars
<1> QED
    BY <1>1, <1>2, PTL DEF StoresSpec, DiscoverySpec, SqliteSpec

\* The list and the types of the store are as said in every reachable state:
\* only Create adds a record, and it notes the record's type.
LEMMA DiscoveryInductive == DiscoverySpec => []DiscoveryInv
<1>1. DiscoveryInit => DiscoveryInv
    BY DEF DiscoveryInit, DiscoveryInv, Init, Empty, Records
<1>2. TypeOK /\ DiscoveryInv /\ [DiscoveryNext]_discoveryVars => DiscoveryInv'
  <2> SUFFICES ASSUME TypeOK, DiscoveryInv, [DiscoveryNext]_discoveryVars PROVE DiscoveryInv'
    OBVIOUS
  <2>1. DOMAIN data = Type
    BY DEF TypeOK
  <2>2. \A t \in Type, i \in Id : \A record : Put(t, i, record)
            => \A u \in Type : Records(u)' # {} => u = t \/ Records(u) # {}
    BY <2>1 DEF Put, Records
  <2>3. ASSUME NEW t \in Type, NEW i \in Id, NEW fields, Create(t, i, fields),
               typed' = typed \cup {t}, UNCHANGED listed
        PROVE  DiscoveryInv'
    BY <2>2, <2>3 DEF Create, DiscoveryInv
  <2>4. ASSUME NEW t \in Type, NEW i \in Id, NEW patch, Update(t, i, patch),
               typed' = typed, UNCHANGED listed
        PROVE  DiscoveryInv'
    <3>1. \A u \in Type : Records(u)' # {} => Records(u) # {}
      BY <2>2, <2>4 DEF Update
    <3> QED
      BY <2>4, <3>1 DEF DiscoveryInv
  <2>5. ASSUME NEW t \in Type, NEW i \in Id, Delete(t, i), typed' = typed, UNCHANGED listed
        PROVE  DiscoveryInv'
    <3>1. \A u \in Type : Records(u)' # {} => Records(u) # {}
      BY <2>1, <2>5 DEF Delete, Records
    <3> QED
      BY <2>5, <3>1 DEF DiscoveryInv
  <2>6. CASE Clear /\ typed' = {} /\ UNCHANGED listed
    <3>1. \A u \in Type : Records(u)' = {}
      BY <2>6 DEF Clear, Empty, Records
    <3> QED
      BY <2>6, <3>1 DEF DiscoveryInv
  <2>7. CASE HandleGlobalDescribe
    <3>1. data' = data /\ typed' = typed
      BY <2>7 DEF HandleGlobalDescribe, vars, Records
    <3>2. PICK types : types = globalDescribeTypes
      OBVIOUS
    <3>3. PICK S : S = {k \in DOMAIN types : getObjectMetadata(types[k]) # NotFound}
      OBVIOUS
    <3>4. listed' = Restrict(types, S)
      BY <2>7, <3>2, <3>3 DEF HandleGlobalDescribe
    <3>5. DOMAIN listed' \subseteq DOMAIN types /\ \A k \in DOMAIN listed' : listed'[k] = types[k]
      BY <3>3, <3>4 DEF Restrict
    <3> QED
      BY <3>1, <3>2, <3>5 DEF DiscoveryInv, Records
  <2>8. CASE UNCHANGED discoveryVars
    BY <2>8 DEF discoveryVars, vars, DiscoveryInv, Records
  <2> QED
    BY <2>3, <2>4, <2>5, <2>6, <2>7, <2>8 DEF DiscoveryNext, StoreCall
<1> QED
    BY <1>1, <1>2, StoreWithDiscovery, TypeCorrect, PTL DEF DiscoverySpec

\* Whatever was deleted or reset since it was listed, a type on a client's list
\* is described, and it is there once.
LEMMA ListsAreDescribed == DiscoveryInv => ListedTypesDescribed
<1> SUFFICES ASSUME DiscoveryInv PROVE ListedTypesDescribed
    OBVIOUS
<1>1. \A k \in DOMAIN listed : listed[k] \in Described \cup Virtual
    BY ListIsTables DEF DiscoveryInv, Range
<1>2. \A k, m \in DOMAIN listed : listed[k] = listed[m] => k = m
    BY ListIsTables DEF DiscoveryInv
<1> QED
    BY <1>1, <1>2, DescribedAs DEF ListedTypesDescribed

\* A type with records is in the tables or answered for by its name.
LEMMA RecordsAreDescribed == DiscoveryInv => StoredTypesDescribed
<1> SUFFICES ASSUME DiscoveryInv PROVE StoredTypesDescribed
    OBVIOUS
<1>1. ASSUME NEW t \in Type, Records(t) # {}
      PROVE  getObjectMetadata(t) # NotFound /\ getObjectMetadata(t).keyPrefix = getIDPrefix(t)
  <2>1. CASE t \in Described \cup Virtual
    BY <2>1, DescribedAs
  <2>2. CASE t \notin Described \cup Virtual
    <3>1. t \in typed
      BY <1>1 DEF DiscoveryInv
    <3>2. getObjectMetadata(t) = [fields |-> Table!commonFields, keyPrefix |-> "000"]
      BY <2>2, <3>1, SameFields DEF getObjectMetadata
    <3>3. getIDPrefix(t) = "000"
      BY <2>2 DEF getIDPrefix, Described
    <3>4. getObjectMetadata(t).keyPrefix = "000" /\ NotFound.keyPrefix = ""
      BY <3>2 DEF NotFound
    <3> QED
      BY <3>3, <3>4
  <2> QED
    BY <2>1, <2>2
<1>2. \A t, u \in Range(globalDescribeTypes) :
        getIDPrefix(t) = getIDPrefix(u) => t = u \/ getIDPrefix(t) = "000"
    BY ListIsTables, PrefixesDiffer
<1> QED
    BY <1>1, <1>2 DEF StoredTypesDescribed

\* The REST describe and the virtual objects of SOQL tell of the same types.
LEMMA BothAgree == DiscoveryAgrees
<1>1. ASSUME NEW e \in Registry!EntityDefinitionRecords
      PROVE  LET described == getObjectMetadata(e.QualifiedApiName)
             IN  /\ described.keyPrefix = e.KeyPrefix
                 /\ described.fields = Registry!registry[e.QualifiedApiName].fields
                 /\ {<<r.QualifiedApiName, r.DataType, r.IsNillable>> :
                        r \in {s \in Registry!FieldDefinitionRecords :
                                  s.Entity = e.QualifiedApiName}}
                    = {<<f.name, f.type, "nillable" \in f.access>> : f \in described.fields}
  <2>1. PICK t \in Described \cup Virtual :
            e = [QualifiedApiName |-> t, KeyPrefix |-> Registry!registry[t].keyPrefix]
    BY SameFields DEF Registry!EntityDefinitionRecords
  <2>2. e.QualifiedApiName = t /\ e.KeyPrefix = Registry!registry[t].keyPrefix
    BY <2>1
  <2>3. getObjectMetadata(t) = Registry!registry[t] /\ t \in DOMAIN Registry!registry
    BY DescribedAs, SameFields
  <2> DEFINE row(f) == [Entity |-> t, QualifiedApiName |-> f.name, DataType |-> f.type,
                        IsNillable |-> "nillable" \in f.access]
  <2>4. PICK fields : fields = Registry!registry[t].fields
    OBVIOUS
  <2>5. {s \in Registry!FieldDefinitionRecords : s.Entity = t} = {row(f) : f \in fields}
    BY <2>3, <2>4 DEF Registry!FieldDefinitionRecords
  <2>6. {<<r.QualifiedApiName, r.DataType, r.IsNillable>> : r \in {row(f) : f \in fields}}
        = {<<f.name, f.type, "nillable" \in f.access>> : f \in fields}
    <3>1. \A f : /\ row(f).QualifiedApiName = f.name /\ row(f).DataType = f.type
                 /\ row(f).IsNillable = ("nillable" \in f.access)
      OBVIOUS
    <3> HIDE DEF row
    <3> QED
      BY <3>1, Zenon
  <2> QED
    BY <2>2, <2>3, <2>4, <2>5, <2>6
<1> QED
    BY <1>1 DEF DiscoveryAgrees

\* The records of the virtual objects lack the two audit dates and nothing else
\* of what these objects are described with.
LEMMA ColumnsAreKnown == VirtualColumnsKnown
<1> DEFINE names(S) == {f.name : f \in S}
           dates == {"CreatedDate", "LastModifiedDate"}
<1>2. /\ \A N, type, access : names(Registry!Plain(N, type, access)) = N
      /\ \A S, T : names(S \cup T) = names(S) \cup names(T)
  <2>1. \A N, type, access : names(Registry!Plain(N, type, access)) = N
    <3> TAKE N, type, access
    <3>1. \A n \in N : \E f \in Registry!Plain(N, type, access) : f.name = n
      <4> TAKE n \in N
      <4>1. PICK f : f = [name |-> n, type |-> type, refs |-> {}, access |-> access]
        OBVIOUS
      <4>2. f \in Registry!Plain(N, type, access)
        BY <4>1 DEF Registry!Plain
      <4> QED
        BY <4>1, <4>2
    <3>2. \A f \in Registry!Plain(N, type, access) : f.name \in N
      BY DEF Registry!Plain
    <3> QED
      BY <3>1, <3>2
  <2>2. \A S, T : names(S \cup T) = names(S) \cup names(T)
    OBVIOUS
  <2> QED
    BY <2>1, <2>2
<1> HIDE DEF names
<1>3. \A L, M, N, x, y, z, a, b, c :
        names((Registry!Plain(L, x, a) \cup Registry!Plain(M, y, b)) \cup Registry!Plain(N, z, c))
        = (L \cup M) \cup N
  <2> TAKE L, M, N, x, y, z, a, b, c
  <2>1. PICK A : A = Registry!Plain(L, x, a)
    OBVIOUS
  <2>2. PICK B : B = Registry!Plain(M, y, b)
    OBVIOUS
  <2>3. PICK C : C = Registry!Plain(N, z, c)
    OBVIOUS
  <2>4. names(A) = L /\ names(B) = M /\ names(C) = N
    BY <1>2, <2>1, <2>2, <2>3
  <2>5. PICK D : D = A \cup B
    OBVIOUS
  <2>6. names(D) = names(A) \cup names(B)
    BY <1>2, <2>5
  <2>7. names(D \cup C) = names(D) \cup names(C)
    BY <1>2
  <2> QED
    BY <2>1, <2>2, <2>3, <2>4, <2>5, <2>6, <2>7
<1>4. names(Registry!commonFields) = {"Id", "CreatedDate", "LastModifiedDate"}
  <2>1. names(Registry!commonFields) = ({"Id"} \cup {"CreatedDate"}) \cup {"LastModifiedDate"}
    BY <1>3 DEF Registry!commonFields
  <2> QED
    BY <2>1
<1>5. \A S, p : names(Registry!Named(S, p).fields) = names(Registry!commonFields) \cup names(S)
    BY <1>2 DEF Registry!Named
<1>6. names(Registry!registry["EntityDefinition"].fields)
        = dates \cup Registry!EntityDefinitionColumns
  <2>1. names(Registry!entityDefinitionMeta) =
            {"QualifiedApiName", "DeveloperName", "MasterLabel", "Label", "PluralLabel",
             "KeyPrefix", "IsCustomizable"}
    <3>1. names(Registry!entityDefinitionMeta) =
            ({"QualifiedApiName", "DeveloperName", "MasterLabel", "Label", "PluralLabel"}
             \cup {"KeyPrefix"}) \cup {"IsCustomizable"}
      BY <1>3 DEF Registry!entityDefinitionMeta
    <3> QED
      BY <3>1
  <2>2. Registry!registry["EntityDefinition"] = Registry!Named(Registry!entityDefinitionMeta, "000")
    BY DEF Registry!registry
  <2> QED
    BY <1>4, <1>5, <2>1, <2>2 DEF Registry!EntityDefinitionColumns
<1>7. names(Registry!registry["FieldDefinition"].fields)
        = dates \cup (Registry!FieldDefinitionColumns \ {"EntityDefinition"})
  <2>1. names(Registry!fieldDefinitionMeta) =
            {"QualifiedApiName", "DeveloperName", "Label", "DataType", "EntityDefinitionId",
             "Length", "IsNillable"}
    <3>1. names(Registry!fieldDefinitionMeta) =
            ({"QualifiedApiName", "DeveloperName", "Label", "DataType", "EntityDefinitionId"}
             \cup {"Length"}) \cup {"IsNillable"}
      BY <1>3 DEF Registry!fieldDefinitionMeta
    <3> QED
      BY <3>1
  <2>2. Registry!registry["FieldDefinition"] = Registry!Named(Registry!fieldDefinitionMeta, "000")
    BY DEF Registry!registry
  <2> QED
    BY <1>4, <1>5, <2>1, <2>2 DEF Registry!FieldDefinitionColumns
<1>8. PICK E, F : /\ E = names(Registry!registry["EntityDefinition"].fields)
                  /\ F = names(Registry!registry["FieldDefinition"].fields)
    OBVIOUS
<1>9. /\ E \ Registry!EntityDefinitionColumns = dates
      /\ Registry!EntityDefinitionColumns \subseteq E
    BY <1>6, <1>8 DEF Registry!EntityDefinitionColumns
<1>10. /\ F \ Registry!FieldDefinitionColumns = dates
       /\ Registry!FieldDefinitionColumns \ F = {"EntityDefinition"}
    BY <1>7, <1>8 DEF Registry!FieldDefinitionColumns
<1> QED
    BY <1>8, <1>9, <1>10 DEF VirtualColumnsKnown, names

\* Through any calls: a type that a client listed, or that has records, is
\* described, under the prefix its ids carry; REST and SOQL describe every type
\* alike; and the records of the two virtual objects have the fields these are
\* described with but for the two audit dates, which they lack
\* (HandleGlobalDescribe, getObjectMetadata, builtinObjects).
THEOREM TypesAreDescribed == StoresSpec => []TypesDescribed
<1>1. DiscoveryInv => TypesDescribed
    BY ListsAreDescribed, RecordsAreDescribed, BothAgree, ColumnsAreKnown
    DEF TypesDescribed
<1> QED
    BY <1>1, StoresBehaveAsAlone, DiscoveryInductive, PTL

\* Whatever the store holds: every key that a subquery, a relationship field or
\* an index follows is described as a reference to the other side, but for the
\* two that KeysDescribed names (childRelationshipMeta, relationshipMeta).
THEOREM KeysAreDescribed == StoresSpec => []KeysDescribed
<1>1. KeysDescribed
  <2>1. ASSUME NEW r \in (childRelationshipMeta \cup relationshipMeta
                           \cup caseLists \cup accountLists)
                    \ {<<"Case", "ContentDocumentLink", "LinkedEntityId">>,
                       <<"User", "Case", "CreatedById">>}
        PROVE  \E f \in getObjectMetadata(r[2]).fields :
                  f.name = r[3] /\ r[1] \in f.refs /\ "filterable" \in f.access
    <3>1. PICK parent, t, key : r = <<parent, t, key>> /\ r[1] = parent /\ r[2] = t /\ r[3] = key
      BY DEF childRelationshipMeta, relationshipMeta, caseLists, accountLists
    <3>2. \E f \in getObjectMetadata(t).fields :
              f.name = key /\ parent \in f.refs /\ "filterable" \in f.access
      BY <3>1, FollowedKeys DEF childRelationshipMeta, relationshipMeta, caseLists, accountLists
    <3> QED
      BY <3>1, <3>2
  <2>2. ASSUME NEW t \in DOMAIN indexedFieldsByType, NEW x \in indexedFieldsByType[t]
        PROVE  \E f \in getObjectMetadata(t).fields :
                  f.name = x /\ f.type = "reference" /\ "filterable" \in f.access
    BY FollowedKeys DEF indexedFieldsByType
  <2>3. \A r \in caseLists \cup accountLists :
            r[2] \in DOMAIN indexedFieldsByType /\ r[3] \in indexedFieldsByType[r[2]]
    BY DEF caseLists, accountLists, indexedFieldsByType
  <2> QED
    BY <2>1, <2>2, <2>3 DEF KeysDescribed
<1> QED
    BY <1>1, PTL

-----------------------------------------------------------------------------
(* The in-memory store keeps the promise of store.Store. *)

\* The promise speaks of records in the words of the stores.
LEMMA PromiseWords ==
    /\ Promise!Fields = Fields /\ Promise!Patches = Patches
    /\ \A record : Promise!Holds(record) = Holds(record)
    /\ \A record, patch : Promise!Merged(record, patch) = Merged(record, patch)
    BY DEF Promise!Fields, Fields, Promise!Patches, Patches, Promise!Holds, Holds,
           Promise!Merged, Merged

\* What a lookup finds a record by is read off the entries of its id.
LEMMA LookupsOf ==
    \A t \in Type, i \in Id : Lookups[t][i] =
        {p \in Field \X Value : i \in Records(t) /\ indexes[t][p[1]][p[2]][i] > 0}
    BY DEF Lookups, GetByIndex

\* A record that is stored and indexed is found by what it holds now, and else by
\* entries that its id had before.
LEMMA PutKeepsPromise ==
    ASSUME IInv, NEW t \in Type, NEW i \in Id, NEW record \in Record,
           Put(t, i, record), updateIndexes(t, i, record), typed' = typed \cup {t}
    PROVE  Promise!Store(t, i, record)
<1>1. DOMAIN data = Type /\ indexes \in [Type -> [Field -> [Value -> [Id -> Nat]]]]
    BY DEF IInv, TypeOK
<1>2. data' = [data EXCEPT ![t] =
          [j \in DOMAIN data[t] \cup {i} |-> IF j = i THEN record ELSE data[t][j]]]
    BY DEF Put, Records
<1>3. \A u \in Type : Records(u)' = IF u = t THEN Records(t) \cup {i} ELSE Records(u)
    BY <1>1, <1>2 DEF Records
<1>4. \A u \in Type, f \in Field, v \in Value, j \in Id :
        indexes'[u][f][v][j] =
            IF /\ u = t /\ j = i /\ f \in indexedFields[t]
               /\ record.fields[f] = v /\ indexes[t][f][v][j] = 0
            THEN 1 ELSE indexes[u][f][v][j]
    BY <1>1 DEF updateIndexes
<1>5. \A u \in Type, j \in Id : Lookups'[u][j] =
        {p \in Field \X Value : j \in Records(u)' /\ indexes'[u][p[1]][p[2]][j] > 0}
    BY DEF Lookups, GetByIndex, Records
<1>6. ASSUME NEW u \in Type, NEW j \in Id, ~(u = t /\ j = i)
      PROVE  Lookups'[u][j] = Lookups[u][j]
  <2>1. j \in Records(u)' <=> j \in Records(u)
    BY <1>3, <1>6
  <2>2. \A p \in Field \X Value : indexes'[u][p[1]][p[2]][j] = indexes[u][p[1]][p[2]][j]
    BY <1>4, <1>6
  <2>3. Lookups'[u][j] =
          {p \in Field \X Value : j \in Records(u)' /\ indexes'[u][p[1]][p[2]][j] > 0}
    BY <1>5
  <2>4. Lookups[u][j] =
          {p \in Field \X Value : j \in Records(u) /\ indexes[u][p[1]][p[2]][j] > 0}
    BY LookupsOf
  <2>5. \A p \in Field \X Value : p \in Lookups'[u][j] <=> p \in Lookups[u][j]
    BY <2>1, <2>2, <2>3, <2>4
  <2> QED
    BY <2>3, <2>4, <2>5
<1>7. Lookups' = [Lookups EXCEPT ![t][i] = Lookups'[t][i]]
  <2>1. \A u \in Type : Lookups'[u] = [j \in Id |-> Lookups'[u][j]]
    BY DEF Lookups
  <2>2. Lookups' = [u \in Type |-> [j \in Id |-> Lookups'[u][j]]]
    BY DEF Lookups
  <2>3. Lookups = [u \in Type |-> [j \in Id |-> Lookups[u][j]]]
    BY DEF Lookups
  <2> QED
    BY <1>6, <2>2, <2>3
<1>8. Promise!Indexed(t, record) \subseteq Lookups'[t][i]
  <2> SUFFICES ASSUME NEW p \in Field \X Value, record.fields[p[1]] = p[2],
                      p[1] \in indexedFields[t]
               PROVE  p \in Lookups'[t][i]
    BY PromiseWords DEF Promise!Indexed, Holds
  <2>1. indexes[t][p[1]][p[2]][i] \in Nat
    BY <1>1
  <2>2. indexes'[t][p[1]][p[2]][i] > 0
    BY <1>4, <2>1
  <2> QED
    BY <1>3, <1>5, <2>2
<1>9. Lookups'[t][i] \subseteq Lookups[t][i] \cup Holds(record)
  <2> SUFFICES ASSUME NEW p \in Field \X Value, indexes'[t][p[1]][p[2]][i] > 0,
                      record.fields[p[1]] # p[2]
               PROVE  p \in Lookups[t][i]
    BY <1>5 DEF Holds
  <2>1. indexes[t][p[1]][p[2]][i] > 0
    BY <1>4
  <2>2. i \in Records(t)
    BY <2>1 DEF IInv, EntriesExact
  <2> QED
    BY <2>1, <2>2, LookupsOf
<1> QED
    BY <1>2, <1>7, <1>8, <1>9, PromiseWords DEF Promise!Store

\* A deleted record is found by nothing.
LEMMA DeleteKeepsPromise ==
    ASSUME IInv, NEW t \in Type, NEW i \in Id, Delete(t, i), typed' = typed
    PROVE  Promise!Delete(t, i)
<1>1. DOMAIN data = Type /\ indexes \in [Type -> [Field -> [Value -> [Id -> Nat]]]]
    BY DEF IInv, TypeOK
<1>2. /\ i \in DOMAIN data[t]
      /\ data' = [data EXCEPT ![t] = [j \in DOMAIN data[t] \ {i} |-> data[t][j]]]
    BY DEF Delete, Records
<1>3. \A u \in Type : Records(u)' = IF u = t THEN Records(t) \ {i} ELSE Records(u)
    BY <1>1, <1>2 DEF Records
<1>4. \A u \in Type, f \in Field, v \in Value, j \in Id :
        indexes'[u][f][v][j] = IF u = t /\ j = i THEN 0 ELSE indexes[u][f][v][j]
    BY <1>1 DEF Delete, removeFromIndexes
<1>5. \A u \in Type, j \in Id : Lookups'[u][j] =
        {p \in Field \X Value : j \in Records(u)' /\ indexes'[u][p[1]][p[2]][j] > 0}
    BY DEF Lookups, GetByIndex, Records
<1>6. \A u \in Type, j \in Id :
        Lookups'[u][j] = IF u = t /\ j = i THEN {} ELSE Lookups[u][j]
  <2> SUFFICES ASSUME NEW u \in Type, NEW j \in Id
               PROVE  Lookups'[u][j] = IF u = t /\ j = i THEN {} ELSE Lookups[u][j]
    OBVIOUS
  <2>1. Lookups'[u][j] =
          {p \in Field \X Value : j \in Records(u)' /\ indexes'[u][p[1]][p[2]][j] > 0}
    BY <1>5
  <2>2. Lookups[u][j] =
          {p \in Field \X Value : j \in Records(u) /\ indexes[u][p[1]][p[2]][j] > 0}
    BY LookupsOf
  <2>3. CASE u = t /\ j = i
    BY <1>3, <2>1, <2>3
  <2>4. CASE ~(u = t /\ j = i)
    <3>1. \A p \in Field \X Value : p \in Lookups'[u][j] <=> p \in Lookups[u][j]
      BY <1>3, <1>4, <2>1, <2>2, <2>4
    <3> QED
      BY <2>1, <2>2, <2>4, <3>1
  <2> QED
    BY <2>3, <2>4
<1>7. Lookups' = [Lookups EXCEPT ![t][i] = {}]
  <2>1. Lookups' = [u \in Type |-> [j \in Id |-> Lookups'[u][j]]]
    BY DEF Lookups
  <2>2. Lookups = [u \in Type |-> [j \in Id |-> Lookups[u][j]]]
    BY DEF Lookups
  <2> QED
    BY <1>6, <2>1, <2>2
<1> QED
    BY <1>2, <1>7 DEF Promise!Delete

\* An empty store finds nothing, and its types are partial maps of no ids.
LEMMA EmptyPromise ==
    ASSUME data = Empty, indexes = NoEntries, typed = {}
    PROVE  Promise!Nothing
<1>1. ASSUME NEW t \in Type, NEW i \in Id PROVE Lookups[t][i] = {}
  <2>1. Records(t) = {}
    BY DEF Empty, Records
  <2> QED
    BY <2>1, LookupsOf
<1>2. Lookups = [t \in Type |-> [i \in Id |-> {}]]
    BY <1>1 DEF Lookups
<1> QED
    BY <1>2 DEF Promise!Nothing, Empty

\* Every call of the in-memory store is a call of the promised one: a record is
\* patched, deleted and looked up as store.Store has it, but for lookups that
\* also find what the record held before (MemoryStore, ObjectTypes).
THEOREM MemoryStoreKeepsPromise == DiscoverySpec => ImplementsRecordStore
<1>1. DiscoveryInit => Promise!Init
    BY EmptyPromise DEF DiscoveryInit, Init, Promise!Init
<1>2. IInv /\ DiscoveryInv /\ [DiscoveryNext]_discoveryVars => [Promise!Next]_Promise!promised
  <2> SUFFICES ASSUME IInv, DiscoveryInv, [DiscoveryNext]_discoveryVars
               PROVE  [Promise!Next]_Promise!promised
    OBVIOUS
  <2>1. ASSUME NEW t \in Type, NEW i \in Id, NEW fields \in Fields, Create(t, i, fields),
               typed' = typed \cup {t}
        PROVE  Promise!Next
    <3>1. PICK record : record = [Id |-> i, fields |-> fields]
      OBVIOUS
    <3>2. record \in Record
      BY <3>1 DEF Record
    <3>3. Promise!Store(t, i, record)
      BY <2>1, <3>1, <3>2, PutKeepsPromise DEF Create
    <3>4. Promise!Create(t, i, fields)
      BY <3>1, <3>3 DEF Promise!Create
    <3> QED
      BY <3>4, PromiseWords DEF Promise!Next
  <2>2. ASSUME NEW t \in Type, NEW i \in Id, NEW patch \in Patches, Update(t, i, patch),
               typed' = typed
        PROVE  Promise!Next
    <3>1. i \in Records(t) /\ data[t][i] \in Record /\ t \in typed
      BY <2>2 DEF Update, IInv, TypeOK, DiscoveryInv
    <3>2. Merged(data[t][i], patch) \in Record
      BY <3>1, MergedRecord
    <3>3. typed' = typed \cup {t}
      BY <2>2, <3>1
    <3>4. Promise!Store(t, i, Merged(data[t][i], patch))
      BY <2>2, <3>2, <3>3, PutKeepsPromise DEF Update
    <3>5. Promise!Update(t, i, patch)
      BY <3>1, <3>4, PromiseWords DEF Promise!Update, Records
    <3> QED
      BY <3>5, PromiseWords DEF Promise!Next
  <2>3. ASSUME NEW t \in Type, NEW i \in Id, Delete(t, i), typed' = typed
        PROVE  Promise!Next
    BY <2>3, DeleteKeepsPromise DEF Promise!Next
  <2>4. ASSUME Clear, typed' = {}
        PROVE  Promise!Next
    <3>1. \A t \in Type : Records(t)' = {}
      BY <2>4 DEF Clear, Empty, Records
    <3>2. Lookups' = [t \in Type |-> [i \in Id |-> {}]]
      BY <3>1 DEF Lookups, GetByIndex
    <3> QED
      BY <2>4, <3>2 DEF Promise!Next, Promise!Clear, Promise!Nothing, Clear, Empty
  <2>5. ASSUME UNCHANGED <<vars, typed>>
        PROVE  UNCHANGED Promise!promised
    BY <2>5 DEF vars, Promise!promised, Lookups, GetByIndex, Records
  <2> QED
    BY <2>1, <2>2, <2>3, <2>4, <2>5
    DEF DiscoveryNext, StoreCall, HandleGlobalDescribe, discoveryVars
<1> QED
    BY <1>1, <1>2, StoreWithDiscovery, Inductive, DiscoveryInductive, PTL
    DEF DiscoverySpec, ImplementsRecordStore, Promise!Spec

-----------------------------------------------------------------------------
(* The SQLite store: an Update merges into the record as it is. *)

\* The call that is between its SELECT and its UPDATE holds the mutex, and the
\* row it read is still there as it was read.
Fresh ==
    \A c \in DOMAIN updating :
        LET u == updating[c]
        IN  mu = c /\ u.key \in DOMAIN table /\ u.existing = table[u.key]

TableInv == TableTypeOK /\ Fresh

\* Every reachable table is well typed, and no Update works on a stale record.
LEMMA TableInductive == SqliteSpec => []TableInv
<1> USE CallAssumption
<1>1. SqliteInit => TableInv
    BY DEF SqliteInit, TableInv, TableTypeOK, Fresh
<1>2. TableInv /\ [SqliteNext]_sqliteVars => TableInv'
  <2> SUFFICES ASSUME TableInv, [SqliteNext]_sqliteVars PROVE TableInv'
    OBVIOUS
  <2>1. mu = NoCall => DOMAIN updating = {}
    BY DEF TableInv, TableTypeOK, Fresh
  <2>2. ASSUME NEW t \in Type, NEW i \in Id, NEW fields \in Fields, CreateRow(t, i, fields)
        PROVE  TableInv'
    BY <2>1, <2>2 DEF CreateRow, TableInv, TableTypeOK, Fresh, RowKey, Record
  <2>3. ASSUME NEW t \in Type, NEW i \in Id, NEW c \in Call, NEW patch \in Patches,
               SelectExisting(c, t, i, patch)
        PROVE  TableInv'
    <3>1. /\ mu' = c /\ table' = table /\ DOMAIN updating' = {c}
          /\ updating'[c] = [key |-> <<t, i>>, patch |-> patch, existing |-> table[<<t, i>>]]
      BY <2>1, <2>3 DEF SelectExisting
    <3>2. <<t, i>> \in DOMAIN table /\ <<t, i>> \in RowKey
      BY <2>3 DEF SelectExisting, Stored, RowKey
    <3> QED
      BY <3>1, <3>2 DEF TableInv, TableTypeOK, Fresh
  <2>4. ASSUME NEW t \in Type, NEW i \in Id, DeleteRow(t, i)
        PROVE  TableInv'
    BY <2>1, <2>4 DEF DeleteRow, TableInv, TableTypeOK, Fresh
  <2>5. ASSUME NEW c \in Call, c \in DOMAIN updating, Returns(c)
        PROVE  mu' = NoCall /\ DOMAIN updating' = {}
    BY <2>5 DEF Returns, TableInv, Fresh
  <2>6. ASSUME NEW c \in Call, UpdateRow(c)
        PROVE  TableInv'
    <3>1. mu' = NoCall /\ DOMAIN updating' = {}
      BY <2>5, <2>6 DEF UpdateRow
    <3>2. Merged(updating[c].existing, updating[c].patch) \in Record
      BY <2>6, MergedRecord DEF UpdateRow, TableInv, TableTypeOK
    <3> QED
      BY <2>6, <3>1, <3>2 DEF UpdateRow, TableInv, TableTypeOK, Fresh
  <2>7. ASSUME NEW c \in Call, UpdateFails(c)
        PROVE  TableInv'
    BY <2>5, <2>7 DEF UpdateFails, TableInv, TableTypeOK, Fresh
  <2>8. CASE ClearTable
    BY <2>1, <2>8 DEF ClearTable, TableInv, TableTypeOK, Fresh
  <2>9. CASE Reopen
    BY <2>9 DEF Reopen, TableInv, TableTypeOK, Fresh
  <2>10. CASE StatementFails \/ UNCHANGED sqliteVars
    BY <2>10 DEF StatementFails, sqliteVars, TableInv, TableTypeOK, Fresh
  <2> QED
    BY <2>2, <2>3, <2>4, <2>6, <2>7, <2>8, <2>9, <2>10 DEF SqliteNext
<1> QED
    BY <1>1, <1>2, PTL DEF SqliteSpec

\* Every reachable table is well typed.
THEOREM TableTypeCorrect == SqliteSpec => []TableTypeOK
<1>1. TableInv => TableTypeOK
    BY DEF TableInv
<1> QED
    BY <1>1, TableInductive, PTL

\* What an Update writes is the record as it is then, with its patch merged in:
\* nothing that another call wrote in the meantime is undone (Update).
THEOREM NoUpdateIsLost == SqliteSpec => NoLostUpdate
<1> DEFINE merges ==
        \A c \in Call :
            (c \in DOMAIN updating /\ table' # table) =>
                LET k == updating[c].key
                IN  table' = [table EXCEPT ![k] = Merged(table[k], updating[c].patch)]
<1>1. TableInv /\ [SqliteNext]_sqliteVars => [merges]_sqliteVars
  <2> SUFFICES ASSUME TableInv, SqliteNext, NEW c \in Call,
                      c \in DOMAIN updating, table' # table
               PROVE  table' = [table EXCEPT ![updating[c].key] =
                                    Merged(table[updating[c].key], updating[c].patch)]
    OBVIOUS
  <2>1. mu = c /\ mu # NoCall /\ \A d \in DOMAIN updating : d = c
    BY CallAssumption DEF TableInv, Fresh
  <2>2. PICK d \in Call : UpdateRow(d)
    BY <2>1 DEF SqliteNext, sqliteVars, CreateRow, SelectExisting, DeleteRow, UpdateFails,
              ClearTable, StatementFails, Reopen
  <2>3. d = c
    BY <2>1, <2>2 DEF UpdateRow
  <2> QED
    BY <2>2, <2>3 DEF UpdateRow, TableInv, Fresh
<1> QED
    BY <1>1, TableInductive, PTL DEF SqliteSpec, NoLostUpdate

\* The promise speaks of records in the words of this store, too.
LEMMA TablePromiseWords ==
    /\ TablePromise!Fields = Fields /\ TablePromise!Patches = Patches
    /\ \A record : TablePromise!Holds(record) = Holds(record)
    /\ \A record, patch : TablePromise!Merged(record, patch) = Merged(record, patch)
    BY DEF TablePromise!Fields, Fields, TablePromise!Patches, Patches, TablePromise!Holds, Holds,
           TablePromise!Merged, Merged

\* What is read off the table, type by type.
LEMMA TableReads ==
    ASSUME NEW t \in Type
    PROVE  /\ RecordsOf[t] = [i \in Stored(t) |-> table[<<t, i>>]]
           /\ \A i \in Id :
                Scans[t][i] = IF i \in Stored(t) THEN Holds(table[<<t, i>>]) ELSE {}
<1>1. ASSUME NEW i \in Id
      PROVE  Scans[t][i] = IF i \in Stored(t) THEN Holds(table[<<t, i>>]) ELSE {}
  <2>1. Scans[t][i] = {p \in Field \X Value : i \in Scanned(t, p[1], p[2])}
    BY DEF Scans
  <2> QED
    BY <2>1 DEF Scanned, Holds
<1> QED
    BY <1>1 DEF RecordsOf

\* A row that is written is the record of its key, and found by what it holds.
LEMMA RowKeepsPromise ==
    ASSUME NEW t \in Type, NEW i \in Id, NEW record \in Record,
           table' = [k \in DOMAIN table \cup {<<t, i>>} |->
                        IF k = <<t, i>> THEN record ELSE table[k]]
    PROVE  TablePromise!Store(t, i, record)
<1>1. \A u \in Type : Stored(u)' = IF u = t THEN Stored(t) \cup {i} ELSE Stored(u)
    BY DEF Stored
<1>2. \A u \in Type : \A j \in Stored(u)' :
        table'[<<u, j>>] = IF u = t /\ j = i THEN record ELSE table[<<u, j>>]
    BY DEF Stored
<1>3. RecordsOf' = [RecordsOf EXCEPT ![t] =
          [j \in DOMAIN RecordsOf[t] \cup {i} |-> IF j = i THEN record ELSE RecordsOf[t][j]]]
  <2>1. RecordsOf' = [u \in Type |-> [j \in Stored(u)' |-> table'[<<u, j>>]]]
    BY DEF RecordsOf, Stored
  <2>2. ASSUME NEW u \in Type, u # t
        PROVE  [j \in Stored(u)' |-> table'[<<u, j>>]] = RecordsOf[u]
    <3>1. Stored(u)' = Stored(u) /\ \A j \in Stored(u) : table'[<<u, j>>] = table[<<u, j>>]
      BY <1>1, <1>2, <2>2
    <3>2. RecordsOf[u] = [j \in Stored(u) |-> table[<<u, j>>]]
      BY TableReads
    <3> QED
      BY <3>1, <3>2
  <2>3. [j \in Stored(t)' |-> table'[<<t, j>>]]
        = [j \in DOMAIN RecordsOf[t] \cup {i} |-> IF j = i THEN record ELSE RecordsOf[t][j]]
    <3>1. RecordsOf[t] = [j \in Stored(t) |-> table[<<t, j>>]]
      BY TableReads
    <3>2. /\ DOMAIN RecordsOf[t] = Stored(t)
          /\ \A j \in Stored(t) : RecordsOf[t][j] = table[<<t, j>>]
      BY <3>1
    <3>3. Stored(t)' = Stored(t) \cup {i}
      BY <1>1
    <3>4. \A j \in Stored(t) \cup {i} :
            table'[<<t, j>>] = IF j = i THEN record ELSE RecordsOf[t][j]
      BY <1>2, <3>2, <3>3
    <3> QED
      BY <3>2, <3>3, <3>4
  <2>4. DOMAIN RecordsOf = Type /\ RecordsOf = [u \in Type |-> RecordsOf[u]]
    BY DEF RecordsOf
  <2>5. PICK new : new =
          [j \in DOMAIN RecordsOf[t] \cup {i} |-> IF j = i THEN record ELSE RecordsOf[t][j]]
    OBVIOUS
  <2>6. ASSUME NEW u \in Type PROVE RecordsOf'[u] = IF u = t THEN new ELSE RecordsOf[u]
    <3>1. RecordsOf'[u] = [j \in Stored(u)' |-> table'[<<u, j>>]]
      BY <2>1
    <3>2. CASE u = t
      BY <2>3, <2>5, <3>1, <3>2
    <3>3. CASE u # t
      BY <2>2, <3>1, <3>3
    <3> QED
      BY <3>2, <3>3
  <2>7. RecordsOf' = [u \in Type |-> RecordsOf'[u]]
    BY <2>1
  <2>8. RecordsOf' = [RecordsOf EXCEPT ![t] = new]
    BY <2>4, <2>6, <2>7
  <2> QED
    BY <2>5, <2>8
<1>4. \A u \in Type, j \in Id : Scans'[u][j] =
          IF j \in Stored(u)' THEN Holds(table'[<<u, j>>]) ELSE {}
  <2> SUFFICES ASSUME NEW u \in Type, NEW j \in Id
               PROVE  Scans'[u][j] = IF j \in Stored(u)' THEN Holds(table'[<<u, j>>]) ELSE {}
    OBVIOUS
  <2>1. Scans'[u][j] =
          {p \in Field \X Value : j \in Stored(u)' /\ table'[<<u, j>>].fields[p[1]] = p[2]}
    BY DEF Scans, Scanned, Stored
  <2> QED
    BY <2>1 DEF Holds
<1>5. Scans' = [Scans EXCEPT ![t][i] = Holds(record)]
  <2>1. Scans' = [u \in Type |-> [j \in Id |-> Scans'[u][j]]]
    BY DEF Scans
  <2>2. ASSUME NEW u \in Type, NEW j \in Id
        PROVE  Scans'[u][j] = IF u = t /\ j = i THEN Holds(record) ELSE Scans[u][j]
    <3>1. Scans'[u][j] = IF j \in Stored(u)' THEN Holds(table'[<<u, j>>]) ELSE {}
      BY <1>4
    <3>2. Scans[u][j] = IF j \in Stored(u) THEN Holds(table[<<u, j>>]) ELSE {}
      BY TableReads
    <3>3. CASE u = t /\ j = i
      BY <1>1, <1>2, <3>1, <3>3
    <3>4. CASE ~(u = t /\ j = i)
      <4>1. j \in Stored(u)' <=> j \in Stored(u)
        BY <1>1, <3>4
      <4>2. j \in Stored(u) => table'[<<u, j>>] = table[<<u, j>>]
        BY <1>2, <3>4, <4>1
      <4> QED
        BY <3>1, <3>2, <3>4, <4>1, <4>2
    <3> QED
      BY <3>3, <3>4
  <2>3. Scans = [u \in Type |-> [j \in Id |-> Scans[u][j]]]
    BY DEF Scans
  <2> QED
    BY <2>1, <2>2, <2>3
<1>6. ObjectTypes' = ObjectTypes \cup {t}
    BY <1>1 DEF ObjectTypes, Stored
<1>7. TablePromise!Indexed(t, record) \subseteq Holds(record)
    BY TablePromiseWords DEF TablePromise!Indexed
<1> QED
    BY <1>3, <1>5, <1>6, <1>7, TablePromiseWords DEF TablePromise!Store

\* A row that is deleted leaves its record out, and its type if it was the last.
LEMMA RowDeletionKeepsPromise ==
    ASSUME NEW t \in Type, NEW i \in Id, DeleteRow(t, i)
    PROVE  TablePromise!Delete(t, i)
<1>1. \A u \in Type : Stored(u)' = IF u = t THEN Stored(t) \ {i} ELSE Stored(u)
    BY DEF DeleteRow, Stored
<1>2. \A u \in Type : \A j \in Stored(u)' : table'[<<u, j>>] = table[<<u, j>>]
    BY DEF DeleteRow, Stored
<1>3. i \in Stored(t) /\ DOMAIN RecordsOf = Type
    BY DEF DeleteRow, RecordsOf
<1>4. ASSUME NEW u \in Type
      PROVE  /\ DOMAIN RecordsOf[u] = Stored(u)
             /\ \A j \in Stored(u) : RecordsOf[u][j] = table[<<u, j>>]
  <2>1. RecordsOf[u] = [j \in Stored(u) |-> table[<<u, j>>]]
    BY TableReads
  <2> QED
    BY <2>1
<1>5. RecordsOf' = [RecordsOf EXCEPT ![t] = [j \in DOMAIN RecordsOf[t] \ {i} |-> RecordsOf[t][j]]]
  <2>1. RecordsOf' = [u \in Type |-> [j \in Stored(u)' |-> table'[<<u, j>>]]]
    BY DEF RecordsOf, Stored
  <2>2. PICK new : new = [j \in DOMAIN RecordsOf[t] \ {i} |-> RecordsOf[t][j]]
    OBVIOUS
  <2>3. ASSUME NEW u \in Type
        PROVE  RecordsOf'[u] = IF u = t THEN new ELSE RecordsOf[u]
    <3>1. RecordsOf'[u] = [j \in Stored(u)' |-> table'[<<u, j>>]]
      BY <2>1
    <3>2. CASE u = t
      <4>1. Stored(u)' = DOMAIN RecordsOf[t] \ {i}
        BY <1>1, <1>4, <3>2
      <4>2. \A j \in Stored(u)' : table'[<<u, j>>] = RecordsOf[t][j]
        BY <1>2, <1>4, <3>2, <4>1
      <4> QED
        BY <2>2, <3>1, <3>2, <4>1, <4>2
    <3>3. CASE u # t
      <4>1. Stored(u)' = Stored(u) /\ \A j \in Stored(u) : table'[<<u, j>>] = table[<<u, j>>]
        BY <1>1, <1>2, <3>3
      <4>2. RecordsOf[u] = [j \in Stored(u) |-> table[<<u, j>>]]
        BY TableReads
      <4> QED
        BY <3>1, <3>3, <4>1, <4>2
    <3> QED
      BY <3>2, <3>3
  <2>4. RecordsOf' = [u \in Type |-> RecordsOf'[u]] /\ RecordsOf = [u \in Type |-> RecordsOf[u]]
    BY <2>1 DEF RecordsOf
  <2>5. RecordsOf' = [RecordsOf EXCEPT ![t] = new]
    BY <2>3, <2>4
  <2> QED
    BY <2>2, <2>5
<1>6. Scans' = [Scans EXCEPT ![t][i] = {}]
  <2>1. Scans' = [u \in Type |-> [j \in Id |-> Scans'[u][j]]]
    BY DEF Scans
  <2>2. ASSUME NEW u \in Type, NEW j \in Id
        PROVE  Scans'[u][j] = IF u = t /\ j = i THEN {} ELSE Scans[u][j]
    <3>1. Scans'[u][j] =
            {p \in Field \X Value : j \in Stored(u)' /\ table'[<<u, j>>].fields[p[1]] = p[2]}
      BY DEF Scans, Scanned, Stored
    <3>2. Scans[u][j] =
            {p \in Field \X Value : j \in Stored(u) /\ table[<<u, j>>].fields[p[1]] = p[2]}
      BY DEF Scans, Scanned
    <3>3. CASE u = t /\ j = i
      BY <1>1, <3>1, <3>3
    <3>4. CASE ~(u = t /\ j = i)
      <4>1. j \in Stored(u)' <=> j \in Stored(u)
        BY <1>1, <3>4
      <4>2. j \in Stored(u)' => table'[<<u, j>>] = table[<<u, j>>]
        BY <1>2
      <4>3. \A p \in Field \X Value : p \in Scans'[u][j] <=> p \in Scans[u][j]
        BY <3>1, <3>2, <4>1, <4>2
      <4> QED
        BY <3>1, <3>2, <3>4, <4>3
    <3> QED
      BY <3>3, <3>4
  <2>3. Scans = [u \in Type |-> [j \in Id |-> Scans[u][j]]]
    BY DEF Scans
  <2> QED
    BY <2>1, <2>2, <2>3
<1>7. ObjectTypes' = IF DOMAIN RecordsOf[t] = {i} THEN ObjectTypes \ {t} ELSE ObjectTypes
  <2>1. ObjectTypes' = {u \in Type : Stored(u)' # {}}
    BY DEF ObjectTypes, Stored
  <2>2. DOMAIN RecordsOf[t] = Stored(t)
    BY <1>4
  <2> QED
    BY <1>1, <1>3, <2>1, <2>2 DEF ObjectTypes
<1>8. i \in DOMAIN RecordsOf[t]
    BY <1>3, <1>4
<1> QED
    BY <1>5, <1>6, <1>7, <1>8 DEF TablePromise!Delete

\* Every call of the SQLite store is a call of the promised one, an Update at its
\* second statement, and it finds records by what they hold and nothing else;
\* a failed call and the death of the process change nothing (SQLiteStore).
THEOREM SqliteStoreKeepsPromise == SqliteSpec => TableImplementsRecordStore
<1>1. ASSUME table = <<>>
      PROVE  TablePromise!Nothing
  <2>1. ASSUME NEW t \in Type PROVE Stored(t) = {} /\ RecordsOf[t] = <<>>
    <3>1. Stored(t) = {}
      BY <1>1 DEF Stored
    <3>2. RecordsOf[t] = [i \in {} |-> table[<<t, i>>]]
      BY <3>1 DEF RecordsOf
    <3> QED
      BY <3>1, <3>2
  <2>2. RecordsOf = [t \in Type |-> <<>>]
    BY <2>1 DEF RecordsOf
  <2>3. Scans = [t \in Type |-> [i \in Id |-> {}]]
    BY <2>1 DEF Scans, Scanned
  <2>4. ObjectTypes = {}
    BY <2>1 DEF ObjectTypes
  <2> QED
    BY <2>2, <2>3, <2>4 DEF TablePromise!Nothing
<1>2. SqliteInit => TablePromise!Init
    BY <1>1 DEF SqliteInit, TablePromise!Init
<1>3. TableInv /\ [SqliteNext]_sqliteVars => [TablePromise!Next]_TablePromise!promised
  <2> SUFFICES ASSUME TableInv, [SqliteNext]_sqliteVars
               PROVE  [TablePromise!Next]_TablePromise!promised
    OBVIOUS
  <2>1. ASSUME NEW t \in Type, NEW i \in Id, NEW fields \in Fields, CreateRow(t, i, fields)
        PROVE  TablePromise!Next
    <3>1. PICK record : record = [Id |-> i, fields |-> fields]
      OBVIOUS
    <3>2. record \in Record
      BY <3>1 DEF Record
    <3>3. TablePromise!Store(t, i, record)
      BY <2>1, <3>1, <3>2, RowKeepsPromise DEF CreateRow
    <3>4. TablePromise!Create(t, i, fields)
      BY <3>1, <3>3 DEF TablePromise!Create
    <3> QED
      BY <3>4, TablePromiseWords DEF TablePromise!Next
  <2>2. ASSUME NEW c \in Call, UpdateRow(c)
        PROVE  TablePromise!Next
    <3>1. PICK t \in Type, i \in Id : updating[c].key = <<t, i>>
      BY <2>2 DEF UpdateRow, TableInv, TableTypeOK, RowKey
    <3>2. PICK patch \in Patches : updating[c].patch = patch
      BY <2>2 DEF UpdateRow, TableInv, TableTypeOK
    <3>3. /\ <<t, i>> \in DOMAIN table /\ i \in Stored(t)
          /\ updating[c].existing = table[<<t, i>>] /\ table[<<t, i>>] \in Record
      BY <2>2, <3>1 DEF UpdateRow, TableInv, TableTypeOK, Fresh, Stored
    <3>4. PICK record : record = Merged(table[<<t, i>>], patch)
      OBVIOUS
    <3>5. record \in Record
      BY <3>3, <3>4, MergedRecord
    <3>6. table' = [table EXCEPT ![<<t, i>>] = record]
      BY <2>2, <3>1, <3>2, <3>3, <3>4 DEF UpdateRow
    <3>7. table' = [k \in DOMAIN table \cup {<<t, i>>} |->
                        IF k = <<t, i>> THEN record ELSE table[k]]
      BY <3>3, <3>6
    <3>8. TablePromise!Store(t, i, record)
      BY <3>5, <3>7, RowKeepsPromise
    <3>9. RecordsOf[t] = [j \in Stored(t) |-> table[<<t, j>>]]
      BY TableReads
    <3>10. i \in DOMAIN RecordsOf[t] /\ RecordsOf[t][i] = table[<<t, i>>]
      BY <3>3, <3>9
    <3>11. TablePromise!Update(t, i, patch)
      BY <3>4, <3>8, <3>10, TablePromiseWords DEF TablePromise!Update
    <3> QED
      BY <3>11, TablePromiseWords DEF TablePromise!Next
  <2>3. ASSUME NEW t \in Type, NEW i \in Id, DeleteRow(t, i)
        PROVE  TablePromise!Next
    BY <2>3, RowDeletionKeepsPromise DEF TablePromise!Next
  <2>4. CASE ClearTable
    <3>1. \A t \in Type : Stored(t)' = {}
      BY <2>4 DEF ClearTable, Stored
    <3>2. RecordsOf' = [t \in Type |-> <<>>]
      <4>1. ASSUME NEW t \in Type PROVE [i \in Stored(t)' |-> table'[<<t, i>>]] = <<>>
        <5>1. [i \in Stored(t)' |-> table'[<<t, i>>]] = [i \in {} |-> table'[<<t, i>>]]
          BY <3>1
        <5> QED
          BY <5>1
      <4>2. RecordsOf' = [t \in Type |-> [i \in Stored(t)' |-> table'[<<t, i>>]]]
        BY DEF RecordsOf, Stored
      <4> QED
        BY <4>1, <4>2
    <3>3. Scans' = [t \in Type |-> [i \in Id |-> {}]]
      BY <3>1 DEF Scans, Scanned
    <3>4. ObjectTypes' = {}
      BY <3>1 DEF ObjectTypes
    <3> QED
      BY <3>2, <3>3, <3>4 DEF TablePromise!Next, TablePromise!Clear, TablePromise!Nothing
  <2>5. ASSUME table' = table
        PROVE  UNCHANGED TablePromise!promised
    BY <2>5 DEF TablePromise!promised, RecordsOf, Scans, Scanned, ObjectTypes, Stored
  <2>6. CASE \/ \E t \in Type, i \in Id, c \in Call, patch \in Patches :
                    SelectExisting(c, t, i, patch)
             \/ \E c \in Call : UpdateFails(c)
             \/ StatementFails
             \/ Reopen
             \/ UNCHANGED sqliteVars
    BY <2>5, <2>6 DEF SelectExisting, UpdateFails, StatementFails, Reopen, sqliteVars
  <2> QED
    BY <2>1, <2>2, <2>3, <2>4, <2>6 DEF SqliteNext
<1> QED
    BY <1>2, <1>3, TableInductive, PTL
    DEF SqliteSpec, TableImplementsRecordStore, TablePromise!Spec

-----------------------------------------------------------------------------
(* The server, with either store. *)

\* The variables of both stores keep their types.
THEOREM EitherStoreTyped == StoresSpec => []StoresTypeOK
<1>1. TypeOK /\ TableTypeOK => StoresTypeOK
    BY DEF StoresTypeOK
<1> QED
    BY <1>1, StoresBehaveAsAlone, StoreWithDiscovery, TypeCorrect, TableTypeCorrect, PTL

\* Whatever was created, overwritten, patched and deleted before, the indexes miss
\* no record, name none twice and none that is gone (updateIndexes, removeFromIndexes).
THEOREM IndexesDoFollow == StoresSpec => []IndexesFollowRecords
<1>1. IndexComplete /\ EntriesExact => IndexesFollowRecords
    BY DEF IndexesFollowRecords
<1> QED
    BY <1>1, StoresBehaveAsAlone, StoreWithDiscovery, LookupsMissNothing,
       EntriesFollowRecords, PTL

\* Either store keeps the promise of store.Store to the handlers that share it.
THEOREM EitherStoreKeepsPromise == StoresSpec => StoreKeepsPromise
    BY StoresBehaveAsAlone, StoreWithDiscovery, MemoryStoreKeepsPromise,
       SqliteStoreKeepsPromise, NoUpdateIsLost, PTL DEF StoreKeepsPromise
=============================================================================
