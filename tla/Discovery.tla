----------------------------- MODULE Discovery -----------------------------
(***************************************************************************)
(* Schema discovery over the in-memory store: the REST describe            *)
(* (internal/handlers/sobject.go), the SOQL virtual objects (internal/     *)
(* schema) and the relationships of the SOQL executor, while records of    *)
(* described and of undescribed types come and go.                         *)
(*                                                                         *)
(* A client lists the types once and asks for the fields of each later:    *)
(* what it listed must still be there.  The other answers are functions of *)
(* the store, so they are operators; a describe changes nothing.           *)
(***************************************************************************)
EXTENDS MemoryStore, Sequences, SequencesExt

CONSTANT Fold(_)    \* Fold(t): the name t in lower case

VARIABLES
    typed,    \* the keys of s.data: types a record was ever created for
    listed    \* the types of the global describe a client holds, by place

discoveryVars == <<vars, typed, listed>>

Table == INSTANCE DescribeTable
Registry == INSTANCE DescribeRegistry

NotFound == [fields |-> {}, keyPrefix |-> ""]

\* A bug: the prefixes of the types added last are missing.
getIDPrefixOld(t) ==
    LET prefixes == [Account |-> "001", Contact |-> "003", Case |-> "500", User |-> "005",
                     CaseComment |-> "00a", EmailMessage |-> "02s", FeedItem |-> "0D5"]
    IN  IF t \in DOMAIN prefixes THEN prefixes[t] ELSE "000"

\* getIDPrefix: the first characters of the ids the store generates for t.
getIDPrefix(t) ==
    LET prefixes == [Account |-> "001", Contact |-> "003", Case |-> "500", User |-> "005",
                     CaseComment |-> "00a", EmailMessage |-> "02s", FeedItem |-> "0D5",
                     FeedComment |-> "0D7", Task |-> "00T", Event |-> "00U",
                     ContentDocument |-> "069", ContentVersion |-> "068"]
    IN  IF t \in DOMAIN prefixes THEN prefixes[t] ELSE "000"

\* A bug: the types whose lists the account page shows have no index.
indexedFieldsByTypeOld ==
    [EmailMessage |-> {"ParentId"}, CaseComment |-> {"ParentId"}, FeedItem |-> {"ParentId"},
     FeedComment |-> {"FeedItemId", "ParentId"}, Task |-> {"WhoId", "WhatId"},
     Event |-> {"WhoId", "WhatId"}, ContentVersion |-> {"ContentDocumentId"}]

\* The fields the store indexes by type (NewMemoryStore).
indexedFieldsByType ==
    [EmailMessage |-> {"ParentId"}, CaseComment |-> {"ParentId"}, FeedItem |-> {"ParentId"},
     FeedComment |-> {"FeedItemId", "ParentId"}, Task |-> {"WhoId", "WhatId"},
     Event |-> {"WhoId", "WhatId"}, ContentVersion |-> {"ContentDocumentId"},
     Contact |-> {"AccountId"}, Case |-> {"AccountId"}]

\* getObjectMetadata: the table, the registry, or any stored type of this name
\* whatever its case.
getObjectMetadata(t) ==
    IF t \in DOMAIN Table!objectMeta THEN Table!objectMeta[t]
    ELSE IF t \in DOMAIN Registry!registry THEN Registry!registry[t]
    ELSE IF \E s \in typed : Fold(s) = Fold(t)
    THEN [fields |-> Table!commonFields, keyPrefix |-> "000"]
    ELSE NotFound

known ==
    <<"Account", "Contact", "User", "Case", "EmailMessage", "CaseComment", "FeedItem",
      "FeedComment", "Task", "Event", "ContentDocument", "ContentVersion">>

\* A bug: the types found in the store are listed too.
globalDescribeTypesStored ==
    known \o SetToSeq(typed \ Range(known))

\* globalDescribeTypes: the table's types, then what only the registry has.  A
\* list that leaves entries out is a map from the places of those it keeps.
globalDescribeTypes ==
    LET all == known \o Registry!Names
    IN  Restrict(all, {k \in DOMAIN all : k <= Len(known) \/ all[k] \notin Range(known)})

\* A bug: the activities of a case are found by the contact's key.
childRelationshipMetaWho ==
    {<<"Case", "CaseComment", "ParentId">>, <<"Case", "Task", "WhoId">>,
     <<"Case", "Event", "WhoId">>}

\* childRelationshipMeta: parent type, child type and the child's key.
childRelationshipMeta ==
    {<<"Account", "Case", "AccountId">>, <<"Account", "Contact", "AccountId">>,
     <<"Case", "CaseComment", "ParentId">>, <<"Case", "EmailMessage", "ParentId">>,
     <<"Case", "FeedItem", "ParentId">>, <<"Case", "Task", "WhatId">>,
     <<"Case", "Event", "WhatId">>, <<"Case", "ContentDocumentLink", "LinkedEntityId">>,
     <<"Contact", "Case", "ContactId">>,
     <<"User", "Case", "OwnerId">>, <<"FeedItem", "FeedComment", "FeedItemId">>}

\* relationshipMeta: target type, type and its key.
relationshipMeta ==
    {<<"Account", "Case", "AccountId">>, <<"User", "Case", "OwnerId">>,
     <<"User", "Case", "CreatedById">>, <<"User", "CaseComment", "CreatedById">>, <<"User", "FeedItem", "CreatedById">>}

\* The lists that the page of a case looks up: parent type, child type and key.
caseLists ==
    {<<"Case", "EmailMessage", "ParentId">>, <<"Case", "CaseComment", "ParentId">>,
     <<"Case", "FeedItem", "ParentId">>, <<"FeedItem", "FeedComment", "FeedItemId">>,
     <<"Case", "Task", "WhatId">>, <<"Case", "Event", "WhatId">>}

\* The lists that the page of an account looks up.
accountLists == {<<"Account", "Case", "AccountId">>, <<"Account", "Contact", "AccountId">>}

-----------------------------------------------------------------------------

DiscoveryInit == Init /\ typed = {} /\ listed = <<>>

\* A record with no more than the fields its type indexes: nothing reads others.
Bare(t, fields) == \A f \in DOMAIN fields : fields[f] # Absent => f \in indexedFields[t]

\* The store keeps a type when its last record goes, and forgets it on Clear.
StoreCall ==
    /\ \/ \E t \in Type, i \in Id :
            \/ \E fields \in Fields :
                Bare(t, fields) /\ Create(t, i, fields) /\ typed' = typed \cup {t}
            \/ \E patch \in Patches : Bare(t, patch) /\ Update(t, i, patch) /\ typed' = typed
            \/ Delete(t, i) /\ typed' = typed
       \/ Clear /\ typed' = {}
    /\ UNCHANGED listed

\* GET /sobjects/
HandleGlobalDescribe ==
    /\ LET types == globalDescribeTypes
       IN  listed' = Restrict(types, {k \in DOMAIN types : getObjectMetadata(types[k]) # NotFound})
    /\ UNCHANGED <<vars, typed>>

DiscoveryNext == StoreCall \/ HandleGlobalDescribe

DiscoverySpec == DiscoveryInit /\ [][DiscoveryNext]_discoveryVars

-----------------------------------------------------------------------------
(* Properties. *)

\* What a client listed it can describe later, whatever was deleted or reset
\* in between, and no type is listed twice (HandleGlobalDescribe,
\* HandleDescribe).
ListedTypesDescribed ==
    /\ \A k \in DOMAIN listed : getObjectMetadata(listed[k]) # NotFound
    /\ \A k, m \in DOMAIN listed : listed[k] = listed[m] => k = m

\* A type that has records is described, and under the prefix the store gives
\* its ids; a type that is described at all keeps that prefix to itself, "000"
\* apart, so that an id tells its type (generateID, getObjectMetadata).
StoredTypesDescribed ==
    /\ \A t \in Type :
        Records(t) # {} => /\ getObjectMetadata(t) # NotFound
                           /\ getObjectMetadata(t).keyPrefix = getIDPrefix(t)
    /\ \A t, u \in Range(globalDescribeTypes) :
        getIDPrefix(t) = getIDPrefix(u) => t = u \/ getIDPrefix(t) = "000"

\* The two ways to discover the schema agree on every type: SOQL's EntityDefinition
\* and FieldDefinition show the prefix and the fields the REST describe shows, and
\* the two tables give a field the same references and access (builtinObjects
\* "mirrors the legacy describe table", schema/builtin.go).
DiscoveryAgrees ==
    \A e \in Registry!EntityDefinitionRecords :
        LET described == getObjectMetadata(e.QualifiedApiName)
        IN  /\ described.keyPrefix = e.KeyPrefix
            /\ described.fields = Registry!registry[e.QualifiedApiName].fields
            /\ {<<r.QualifiedApiName, r.DataType, r.IsNillable>> :
                    r \in {s \in Registry!FieldDefinitionRecords : s.Entity = e.QualifiedApiName}}
               = {<<f.name, f.type, "nillable" \in f.access>> : f \in described.fields}

\* The records of the virtual objects do not have all the fields these objects
\* are described with: they lack the two dates of commonFields, "the
\* always-present audit fields on every SObject" (schema/registry.go), and only
\* these.  Beyond what is described they have one nested object, in which a
\* relationship field of FieldDefinition is found (schema/virtual.go).
VirtualColumnsKnown ==
    LET described(t) == {f.name : f \in Registry!registry[t].fields}
        dates == {"CreatedDate", "LastModifiedDate"}
    IN  /\ described("EntityDefinition") \ Registry!EntityDefinitionColumns = dates
        /\ Registry!EntityDefinitionColumns \subseteq described("EntityDefinition")
        /\ described("FieldDefinition") \ Registry!FieldDefinitionColumns = dates
        /\ Registry!FieldDefinitionColumns \ described("FieldDefinition") = {"EntityDefinition"}

\* Every key that a subquery, a relationship field or an index follows is a
\* field its type describes as a reference to the other side, one a client may
\* filter by (childRelationshipMeta, relationshipMeta, indexedFields), and a list
\* that a page looks up is one the store has an index for: without one the lookup
\* finds nothing and reports no error.  Two are followed that no table describes.
KeysDescribed ==
    /\ \A r \in caseLists \cup accountLists :
        r[2] \in DOMAIN indexedFieldsByType /\ r[3] \in indexedFieldsByType[r[2]]
    /\ \A r \in (childRelationshipMeta \cup relationshipMeta \cup caseLists \cup accountLists)
                \ {<<"Case", "ContentDocumentLink", "LinkedEntityId">>,
                   <<"User", "Case", "CreatedById">>} :
        \E f \in getObjectMetadata(r[2]).fields :
            f.name = r[3] /\ r[1] \in f.refs /\ "filterable" \in f.access
    /\ \A t \in DOMAIN indexedFieldsByType : \A x \in indexedFieldsByType[t] :
        \E f \in getObjectMetadata(t).fields :
            f.name = x /\ f.type = "reference" /\ "filterable" \in f.access

\* Types are listed, stored and described from three tables kept by hand; what
\* one of them names the others know, in the same way, except that the records
\* of the virtual objects lack the two audit dates they are described with.
TypesDescribed ==
    ListedTypesDescribed /\ StoredTypesDescribed /\ DiscoveryAgrees /\ VirtualColumnsKnown

\* The pairs a lookup finds a record by.
Lookups ==
    [t \in Type |-> [i \in Id |->
        {p \in Field \X Value : i \in GetByIndex(t, p[1], p[2])}]]

Promise == INSTANCE RecordStore WITH records <- data, found <- Lookups, types <- typed

\* The in-memory store keeps what store.Store promises: a record is found by all
\* its indexed fields and, after any reuse of its id, by nothing but what it
\* held itself.
ImplementsRecordStore == Promise!Spec
=============================================================================
