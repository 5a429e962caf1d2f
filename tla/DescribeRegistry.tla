------------------------- MODULE DescribeRegistry -------------------------
(***************************************************************************)
(* The registry of object types (internal/schema), which answers SOQL      *)
(* queries of EntityDefinition and FieldDefinition and describes these two *)
(* types.  Fields are written as in DescribeTable.                         *)
(***************************************************************************)
EXTENDS DescribeFields, Sequences

commonFields ==
    Plain({"Id"}, "id", Fixed) \cup Plain({"CreatedDate"}, "datetime", Fixed)
    \cup Plain({"LastModifiedDate"}, "datetime", FixedOptional)

accountMeta ==
    Plain({"Name"}, "string", Free)
    \cup Plain({"Industry", "Type"}, "picklist", Optional)
    \cup Plain({"Website"}, "url", Optional)
    \cup Plain({"Phone"}, "phone", Optional)

contactMeta ==
    Plain({"FirstName"}, "string", Optional)
    \cup Plain({"LastName"}, "string", Free)
    \cup Plain({"Email"}, "email", Optional)
    \cup Plain({"Phone"}, "phone", Optional)
    \cup References({"AccountId"}, {"Account"}, Optional)

userMeta ==
    Plain({"Name"}, "string", Fixed)
    \cup Plain({"FirstName"}, "string", Optional)
    \cup Plain({"LastName", "Username"}, "string", Free)
    \cup Plain({"Email"}, "email", Free)
    \cup Plain({"IsActive"}, "boolean", Free)

caseMeta ==
    Plain({"CaseNumber"}, "string", Fixed)
    \cup Plain({"Subject"}, "string", Optional)
    \cup Plain({"Status"}, "picklist", Free)
    \cup Plain({"Priority"}, "picklist", Optional)
    \cup Plain({"Description"}, "textarea", LongText)
    \cup References({"AccountId"}, {"Account"}, Optional)
    \cup References({"ContactId"}, {"Contact"}, Optional)
    \cup References({"OwnerId"}, {"User", "Group"}, Free)

emailMessageMeta ==
    References({"ParentId"}, {"Case"}, Optional)
    \cup Plain({"Subject"}, "string", Optional)
    \cup Plain({"TextBody", "HtmlBody"}, "textarea", LongText)
    \cup Plain({"FromAddress", "ToAddress"}, "email", Optional)
    \cup Plain({"MessageDate"}, "datetime", Optional)
    \cup Plain({"Incoming"}, "boolean", Free)

caseCommentMeta ==
    References({"ParentId"}, {"Case"}, Once)
    \cup Plain({"CommentBody"}, "textarea", LongText)
    \cup Plain({"IsPublished"}, "boolean", Free)
    \cup References({"CreatedById"}, {"User"}, Fixed)

feedItemMeta ==
    References({"ParentId"}, {"Case", "Account", "Contact", "User"}, Once)
    \cup Plain({"Body"}, "textarea", LongText)
    \cup Plain({"Type"}, "picklist", Once)
    \cup References({"CreatedById"}, {"User"}, Fixed)

\* A bug: a comment of the feed refers to cases only.
feedCommentMetaCases ==
    References({"FeedItemId"}, {"FeedItem"}, Once)
    \cup References({"ParentId"}, {"Case"}, OnceOptional)
    \cup Plain({"CommentBody"}, "textarea", LongText)
    \cup References({"CreatedById"}, {"User"}, Fixed)

feedCommentMeta ==
    References({"FeedItemId"}, {"FeedItem"}, Once)
    \cup References({"ParentId"}, {"Case", "Account", "Contact", "User"}, OnceOptional)
    \cup Plain({"CommentBody"}, "textarea", LongText)
    \cup References({"CreatedById"}, {"User"}, Fixed)

taskMeta ==
    References({"WhoId"}, {"Contact", "Lead"}, Optional)
    \cup References({"WhatId"}, {"Account", "Case", "Opportunity"}, Optional)
    \cup Plain({"Subject"}, "string", Optional)
    \cup Plain({"ActivityDate"}, "date", Optional)
    \cup Plain({"Status"}, "picklist", Free)
    \cup Plain({"Priority"}, "picklist", Optional)
    \cup References({"OwnerId"}, {"User", "Group"}, Free)
    \cup Plain({"Description"}, "textarea", LongText)

eventMeta ==
    References({"WhoId"}, {"Contact", "Lead"}, Optional)
    \cup References({"WhatId"}, {"Account", "Case", "Opportunity"}, Optional)
    \cup Plain({"Subject", "Location"}, "string", Optional)
    \cup Plain({"ActivityDateTime"}, "datetime", Optional)
    \cup Plain({"DurationInMinutes"}, "int", Optional)
    \cup References({"OwnerId"}, {"User", "Group"}, Free)
    \cup Plain({"Description"}, "textarea", LongText)

contentDocumentMeta ==
    Plain({"Title"}, "string", Renamed)
    \cup Plain({"FileType"}, "string", FixedOptional)
    \cup Plain({"ContentSize"}, "int", FixedOptional)
    \cup References({"OwnerId"}, {"User"}, Renamed)

contentVersionMeta ==
    References({"ContentDocumentId"}, {"ContentDocument"}, OnceOptional)
    \cup Plain({"Title"}, "string", Free)
    \cup Plain({"VersionNumber"}, "string", FixedOptional)
    \cup Plain({"FileType"}, "string", OnceOptional)
    \cup Plain({"ContentSize"}, "int", FixedOptional)

entityDefinitionMeta ==
    Plain({"QualifiedApiName", "DeveloperName", "MasterLabel", "Label", "PluralLabel"}, "string", Fixed)
    \cup Plain({"KeyPrefix"}, "string", FixedOptional)
    \cup Plain({"IsCustomizable"}, "boolean", Fixed)

fieldDefinitionMeta ==
    Plain({"QualifiedApiName", "DeveloperName", "Label", "DataType", "EntityDefinitionId"}, "string", Fixed)
    \cup Plain({"Length"}, "int", FixedOptional)
    \cup Plain({"IsNillable"}, "boolean", Fixed)

Named(custom, prefix) == [fields |-> commonFields \cup custom, keyPrefix |-> prefix]

\* builtinObjects, in the order init registers them.
Names ==
    <<"Account", "Contact", "User", "Case", "EmailMessage", "CaseComment", "FeedItem",
      "FeedComment", "Task", "Event", "ContentDocument", "ContentVersion",
      "EntityDefinition", "FieldDefinition">>

\* Get, for a name of Names.
registry ==
    [Account |-> Named(accountMeta, "001"),
     Contact |-> Named(contactMeta, "003"),
     User |-> Named(userMeta, "005"),
     Case |-> Named(caseMeta, "500"),
     EmailMessage |-> Named(emailMessageMeta, "02s"),
     CaseComment |-> Named(caseCommentMeta, "00a"),
     FeedItem |-> Named(feedItemMeta, "0D5"),
     FeedComment |-> Named(feedCommentMeta, "0D7"),
     Task |-> Named(taskMeta, "00T"),
     Event |-> Named(eventMeta, "00U"),
     ContentDocument |-> Named(contentDocumentMeta, "069"),
     ContentVersion |-> Named(contentVersionMeta, "068"),
     EntityDefinition |-> Named(entityDefinitionMeta, "000"),
     FieldDefinition |-> Named(fieldDefinitionMeta, "000")]

\* The columns of the two record builders.
EntityDefinitionColumns ==
    {"Id", "QualifiedApiName", "DeveloperName", "MasterLabel", "Label", "KeyPrefix",
     "PluralLabel", "IsCustomizable"}
FieldDefinitionColumns ==
    {"Id", "QualifiedApiName", "DeveloperName", "Label", "DataType", "Length", "IsNillable",
     "EntityDefinitionId", "EntityDefinition"}

\* EntityDefinitionRecords: the rows a SOQL query selects from.
EntityDefinitionRecords ==
    {[QualifiedApiName |-> t, KeyPrefix |-> registry[t].keyPrefix] : t \in DOMAIN registry}

\* FieldDefinitionRecords: a row for every field of every type.
FieldDefinitionRecords ==
    UNION {{[Entity |-> t, QualifiedApiName |-> f.name, DataType |-> f.type,
             IsNillable |-> "nillable" \in f.access] : f \in registry[t].fields}
            : t \in DOMAIN registry}
=============================================================================
