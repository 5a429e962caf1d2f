--------------------------- MODULE DescribeTable ---------------------------
(***************************************************************************)
(* The object types of the REST describe (getObjectMetadata in             *)
(* internal/handlers/sobject.go).                                          *)
(***************************************************************************)
EXTENDS DescribeFields

commonFields ==
    Plain({"Id"}, "id", Fixed) \cup Plain({"CreatedDate"}, "datetime", Fixed)
    \cup Plain({"LastModifiedDate"}, "datetime", FixedOptional)

Case ==
    Plain({"CaseNumber"}, "string", Fixed)
    \cup Plain({"Subject"}, "string", Optional)
    \cup Plain({"Status"}, "picklist", Free)
    \cup Plain({"Priority"}, "picklist", Optional)
    \cup Plain({"Description"}, "textarea", LongText)
    \cup References({"AccountId"}, {"Account"}, Optional)
    \cup References({"ContactId"}, {"Contact"}, Optional)
    \cup References({"OwnerId"}, {"User", "Group"}, Free)

EmailMessage ==
    References({"ParentId"}, {"Case"}, Optional)
    \cup Plain({"Subject"}, "string", Optional)
    \cup Plain({"TextBody", "HtmlBody"}, "textarea", LongText)
    \cup Plain({"FromAddress", "ToAddress"}, "email", Optional)
    \cup Plain({"MessageDate"}, "datetime", Optional)
    \cup Plain({"Incoming"}, "boolean", Free)

CaseComment ==
    References({"ParentId"}, {"Case"}, Once)
    \cup Plain({"CommentBody"}, "textarea", LongText)
    \cup Plain({"IsPublished"}, "boolean", Free)
    \cup References({"CreatedById"}, {"User"}, Fixed)

FeedItem ==
    References({"ParentId"}, {"Case", "Account", "Contact", "User"}, Once)
    \cup Plain({"Body"}, "textarea", LongText)
    \cup Plain({"Type"}, "picklist", Once)
    \cup References({"CreatedById"}, {"User"}, Fixed)

FeedComment ==
    References({"FeedItemId"}, {"FeedItem"}, Once)
    \cup References({"ParentId"}, {"Case", "Account", "Contact", "User"}, OnceOptional)
    \cup Plain({"CommentBody"}, "textarea", LongText)
    \cup References({"CreatedById"}, {"User"}, Fixed)

Task ==
    References({"WhoId"}, {"Contact", "Lead"}, Optional)
    \cup References({"WhatId"}, {"Account", "Case", "Opportunity"}, Optional)
    \cup Plain({"Subject"}, "string", Optional)
    \cup Plain({"ActivityDate"}, "date", Optional)
    \cup Plain({"Status"}, "picklist", Free)
    \cup Plain({"Priority"}, "picklist", Optional)
    \cup References({"OwnerId"}, {"User", "Group"}, Free)
    \cup Plain({"Description"}, "textarea", LongText)

Event ==
    References({"WhoId"}, {"Contact", "Lead"}, Optional)
    \cup References({"WhatId"}, {"Account", "Case", "Opportunity"}, Optional)
    \cup Plain({"Subject", "Location"}, "string", Optional)
    \cup Plain({"ActivityDateTime"}, "datetime", Optional)
    \cup Plain({"DurationInMinutes"}, "int", Optional)
    \cup References({"OwnerId"}, {"User", "Group"}, Free)
    \cup Plain({"Description"}, "textarea", LongText)

ContentDocument ==
    Plain({"Title"}, "string", Renamed)
    \cup Plain({"FileType"}, "string", FixedOptional)
    \cup Plain({"ContentSize"}, "int", FixedOptional)
    \cup References({"OwnerId"}, {"User"}, Renamed)

ContentVersion ==
    References({"ContentDocumentId"}, {"ContentDocument"}, OnceOptional)
    \cup Plain({"Title"}, "string", Free)
    \cup Plain({"VersionNumber"}, "string", FixedOptional)
    \cup Plain({"FileType"}, "string", OnceOptional)
    \cup Plain({"ContentSize"}, "int", FixedOptional)

Account ==
    Plain({"Name"}, "string", Free)
    \cup Plain({"Industry", "Type"}, "picklist", Optional)
    \cup Plain({"Website"}, "url", Optional)
    \cup Plain({"Phone"}, "phone", Optional)

Contact ==
    Plain({"FirstName"}, "string", Optional)
    \cup Plain({"LastName"}, "string", Free)
    \cup Plain({"Email"}, "email", Optional)
    \cup Plain({"Phone"}, "phone", Optional)
    \cup References({"AccountId"}, {"Account"}, Optional)

User ==
    Plain({"Name"}, "string", Fixed)
    \cup Plain({"FirstName"}, "string", Optional)
    \cup Plain({"LastName", "Username"}, "string", Free)
    \cup Plain({"Email"}, "email", Free)
    \cup Plain({"IsActive"}, "boolean", Free)

Named(fields, keyPrefix) == [fields |-> commonFields \cup fields, keyPrefix |-> keyPrefix]

\* objectMeta, the common fields put before those of the type.
objectMeta ==
    [Case |-> Named(Case, "500"),
     EmailMessage |-> Named(EmailMessage, "02s"),
     CaseComment |-> Named(CaseComment, "00a"),
     FeedItem |-> Named(FeedItem, "0D5"),
     FeedComment |-> Named(FeedComment, "0D7"),
     Task |-> Named(Task, "00T"),
     Event |-> Named(Event, "00U"),
     ContentDocument |-> Named(ContentDocument, "069"),
     ContentVersion |-> Named(ContentVersion, "068"),
     Account |-> Named(Account, "001"),
     Contact |-> Named(Contact, "003"),
     User |-> Named(User, "005")]
=============================================================================
