----------------------------- MODULE Generation -----------------------------
(***************************************************************************)
(* Filling the database of generated support data.  Two programs do it: a  *)
(* command (cmd/acme, cmd/industry) runs a scenario (internal/scenario)    *)
(* once and exits, and a user of internal/pipeline calls RunAll and        *)
(* RunPhase in one process.  Both go through the generators of             *)
(* internal/generator, step after step, over the database of internal/db.  *)
(*                                                                         *)
(* Some generators commit once, others row by row "to survive crashes": the*)
(* process may stop between two commits and be started again, with the     *)
(* counters of case numbers and issue keys back at their start and the     *)
(* rows still there.  One action is one transaction.                       *)
(*                                                                         *)
(* Abstracted: all content; which account of which segment a case is for;  *)
(* several rows of a kind for one case, which count once.  A case is known *)
(* by its number and an issue by its key, both UNIQUE.                     *)
(***************************************************************************)
EXTENDS Naturals, Sequences, FiniteSets, SequencesExt

CONSTANTS
    NAccounts,   \* accounts made at a time
    Profile,     \* the customer segments of the scenario's profile
    Limits,      \* how many cases a command may be told to make (--cases)
    Batches,     \* how many cases a pipeline may be told to make
    MaxEvent     \* bound on the calls of a command, RunAll or RunPhase and
                 \* the things that go wrong in them, together

Segments == {"Enterprise", "Mid-Market", "SMB"}

ASSUME ConstantsAssumption ==
    /\ NAccounts \in Nat \ {0}
    /\ Profile \subseteq Segments /\ Cardinality(Profile) <= NAccounts
    /\ Limits \subseteq Nat \ {0} /\ Batches \subseteq Nat \ {0}
    /\ MaxEvent \in Nat

VARIABLES
    program,       \* "command" or "pipeline"
    accounts,      \* number of rows of the accounts table
    segments,      \* the segments with an account of the scenario
    contacted,     \* the accounts, by row, that have a contact
    users,         \* there are users
    jiraUsers,     \* there are JIRA users
    cases,         \* the cases table, in the order of created_at
    threads,       \* threads[t]: the cases with rows in table t
    issues,        \* the jira_issues table
    issueComments, \* the issues with rows in jira_comments
    running,       \* the process is there
    limit,         \* the number of cases this process is told to make
    nextNumber,    \* the last case number drawn
    nextKey,       \* the last issue key drawn
    drops,         \* the tables Reset has still to drop
    todo,          \* the generators still to run in this call, one at work
    begun,         \* it has fetched its input
    work,          \* what it has still to write
    events,        \* number of calls and of things gone wrong so far
    clean,         \* history: nothing has gone wrong in this call
    done,          \* history: the generators this call has run to the end
    issuesRan,     \* history: this process has run the issue generator
    disturbed      \* history: see LinkedBothWays

peopleVars  == <<accounts, segments, contacted, users, jiraUsers>>
rowVars     == <<cases, threads, issues, issueComments>>
counterVars == <<nextNumber, nextKey>>
callVars    == <<todo, begun, work, clean, done>>
fixedVars   == <<program, limit, running, events, drops>>
vars == <<peopleVars, rowVars, counterVars, callVars, fixedVars, issuesRan,
          disturbed>>

\* The generators that write one transaction per case.
PerCase == {"emails", "comments", "feed"}

\* A bug: the threads before the cases.
InteractionsReordered == <<"emails", "comments", "feed", "cases", "issues",
                           "issueComments">>

Interactions == <<"cases", "emails", "comments", "feed", "issues",
                  "issueComments">>
Entities == <<"customers", "team">>

Phase == << <<"accounts", "contacts", "team">>,
            <<"caseBatch">>,
            <<"emails", "comments", "feed">>,
            <<"issues", "issueComments">> >>

\* What main runs with no flag, --interactions and --full; cmd/industry
\* always runs the last.
CommandPlans == {Entities, Interactions, Entities \o Interactions}

\* RunPhase and RunAll.
PipelinePlans == Range(Phase) \cup {Phase[1] \o Phase[2] \o Phase[3] \o Phase[4]}

Case == [number : Nat, escalated : BOOLEAN, key : Nat]
Numbers == {c.number : c \in Range(cases)}
Keys == {j.key : j \in issues}

\* The place of i among some rows of a table, and the rows in order.
Rank(rows, i) == Cardinality({j \in rows : j <= i})
InOrder(rows) == [k \in 1..Cardinality(rows) |-> CHOOSE i \in rows : Rank(rows, i) = k]

EscalatedRows == {i \in DOMAIN cases : cases[i].escalated}
Escalated == [k \in 1..Cardinality(EscalatedRows) |-> cases[InOrder(EscalatedRows)[k]]]

-----------------------------------------------------------------------------
Init ==
    /\ program \in {"command", "pipeline"}
    /\ accounts = 0 /\ segments = {} /\ contacted = {} /\ users = FALSE /\ jiraUsers = FALSE
    /\ cases = <<>> /\ threads = [t \in PerCase |-> {}]
    /\ issues = {} /\ issueComments = {}
    /\ running = FALSE /\ limit = 0 /\ events = 0
    /\ nextNumber = 0 /\ nextKey = 0
    /\ drops = <<>> /\ todo = <<>> /\ begun = FALSE /\ work = <<>>
    /\ clean = TRUE /\ done = {}
    /\ issuesRan = FALSE /\ disturbed = FALSE

\* A call, or something that goes wrong: a write of the database that fails,
\* a language model that answers nothing or nonsense.
Event == events < MaxEvent /\ events' = events + 1

Call(plan) ==
    /\ Event
    /\ todo' = plan /\ begun' = FALSE /\ work' = <<>>
    /\ clean' = TRUE /\ done' = {}

\* A bug: the order of the schema, parents first.
TablesAsCreated == <<"accounts", "contacts", "users", "cases",
    "email_messages", "case_comments", "feed_items", "jira_issues",
    "jira_comments", "jira_users">>

\* The tables in the order Reset drops them, without profile_images.
Tables == <<"jira_comments", "jira_issues", "jira_users", "feed_items",
            "case_comments", "email_messages", "cases", "contacts", "users",
            "accounts">>

\* A process starts; --reset drops the tables first.
Start(plan, reset) ==
    /\ ~running
    /\ running' = TRUE
    /\ limit' \in IF program = "command" THEN Limits ELSE Batches
    /\ Call(plan)
    /\ drops' = IF reset THEN Tables ELSE <<>>
    /\ disturbed' = (disturbed \/ reset)
    /\ UNCHANGED <<program, peopleVars, rowVars, counterVars, issuesRan>>

\* The next RunAll or RunPhase in the same process.
CallAgain(plan) ==
    /\ running /\ program = "pipeline" /\ todo = <<>>
    /\ Call(plan)
    /\ UNCHANGED <<program, peopleVars, rowVars, counterVars, running, limit,
                   drops, issuesRan, disturbed>>

\* A bug: the counters outlive the process, as if kept in the database.
CountersKept == UNCHANGED counterVars

\* The counters of ids.go and jira_issues.go are variables of the process.
CountersLost == nextNumber' = 0 /\ nextKey' = 0

\* A command returns from main at its end and ends at an error; any process
\* may be stopped anywhere.
End ==
    /\ running
    /\ running' = FALSE
    /\ CountersLost
    /\ todo' = <<>> /\ begun' = FALSE /\ work' = <<>> /\ drops' = <<>>
    /\ limit' = 0 /\ issuesRan' = FALSE /\ clean' = TRUE /\ done' = {}
    /\ UNCHANGED <<program, peopleVars, rowVars, events, disturbed>>

-----------------------------------------------------------------------------
(* Store.Reset, with foreign keys on: a table whose rows others refer to   *)
(* is not dropped.                                                         *)

Rows(table) ==
    CASE table = "jira_comments"  -> issueComments # {}
      [] table = "jira_issues"    -> issues # {}
      [] table = "jira_users"     -> jiraUsers
      [] table = "feed_items"     -> threads["feed"] # {}
      [] table = "case_comments"  -> threads["comments"] # {}
      [] table = "email_messages" -> threads["emails"] # {}
      [] table = "cases"          -> cases # <<>>
      [] table = "contacts"       -> contacted # {}
      [] table = "users"          -> users
      [] table = "accounts"       -> accounts # 0

\* The REFERENCES of the schema.
Referring(table) ==
    CASE table = "jira_issues" -> {"jira_comments"}
      [] table = "cases"       -> {"email_messages", "case_comments",
                                   "feed_items", "jira_issues"}
      [] table = "contacts"    -> {"cases"}
      [] table = "users"       -> {"cases", "case_comments", "feed_items",
                                   "jira_users"}
      [] table = "accounts"    -> {"contacts", "cases"}
      [] OTHER                 -> {}

Emptied(table, name, value, empty) == IF table = name THEN empty ELSE value

\* A refusal would end the command here; ResetNeverRefused says there is none.
Drop ==
    /\ drops # <<>>
    /\ LET t == Head(drops)
       IN  /\ \A other \in Referring(t) : ~Rows(other)
           /\ issueComments' = Emptied(t, "jira_comments", issueComments, {})
           /\ issues' = Emptied(t, "jira_issues", issues, {})
           /\ jiraUsers' = Emptied(t, "jira_users", jiraUsers, FALSE)
           /\ threads' = [threads EXCEPT
                 !["feed"] = Emptied(t, "feed_items", @, {}),
                 !["comments"] = Emptied(t, "case_comments", @, {}),
                 !["emails"] = Emptied(t, "email_messages", @, {})]
           /\ cases' = Emptied(t, "cases", cases, <<>>)
           /\ contacted' = Emptied(t, "contacts", contacted, {})
           /\ users' = Emptied(t, "users", users, FALSE)
           /\ accounts' = Emptied(t, "accounts", accounts, 0)
           /\ segments' = Emptied(t, "accounts", segments, {})
    /\ drops' = Tail(drops)
    /\ disturbed' = (Len(drops) > 1)
    /\ UNCHANGED <<program, counterVars, callVars, limit, running, events,
                   issuesRan>>

-----------------------------------------------------------------------------
(* The generators.  At(step): it is the turn of this one.                  *)

At(step) == running /\ drops = <<>> /\ todo # <<>> /\ Head(todo) = step

\* Generate returns nil.
Finish ==
    /\ todo' = Tail(todo) /\ begun' = FALSE /\ work' = <<>>
    /\ done' = done \cup {Head(todo)}

\* Generate returns an error: the call ends, and a command with it.
Fail ==
    /\ todo' = <<>> /\ begun' = FALSE /\ work' = <<>>
    /\ clean' = FALSE
    /\ UNCHANGED <<program, peopleVars, rowVars, limit, running, drops,
                   done, disturbed>>

\* A bug: rows counted from zero.
NewAccountsFromZero == accounts .. accounts + NAccounts - 1

NewAccounts == accounts + 1 .. accounts + NAccounts

\* Scenario: accounts and contacts in one transaction ...
GenerateCustomers ==
    /\ At("customers")
    /\ accounts' = accounts + NAccounts
    /\ segments' = segments \cup Profile
    /\ contacted' = contacted \cup NewAccounts
    /\ Finish
    /\ UNCHANGED <<users, jiraUsers, rowVars, counterVars, fixedVars, clean,
                   issuesRan, disturbed>>

\* ... which leaves out the rows that are not generated or not stored.
SkipCustomers ==
    /\ At("customers")
    /\ Event
    /\ \E n \in 0..NAccounts :
         /\ accounts' = accounts + n
         /\ \E made \in SUBSET Profile :
              /\ Cardinality(made) <= n /\ (n = NAccounts => made = Profile)
              /\ segments' = segments \cup made
         /\ \E made \in SUBSET (accounts + 1 .. accounts + n) :
              contacted' = contacted \cup made
    /\ clean' = FALSE
    /\ Finish
    /\ UNCHANGED <<users, jiraUsers, rowVars, counterVars, program, limit,
                   running, drops, issuesRan, disturbed>>

\* Pipeline: accounts in one transaction.
GenerateAccounts ==
    /\ At("accounts")
    /\ accounts' = accounts + NAccounts
    /\ Finish
    /\ UNCHANGED <<segments, contacted, users, jiraUsers, rowVars, counterVars,
                   fixedVars, clean, issuesRan, disturbed>>

SkipAccounts ==
    /\ At("accounts")
    /\ Event
    /\ \E n \in 0..NAccounts - 1 : accounts' = accounts + n
    /\ clean' = FALSE
    /\ Finish
    /\ UNCHANGED <<segments, contacted, users, jiraUsers, rowVars, counterVars,
                   program, limit, running, drops, issuesRan, disturbed>>

\* Users and their JIRA accounts in one transaction.
GenerateUsers ==
    /\ At("team")
    /\ users' = TRUE /\ jiraUsers' = TRUE
    /\ Finish
    /\ UNCHANGED <<accounts, segments, contacted, rowVars, counterVars, fixedVars,
                   clean, issuesRan, disturbed>>

\* ... without the ones the model fails on: maybe nobody is left.
SkipUsers ==
    /\ At("team")
    /\ Event
    /\ \/ users' = TRUE /\ jiraUsers' = TRUE
       \/ UNCHANGED <<users, jiraUsers>>
    /\ clean' = FALSE
    /\ Finish
    /\ UNCHANGED <<accounts, segments, contacted, rowVars, counterVars, program,
                   limit, running, drops, issuesRan, disturbed>>

\* A transaction of one of these, or of GenerateCases or
\* GenerateIssueComments below, fails.
BatchFails ==
    /\ \/ At("customers") \/ At("accounts") \/ At("team") \/ At("issueComments")
    /\ Event
    /\ Fail
    /\ UNCHANGED <<counterVars, issuesRan>>

\* The share of a segment in n cases, and what the scenario asks for: shares
\* are cut to whole cases, and those of segments without an account go to no
\* other.
Share(segment, n) == IF segment = "SMB" THEN n \div 5 ELSE (2 * n) \div 5
Part(segment, some, n) == IF segment \in some THEN Share(segment, n) ELSE 0
Asked(some, n) ==
    Part("Enterprise", some, n) + Part("Mid-Market", some, n) + Part("SMB", some, n)

\* The rows a generator works on, in its order: accounts, loop indexes, or
\* the numbers of cases.
Fetch(step) ==
    LET numbers(s) == [i \in DOMAIN s |-> s[i].number]
    IN  CASE step = "contacts" -> [i \in 1..accounts |-> i]
          [] step = "cases" -> [i \in 1..Asked(segments, limit) |-> i]
          [] step = "emails" -> numbers(cases)
          [] step \in {"comments", "feed"} ->
               IF users THEN numbers(cases) ELSE <<>>
          [] step = "issues" -> IF jiraUsers THEN numbers(Escalated) ELSE <<>>

RowByRow == {"contacts", "cases", "issues"} \cup PerCase

\* A generator that writes row by row reads its input first, and works on
\* what it has read; without one, the scenario's case loop is an error.
Begin(step) ==
    /\ At(step) /\ ~begun
    /\ step = "cases" => users
    /\ begun' = TRUE
    /\ work' = Fetch(step)
    /\ issuesRan' = (issuesRan \/ step = "issues")
    /\ disturbed' = (disturbed \/ (step = "issues" /\ issuesRan))
    /\ UNCHANGED <<peopleVars, rowVars, counterVars, fixedVars, todo, clean, done>>

NoUsers ==
    /\ At("cases") /\ ~begun
    /\ ~users
    /\ Fail
    /\ UNCHANGED <<counterVars, issuesRan, events>>

\* The row at the head of work is the next to write.
Item(step) == At(step) /\ begun /\ work # <<>> /\ work' = Tail(work)

\* A row whose transaction fails is logged and left out; so is one without
\* content, and emails and comments the model gives none of.
RowFails(step) ==
    /\ Item(step)
    /\ Event
    /\ clean' = FALSE
    /\ nextNumber' = IF step = "cases" THEN nextNumber + 1 ELSE nextNumber
    /\ nextKey' = IF step = "issues" THEN nextKey + 1 ELSE nextKey
    /\ UNCHANGED <<peopleVars, rowVars, program, limit, running, drops,
                   todo, begun, done, issuesRan, disturbed>>

\* Pipeline: one INSERT per contact.
InsertContact ==
    /\ Item("contacts")
    /\ contacted' = contacted \cup {Head(work)}
    /\ UNCHANGED <<accounts, segments, users, jiraUsers, rowVars, counterVars,
                   fixedVars, todo, begun, clean, done, issuesRan, disturbed>>

\* The old cases in some of these rows, in their order, and new ones in the
\* others.
Merged(rows, old, draw, up) ==
    [i \in rows |-> IF i \in old THEN cases[Rank(old, i)]
                    ELSE [number |-> draw[i], escalated |-> i \in up, key |-> 0]]

MergedTables(rows, numbers) ==
    UNION {{Merged(rows, old, draw, up) :
              draw \in Bijection(rows \ old, numbers), up \in SUBSET (rows \ old)} :
           old \in kSubset(Len(cases), rows)}

\* The tables with cases of these numbers added: created_at is drawn at
\* random, so a case comes anywhere in that order and the old ones keep theirs.
WithCases(numbers) == MergedTables(1..Len(cases) + Cardinality(numbers), numbers)

\* Scenario: one INSERT per case, committed at once.
InsertCase ==
    /\ Item("cases")
    /\ nextNumber' = nextNumber + 1
    /\ nextNumber' \notin Numbers
    /\ cases' \in WithCases({nextNumber'})
    /\ disturbed' = (disturbed \/ issues # {})
    /\ UNCHANGED <<peopleVars, threads, issues, issueComments, nextKey, fixedVars,
                   todo, begun, clean, done, issuesRan>>

\* A bug: the loop ends at a taken number.
CaseConflictBreaks ==
    /\ At("cases") /\ begun /\ work # <<>>
    /\ work' = <<>>
    /\ nextNumber' = nextNumber + 1
    /\ nextNumber' \in Numbers
    /\ UNCHANGED <<peopleVars, rowVars, nextKey, fixedVars, todo, begun, clean,
                   done, issuesRan, disturbed>>

\* The number is taken: case_number is UNIQUE.  The loop goes on.
CaseConflict ==
    /\ Item("cases")
    /\ nextNumber' = nextNumber + 1
    /\ nextNumber' \in Numbers
    /\ UNCHANGED <<peopleVars, rowVars, nextKey, fixedVars, todo, begun, clean,
                   done, issuesRan, disturbed>>

\* The account has no contact: no number is drawn.
NoContact ==
    /\ Item("cases")
    /\ Cardinality(contacted) < accounts
    /\ UNCHANGED <<peopleVars, rowVars, counterVars, fixedVars, todo, begun, clean,
                   done, issuesRan, disturbed>>

\* Emails, comments or feed items of one case, in one transaction.
InsertThread(t) ==
    /\ Item(t)
    /\ threads' = [threads EXCEPT ![t] = @ \cup {Head(work)}]
    /\ UNCHANGED <<peopleVars, cases, issues, issueComments, counterVars,
                   fixedVars, todo, begun, clean, done, issuesRan, disturbed>>

\* insertIssueAndUpdateCase: the issue and the key of its case.
InsertIssue ==
    /\ Item("issues")
    /\ nextKey' = nextKey + 1
    /\ nextKey' \notin Keys
    /\ issues' = issues \cup {[key |-> nextKey', case |-> Head(work)]}
    /\ cases' = [i \in DOMAIN cases |->
                   IF cases[i].number = Head(work)
                     THEN [cases[i] EXCEPT !.key = nextKey'] ELSE cases[i]]
    /\ UNCHANGED <<peopleVars, threads, issueComments, nextNumber, fixedVars,
                   todo, begun, clean, done, issuesRan, disturbed>>

\* A bug: the loop ends at a taken key.
IssueConflictBreaks ==
    /\ At("issues") /\ begun /\ work # <<>>
    /\ work' = <<>>
    /\ nextKey' = nextKey + 1
    /\ nextKey' \in Keys
    /\ UNCHANGED <<peopleVars, rowVars, nextNumber, fixedVars, todo, begun, clean,
                   done, issuesRan, disturbed>>

\* The key is taken: jira_issues.key is UNIQUE.  The loop goes on.
IssueConflict ==
    /\ Item("issues")
    /\ nextKey' = nextKey + 1
    /\ nextKey' \in Keys
    /\ UNCHANGED <<peopleVars, rowVars, nextNumber, fixedVars, todo, begun, clean,
                   done, issuesRan, disturbed>>

RowsDone(step) ==
    /\ At(step) /\ begun /\ work = <<>>
    /\ Finish
    /\ UNCHANGED <<peopleVars, rowVars, counterVars, fixedVars, clean, issuesRan,
                   disturbed>>

\* Pipeline: all cases in one transaction, or a warning when there is nobody
\* to open or to own one.
Drawn == nextNumber + 1..nextNumber + limit

GenerateCases ==
    /\ At("caseBatch")
    /\ contacted # {} /\ users
    /\ Drawn \cap Numbers = {}
    /\ nextNumber' = nextNumber + limit
    /\ cases' \in WithCases(Drawn)
    /\ disturbed' = (disturbed \/ issues # {})
    /\ Finish
    /\ UNCHANGED <<peopleVars, threads, issues, issueComments, nextKey, fixedVars,
                   clean, issuesRan>>

SkipCases ==
    /\ At("caseBatch")
    /\ contacted = {} \/ ~users
    /\ Finish
    /\ UNCHANGED <<peopleVars, rowVars, counterVars, fixedVars, clean, issuesRan,
                   disturbed>>

\* One taken number, or a failure, undoes all; the numbers stay drawn.
CasesFail ==
    /\ At("caseBatch")
    /\ contacted # {} /\ users
    /\ IF Drawn \cap Numbers = {} THEN Event ELSE UNCHANGED events
    /\ nextNumber' = nextNumber + limit
    /\ Fail
    /\ UNCHANGED <<nextKey, issuesRan>>

\* Comments on every issue, in one transaction.
GenerateIssueComments ==
    /\ At("issueComments")
    /\ issueComments' = IF jiraUsers THEN Keys ELSE issueComments
    /\ Finish
    /\ UNCHANGED <<peopleVars, cases, threads, issues, counterVars, fixedVars,
                   clean, issuesRan, disturbed>>

\* Issues the model has no comment on are left out.
SkipIssueComments ==
    /\ At("issueComments")
    /\ jiraUsers
    /\ Event
    /\ \E made \in SUBSET Keys : issueComments' = issueComments \cup made
    /\ clean' = FALSE
    /\ Finish
    /\ UNCHANGED <<peopleVars, cases, threads, issues, counterVars, program,
                   limit, running, drops, issuesRan, disturbed>>

Next ==
    \/ \E plan \in CommandPlans, reset \in BOOLEAN :
         program = "command" /\ Start(plan, reset)
    \/ \E plan \in PipelinePlans :
         program = "pipeline" /\ (Start(plan, FALSE) \/ CallAgain(plan))
    \/ End \/ Drop
    \/ GenerateCustomers \/ SkipCustomers \/ GenerateAccounts \/ SkipAccounts
    \/ GenerateUsers \/ SkipUsers \/ GenerateCases \/ SkipCases \/ CasesFail
    \/ GenerateIssueComments \/ SkipIssueComments
    \/ BatchFails \/ NoUsers
    \/ \E step \in RowByRow : Begin(step) \/ RowFails(step) \/ RowsDone(step)
    \/ InsertContact \/ InsertCase \/ CaseConflict \/ NoContact
    \/ \E t \in PerCase : InsertThread(t)
    \/ InsertIssue \/ IssueConflict

Spec == Init /\ [][Next]_vars

-----------------------------------------------------------------------------
(* Properties. *)

\* The values each variable may take.
TypeOK ==
    /\ program \in {"command", "pipeline"}
    /\ accounts \in Nat /\ contacted \subseteq 1..accounts
    /\ segments \subseteq Segments
    /\ {users, jiraUsers, running, begun, clean, issuesRan, disturbed}
         \subseteq BOOLEAN
    /\ Range(cases) \subseteq Case
    /\ threads \in [PerCase -> SUBSET Nat]
    /\ issues \subseteq [key : Nat, case : Nat] /\ issueComments \subseteq Nat
    /\ limit \in Limits \cup Batches \cup {0} /\ events \in 0..MaxEvent
    /\ nextNumber \in Nat /\ nextKey \in Nat
    /\ Range(drops) \subseteq Range(Tables)
    /\ Range(todo) \cup done \subseteq
         {"customers", "team", "cases", "accounts", "caseBatch", "issues",
          "contacts", "issueComments"} \cup PerCase
    /\ Range(work) \subseteq Nat

\* "Write incrementally to survive crashes": however a command was cut off
\* and run again, once its case loop has run to the end without a failure,
\* every case of the shares of the segments that have accounts is there, and
\* none is beyond the shares of all.  That is not the number it was told:
\* --cases 1 or 2 makes no case, and a segment without accounts none.
CasesComplete ==
    program = "command" =>
        /\ \A n \in Numbers : \E most \in Limits : n <= Asked(Segments, most)
        /\ "cases" \in done /\ clean /\ contacted = 1..accounts =>
              1..Asked(segments, limit) \subseteq Numbers

\* The link between a case and its JIRA issue is the same from both ends, and
\* no case has two issues, through interruptions, failures and repeated runs.
\* It rests on every run meeting the escalated cases in the same order, so it
\* holds unless a reset was cut off, a case was stored after the first issue,
\* or the issue generator ran twice in one process.
LinkedBothWays ==
    ~disturbed =>
        /\ \A c \in Range(cases), j \in issues :
              c.key = j.key <=> j.case = c.number
        /\ \A c \in Range(cases) : c.key \in Keys \cup {0}

\* Under the same proviso, the issue generator, run to the end without a
\* failure, leaves no escalated case without an issue.
EscalationsHaveIssues ==
    ~disturbed /\ clean /\ "issues" \in done /\ jiraUsers =>
        \A c \in Range(Escalated) : c.key # 0

\* Steps come in the order of their inputs: a generator that has run to the
\* end without a failure has covered every case, or issue, there is.
StepsCover ==
    /\ clean /\ users /\ jiraUsers =>
        /\ \A t \in PerCase \cap done : Numbers \subseteq threads[t]
        /\ "issueComments" \in done => Keys \subseteq issueComments
    /\ EscalationsHaveIssues

\* Reset drops every table after the ones that refer to it, also when earlier
\* resets and runs were cut off anywhere: no DROP TABLE is ever refused.
ResetNeverRefused ==
    drops # <<>> => \A other \in Referring(Head(drops)) : ~Rows(other)
=============================================================================
