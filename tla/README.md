# Verification of mock-salesforce

mock-salesforce is a Go server that imitates the parts of Salesforce an integration talks to (OAuth, SObject
REST, SOQL, settings pages) and a set of commands that fill a SQLite database with generated support data.
This directory keeps TLA+ models of the parts of it that hold state, the TLC configurations that check them
and TLAPS proofs of their main invariants. Paths below are relative to `src/` of the repository.

## 1. Inventory

| Component | State | Operations | What is hard, and what makes it correct |
|---|---|---|---|
| OAuth token service (`internal/handlers/oauth.go`, `internal/server/middleware/auth.go`) | `mockTokens`, one map for the process behind an RWMutex; `refreshMu`, a mutex per refresh token | password, code, client-credentials and refresh grants; rotation with replay detection; revoke, introspect, userinfo | A grant is several registry calls. Concurrent exchanges, a replay or a revocation in the middle of one. A refresh token has one successor, a family one live end, a revoked family no live token, and every request answers. |
| Authorization code flow (`authorize.go`, `authcodes.go`) | `codes`, a map with used marks and expiry times | issue, consume, then redirect-URI and PKCE checks, then tokens | Races for a code, late codes, codes burnt by a failed exchange. A code is granted at most once. |
| Runtime users and tokens (`internal/users`, `admin_users.go`, `settings_users.go`) | tables `users` and `user_tokens`; copies of the tokens in `mockTokens`; `MOCK_USERS` | create, rename, delete users; mint, list, revoke tokens; seeding and re-registration at start-up | Two copies of a token, written one after the other by handlers that hold no lock; restarts rebuild one from the other. |
| Record store (`internal/store/memory.go`, `sqlite.go`) | records per object type, and in memory secondary indexes | create, get, update, delete, lookup by index, query, clear, load | In memory, the indexes must follow the records through any sequence of calls. In SQLite, an update is a SELECT and an UPDATE without a transaction, and the process may die in between. Callers must not be able to tell the two apart. |
| Seed, overlay, reset, start-up (`internal/store/loader.go`, `internal/server/router.go`, `cmd/salesforce-mock/main.go`) | where a load is, on top of the store | start-up decision, load in file order, scenario overlay, `POST /admin/reset` | Loads are one call per record, overlap with requests and other resets, fail half-way and are cut off. |
| SObject handlers (`sobject.go`) | none of their own | CRUD, describe, composite, relationships | They turn requests into store calls. |
| SOQL engine (`internal/soql`), query handler | none of its own; a query reads the store once for its records, again for every relationship field, and once per parent for a subquery | lex, parse, filter, order, paginate, group, nest | What is accepted means what its tree says. Values of mixed kinds, nulls and date ranges divide as the operators promise. Pages are fetched and sorted anew, by an unstable sort, while others write. |
| Describe and discovery (`sobject.go`, `internal/schema`, `soql/virtual.go`) | a describe table, a registry built once, a list of types, the key prefixes, the relationship tables of the query engine | global describe, describe, `EntityDefinition` and `FieldDefinition` | Five tables kept by hand that must name the same types, prefixes, fields and keys. |
| Web sessions and pages (`middleware/auth.go`, `jwt.go`, `settings.go`, `ui_handlers.go`, `playground.go`) | signed cookies, held by the browser | login, logout, sessions given to bearer requests, pages | A session outlives what it was derived from: token, revocation, restart. It must end all the same. |
| Data generation (`internal/generator`, `internal/pipeline`, `internal/scenario`, `internal/profile`, `internal/db`, `cmd/acme`, `cmd/industry`) | a SQLite database of eleven tables, counters for case numbers and issue keys, the plan of phases | one generator per table, phases, scenario commands, reset, backup of image metadata | Some generators commit everything at once and some row by row; runs are interrupted and repeated; later phases read what earlier ones left. |
| LLM adapter and cache (`internal/llm`) | rows of prompt, embedding and response | generate through the cache | Lookup, call and store are three steps; a hit answers another prompt. |
| Zhipu client (`internal/zai`), chat clients (`internal/endpoint`) | files on disk; one poll or download loop per call | chat; generate an image or a video, poll, download with retries | Deadline against tick, a service that answers anything, retry of what fails for good, two calls that choose one file name. |
| Photo generation (`cmd/generate_photos`, `internal/generator/photo`, `db/backup.go`) | the library `metadata.json`, the images, the table `profile_images` and its JSON backup | match, share or generate a photo per persona; back up and recover the table | Four copies of one fact, written one after the other by runs that overlap and crash. |
| Exporter, company profile, configuration, OAuth discovery document, health, logging, CORS, stub commands | none that outlives a call | | |

How they interact. A request passes `middleware.Auth`, which looks the bearer token up in `mockTokens`; the token
endpoint, the admin API and the settings pages write that map, and start-up fills it from the users database.
`handleAuthorizationCodeGrant` consumes a code and hands over to `issueTokens`, the same function the password grant
ends in. The SObject handlers, the query handler and the loader share one `store.Store`; the reset endpoint calls the
loader on it; the query engine reads it and follows keys that the describe tables document. `middleware.Auth` also
turns a bearer token into a session cookie, and the consent page issues codes to whoever holds one. The photo command
calls the Zhipu client for every image. The generators share one database with each other, and through `exporter` its
rows become the seed files the server loads.

## 2. Modules

| Module | Models | One step is |
|---|---|---|
| `OAuthTokens` | the registry and the grants | one call of a registry function, or one lock operation, of one request |
| `RefreshFamilies` | what rotation promises: a family has one usable refresh token, traded for its successor once | a token given, traded, taken away |
| `OneTimeCode` | what a one-time code promises: open, then granted, refused or void, for good | one decision |
| `AuthCodes` | `AuthCodeStore` and the code exchange | Issue, Consume, the checks after it, the clock, a restart |
| `UserTokens` | users, stored tokens and live tokens, across both user interfaces, the revoke endpoint and restarts | one call of the users store or of the registry |
| `StoreRecords` | records, patches and what merging one does, for both stores | |
| `RecordStore` | what `store.Store` promises, whichever store is behind it | one call, at once and whole |
| `MemoryStore`, over `StoreRecords` | `MemoryStore` and its indexes | one method, under its lock |
| `SqliteStore`, over `StoreRecords` | the table of `SQLiteStore` and its mutex | one SQL statement that changes the table or is read for an update, a failure, a restart |
| `Stores`, over `Discovery` and `SqliteStore` | the choice of the store at start-up | a call of the store chosen |
| `SeedLifecycle` | the record store under start-up, overlay, resets, edits and stops | one store call, or one file opened |
| `Generation` | the scenario commands and the pipeline over the generated database | one transaction of a generator, one DROP TABLE, a start, a stop |
| `Discovery`, over `MemoryStore`, with `DescribeTable`, `DescribeRegistry`, `DescribeFields` | the tables of types, prefixes, fields, references and followed keys, and the handlers that read them | one store call, one global describe |
| `Sessions`, over `AuthCodes` | session cookies, and the access tokens and codes they meet | login, logout, consent, a bearer request, a revocation, a restart |
| `SoqlText` | lexer and parser, as operators on a sequence of characters and keywords | one edit of a query's text |
| `SoqlExecutor` | the execution of a query against a store that others write | one read of the store, one projected row, one subquery, one write of another request |
| `SoqlFilter`, over `SoqlExecutor` | one comparison of WHERE or HAVING, as operators on a record | |
| `SoqlConditions`, over `SoqlFilter` | AND, OR, NOT and the building of a filter, by recursion over a condition | |
| `SoqlDates` | the date literals, as operators on a day | the next day |
| `ZaiClient` | image and video calls, their polls and downloads | one request answered, one branch of the `select`, one second |
| `PhotoLibrary`, over `ZaiClient` | the photo command, library, table and backup | one load, save, insert, match or rename of one run, a crash |
| `ResponseCache` | `Generate` of the LLM adapter over its cache | embed, find, chat or store, of one caller |
| `MC...` | values for TLC and symmetry sets; `MCSoql` and `MCClients` put three machines into one run, one of which moves in a behaviour | |
| `...Proofs` | theorems about the module of that name; `AuthCodesProofs` covers `Sessions` too, `StoreProofs` the modules of the two stores, `ClientsProofs` the three client machines, `SoqlProofs` `SoqlExecutor`, `SoqlFilter` and `SoqlDates` | |

**OAuthTokens.** Every HTTP request in flight is an element of `Request` with a program counter `pc[r]` and the
locals of its handler (`presented`, `newRefresh`, `newAccess`, `family`). The actions of a grant appear in the
order of its registry calls: `StartIssue`, `IssueRefresh`, `IssueAccess` for `issueTokens`; `Lock`, `LookupLive`
or `LookupFails`, then `Rotate`, `MarkOld`, `RefreshAccess` for an exchange, or `DetectReuse`, `RevokeReused`,
`RejectUnknown` for a replay, and `Unlock` for the deferred unlock. `HandleRevoke` may come between any two
steps. Names, scopes and client ids are left out because no registry function reads them. `known` holds the
tokens clients have been given: requests present only those.

**RefreshFamilies** knows no registry, no mutex and no request: a family has at most one end, the refresh token that
can be traded; a trade begins with the end as it is then and, in one step, gives a successor and spends the old token;
an end may be lost at any time, and nothing but a trade that was under way then brings the family an end again. In
`OAuthTokens` the successor counts as the end from `Rotate` on, one registry call before the old token is marked.

**AuthCodes** and **OneTimeCode.** A code carries its PKCE requirement, its use mark and whether its time has
passed; an exchange carries what the form says about the verifier and the redirect URI. `Consume` is one step
(the store's mutex); the checks that follow are another, so a code is already burnt when they fail.
`AuthCodes` implements `OneTimeCode` under the mapping written at the end of the module.

**UserTokens.** `rows` is the table of stored tokens, `live` the part of `mockTokens` minted there, and `pc[r]`
says where a handler is between its store calls and its registry calls. A restart keeps the tables, seeds the
missing names of `MOCK_USERS` and makes `live` equal to `rows`. A store call of a handler may fail: a mint then stores
nothing, the settings page that has revoked a user's tokens keeps the user and the rows (`SettingsDeleteFails`), and a
start that cannot read the tokens serves without them (`RestartUnread`). `stranded` is history: the stored tokens such
a failure leaves without their entry in the registry.

**MemoryStore.** `data` and `indexes` as in the struct; `Create` over a taken id, `Update` with patches, `Delete`
and `Clear`, each a whole method.

**SqliteStore.** `table` is `sf_objects`, `mu` the call that holds the mutex. `Update` is two steps, `SelectExisting`
and `UpdateRow`; what it read is kept in `updating` until the second. `UpdateFails` is the error return of the second
statement, `Reopen` a restart: the table is what was committed, calls and mutex are gone. Readers take the read lock and
see the table between calls. A record is encoded as JSON and decoded again, which keeps its fields. A statement that fails on
its own (`StatementFails`) leaves the table; `Clear` reports nothing of it.

**RecordStore** is the interface: a map of records per type, the types there are, and for every id what lookups
find it by. A call changes one record at once and whole. A lookup finds a record by every indexed field it has; it may
also find it by what the record held since its id was free, and by nothing else: that is what can be promised of both
stores, since the indexes in memory keep entries of former values (see 5) and the table keeps none. `Stores` puts
the two stores into one run, one of which is called in a behaviour.

**SeedLifecycle.** `mode` is where `main` is, `loading` the loaders at work (start-up, and one per reset in
flight), `file` and `rest` how far each has come. `Stop` may happen anywhere; `StopEmpty` is the stop of a server
without a database. A record is abstracted to who wrote it last. `ClearFails` is the reset whose DELETE fails, of which
`Clear` says nothing: the load goes on over the old records. `cleared` and `clean` are history: whether a `Clear` that
took effect, and whether the start of any reset, was followed by writes of resets only.

**Generation.** `program` tells the two users of the generators apart: a command (`cmd/acme`, `cmd/industry`)
starts, optionally resets, runs its plan of steps and exits; a process using `internal/pipeline` calls `RunAll`
and `RunPhase` again and again. `todo` is the plan, `work` what the generator at its head has read and not yet
written: a generator that commits row by row reads its input once and then works on what it has read. `End` may
come between any two transactions, and sets the counters of case numbers and issue keys back, as a new process
does; the rows stay. `cases` keeps the order of `created_at`, which is drawn at random and decides which case
meets which issue key. The case loop goes through the segments of the scenario; the share of one is the number asked
for, rounded down by `int()` (`Share`, `Part`), and nothing when it has no accounts, so `Asked` is what a run will make
of its `--cases`. The user generators may leave out users that the language model or the database fails on, or all of
them (`SkipUsers`). Contents and the number of rows per case are abstracted.

**Discovery.** The describe tables are constants, translated entry by entry; what changes is the store and what a
client was told (`listed`, a map from places of the list, since the handler leaves out what it cannot describe). Ids,
references, prefixes and access of a field are kept, labels and lengths are not.

**Sessions.** A cookie is its user, its expiry and the code whose token it came from (`from`, 0 for a password).
Cookies are in the browser: a restart forgets codes and tokens and leaves `cookie` alone. `entered` and `dead` are
history: when a user last came in, when a token ended.

**SoqlText.** A text is a sequence of letters, digits, marks and keywords; a keyword is one element, since the case
folding of `LookupIdent` is the only thing its letters are for. `Lex` and `Parse` follow the source function by
function. `Write` is not the program's: it writes a tree the way a client would, and is what the parser is held to.

**SoqlExecutor**, **SoqlFilter.** `pc` is where the query is: it fetches (filter, sort and cut, under one read of the
store), projects row by row or nests parent by parent, and responds. A client may go on to the next page. Writers come
between any two of these. Which records a condition selects is a parameter of `SoqlExecutor`, given its value by
`SoqlConditions` in the runs: what is proved of fetching, paging and grouping holds for any filter. A value is a kind,
the words `%v` prints and the number it converts to; grouping, equality and order read these as the code does. The
unstable sort is any of the orders its comparison allows. The row of a group has what SELECT names and no more, so
HAVING and ORDER BY read a null where they name another field; `shown` then keeps, for the properties, which records
are behind a row. The bare `COUNT()` answers before any of the clauses that cut (`FetchCount`), and a negative LIMIT
ends a query, or the subquery of a parent, with a panic (`Drop`, `SubQueryError`).

**SoqlDates.** Days are numbers; months and years follow a calendar with leap years. A literal is a half-open range.

**ZaiClient**, **PhotoLibrary.** `job[j]` is one call: submitted, polling, downloading, done. The branches of the
`select` that are ready are all enabled. A run of the command works through its personas; `held` is the library it has
loaded and changed and not saved yet, and `Truncate` and `Write` are the two halves of `os.WriteFile`. `SaveFails` is
its error, before the file is truncated or after it, which the command logs; `damaged` is history: a write, by crash or
error, left the file empty or cut off.

**ResponseCache.** `call[c]` is a call of `Generate`. Similarity is a constant, symmetric and not transitive.

## 3. What the runs check

| Run | Question | Bounds |
|---|---|---|
| `oauth_rotation` | Two requests over an issue and two rotations, with replays and revocations anywhere: `OneChainPerFamily`, `QuietRevocationFinal`, the refinement `ImplementsRefreshFamilies` | 2 requests, 7 tokens |
| `oauth_liveness` | `EveryGrantAnswers`: no return path keeps a per-token mutex | 2 requests, 5 tokens |
| `oauth_replay_race` | Violated, see 5: `RevokedFamilyStaysDead` | as `oauth_rotation` |
| `auth_codes` | `GrantedOnce`, `ExpiredStaysUnused`, the refinement `ImplementsOneTimeCode`, `TokenSessionsEnd`, `CodesAreTheUsers` | 2 exchanges, 2 codes, 1 browser, 2 users, time up to 3; codes and access tokens live 1, sessions 2 |
| `user_tokens` | `StoredTokensHaveUsers`, `RevocationIsFinal`, `StoredTokensAuthenticate` | 2 requests, 2 users, 2 tokens |
| `stores` | `IndexesFollowRecords`, `TypesDescribed`, `KeysDescribed`; `StoreKeepsPromise`: both stores refine `RecordStore`, and no update undoes what another call wrote | 2 types with records, 2 ids, 2 fields, 2 values, 2 updates at once; all types described |
| `memory_stale_index` | Violated, see 5: `IndexSound` | as `stores` |
| `seed_lifecycle` | `SeedServed`, `ResetRestores` | 2 resets in flight, 3 records of 2 types |
| `generation` | `CasesComplete`, `LinkedBothWays`, `StepsCover`, `ResetNeverRefused` | 3 calls and failures together, `--cases` 2 or 3, 2 segments, 2 accounts |
| `soql` | `ReadsBack`, `PagesPartition`, `ReadsAgree`, `GroupsAccount`, `FilterDivides`, `UnitsTile` | 41 texts and one edit; 3 child records of 4, 2 parents, 18 queries, 1 write; four years of days, N up to 3 |
| `soql_precedence` | Violated, see 5: `AndBindsTighter` | as `soql` |
| `clients` | `SavedIsOwn`, `EveryCallReturns`; `PhotosKept`; `HitsServe` | 2 calls, 2 polls, 3 attempts; 2 runs, 3 personas, 3 processes started; 2 callers, 3 prompts |

Why the bounds are enough. Two requests are what it takes for every race the code has: one handler between two
of its calls and one other. Seven tokens are the token the registry starts with, an issue (2) and two rotations
(4): replay of the first token of a chain, of the middle one, and a rotation racing a replay all occur. Two users
and two tokens let a token of one user outlive the deletion of another and a seeded name be deleted, renamed
away and seeded again. One indexed and one plain type, with two fields indexed, let entries of different values,
fields and ids meet; the two updates at once may be of one record or of two, with a create, a delete or a restart
between their statements. A seed of a parent and a child record and one overlay record distinguish every order and
every partial load. Three calls are a run cut off, a reset cut off and a run over what they left, or a run, a
failing rerun and a rerun; two cases are what it takes for a key to go to the wrong one; the limits let a later run ask
for more or for fewer cases than an earlier one, and are rounded to no case and to two: the two segments of the run
have 0.4 of the cases each, and accounts or none; a table of five cases or more (`FewCases`), the third full batch of
a pipeline, is checked and not followed further. A time of three with lifetimes of one and two lets a
code, its token and its session end one after the other, and a session be renewed by a token about to end. The
texts of `soql` have every clause, operator, kind of value, nesting and NULLS order, and an edit inserts, removes or
exchanges a piece anywhere. The four records have numbers, texts that look like numbers, floats that print with an
exponent, dates and nulls, nested objects that hold a null, and values that print alike when joined; the queries group
by one field and by two, with the fields selected and without; one write is what it takes to come between the two
reads of a query, and three children allow a page in the middle. The days have every month, all four quarters' ends
and a leap day. Two runs of the photo command, or a run and a rerun after a crash, or a run, a backup and a recovery
are all of three processes. Three prompts, the middle one near both others, are the shortest chain along which hits
could drift.

Fairness. `EveryGrantAnswers` assumes weak fairness of every step a running goroutine takes, and strong fairness of
`Lock`, since `sync.Mutex` hands the lock to a goroutine that has waited long (its starvation mode).
`EveryCallReturns` assumes that a request to the service ends, with an answer or an error, that time goes by (both weak),
and that a `select` that finds its deadline passed again and again takes that branch at last (strong: it picks at
random among the ready ones). The service owes nothing else: a task may stay in processing for good. Clients owe
nothing: no fairness for new requests. Deadlock is checked where something can always happen (`seed_lifecycle`: a
start or a stop; `stores`: a create or a restart); in the others the bound on tokens, codes, calls or days ends the run.

Each property of a passing run has a mutant, a property of several parts one for each: the same module with one
definition replaced by the form a plausible bug would give it (`...Ignored`, `...Forgotten`, `...Unchecked`), under
which TLC finds the property violated.

## 4. What is proved

For every set of requests, records, calls and queries, and any number of tokens, codes, types, cases and days:

* `OAuthTokensProofs`: `TypeOK`, `OneChainPerFamily` (`SingleSuccessor` and `OneLiveRefreshPerFamily`),
  `QuietRevocationFinal`. Neither of the last two is inductive. The invariant adds that a request inside the critical
  section holds the mutex of the token it presents and no other request holds it, that a token drawn and not yet registered belongs to one
  request and is above all others drawn, that a rotated token is no longer live unless its exchange is at
  `markOld`, and that a request that mints into a quietly revoked family does not exist. Then that the registry refines
  `RefreshFamilies` (`RotationKeepsItsPromise`). The end of a family is mapped to the live refresh token whose exchange
  is not at `markOld`, which is one token because of `OneLiveRefreshPerFamily`; `ChainInv` adds for it that what a handler
  registered stays registered while it works, and that an exchange knows the family of the token it was given. What
  the promise implies holds of the registry: a token traded in is never usable nor traded again
  (`TokensTradedOnce`), and a family that lost its end while no exchange of it was under way has none ever after
  (`LostFamiliesStayLost`).
* `AuthCodesProofs`: `TypeOK`, `GrantedOnce`, `ExpiredStaysUnused`, and that every step of `AuthCodes` is a step or
  a stutter of `OneTimeCode`. The invariant says a code with an exchange in flight has been marked used and that no two
  exchanges hold one code. Then `TokenSessionsEnd`, `CodesAreTheUsers`, and that `Sessions` behaves as `AuthCodes`
  towards the codes, so what is proved of `AuthCodes` holds with sessions around it. A session's expiry is bounded
  by three clocks: the present, the moment its user last came in, the end of its token, which a revocation or a
  restart may move forward.
* `StoreProofs`: of the memory store `TypeOK`, `IndexComplete`, `EntriesExact` (together `IndexesFollowRecords`).
  `EntriesExact` needs the type invariant, `IndexComplete` needs that a record is stored under its own id. Then that
  `Discovery` behaves as `MemoryStore` towards the records, `TypesDescribed` and `KeysDescribed`. The invariant
  (`DiscoveryInv`) says that a type with records was noted when one was created, and that a client's list is part of
  the one list there is; what is left is a comparison of the tables, type by type and key by key. Of the SQLite store
  `TableTypeOK` and `NoLostUpdate`: neither says why the row that `UpdateRow` overwrites is the one that was read, which
  takes `Fresh`, that whoever has read holds the mutex, and the row is as it read it. Last, the refinements
  `MemoryStoreKeepsPromise` and `SqliteStoreKeepsPromise`: each call is one call of `RecordStore`, an update of the
  table at its second statement; an entry of the indexes that outlives its value is one that its record held, because a
  deletion takes all entries of an id with it. A server calls one of the two stores, so each theorem about one is a
  theorem about `Stores` (`StoresBehaveAsAlone`), and `StoreKeepsPromise` holds of it.
* `UserTokensProofs`: `TypeOK`, `StoredTokensHaveUsers`, `RevocationIsFinal`, `StoredTokensAuthenticate`. The invariant
  says what is still true of a request between two of its calls: the token it is about to register was delivered to
  nobody and is held by no other request; a revocation by id has deleted its row when it pulls; what a settings
  deletion set out to revoke is on its list as long as it is live. A stored token authenticates unless it is on its
  way in or out, was revoked at the OAuth endpoint, or was stranded by a store call that failed; the theorem does not
  say that a settings deletion that fails half-way takes the tokens back, which it does not.
* `SeedLifecycleProofs`: `TypeOK`, `SeedServed`, `ResetRestores`. The invariant says that a seed record that is missing
  is still to be stored by one of the loads at work, or was deleted by a request, or one of the loads failed. That other
  records are gone after a reset rests on a `Clear` that took effect; that the seed is back does not.
* `GenerationProofs`: `TypeOK`, `ResetNeverRefused`, `CasesComplete`, `LinkedBothWays`, `StepsCover`. A drop is never
  refused because all tables before the next one are empty, and `Reset` has every table after those that refer to it.
  The rest hangs together: a call goes through its generators in the order every plan has them (`CallInv`), the
  numbers of cases are unique (`TablesInv`), the case loop has stored every number it has drawn and draws as many as
  the shares of the segments come to (`LoopInv`), a generator has covered each row or still has it among its work (`CoverInv`), and a
  JIRA key is the place of its case among the escalated ones, the next key that of the next case at work
  (`LinkInv`). The last one speaks of histories that are not `disturbed`: see 5.
* `ClientsProofs`: `TypeOK`, `SavedIsOwn`, `PhotosKept`, `HitsServe`. A download returns no path without a file because
  its last attempt never leaves `lastErr` nil, and a name made from the clock is no name a caller gives. A photo that
  a row, a backup, a library or a run names is on disk, whatever fails, crashes and overlaps; the library backs the rows
  and the personas served as long as runs do not overlap and no write of the library is cut off by a crash or an error
  after it truncated the file, and between `Truncate` and `Write` the library is
  what the one run under way holds. Every row of the cache answers the prompt it is kept under, and a prompt in the
  cache has a nearest row, so a lookup that does not fail finds one.
* `SoqlProofs`: `TypeOK`, `PagesPartition`, `ReadsAgree`, `GroupsAccount`, `FilterDivides`, `UnitsTile`. When ORDER BY
  leaves no ties, the place of a record, one more than the number of those before it, is the same for every sort of
  the same records; pages sorted anew therefore fit together (`PageInv`). `ReadsInv` says of what is shown so far
  that it is what was selected, but for what was written since. `GroupInv` says that each row of an aggregate stands
  for a group of its own, and all groups have one unless something cuts the answer; a row shows the values of its
  group's first record, and the others have the key of that one, which for a group by one field is its value
  (`KeyOfOne`). Two records whose values run together alike share a row; the theorem says that only these do. The
  extreme a scan keeps is shown to bound the group through the least record at which it could not. A value is below,
  equal to or above a literal, with two exceptions the property names: values of mixed types are neither below nor
  above, and a number that is printed in two ways is none of the three. A literal on weeks, months, quarters or years is
  a range between two starts of units, counted from the one of today.

The assumptions are the `ASSUME`s of the modules, which TLC evaluates in the runs. Most say that a bound is a number
and that a name used for "none" is nothing else. The others: a cookie's and a token's lifetime are positive;
similarity is symmetric, between -100 and 100, and 100 of a prompt with itself (cosine similarity); no caller names a
file as the clock would; personas are finitely many and a list of them is not empty; the store of a query is finite,
`LIMIT` and `OFFSET` are integers, and values that are compared by number or by text have one; a filter on the name of
the parent selects records whose parent has it (`SelectionByName`, which is what `SoqlConditions` does); texts of one
place are one text, and different numbers are not printed alike; date literals count back no further than the calendar of `SoqlDates` goes. The calendar has a leap
year every fourth year, as it is until 2100.

Only model-checked: `ReadsBack`, whose lexer and parser are recursive over a text, `EveryGrantAnswers` and
`EveryCallReturns`, which are liveness under fairness. How AND, OR and NOT combine comparisons (`SoqlConditions`) is
recursive too; no theorem depends on it.

## 5. Disagreements found

* `RevokedFamilyStaysDead`: a replay revokes the tokens of a family registered at that moment. An exchange of
  the newest refresh token, under another mutex, then registers a live pair into the revoked family.
* `IndexSound`: `Update` leaves the index entry of the old value; a lookup by it returns the record.
* `AndBindsTighter`: "parseCondition parses a condition (handles AND/OR precedence)"; the conditions are folded left to right, so `a OR b AND c`
  selects what `(a OR b) AND c` does (`internal/soql/parser.go:363`).

More that reading and the models show and no run states:

* Tokens and users. The admin API deletes a user and its stored tokens and leaves the tokens live
  (`handlers/admin_users.go:93`, whose comment promises the revocation); a token minted between the listing and
  the deletion of the settings page stays live (`server/settings_users.go:224`); a settings deletion that cannot delete
  the user has revoked the user's tokens in the registry and answers an error, so rows remain that are shown and not
  accepted until the next start (`server/settings_users.go:232`); a deleted user of `MOCK_USERS`
  is back after a restart; a session cookie outlives the revocation, the expiry and the user of its token by up
  to 12 hours; revoking a rotated refresh token deletes the entry by which its replay is recognised; `refreshMu`
  and the registry of codes never shrink.
* Records. A body `null` decodes to a nil map and the handler panics (`handlers/sobject.go:108`). Start-up takes a
  database with Accounts for seeded, also when the first load was cut off (`SeedServed` holds of loads that ran to
  their end only), and one without Accounts for empty. `Case.CreatedBy` and the parents of `ContentDocumentLink`
  are followed by a query and described nowhere. `SQLiteStore.Clear` drops the error of its DELETE
  (`store/sqlite.go:307`), so a reset can answer `reset_complete` with the old records still there. `EntityDefinition`
  and `FieldDefinition` are described with `CreatedDate` and `LastModifiedDate`, "the always-present audit fields on
  every SObject" (`schema/registry.go:48`), and their records have neither (`schema/virtual.go:9`, `:40`):
  `DiscoveryAgrees` compares types, prefixes and described fields, and `VirtualColumnsKnown` says that the records lack
  these two and nothing else.
* SOQL. A clause out of order, or after the last one known, is ignored; a negative `LIMIT` and a `LIKE '%'`
  panic; two values are equal when `%v` prints them alike while numbers are ordered as numbers, so the stored 1000002,
  which prints `1.000002e+06`, is selected by none of `=`, `<`, `>`, `<=` and `>=` 1000002 (`soql/executor.go:325`);
  groups are told apart by their keys printed one after another, so Mary Ann + Lee and Mary + Ann Lee are counted in one
  row, which shows the name that comes first (`soql/aggregate.go:99`); ORDER BY and HAVING on a field that is grouped
  by and not selected read a null (`soql/aggregate.go:119`); a bare `COUNT()` ignores `LIMIT`, `OFFSET` and `HAVING`; an unknown
  child relationship is an error only when there is a parent row; descending order is "not less", so values that
  do not compare change places; a negative `OFFSET` starts at the first row, so a client that pages on from it
  sees rows twice; `WHERE Account.Name = null` selects records whose rows then show a name, since the filter reads
  the record and the projection looks the parent up.
* Generation. `--cases 1` and `--cases 2` make no case and `--cases 4` makes two, since each segment takes its share
  rounded down (`scenario/industry.go:416`, and `scenario/acme.go:453` for its fixed 200), and the share of a segment
  without accounts is left out (`acme.go:496`): `CasesComplete` speaks of the shares. A case generated after the first
  JIRA issues (`industry --cases 4`, then `--cases 8` without `--reset`) shifts which case meets which key, so an
  issue and its case stop pointing at each other; `disturbed` in `Generation` marks these histories and
  `LinkedBothWays` speaks of the others. An open case is stored with `closed_at` the empty string, which parses to the
  year 1 (`generator/comments.go:133`).
* Clients. A finished video is reported as a timeout when the deadline and the tick are ready together; a status
  request that hangs outlives `MaxWait`; the default file name has the second as its only distinction; a cache
  hit ignores model and temperature.
* Photos. Gender and ethnicity alone reach the threshold of 60, so at most eight photos exist whatever number is
  announced with its cost; a persona that shares a photo gets no row; two runs at once lose each other's library
  entries, a write that crashes or fails after truncating leaves metadata that is read as none, and the command goes on
  (`photo/metadata.go:83`); an absent backup empties the table it restores,
  and two backups at once write one `.tmp` file.

## 6. Not modelled

* `internal/endpoint`: requests to services of others, one wire format each; `zai` chat, streaming and vision
  likewise. `ZaiClient` has the loops: polling, cancellation, download, saving.
* `internal/exporter`, `internal/profile`, `internal/config`, OAuth discovery, health, logging, CORS, return links,
  the HTML of the UI pages: functions of their input, or output without state that outlives the call.
* `cmd/generate` and `cmd/pipeline` are stubs at this commit.
* The texts that the language models write, names, addresses, and every timestamp but for the order it gives to
  cases; the management hierarchy of users; queries of `internal/db` that no modelled step uses.
* A users database that cannot be opened: the server then keeps users in memory (`buildUserStore`), and `UserTokens`
  starts from one that opens. In `Generation` a scenario command's segments are the ones of its configuration; how many
  accounts each gets is whatever the account generator leaves.
* Hazards that the properties step around rather than catch, and say so: a first load cut off and taken for a whole one
  (`SeedServed` excludes `interrupted` and `failed`), a case stored after the first issue (`disturbed`), the library
  after an overlap or a damaged write (`together`, `damaged`), which of two unnamed files of one second a call is given
  (`SavedIsOwn` promises some file), text after the last clause known (`ReadsBack` is about texts in clause order), a
  token revoked at the OAuth endpoint and registered again by a restart (`oauthRevoked`).
* Of SOQL, the pattern of a lone `%`, aggregates over a relationship field (which read the plain field of the same
  name), several subqueries in one query, and an alias that is also a field; the rendering of an answer (`attributes`, URLs) beyond the names and the nesting of what is selected,
  and date literals beyond the units `SoqlDates` lists.

## 7. Plan

Done: `OAuthTokens` implementing `RefreshFamilies`, `AuthCodes` implementing `OneTimeCode` and composed with
`Sessions`, `UserTokens`, `MemoryStore` composed with `Discovery`, and `SqliteStore`, both implementing `RecordStore`,
`SeedLifecycle`, `Generation`, the SOQL modules, the clients (`ZaiClient`, `PhotoLibrary`, `ResponseCache`), and the
proofs of section 4. What is checked and can be proved is proved, but for what section 4 leaves to TLC.

Left: `CaseTimeline`, the timestamps
generators derive from a case, against "Distribute comments evenly across case timeline"
(`internal/generator/comments.go:233`).
