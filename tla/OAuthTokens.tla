---------------------------- MODULE OAuthTokens ----------------------------
(***************************************************************************)
(* The OAuth token registry (internal/server/middleware/auth.go) and the   *)
(* grants of the token endpoint that write it (internal/handlers/oauth.go).*)
(*                                                                         *)
(* mockTokens is one Go map behind one RWMutex: every registry function is *)
(* atomic.  A grant is not: it is a sequence of registry calls, and the    *)
(* refresh grant brackets its sequence with a mutex kept per refresh token *)
(* (refreshMu).  Each HTTP request in flight is an element of Request with *)
(* its own program counter; one action is one registry call.               *)
(*                                                                         *)
(* Tokens are numbered in the order generateToken draws them: the model    *)
(* assumes that no two draws for a user read the same nanosecond.  A       *)
(* family (newFamilyID, 128 random bits) is named by the refresh token it  *)
(* starts with.  0 is Go's empty string: no token, no family.              *)
(*                                                                         *)
(* Abstracted: user names, scopes and client ids (no registry function     *)
(* reads them), and the expiry of access tokens, which no grant consults.  *)
(***************************************************************************)
EXTENDS Naturals, FiniteSets

CONSTANTS
    Request,    \* HTTP requests that can be in flight at once
    MaxToken,   \* bound on the tokens drawn
    Rotation    \* MockRefreshRotation of the configuration

ASSUME ConstantsAssumption == MaxToken \in Nat /\ Rotation \in BOOLEAN

VARIABLES
    mockTokens,   \* the registry: a partial map from Token to TokenInfo
    refreshMu,    \* the refresh tokens whose mutex is locked
    pc,           \* pc[r]: where request r is in its handler
    presented,    \* presented[r]: the refresh_token parameter of r
    newRefresh,   \* newRefresh[r]: the refresh token r has drawn
    newAccess,    \* newAccess[r]: the access token r has drawn
    family,       \* family[r]: the family r mints into or revokes
    known,        \* tokens clients have received in a response
    drawn,        \* number of tokens drawn so far
    rotations,    \* history: pairs <<old, new>> of refresh tokens, new made from old
    reuseRevoked, \* history: families revoked after a replay was detected
    quietRevoked  \* history: those of them nobody was minting into at that time

localVars    == <<presented, newRefresh, newAccess, family>>
historyVars  == <<rotations, reuseRevoked, quietRevoked>>
vars == <<mockTokens, refreshMu, pc, presented, newRefresh, newAccess, family,
          known, drawn, rotations, reuseRevoked, quietRevoked>>

Token == Nat \ {0}
TokenInfo == [type : {"access", "refresh"}, family : Nat,
              revoked : BOOLEAN]

\* The access token the registry starts with.
MockAccessToken == 1

-----------------------------------------------------------------------------
(* The registry functions of auth.go. *)

Info(type, f) == [type |-> type, family |-> f, revoked |-> FALSE]

RegisterTokenInfo(t, info) ==
    mockTokens' = [x \in DOMAIN mockTokens \cup {t} |->
                     IF x = t THEN info ELSE mockTokens[x]]

\* LookupToken(t) # nil, for tokens without an expiry.
Live(t) == t \in DOMAIN mockTokens /\ ~mockTokens[t].revoked

LiveRefresh(t) == Live(t) /\ mockTokens[t].type = "refresh"

\* LookupTokenRaw(t) is a refresh entry that has been rotated or revoked.
RecognisedReplay(t) ==
    /\ t \in DOMAIN mockTokens
    /\ mockTokens[t].type = "refresh"
    /\ mockTokens[t].revoked

RevokeToken(t) ==
    mockTokens' = [x \in DOMAIN mockTokens \ {t} |-> mockTokens[x]]

Revoke(S) ==
    mockTokens' = [x \in DOMAIN mockTokens |->
        IF x \in S THEN [mockTokens[x] EXCEPT !.revoked = TRUE]
                   ELSE mockTokens[x]]

MarkRevoked(t) == Revoke({t})

\* Mutant: only the refresh tokens of the chain are revoked.
RevokeFamilyRefreshOnly(f) ==
    Revoke({x \in DOMAIN mockTokens : /\ f # 0 /\ mockTokens[x].family = f
                                      /\ mockTokens[x].type = "refresh"})

RevokeFamily(f) ==
    Revoke({x \in DOMAIN mockTokens : f # 0 /\ mockTokens[x].family = f})

-----------------------------------------------------------------------------
Init ==
    /\ mockTokens = [t \in {MockAccessToken} |-> Info("access", 0)]
    /\ refreshMu = {}
    /\ pc = [r \in Request |-> "idle"]
    /\ presented = [r \in Request |-> 0]
    /\ newRefresh = [r \in Request |-> 0]
    /\ newAccess = [r \in Request |-> 0]
    /\ family = [r \in Request |-> 0]
    /\ known = {MockAccessToken}
    /\ drawn = 1
    /\ rotations = {}
    /\ reuseRevoked = {}
    /\ quietRevoked = {}

Goto(r, label) == pc' = [pc EXCEPT ![r] = label]

\* The bound MaxToken leaves n tokens beyond those that the refresh grants
\* already under way may still draw.
Room(n) ==
    LET exchanging == {r \in Request : /\ pc[r] \in {"lock", "lookup"}
                                       /\ LiveRefresh(presented[r])}
    IN  drawn + 2 * Cardinality(exchanging) + n <= MaxToken

\* generateToken, for the refresh and then for the access token.
DrawPair(r) ==
    /\ newRefresh' = [newRefresh EXCEPT ![r] = drawn + 1]
    /\ newAccess' = [newAccess EXCEPT ![r] = drawn + 2]
    /\ drawn' = drawn + 2

\* Requests that have decided to issue and not yet registered every token.
Minting == {r \in Request : pc[r] \in {"issueRefresh", "issueAccess",
                                       "rotate", "markOld", "refreshAccess"}}

\* handlePasswordGrant and handleAuthorizationCodeGrant once their checks
\* have passed: issueTokens(withRefresh = true) with a new family.
StartIssue(r) ==
    /\ pc[r] = "idle"
    /\ Room(2)
    /\ DrawPair(r)
    /\ family' = [family EXCEPT ![r] = drawn + 1]
    /\ Goto(r, "issueRefresh")
    /\ UNCHANGED <<mockTokens, refreshMu, presented, known, historyVars>>

\* Mutant: withRefresh is ignored and the empty token string registered.
StartClientCredentialsWithRefresh(r) ==
    /\ pc[r] = "idle"
    /\ Room(1)
    /\ newAccess' = [newAccess EXCEPT ![r] = drawn + 1]
    /\ drawn' = drawn + 1
    /\ Goto(r, "issueRefresh")
    /\ UNCHANGED <<mockTokens, refreshMu, presented, newRefresh, family, known,
                   historyVars>>

\* handleClientCredentialsGrant: issueTokens(withRefresh = false).
StartClientCredentials(r) ==
    /\ pc[r] = "idle"
    /\ Room(1)
    /\ newAccess' = [newAccess EXCEPT ![r] = drawn + 1]
    /\ drawn' = drawn + 1
    /\ Goto(r, "issueAccess")
    /\ UNCHANGED <<mockTokens, refreshMu, presented, newRefresh, family, known,
                   historyVars>>

\* issueTokens registers the refresh token first ...
IssueRefresh(r) ==
    /\ pc[r] = "issueRefresh"
    /\ RegisterTokenInfo(newRefresh[r], Info("refresh", family[r]))
    /\ Goto(r, "issueAccess")
    /\ UNCHANGED <<refreshMu, localVars, known, drawn, historyVars>>

\* The handler returns: its locals are gone.
Forget(r) ==
    /\ presented' = [presented EXCEPT ![r] = 0]
    /\ newRefresh' = [newRefresh EXCEPT ![r] = 0]
    /\ newAccess' = [newAccess EXCEPT ![r] = 0]
    /\ family' = [family EXCEPT ![r] = 0]
    /\ Goto(r, "idle")

\* ... then the access token, and answers with what it registered.
IssueAccess(r) ==
    /\ pc[r] = "issueAccess"
    /\ RegisterTokenInfo(newAccess[r], Info("access", family[r]))
    /\ known' = known \cup ({newAccess[r], newRefresh[r]} \ {0})
    /\ Forget(r)
    /\ UNCHANGED <<refreshMu, drawn, historyVars>>

\* handleRefreshGrant is called with a token a client has received: a live
\* refresh token, a rotated, revoked or deleted one, or an access token.
StartRefresh(r) ==
    /\ pc[r] = "idle"
    /\ \E t \in known :
        /\ LiveRefresh(t) => Room(2)
        /\ presented' = [presented EXCEPT ![r] = t]
    /\ Goto(r, "lock")
    /\ UNCHANGED <<mockTokens, refreshMu, newRefresh, newAccess, family, known,
                   drawn, historyVars>>

\* Mutant: no per-token mutex.
LockIgnored(r) ==
    /\ pc[r] = "lock"
    /\ refreshMu' = refreshMu \cup {presented[r]}
    /\ Goto(r, "lookup")
    /\ UNCHANGED <<mockTokens, localVars, known, drawn, historyVars>>

\* LoadOrStore of the token's mutex, then mu.Lock().
Lock(r) ==
    /\ pc[r] = "lock"
    /\ presented[r] \notin refreshMu
    /\ refreshMu' = refreshMu \cup {presented[r]}
    /\ Goto(r, "lookup")
    /\ UNCHANGED <<mockTokens, localVars, known, drawn, historyVars>>

\* LookupToken inside the critical section finds a live refresh token, and
\* issueRefreshedAccess draws the new tokens.  The family it will copy from
\* the entry is read here: no registry function changes it.
LookupLive(r) ==
    /\ pc[r] = "lookup"
    /\ LiveRefresh(presented[r])
    /\ DrawPair(r)
    /\ family' = [family EXCEPT ![r] = mockTokens[presented[r]].family]
    /\ Goto(r, IF Rotation THEN "rotate" ELSE "refreshAccess")
    /\ UNCHANGED <<mockTokens, refreshMu, presented, known, historyVars>>

\* It finds none, or an access token: LookupTokenRaw comes next.
LookupFails(r) ==
    /\ pc[r] = "lookup"
    /\ ~LiveRefresh(presented[r])
    /\ Goto(r, "raw")
    /\ UNCHANGED <<mockTokens, refreshMu, localVars, known, drawn, historyVars>>

\* The raw entry is a rotated or revoked refresh token: a replay.
DetectReuse(r) ==
    /\ pc[r] = "raw"
    /\ RecognisedReplay(presented[r])
    /\ family' = [family EXCEPT ![r] = mockTokens[presented[r]].family]
    /\ Goto(r, "revokeFamily")
    /\ UNCHANGED <<mockTokens, refreshMu, presented, newRefresh, newAccess,
                   known, drawn, historyVars>>

\* Mutant: this return path forgets to unlock.
RejectUnknownKeepsLock(r) ==
    /\ pc[r] = "raw"
    /\ ~RecognisedReplay(presented[r])
    /\ Forget(r)
    /\ UNCHANGED <<mockTokens, refreshMu, known, drawn, historyVars>>

\* The token is unknown, deleted or an access token: invalid_grant.
RejectUnknown(r) ==
    /\ pc[r] = "raw"
    /\ ~RecognisedReplay(presented[r])
    /\ Goto(r, "unlock")
    /\ UNCHANGED <<mockTokens, refreshMu, localVars, known, drawn, historyVars>>

\* RevokeFamily, then invalid_grant.
RevokeReused(r) ==
    /\ pc[r] = "revokeFamily"
    /\ RevokeFamily(family[r])
    /\ reuseRevoked' = reuseRevoked \cup {family[r]}
    /\ quietRevoked' = IF \E q \in Minting : family[q] = family[r]
                         THEN quietRevoked
                         ELSE quietRevoked \cup {family[r]}
    /\ Goto(r, "unlock")
    /\ UNCHANGED <<refreshMu, localVars, known, drawn, rotations>>

\* Mutant: the successor starts a family of its own.
RotateNewFamily(r) ==
    /\ pc[r] = "rotate"
    /\ RegisterTokenInfo(newRefresh[r], Info("refresh", newRefresh[r]))
    /\ rotations' = rotations \cup {<<presented[r], newRefresh[r]>>}
    /\ Goto(r, "markOld")
    /\ UNCHANGED <<refreshMu, localVars, known, drawn, reuseRevoked,
                   quietRevoked>>

\* issueRefreshedAccess with rotation: register the successor ...
Rotate(r) ==
    /\ pc[r] = "rotate"
    /\ RegisterTokenInfo(newRefresh[r], Info("refresh", family[r]))
    /\ rotations' = rotations \cup {<<presented[r], newRefresh[r]>>}
    /\ Goto(r, "markOld")
    /\ UNCHANGED <<refreshMu, localVars, known, drawn, reuseRevoked,
                   quietRevoked>>

\* Mutant: the prior token stays live.
MarkOldForgotten(r) ==
    /\ pc[r] = "markOld"
    /\ Goto(r, "refreshAccess")
    /\ UNCHANGED <<mockTokens, refreshMu, localVars, known, drawn, historyVars>>

\* ... mark the prior token revoked, if it is still in the map ...
MarkOld(r) ==
    /\ pc[r] = "markOld"
    /\ MarkRevoked(presented[r])
    /\ Goto(r, "refreshAccess")
    /\ UNCHANGED <<refreshMu, localVars, known, drawn, historyVars>>

\* ... register the access token and answer.  Without rotation the answer
\* echoes the refresh token the client already has.
RefreshAccess(r) ==
    /\ pc[r] = "refreshAccess"
    /\ RegisterTokenInfo(newAccess[r], Info("access", family[r]))
    /\ known' = known \cup {newAccess[r]} \cup
                  (IF Rotation THEN {newRefresh[r]} ELSE {})
    /\ Goto(r, "unlock")
    /\ UNCHANGED <<refreshMu, localVars, drawn, historyVars>>

\* The deferred mu.Unlock() at every return of handleRefreshGrant.
Unlock(r) ==
    /\ pc[r] = "unlock"
    /\ refreshMu' = refreshMu \ {presented[r]}
    /\ Forget(r)
    /\ UNCHANGED <<mockTokens, known, drawn, historyVars>>

\* HandleRevoke deletes any token an authenticated client names.
HandleRevoke(t) ==
    /\ t \in DOMAIN mockTokens
    /\ RevokeToken(t)
    /\ UNCHANGED <<refreshMu, pc, localVars, known, drawn, historyVars>>

-----------------------------------------------------------------------------
Step(r) ==
    \/ IssueRefresh(r) \/ IssueAccess(r)
    \/ LookupLive(r) \/ LookupFails(r)
    \/ DetectReuse(r) \/ RejectUnknown(r) \/ RevokeReused(r)
    \/ Rotate(r) \/ MarkOld(r) \/ RefreshAccess(r) \/ Unlock(r)

Next ==
    \/ \E r \in Request :
        \/ StartIssue(r) \/ StartClientCredentials(r) \/ StartRefresh(r)
        \/ Lock(r) \/ Step(r)
    \/ \E t \in known : HandleRevoke(t)

Spec == Init /\ [][Next]_vars

\* A goroutine that can run does run; sync.Mutex hands a long-waiting
\* goroutine the lock (its starvation mode), hence SF for Lock.  Clients owe
\* the server nothing: no fairness for the Start actions nor HandleRevoke.
Fairness == \A r \in Request : WF_vars(Step(r)) /\ SF_vars(Lock(r))

FairSpec == Spec /\ Fairness

-----------------------------------------------------------------------------
(* Properties. *)

Labels == {"idle", "issueRefresh", "issueAccess", "lock", "lookup", "raw",
           "revokeFamily", "rotate", "markOld", "refreshAccess", "unlock"}

\* The values each variable may take.
TypeOK ==
    /\ DOMAIN mockTokens \subseteq Token
    /\ \A t \in DOMAIN mockTokens : mockTokens[t] \in TokenInfo
    /\ refreshMu \subseteq Token
    /\ pc \in [Request -> Labels]
    /\ presented \in [Request -> Nat]
    /\ newRefresh \in [Request -> Nat]
    /\ newAccess \in [Request -> Nat]
    /\ family \in [Request -> Nat]
    /\ known \subseteq Token
    /\ drawn \in Token
    /\ rotations \subseteq Token \X Token
    /\ reuseRevoked \subseteq Token /\ quietRevoked \subseteq Token

\* handleRefreshGrant, "prevents concurrent exchanges of the same refresh
\* token from both succeeding": however requests interleave, and whatever is
\* revoked meanwhile, a refresh token is rotated into at most one successor.
SingleSuccessor ==
    \A p, q \in rotations : p[1] = q[1] => p = q

\* A refresh family is one chain with one live end: two live refresh tokens
\* of a family are the old and the new one of a single exchange between
\* registering the successor and marking the prior token.
OneLiveRefreshPerFamily ==
    \A t, u \in DOMAIN mockTokens :
        /\ t # u /\ LiveRefresh(t) /\ LiveRefresh(u)
        /\ mockTokens[t].family = mockTokens[u].family
        => \E r \in Request : /\ pc[r] = "markOld"
                              /\ t \in {presented[r], newRefresh[r]}
                              /\ u \in {presented[r], newRefresh[r]}

\* Both together, in every state: however exchanges, replays and revocations
\* interleave, the refresh tokens of a family are one chain that never forks
\* and has one live end (handleRefreshGrant, issueRefreshedAccess).
OneChainPerFamily == SingleSuccessor /\ OneLiveRefreshPerFamily

\* Replay detection is final when it meets no exchange of the family in
\* flight: no access or refresh token of the family is ever live again.
QuietRevocationFinal ==
    \A t \in DOMAIN mockTokens :
        mockTokens[t].family \in quietRevoked => mockTokens[t].revoked

\* RevokeFamily's comment, "so all derived access tokens stop working":
\* after a detected replay no token of the family is live.
RevokedFamilyStaysDead ==
    \A t \in DOMAIN mockTokens :
        mockTokens[t].family \in reuseRevoked => mockTokens[t].revoked

\* The state of RefreshFamilies.  The old token of an exchange stops counting
\* as an end when its successor is registered.
Ends ==
    {t \in DOMAIN mockTokens :
        /\ LiveRefresh(t)
        /\ \A r \in Request : pc[r] = "markOld" => presented[r] # t}

Traders == {r \in Request : pc[r] = "rotate"}

Given == known \cup DOMAIN mockTokens
End ==
    [f \in {mockTokens[t].family : t \in Ends} |->
        CHOOSE t \in Ends : mockTokens[t].family = f]
Trading ==
    [f \in {family[r] : r \in Traders} |->
        presented[CHOOSE r \in Traders : family[r] = f]]
Spent == {p[1] : p \in rotations}

Families == INSTANCE RefreshFamilies WITH
    given <- Given, end <- End, trading <- Trading, spent <- Spent

\* "Re-read the token INSIDE the critical section" (handleRefreshGrant): the
\* grants, replays and revocations running side by side keep the promise of
\* rotation.  A family has one usable end, an exchange replaces it once, and
\* one that lost its end while no exchange was under way never has one again.
ImplementsRefreshFamilies == Families!Spec

\* No request waits for ever for a per-token mutex: every grant answers.
EveryGrantAnswers == \A r \in Request : pc[r] # "idle" ~> pc[r] = "idle"
=============================================================================
