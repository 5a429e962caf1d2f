----------------------------- MODULE Sessions -----------------------------
(***************************************************************************)
(* Browser sessions (internal/server/middleware/auth.go, jwt.go) around    *)
(* the authorization code flow: a password sets the sf_session cookie, the *)
(* cookie lets its browser consent to a code, the code's token lets a      *)
(* request in, and a request let in by a token sets the cookie again.      *)
(*                                                                         *)
(* The cookie is a signed claim with an expiry and nothing keeps it at the *)
(* server: a restart forgets the tokens and the codes, not the sessions,   *)
(* and a revocation reaches the token alone.  Signatures are sound: a      *)
(* cookie was set by the server.  A code's access token is known by the    *)
(* code; rotation is in OAuthTokens.                                       *)
(***************************************************************************)
EXTENDS AuthCodes

CONSTANTS
    Browser,
    User,            \* the accounts of the login form
    NoCookie,
    sessionDuration, \* 12 hours
    accessTTL        \* lifetime of an access token

ASSUME SessionConstants ==
    /\ sessionDuration \in Nat \ {0} /\ accessTTL \in Nat \ {0}
    /\ NoCookie \notin User

VARIABLES
    cookie,  \* cookie[b]: the sf_session cookie in browser b
    token,   \* token[c]: when the access token of code c expires, 0 for none
    owner,   \* owner[c]: the user code c was issued for
    dead,    \* history: dead[c], when the token of code c stopped being accepted
    entered  \* history: entered[u], when u last came in by a password or a token

sessionVars == <<cookie, token, owner, dead, entered>>
Never == MaxTime + accessTTL + sessionDuration + 1

Cookie == [user : User, exp : Nat, from : 0 .. MaxCode] \* from: history, the token's code
SessionCookie(u, c) == [user |-> u, exp |-> now + sessionDuration, from |-> c]

\* A bug: a stale claim is as good as a fresh one.
ValidateSessionStale(b) == cookie[b] # NoCookie

\* ParseSessionJWT: not past its expiry.
ValidateSession(b) == cookie[b] # NoCookie /\ now <= cookie[b].exp

SessionInit ==
    /\ Init
    /\ cookie = [b \in Browser |-> NoCookie]
    /\ token = [c \in 1 .. MaxCode |-> 0] /\ dead = [c \in 1 .. MaxCode |-> Never]
    /\ owner = <<>>
    /\ entered = [u \in User |-> Never]

-----------------------------------------------------------------------------
\* LoginHandler, with the right password, session or not.
Login(b, u) ==
    /\ cookie' = [cookie EXCEPT ![b] = SessionCookie(u, 0)]
    /\ entered' = [entered EXCEPT ![u] = now]
    /\ UNCHANGED <<vars, token, owner, dead>>

\* LogoutHandler clears the cookie in the browser.
Logout(b) ==
    /\ cookie' = [cookie EXCEPT ![b] = NoCookie]
    /\ UNCHANGED <<vars, token, owner, dead, entered>>

\* A consent: the code is the session's user's.
Consent(b, uri, challenge) ==
    /\ ValidateSession(b)
    /\ Issue(uri, challenge)
    /\ owner' = Append(owner, cookie[b].user)
    /\ UNCHANGED <<cookie, token, dead, entered>>

GrantToken(r) ==
    /\ Grant(r)
    /\ token' = [token EXCEPT ![form[r].code] = now + accessTTL]
    /\ dead' = [dead EXCEPT ![form[r].code] = now + accessTTL]
    /\ UNCHANGED <<cookie, owner, entered>>

\* A bug: any token the registry knows lets a request in.
LookupTokenRaw(c) == token[c] # 0

\* LookupToken: known, not revoked, not expired.  A registry entry outlives
\* its expiry; a revoked one is as good as gone.
LookupToken(c) == token[c] # 0 /\ now < token[c]

\* Auth: a request with a valid session is let in as it is; one without, by
\* its bearer token, and is given a session.
Auth(b, c) ==
    /\ ~ValidateSession(b)
    /\ LookupToken(c)
    /\ cookie' = [cookie EXCEPT ![b] = SessionCookie(owner[c], c)]
    /\ entered' = [entered EXCEPT ![owner[c]] = now]
    /\ UNCHANGED <<vars, token, owner, dead>>

\* A revocation takes the token out of use.
RevokeAccess(c) ==
    /\ LookupToken(c)
    /\ token' = [token EXCEPT ![c] = 0]
    /\ dead' = [dead EXCEPT ![c] = now]
    /\ UNCHANGED <<vars, cookie, owner, entered>>

\* The registries go, the cookies stay.
RestartServer ==
    /\ Restart
    /\ token' = [c \in 1 .. MaxCode |-> 0]
    /\ dead' = [c \in 1 .. MaxCode |-> IF LookupToken(c) THEN now ELSE dead[c]]
    /\ UNCHANGED <<cookie, owner, entered>>

SessionNext ==
    \/ \E b \in Browser, u \in User : Login(b, u)
    \/ \E b \in Browser : Logout(b)
    \/ \E b \in Browser, uri \in RedirectURI, challenge \in Verifier : Consent(b, uri, challenge)
    \/ \E b \in Browser, c \in Issued : Auth(b, c)
    \/ \E c \in Issued : RevokeAccess(c)
    \/ \E r \in Request : \/ \E f \in Form : Consume(r, f) /\ UNCHANGED sessionVars
                          \/ GrantToken(r)
                          \/ Refuse(r) /\ UNCHANGED sessionVars
    \/ RestartServer
    \/ Tick /\ UNCHANGED sessionVars

SessionSpec == SessionInit /\ [][SessionNext]_<<vars, sessionVars>>

-----------------------------------------------------------------------------

\* What a token leaves behind ends too: the session a bearer request was given
\* outlives the token's expiry, its revocation or the restart that forgot it
\* by at most the 12 hours of a session.
TokenSessionsEnd ==
    \A b \in Browser : cookie[b] # NoCookie /\ cookie[b].from # 0 =>
        cookie[b].exp <= dead[cookie[b].from] + sessionDuration

\* A code is issued for a user who came in at most 12 hours before.
CodesAreTheUsers ==
    [][Len(codes') > Len(codes) =>
        LET u == owner'[Len(owner')]
        IN  entered[u] <= now /\ now - entered[u] <= sessionDuration]_<<vars, sessionVars>>
=============================================================================
