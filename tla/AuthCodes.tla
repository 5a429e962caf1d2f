----------------------------- MODULE AuthCodes -----------------------------
(***************************************************************************)
(* The authorization_code flow: the consent POST that issues a code        *)
(* (internal/handlers/authorize.go), the code registry                     *)
(* (internal/handlers/authcodes.go) and the exchange at the token endpoint *)
(* (internal/handlers/oauth.go, handleAuthorizationCodeGrant).             *)
(*                                                                         *)
(* Issue and Consume hold the registry's mutex: each is atomic.  An        *)
(* exchange is not: it consumes the code first and checks the redirect URI *)
(* and the PKCE verifier on its own copy afterwards.  Any number of        *)
(* exchanges may be in flight, for the same code too.  The registry is in  *)
(* memory: a restart forgets the codes and the exchanges in flight.        *)
(*                                                                         *)
(* Codes are numbered in the order generateAuthCode draws them.  S256 is   *)
(* one-to-one here: a challenge is named by its verifier.  One client is   *)
(* configured and both ends refuse any other.  Scope and state travel with *)
(* the code and decide nothing; nor does the user the code is for.         *)
(***************************************************************************)
EXTENDS Naturals, Sequences

CONSTANTS
    Request,      \* exchanges that can be in flight at once
    RedirectURI,  \* absolute redirect URIs
    Registered,   \* MockRedirectURIs, the ones on the allowlist
    Verifier,     \* PKCE verifiers
    NoForm,       \* no exchange under way
    authCodeTTL,  \* lifetime of a code
    MaxCode,      \* bound on the codes issued
    MaxTime       \* bound on the clock

AuthCode == [redirectURI : RedirectURI, challenge : Verifier,
             expiresAt : Nat, used : BOOLEAN]
Form == [code : 1..MaxCode, redirectURI : RedirectURI, verifier : Verifier]

ASSUME ConstantsAssumption ==
    /\ NoForm \notin Form
    /\ Registered \subseteq RedirectURI
    /\ authCodeTTL \in Nat /\ MaxCode \in Nat /\ MaxTime \in Nat

VARIABLES
    codes,     \* codes[c]: the entry of code c
    forgotten, \* codes up to this one were issued before the last restart
    now,       \* the clock
    form,      \* form[r]: what exchange r presented, once it consumed the code
    grants,    \* history: grants[c], number of token responses for code c
    refused,   \* history: codes consumed by an exchange that then failed
    void       \* history: codes a restart found open

vars == <<codes, forgotten, now, form, grants, refused, void>>

Issued == 1..Len(codes)
Settled(c) == grants[c] > 0 \/ c \in refused \cup void

Init ==
    /\ codes = <<>> /\ forgotten = 0
    /\ now = 0
    /\ form = [r \in Request |-> NoForm]
    /\ grants = [c \in 1..MaxCode |-> 0]
    /\ refused = {} /\ void = {}

-----------------------------------------------------------------------------
\* A bug: code_challenge is optional.
IssueWithoutPKCE(uri, challenge) ==
    /\ Len(codes) < MaxCode
    /\ uri \in Registered
    /\ codes' = Append(codes, [redirectURI |-> uri, challenge |-> "",
                               expiresAt |-> now + authCodeTTL, used |-> FALSE])
    /\ UNCHANGED <<forgotten, now, form, grants, refused, void>>

\* HandlePost of the consent screen, action=allow, with a session, a
\* redirect URI on the allowlist and an S256 challenge: Issue.
Issue(uri, challenge) ==
    /\ Len(codes) < MaxCode
    /\ uri \in Registered
    /\ codes' = Append(codes, [redirectURI |-> uri, challenge |-> challenge,
                               expiresAt |-> now + authCodeTTL, used |-> FALSE])
    /\ UNCHANGED <<forgotten, now, form, grants, refused, void>>

\* A bug: a used entry is found again.
ConsumableAgain(c) == c \in Issued /\ c > forgotten /\ now <= codes[c].expiresAt

\* A bug: the expiry is not looked at.
ConsumableLate(c) == c \in Issued /\ c > forgotten /\ ~codes[c].used

\* Consume finds an entry: known, unused, and not After its expiry.
Consumable(c) ==
    /\ c \in Issued /\ c > forgotten
    /\ ~codes[c].used
    /\ now <= codes[c].expiresAt

\* Consume, which every exchange calls before it checks anything about the
\* code.  An exchange it refuses changes nothing.
Consume(r, f) ==
    /\ form[r] = NoForm
    /\ Consumable(f.code)
    /\ codes' = [codes EXCEPT ![f.code].used = TRUE]
    /\ form' = [form EXCEPT ![r] = f]
    /\ UNCHANGED <<forgotten, now, grants, refused, void>>

\* The checks that follow: the redirect URI of the authorization request,
\* still on the allowlist, and verifyPKCE.
Verified(f) ==
    /\ f.redirectURI = codes[f.code].redirectURI
    /\ f.redirectURI \in Registered
    /\ f.verifier = codes[f.code].challenge

Finish(r) == form' = [form EXCEPT ![r] = NoForm]

\* issueTokens for the user of the code.
Grant(r) ==
    /\ form[r] # NoForm
    /\ Verified(form[r])
    /\ grants' = [grants EXCEPT ![form[r].code] = @ + 1]
    /\ Finish(r)
    /\ UNCHANGED <<codes, forgotten, now, refused, void>>

\* A bug: a failed exchange gives the code back.
RefuseReopens(r) ==
    /\ form[r] # NoForm
    /\ ~Verified(form[r])
    /\ codes' = [codes EXCEPT ![form[r].code].used = FALSE]
    /\ refused' = refused \cup {form[r].code}
    /\ Finish(r)
    /\ UNCHANGED <<forgotten, now, grants, void>>

\* invalid_grant; the code stays consumed.
Refuse(r) ==
    /\ form[r] # NoForm
    /\ ~Verified(form[r])
    /\ refused' = refused \cup {form[r].code}
    /\ Finish(r)
    /\ UNCHANGED <<codes, forgotten, now, grants, void>>

\* The process stops and starts again.
Restart ==
    /\ forgotten' = Len(codes)
    /\ void' = void \cup {c \in Issued : ~Settled(c)}
    /\ form' = [r \in Request |-> NoForm]
    /\ UNCHANGED <<codes, now, grants, refused>>

Tick ==
    /\ now < MaxTime
    /\ now' = now + 1
    /\ UNCHANGED <<codes, forgotten, form, grants, refused, void>>

Next ==
    \/ \E uri \in RedirectURI, challenge \in Verifier : Issue(uri, challenge)
    \/ \E r \in Request : \/ \E f \in Form : Consume(r, f)
                          \/ Grant(r)
                          \/ Refuse(r)
    \/ Restart
    \/ Tick

Spec == Init /\ [][Next]_vars

-----------------------------------------------------------------------------
(* Properties. *)

\* The values each variable may take.
TypeOK ==
    /\ codes \in Seq(AuthCode) /\ Len(codes) <= MaxCode
    /\ forgotten \in 0..Len(codes)
    /\ now \in 0..MaxTime
    /\ form \in [Request -> Form \cup {NoForm}]
    /\ grants \in [1..MaxCode -> Nat]
    /\ refused \subseteq Issued /\ void \subseteq Issued

\* "Consumed exactly once by the token endpoint": whatever exchanges race for
\* a code, it brings tokens at most once, and never after an exchange that
\* failed its checks had consumed it, or after a restart.
GrantedOnce ==
    \A c \in Issued :
        /\ grants[c] <= 1
        /\ c \in refused \cup void => grants[c] = 0

\* An expired code stays expired: tokens come only from an exchange that
\* consumed the code in its lifetime, however long its checks take.
ExpiredStaysUnused ==
    [][\A c \in Issued :
          now > codes[c].expiresAt /\ ~codes[c].used
            => ~codes'[c].used /\ grants'[c] = 0]_vars

\* The flow implements the one-time code it promises.
Status(c) ==
    IF c \notin Issued THEN "none"
    ELSE IF grants[c] > 0 THEN "granted"
    ELSE IF c \in refused THEN "refused"
    ELSE IF c \in void THEN "void"
    ELSE "open"

Promise == INSTANCE OneTimeCode WITH
    status <- [c \in 1..MaxCode |-> Status(c)]

ImplementsOneTimeCode == Promise!Spec
=============================================================================
