----------------------------- MODULE UserTokens -----------------------------
(***************************************************************************)
(* Runtime users and the bearer tokens minted for them: the user store     *)
(* (internal/users, SQLite-backed), the OAuth registry's copy of its       *)
(* tokens (internal/server/middleware/auth.go), the two sets of handlers   *)
(* that keep the two in step (internal/handlers/admin_users.go and         *)
(* internal/server/settings_users.go) and the start-up of the server       *)
(* (cmd/salesforce-mock/main.go, buildUserStore).                          *)
(*                                                                         *)
(* Every store method and every registry function is atomic; a handler is  *)
(* a sequence of them with nothing held in between.  The store survives a  *)
(* restart, the registry and the requests in flight do not.                *)
(*                                                                         *)
(* Users and tokens are numbered in the order newID draws them.  A user is *)
(* its username here; names, e-mail addresses, passwords, labels and token *)
(* expiry are abstracted (LookupToken checks expiry on every use).         *)
(***************************************************************************)
EXTENDS Naturals, FiniteSets

CONSTANTS
    Request,    \* HTTP requests that can be in flight at once
    Name,       \* usernames
    NoName,     \* the empty username
    SeedNames,  \* the usernames of MOCK_USERS
    MaxUser,    \* bound on the users created by requests
    MaxToken    \* bound on the tokens minted

ASSUME ConstantsAssumption ==
    /\ SeedNames \subseteq Name /\ IsFiniteSet(SeedNames) /\ NoName \notin Name
    /\ MaxUser \in Nat /\ MaxToken \in Nat

VARIABLES
    username,   \* the users table: a partial map from user to username
    rows,       \* the user_tokens table: tokens stored
    live,       \* minted tokens in the OAuth registry
    owner,      \* owner[t]: the user token t was minted for, a partial map
    lastUser,   \* number of users created so far
    pc,         \* pc[r]: where request r is in its handler
    target,     \* target[r]: the user or the token r is about
    listed,     \* listed[r]: tokens r has listed and not yet revoked
    delivered,  \* history: tokens returned to a client
    began,      \* history: began[r], tokens delivered before r set out to revoke them
    dead,       \* history: tokens such a request has finished revoking
    oauthRevoked, \* history: tokens revoked at /services/oauth2/revoke since the start
    stranded    \* history: tokens that a failing store call has kept out of live
                \* since the start, and in rows

storeVars   == <<username, rows, owner, lastUser>>
localVars   == <<target, listed, began>>
historyVars == <<delivered, dead, oauthRevoked, stranded>>
vars == <<username, rows, live, owner, lastUser, pc, target, listed, delivered,
          began, dead, oauthRevoked, stranded>>

Users == DOMAIN username
Minted == DOMAIN owner
Taken(n) == \E u \in Users : username[u] = n
TokensOf(u) == {t \in rows : owner[t] = u}

-----------------------------------------------------------------------------
(* The store operations that several handlers share. *)

\* Start-up on an empty database: SeedFromMap creates the users of MOCK_USERS
\* (map iteration order, hence any numbering).
Seeded(base, missing, first) ==
    {f \in [DOMAIN base \cup first + 1 .. first + Cardinality(missing) ->
              Name \cup {NoName}] :
        /\ \A u \in DOMAIN base : f[u] = base[u]
        /\ {f[u] : u \in first + 1 .. first + Cardinality(missing)} = missing}

\* DeleteUser: the row and, by cascade, the rows of its tokens.
DeleteUser(u) ==
    /\ username' = [v \in Users \ {u} |-> username[v]]
    /\ rows' = rows \ TokensOf(u)
    /\ UNCHANGED <<owner, lastUser>>

Goto(r, label) == pc' = [pc EXCEPT ![r] = label]

Init ==
    /\ username \in Seeded(<<>>, SeedNames, 0)
    /\ lastUser = Cardinality(SeedNames)
    /\ rows = {} /\ live = {} /\ owner = <<>>
    /\ pc = [r \in Request |-> "idle"]
    /\ target = [r \in Request |-> 0]
    /\ listed = [r \in Request |-> {}]
    /\ began = [r \in Request |-> {}]
    /\ delivered = {} /\ dead = {} /\ oauthRevoked = {} /\ stranded = {}

-----------------------------------------------------------------------------
(* Handlers of one store call. *)

\* createUser of either handler: an empty or taken username is refused.
CreateUser(n) ==
    /\ lastUser < MaxUser
    /\ ~Taken(n)
    /\ username' = [u \in Users \cup {lastUser + 1} |->
                      IF u = lastUser + 1 THEN n ELSE username[u]]
    /\ lastUser' = lastUser + 1
    /\ UNCHANGED <<rows, owner, live, pc, localVars, historyVars>>

\* updateUser with a new username; the admin API accepts the empty one.
UpdateUser(u, n) ==
    /\ u \in Users
    /\ \A v \in Users \ {u} : username[v] # n
    /\ username' = [username EXCEPT ![u] = n]
    /\ UNCHANGED <<rows, owner, lastUser, live, pc, localVars, historyVars>>

\* DELETE /admin/users/{id}: the store only.
AdminDeleteUser(u) ==
    /\ u \in Users
    /\ DeleteUser(u)
    /\ UNCHANGED <<live, pc, localVars, historyVars>>

\* POST /services/oauth2/revoke: the registry only.
OAuthRevoke(t) ==
    /\ t \in delivered \cap live
    /\ live' = live \ {t}
    /\ oauthRevoked' = oauthRevoked \cup {t}
    /\ UNCHANGED <<storeVars, pc, localVars, delivered, dead, stranded>>

-----------------------------------------------------------------------------
(* mintToken, the same in both handlers: GetUser, CreateToken, Register. *)

MintsUnderWay == {r \in Request : pc[r] = "createToken"}

StartMint(r, u) ==
    /\ pc[r] = "idle"
    /\ u \in Users
    /\ Cardinality(Minted) + Cardinality(MintsUnderWay) < MaxToken
    /\ target' = [target EXCEPT ![r] = u]
    /\ Goto(r, "createToken")
    /\ UNCHANGED <<storeVars, live, listed, began, historyVars>>

\* A bug: GetUser's answer is trusted.
CreateTokenUnchecked(r) ==
    /\ pc[r] = "createToken"
    /\ LET t == Cardinality(Minted) + 1
       IN  /\ rows' = rows \cup {t}
           /\ owner' = [x \in Minted \cup {t} |->
                          IF x = t THEN target[r] ELSE owner[x]]
           /\ target' = [target EXCEPT ![r] = t]
    /\ Goto(r, "register")
    /\ UNCHANGED <<username, lastUser, live, listed, began, historyVars>>

\* CreateToken checks again that the user exists, in its own transaction.
CreateToken(r) ==
    /\ pc[r] = "createToken"
    /\ target[r] \in Users
    /\ LET t == Cardinality(Minted) + 1
       IN  /\ rows' = rows \cup {t}
           /\ owner' = [x \in Minted \cup {t} |->
                          IF x = t THEN target[r] ELSE owner[x]]
           /\ target' = [target EXCEPT ![r] = t]
    /\ Goto(r, "register")
    /\ UNCHANGED <<username, lastUser, live, listed, began, historyVars>>

\* A bug: the error of CreateToken is dropped.
CreateTokenErrorDropped(r) ==
    /\ pc[r] = "createToken"
    /\ Goto(r, "register")
    /\ UNCHANGED <<storeVars, live, target, listed, began, historyVars>>

\* The user is gone, or the insert fails: nothing is stored or registered.
CreateTokenFails(r) ==
    /\ pc[r] = "createToken"
    /\ Goto(r, "idle")
    /\ target' = [target EXCEPT ![r] = 0]
    /\ UNCHANGED <<storeVars, live, listed, began, historyVars>>

RegisterMinted(r) ==
    /\ pc[r] = "register"
    /\ live' = live \cup {target[r]}
    /\ delivered' = delivered \cup {target[r]}
    /\ target' = [target EXCEPT ![r] = 0]
    /\ Goto(r, "idle")
    /\ UNCHANGED <<storeVars, listed, began, dead, oauthRevoked, stranded>>

-----------------------------------------------------------------------------
(* Revoking one token by id, the same in both handlers: GetToken,          *)
(* DeleteToken, RevokeToken.                                               *)

StartRevoke(r, t) ==
    /\ pc[r] = "idle"
    /\ t \in rows
    /\ target' = [target EXCEPT ![r] = t]
    /\ began' = [began EXCEPT ![r] = delivered \cap {t}]
    /\ Goto(r, "deleteToken")
    /\ UNCHANGED <<storeVars, live, listed, historyVars>>

DeleteToken(r) ==
    /\ pc[r] = "deleteToken"
    /\ target[r] \in rows
    /\ rows' = rows \ {target[r]}
    /\ Goto(r, "pull")
    /\ UNCHANGED <<username, owner, lastUser, live, localVars, historyVars>>

\* The request returns without having revoked anything.
Abandon(r) ==
    /\ target' = [target EXCEPT ![r] = 0]
    /\ began' = [began EXCEPT ![r] = {}]
    /\ Goto(r, "idle")

\* Somebody else deleted the row first, or the delete fails: nothing pulled.
DeleteTokenFails(r) ==
    /\ pc[r] = "deleteToken"
    /\ Abandon(r)
    /\ UNCHANGED <<storeVars, live, listed, historyVars>>

Pull(r) ==
    /\ pc[r] = "pull"
    /\ live' = live \ {target[r]}
    /\ dead' = dead \cup began[r]
    /\ Abandon(r)
    /\ UNCHANGED <<storeVars, listed, delivered, oauthRevoked, stranded>>

-----------------------------------------------------------------------------
(* deleteUser of the settings pages: ListTokens, RevokeToken for each,     *)
(* DeleteUser.  ORDER BY created_at ties within a second: any order.  When *)
(* ListTokens fails nothing is revoked and the user is deleted all the     *)
(* same.                                                                   *)

\* A bug: the tokens are listed after the cascade removed their rows.
StartSettingsDeleteUnlisted(r, u) ==
    /\ pc[r] = "idle"
    /\ u \in Users
    /\ target' = [target EXCEPT ![r] = u]
    /\ began' = [began EXCEPT ![r] = delivered \cap TokensOf(u)]
    /\ Goto(r, "revokeListed")
    /\ UNCHANGED <<storeVars, live, listed, historyVars>>

StartSettingsDelete(r, u) ==
    /\ pc[r] = "idle"
    /\ u \in Users
    /\ target' = [target EXCEPT ![r] = u]
    /\ \E toks \in {TokensOf(u), {}} :
        /\ listed' = [listed EXCEPT ![r] = toks]
        /\ began' = [began EXCEPT ![r] = delivered \cap toks]
    /\ Goto(r, "revokeListed")
    /\ UNCHANGED <<storeVars, live, historyVars>>

RevokeListed(r, t) ==
    /\ pc[r] = "revokeListed"
    /\ t \in listed[r]
    /\ live' = live \ {t}
    /\ listed' = [listed EXCEPT ![r] = @ \ {t}]
    /\ UNCHANGED <<storeVars, pc, target, began, historyVars>>

SettingsDeleteUser(r) ==
    /\ pc[r] = "revokeListed"
    /\ listed[r] = {}
    /\ target[r] \in Users
    /\ DeleteUser(target[r])
    /\ dead' = dead \cup began[r]
    /\ Abandon(r)
    /\ UNCHANGED <<live, listed, delivered, oauthRevoked, stranded>>

\* ErrNotFound from DeleteUser counts as success.
SettingsDeleteGone(r) ==
    /\ pc[r] = "revokeListed"
    /\ listed[r] = {}
    /\ target[r] \notin Users
    /\ dead' = dead \cup began[r]
    /\ Abandon(r)
    /\ UNCHANGED <<storeVars, live, listed, delivered, oauthRevoked, stranded>>

\* Another error: the user and the rows stay, the tokens are revoked already.
SettingsDeleteFails(r) ==
    /\ pc[r] = "revokeListed"
    /\ listed[r] = {}
    /\ target[r] \in Users
    /\ stranded' = stranded \cup (TokensOf(target[r]) \ live)
    /\ Abandon(r)
    /\ UNCHANGED <<storeVars, live, listed, delivered, dead, oauthRevoked>>

-----------------------------------------------------------------------------
(* The process stops anywhere and starts again; requests in flight are     *)
(* gone.  SeedFromMap creates users of MOCK_USERS whose username is free,  *)
(* and no more of them once one fails; that the store opens is assumed.    *)

Restarts ==
    /\ \E missing \in SUBSET {n \in SeedNames : ~Taken(n)} :
        /\ lastUser + Cardinality(missing) <= MaxUser
        /\ username' \in Seeded(username, missing, lastUser)
        /\ lastUser' = lastUser + Cardinality(missing)
    /\ pc' = [r \in Request |-> "idle"]
    /\ target' = [r \in Request |-> 0]
    /\ listed' = [r \in Request |-> {}]
    /\ began' = [r \in Request |-> {}]
    /\ oauthRevoked' = {}
    /\ UNCHANGED <<rows, owner, delivered, dead>>

\* A bug: the stored tokens are registered before the registry is made.
RestartForgetsTokens == Restarts /\ live' = {} /\ stranded' = {}

\* buildUserStore registers every stored token.
Restart == Restarts /\ live' = rows /\ stranded' = {}

\* AllTokens fails: no token is registered, and nothing is said.
RestartUnread == Restarts /\ live' = {} /\ stranded' = rows

Step(r) ==
    \/ CreateToken(r) \/ CreateTokenFails(r) \/ RegisterMinted(r)
    \/ DeleteToken(r) \/ DeleteTokenFails(r) \/ Pull(r)
    \/ \E t \in listed[r] : RevokeListed(r, t)
    \/ SettingsDeleteUser(r) \/ SettingsDeleteGone(r) \/ SettingsDeleteFails(r)

Next ==
    \/ \E n \in Name : CreateUser(n)
    \/ \E u \in Users : \/ \E n \in Name \cup {NoName} : UpdateUser(u, n)
                        \/ AdminDeleteUser(u)
    \/ \E t \in live : OAuthRevoke(t)
    \/ \E r \in Request :
        \/ \E u \in Users : StartMint(r, u) \/ StartSettingsDelete(r, u)
        \/ \E t \in rows : StartRevoke(r, t)
        \/ Step(r)
    \/ Restart \/ RestartUnread

Spec == Init /\ [][Next]_vars

-----------------------------------------------------------------------------
(* Properties. *)

Labels == {"idle", "createToken", "register", "deleteToken", "pull",
           "revokeListed"}

\* The values each variable may take.
TypeOK ==
    /\ Users \subseteq 1..lastUser /\ lastUser \in Nat
    /\ \A u \in Users : username[u] \in Name \cup {NoName}
    /\ Minted \subseteq Nat \ {0}
    /\ \A t \in Minted : owner[t] \in 1..lastUser
    /\ rows \subseteq Minted /\ live \subseteq Minted /\ delivered \subseteq Minted
    /\ pc \in [Request -> Labels]
    /\ target \in [Request -> Nat]
    /\ listed \in [Request -> SUBSET Minted]
    /\ began \in [Request -> SUBSET Minted]
    /\ dead \subseteq Minted /\ oauthRevoked \subseteq Minted
    /\ stranded \subseteq Minted

\* The cascade and CreateToken's own check: a stored token has its user, even
\* when the user is deleted between the handler's GetUser and CreateToken.
StoredTokensHaveUsers == \A t \in rows : owner[t] \in Users

\* A revocation by id, or by a settings deletion that listed the token, which
\* began once the token had been handed out and went through, is final: the
\* token never authenticates again, also after a restart.
RevocationIsFinal == dead \cap (live \cup rows) = {}

\* buildUserStore, "so they remain valid across restarts": a stored token
\* authenticates unless, since the last start, it was revoked at the OAuth
\* endpoint or a failing store call stranded it; or it is being minted, or its
\* user being deleted in the settings pages.  What is stranded is what a
\* settings deletion revoked before it could not delete the user, who keeps
\* tokens that are shown and not accepted until the server is started again;
\* and, at a start that cannot read the tokens, all of them.
StoredTokensAuthenticate ==
    \A t \in rows :
        \/ t \in live \/ t \in oauthRevoked \/ t \in stranded
        \/ \E r \in Request :
            \/ pc[r] = "register" /\ target[r] = t
            \/ pc[r] = "revokeListed" /\ target[r] = owner[t]
=============================================================================
