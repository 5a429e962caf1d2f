-------------------------- MODULE UserTokensProofs --------------------------
(***************************************************************************)
(* The stored tokens and the live ones agree, and a revocation is final,   *)
(* for any requests, users and tokens and over any number of restarts.     *)
(* None of the three properties is inductive: a request in flight carries  *)
(* a token or a list of tokens between its calls, and the invariant says   *)
(* what is still true of them when it makes the next one.                  *)
(***************************************************************************)
EXTENDS UserTokens, FiniteSetTheorems, TLAPS

\* Tokens are numbered as they are drawn.
Numbered == IsFiniteSet(Minted) /\ Minted = 1..Cardinality(Minted)

\* A token on its way to be registered has been handed to nobody.
Undelivered(r) == pc[r] = "register" => target[r] \in Minted \ delivered

\* A revocation by id revokes its token and has deleted the row when it pulls.
OneRevoked(r) ==
    /\ pc[r] \in {"deleteToken", "pull"} =>
         target[r] \in Minted /\ began[r] \subseteq {target[r]}
    /\ pc[r] = "pull" => target[r] \notin rows

\* A settings deletion revokes tokens of its user, and what it set out to
\* revoke is on its list as long as it is live.
AllListed(r) ==
    pc[r] = "revokeListed" =>
        /\ \A t \in listed[r] \cup began[r] : owner[t] = target[r]
        /\ began[r] \cap live \subseteq listed[r]

\* No two requests register the same token.
OwnToken(r, q) ==
    r # q /\ pc[r] = "register" /\ pc[q] = "register" => target[r] # target[q]

InFlight ==
    /\ \A r \in Request : /\ began[r] \subseteq delivered
                          /\ Undelivered(r) /\ OneRevoked(r) /\ AllListed(r)
    /\ \A r, q \in Request : OwnToken(r, q)

\* What is revoked was once delivered: RevocationIsFinal needs that a token on
\* its way to be registered is not among them.
Final == dead \subseteq delivered /\ StoredTokensHaveUsers /\ RevocationIsFinal

IInv == TypeOK /\ Numbered /\ InFlight /\ Final /\ StoredTokensAuthenticate

-----------------------------------------------------------------------------
\* The token CreateToken draws is new and the next number.
LEMMA NewToken ==
    ASSUME Numbered
    PROVE  LET t == Cardinality(Minted) + 1
           IN  /\ t \in Nat \ {0} /\ t \notin Minted
               /\ Minted \cup {t} = 1..t
<1>1. Cardinality(Minted) \in Nat
    BY FS_CardinalityType DEF Numbered
<1> QED
    BY <1>1 DEF Numbered

\* What CreateToken does, with t for the token it draws.
Drawn(r, t) ==
    /\ pc[r] = "createToken" /\ target[r] \in Users
    /\ pc' = [pc EXCEPT ![r] = "register"] /\ target' = [target EXCEPT ![r] = t]
    /\ rows' = rows \cup {t} /\ Minted' = Minted \cup {t}
    /\ owner'[t] = target[r] /\ \A x \in Minted : owner'[x] = owner[x]
    /\ UNCHANGED <<username, lastUser, live, listed, began, historyVars>>

\* What CreateToken does, for a request that finds its user.
LEMMA TokenDrawn ==
    ASSUME Numbered, NEW r \in Request, CreateToken(r)
    PROVE  \E t \in Nat \ Minted : t # 0 /\ Drawn(r, t)
<1> DEFINE t == Cardinality(Minted) + 1
<1>1. t \in Nat \ {0} /\ t \notin Minted
    BY NewToken
<1>2. Drawn(r, t)
    BY <1>1 DEF CreateToken, Drawn, Goto, Minted
<1> QED
    BY <1>1, <1>2

\* A restart adds users and leaves those there are.
LEMMA RestartUsers ==
    ASSUME TypeOK, Restarts
    PROVE  /\ lastUser' \in Nat /\ lastUser <= lastUser'
           /\ Users \subseteq Users' /\ Users' \subseteq 1..lastUser'
           /\ \A u \in Users' : username'[u] \in Name \cup {NoName}
<1>2. PICK missing \in SUBSET {n \in SeedNames : ~Taken(n)} :
          /\ lastUser' = lastUser + Cardinality(missing)
          /\ username' \in Seeded(username, missing, lastUser)
    BY DEF Restarts
<1> DEFINE born == lastUser + 1 .. lastUser + Cardinality(missing)
<1>1. Cardinality(missing) \in Nat
  <2>1. missing \subseteq SeedNames
      OBVIOUS
  <2> QED
      BY <2>1, ConstantsAssumption, FS_Subset, FS_CardinalityType
<1>3. username' \in [Users \cup born -> Name \cup {NoName}]
    BY <1>2 DEF Seeded, Users
<1>4. Users' = Users \cup born /\ \A u \in Users' : username'[u] \in Name \cup {NoName}
    BY <1>3 DEF Users
<1>5. lastUser \in Nat /\ Users \subseteq 1..lastUser
    BY DEF TypeOK
<1>6. lastUser' \in Nat /\ lastUser <= lastUser'
    BY <1>1, <1>2, <1>5
<1>7. born \subseteq 1..lastUser' /\ 1..lastUser \subseteq 1..lastUser'
    BY <1>1, <1>2, <1>5, <1>6
<1> HIDE DEF born
<1> QED
    BY <1>4, <1>5, <1>6, <1>7

\* The type invariant holds after every step.
LEMMA TypeStep ==
    ASSUME TypeOK, Numbered, InFlight, Next \/ UNCHANGED vars
    PROVE  TypeOK'
<1>1. ASSUME NEW n \in Name, CreateUser(n) PROVE TypeOK'
    BY <1>1 DEF TypeOK, Minted, Users, localVars, historyVars, CreateUser
<1>2. ASSUME NEW u \in Users, NEW n \in Name \cup {NoName}, UpdateUser(u, n) PROVE TypeOK'
    BY <1>2 DEF TypeOK, Minted, Users, localVars, historyVars, UpdateUser
<1>3. ASSUME NEW u \in Users, AdminDeleteUser(u) PROVE TypeOK'
    BY <1>3 DEF TypeOK, Minted, Users, localVars, historyVars,
       AdminDeleteUser, DeleteUser
<1>4. ASSUME NEW t \in live, OAuthRevoke(t) PROVE TypeOK'
    BY <1>4 DEF TypeOK, Minted, Users, storeVars, localVars, OAuthRevoke
<1>5. ASSUME NEW r \in Request, NEW u \in Users, StartMint(r, u) PROVE TypeOK'
    BY <1>5 DEF TypeOK, Minted, Users, storeVars, historyVars, StartMint,
       Goto, Labels
<1>6. ASSUME NEW r \in Request, CreateToken(r) PROVE TypeOK'
    BY <1>6, NewToken DEF TypeOK, Minted, Users, historyVars, CreateToken,
       Goto, Labels
<1>7. ASSUME NEW r \in Request, CreateTokenFails(r) PROVE TypeOK'
    BY <1>7 DEF TypeOK, Minted, Users, storeVars, historyVars,
       CreateTokenFails, Goto, Labels
<1>8. ASSUME NEW r \in Request, RegisterMinted(r) PROVE TypeOK'
    BY <1>8 DEF TypeOK, Minted, Users, storeVars, InFlight, Undelivered,
       RegisterMinted, Goto, Labels
<1>9. ASSUME NEW r \in Request, NEW t \in rows, StartRevoke(r, t) PROVE TypeOK'
    BY <1>9 DEF TypeOK, Minted, Users, storeVars, historyVars, StartRevoke,
       Goto, Labels
<1>10. ASSUME NEW r \in Request, DeleteToken(r) PROVE TypeOK'
    BY <1>10 DEF TypeOK, Minted, Users, localVars, historyVars, DeleteToken,
       Goto, Labels
<1>11. ASSUME NEW r \in Request, DeleteTokenFails(r) PROVE TypeOK'
    BY <1>11 DEF TypeOK, Minted, Users, storeVars, historyVars,
       DeleteTokenFails, Abandon, Goto, Labels
<1>12. ASSUME NEW r \in Request, Pull(r) PROVE TypeOK'
    BY <1>12 DEF TypeOK, Minted, Users, storeVars, Pull, Abandon, Goto, Labels
<1>13. ASSUME NEW r \in Request, NEW u \in Users, StartSettingsDelete(r, u) PROVE TypeOK'
    BY <1>13 DEF TypeOK, Minted, Users, storeVars, historyVars,
       StartSettingsDelete, Goto, TokensOf, Labels
<1>14. ASSUME NEW r \in Request, NEW t \in listed[r], RevokeListed(r, t) PROVE TypeOK'
    BY <1>14 DEF TypeOK, Minted, Users, storeVars, historyVars, RevokeListed
<1>15. ASSUME NEW r \in Request, SettingsDeleteUser(r) PROVE TypeOK'
    BY <1>15 DEF TypeOK, Minted, Users, SettingsDeleteUser, DeleteUser,
       Abandon, Goto, Labels
<1>16. ASSUME NEW r \in Request, SettingsDeleteGone(r) PROVE TypeOK'
    BY <1>16 DEF TypeOK, Minted, Users, storeVars, SettingsDeleteGone,
       Abandon, Goto, Labels
<1>19. ASSUME NEW r \in Request, SettingsDeleteFails(r) PROVE TypeOK'
    BY <1>19 DEF TypeOK, Minted, Users, storeVars, SettingsDeleteFails,
       TokensOf, Abandon, Goto, Labels
<1>17. ASSUME Restart \/ RestartUnread PROVE TypeOK'
  <2>0. Restarts /\ live' \in {rows, {}} /\ stranded' \in {rows, {}}
      BY <1>17 DEF Restart, RestartUnread
  <2>2. lastUser \in Nat /\ lastUser' \in Nat /\ lastUser <= lastUser'
      BY <2>0, RestartUsers DEF TypeOK
  <2>1. \A t \in Minted : owner[t] \in 1..lastUser'
      BY <2>2 DEF TypeOK
  <2> QED
      BY <2>0, <2>1, RestartUsers DEF TypeOK, Minted, Restarts, Labels
<1>18. CASE UNCHANGED vars
    BY <1>18 DEF TypeOK, Minted, Users, vars, historyVars
<1> QED
    BY <1>1, <1>2, <1>3, <1>4, <1>5, <1>6, <1>7, <1>8, <1>9, <1>10, <1>11,
       <1>12, <1>13, <1>14, <1>15, <1>16, <1>17, <1>18, <1>19 DEF Next, Step

\* Tokens drawn are always those numbered up to the last.
LEMMA NumberedStep ==
    ASSUME TypeOK, Numbered, Next \/ UNCHANGED vars
    PROVE  Numbered'
<1>1. ASSUME NEW r \in Request, CreateToken(r) PROVE Numbered'
  <2> DEFINE t == Cardinality(Minted) + 1
  <2>1. t \in Nat /\ Minted \cup {t} = 1..t
      BY NewToken
  <2>2. Minted' = Minted \cup {t}
      BY <1>1 DEF CreateToken, Minted
  <2> HIDE DEF t
  <2>3. Minted' = 1..t
      BY <2>1, <2>2
  <2>4. IsFiniteSet(1..t) /\ Cardinality(1..t) = t
      BY <2>1, FS_Interval
  <2> QED
      BY <2>3, <2>4 DEF Numbered
<1>2. CASE UNCHANGED owner
    BY <1>2 DEF Numbered, Minted
<1> QED
    BY <1>1, <1>2 DEF Next, Step, vars, storeVars, CreateUser, UpdateUser,
       AdminDeleteUser, DeleteUser, OAuthRevoke, StartMint, StartSettingsDelete,
       StartRevoke, CreateTokenFails, RegisterMinted, DeleteToken,
       DeleteTokenFails, Pull, RevokeListed, SettingsDeleteUser,
       SettingsDeleteGone, SettingsDeleteFails, Restart, RestartUnread, Restarts

\* What a request holds between its steps stays its own through every step
\* of the others.
LEMMA InFlightStep ==
    ASSUME TypeOK, Numbered, InFlight, Next \/ UNCHANGED vars
    PROVE  InFlight'
<1>1. ASSUME NEW u \in Users, AdminDeleteUser(u) PROVE InFlight'
    BY <1>1 DEF InFlight, Undelivered, OneRevoked, AllListed, OwnToken,
       Minted, localVars, historyVars, AdminDeleteUser, DeleteUser
<1>2. ASSUME NEW t \in live, OAuthRevoke(t) PROVE InFlight'
    BY <1>2 DEF InFlight, Undelivered, OneRevoked, AllListed, OwnToken,
       Minted, storeVars, localVars, OAuthRevoke
<1>3. ASSUME NEW r \in Request, NEW u \in Users, StartMint(r, u) PROVE InFlight'
    BY <1>3 DEF InFlight, Undelivered, OneRevoked, AllListed, OwnToken,
       Minted, storeVars, historyVars, StartMint, Goto
<1>4. ASSUME NEW r \in Request, CreateToken(r) PROVE InFlight'
  <2>1. PICK t \in Nat \ Minted : Drawn(r, t)
      BY <1>4, TokenDrawn
  <2>2. ASSUME NEW q \in Request
        PROVE  (began[q] \subseteq delivered /\ Undelivered(q) /\ OneRevoked(q))'
      BY <2>1 DEF Drawn, historyVars, TypeOK, InFlight, Undelivered,
         OneRevoked
  <2>3. ASSUME NEW q \in Request PROVE AllListed(q)'
      BY <2>1 DEF Drawn, TypeOK, InFlight, AllListed
  <2>4. ASSUME NEW p \in Request, NEW q \in Request PROVE OwnToken(p, q)'
      BY <2>1 DEF Drawn, TypeOK, InFlight, Undelivered, OwnToken
  <2> QED
      BY <2>2, <2>3, <2>4 DEF InFlight
<1>5. ASSUME NEW r \in Request, CreateTokenFails(r) PROVE InFlight'
    BY <1>5 DEF InFlight, Undelivered, OneRevoked, AllListed, OwnToken,
       Minted, storeVars, historyVars, CreateTokenFails, Goto
<1>6. ASSUME NEW r \in Request, RegisterMinted(r) PROVE InFlight'
    BY <1>6 DEF TypeOK, InFlight, Undelivered, OneRevoked, AllListed,
       OwnToken, Minted, storeVars, RegisterMinted, Goto
<1>7. ASSUME NEW r \in Request, NEW t \in rows, StartRevoke(r, t) PROVE InFlight'
    BY <1>7 DEF TypeOK, InFlight, Undelivered, OneRevoked, AllListed,
       OwnToken, Minted, storeVars, historyVars, StartRevoke, Goto
<1>8. ASSUME NEW r \in Request, DeleteToken(r) PROVE InFlight'
    BY <1>8 DEF InFlight, Undelivered, OneRevoked, AllListed, OwnToken,
       Minted, localVars, historyVars, DeleteToken, Goto
<1>9. ASSUME NEW r \in Request, DeleteTokenFails(r) PROVE InFlight'
    BY <1>9 DEF TypeOK, InFlight, Undelivered, OneRevoked, AllListed,
       OwnToken, Minted, storeVars, historyVars, DeleteTokenFails, Abandon, Goto
<1>10. ASSUME NEW r \in Request, Pull(r) PROVE InFlight'
    BY <1>10 DEF TypeOK, InFlight, Undelivered, OneRevoked, AllListed,
       OwnToken, Minted, storeVars, Pull, Abandon, Goto
<1>11. ASSUME NEW r \in Request, NEW u \in Users, StartSettingsDelete(r, u) PROVE InFlight'
    BY <1>11 DEF TypeOK, InFlight, Undelivered, OneRevoked, AllListed,
       OwnToken, Minted, storeVars, historyVars, StartSettingsDelete, Goto,
       TokensOf
<1>12. ASSUME NEW r \in Request, NEW t \in listed[r], RevokeListed(r, t) PROVE InFlight'
    BY <1>12 DEF InFlight, Undelivered, OneRevoked, AllListed, OwnToken,
       Minted, storeVars, historyVars, RevokeListed
<1>13. ASSUME NEW r \in Request, SettingsDeleteUser(r) PROVE InFlight'
    BY <1>13 DEF TypeOK, InFlight, Undelivered, OneRevoked, AllListed,
       OwnToken, Minted, SettingsDeleteUser, DeleteUser, Abandon, Goto
<1>14. ASSUME NEW r \in Request, SettingsDeleteGone(r) PROVE InFlight'
    BY <1>14 DEF TypeOK, InFlight, Undelivered, OneRevoked, AllListed,
       OwnToken, Minted, storeVars, SettingsDeleteGone, Abandon, Goto
<1>17. ASSUME NEW r \in Request, SettingsDeleteFails(r) PROVE InFlight'
    BY <1>17 DEF TypeOK, InFlight, Undelivered, OneRevoked, AllListed,
       OwnToken, Minted, storeVars, SettingsDeleteFails, Abandon, Goto
<1>15. ASSUME Restart \/ RestartUnread PROVE InFlight'
    BY <1>15 DEF InFlight, Undelivered, OneRevoked, AllListed, OwnToken,
       Restart, RestartUnread, Restarts
<1>16. CASE UNCHANGED <<rows, live, owner, pc, target, listed, began, delivered>>
    BY <1>16 DEF InFlight, Undelivered, OneRevoked, AllListed, OwnToken,
       Minted
<1> QED
    BY <1>1, <1>2, <1>3, <1>4, <1>5, <1>6, <1>7, <1>8, <1>9, <1>10, <1>11,
       <1>12, <1>13, <1>14, <1>15, <1>16, <1>17 DEF Next, Step, vars, localVars,
       historyVars, CreateUser, UpdateUser

\* Stored tokens keep their users and revoked ones stay out of the store.
LEMMA FinalStep ==
    ASSUME TypeOK, Numbered, InFlight, Final, Next \/ UNCHANGED vars
    PROVE  Final'
<1>1. ASSUME NEW n \in Name, CreateUser(n) PROVE Final'
    BY <1>1 DEF Final, StoredTokensHaveUsers, RevocationIsFinal, Users,
       historyVars, CreateUser
<1>2. ASSUME NEW u \in Users, NEW n \in Name \cup {NoName}, UpdateUser(u, n) PROVE Final'
    BY <1>2 DEF Final, StoredTokensHaveUsers, RevocationIsFinal, Users,
       historyVars, UpdateUser
<1>3. ASSUME NEW u \in Users, AdminDeleteUser(u) PROVE Final'
    BY <1>3 DEF Final, StoredTokensHaveUsers, RevocationIsFinal, Users,
       historyVars, AdminDeleteUser, DeleteUser, TokensOf
<1>4. ASSUME NEW t \in live, OAuthRevoke(t) PROVE Final'
    BY <1>4 DEF Final, StoredTokensHaveUsers, RevocationIsFinal, Users,
       storeVars, OAuthRevoke
<1>5. ASSUME NEW r \in Request, CreateToken(r) PROVE Final'
    BY <1>5, NewToken DEF Final, StoredTokensHaveUsers, RevocationIsFinal,
       TypeOK, Minted, Users, historyVars, CreateToken
<1>6. ASSUME NEW r \in Request, RegisterMinted(r) PROVE Final'
    BY <1>6 DEF Final, StoredTokensHaveUsers, RevocationIsFinal, InFlight,
       Undelivered, Minted, Users, storeVars, RegisterMinted
<1>7. ASSUME NEW r \in Request, DeleteToken(r) PROVE Final'
    BY <1>7 DEF Final, StoredTokensHaveUsers, RevocationIsFinal, Users,
       historyVars, DeleteToken
<1>8. ASSUME NEW r \in Request, Pull(r) PROVE Final'
    BY <1>8 DEF Final, StoredTokensHaveUsers, RevocationIsFinal, InFlight,
       OneRevoked, Minted, Users, storeVars, Pull
<1>9. ASSUME NEW r \in Request, NEW t \in listed[r], RevokeListed(r, t) PROVE Final'
    BY <1>9 DEF Final, StoredTokensHaveUsers, RevocationIsFinal, Users,
       storeVars, historyVars, RevokeListed
<1>10. ASSUME NEW r \in Request, SettingsDeleteUser(r) PROVE Final'
    BY <1>10 DEF Final, StoredTokensHaveUsers, RevocationIsFinal, InFlight,
       AllListed, Users, SettingsDeleteUser, DeleteUser, TokensOf
<1>11. ASSUME NEW r \in Request, SettingsDeleteGone(r) PROVE Final'
    BY <1>11 DEF Final, StoredTokensHaveUsers, RevocationIsFinal, InFlight,
       AllListed, Users, storeVars, SettingsDeleteGone
<1>12. ASSUME Restart \/ RestartUnread PROVE Final'
  <2>1. Restarts /\ live' \subseteq rows
      BY <1>12 DEF Restart, RestartUnread
  <2> QED
      BY <2>1, RestartUsers DEF Final, StoredTokensHaveUsers,
         RevocationIsFinal, Restarts
<1>13. CASE UNCHANGED <<username, rows, live, owner, delivered, dead>>
    BY <1>13 DEF Final, StoredTokensHaveUsers, RevocationIsFinal, Users
<1> QED
    BY <1>1, <1>2, <1>3, <1>4, <1>5, <1>6, <1>7, <1>8, <1>9, <1>10, <1>11,
       <1>12, <1>13 DEF Next, Step, vars, storeVars, historyVars, StartMint,
       CreateTokenFails, StartRevoke, DeleteTokenFails, StartSettingsDelete,
       SettingsDeleteFails

\* A stored token that nobody is about to revoke is registered.
LEMMA AuthenticateStep ==
    ASSUME TypeOK, Numbered, InFlight, StoredTokensHaveUsers,
           StoredTokensAuthenticate, Next \/ UNCHANGED vars
    PROVE  StoredTokensAuthenticate'
<1>1. ASSUME NEW u \in Users, AdminDeleteUser(u) PROVE StoredTokensAuthenticate'
    BY <1>1 DEF StoredTokensAuthenticate, localVars, historyVars,
       AdminDeleteUser, DeleteUser
<1>2. ASSUME NEW t \in live, OAuthRevoke(t) PROVE StoredTokensAuthenticate'
    BY <1>2 DEF StoredTokensAuthenticate, storeVars, localVars, OAuthRevoke
<1>3. ASSUME NEW r \in Request, NEW u \in Users, StartMint(r, u) PROVE StoredTokensAuthenticate'
    BY <1>3 DEF StoredTokensAuthenticate, storeVars, historyVars, StartMint,
       Goto
<1>4. ASSUME NEW r \in Request, CreateToken(r) PROVE StoredTokensAuthenticate'
  <2>1. PICK t \in Nat \ Minted : Drawn(r, t)
      BY <1>4, TokenDrawn
  <2> SUFFICES ASSUME NEW x \in rows, x \notin live, x \notin oauthRevoked,
                      x \notin stranded,
                      NEW q \in Request,
                      \/ pc[q] = "register" /\ target[q] = x
                      \/ pc[q] = "revokeListed" /\ target[q] = owner[x]
               PROVE  \/ pc'[q] = "register" /\ target'[q] = x
                      \/ pc'[q] = "revokeListed" /\ target'[q] = owner'[x]
      BY <2>1 DEF Drawn, historyVars, TypeOK, StoredTokensAuthenticate
  <2> QED
      BY <2>1 DEF Drawn, TypeOK
<1>5. ASSUME NEW r \in Request, CreateTokenFails(r) PROVE StoredTokensAuthenticate'
    BY <1>5 DEF StoredTokensAuthenticate, storeVars, historyVars,
       CreateTokenFails, Goto
<1>6. ASSUME NEW r \in Request, RegisterMinted(r) PROVE StoredTokensAuthenticate'
    BY <1>6 DEF StoredTokensAuthenticate, storeVars, RegisterMinted, Goto
<1>7. ASSUME NEW r \in Request, NEW t \in rows, StartRevoke(r, t) PROVE StoredTokensAuthenticate'
    BY <1>7 DEF StoredTokensAuthenticate, storeVars, historyVars, StartRevoke,
       Goto
<1>8. ASSUME NEW r \in Request, DeleteToken(r) PROVE StoredTokensAuthenticate'
    BY <1>8 DEF StoredTokensAuthenticate, localVars, historyVars, DeleteToken,
       Goto
<1>9. ASSUME NEW r \in Request, DeleteTokenFails(r) PROVE StoredTokensAuthenticate'
    BY <1>9 DEF StoredTokensAuthenticate, storeVars, historyVars,
       DeleteTokenFails, Abandon, Goto
<1>10. ASSUME NEW r \in Request, Pull(r) PROVE StoredTokensAuthenticate'
    BY <1>10 DEF StoredTokensAuthenticate, InFlight, OneRevoked, storeVars,
       Pull, Abandon, Goto
<1>11. ASSUME NEW r \in Request, NEW u \in Users, StartSettingsDelete(r, u) PROVE StoredTokensAuthenticate'
    BY <1>11 DEF StoredTokensAuthenticate, storeVars, historyVars,
       StartSettingsDelete, Goto
<1>12. ASSUME NEW r \in Request, NEW t \in listed[r], RevokeListed(r, t) PROVE StoredTokensAuthenticate'
    BY <1>12 DEF StoredTokensAuthenticate, InFlight, AllListed, storeVars,
       historyVars, RevokeListed
<1>13. ASSUME NEW r \in Request, SettingsDeleteUser(r) PROVE StoredTokensAuthenticate'
    BY <1>13 DEF StoredTokensAuthenticate, SettingsDeleteUser, DeleteUser,
       TokensOf, Abandon, Goto
<1>14. ASSUME NEW r \in Request, SettingsDeleteGone(r) PROVE StoredTokensAuthenticate'
    BY <1>14 DEF StoredTokensHaveUsers, StoredTokensAuthenticate, storeVars,
       SettingsDeleteGone, Abandon, Goto
<1>17. ASSUME NEW r \in Request, SettingsDeleteFails(r) PROVE StoredTokensAuthenticate'
  <2> SUFFICES ASSUME NEW t \in rows, t \notin live, t \notin oauthRevoked,
                      t \notin stranded'
               PROVE  \E q \in Request :
                         \/ pc'[q] = "register" /\ target'[q] = t
                         \/ pc'[q] = "revokeListed" /\ target'[q] = owner[t]
      BY <1>17 DEF StoredTokensAuthenticate, SettingsDeleteFails, storeVars
  <2>1. owner[t] # target[r]
      BY <1>17 DEF SettingsDeleteFails, TokensOf
  <2>2. PICK q \in Request : \/ pc[q] = "register" /\ target[q] = t
                             \/ pc[q] = "revokeListed" /\ target[q] = owner[t]
      BY <1>17 DEF StoredTokensAuthenticate, SettingsDeleteFails
  <2> QED
      BY <1>17, <2>1, <2>2 DEF SettingsDeleteFails, Abandon, Goto, TypeOK
<1>15. ASSUME Restart \/ RestartUnread PROVE StoredTokensAuthenticate'
    BY <1>15 DEF StoredTokensAuthenticate, Restart, RestartUnread, Restarts
<1>16. CASE UNCHANGED <<rows, live, owner, oauthRevoked, stranded, pc, target>>
    BY <1>16 DEF StoredTokensAuthenticate
<1> QED
    BY <1>1, <1>2, <1>3, <1>4, <1>5, <1>6, <1>7, <1>8, <1>9, <1>10, <1>11,
       <1>12, <1>13, <1>14, <1>15, <1>16, <1>17 DEF Next, Step, vars, localVars,
       historyVars, CreateUser, UpdateUser

-----------------------------------------------------------------------------
\* The users and tokens of the seed satisfy the invariant.
LEMMA InitInv == Init => IInv
<1> SUFFICES ASSUME Init PROVE IInv
    OBVIOUS
<1>1. Cardinality(SeedNames) \in Nat
    BY ConstantsAssumption, FS_CardinalityType
<1>2. username \in [1..Cardinality(SeedNames) -> Name \cup {NoName}]
  <2>1. username \in [{} \cup 0 + 1 .. 0 + Cardinality(SeedNames) -> Name \cup {NoName}]
      BY DEF Init, Seeded
  <2> QED
      BY <1>1, <2>1
<1>3. Minted = {}
    BY DEF Init, Minted
<1>4. TypeOK
    BY <1>1, <1>2, <1>3 DEF Init, TypeOK, Users, Labels
<1>5. Numbered
    BY <1>3, FS_EmptySet DEF Numbered
<1> QED
    BY <1>4, <1>5 DEF Init, IInv, Final, InFlight, Undelivered, OneRevoked,
       AllListed, OwnToken, StoredTokensHaveUsers, RevocationIsFinal,
       StoredTokensAuthenticate

\* The invariant holds of every interleaving of requests, and across restarts.
THEOREM Invariance == Spec => []IInv
<1>1. IInv /\ [Next]_vars => IInv'
    BY TypeStep, NumberedStep, InFlightStep, FinalStep, AuthenticateStep DEF
       IInv, Final
<1> QED
    BY InitInv, <1>1, PTL DEF Spec

\* The type invariant of the users, their tokens and the requests at work on
\* them.
THEOREM TypeCorrect == Spec => []TypeOK
<1>1. IInv => TypeOK
    BY DEF IInv
<1> QED
    BY Invariance, <1>1, PTL

\* No stored token is without its user, wherever a deletion falls among the
\* steps of mintToken.
THEOREM StoredTokensOwned == Spec => []StoredTokensHaveUsers
<1>1. IInv => StoredTokensHaveUsers
    BY DEF IInv, Final
<1> QED
    BY Invariance, <1>1, PTL

\* A token revoked by id, or with its user in the settings pages, after it had
\* been handed out is never accepted again, not even by a restarted server
\* that registers the stored tokens.
THEOREM RevocationFinal == Spec => []RevocationIsFinal
<1>1. IInv => RevocationIsFinal
    BY DEF IInv, Final
<1> QED
    BY Invariance, <1>1, PTL

\* A stored token is accepted, before and after restarts, unless since the
\* last start it was revoked at the OAuth endpoint or a failing store call of
\* a settings deletion, or of the start, stranded it; or it is being minted or
\* its user deleted.
THEOREM StoredTokensAccepted == Spec => []StoredTokensAuthenticate
<1>1. IInv => StoredTokensAuthenticate
    BY DEF IInv
<1> QED
    BY Invariance, <1>1, PTL
=============================================================================
