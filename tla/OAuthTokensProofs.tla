------------------------- MODULE OAuthTokensProofs -------------------------
(***************************************************************************)
(* Proofs about OAuthTokens, for every set of requests, every bound on the *)
(* tokens and both settings of Rotation.                                   *)
(***************************************************************************)
EXTENDS OAuthTokens, TLAPS

-----------------------------------------------------------------------------
(* The inductive invariant. *)

\* Requests inside the critical section of a per-token mutex.
Holding == {r \in Request : pc[r] \in {"lookup", "raw", "revokeFamily",
                              "rotate", "markOld", "refreshAccess", "unlock"}}

\* Exchanges between their decision and the end of the old token.
Exchanging == {r \in Request : pc[r] \in {"rotate", "markOld"}}

\* What a request has drawn belongs to it alone and no client knows it.
DrawnInv ==
    /\ \A r \in Request : pc[r] = "idle" => newRefresh[r] = 0 /\ family[r] = 0
    /\ \A t \in DOMAIN mockTokens : t <= drawn
    /\ \A t \in known : t <= drawn
    /\ \A r \in Minting :
        /\ newAccess[r] \in 1..drawn
        /\ newAccess[r] \notin DOMAIN mockTokens
        /\ newAccess[r] \notin known
        /\ newRefresh[r] \in 0..drawn
        /\ newRefresh[r] \notin known
        /\ pc[r] # "issueAccess" => newRefresh[r] # 0
        /\ pc[r] \in {"issueRefresh", "rotate"} =>
             newRefresh[r] \notin DOMAIN mockTokens
    /\ \A r, q \in Minting :
        /\ newAccess[r] # newRefresh[q]
        /\ r # q => newAccess[r] # newAccess[q]
        /\ r # q /\ newRefresh[r] # 0 => newRefresh[r] # newRefresh[q]

\* The mutex of a presented token has one holder.
LockInv ==
    /\ \A r \in Request : pc[r] = "lock" => presented[r] \in known
    /\ \A r \in Holding : presented[r] \in known /\ presented[r] \in refreshMu
    /\ \A r, q \in Holding : presented[r] = presented[q] => r = q

\* A token with a successor is dead or about to be marked; a token about to
\* get a successor has none.
RotationInv ==
    /\ \A p \in rotations : p[1] \in known
    /\ \A p \in rotations :
        \/ ~LiveRefresh(p[1])
        \/ \E r \in Request : pc[r] = "markOld" /\ presented[r] = p[1]
    /\ \A r \in Request : pc[r] = "rotate" =>
        \A p \in rotations : p[1] # presented[r]

\* A family is allocated once, and never 0 for a refresh token.
FamilyInv ==
    /\ \A t \in DOMAIN mockTokens : mockTokens[t].family <= drawn
    /\ \A t \in DOMAIN mockTokens :
         mockTokens[t].type = "refresh" => mockTokens[t].family # 0
    /\ \A r \in Request : family[r] <= drawn
    /\ \A r \in Request : pc[r] \in {"issueRefresh", "revokeFamily"} \/ r \in Exchanging
                            => family[r] # 0
    /\ \A r \in Request : pc[r] = "issueRefresh" =>
        /\ \A t \in DOMAIN mockTokens : mockTokens[t].family # family[r]
        /\ \A q \in Minting : q # r => family[q] # family[r]

\* While an exchange of a family runs, its live refresh tokens are the
\* exchange's own and no other exchange of the family runs.
ExchangeInv ==
    /\ \A r \in Exchanging, t \in DOMAIN mockTokens :
        LiveRefresh(t) /\ mockTokens[t].family = family[r] =>
            \/ t = presented[r]
            \/ pc[r] = "markOld" /\ t = newRefresh[r]
    /\ \A r, q \in Exchanging : family[r] = family[q] => r = q

\* Nobody mints into a family revoked while it was quiet.
QuietInv ==
    /\ quietRevoked \subseteq 1..drawn
    /\ \A r \in Minting : family[r] \notin quietRevoked

\* What is registered between two steps of a handler stays registered, and an
\* exchange knows the family of the token it was given.
ChainInv ==
    /\ \A r \in Request : pc[r] = "issueRefresh" => family[r] = newRefresh[r]
    /\ \A r \in Request :
        \/ pc[r] = "issueAccess" /\ newRefresh[r] # 0
        \/ pc[r] = "markOld"
        \/ pc[r] = "refreshAccess" /\ Rotation
        => newRefresh[r] \in DOMAIN mockTokens
    /\ \A r \in Exchanging :
        presented[r] \in DOMAIN mockTokens =>
            mockTokens[presented[r]].family = family[r]

IInv == /\ TypeOK /\ DrawnInv /\ LockInv /\ RotationInv /\ FamilyInv
        /\ ExchangeInv /\ QuietInv /\ ChainInv
        /\ SingleSuccessor /\ OneLiveRefreshPerFamily /\ QuietRevocationFinal

-----------------------------------------------------------------------------
(* One lemma per part of the invariant; one step per action. *)

\* Every value a step writes has the type its variable is declared with.
LEMMA TypeStep == TypeOK /\ DrawnInv /\ LockInv /\ FamilyInv /\ [Next]_vars => TypeOK'
<1> SUFFICES ASSUME TypeOK /\ DrawnInv /\ LockInv /\ FamilyInv, [Next]_vars PROVE TypeOK'
  OBVIOUS
<1> USE DEF TypeOK, Token, TokenInfo, Info, Labels, Goto, DrawnInv, LockInv, FamilyInv, Minting, Holding, Live, LiveRefresh
<1>1. ASSUME NEW r \in Request, StartIssue(r) PROVE TypeOK'
  BY <1>1 DEF StartIssue, DrawPair, historyVars
<1>2. ASSUME NEW r \in Request, StartClientCredentials(r) PROVE TypeOK'
  BY <1>2 DEF StartClientCredentials, historyVars
<1>3. ASSUME NEW r \in Request, IssueRefresh(r) PROVE TypeOK'
  BY <1>3 DEF IssueRefresh, RegisterTokenInfo, localVars, historyVars
<1>4. ASSUME NEW r \in Request, IssueAccess(r) PROVE TypeOK'
  <2>1. newAccess[r] \in Token /\ {newAccess[r], newRefresh[r]} \ {0} \subseteq Token
    BY <1>4 DEF IssueAccess
  <2>2. known' \subseteq Token
    BY <1>4, <2>1 DEF IssueAccess
  <2> QED
    BY <1>4, <2>1, <2>2 DEF IssueAccess, RegisterTokenInfo, Forget, historyVars
<1>5. ASSUME NEW r \in Request, StartRefresh(r) PROVE TypeOK'
  BY <1>5 DEF StartRefresh, historyVars
<1>6. ASSUME NEW r \in Request, Lock(r) PROVE TypeOK'
  BY <1>6, ZenonT(60) DEF Lock, localVars, historyVars
<1>7. ASSUME NEW r \in Request, LookupLive(r) PROVE TypeOK'
  BY <1>7 DEF LookupLive, DrawPair, historyVars
<1>8. ASSUME NEW r \in Request, LookupFails(r) PROVE TypeOK'
  BY <1>8 DEF LookupFails, localVars, historyVars
<1>9. ASSUME NEW r \in Request, DetectReuse(r) PROVE TypeOK'
  BY <1>9 DEF DetectReuse, RecognisedReplay, historyVars
<1>10. ASSUME NEW r \in Request, RejectUnknown(r) PROVE TypeOK'
  BY <1>10 DEF RejectUnknown, localVars, historyVars
<1>11. ASSUME NEW r \in Request, RevokeReused(r) PROVE TypeOK'
  <2>1. family[r] \in Token
    BY <1>11 DEF RevokeReused
  <2>2. reuseRevoked' \subseteq Token /\ quietRevoked' \subseteq Token
    BY <1>11, <2>1 DEF RevokeReused
  <2>3. /\ DOMAIN mockTokens' = DOMAIN mockTokens
        /\ \A t \in DOMAIN mockTokens : mockTokens'[t] \in TokenInfo
    BY <1>11, ZenonT(60) DEF RevokeReused, RevokeFamily, Revoke
  <2> QED
    BY <1>11, <2>2, <2>3 DEF RevokeReused, localVars
<1>12. ASSUME NEW r \in Request, Rotate(r) PROVE TypeOK'
  BY <1>12 DEF Rotate, RegisterTokenInfo, localVars
<1>13. ASSUME NEW r \in Request, MarkOld(r) PROVE TypeOK'
  BY <1>13, ZenonT(60) DEF MarkOld, MarkRevoked, Revoke, localVars, historyVars
<1>14. ASSUME NEW r \in Request, RefreshAccess(r) PROVE TypeOK'
  <2>1. newAccess[r] \in Token /\ newRefresh[r] \in Token
    BY <1>14 DEF RefreshAccess
  <2>2. known' \subseteq Token
    BY <1>14, <2>1 DEF RefreshAccess
  <2> QED
    BY <1>14, <2>1, <2>2 DEF RefreshAccess, RegisterTokenInfo, localVars, historyVars
<1>15. ASSUME NEW r \in Request, Unlock(r) PROVE TypeOK'
  BY <1>15 DEF Unlock, Forget, historyVars
<1>16. ASSUME NEW t \in known, HandleRevoke(t) PROVE TypeOK'
  BY <1>16 DEF HandleRevoke, RevokeToken, localVars, historyVars
<1>17. CASE UNCHANGED vars
  BY <1>17 DEF vars
<1>18. QED
  BY <1>1, <1>2, <1>3, <1>4, <1>5, <1>6, <1>7, <1>8, <1>9, <1>10, <1>11, <1>12, <1>13, <1>14, <1>15, <1>16, <1>17 DEF Next, Step

\* Draws stay private until they are registered and answered.
LEMMA DrawnStep == TypeOK /\ DrawnInv /\ [Next]_vars => DrawnInv'
<1> SUFFICES ASSUME TypeOK /\ DrawnInv, [Next]_vars PROVE DrawnInv'
  OBVIOUS
<1> USE DEF TypeOK, Token, TokenInfo, Info, Labels, Goto, DrawnInv, Minting, Live, LiveRefresh
<1>1. ASSUME NEW r \in Request, StartIssue(r) PROVE DrawnInv'
  <2>1. /\ Minting' = Minting \cup {r} /\ r \notin Minting
        /\ newAccess'[r] = drawn + 2 /\ newRefresh'[r] = drawn + 1
        /\ \A q \in Minting : /\ newAccess'[q] = newAccess[q]
                              /\ newRefresh'[q] = newRefresh[q]
                              /\ pc'[q] = pc[q]
    BY <1>1 DEF StartIssue, DrawPair, historyVars
  <2>2. drawn' > drawn /\ drawn' \in Nat /\ drawn + 2 <= drawn'
        /\ mockTokens' = mockTokens /\ known' = known
    BY <1>1 DEF StartIssue, DrawPair, historyVars
  <2>3. \A q \in Minting : newAccess[q] <= drawn /\ newRefresh[q] <= drawn
                           /\ newAccess[q] \in Nat /\ newRefresh[q] \in Nat
                           /\ newAccess[q] # 0
    OBVIOUS
  <2>4. \A p, q \in Minting' :
        /\ newAccess'[p] # newRefresh'[q]
        /\ p # q => newAccess'[p] # newAccess'[q]
        /\ p # q /\ newRefresh'[p] # 0 => newRefresh'[p] # newRefresh'[q]
    BY <2>1, <2>3
  <2>5. \A q \in Request : pc'[q] = "idle" => newRefresh'[q] = 0 /\ family'[q] = 0
    BY <1>1 DEF StartIssue, DrawPair, historyVars
  <2>6. \A q \in Minting' :
        /\ newAccess'[q] \in 1..drawn'
        /\ newAccess'[q] \notin DOMAIN mockTokens
        /\ newAccess'[q] \notin known
        /\ newRefresh'[q] \in 0..drawn'
        /\ newRefresh'[q] \notin known
        /\ pc'[q] # "issueAccess" => newRefresh'[q] # 0
        /\ pc'[q] \in {"issueRefresh", "rotate"} =>
             newRefresh'[q] \notin DOMAIN mockTokens
    BY <1>1, <2>1, <2>2, <2>3 DEF StartIssue
  <2> QED
    BY <2>2, <2>4, <2>5, <2>6
<1>2. ASSUME NEW r \in Request, StartClientCredentials(r) PROVE DrawnInv'
  <2>1. /\ Minting' = Minting \cup {r} /\ r \notin Minting
        /\ newAccess'[r] = drawn + 1 /\ newRefresh'[r] = 0
        /\ \A q \in Minting : /\ newAccess'[q] = newAccess[q]
                              /\ newRefresh'[q] = newRefresh[q]
                              /\ pc'[q] = pc[q]
    BY <1>2 DEF StartClientCredentials, historyVars
  <2>2. drawn' > drawn /\ drawn' \in Nat /\ drawn + 1 <= drawn'
        /\ mockTokens' = mockTokens /\ known' = known
    BY <1>2 DEF StartClientCredentials, historyVars
  <2>3. \A q \in Minting : newAccess[q] <= drawn /\ newRefresh[q] <= drawn
                           /\ newAccess[q] \in Nat /\ newRefresh[q] \in Nat
                           /\ newAccess[q] # 0
    OBVIOUS
  <2>4. \A p, q \in Minting' :
        /\ newAccess'[p] # newRefresh'[q]
        /\ p # q => newAccess'[p] # newAccess'[q]
        /\ p # q /\ newRefresh'[p] # 0 => newRefresh'[p] # newRefresh'[q]
    BY <2>1, <2>3
  <2>5. \A q \in Request : pc'[q] = "idle" => newRefresh'[q] = 0 /\ family'[q] = 0
    BY <1>2 DEF StartClientCredentials, historyVars
  <2>6. \A q \in Minting' :
        /\ newAccess'[q] \in 1..drawn'
        /\ newAccess'[q] \notin DOMAIN mockTokens
        /\ newAccess'[q] \notin known
        /\ newRefresh'[q] \in 0..drawn'
        /\ newRefresh'[q] \notin known
        /\ pc'[q] # "issueAccess" => newRefresh'[q] # 0
        /\ pc'[q] \in {"issueRefresh", "rotate"} =>
             newRefresh'[q] \notin DOMAIN mockTokens
    BY <1>2, <2>1, <2>2, <2>3 DEF StartClientCredentials
  <2> QED
    BY <2>2, <2>4, <2>5, <2>6
<1>3. ASSUME NEW r \in Request, IssueRefresh(r) PROVE DrawnInv'
  BY <1>3 DEF IssueRefresh, RegisterTokenInfo, localVars, historyVars
<1>4. ASSUME NEW r \in Request, IssueAccess(r) PROVE DrawnInv'
  BY <1>4 DEF IssueAccess, RegisterTokenInfo, Forget, historyVars
<1>5. ASSUME NEW r \in Request, StartRefresh(r) PROVE DrawnInv'
  BY <1>5 DEF StartRefresh, historyVars
<1>6. ASSUME NEW r \in Request, Lock(r) PROVE DrawnInv'
  BY <1>6 DEF Lock, localVars, historyVars
<1>7. ASSUME NEW r \in Request, LookupLive(r) PROVE DrawnInv'
  BY <1>7 DEF LookupLive, DrawPair, historyVars
<1>8. ASSUME NEW r \in Request, LookupFails(r) PROVE DrawnInv'
  BY <1>8 DEF LookupFails, localVars, historyVars
<1>9. ASSUME NEW r \in Request, DetectReuse(r) PROVE DrawnInv'
  BY <1>9 DEF DetectReuse, RecognisedReplay, historyVars
<1>10. ASSUME NEW r \in Request, RejectUnknown(r) PROVE DrawnInv'
  BY <1>10 DEF RejectUnknown, localVars, historyVars
<1>11. ASSUME NEW r \in Request, RevokeReused(r) PROVE DrawnInv'
  BY <1>11 DEF RevokeReused, RevokeFamily, Revoke, localVars
<1>12. ASSUME NEW r \in Request, Rotate(r) PROVE DrawnInv'
  BY <1>12 DEF Rotate, RegisterTokenInfo, localVars
<1>13. ASSUME NEW r \in Request, MarkOld(r) PROVE DrawnInv'
  BY <1>13 DEF MarkOld, MarkRevoked, Revoke, localVars, historyVars
<1>14. ASSUME NEW r \in Request, RefreshAccess(r) PROVE DrawnInv'
  BY <1>14 DEF RefreshAccess, RegisterTokenInfo, localVars, historyVars
<1>15. ASSUME NEW r \in Request, Unlock(r) PROVE DrawnInv'
  BY <1>15 DEF Unlock, Forget, historyVars
<1>16. ASSUME NEW t \in known, HandleRevoke(t) PROVE DrawnInv'
  BY <1>16 DEF HandleRevoke, RevokeToken, localVars, historyVars
<1>17. CASE UNCHANGED vars
  BY <1>17 DEF vars
<1>18. QED
  BY <1>1, <1>2, <1>3, <1>4, <1>5, <1>6, <1>7, <1>8, <1>9, <1>10, <1>11, <1>12, <1>13, <1>14, <1>15, <1>16, <1>17 DEF Next, Step

\* The mutex serialises the exchanges of one token.
LEMMA LockStep == TypeOK /\ LockInv /\ [Next]_vars => LockInv'
<1> SUFFICES ASSUME TypeOK /\ LockInv, [Next]_vars PROVE LockInv'
  OBVIOUS
<1> USE DEF TypeOK, Token, TokenInfo, Info, Labels, Goto, LockInv, Holding, Live, LiveRefresh
<1>1. ASSUME NEW r \in Request, StartIssue(r) PROVE LockInv'
  BY <1>1 DEF StartIssue, DrawPair, historyVars
<1>2. ASSUME NEW r \in Request, StartClientCredentials(r) PROVE LockInv'
  BY <1>2 DEF StartClientCredentials, historyVars
<1>3. ASSUME NEW r \in Request, IssueRefresh(r) PROVE LockInv'
  BY <1>3 DEF IssueRefresh, RegisterTokenInfo, localVars, historyVars
<1>4. ASSUME NEW r \in Request, IssueAccess(r) PROVE LockInv'
  BY <1>4 DEF IssueAccess, RegisterTokenInfo, Forget, historyVars
<1>5. ASSUME NEW r \in Request, StartRefresh(r) PROVE LockInv'
  BY <1>5 DEF StartRefresh, historyVars
<1>6. ASSUME NEW r \in Request, Lock(r) PROVE LockInv'
  BY <1>6 DEF Lock, localVars, historyVars
<1>7. ASSUME NEW r \in Request, LookupLive(r) PROVE LockInv'
  BY <1>7 DEF LookupLive, DrawPair, historyVars
<1>8. ASSUME NEW r \in Request, LookupFails(r) PROVE LockInv'
  BY <1>8 DEF LookupFails, localVars, historyVars
<1>9. ASSUME NEW r \in Request, DetectReuse(r) PROVE LockInv'
  BY <1>9 DEF DetectReuse, RecognisedReplay, historyVars
<1>10. ASSUME NEW r \in Request, RejectUnknown(r) PROVE LockInv'
  BY <1>10 DEF RejectUnknown, localVars, historyVars
<1>11. ASSUME NEW r \in Request, RevokeReused(r) PROVE LockInv'
  BY <1>11 DEF RevokeReused, RevokeFamily, Revoke, localVars
<1>12. ASSUME NEW r \in Request, Rotate(r) PROVE LockInv'
  BY <1>12 DEF Rotate, RegisterTokenInfo, localVars
<1>13. ASSUME NEW r \in Request, MarkOld(r) PROVE LockInv'
  BY <1>13 DEF MarkOld, MarkRevoked, Revoke, localVars, historyVars
<1>14. ASSUME NEW r \in Request, RefreshAccess(r) PROVE LockInv'
  BY <1>14 DEF RefreshAccess, RegisterTokenInfo, localVars, historyVars
<1>15. ASSUME NEW r \in Request, Unlock(r) PROVE LockInv'
  BY <1>15 DEF Unlock, Forget, historyVars
<1>16. ASSUME NEW t \in known, HandleRevoke(t) PROVE LockInv'
  BY <1>16 DEF HandleRevoke, RevokeToken, localVars, historyVars
<1>17. CASE UNCHANGED vars
  BY <1>17 DEF vars
<1>18. QED
  BY <1>1, <1>2, <1>3, <1>4, <1>5, <1>6, <1>7, <1>8, <1>9, <1>10, <1>11, <1>12, <1>13, <1>14, <1>15, <1>16, <1>17 DEF Next, Step

\* A rotated token is dead, or is being rotated and has no other successor.
LEMMA RotationStep == TypeOK /\ DrawnInv /\ LockInv /\ RotationInv /\ [Next]_vars => RotationInv'
<1> SUFFICES ASSUME TypeOK /\ DrawnInv /\ LockInv /\ RotationInv, [Next]_vars PROVE RotationInv'
  OBVIOUS
<1> USE DEF TypeOK, Token, TokenInfo, Info, Labels, Goto, DrawnInv, LockInv, RotationInv, Holding, Minting, Live, LiveRefresh
<1>1. ASSUME NEW r \in Request, StartIssue(r) PROVE RotationInv'
  BY <1>1 DEF StartIssue, DrawPair, historyVars
<1>2. ASSUME NEW r \in Request, StartClientCredentials(r) PROVE RotationInv'
  BY <1>2 DEF StartClientCredentials, historyVars
<1>3. ASSUME NEW r \in Request, IssueRefresh(r) PROVE RotationInv'
  BY <1>3 DEF IssueRefresh, RegisterTokenInfo, localVars, historyVars
<1>4. ASSUME NEW r \in Request, IssueAccess(r) PROVE RotationInv'
  BY <1>4 DEF IssueAccess, RegisterTokenInfo, Forget, historyVars
<1>5. ASSUME NEW r \in Request, StartRefresh(r) PROVE RotationInv'
  BY <1>5 DEF StartRefresh, historyVars
<1>6. ASSUME NEW r \in Request, Lock(r) PROVE RotationInv'
  BY <1>6 DEF Lock, localVars, historyVars
<1>7. ASSUME NEW r \in Request, LookupLive(r) PROVE RotationInv'
  BY <1>7 DEF LookupLive, DrawPair, historyVars
<1>8. ASSUME NEW r \in Request, LookupFails(r) PROVE RotationInv'
  BY <1>8 DEF LookupFails, localVars, historyVars
<1>9. ASSUME NEW r \in Request, DetectReuse(r) PROVE RotationInv'
  BY <1>9 DEF DetectReuse, RecognisedReplay, historyVars
<1>10. ASSUME NEW r \in Request, RejectUnknown(r) PROVE RotationInv'
  BY <1>10 DEF RejectUnknown, localVars, historyVars
<1>11. ASSUME NEW r \in Request, RevokeReused(r) PROVE RotationInv'
  BY <1>11 DEF RevokeReused, RevokeFamily, Revoke, localVars
<1>12. ASSUME NEW r \in Request, Rotate(r) PROVE RotationInv'
  BY <1>12 DEF Rotate, RegisterTokenInfo, localVars
<1>13. ASSUME NEW r \in Request, MarkOld(r) PROVE RotationInv'
  BY <1>13 DEF MarkOld, MarkRevoked, Revoke, localVars, historyVars
<1>14. ASSUME NEW r \in Request, RefreshAccess(r) PROVE RotationInv'
  BY <1>14 DEF RefreshAccess, RegisterTokenInfo, localVars, historyVars
<1>15. ASSUME NEW r \in Request, Unlock(r) PROVE RotationInv'
  BY <1>15 DEF Unlock, Forget, historyVars
<1>16. ASSUME NEW t \in known, HandleRevoke(t) PROVE RotationInv'
  BY <1>16 DEF HandleRevoke, RevokeToken, localVars, historyVars
<1>17. CASE UNCHANGED vars
  BY <1>17 DEF vars
<1>18. QED
  BY <1>1, <1>2, <1>3, <1>4, <1>5, <1>6, <1>7, <1>8, <1>9, <1>10, <1>11, <1>12, <1>13, <1>14, <1>15, <1>16, <1>17 DEF Next, Step

\* Families stay fresh until their first refresh token is registered.
LEMMA FamilyStep == TypeOK /\ DrawnInv /\ FamilyInv /\ [Next]_vars => FamilyInv'
<1> SUFFICES ASSUME TypeOK /\ DrawnInv /\ FamilyInv, [Next]_vars PROVE FamilyInv'
  OBVIOUS
<1> USE DEF TypeOK, Token, TokenInfo, Info, Labels, Goto, DrawnInv, FamilyInv, Minting, Exchanging, Live, LiveRefresh
<1>1. ASSUME NEW r \in Request, StartIssue(r) PROVE FamilyInv'
  BY <1>1 DEF StartIssue, DrawPair, historyVars
<1>2. ASSUME NEW r \in Request, StartClientCredentials(r) PROVE FamilyInv'
  BY <1>2 DEF StartClientCredentials, historyVars
<1>3. ASSUME NEW r \in Request, IssueRefresh(r) PROVE FamilyInv'
  BY <1>3 DEF IssueRefresh, RegisterTokenInfo, localVars, historyVars
<1>4. ASSUME NEW r \in Request, IssueAccess(r) PROVE FamilyInv'
  BY <1>4 DEF IssueAccess, RegisterTokenInfo, Forget, historyVars
<1>5. ASSUME NEW r \in Request, StartRefresh(r) PROVE FamilyInv'
  BY <1>5 DEF StartRefresh, historyVars
<1>6. ASSUME NEW r \in Request, Lock(r) PROVE FamilyInv'
  BY <1>6 DEF Lock, localVars, historyVars
<1>7. ASSUME NEW r \in Request, LookupLive(r) PROVE FamilyInv'
  BY <1>7 DEF LookupLive, DrawPair, historyVars
<1>8. ASSUME NEW r \in Request, LookupFails(r) PROVE FamilyInv'
  BY <1>8 DEF LookupFails, localVars, historyVars
<1>9. ASSUME NEW r \in Request, DetectReuse(r) PROVE FamilyInv'
  BY <1>9 DEF DetectReuse, RecognisedReplay, historyVars
<1>10. ASSUME NEW r \in Request, RejectUnknown(r) PROVE FamilyInv'
  BY <1>10 DEF RejectUnknown, localVars, historyVars
<1>11. ASSUME NEW r \in Request, RevokeReused(r) PROVE FamilyInv'
  BY <1>11 DEF RevokeReused, RevokeFamily, Revoke, localVars
<1>12. ASSUME NEW r \in Request, Rotate(r) PROVE FamilyInv'
  BY <1>12 DEF Rotate, RegisterTokenInfo, localVars
<1>13. ASSUME NEW r \in Request, MarkOld(r) PROVE FamilyInv'
  BY <1>13 DEF MarkOld, MarkRevoked, Revoke, localVars, historyVars
<1>14. ASSUME NEW r \in Request, RefreshAccess(r) PROVE FamilyInv'
  BY <1>14 DEF RefreshAccess, RegisterTokenInfo, localVars, historyVars
<1>15. ASSUME NEW r \in Request, Unlock(r) PROVE FamilyInv'
  BY <1>15 DEF Unlock, Forget, historyVars
<1>16. ASSUME NEW t \in known, HandleRevoke(t) PROVE FamilyInv'
  BY <1>16 DEF HandleRevoke, RevokeToken, localVars, historyVars
<1>17. CASE UNCHANGED vars
  BY <1>17 DEF vars
<1>18. QED
  BY <1>1, <1>2, <1>3, <1>4, <1>5, <1>6, <1>7, <1>8, <1>9, <1>10, <1>11, <1>12, <1>13, <1>14, <1>15, <1>16, <1>17 DEF Next, Step

\* A second exchange of a family cannot begin while one runs.
LEMMA ExchangeStep == TypeOK /\ DrawnInv /\ LockInv /\ FamilyInv /\ ExchangeInv /\ OneLiveRefreshPerFamily /\ [Next]_vars => ExchangeInv'
<1> SUFFICES ASSUME TypeOK /\ DrawnInv /\ LockInv /\ FamilyInv /\ ExchangeInv /\ OneLiveRefreshPerFamily, [Next]_vars PROVE ExchangeInv'
  OBVIOUS
<1> USE DEF TypeOK, Token, TokenInfo, Info, Labels, Goto, DrawnInv, LockInv, FamilyInv, ExchangeInv, OneLiveRefreshPerFamily, Minting, Holding, Exchanging, Live, LiveRefresh
<1>1. ASSUME NEW r \in Request, StartIssue(r) PROVE ExchangeInv'
  BY <1>1 DEF StartIssue, DrawPair, historyVars
<1>2. ASSUME NEW r \in Request, StartClientCredentials(r) PROVE ExchangeInv'
  BY <1>2 DEF StartClientCredentials, historyVars
<1>3. ASSUME NEW r \in Request, IssueRefresh(r) PROVE ExchangeInv'
  BY <1>3 DEF IssueRefresh, RegisterTokenInfo, localVars, historyVars
<1>4. ASSUME NEW r \in Request, IssueAccess(r) PROVE ExchangeInv'
  BY <1>4 DEF IssueAccess, RegisterTokenInfo, Forget, historyVars
<1>5. ASSUME NEW r \in Request, StartRefresh(r) PROVE ExchangeInv'
  BY <1>5 DEF StartRefresh, historyVars
<1>6. ASSUME NEW r \in Request, Lock(r) PROVE ExchangeInv'
  BY <1>6 DEF Lock, localVars, historyVars
<1>7. ASSUME NEW r \in Request, LookupLive(r) PROVE ExchangeInv'
  <2> DEFINE f == mockTokens[presented[r]].family
  <2>1. presented[r] \in known /\ r \in Holding /\ r \notin Exchanging
        /\ LiveRefresh(presented[r])
    BY <1>7 DEF LookupLive
  <2>2. \A q \in Request : pc[q] = "markOld" \/ q \in Exchanging =>
          q # r /\ presented[q] # presented[r] /\ newRefresh[q] # presented[r]
    BY <2>1, <1>7 DEF LookupLive
  <2>3. \A q \in Exchanging : family[q] # f
    BY <2>1, <2>2
  <2>4. \A t \in DOMAIN mockTokens :
          LiveRefresh(t) /\ mockTokens[t].family = f => t = presented[r]
    BY <2>1, <2>2
  <2>5. /\ Exchanging' \subseteq Exchanging \cup {r}
        /\ family'[r] = f /\ presented' = presented /\ mockTokens' = mockTokens
        /\ \A q \in Exchanging : /\ family'[q] = family[q] /\ pc'[q] = pc[q]
                                 /\ newRefresh'[q] = newRefresh[q]
    BY <1>7, <2>1 DEF LookupLive, DrawPair
  <2> QED
    BY <2>3, <2>4, <2>5
<1>8. ASSUME NEW r \in Request, LookupFails(r) PROVE ExchangeInv'
  BY <1>8 DEF LookupFails, localVars, historyVars
<1>9. ASSUME NEW r \in Request, DetectReuse(r) PROVE ExchangeInv'
  BY <1>9 DEF DetectReuse, RecognisedReplay, historyVars
<1>10. ASSUME NEW r \in Request, RejectUnknown(r) PROVE ExchangeInv'
  BY <1>10 DEF RejectUnknown, localVars, historyVars
<1>11. ASSUME NEW r \in Request, RevokeReused(r) PROVE ExchangeInv'
  BY <1>11 DEF RevokeReused, RevokeFamily, Revoke, localVars
<1>12. ASSUME NEW r \in Request, Rotate(r) PROVE ExchangeInv'
  BY <1>12 DEF Rotate, RegisterTokenInfo, localVars
<1>13. ASSUME NEW r \in Request, MarkOld(r) PROVE ExchangeInv'
  BY <1>13 DEF MarkOld, MarkRevoked, Revoke, localVars, historyVars
<1>14. ASSUME NEW r \in Request, RefreshAccess(r) PROVE ExchangeInv'
  BY <1>14 DEF RefreshAccess, RegisterTokenInfo, localVars, historyVars
<1>15. ASSUME NEW r \in Request, Unlock(r) PROVE ExchangeInv'
  BY <1>15 DEF Unlock, Forget, historyVars
<1>16. ASSUME NEW t \in known, HandleRevoke(t) PROVE ExchangeInv'
  BY <1>16 DEF HandleRevoke, RevokeToken, localVars, historyVars
<1>17. CASE UNCHANGED vars
  BY <1>17 DEF vars
<1>18. QED
  BY <1>1, <1>2, <1>3, <1>4, <1>5, <1>6, <1>7, <1>8, <1>9, <1>10, <1>11, <1>12, <1>13, <1>14, <1>15, <1>16, <1>17 DEF Next, Step

\* No request starts minting into a family revoked while quiet.
LEMMA QuietStep == TypeOK /\ DrawnInv /\ FamilyInv /\ QuietInv /\ QuietRevocationFinal /\ [Next]_vars => QuietInv'
<1> SUFFICES ASSUME TypeOK /\ DrawnInv /\ FamilyInv /\ QuietInv /\ QuietRevocationFinal, [Next]_vars PROVE QuietInv'
  OBVIOUS
<1> USE DEF TypeOK, Token, TokenInfo, Info, Labels, Goto, DrawnInv, FamilyInv, QuietInv, QuietRevocationFinal, Minting, Exchanging, Live, LiveRefresh
<1>1. ASSUME NEW r \in Request, StartIssue(r) PROVE QuietInv'
  BY <1>1 DEF StartIssue, DrawPair, historyVars
<1>2. ASSUME NEW r \in Request, StartClientCredentials(r) PROVE QuietInv'
  BY <1>2 DEF StartClientCredentials, historyVars
<1>3. ASSUME NEW r \in Request, IssueRefresh(r) PROVE QuietInv'
  BY <1>3 DEF IssueRefresh, RegisterTokenInfo, localVars, historyVars
<1>4. ASSUME NEW r \in Request, IssueAccess(r) PROVE QuietInv'
  BY <1>4 DEF IssueAccess, RegisterTokenInfo, Forget, historyVars
<1>5. ASSUME NEW r \in Request, StartRefresh(r) PROVE QuietInv'
  BY <1>5 DEF StartRefresh, historyVars
<1>6. ASSUME NEW r \in Request, Lock(r) PROVE QuietInv'
  BY <1>6 DEF Lock, localVars, historyVars
<1>7. ASSUME NEW r \in Request, LookupLive(r) PROVE QuietInv'
  BY <1>7 DEF LookupLive, DrawPair, historyVars
<1>8. ASSUME NEW r \in Request, LookupFails(r) PROVE QuietInv'
  BY <1>8 DEF LookupFails, localVars, historyVars
<1>9. ASSUME NEW r \in Request, DetectReuse(r) PROVE QuietInv'
  BY <1>9 DEF DetectReuse, RecognisedReplay, historyVars
<1>10. ASSUME NEW r \in Request, RejectUnknown(r) PROVE QuietInv'
  BY <1>10 DEF RejectUnknown, localVars, historyVars
<1>11. ASSUME NEW r \in Request, RevokeReused(r) PROVE QuietInv'
  BY <1>11 DEF RevokeReused, RevokeFamily, Revoke, localVars
<1>12. ASSUME NEW r \in Request, Rotate(r) PROVE QuietInv'
  BY <1>12 DEF Rotate, RegisterTokenInfo, localVars
<1>13. ASSUME NEW r \in Request, MarkOld(r) PROVE QuietInv'
  BY <1>13 DEF MarkOld, MarkRevoked, Revoke, localVars, historyVars
<1>14. ASSUME NEW r \in Request, RefreshAccess(r) PROVE QuietInv'
  BY <1>14 DEF RefreshAccess, RegisterTokenInfo, localVars, historyVars
<1>15. ASSUME NEW r \in Request, Unlock(r) PROVE QuietInv'
  BY <1>15 DEF Unlock, Forget, historyVars
<1>16. ASSUME NEW t \in known, HandleRevoke(t) PROVE QuietInv'
  BY <1>16 DEF HandleRevoke, RevokeToken, localVars, historyVars
<1>17. CASE UNCHANGED vars
  BY <1>17 DEF vars
<1>18. QED
  BY <1>1, <1>2, <1>3, <1>4, <1>5, <1>6, <1>7, <1>8, <1>9, <1>10, <1>11, <1>12, <1>13, <1>14, <1>15, <1>16, <1>17 DEF Next, Step

\* A token stays registered, in its family, until a client has seen it.
LEMMA ChainStep == TypeOK /\ DrawnInv /\ LockInv /\ ChainInv /\ [Next]_vars => ChainInv'
<1> SUFFICES ASSUME TypeOK /\ DrawnInv /\ LockInv /\ ChainInv, [Next]_vars PROVE ChainInv'
  OBVIOUS
<1> USE DEF TypeOK, Token, TokenInfo, Info, Labels, Goto, DrawnInv, LockInv, ChainInv, Minting, Holding, Exchanging, Live, LiveRefresh
<1>1. ASSUME NEW r \in Request, StartIssue(r) PROVE ChainInv'
  BY <1>1 DEF StartIssue, DrawPair, historyVars
<1>2. ASSUME NEW r \in Request, StartClientCredentials(r) PROVE ChainInv'
  BY <1>2 DEF StartClientCredentials, historyVars
<1>3. ASSUME NEW r \in Request, IssueRefresh(r) PROVE ChainInv'
  BY <1>3 DEF IssueRefresh, RegisterTokenInfo, localVars, historyVars
<1>4. ASSUME NEW r \in Request, IssueAccess(r) PROVE ChainInv'
  BY <1>4 DEF IssueAccess, RegisterTokenInfo, Forget, historyVars
<1>5. ASSUME NEW r \in Request, StartRefresh(r) PROVE ChainInv'
  BY <1>5 DEF StartRefresh, historyVars
<1>6. ASSUME NEW r \in Request, Lock(r) PROVE ChainInv'
  BY <1>6 DEF Lock, localVars, historyVars
<1>7. ASSUME NEW r \in Request, LookupLive(r) PROVE ChainInv'
  BY <1>7 DEF LookupLive, DrawPair, historyVars
<1>8. ASSUME NEW r \in Request, LookupFails(r) PROVE ChainInv'
  BY <1>8 DEF LookupFails, localVars, historyVars
<1>9. ASSUME NEW r \in Request, DetectReuse(r) PROVE ChainInv'
  BY <1>9 DEF DetectReuse, RecognisedReplay, historyVars
<1>10. ASSUME NEW r \in Request, RejectUnknown(r) PROVE ChainInv'
  BY <1>10 DEF RejectUnknown, localVars, historyVars
<1>11. ASSUME NEW r \in Request, RevokeReused(r) PROVE ChainInv'
  BY <1>11 DEF RevokeReused, RevokeFamily, Revoke, localVars
<1>12. ASSUME NEW r \in Request, Rotate(r) PROVE ChainInv'
  BY <1>12 DEF Rotate, RegisterTokenInfo, localVars
<1>13. ASSUME NEW r \in Request, MarkOld(r) PROVE ChainInv'
  BY <1>13 DEF MarkOld, MarkRevoked, Revoke, localVars, historyVars
<1>14. ASSUME NEW r \in Request, RefreshAccess(r) PROVE ChainInv'
  BY <1>14 DEF RefreshAccess, RegisterTokenInfo, localVars, historyVars
<1>15. ASSUME NEW r \in Request, Unlock(r) PROVE ChainInv'
  BY <1>15 DEF Unlock, Forget, historyVars
<1>16. ASSUME NEW t \in known, HandleRevoke(t) PROVE ChainInv'
  BY <1>16 DEF HandleRevoke, RevokeToken, localVars, historyVars
<1>17. CASE UNCHANGED vars
  BY <1>17 DEF vars
<1>18. QED
  BY <1>1, <1>2, <1>3, <1>4, <1>5, <1>6, <1>7, <1>8, <1>9, <1>10, <1>11, <1>12, <1>13, <1>14, <1>15, <1>16, <1>17 DEF Next, Step

\* The exchange that rotates a token is its first.
LEMMA SingleStep == TypeOK /\ RotationInv /\ SingleSuccessor /\ [Next]_vars => SingleSuccessor'
<1> SUFFICES ASSUME TypeOK /\ RotationInv /\ SingleSuccessor, [Next]_vars PROVE SingleSuccessor'
  OBVIOUS
<1> USE DEF TypeOK, Token, TokenInfo, Info, Labels, Goto, RotationInv, SingleSuccessor
<1>1. ASSUME NEW r \in Request, StartIssue(r) PROVE SingleSuccessor'
  BY <1>1 DEF StartIssue, DrawPair, historyVars
<1>2. ASSUME NEW r \in Request, StartClientCredentials(r) PROVE SingleSuccessor'
  BY <1>2 DEF StartClientCredentials, historyVars
<1>3. ASSUME NEW r \in Request, IssueRefresh(r) PROVE SingleSuccessor'
  BY <1>3 DEF IssueRefresh, RegisterTokenInfo, localVars, historyVars
<1>4. ASSUME NEW r \in Request, IssueAccess(r) PROVE SingleSuccessor'
  BY <1>4 DEF IssueAccess, RegisterTokenInfo, Forget, historyVars
<1>5. ASSUME NEW r \in Request, StartRefresh(r) PROVE SingleSuccessor'
  BY <1>5 DEF StartRefresh, historyVars
<1>6. ASSUME NEW r \in Request, Lock(r) PROVE SingleSuccessor'
  BY <1>6 DEF Lock, localVars, historyVars
<1>7. ASSUME NEW r \in Request, LookupLive(r) PROVE SingleSuccessor'
  BY <1>7 DEF LookupLive, DrawPair, historyVars
<1>8. ASSUME NEW r \in Request, LookupFails(r) PROVE SingleSuccessor'
  BY <1>8 DEF LookupFails, localVars, historyVars
<1>9. ASSUME NEW r \in Request, DetectReuse(r) PROVE SingleSuccessor'
  BY <1>9 DEF DetectReuse, RecognisedReplay, historyVars
<1>10. ASSUME NEW r \in Request, RejectUnknown(r) PROVE SingleSuccessor'
  BY <1>10 DEF RejectUnknown, localVars, historyVars
<1>11. ASSUME NEW r \in Request, RevokeReused(r) PROVE SingleSuccessor'
  BY <1>11 DEF RevokeReused, RevokeFamily, Revoke, localVars
<1>12. ASSUME NEW r \in Request, Rotate(r) PROVE SingleSuccessor'
  BY <1>12 DEF Rotate, RegisterTokenInfo, localVars
<1>13. ASSUME NEW r \in Request, MarkOld(r) PROVE SingleSuccessor'
  BY <1>13 DEF MarkOld, MarkRevoked, Revoke, localVars, historyVars
<1>14. ASSUME NEW r \in Request, RefreshAccess(r) PROVE SingleSuccessor'
  BY <1>14 DEF RefreshAccess, RegisterTokenInfo, localVars, historyVars
<1>15. ASSUME NEW r \in Request, Unlock(r) PROVE SingleSuccessor'
  BY <1>15 DEF Unlock, Forget, historyVars
<1>16. ASSUME NEW t \in known, HandleRevoke(t) PROVE SingleSuccessor'
  BY <1>16 DEF HandleRevoke, RevokeToken, localVars, historyVars
<1>17. CASE UNCHANGED vars
  BY <1>17 DEF vars
<1>18. QED
  BY <1>1, <1>2, <1>3, <1>4, <1>5, <1>6, <1>7, <1>8, <1>9, <1>10, <1>11, <1>12, <1>13, <1>14, <1>15, <1>16, <1>17 DEF Next, Step

\* A registered successor is the only other live end of its family.
LEMMA OneLiveStep == TypeOK /\ DrawnInv /\ FamilyInv /\ ExchangeInv /\ OneLiveRefreshPerFamily /\ [Next]_vars => OneLiveRefreshPerFamily'
<1> SUFFICES ASSUME TypeOK /\ DrawnInv /\ FamilyInv /\ ExchangeInv /\ OneLiveRefreshPerFamily, [Next]_vars PROVE OneLiveRefreshPerFamily'
  OBVIOUS
<1> USE DEF TypeOK, Token, TokenInfo, Info, Labels, Goto, DrawnInv, FamilyInv, ExchangeInv, OneLiveRefreshPerFamily, Minting, Exchanging, Live, LiveRefresh
<1>1. ASSUME NEW r \in Request, StartIssue(r) PROVE OneLiveRefreshPerFamily'
  BY <1>1 DEF StartIssue, DrawPair, historyVars
<1>2. ASSUME NEW r \in Request, StartClientCredentials(r) PROVE OneLiveRefreshPerFamily'
  BY <1>2 DEF StartClientCredentials, historyVars
<1>3. ASSUME NEW r \in Request, IssueRefresh(r) PROVE OneLiveRefreshPerFamily'
  BY <1>3 DEF IssueRefresh, RegisterTokenInfo, localVars, historyVars
<1>4. ASSUME NEW r \in Request, IssueAccess(r) PROVE OneLiveRefreshPerFamily'
  BY <1>4 DEF IssueAccess, RegisterTokenInfo, Forget, historyVars
<1>5. ASSUME NEW r \in Request, StartRefresh(r) PROVE OneLiveRefreshPerFamily'
  BY <1>5 DEF StartRefresh, historyVars
<1>6. ASSUME NEW r \in Request, Lock(r) PROVE OneLiveRefreshPerFamily'
  BY <1>6 DEF Lock, localVars, historyVars
<1>7. ASSUME NEW r \in Request, LookupLive(r) PROVE OneLiveRefreshPerFamily'
  BY <1>7 DEF LookupLive, DrawPair, historyVars
<1>8. ASSUME NEW r \in Request, LookupFails(r) PROVE OneLiveRefreshPerFamily'
  BY <1>8 DEF LookupFails, localVars, historyVars
<1>9. ASSUME NEW r \in Request, DetectReuse(r) PROVE OneLiveRefreshPerFamily'
  BY <1>9 DEF DetectReuse, RecognisedReplay, historyVars
<1>10. ASSUME NEW r \in Request, RejectUnknown(r) PROVE OneLiveRefreshPerFamily'
  BY <1>10 DEF RejectUnknown, localVars, historyVars
<1>11. ASSUME NEW r \in Request, RevokeReused(r) PROVE OneLiveRefreshPerFamily'
  BY <1>11 DEF RevokeReused, RevokeFamily, Revoke, localVars
<1>12. ASSUME NEW r \in Request, Rotate(r) PROVE OneLiveRefreshPerFamily'
  BY <1>12 DEF Rotate, RegisterTokenInfo, localVars
<1>13. ASSUME NEW r \in Request, MarkOld(r) PROVE OneLiveRefreshPerFamily'
  BY <1>13 DEF MarkOld, MarkRevoked, Revoke, localVars, historyVars
<1>14. ASSUME NEW r \in Request, RefreshAccess(r) PROVE OneLiveRefreshPerFamily'
  BY <1>14 DEF RefreshAccess, RegisterTokenInfo, localVars, historyVars
<1>15. ASSUME NEW r \in Request, Unlock(r) PROVE OneLiveRefreshPerFamily'
  BY <1>15 DEF Unlock, Forget, historyVars
<1>16. ASSUME NEW t \in known, HandleRevoke(t) PROVE OneLiveRefreshPerFamily'
  BY <1>16 DEF HandleRevoke, RevokeToken, localVars, historyVars
<1>17. CASE UNCHANGED vars
  BY <1>17 DEF vars
<1>18. QED
  BY <1>1, <1>2, <1>3, <1>4, <1>5, <1>6, <1>7, <1>8, <1>9, <1>10, <1>11, <1>12, <1>13, <1>14, <1>15, <1>16, <1>17 DEF Next, Step

\* Nothing is registered into a family revoked while quiet.
LEMMA QuietFinalStep == TypeOK /\ DrawnInv /\ FamilyInv /\ QuietInv /\ QuietRevocationFinal /\ [Next]_vars => QuietRevocationFinal'
<1> SUFFICES ASSUME TypeOK /\ DrawnInv /\ FamilyInv /\ QuietInv /\ QuietRevocationFinal, [Next]_vars PROVE QuietRevocationFinal'
  OBVIOUS
<1> USE DEF TypeOK, Token, TokenInfo, Info, Labels, Goto, DrawnInv, FamilyInv, QuietInv, QuietRevocationFinal, Minting, Live
<1>1. ASSUME NEW r \in Request, StartIssue(r) PROVE QuietRevocationFinal'
  BY <1>1 DEF StartIssue, DrawPair, historyVars
<1>2. ASSUME NEW r \in Request, StartClientCredentials(r) PROVE QuietRevocationFinal'
  BY <1>2 DEF StartClientCredentials, historyVars
<1>3. ASSUME NEW r \in Request, IssueRefresh(r) PROVE QuietRevocationFinal'
  BY <1>3 DEF IssueRefresh, RegisterTokenInfo, localVars, historyVars
<1>4. ASSUME NEW r \in Request, IssueAccess(r) PROVE QuietRevocationFinal'
  BY <1>4 DEF IssueAccess, RegisterTokenInfo, Forget, historyVars
<1>5. ASSUME NEW r \in Request, StartRefresh(r) PROVE QuietRevocationFinal'
  BY <1>5 DEF StartRefresh, historyVars
<1>6. ASSUME NEW r \in Request, Lock(r) PROVE QuietRevocationFinal'
  BY <1>6 DEF Lock, localVars, historyVars
<1>7. ASSUME NEW r \in Request, LookupLive(r) PROVE QuietRevocationFinal'
  BY <1>7 DEF LookupLive, DrawPair, historyVars
<1>8. ASSUME NEW r \in Request, LookupFails(r) PROVE QuietRevocationFinal'
  BY <1>8 DEF LookupFails, localVars, historyVars
<1>9. ASSUME NEW r \in Request, DetectReuse(r) PROVE QuietRevocationFinal'
  BY <1>9 DEF DetectReuse, RecognisedReplay, historyVars
<1>10. ASSUME NEW r \in Request, RejectUnknown(r) PROVE QuietRevocationFinal'
  BY <1>10 DEF RejectUnknown, localVars, historyVars
<1>11. ASSUME NEW r \in Request, RevokeReused(r) PROVE QuietRevocationFinal'
  BY <1>11 DEF RevokeReused, RevokeFamily, Revoke, localVars
<1>12. ASSUME NEW r \in Request, Rotate(r) PROVE QuietRevocationFinal'
  BY <1>12 DEF Rotate, RegisterTokenInfo, localVars
<1>13. ASSUME NEW r \in Request, MarkOld(r) PROVE QuietRevocationFinal'
  BY <1>13 DEF MarkOld, MarkRevoked, Revoke, localVars, historyVars
<1>14. ASSUME NEW r \in Request, RefreshAccess(r) PROVE QuietRevocationFinal'
  BY <1>14 DEF RefreshAccess, RegisterTokenInfo, localVars, historyVars
<1>15. ASSUME NEW r \in Request, Unlock(r) PROVE QuietRevocationFinal'
  BY <1>15 DEF Unlock, Forget, historyVars
<1>16. ASSUME NEW t \in known, HandleRevoke(t) PROVE QuietRevocationFinal'
  BY <1>16 DEF HandleRevoke, RevokeToken, localVars, historyVars
<1>17. CASE UNCHANGED vars
  BY <1>17 DEF vars
<1>18. QED
  BY <1>1, <1>2, <1>3, <1>4, <1>5, <1>6, <1>7, <1>8, <1>9, <1>10, <1>11, <1>12, <1>13, <1>14, <1>15, <1>16, <1>17 DEF Next, Step

-----------------------------------------------------------------------------
\* The invariant is inductive and implies each property below.
THEOREM Inductive == Spec => []IInv
<1>1. Init => IInv
  BY ConstantsAssumption
     DEF Init, IInv, TypeOK, DrawnInv, LockInv, RotationInv, FamilyInv,
         ExchangeInv, QuietInv, ChainInv, SingleSuccessor, OneLiveRefreshPerFamily,
         QuietRevocationFinal, Minting, Holding, Exchanging, Live, LiveRefresh,
         Info, TokenInfo, Token, Labels, MockAccessToken
<1>2. IInv /\ [Next]_vars => IInv'
  BY TypeStep, DrawnStep, LockStep, RotationStep, FamilyStep, ExchangeStep,
     QuietStep, ChainStep, SingleStep, OneLiveStep, QuietFinalStep DEF IInv
<1> QED
  BY <1>1, <1>2, PTL DEF Spec

\* Type correctness, for every set of requests and both rotation settings.
THEOREM TypeCorrect == Spec => []TypeOK
<1>1. IInv => TypeOK
  BY DEF IInv
<1> QED
  BY <1>1, Inductive, PTL

\* The per-token mutex does what handleRefreshGrant says it is for: no refresh
\* token is ever exchanged for two successors, under any interleaving of any
\* number of grants, replays and revocations.
THEOREM RefreshTokenExchangedOnce == Spec => []SingleSuccessor
<1>1. IInv => SingleSuccessor
  BY DEF IInv
<1> QED
  BY <1>1, Inductive, PTL

\* A family never has two live ends outside the window of one exchange.
THEOREM FamilyHasOneLiveEnd == Spec => []OneLiveRefreshPerFamily
<1>1. IInv => OneLiveRefreshPerFamily
  BY DEF IInv
<1> QED
  BY <1>1, Inductive, PTL

\* Rotation never forks a family: its refresh tokens are one chain with one
\* live end, for any number of requests and tokens (handleRefreshGrant).
THEOREM FamiliesAreChains == Spec => []OneChainPerFamily
<1>1. SingleSuccessor /\ OneLiveRefreshPerFamily => OneChainPerFamily
    BY DEF OneChainPerFamily
<1> QED
    BY <1>1, RefreshTokenExchangedOnce, FamilyHasOneLiveEnd, PTL

\* A family revoked while no exchange of it was in flight stays revoked.
THEOREM QuietRevocationIsFinal == Spec => []QuietRevocationFinal
<1>1. IInv => QuietRevocationFinal
  BY DEF IInv
<1> QED
  BY <1>1, Inductive, PTL

-----------------------------------------------------------------------------
(* The registry and its grants implement RefreshFamilies. *)

\* The refinement mapping in terms of the tokens and requests it is made of.
EndShape ==
    /\ End = [f \in DOMAIN End |-> End[f]]
    /\ DOMAIN End = {mockTokens[t].family : t \in Ends}
    /\ \A t \in Ends : End[mockTokens[t].family] = t

TradingShape ==
    /\ Trading = [f \in DOMAIN Trading |-> Trading[f]]
    /\ DOMAIN Trading = {family[r] : r \in Traders}
    /\ \A r \in Traders : Trading[family[r]] = presented[r]

\* No two usable ends have a family in common, nor two exchanges.
LEMMA Shapes == IInv => EndShape /\ TradingShape
<1> SUFFICES ASSUME IInv PROVE EndShape /\ TradingShape
  OBVIOUS
<1>1. ASSUME NEW t \in Ends, NEW u \in Ends, mockTokens[t].family = mockTokens[u].family
      PROVE  t = u
  BY <1>1 DEF IInv, OneLiveRefreshPerFamily, Ends
<1>2. ASSUME NEW t \in Ends
      PROVE  (CHOOSE u \in Ends : mockTokens[u].family = mockTokens[t].family) = t
  BY <1>1
<1>3. EndShape
  BY <1>2 DEF EndShape, End
<1>4. ASSUME NEW r \in Traders, NEW q \in Traders, family[r] = family[q]
      PROVE  r = q
  BY <1>4 DEF IInv, ExchangeInv, Exchanging, Traders
<1>5. ASSUME NEW r \in Traders
      PROVE  (CHOOSE q \in Traders : family[q] = family[r]) = r
  BY <1>4
<1>6. TradingShape
  <2>1. DOMAIN Trading = {family[r] : r \in Traders} /\ Trading = [f \in DOMAIN Trading |-> Trading[f]]
    BY DEF Trading
  <2>2. ASSUME NEW r \in Traders PROVE Trading[family[r]] = presented[r]
    BY <1>5 DEF Trading
  <2> QED
    BY <2>1, <2>2 DEF TradingShape
<1> QED
  BY <1>3, <1>6

\* What a step does to the ends of all families follows from what it does to
\* the set of usable ends.
LEMMA EndKept ==
    ASSUME EndShape, EndShape', Ends' = Ends,
           \A t \in Ends : mockTokens'[t].family = mockTokens[t].family
    PROVE  End' = End
<1>1. DOMAIN End' = DOMAIN End
  BY DEF EndShape
<1>2. \A f \in DOMAIN End : End'[f] = End[f]
  BY DEF EndShape
<1> QED
  BY <1>1, <1>2, Zenon DEF EndShape

LEMMA EndDropped ==
    ASSUME EndShape, EndShape', NEW f, Ends' = {t \in Ends : mockTokens[t].family # f},
           \A t \in Ends' : mockTokens'[t].family = mockTokens[t].family
    PROVE  End' = Families!Drop(End, f)
<1>1. DOMAIN End' = DOMAIN End \ {f}
  BY DEF EndShape
<1>2. \A g \in DOMAIN End \ {f} : End'[g] = End[g]
  BY DEF EndShape
<1> QED
  BY <1>1, <1>2, Zenon DEF EndShape, Families!Drop

LEMMA EndPut ==
    ASSUME EndShape, EndShape', NEW f, NEW u, u \notin Ends,
           Ends' = {t \in Ends : mockTokens[t].family # f} \cup {u},
           mockTokens'[u].family = f,
           \A t \in Ends' \ {u} : mockTokens'[t].family = mockTokens[t].family
    PROVE  End' = Families!Put(End, f, u)
<1>1. DOMAIN End' = DOMAIN End \cup {f}
  BY DEF EndShape
<1>2. \A g \in DOMAIN End \cup {f} : End'[g] = IF g = f THEN u ELSE End[g]
  BY DEF EndShape
<1> QED
  BY <1>1, <1>2, Zenon DEF EndShape, Families!Put

\* The same for the exchanges.
LEMMA TradingKept ==
    ASSUME Traders' = Traders, \A r \in Traders : family'[r] = family[r] /\ presented'[r] = presented[r],
           TradingShape, TradingShape'
    PROVE  Trading' = Trading
<1>1. DOMAIN Trading' = DOMAIN Trading
  BY DEF TradingShape
<1>2. \A f \in DOMAIN Trading : Trading'[f] = Trading[f]
  BY DEF TradingShape
<1> QED
  BY <1>1, <1>2, Zenon DEF TradingShape

\* One step of the code is one step of the promise, or none.
LEMMA FamiliesStep == IInv /\ IInv' /\ [Next]_vars => [Families!Next]_(Families!vars)
<1> SUFFICES ASSUME IInv, IInv', [Next]_vars PROVE [Families!Next]_(Families!vars)
  OBVIOUS
<1> DEFINE Refined == [Families!Next]_(Families!vars)
<1>0. EndShape /\ TradingShape /\ EndShape' /\ TradingShape'
  BY Shapes, PTL
<1>a. \A r \in Request : pc[r] = "markOld" => presented[r] \in known
  BY DEF IInv, LockInv, Holding
<1>b. ASSUME Ends' = Ends, \A t \in Ends : mockTokens'[t].family = mockTokens[t].family
      PROVE  End' = End
  BY <1>0, <1>b, EndKept
<1>c. ASSUME Traders' = Traders,
             \A r \in Traders : family'[r] = family[r] /\ presented'[r] = presented[r]
      PROVE  Trading' = Trading
  BY <1>0, <1>c, TradingKept
<1> USE DEF Goto
<1>1. ASSUME NEW r \in Request, StartIssue(r) \/ StartClientCredentials(r) \/ StartRefresh(r) \/ Lock(r)
                               \/ LookupFails(r) \/ DetectReuse(r) \/ RejectUnknown(r) \/ Unlock(r)
      PROVE  Refined
  <2>1. /\ mockTokens' = mockTokens /\ known' = known /\ rotations' = rotations
        /\ pc[r] \notin {"rotate", "markOld"} /\ pc'[r] \notin {"rotate", "markOld"}
        /\ \A q \in Request \ {r} : /\ pc'[q] = pc[q] /\ family'[q] = family[q]
                                    /\ presented'[q] = presented[q]
    BY <1>1 DEF StartIssue, StartClientCredentials, StartRefresh, Lock, LookupFails, DetectReuse,
                RejectUnknown, Unlock, Forget, DrawPair, localVars, historyVars, IInv, TypeOK
  <2>2. Traders' = Traders /\ Ends' = Ends
    BY <2>1 DEF Traders, Ends, LiveRefresh, Live
  <2>3. End' = End
    BY <1>b, <2>1, <2>2
  <2>4. Trading' = Trading
    BY <1>c, <2>1, <2>2 DEF Traders
  <2>5. Given' = Given /\ Spent' = Spent
    BY <2>1 DEF Given, Spent
  <2> QED
    BY <2>3, <2>4, <2>5 DEF Families!vars
<1>2. ASSUME NEW r \in Request, IssueRefresh(r) PROVE Refined
  <2>0. PICK u : u = newRefresh[r]
    OBVIOUS
  <2>1. /\ family[r] = u /\ u \notin DOMAIN mockTokens /\ u \notin known
        /\ \A t \in DOMAIN mockTokens : mockTokens[t].family # u
    BY <1>2, <2>0 DEF IssueRefresh, IInv, ChainInv, DrawnInv, FamilyInv, Minting
  <2>2. /\ DOMAIN mockTokens' = DOMAIN mockTokens \cup {u}
        /\ mockTokens'[u] = Info("refresh", u)
        /\ \A t \in DOMAIN mockTokens : mockTokens'[t] = mockTokens[t]
        /\ known' = known /\ rotations' = rotations /\ localVars' = localVars
        /\ pc[r] = "issueRefresh" /\ pc'[r] = "issueAccess"
        /\ \A q \in Request \ {r} : pc'[q] = pc[q]
    BY <1>2, <2>0, <2>1 DEF IssueRefresh, RegisterTokenInfo, historyVars, IInv, TypeOK
  <2>3. Ends' = {t \in Ends : mockTokens[t].family # u} \cup {u}
    <3>1. LiveRefresh(u)' /\ u \in DOMAIN mockTokens'
      BY <2>2 DEF LiveRefresh, Live, Info
    <3>2. \A t \in DOMAIN mockTokens : LiveRefresh(t)' <=> LiveRefresh(t)
      BY <2>2 DEF LiveRefresh, Live
    <3>3. \A q \in Request : /\ pc'[q] = "markOld" <=> pc[q] = "markOld"
                            /\ presented'[q] = presented[q]
      BY <2>2 DEF localVars
    <3>4. \A q \in Request : pc[q] = "markOld" => presented[q] # u
      BY <1>a, <2>1
    <3> QED
      BY <2>1, <2>2, <3>1, <3>2, <3>3, <3>4 DEF Ends
  <2>4. End' = Families!Put(End, u, u)
    BY <1>0, <2>1, <2>2, <2>3, EndPut DEF Info, Ends
  <2>5. Traders' = Traders
    BY <2>2 DEF Traders
  <2>6. Trading' = Trading
    BY <1>c, <2>2, <2>5 DEF localVars
  <2>7. u \notin Given /\ Given' = Given \cup {u} /\ Spent' = Spent
    BY <2>1, <2>2 DEF Given, Spent
  <2>8. Families!Begin(u)
    BY <2>4, <2>6, <2>7 DEF Families!Begin, Families!Draw
  <2> QED
    BY <2>7, <2>8 DEF Families!Next
<1>3. ASSUME NEW r \in Request, IssueAccess(r) \/ RefreshAccess(r) PROVE Refined
  <2>0. PICK u : u = newAccess[r]
    OBVIOUS
  <2>1. u \notin DOMAIN mockTokens /\ u \notin known
    BY <1>3, <2>0 DEF IssueAccess, RefreshAccess, IInv, DrawnInv, Minting
  <2>2. /\ DOMAIN mockTokens' = DOMAIN mockTokens \cup {u}
        /\ mockTokens'[u] = Info("access", family[r])
        /\ \A t \in DOMAIN mockTokens : mockTokens'[t] = mockTokens[t]
        /\ rotations' = rotations
        /\ pc[r] \notin {"rotate", "markOld"} /\ pc'[r] \notin {"rotate", "markOld"}
        /\ \A q \in Request \ {r} : /\ pc'[q] = pc[q] /\ family'[q] = family[q]
                                    /\ presented'[q] = presented[q]
    BY <1>3, <2>0, <2>1 DEF IssueAccess, RefreshAccess, RegisterTokenInfo, Forget, localVars, historyVars, IInv, TypeOK
  <2>3. Ends' = Ends
    <3>1. ~LiveRefresh(u)'
      BY <2>2 DEF LiveRefresh, Info
    <3>2. \A t \in DOMAIN mockTokens : LiveRefresh(t)' <=> LiveRefresh(t)
      BY <2>2 DEF LiveRefresh, Live
    <3>3. \A q \in Request : /\ pc'[q] = "markOld" <=> pc[q] = "markOld"
                            /\ pc[q] = "markOld" => presented'[q] = presented[q]
      BY <2>2
    <3> QED
      BY <2>2, <3>1, <3>2, <3>3 DEF Ends
  <2>4. End' = End
    BY <1>b, <2>2, <2>3 DEF Ends
  <2>5. Traders' = Traders /\ \A q \in Traders : family'[q] = family[q] /\ presented'[q] = presented[q]
    BY <2>2 DEF Traders
  <2>6. Trading' = Trading
    BY <1>c, <2>5
  <2>7. known \subseteq known' /\ known' \subseteq known \cup {u} \cup DOMAIN mockTokens
    BY <1>3, <2>0 DEF IssueAccess, RefreshAccess, IInv, ChainInv
  <2>8. u \notin Given /\ Given' = Given \cup {u} /\ Spent' = Spent
    BY <2>1, <2>2, <2>7 DEF Given, Spent
  <2>9. Families!Give(u)
    BY <2>4, <2>6, <2>8 DEF Families!Give, Families!Draw
  <2> QED
    BY <2>8, <2>9 DEF Families!Next
<1>4. ASSUME NEW r \in Request, LookupLive(r) PROVE Refined
  <2> DEFINE f == mockTokens[presented[r]].family
  <2>1. /\ mockTokens' = mockTokens /\ known' = known /\ rotations' = rotations
        /\ presented' = presented /\ LiveRefresh(presented[r])
        /\ pc[r] = "lookup" /\ pc'[r] = (IF Rotation THEN "rotate" ELSE "refreshAccess")
        /\ family'[r] = f
        /\ \A q \in Request \ {r} : pc'[q] = pc[q] /\ family'[q] = family[q]
    BY <1>4 DEF LookupLive, DrawPair, historyVars, IInv, TypeOK
  <2>2. Ends' = Ends
    BY <2>1 DEF Ends, LiveRefresh, Live
  <2>3. End' = End
    BY <1>b, <2>1, <2>2
  <2>4. Given' = Given /\ Spent' = Spent
    BY <2>1 DEF Given, Spent
  <2>5. CASE ~Rotation
    <3>1. Traders' = Traders /\ \A q \in Traders : family'[q] = family[q] /\ presented'[q] = presented[q]
      BY <2>1, <2>5 DEF Traders
    <3>2. Trading' = Trading
      BY <1>c, <3>1
    <3> QED
      BY <2>3, <2>4, <3>2 DEF Families!vars
  <2>6. CASE Rotation
    <3>1. presented[r] \in Ends
      BY <2>1 DEF Ends, LiveRefresh, Live, IInv, LockInv, Holding
    <3>2. f \in DOMAIN End /\ End[f] = presented[r]
      BY <1>0, <3>1 DEF EndShape
    <3>3. Traders' = Traders \cup {r} /\ r \notin Traders
      BY <2>1, <2>6 DEF Traders
    <3>4. \A q \in Traders : family[q] # f
      <4>1. \A q \in Traders : family'[q] = family[q] /\ q \in Traders'
        BY <2>1, <3>3 DEF Traders
      <4>2. \A q \in Traders : family'[q] # family'[r]
        BY <3>3, <4>1 DEF IInv, ExchangeInv, Exchanging, Traders
      <4> QED
        BY <2>1, <4>1, <4>2
    <3>5. f \notin DOMAIN Trading
      BY <1>0, <3>4 DEF TradingShape
    <3>6. DOMAIN Trading' = DOMAIN Trading \cup {f}
      BY <1>0, <2>1, <3>3 DEF TradingShape, Traders
    <3>7. \A g \in DOMAIN Trading' : Trading'[g] = IF g = f THEN End[f] ELSE Trading[g]
      <4>1. Trading'[f] = End[f]
        BY <1>0, <2>1, <3>2, <3>3 DEF TradingShape
      <4>2. ASSUME NEW g \in DOMAIN Trading PROVE Trading'[g] = Trading[g]
        <5>1. PICK q \in Traders : family[q] = g
          BY <1>0 DEF TradingShape
        <5>2. q \in Traders' /\ family'[q] = g /\ presented'[q] = presented[q]
          BY <2>1, <3>3, <5>1 DEF Traders
        <5> QED
          BY <1>0, <5>1, <5>2 DEF TradingShape
      <4> QED
        BY <3>5, <3>6, <4>1, <4>2
    <3>8. Trading' = Families!Put(Trading, f, End[f])
      BY <1>0, <3>6, <3>7, Zenon DEF TradingShape, Families!Put
    <3>9. Families!Open(f)
      BY <2>3, <2>4, <3>5, <3>8 DEF Families!Open
    <3> QED
      BY <3>2, <3>9 DEF Families!Next
  <2> QED
    BY <2>5, <2>6
<1>5. ASSUME NEW r \in Request, RevokeReused(r) PROVE Refined
  <2> DEFINE f == family[r]
  <2>1. /\ DOMAIN mockTokens' = DOMAIN mockTokens
        /\ \A t \in DOMAIN mockTokens :
            /\ mockTokens'[t].family = mockTokens[t].family
            /\ mockTokens'[t].type = mockTokens[t].type
            /\ mockTokens'[t].revoked <=> mockTokens[t].revoked \/ mockTokens[t].family = f
        /\ known' = known /\ rotations' = rotations
        /\ pc[r] = "revokeFamily" /\ pc'[r] = "unlock" /\ localVars' = localVars
        /\ \A q \in Request \ {r} : pc'[q] = pc[q]
    <3>1. f # 0
      BY <1>5 DEF RevokeReused, IInv, FamilyInv
    <3> QED
      BY <1>5, <3>1 DEF RevokeReused, RevokeFamily, Revoke, IInv, TypeOK, TokenInfo
  <2>2. Ends' = {t \in Ends : mockTokens[t].family # f}
    BY <2>1 DEF Ends, LiveRefresh, Live, localVars
  <2>3. Traders' = Traders
    BY <2>1 DEF Traders
  <2>4. Trading' = Trading
    BY <1>c, <2>1, <2>3 DEF localVars
  <2>5. Given' = Given /\ Spent' = Spent
    BY <2>1 DEF Given, Spent
  <2>6. CASE f \in DOMAIN End
    <3>1. End' = Families!Drop(End, f)
      BY <1>0, <2>1, <2>2, EndDropped DEF Ends
    <3>2. Families!Revoke(f)
      BY <2>4, <2>5, <3>1 DEF Families!Revoke
    <3> QED
      BY <2>6, <3>2 DEF Families!Next
  <2>7. CASE f \notin DOMAIN End
    <3>1. Ends' = Ends
      BY <1>0, <2>2, <2>7 DEF EndShape
    <3>2. End' = End
      BY <1>b, <2>1, <3>1 DEF Ends
    <3> QED
      BY <2>4, <2>5, <3>2 DEF Families!vars
  <2> QED
    BY <2>6, <2>7
<1>6. ASSUME NEW r \in Request, Rotate(r) PROVE Refined
  <2> DEFINE f == family[r]
  <2>0. PICK u : u = newRefresh[r]
    OBVIOUS
  <2>1. /\ u \notin DOMAIN mockTokens /\ u \notin known /\ r \in Exchanging
        /\ presented[r] \in known
    BY <1>6, <2>0 DEF Rotate, IInv, DrawnInv, Minting, Exchanging, LockInv, Holding
  <2>2. /\ DOMAIN mockTokens' = DOMAIN mockTokens \cup {u}
        /\ mockTokens'[u] = Info("refresh", f)
        /\ \A t \in DOMAIN mockTokens : mockTokens'[t] = mockTokens[t]
        /\ known' = known /\ rotations' = rotations \cup {<<presented[r], u>>}
        /\ localVars' = localVars
        /\ pc[r] = "rotate" /\ pc'[r] = "markOld"
        /\ \A q \in Request \ {r} : pc'[q] = pc[q]
    BY <1>6, <2>0, <2>1 DEF Rotate, RegisterTokenInfo, IInv, TypeOK
  <2>3. Ends' = {t \in Ends : mockTokens[t].family # f} \cup {u}
    <3>1. LiveRefresh(u)' /\ u \in DOMAIN mockTokens'
      BY <2>2 DEF LiveRefresh, Live, Info
    <3>2. \A t \in DOMAIN mockTokens : LiveRefresh(t)' <=> LiveRefresh(t)
      BY <2>2 DEF LiveRefresh, Live
    <3>3. \A t \in DOMAIN mockTokens :
            LiveRefresh(t) /\ t # presented[r] => mockTokens[t].family # f
      BY <2>1, <2>2 DEF IInv, ExchangeInv
    <3>4. presented[r] \in DOMAIN mockTokens => mockTokens[presented[r]].family = f
      BY <2>1 DEF IInv, ChainInv
    <3>5. \A q \in Request : /\ pc'[q] = "markOld" <=> pc[q] = "markOld" \/ q = r
                            /\ presented'[q] = presented[q]
      BY <2>2 DEF localVars
    <3>6. \A q \in Request : pc'[q] = "markOld" => presented[q] # u
      BY <1>a, <2>1, <3>5
    <3>7. \A t \in DOMAIN mockTokens : t \in Ends' <=> t \in Ends /\ mockTokens[t].family # f
      <4>1. ASSUME NEW t \in DOMAIN mockTokens
            PROVE  t \in Ends' <=> /\ LiveRefresh(t) /\ t # presented[r]
                                   /\ \A q \in Request : pc[q] = "markOld" => presented[q] # t
        BY <2>2, <3>2, <3>5 DEF Ends
      <4> QED
        BY <3>3, <3>4, <4>1 DEF Ends
    <3>8. u \in Ends' /\ Ends' \subseteq DOMAIN mockTokens \cup {u}
      BY <2>2, <3>1, <3>5, <3>6 DEF Ends
    <3>9. Ends \subseteq DOMAIN mockTokens
      BY DEF Ends
    <3> QED
      BY <3>7, <3>8, <3>9
  <2>4. End' = Families!Put(End, f, u)
    BY <1>0, <2>1, <2>2, <2>3, EndPut DEF Info, Ends
  <2>5. f \in DOMAIN Trading /\ Trading[f] = presented[r]
    BY <1>0, <2>2 DEF TradingShape, Traders
  <2>6. Traders' = Traders \ {r} /\ \A q \in Traders : family'[q] = family[q] /\ presented'[q] = presented[q]
    BY <2>2 DEF Traders, localVars
  <2>7. \A q \in Traders : q # r => family[q] # f
    BY <2>1 DEF IInv, ExchangeInv, Exchanging, Traders
  <2>8. Trading' = Families!Drop(Trading, f)
    <3>1. DOMAIN Trading' = DOMAIN Trading \ {f}
      BY <1>0, <2>6, <2>7 DEF TradingShape
    <3>2. \A g \in DOMAIN Trading \ {f} : Trading'[g] = Trading[g]
      BY <1>0, <2>6, <2>7 DEF TradingShape
    <3> QED
      BY <1>0, <3>1, <3>2, Zenon DEF TradingShape, Families!Drop
  <2>9. u \notin Given /\ Given' = Given \cup {u} /\ Spent' = Spent \cup {presented[r]}
    <3>1. Spent' = {p[1] : p \in rotations} \cup {<<presented[r], u>>[1]}
      BY <2>2, Zenon DEF Spent
    <3> QED
      BY <2>1, <2>2, <3>1 DEF Given, Spent
  <2>10. Families!Close(f, u)
    BY <2>4, <2>5, <2>8, <2>9 DEF Families!Close, Families!Draw
  <2> QED
    BY <2>5, <2>9, <2>10 DEF Families!Next
<1>7. ASSUME NEW r \in Request, MarkOld(r) PROVE Refined
  <2>1. /\ DOMAIN mockTokens' = DOMAIN mockTokens
        /\ \A t \in DOMAIN mockTokens :
            /\ mockTokens'[t].family = mockTokens[t].family
            /\ mockTokens'[t].type = mockTokens[t].type
            /\ mockTokens'[t].revoked <=> mockTokens[t].revoked \/ t = presented[r]
        /\ known' = known /\ rotations' = rotations
        /\ pc[r] = "markOld" /\ pc'[r] = "refreshAccess" /\ localVars' = localVars
        /\ \A q \in Request \ {r} : pc'[q] = pc[q]
    BY <1>7 DEF MarkOld, MarkRevoked, Revoke, historyVars, IInv, TypeOK, TokenInfo
  <2>2. Ends' = Ends
    <3>1. \A t \in DOMAIN mockTokens : LiveRefresh(t)' <=> LiveRefresh(t) /\ t # presented[r]
      BY <2>1 DEF LiveRefresh, Live
    <3>2. \A q \in Request : /\ pc'[q] = "markOld" <=> pc[q] = "markOld" /\ q # r
                            /\ presented'[q] = presented[q]
      BY <2>1 DEF localVars
    <3> QED
      BY <2>1, <3>1, <3>2 DEF Ends
  <2>3. End' = End
    BY <1>b, <2>1, <2>2 DEF Ends
  <2>4. Traders' = Traders
    BY <2>1 DEF Traders
  <2>5. Trading' = Trading
    BY <1>c, <2>1, <2>4 DEF localVars
  <2>6. Given' = Given /\ Spent' = Spent
    BY <2>1 DEF Given, Spent
  <2> QED
    BY <2>3, <2>5, <2>6 DEF Families!vars
<1>8. ASSUME NEW t \in known, HandleRevoke(t) PROVE Refined
  <2> DEFINE f == mockTokens[t].family
  <2>1. /\ t \in DOMAIN mockTokens /\ DOMAIN mockTokens' = DOMAIN mockTokens \ {t}
        /\ \A u \in DOMAIN mockTokens' : mockTokens'[u] = mockTokens[u]
        /\ known' = known /\ rotations' = rotations /\ pc' = pc /\ localVars' = localVars
    BY <1>8 DEF HandleRevoke, RevokeToken, historyVars
  <2>2. Ends' = Ends \ {t}
    BY <2>1 DEF Ends, LiveRefresh, Live, localVars
  <2>3. Traders' = Traders
    BY <2>1 DEF Traders
  <2>4. Trading' = Trading
    BY <1>c, <2>1, <2>3 DEF localVars
  <2>5. Given' = Given /\ Spent' = Spent
    BY <2>1 DEF Given, Spent
  <2>6. CASE t \in Ends
    <3>1. Ends' = {u \in Ends : mockTokens[u].family # f}
      BY <1>0, <2>2, <2>6 DEF EndShape
    <3>2. End' = Families!Drop(End, f)
      BY <1>0, <2>1, <3>1, EndDropped DEF Ends
    <3>3. f \in DOMAIN End
      BY <1>0, <2>6 DEF EndShape
    <3>4. Families!Revoke(f)
      BY <2>4, <2>5, <3>2 DEF Families!Revoke
    <3> QED
      BY <3>3, <3>4 DEF Families!Next
  <2>7. CASE t \notin Ends
    <3>1. Ends' = Ends
      BY <2>2, <2>7
    <3>2. \A u \in Ends : mockTokens'[u].family = mockTokens[u].family
      BY <2>1, <2>7 DEF Ends
    <3>3. End' = End
      BY <1>b, <3>1, <3>2
    <3> QED
      BY <2>4, <2>5, <3>3 DEF Families!vars
  <2> QED
    BY <2>6, <2>7
<1>9. CASE UNCHANGED vars
  BY <1>9 DEF vars, Families!vars, Given, End, Trading, Spent, Ends, Traders, LiveRefresh, Live
<1> QED
  BY <1>1, <1>2, <1>3, <1>4, <1>5, <1>6, <1>7, <1>8, <1>9 DEF Next, Step

\* Grants, replays and revocations, in any number and in any order, keep the
\* promise of refresh token rotation.
THEOREM RotationKeepsItsPromise == Spec => ImplementsRefreshFamilies
<1>1. Init => Families!Init
  <2> SUFFICES ASSUME Init PROVE Families!Init
    OBVIOUS
  <2>1. Ends = {} /\ Traders = {}
    BY DEF Init, Ends, Traders, LiveRefresh, Live, Info
  <2>2. End = Families!Nothing
    BY <2>1 DEF End, Families!Nothing
  <2>3. Trading = Families!Nothing
    BY <2>1 DEF Trading, Families!Nothing
  <2>4. Given \in SUBSET Nat /\ Spent = {}
    BY DEF Init, Given, Spent, MockAccessToken
  <2> QED
    BY <2>2, <2>3, <2>4 DEF Families!Init
<1> QED
  BY <1>1, FamiliesStep, Inductive, PTL DEF Spec, ImplementsRefreshFamilies, Families!Spec

-----------------------------------------------------------------------------
(* What the promise is worth, whoever keeps it. *)

\* Every family deals in tokens of its own.
OwnTokens ==
    /\ \A f \in DOMAIN End : f \in Given /\ End[f] \in Given
    /\ \A f \in DOMAIN Trading : f \in Given /\ Trading[f] \in Given
    /\ Spent \subseteq Given
    /\ \A f, g \in DOMAIN End : End[f] = End[g] => f = g
    /\ \A f, g \in DOMAIN Trading : Trading[f] = Trading[g] => f = g
    /\ \A f \in DOMAIN End, g \in DOMAIN Trading : End[f] = Trading[g] => f = g

\* A step of the promise trades in a token for the first time.
LEMMA TradedStep ==
    ASSUME OwnTokens, Families!TradedOnce, [Families!Next]_(Families!vars)
    PROVE  OwnTokens' /\ Families!TradedOnce'
<1> DEFINE Goal == OwnTokens' /\ Families!TradedOnce'
<1> USE DEF OwnTokens, Families!TradedOnce, Families!Draw, Families!Put, Families!Drop
<1>1. ASSUME NEW t, Families!Begin(t) PROVE Goal
  BY <1>1 DEF Families!Begin
<1>2. ASSUME NEW t, Families!Give(t) PROVE Goal
  BY <1>2 DEF Families!Give
<1>3. ASSUME NEW f \in DOMAIN Trading, NEW t, Families!Close(f, t) PROVE Goal
  BY <1>3 DEF Families!Close
<1>4. ASSUME NEW f \in DOMAIN End, Families!Open(f) PROVE Goal
  BY <1>4 DEF Families!Open
<1>5. ASSUME NEW f \in DOMAIN End, Families!Revoke(f) PROVE Goal
  BY <1>5 DEF Families!Revoke
<1>6. CASE UNCHANGED Families!vars
  BY <1>6 DEF Families!vars
<1> QED
  BY <1>1, <1>2, <1>3, <1>4, <1>5, <1>6 DEF Families!Next

\* No refresh token is traded in twice, nor usable after its exchange: it
\* follows from what RefreshFamilies promises, and so holds of the registry.
THEOREM TokensTradedOnce == Spec => []Families!TradedOnce
<1>1. Families!Init => OwnTokens /\ Families!TradedOnce
  BY DEF Families!Init, Families!Nothing, OwnTokens, Families!TradedOnce
<1> QED
  BY <1>1, TradedStep, RotationKeepsItsPromise, PTL DEF ImplementsRefreshFamilies, Families!Spec

\* A family that has lost its end while no exchange of it was under way,
\* through a replay or through /revoke, has no usable refresh token again.
THEOREM LostFamiliesStayLost == Spec => Families!LostForGood
<1> DEFINE Lost == \A f \in Given \ (DOMAIN End \cup DOMAIN Trading) :
                       f \notin DOMAIN End' \cup DOMAIN Trading'
<1>1. [Families!Next]_(Families!vars) => Lost \/ UNCHANGED Families!vars
  <2> SUFFICES ASSUME Families!Next PROVE Lost
    OBVIOUS
  <2> USE DEF Families!Draw, Families!Put, Families!Drop
  <2>1. ASSUME NEW t, Families!Begin(t) PROVE Lost
    BY <2>1 DEF Families!Begin
  <2>2. ASSUME NEW t, Families!Give(t) PROVE Lost
    BY <2>2 DEF Families!Give
  <2>3. ASSUME NEW f \in DOMAIN Trading, NEW t, Families!Close(f, t) PROVE Lost
    BY <2>3 DEF Families!Close
  <2>4. ASSUME NEW f \in DOMAIN End, Families!Open(f) PROVE Lost
    BY <2>4 DEF Families!Open
  <2>5. ASSUME NEW f \in DOMAIN End, Families!Revoke(f) PROVE Lost
    BY <2>5 DEF Families!Revoke
  <2> QED
    BY <2>1, <2>2, <2>3, <2>4, <2>5 DEF Families!Next
<1> QED
  BY <1>1, RotationKeepsItsPromise, PTL
     DEF ImplementsRefreshFamilies, Families!Spec, Families!LostForGood
=============================================================================
