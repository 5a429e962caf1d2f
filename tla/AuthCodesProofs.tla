-------------------------- MODULE AuthCodesProofs --------------------------
(***************************************************************************)
(* A code brings tokens at most once and the flow implements the one-time  *)
(* code, for any number of exchanges in flight, any URIs and verifiers and *)
(* any bounds.  GrantedOnce is not inductive: it needs that an exchange in *)
(* flight has a used code of the current process to itself (FlightInv) and *)
(* that a settled code is used or forgotten (SettledInv), which is what    *)
(* Consume's test of used protects.  The second part is about the sessions *)
(* around the flow: how long one can outlive what it was given for.        *)
(***************************************************************************)
EXTENDS Sessions, TLAPS

\* An exchange past Consume holds a used code nobody else holds and nobody
\* has answered for.
FlightInv ==
    \A r \in Request : form[r] # NoForm =>
        /\ form[r].code \in Issued /\ form[r].code > forgotten
        /\ codes[form[r].code].used
        /\ grants[form[r].code] = 0 /\ form[r].code \notin refused
        /\ \A q \in Request : form[q] # NoForm /\ form[q].code = form[r].code => q = r

\* A code that was answered for is used, and a void one is forgotten.
SettledInv ==
    /\ \A c \in 1..MaxCode \ Issued : grants[c] = 0
    /\ \A c \in Issued :
        /\ grants[c] > 0 \/ c \in refused => codes[c].used
        /\ c \in void => c <= forgotten
        /\ c <= forgotten => Settled(c)

IInv == TypeOK /\ GrantedOnce /\ FlightInv /\ SettledInv

\* The abstract state, as the refinement maps it.
status == [c \in 1..MaxCode |-> Status(c)]

-----------------------------------------------------------------------------
(* What each step leaves behind: the type, and the rest of the invariant.  *)

LEMMA IssueStep ==
    ASSUME IInv, NEW uri \in RedirectURI, NEW challenge \in Verifier,
           Issue(uri, challenge)
    PROVE  IInv' /\ \E c \in 1..MaxCode : Promise!Issue(c)
<1> USE ConstantsAssumption
<1>0. PICK c0 : c0 = Len(codes) + 1
    OBVIOUS
<1> DEFINE entry == [redirectURI |-> uri, challenge |-> challenge,
                     expiresAt |-> now + authCodeTTL, used |-> FALSE]
<1>1. codes \in Seq(AuthCode) /\ Len(codes) < MaxCode /\ Len(codes) \in Nat
    BY DEF IInv, TypeOK, Issue
<1>2. entry \in AuthCode
    BY DEF AuthCode, IInv, TypeOK
<1>3. codes' = Append(codes, entry)
    BY DEF Issue
<1> HIDE DEF entry
<1>4. /\ codes' \in Seq(AuthCode) /\ Len(codes') = c0
      /\ \A c \in Issued : codes'[c] = codes[c]
      /\ codes'[c0] = entry
    BY <1>0, <1>1, <1>2, <1>3 DEF Issued
<1>5. Issued' = Issued \cup {c0} /\ c0 \notin Issued /\ c0 \in 1..MaxCode
    BY <1>0, <1>1, <1>4 DEF Issued
<1>6. UNCHANGED <<forgotten, now, form, grants, refused, void>>
    BY DEF Issue
<1>7. grants[c0] = 0 /\ c0 \notin refused /\ c0 \notin void /\ ~(c0 <= forgotten)
    BY <1>0, <1>1, <1>5 DEF IInv, TypeOK, SettledInv
<1>8. TypeOK'
    BY <1>0, <1>1, <1>4, <1>5, <1>6 DEF IInv, TypeOK
<1>9. GrantedOnce'
    BY <1>5, <1>6, <1>7 DEF IInv, GrantedOnce
<1>10. FlightInv'
    BY <1>4, <1>5, <1>6 DEF IInv, FlightInv
<1>11. SettledInv'
    BY <1>4, <1>5, <1>6, <1>7 DEF IInv, SettledInv, Settled
<1>12. Promise!Issue(c0)
  <2>1. Status(c0) = "none" /\ Status(c0)' = "open"
      BY <1>5, <1>6, <1>7 DEF Status
  <2>2. \A c \in 1..MaxCode \ {c0} : Status(c)' = Status(c)
      BY <1>5, <1>6 DEF Status
  <2> QED
      BY <1>5, <2>1, <2>2 DEF Promise!Issue
<1> QED
    BY <1>5, <1>8, <1>9, <1>10, <1>11, <1>12 DEF IInv

LEMMA ConsumeStep ==
    ASSUME IInv, NEW r \in Request, NEW f \in Form, Consume(r, f)
    PROVE  IInv' /\ status' = status
<1> USE ConstantsAssumption
<1>1. /\ codes \in Seq(AuthCode) /\ form \in [Request -> Form \cup {NoForm}]
      /\ f.code \in Issued /\ f.code > forgotten /\ ~codes[f.code].used
      /\ form[r] = NoForm
      /\ forgotten \in Nat
    BY DEF IInv, TypeOK, Consume, Consumable
<1>2. /\ codes' = [codes EXCEPT ![f.code].used = TRUE]
      /\ form' = [form EXCEPT ![r] = f]
      /\ UNCHANGED <<forgotten, now, grants, refused, void>>
    BY DEF Consume
<1>3. /\ codes' \in Seq(AuthCode) /\ Len(codes') = Len(codes)
      /\ codes'[f.code].used
      /\ \A c \in Issued : codes[c].used => codes'[c].used
  <2>1. \A c \in Issued : codes[c] \in AuthCode
      BY <1>1 DEF Issued
  <2>2. [codes[f.code] EXCEPT !.used = TRUE] \in AuthCode
      BY <1>1, <2>1 DEF AuthCode
  <2>3. \A c \in Issued : codes'[c] = IF c = f.code
                                    THEN [codes[f.code] EXCEPT !.used = TRUE]
                                    ELSE codes[c]
      BY <1>1, <1>2 DEF Issued
  <2>4. codes' \in Seq(AuthCode) /\ Len(codes') = Len(codes)
      BY <1>1, <1>2, <2>2 DEF Issued
  <2> QED
      BY <1>1, <2>1, <2>3, <2>4 DEF AuthCode
<1>4. Issued' = Issued
    BY <1>3 DEF Issued
<1>5. form'[r] = f /\ \A q \in Request \ {r} : form'[q] = form[q]
    BY <1>1, <1>2
<1>6. TypeOK'
    BY <1>1, <1>2, <1>3, <1>4 DEF IInv, TypeOK
<1>7. GrantedOnce' /\ SettledInv'
    BY <1>2, <1>3, <1>4 DEF IInv, GrantedOnce, SettledInv, Settled
<1>8. grants[f.code] = 0 /\ f.code \notin refused
  <2>1. grants[f.code] \in Nat
      BY <1>1, <1>6 DEF Form, IInv, TypeOK
  <2> QED
      BY <1>1, <2>1 DEF IInv, SettledInv
<1>9. \A q \in Request : form[q] # NoForm => form[q].code # f.code
    BY <1>1 DEF IInv, FlightInv
<1>10. FlightInv'
    BY <1>1, <1>2, <1>3, <1>4, <1>5, <1>8, <1>9 DEF IInv, FlightInv
<1>11. status' = status
    BY <1>2, <1>4 DEF status, Status
<1> QED
    BY <1>6, <1>7, <1>10, <1>11 DEF IInv

LEMMA GrantStep ==
    ASSUME IInv, NEW r \in Request, Grant(r)
    PROVE  IInv' /\ \E c \in 1..MaxCode : Promise!Grant(c)
<1> USE ConstantsAssumption
<1>0. PICK c0 : c0 = form[r].code
    OBVIOUS
<1>1. /\ form \in [Request -> Form \cup {NoForm}] /\ form[r] # NoForm
      /\ grants \in [1..MaxCode -> Nat]
    BY DEF IInv, TypeOK, Grant
<1>2. /\ grants' = [grants EXCEPT ![c0] = @ + 1]
      /\ form' = [form EXCEPT ![r] = NoForm]
      /\ UNCHANGED <<codes, forgotten, now, refused, void>>
    BY <1>0 DEF Grant, Finish
<1>3. /\ c0 \in Issued /\ c0 > forgotten /\ codes[c0].used
      /\ grants[c0] = 0 /\ c0 \notin refused
      /\ \A q \in Request \ {r} : form[q] # NoForm => form[q].code # c0
    BY <1>0, <1>1 DEF IInv, FlightInv
<1>4. c0 \in 1..MaxCode /\ c0 \in Nat
    BY <1>0, <1>1 DEF Form
<1>5. c0 \notin void
    BY <1>3, <1>4 DEF IInv, SettledInv, TypeOK
<1>6. Issued' = Issued
    BY <1>2 DEF Issued
<1>7. grants'[c0] = 1 /\ \A c \in 1..MaxCode \ {c0} : grants'[c] = grants[c]
    BY <1>1, <1>2, <1>3, <1>4
<1>8. form'[r] = NoForm /\ \A q \in Request \ {r} : form'[q] = form[q]
    BY <1>1, <1>2
<1>9. Issued \subseteq 1..MaxCode
    BY DEF IInv, TypeOK, Issued
<1>10. TypeOK'
  <2>1. grants' \in [1..MaxCode -> Nat]
      BY <1>1, <1>2, <1>4
  <2>2. form' \in [Request -> Form \cup {NoForm}]
      BY <1>1, <1>2
  <2> QED
      BY <1>2, <1>6, <2>1, <2>2 DEF IInv, TypeOK
<1>11. GrantedOnce'
    BY <1>2, <1>3, <1>5, <1>6, <1>7, <1>9 DEF IInv, GrantedOnce
<1>12. FlightInv'
    BY <1>2, <1>3, <1>6, <1>7, <1>8, <1>9 DEF IInv, FlightInv
<1>13. SettledInv'
    BY <1>2, <1>3, <1>6, <1>7, <1>9 DEF IInv, SettledInv, Settled
<1>14. Promise!Grant(c0)
  <2>1. Status(c0) = "open" /\ Status(c0)' = "granted"
      BY <1>3, <1>5, <1>6, <1>7 DEF Status
  <2>2. \A c \in 1..MaxCode \ {c0} : Status(c)' = Status(c)
      BY <1>2, <1>6, <1>7 DEF Status
  <2> QED
      BY <1>4, <2>1, <2>2 DEF Promise!Grant
<1> QED
    BY <1>4, <1>10, <1>11, <1>12, <1>13, <1>14 DEF IInv

LEMMA RefuseStep ==
    ASSUME IInv, NEW r \in Request, Refuse(r)
    PROVE  IInv' /\ \E c \in 1..MaxCode : Promise!Refuse(c)
<1> USE ConstantsAssumption
<1>0. PICK c0 : c0 = form[r].code
    OBVIOUS
<1>1. form \in [Request -> Form \cup {NoForm}] /\ form[r] # NoForm
    BY DEF IInv, TypeOK, Refuse
<1>2. /\ refused' = refused \cup {c0}
      /\ form' = [form EXCEPT ![r] = NoForm]
      /\ UNCHANGED <<codes, forgotten, now, grants, void>>
    BY <1>0 DEF Refuse, Finish
<1>3. /\ c0 \in Issued /\ c0 > forgotten /\ codes[c0].used
      /\ grants[c0] = 0 /\ c0 \notin refused
      /\ \A q \in Request \ {r} : form[q] # NoForm => form[q].code # c0
    BY <1>0, <1>1 DEF IInv, FlightInv
<1>4. c0 \in 1..MaxCode /\ c0 \in Nat
    BY <1>0, <1>1 DEF Form
<1>5. c0 \notin void
    BY <1>3, <1>4 DEF IInv, SettledInv, TypeOK
<1>6. Issued' = Issued
    BY <1>2 DEF Issued
<1>7. form'[r] = NoForm /\ \A q \in Request \ {r} : form'[q] = form[q]
    BY <1>1, <1>2
<1>8. TypeOK'
    BY <1>1, <1>2, <1>3, <1>6 DEF IInv, TypeOK
<1>9. GrantedOnce'
    BY <1>2, <1>3, <1>6 DEF IInv, GrantedOnce
<1>10. FlightInv'
    BY <1>2, <1>3, <1>6, <1>7 DEF IInv, FlightInv
<1>11. SettledInv'
    BY <1>2, <1>3, <1>6 DEF IInv, SettledInv, Settled
<1>12. Promise!Refuse(c0)
  <2>1. Status(c0) = "open" /\ Status(c0)' = "refused"
      BY <1>2, <1>3, <1>5, <1>6 DEF Status
  <2>2. \A c \in 1..MaxCode \ {c0} : Status(c)' = Status(c)
      BY <1>2, <1>6 DEF Status
  <2> QED
      BY <1>4, <2>1, <2>2 DEF Promise!Refuse
<1> QED
    BY <1>4, <1>8, <1>9, <1>10, <1>11, <1>12 DEF IInv

LEMMA RestartStep ==
    ASSUME IInv, Restart
    PROVE  IInv' /\ Promise!Forget
<1> USE ConstantsAssumption
<1>1. /\ forgotten' = Len(codes)
      /\ void' = void \cup {c \in Issued : ~Settled(c)}
      /\ form' = [r \in Request |-> NoForm]
      /\ UNCHANGED <<codes, now, grants, refused>>
    BY DEF Restart
<1>2. Issued' = Issued /\ Len(codes) \in Nat
    BY <1>1 DEF Issued, IInv, TypeOK
<1>3. TypeOK'
    BY <1>1, <1>2 DEF IInv, TypeOK
<1>4. Issued \subseteq 1..MaxCode
    BY DEF IInv, TypeOK, Issued
<1>5. \A c \in 1..MaxCode : grants[c] \in Nat
    BY DEF IInv, TypeOK
<1>6. GrantedOnce'
    BY <1>1, <1>2, <1>4, <1>5 DEF IInv, GrantedOnce, Settled
<1>7. FlightInv'
    BY <1>1 DEF FlightInv
<1>8. SettledInv'
    BY <1>1, <1>2 DEF IInv, SettledInv, Settled, Issued
<1>9. \A c \in 1..MaxCode : Status(c)' = IF Status(c) = "open" THEN "void" ELSE Status(c)
    BY <1>1, <1>2 DEF Status, Settled
<1>10. Promise!Forget
    BY <1>9 DEF Promise!Forget
<1> QED
    BY <1>3, <1>6, <1>7, <1>8, <1>10 DEF IInv

\* The clock moves, or nothing does.
LEMMA IdleStep ==
    ASSUME IInv, Tick \/ UNCHANGED vars
    PROVE  IInv' /\ status' = status
<1> USE ConstantsAssumption
<1>1. UNCHANGED <<codes, forgotten, form, grants, refused, void>>
    BY DEF Tick, vars
<1>2. now' \in 0..MaxTime
    BY DEF Tick, vars, IInv, TypeOK
<1>3. Issued' = Issued
    BY <1>1 DEF Issued
<1> QED
    BY <1>1, <1>2, <1>3
    DEF IInv, TypeOK, GrantedOnce, FlightInv, SettledInv, Settled, status, Status

\* Every step keeps the invariant and is a step or a stutter of the promise.
LEMMA Step ==
    ASSUME IInv, [Next]_vars
    PROVE  IInv' /\ [Promise!Next]_status
<1>1. ASSUME NEW uri \in RedirectURI, NEW challenge \in Verifier,
             Issue(uri, challenge)
      PROVE  IInv' /\ Promise!Next
    BY <1>1, IssueStep DEF Promise!Next
<1>2. ASSUME NEW r \in Request, NEW f \in Form, Consume(r, f)
      PROVE  IInv' /\ status' = status
    BY <1>2, ConsumeStep
<1>3. ASSUME NEW r \in Request, Grant(r)
      PROVE  IInv' /\ Promise!Next
    BY <1>3, GrantStep DEF Promise!Next
<1>4. ASSUME NEW r \in Request, Refuse(r)
      PROVE  IInv' /\ Promise!Next
    BY <1>4, RefuseStep DEF Promise!Next
<1>5. CASE Restart
    BY <1>5, RestartStep DEF Promise!Next
<1>6. CASE Tick \/ UNCHANGED vars
    BY <1>6, IdleStep
<1> QED
    BY <1>1, <1>2, <1>3, <1>4, <1>5, <1>6 DEF Next

LEMMA Initial == Init => IInv /\ Promise!Init
<1> SUFFICES ASSUME Init
             PROVE  IInv /\ Promise!Init
    OBVIOUS
<1>1. Issued = {} /\ Len(codes) = 0 /\ codes \in Seq(AuthCode)
    BY DEF Init, Issued
<1>2. IInv
    BY <1>1, ConstantsAssumption
    DEF Init, IInv, TypeOK, GrantedOnce, FlightInv, SettledInv
<1>3. Promise!Init
    BY <1>1 DEF Promise!Init, Status
<1> QED
    BY <1>2, <1>3

-----------------------------------------------------------------------------
(* The theorems. *)

\* The invariant holds in every reachable state.
THEOREM Inductive == Spec => []IInv
    BY Initial, Step, PTL DEF Spec

\* Every reachable state of the flow is well typed.
THEOREM TypeCorrect == Spec => []TypeOK
<1>1. IInv => TypeOK
    BY DEF IInv
<1> QED
    BY <1>1, Inductive, PTL

\* A code brings tokens at most once, and none once an exchange has failed
\* with it or the server has restarted.
THEOREM CodeGrantedOnce == Spec => []GrantedOnce
<1>1. IInv => GrantedOnce
    BY DEF IInv
<1> QED
    BY <1>1, Inductive, PTL

\* The flow implements the one-time code.
THEOREM FlowImplementsPromise == Spec => ImplementsOneTimeCode
<1>1. Init => Promise!Init
    BY Initial
<1>2. IInv /\ [Next]_vars => [Promise!Next]_status
    BY Step
<1> QED
    BY <1>1, <1>2, Inductive, PTL DEF Spec, ImplementsOneTimeCode, Promise!Spec, status
\* No exchange that starts after a code has expired uses it or gets tokens for
\* it, and none that started before keeps an unused one open.
THEOREM ExpiredCodesStayUnused == Spec => ExpiredStaysUnused
<1> DEFINE LateUnused == \A c \in Issued :
             now > codes[c].expiresAt /\ ~codes[c].used
               => ~codes'[c].used /\ grants'[c] = 0
<1>1. ASSUME IInv, Next, NEW c \in Issued,
             now > codes[c].expiresAt, ~codes[c].used
      PROVE  ~codes'[c].used /\ grants'[c] = 0
  <2>1. /\ codes \in Seq(AuthCode) /\ c \in 1..Len(codes)
        /\ now \in Nat /\ codes[c] \in AuthCode /\ codes[c].expiresAt \in Nat
    <3>1. codes \in Seq(AuthCode) /\ c \in 1..Len(codes) /\ now \in Nat
        BY <1>1, ConstantsAssumption DEF IInv, TypeOK, Issued
    <3>2. codes[c] \in AuthCode
        BY <3>1
    <3> QED
        BY <3>1, <3>2 DEF AuthCode
  <2>2. grants \in [1..MaxCode -> Nat] /\ grants[c] = 0
    <3>1. ~(grants[c] > 0)
        BY <1>1 DEF IInv, SettledInv
    <3>2. grants \in [1..MaxCode -> Nat] /\ c \in 1..MaxCode
        BY <1>1, <2>1, ConstantsAssumption DEF IInv, TypeOK
    <3> QED
        BY <3>1, <3>2
  <2>3. ASSUME NEW uri \in RedirectURI, NEW challenge \in Verifier, Issue(uri, challenge)
        PROVE  codes'[c] = codes[c] /\ grants' = grants
    <3>1. codes'[c] = codes[c]
        BY <2>1, <2>3 DEF Issue
    <3> QED
        BY <2>3, <3>1 DEF Issue
  <2>4. ASSUME NEW r \in Request, NEW f \in Form, Consume(r, f)
        PROVE  codes'[c] = codes[c] /\ grants' = grants
    <3>1. f.code # c
        BY <1>1, <2>1, <2>4 DEF Consume, Consumable
    <3> QED
        BY <2>1, <2>4, <3>1 DEF Consume
  <2>5. ASSUME NEW r \in Request, Grant(r)
        PROVE  codes'[c] = codes[c] /\ grants'[c] = grants[c]
    <3>1. form[r].code # c
        BY <1>1, <2>5 DEF Grant, IInv, FlightInv
    <3> QED
        BY <2>1, <2>5, <3>1 DEF Grant
  <2> QED
      BY <1>1, <2>2, <2>3, <2>4, <2>5 DEF Next, Refuse, Restart, Tick
<1>2. ASSUME IInv, [Next]_vars
      PROVE  [LateUnused]_vars
    BY <1>1, <1>2
<1> QED
    BY <1>2, Inductive, PTL DEF Spec, ExpiredStaysUnused

-----------------------------------------------------------------------------
(* How long a session can outlive what it was given for, for any browsers, *)
(* users, codes and lifetimes.  A cookie's expiry is bounded by three      *)
(* clocks, which the invariant relates: the present, the moment its user   *)
(* last came in, and the moment its token ended, which a revocation or a   *)
(* restart moves forward while the cookie stays as it is.                  *)

SessionTypeOK ==
    /\ cookie \in [Browser -> Cookie \cup {NoCookie}]
    /\ token \in [1 .. MaxCode -> Nat] /\ dead \in [1 .. MaxCode -> Nat]
    /\ owner \in Seq(User) /\ Len(owner) = Len(codes)
    /\ entered \in [User -> Nat]

\* A session ends in time by every clock.
Timely ==
    \A b \in Browser : cookie[b] # NoCookie =>
        /\ cookie[b].exp <= now + sessionDuration
        /\ entered[cookie[b].user] <= now
        /\ cookie[b].exp <= entered[cookie[b].user] + sessionDuration

\* A token the registry knows ends when it expires.
EndsAtExpiry == \A c \in 1 .. MaxCode : token[c] # 0 => dead[c] = token[c]

SessionInv == SessionTypeOK /\ Timely /\ EndsAtExpiry /\ TokenSessionsEnd

-----------------------------------------------------------------------------
\* Browsers do nothing to the codes that the flow by itself does not.
LEMMA FlowStep ==
    ASSUME SessionNext \/ UNCHANGED <<vars, sessionVars>>
    PROVE  [Next]_vars
    BY DEF SessionNext, Login, Logout, Consent, GrantToken, Auth,
       RevokeAccess, RestartServer, Next

\* What the assumptions say of the constants used below.
LEMMA Lifetimes ==
    /\ sessionDuration \in Nat /\ accessTTL \in Nat \ {0}
    /\ MaxCode \in Nat /\ MaxTime \in Nat
    BY SessionConstants, ConstantsAssumption

\* A token's end may move, but not into the past: no session is then too long.
LEMMA EndMoves ==
    ASSUME SessionInv, now \in Nat, UNCHANGED cookie,
           \A c \in 1 .. MaxCode : dead'[c] \in Nat /\ (dead'[c] = dead[c] \/ now <= dead'[c])
    PROVE  TokenSessionsEnd'
<1> SUFFICES ASSUME NEW b \in Browser, cookie[b] # NoCookie, cookie[b].from # 0
             PROVE  cookie[b].exp <= dead'[cookie[b].from] + sessionDuration
    BY DEF TokenSessionsEnd
<1>1. cookie[b].exp \in Nat /\ cookie[b].from \in 1 .. MaxCode
    BY Lifetimes DEF SessionInv, SessionTypeOK, Cookie
<1>2. /\ cookie[b].exp <= now + sessionDuration
      /\ cookie[b].exp <= dead[cookie[b].from] + sessionDuration
    BY DEF SessionInv, Timely, TokenSessionsEnd
<1> QED
    BY <1>1, <1>2, Lifetimes

\* Whoever comes in by a password (c = 0) or with a token that is accepted is
\* given a session that ends in time by every clock.
LEMMA EnterStep ==
    ASSUME IInv, SessionInv, NEW b \in Browser, NEW u \in User,
           NEW c \in 0 .. MaxCode, c # 0 => now < dead[c],
           cookie' = [cookie EXCEPT ![b] = SessionCookie(u, c)],
           entered' = [entered EXCEPT ![u] = now],
           UNCHANGED <<vars, token, owner, dead>>
    PROVE  SessionInv'
<1> USE Lifetimes
<1>1. now \in Nat /\ UNCHANGED <<now, codes>>
    BY DEF IInv, TypeOK, vars
<1>2. /\ SessionCookie(u, c) \in Cookie
      /\ SessionCookie(u, c).exp = now + sessionDuration
      /\ SessionCookie(u, c).user = u /\ SessionCookie(u, c).from = c
    BY <1>1 DEF SessionCookie, Cookie
<1>3. SessionTypeOK'
    BY <1>1, <1>2 DEF SessionInv, SessionTypeOK
<1>4. Timely'
  <2> SUFFICES ASSUME NEW q \in Browser, cookie'[q] # NoCookie
               PROVE  /\ cookie'[q].exp <= now + sessionDuration
                      /\ entered'[cookie'[q].user] <= now
                      /\ cookie'[q].exp <= entered'[cookie'[q].user] + sessionDuration
      BY <1>1 DEF Timely
  <2>1. CASE q = b
      BY <1>1, <1>2, <2>1 DEF SessionInv, SessionTypeOK
  <2>2. CASE q # b
    <3>1. cookie'[q] = cookie[q] /\ cookie[q].user \in User
        BY <2>2 DEF SessionInv, SessionTypeOK, Cookie
    <3> QED
        BY <1>1, <3>1 DEF SessionInv, Timely
  <2> QED
      BY <2>1, <2>2
<1>5. TokenSessionsEnd'
  <2> SUFFICES ASSUME NEW q \in Browser, cookie'[q] # NoCookie, cookie'[q].from # 0
               PROVE  cookie'[q].exp <= dead[cookie'[q].from] + sessionDuration
      BY DEF TokenSessionsEnd
  <2>1. CASE q = b
    <3>1. cookie'[q] = SessionCookie(u, c)
        BY <2>1 DEF SessionInv, SessionTypeOK
    <3>2. c # 0 /\ c \in 1 .. MaxCode
        BY <1>2, <3>1
    <3>3. dead[c] \in Nat /\ now < dead[c]
        BY <3>2 DEF SessionInv, SessionTypeOK
    <3> QED
        BY <1>1, <1>2, <3>1, <3>3
  <2>2. CASE q # b
      BY <2>2 DEF SessionInv, TokenSessionsEnd
  <2> QED
      BY <2>1, <2>2
<1> QED
    BY <1>3, <1>4, <1>5 DEF SessionInv, EndsAtExpiry

\* Every step of browsers, tokens, the clock and the flow keeps the clocks
\* in order.
LEMMA SessionStep ==
    ASSUME IInv, SessionInv, SessionNext \/ UNCHANGED <<vars, sessionVars>>
    PROVE  SessionInv'
<1> USE Lifetimes
<1>1. now \in Nat /\ Len(codes) <= MaxCode /\ codes \in Seq(AuthCode)
    BY DEF IInv, TypeOK
<1>2. ASSUME NEW b \in Browser, NEW u \in User, Login(b, u) PROVE SessionInv'
  <2>1. 0 \in 0 .. MaxCode
      OBVIOUS
  <2> QED
      BY <1>2, <2>1, EnterStep DEF Login
<1>3. ASSUME NEW b \in Browser, Logout(b) PROVE SessionInv'
    BY <1>1, <1>3 DEF SessionInv, SessionTypeOK, Timely, EndsAtExpiry,
       TokenSessionsEnd, Logout, vars
<1>4. ASSUME NEW b \in Browser, NEW uri \in RedirectURI, NEW challenge \in Verifier,
             Consent(b, uri, challenge)
      PROVE  SessionInv'
  <2>1. cookie[b].user \in User
      BY <1>4 DEF Consent, ValidateSession, SessionInv, SessionTypeOK, Cookie
  <2>2. /\ owner' \in Seq(User) /\ Len(owner') = Len(owner) + 1
        /\ Len(codes') = Len(codes) + 1
      BY <1>1, <1>4, <2>1 DEF Consent, Issue, SessionInv, SessionTypeOK
  <2>3. UNCHANGED <<now, cookie, token, dead, entered>>
      BY <1>4 DEF Consent, Issue
  <2> QED
      BY <2>2, <2>3 DEF SessionInv, SessionTypeOK, Timely, EndsAtExpiry,
         TokenSessionsEnd
<1>5. ASSUME NEW b \in Browser, NEW c \in Issued, Auth(b, c) PROVE SessionInv'
  <2>1. c \in 1 .. MaxCode /\ c \in 0 .. MaxCode /\ owner[c] \in User
      BY <1>1 DEF Issued, SessionInv, SessionTypeOK
  <2>2. now < dead[c]
      BY <1>5, <2>1 DEF Auth, LookupToken, SessionInv, EndsAtExpiry
  <2> QED
      BY <1>5, <2>1, <2>2, EnterStep DEF Auth
<1>6. ASSUME NEW c \in Issued, RevokeAccess(c) PROVE SessionInv'
  <2>1. /\ token' = [token EXCEPT ![c] = 0] /\ dead' = [dead EXCEPT ![c] = now]
        /\ UNCHANGED <<now, codes, cookie, owner, entered>>
      BY <1>6 DEF RevokeAccess, vars
  <2>2. SessionTypeOK' /\ Timely' /\ EndsAtExpiry'
      BY <1>1, <2>1 DEF SessionInv, SessionTypeOK, Timely, EndsAtExpiry
  <2>3. TokenSessionsEnd'
      BY <1>1, <2>1, EndMoves DEF SessionInv, SessionTypeOK
  <2> QED
      BY <2>2, <2>3 DEF SessionInv
<1>7. ASSUME NEW r \in Request, GrantToken(r) PROVE SessionInv'
  <2>1. PICK t \in Nat :
          /\ now <= t
          /\ token' = [token EXCEPT ![form[r].code] = t]
          /\ dead' = [dead EXCEPT ![form[r].code] = t]
          /\ UNCHANGED <<now, codes, cookie, owner, entered>>
    <3>1. now + accessTTL \in Nat /\ now <= now + accessTTL
        BY <1>1
    <3> QED
        BY <1>7, <3>1 DEF GrantToken, Grant
  <2>2. SessionTypeOK' /\ Timely' /\ EndsAtExpiry'
      BY <1>1, <2>1 DEF SessionInv, SessionTypeOK, Timely, EndsAtExpiry
  <2>3. TokenSessionsEnd'
      BY <1>1, <2>1, EndMoves DEF SessionInv, SessionTypeOK
  <2> QED
      BY <2>2, <2>3 DEF SessionInv
<1>8. CASE RestartServer
  <2>1. /\ token' = [c \in 1 .. MaxCode |-> 0]
        /\ dead' = [c \in 1 .. MaxCode |-> IF LookupToken(c) THEN now ELSE dead[c]]
        /\ UNCHANGED <<now, codes, cookie, owner, entered>>
      BY <1>8 DEF RestartServer, Restart
  <2>2. SessionTypeOK' /\ EndsAtExpiry'
      BY <1>1, <2>1 DEF SessionInv, SessionTypeOK, EndsAtExpiry
  <2>3. Timely'
      BY <2>1 DEF SessionInv, Timely
  <2>4. TokenSessionsEnd'
      BY <1>1, <2>1, EndMoves DEF SessionInv, SessionTypeOK
  <2> QED
      BY <2>2, <2>3, <2>4 DEF SessionInv
<1>9. CASE /\ UNCHANGED sessionVars /\ now' \in Nat /\ now <= now'
           /\ Len(codes') = Len(codes)
  <2>1. UNCHANGED sessionVars /\ now' \in Nat /\ now <= now' /\ Len(codes') = Len(codes)
      BY <1>9
  <2>2. Timely'
    <3> SUFFICES ASSUME NEW b \in Browser, cookie[b] # NoCookie
                 PROVE  /\ cookie[b].exp <= now' + sessionDuration
                        /\ entered[cookie[b].user] <= now'
                        /\ cookie[b].exp <= entered[cookie[b].user] + sessionDuration
        BY <2>1 DEF sessionVars, Timely
    <3>1. cookie[b].exp \in Nat /\ entered[cookie[b].user] \in Nat
        BY DEF SessionInv, SessionTypeOK, Cookie
    <3>2. /\ cookie[b].exp <= now + sessionDuration
          /\ entered[cookie[b].user] <= now
          /\ cookie[b].exp <= entered[cookie[b].user] + sessionDuration
        BY DEF SessionInv, Timely
    <3> QED
        BY <1>1, <2>1, <3>1, <3>2
  <2> QED
      BY <2>1, <2>2 DEF SessionInv, SessionTypeOK, EndsAtExpiry,
         TokenSessionsEnd, sessionVars
<1>10. ASSUME NEW r \in Request, NEW f \in Form, Consume(r, f) PROVE now' = now /\ Len(codes') = Len(codes)
    BY <1>1, <1>10 DEF Consume
<1> QED
    BY <1>1, <1>2, <1>3, <1>4, <1>5, <1>6, <1>7, <1>8, <1>9, <1>10 DEF
       SessionNext, Refuse, Tick, vars

\* Nobody has come in at the start.
LEMMA SessionInitially == SessionInit => SessionInv
    BY Lifetimes, Initial DEF SessionInit, Init, SessionInv, SessionTypeOK,
       Timely, EndsAtExpiry, TokenSessionsEnd, Never

\* Whatever browsers do, the codes behave as the authorization code flow does
\* by itself: what is proved of AuthCodes holds with sessions around it.
THEOREM FlowWithSessions == SessionSpec => Spec
<1>1. SessionInit => Init
    BY DEF SessionInit
<1>2. [SessionNext]_<<vars, sessionVars>> => [Next]_vars
    BY FlowStep
<1> QED
    BY <1>1, <1>2, PTL DEF SessionSpec, Spec

\* Every session ends in time by each of its clocks.
THEOREM SessionInvariance == SessionSpec => []SessionInv
<1>1. IInv /\ SessionInv /\ [SessionNext]_<<vars, sessionVars>> => SessionInv'
    BY SessionStep
<1> QED
    BY FlowWithSessions, Inductive, SessionInitially, <1>1, PTL DEF SessionSpec

\* The session a bearer request was given outlives the token's expiry, its
\* revocation, or the restart that forgot it, by at most a session's lifetime.
THEOREM TokenSessionsDoEnd == SessionSpec => []TokenSessionsEnd
<1>1. SessionInv => TokenSessionsEnd
    BY DEF SessionInv
<1> QED
    BY SessionInvariance, <1>1, PTL

\* Every code is issued for a user who came in, by a password or a token, at
\* most a session's lifetime before.
THEOREM CodesOfTheirUsers == SessionSpec => CodesAreTheUsers
<1> DEFINE Recent == Len(codes') > Len(codes) =>
             LET u == owner'[Len(owner')]
             IN  entered[u] <= now /\ now - entered[u] <= sessionDuration
<1>1. ASSUME IInv, SessionInv, SessionNext
      PROVE  Recent
  <2>1. ASSUME NEW b \in Browser, NEW uri \in RedirectURI, NEW challenge \in Verifier,
               Consent(b, uri, challenge)
        PROVE  Recent
    <3>1. cookie[b] \in Cookie /\ now <= cookie[b].exp
        BY <1>1, <2>1 DEF Consent, ValidateSession, SessionInv, SessionTypeOK
    <3>2. owner'[Len(owner')] = cookie[b].user
        BY <1>1, <2>1, <3>1 DEF Consent
    <3> QED
        BY <1>1, <2>1, <3>1, <3>2, Lifetimes DEF Consent, ValidateSession,
           SessionInv, SessionTypeOK, Timely, Cookie, IInv, TypeOK
  <2>2. CASE Len(codes') = Len(codes)
      BY <1>1, <2>2
  <2>3. ASSUME NEW r \in Request, NEW f \in Form, Consume(r, f) PROVE Len(codes') = Len(codes)
      BY <1>1, <2>3 DEF Consume
  <2> QED
      BY <1>1, <2>1, <2>2, <2>3 DEF SessionNext, Login, Logout, Auth,
         RevokeAccess, GrantToken, Grant, Refuse, RestartServer, Restart, Tick,
         vars
<1> QED
    BY FlowWithSessions, Inductive, SessionInvariance, <1>1, PTL DEF SessionSpec, CodesAreTheUsers
=============================================================================
