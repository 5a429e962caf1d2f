--------------------------- MODULE RefreshFamilies ---------------------------
(***************************************************************************)
(* What refresh token rotation promises.  The refresh tokens of one grant, *)
(* its family, are a chain with one usable end.  An exchange opens on the  *)
(* end and closes by putting a token nobody has seen in its place, and no  *)
(* token is traded in twice.  A family may lose its end at any time, by a  *)
(* revocation or by a detected replay; unless an exchange of it was open   *)
(* by then, it has lost it for good.                                       *)
(***************************************************************************)
EXTENDS Naturals

VARIABLES
    given,    \* the tokens that exist or ever existed
    end,      \* end[f]: the one usable refresh token of family f, if any
    trading,  \* trading[f]: the refresh token being traded in, if any
    spent     \* the refresh tokens traded in

vars == <<given, end, trading, spent>>

Put(map, f, t) == [g \in DOMAIN map \cup {f} |-> IF g = f THEN t ELSE map[g]]
Drop(map, f) == [g \in DOMAIN map \ {f} |-> map[g]]

Nothing == [f \in {} |-> 0]

Init == given \in SUBSET Nat /\ end = Nothing /\ trading = Nothing /\ spent = {}

\* A token nobody has seen.
Draw(t) == t \notin given /\ given' = given \cup {t}

\* A grant starts a family, named by its first refresh token.
Begin(t) ==
    /\ Draw(t)
    /\ end' = Put(end, t, t)
    /\ UNCHANGED <<trading, spent>>

\* An access token.
Give(t) == Draw(t) /\ UNCHANGED <<end, trading, spent>>

Open(f) ==
    /\ f \notin DOMAIN trading
    /\ trading' = Put(trading, f, end[f])
    /\ UNCHANGED <<given, end, spent>>

\* The successor takes the end's place, and also that of an end lost meanwhile.
Close(f, t) ==
    /\ Draw(t)
    /\ end' = Put(end, f, t)
    /\ trading' = Drop(trading, f)
    /\ spent' = spent \cup {trading[f]}

Revoke(f) == end' = Drop(end, f) /\ UNCHANGED <<given, trading, spent>>

Next ==
    \/ \E t \in given' :
        \/ Begin(t) \/ Give(t)
        \/ \E f \in DOMAIN trading : Close(f, t)
    \/ \E f \in DOMAIN end : Open(f) \/ Revoke(f)

Spec == Init /\ [][Next]_vars

-----------------------------------------------------------------------------
(* What follows from it. *)

\* A family that has lost its end while no exchange of it was open stays
\* without one.
LostForGood ==
    [][\A f \in given \ (DOMAIN end \cup DOMAIN trading) :
          f \notin DOMAIN end' \cup DOMAIN trading']_vars

\* A token that was traded in is neither an end again nor traded again, and
\* what is being traded is the family's end as long as it has one.
TradedOnce ==
    /\ \A f \in DOMAIN end : end[f] \notin spent
    /\ \A f \in DOMAIN trading :
        /\ trading[f] \notin spent
        /\ f \in DOMAIN end => end[f] = trading[f]
=============================================================================
