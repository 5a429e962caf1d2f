---------------------------- MODULE OneTimeCode ----------------------------
(***************************************************************************)
(* What the authorization_code flow promises of every code it issues: it   *)
(* is open once, and then exactly one of granted (one token response),     *)
(* refused (an exchange consumed it and failed) or void (the server        *)
(* restarted first), for good.                                             *)
(***************************************************************************)
EXTENDS Naturals

CONSTANT MaxCode    \* bound on the codes issued

VARIABLE status     \* status[c]: what became of code c

Statuses == {"none", "open", "granted", "refused", "void"}

Init == status = [c \in 1..MaxCode |-> "none"]

Issue(c) == status[c] = "none" /\ status' = [status EXCEPT ![c] = "open"]
Grant(c) == status[c] = "open" /\ status' = [status EXCEPT ![c] = "granted"]
Refuse(c) == status[c] = "open" /\ status' = [status EXCEPT ![c] = "refused"]

\* The codes of one process all become void together.
Forget ==
    status' = [c \in 1..MaxCode |->
                 IF status[c] = "open" THEN "void" ELSE status[c]]

Next == (\E c \in 1..MaxCode : Issue(c) \/ Grant(c) \/ Refuse(c)) \/ Forget

Spec == Init /\ [][Next]_status
=============================================================================
