----------------------------- MODULE MCClients -----------------------------
(* One of three machines runs in a behaviour: calls for images and videos, *)
(* runs of the photo command with the images they call for, or calls of    *)
(* the LLM adapter.                                                        *)
EXTENDS PhotoLibrary, ResponseCache

CONSTANTS j1, j2, ann, bea, tom, q1, q2, q3

(* One call for an image or a video, and one for an image beside it. *)

Calls == ({j1} \X {"image", "video"} \X BOOLEAN) \cup ({j2} \X {"image"} \X BOOLEAN)

(* Ann and Bea look alike but for their age; Tom is alone. *)

Look(gender, age) ==
    [gender |-> gender, ethnicity |-> "Asian", age |-> age, hairColor |-> "Black",
     glasses |-> FALSE, hairStyle |-> "short", build |-> "slim"]
Looks(p) == Look(IF p = tom THEN "Male" ELSE "Female", IF p = bea THEN "40-50" ELSE "20-30")
Lists == {<<ann, tom>>, <<bea>>}

(* q2 is near q1 and q3, which are not near each other. *)

Near(p, q) == IF p = q THEN 100 ELSE IF q2 \in {p, q} THEN 96 ELSE 92

VARIABLE machine
mcVars == <<machine, clientVars, photoVars, cacheVars>>

MCInit ==
    /\ machine \in {"client", "photos", "cache"}
    /\ ClientInit /\ PhotoInit /\ CacheInit

MCNext ==
    /\ UNCHANGED machine
    /\ \/ machine = "client" /\ ClientNext /\ UNCHANGED <<photoVars, cacheVars>>
       \/ machine = "photos" /\ PhotoNext /\ UNCHANGED cacheVars
       \/ machine = "cache" /\ CacheNext /\ UNCHANGED <<clientVars, photoVars>>

MCSpec == MCInit /\ [][MCNext]_mcVars /\ ClientFairness

TypeOK == ClientTypeOK /\ PhotoTypeOK /\ CacheTypeOK
=============================================================================
