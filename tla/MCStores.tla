------------------------------ MODULE MCStores ------------------------------
(* The stores on a small instance: a described type with two indexed       *)
(* fields and an undescribed type without an index.                        *)
EXTENDS Stores, TLC

Types == {"FeedComment", "Vehicle"}
References == {"FeedItemId", "ParentId"}

Indexed ==
    [t \in Type |-> IF t \in DOMAIN indexedFieldsByType THEN indexedFieldsByType[t] ELSE {}]

LowerCase(t) == IF t = "Vehicle" THEN "vehicle" ELSE t

\* Ids are interchangeable, and so are strings and calls.
StoreSymmetry == Permutations(Id) \cup Permutations(Value) \cup Permutations(Call)
=============================================================================
