---------------------------- MODULE RecordStore ----------------------------
(***************************************************************************)
(* What a caller of store.Store may rely on, whichever store is behind it. *)
(*                                                                         *)
(* A call is one step.  A record is kept as it was created until it is     *)
(* patched, which changes the fields of the patch and no other, replaced,  *)
(* deleted or cleared.  A lookup finds a record by every indexed field it  *)
(* holds.  What else it is found by was once held under its id, since that *)
(* id was last free: the in-memory store remembers, the SQLite store does  *)
(* not.  A type that has records is among the types listed.                *)
(*                                                                         *)
(* A call that fails is no step at all.  Its caller is told, except by     *)
(* Clear, which returns nothing: that a store is empty after it is promised *)
(* of the store in memory only.                                            *)
(***************************************************************************)
EXTENDS StoreRecords

VARIABLES
    records,   \* records[t]: a partial map from id to record
    found,     \* found[t][i]: the pairs of field and value a lookup finds i by
    types      \* ObjectTypes()

promised == <<records, found, types>>

Indexed(t, record) == {p \in Holds(record) : p[1] \in indexedFields[t]}

Nothing == /\ records = [t \in Type |-> <<>>]
           /\ found = [t \in Type |-> [i \in Id |-> {}]]
           /\ types = {}

Init == Nothing

\* The record under an id becomes the given one.
Store(t, i, record) ==
    /\ records' = [records EXCEPT ![t] =
           [j \in DOMAIN records[t] \cup {i} |-> IF j = i THEN record ELSE records[t][j]]]
    /\ types' = types \cup {t}
    /\ \E pairs \in SUBSET (found[t][i] \cup Holds(record)) :
        /\ Indexed(t, record) \subseteq pairs
        /\ found' = [found EXCEPT ![t][i] = pairs]

Create(t, i, fields) == Store(t, i, [Id |-> i, fields |-> fields])

Update(t, i, patch) == i \in DOMAIN records[t] /\ Store(t, i, Merged(records[t][i], patch))

\* A type may be listed after its last record.
Delete(t, i) ==
    /\ i \in DOMAIN records[t]
    /\ records' = [records EXCEPT ![t] = [j \in DOMAIN records[t] \ {i} |-> records[t][j]]]
    /\ found' = [found EXCEPT ![t][i] = {}]
    /\ types' \in {types, IF DOMAIN records[t] = {i} THEN types \ {t} ELSE types}

Clear == Nothing'

Next ==
    \/ \E t \in Type, i \in Id :
        \/ \E fields \in Fields : Create(t, i, fields)
        \/ \E patch \in Patches : Update(t, i, patch)
        \/ Delete(t, i)
    \/ Clear

Spec == Init /\ [][Next]_promised
=============================================================================
