-------------------------- MODULE DescribeFields --------------------------
(***************************************************************************)
(* How the field tables of the describe are written down.  A field is its  *)
(* name, type, the types it refers to and its access: what may be done     *)
(* with it.  Labels and lengths are left out; a field is sortable exactly  *)
(* when it is filterable.                                                  *)
(***************************************************************************)

Optional == {"nillable", "updateable", "createable", "filterable"}
Free == Optional \ {"nillable"}
LongText == Optional \ {"filterable"}
OnceOptional == Optional \ {"updateable"}
Once == OnceOptional \ {"nillable"}
Renamed == {"updateable", "filterable"}
FixedOptional == {"nillable", "filterable"}
Fixed == {"filterable"}

Plain(names, type, access) ==
    {[name |-> n, type |-> type, refs |-> {}, access |-> access] : n \in names}
References(names, targets, access) ==
    {[name |-> n, type |-> "reference", refs |-> targets, access |-> access] : n \in names}
=============================================================================
