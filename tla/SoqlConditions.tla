--------------------------- MODULE SoqlConditions ---------------------------
(***************************************************************************)
(* The conditions of WHERE and HAVING as trees (internal/soql/executor.go, *)
(* buildConditionFilter): the Selects of SoqlExecutor.  A module of its    *)
(* own because it is recursive.                                            *)
(***************************************************************************)
EXTENDS SoqlFilter

RECURSIVE buildConditionFilter(_, _)
\* buildConditionFilter and buildLogicalFilter applied to a record.
buildConditionFilter(c, record) ==
    CASE c.kind = "comparison" -> buildComparisonFilter(c, getFieldValue(record, c.field))
      [] c.kind = "in" -> buildInFilter(c, getFieldValue(record, c.field))
      [] c.kind = "not" -> ~buildConditionFilter(c.condition, record)
      [] c.kind = "logical" ->
            IF c.operator = "AND"
            THEN buildConditionFilter(c.left, record) /\ buildConditionFilter(c.right, record)
            ELSE buildConditionFilter(c.left, record) \/ buildConditionFilter(c.right, record)

\* buildFilter: no clause selects every record.
buildFilter(where, record) == where = <<>> \/ buildConditionFilter(where[1], record)
=============================================================================
