---------------------------- MODULE SoqlExecutor ----------------------------
(***************************************************************************)
(* Executing a SOQL query (internal/soql/executor.go, aggregate.go) for a  *)
(* client that reads page after page, while other requests write.          *)
(*                                                                         *)
(* The store is read more than once in a query and the lock is released in *)
(* between: once for the selected records, once per row for a relationship *)
(* field, once per parent for a subquery.  One action is what happens up   *)
(* to the next of these reads.  store.Query returns records in any order   *)
(* and sort.Slice is not stable: every order the comparison allows may     *)
(* come out.                                                               *)
(*                                                                         *)
(* Two object types are queried, a parent and its child (Account and Case: *)
(* AccountId is the child's fk).  A value is [t, n, text]: its Go type, its *)
(* number or NotNumber, and the words %v prints, which is what the code    *)
(* compares for equality.  A record is a function from the fields it holds; *)
(* a relationship field is the value in a nested object, not held if there *)
(* is none.  LIMIT is <<>> or <<n>>.                                       *)
(***************************************************************************)
EXTENDS Integers, Sequences, FiniteSets, FiniteSetsExt, SequencesExt, Functions, TLC

CONSTANTS
    Parent, Child,      \* record ids
    ChildRecord,        \* the records a client may store as children
    ParentName,         \* names a parent may have
    Request,            \* the queries of the client
    Selects(_, _),      \* Selects(where, record): the WHERE or HAVING filter
    Printed(_),         \* the words of an integer
    PrintedFloat(_),    \* the words of a float64
    Rank(_),            \* the place of a text among all texts, as strings order them
    MaxWrites           \* bound: writes of other requests

\* Clauses of a query that cut its answer: OFFSET and LIMIT.
Cuts(q) == q.offset \in Int /\ q.limit \in Seq(Int) /\ Len(q.limit) <= 1

\* The store is finite.
ASSUME SoqlConstants ==
    /\ IsFiniteSet(Child) /\ IsFiniteSet(Parent)
    /\ \A q \in Request : /\ q.kind \in {"records", "nested", "aggregate"}
                          /\ Cuts(q) /\ Cuts(q.sub)
                          /\ q.groupBy \in Seq(Range(q.groupBy))

VARIABLES
    children,   \* the stored child records, a partial map from id
    parents,    \* the stored parents, a partial map from id to name
    request,    \* the query being executed
    offset,     \* the offset of the page being read
    pc,         \* "fetch", "project", "subquery", "respond" or "done"
    snapshot,   \* the records selected for this page
    rows,       \* the ids (or aggregate rows) of this page, in order
    shown,      \* for each row so far: the relationship value, the child ids
                \* or (only for the properties) the ids of the records grouped
    seen,       \* the rows of the pages read before
    written     \* the records other requests wrote meanwhile

store == <<children, parents, written>>
query == <<request, offset, pc, snapshot, rows, shown, seen>>
vars == <<store, query>>

-----------------------------------------------------------------------------
(* Values and their comparison. *)

NotNumber == -1
Nil == [t |-> "nil", n |-> NotNumber, text |-> <<"<nil>">>]
Int_(n) == [t |-> "int", n |-> n, text |-> Printed(n)]
Float(n) == [t |-> "float", n |-> n, text |-> PrintedFloat(n)]
Str(words, n) == [t |-> "string", n |-> n, text |-> words]

\* getFieldValue: a field that a record does not hold is nil.
getFieldValue(r, f) == IF f \in DOMAIN r THEN r[f] ELSE Nil

\* valuesEqual: by what %v prints, a nil equal to a nil only.
valuesEqual(a, b) == IF a = Nil \/ b = Nil THEN a = b ELSE a.text = b.text

\* A condition that asks for records by the name of their parent; it selects
\* by the nested object (getFieldValue).
AsksForName(where) ==
    /\ where # <<>> /\ where[1].kind = "comparison" /\ where[1].operator = "="
    /\ where[1].field = "Account.Name" /\ where[1].value # Nil

ASSUME SelectionByName ==
    \A q \in Request, r \in ChildRecord :
        AsksForName(q.where) /\ Selects(q.where, r)
            => valuesEqual(getFieldValue(r, "Account.Name"), q.where[1].value)

\* Texts have places among all texts, and values that are compared by number
\* have one: what an aggregate takes the extreme of.
ASSUME ValuesCompare ==
    \A q \in Request : \A x \in DOMAIN q.aggregates :
        q.aggregates[x].function \in {"MIN", "MAX"} =>
            \A r \in ChildRecord :
                LET v == getFieldValue(r, q.aggregates[x].field)
                IN  v # Nil => v.n \in Int /\ Rank(v.text) \in Int

\* compareLess and compareGreater: types are not mixed, but for a float64
\* field and an int literal.
Comparable(a, b) ==
    \/ a.t = b.t /\ a.t \in {"int", "float", "string"}
    \/ a.t = "float" /\ b.t = "int"
compareLess(a, b) ==
    /\ Comparable(a, b)
    /\ IF a.t = "string" THEN Rank(a.text) < Rank(b.text) ELSE a.n < b.n
compareGreater(a, b) ==
    /\ Comparable(a, b)
    /\ IF a.t = "string" THEN Rank(a.text) > Rank(b.text) ELSE a.n > b.n

\* A bug: <= and >= leave the bound out.
compareStrict(a, op, b) ==
    CASE op = "="  -> valuesEqual(a, b)
      [] op = "!=" -> ~valuesEqual(a, b)
      [] op \in {"<", "<="} -> compareLess(a, b)
      [] op \in {">", ">="} -> compareGreater(a, b)

\* compare, for the operators that order values.
compare(a, op, b) ==
    CASE op = "="  -> valuesEqual(a, b)
      [] op = "!=" -> ~valuesEqual(a, b)
      [] op = "<"  -> compareLess(a, b)
      [] op = "<=" -> compareLess(a, b) \/ valuesEqual(a, b)
      [] op = ">"  -> compareGreater(a, b)
      [] op = ">=" -> compareGreater(a, b) \/ valuesEqual(a, b)

-----------------------------------------------------------------------------
(* ORDER BY, OFFSET and LIMIT. *)

\* Does the comparison of x and y stop at this key?
Decides(key, x, y) ==
    LET a == getFieldValue(x, key.field)
        b == getFieldValue(y, key.field)
    IN  ~(a = Nil /\ b = Nil) /\ (a = Nil \/ b = Nil \/ ~valuesEqual(a, b))

\* Is x before y by this key?  Nulls are first in ascending order and last in
\* descending order unless the query says; descending is not-less.
KeyLess(key, x, y) ==
    LET a == getFieldValue(x, key.field)
        b == getFieldValue(y, key.field)
        nullsFirst == IF key.nulls = "default" THEN ~key.descending ELSE key.nulls = "FIRST"
    IN  IF a = Nil THEN nullsFirst
        ELSE IF b = Nil THEN ~nullsFirst
        ELSE IF key.descending THEN ~compareLess(a, b) ELSE compareLess(a, b)

\* The less function sortRecords hands to sort.Slice: the first key decides.
Less(orderBy, x, y) ==
    \E k \in DOMAIN orderBy :
        /\ Decides(orderBy[k], x, y)
        /\ \A m \in 1 .. k - 1 : ~Decides(orderBy[m], x, y)
        /\ KeyLess(orderBy[k], x, y)

\* Does sort.Slice know how to sort R by this comparison?
Consistent(orderBy, R) ==
    /\ \A x, y \in R : Less(orderBy, x, y) => ~Less(orderBy, y, x)
    /\ \A x, y, z \in R : Less(orderBy, x, y) => Less(orderBy, x, z) \/ Less(orderBy, z, y)

\* The sequences without repetition of all of S.
Orders(S) == {s \in [1 .. Cardinality(S) -> S] : \A i, j \in DOMAIN s : s[i] = s[j] => i = j}

\* The orders sortRecords may leave the records of f in.
sortRecords(f, orderBy) ==
    {s \in Orders(DOMAIN f) :
        Consistent(orderBy, {f[i] : i \in DOMAIN f}) =>
            \A i, j \in DOMAIN s : i < j => ~Less(orderBy, f[s[j]], f[s[i]])}

\* A bug: the page starts one row late.
PageLate(s, from, limit) ==
    LET rest == IF from > 0 THEN SubSeq(s, from + 2, Len(s)) ELSE s
    IN  IF limit # <<>> /\ limit[1] < Len(rest) THEN SubSeq(rest, 1, limit[1]) ELSE rest

\* The rows after OFFSET and LIMIT; an offset that is not positive is ignored.
Page(s, from, limit) ==
    LET rest == IF from > 0 THEN SubSeq(s, from + 1, Len(s)) ELSE s
    IN  IF limit # <<>> /\ limit[1] < Len(rest) THEN SubSeq(rest, 1, limit[1]) ELSE rest

\* The slice records[:limit] of a negative limit panics.
Panics(limit) == limit # <<>> /\ limit[1] < 0

-----------------------------------------------------------------------------
(* Aggregates.  The field of one is plain: computeAggregate reads no nested *)
(* object.                                                                 *)

\* numericValue: a number, or a text that spells one.
numericValue(v) == v.n

\* A bug: numbers are compared as texts.
cmpLessText(a, b) == Rank(a.text) < Rank(b.text)

\* cmpLess: as numbers if both are, else as texts.
cmpLess(a, b) ==
    IF a.n # NotNumber /\ b.n # NotNumber THEN a.n < b.n ELSE Rank(a.text) < Rank(b.text)

\* The values of field f in R that are not null.
Given(R, f) == {i \in DOMAIN R : getFieldValue(R[i], f) # Nil}

\* aggregateExtreme over the records in the order s: the first value is
\* replaced by each later one that is less (or, for the maximum, not less).
Extreme(R, s, f, least) ==
    LET best[k \in 0 .. Len(s)] ==
            IF k = 0 THEN Nil
            ELSE LET v == getFieldValue(R[s[k]], f)
                 IN  IF v = Nil THEN best[k - 1]
                     ELSE IF best[k - 1] = Nil \/ (cmpLess(v, best[k - 1]) <=> least)
                     THEN v
                     ELSE best[k - 1]
    IN  best[Len(s)]

\* computeAggregate for the records R in the order s.  Sums are whole numbers
\* and averages come out even: the instance chooses its numbers so.
computeAggregate(a, R, s) ==
    LET value(i) == getFieldValue(R[i], a.field)
        numbers == {i \in DOMAIN R : numericValue(value(i)) # NotNumber}
        total == MapThenSumSet(LAMBDA i : value(i).n, numbers)
    IN  CASE a.function = "COUNT()" -> Int_(Cardinality(DOMAIN R))
          [] a.function = "COUNT" -> Int_(Cardinality(Given(R, a.field)))
          [] a.function = "COUNT_DISTINCT" ->
                Int_(Cardinality({value(i).text : i \in Given(R, a.field)}))
          [] a.function = "SUM" -> Int_(total)
          [] a.function = "AVG" -> IF numbers = {} THEN Nil
                                   ELSE Float(total \div Cardinality(numbers))
          [] a.function = "MIN" -> Extreme(R, s, a.field, TRUE)
          [] a.function = "MAX" -> Extreme(R, s, a.field, FALSE)

\* The key records are grouped by: the values of the fields as %v prints them
\* one after the other, a blank between them.
GroupKey(groupBy, r) ==
    FlattenSeq([k \in DOMAIN groupBy |-> getFieldValue(r, groupBy[k]).text])

\* A bug: records with a null in the fields are in no group.
groupRecordsGiven(R, groupBy) ==
    {{i \in DOMAIN R : GroupKey(groupBy, R[i]) = k}
        : k \in {GroupKey(groupBy, R[i]) :
                    i \in {j \in DOMAIN R :
                            \A x \in Range(groupBy) : getFieldValue(R[j], x) # Nil}}}

\* A bug: the first field alone makes the key.
groupRecordsByFirst(R, groupBy) ==
    {{i \in DOMAIN R : groupBy = <<>> \/ GroupKey(SubSeq(groupBy, 1, 1), R[i]) = k}
        : k \in {GroupKey(SubSeq(groupBy, 1, 1), R[i]) : i \in DOMAIN R}}

\* A bug: every record is a group of its own.
groupRecordsSingly(R, groupBy) == {{i} : i \in DOMAIN R}

\* groupRecords: the sets of ids that share a key; all of them without GROUP BY.
groupRecords(R, groupBy) ==
    IF groupBy = <<>> THEN {DOMAIN R}
    ELSE {{i \in DOMAIN R : GroupKey(groupBy, R[i]) = k}
            : k \in {GroupKey(groupBy, R[i]) : i \in DOMAIN R}}

\* The rows buildAggregateRow may make of the records R of one group: the
\* aggregates, and the other fields of SELECT, grouped by or not, as the first
\* record in the store's order holds them.
buildAggregateRow(q, R) ==
    {[x \in (IF R = <<>> THEN {} ELSE q.select) \cup DOMAIN q.aggregates |->
        IF x \in DOMAIN q.aggregates THEN computeAggregate(q.aggregates[x], R, s)
        ELSE getFieldValue(R[s[1]], x)] : s \in Orders(DOMAIN R)}

\* isBareCount: COUNT() alone.
isBareCount(q) ==
    /\ q.kind = "aggregate" /\ q.select = {} /\ q.groupBy = <<>>
    /\ \E x \in DOMAIN q.aggregates :
        DOMAIN q.aggregates = {x} /\ q.aggregates[x].function = "COUNT()"

-----------------------------------------------------------------------------
(* The query. *)

Init ==
    /\ children \in UNION {[C -> ChildRecord] : C \in SUBSET Child}
    /\ parents \in [Parent -> ParentName]
    /\ request \in Request
    /\ offset = request.offset
    /\ pc = "fetch"
    /\ snapshot = <<>> /\ rows = <<>> /\ shown = <<>> /\ seen = <<>>
    /\ written = {}

\* buildFilter: without a clause every record passes.
Passes(where, r) == where = <<>> \/ Selects(where, r)

Selected(where, R) == Restrict(R, {i \in DOMAIN R : Passes(where, R[i])})

\* Execute up to the projection: store.Query, ORDER BY, OFFSET, LIMIT.
FetchRecords ==
    /\ pc = "fetch" /\ request.kind = "records" /\ ~Panics(request.limit)
    /\ snapshot' = Selected(request.where, children)
    /\ \E s \in sortRecords(snapshot', request.orderBy) : rows' = Page(s, offset, request.limit)
    /\ pc' = "project"
    /\ UNCHANGED <<store, request, offset, shown, seen>>

\* The same for parents with a subquery; their projection reads no store.
FetchParents ==
    /\ pc = "fetch" /\ request.kind = "nested" /\ ~Panics(request.limit)
    /\ snapshot' = Selected(request.where, [i \in DOMAIN parents |-> "Name" :> parents[i]])
    /\ \E s \in sortRecords(snapshot', request.orderBy) : rows' = Page(s, offset, request.limit)
    /\ pc' = "subquery"
    /\ UNCHANGED <<store, request, offset, shown, seen>>

\* executeAggregate: groups, HAVING, ORDER BY, OFFSET, LIMIT.
FetchAggregate ==
    /\ pc = "fetch" /\ request.kind = "aggregate" /\ ~Panics(request.limit)
    /\ ~isBareCount(request)
    /\ snapshot' = Selected(request.where, children)
    /\ LET groups == groupRecords(snapshot', request.groupBy)
       IN  \E row \in [groups -> UNION {buildAggregateRow(request, Restrict(snapshot', g))
                                            : g \in groups}] :
            /\ \A g \in groups : row[g] \in buildAggregateRow(request, Restrict(snapshot', g))
            /\ LET kept == Selected(request.having, row)
               IN  \E s \in sortRecords(kept, request.orderBy) :
                    /\ shown' = Page(s, offset, request.limit)
                    /\ rows' = [k \in DOMAIN shown' |-> kept[shown'[k]]]
    /\ pc' = "respond"
    /\ UNCHANGED <<store, request, offset, seen>>

\* The bare COUNT() answers no rows: totalSize, the number of the records
\* selected, whatever the other clauses say.
FetchCount ==
    /\ pc = "fetch" /\ isBareCount(request)
    /\ snapshot' = Selected(request.where, children)
    /\ rows' = <<>>
    /\ pc' = "respond"
    /\ UNCHANGED <<store, request, offset, shown, seen>>

\* The panic of a negative LIMIT drops the connection.
Drop ==
    /\ pc = "fetch" /\ Panics(request.limit) /\ ~isBareCount(request)
    /\ pc' = "done"
    /\ UNCHANGED <<store, request, offset, snapshot, rows, shown, seen>>

\* A bug: the relationship field is always looked up by its key.
RelatedByKey(r) == IF r["AccountId"] \in DOMAIN parents THEN parents[r["AccountId"]] ELSE Nil

\* projectFields and resolveRelationshipField: the nested object of the record
\* selected before, even if it holds a null there, else the parent stored now.
Related(r) ==
    IF "Account.Name" \in DOMAIN r THEN r["Account.Name"]
    ELSE IF r["AccountId"] \in DOMAIN parents THEN parents[r["AccountId"]] ELSE Nil

ProjectRow ==
    /\ pc = "project" /\ Len(shown) < Len(rows)
    /\ shown' = Append(shown, Related(snapshot[rows[Len(shown) + 1]]))
    /\ UNCHANGED <<store, request, offset, pc, snapshot, rows, seen>>

\* A bug: a child without a parent is nested under every one.
OwnOrNone(parent) == {i \in DOMAIN children : children[i]["AccountId"] \in {parent, Nil}}

\* The children whose key names this parent.
Own(parent) == {i \in DOMAIN children : children[i]["AccountId"] = parent}

\* executeSubQuery for the next parent.
SubQueryRow ==
    /\ pc = "subquery" /\ Len(shown) < Len(rows)
    /\ request.sub.known /\ ~Panics(request.sub.limit)
    /\ LET sub == request.sub
           own == Restrict(children, Own(rows[Len(shown) + 1]))
       IN  \E s \in sortRecords(Selected(sub.where, own), sub.orderBy) :
            shown' = Append(shown, Page(s, sub.offset, sub.limit))
    /\ UNCHANGED <<store, request, offset, pc, snapshot, rows, seen>>

\* An unknown relationship is an error, and a negative LIMIT panics, but only
\* where there is a parent.
SubQueryError ==
    /\ pc = "subquery" /\ Len(shown) < Len(rows)
    /\ ~request.sub.known \/ Panics(request.sub.limit)
    /\ pc' = "done"
    /\ UNCHANGED <<store, request, offset, snapshot, rows, shown, seen>>

\* The answer.  A client that limits its pages asks for the next one until a
\* page is empty.
Respond ==
    /\ \/ pc \in {"project", "subquery"} /\ Len(shown) = Len(rows)
       \/ pc = "respond"
    /\ seen' = seen \o rows
    /\ IF rows # <<>> /\ request.limit # <<>>
       THEN /\ pc' = "fetch"
            /\ offset' = offset + request.limit[1]
            /\ snapshot' = <<>> /\ rows' = <<>> /\ shown' = <<>>
       ELSE pc' = "done" /\ UNCHANGED <<offset, snapshot, rows, shown>>
    /\ UNCHANGED <<store, request>>

Writing(id) ==
    /\ pc # "done" /\ Cardinality(written \cup {id}) <= MaxWrites
    /\ written' = written \cup {id}
    /\ UNCHANGED query

\* A bug: an update keeps only the field it sets.
WriteChildPartly ==
    \E i \in DOMAIN children :
        /\ Writing(i)
        /\ children' = [children EXCEPT ![i] = Restrict(@, {"AccountId"})]
        /\ UNCHANGED parents

\* Another request creates, overwrites or deletes a record.
WriteChild ==
    \E i \in Child :
        /\ Writing(i)
        /\ \/ \E r \in ChildRecord :
                children' = [j \in DOMAIN children \cup {i} |-> IF j = i THEN r ELSE children[j]]
           \/ i \in DOMAIN children /\ children' = Restrict(children, DOMAIN children \ {i})
        /\ UNCHANGED parents

WriteParent ==
    \E i \in DOMAIN parents :
        /\ Writing(i)
        /\ \/ \E name \in ParentName : parents' = [parents EXCEPT ![i] = name]
           \/ parents' = Restrict(parents, DOMAIN parents \ {i})
        /\ UNCHANGED children

Next ==
    \/ FetchRecords \/ FetchParents \/ FetchAggregate \/ FetchCount \/ Drop
    \/ ProjectRow \/ SubQueryRow \/ SubQueryError \/ Respond
    \/ WriteChild \/ WriteParent

Spec == Init /\ [][Next]_vars

-----------------------------------------------------------------------------
(* Properties. *)

\* The values each variable may take.
TypeOK ==
    /\ DOMAIN children \subseteq Child /\ Range(children) \subseteq ChildRecord
    /\ DOMAIN parents \subseteq Parent /\ Range(parents) \subseteq ParentName
    /\ request \in Request /\ offset \in Int
    /\ pc \in {"fetch", "project", "subquery", "respond", "done"}
    /\ written \subseteq Child \cup Parent
    /\ Len(shown) <= Len(rows)

\* Is the order of the selected records decided by the query alone?
TotalOrder(orderBy, R) ==
    /\ Consistent(orderBy, Range(R))
    /\ \A i, j \in DOMAIN R : i # j => Less(orderBy, R[i], R[j]) \/ Less(orderBy, R[j], R[i])

\* Reading page after page loses no row and repeats none, though every page is
\* fetched and sorted anew by an unstable sort, as long as ORDER BY leaves no
\* ties and nobody writes (Execute's ORDER BY, OFFSET and LIMIT).  A negative
\* OFFSET counts as none, but the client adds the pages to it.
PagesPartition ==
    LET all == Selected(request.where, children)
        start == request.offset
    IN  /\ pc = "done" /\ request.kind = "records" /\ written = {} /\ start >= 0
        /\ ~Panics(request.limit) /\ TotalOrder(request.orderBy, all)
        /\ request.limit # <<>> => request.limit[1] > 0
        => /\ seen \in Orders(Range(seen)) /\ Range(seen) \subseteq DOMAIN all
           /\ Len(seen) = IF start > Cardinality(DOMAIN all) THEN 0
                          ELSE Cardinality(DOMAIN all) - start

\* A row selected because its parent has a name shows that name, whatever is
\* written between the selection and the projection (getFieldValue and
\* projectFields read the same nested object; one selected because its parent
\* has none may show one, which projectFields looks up).
SelectedNameIsShown ==
    pc = "project" /\ AsksForName(request.where) =>
        \A k \in DOMAIN shown : valuesEqual(shown[k], request.where[1].value)

\* An answer nests each child once, under the parent its key names, and
\* misplaces at most the records written while it was put together
\* (executeSubQuery, one store.Query per parent).
NestedOnce ==
    LET sub == request.sub
    IN  /\ pc = "subquery" /\ Len(shown) = Len(rows) /\ sub.known
        /\ sub.offset <= 0 /\ sub.limit = <<>>
        => \A i \in DOMAIN children \ written :
            LET listed == {l \in (DOMAIN rows) \X (1 .. Cardinality(Child)) :
                            l[2] \in DOMAIN shown[l[1]] /\ shown[l[1]][l[2]] = i}
            IN  /\ Cardinality(listed) <= 1
                /\ (\E l \in listed : TRUE) <=>
                    /\ children[i]["AccountId"] \in Range(rows)
                    /\ Passes(sub.where, children[i])
                /\ \A l \in listed : rows[l[1]] = children[i]["AccountId"]

\* Every selected record is in exactly one row of a grouped answer that nothing
\* cuts, and the counts of the rows add up (groupRecords, computeAggregate).
GroupsCoverSelection ==
    /\ pc = "respond" /\ ~isBareCount(request)
    /\ request.having = <<>> /\ request.limit = <<>> /\ offset <= 0
    => /\ \A i \in DOMAIN snapshot : \E k \in DOMAIN shown :
            \A m \in DOMAIN shown : i \in shown[m] <=> m = k
       /\ \A x \in DOMAIN request.aggregates :
            request.aggregates[x].function = "COUNT()" =>
                Cardinality(UNION {{k} \X (1 .. rows[k][x].n) : k \in DOMAIN rows})
                    = Cardinality(DOMAIN snapshot)

\* The words a record is grouped by.
GroupedBy(i) ==
    [x \in Range(request.groupBy) |-> getFieldValue(snapshot[i], x).text]

\* Does row k show record i's values of the fields that are both selected and
\* grouped by, as %v prints them?
ShowsOwn(k, i) ==
    \A x \in (Range(request.groupBy) \cap request.select) \ DOMAIN request.aggregates :
        rows[k][x].text = GroupedBy(i)[x]

\* A row shows the values its records are grouped by.  The exception is a group
\* by several fields (groupRecords, the hash): a record whose words, one field
\* after the other, are those of another record is in that one's row, though
\* the words divide differently among the fields.  Records that agree on every
\* field are in one row.
GroupsShowTheirOwn ==
    pc = "respond" /\ request.groupBy # <<>> =>
        \A k \in DOMAIN shown :
            /\ \E first \in shown[k] :
                /\ ShowsOwn(k, first)
                /\ \A i \in shown[k] :
                    \/ ShowsOwn(k, i)
                    \/ /\ Len(request.groupBy) > 1
                       /\ GroupKey(request.groupBy, snapshot[i])
                            = GroupKey(request.groupBy, snapshot[first])
            /\ \A m \in DOMAIN shown \ {k} : \A i \in shown[k], j \in shown[m] :
                GroupedBy(i) # GroupedBy(j)

\* No value of a group is beyond the MIN or MAX its row shows, in whatever order
\* the store gives the records, where the values are all numbers or all texts
\* (aggregateExtreme, cmpLess).
ExtremesBound ==
    pc = "respond" =>
        \A k \in DOMAIN shown : \A x \in DOMAIN request.aggregates :
            LET a == request.aggregates[x]
                values == {getFieldValue(snapshot[i], a.field) :
                            i \in Given(Restrict(snapshot, shown[k]), a.field)}
                numeric == \A v \in values : v.n # NotNumber
                textual == \A v \in values : v.n = NotNumber
                ordered(v, w) == IF numeric THEN v.n <= w.n ELSE Rank(v.text) <= Rank(w.text)
            IN  a.function \in {"MIN", "MAX"} /\ (numeric \/ textual) =>
                    \A v \in values : IF a.function = "MIN" THEN ordered(rows[k][x], v)
                                      ELSE ordered(v, rows[k][x])

\* The parts of an answer that are read from the store at different times
\* agree with one another, writes in between or not.
ReadsAgree == SelectedNameIsShown /\ NestedOnce

\* The rows of a grouped answer account for the records selected: each record
\* is in one row, within its extremes, and the row shows the values it is
\* grouped by, but for records whose words run together alike.
GroupsAccount == GroupsCoverSelection /\ GroupsShowTheirOwn /\ ExtremesBound
=============================================================================
