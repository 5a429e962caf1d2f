----------------------------- MODULE SoqlProofs -----------------------------
(***************************************************************************)
(* Theorems about the execution of queries (SoqlExecutor), about what a    *)
(* comparison divides (SoqlFilter) and about the date literals (SoqlDates).*)
(*                                                                         *)
(* A query keeps four invariants: of the type of what it has fetched       *)
(* (SelectInv), of the pages a client has seen (PageInv), of what was read *)
(* at different times (ReadsInv), and of the groups behind the rows of an  *)
(* answer (GroupInv).                                                      *)
(*                                                                         *)
(* PageInv rests on the place of a record, one more than the number of the *)
(* records that ORDER BY puts before it: when there are no ties every sort *)
(* of the same records puts it there, so pages that are sorted anew fit    *)
(* together.  An aggregate's extreme is what a scan of the records keeps,  *)
(* which is proved through the least record at which it could go wrong.    *)
(* A literal on weeks, months, quarters or years is a range between two    *)
(* starts of units, counted from the current one.                          *)
(***************************************************************************)
EXTENDS SoqlFilter, SoqlDates, FiniteSetTheorems, SequenceTheorems, TLAPS

-----------------------------------------------------------------------------
(* Pages and orders.                                                       *)

\* A page of a sequence is the part of it after the offset, cut to the limit.
LEMMA PageOf ==
    ASSUME NEW S, NEW s \in Seq(S), NEW from \in Int, NEW limit \in Seq(Int),
           Len(limit) <= 1, ~Panics(limit)
    PROVE  LET skip == IF from > 0 THEN from ELSE 0
               rest == IF skip > Len(s) THEN 0 ELSE Len(s) - skip
           IN  /\ Page(s, from, limit) \in Seq(S)
               /\ Len(Page(s, from, limit)) =
                    IF limit # <<>> /\ limit[1] < rest THEN limit[1] ELSE rest
               /\ \A k \in DOMAIN Page(s, from, limit) :
                    skip + k \in DOMAIN s /\ Page(s, from, limit)[k] = s[skip + k]
<1> DEFINE skip == IF from > 0 THEN from ELSE 0
           left == IF skip > Len(s) THEN 0 ELSE Len(s) - skip
<1>1. PICK rest : rest = IF from > 0 THEN SubSeq(s, from + 1, Len(s)) ELSE s
    OBVIOUS
<1>2. /\ rest \in Seq(S) /\ Len(rest) = left
      /\ \A k \in 1 .. left : skip + k \in 1 .. Len(s) /\ rest[k] = s[skip + k]
  <2>1. CASE from <= 0
    BY <1>1, <2>1
  <2>2. CASE from > 0 /\ from <= Len(s)
    BY <1>1, <2>2, SubSeqProperties
  <2>3. CASE from > Len(s)
    BY <1>1, <2>3
  <2> QED
    BY <2>1, <2>2, <2>3
<1>3. Page(s, from, limit) =
        IF limit # <<>> /\ limit[1] < Len(rest) THEN SubSeq(rest, 1, limit[1]) ELSE rest
    BY <1>1 DEF Page
<1>4. limit # <<>> => limit[1] \in Nat
    BY DEF Panics
<1>5. CASE limit # <<>> /\ limit[1] < Len(rest)
  <2>1. PICK p : p = SubSeq(rest, 1, limit[1])
    OBVIOUS
  <2>2. p \in Seq(S) /\ Len(p) = limit[1] /\ \A k \in 1 .. limit[1] : p[k] = rest[k]
    BY <1>2, <1>4, <1>5, <2>1, SubSeqProperties
  <2> QED
    BY <1>2, <1>3, <1>4, <1>5, <2>1, <2>2
<1>6. CASE ~(limit # <<>> /\ limit[1] < Len(rest))
  <2>1. Page(s, from, limit) = rest
    BY <1>3, <1>6
  <2>2. ~(limit # <<>> /\ limit[1] < left)
    BY <1>2, <1>6
  <2>3. DOMAIN rest = 1 .. left
    BY <1>2
  <2> QED
    BY <1>2, <2>1, <2>2, <2>3
<1> QED
    BY <1>5, <1>6
\* An order of a finite set goes through each of its elements once.
LEMMA OrderOf ==
    ASSUME NEW S, IsFiniteSet(S), NEW s \in Orders(S)
    PROVE  /\ s \in Seq(S) /\ Len(s) = Cardinality(S) /\ Cardinality(S) \in Nat
           /\ \A i, j \in DOMAIN s : s[i] = s[j] => i = j
           /\ \A x \in S : \E i \in DOMAIN s : s[i] = x
<1> DEFINE n == Cardinality(S)
<1>1. n \in Nat
    BY FS_CardinalityType
<1> HIDE DEF n
<1>2. s \in [1 .. n -> S] /\ \A i, j \in 1 .. n : s[i] = s[j] => i = j
    BY DEF Orders, n
<1>3. s \in Injection(1 .. n, S)
    BY <1>2 DEF Injection, IsInjective
<1>4. Cardinality(1 .. n) = n
    BY <1>1, FS_Interval
<1>5. s \in Surjection(1 .. n, S)
    BY <1>3, <1>4, FS_Injection DEF n
<1>6. \A x \in S : \E i \in 1 .. n : s[i] = x
    BY <1>5 DEF Surjection
<1>7. s \in Seq(S) /\ Len(s) = n
    BY <1>1, <1>2
<1> QED
    BY <1>1, <1>2, <1>6, <1>7 DEF n

\* The records of R that an ORDER BY without ties puts before record i.
Place(orderBy, R, i) == Cardinality({j \in DOMAIN R : Less(orderBy, R[j], R[i])}) + 1

\* However the sort goes about it, a record comes out at its place.
LEMMA SortedInPlace ==
    ASSUME NEW orderBy, NEW R, IsFiniteSet(DOMAIN R), TotalOrder(orderBy, R),
           NEW s \in sortRecords(R, orderBy), NEW i \in DOMAIN s
    PROVE  Place(orderBy, R, s[i]) = i
<1> DEFINE Before(x, y) == Less(orderBy, R[x], R[y])
           T == {j \in DOMAIN R : Before(j, s[i])}
<1>1. /\ s \in Seq(DOMAIN R) /\ i \in 1 .. Len(s)
      /\ \A k, m \in DOMAIN s : s[k] = s[m] => k = m
      /\ \A x \in DOMAIN R : \E k \in DOMAIN s : s[k] = x
    BY OrderOf DEF sortRecords
<1>2. /\ \A x, y \in DOMAIN R : Before(x, y) => ~Before(y, x)
      /\ \A x, y \in DOMAIN R : x # y => Before(x, y) \/ Before(y, x)
    BY DEF TotalOrder, Consistent, Range
<1>3. \A k, m \in DOMAIN s : k < m => ~Before(s[m], s[k])
    BY DEF sortRecords, TotalOrder, Range
<1> HIDE DEF Before
<1>4. \A k \in 1 .. Len(s) : s[k] \in DOMAIN R
    BY <1>1
<1>5. \A k \in 1 .. Len(s) : Before(s[k], s[i]) <=> k \in 1 .. i - 1
  <2> SUFFICES ASSUME NEW k \in 1 .. Len(s)
               PROVE  Before(s[k], s[i]) <=> k \in 1 .. i - 1
    OBVIOUS
  <2>1. CASE k < i
    BY <1>1, <1>2, <1>3, <1>4, <2>1
  <2>2. CASE k = i
    BY <1>1, <1>2, <1>4, <2>2
  <2>3. CASE k > i
    BY <1>1, <1>3, <2>3
  <2> QED
    BY <1>1, <2>1, <2>2, <2>3
<1> DEFINE f == [k \in 1 .. i - 1 |-> s[k]]
<1>6. f \in [1 .. i - 1 -> T] /\ \A k, m \in 1 .. i - 1 : f[k] = f[m] => k = m
    BY <1>1, <1>4, <1>5
<1>7. \A x \in T : \E k \in 1 .. i - 1 : f[k] = x
    BY <1>1, <1>4, <1>5
<1> HIDE DEF f, T
<1>8. f \in Bijection(1 .. i - 1, T)
    BY <1>6, <1>7 DEF Bijection, Injection, IsInjective, Surjection
<1>9. IsFiniteSet(1 .. i - 1) /\ Cardinality(1 .. i - 1) = i - 1
  <2>1. PICK b \in Nat : b = i - 1
    BY <1>1
  <2>2. IsFiniteSet(1 .. b) /\ Cardinality(1 .. b) = b
    BY FS_Interval
  <2> QED
    BY <2>1, <2>2
<1>10. Cardinality(T) = i - 1
    BY <1>8, <1>9, FS_Bijection DEF ExistsBijection
<1> QED
    BY <1>1, <1>10 DEF Place, T, Before
-----------------------------------------------------------------------------
(* The type.                                                               *)

\* What is fetched at each point of a query.
FetchedInv ==
    /\ rows \in Seq(Range(rows)) /\ shown \in Seq(Range(shown))
    /\ pc = "fetch" => shown = <<>>
    /\ pc = "project" =>
        /\ request.kind = "records" /\ rows \in Seq(DOMAIN snapshot)
        /\ \A i \in DOMAIN snapshot :
            snapshot[i] \in ChildRecord /\ Passes(request.where, snapshot[i])
    /\ pc = "subquery" =>
        /\ request.kind = "nested" /\ rows \in Seq(Parent)
        /\ \A k, m \in DOMAIN rows : rows[k] = rows[m] => k = m
    /\ pc = "respond" => request.kind = "aggregate"

\* The invariant of a query.
SelectInv == TypeOK /\ FetchedInv

\* A sequence is one of its own elements.
LEMMA OwnElements ==
    ASSUME NEW S, NEW s \in Seq(S)
    PROVE  s \in Seq(Range(s)) /\ Len(s) \in Nat /\ DOMAIN s = 1 .. Len(s)
<1>1. s \in [1 .. Len(s) -> S] /\ Len(s) \in Nat
    OBVIOUS
<1>2. s \in [1 .. Len(s) -> Range(s)]
    BY <1>1 DEF Range
<1> QED
    BY <1>1, <1>2

\* What the assumption says of OFFSET and LIMIT.
LEMMA CutsOf ==
    ASSUME NEW q \in Request
    PROVE  /\ q.offset \in Int /\ q.limit \in Seq(Int) /\ Len(q.limit) <= 1
           /\ q.sub.offset \in Int /\ q.sub.limit \in Seq(Int) /\ Len(q.sub.limit) <= 1
    BY SoqlConstants DEF Cuts

\* What is selected are records that were there, and finitely many.
LEMMA SelectedOf ==
    ASSUME NEW where, NEW R, IsFiniteSet(DOMAIN R)
    PROVE  /\ DOMAIN Selected(where, R) \subseteq DOMAIN R
           /\ IsFiniteSet(DOMAIN Selected(where, R))
           /\ \A i \in DOMAIN Selected(where, R) :
                Selected(where, R)[i] = R[i] /\ Passes(where, R[i])
<1>1. DOMAIN Selected(where, R) = {i \in DOMAIN R : Passes(where, R[i])}
    BY DEF Selected, Restrict
<1>2. IsFiniteSet(DOMAIN Selected(where, R))
    BY <1>1, FS_Subset
<1> QED
    BY <1>1, <1>2 DEF Selected, Restrict

\* The store is finite.
LEMMA FiniteStore ==
    ASSUME TypeOK
    PROVE  IsFiniteSet(DOMAIN children) /\ IsFiniteSet(DOMAIN parents)
    BY SoqlConstants, FS_Subset DEF TypeOK

\* The groups of finitely many records are finitely many.
LEMMA GroupsFinite ==
    ASSUME NEW R, IsFiniteSet(DOMAIN R), NEW groupBy
    PROVE  IsFiniteSet(groupRecords(R, groupBy))
<1>1. groupRecords(R, groupBy) \subseteq SUBSET DOMAIN R
    BY DEF groupRecords
<1>2. IsFiniteSet(SUBSET DOMAIN R)
    BY FS_SUBSET
<1> QED
    BY <1>1, <1>2, FS_Subset

\* Nobody has written or read at the start.
LEMMA SelectInitially == Init => SelectInv
<1> SUFFICES ASSUME Init PROVE SelectInv
    OBVIOUS
<1>1. DOMAIN children \subseteq Child /\ Range(children) \subseteq ChildRecord
    BY DEF Init, Range
<1>2. DOMAIN parents \subseteq Parent /\ Range(parents) \subseteq ParentName
    BY DEF Init, Range
<1>3. FetchedInv
    BY DEF Init, FetchedInv
<1> QED
    BY <1>1, <1>2, <1>3, CutsOf DEF Init, SelectInv, TypeOK

\* Fetching a page keeps the types.
LEMMA FetchRecordsStep ==
    ASSUME SelectInv, FetchRecords
    PROVE  SelectInv'
<1>1. IsFiniteSet(DOMAIN children) /\ request \in Request /\ offset \in Int
    BY FiniteStore DEF SelectInv, TypeOK
<1>2. PICK R : R = Selected(request.where, children)
    OBVIOUS
<1>3. /\ DOMAIN R \subseteq DOMAIN children /\ IsFiniteSet(DOMAIN R)
      /\ \A i \in DOMAIN R : R[i] = children[i] /\ Passes(request.where, R[i])
    BY <1>1, <1>2, SelectedOf
<1>4. PICK s \in sortRecords(R, request.orderBy) : rows' = Page(s, offset, request.limit)
    BY <1>2 DEF FetchRecords
<1>5. s \in Seq(DOMAIN R)
    BY <1>3, <1>4, OrderOf DEF sortRecords
<1>6. rows' \in Seq(DOMAIN R)
    BY <1>1, <1>4, <1>5, CutsOf, PageOf DEF FetchRecords
<1>7. rows' \in Seq(Range(rows')) /\ Len(rows') \in Nat
    BY <1>6, OwnElements
<1>8. \A i \in DOMAIN R : R[i] \in ChildRecord
    BY <1>3 DEF SelectInv, TypeOK, Range
<1>9. snapshot' = R /\ pc' = "project" /\ shown' = shown /\ shown = <<>>
      /\ UNCHANGED <<children, parents, written, request, offset>>
      /\ request.kind = "records"
    BY <1>2 DEF FetchRecords, store, SelectInv, FetchedInv
<1>10. shown' \in Seq(Range(shown')) /\ Len(shown') = 0
    BY <1>9
<1> QED
    BY <1>3, <1>6, <1>7, <1>8, <1>9, <1>10 DEF SelectInv, TypeOK, FetchedInv

\* So does fetching parents.
LEMMA FetchParentsStep ==
    ASSUME SelectInv, FetchParents
    PROVE  SelectInv'
<1>1. /\ IsFiniteSet(DOMAIN parents) /\ DOMAIN parents \subseteq Parent
      /\ request \in Request /\ offset \in Int
    BY FiniteStore DEF SelectInv, TypeOK
<1>2. PICK R : R = [i \in DOMAIN parents |-> "Name" :> parents[i]]
    OBVIOUS
<1>3. PICK P : P = Selected(request.where, R)
    OBVIOUS
<1>4. IsFiniteSet(DOMAIN P) /\ DOMAIN P \subseteq Parent
  <2>1. DOMAIN R = DOMAIN parents
    BY <1>2
  <2> QED
    BY <1>1, <1>3, <2>1, SelectedOf
<1>5. PICK s \in sortRecords(P, request.orderBy) : rows' = Page(s, offset, request.limit)
    BY <1>2, <1>3 DEF FetchParents
<1>6. s \in Seq(DOMAIN P) /\ \A k, m \in DOMAIN s : s[k] = s[m] => k = m
    BY <1>4, <1>5, OrderOf DEF sortRecords
<1>7. PICK skip : skip = IF offset > 0 THEN offset ELSE 0
    OBVIOUS
<1>8. /\ rows' \in Seq(DOMAIN P)
      /\ \A k \in DOMAIN rows' : skip + k \in DOMAIN s /\ rows'[k] = s[skip + k]
    BY <1>1, <1>5, <1>6, <1>7, CutsOf, PageOf DEF FetchParents
<1>9. rows' \in Seq(Range(rows')) /\ Len(rows') \in Nat /\ DOMAIN rows' = 1 .. Len(rows')
    BY <1>8, OwnElements
<1>10. \A k, m \in DOMAIN rows' : rows'[k] = rows'[m] => k = m
    BY <1>1, <1>6, <1>7, <1>8, <1>9
<1>11. rows' \in Seq(Parent)
    BY <1>4, <1>8, <1>9
<1>12. pc' = "subquery" /\ shown' = shown /\ shown = <<>> /\ request.kind = "nested"
      /\ UNCHANGED <<children, parents, written, request, offset>>
    BY DEF FetchParents, store, SelectInv, FetchedInv
<1>13. shown' \in Seq(Range(shown')) /\ Len(shown') = 0
    BY <1>12
<1> QED
    BY <1>9, <1>10, <1>11, <1>12, <1>13 DEF SelectInv, TypeOK, FetchedInv

\* A grouped answer: the rows kept of some groups, a page of their order.
Answer(R, row, s) ==
    LET kept == Selected(request.having, row)
    IN  /\ DOMAIN row = groupRecords(R, request.groupBy)
        /\ \A g \in DOMAIN row : row[g] \in buildAggregateRow(request, Restrict(R, g))
        /\ s \in sortRecords(kept, request.orderBy)
        /\ shown' = Page(s, offset, request.limit)
        /\ rows' = [k \in DOMAIN shown' |-> kept[shown'[k]]]

\* executeAggregate makes such an answer.
LEMMA AnswerMade ==
    ASSUME FetchAggregate
    PROVE  \E row, s : Answer(Selected(request.where, children), row, s)
<1> DEFINE old == groupRecords(snapshot', request.groupBy)
           shapes == UNION {buildAggregateRow(request, Restrict(snapshot', g)) : g \in old}
<1> HIDE DEF shapes
<1>1. \E row \in [old -> shapes] :
        /\ \A g \in old : row[g] \in buildAggregateRow(request, Restrict(snapshot', g))
        /\ \E s \in sortRecords(Selected(request.having, row), request.orderBy) :
            /\ shown' = Page(s, offset, request.limit)
            /\ rows' = [k \in DOMAIN shown' |-> Selected(request.having, row)[shown'[k]]]
    BY DEF FetchAggregate, shapes
<1>2. \E row, s : Answer(snapshot', row, s)
  <2>1. PICK row \in [old -> shapes] :
            /\ \A g \in old : row[g] \in buildAggregateRow(request, Restrict(snapshot', g))
            /\ \E s \in sortRecords(Selected(request.having, row), request.orderBy) :
                /\ shown' = Page(s, offset, request.limit)
                /\ rows' = [k \in DOMAIN shown' |-> Selected(request.having, row)[shown'[k]]]
    BY <1>1
  <2>2. PICK s \in sortRecords(Selected(request.having, row), request.orderBy) :
            /\ shown' = Page(s, offset, request.limit)
            /\ rows' = [k \in DOMAIN shown' |-> Selected(request.having, row)[shown'[k]]]
    BY <2>1
  <2>3. DOMAIN row = old
    BY <2>1
  <2> HIDE DEF old
  <2> QED
    BY <2>1, <2>2, <2>3 DEF Answer, old
<1>3. snapshot' = Selected(request.where, children)
    BY DEF FetchAggregate
<1> QED
    BY <1>2, <1>3

\* The rows of an answer are those of different groups of the records.
LEMMA AnswerOf ==
    ASSUME NEW R, IsFiniteSet(DOMAIN R), request \in Request, offset \in Int,
           ~Panics(request.limit), NEW row, NEW s, Answer(R, row, s)
    PROVE  LET groups == groupRecords(R, request.groupBy)
           IN  /\ shown' \in Seq(groups) /\ rows' \in Seq(Range(rows'))
               /\ DOMAIN rows' = DOMAIN shown' /\ Len(rows') = Len(shown')
               /\ \A k \in DOMAIN shown' :
                    rows'[k] \in buildAggregateRow(request, Restrict(R, shown'[k]))
               /\ \A k, m \in DOMAIN shown' : shown'[k] = shown'[m] => k = m
               /\ request.having = <<>> /\ request.limit = <<>> /\ offset <= 0
                    => \A g \in groups : \E k \in DOMAIN shown' : shown'[k] = g
<1>1. PICK groups : groups = groupRecords(R, request.groupBy)
    OBVIOUS
<1>2. PICK kept : kept = Selected(request.having, row)
    OBVIOUS
<1>3. PICK shows : shows = shown'
    OBVIOUS
<1>4. PICK lines : lines = rows'
    OBVIOUS
<1>5. /\ DOMAIN row = groups /\ s \in sortRecords(kept, request.orderBy)
      /\ \A g \in groups : row[g] \in buildAggregateRow(request, Restrict(R, g))
      /\ shows = Page(s, offset, request.limit)
      /\ lines = [k \in DOMAIN shows |-> kept[shows[k]]]
    BY <1>1, <1>2, <1>3, <1>4 DEF Answer
<1>6. IsFiniteSet(groups)
    BY <1>1, GroupsFinite
<1>7. /\ DOMAIN kept \subseteq groups /\ IsFiniteSet(DOMAIN kept)
      /\ \A g \in DOMAIN kept : kept[g] = row[g]
    BY <1>2, <1>5, <1>6, SelectedOf
<1>8. /\ s \in Seq(DOMAIN kept)
      /\ \A k, m \in DOMAIN s : s[k] = s[m] => k = m
      /\ \A g \in DOMAIN kept : \E k \in DOMAIN s : s[k] = g
    BY <1>5, <1>7, OrderOf DEF sortRecords
<1>9. PICK skip \in Int : skip = IF offset > 0 THEN offset ELSE 0
    OBVIOUS
<1>10. /\ shows \in Seq(DOMAIN kept)
       /\ \A k \in DOMAIN shows : skip + k \in DOMAIN s /\ shows[k] = s[skip + k]
    BY <1>5, <1>8, <1>9, CutsOf, PageOf
<1>11. DOMAIN shows = 1 .. Len(shows) /\ Len(shows) \in Nat
    BY <1>10
<1>12. DOMAIN lines = DOMAIN shows
    BY <1>5
<1>13. lines \in Seq(Range(lines)) /\ Len(lines) = Len(shows)
  <2>1. lines \in [1 .. Len(shows) -> Range(lines)]
    BY <1>5, <1>11, <1>12 DEF Range
  <2> QED
    BY <1>11, <2>1
<1>14. \A k \in DOMAIN shows :
        shows[k] \in groups /\ lines[k] \in buildAggregateRow(request, Restrict(R, shows[k]))
  <2> SUFFICES ASSUME NEW k \in DOMAIN shows
               PROVE  /\ shows[k] \in groups
                      /\ lines[k] \in buildAggregateRow(request, Restrict(R, shows[k]))
    OBVIOUS
  <2>1. shows[k] \in DOMAIN kept
    BY <1>10
  <2>2. lines[k] = row[shows[k]] /\ shows[k] \in groups
    BY <1>5, <1>7, <2>1
  <2> QED
    BY <1>5, <2>2
<1>15. \A k, m \in DOMAIN shows : shows[k] = shows[m] => k = m
    BY <1>8, <1>10, <1>11
<1>16. ASSUME request.having = <<>>, request.limit = <<>>, offset <= 0, NEW g \in groups
       PROVE  \E k \in DOMAIN shows : shows[k] = g
  <2>1. shows = s
    BY <1>5, <1>16 DEF Page
  <2>2. g \in DOMAIN kept
    BY <1>2, <1>5, <1>16 DEF Selected, Passes, Restrict
  <2> QED
    BY <1>8, <2>1, <2>2
<1>17. shows \in Seq(groups)
    BY <1>11, <1>10, <1>14
<1> QED
    BY <1>1, <1>3, <1>4, <1>12, <1>13, <1>14, <1>15, <1>16, <1>17

\* So does grouping: a row is made of what the records of its group hold.
LEMMA FetchAggregateStep ==
    ASSUME SelectInv, FetchAggregate
    PROVE  SelectInv'
<1>1. IsFiniteSet(DOMAIN children) /\ request \in Request /\ offset \in Int
    BY FiniteStore DEF SelectInv, TypeOK
<1>2. PICK R : R = Selected(request.where, children)
    OBVIOUS
<1>3. PICK row, s : Answer(R, row, s)
    BY <1>2, AnswerMade
<1>4. IsFiniteSet(DOMAIN R) /\ ~Panics(request.limit)
    BY <1>1, <1>2, SelectedOf DEF FetchAggregate
<1>5. PICK groups : groups = groupRecords(R, request.groupBy)
    OBVIOUS
<1>6. /\ shown' \in Seq(groups) /\ rows' \in Seq(Range(rows'))
      /\ Len(rows') = Len(shown')
    BY <1>1, <1>3, <1>4, <1>5, AnswerOf
<1>7. shown' \in Seq(Range(shown')) /\ Len(shown') \in Nat
    BY <1>6, OwnElements
<1>8. pc' = "respond" /\ request.kind = "aggregate"
      /\ UNCHANGED <<children, parents, written, request, offset>>
    BY DEF FetchAggregate, store
<1> QED
    BY <1>6, <1>7, <1>8 DEF SelectInv, TypeOK, FetchedInv

\* So does the bare COUNT(), which has no rows.
LEMMA FetchCountStep ==
    ASSUME SelectInv, FetchCount
    PROVE  SelectInv'
<1>1. rows' = <<>> /\ shown' = <<>> /\ pc' = "respond" /\ request.kind = "aggregate"
      /\ UNCHANGED <<children, parents, written, request, offset>>
    BY DEF FetchCount, isBareCount, store, SelectInv, FetchedInv
<1>2. rows' \in Seq(Range(rows')) /\ shown' \in Seq(Range(shown')) /\ Len(shown') <= Len(rows')
    BY <1>1
<1> QED
    BY <1>1, <1>2 DEF SelectInv, TypeOK, FetchedInv

\* A row is shown after the rows before it.
LEMMA ShownGrows ==
    ASSUME SelectInv, pc # "fetch", NEW e, shown' = Append(shown, e), Len(shown) < Len(rows),
           UNCHANGED <<store, request, offset, pc, snapshot, rows>>
    PROVE  SelectInv'
<1>1. shown \in Seq(Range(shown)) /\ rows \in Seq(Range(rows))
    BY DEF SelectInv, FetchedInv
<1>2. shown \in Seq(Range(shown) \cup {e})
    BY <1>1
<1>3. shown' \in Seq(Range(shown) \cup {e}) /\ Len(shown') = Len(shown) + 1
    BY <1>2
<1>4. shown' \in Seq(Range(shown'))
    BY <1>3, OwnElements
<1>5. Len(shown') <= Len(rows)
  <2>1. Len(shown) \in Nat /\ Len(rows) \in Nat
    BY <1>1
  <2> QED
    BY <1>3, <2>1
<1> QED
    BY <1>4, <1>5 DEF SelectInv, TypeOK, FetchedInv, store

\* An answer adds the page to what the client has seen, or makes it leave.
LEMMA RespondStep ==
    ASSUME SelectInv, Respond
    PROVE  SelectInv'
<1>1. request \in Request /\ offset \in Int
    BY DEF SelectInv, TypeOK
<1>2. CASE rows # <<>> /\ request.limit # <<>>
  <2>1. request.limit[1] \in Int
    BY <1>1, <1>2, CutsOf
  <2>2. rows' \in Seq(Range(rows')) /\ shown' \in Seq(Range(shown')) /\ Len(shown') <= Len(rows')
    BY <1>2 DEF Respond
  <2> QED
    BY <1>1, <1>2, <2>1, <2>2 DEF Respond, SelectInv, TypeOK, FetchedInv, store
<1>3. CASE ~(rows # <<>> /\ request.limit # <<>>)
    BY <1>3 DEF Respond, SelectInv, TypeOK, FetchedInv, store
<1> QED
    BY <1>2, <1>3

\* Other requests write records of the store's kinds.
LEMMA WriteStep ==
    ASSUME SelectInv, WriteChild \/ WriteParent
    PROVE  SelectInv'
<1>1. UNCHANGED query
    BY DEF WriteChild, WriteParent, Writing
<1>2. FetchedInv'
    BY <1>1 DEF SelectInv, FetchedInv, query
<1>3. /\ DOMAIN children' \subseteq Child /\ Range(children') \subseteq ChildRecord
      /\ DOMAIN parents' \subseteq Parent /\ Range(parents') \subseteq ParentName
      /\ written' \subseteq Child \cup Parent
  <2>1. ASSUME NEW i \in Child, Writing(i), NEW r \in ChildRecord, UNCHANGED parents,
               children' = [j \in DOMAIN children \cup {i} |->
                                IF j = i THEN r ELSE children[j]]
        PROVE  <1>3!:
    BY <2>1 DEF SelectInv, TypeOK, Writing, Range
  <2>2. ASSUME NEW i \in DOMAIN children, Writing(i), UNCHANGED parents,
               children' = Restrict(children, DOMAIN children \ {i})
        PROVE  <1>3!:
    BY <2>2 DEF SelectInv, TypeOK, Writing, Range, Restrict
  <2>3. ASSUME NEW i \in DOMAIN parents, Writing(i), NEW name \in ParentName,
               UNCHANGED children, parents' = [parents EXCEPT ![i] = name]
        PROVE  <1>3!:
    BY <2>3 DEF SelectInv, TypeOK, Writing, Range
  <2>4. ASSUME NEW i \in DOMAIN parents, Writing(i), UNCHANGED children,
               parents' = Restrict(parents, DOMAIN parents \ {i})
        PROVE  <1>3!:
    BY <2>4 DEF SelectInv, TypeOK, Writing, Range, Restrict
  <2> QED
    BY <2>1, <2>2, <2>3, <2>4 DEF WriteChild, WriteParent
<1> QED
    BY <1>1, <1>2, <1>3 DEF SelectInv, TypeOK, query

\* Every step keeps the types.
LEMMA SelectStep ==
    ASSUME SelectInv, [Next]_vars
    PROVE  SelectInv'
<1>1. CASE Drop \/ SubQueryError \/ UNCHANGED vars
    BY <1>1 DEF Drop, SubQueryError, SelectInv, TypeOK, FetchedInv, vars, store, query
<1>2. CASE ProjectRow
    BY <1>2, ShownGrows DEF ProjectRow
<1>3. CASE SubQueryRow
    BY <1>3, ShownGrows DEF SubQueryRow
<1> QED
    BY <1>1, <1>2, <1>3, FetchRecordsStep, FetchParentsStep, FetchAggregateStep,
       FetchCountStep, RespondStep, WriteStep DEF Next

\* The values of the variables, for any queries, records and writes.
THEOREM SelectionTyped == Spec => []TypeOK
<1>1. SelectInv => TypeOK
    BY DEF SelectInv
<1> QED
    BY SelectInitially, SelectStep, <1>1, PTL DEF Spec

-----------------------------------------------------------------------------
(* Reading page after page.                                                *)

\* What PagesPartition supposes of a query, but for its end.
Paged ==
    /\ request.kind = "records" /\ written = {} /\ request.offset >= 0
    /\ ~Panics(request.limit) /\ (request.limit # <<>> => request.limit[1] > 0)
    /\ TotalOrder(request.orderBy, Selected(request.where, children))

\* The records with the places from + 1, from + 2, ... in the order of the query.
Run(from, s) ==
    LET all == Selected(request.where, children)
    IN  /\ s \in Seq(DOMAIN all)
        /\ \A k \in DOMAIN s : Place(request.orderBy, all, s[k]) = from + k

\* The number of records from the place first to the place last of n.
Between(first, last, n) ==
    IF n <= first THEN 0 ELSE IF last >= n THEN n - first ELSE last - first

\* While nobody writes, the client has seen the rows up to the offset, in
\* their places, and the page in hand continues them.
PageInv ==
    LET n == Cardinality(DOMAIN Selected(request.where, children))
        first == request.offset
    IN  Paged =>
        /\ pc \in {"fetch", "project", "done"} /\ offset >= first /\ Run(first, seen)
        /\ pc = "done" => Len(seen) = Between(first, n, n)
        /\ pc # "done" =>
            /\ Len(seen) = Between(first, offset, n)
            /\ request.limit = <<>> => offset = first
        /\ pc = "project" =>
            /\ Run(offset, rows)
            /\ Len(rows) = IF request.limit = <<>> THEN Between(offset, n, n)
                           ELSE Between(offset, offset + request.limit[1], n)

\* At the start the client has seen nothing.
LEMMA PagesInitially == Init => PageInv
<1> SUFFICES ASSUME Init, Paged PROVE PageInv
    BY DEF PageInv
<1>1. IsFiniteSet(DOMAIN children)
    BY SelectInitially, FiniteStore DEF SelectInv
<1>2. Cardinality(DOMAIN Selected(request.where, children)) \in Nat
    BY <1>1, SelectedOf, FS_CardinalityType
<1>3. Run(request.offset, seen)
    BY DEF Init, Run
<1> QED
    BY <1>2, <1>3, CutsOf DEF Init, PageInv, Between

\* A page that is fetched continues what was seen, however the sort went.
LEMMA FetchPage ==
    ASSUME SelectInv, PageInv, FetchRecords
    PROVE  PageInv'
<1> SUFFICES ASSUME Paged PROVE PageInv'
  <2>1. Paged' => Paged
    BY DEF FetchRecords, store, Paged
  <2> QED
    BY <2>1 DEF PageInv
<1>1. request \in Request /\ offset \in Int /\ IsFiniteSet(DOMAIN children)
    BY FiniteStore DEF SelectInv, TypeOK
<1>2. PICK all : all = Selected(request.where, children)
    OBVIOUS
<1>3. PICK n : n = Cardinality(DOMAIN all)
    OBVIOUS
<1>4. IsFiniteSet(DOMAIN all) /\ n \in Nat
    BY <1>1, <1>2, <1>3, SelectedOf, FS_CardinalityType
<1>5. PICK s \in sortRecords(all, request.orderBy) : rows' = Page(s, offset, request.limit)
    BY <1>2 DEF FetchRecords
<1>6. s \in Seq(DOMAIN all) /\ Len(s) = n
    BY <1>3, <1>4, <1>5, OrderOf DEF sortRecords
<1>7. \A k \in DOMAIN s : Place(request.orderBy, all, s[k]) = k
    BY <1>2, <1>4, <1>5, SortedInPlace DEF Paged
<1>8. /\ offset >= request.offset /\ request.offset \in Nat
      /\ request.limit # <<>> => request.limit[1] \in Nat
    BY <1>1, CutsOf DEF PageInv, Paged, FetchRecords
<1>9. PICK p : p = Page(s, offset, request.limit)
    OBVIOUS
<1>10. /\ p \in Seq(DOMAIN all)
       /\ Len(p) = IF request.limit # <<>> /\ request.limit[1] < Between(offset, n, n)
                   THEN request.limit[1] ELSE Between(offset, n, n)
       /\ \A k \in DOMAIN p : offset + k \in DOMAIN s /\ p[k] = s[offset + k]
  <2>1. PICK skip : skip = IF offset > 0 THEN offset ELSE 0
    OBVIOUS
  <2>2. PICK rest : rest = IF skip > Len(s) THEN 0 ELSE Len(s) - skip
    OBVIOUS
  <2>3. /\ p \in Seq(DOMAIN all)
        /\ Len(p) = IF request.limit # <<>> /\ request.limit[1] < rest
                    THEN request.limit[1] ELSE rest
        /\ \A k \in DOMAIN p : skip + k \in DOMAIN s /\ p[k] = s[skip + k]
    <3>1. request.limit \in Seq(Int) /\ Len(request.limit) <= 1 /\ ~Panics(request.limit)
      BY <1>1, CutsOf DEF FetchRecords
    <3> QED
      BY <1>1, <1>6, <1>9, <2>1, <2>2, <3>1, PageOf
  <2>4. skip = offset /\ rest = Between(offset, n, n)
    BY <1>1, <1>4, <1>6, <1>8, <2>1, <2>2 DEF Between
  <2> QED
    BY <2>3, <2>4
<1>11. \A k \in DOMAIN p : Place(request.orderBy, all, p[k]) = offset + k
    BY <1>7, <1>10
<1>12. Len(p) = IF request.limit = <<>> THEN Between(offset, n, n)
                ELSE Between(offset, offset + request.limit[1], n)
    BY <1>1, <1>4, <1>8, <1>10 DEF Between
<1>13. /\ rows' = p /\ pc' = "project" /\ pc = "fetch"
       /\ UNCHANGED <<children, parents, written, request, offset, seen>>
    BY <1>5, <1>9 DEF FetchRecords, store
<1>14. Run(offset, rows)' /\ (Run(request.offset, seen) => Run(request.offset, seen)')
    BY <1>2, <1>10, <1>11, <1>13 DEF Run
<1> QED
    BY <1>2, <1>3, <1>12, <1>13, <1>14 DEF PageInv

\* A page that is answered is added to what was seen, and the last one ends it.
LEMMA RespondPage ==
    ASSUME SelectInv, PageInv, Respond
    PROVE  PageInv'
<1> SUFFICES ASSUME Paged PROVE PageInv'
  <2>1. Paged' => Paged
    BY DEF Respond, store, Paged
  <2> QED
    BY <2>1 DEF PageInv
<1>1. request \in Request /\ offset \in Int /\ IsFiniteSet(DOMAIN children)
    BY FiniteStore DEF SelectInv, TypeOK
<1>2. PICK all : all = Selected(request.where, children)
    OBVIOUS
<1>3. PICK n : n = Cardinality(DOMAIN all)
    OBVIOUS
<1>4. n \in Nat
    BY <1>1, <1>2, <1>3, SelectedOf, FS_CardinalityType
<1>5. PICK first : first = request.offset
    OBVIOUS
<1>6. /\ offset >= first /\ first \in Nat /\ pc = "project"
      /\ request.limit # <<>> => request.limit[1] \in Nat \ {0}
      /\ request.limit = <<>> => offset = first
    BY <1>1, <1>5, CutsOf DEF PageInv, Paged, Respond
<1>7. /\ seen \in Seq(DOMAIN all) /\ rows \in Seq(DOMAIN all)
      /\ \A k \in DOMAIN seen : Place(request.orderBy, all, seen[k]) = first + k
      /\ \A k \in DOMAIN rows : Place(request.orderBy, all, rows[k]) = offset + k
      /\ Len(seen) = Between(first, offset, n)
      /\ Len(rows) = IF request.limit = <<>> THEN Between(offset, n, n)
                     ELSE Between(offset, offset + request.limit[1], n)
    BY <1>2, <1>3, <1>5, <1>6 DEF PageInv, Run
<1>8. PICK all2 : all2 = seen \o rows
    OBVIOUS
<1>9. /\ all2 \in Seq(DOMAIN all) /\ Len(all2) = Len(seen) + Len(rows)
      /\ \A k \in 1 .. Len(seen) + Len(rows) :
            all2[k] = IF k <= Len(seen) THEN seen[k] ELSE rows[k - Len(seen)]
    BY <1>7, <1>8, ConcatProperties
<1>10. rows = <<>> <=> Len(rows) = 0
    BY <1>7
<1>11. rows # <<>> => Len(seen) = offset - first
    BY <1>1, <1>4, <1>6, <1>7, <1>10 DEF Between
<1>12. \A k \in DOMAIN all2 : Place(request.orderBy, all, all2[k]) = first + k
  <2> SUFFICES ASSUME NEW k \in 1 .. Len(seen) + Len(rows)
               PROVE  Place(request.orderBy, all, all2[k]) = first + k
    BY <1>9
  <2>1. CASE k <= Len(seen)
    <3>1. k \in DOMAIN seen /\ all2[k] = seen[k]
      BY <1>7, <1>9, <2>1
    <3> QED
      BY <1>7, <3>1
  <2>2. CASE k > Len(seen)
    <3>1. k - Len(seen) \in DOMAIN rows /\ rows # <<>>
      BY <1>7, <2>2
    <3>2. Place(request.orderBy, all, rows[k - Len(seen)]) = offset + (k - Len(seen))
      BY <1>7, <3>1
    <3> QED
      BY <1>1, <1>6, <1>7, <1>9, <1>11, <2>2, <3>1, <3>2
  <2> QED
    BY <1>7, <2>1, <2>2
<1>13. seen' = all2 /\ UNCHANGED <<children, parents, written, request>>
    BY <1>8 DEF Respond, store
<1>14. Run(request.offset, seen)'
    BY <1>2, <1>5, <1>9, <1>12, <1>13 DEF Run
<1>15. CASE rows # <<>> /\ request.limit # <<>>
  <2>1. pc' = "fetch" /\ offset' = offset + request.limit[1]
    BY <1>15 DEF Respond
  <2>2. Len(all2) = Between(first, offset', n)
    BY <1>1, <1>4, <1>6, <1>7, <1>9, <1>10, <1>11, <1>15, <2>1 DEF Between
  <2>3. offset' >= first
    BY <1>1, <1>6, <1>15, <2>1
  <2> QED
    BY <1>2, <1>3, <1>5, <1>13, <1>14, <1>15, <2>1, <2>2, <2>3 DEF PageInv
<1>16. CASE ~(rows # <<>> /\ request.limit # <<>>)
  <2>1. pc' = "done" /\ offset' = offset
    BY <1>16 DEF Respond
  <2>2. Len(all2) = Between(first, n, n)
    <3>1. CASE request.limit = <<>>
      BY <1>1, <1>4, <1>6, <1>7, <1>9, <3>1 DEF Between
    <3>2. CASE request.limit # <<>>
      BY <1>1, <1>4, <1>6, <1>7, <1>9, <1>10, <1>16, <3>2 DEF Between
    <3> QED
      BY <3>1, <3>2
  <2> QED
    BY <1>2, <1>3, <1>5, <1>6, <1>13, <1>14, <2>1, <2>2 DEF PageInv
<1> QED
    BY <1>15, <1>16

\* Every step keeps the pages in line.
LEMMA PageStep ==
    ASSUME SelectInv, PageInv, [Next]_vars
    PROVE  PageInv'
<1>1. CASE FetchParents \/ FetchAggregate \/ FetchCount \/ Drop
    BY <1>1 DEF FetchParents, FetchAggregate, FetchCount, isBareCount, Drop, PageInv, Paged, store
<1>2. CASE SubQueryRow \/ SubQueryError
    BY <1>2 DEF SubQueryRow, SubQueryError, PageInv, Paged, store
<1>3. CASE ProjectRow \/ UNCHANGED vars
    BY <1>3 DEF ProjectRow, PageInv, Paged, Run, vars, store, query
<1>4. CASE WriteChild \/ WriteParent
  <2>1. written' # {}
    BY <1>4 DEF WriteChild, WriteParent, Writing
  <2> QED
    BY <2>1 DEF PageInv, Paged
<1> QED
    BY <1>1, <1>2, <1>3, <1>4, FetchPage, RespondPage DEF Next

\* Whatever the number of records, the order and the size of the pages: a
\* client that reads to the end has read every row once, if ORDER BY leaves no
\* ties and nobody writes (Execute).
THEOREM PagesDoPartition == Spec => []PagesPartition
<1>1. SelectInv /\ PageInv => PagesPartition
  <2> SUFFICES ASSUME SelectInv, PageInv, Paged, pc = "done"
               PROVE  LET all == Selected(request.where, children)
                      IN  /\ seen \in Orders(Range(seen)) /\ Range(seen) \subseteq DOMAIN all
                          /\ Len(seen) = IF request.offset > Cardinality(DOMAIN all) THEN 0
                                         ELSE Cardinality(DOMAIN all) - request.offset
    BY DEF PagesPartition, Paged
  <2>1. PICK all : all = Selected(request.where, children)
    OBVIOUS
  <2>2. IsFiniteSet(DOMAIN all) /\ Cardinality(DOMAIN all) \in Nat
    BY <2>1, FiniteStore, SelectedOf, FS_CardinalityType DEF SelectInv
  <2>3. request.offset \in Int
    BY CutsOf DEF SelectInv, TypeOK
  <2>4. /\ seen \in Seq(DOMAIN all)
        /\ \A k \in DOMAIN seen : Place(request.orderBy, all, seen[k]) = request.offset + k
        /\ Len(seen) = Between(request.offset, Cardinality(DOMAIN all), Cardinality(DOMAIN all))
    BY <2>1 DEF PageInv, Run
  <2>5. \A k, m \in 1 .. Len(seen) : seen[k] = seen[m] => k = m
    BY <2>3, <2>4
  <2>6. seen \in [1 .. Len(seen) -> Range(seen)]
    BY <2>4, OwnElements
  <2>7. \A x \in Range(seen) : \E k \in 1 .. Len(seen) : seen[k] = x
    BY <2>4 DEF Range
  <2>8. seen \in Bijection(1 .. Len(seen), Range(seen))
    BY <2>5, <2>6, <2>7 DEF Bijection, Injection, IsInjective, Surjection
  <2>9. IsFiniteSet(1 .. Len(seen)) /\ Cardinality(1 .. Len(seen)) = Len(seen)
    <3>1. PICK l \in Nat : l = Len(seen)
      BY <2>4
    <3>2. IsFiniteSet(1 .. l) /\ Cardinality(1 .. l) = l
      BY FS_Interval
    <3> QED
      BY <3>1, <3>2
  <2>10. Cardinality(Range(seen)) = Len(seen)
    BY <2>8, <2>9, FS_Bijection DEF ExistsBijection
  <2>11. seen \in Orders(Range(seen))
    BY <2>5, <2>6, <2>10 DEF Orders
  <2>12. Range(seen) \subseteq DOMAIN all
    BY <2>4, <2>7
  <2> QED
    BY <2>1, <2>2, <2>3, <2>4, <2>11, <2>12 DEF Between
<1> QED
    BY SelectInitially, SelectStep, PagesInitially, PageStep, <1>1, PTL DEF Spec

-----------------------------------------------------------------------------
(* What is read at different times.                                        *)

\* A subquery that nests all the children it finds.
NestsAll == request.sub.known /\ request.sub.offset <= 0 /\ request.sub.limit = <<>>

\* The children nested so far are those of their parents, each once, but for
\* what was written since.
NestedInv ==
    pc = "subquery" /\ NestsAll =>
        /\ \A k \in DOMAIN shown : DOMAIN shown[k] \subseteq 1 .. Cardinality(Child)
        /\ \A i \in DOMAIN children \ written, k \in DOMAIN shown :
            /\ (\E m \in DOMAIN shown[k] : shown[k][m] = i) <=>
                    /\ children[i]["AccountId"] = rows[k]
                    /\ Passes(request.sub.where, children[i])
            /\ \A l, m \in DOMAIN shown[k] : shown[k][l] = i /\ shown[k][m] = i => l = m

\* What was read at different times agrees.
ReadsInv == SelectedNameIsShown /\ NestedInv

\* Appending to what is shown leaves what was shown.
LEMMA ShownAppended ==
    ASSUME FetchedInv, NEW e, shown' = Append(shown, e)
    PROVE  /\ DOMAIN shown' = DOMAIN shown \cup {Len(shown) + 1}
           /\ \A k \in DOMAIN shown : shown'[k] = shown[k]
           /\ shown'[Len(shown) + 1] = e /\ Len(shown) + 1 \notin DOMAIN shown
<1>1. shown \in Seq(Range(shown) \cup {e})
    BY DEF FetchedInv
<1> QED
    BY <1>1

\* A row selected by name shows the name it was selected by: projectFields
\* reads the object the filter read.
LEMMA ProjectReads ==
    ASSUME SelectInv, ReadsInv, ProjectRow
    PROVE  ReadsInv'
<1>1. PICK r : r = snapshot[rows[Len(shown) + 1]]
    OBVIOUS
<1>2. /\ shown' = Append(shown, Related(r)) /\ pc' = pc /\ pc = "project"
      /\ request' = request
    BY <1>1 DEF ProjectRow
<1>3. r \in ChildRecord /\ Passes(request.where, r) /\ request \in Request
  <2>1. Len(shown) \in Nat /\ Len(rows) \in Nat /\ Len(shown) < Len(rows)
    BY DEF SelectInv, FetchedInv, ProjectRow
  <2>2. rows \in Seq(DOMAIN snapshot) /\ Len(shown) + 1 \in 1 .. Len(rows)
    BY <1>2, <2>1 DEF SelectInv, FetchedInv
  <2>3. rows[Len(shown) + 1] \in DOMAIN snapshot
    BY <2>2
  <2> QED
    BY <1>1, <1>2, <2>3 DEF SelectInv, FetchedInv, TypeOK
<1>4. AsksForName(request.where) => valuesEqual(Related(r), request.where[1].value)
  <2> SUFFICES ASSUME AsksForName(request.where)
               PROVE  valuesEqual(Related(r), request.where[1].value)
    OBVIOUS
  <2>1. valuesEqual(getFieldValue(r, "Account.Name"), request.where[1].value)
    BY <1>3, SelectionByName DEF AsksForName, Passes
  <2>2. getFieldValue(r, "Account.Name") # Nil
    BY <2>1 DEF valuesEqual, AsksForName
  <2> QED
    BY <2>1, <2>2 DEF Related, getFieldValue
<1>5. SelectedNameIsShown'
    BY <1>2, <1>4, ShownAppended DEF SelectedNameIsShown, ReadsInv, SelectInv
<1> QED
    BY <1>2, <1>5 DEF ReadsInv, NestedInv

\* A parent is given the children whose key names it now; the children of other
\* parents keep their places.
LEMMA NestReads ==
    ASSUME SelectInv, ReadsInv, SubQueryRow
    PROVE  ReadsInv'
<1>1. SelectedNameIsShown'
    BY DEF SubQueryRow, SelectedNameIsShown
<1> SUFFICES ASSUME NestsAll PROVE NestedInv'
    BY <1>1 DEF SubQueryRow, store, NestedInv, NestsAll, ReadsInv
<1>2. PICK at : at = Len(shown) + 1
    OBVIOUS
<1>3. PICK own : own = Restrict(children, Own(rows[at]))
    OBVIOUS
<1>4. PICK R : R = Selected(request.sub.where, own)
    OBVIOUS
<1>5. /\ IsFiniteSet(DOMAIN children) /\ DOMAIN children \subseteq Child
      /\ request \in Request
    BY FiniteStore DEF SelectInv, TypeOK
<1>6. /\ DOMAIN own = {i \in DOMAIN children : children[i]["AccountId"] = rows[at]}
      /\ \A i \in DOMAIN own : own[i] = children[i]
    BY <1>3 DEF Own, Restrict
<1>7. IsFiniteSet(DOMAIN own)
    BY <1>5, <1>6, FS_Subset
<1>8. \A i : i \in DOMAIN R <=> /\ i \in DOMAIN children
                                /\ children[i]["AccountId"] = rows[at]
                                /\ Passes(request.sub.where, children[i])
    BY <1>4, <1>6 DEF Selected, Restrict
<1>9. IsFiniteSet(DOMAIN R) /\ DOMAIN R \subseteq Child
    BY <1>4, <1>5, <1>7, <1>8, SelectedOf
<1>10. PICK s \in sortRecords(R, request.sub.orderBy) :
         shown' = Append(shown, Page(s, request.sub.offset, request.sub.limit))
    BY <1>2, <1>3, <1>4 DEF SubQueryRow
<1>11. /\ s \in Seq(DOMAIN R) /\ Len(s) = Cardinality(DOMAIN R)
       /\ \A l, m \in DOMAIN s : s[l] = s[m] => l = m
       /\ \A i \in DOMAIN R : \E m \in DOMAIN s : s[m] = i
    BY <1>9, <1>10, OrderOf DEF sortRecords
<1>12. Page(s, request.sub.offset, request.sub.limit) = s
    BY <1>5, CutsOf DEF Page, NestsAll
<1>13. DOMAIN s \subseteq 1 .. Cardinality(Child)
    BY <1>9, <1>11, SoqlConstants, FS_Subset, FS_CardinalityType
<1>14. \A i \in DOMAIN children :
         (\E m \in DOMAIN s : s[m] = i) <=> /\ children[i]["AccountId"] = rows[at]
                                           /\ Passes(request.sub.where, children[i])
  <2>1. \A m \in DOMAIN s : s[m] \in DOMAIN R
    BY <1>11
  <2> QED
    BY <1>8, <1>11, <2>1
<1>15. /\ DOMAIN shown' = DOMAIN shown \cup {at} /\ shown'[at] = s
       /\ \A k \in DOMAIN shown : shown'[k] = shown[k]
    BY <1>2, <1>10, <1>12, ShownAppended DEF SelectInv
<1>16. pc = "subquery" /\ UNCHANGED <<children, written, request, rows>>
    BY DEF SubQueryRow, store
<1>17. /\ \A k \in DOMAIN shown' : DOMAIN shown'[k] \subseteq 1 .. Cardinality(Child)
       /\ \A i \in DOMAIN children \ written, k \in DOMAIN shown' :
            /\ (\E m \in DOMAIN shown'[k] : shown'[k][m] = i) <=>
                    /\ children[i]["AccountId"] = rows[k]
                    /\ Passes(request.sub.where, children[i])
            /\ \A l, m \in DOMAIN shown'[k] : shown'[k][l] = i /\ shown'[k][m] = i => l = m
  <2>1. \A k \in DOMAIN shown' : k = at \/ (k \in DOMAIN shown /\ shown'[k] = shown[k])
    BY <1>15
  <2>2. \A k \in DOMAIN shown' : DOMAIN shown'[k] \subseteq 1 .. Cardinality(Child)
    BY <1>13, <1>15, <1>16, <2>1 DEF ReadsInv, NestedInv
  <2>3. ASSUME NEW i \in DOMAIN children \ written, NEW k \in DOMAIN shown'
        PROVE  /\ (\E m \in DOMAIN shown'[k] : shown'[k][m] = i) <=>
                    /\ children[i]["AccountId"] = rows[k]
                    /\ Passes(request.sub.where, children[i])
               /\ \A l, m \in DOMAIN shown'[k] : shown'[k][l] = i /\ shown'[k][m] = i => l = m
    <3>1. CASE k = at
      BY <1>11, <1>14, <1>15, <3>1
    <3>2. CASE k \in DOMAIN shown /\ shown'[k] = shown[k]
      BY <1>16, <3>2 DEF ReadsInv, NestedInv
    <3> QED
      BY <2>1, <3>1, <3>2
  <2> QED
    BY <2>2, <2>3
<1> QED
    BY <1>16, <1>17 DEF NestedInv

\* What others write is among what was written.
LEMMA WriteReads ==
    ASSUME SelectInv, ReadsInv, WriteChild \/ WriteParent
    PROVE  ReadsInv'
<1>1. UNCHANGED query
    BY DEF WriteChild, WriteParent, Writing
<1>2. written \subseteq written'
    BY DEF WriteChild, WriteParent, Writing
<1>3. \A i \in DOMAIN children' \ written' :
        i \in DOMAIN children /\ children'[i] = children[i]
    BY DEF WriteChild, WriteParent, Writing, Restrict
<1>4. SelectedNameIsShown'
    BY <1>1 DEF ReadsInv, SelectedNameIsShown, query
<1>5. NestedInv'
    BY <1>1, <1>2, <1>3 DEF ReadsInv, NestedInv, NestsAll, query
<1> QED
    BY <1>4, <1>5 DEF ReadsInv

\* Every step keeps the reads in agreement.
LEMMA ReadsStep ==
    ASSUME SelectInv, ReadsInv, [Next]_vars
    PROVE  ReadsInv'
<1>1. CASE FetchRecords \/ FetchParents
  <2>1. shown' = <<>>
    BY <1>1 DEF FetchRecords, FetchParents, SelectInv, FetchedInv
  <2> QED
    BY <2>1 DEF ReadsInv, SelectedNameIsShown, NestedInv
<1>2. CASE FetchAggregate \/ FetchCount \/ Drop \/ SubQueryError \/ Respond
    BY <1>2 DEF FetchAggregate, FetchCount, Drop, SubQueryError, Respond, ReadsInv, SelectedNameIsShown, NestedInv
<1>3. CASE UNCHANGED vars
    BY <1>3 DEF ReadsInv, SelectedNameIsShown, NestedInv, NestsAll, vars, store, query
<1> QED
    BY <1>1, <1>2, <1>3, ProjectReads, NestReads, WriteReads DEF Next

\* However many requests write between the reads of a query: a row selected by
\* the name of its parent shows that name, and a child is nested under its
\* parent, once (projectFields, executeSubQuery).
THEOREM ReadsDoAgree == Spec => []ReadsAgree
<1>1. Init => ReadsInv
    BY DEF Init, ReadsInv, SelectedNameIsShown, NestedInv
<1>2. SelectInv /\ NestedInv => NestedOnce
  <2> DEFINE listed(i) == {l \in (DOMAIN rows) \X (1 .. Cardinality(Child)) :
                            l[2] \in DOMAIN shown[l[1]] /\ shown[l[1]][l[2]] = i}
             Fine(i) ==
                /\ Cardinality(listed(i)) <= 1
                /\ (\E l \in listed(i) : TRUE) <=>
                    /\ children[i]["AccountId"] \in Range(rows)
                    /\ Passes(request.sub.where, children[i])
                /\ \A l \in listed(i) : rows[l[1]] = children[i]["AccountId"]
  <2> SUFFICES ASSUME SelectInv, NestedInv, pc = "subquery", Len(shown) = Len(rows),
                      NestsAll, NEW i \in DOMAIN children \ written
               PROVE  Fine(i)
    BY DEF NestedOnce, NestsAll
  <2>1. DOMAIN shown = DOMAIN rows
    BY DEF SelectInv, FetchedInv
  <2>2. \A l \in listed(i) : /\ l = <<l[1], l[2]>> /\ l[1] \in DOMAIN rows
                          /\ l[2] \in DOMAIN shown[l[1]] /\ shown[l[1]][l[2]] = i
    OBVIOUS
  <2>3. \A l \in listed(i) : /\ rows[l[1]] = children[i]["AccountId"]
                          /\ Passes(request.sub.where, children[i])
    BY <2>1, <2>2 DEF NestedInv
  <2>4. \A l, m \in listed(i) : l = m
    <3>1. \A l, m \in listed(i) : l[1] = m[1]
      BY <2>2, <2>3 DEF SelectInv, FetchedInv
    <3>2. \A l, m \in listed(i) : l[2] = m[2]
      BY <2>1, <2>2, <3>1 DEF NestedInv
    <3> QED
      BY <2>2, <3>1, <3>2
  <2>5. Cardinality(listed(i)) <= 1
    <3>1. CASE listed(i) = {}
      <4>1. Cardinality(listed(i)) = 0
        BY <3>1, FS_EmptySet
      <4> QED
        BY <4>1
    <3>2. ASSUME NEW l \in listed(i) PROVE Cardinality(listed(i)) = 1
      <4>1. listed(i) = {l}
        BY <2>4, <3>2
      <4> QED
        BY <4>1, FS_Singleton
    <3> QED
      BY <3>1, <3>2
  <2>6. ASSUME children[i]["AccountId"] \in Range(rows),
               Passes(request.sub.where, children[i])
        PROVE  \E l \in listed(i) : TRUE
    <3>1. PICK k \in DOMAIN rows : rows[k] = children[i]["AccountId"]
      BY <2>6 DEF Range
    <3>2. PICK m \in DOMAIN shown[k] : shown[k][m] = i
      BY <2>1, <2>6, <3>1 DEF NestedInv
    <3>3. m \in 1 .. Cardinality(Child)
      BY <2>1, <3>1, <3>2 DEF NestedInv
    <3>4. <<k, m>> \in listed(i)
      BY <3>1, <3>2, <3>3
    <3> QED
      BY <3>4
  <2>7. ASSUME NEW l \in listed(i) PROVE children[i]["AccountId"] \in Range(rows)
    BY <2>2, <2>3, <2>7 DEF Range
  <2> QED
    BY <2>3, <2>5, <2>6, <2>7
<1>3. SelectInv /\ ReadsInv => ReadsAgree
    BY <1>2 DEF ReadsInv, ReadsAgree
<1> QED
    BY SelectInitially, SelectStep, ReadsStep, <1>1, <1>3, PTL DEF Spec

-----------------------------------------------------------------------------
(* Grouped answers.                                                        *)

\* The answer has a row for each of some groups of the records, for all of
\* them if nothing cuts it.
GroupInv ==
    pc = "respond" /\ ~isBareCount(request) =>
        LET groups == groupRecords(snapshot, request.groupBy)
        IN  /\ IsFiniteSet(DOMAIN snapshot) /\ Range(snapshot) \subseteq ChildRecord
            /\ DOMAIN shown = DOMAIN rows
            /\ \A k \in DOMAIN shown :
                /\ shown[k] \in groups
                /\ rows[k] \in buildAggregateRow(request, Restrict(snapshot, shown[k]))
            /\ \A k, m \in DOMAIN shown : shown[k] = shown[m] => k = m
            /\ request.having = <<>> /\ request.limit = <<>> /\ offset <= 0
                => \A g \in groups : \E k \in DOMAIN shown : shown[k] = g

\* executeAggregate makes such an answer.
LEMMA AggregateGroups ==
    ASSUME SelectInv, FetchAggregate
    PROVE  GroupInv'
<1>1. IsFiniteSet(DOMAIN children) /\ request \in Request /\ offset \in Int
    BY FiniteStore DEF SelectInv, TypeOK
<1>2. PICK R : R = Selected(request.where, children)
    OBVIOUS
<1>3. IsFiniteSet(DOMAIN R) /\ Range(R) \subseteq ChildRecord
  <2>1. /\ DOMAIN R \subseteq DOMAIN children /\ IsFiniteSet(DOMAIN R)
        /\ \A i \in DOMAIN R : R[i] = children[i]
    BY <1>1, <1>2, SelectedOf
  <2> QED
    BY <2>1 DEF SelectInv, TypeOK, Range
<1>4. PICK row, s : Answer(R, row, s)
    BY <1>2, AnswerMade
<1>5. PICK groups : groups = groupRecords(R, request.groupBy)
    OBVIOUS
<1>6. /\ shown' \in Seq(groups) /\ DOMAIN rows' = DOMAIN shown'
      /\ \A k \in DOMAIN shown' :
            rows'[k] \in buildAggregateRow(request, Restrict(R, shown'[k]))
      /\ \A k, m \in DOMAIN shown' : shown'[k] = shown'[m] => k = m
      /\ request.having = <<>> /\ request.limit = <<>> /\ offset <= 0
            => \A g \in groups : \E k \in DOMAIN shown' : shown'[k] = g
  <2>1. ~Panics(request.limit)
    BY DEF FetchAggregate
  <2> QED
    BY <1>1, <1>3, <1>4, <1>5, <2>1, AnswerOf
<1>7. \A k \in DOMAIN shown' : shown'[k] \in groups
    BY <1>6
<1>8. snapshot' = R /\ request' = request /\ offset' = offset
    BY <1>2 DEF FetchAggregate
<1> QED
    BY <1>3, <1>5, <1>6, <1>7, <1>8 DEF GroupInv

\* Every step keeps the rows and their groups together.
LEMMA GroupStep ==
    ASSUME SelectInv, GroupInv, [Next]_vars
    PROVE  GroupInv'
<1>1. CASE FetchAggregate
    BY <1>1, AggregateGroups
<1>2. CASE pc' # "respond" \/ FetchCount
    BY <1>2 DEF GroupInv, FetchCount
<1>3. CASE UNCHANGED query
    BY <1>3 DEF GroupInv, query
<1> QED
    BY <1>1, <1>2, <1>3 DEF Next, FetchRecords, FetchParents, Drop, ProjectRow,
       SubQueryRow, SubQueryError, Respond, WriteChild, WriteParent, Writing, vars

\* The groups are a partition of the records.
LEMMA GroupsPartition ==
    ASSUME NEW R, NEW groupBy
    PROVE  /\ \A g \in groupRecords(R, groupBy) : g \subseteq DOMAIN R
           /\ \A i \in DOMAIN R : \E g \in groupRecords(R, groupBy) : i \in g
           /\ \A g, h \in groupRecords(R, groupBy) : \A i \in g : i \in h => g = h
<1>1. CASE groupBy = <<>>
    BY <1>1 DEF groupRecords
<1>2. CASE groupBy # <<>>
  <2> DEFINE at(k) == {i \in DOMAIN R : GroupKey(groupBy, R[i]) = k}
  <2>1. \A g : g \in groupRecords(R, groupBy) <=>
            \E i \in DOMAIN R : g = at(GroupKey(groupBy, R[i]))
    BY <1>2 DEF groupRecords
  <2>2. \A i, k : i \in at(k) <=> i \in DOMAIN R /\ GroupKey(groupBy, R[i]) = k
    OBVIOUS
  <2> HIDE DEF at
  <2>3. \A g \in groupRecords(R, groupBy) : g \subseteq DOMAIN R
    BY <2>1, <2>2
  <2>4. \A i \in DOMAIN R : \E g \in groupRecords(R, groupBy) : i \in g
    BY <2>1, <2>2
  <2>5. \A g, h \in groupRecords(R, groupBy) : \A i \in g : i \in h => g = h
    BY <2>1, <2>2
  <2> QED
    BY <2>3, <2>4, <2>5
<1> QED
    BY <1>1, <1>2

\* What buildAggregateRow makes of the records of a group.
LEMMA RowOf ==
    ASSUME NEW q, NEW R, NEW row \in buildAggregateRow(q, R)
    PROVE  \E s \in Orders(DOMAIN R) :
            /\ \A x \in DOMAIN q.aggregates : row[x] = computeAggregate(q.aggregates[x], R, s)
            /\ R # <<>> => \A x \in q.select \ DOMAIN q.aggregates :
                                row[x] = getFieldValue(R[s[1]], x)
    BY DEF buildAggregateRow

\* The aggregates that the properties speak of.
LEMMA Computed ==
    ASSUME NEW a, NEW R, NEW s
    PROVE  /\ a.function = "COUNT()" => computeAggregate(a, R, s) = Int_(Cardinality(DOMAIN R))
           /\ a.function = "MIN" => computeAggregate(a, R, s) = Extreme(R, s, a.field, TRUE)
           /\ a.function = "MAX" => computeAggregate(a, R, s) = Extreme(R, s, a.field, FALSE)
    BY DEF computeAggregate

\* Each record selected is in one row, if nothing cuts the answer.
LEMMA RowOfRecord ==
    ASSUME SelectInv, GroupInv, pc = "respond", ~isBareCount(request),
           request.having = <<>>, request.limit = <<>>, offset <= 0
    PROVE  /\ \A k \in DOMAIN rows : shown[k] \subseteq DOMAIN snapshot
           /\ \A i \in DOMAIN snapshot : \E k \in DOMAIN rows : i \in shown[k]
           /\ \A k, m \in DOMAIN rows : \A i \in shown[k] : i \in shown[m] => k = m
           /\ DOMAIN shown = DOMAIN rows /\ IsFiniteSet(DOMAIN snapshot)
<1>1. PICK groups : groups = groupRecords(snapshot, request.groupBy)
    OBVIOUS
<1>2. /\ DOMAIN shown = DOMAIN rows /\ IsFiniteSet(DOMAIN snapshot)
      /\ \A k \in DOMAIN shown : shown[k] \in groups
      /\ \A k, m \in DOMAIN shown : shown[k] = shown[m] => k = m
      /\ \A g \in groups : \E k \in DOMAIN shown : shown[k] = g
    BY <1>1 DEF GroupInv
<1>3. /\ \A g \in groups : g \subseteq DOMAIN snapshot
      /\ \A i \in DOMAIN snapshot : \E g \in groups : i \in g
      /\ \A g, h \in groups : \A i \in g : i \in h => g = h
    BY <1>1, GroupsPartition
<1> QED
    BY <1>2, <1>3

\* The counts of the rows add up to the records selected.
LEMMA CountsCover == SelectInv /\ GroupInv => GroupsCoverSelection
<1> SUFFICES ASSUME SelectInv, GroupInv, pc = "respond", ~isBareCount(request),
                    request.having = <<>>, request.limit = <<>>, offset <= 0
             PROVE  /\ \A i \in DOMAIN snapshot : \E k \in DOMAIN shown :
                        \A m \in DOMAIN shown : i \in shown[m] <=> m = k
                    /\ \A x \in DOMAIN request.aggregates :
                        request.aggregates[x].function = "COUNT()" =>
                            Cardinality(UNION {{k} \X (1 .. rows[k][x].n) : k \in DOMAIN rows})
                                = Cardinality(DOMAIN snapshot)
    BY DEF GroupsCoverSelection
<1>0. \A i \in DOMAIN snapshot : \E k \in DOMAIN shown :
        \A m \in DOMAIN shown : i \in shown[m] <=> m = k
    BY RowOfRecord
<1> SUFFICES ASSUME NEW x \in DOMAIN request.aggregates,
                    request.aggregates[x].function = "COUNT()"
             PROVE  Cardinality(UNION {{k} \X (1 .. rows[k][x].n) : k \in DOMAIN rows})
                        = Cardinality(DOMAIN snapshot)
    BY <1>0
<1> DEFINE P == UNION {{k} \X (1 .. rows[k][x].n) : k \in DOMAIN rows}
<1>1. PICK G : G = shown
    OBVIOUS
<1>2. IsFiniteSet(DOMAIN snapshot)
    BY RowOfRecord
<1>3. /\ \A k \in DOMAIN rows : G[k] \subseteq DOMAIN snapshot
      /\ \A i \in DOMAIN snapshot : \E k \in DOMAIN rows : i \in G[k]
      /\ \A k, m \in DOMAIN rows : \A i \in G[k] : i \in G[m] => k = m
    BY <1>1, RowOfRecord
<1>4. \A k \in DOMAIN rows : IsFiniteSet(G[k]) /\ Cardinality(G[k]) \in Nat
    BY <1>2, <1>3, FS_Subset, FS_CardinalityType
<1>5. \A k \in DOMAIN rows : rows[k][x].n = Cardinality(G[k])
  <2> SUFFICES ASSUME NEW k \in DOMAIN rows PROVE rows[k][x].n = Cardinality(G[k])
    OBVIOUS
  <2>1. PICK s : rows[k][x] = computeAggregate(request.aggregates[x], Restrict(snapshot, G[k]), s)
    <3>1. rows[k] \in buildAggregateRow(request, Restrict(snapshot, G[k]))
      BY <1>1 DEF GroupInv
    <3> QED
      BY <3>1, RowOf
  <2>2. rows[k][x] = Int_(Cardinality(DOMAIN Restrict(snapshot, G[k])))
    BY <2>1, Computed
  <2> QED
    BY <2>2 DEF Int_, Restrict
<1>6. \A p : p \in P <=> /\ p = <<p[1], p[2]>> /\ p[1] \in DOMAIN rows
                         /\ p[2] \in 1 .. Cardinality(G[p[1]])
  <2>1. \A p : p \in P <=> \E k \in DOMAIN rows : p \in {k} \X (1 .. rows[k][x].n)
    OBVIOUS
  <2> HIDE DEF P
  <2> QED
    BY <1>5, <2>1
<1> HIDE DEF P
<1>7. \A k \in DOMAIN rows : \E b : b \in Bijection(G[k], 1 .. Cardinality(G[k]))
  <2> SUFFICES ASSUME NEW k \in DOMAIN rows
               PROVE  ExistsBijection(G[k], 1 .. Cardinality(G[k]))
    BY DEF ExistsBijection
  <2>1. PICK n \in Nat : n = Cardinality(G[k])
    BY <1>4
  <2>2. IsFiniteSet(1 .. n) /\ Cardinality(1 .. n) = n
    BY FS_Interval
  <2> QED
    BY <1>4, <2>1, <2>2, FS_SameCardinalityBij
<1>8. PICK B : \A k \in DOMAIN rows : B[k] \in Bijection(G[k], 1 .. Cardinality(G[k]))
  <2> DEFINE some(k) == CHOOSE b : b \in Bijection(G[k], 1 .. Cardinality(G[k]))
  <2>1. \A k \in DOMAIN rows : some(k) \in Bijection(G[k], 1 .. Cardinality(G[k]))
    BY <1>7, Zenon
  <2> HIDE DEF some
  <2>2. PICK B : B = [k \in DOMAIN rows |-> some(k)]
    OBVIOUS
  <2> QED
    BY <2>1, <2>2
<1>9. \A k \in DOMAIN rows :
        /\ \A i \in G[k] : B[k][i] \in 1 .. Cardinality(G[k])
        /\ \A i, j \in G[k] : B[k][i] = B[k][j] => i = j
        /\ \A m \in 1 .. Cardinality(G[k]) : \E i \in G[k] : B[k][i] = m
    BY <1>8 DEF Bijection, Injection, IsInjective, Surjection
<1>10. PICK K : \A i \in DOMAIN snapshot : K[i] \in DOMAIN rows /\ i \in G[K[i]]
  <2>1. PICK K : K = [i \in DOMAIN snapshot |-> CHOOSE k \in DOMAIN rows : i \in G[k]]
    OBVIOUS
  <2> QED
    BY <1>3, <2>1
<1>11. PICK h : h = [i \in DOMAIN snapshot |-> <<K[i], B[K[i]][i]>>]
    OBVIOUS
<1>12. h \in [DOMAIN snapshot -> P]
  <2>1. \A i \in DOMAIN snapshot : <<K[i], B[K[i]][i]>> \in P
    BY <1>6, <1>9, <1>10
  <2> QED
    BY <1>11, <2>1
<1>13. \A i, j \in DOMAIN snapshot : h[i] = h[j] => i = j
  <2>1. \A i, j \in DOMAIN snapshot : h[i] = h[j] => K[i] = K[j] /\ B[K[i]][i] = B[K[j]][j]
    BY <1>11
  <2> QED
    BY <1>9, <1>10, <2>1
<1>14. \A p \in P : \E i \in DOMAIN snapshot : h[i] = p
  <2> SUFFICES ASSUME NEW p \in P PROVE \E i \in DOMAIN snapshot : h[i] = p
    OBVIOUS
  <2>1. PICK i \in G[p[1]] : B[p[1]][i] = p[2]
    BY <1>6, <1>9
  <2>2. i \in DOMAIN snapshot /\ K[i] = p[1]
    BY <1>3, <1>6, <1>10, <2>1
  <2> QED
    BY <1>6, <1>11, <2>1, <2>2
<1>15. h \in Bijection(DOMAIN snapshot, P)
    BY <1>12, <1>13, <1>14 DEF Bijection, Injection, IsInjective, Surjection
<1> QED
    BY <1>2, <1>15, FS_Bijection DEF ExistsBijection, P

\* The words of one field alone are the key of a group by that field.
LEMMA KeyOfOne ==
    ASSUME NEW groupBy, Len(groupBy) = 1, DOMAIN groupBy = {1}, NEW r
    PROVE  GroupKey(groupBy, r) = getFieldValue(r, groupBy[1]).text
<1>1. PICK w : w = getFieldValue(r, groupBy[1]).text
    OBVIOUS
<1>2. PICK t : t = [k \in DOMAIN groupBy |-> getFieldValue(r, groupBy[k]).text]
    OBVIOUS
<1>3. t = <<w>>
    BY <1>1, <1>2
<1>4. FlattenSeq(t) = w
  <2> DEFINE Flat(f) == f = [i \in 1 .. 1 |-> IF i = 1 THEN t[i] ELSE f[i - 1] \o t[i]]
  <2>1. Len(t) = 1 /\ t[1] = w
    BY <1>3
  <2>2. FlattenSeq(t) = (CHOOSE f : Flat(f))[1]
    BY <2>1 DEF FlattenSeq
  <2>3. \E f : Flat(f)
    <3>1. Flat([i \in 1 .. 1 |-> t[i]])
      OBVIOUS
    <3> QED
      BY <3>1
  <2>4. PICK f : f = (CHOOSE g : Flat(g))
    OBVIOUS
  <2>5. Flat(f)
    BY <2>3, <2>4
  <2>6. f[1] = t[1]
    BY <2>5
  <2> QED
    BY <2>1, <2>2, <2>4, <2>6
<1> QED
    BY <1>1, <1>2, <1>4 DEF GroupKey

\* A row shows the values of its first record, and the other records of its
\* group have the key of that one; records that agree have one key.
LEMMA OwnShown == SelectInv /\ GroupInv => GroupsShowTheirOwn
<1> SUFFICES ASSUME SelectInv, GroupInv, pc = "respond", request.groupBy # <<>>,
                    NEW k \in DOMAIN shown
             PROVE  /\ \E first \in shown[k] :
                        /\ ShowsOwn(k, first)
                        /\ \A i \in shown[k] :
                            \/ ShowsOwn(k, i)
                            \/ /\ Len(request.groupBy) > 1
                               /\ GroupKey(request.groupBy, snapshot[i])
                                    = GroupKey(request.groupBy, snapshot[first])
                    /\ \A m \in DOMAIN shown \ {k} : \A i \in shown[k], j \in shown[m] :
                        GroupedBy(i) # GroupedBy(j)
    BY DEF GroupsShowTheirOwn
<1> DEFINE by == request.groupBy
           Key(i) == GroupKey(by, snapshot[i])
<1>1. ~isBareCount(request) /\ request \in Request
    BY DEF isBareCount, SelectInv, TypeOK
<1>2. by \in Seq(Range(by)) /\ Len(by) \in Nat \ {0} /\ DOMAIN by = 1 .. Len(by)
  <2>1. by \in Seq(Range(by))
    BY <1>1, SoqlConstants
  <2> QED
    BY <2>1
<1>3. PICK groups : groups = groupRecords(snapshot, by)
    OBVIOUS
<1>4. /\ IsFiniteSet(DOMAIN snapshot)
      /\ \A l \in DOMAIN shown :
            /\ shown[l] \in groups
            /\ rows[l] \in buildAggregateRow(request, Restrict(snapshot, shown[l]))
      /\ \A l, m \in DOMAIN shown : shown[l] = shown[m] => l = m
    BY <1>1, <1>3 DEF GroupInv
<1>5. ASSUME NEW g \in groups
      PROVE  /\ g \subseteq DOMAIN snapshot /\ g # {}
             /\ \A i \in g, j \in DOMAIN snapshot : j \in g <=> Key(i) = Key(j)
  <2> DEFINE at(w) == {i \in DOMAIN snapshot : Key(i) = w}
  <2>1. PICK i \in DOMAIN snapshot : g = at(Key(i))
    BY <1>3, <1>5 DEF groupRecords
  <2>2. \A j, w : j \in at(w) <=> j \in DOMAIN snapshot /\ Key(j) = w
    OBVIOUS
  <2> HIDE DEF at, Key
  <2> QED
    BY <2>1, <2>2
<1>6. ASSUME NEW i \in DOMAIN snapshot, NEW j \in DOMAIN snapshot, GroupedBy(i) = GroupedBy(j)
      PROVE  Key(i) = Key(j)
  <2>1. \A l \in DOMAIN by :
            getFieldValue(snapshot[i], by[l]).text = getFieldValue(snapshot[j], by[l]).text
    <3> SUFFICES ASSUME NEW l \in DOMAIN by
                 PROVE  getFieldValue(snapshot[i], by[l]).text
                            = getFieldValue(snapshot[j], by[l]).text
      OBVIOUS
    <3>1. by[l] \in Range(by)
      BY DEF Range
    <3>2. /\ GroupedBy(i)[by[l]] = getFieldValue(snapshot[i], by[l]).text
          /\ GroupedBy(j)[by[l]] = getFieldValue(snapshot[j], by[l]).text
      BY <3>1 DEF GroupedBy
    <3> QED
      BY <1>6, <3>2
  <2>2. [l \in DOMAIN by |-> getFieldValue(snapshot[i], by[l]).text]
            = [l \in DOMAIN by |-> getFieldValue(snapshot[j], by[l]).text]
    BY <2>1
  <2> QED
    BY <2>2 DEF GroupKey
<1>7. ASSUME NEW m \in DOMAIN shown \ {k}, NEW i \in shown[k], NEW j \in shown[m]
      PROVE  GroupedBy(i) # GroupedBy(j)
  <2>1. i \in DOMAIN snapshot /\ j \in DOMAIN snapshot
    BY <1>4, <1>5
  <2>2. j \notin shown[k]
    <3> SUFFICES ASSUME j \in shown[k] PROVE FALSE
      OBVIOUS
    <3>1. shown[k] = shown[m]
      BY <1>3, <1>4, GroupsPartition
    <3> QED
      BY <1>4, <3>1
  <2>3. Key(i) # Key(j)
    BY <1>4, <1>5, <2>1, <2>2
  <2> QED
    BY <1>6, <2>1, <2>3
<1>8. PICK R : R = Restrict(snapshot, shown[k])
    OBVIOUS
<1>9. DOMAIN R = shown[k] /\ (\A i \in shown[k] : R[i] = snapshot[i]) /\ R # <<>>
  <2>1. DOMAIN R = shown[k] /\ \A i \in shown[k] : R[i] = snapshot[i]
    BY <1>8 DEF Restrict
  <2>2. shown[k] # {}
    BY <1>4, <1>5
  <2> QED
    BY <2>1, <2>2
<1>10. PICK s \in Orders(DOMAIN R) :
        \A x \in request.select \ DOMAIN request.aggregates :
            rows[k][x] = getFieldValue(R[s[1]], x)
    BY <1>4, <1>8, <1>9, RowOf
<1>11. s[1] \in shown[k]
  <2>1. IsFiniteSet(shown[k]) /\ shown[k] # {}
    BY <1>4, <1>5, FS_Subset
  <2>2. s \in Seq(shown[k]) /\ \A i \in shown[k] : \E j \in DOMAIN s : s[j] = i
    BY <1>9, <1>10, <2>1, OrderOf
  <2> QED
    BY <2>1, <2>2
<1>12. PICK first \in shown[k] : first = s[1]
    BY <1>11
<1>13. ShowsOwn(k, first)
    BY <1>9, <1>10, <1>12 DEF ShowsOwn, GroupedBy
<1>14. ASSUME NEW i \in shown[k], ~(Len(by) > 1) PROVE ShowsOwn(k, i)
  <2>1. Len(by) = 1 /\ DOMAIN by = {1}
    <3>1. PICK n \in Nat : n = Len(by)
      BY <1>2
    <3>2. n = 1
      BY <1>2, <1>14, <3>1
    <3>3. 1 .. n = {1}
      BY <3>2
    <3> HIDE DEF by
    <3> QED
      BY <1>2, <3>1, <3>2, <3>3
  <2>2. Key(i) = Key(first)
    BY <1>4, <1>5
  <2>3. getFieldValue(snapshot[i], by[1]).text = getFieldValue(snapshot[first], by[1]).text
    BY <2>1, <2>2, KeyOfOne
  <2>4. \A x \in Range(by) : x = by[1]
    BY <2>1 DEF Range
  <2> HIDE DEF by
  <2>5. \A x \in Range(by) :
            getFieldValue(snapshot[i], x).text = getFieldValue(snapshot[first], x).text
    BY <2>3, <2>4
  <2> USE DEF by
  <2>6. \A x \in Range(by) : GroupedBy(i)[x] = GroupedBy(first)[x]
    BY <2>5 DEF GroupedBy
  <2> QED
    BY <1>13, <2>6 DEF ShowsOwn
<1>15. \A i \in shown[k] : Key(i) = Key(first)
    BY <1>4, <1>5
<1> QED
    BY <1>7, <1>13, <1>14, <1>15

\* Every set of numbers has a least one.
LEMMA Least ==
    ASSUME NEW T, T \subseteq Nat, T # {}
    PROVE  \E m \in T : \A k \in T : m <= k
<1>1. PICK m \in T : \A k \in T : ~(<<k, m>> \in OpToRel(<, Nat))
    BY NatLessThanWellFounded, WFMin
<1>2. ASSUME NEW k \in T PROVE m <= k
  <2>1. <<k, m>> \notin {ss \in Nat \X Nat : ss[1] < ss[2]}
    BY <1>1 DEF OpToRel
  <2> QED
    BY <2>1
<1> QED
    BY <1>2

\* What aggregateExtreme keeps of a value and the one kept before it.
Kept(v, w, least) ==
    IF v = Nil THEN w ELSE IF w = Nil \/ (cmpLess(v, w) <=> least) THEN v ELSE w

\* aggregateExtreme as a scan: what is kept after each record.
LEMMA ExtremeScans ==
    ASSUME NEW R, NEW s, Len(s) \in Nat, NEW f, NEW least
    PROVE  \E b : /\ b[0] = Nil
                  /\ \A k \in 1 .. Len(s) : b[k] = Kept(getFieldValue(R[s[k]], f), b[k - 1], least)
                  /\ Extreme(R, s, f, least) = b[Len(s)]
<1> DEFINE next(b, k) == IF k = 0 THEN Nil ELSE Kept(getFieldValue(R[s[k]], f), b[k - 1], least)
           Scan(b, n) == b = [k \in 0 .. n |-> next(b, k)]
<1>1. Extreme(R, s, f, least) = (CHOOSE c : Scan(c, Len(s)))[Len(s)]
    BY DEF Extreme, Kept
<1>2. \A n \in Nat : \E b : Scan(b, n)
  <2> DEFINE T == {n \in Nat : ~ \E b : Scan(b, n)}
  <2> SUFFICES ASSUME T # {} PROVE FALSE
    OBVIOUS
  <2>1. PICK n \in T : \A k \in T : n <= k
    BY Least
  <2>2. n # 0
    <3>1. Scan([k \in {0} |-> Nil], 0)
      OBVIOUS
    <3> QED
      BY <3>1
  <2>3. PICK c : Scan(c, n - 1)
    <3>1. n \in Nat /\ n - 1 \in Nat /\ ~(n <= n - 1)
      BY <2>2
    <3>2. n - 1 \notin T
      BY <2>1, <3>1
    <3> HIDE DEF Scan
    <3> QED
      BY <3>1, <3>2
  <2>4. PICK d : d = [k \in 0 .. n |-> IF k = n THEN next(c, n) ELSE c[k]]
    OBVIOUS
  <2>5. \A k \in 0 .. n - 1 : d[k] = c[k] /\ c[k] = next(c, k)
    BY <2>1, <2>2, <2>3, <2>4
  <2>6. \A k \in 0 .. n : d[k] = next(d, k)
    <3> SUFFICES ASSUME NEW k \in 0 .. n PROVE d[k] = next(d, k)
      OBVIOUS
    <3>1. CASE k = n
      <4>1. d[n - 1] = c[n - 1] /\ d[n] = next(c, n)
        BY <2>2, <2>4, <2>5
      <4> QED
        BY <2>2, <3>1, <4>1
    <3>2. CASE k # n
      <4>1. k \in 0 .. n - 1 /\ (k # 0 => k - 1 \in 0 .. n - 1)
        BY <3>2
      <4>2. d[k] = next(c, k) /\ (k # 0 => d[k - 1] = c[k - 1])
        BY <2>5, <4>1
      <4> QED
        BY <4>2
    <3> QED
      BY <3>1, <3>2
  <2>7. Scan(d, n)
    BY <2>4, <2>6
  <2> QED
    BY <2>1, <2>7
<1>3. PICK b : b = (CHOOSE c : Scan(c, Len(s)))
    OBVIOUS
<1>4. Scan(b, Len(s))
    BY <1>2, <1>3
<1>5. \A k \in 0 .. Len(s) : b[k] = next(b, k)
    BY <1>4
<1>6. Extreme(R, s, f, least) = b[Len(s)]
    BY <1>1, <1>3
<1> HIDE DEF Scan
<1>7. b[0] = Nil /\ \A k \in 1 .. Len(s) : b[k] = Kept(getFieldValue(R[s[k]], f), b[k - 1], least)
    BY <1>5
<1> QED
    BY <1>6, <1>7

\* No value is beyond the extreme of values that are all numbers or all texts.
LEMMA ExtremeBounds ==
    ASSUME NEW R, NEW s \in Seq(DOMAIN R), \A i \in DOMAIN R : \E k \in DOMAIN s : s[k] = i,
           NEW f, NEW least \in BOOLEAN, NEW numeric \in BOOLEAN,
           \A i \in Given(R, f) : /\ getFieldValue(R[i], f).n \in Int /\ Rank(getFieldValue(R[i], f).text) \in Int
                                  /\ numeric <=> getFieldValue(R[i], f).n # NotNumber
    PROVE  \A i \in Given(R, f) :
            LET v == getFieldValue(R[i], f)
                e == Extreme(R, s, f, least)
            IN  IF numeric THEN IF least THEN e.n <= v.n ELSE v.n <= e.n
                ELSE IF least THEN Rank(e.text) <= Rank(v.text)
                ELSE Rank(v.text) <= Rank(e.text)
<1> DEFINE values == {getFieldValue(R[i], f) : i \in Given(R, f)}
           size(v) == IF numeric THEN v.n ELSE Rank(v.text)
           within(v, w) == IF least THEN size(v) <= size(w) ELSE size(w) <= size(v)
<1>1. PICK b : /\ b[0] = Nil
               /\ \A k \in 1 .. Len(s) : b[k] = Kept(getFieldValue(R[s[k]], f), b[k - 1], least)
               /\ Extreme(R, s, f, least) = b[Len(s)]
    BY ExtremeScans
<1>2. /\ Nil \notin values
      /\ \A v \in values : size(v) \in Int
      /\ \A v, w \in values : cmpLess(v, w) <=> size(v) < size(w)
    BY DEF Given, cmpLess
<1>3. \A k \in 1 .. Len(s) : getFieldValue(R[s[k]], f) = Nil \/ getFieldValue(R[s[k]], f) \in values
  <2>1. \A k \in 1 .. Len(s) : s[k] \in DOMAIN R
    OBVIOUS
  <2> QED
    BY <2>1 DEF Given
<1> DEFINE Good(k) == /\ b[k] \in values \cup {Nil}
                      /\ \A j \in 1 .. k : getFieldValue(R[s[j]], f) # Nil =>
                            b[k] # Nil /\ within(b[k], getFieldValue(R[s[j]], f))
<1> HIDE DEF values, size
<1>4. \A k \in 0 .. Len(s) : Good(k)
  <2> DEFINE T == {k \in 0 .. Len(s) : ~Good(k)}
  <2> SUFFICES ASSUME T # {} PROVE FALSE
    OBVIOUS
  <2>1. PICK k \in T : \A j \in T : k <= j
    <3>1. T \subseteq Nat
      OBVIOUS
    <3> HIDE DEF T
    <3> QED
      BY <3>1, Least
  <2>2. Good(0)
    BY <1>1
  <2>3. k \in 1 .. Len(s) /\ k - 1 \in 0 .. Len(s) /\ ~Good(k)
    BY <2>2
  <2>4. Good(k - 1)
    BY <2>1, <2>3
  <2>5. b[k] = Kept(getFieldValue(R[s[k]], f), b[k - 1], least)
    BY <1>1, <2>3
  <2>6. PICK v : v = getFieldValue(R[s[k]], f)
    OBVIOUS
  <2>7. PICK w : w = b[k - 1]
    OBVIOUS
  <2>8. \A j \in 1 .. k : j \in 1 .. k - 1 \/ j = k
    BY <2>3
  <2>9. \A j \in 1 .. k : j \in 1 .. Len(s)
    BY <2>3
  <2>10. CASE v = Nil
    BY <2>3, <2>4, <2>5, <2>6, <2>7, <2>8, <2>10 DEF Kept
  <2>11. CASE v # Nil /\ w = Nil
    BY <1>2, <1>3, <2>3, <2>4, <2>5, <2>6, <2>7, <2>8, <2>11 DEF Kept
  <2>12. CASE v # Nil /\ w # Nil
    <3>1. v \in values /\ w \in values
      BY <1>3, <2>3, <2>4, <2>6, <2>7, <2>12
    <3>2. b[k] = IF cmpLess(v, w) <=> least THEN v ELSE w
      BY <2>5, <2>6, <2>7, <2>12 DEF Kept
    <3>3. b[k] \in values /\ b[k] # Nil /\ within(b[k], v) /\ within(b[k], w)
      BY <1>2, <3>1, <3>2
    <3>4. ASSUME NEW j \in 1 .. k, getFieldValue(R[s[j]], f) # Nil PROVE within(b[k], getFieldValue(R[s[j]], f))
      <4>1. CASE j = k
        BY <2>6, <3>3, <4>1
      <4>2. CASE j \in 1 .. k - 1
        <5>1. within(w, getFieldValue(R[s[j]], f))
          BY <2>4, <2>7, <3>4, <4>2
        <5>2. getFieldValue(R[s[j]], f) \in values
          BY <1>3, <2>9, <3>4
        <5> QED
          BY <1>2, <3>1, <3>3, <5>1, <5>2
      <4> QED
        BY <2>8, <4>1, <4>2
    <3> QED
      BY <2>3, <3>3, <3>4
  <2> QED
    BY <2>10, <2>11, <2>12
<1>5. \A i \in Given(R, f) : within(b[Len(s)], getFieldValue(R[i], f))
  <2> SUFFICES ASSUME NEW i \in Given(R, f) PROVE within(b[Len(s)], getFieldValue(R[i], f))
    OBVIOUS
  <2>1. PICK k \in 1 .. Len(s) : s[k] = i
    BY DEF Given
  <2>2. getFieldValue(R[i], f) # Nil /\ Good(Len(s))
    BY <1>4 DEF Given
  <2> QED
    BY <2>1, <2>2
<1> QED
    BY <1>1, <1>5 DEF size

\* A row shows the extremes of the records of its group.
LEMMA BoundsHold == SelectInv /\ GroupInv => ExtremesBound
<1> DEFINE field(x) == request.aggregates[x].field
           values(k, x) == {getFieldValue(snapshot[i], field(x)) :
                                i \in Given(Restrict(snapshot, shown[k]), field(x))}
           numeric(k, x) == \A v \in values(k, x) : v.n # NotNumber
           textual(k, x) == \A v \in values(k, x) : v.n = NotNumber
           ordered(k, x, v, w) ==
                IF numeric(k, x) THEN v.n <= w.n ELSE Rank(v.text) <= Rank(w.text)
<1> SUFFICES ASSUME SelectInv, GroupInv, pc = "respond", NEW k \in DOMAIN shown,
                    NEW x \in DOMAIN request.aggregates,
                    request.aggregates[x].function \in {"MIN", "MAX"},
                    numeric(k, x) \/ textual(k, x), NEW v \in values(k, x)
             PROVE  IF request.aggregates[x].function = "MIN" THEN ordered(k, x, rows[k][x], v)
                    ELSE ordered(k, x, v, rows[k][x])
    BY DEF ExtremesBound
<1>1. PICK a : a = request.aggregates[x]
    OBVIOUS
<1>2. ~isBareCount(request) /\ request \in Request
    BY DEF isBareCount, SelectInv, TypeOK
<1>3. PICK R : R = Restrict(snapshot, shown[k])
    OBVIOUS
<1>4. /\ shown[k] \in groupRecords(snapshot, request.groupBy)
      /\ rows[k] \in buildAggregateRow(request, R)
      /\ IsFiniteSet(DOMAIN snapshot) /\ Range(snapshot) \subseteq ChildRecord
    BY <1>2, <1>3 DEF GroupInv
<1>5. /\ DOMAIN R \subseteq DOMAIN snapshot /\ IsFiniteSet(DOMAIN R)
      /\ \A i \in DOMAIN R : R[i] = snapshot[i]
  <2>1. shown[k] \subseteq DOMAIN snapshot
    BY <1>4, GroupsPartition
  <2>2. DOMAIN R = shown[k] /\ \A i \in shown[k] : R[i] = snapshot[i]
    BY <1>3 DEF Restrict
  <2> QED
    BY <1>4, <2>1, <2>2, FS_Subset
<1>6. PICK s \in Orders(DOMAIN R) : rows[k][x] = computeAggregate(a, R, s)
    BY <1>1, <1>4, RowOf
<1>7. s \in Seq(DOMAIN R) /\ \A i \in DOMAIN R : \E l \in DOMAIN s : s[l] = i
    BY <1>5, <1>6, OrderOf
<1>8. ASSUME NEW i \in Given(R, a.field)
      PROVE  LET w == getFieldValue(R[i], a.field)
             IN  w \in values(k, x) /\ w.n \in Int /\ Rank(w.text) \in Int
  <2>1. i \in DOMAIN R /\ R[i] = snapshot[i] /\ getFieldValue(snapshot[i], a.field) # Nil
    BY <1>5 DEF Given
  <2>2. snapshot[i] \in ChildRecord
    BY <1>4, <1>5, <2>1 DEF Range
  <2>3. getFieldValue(R[i], a.field) \in values(k, x)
    BY <1>1, <1>3, <2>1
  <2> HIDE DEF values
  <2> QED
    BY <1>1, <1>2, <2>1, <2>2, <2>3, ValuesCompare
<1>9. PICK n \in BOOLEAN : n = numeric(k, x)
    OBVIOUS
<1>10. PICK least \in BOOLEAN : least = (a.function = "MIN")
    OBVIOUS
<1>11. rows[k][x] = Extreme(R, s, a.field, least)
  <2>1. CASE a.function = "MIN"
    <3>1. computeAggregate(a, R, s) = Extreme(R, s, a.field, TRUE) /\ least = TRUE
      BY <1>10, <2>1, Computed
    <3> QED
      BY <1>6, <3>1
  <2>2. CASE a.function = "MAX"
    <3>1. computeAggregate(a, R, s) = Extreme(R, s, a.field, FALSE) /\ least = FALSE
      BY <1>10, <2>2, Computed
    <3> QED
      BY <1>6, <3>1
  <2> QED
    BY <1>1, <2>1, <2>2
<1>12. PICK i \in Given(R, a.field) : v = getFieldValue(R[i], a.field)
  <2>1. PICK i \in Given(R, a.field) : v = getFieldValue(snapshot[i], a.field)
    BY <1>1, <1>3
  <2>2. R[i] = snapshot[i]
    BY <1>5, <2>1 DEF Given
  <2> QED
    BY <2>1, <2>2
<1>13. \A j \in Given(R, a.field) : n <=> getFieldValue(R[j], a.field).n # NotNumber
    BY <1>8, <1>9
<1>14. LET e == Extreme(R, s, a.field, least)
       IN  IF n THEN IF least THEN e.n <= v.n ELSE v.n <= e.n
           ELSE IF least THEN Rank(e.text) <= Rank(v.text) ELSE Rank(v.text) <= Rank(e.text)
    BY <1>7, <1>8, <1>12, <1>13, ExtremeBounds
<1> QED
    BY <1>1, <1>9, <1>10, <1>11, <1>14

\* For any records, groups and aggregates: each record selected is in one row of
\* a grouped answer, which shows the values the record is grouped by, but for
\* records whose words run together alike; the counts add up, and no value is
\* beyond the extreme its row shows (executeAggregate).
THEOREM GroupsDoAccount == Spec => []GroupsAccount
<1>1. Init => GroupInv
    BY DEF Init, GroupInv
<1>2. SelectInv /\ GroupInv => GroupsAccount
    BY CountsCover, OwnShown, BoundsHold DEF GroupsAccount
<1> QED
    BY SelectInitially, SelectStep, GroupStep, <1>1, <1>2, PTL DEF Spec

-----------------------------------------------------------------------------
(* What a condition divides.                                               *)

\* Of three operators of which exactly one holds, one holds.
LEMMA OneOfThree ==
    ASSUME NEW T, T \subseteq {"<", "=", ">"}, "<" \in T \/ "=" \in T \/ ">" \in T,
           "<" \in T => "=" \notin T /\ ">" \notin T, "=" \in T => ">" \notin T
    PROVE  Cardinality(T) = 1
<1>1. \E op : T = {op}
    OBVIOUS
<1> QED
    BY <1>1, FS_Singleton

\* The operators on a value that is no date.
LEMMA Compared ==
    ASSUME NEW a, NEW b
    PROVE  /\ compare(a, "=", b) = valuesEqual(a, b)
           /\ compare(a, "!=", b) = ~valuesEqual(a, b)
           /\ compare(a, "<", b) = compareLess(a, b)
           /\ compare(a, "<=", b) = (compareLess(a, b) \/ valuesEqual(a, b))
           /\ compare(a, ">", b) = compareGreater(a, b)
           /\ compare(a, ">=", b) = (compareGreater(a, b) \/ valuesEqual(a, b))
           /\ valuesEqual(a, b) \in BOOLEAN /\ compareLess(a, b) \in BOOLEAN
           /\ compareGreater(a, b) \in BOOLEAN
<1>1. /\ valuesEqual(a, b) \in BOOLEAN /\ compareLess(a, b) \in BOOLEAN
      /\ compareGreater(a, b) \in BOOLEAN
    BY DEF valuesEqual, compareLess, compareGreater
<1> QED
    BY <1>1 DEF compare

\* Values with an order are below, equal or above one another, others at most
\* equal as printed, and not at all where one number is printed in two ways.
LEMMA ValuesDivide ==
    ASSUME NEW r \in ChildRecord, NEW f \in DOMAIN r \ {"AccountId"}, NEW b \in LiteralValue
    PROVE  LET less == compareLess(r[f], b)
               same == valuesEqual(r[f], b)
               more == compareGreater(r[f], b)
           IN  IF Unordered(r[f], b)
               THEN ~less /\ ~more /\ (Comparable(r[f], b) => ~same)
               ELSE /\ less \/ same \/ more
                    /\ less => ~same /\ ~more
                    /\ same => ~more
<1>1. PICK a : a = r[f]
    OBVIOUS
<1>2. /\ a.n \in Int /\ b.n \in Int
      /\ a.t = "string" /\ b.t = "string" =>
            /\ Rank(a.text) \in Int /\ Rank(b.text) \in Int
            /\ Rank(a.text) = Rank(b.text) <=> a.text = b.text
      /\ {a.t, b.t} \subseteq {"int", "float"} /\ a.text = b.text => a.n = b.n
    BY <1>1, FilterConstants
<1>3. CASE ~Comparable(a, b)
    BY <1>1, <1>3 DEF Unordered, compareLess, compareGreater
<1>4. CASE Comparable(a, b)
  <2>1. /\ a # Nil /\ b # Nil
        /\ a.t = "string" => b.t = "string"
        /\ a.t # "string" => {a.t, b.t} \subseteq {"int", "float"}
    BY <1>4 DEF Comparable, Nil
  <2>2. valuesEqual(a, b) <=> a.text = b.text
    BY <2>1 DEF valuesEqual
  <2>3. CASE a.t = "string"
    <3>1. /\ compareLess(a, b) <=> Rank(a.text) < Rank(b.text)
          /\ compareGreater(a, b) <=> Rank(a.text) > Rank(b.text)
          /\ ~Unordered(a, b) /\ b.t = "string"
      BY <1>4, <2>3 DEF compareLess, compareGreater, Unordered, Comparable
    <3> QED
      BY <1>1, <1>2, <2>2, <2>3, <3>1
  <2>4. CASE a.t # "string"
    <3>1. /\ compareLess(a, b) <=> a.n < b.n
          /\ compareGreater(a, b) <=> a.n > b.n
          /\ Unordered(a, b) <=> a.n = b.n /\ a.text # b.text
          /\ a.text = b.text => a.n = b.n
      BY <1>2, <1>4, <2>1, <2>4 DEF compareLess, compareGreater, Unordered
    <3> QED
      BY <1>1, <1>2, <2>2, <3>1
  <2> QED
    BY <2>3, <2>4
<1> QED
    BY <1>3, <1>4

\* A date is before, in or after the range of a literal.
LEMMA DatesDivide ==
    ASSUME NEW day \in Int, day # NotNumber, NEW start \in Int, NEW end \in Int, start < end
    PROVE  LET d == DateRange(start, end)
               is(op) == compareDateLiteral(day, op, d)
           IN  /\ is("<") \/ is("=") \/ is(">")
               /\ is("<") => ~is("=") /\ ~is(">")
               /\ is("=") => ~is(">")
               /\ is("<=") = ~is(">") /\ is(">=") = ~is("<") /\ is("!=") = ~is("=")
<1> DEFINE d == DateRange(start, end)
<1>1. d.start = start /\ d.end = end
    BY DEF DateRange
<1>2. /\ compareDateLiteral(day, "=", d) <=> (start <= day /\ day < end)
      /\ compareDateLiteral(day, "!=", d) <=> (day < start \/ day >= end)
      /\ compareDateLiteral(day, "<", d) <=> (day < start)
      /\ compareDateLiteral(day, "<=", d) <=> (day < end)
      /\ compareDateLiteral(day, ">", d) <=> (day >= end)
      /\ compareDateLiteral(day, ">=", d) <=> (day >= start)
  <2> HIDE DEF d
  <2>1. /\ compareDateLiteral(day, "=", d) <=> (d.start <= day /\ day < d.end)
        /\ compareDateLiteral(day, "!=", d) <=> (day < d.start \/ day >= d.end)
        /\ compareDateLiteral(day, "<", d) <=> day < d.start
    BY DEF compareDateLiteral
  <2>2. /\ compareDateLiteral(day, "<=", d) <=> day < d.end
        /\ compareDateLiteral(day, ">", d) <=> day >= d.end
        /\ compareDateLiteral(day, ">=", d) <=> day >= d.start
    BY DEF compareDateLiteral
  <2> QED
    BY <1>1, <2>1, <2>2
<1>3. \A op : compareDateLiteral(day, op, d) \in BOOLEAN
    BY DEF compareDateLiteral
<1> HIDE DEF d
<1> QED
    BY <1>2, <1>3 DEF d

\* For any values and literals: a value is below a literal, equal to it or above
\* it, and never two of them; where the types are mixed, or one number is
\* printed in two ways, it is neither below nor above, and in the last case not
\* equal either; NOT IN is different from each (compare, compareDateLiteral,
\* buildInFilter).
THEOREM FilterDoesDivide == Spec => []FilterDivides
<1>1. SelectInv => FilterDivides
  <2> DEFINE under(a, op, b) == buildComparisonFilter([value |-> b, operator |-> op], a)
             in(a, b, c, not) == buildInFilter([values |-> <<b, c>>, not |-> not], a)
             date == DateRange(2, 4)
             Divided(a, b) ==
                /\ Cardinality({op \in {"<", "=", ">"} : under(a, op, b)}) = 1
                /\ under(a, "<=", b) = ~under(a, ">", b)
                /\ under(a, ">=", b) = ~under(a, "<", b)
                /\ under(a, "!=", b) = ~under(a, "=", b)
             Apart(a, b) ==
                /\ ~under(a, "<", b) /\ ~under(a, ">", b)
                /\ under(a, "<=", b) = under(a, "=", b) /\ under(a, ">=", b) = under(a, "=", b)
                /\ under(a, "!=", b) = ~under(a, "=", b)
                /\ Comparable(a, b) => ~under(a, "=", b)
  <2>0. SUFFICES ASSUME SelectInv, NEW i \in DOMAIN children,
                        NEW f \in DOMAIN children[i] \ {"AccountId"}
                 PROVE  LET a == children[i][f]
                        IN  /\ \A b \in LiteralValue :
                                IF Unordered(a, b) THEN Apart(a, b) ELSE Divided(a, b)
                            /\ a.t = "string" /\ DayOf(a.text) # NotNumber => Divided(a, date)
                            /\ \A b, c \in LiteralValue :
                                  in(a, b, c, TRUE) = (compare(a, "!=", b) /\ compare(a, "!=", c))
    BY Zenon DEF FilterDivides
  <2>1. PICK a : a = children[i][f]
    OBVIOUS
  <2>2. PICK r \in ChildRecord : r = children[i]
    BY <2>0 DEF SelectInv, TypeOK, Range
  <2>3. ASSUME NEW b \in LiteralValue
        PROVE  IF Unordered(a, b) THEN Apart(a, b) ELSE Divided(a, b)
    <3>1. \A op \in {"=", "!=", "<", "<=", ">", ">="} : under(a, op, b) = compare(a, op, b)
      <4>1. b.t # "date"
        BY FilterConstants
      <4> QED
        BY <4>1 DEF buildComparisonFilter
    <3>2. PICK less, same, more \in BOOLEAN :
            /\ less = compareLess(a, b) /\ same = valuesEqual(a, b)
            /\ more = compareGreater(a, b)
      BY Compared
    <3>3. /\ under(a, "=", b) = same /\ under(a, "!=", b) = ~same
          /\ under(a, "<", b) = less /\ under(a, "<=", b) = (less \/ same)
          /\ under(a, ">", b) = more /\ under(a, ">=", b) = (more \/ same)
      BY <3>1, <3>2, Compared
    <3>4. IF Unordered(a, b) THEN ~less /\ ~more /\ (Comparable(a, b) => ~same)
          ELSE (less \/ same \/ more) /\ (less => ~same /\ ~more) /\ (same => ~more)
      BY <2>1, <2>2, <3>2, ValuesDivide
    <3> HIDE DEF under
    <3>5. CASE Unordered(a, b)
      BY <3>3, <3>4, <3>5
    <3>6. CASE ~Unordered(a, b)
      <4>1. PICK T : T = {op \in {"<", "=", ">"} : under(a, op, b)}
        OBVIOUS
      <4>2. Cardinality(T) = 1
        BY <3>3, <3>4, <3>6, <4>1, OneOfThree
      <4> QED
        BY <3>3, <3>4, <3>6, <4>1, <4>2
    <3> QED
      BY <3>5, <3>6
  <2>4. ASSUME a.t = "string", DayOf(a.text) # NotNumber PROVE Divided(a, date)
    <3>1. DayOf(a.text) \in Int
      BY <2>1, <2>2, <2>4, FilterConstants
    <3>2. \A op : under(a, op, date) = compareDateLiteral(DayOf(a.text), op, date)
      BY <2>4 DEF buildComparisonFilter, DateRange
    <3> HIDE DEF under
    <3>3. PICK T : T = {op \in {"<", "=", ">"} : under(a, op, date)}
      OBVIOUS
    <3>4. Cardinality(T) = 1
      BY <2>4, <3>1, <3>2, <3>3, DatesDivide, OneOfThree
    <3> QED
      BY <2>4, <3>1, <3>2, <3>3, <3>4, DatesDivide
  <2>5. ASSUME NEW b \in LiteralValue, NEW c \in LiteralValue
        PROVE  in(a, b, c, TRUE) = (compare(a, "!=", b) /\ compare(a, "!=", c))
    <3>1. in(a, b, c, TRUE) = ~(compare(a, "=", b) \/ compare(a, "=", c))
      BY DEF buildInFilter
    <3>2. /\ compare(a, "=", b) = valuesEqual(a, b) /\ compare(a, "!=", b) = ~valuesEqual(a, b)
          /\ compare(a, "=", c) = valuesEqual(a, c) /\ compare(a, "!=", c) = ~valuesEqual(a, c)
      BY DEF compare
    <3> QED
      BY <3>1, <3>2
  <2> QED
    BY <2>1, <2>3, <2>4, <2>5
<1> QED
    BY SelectInitially, SelectStep, <1>1, PTL DEF Spec

-----------------------------------------------------------------------------
(* The calendar.                                                           *)

\* The day a year starts on.
YearStart(year) == 365 * year + (year + 3) \div 4

\* The days of a common year before a month.
DaysBefore == <<0, 31, 59, 90, 120, 151, 181, 212, 243, 273, 304, 334>>

\* The leap day, which the months after February start after.
LeapDay(year, k) == IF year % 4 = 0 /\ k >= 2 THEN 1 ELSE 0

\* A month is one of the twelve of its year.
LEMMA YearAndMonth ==
    ASSUME NEW m \in Nat
    PROVE  \E year \in Nat, k \in 0 .. 11 :
              /\ m = 12 * year + k
              /\ MonthStart(m) = YearStart(year) + DaysBefore[k + 1] + LeapDay(year, k)
<1>1. PICK year : year = m \div 12
    OBVIOUS
<1>2. PICK k : k = m % 12
    OBVIOUS
<1>3. year \in Nat /\ k \in 0 .. 11 /\ m = 12 * year + k
    BY <1>1, <1>2
<1>4. MonthStart(m) = YearStart(m \div 12) + DaysBefore[(m % 12) + 1] + LeapDay(m \div 12, m % 12)
    BY Zenon DEF MonthStart, YearStart, DaysBefore, LeapDay
<1> QED
    BY <1>1, <1>2, <1>3, <1>4

\* A year of four has a leap day.
LEMMA YearLength ==
    ASSUME NEW year \in Nat
    PROVE  /\ YearStart(year) \in Nat /\ 365 * year <= YearStart(year) /\ YearStart(year) <= 366 * year
           /\ YearStart(year + 1) = YearStart(year) + 365 + LeapDay(year, 2)
           /\ LeapDay(year, 2) \in {0, 1}
           /\ \A k \in 0 .. 11 : LeapDay(year, k) = IF k < 2 THEN 0 ELSE LeapDay(year, 2)
    BY DEF YearStart, LeapDay

\* A month starts after the one before it.
LEMMA MonthFollows ==
    ASSUME NEW m \in Nat
    PROVE  /\ MonthStart(m) \in Nat /\ MonthStart(m + 1) \in Nat
           /\ MonthStart(m) < MonthStart(m + 1)
           /\ 28 * m <= MonthStart(m) /\ MonthStart(m) <= 31 * m
<1>1. PICK year \in Nat, k \in 0 .. 11 :
            /\ m = 12 * year + k
            /\ MonthStart(m) = YearStart(year) + DaysBefore[k + 1] + LeapDay(year, k)
    BY YearAndMonth
<1>2. MonthStart(m + 1) = IF k = 11 THEN YearStart(year + 1)
                          ELSE YearStart(year) + DaysBefore[k + 2] + LeapDay(year, k + 1)
  <2>1. PICK y \in Nat, j \in 0 .. 11 :
            /\ m + 1 = 12 * y + j
            /\ MonthStart(m + 1) = YearStart(y) + DaysBefore[j + 1] + LeapDay(y, j)
    BY YearAndMonth
  <2>2. CASE k = 11
    <3>1. y = year + 1 /\ j = 0
      BY <1>1, <2>1, <2>2
    <3> QED
      BY <2>1, <2>2, <3>1, YearLength DEF DaysBefore, LeapDay
  <2>3. CASE k # 11
    <3>1. y = year /\ j = k + 1
      BY <1>1, <2>1, <2>3
    <3> QED
      BY <2>1, <2>3, <3>1
  <2> QED
    BY <2>2, <2>3
<1>3. PICK leap \in {0, 1} : leap = LeapDay(year, 2)
    BY YearLength
<1>4. /\ \A i \in 0 .. 11 : LeapDay(year, i) = IF i < 2 THEN 0 ELSE leap
      /\ YearStart(year + 1) = YearStart(year) + 365 + leap
      /\ YearStart(year) \in Nat /\ 365 * year <= YearStart(year) /\ YearStart(year) <= 366 * year
    BY <1>3, YearLength
<1>5. /\ \A i \in 0 .. 10 : /\ DaysBefore[i + 1] \in Nat /\ DaysBefore[i + 2] \in Nat
                            /\ DaysBefore[i + 1] < DaysBefore[i + 2]
      /\ \A i \in 0 .. 11 : /\ 28 * i <= DaysBefore[i + 1]
                            /\ DaysBefore[i + 1] + (IF i < 2 THEN 0 ELSE 1) <= 31 * i
      /\ DaysBefore[12] = 334
    BY DEF DaysBefore
<1>6. PICK s \in Nat : s = YearStart(year)
    BY <1>4
<1>7. PICK b \in Nat : b = DaysBefore[k + 1]
    BY <1>1, <1>5
<1>8. 28 * m <= MonthStart(m) /\ MonthStart(m) <= 31 * m /\ MonthStart(m) \in Nat
  <2>1. /\ MonthStart(m) = s + b + (IF k < 2 THEN 0 ELSE leap)
        /\ 28 * k <= b /\ b + (IF k < 2 THEN 0 ELSE 1) <= 31 * k
        /\ 365 * year <= s /\ s <= 366 * year
    BY <1>1, <1>4, <1>5, <1>6, <1>7
  <2> QED
    BY <1>1, <2>1
<1>9. CASE k = 11
    BY <1>1, <1>2, <1>4, <1>5, <1>8, <1>9
<1>10. CASE k # 11
  <2>1. k \in 0 .. 10
    BY <1>10
  <2>2. PICK c \in Nat : c = DaysBefore[k + 2] /\ b < c
    BY <1>5, <1>7, <2>1
  <2>3. /\ MonthStart(m) = s + b + (IF k < 2 THEN 0 ELSE leap)
        /\ MonthStart(m + 1) = s + c + (IF k + 1 < 2 THEN 0 ELSE leap)
    BY <1>1, <1>2, <1>4, <1>6, <1>7, <2>1, <2>2
  <2> QED
    BY <1>8, <2>2, <2>3
<1> QED
    BY <1>9, <1>10

\* Months start in the order of their numbers.
LEMMA MonthsInOrder ==
    ASSUME NEW m \in Nat, NEW n \in Nat, m <= n
    PROVE  MonthStart(m) <= MonthStart(n)
<1> DEFINE T == {i \in Nat : m <= i /\ MonthStart(i) < MonthStart(m)}
<1>0. MonthStart(m) \in Nat /\ MonthStart(n) \in Nat
    BY MonthFollows
<1>1. SUFFICES ASSUME T # {} PROVE FALSE
    BY <1>0
<1>2. PICK i \in T : \A j \in T : i <= j
    BY <1>1, Least
<1>3. PICK j \in Nat : i = j + 1 /\ m <= j
  <2>1. i # m
    BY <1>0, <1>2
  <2>2. i - 1 \in Nat /\ i = (i - 1) + 1 /\ m <= i - 1
    BY <1>2, <2>1
  <2> QED
    BY <2>2
<1>4. j \notin T
    BY <1>2, <1>3
<1> QED
    BY <1>2, <1>3, <1>4, MonthFollows

\* The month a day is in.
LEMMA MonthOfDay ==
    ASSUME NEW day \in Nat
    PROVE  MonthOf(day) \in Nat /\ MonthStart(MonthOf(day)) <= day /\ day < MonthStart(MonthOf(day) + 1)
<1> DEFINE T == {m \in Nat : day < MonthStart(m + 1)}
<1>1. day \in T
    BY MonthFollows
<1>2. PICK m \in T : \A k \in T : m <= k
    BY <1>1, Least
<1>3. MonthStart(m) <= day
  <2>1. CASE m = 0
      BY <2>1, MonthFollows
  <2>2. CASE m # 0
    <3>1. PICK k \in Nat : m = k + 1
      BY <2>2
    <3>2. ~(day < MonthStart(m))
      <4>1. k \notin T
        BY <1>2, <3>1
      <4> QED
        BY <3>1, <4>1
    <3> QED
      BY <1>2, <3>2, MonthFollows
  <2> QED
      BY <2>1, <2>2
<1>4. m \in day \div 31 .. day \div 28
  <2>1. 28 * m <= MonthStart(m) /\ MonthStart(m) \in Nat
    BY MonthFollows
  <2>2. MonthStart(m + 1) <= 31 * (m + 1) /\ MonthStart(m + 1) \in Nat
    BY m + 1 \in Nat, MonthFollows
  <2>3. 28 * m <= day /\ day < 31 * (m + 1)
    BY <1>2, <1>3, <2>1, <2>2
  <2> QED
    BY <2>3
<1>5. /\ MonthOf(day) \in day \div 31 .. day \div 28
      /\ MonthStart(MonthOf(day)) <= day /\ day < MonthStart(MonthOf(day) + 1)
    BY <1>2, <1>3, <1>4, Zenon DEF MonthOf
<1> QED
    BY <1>5

\* It is the only one.
LEMMA MonthFound ==
    ASSUME NEW m \in Nat, NEW day \in Nat, MonthStart(m) <= day, day < MonthStart(m + 1)
    PROVE  MonthOf(day) = m
<1>1. PICK k \in Nat : k = MonthOf(day)
    BY MonthOfDay
<1>2. MonthStart(k) <= day /\ day < MonthStart(k + 1)
    BY <1>1, MonthOfDay
<1>3. /\ MonthStart(m) \in Nat /\ MonthStart(m + 1) \in Nat
      /\ MonthStart(k) \in Nat /\ MonthStart(k + 1) \in Nat
    BY MonthFollows
<1>4. k + 1 <= m => MonthStart(k + 1) <= MonthStart(m)
    BY k + 1 \in Nat, MonthsInOrder
<1>5. m + 1 <= k => MonthStart(m + 1) <= MonthStart(k)
    BY m + 1 \in Nat, MonthsInOrder
<1> QED
    BY <1>1, <1>2, <1>3, <1>4, <1>5

-----------------------------------------------------------------------------
(* The units.                                                              *)

\* The months of a unit.
Months(unit) == CASE unit = "MONTH" -> 1 [] unit = "QUARTER" -> 3 [] unit = "YEAR" -> 12

\* The day the q-th week, month, quarter or year starts on.
UnitStart(unit, q) == IF unit = "WEEK" THEN 7 * q ELSE MonthStart(Months(unit) * q)

\* Units start one after the other, a year has at most 366 days and the others
\* have fewer.
LEMMA UnitFollows ==
    ASSUME NEW unit \in Unit, NEW q \in Nat
    PROVE  /\ UnitStart(unit, q) \in Nat /\ UnitStart(unit, q + 1) \in Nat
           /\ UnitStart(unit, q) < UnitStart(unit, q + 1) /\ UnitStart(unit, q) <= 366 * q
<1>1. CASE unit = "WEEK"
    BY <1>1 DEF UnitStart
<1>2. CASE unit # "WEEK"
  <2>1. PICK u \in {1, 3, 12} : u = Months(unit)
    BY <1>2 DEF Unit, Months
  <2>2. PICK m \in Nat : m = u * q
    OBVIOUS
  <2>3. PICK n \in Nat : n = u * (q + 1)
    OBVIOUS
  <2>4. m + 1 <= n
    BY <2>2, <2>3
  <2>5. /\ MonthStart(m) \in Nat /\ MonthStart(n) \in Nat /\ MonthStart(m) < MonthStart(n)
        /\ MonthStart(m) <= 31 * m
    BY <2>4, MonthFollows, MonthsInOrder
  <2>6. MonthStart(m) <= 366 * q
    <3>1. CASE u = 12
      <4>1. PICK year \in Nat, k \in 0 .. 11 :
                /\ m = 12 * year + k
                /\ MonthStart(m) = YearStart(year) + DaysBefore[k + 1] + LeapDay(year, k)
        BY YearAndMonth
      <4>2. year = q /\ k = 0
        BY <2>2, <3>1, <4>1
      <4> QED
        BY <4>1, <4>2, YearLength DEF DaysBefore
    <3>2. CASE u # 12
      BY <2>1, <2>2, <2>5, <3>2
    <3> QED
      BY <3>1, <3>2
  <2>7. UnitStart(unit, q) = MonthStart(m) /\ UnitStart(unit, q + 1) = MonthStart(n)
    BY <1>2, <2>1, <2>2, <2>3 DEF UnitStart
  <2> QED
    BY <2>5, <2>6, <2>7
<1> QED
    BY <1>1, <1>2

\* Start finds the unit a day is in.
LEMMA UnitFound ==
    ASSUME NEW unit \in Unit, NEW q \in Nat, NEW day \in Nat,
           UnitStart(unit, q) <= day, day < UnitStart(unit, q + 1)
    PROVE  Start(unit, day) = UnitStart(unit, q)
<1>1. CASE unit = "WEEK"
  <2>1. 7 * q <= day /\ day < 7 * (q + 1)
    BY <1>1 DEF UnitStart
  <2>2. day - (day % 7) = 7 * q
    BY <2>1
  <2> QED
    BY <1>1, <2>2 DEF Start, startOfWeek, UnitStart
<1>2. CASE unit # "WEEK"
  <2>1. PICK u \in {1, 3, 12} : u = Months(unit)
    BY <1>2 DEF Unit, Months
  <2>2. PICK m \in Nat : m = MonthOf(day)
    BY MonthOfDay
  <2>3. MonthStart(u * q) <= day /\ day < MonthStart(u * (q + 1))
    BY <1>2, <2>1 DEF UnitStart
  <2>4. PICK i \in Nat : i = u * q
    BY <2>1
  <2>5. PICK j \in Nat : j = u * (q + 1)
    BY <2>1
  <2>6. i <= m /\ m < j
    <3>1. MonthStart(i) <= day /\ day < MonthStart(j) /\ MonthStart(m) <= day /\ day < MonthStart(m + 1)
      BY <2>2, <2>3, <2>4, <2>5, MonthOfDay
    <3>2. /\ MonthStart(i) \in Nat /\ MonthStart(j) \in Nat
          /\ MonthStart(m) \in Nat /\ MonthStart(m + 1) \in Nat
      BY MonthFollows
    <3>3. m + 1 <= i => MonthStart(m + 1) <= MonthStart(i)
      BY m + 1 \in Nat, MonthsInOrder
    <3>4. j <= m => MonthStart(j) <= MonthStart(m)
      BY MonthsInOrder
    <3> QED
      BY <3>1, <3>2, <3>3, <3>4
  <2>9. u * (m \div u) = i
    BY <2>4, <2>5, <2>6
  <2>7. Start(unit, day) = MonthStart(u * (m \div u)) + 0
    BY <1>2, <2>1, <2>2 DEF Unit, Months, Start, startOfMonth, startOfQuarter, startOfYear, Date
  <2>8. MonthStart(i) \in Nat
    BY MonthFollows
  <2> QED
    BY <1>2, <2>1, <2>4, <2>7, <2>8, <2>9 DEF UnitStart
<1> QED
    BY <1>1, <1>2

\* Every day is in one.
LEMMA UnitOfDay ==
    ASSUME NEW unit \in Unit, NEW day \in Nat
    PROVE  \E q \in Nat : UnitStart(unit, q) <= day /\ day < UnitStart(unit, q + 1)
<1> DEFINE T == {q \in Nat : day < UnitStart(unit, q + 1)}
<1>1. CASE unit = "WEEK"
  <2>1. day \div 7 \in Nat /\ 7 * (day \div 7) <= day /\ day < 7 * (day \div 7 + 1)
    OBVIOUS
  <2> QED
    BY <1>1, <2>1 DEF UnitStart
<1>2. CASE unit # "WEEK"
  <2>1. PICK u \in {1, 3, 12} : u = Months(unit)
    BY <1>2 DEF Unit, Months
  <2>2. PICK m \in Nat : m = MonthOf(day)
    BY MonthOfDay
  <2>3. PICK q \in Nat : q = m \div u
    OBVIOUS
  <2>4. PICK i \in Nat : i = u * q
    BY <2>1
  <2>6. PICK j \in Nat : j = u * (q + 1)
    BY <2>1
  <2>7. i <= m /\ m + 1 <= j
    BY <2>3, <2>4, <2>6
  <2>8. /\ MonthStart(i) \in Nat /\ MonthStart(j) \in Nat
        /\ MonthStart(m) \in Nat /\ MonthStart(m + 1) \in Nat
    BY MonthFollows
  <2>9. MonthStart(i) <= MonthStart(m) /\ MonthStart(m + 1) <= MonthStart(j)
    BY <2>7, m + 1 \in Nat, MonthsInOrder
  <2>5. MonthStart(i) <= day /\ day < MonthStart(j)
    BY <2>2, <2>8, <2>9, MonthOfDay
  <2> QED
    BY <1>2, <2>1, <2>4, <2>5, <2>6 DEF UnitStart
<1> QED
    BY <1>1, <1>2

\* Add counts units from the start of one.
LEMMA UnitAdds ==
    ASSUME NEW unit \in Unit, NEW q \in Nat, NEW n \in Int, q + n \in Nat
    PROVE  Add(unit, UnitStart(unit, q), n) = UnitStart(unit, q + n)
<1>1. CASE unit = "WEEK"
    BY <1>1 DEF Add, UnitStart
<1>2. CASE unit # "WEEK"
  <2>1. PICK u \in {1, 3, 12} : u = Months(unit)
    BY <1>2 DEF Unit, Months
  <2>2. PICK m \in Nat : m = u * q
    OBVIOUS
  <2>3. PICK k \in Nat : k = u * (q + n)
    BY <2>1
  <2>4. PICK j \in Int : j = u * n
    BY <2>1
  <2>5. MonthOf(MonthStart(m)) = m /\ MonthStart(m) \in Nat /\ MonthStart(k) \in Nat
    BY MonthFollows, MonthFound
  <2>6. k = m + j
    BY <2>2, <2>3, <2>4
  <2>7. UnitStart(unit, q) = MonthStart(m) /\ UnitStart(unit, q + n) = MonthStart(k)
    BY <1>2, <2>1, <2>2, <2>3 DEF UnitStart
  <2>8. AddMonths(MonthStart(m), j) = MonthStart(k)
    BY <2>5, <2>6 DEF AddMonths, Date
  <2>9. Add(unit, MonthStart(m), n) = AddMonths(MonthStart(m), j)
    BY <1>2, <2>1, <2>4 DEF Add, Unit, Months
  <2> QED
    BY <2>7, <2>8, <2>9
<1> QED
    BY <1>1, <1>2

\* Every literal on a unit is a range between two starts, counted from the
\* current one.
LEMMA UnitRanges ==
    ASSUME today \in Nat, 366 <= today, 366 * MaxN <= today, MaxN \in Nat, NEW unit \in Unit
    PROVE  \E q \in Nat, P \in [Nat -> Int] :
              /\ 1 <= q /\ MaxN <= q
              /\ today \in P[q] .. P[q + 1] - 1
              /\ Start(unit, P[q]) = P[q] /\ Start(unit, P[q + 1] - 1) = P[q]
              /\ UnitRange("THIS", unit, 0) = <<P[q], P[q + 1]>>
              /\ UnitRange("LAST", unit, 0) = <<P[q - 1], P[q]>>
              /\ UnitRange("NEXT", unit, 0) = <<P[q + 1], P[q + 2]>>
              /\ \A n \in 1 .. MaxN :
                    /\ UnitRange("LAST_N", unit, n) = <<P[q - n], P[q]>>
                    /\ UnitRange("N_AGO", unit, n) = <<P[q - n], P[q - n + 1]>>
                    /\ UnitRange("NEXT_N", unit, n) = <<P[q + 1], P[q + 1 + n]>>
              /\ UnitRange("LAST_N", unit, 1) = <<P[q - 1], P[q]>>
              /\ UnitRange("NEXT_N", unit, 1) = <<P[q + 1], P[q + 2]>>
<1>1. PICK q \in Nat : UnitStart(unit, q) <= today /\ today < UnitStart(unit, q + 1)
    BY UnitOfDay
<1>2. PICK P \in [Nat -> Int] : P = [i \in Nat |-> UnitStart(unit, i)]
  <2>1. \A i \in Nat : UnitStart(unit, i) \in Int
    BY UnitFollows
  <2> QED
    BY <2>1
<1>3. \A i \in Nat : P[i] = UnitStart(unit, i) /\ P[i] \in Nat /\ P[i] < P[i + 1]
    BY <1>2, UnitFollows
<1>4. \A i \in Nat, n \in Int : i + n \in Nat => Add(unit, P[i], n) = P[i + n]
  <2> TAKE i \in Nat, n \in Int
  <2> HAVE i + n \in Nat
  <2>1. Add(unit, UnitStart(unit, i), n) = UnitStart(unit, i + n)
    BY UnitAdds
  <2> QED
    BY <1>3, <2>1
<1>5. 1 <= q /\ MaxN <= q
  <2>1. UnitStart(unit, q + 1) <= 366 * (q + 1) /\ UnitStart(unit, q + 1) \in Nat
    BY q + 1 \in Nat, UnitFollows
  <2>2. today < 366 * (q + 1)
    BY <1>1, <2>1
  <2> QED
    BY <2>2
<1>6. P[q] <= today /\ today < P[q + 1]
    BY <1>1, <1>3
<1>7. Start(unit, today) = P[q] /\ Start(unit, P[q]) = P[q] /\ Start(unit, P[q + 1] - 1) = P[q]
  <2>1. P[q] \in Nat /\ P[q + 1] - 1 \in Nat /\ P[q] <= P[q + 1] - 1 /\ P[q + 1] - 1 < P[q + 1]
    BY <1>3, <1>6
  <2>2. \A day \in Nat : P[q] <= day /\ day < P[q + 1] => Start(unit, day) = P[q]
    BY <1>3, UnitFound
  <2>3. today \in Nat /\ P[q] <= P[q] /\ P[q] < P[q + 1]
    BY <1>3, <1>6, <2>1
  <2> QED
    BY <1>6, <2>1, <2>2, <2>3
<1>8. /\ Add(unit, P[q], -1) = P[q - 1] /\ Add(unit, P[q - 1], 1) = P[q]
      /\ Add(unit, P[q], 1) = P[q + 1] /\ Add(unit, P[q + 1], 1) = P[q + 2]
  <2>1. /\ q - 1 \in Nat /\ q + 1 \in Nat /\ q + 2 \in Nat /\ 1 \in Int /\ -1 \in Int
        /\ q + (-1) = q - 1 /\ q - 1 + 1 = q /\ q + 1 + 1 = q + 2
    BY <1>5
  <2>2. Add(unit, P[q], -1) = P[q + (-1)] /\ Add(unit, P[q - 1], 1) = P[q - 1 + 1]
    BY <1>4, <2>1
  <2>3. Add(unit, P[q], 1) = P[q + 1] /\ Add(unit, P[q + 1], 1) = P[q + 1 + 1]
    BY <1>4, <2>1
  <2> QED
    BY <2>1, <2>2, <2>3
<1>9. \A n \in 1 .. MaxN :
        /\ Add(unit, P[q], -n) = P[q - n] /\ Add(unit, P[q - n], 1) = P[q - n + 1]
        /\ Add(unit, P[q + 1], n) = P[q + 1 + n]
  <2> TAKE n \in 1 .. MaxN
  <2>1. /\ n \in Int /\ -n \in Int /\ 1 \in Int /\ q + 1 \in Nat /\ q - n \in Nat
        /\ q + (-n) = q - n /\ q - n + 1 \in Nat /\ q + 1 + n \in Nat
    BY <1>5
  <2>2. Add(unit, P[q], -n) = P[q + (-n)] /\ Add(unit, P[q - n], 1) = P[q - n + 1]
    BY <1>4, <2>1
  <2>3. Add(unit, P[q + 1], n) = P[q + 1 + n]
    BY <1>4, <2>1
  <2> QED
    BY <2>1, <2>2, <2>3
<1>10. /\ UnitRange("THIS", unit, 0) = <<P[q], P[q + 1]>>
       /\ UnitRange("LAST", unit, 0) = <<P[q - 1], P[q]>>
       /\ UnitRange("NEXT", unit, 0) = <<P[q + 1], P[q + 2]>>
       /\ UnitRange("LAST_N", unit, 1) = <<P[q - 1], P[q]>>
       /\ UnitRange("NEXT_N", unit, 1) = <<P[q + 1], P[q + 2]>>
    BY <1>7, <1>8 DEF UnitRange
<1>11. \A n \in 1 .. MaxN :
        /\ UnitRange("LAST_N", unit, n) = <<P[q - n], P[q]>>
        /\ UnitRange("N_AGO", unit, n) = <<P[q - n], P[q - n + 1]>>
        /\ UnitRange("NEXT_N", unit, n) = <<P[q + 1], P[q + 1 + n]>>
    BY <1>7, <1>8, <1>9 DEF UnitRange
<1>12. today \in P[q] .. P[q + 1] - 1
    BY <1>3, <1>6
<1> QED
    BY <1>3, <1>5, <1>7, <1>10, <1>11, <1>12

\* Late enough a day for everything the literals count back.
DayInv == today \in Nat /\ 366 <= today /\ 366 * MaxN <= today

\* For any first day and any N the calendar has room for: weeks, months,
\* quarters and years follow one another with no day lost or counted twice,
\* and N of them make up the literal that counts N (Range).
THEOREM UnitsDoTile == DatesSpec => []UnitsTile
<1>1. DatesInit => DayInv
    BY DatesConstants DEF DatesInit, DayInv
<1>2. DayInv /\ [NextDay]_today => DayInv'
  <2> SUFFICES ASSUME DayInv, [NextDay]_today PROVE DayInv'
    OBVIOUS
  <2>1. MaxN \in Nat /\ 366 * MaxN \in Nat
    BY DatesConstants
  <2> QED
    BY <2>1 DEF DayInv, NextDay
<1>3. DayInv => UnitsAdjoin
  <2> SUFFICES ASSUME DayInv PROVE UnitsAdjoin
    OBVIOUS
  <2>1. Chain(<<DayRange("YESTERDAY", 0), DayRange("TODAY", 0), DayRange("TOMORROW", 0)>>)
    <3>1. /\ DayRange("YESTERDAY", 0) = <<today - 1, today>>
          /\ DayRange("TODAY", 0) = <<today, today + 1>>
          /\ DayRange("TOMORROW", 0) = <<today + 1, today + 2>>
      BY DEF DayRange
    <3> QED
      BY <3>1 DEF Chain
  <2>2. ASSUME NEW unit \in Unit
        PROVE  /\ Chain(<<UnitRange("LAST", unit, 0), UnitRange("THIS", unit, 0),
                          UnitRange("NEXT", unit, 0)>>)
               /\ LET this == UnitRange("THIS", unit, 0)
                  IN  /\ today \in this[1] .. this[2] - 1
                      /\ Start(unit, this[1]) = this[1] /\ Start(unit, this[2] - 1) = this[1]
    <3>1. PICK q \in Nat, P \in [Nat -> Int] :
              /\ today \in P[q] .. P[q + 1] - 1
              /\ Start(unit, P[q]) = P[q] /\ Start(unit, P[q + 1] - 1) = P[q]
              /\ UnitRange("THIS", unit, 0) = <<P[q], P[q + 1]>>
              /\ UnitRange("LAST", unit, 0) = <<P[q - 1], P[q]>>
              /\ UnitRange("NEXT", unit, 0) = <<P[q + 1], P[q + 2]>>
      BY DatesConstants, UnitRanges DEF DayInv
    <3>2. Chain(<<<<P[q - 1], P[q]>>, <<P[q], P[q + 1]>>, <<P[q + 1], P[q + 2]>>>>)
      BY DEF Chain
    <3> QED
      BY <3>1, <3>2
  <2> QED
    BY <2>1, <2>2 DEF UnitsAdjoin
<1>4. DayInv => CountedUnitsCover
  <2> SUFFICES ASSUME DayInv PROVE CountedUnitsCover
    OBVIOUS
  <2>1. MaxN \in Nat /\ today \in Nat
    BY DatesConstants DEF DayInv
  <2>2. ASSUME NEW n \in 1 .. MaxN, NEW unit \in Unit
        PROVE  LET nth(k) == UnitRange("N_AGO", unit, n + 1 - k)
               IN  /\ Chain([k \in 1 .. n + 1 |->
                               IF k <= n THEN nth(k) ELSE UnitRange("THIS", unit, 0)])
                   /\ UnitRange("LAST_N", unit, n) = <<nth(1)[1], nth(n)[2]>>
                   /\ UnitRange("NEXT_N", unit, n)[1] = UnitRange("THIS", unit, 0)[2]
                   /\ UnitRange("NEXT_N", unit, 1) = UnitRange("NEXT", unit, 0)
                   /\ UnitRange("LAST_N", unit, 1) = UnitRange("LAST", unit, 0)
    <3>1. PICK q \in Nat, P \in [Nat -> Int] :
              /\ UnitRange("THIS", unit, 0) = <<P[q], P[q + 1]>>
              /\ UnitRange("LAST", unit, 0) = <<P[q - 1], P[q]>>
              /\ UnitRange("NEXT", unit, 0) = <<P[q + 1], P[q + 2]>>
              /\ \A i \in 1 .. MaxN :
                    /\ UnitRange("LAST_N", unit, i) = <<P[q - i], P[q]>>
                    /\ UnitRange("N_AGO", unit, i) = <<P[q - i], P[q - i + 1]>>
                    /\ UnitRange("NEXT_N", unit, i) = <<P[q + 1], P[q + 1 + i]>>
              /\ UnitRange("LAST_N", unit, 1) = <<P[q - 1], P[q]>>
              /\ UnitRange("NEXT_N", unit, 1) = <<P[q + 1], P[q + 2]>>
      BY DatesConstants, UnitRanges DEF DayInv
    <3>2. PICK ranges : ranges = [k \in 1 .. n + 1 |->
                            IF k <= n THEN UnitRange("N_AGO", unit, n + 1 - k)
                            ELSE UnitRange("THIS", unit, 0)]
      OBVIOUS
    <3>3. \A k \in 1 .. n : ranges[k] = <<P[q - (n + 1 - k)], P[q - (n + 1 - k) + 1]>>
      <4> TAKE k \in 1 .. n
      <4>1. n + 1 - k \in 1 .. MaxN
        BY <2>1
      <4>2. ranges[k] = UnitRange("N_AGO", unit, n + 1 - k)
        BY <3>2
      <4> QED
        BY <3>1, <4>1, <4>2
    <3>4. ranges[n + 1] = <<P[q], P[q + 1]>> /\ Len(ranges) = n + 1
      BY <3>1, <3>2
    <3>5. Chain(ranges)
      <4>1. SUFFICES ASSUME NEW k \in 1 .. n PROVE ranges[k][2] = ranges[k + 1][1]
        BY <3>4 DEF Chain
      <4>2. ranges[k][2] = P[q - (n + 1 - k) + 1]
        BY <3>3
      <4>3. CASE k = n
        BY <3>4, <4>2, <4>3
      <4>4. CASE k # n
        <5>1. k + 1 \in 1 .. n
          BY <4>4
        <5>2. ranges[k + 1][1] = P[q - (n + 1 - (k + 1))]
          BY <3>3, <5>1
        <5> QED
          BY <4>2, <5>2
      <4> QED
        BY <4>3, <4>4
    <3>6. /\ UnitRange("N_AGO", unit, n + 1 - 1) = <<P[q - n], P[q - n + 1]>>
          /\ UnitRange("N_AGO", unit, n + 1 - n) = <<P[q - 1], P[q]>>
      <4>1. n + 1 - 1 = n /\ n + 1 - n = 1 /\ 1 \in 1 .. MaxN /\ q - 1 + 1 = q
        BY <2>1
      <4> QED
        BY <3>1, <4>1
    <3>7. /\ UnitRange("N_AGO", unit, n + 1 - 1)[1] = P[q - n]
          /\ UnitRange("N_AGO", unit, n + 1 - n)[2] = P[q]
          /\ UnitRange("NEXT_N", unit, n)[1] = P[q + 1]
          /\ UnitRange("THIS", unit, 0)[2] = P[q + 1]
          /\ UnitRange("LAST_N", unit, n) = <<P[q - n], P[q]>>
      BY <3>1, <3>6
    <3> QED
      BY <3>1, <3>2, <3>5, <3>7, Zenon
  <2>3. ASSUME NEW n \in 1 .. MaxN
        PROVE  /\ Chain([k \in 1 .. n + 1 |-> DayRange("N_AGO", n + 1 - k)])
               /\ DayRange("LAST_N", n) = <<DayRange("N_AGO", n)[1], DayRange("TODAY", 0)[2]>>
               /\ DayRange("NEXT_N", n)[1] = DayRange("TODAY", 0)[2]
    <3>1. /\ \A i : DayRange("N_AGO", i) = <<today - i, today - i + 1>>
          /\ DayRange("LAST_N", n) = <<today - n, today + 1>>
          /\ DayRange("NEXT_N", n) = <<today + 1, today + n + 1>>
          /\ DayRange("TODAY", 0) = <<today, today + 1>>
      BY DEF DayRange
    <3>2. PICK ranges : ranges = [k \in 1 .. n + 1 |-> DayRange("N_AGO", n + 1 - k)]
      OBVIOUS
    <3>3. /\ Len(ranges) = n + 1
          /\ \A k \in 1 .. n + 1 : ranges[k] = <<today - (n + 1 - k), today - (n + 1 - k) + 1>>
      BY <3>1, <3>2
    <3>4. Chain(ranges)
      BY <2>1, <3>3 DEF Chain
    <3> QED
      BY <3>1, <3>2, <3>4
  <2>4. /\ DayRange("LAST_N", 90) = DayRange("LAST_90_DAYS", 0)
        /\ DayRange("NEXT_N", 90) = DayRange("NEXT_90_DAYS", 0)
    BY <2>1 DEF DayRange
  <2> QED
    BY <2>2, <2>3, <2>4, Zenon DEF CountedUnitsCover
<1> QED
    BY <1>1, <1>2, <1>3, <1>4, PTL DEF DatesSpec, UnitsTile
=============================================================================
