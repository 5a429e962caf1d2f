------------------------------- MODULE MCSoql -------------------------------
(* One machine runs in a behaviour, the other two stay where they start:   *)
(* a client that edits a query's text, a query executed page by page, or a *)
(* calendar going on.                                                      *)
EXTENDS SoqlText, SoqlConditions, SoqlDates

CONSTANTS c1, c2, c3, p1, p2

(* The queries as written. *)

A == Plain(<<"a">>)
B == Plain(<<"b">>)
AB == [B EXCEPT !.relation = <<"a">>]
Counted(f) == [f EXCEPT !.aggregate = <<"COUNT">>]

Int1 == Value("int", <<>>, 1)
Escaped == Value("string", <<"b", Escape, Quote>>, 0)
Values == {Int1, Escaped, Value("int", <<>>, -12), Value("float", <<"-", "1", ".", "2">>, 0),
           Value("TRUE", <<>>, 0), Value("NULL", <<>>, 0), Value("string", <<>>, 0),
           Value("date", <<"TODAY">>, 0), Value("date", <<"LAST_N_DAYS">>, 2)}

AEq == Comparison(A, "=", Int1)
BEq == Comparison(B, "=", Int1)
CEq == Comparison(Plain(<<"c">>), "=", Int1)

Conditions ==
    {Comparison(A, op, Int1) : op \in Operators \cup {"LIKE"}}
    \cup {Comparison(A, "=", v) : v \in Values}
    \cup {In(AB, <<Int1, Escaped>>, not) : not \in BOOLEAN}
    \cup {Not(Not(AEq)), Not(In(A, <<Int1>>, TRUE))}
    \cup {Logical(op, AEq, Logical(oq, BEq, CEq)) : op, oq \in {"AND", "OR"}}
    \cup {Logical(op, Logical(oq, BEq, CEq), Not(AEq)) : op, oq \in {"AND", "OR"}}
    \cup {Not(Logical("OR", AEq, BEq))}

Select(fields, clauses) ==
    [fields |-> fields, object |-> <<"o">>, clauses |-> clauses]

Everything ==
    [c \in Range(Clauses) |->
        CASE c = "WHERE" -> <<AEq>>
          [] c = "GROUP" -> <<A, AB>>
          [] c = "HAVING" -> <<Comparison(Counted(B), ">", Int1)>>
          [] c = "ORDER" -> <<OrderField(Counted(Plain(<<>>)), TRUE, "LAST")>>
          [] c = "LIMIT" -> <<2>>
          [] c = "OFFSET" -> <<10>>]

Nested ==
    [Select(<<A, AB>>, [Everything EXCEPT !["GROUP"] = <<>>, !["HAVING"] = <<>>])
        EXCEPT !.object = <<"b">>]

Statements ==
    {Select(<<A>>, [NoClauses EXCEPT !["WHERE"] = <<c>>]) : c \in Conditions}
    \cup {Select(<<A>>, [NoClauses EXCEPT !["ORDER"] =
                            <<OrderField(A, d, n), OrderField(B, FALSE, "default")>>])
            : d \in BOOLEAN, n \in {"default", "FIRST", "LAST"}}
    \cup {Select(<<A, [Counted(AB) EXCEPT !.alias = <<"c">>], Counted(Plain(<<>>))>>,
                 Everything),
          Select(<<Nested, AB>>, NoClauses),
          Select(<<A>>, [NoClauses EXCEPT !["LIMIT"] = <<0>>])}

Chains ==
    {<<"SELECT", " ", "a", " ", "FROM", " ", "o", " ", "WHERE", " ", "a", "=", "1", " ", op,
       " ", "b", "=", "1", " ", oq, " ", "c", "=", "1">> : op, oq \in {"AND", "OR"}}

Pieces == {" ", "a", "1", ",", ".", "(", ")", "=", "<", "-", "'", Escape, "AND", "NOT", "AS",
           "FROM", "LIMIT", "ORDER", "NULLS", "#"}

(* The records and the queries as executed. *)

Kids == {c1, c2, c3}
Folks == {p1, p2}
FolkNames == {Str(<<"Mary">>, NotNumber), Str(<<"Lee">>, NotNumber)}
Mary == Str(<<"Mary">>, NotNumber)
Lee == Str(<<"Lee">>, NotNumber)
MaryAnn == Str(<<"Mary", "Ann">>, NotNumber)
AnnLee == Str(<<"Ann", "Lee">>, NotNumber)
Day3 == Str(<<"day 3">>, NotNumber)
Million == 1000002

Words(n) == <<ToString(n)>>
FloatWords(n) == IF n < Million THEN <<ToString(n)>> ELSE <<"1.000002e+06">>
Texts == <<<<"12">>, <<"1.000002e+06">>, <<"6">>, <<"Ann", "Lee">>, <<"Lee">>, <<"Mary">>,
           <<"Mary", "Ann">>, <<"day 3">>>>
RankOf(words) == CHOOSE k \in DOMAIN Texts : Texts[k] = words
DaySpelled(words) == IF words = <<"day 3">> THEN 3 ELSE NotNumber

Rec(first, last, amount, account) ==
    [f \in {"First", "Last", "Amount", "AccountId"} |->
        CASE f = "First" -> first [] f = "Last" -> last [] f = "Amount" -> amount
          [] f = "AccountId" -> account]
NestedName(name) == "Account.Name" :> name

ChildRecords ==
    {Rec(MaryAnn, Lee, Float(6), p1),
     Rec(Mary, AnnLee, Nil, p2) @@ NestedName(Nil),
     Rec(Mary, Lee, Float(Million), p1) @@ NestedName(Mary),
     Rec(Mary, Day3, Str(<<"6">>, 6), Nil)}

Compare(f, op, v) == [kind |-> "comparison", field |-> f, operator |-> op, value |-> v]
By(f, d, n) == [field |-> f, descending |-> d, nulls |-> n]
NoSub == [known |-> FALSE, where |-> <<>>, orderBy |-> <<>>, offset |-> 0, limit |-> <<>>]
Plainly ==
    [kind |-> "records", where |-> <<>>, orderBy |-> <<>>, offset |-> 0, limit |-> <<>>,
     select |-> {}, groupBy |-> <<>>, aggregates |-> <<>>, having |-> <<>>, sub |-> NoSub]

Of(f) == [least |-> [function |-> "MIN", field |-> f], most |-> [function |-> "MAX", field |-> f],
          sum |-> [function |-> "SUM", field |-> f], avg |-> [function |-> "AVG", field |-> f],
          kinds |-> [function |-> "COUNT_DISTINCT", field |-> f],
          given |-> [function |-> "COUNT", field |-> f]]
Total == [total |-> [function |-> "COUNT()", field |-> ""]]

Requests ==
    {Plainly}
    \cup {[Plainly EXCEPT !.orderBy = <<By("Amount", FALSE, "LAST"), By("First", FALSE, "default")>>,
                          !.limit = <<1>>],
          [Plainly EXCEPT !.orderBy = <<By("Amount", TRUE, "default"), By("First", FALSE, "default")>>,
                          !.limit = <<2>>],
          [Plainly EXCEPT !.orderBy = <<By("First", FALSE, "default"), By("Last", TRUE, "FIRST")>>,
                          !.limit = <<2>>, !.offset = 1],
          [Plainly EXCEPT !.where = <<Compare("Account.Name", "=", Mary)>>, !.limit = <<-1>>],
          [Plainly EXCEPT !.where = <<Compare("Account.Name", "=", Mary)>>],
          [Plainly EXCEPT !.where = <<[kind |-> "logical", operator |-> "OR",
                left |-> Compare("Last", "=", DateRange(3, 4)),
                right |-> [kind |-> "not", condition |->
                            [kind |-> "in", field |-> "First", values |-> <<Mary>>, not |-> TRUE]]]>>,
                          !.orderBy = <<By("First", FALSE, "default")>>]}
    \cup {[Plainly EXCEPT !.kind = "nested", !.sub =
                [NoSub EXCEPT !.known = k,
                              !.where = <<[kind |-> "logical", operator |-> "AND",
                                left |-> Compare("First", "LIKE", Str(<<"Mary", "%">>, NotNumber)),
                                right |-> Compare("Amount", "<=", Int_(12))]>>]]
            : k \in BOOLEAN}
    \cup {[Plainly EXCEPT !.kind = "nested", !.sub = [NoSub EXCEPT !.known = TRUE]],
          [Plainly EXCEPT !.kind = "nested", !.where = <<Compare("Name", "=", Lee)>>,
                          !.orderBy = <<By("Name", TRUE, "default")>>,
                          !.sub = [NoSub EXCEPT !.known = TRUE, !.limit = <<-1>>]]}
    \cup {[Plainly EXCEPT !.kind = "aggregate", !.aggregates = Of("Amount") @@ Total],
          [Plainly EXCEPT !.kind = "aggregate", !.aggregates = Of("First") @@ Total],
          [Plainly EXCEPT !.kind = "aggregate", !.aggregates = Total, !.limit = <<-1>>],
          [Plainly EXCEPT !.kind = "aggregate", !.aggregates = Total @@ Of("Amount"),
                          !.select = {"First", "Last"}, !.groupBy = <<"First", "Last">>],
          [Plainly EXCEPT !.kind = "aggregate", !.select = {"Amount"}, !.groupBy = <<"Amount">>,
                          !.orderBy = <<By("Amount", FALSE, "LAST")>>, !.limit = <<1>>],
          [Plainly EXCEPT !.kind = "aggregate", !.aggregates = Total, !.select = {"Last"},
                          !.groupBy = <<"First">>, !.orderBy = <<By("First", TRUE, "default")>>],
          [Plainly EXCEPT !.kind = "aggregate", !.aggregates = Total, !.select = {"First"},
                          !.groupBy = <<"First">>, !.having = <<Compare("total", ">", Int_(1))>>]}

Literals == {Mary, Int_(6), Int_(Million), Float(12), Nil, AnnLee}

(* The three machines. *)

ExecutorIdle ==
    /\ children = <<>> /\ parents = <<>> /\ written = {}
    /\ request = Plainly /\ offset = 0 /\ pc = "done"
    /\ snapshot = <<>> /\ rows = <<>> /\ shown = <<>> /\ seen = <<>>
TextIdle == text = <<>> /\ stmt = <<>> /\ edits = MaxEdits
CalendarIdle == today = LastDay + 1

MCInit ==
    \/ TextInit /\ ExecutorIdle /\ CalendarIdle
    \/ Init /\ TextIdle /\ CalendarIdle
    \/ DatesInit /\ TextIdle /\ ExecutorIdle

MCNext ==
    \/ Edit /\ UNCHANGED <<vars, today>>
    \/ Next /\ UNCHANGED <<textVars, today>>
    \/ NextDay /\ UNCHANGED <<vars, textVars>>

MCSpec == MCInit /\ [][MCNext]_<<vars, textVars, today>>

KidSymmetry == Permutations(Kids)
=============================================================================
