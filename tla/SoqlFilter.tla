----------------------------- MODULE SoqlFilter -----------------------------
(***************************************************************************)
(* The comparisons of WHERE and HAVING in internal/soql/executor.go, one   *)
(* value and one condition at a time; SoqlConditions combines them.  A     *)
(* text is a sequence of words, and so is a pattern, whose "%" stands for  *)
(* any words; the pattern of a lone "%", on which the code panics, is left *)
(* out.                                                                    *)
(***************************************************************************)
EXTENDS SoqlExecutor

CONSTANTS
    LiteralValue,   \* the values a client writes in its conditions
    DayOf(_)        \* the day a text spells as a date, NotNumber if none

\* Stored values and literals have numbers and days, and texts have places.
\* Numbers that differ are printed differently; the converse does not hold, a
\* float64 from a million on is not printed as the int it equals.
ASSUME FilterConstants ==
    /\ \A b \in LiteralValue : b.t # "date"
    /\ \A r \in ChildRecord : \A f \in DOMAIN r \ {"AccountId"} :
            /\ r[f].n \in Int
            /\ r[f].t = "string" => Rank(r[f].text) \in Int /\ DayOf(r[f].text) \in Int
            /\ \A b \in LiteralValue :
                /\ b.n \in Int
                /\ {r[f].t, b.t} \subseteq {"int", "float"} /\ r[f].text = b.text
                        => r[f].n = b.n
                /\ r[f].t = "string" /\ b.t = "string" =>
                    /\ Rank(b.text) \in Int
                    /\ Rank(r[f].text) = Rank(b.text) <=> r[f].text = b.text

\* The half-open range of days [start, end) of a date literal.
DateRange(start, end) == [t |-> "date", start |-> start, end |-> end]

\* compareDateLiteral; day is NotNumber for a field that is no date.
compareDateLiteral(day, op, d) ==
    /\ day # NotNumber
    /\ CASE op = "="  -> d.start <= day /\ day < d.end
         [] op = "!=" -> day < d.start \/ day >= d.end
         [] op = "<"  -> day < d.start
         [] op = "<=" -> day < d.end
         [] op = ">"  -> day >= d.end
         [] op = ">=" -> day >= d.start

\* matchLike: a "%" at either end, and nowhere else.
matchLike(a, p) ==
    LET any(s, k) == s # <<>> /\ s[k] = "%"
        from == IF any(p.text, 1) THEN 2 ELSE 1
        to == IF any(p.text, Len(p.text)) THEN Len(p.text) - 1 ELSE Len(p.text)
        body == SubSeq(p.text, from, to)
    IN  /\ a.t = "string" /\ p.t = "string"
        /\ \E k \in 0 .. Len(a.text) :
            /\ from = 1 => k = 0
            /\ to = Len(p.text) => k = Len(a.text) - Len(body)
            /\ k + Len(body) <= Len(a.text)
            /\ SubSeq(a.text, k + 1, k + Len(body)) = body

\* A bug: NOT IN selects on the first value that differs.
InAny(c, a) == \E k \in DOMAIN c.values : compare(a, IF c.not THEN "!=" ELSE "=", c.values[k])

\* buildInFilter
buildInFilter(c, a) == (\E k \in DOMAIN c.values : compare(a, "=", c.values[k])) # c.not

\* buildComparisonFilter.
buildComparisonFilter(c, a) ==
    IF c.value.t = "date"
    THEN compareDateLiteral(IF a.t = "string" THEN DayOf(a.text) ELSE NotNumber, c.operator, c.value)
    ELSE IF c.operator = "LIKE" THEN matchLike(a, c.value)
    ELSE compare(a, c.operator, c.value)

-----------------------------------------------------------------------------
(* Properties. *)

\* No order between the two: the types are mixed, or one number is printed in
\* two ways.
Unordered(a, b) ==
    \/ ~Comparable(a, b)
    \/ a.t # "string" /\ a.n = b.n /\ a.text # b.text

\* A stored value is below a literal, equal to it or above it, never two of
\* them, and <= and >= take the equal side; the same with the range of a date
\* literal.  Where the types are mixed it is neither below nor above, and at
\* most equal as printed.  Where the number is the same and is printed
\* differently (1000002, stored as 1.000002e+06) none of =, <, >, <= and >=
\* selects it.  NOT IN selects what differs from every value listed
\* (compareLess, compareGreater, valuesEqual, buildInFilter).
FilterDivides ==
    pc = "fetch" =>
    \A i \in DOMAIN children : \A f \in DOMAIN children[i] \ {"AccountId"} :
        LET a == children[i][f]
            in(b, c, not) == buildInFilter([values |-> <<b, c>>, not |-> not], a)
            under(op, b) == buildComparisonFilter([value |-> b, operator |-> op], a)
            divided(b) ==
                /\ Cardinality({op \in {"<", "=", ">"} : under(op, b)}) = 1
                /\ under("<=", b) = ~under(">", b)
                /\ under(">=", b) = ~under("<", b)
                /\ under("!=", b) = ~under("=", b)
            apart(b) ==
                /\ ~under("<", b) /\ ~under(">", b)
                /\ under("<=", b) = under("=", b) /\ under(">=", b) = under("=", b)
                /\ under("!=", b) = ~under("=", b)
                /\ Comparable(a, b) => ~under("=", b)
        IN  /\ \A b \in LiteralValue : IF Unordered(a, b) THEN apart(b) ELSE divided(b)
            /\ a.t = "string" /\ DayOf(a.text) # NotNumber => divided(DateRange(2, 4))
            /\ \A b, c \in LiteralValue :
                in(b, c, TRUE) = (compare(a, "!=", b) /\ compare(a, "!=", c))
=============================================================================
