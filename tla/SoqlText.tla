------------------------------ MODULE SoqlText ------------------------------
(***************************************************************************)
(* Reading a SOQL query: the lexer, the tokens and the recursive-descent   *)
(* parser of internal/soql (lexer.go, token.go, ast.go, parser.go), under  *)
(* a client that writes a query out and then edits it.                     *)
(*                                                                         *)
(* A text is a sequence of pieces: a word of letters, a digit or one other *)
(* character.  Adjacent words and digits run together, as in the lexer.  A *)
(* literal is the pieces it was read from; <<>> is the empty string.  The  *)
(* case of letters is abstracted.  A parser operator takes the tokens and  *)
(* a position and returns [ok, pos, node]: where it stopped, and the tree. *)
(***************************************************************************)
EXTENDS Integers, Sequences, SequencesExt

CONSTANTS
    Statement,   \* the statements a client writes out
    Draft,       \* other texts a client starts from
    Alphabet,    \* the pieces a client inserts
    MaxEdits     \* bound: edits of one text

VARIABLES
    text,    \* the query as sent
    stmt,    \* the statement it was written for, <<>> for a draft
    edits    \* edits made so far

textVars == <<text, stmt, edits>>

-----------------------------------------------------------------------------
(* The lexer. *)

\* The keyword table of token.go.
keywords ==
    {"SELECT", "FROM", "WHERE", "AND", "OR", "NOT", "IN", "LIKE", "NULL", "TRUE",
     "FALSE", "ORDER", "BY", "ASC", "DESC", "LIMIT", "OFFSET", "NULLS", "FIRST",
     "LAST", "GROUP", "HAVING", "AS"}

Digit == {"0", "1", "2"}
Blank == " "
Quote == "'"
Escape == "\\"
Symbol == {"=", "!", "<", ">", ",", ".", ":", "(", ")", "-", Quote, Escape, "#"}
isDigit(c) == c \in Digit
isLetter(c) == c \notin Digit \cup Symbol \cup {Blank, "eof"}

Token(type, literal) == [type |-> type, literal |-> literal]
At(s, p) == IF p \in DOMAIN s THEN s[p] ELSE "eof"

\* The end of the run of pieces from p on that satisfy Within.
RunEnd(s, p, Within(_)) ==
    CHOOSE q \in p .. Len(s) + 1 :
        /\ \A i \in p .. q - 1 : Within(s[i])
        /\ q \in DOMAIN s => ~Within(s[q])

\* readString: the first quote from p on that no backslash of the string
\* precedes; the backslashes stay in the literal.  The end of the text closes
\* a string that is left open.
readString(s, p) ==
    CHOOSE q \in p .. Len(s) + 1 :
        LET closes(i) == s[i] = Quote /\ (i = p \/ s[i - 1] # Escape)
        IN  /\ \A i \in p .. q - 1 : ~closes(i)
            /\ q \in DOMAIN s => closes(q)

\* readNumber: an optional sign, digits, and a point only before a digit.
readNumber(s, p) ==
    LET whole == RunEnd(s, IF s[p] = "-" THEN p + 1 ELSE p, isDigit)
    IN  IF At(s, whole) = "." /\ isDigit(At(s, whole + 1))
        THEN RunEnd(s, whole + 1, isDigit)
        ELSE whole

\* LookupIdent
LookupIdent(literal) ==
    IF Len(literal) = 1 /\ literal[1] \in keywords THEN literal[1] ELSE "IDENT"

\* The comparison operators of two characters; <> is another !=.
Pairs == ("!" :> ("=" :> "!=")) @@ ("<" :> (("=" :> "<=") @@ (">" :> "!=")))
         @@ (">" :> ("=" :> ">="))

\* A bug: the second character of an operator is not looked at.
NextTokenSingle(s, p) ==
    LET c == s[p]
        upto(type, q) == [token |-> Token(type, SubSeq(s, p, q - 1)), next |-> q]
    IN  IF c = Quote
        THEN LET q == readString(s, p + 1)
             IN  [token |-> Token("STRING", SubSeq(s, p + 1, q - 1)), next |-> q + 1]
        ELSE IF isLetter(c)
        THEN LET q == RunEnd(s, p, LAMBDA d : isLetter(d) \/ isDigit(d))
             IN  upto(LookupIdent(SubSeq(s, p, q - 1)), q)
        ELSE IF isDigit(c) \/ (c = "-" /\ isDigit(At(s, p + 1)))
        THEN upto("NUMBER", readNumber(s, p))
        ELSE upto(IF c \in {"!", "-", "#", Escape} THEN "ILLEGAL" ELSE c, p + 1)

\* NextToken: the token that starts at p, no blank, and where the next begins.
NextToken(s, p) ==
    LET c == s[p]
        upto(type, q) == [token |-> Token(type, SubSeq(s, p, q - 1)), next |-> q]
    IN  IF c = Quote
        THEN LET q == readString(s, p + 1)
             IN  [token |-> Token("STRING", SubSeq(s, p + 1, q - 1)), next |-> q + 1]
        ELSE IF isLetter(c)
        THEN LET q == RunEnd(s, p, LAMBDA d : isLetter(d) \/ isDigit(d))
             IN  upto(LookupIdent(SubSeq(s, p, q - 1)), q)
        ELSE IF isDigit(c) \/ (c = "-" /\ isDigit(At(s, p + 1)))
        THEN upto("NUMBER", readNumber(s, p))
        ELSE IF c \in DOMAIN Pairs /\ At(s, p + 1) \in DOMAIN Pairs[c]
        THEN upto(Pairs[c][s[p + 1]], p + 2)
        ELSE upto(IF c \in {"!", "-", "#", Escape} THEN "ILLEGAL" ELSE c, p + 1)

\* The tokens of s from p on.
RECURSIVE LexFrom(_, _)
LexFrom(s, p) ==
    IF p \notin DOMAIN s THEN <<>>
    ELSE IF s[p] = Blank THEN LexFrom(s, p + 1)
    ELSE LET t == NextToken(s, p) IN <<t.token>> \o LexFrom(s, t.next)

Lex(s) == LexFrom(s, 1)

\* Does s leave a string open?
RECURSIVE OpenFrom(_, _)
OpenFrom(s, p) ==
    IF p \notin DOMAIN s THEN FALSE
    ELSE IF s[p] = Blank THEN OpenFrom(s, p + 1)
    ELSE LET t == NextToken(s, p)
         IN  (t.token.type = "STRING" /\ t.next > Len(s) + 1) \/ OpenFrom(s, t.next)

-----------------------------------------------------------------------------
(* Syntax trees. *)

Plain(name) == [relation |-> <<>>, name |-> name, aggregate |-> <<>>, alias |-> <<>>]
Comparison(field, operator, value) ==
    [kind |-> "comparison", field |-> field, operator |-> operator, value |-> value]
In(field, values, not) == [kind |-> "in", field |-> field, values |-> values, not |-> not]
Logical(operator, left, right) ==
    [kind |-> "logical", operator |-> operator, left |-> left, right |-> right]
Not(condition) == [kind |-> "not", condition |-> condition]
Value(kind, literal, n) == [kind |-> kind, literal |-> literal, n |-> n]
OrderField(field, descending, nulls) ==
    [field |-> field, descending |-> descending, nulls |-> nulls]

\* A clause is <<>> when it is absent and a sequence of one node when present;
\* the list clauses are the sequence itself.
Clauses == <<"WHERE", "GROUP", "HAVING", "ORDER", "LIMIT", "OFFSET">>
SubClauses == <<"WHERE", "ORDER", "LIMIT", "OFFSET">>
NoClauses == [c \in Range(Clauses) |-> <<>>]

isAggregateName(literal) ==
    literal \in {<<a>> : a \in {"COUNT", "COUNT_DISTINCT", "SUM", "AVG", "MIN", "MAX"}}
simpleDateLiterals == {<<"TODAY">>, <<"LAST_WEEK">>}
paramDateLiterals == {<<"LAST_N_DAYS">>}

Operators == {"=", "!=", "<", "<=", ">", ">="}

\* The number a literal spells, 0 when it is no integer (strconv.Atoi with its
\* error dropped).
Atoi(literal) ==
    LET digit(c) == CASE c = "0" -> 0 [] c = "1" -> 1 [] c = "2" -> 2
        magnitude(s) == FoldLeft(LAMBDA n, c : 10 * n + digit(c), 0, s)
    IN  IF "." \in Range(literal) THEN 0
        ELSE IF literal[1] = "-" THEN -magnitude(Tail(literal)) ELSE magnitude(literal)

-----------------------------------------------------------------------------
(* The parser. *)

Ok(p, node) == [ok |-> TRUE, pos |-> p, node |-> node]
Fail(p) == [ok |-> FALSE, pos |-> p, node |-> <<>>]
Then(r, Continue(_)) == IF r.ok THEN Continue(r) ELSE r

Type(ts, p) == IF p \in DOMAIN ts THEN ts[p].type ELSE "EOF"
Literal(ts, p) == IF p \in DOMAIN ts THEN ts[p].literal ELSE <<>>

\* expectCurrent after r, and the tokens's consumption.
Expect(ts, type, r) ==
    Then(r, LAMBDA x : IF Type(ts, x.pos) = type THEN Ok(x.pos + 1, x.node) ELSE Fail(x.pos))

parseField(ts, p) ==
    IF Type(ts, p) # "IDENT" THEN Fail(p)
    ELSE IF Type(ts, p + 1) # "." THEN Ok(p + 1, Plain(Literal(ts, p)))
    ELSE IF Type(ts, p + 2) # "IDENT" THEN Fail(p + 2)
    ELSE Ok(p + 3, [Plain(Literal(ts, p + 2)) EXCEPT !.relation = Literal(ts, p)])

parseFieldOrAggregate(ts, p) ==
    LET name == Literal(ts, p)
        called == [Plain(<<>>) EXCEPT !.aggregate = name]
    IN  IF ~(Type(ts, p) = "IDENT" /\ Type(ts, p + 1) = "(" /\ isAggregateName(name))
        THEN parseField(ts, p)
        ELSE IF Type(ts, p + 2) = ")"
        THEN IF name = <<"COUNT">> THEN Ok(p + 3, called) ELSE Fail(p + 2)
        ELSE Expect(ts, ")",
               Then(parseField(ts, p + 2), LAMBDA inner :
                    Ok(inner.pos, [inner.node EXCEPT !.aggregate = name])))

parseSelectField(ts, p) ==
    Then(parseFieldOrAggregate(ts, p), LAMBDA f :
        LET aliased(q) == Ok(q + 1, [f.node EXCEPT !.alias = Literal(ts, q)])
        IN  IF Type(ts, f.pos) = "AS"
            THEN IF Type(ts, f.pos + 1) = "IDENT" THEN aliased(f.pos + 1) ELSE Fail(f.pos + 1)
            ELSE IF Type(ts, f.pos) = "IDENT" THEN aliased(f.pos) ELSE f)

parseValue(ts, p) ==
    LET literal == Literal(ts, p)
        type == Type(ts, p)
    IN  IF type = "STRING" THEN Ok(p + 1, Value("string", literal, 0))
        ELSE IF type = "NUMBER"
        THEN Ok(p + 1, IF "." \in Range(literal) THEN Value("float", literal, 0)
                       ELSE Value("int", <<>>, Atoi(literal)))
        ELSE IF type \in {"TRUE", "FALSE", "NULL"} THEN Ok(p + 1, Value(type, <<>>, 0))
        ELSE IF type = "IDENT" /\ literal \in simpleDateLiterals
        THEN Ok(p + 1, Value("date", literal, 0))
        ELSE IF type = "IDENT" /\ literal \in paramDateLiterals
             /\ Type(ts, p + 1) = ":" /\ Type(ts, p + 2) = "NUMBER"
             /\ "." \notin Range(Literal(ts, p + 2)) /\ Atoi(Literal(ts, p + 2)) >= 0
        THEN Ok(p + 3, Value("date", literal, Atoi(Literal(ts, p + 2))))
        ELSE Fail(p)

\* One element of an ORDER BY list.
parseOrderField(ts, p) ==
    Then(parseFieldOrAggregate(ts, p), LAMBDA f :
        LET descending == Type(ts, f.pos) = "DESC"
            q == IF Type(ts, f.pos) \in {"ASC", "DESC"} THEN f.pos + 1 ELSE f.pos
            node(nulls) == OrderField(f.node, descending, nulls)
        IN  IF Type(ts, q) # "NULLS" THEN Ok(q, node("default"))
            ELSE IF Type(ts, q + 1) \in {"FIRST", "LAST"}
            THEN Ok(q + 2, node(Type(ts, q + 1)))
            ELSE Ok(q + 1, node("default")))

\* A bug: the operands of a connective are swapped.
JoinSwapped(ts, r, right) == Ok(right.pos, Logical(Type(ts, r.pos), right.node, r.node))

\* One step of parseCondition's loop: a connective, and the condition after it
\* joined to all that was read before.
Join(ts, r, right) == Ok(right.pos, Logical(Type(ts, r.pos), r.node, right.node))

RECURSIVE parseList(_, _, _), parseSelectItem(_, _), parseCondition(_, _),
          parseConditionRest(_, _), parseSimpleCondition(_, _), parseClause(_, _, _),
          parseClauses(_, _, _)

\* The comma-separated lists: SELECT fields, fields, values and ORDER BY.
parseList(element, ts, p) ==
    LET first == CASE element = "select"   -> parseSelectItem(ts, p)
                   [] element = "field"    -> parseField(ts, p)
                   [] element = "value"    -> parseValue(ts, p)
                   [] element = "order"    -> parseOrderField(ts, p)
    IN  Then(first, LAMBDA r :
            IF Type(ts, r.pos) # "," THEN Ok(r.pos, <<r.node>>)
            ELSE Then(parseList(element, ts, r.pos + 1),
                      LAMBDA rest : Ok(rest.pos, <<r.node>> \o rest.node)))

parseCondition(ts, p) ==
    Then(parseSimpleCondition(ts, p), LAMBDA left : parseConditionRest(ts, left))

parseConditionRest(ts, left) ==
    IF Type(ts, left.pos) \notin {"AND", "OR"} THEN left
    ELSE Then(parseSimpleCondition(ts, left.pos + 1),
              LAMBDA right : parseConditionRest(ts, Join(ts, left, right)))

\* The comparison of parseSimpleCondition, after its field.
parseComparison(ts, f) ==
    LET not == Type(ts, f.pos) = "NOT"
        q == IF not THEN f.pos + 1 ELSE f.pos
    IN  IF Type(ts, q) = "IN"
        THEN IF Type(ts, q + 1) # "(" THEN Fail(q + 1)
             ELSE Expect(ts, ")", Then(parseList("value", ts, q + 2),
                    LAMBDA vs : Ok(vs.pos, In(f.node, vs.node, not))))
        ELSE IF not \/ Type(ts, q) \notin Operators \cup {"LIKE"} THEN Fail(q)
        ELSE Then(parseValue(ts, q + 1),
                  LAMBDA v : Ok(v.pos, Comparison(f.node, Type(ts, q), v.node)))

parseSimpleCondition(ts, p) ==
    IF Type(ts, p) = "NOT"
    THEN Then(parseSimpleCondition(ts, p + 1), LAMBDA c : Ok(c.pos, Not(c.node)))
    ELSE IF Type(ts, p) = "(" THEN Expect(ts, ")", parseCondition(ts, p + 1))
    ELSE Then(parseFieldOrAggregate(ts, p), LAMBDA f : parseComparison(ts, f))

\* The body of clause c, whose keyword is at p.
parseClause(c, ts, p) ==
    IF c \in {"WHERE", "HAVING"}
    THEN Then(parseCondition(ts, p + 1), LAMBDA x : Ok(x.pos, <<x.node>>))
    ELSE IF c \in {"LIMIT", "OFFSET"}
    THEN IF Type(ts, p + 1) # "NUMBER" THEN Fail(p + 1)
         ELSE Ok(p + 2, <<Atoi(Literal(ts, p + 1))>>)
    ELSE IF Type(ts, p + 1) # "BY" THEN Fail(p + 1)
    ELSE parseList(IF c = "GROUP" THEN "field" ELSE "order", ts, p + 2)

\* The optional clauses cs in their order; what comes after them is not read.
parseClauses(cs, ts, r) ==
    IF cs = <<>> \/ ~r.ok THEN r
    ELSE IF Type(ts, r.pos) # Head(cs) THEN parseClauses(Tail(cs), ts, r)
    ELSE Then(parseClause(Head(cs), ts, r.pos), LAMBDA x :
            parseClauses(Tail(cs), ts, Ok(x.pos, [r.node EXCEPT ![Head(cs)] = x.node])))

\* SELECT list FROM name clauses, from the token after SELECT on.
parseSelect(list, cs, ts, p) ==
    Then(Expect(ts, "FROM", parseList(list, ts, p)), LAMBDA from :
        IF Type(ts, from.pos) # "IDENT" THEN Fail(from.pos)
        ELSE Then(parseClauses(cs, ts, Ok(from.pos + 1, NoClauses)), LAMBDA r :
                Ok(r.pos, [fields |-> from.node, object |-> Literal(ts, from.pos),
                           clauses |-> r.node])))

parseSubQuery(ts, p) == Expect(ts, ")", parseSelect("field", SubClauses, ts, p + 2))

\* An element of the SELECT list: a field or a parenthesised subquery.
parseSelectItem(ts, p) ==
    IF Type(ts, p) = "(" /\ Type(ts, p + 1) = "SELECT"
    THEN parseSubQuery(ts, p)
    ELSE parseSelectField(ts, p)

Parse(ts) ==
    IF Type(ts, 1) # "SELECT" THEN Fail(1) ELSE parseSelect("select", Clauses, ts, 2)

-----------------------------------------------------------------------------
(* How a client writes a statement: the reference the parser is held to. *)

Comma(parts) == FoldLeft(LAMBDA s, w : IF s = <<>> THEN w ELSE s \o <<",">> \o w, <<>>, parts)

RECURSIVE Number(_)
Number(n) ==
    IF n < 0 THEN <<"-">> \o Number(-n)
    ELSE IF n < 10 THEN <<<<"0", "1", "2">>[n + 1]>>
    ELSE Number(n \div 10) \o Number(n % 10)

WriteField(f) ==
    LET named == IF f.relation = <<>> THEN f.name ELSE f.relation \o <<".">> \o f.name
    IN  (IF f.aggregate = <<>> THEN named ELSE f.aggregate \o <<"(">> \o named \o <<")">>)
        \o (IF f.alias = <<>> THEN <<>> ELSE <<Blank, "AS", Blank>> \o f.alias)

WriteValue(v) ==
    CASE v.kind = "string" -> <<Quote>> \o v.literal \o <<Quote>>
      [] v.kind = "float" -> v.literal
      [] v.kind = "int" -> Number(v.n)
      [] v.kind \in {"TRUE", "FALSE", "NULL"} -> <<v.kind>>
      [] v.kind = "date" -> IF v.literal \in paramDateLiterals
                            THEN v.literal \o <<":">> \o Number(v.n) ELSE v.literal

WriteOperator(op) ==
    CASE op \in {"=", "<", ">"} -> <<op>>
      [] op = "!=" -> <<"<", ">">>
      [] op = "<=" -> <<"<", "=">>
      [] op = ">=" -> <<">", "=">>
      [] op = "LIKE" -> <<Blank, "LIKE", Blank>>

RECURSIVE WriteCondition(_)
\* Every operand that is itself a combination stands in parentheses.
WriteCondition(c) ==
    LET operand(d) == IF d.kind = "logical" THEN <<"(">> \o WriteCondition(d) \o <<")">>
                      ELSE WriteCondition(d)
    IN  CASE c.kind = "comparison" ->
                WriteField(c.field) \o WriteOperator(c.operator) \o WriteValue(c.value)
          [] c.kind = "in" ->
                WriteField(c.field) \o (IF c.not THEN <<Blank, "NOT">> ELSE <<>>)
                \o <<Blank, "IN", "(">>
                \o Comma([i \in DOMAIN c.values |-> WriteValue(c.values[i])]) \o <<")">>
          [] c.kind = "logical" ->
                operand(c.left) \o <<Blank, c.operator, Blank>> \o operand(c.right)
          [] c.kind = "not" -> <<"NOT", Blank>> \o operand(c.condition)

WriteOrder(o) ==
    WriteField(o.field) \o (IF o.descending THEN <<Blank, "DESC">> ELSE <<>>)
    \o (IF o.nulls = "default" THEN <<>> ELSE <<Blank, "NULLS", Blank, o.nulls>>)

WriteClause(c, node) ==
    IF node = <<>> THEN <<>>
    ELSE <<Blank, c, Blank>> \o
        CASE c \in {"WHERE", "HAVING"} -> WriteCondition(node[1])
          [] c \in {"LIMIT", "OFFSET"} -> Number(node[1])
          [] c = "GROUP" -> <<"BY", Blank>> \o Comma([i \in DOMAIN node |-> WriteField(node[i])])
          [] c = "ORDER" -> <<"BY", Blank>> \o Comma([i \in DOMAIN node |-> WriteOrder(node[i])])

RECURSIVE Write(_)
\* The text of a statement or subquery.
Write(s) ==
    LET item(f) == IF "object" \in DOMAIN f THEN <<"(">> \o Write(f) \o <<")">>
                   ELSE WriteField(f)
    IN  <<"SELECT", Blank>> \o Comma([i \in DOMAIN s.fields |-> item(s.fields[i])])
        \o <<Blank, "FROM", Blank>> \o s.object
        \o FoldLeft(LAMBDA acc, c : acc \o WriteClause(c, s.clauses[c]), <<>>, Clauses)

-----------------------------------------------------------------------------
(* The client. *)

TextInit ==
    /\ edits = 0
    /\ \/ \E s \in Statement : stmt = s /\ text = Write(s)
       \/ stmt = <<>> /\ text \in Draft

\* A piece is inserted, removed, or exchanged with the next one.
Edit ==
    /\ edits < MaxEdits
    /\ edits' = edits + 1
    /\ \/ \E p \in 1 .. Len(text) + 1, c \in Alphabet : text' = InsertAt(text, p, c)
       \/ \E p \in DOMAIN text : text' = RemoveAt(text, p)
       \/ \E p \in 1 .. Len(text) - 1 :
            text' = [text EXCEPT ![p] = text[p + 1], ![p + 1] = text[p]]
    /\ stmt' = stmt

TextSpec == TextInit /\ [][Edit]_textVars

-----------------------------------------------------------------------------
(* Properties. *)

Closed == ~OpenFrom(text, 1)

\* What a client writes is what the parser reads: every clause, alias, literal
\* and parenthesis of a statement comes back, and nothing of its text is left
\* over (Parse and everything under it, NextToken).
RoundTrip(ts, tree) == edits = 0 /\ stmt # <<>> => tree = Ok(Len(ts) + 1, stmt)

\* An accepted text, however it came about, means what its tree says: writing
\* the tree out and reading it again changes nothing.  No tree is built that
\* no statement has (parseClauses, parseSelectField, parseOrderField).
AcceptedReadsBack(tree) ==
    tree.ok /\ Closed => \A again \in {Parse(Lex(Write(tree.node)))} :
                            again.ok /\ again.node = tree.node

\* Statements and their trees are two writings of one thing, for texts written
\* as for texts that came about by edits.
ReadsBack ==
    \A ts \in {Lex(text)} : \A tree \in {Parse(ts)} :
        RoundTrip(ts, tree) /\ AcceptedReadsBack(tree)

RECURSIVE Truth(_, _)
\* The value of a condition whose comparisons hold exactly on the fields of T.
Truth(c, T) ==
    CASE c.kind \in {"comparison", "in"} -> c.field.name \in T
      [] c.kind = "not" -> ~Truth(c.condition, T)
      [] c.kind = "logical" -> IF c.operator = "AND"
                               THEN Truth(c.left, T) /\ Truth(c.right, T)
                               ELSE Truth(c.left, T) \/ Truth(c.right, T)

\* parseCondition "handles AND/OR precedence" (parser.go:358): a chain of
\* comparisons is a disjunction of conjunctions.  The drafts are such chains,
\* four tokens to a comparison and its connective, after SELECT a FROM o WHERE.
AndBindsTighter ==
    \A ts \in {Lex(text)} : \A tree \in {Parse(ts)} :
    edits = 0 /\ stmt = <<>> /\ tree.ok /\ tree.node.clauses["WHERE"] # <<>> =>
        LET n == (Len(ts) - 4) \div 4
            atom(i) == ts[4 * i + 2].literal
            joined(i) == i \in 1 .. n - 1 /\ ts[4 * i + 5].type = "AND"
        IN  \A T \in SUBSET {atom(i) : i \in 1 .. n} :
                Truth(tree.node.clauses["WHERE"][1], T) =
                    \E i, j \in 1 .. n :
                        /\ i <= j /\ ~joined(i - 1) /\ ~joined(j)
                        /\ \A k \in i .. j : atom(k) \in T /\ (k < j => joined(k))
=============================================================================
