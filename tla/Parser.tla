-------------------------------- MODULE Parser --------------------------------
(***************************************************************************)
(* The recursive-descent parser (pass/parse): types, patterns, expressions *)
(* by precedence climbing, statements, functions and declarations.  Each   *)
(* operator is one parse_* function.  Two operators stand for the loops:   *)
(* ItemList for `do item while match(sep)`, and Loop for `while not at the *)
(* closing token nor at the end`.  Parse calls a construct, an item or a   *)
(* round by its name: it is the one point through which they recur.        *)
(***************************************************************************)
EXTENDS ParserBase

RECURSIVE Parse(_, _), ItemList(_, _, _, _), Loop(_, _, _),
          Interpolation(_, _), SpeculativeArgs(_, _), PostfixLoop(_, _),
          ParsePrecedence(_, _), InfixLoop(_, _, _), WhereList(_), UsePath(_, _)

(***************************************************************************)
(* Loops.                                                                  *)
(***************************************************************************)

\* Items separated by sep; after a separator the list may also end at stops.
\* An item that is None is left out.
ItemList(p, what, sep, stops) ==
    LET r    == Parse(p, what)
        this == IF r.n = None THEN <<>> ELSE <<r.n>>
        next == Advance(r.p)
        rest == ItemList(next, what, sep, stops)
    IN  IF ~At(r.p, sep) THEN R(r.p, this)
        ELSE IF AtAny(next, stops) THEN R(next, this)
        ELSE R(rest.p, this \o rest.n)

Commas(p, what) == ItemList(p, what, ",", {})

\* A possibly empty list up to its closing token, which is expected.
ListTo(p, what, close) ==
    IF At(p, close) THEN R(Advance(p), <<>>)
    ELSE LET l == Commas(p, what) IN R(Expect(l.p, close), l.n)

\* The same in braces, over several lines.
Braced(p, what) ==
    LET q == SkipNewlines(Expect(p, "{"))
        l == IF At(q, "}") THEN R(q, <<>>) ELSE Commas(q, what)
    IN  R(Expect(SkipNewlines(l.p), "}"), l.n)

\* A round that leaves the parser where it was is repeated for ever.
Loop(p, what, acc) ==
    LET r    == Parse(p, what)
        acc2 == IF r.n = None THEN acc ELSE Append(acc, r.n)
    IN  IF AtAny(p, {"}", "EOF"}) THEN R(p, acc)
        ELSE IF r.p.pos = p.pos THEN R([r.p EXCEPT !.hung = TRUE], acc)
        ELSE Loop(r.p, what, acc2)

(***************************************************************************)
(* Types (parse_type.c).                                                   *)
(***************************************************************************)
TypeName(name, args) == N("TYPE_NAME", <<name>>, args)

\* Fn, FnMut and fn types: the keyword or name is followed by a parenthesis.
ParseFnType(p) ==
    LET l   == ListTo(Advance(Advance(p)), "type", ")")
        ret == Parse(Advance(l.p), "type")
    IN  IF At(l.p, "->") THEN R(ret.p, N("TYPE_FN", <<Lexeme(p)>>, l.n \o <<ret.n>>))
        ELSE R(l.p, N("TYPE_FN", <<Lexeme(p)>>, l.n \o <<None>>))

ParseBracketType(p) ==
    LET q     == Advance(p)
        slice == Parse(Advance(q), "type")
        array == Parse(Expect(Advance(q), "]"), "type")
    IN  CASE At(q, "]") -> R(slice.p, List("TYPE_SLICE", <<slice.n>>))
          [] AtAny(q, {"INTEGER_LIT", "ID"}) ->
                R(array.p, N("TYPE_ARRAY", <<Lexeme(q)>>, <<array.n>>))
          [] OTHER -> R(Err(q), Inferred)

ParseTupleType(p) ==
    LET l == ItemList(Advance(p), "type", ",", {")"})
    IN  IF Ahead(p, 1) = ")" THEN R(Advance(Advance(p)), TypeName("unit", <<>>))
        ELSE R(Expect(l.p, ")"), List("TYPE_TUPLE", l.n))

\* T!E is Result<T, E>.  Only the named types come through here.
ResultPostfix(r) ==
    LET e == Parse(Advance(r.p), "type")
    IN  IF At(r.p, "!") THEN R(e.p, TypeName("Result", <<r.n, e.n>>)) ELSE r

ParseNamedType(p) ==
    LET q    == Advance(p)
        args == Commas(Advance(q), "typeArg")
    IN  IF ~AtAny(p, TypeKeywords \cup {"ID", "Self"}) THEN R(Err(p), Inferred)
        ELSE IF At(q, "::")
        THEN ResultPostfix(R(Expect(Advance(q), "ID"),
                             N("TYPE_ASSOC", <<Lexeme(p), Lexeme(Advance(q))>>, <<>>)))
        ELSE IF At(q, "<")
        THEN ResultPostfix(R(Expect(args.p, ">"), TypeName(Lexeme(p), args.n)))
        ELSE ResultPostfix(R(q, TypeName(Lexeme(p), <<>>)))

ParseType(p) ==
    LET inner == Parse(Advance(p), "type")
    IN  CASE At(p, "?") -> R(inner.p, TypeName("Option", <<inner.n>>))
          [] At(p, "*") -> R(inner.p, List("TYPE_PTR", <<inner.n>>))
          [] At(p, "[") -> ParseBracketType(p)
          [] At(p, "(") -> ParseTupleType(p)
          [] Lexeme(p) \in {"fn", "Fn", "FnMut"} /\ AtAny(p, {"fn", "ID"})
             /\ Ahead(p, 1) = "(" -> ParseFnType(p)
          [] OTHER -> ParseNamedType(p)

\* An optional `: Type`, and an optional `= Type`; None when absent.
OptType(p, mark, absent) ==
    IF At(p, mark) THEN Parse(Advance(p), "type") ELSE R(p, absent)

(***************************************************************************)
(* Patterns and match (parse_match.c).                                     *)
(***************************************************************************)
LitPattern(text) == N("PATTERN_LIT", <<text>>, <<>>)

ParseIntPattern(p) ==
    LET q == Advance(p)
    IN  IF AtAny(q, {"..", "..="})
        THEN R(Expect(Advance(q), "INTEGER_LIT"),
               N("PATTERN_RANGE", <<Lexeme(p), Lexeme(q), Lexeme(Advance(q))>>, <<>>))
        ELSE R(q, LitPattern(Lexeme(p)))

ParseIdPattern(p) ==
    LET q    == Advance(p)
        subs == ListTo(Advance(q), "pattern", ")")
        flds == Braced(q, "fieldName")
    IN  CASE At(q, "(") -> R(subs.p, N("PATTERN_VARIANT_TUPLE", <<Lexeme(p)>>, subs.n))
          [] At(q, "{") -> R(flds.p, N("PATTERN_VARIANT_STRUCT", <<Lexeme(p)>>, flds.n))
          [] OTHER -> R(q, N("PATTERN_BINDING", <<Lexeme(p)>>, <<>>))

Wildcard == Leaf("PATTERN_WILDCARD")

\* A pattern that is none is reported and read as a wildcard; a parenthesis
\* and a minus are consumed before that is known.
ParsePattern(p) ==
    LET q == Advance(p)
    IN  CASE At(p, "ID") /\ Lexeme(p) = "_" -> R(q, Wildcard)
          [] AtAny(p, {"unit", "true", "false", "STR_LIT", "FLOAT_LIT"}) ->
                R(q, LitPattern(Lexeme(p)))
          [] At(p, "(") -> IF At(q, ")") THEN R(Advance(q), LitPattern("unit"))
                           ELSE R(Err(q), Wildcard)
          [] At(p, "INTEGER_LIT") -> ParseIntPattern(p)
          [] At(p, "-") -> CASE At(q, "INTEGER_LIT") -> R(Advance(q), LitPattern("-" \o Lexeme(q)))
                             [] At(q, "FLOAT_LIT") -> R(Err(Advance(q)), LitPattern(Lexeme(q)))
                             [] At(q, "ID") -> ParseIdPattern(Err(q))
                             [] OTHER -> R(Err(Err(q)), Wildcard)
          [] At(p, "ID") /\ Lexeme(p) # "_" -> ParseIdPattern(p)
          [] OTHER -> R(Err(p), Wildcard)

ParseMatch(p) ==
    LET operand == Parse(Expect(p, "match"), "expr")
        open    == SkipNewlines(Expect(SkipNewlines(operand.p), "{"))
        arms    == Loop(open, "arm", <<>>)
    IN  R(Expect(arms.p, "}"), List("MATCH", <<operand.n>> \o arms.n))

\* pattern [if guard] => body, and an optional comma.
ParseArm(p) ==
    LET pat   == Parse(p, "pattern")
        guard == IF At(pat.p, "if") THEN Parse(Advance(pat.p), "expr") ELSE R(pat.p, None)
        body  == Parse(Expect(guard.p, "=>"), "expr")
    IN  R(SkipNewlines(Match(body.p, ",")), List("ARM", <<pat.n, guard.n, body.n>>))

(***************************************************************************)
(* Expressions (parse_expr.c).                                             *)
(***************************************************************************)
Lit(kind, text) == N("LIT", <<kind, text>>, <<>>)
Id(name)        == N("ID", <<name>>, <<>>)

\* The node left where an expression was expected.
ErrorLit == Leaf("LIT_ERROR")

\* After a text segment: ({ expr } text)*.
Interpolation(p, parts) ==
    LET e == Parse(Advance(p), "expr")
        q == Expect(e.p, "INTERPOLATION_END")
        s == Expect(q, "STR_LIT")
    IN  IF ~At(p, "INTERPOLATION_START") THEN R(p, List("STR_INTERPOLATION", parts))
        ELSE Interpolation(s, parts \o <<e.n, Lit("STR", s.ts[s.pos - 1].lex)>>)

\* Looking past newlines, does `{ }` or `{ name = ...` follow?
IsStructLitAhead(p) ==
    LET skip(q) == SkipKinds(q, {"NEWLINE"})
        q1 == skip(Advance(p))
    IN  /\ At(p, "{")
        /\ \/ At(q1, "}")
           \/ At(q1, "ID") /\ At(skip(Advance(q1)), "=")

ParseStructLit(p, name, targs) ==
    LET f == Braced(p, "field") IN R(f.p, N("STRUCT_LIT", <<name>>, <<targs>> \o f.n))

ParseEnumStructLit(p, member, targs) ==
    LET f == Braced(p, "field")
    IN  R(f.p, N("ENUM_INIT", <<member.c[1].a[1], member.a[1]>>, <<targs>> \o f.n))

\* []T{..}, [N]T{..} or [..].  An empty [] that no type follows is an array.
ParseArrayLit(p) ==
    LET q     == Advance(p)
        start == TypeKeywords \cup {"ID", "fn"}
        typed(pt, kind, name) ==
            LET t == Parse(pt, "type")
                l == ListTo(Expect(t.p, "{"), "elem", "}")
            IN  R(l.p, N(kind, <<name>>, <<t.n>> \o l.n))
        l == ListTo(q, "elem", "]")
    IN  IF At(q, "]") /\ Ahead(q, 1) \in start \cup {"["}
        THEN typed(Advance(q), "SLICE_LIT", "")
        ELSE IF At(q, "INTEGER_LIT") /\ Ahead(q, 1) = "]" /\ Ahead(q, 2) \in start
        THEN typed(Advance(Advance(q)), "ARRAY_LIT", Lexeme(q))
        ELSE R(l.p, N("ARRAY_LIT", <<ToString(Len(l.n))>>, <<Inferred>> \o l.n))

\* |params| [-> T] body: a body that is no block stops before a pipe.
ParseClosure(p) ==
    LET open   == Advance(p)
        params == Commas(open, "closureParam")
        ps     == CASE At(p, "||") -> R(open, <<>>)
                    [] At(p, "|") /\ At(open, "|") -> R(Advance(open), <<>>)
                    [] OTHER -> R(Expect(params.p, "|"), params.n)
        ret    == OptType(ps.p, "->", Inferred)
        body   == IF At(ret.p, "{") THEN Parse(ret.p, "block")
                  ELSE ParsePrecedence(ret.p, PipeLevel + 1)
    IN  R(body.p, List("CLOSURE", <<List("PARAMS", ps.n), ret.n, body.n>>))

ParseParen(p) ==
    LET q     == Advance(p)
        first == Parse(q, "expr")
        rest  == ListTo(Advance(first.p), "elem", ")")
    IN  IF At(q, ")") THEN R(Advance(q), Lit("UNIT", "unit"))
        ELSE IF At(first.p, ",") THEN R(rest.p, List("TUPLE_LIT", <<first.n>> \o rest.n))
        ELSE R(Expect(first.p, ")"), first.n)

LitKinds == "INTEGER_LIT" :> "I32" @@ "FLOAT_LIT" :> "F64" @@ "CHAR_LIT" :> "CHAR"
    @@ "STR_LIT" :> "STR" @@ "true" :> "BOOL" @@ "false" :> "BOOL" @@ "unit" :> "UNIT"

ParseTypeConversion(p) ==
    LET e == Parse(Advance(Advance(p)), "expr")
    IN  R(Expect(e.p, ")"), N("TYPE_CONVERSION", <<Lexeme(p)>>, <<e.n>>))

\* A token no expression starts with is reported and skipped.
ParsePrimary(p) ==
    LET q == Advance(p)
    IN  CASE At(p, "STR_LIT") /\ At(q, "INTERPOLATION_START") ->
                Interpolation(q, <<Lit("STR", Lexeme(p))>>)
          [] AtAny(p, DOMAIN LitKinds) /\ ~(At(p, "STR_LIT") /\ At(q, "INTERPOLATION_START")) ->
                R(q, Lit(LitKinds[Tok(p).kind], Lexeme(p)))
          [] AtAny(p, TypeKeywords \ {"unit"}) /\ Ahead(p, 1) = "(" -> ParseTypeConversion(p)
          [] AtAny(p, {"ID", "Self"}) -> R(q, Id(Lexeme(p)))
          [] At(p, "[") -> ParseArrayLit(p)
          [] At(p, "(") -> ParseParen(p)
          [] At(p, "if") -> Parse(p, "if")
          [] At(p, "loop") -> Parse(p, "stmt")
          [] At(p, "{") -> Parse(p, "block")
          [] AtAny(p, {"|", "||"}) -> ParseClosure(p)
          [] OTHER -> R(Advance(Err(p)), ErrorLit)

\* A call holds its callee, its type arguments, its arguments with their name
\* and mut flag, and, in a buffer of their own, the spread flags.
Call(callee, targs, args, spread) ==
    N("CALL", spread, <<callee, targs, List("ARGS", args)>>)
Arg(name, mut, value) == N("ARG", <<name, mut>>, <<value>>)

\* l.n are pairs of an argument and its spread flag.
ParseCallArgs(p, callee, targs) ==
    LET l == ListTo(p, "arg", ")")
    IN  R(l.p, Call(callee, targs, [i \in DOMAIN l.n |-> l.n[i].c[1]],
                    [i \in DOMAIN l.n |-> l.n[i].a[1]]))

\* [mut] [..] [name =] value
ParseArg(p) ==
    LET q0     == SkipNewlines(p)
        q1     == Match(q0, "mut")
        q2     == Match(q1, "..")
        spread == Flag("..", At(q1, ".."))
        named  == ~At(q1, "..") /\ At(q2, "ID") /\ Ahead(q2, 1) = "="
        v      == Parse(IF named THEN Advance(Advance(q2)) ELSE q2, "expr")
    IN  R(v.p, N("ARG_SPREAD", <<spread>>,
                 <<Arg(Flag(Lexeme(q2), named), Flag("mut", At(q0, "mut")), v.n)>>))

\* Name<T, ..> before a call, a struct literal or an enum access.  Only the
\* position goes back when it is none of them: the errors reported while
\* reading the would-be types stay.
TypeArgStart == TypeKeywords \cup {"ID", "[", "(", "*", "INTEGER_LIT"}

\* The type arguments up to `>`; None when this cannot be a list of types.
SpeculativeArgs(p, args) ==
    LET t == Parse(p, "typeArg")
    IN  CASE ~AtAny(p, TypeArgStart) -> R(p, None)
          [] AtAny(p, TypeArgStart) /\ At(t.p, ">") ->
                R(Advance(t.p), List("TYPE_ARGS", Append(args, t.n)))
          [] AtAny(p, TypeArgStart) /\ At(t.p, ",") ->
                SpeculativeArgs(Advance(t.p), Append(args, t.n))
          [] OTHER -> R(t.p, None)

\* What follows the type arguments targs of left; back is the state to go back
\* to when it is not what follows a generic name.
AfterTypeArgs(q, left, targs, back) ==
    LET member == N("MEMBER", <<Lexeme(Advance(q))>>, <<left>>)
        after  == Expect(Advance(q), "ID")
    IN  CASE At(q, "(") -> ParseCallArgs(Advance(q), left, targs)
          [] IsStructLitAhead(q) -> ParseStructLit(q, left.a[1], targs)
          [] At(q, "::") ->
                IF At(after, "(") THEN ParseCallArgs(Advance(after), member, targs)
                ELSE IF IsStructLitAhead(after) THEN ParseEnumStructLit(after, member, targs)
                ELSE R(after, Call(member, targs, <<>>, <<>>))
          [] OTHER -> R(back, None)

ParseGenericPostfix(p, left) ==
    LET targs == SpeculativeArgs(Advance(p), <<>>)
        back  == [p EXCEPT !.errs = targs.p.errs]
    IN  IF targs.n = None THEN R(back, None) ELSE AfterTypeArgs(targs.p, left, targs.n, back)

\* object[i], object[a..b] and their shorter forms; `[` has been consumed.
ParseIndexOrSlice(p, object) ==
    LET start == IF At(p, "..") THEN R(p, None) ELSE Parse(p, "expr")
        q     == Advance(start.p)
        end   == IF At(q, "]") THEN R(q, None) ELSE Parse(q, "expr")
    IN  IF At(start.p, "..")
        THEN R(Expect(end.p, "]"), List("SLICE_EXPR", <<object, start.n, end.n>>))
        ELSE R(Expect(start.p, "]"), List("IDX", <<object, start.n>>))

\* The tokens after which an exclamation mark is the postfix operator.
TryFollow == {"NEWLINE", ";", ")", "}", "]", ",", "EOF", ".", "?."}

IsPath(n) == n.k = "MEMBER" /\ n.c[1].k = "ID"
NoTypeArgs == List("TYPE_ARGS", <<>>)

\* A postfix that turned out to be none ends the loop.
GoOn(r, left) == IF r.n = None THEN R(r.p, left) ELSE PostfixLoop(r.p, r.n)

ParsePostfix(p, left) ==
    LET q == Advance(p)
        member(kind) == R(Expect(q, "ID"), N(kind, <<Lexeme(q)>>, <<left>>))
    IN  CASE ~p.nsl /\ left.k = "ID" /\ IsStructLitAhead(p) ->
                ParseStructLit(p, left.a[1], NoTypeArgs)
          [] ~p.nsl /\ IsPath(left) /\ IsStructLitAhead(p) ->
                ParseEnumStructLit(p, left, NoTypeArgs)
          [] left.k = "ID" /\ At(p, "<") -> ParseGenericPostfix(p, left)
          [] At(p, "(") -> ParseCallArgs(q, left, NoTypeArgs)
          [] At(p, "[") -> ParseIndexOrSlice(q, left)
          [] At(p, ".") -> IF At(q, "INTEGER_LIT")
                           THEN R(Advance(q), N("MEMBER", <<Lexeme(q)>>, <<left>>))
                           ELSE member("MEMBER")
          [] At(p, "::") -> member("MEMBER")
          [] At(p, "?.") -> member("OPTIONAL_CHAIN")
          [] At(p, "!") /\ Ahead(p, 1) \in TryFollow -> R(q, List("TRY", <<left>>))
          [] OTHER -> R(p, None)

PostfixLoop(p, left) == GoOn(ParsePostfix(p, left), left)

UnaryKinds == "-" :> "UNARY" @@ "!" :> "UNARY" @@ "*" :> "DEREF" @@ "&" :> "ADDRESS_OF"

ParseUnary(p) ==
    LET e == Parse(Advance(p), "unary")
        l == Parse(p, "primary")
    IN  IF AtAny(p, DOMAIN UnaryKinds)
        THEN R(e.p, N(UnaryKinds[Tok(p).kind], <<Lexeme(p)>>, <<e.n>>))
        ELSE PostfixLoop(l.p, l.n)

\* a |> f(b) is f(a, b) and a |> f is f(a).  The names and the mut flags move
\* with the arguments, the spread flags stay where they were.
Pipe(left, rhs) ==
    IF rhs.k = "CALL"
    THEN Call(rhs.c[1], rhs.c[2], <<Arg("", "", left)>> \o rhs.c[3].c, rhs.a)
    ELSE Call(rhs, NoTypeArgs, <<Arg("", "", left)>>, <<>>)

\* The weakest operator the right operand may hold: assignments group to the
\* right, every other operator to the left.
SameLevel(level)  == level   \* for the mutation check: all to the right
RightLevel(level) == IF level = AssignLevel THEN level ELSE level + 1

InfixLoop(p, left, minimum) ==
    LET op    == Tok(p).kind
        level == TokenPrecedence(op)
        right == ParsePrecedence(Advance(p), RightLevel(level))
        node  == CASE op = "=" -> List("ASSIGN", <<left, right.n>>)
                   [] op \in CompoundAssigns -> N("COMPOUND_ASSIGN", <<op>>, <<left, right.n>>)
                   [] op = "|>" -> Pipe(left, right.n)
                   [] OTHER -> N("BINARY", <<op>>, <<left, right.n>>)
    IN  IF level < minimum THEN R(p, left) ELSE InfixLoop(right.p, node, minimum)

ParsePrecedence(p, minimum) ==
    LET u == Parse(p, "unary") IN InfixLoop(u.p, u.n, minimum)

\* The condition of an if or a while: `pattern := expr` or an expression, in
\* which an identifier before a brace starts no struct literal.
ParseCondition(p) ==
    LET q   == [p EXCEPT !.nsl = TRUE]
        pat == Parse(q, "pattern")
        r   == IF IsPatternBinding(q) THEN Parse(Expect(pat.p, ":="), "expr")
               ELSE Parse(q, "expr")
    IN  R([r.p EXCEPT !.nsl = p.nsl],
          <<IF IsPatternBinding(q) THEN pat.n ELSE None, r.n>>)

\* The newlines (and documentation comments) after the block are consumed
\* whether or not an else follows them.
ParseIf(p) ==
    LET cond == ParseCondition(Expect(p, "if"))
        then == Parse(cond.p, "block")
        q    == SkipNewlines(then.p)
        q1   == SkipNewlines(Advance(q))
        els  == IF ~At(q, "else") THEN R(q, None)
                ELSE IF At(q1, "if") THEN Parse(q1, "if") ELSE Parse(q1, "block")
    IN  R(els.p, List("IF", cond.n \o <<then.n, els.n>>))

ParseExpr(p) ==
    CASE At(p, "if") -> Parse(p, "if")
      [] At(p, "match") -> Parse(p, "match")
      [] OTHER -> ParsePrecedence(p, AssignLevel)

(***************************************************************************)
(* Statements (parse_stmt.c).                                              *)
(***************************************************************************)
VarDecl(flags, name, type, init) == N("VAR_DECL", <<name>> \o flags, <<type, init>>)

\* `immut x := e`, `var x [: T] [= e]`; p is at the keyword.
ParseVarDecl(p) ==
    LET q    == Advance(p)
        id   == Expect(q, "ID")
        e    == Parse(Expect(id, ":="), "expr")
        type == OptType(id, ":", Inferred)
        init == IF At(type.p, "=") THEN Parse(Advance(type.p), "expr") ELSE R(type.p, None)
    IN  IF At(p, "immut") THEN R(e.p, VarDecl(<<"immut">>, Lexeme(q), Inferred, e.n))
        ELSE R(init.p, VarDecl(<<"var">>, Lexeme(q), type.n, init.n))

ParseWhile(p) ==
    LET cond == ParseCondition(Advance(p))
        body == Parse(cond.p, "block")
    IN  R(body.p, List("WHILE", cond.n \o <<body.n>>))

ParseDefer(p) ==
    LET q == Advance(p)
        b == IF At(q, "{") THEN Parse(q, "block") ELSE Parse(q, "stmt")
    IN  R(b.p, List("DEFER", <<b.n>>))

\* for a..b |i| { } and for xs |v [, i]| { }.
ParseFor(p) ==
    LET first == Parse(Advance(p), "expr")
        range == At(first.p, "..")
        end   == IF range THEN Parse(Advance(first.p), "expr") ELSE R(first.p, None)
        var   == Expect(end.p, "|")
        q     == Expect(var, "ID")
        idx   == ~range /\ At(q, ",")
        q1    == IF idx THEN Expect(Advance(q), "ID") ELSE q
        body  == Parse(Expect(q1, "|"), "block")
    IN  R(body.p, N("FOR", <<Lexeme(var), Flag(Lexeme(Advance(q)), idx)>>,
                    <<first.n, end.n, body.n>>))

\* The last statement, when it is an expression, is the block's result.
ParseBlock(p) ==
    LET l    == Loop(SkipNewlines(Expect(p, "{")), "stmtRound", <<>>)
        tail == l.n # <<>> /\ Last(l.n).k = "EXPR_STMT"
    IN  R(Expect(l.p, "}"),
          List("BLOCK", <<List("STMTS", IF tail THEN Front(l.n) ELSE l.n),
                          IF tail THEN Last(l.n).c[1] ELSE None>>))

\* Looking ahead: { name [: name], ... } := and ( name | .. , ...) :=
RECURSIVE FieldsAhead(_), NamesAhead(_)
FieldsAhead(p) ==
    LET skip(q) == SkipKinds(q, {"NEWLINE"})
        id      == skip(p)
        q1      == skip(Advance(id))
        alias   == skip(Advance(q1))
        q2      == IF At(q1, ":") THEN skip(Advance(alias)) ELSE q1
    IN  /\ At(id, "ID")
        /\ At(q1, ":") => At(alias, "ID")
        /\ \/ At(q2, "}") /\ Ahead(q2, 1) = ":="
           \/ At(q2, ",") /\ FieldsAhead(Advance(q2))
IsStructDestructure(p) == At(p, "{") /\ FieldsAhead(Advance(p))

NamesAhead(p) ==
    LET q == Advance(p)
        e == IF At(q, ",") /\ Ahead(q, 1) = ")" THEN Advance(q) ELSE q
    IN  /\ AtAny(p, {"..", "ID"})
        /\ \/ At(e, ")") /\ Ahead(e, 1) = ":="
           \/ At(e, ",") /\ NamesAhead(Advance(e))
IsTupleDestructure(p) == At(p, "(") /\ NamesAhead(Advance(p))

ParseStructDestructure(p) ==
    LET l == Commas(Advance(p), "destructuredField")
        e == Parse(Expect(Expect(SkipNewlines(l.p), "}"), ":="), "expr")
    IN  R(e.p, List("STRUCT_DESTRUCTURE", Append(l.n, e.n)))

\* A second `..` is reported; the last one counts.
ParseTupleDestructure(p) ==
    LET l     == ItemList(Advance(p), "destructuredName", ",", {")"})
        rests == {i \in DOMAIN l.n : l.n[i].k = "REST"}
        q     == [l.p EXCEPT !.errs = @ + (IF Cardinality(rests) > 1 THEN Cardinality(rests) - 1 ELSE 0)]
        e     == Parse(Expect(Expect(q, ")"), ":="), "expr")
    IN  R(e.p, List("TUPLE_DESTRUCTURE", Append(l.n, e.n)))

\* break and return take a value unless the statement ends here.
ParseJump(p, kind) ==
    LET q == Advance(p)
        e == Parse(q, "expr")
    IN  IF AtAny(q, LineEnds \cup {"}", "EOF"}) THEN R(q, List(kind, <<None>>))
        ELSE R(e.p, List(kind, <<e.n>>))

ParseStmt(pp) ==
    LET p    == SkipNewlines(pp)
        loop == Parse(Advance(p), "block")
        init == Parse(Advance(Advance(p)), "expr")
        e    == Parse(p, "expr")
    IN  CASE AtAny(p, {"var", "immut"}) -> ParseVarDecl(p)
          [] At(p, "loop")     -> R(loop.p, List("LOOP", <<loop.n>>))
          [] At(p, "while")    -> ParseWhile(p)
          [] At(p, "for")      -> ParseFor(p)
          [] At(p, "defer")    -> ParseDefer(p)
          [] At(p, "break")    -> ParseJump(p, "BREAK")
          [] At(p, "continue") -> R(Advance(p), Leaf("CONTINUE"))
          [] At(p, "return")   -> ParseJump(p, "RETURN")
          [] IsStructDestructure(p) -> ParseStructDestructure(p)
          [] IsTupleDestructure(p)  -> ParseTupleDestructure(p)
          [] At(p, "ID") /\ Ahead(p, 1) = ":=" ->
                R(init.p, VarDecl(<<>>, Lexeme(p), Inferred, init.n))
          [] OTHER -> R(e.p, List("EXPR_STMT", <<e.n>>))

(***************************************************************************)
(* Functions (parse_fn.c).                                                 *)
(***************************************************************************)
Bounds(p) == ItemList(p, "id", "+", {})

\* [comptime] T [: bounds] [= default]; a comptime parameter has a type where
\* the others have bounds.
ParseTypeParam(p) ==
    LET id       == Match(p, "comptime")
        q        == Expect(id, "ID")
        comptime == At(p, "comptime")
        bounds   == CASE ~At(q, ":") -> R(q, <<>>)
                      [] At(q, ":") /\ comptime ->
                            LET t == Parse(Advance(q), "type") IN R(t.p, <<t.n>>)
                      [] OTHER -> ItemList(Advance(q), "bound", "+", {})
        default  == OptType(bounds.p, "=", None)
    IN  R(default.p, N("TYPE_PARAM", <<Lexeme(id), Flag("comptime", comptime)>>,
                       <<List("BOUNDS", bounds.n), default.n>>))

\* Pact [< Name = Type, ... >]
ParseBound(p) ==
    LET q == Expect(p, "ID")
        l == Commas(Advance(q), "assocConstraint")
    IN  IF At(q, "<") THEN R(Expect(l.p, ">"), N("BOUND", <<Lexeme(p)>>, l.n))
        ELSE R(q, N("BOUND", <<Lexeme(p)>>, <<>>))

TypeParamsNode(params) == List("TYPE_PARAMS", params)

ParseTypeParams(p) ==
    LET l == Commas(Advance(p), "typeParam")
    IN  IF At(p, "<") THEN R(Expect(l.p, ">"), TypeParamsNode(l.n))
        ELSE R(p, TypeParamsNode(<<>>))

\* The clauses of a where; after a comma the list may end.
Where(pp) ==
    LET p  == SkipNewlines(pp)
        q  == Expect(p, "ID")
        q1 == IF At(q, "::") THEN Expect(Advance(q), "ID") ELSE q
        bs == Bounds(Expect(q1, ":"))
    IN  R(bs.p, N("WHERE", <<Lexeme(p), Flag(Lexeme(Advance(q)), At(q, "::"))>>, bs.n))
MoreWheres(r) ==
    LET next == SkipNewlines(Advance(r.p))
        rest == WhereList(next)
    IN  IF ~At(r.p, ",") THEN R(r.p, <<r.n>>)
        ELSE IF ~At(next, "ID") THEN R(next, <<r.n>>)
        ELSE R(rest.p, <<r.n>> \o rest.n)
WhereList(p) == MoreWheres(Where(p))

ParseWhereClauses(p) ==
    LET l == IF At(p, "where") THEN WhereList(SkipNewlines(Advance(p))) ELSE R(p, <<>>)
    IN  R(l.p, List("WHERE_CLAUSES", l.n))

Param(name, flags, type) == N("PARAM", <<name>> \o flags, <<type>>)
StarAhead(p) == At(p, "*") \/ (At(p, "mut") /\ Ahead(p, 1) = "*")

\* [mut] name: [..]Type.  A receiver where none may be is reported and
\* skipped; a name without a type is reported.
ParseParam(p) ==
    LET star == Match(Match(Err(p), "mut"), "*")
        id   == Match(p, "mut")
        q    == Expect(id, "ID")
        dots == Match(Advance(q), "..")
        type == Parse(dots, "type")
        flags == <<Flag("mut", At(p, "mut")), Flag("..", At(Advance(q), ".."))>>
    IN  IF StarAhead(p)
        THEN IF At(star, "ID") THEN R(Advance(star), Param(Lexeme(star), <<"", "">>, Inferred))
             ELSE R(star, Param("_", <<"", "">>, Inferred))
        ELSE IF ~At(q, ":") THEN R(Err(q), Param(Lexeme(id), <<flags[1], "">>, Inferred))
        ELSE R(type.p, Param(Lexeme(id), flags, type.n))

\* One error for every variadic parameter that is not the last.
CheckVariadic(p, params) ==
    [p EXCEPT !.errs =
        @ + Cardinality({i \in 1 .. Len(params) - 1 : params[i].a[3] = ".."})]

\* The receiver (*x, mut *x, or a name without a type) and the parameters of
\* a method; the receiver's first name is its own, the second its kind.
ParseRecvAndParams(pp) ==
    LET p      == Expect(pp, "(")
        isPtr  == AtAny(p, {"*", "mut"})
        isVal  == At(p, "ID") /\ Ahead(p, 1) # ":"
        id     == IF isPtr THEN Expect(Match(p, "mut"), "*") ELSE p
        q      == Expect(id, "ID")
        recv   == CASE At(p, "mut") -> "mut *" [] At(p, "*") -> "*" [] OTHER -> "value"
        others == IF At(q, ",") THEN Commas(Advance(q), "param") ELSE R(q, <<>>)
        l      == CASE At(p, ")") -> R(p, <<>>)
                    [] isPtr \/ isVal -> others
                    [] OTHER -> Commas(p, "param")
        close  == CheckVariadic(Expect(l.p, ")"), l.n)
    IN  R(close, List("RECV_PARAMS",
                      <<IF isPtr \/ isVal THEN N("RECV", <<Lexeme(id), recv>>, <<>>) ELSE None,
                        List("PARAMS", l.n)>>))

\* { ... } or = expr; what the caller does without either is `absent`.
ParseBody(p, absent) ==
    CASE At(p, "{") -> Parse(p, "block")
      [] At(p, "=") -> Parse(Advance(p), "expr")
      [] OTHER -> R(absent, None)

FnDecl(name, flags, children) == N("FN_DECL", <<name>> \o flags, children)

\* A method of an ext block, or one misplaced in a struct or an enum.
ParseMethodDecl(p, isPub) ==
    LET id     == Expect(Match(p, "decl"), "fn")
        params == Parse(Expect(id, "ID"), "recvAndParams")
        ret    == OptType(params.p, "->", Inferred)
        q      == SkipNewlines(ret.p)
        body   == IF At(p, "decl") THEN R(q, None) ELSE ParseBody(q, Err(q))
    IN  R(body.p, FnDecl(Lexeme(id), <<Flag("pub", isPub), Flag("decl", At(p, "decl"))>>,
                         params.n.c \o <<ret.n, body.n>>))

\* A required method of a pact has no body.
ParsePactMethod(p) ==
    LET id     == Advance(p)
        params == Parse(Expect(id, "ID"), "recvAndParams")
        ret    == OptType(params.p, "->", Inferred)
        q      == SkipNewlines(ret.p)
        body   == ParseBody(q, q)
    IN  R(body.p, FnDecl(Lexeme(id), <<"", "">>, params.n.c \o <<ret.n, body.n>>))

\* The newlines before a where or a body are skipped, the documentation
\* comments of the declaration that may follow are not.
ParseFnDecl(p, isPub) ==
    LET id     == Expect(Match(p, "decl"), "fn")
        tps    == Parse(Expect(id, "ID"), "typeParams")
        params == ListTo(Expect(tps.p, "("), "param", ")")
        ret    == OptType(CheckVariadic(params.p, params.n), "->", Inferred)
        wheres == Parse(SkipLinesOnly(ret.p), "where")
        q      == SkipLinesOnly(wheres.p)
        body   == IF At(p, "decl") THEN R(q, None) ELSE ParseBody(q, Err(q))
    IN  R(body.p, FnDecl(Lexeme(id), <<Flag("pub", isPub), Flag("decl", At(p, "decl"))>>,
                         <<tps.n, List("PARAMS", params.n), ret.n, wheres.n, body.n>>))

ParseDeclareVar(p, isPub) ==
    LET q    == Advance(p)
        type == Parse(Expect(Expect(q, "ID"), ":"), "type")
    IN  R(type.p, VarDecl(<<"decl", Flag("pub", isPub)>>, Lexeme(q), type.n, None))

(***************************************************************************)
(* Declarations (parse_decl.c).                                            *)
(***************************************************************************)
\* The head shared by structs, enums and pacts: a name, type parameters and
\* where clauses, with the newlines and comments between them skipped.
DeclHead(p) ==
    LET tps    == Parse(Expect(p, "ID"), "typeParams")
        wheres == Parse(SkipNewlines(tps.p), "where")
    IN  R(SkipNewlines(wheres.p), <<tps.n, wheres.n>>)

\* A braced body: its items, each with the newlines after it.
DeclBody(p, what) ==
    LET l == Loop(SkipNewlines(Expect(p, "{")), what, <<>>)
    IN  R(Expect(l.p, "}"), l.n)

\* pact P = A + B, or pact P { methods, associated types, super pacts }.
ParsePactDecl(p, isPub) ==
    LET name   == Advance(p)
        head   == Parse(name, "declHead")
        supers == ItemList(Advance(head.p), "superPact", "+", {})
        body   == IF At(head.p, "=") THEN supers ELSE DeclBody(head.p, "pactItem")
    IN  R(body.p, N("PACT_DECL", <<Lexeme(name), Flag("pub", isPub)>>, head.n \o body.n))

\* type Name [: bounds] [= default]; p is past the `type`.
ParseAssocType(p) ==
    LET q      == Expect(p, "ID")
        bounds == IF At(q, ":") THEN Bounds(Advance(q)) ELSE R(q, <<>>)
        value  == OptType(bounds.p, "=", None)
    IN  R(value.p, N("ASSOC_TYPE", <<Lexeme(p), "">>, Append(bounds.n, value.n)))

\* A field in a pact is reported and skipped.  The type arguments of a super
\* pact are read and dropped.
ParsePactItem(p) ==
    LET q     == Advance(p)
        args  == Commas(Advance(q), "type")
        super == N("SUPER_PACT", <<Lexeme(p)>>, <<>>)
    IN  CASE At(p, "fn")   -> ParsePactMethod(p)
          [] At(p, "type") -> ParseAssocType(q)
          [] At(p, "ID") /\ At(q, ":") -> R(Parse(Advance(Err(q)), "type").p, None)
          [] At(p, "ID") /\ At(q, "<") -> R(Expect(args.p, ">"), super)
          [] At(p, "ID") /\ ~AtAny(q, {":", "<"}) -> R(q, super)
          [] OTHER -> R(Advance(Err(p)), None)

\* A method or an associated type inside a struct or an enum is reported, and
\* parsed to get past it.  sep is what the associated type's name is followed
\* by: bounds in an enum, a qualifier in a struct.
ParseMisplaced(p, sep) ==
    LET e == Err(p)
        q == Expect(Advance(e), "ID")
        b == CASE ~At(q, sep) -> q
               [] At(q, sep) /\ sep = "::" -> Expect(Advance(q), "ID")
               [] OTHER -> Bounds(Advance(q)).p
    IN  IF At(p, "fn") THEN R(ParseMethodDecl(e, FALSE).p, None)
        ELSE R(OptType(b, "=", None).p, None)

ParseVariant(p) ==
    LET q == Advance(p)
        l == ListTo(Advance(q), "type", ")")
        f == Braced(q, "variantField")
        d == Parse(Advance(q), "expr")
        variant(r, kind) == R(r.p, N("VARIANT", <<Lexeme(p), kind>>, r.n))
    IN  CASE At(q, "(") -> variant(l, "TUPLE")
          [] At(q, "{") -> variant(f, "STRUCT")
          [] At(q, "=") -> variant(R(d.p, <<d.n>>), "UNIT")
          [] OTHER -> variant(R(q, <<>>), "UNIT")

ParseEnumItemStuck(p) ==   \* for the mutation check: the token is not skipped
    LET r == CASE AtAny(p, {"fn", "type"}) -> ParseMisplaced(p, ":")
               [] At(p, "ID") -> ParseVariant(p)
               [] OTHER -> R(Err(p), None)
    IN  R(Match(r.p, ","), r.n)

ParseEnumItem(p) ==
    LET r == CASE AtAny(p, {"fn", "type"}) -> ParseMisplaced(p, ":")
               [] At(p, "ID") -> ParseVariant(p)
               [] OTHER -> R(Advance(Err(p)), None)
    IN  R(Match(r.p, ","), r.n)

ParseEnumDecl(p, isPub) ==
    LET name == Advance(p)
        head == Parse(name, "declHead")
        body == DeclBody(head.p, "enumItem")
    IN  R(body.p, N("ENUM_DECL", <<Lexeme(name), Flag("pub", isPub)>>, head.n \o body.n))

\* [pub] name: Type [= default], or the name of an embedded struct.
ParseStructItem(p) ==
    LET id   == Match(p, "pub")
        q    == Expect(id, "ID")
        type == Parse(Advance(q), "type")
        def  == IF At(type.p, "=") THEN Parse(Advance(type.p), "expr") ELSE R(type.p, None)
    IN  CASE AtAny(p, {"fn", "type"}) -> ParseMisplaced(p, "::")
          [] AtAny(p, {"pub", "ID"}) ->
                IF At(q, ":")
                THEN R(def.p, N("FIELD_DECL", <<Lexeme(id), Flag("pub", At(p, "pub"))>>,
                                <<type.n, def.n>>))
                ELSE R(q, N("EMBEDDED", <<Lexeme(id)>>, <<>>))
          [] OTHER -> R(Advance(Err(p)), None)

\* The conformance list a struct may no longer have.
SkipConformances(p) ==   \* for the mutation check: skipped without a report
    IF At(p, ":") THEN ItemList(Advance(p), "conformance", "+", {}).p ELSE p
RejectConformances(p) ==
    IF At(p, ":") THEN ItemList(Advance(Err(p)), "conformance", "+", {}).p ELSE p

\* A tuple struct's list may end after a comma.
ParseStructDecl(p, isPub) ==
    LET name   == Advance(p)
        tps    == Parse(Expect(name, "ID"), "typeParams")
        wheres == Parse(SkipNewlines(RejectConformances(tps.p)), "where")
        q      == SkipNewlines(wheres.p)
        tuple  == Commas(Advance(q), "tupleField")
        body   == DeclBody(q, "structItem")
        node(kind, items) == N("STRUCT_DECL", <<Lexeme(name), Flag("pub", isPub), kind>>,
                               <<tps.n, wheres.n>> \o items)
    IN  IF At(q, "(") THEN R(Expect(tuple.p, ")"), node("tuple", tuple.n))
        ELSE R(body.p, node("", body.n))

\* What an ext block extends: [] or [_] with an element type, or a name.
ParseExtTarget(p, typeParams) ==
    LET q    == IF typeParams.c = <<>> THEN Advance(Err(p)) ELSE Advance(p)
        size == Expect(Advance(q), "]")
        q1   == IF At(q, "]") THEN Advance(q) ELSE size
        elem == IF AtAny(q1, TypeKeywords \cup {"ID"}) THEN Advance(q1) ELSE q1
    IN  IF At(p, "[") THEN R(elem, IF At(q, "]") THEN "[]" ELSE "[_]")
        ELSE R(Advance(p), Lexeme(p))

\* impl P + Q { items }
ParseExtBody(p, target, tps, targs) ==
    LET impls == IF At(p, "impl") THEN Bounds(Advance(p)) ELSE R(p, <<>>)
        open  == SkipNewlinesCollectDocs(Expect(SkipNewlines(impls.p), "{"))
        body  == Loop(open, "extItem", <<>>)
    IN  R(Expect(body.p, "}"),
          N("EXT_DECL", <<target>>,
            <<tps, List("TYPE_ARGS", targs), List("IMPLS", impls.n)>> \o body.n))

ParseExtOf(p, target, tps) ==
    LET args == Commas(Advance(p), "type")
        r    == IF At(p, "<") THEN R(Expect(args.p, ">"), args.n) ELSE R(p, <<>>)
    IN  ParseExtBody(r.p, target, tps, r.n)

ParseExtDecl(p) ==
    LET tps    == Parse(Advance(p), "typeParams")
        target == ParseExtTarget(tps.p, tps.n)
    IN  IF ~AtAny(tps.p, TypeKeywords \cup {"[", "ID"})
        THEN R(Err(tps.p), N("EXT_DECL", <<"">>, <<tps.n>>))
        ELSE ParseExtOf(target.p, target.n, tps.n)

Documented(doc, n) == N("DOC", doc, <<n>>)

\* [pub] method or type Name [:: Name] [= Type].  Every item takes the pending
\* documentation, a method keeps it.
ParseExtItem(pp) ==
    LET p      == TakeDoc(pp)
        isPub  == At(p, "pub")
        q      == Match(p, "pub")
        method == ParseMethodDecl(q, isPub)
        id     == Advance(q)
        q1     == Expect(id, "ID")
        q2     == Advance(q1)
        name   == IF At(q1, "::") THEN <<Lexeme(q2), Lexeme(id)>> ELSE <<Lexeme(id), "">>
        value  == OptType(IF At(q1, "::") THEN Expect(q2, "ID") ELSE q1, "=", None)
        r == CASE AtAny(q, {"fn", "decl", "#"}) -> R(method.p, Documented(pp.doc, method.n))
               [] At(q, "type") -> R(value.p, N("ASSOC_TYPE", name, <<value.n>>))
               [] OTHER -> R(Advance(Err(q)), None)
    IN  R(SkipNewlinesCollectDocs(r.p), r.n)

\* The segments of a use path, and how it ends: one name, `::{` or `::*`.
UsePath(p, segments) ==
    LET q == Advance(p)
    IN  CASE ~At(p, "::") -> [p |-> p, n |-> segments, ends |-> "name"]
          [] At(p, "::") /\ At(q, "{") -> [p |-> q, n |-> segments, ends |-> "list"]
          [] At(p, "::") /\ At(q, "*") -> [p |-> Advance(q), n |-> segments, ends |-> "all"]
          [] OTHER -> UsePath(Expect(q, "ID"), Append(segments, Lexeme(q)))

\* name [as alias]: the node holds the name and the alias, which is the name
\* when there is none.  `as` is an identifier like any other.
AliasOf(p, name) ==
    LET q == Advance(p)
    IN  IF At(p, "ID") /\ Lexeme(p) = "as"
        THEN R(Expect(q, "ID"), N("IMPORT", <<name, Lexeme(q)>>, <<>>))
        ELSE R(p, N("IMPORT", <<name, name>>, <<>>))

ParseUseItem(p) ==
    LET r == AliasOf(Expect(p, "ID"), Lexeme(p))
    IN  R(SkipNewlines(Match(r.p, ",")), r.n)

ParseUseDecl(p, isPub) ==
    LET id   == Advance(p)
        path == UsePath(Expect(id, "ID"), <<Lexeme(id)>>)
        q    == path.p
        items == Loop(SkipNewlines(Advance(q)), "useItem", <<>>)
        single == AliasOf(IF Len(path.n) < 2 THEN Err(q) ELSE q, Last(path.n))
        parent == IF Len(path.n) < 2 THEN path.n ELSE Front(path.n)
        node(segments, imports) ==
            N("USE_DECL", <<Flag("pub", isPub), path.ends>> \o segments, imports)
    IN  CASE path.ends = "all"  -> R(q, node(path.n, <<>>))
          [] path.ends = "list" -> R(Expect(items.p, "}"), node(path.n, items.n))
          [] OTHER -> R(single.p, node(parent, <<single.n>>))

\* mod name, with or without a body.  The newlines and comments after the
\* name are skipped before the body is looked for.
ParseModuleDecl(p, isPub) ==
    LET name == Advance(p)
        q    == SkipNewlines(Expect(name, "ID"))
        body == IF At(q, "{") THEN DeclBody(q, "declRound") ELSE R(q, <<>>)
    IN  R(body.p, N("MODULE", <<Lexeme(name), Flag("pub", isPub)>>, body.n))

ParseTypeAlias(p, isPub) ==
    LET name == Advance(p)
        tps  == Parse(Expect(name, "ID"), "typeParams")
        type == Parse(Expect(tps.p, "="), "type")
    IN  R(type.p, N("TYPE_ALIAS", <<Lexeme(name), Flag("pub", isPub)>>, <<tps.n, type.n>>))

\* pub immut x [: T] = e
ParsePubImmut(p) ==
    LET name == Advance(p)
        q    == Expect(name, "ID")
        type == OptType(q, ":", Inferred)
        init == Parse(Expect(type.p, IF At(q, ":") THEN "=" ELSE ":="), "expr")
    IN  R(init.p, VarDecl(<<"immut", "pub">>, Lexeme(name), type.n, init.n))

\* The declarations `pub` may stand before.
ParsePubDecl(p) ==
    CASE At(p, "fn")     -> ParseFnDecl(p, TRUE)
      [] At(p, "immut")  -> ParsePubImmut(p)
      [] At(p, "struct") -> ParseStructDecl(p, TRUE)
      [] At(p, "enum")   -> ParseEnumDecl(p, TRUE)
      [] At(p, "pact")   -> ParsePactDecl(p, TRUE)
      [] At(p, "type")   -> ParseTypeAlias(p, TRUE)
      [] At(p, "mod")    -> ParseModuleDecl(p, TRUE)
      [] At(p, "use")    -> ParseUseDecl(p, TRUE)
      [] OTHER -> R(Err(p), None)

\* decl fn, decl var
ParseDeclare(p, isPub) ==
    CASE Ahead(p, 1) = "fn"  -> ParseFnDecl(p, isPub)
      [] Ahead(p, 1) = "var" -> ParseDeclareVar(Advance(p), isPub)
      [] OTHER -> R(Advance(Err(p)), None)

ParseDecl(pp) ==
    LET p == SkipNewlines(pp)
        q == SkipNewlines(Advance(p))
    IN  CASE At(p, "decl")   -> ParseDeclare(p, FALSE)
          [] At(p, "mod")    -> ParseModuleDecl(p, FALSE)
          [] At(p, "ext")    -> ParseExtDecl(p)
          [] At(p, "use")    -> ParseUseDecl(p, FALSE)
          [] At(p, "struct") -> ParseStructDecl(p, FALSE)
          [] At(p, "enum")   -> ParseEnumDecl(p, FALSE)
          [] At(p, "pact")   -> ParsePactDecl(p, FALSE)
          [] At(p, "type")   -> ParseTypeAlias(p, FALSE)
          [] At(p, "pub")    -> IF At(q, "decl") THEN ParseDeclare(q, TRUE) ELSE ParsePubDecl(q)
          [] At(p, "fn")     -> ParseFnDecl(p, FALSE)
          [] OTHER -> Parse(p, "stmt")

(***************************************************************************)
(* The bodies of the loops.                                                *)
(***************************************************************************)
\* name = value
ParseFieldInit(pp) ==
    LET p == SkipNewlines(pp)
        e == Parse(Expect(Expect(p, "ID"), "="), "expr")
    IN  R(e.p, N("FIELD", <<Lexeme(p)>>, <<e.n>>))

\* name: Type, the type being optional for a closure's parameter.
ParseTypedName(p, kind) ==
    LET t == Parse(Expect(Expect(p, "ID"), ":"), "type")
    IN  R(t.p, N(kind, <<Lexeme(p)>>, <<t.n>>))

ParseClosureParam(p) ==
    LET t == OptType(Expect(p, "ID"), ":", Inferred)
    IN  R(t.p, N("PARAM", <<Lexeme(p)>>, <<t.n>>))

ParseDestructuredField(pp) ==
    LET p == SkipNewlines(pp)
        q == Expect(p, "ID")
        alias == Advance(q)
    IN  IF At(q, ":") THEN R(Expect(alias, "ID"), N("NAME", <<Lexeme(p), Lexeme(alias)>>, <<>>))
        ELSE R(q, N("NAME", <<Lexeme(p), "">>, <<>>))

ParseConformance(pp) ==
    LET p    == Match(SkipNewlines(pp), "ID")
        args == Commas(Advance(p), "type")
    IN  IF At(p, "<") THEN R(Expect(args.p, ">"), None) ELSE R(p, None)

ParseAssocConstraint(p) ==
    LET t == Parse(Expect(Expect(p, "ID"), "="), "type")
    IN  R(t.p, N("ASSOC_CONSTRAINT", <<Lexeme(p)>>, <<t.n>>))

\* The constructs that others contain: Parse(p, "x") is parse_x.
ParseConstruct(p, what) ==
    CASE what = "type"    -> ParseType(p)
      [] what = "pattern" -> ParsePattern(p)
      [] what = "match"   -> ParseMatch(p)
      [] what = "primary" -> ParsePrimary(p)
      [] what = "unary"   -> ParseUnary(p)
      [] what = "expr"    -> ParseExpr(p)
      [] what = "if"      -> ParseIf(p)
      [] what = "stmt"    -> ParseStmt(p)
      [] what = "block"   -> ParseBlock(p)
      [] what = "decl"    -> ParseDecl(p)
      [] what = "declHead" -> DeclHead(p)
      [] what = "typeParams" -> ParseTypeParams(p)
      [] what = "where"   -> ParseWhereClauses(p)
      [] what = "recvAndParams" -> ParseRecvAndParams(p)

\* The items of the lists.
ParseItem(p, what) ==
    LET s == SkipNewlines(p)
    IN  CASE what = "typeArg" -> IF At(p, "INTEGER_LIT")
                                 THEN R(Advance(p), N("COMPTIME_INT", <<Lexeme(p)>>, <<>>))
                                 ELSE Parse(p, "type")
          [] what = "elem"    -> Parse(s, "expr")
          [] what = "field"   -> ParseFieldInit(p)
          [] what = "arg"     -> ParseArg(p)
          [] what = "closureParam" -> ParseClosureParam(p)
          [] what = "fieldName" -> R(Expect(s, "ID"), N("NAME", <<Lexeme(s)>>, <<>>))
          [] what = "destructuredField" -> ParseDestructuredField(p)
          [] what = "destructuredName" ->
                IF At(p, "..") THEN R(Advance(p), Leaf("REST"))
                ELSE R(Expect(p, "ID"), N("NAME", <<Lexeme(p)>>, <<>>))
          [] what = "typeParam" -> ParseTypeParam(p)
          [] what = "bound"   -> ParseBound(p)
          [] what = "assocConstraint" -> ParseAssocConstraint(p)
          [] what = "id"      -> R(Expect(p, "ID"), N("NAME", <<Lexeme(p)>>, <<>>))
          [] what = "superPact" -> R(Expect(p, "ID"), N("SUPER_PACT", <<Lexeme(p)>>, <<>>))
          [] what = "param"   -> ParseParam(p)
          [] what = "tupleField" -> IF At(s, ")") THEN R(s, None) ELSE Parse(s, "type")
          [] what = "variantField" -> ParseTypedName(s, "FIELD_DECL")
          [] what = "conformance" -> ParseConformance(p)

\* The bodies of the loops, with the newlines after the item.
ParseRound(p, what) ==
    LET r == CASE what = "stmtRound"  -> Parse(p, "stmt")
               [] what = "declRound"  -> Parse(p, "decl")
               [] what = "pactItem"   -> ParsePactItem(p)
               [] what = "enumItem"   -> ParseEnumItem(p)
               [] what = "structItem" -> ParseStructItem(p)
    IN  CASE what = "arm"     -> ParseArm(p)
          [] what = "useItem" -> ParseUseItem(p)
          [] what = "extItem" -> ParseExtItem(p)
          [] OTHER -> R(SkipNewlines(r.p), r.n)

Constructs == {"type", "pattern", "match", "primary", "unary", "expr", "if", "stmt", "block",
               "decl", "declHead", "typeParams", "where", "recvAndParams"}
Rounds     == {"stmtRound", "declRound", "pactItem", "enumItem", "structItem", "arm", "useItem", "extItem"}

Parse(p, what) ==
    IF what \in Constructs THEN ParseConstruct(p, what)
    ELSE IF what \in Rounds THEN ParseRound(p, what)
    ELSE ParseItem(p, what)
=============================================================================
