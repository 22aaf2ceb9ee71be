------------------------------ MODULE MCFrontend ------------------------------
(***************************************************************************)
(* Inputs for Frontend: programs built as trees and written out, in two    *)
(* spellings; texts with strings, comments and documentation; and every    *)
(* program with one of its tokens left out.                                *)
(***************************************************************************)
EXTENDS Frontend

Num(n)     == N("LIT", <<"I32", ToString(n)>>, <<>>)
Str(s)     == N("LIT", <<"STR", s>>, <<>>)
Ty(name)   == N("TYPE_NAME", <<name>>, <<>>)
X == Id("x")
Y == Id("y")

Bin(op, l, r) ==
    CASE op = "="  -> List("ASSIGN", <<l, r>>)
      [] op = "+=" -> N("COMPOUND_ASSIGN", <<op>>, <<l, r>>)
      [] op = "|>" -> List("PIPE", <<l, r>>)
      [] OTHER     -> N("BINARY", <<op>>, <<l, r>>)

Un(op, e) == N(CASE op = "*" -> "DEREF" [] op = "&" -> "ADDRESS_OF" [] OTHER -> "UNARY", <<op>>, <<e>>)
Try(e)    == List("TRY", <<e>>)
Dot(e, f) == N("MEMBER", <<f>>, <<e>>)
Index(e, i) == List("IDX", <<e, i>>)
SliceOf(e, a, b) == List("SLICE_EXPR", <<e, a, b>>)
NArg(name, mut, e) == N("ARG", <<name, mut>>, <<e>>)
App(f, args, flags) ==
    N("CALL", flags, <<f, List("TYPE_ARGS", <<>>), List("ARGS", args)>>)
App1(f, e) == App(f, <<NArg("", "", e)>>, <<"">>)
Block(stmts, result) == List("BLOCK", <<List("STMTS", stmts), result>>)
Let(name, e) == N("VAR_DECL", <<name>>, <<Inferred, e>>)
Do(e) == List("EXPR_STMT", <<e>>)

NoParams == List("TYPE_PARAMS", <<>>)
NoWhere  == List("WHERE_CLAUSES", <<>>)
Fn(name, params, result, body) ==
    N("FN_DECL", <<name, "", "">>, <<NoParams, List("PARAMS", params), result, NoWhere, body>>)
Main(stmts) == Fn("main", <<>>, Inferred, Block(stmts, None))

-----------------------------------------------------------------------------
\* One operator of each level, every pair of them in both groupings.
Ops == {"=", "+=", "|>", "||", "&&", "==", "<", "+", "*"}
Rest == {"!=", "<=", ">", ">=", "-", "/", "%"}
Grouped(o1, o2) ==
    << Let("a", Bin(o1, Bin(o2, Num(1), Num(2)), Num(3))),
       Let("b", Bin(o1, Num(1), Bin(o2, Num(2), Num(3)))) >>
OperatorPrograms ==
    {Main(Grouped(o1, o2)) : o1 \in Ops, o2 \in Ops} \cup {Main(Grouped(o, "+")) : o \in Rest}

\* Prefix and postfix operators over each other, and over the infix ones.
Postfixes(e) == << Try(e), Dot(e, "f"), N("OPTIONAL_CHAIN", <<"f">>, <<e>>), App1(e, Num(1)),
                   Index(e, Num(0)), Dot(e, "0"), SliceOf(e, Num(1), None) >>
Operands == << X, N("LIT", <<"BOOL", "true">>, <<>>), Un("-", X), Un("&", X), Un("*", X), Un("!", X), Try(X), Dot(X, "f"),
               App1(X, Y), Bin("+", X, Num(1)), Bin("|>", X, Y) >>
PostfixPrograms ==
    {Main([i \in DOMAIN Postfixes(X) |-> Let("a", Postfixes(o)[i])]) : o \in ToSet(Operands) \ {Try(X)}}
    \cup {Main([i \in DOMAIN Operands |-> Let("a", Un(op, Operands[i]))]) : op \in {"-", "!", "*", "&"}}

Lam(params, result, body) == List("CLOSURE", <<List("PARAMS", params), result, body>>)
P(name, type) == N("PARAM", <<name>>, <<type>>)
Field(name, e) == N("FIELD", <<name>>, <<e>>)

\* The other expressions; a generic name before `<` is told from a comparison
\* by what follows.
Exprs ==
    << List("TUPLE_LIT", <<X, Num(2)>>), List("TUPLE_LIT", <<X>>),
       N("ARRAY_LIT", <<"2">>, <<Inferred, X, Y>>), N("ARRAY_LIT", <<"0">>, <<Inferred>>),
       N("ARRAY_LIT", <<"2">>, <<Ty("i32"), Num(1), Num(2)>>),
       N("SLICE_LIT", <<"">>, <<Ty("i32"), Num(1), Num(2)>>),
       N("SLICE_LIT", <<"">>, <<List("TYPE_SLICE", <<Ty("S")>>)>>),
       N("TYPE_CONVERSION", <<"i64">>, <<Bin("+", X, Y)>>),
       N("STRUCT_LIT", <<"S">>, <<NoTypeArgs, Field("a", X), Field("b", Bin("=", X, Y))>>),
       N("STRUCT_LIT", <<"S">>, <<NoTypeArgs>>),
       N("STRUCT_LIT", <<"S">>, <<List("TYPE_ARGS", <<Ty("T")>>), Field("a", X)>>),
       N("ENUM_INIT", <<"E", "V">>, <<NoTypeArgs, Field("a", X)>>),
       N("ENUM_INIT", <<"E", "V">>, <<List("TYPE_ARGS", <<Ty("T"), Ty("i32")>>), Field("a", X)>>),
       N("CALL", <<"", "">>, <<X, List("TYPE_ARGS", <<Ty("T"), N("COMPTIME_INT", <<"3">>, <<>>)>>),
                               List("ARGS", <<NArg("", "", Y), NArg("n", "", Num(1))>>)>>),
       N("CALL", <<"">>, <<Dot(X, "make"), List("TYPE_ARGS", <<Ty("T")>>), List("ARGS", <<NArg("", "", Y)>>)>>),
       App(X, <<NArg("", "mut", Y), NArg("", "", Bin("<", X, Y))>>, <<"", "..">>),
       App(X, <<NArg("a", "", Lam(<<P("v", Inferred)>>, Inferred, Bin("*", Id("v"), Num(2))))>>, <<"">>),
       Lam(<<>>, Inferred, X), Lam(<<P("v", Ty("i32")), P("w", Inferred)>>, Ty("i32"), Block(<<>>, X)),
       Bin("|>", X, Lam(<<P("v", Inferred)>>, Inferred, Id("v"))),
       Bin("<", X, Y), Bin(">", Bin("<", X, Y), Num(3)),
       SliceOf(X, None, None), SliceOf(X, None, Num(2)), SliceOf(X, Num(1), Bin("-", Y, Num(1))),
       List("IF", <<None, X, Block(<<>>, Num(1)), Block(<<>>, Num(2))>>), Block(<<Let("b", X)>>, Id("b")),
       Bin("+", Num(1), List("IF", <<None, X, Block(<<>>, Num(1)), Block(<<>>, Num(2))>>)),
       Str("hi"), Un("-", Num(1)) >>
ExprPrograms == {Main(<<Let("a", Exprs[i]), Let("b", Exprs[i])>>) : i \in DOMAIN Exprs}

-----------------------------------------------------------------------------
Bind(name) == N("PATTERN_BINDING", <<name>>, <<>>)
Some(name) == N("PATTERN_VARIANT_TUPLE", <<"Some">>, <<Bind(name)>>)
PLit(l)    == N("PATTERN_LIT", <<l>>, <<>>)
Patterns ==
    << Leaf("PATTERN_WILDCARD"), PLit("3"), PLit("-1"), PLit("true"), Bind("v"), Some("v"),
       N("PATTERN_RANGE", <<"1", "..=", "5">>, <<>>),
       N("PATTERN_VARIANT_TUPLE", <<"P">>, <<Some("v"), Leaf("PATTERN_WILDCARD")>>),
       N("PATTERN_VARIANT_STRUCT", <<"Q">>, <<N("NAME", <<"a">>, <<>>), N("NAME", <<"b">>, <<>>)>>) >>
Arm(pat, guard, body) == List("ARM", <<pat, guard, body>>)
NameOf(n, alias) == N("NAME", <<n, alias>>, <<>>)

Stmts ==
    << N("VAR_DECL", <<"v", "var">>, <<Ty("i32"), Num(1)>>), N("VAR_DECL", <<"v", "var">>, <<Ty("i32"), None>>),
       N("VAR_DECL", <<"v", "var">>, <<Inferred, X>>), N("VAR_DECL", <<"v", "immut">>, <<Inferred, X>>),
       List("WHILE", <<None, Bin("<", X, Y), Block(<<Leaf("CONTINUE")>>, None)>>),
       List("WHILE", <<Some("v"), App(X, <<>>, <<>>), Block(<<List("BREAK", <<None>>)>>, None)>>),
       List("LOOP", <<Block(<<List("BREAK", <<X>>)>>, None)>>),
       N("FOR", <<"i", "">>, <<Num(0), Y, Block(<<>>, None)>>),
       N("FOR", <<"v", "i">>, <<X, None, Block(<<>>, X)>>),
       N("FOR", <<"v", "">>, <<Bin("+", X, Y), None, Block(<<>>, X)>>),
       List("DEFER", <<Block(<<Do(X)>>, Y)>>), List("DEFER", <<Do(App(X, <<>>, <<>>))>>),
       List("RETURN", <<None>>), List("RETURN", <<Bin("+", X, Y)>>),
       Do(Bin("=", X, Y)), Do(List("IF", <<None, X, Block(<<>>, Y), None>>)),
       Do(List("IF", <<Some("v"), X, Block(<<>>, Y),
                       List("IF", <<None, Bin("==", X, Y), Block(<<>>, X), Block(<<>>, Y)>>)>>)),
       Do(List("MATCH", <<X>> \o [i \in DOMAIN Patterns |->
               Arm(Patterns[i], IF i = 5 THEN Bin(">", X, Y) ELSE None, IF i = 1 THEN Block(<<>>, X) ELSE Y)])),
       List("STRUCT_DESTRUCTURE", <<NameOf("a", ""), NameOf("b", "c"), X>>),
       List("TUPLE_DESTRUCTURE", <<N("NAME", <<"a">>, <<>>), Leaf("REST"), N("NAME", <<"b">>, <<>>), X>>),
       List("TUPLE_DESTRUCTURE", <<Leaf("REST"), N("NAME", <<"b">>, <<>>), X>>) >>
StmtPrograms == {Main(<<Stmts[i], Let("z", Num(1)), Stmts[i], Let("z", Num(2))>>) : i \in DOMAIN Stmts}

-----------------------------------------------------------------------------
Types ==
    << Ty("str"), N("TYPE_NAME", <<"Option">>, <<Ty("S")>>), N("TYPE_NAME", <<"Result">>, <<Ty("S"), Ty("E")>>),
       N("TYPE_NAME", <<"M">>, <<Ty("str"), N("TYPE_NAME", <<"L">>, <<Ty("T"), N("COMPTIME_INT", <<"4">>, <<>>)>>)>>),
       List("TYPE_SLICE", <<List("TYPE_PTR", <<Ty("S")>>)>>), N("TYPE_ARRAY", <<"3">>, <<Ty("u8")>>),
       N("TYPE_ARRAY", <<"N">>, <<Ty("u8")>>), List("TYPE_TUPLE", <<Ty("i32"), Ty("S")>>),
       N("TYPE_FN", <<"fn">>, <<Ty("i32"), Ty("bool")>>), N("TYPE_FN", <<"FnMut">>, <<Ty("i32"), Ty("S"), None>>),
       N("TYPE_ASSOC", <<"T", "Item">>, <<>>) >>

TParam(name, bounds, default) == N("TYPE_PARAM", <<name, "">>, <<List("BOUNDS", bounds), default>>)
B(name) == N("BOUND", <<name>>, <<>>)
Nm(name) == N("NAME", <<name>>, <<>>)
TPs == List("TYPE_PARAMS", <<TParam("T", <<B("A"), N("BOUND", <<"I">>, <<N("ASSOC_CONSTRAINT", <<"Item">>, <<Ty("T")>>)>>)>>, None),
                             TParam("U", <<>>, Ty("i32")),
                             N("TYPE_PARAM", <<"N", "comptime">>, <<List("BOUNDS", <<Ty("usize")>>), None>>)>>)
Wh == List("WHERE_CLAUSES", <<N("WHERE", <<"T", "">>, <<Nm("A"), Nm("C")>>), N("WHERE", <<"T", "Item">>, <<Nm("A")>>)>>)
Pm(name, mut, dots, type) == N("PARAM", <<name, mut, dots>>, <<type>>)
Recv(kind) == N("RECV", <<"s", kind>>, <<>>)
Method(name, flags, recv, params, result, body) ==
    N("FN_DECL", <<name>> \o flags, <<recv, List("PARAMS", params), result, body>>)

Decls ==
    << N("FN_DECL", <<"f", "pub", "">>,
         <<TPs, List("PARAMS", <<Pm("a", "", "", Ty("T")), Pm("b", "mut", "..", List("TYPE_SLICE", <<Ty("U")>>))>>),
           Ty("T"), Wh, Block(<<>>, X)>>),
       N("FN_DECL", <<"g", "", "decl">>, <<NoParams, List("PARAMS", <<Pm("a", "", "", Ty("i32"))>>), Ty("i32"), NoWhere, None>>),
       Fn("h", <<>>, Ty("i32"), Bin("+", X, Y)),
       N("STRUCT_DECL", <<"S", "pub", "">>,
         <<TPs, Wh, N("FIELD_DECL", <<"a", "">>, <<Ty("i32"), Num(1)>>), N("FIELD_DECL", <<"b", "pub">>, <<Ty("T"), None>>),
           N("EMBEDDED", <<"Base">>, <<>>)>>),
       N("STRUCT_DECL", <<"Pt", "", "tuple">>, <<NoParams, NoWhere, Ty("i32"), Ty("T")>>),
       N("STRUCT_DECL", <<"Z", "", "">>, <<NoParams, NoWhere>>),
       N("ENUM_DECL", <<"E", "">>,
         <<List("TYPE_PARAMS", <<TParam("T", <<>>, None)>>), NoWhere, N("VARIANT", <<"A", "UNIT">>, <<>>),
           N("VARIANT", <<"B", "TUPLE">>, <<Ty("T"), Ty("i32")>>), N("VARIANT", <<"C", "UNIT">>, <<Num(4)>>),
           N("VARIANT", <<"D", "STRUCT">>, <<N("FIELD_DECL", <<"x">>, <<Ty("T")>>)>>)>>),
       N("PACT_DECL", <<"Q", "pub">>,
         <<NoParams, NoWhere, N("SUPER_PACT", <<"A">>, <<>>), N("ASSOC_TYPE", <<"Item", "">>, <<Nm("A"), Nm("C"), Ty("i32")>>),
           Method("m", <<"", "">>, Recv("*"), <<>>, Ty("i32"), None),
           Method("k", <<"", "">>, Recv("mut *"), <<Pm("a", "", "", Ty("T"))>>, Inferred, Block(<<>>, X))>>),
       N("EXT_DECL", <<"S">>,
         <<NoParams, List("TYPE_ARGS", <<>>), List("IMPLS", <<Nm("A"), Nm("Q")>>),
           N("ASSOC_TYPE", <<"Item", "">>, <<Ty("i32")>>), N("ASSOC_TYPE", <<"Item", "Q">>, <<Ty("S")>>),
           N("DOC", <<>>, <<Method("m", <<"pub", "">>, Recv("*"), <<Pm("a", "", "", Ty("T"))>>, Ty("i32"), Block(<<>>, X))>>),
           N("DOC", <<>>, <<Method("k", <<"", "">>, Recv("value"), <<>>, Inferred, X)>>),
           N("DOC", <<>>, <<Method("e", <<"", "decl">>, None, <<Pm("a", "", "", Ty("T"))>>, Inferred, None)>>)>>),
       N("EXT_DECL", <<"M">>, <<List("TYPE_PARAMS", <<TParam("T", <<>>, None)>>), List("TYPE_ARGS", <<Ty("T")>>), List("IMPLS", <<>>)>>),
       N("USE_DECL", <<"", "name", "a", "b">>, <<N("IMPORT", <<"c", "d">>, <<>>)>>),
       N("USE_DECL", <<"pub", "list", "a">>, <<N("IMPORT", <<"c", "d">>, <<>>), N("IMPORT", <<"e", "e">>, <<>>)>>),
       N("USE_DECL", <<"", "all", "a", "b">>, <<>>),
       N("MODULE", <<"m", "pub">>, <<Fn("f", <<>>, Inferred, Block(<<>>, X)),
                                     N("TYPE_ALIAS", <<"A", "">>, <<NoParams, Ty("i32")>>)>>),
       N("TYPE_ALIAS", <<"A", "pub">>, <<List("TYPE_PARAMS", <<TParam("T", <<>>, None)>>), N("TYPE_NAME", <<"M">>, <<Ty("T")>>)>>),
       N("VAR_DECL", <<"C", "immut", "pub">>, <<Ty("i32"), Num(1)>>),
       N("VAR_DECL", <<"C", "decl", "">>, <<Ty("i32"), None>>) >>

TypePrograms == {Fn("f", <<Pm("a", "", "", t), Pm("b", "mut", "", t)>>, t, Block(<<>>, X)) : t \in ToSet(Types)}

-----------------------------------------------------------------------------
\* Two spellings: a blank between any two tokens, and blanks only where two
\* tokens would run into one.
Marks == {"(", ")", "[", "]", "{", "}", ",", ";", "\n"}
Apart(a, b) ==
    LET la == SubSeq(a, Len(a), Len(a))
        fb == SubSeq(b, 1, 1)
        wordy(c) == c \in AlNum \cup {"\""}
    IN  /\ a \notin Marks /\ b \notin Marks
        /\ wordy(la) <=> wordy(fb)
RECURSIVE SpellFrom(_, _, _)
SpellFrom(toks, i, always) ==
    IF i > Len(toks) THEN ""
    ELSE (IF i > 1 /\ (always \/ Apart(toks[i - 1], toks[i])) THEN " " ELSE "")
         \o toks[i] \o SpellFrom(toks, i + 1, always)
Wide(toks)  == SpellFrom(toks, 1, TRUE)
Tight(toks) == SpellFrom(toks, 1, FALSE)

WellFormed(prog, spell(_)) ==
    LET toks == UnparseAll(prog, "\n")
    IN  [src |-> spell(toks), toks |-> toks, valid |-> TRUE,
         tree |-> [i \in DOMAIN prog |-> Desugar(prog[i])]]

\* The same text with its i-th token left out: it may or may not be a program.
WithoutToken(toks, i) ==
    [src |-> Wide(RemoveAt(toks, i)), toks |-> <<>>, valid |-> FALSE, tree |-> <<>>]

DeclPrograms == {<<Decls[i], Decls[i]>> : i \in DOMAIN Decls}
                \cup {<<Decls[i], Decls[i + 1]>> : i \in DOMAIN Front(Decls)}
Programs == {<<d>> : d \in OperatorPrograms \cup PostfixPrograms \cup ExprPrograms
                           \cup StmtPrograms \cup TypePrograms} \cup DeclPrograms

-----------------------------------------------------------------------------
Text(src, prog) == [src |-> src, toks |-> <<>>, valid |-> TRUE, tree |-> prog]
Interpolated(parts) == List("STR_INTERPOLATION", parts)

Texts ==
    { Text("a := \"n {x + 1} m {y}\"",
           <<Let("a", Interpolated(<<Str("n "), Bin("+", X, Num(1)), Str(" m "), Y, Str("")>>))>>),
      Text("a := \"{f(\"lit\")}{ {x} }\\u{41}\\n\"\nb := x",
           <<Let("a", Interpolated(<<Str(""), App1(Id("f"), Str("lit")), Str(""), Block(<<>>, X), Str("U+41\n")>>)),
             Let("b", X)>>),
      Text("a := \"\\{x\\\"\" // no {interpolation}\nb := '\\''\n",
           <<Let("a", Str("\\{x\"")), Let("b", N("LIT", <<"CHAR", "'\\''">>, <<>>))>>),
      Text("a := 1_0.5e-3\nb := x.0.1\nc := 3",
           <<Let("a", N("LIT", <<"F64", "1_0.5e-3">>, <<>>)), Let("b", Dot(Dot(X, "0"), "1")), Let("c", Num(3))>>),
      Text("// plain\n/// one\n///two\n//// rule\nmod m {\n /// inner\n fn f() = x }\n\n/// last\nfn g() = y // end",
           <<N("MODULE", <<"m", "">>, <<Fn("f", <<>>, Inferred, X)>>), Fn("g", <<>>, Inferred, Y)>>),
      Text("/// one\nfn f() -> i32\n{\n  x // c\n}\n\n/// lost?\n\n/// two\npub immut C := 1; /// three\nuse a::b",
           <<Fn("f", <<>>, Ty("i32"), Block(<<>>, X)), N("VAR_DECL", <<"C", "immut", "pub">>, <<Inferred, Num(1)>>),
             N("USE_DECL", <<"", "name", "a">>, <<N("IMPORT", <<"b", "b">>, <<>>)>>)>>),
      Text("/// one\ndecl fn f()\n\n/// two\nfn g()\n = x",
           <<N("FN_DECL", <<"f", "", "decl">>, <<NoParams, List("PARAMS", <<>>), Inferred, NoWhere, None>>),
             Fn("g", <<>>, Inferred, X)>>),
      Text("ext S {\n /// d\n pub fn m(*s) = x\n /// e\n /// f\n fn k() {}\n}\n/// g\nx := 1",
           <<N("EXT_DECL", <<"S">>, <<NoParams, List("TYPE_ARGS", <<>>), List("IMPLS", <<>>),
               N("DOC", <<"d">>, <<Method("m", <<"pub", "">>, Recv("*"), <<>>, Inferred, X)>>),
               N("DOC", <<"e", "f">>, <<Method("k", <<"", "">>, None, <<>>, Inferred, Block(<<>>, None))>>)>>),
             Let("x", Num(1))>>) }

\* Texts that are no programs: errors of the scanner.
Broken == {[src |-> s, toks |-> <<>>, valid |-> FALSE, tree |-> <<>>] :
              s \in {"a := \"open", "a := 'ab'", "await := 1", "a := 1 ~ 2", "fn f( {", "{ {", "enum E { fn f() {} }",
                     "struct S { type A }", "match", "x := ", "pub pub", "ext { }", "use a", "decl x", "if x {", "struct S : A { }", "enum E { 1 }", "pact P { a : i32 }"}}

\* Every program of declarations with one token left out.  Not the colon of a
\* public field: `pub name` is read as an embedded struct, and drops the pub.
\* Not the brace that closes a use list: the loop over the list never ends at
\* a token that is no name.
ReadOtherwise(toks, j) ==
    \/ j > 2 /\ toks[j] = ":" /\ toks[j - 2] = "pub"
    \/ toks[j] = "}" /\ \E k \in 1 .. j : toks[k] = "use" /\ "\n" \notin ToSet(SubSeq(toks, k, j))
Omitted ==
    UNION {{WithoutToken(toks, i) : i \in {j \in DOMAIN toks : ~ReadOtherwise(toks, j)}} :
             toks \in {UnparseAll(p, "\n") : p \in DeclPrograms}}

\* A method with an attribute, public or not.
Attributed ==
    {Text(s, <<>>) : s \in {"ext S {\n #[inline]\n fn m(*s) = x\n}", "ext S { pub #[inline] fn m(*s) = x }"}}

MCSources ==
    {WellFormed(p, Wide) : p \in Programs} \cup {WellFormed(p, Tight) : p \in Programs}
    \cup Texts \cup Broken \cup Omitted
=============================================================================
