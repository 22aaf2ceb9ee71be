------------------------------- MODULE Grammar --------------------------------
(***************************************************************************)
(* The concrete syntax of Resurg, as its README presents it, in the other  *)
(* direction: from a syntax tree to the tokens that write it.  It is what  *)
(* the parser is compared with, and is not a part of the compiler.         *)
(***************************************************************************)
EXTENDS Tokens, ParserBase

Flatten(seqs) == FlattenSeq(seqs)
Separated(seqs, sep) ==
    Flatten([i \in DOMAIN seqs |-> IF i = 1 THEN seqs[i] ELSE <<sep>> \o seqs[i]])

\* How a token is written: the lexeme of a string is its contents.
Shown(t) == IF t.kind = "STR_LIT" THEN "\"" \o t.lex \o "\"" ELSE t.lex

\* The tokens that carry meaning: grouping and separation left out.  The unit
\* value is written `unit` or `()`, and a path's `::` is a member access.
Significant(lexemes) ==
    LET kept == SelectSeq(lexemes, LAMBDA x : x \notin {"(", ")", ",", ";", "\n", "unit"})
    IN  [i \in DOMAIN kept |-> IF kept[i] = "::" THEN "." ELSE kept[i]]

\* The README's precedence table, from the weakest level up.
ReadmeLevels ==
    << {"=", "+=", "-=", "*=", "/="}, {"|>"}, {"||"}, {"&&"}, {"==", "!="},
       {"<", ">", "<=", ">="}, {"+", "-"}, {"*", "/", "%"} >>
UnaryLevel == 9
TryLevel   == 10
CallLevel  == 11

OpLevel(op) == CHOOSE i \in DOMAIN ReadmeLevels : op \in ReadmeLevels[i]

LevelOf(n) ==
    CASE n.k \in {"ASSIGN", "CLOSURE"} -> 1
      [] n.k \in {"COMPOUND_ASSIGN", "BINARY"} -> OpLevel(n.a[1])
      [] n.k = "PIPE" -> OpLevel("|>")
      [] n.k \in {"UNARY", "DEREF", "ADDRESS_OF"} -> UnaryLevel
      [] n.k = "TRY" -> TryLevel
      [] OTHER -> CallLevel

RECURSIVE Unparse(_), UnparseAll(_, _)

UnparseAll(nodes, sep) ==
    CASE Len(nodes) = 0 -> <<>>
      [] Len(nodes) = 1 -> Unparse(nodes[1])
      [] OTHER -> Unparse(nodes[1]) \o <<sep>> \o UnparseAll(Tail(nodes), sep)
Opt(n, mark) == IF n.k \in {"NULL", "INFERRED"} THEN <<>> ELSE mark \o Unparse(n)
Word(w) == IF w = "" THEN <<>> ELSE <<w>>
Paren(nodes) == <<"(">> \o UnparseAll(nodes, ",") \o <<")">>
Angle(nodes) == IF nodes = <<>> THEN <<>> ELSE <<"<">> \o UnparseAll(nodes, ",") \o <<">">>

\* An operand, in parentheses when it binds less tightly than level.
Operand(n, level) ==
    IF LevelOf(n) < level THEN <<"(">> \o Unparse(n) \o <<")">> ELSE Unparse(n)

\* An operator's left operand and right operand: all group to the left but
\* the assignments.
Infix(l, op, r) ==
    LET level == OpLevel(op)
        right == level = 1
    IN  Operand(l, IF right THEN level + 1 ELSE level) \o <<op>>
        \o Operand(r, IF right THEN level ELSE level + 1)

UnparseType(n) ==
    CASE n.k = "TYPE_NAME" /\ n.a[1] = "Option" -> <<"?">> \o Unparse(n.c[1])
      [] n.k = "TYPE_NAME" /\ n.a[1] = "Result" -> Unparse(n.c[1]) \o <<"!">> \o Unparse(n.c[2])
      [] n.k = "TYPE_NAME" /\ n.a[1] \notin {"Option", "Result"} -> n.a \o Angle(n.c)
      [] n.k = "TYPE_ASSOC" -> <<n.a[1], "::", n.a[2]>>
      [] n.k = "TYPE_PTR"   -> <<"*">> \o Unparse(n.c[1])
      [] n.k = "TYPE_SLICE" -> <<"[", "]">> \o Unparse(n.c[1])
      [] n.k = "TYPE_ARRAY" -> <<"[", n.a[1], "]">> \o Unparse(n.c[1])
      [] n.k = "TYPE_TUPLE" -> Paren(n.c)
      [] n.k = "TYPE_FN"    -> n.a \o Paren(Front(n.c)) \o Opt(Last(n.c), <<"->">>)
      [] n.k = "COMPTIME_INT" -> n.a

UnparsePattern(n) ==
    CASE n.k = "PATTERN_WILDCARD" -> <<"_">>
      [] n.k = "PATTERN_LIT"      -> IF n.a[1] = "-1" THEN <<"-", "1">> ELSE n.a
      [] n.k = "PATTERN_RANGE"    -> n.a
      [] n.k = "PATTERN_BINDING"  -> n.a
      [] n.k = "PATTERN_VARIANT_TUPLE"  -> n.a \o Paren(n.c)
      [] n.k = "PATTERN_VARIANT_STRUCT" -> n.a \o <<"{">> \o UnparseAll(n.c, ",") \o <<"}">>

\* An argument, given whether it is spread.
UnparseArg(n, spread) ==
    Word(n.a[2]) \o Word(spread)
    \o (IF n.a[1] = "" THEN <<>> ELSE <<n.a[1], "=">>) \o Unparse(n.c[1])

UnparseCall(n) ==
    LET args  == n.c[3].c
        flag(i) == IF i \in DOMAIN n.a THEN n.a[i] ELSE ""
        list  == <<"(">> \o Separated([i \in DOMAIN args |-> UnparseArg(args[i], flag(i))], ",")
                 \o <<")">>
        f     == n.c[1]
    IN  IF f.k = "MEMBER" /\ n.c[2].c # <<>>
        THEN Unparse(f.c[1]) \o Unparse(n.c[2]) \o <<"::", f.a[1]>> \o list
        ELSE Operand(f, CallLevel) \o Unparse(n.c[2]) \o list

Fields(nodes) == <<"{">> \o UnparseAll(nodes, ",") \o <<"}">>

UnparseExpr(n) ==
    CASE n.k = "LIT" -> <<IF n.a[1] = "STR" THEN "\"" \o n.a[2] \o "\"" ELSE n.a[2]>>
      [] n.k = "ID"  -> n.a
      [] n.k \in {"UNARY", "DEREF", "ADDRESS_OF"} -> n.a \o Operand(n.c[1], UnaryLevel)
      [] n.k \in {"BINARY", "COMPOUND_ASSIGN"} -> Infix(n.c[1], n.a[1], n.c[2])
      [] n.k = "ASSIGN" -> Infix(n.c[1], "=", n.c[2])
      [] n.k = "PIPE"   -> Infix(n.c[1], "|>", n.c[2])
      [] n.k = "TRY"    -> Operand(n.c[1], TryLevel) \o <<"!">>
      [] n.k = "CALL"   -> UnparseCall(n)
      [] n.k = "TYPE_ARGS" -> Angle(n.c)
      [] n.k = "MEMBER" -> Operand(n.c[1], TryLevel) \o <<".", n.a[1]>>
      [] n.k = "OPTIONAL_CHAIN" -> Operand(n.c[1], TryLevel) \o <<"?.", n.a[1]>>
      [] n.k = "IDX"    -> Operand(n.c[1], CallLevel) \o <<"[">> \o Unparse(n.c[2]) \o <<"]">>
      [] n.k = "SLICE_EXPR" -> Operand(n.c[1], CallLevel) \o <<"[">> \o Opt(n.c[2], <<>>)
                               \o <<"..">> \o Opt(n.c[3], <<>>) \o <<"]">>
      [] n.k = "TYPE_CONVERSION" -> n.a \o Paren(n.c)
      [] n.k = "TUPLE_LIT"  -> <<"(">> \o UnparseAll(n.c, ",")
                               \o (IF Len(n.c) = 1 THEN <<",", ")">> ELSE <<")">>)
      [] n.k = "SLICE_LIT"  -> <<"[", "]">> \o Unparse(n.c[1]) \o Fields(Tail(n.c))
      [] n.k = "ARRAY_LIT"  -> IF n.c[1] = Inferred
                               THEN <<"[">> \o UnparseAll(Tail(n.c), ",") \o <<"]">>
                               ELSE <<"[", n.a[1], "]">> \o Unparse(n.c[1]) \o Fields(Tail(n.c))
      [] n.k = "STRUCT_LIT" -> n.a \o Unparse(n.c[1]) \o Fields(Tail(n.c))
      [] n.k = "ENUM_INIT"  -> <<n.a[1]>> \o Unparse(n.c[1]) \o <<"::", n.a[2]>> \o Fields(Tail(n.c))
      [] n.k = "FIELD"      -> n.a \o <<"=">> \o Unparse(n.c[1])
      [] n.k = "CLOSURE"    -> <<"|">> \o UnparseAll(n.c[1].c, ",") \o <<"|">> \o Opt(n.c[2], <<"->">>)
                               \o (IF n.c[3].k = "BLOCK" THEN Unparse(n.c[3]) ELSE Operand(n.c[3], 3))

\* A condition: an expression, or a pattern and what it is matched with.
UnparseCond(pat, e) == Opt(pat, <<>>) \o (IF pat = None THEN <<>> ELSE <<":=">>) \o Unparse(e)

UnparseStmt(n) ==
    CASE n.k = "BLOCK" -> <<"{">> \o UnparseAll(n.c[1].c \o (IF n.c[2] = None THEN <<>> ELSE <<n.c[2]>>), "\n")
                          \o <<"}">>
      [] n.k = "EXPR_STMT" -> Unparse(n.c[1])
      [] n.k = "IF"    -> <<"if">> \o UnparseCond(n.c[1], n.c[2]) \o Unparse(n.c[3]) \o Opt(n.c[4], <<"else">>)
      [] n.k = "MATCH" -> <<"match">> \o Unparse(n.c[1]) \o <<"{">> \o UnparseAll(Tail(n.c), ",") \o <<"}">>
      [] n.k = "ARM"   -> Unparse(n.c[1]) \o Opt(n.c[2], <<"if">>) \o <<"=>">> \o Unparse(n.c[3])
      [] n.k = "LOOP"  -> <<"loop">> \o Unparse(n.c[1])
      [] n.k = "WHILE" -> <<"while">> \o UnparseCond(n.c[1], n.c[2]) \o Unparse(n.c[3])
      [] n.k = "FOR"   -> <<"for">> \o Unparse(n.c[1]) \o Opt(n.c[2], <<"..">>) \o <<"|", n.a[1]>>
                          \o (IF n.a[2] = "" THEN <<>> ELSE <<",", n.a[2]>>) \o <<"|">> \o Unparse(n.c[3])
      [] n.k = "DEFER"    -> <<"defer">> \o Unparse(n.c[1])
      [] n.k = "BREAK"    -> <<"break">> \o Opt(n.c[1], <<>>)
      [] n.k = "RETURN"   -> <<"return">> \o Opt(n.c[1], <<>>)
      [] n.k = "CONTINUE" -> <<"continue">>
      [] n.k = "REST"     -> <<"..">>
      [] n.k = "NAME"     -> IF Len(n.a) = 1 \/ n.a[Len(n.a)] = "" THEN <<n.a[1]>>
                             ELSE <<n.a[1], ":", n.a[2]>>
      [] n.k = "STRUCT_DESTRUCTURE" -> Fields(Front(n.c)) \o <<":=">> \o Unparse(Last(n.c))
      [] n.k = "TUPLE_DESTRUCTURE"  -> Paren(Front(n.c)) \o <<":=">> \o Unparse(Last(n.c))
      [] n.k = "VAR_DECL" ->
            LET flags == Tail(n.a)
                order == IF "pub" \in Range(flags) THEN <<"pub">> ELSE <<>>
            IN  order \o (CASE "decl" \in Range(flags)  -> <<"decl", "var">>
                            [] "immut" \in Range(flags) -> <<"immut">>
                            [] "var" \in Range(flags)   -> <<"var">>
                            [] OTHER -> <<>>)
                \o <<n.a[1]>> \o Opt(n.c[1], <<":">>)
                \o Opt(n.c[2], <<IF n.c[1] = Inferred /\ ~("var" \in Range(flags)) THEN ":=" ELSE "=">>)

\* The head of a declaration: its name, its type parameters, its where clauses.
Heading(n) == <<n.a[1]>> \o Unparse(n.c[1]) \o Unparse(n.c[2])
Items(n, from) == UnparseAll(SubSeq(n.c, from, Len(n.c)), "\n")
PlusList(names) == UnparseAll(names, "+")

\* A body: a block, or an expression after an equals sign.
UnparseBody(n) == IF n.k = "BLOCK" THEN Unparse(n) ELSE Opt(n, <<"=">>)

UnparseFn(n) ==
    Word(n.a[2]) \o Word(n.a[3]) \o <<"fn", n.a[1]>>
    \o (IF Len(n.c) = 4   \* a method: receiver, parameters, result, body
        THEN <<"(">> \o Opt(n.c[1], <<>>)
             \o (IF n.c[1] # None /\ n.c[2].c # <<>> THEN <<",">> ELSE <<>>)
             \o UnparseAll(n.c[2].c, ",") \o <<")">> \o Opt(n.c[3], <<"->">>) \o UnparseBody(n.c[4])
        ELSE Unparse(n.c[1]) \o Paren(n.c[2].c) \o Opt(n.c[3], <<"->">>) \o Unparse(n.c[4])
             \o UnparseBody(n.c[5]))

UnparseDecl(n) ==
    CASE n.k = "TYPE_PARAMS" -> Angle(n.c)
      [] n.k = "TYPE_PARAM"  -> Word(n.a[2]) \o <<n.a[1]>>
                                \o (IF n.c[1].c = <<>> THEN <<>> ELSE <<":">> \o PlusList(n.c[1].c))
                                \o Opt(n.c[2], <<"=">>)
      [] n.k = "BOUND"   -> n.a \o Angle(n.c)
      [] n.k = "ASSOC_CONSTRAINT" -> n.a \o <<"=">> \o Unparse(n.c[1])
      [] n.k = "WHERE_CLAUSES" -> IF n.c = <<>> THEN <<>> ELSE <<"where">> \o UnparseAll(n.c, ",")
      [] n.k = "WHERE"   -> <<n.a[1]>> \o (IF n.a[2] = "" THEN <<>> ELSE <<"::", n.a[2]>>)
                            \o <<":">> \o PlusList(n.c)
      [] n.k = "PARAM"   -> (IF Len(n.a) = 3 THEN Word(n.a[2]) ELSE <<>>) \o <<n.a[1]>>
                            \o Opt(n.c[1], IF Len(n.a) = 3 /\ n.a[3] = ".." THEN <<":", "..">> ELSE <<":">>)
      [] n.k = "RECV"    -> (CASE n.a[2] = "mut *" -> <<"mut", "*">> [] n.a[2] = "*" -> <<"*">>
                               [] OTHER -> <<>>) \o <<n.a[1]>>
      [] n.k = "FN_DECL" -> UnparseFn(n)
      [] n.k = "DOC"     -> Unparse(n.c[1])
      [] n.k = "STRUCT_DECL" -> Word(n.a[2]) \o <<"struct">> \o Heading(n)
                                \o (IF n.a[3] = "tuple" THEN Paren(SubSeq(n.c, 3, Len(n.c)))
                                    ELSE <<"{">> \o Items(n, 3) \o <<"}">>)
      [] n.k = "FIELD_DECL"  -> (IF Len(n.a) = 2 THEN Word(n.a[2]) ELSE <<>>) \o <<n.a[1], ":">>
                                \o Unparse(n.c[1]) \o (IF Len(n.c) = 2 THEN Opt(n.c[2], <<"=">>) ELSE <<>>)
      [] n.k \in {"EMBEDDED", "SUPER_PACT"} -> n.a
      [] n.k = "ENUM_DECL" -> Word(n.a[2]) \o <<"enum">> \o Heading(n) \o <<"{">> \o Items(n, 3) \o <<"}">>
      [] n.k = "VARIANT"   -> <<n.a[1]>> \o (CASE n.a[2] = "TUPLE" -> Paren(n.c)
                                               [] n.a[2] = "STRUCT" -> Fields(n.c)
                                               [] n.c # <<>> -> <<"=">> \o Unparse(n.c[1])
                                               [] OTHER -> <<>>)
      [] n.k = "PACT_DECL" -> Word(n.a[2]) \o <<"pact">> \o Heading(n) \o <<"{">> \o Items(n, 3) \o <<"}">>
      [] n.k = "ASSOC_TYPE" -> <<"type">> \o (IF n.a[2] = "" THEN <<>> ELSE <<n.a[2], "::">>) \o <<n.a[1]>>
                               \o (IF Len(n.c) = 1 THEN <<>> ELSE <<":">> \o PlusList(Front(n.c)))
                               \o Opt(Last(n.c), <<"=">>)
      [] n.k = "IMPLS"    -> IF n.c = <<>> THEN <<>> ELSE <<"impl">> \o PlusList(n.c)
      [] n.k = "EXT_DECL" -> <<"ext">> \o Unparse(n.c[1]) \o <<n.a[1]>> \o Unparse(n.c[2]) \o Unparse(n.c[3])
                             \o <<"{">> \o Items(n, 4) \o <<"}">>
      [] n.k = "IMPORT"   -> IF n.a[1] = n.a[2] THEN <<n.a[1]>> ELSE <<n.a[1], "as", n.a[2]>>
      [] n.k = "USE_DECL" -> Word(n.a[1]) \o <<"use">>
                             \o Separated([i \in 1 .. Len(n.a) - 2 |-> <<n.a[i + 2]>>], "::") \o <<"::">>
                             \o (CASE n.a[2] = "all"  -> <<"*">>
                                   [] n.a[2] = "list" -> Fields(n.c)
                                   [] OTHER -> Unparse(n.c[1]))
      [] n.k = "MODULE"   -> Word(n.a[2]) \o <<"mod", n.a[1]>>
                             \o (IF n.c = <<>> THEN <<>> ELSE <<"{">> \o Items(n, 1) \o <<"}">>)
      [] n.k = "TYPE_ALIAS" -> Word(n.a[2]) \o <<"type", n.a[1]>> \o Unparse(n.c[1]) \o <<"=">> \o Unparse(n.c[2])

TypeKinds == {"TYPE_NAME", "TYPE_ASSOC", "TYPE_PTR", "TYPE_SLICE", "TYPE_ARRAY",
              "TYPE_TUPLE", "TYPE_FN", "COMPTIME_INT"}
PatternKinds == {"PATTERN_WILDCARD", "PATTERN_LIT", "PATTERN_RANGE", "PATTERN_BINDING",
                 "PATTERN_VARIANT_TUPLE", "PATTERN_VARIANT_STRUCT"}
ExprKinds == {"LIT", "ID", "UNARY", "DEREF", "ADDRESS_OF", "BINARY", "COMPOUND_ASSIGN", "ASSIGN",
              "PIPE", "TRY", "CALL", "TYPE_ARGS", "MEMBER", "OPTIONAL_CHAIN", "IDX", "SLICE_EXPR",
              "TYPE_CONVERSION", "TUPLE_LIT", "SLICE_LIT", "ARRAY_LIT", "STRUCT_LIT", "ENUM_INIT",
              "FIELD", "CLOSURE"}
StmtKinds == {"BLOCK", "EXPR_STMT", "IF", "MATCH", "ARM", "LOOP", "WHILE", "FOR", "DEFER", "BREAK",
              "RETURN", "CONTINUE", "REST", "NAME", "STRUCT_DESTRUCTURE", "TUPLE_DESTRUCTURE", "VAR_DECL"}

Unparse(n) ==
    CASE n.k \in TypeKinds    -> UnparseType(n)
      [] n.k \in PatternKinds -> UnparsePattern(n)
      [] n.k \in ExprKinds    -> UnparseExpr(n)
      [] n.k \in StmtKinds    -> UnparseStmt(n)
      [] OTHER                -> UnparseDecl(n)

\* What the parser is to make of a tree: a pipe is a call.
RECURSIVE Desugar(_)
Desugar(n) ==
    LET c == FoldLeft(LAMBDA done, x : Append(done, Desugar(x)), <<>>, n.c)
        arg == N("ARG", <<"", "">>, <<c[1]>>)
    IN  IF n.k # "PIPE" THEN N(n.k, n.a, c)
        ELSE IF c[2].k = "CALL"
        THEN N("CALL", IF c[2].a = <<>> THEN <<>> ELSE <<"">> \o c[2].a,
               <<c[2].c[1], c[2].c[2], List("ARGS", <<arg>> \o c[2].c[3].c)>>)
        ELSE N("CALL", <<>>, <<c[2], List("TYPE_ARGS", <<>>), List("ARGS", <<arg>>)>>)

\* The documentation comments between the token at start and the one that
\* precedes it among the tokens that are no line ends.
DocsBefore(ts, start) ==
    LET first == CHOOSE i \in 1 .. start :
                     /\ \A j \in i .. start - 1 : ts[j].kind \in LineEnds \cup {"DOC_COMMENT"}
                     /\ i > 1 => ts[i - 1].kind \notin LineEnds \cup {"DOC_COMMENT"}
        docs  == SelectSeq(SubSeq(ts, first, start - 1), LAMBDA t : t.kind = "DOC_COMMENT")
    IN  [i \in DOMAIN docs |-> docs[i].lex]
=============================================================================
