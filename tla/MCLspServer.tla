---------------------------- MODULE MCLspServer ----------------------------
(* LspServer with a few texts and two documents, for TLC. *)
EXTENDS LspServer

CONSTANTS u1, u2, valid, invalid, broken

MCUris == {u1, u2}

Decl(kind, name, line, bound, methods, uses) ==
  [kind |-> kind, name |-> name, line |-> line, file |-> "here", vars |-> bound,
   methods |-> methods, uses |-> uses]
Fn(name, line, bound, uses) ==
  [kind |-> "fn", name |-> name, line |-> line, vars |-> bound, methods |-> << >>,
   uses |-> uses]
Var(name, line) == [name |-> name, line |-> line]

\* print, with a parameter s, on line 4 of the library: not below the cursor, and
\* a greater number than the line of any s of the documents.
MCStdDecls ==
  <<[Decl("fn", "print", 4, <<Var("s", 4)>>, << >>, << >>) EXCEPT !.file = "std"]>>

Text(lex, parse, sema, decls, words) ==
  [lex |-> lex, parse |-> parse, sema |-> sema, decls |-> decls, words |-> words]

\* A pact on line 1 with a method that has a body, fn f(s) on line 2, with a
\* local s on line 3 and a use of it on line 4, a struct on line 5, and an ext
\* block for it on line 6 that takes the method over: what it uses is walked
\* again, after f.  A function of another file, too, put among the declarations
\* as an instance.
Valid ==
  LET m == Fn("m", 1, << >>, <<<<0, 9>>>>) IN
  Text(FALSE, FALSE, {"elsewhere"},
       <<Decl("pact", "P", 1, << >>, <<m>>, << >>),
         Decl("fn", "f", 2, <<Var("s", 2), Var("s", 3)>>, << >>, <<<<3, 5>>>>),
         Decl("struct", "S", 5, << >>, << >>, << >>) @@ ("found" :> TRUE),
         Decl("ext", "S", 6, << >>, <<m>>, << >>),
         [Decl("fn", "s", 2, << >>, << >>, << >>) EXCEPT !.file = "elsewhere"]>>,
       <<"m", "f", "s", "s", "S", "S">>)

\* Structs with a field and a method that uses its parameter, a print of its
\* own below its use, and an error.
Struct(name, line, found) ==
  Decl("struct", name, line, <<Var("s", line)>>,
       <<Fn("f", line + 1, <<Var("t", line + 1)>>, <<<<line, 3>>>>)>>, << >>) @@ ("found" :> found)
Invalid == Text(FALSE, FALSE, {"here"},
                <<Struct("T", 1, TRUE),
                  Decl("fn", "print", 5, << >>, << >>, << >>),
                  Struct("U", 6, FALSE)>>,
                <<"T", "t", "f", "print", "print", "U", "t">>)

\* Neither the lexer nor the parser takes it; the first of them reports it.
Broken == Text(TRUE, TRUE, {}, << >>, <<NONE, "f", NONE, "i32">>)

MCTexts == {valid, invalid, broken}
MCContent == (valid :> Valid @@ invalid :> Invalid @@ broken :> Broken)
\* On line 3 the first text has three entries for s to choose from, the second
\* one of the library above and one of its own below, the third a type.
MCLines == {3}
=============================================================================
