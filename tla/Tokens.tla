-------------------------------- MODULE Tokens --------------------------------
(***************************************************************************)
(* The token kinds of the front end (core/token.h, core/token.c).  A kind  *)
(* is written as TOKEN_TABLE names it: a keyword or an operator is its own *)
(* text, the other kinds have a name ("ID", "INTEGER_LIT", "NEWLINE"...).  *)
(* A token is its kind and its lexeme; its source location is left out.    *)
(***************************************************************************)
EXTENDS Integers, Sequences, SequencesExt

\* The keywords that name a type (TKF_TYPE_KEYWORD).
TypeKeywords ==
    {"bool", "i8", "i16", "i32", "i64", "i128", "u8", "u16", "u32", "u64",
     "u128", "isize", "usize", "f32", "f64", "char", "str", "unit", "never"}

\* The reserved words the lexer turns into tokens of their own kind.
Keywords ==
    TypeKeywords \cup
    {"mod", "pub", "fn", "var", "if", "else", "loop", "for", "break",
     "continue", "true", "false", "type", "struct", "mut", "immut", "enum",
     "pact", "match", "return", "while", "defer", "ext", "use", "impl",
     "where", "comptime", "Self", "decl"}

\* Words kept for later versions: no identifier may have their name.
ReservedKeywords == {"async", "await", "macro", "spawn"}

\* The binding strength of the infix operators, weakest first; every other
\* kind has strength 0 (PRECEDENCE_NONE) and ends an expression.
PrecedenceLevels ==
    << {"=", "+=", "-=", "*=", "/="}, {"|>"}, {"||"}, {"&&"}, {"==", "!="},
       {"<", "<=", ">", ">="}, {"+", "-"}, {"*", "/", "%"} >>

AssignLevel == 1
PipeLevel   == 2

TokenPrecedence(kind) ==
    IF \E i \in DOMAIN PrecedenceLevels : kind \in PrecedenceLevels[i]
    THEN CHOOSE i \in DOMAIN PrecedenceLevels : kind \in PrecedenceLevels[i]
    ELSE 0

CompoundAssigns == {"+=", "-=", "*=", "/="}

Token(kind, lexeme) == [kind |-> kind, lex |-> lexeme]
EofToken == Token("EOF", "")
=============================================================================
