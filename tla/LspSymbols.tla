------------------------------ MODULE LspSymbols ------------------------------
(***************************************************************************)
(* What the language server derives from the text of a document:           *)
(* diagnostics, the index of symbols and the semantic tokens               *)
(* (lsp_server.c: compile_diagnostics, lsp_symbol.c, lsp_semtokens.c), and *)
(* its searches in them.                                                   *)
(*                                                                         *)
(* A text is given by what the front end makes of it:                      *)
(*   lex, parse   there is an error of that pass                           *)
(*   sema         where resolve, check and mono find errors: in the text   *)
(*                ("here"), in a file that it imports ("elsewhere")        *)
(*   decls        the declarations of its tree behind those of the library *)
(*   words        the identifier on each line, or NONE                     *)
(* The tree is as resolve, check and mono leave it: behind the             *)
(* declarations of the text come the instances of generic ones, with the   *)
(* places of what they are instances of, and a method that an ext block    *)
(* takes over from a pact is among the methods of both (mono.c:24 and 98,  *)
(* resolve_ext.c:160).                                                     *)
(*                                                                         *)
(* A declaration has its kind, name and line, the file it is from, its     *)
(* vars (a function's receiver, parameters and locals, a struct's fields,  *)
(* an enum's variants), its methods, and the positions, as far as they are *)
(* in the text, where it uses a parameter or local, in the order of the    *)
(* tree.  A struct may be one that sema_lookup_struct does not find.       *)
(* Lines of declarations count from 1, those of the protocol from 0.       *)
(***************************************************************************)
EXTENDS Integers, SequencesExt, Lists

CONSTANTS NONE,          \* NULL
          StdDecls,      \* declarations of builtin.rsg and prelude.rsg in the
                         \* directory of --std-path, or << >> without it
          BuiltinTypes   \* names with a description of their own

\* What the front end makes of a text.
Positions == Nat \X Nat
Names == [name : STRING, line : Nat]
Functions == [kind : {"fn"}, name : STRING, line : Nat, vars : Seq(Names),
              methods : {<< >>}, uses : Seq(Positions)]
Files == {"here", "std", "elsewhere"}
Decls == [kind : STRING \ {"struct"}, name : STRING, line : Nat, file : Files,
          vars : Seq(Names), methods : Seq(Functions), uses : Seq(Positions)]
         \cup [kind : {"struct"}, name : STRING, line : Nat, file : Files,
               vars : Seq(Names), methods : Seq(Functions), uses : Seq(Positions),
               found : BOOLEAN]
Contents == [lex : BOOLEAN, parse : BOOLEAN, sema : SUBSET {"here", "elsewhere"},
             decls : Seq(Decls), words : Seq(STRING \cup {NONE})]

\* LspSymEntry.  Of its hover text, whether there is one.
Entries == [name : STRING, line : Nat, container : STRING \cup {NONE},
            hover : BOOLEAN, is_std : BOOLEAN]

ASSUME SymbolsAssumption == NONE \notin Entries /\ StdDecls \in Seq(Decls)

Entry(name, line, container) ==
  [name |-> name, line |-> line, container |-> container, hover |-> TRUE,
   is_std |-> FALSE]

\* index_fn_decl: the function, then its receiver, parameters and locals.
IndexFn(fn, container) ==
  <<Entry(fn.name, fn.line, container)>>
    \o [i \in DOMAIN fn.vars |-> Entry(fn.vars[i].name, fn.vars[i].line, NONE)]

IndexMethods(decl) ==
  FlattenSeq([i \in DOMAIN decl.methods |-> IndexFn(decl.methods[i], decl.name)])

\* Fields and variants are located at the declaration of their type.
IndexMembers(decl) ==
  [i \in DOMAIN decl.vars |-> Entry(decl.vars[i].name, decl.line, decl.name)]

IndexDecl(decl) ==
  LET self == <<Entry(decl.name, decl.line, NONE)>> IN
  CASE decl.kind = "fn" -> IndexFn(decl, NONE)
    [] decl.kind = "struct" /\ decl.found -> self \o IndexMethods(decl) \o IndexMembers(decl)
    [] decl.kind = "struct" /\ ~ decl.found ->
         <<[self[1] EXCEPT !.hover = FALSE]>> \o IndexMethods(decl)
    [] decl.kind = "enum" -> self \o IndexMembers(decl) \o IndexMethods(decl)
    [] decl.kind = "pact" -> self \o IndexMethods(decl)
    [] decl.kind = "ext" -> IndexMethods(decl)
    [] decl.kind = "var" -> self
    [] OTHER -> << >>

\* lsp_build_symbol_index: the declarations of files that are neither the
\* document nor of the library are left out, and the library's entries marked.
IndexFrom(decl) ==
  LET entries == IF decl.file = "elsewhere" THEN << >> ELSE IndexDecl(decl)
  IN [i \in DOMAIN entries |-> [entries[i] EXCEPT !.is_std = (decl.file = "std")]]

BuildSymbolIndex(decls) == FlattenSeq([i \in DOMAIN decls |-> IndexFrom(decls[i])])

\* sem_walk: what is used in a body, in the order of the walk.
WalkMethods(decl) == FlattenSeq([i \in DOMAIN decl.methods |-> decl.methods[i].uses])

WalkDecl(decl) ==
  CASE decl.kind \in {"fn", "var"} -> decl.uses
    [] decl.kind \in {"struct", "enum", "pact", "ext"} -> WalkMethods(decl)
    [] OTHER -> << >>

\* lsp_build_semantic_tokens: a body that is in the tree twice is walked twice.
SemanticTokens(decls) == FlattenSeq([i \in DOMAIN decls |-> WalkDecl(decls[i])])

\* compile_diagnostics: the first pass with errors is the last that runs, but
\* for the semantic ones, whose results are used whatever they report.
Compile(text) ==
  IF text.lex THEN [diags |-> {"lex"}, symbols |-> << >>, tokens |-> << >>]
  ELSE IF text.parse THEN [diags |-> {"parse"}, symbols |-> << >>, tokens |-> << >>]
  ELSE [diags |-> IF "here" \in text.sema THEN {"sema"} ELSE {},
        symbols |-> BuildSymbolIndex(StdDecls \o text.decls),
        tokens |-> SemanticTokens(StdDecls \o text.decls)]

-----------------------------------------------------------------------------
(* Searches.                                                               *)

\* lsp_extract_word_at.
WordAt(text, line) == IF line + 1 \in DOMAIN text.words THEN text.words[line + 1] ELSE NONE

\* lsp_find_symbol.
FindSymbol(syms, name) ==
  LET i == SelectInSeq(syms, LAMBDA s : s.name = name)
  IN IF i = 0 THEN NONE ELSE syms[i]

\* Mutant: library and own entries compete by their lines alone.
CloserAny(best, s) == IF best = NONE \/ s.line > best.line THEN s ELSE best

\* One round of the loop of lsp_find_symbol_at: an entry of the document goes
\* before one of the library, then the lower one in the text.
Closer(best, s) ==
  IF \/ best = NONE
     \/ best.is_std /\ ~ s.is_std
     \/ best.is_std = s.is_std /\ s.line > best.line
  THEN s ELSE best

\* lsp_find_symbol_at: the closest entry at or before the cursor, or the first.
FindSymbolAt(syms, name, line) ==
  LET best[i \in 0 .. Len(syms)] ==
        IF i = 0 THEN NONE
        ELSE IF syms[i].name = name /\ syms[i].line - 1 <= line
             THEN Closer(best[i - 1], syms[i]) ELSE best[i - 1]
  IN IF best[Len(syms)] = NONE THEN FindSymbol(syms, name) ELSE best[Len(syms)]

-----------------------------------------------------------------------------
(* Semantic tokens are sent as differences of positions.                   *)

\* lsp_sem_token_cmp.
Precedes(t, u) == t[1] < u[1] \/ (t[1] = u[1] /\ t[2] < u[2])

InOrder(s) == \A i, j \in DOMAIN s : i < j => ~ Precedes(s[j], s[i])

Occurrences(s, v) == {i \in DOMAIN s : s[i] = v}

\* s has the elements of t, each as often.
Rearranged(s, t) ==
  \A v \in ToSet(s) \cup ToSet(t) :
    Cardinality(Occurrences(s, v)) = Cardinality(Occurrences(t, v))

\* qsort: tokens at one position stay as many as they are.
SortTokens(tokens) ==
  CHOOSE s \in [DOMAIN tokens -> ToSet(tokens)] : InOrder(s) /\ Rearranged(s, tokens)

\* The loop of handle_semantic_tokens_full.
Deltas(tokens) ==
  [i \in DOMAIN tokens |->
     LET prev == IF i = 1 THEN <<0, 0>> ELSE tokens[i - 1]
         line == tokens[i][1] - prev[1]
     IN <<line, IF line = 0 THEN tokens[i][2] - prev[2] ELSE tokens[i][2]>>]
=============================================================================
