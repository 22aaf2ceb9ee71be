------------------------------- MODULE Frontend -------------------------------
(***************************************************************************)
(* The front end of the compiler, source text to syntax tree: stage_lex    *)
(* and stage_parse of driver/pipeline.c, over the scanner (Lexer) and the  *)
(* parser (Parser).  One step scans a token or parses a declaration.       *)
(*                                                                         *)
(* The input is a source text with what a reader of it expects: the tokens *)
(* it was written from, the declarations it means, and whether it is a     *)
(* program of the language at all (a text that is not has no tree).        *)
(***************************************************************************)
EXTENDS Parser, Lexer, Grammar

CONSTANT Sources   \* records [src, toks, tree, valid]

VARIABLES source,  \* the input, fixed
          phase,   \* "lex", "parse", "done", "rejected" or "hung"
          lexer,   \* the scanner's record
          tokens,  \* the tokens scanned so far
          parser,  \* the parser's record
          decls    \* the declarations parsed so far, with where each starts

vars == <<source, phase, lexer, tokens, parser, decls>>

Init ==
    /\ source \in Sources
    /\ phase = "lex"
    /\ lexer = LexCreate(source.src)
    /\ tokens = <<>>
    /\ parser = ParserCreate(<<EofToken>>)
    /\ decls = <<>>

AllScanned == tokens # <<>> /\ Last(tokens).kind = "EOF"

\* lex_scan_all: one token a step, the last one included.
ScanNext ==
    /\ phase = "lex"
    /\ ~AllScanned
    /\ \E r \in {LexNext(lexer)} : lexer' = r.l /\ tokens' = Append(tokens, r.t)
    /\ UNCHANGED <<source, phase, parser, decls>>

\* stage_lex stops the pipeline when there is an error token; otherwise the
\* parser starts, and skips to the first declaration.
StartParse ==
    /\ phase = "lex" /\ AllScanned
    /\ phase' = IF \E i \in DOMAIN tokens : tokens[i].kind = "ERR" THEN "rejected" ELSE "parse"
    /\ parser' = SkipNewlinesCollectDocs(ParserCreate(tokens))
    /\ UNCHANGED <<source, lexer, tokens, decls>>

\* One round of parser_parse.
ParseNext ==
    /\ phase = "parse" /\ ~At(parser, "EOF")
    /\ \E r \in {Parse(TakeDoc(parser), "decl")} :
           /\ decls' = IF r.n = None THEN decls
                       ELSE Append(decls, [n |-> r.n, doc |-> parser.doc, start |-> parser.pos])
           /\ parser' = SkipNewlinesCollectDocs(r.p)
           /\ phase' = IF r.p.hung THEN "hung" ELSE phase
    /\ UNCHANGED <<source, lexer, tokens>>

\* stage_parse: any error stops the pipeline.
FinishParse ==
    /\ phase = "parse" /\ At(parser, "EOF")
    /\ phase' = IF parser.errs > 0 THEN "rejected" ELSE "done"
    /\ UNCHANGED <<source, lexer, tokens, parser, decls>>

Next == ScanNext \/ StartParse \/ ParseNext \/ FinishParse

Spec == Init /\ [][Next]_vars

-----------------------------------------------------------------------------
\* A text written from a sequence of tokens is scanned into those tokens, with
\* blanks between them or, where no two could run together, without (the
\* longest-match rules of lex.c).
ScansBack ==
    (phase # "lex" /\ source.toks # <<>>) =>
        [i \in 1 .. Len(tokens) - 1 |-> Shown(tokens[i])] = source.toks

\* A program is accepted and means what was written: the printer puts in no
\* parenthesis that the precedence table of the README makes redundant, so a
\* level or an associativity of the parser that disagrees changes the tree; so
\* does speculation that is not undone, or a flag that stays set.
ReadsBack ==
    source.valid =>
        /\ phase \notin {"rejected", "hung"}
        /\ phase = "done" => [i \in DOMAIN decls |-> decls[i].n] = source.tree

\* What is accepted has been read in full: printing the tree gives back every
\* token of the text but the separators and the parentheses.  A token that an
\* error path or a lookahead swallows without a report would be missing.
AcceptedIsRead ==
    (phase = "done" /\ ~\E i \in DOMAIN tokens : tokens[i].kind \in {"|>", "STR_LIT"}) =>
        LET read == SelectSeq(Front(tokens), LAMBDA t : t.kind # "DOC_COMMENT")
        IN  Significant(UnparseAll([i \in DOMAIN decls |-> decls[i].n], "\n"))
                = Significant([i \in DOMAIN read |-> Shown(read[i])])

\* The documentation comments written right before a declaration are the ones
\* attached to it: no construct before it has skipped over them.
DocsAttached ==
    phase = "done" =>
        \A i \in DOMAIN decls : decls[i].doc = DocsBefore(tokens, decls[i].start)

\* The front end ends on every text, whatever is wrong with it: no loop of the
\* parser comes back to the token it started a round from.
NeverHangs == phase # "hung"
=============================================================================
