------------------------------ MODULE ParserBase ------------------------------
(***************************************************************************)
(* The parser's record and its token-stream helpers (pass/parse/_parse.h,  *)
(* parse_helpers.c), and the shape of the syntax trees (repr/ast.h).       *)
(*                                                                         *)
(*   ts    the tokens, the last of them EOF                                *)
(*   pos   the current token              nsl  no_struct_lit               *)
(*   errs  err_count                      doc  pending_doc (<<>> is NULL)  *)
(*   hung  a loop came back to where it was: it will never end             *)
(*                                                                         *)
(* A node is its kind (NODE_X without the prefix), the names, operators    *)
(* and flags it holds, and its children; None stands for NULL.  A parsing  *)
(* operator takes the record and returns it with the node it built.        *)
(***************************************************************************)
EXTENDS Tokens

ParserCreate(tokens) ==
    [ts |-> tokens, pos |-> 1, errs |-> 0, nsl |-> FALSE, doc |-> <<>>, hung |-> FALSE]

N(kind, names, children) == [k |-> kind, a |-> names, c |-> children]
Leaf(kind) == N(kind, <<>>, <<>>)
None       == Leaf("NULL")
Inferred   == Leaf("INFERRED")
List(kind, nodes) == N(kind, <<>>, nodes)
Flag(name, on)    == IF on THEN name ELSE ""

R(p, node) == [p |-> p, n |-> node]

Tok(p)      == p.ts[p.pos]
Lexeme(p)   == Tok(p).lex
At(p, kind) == Tok(p).kind = kind
AtAny(p, kinds) == Tok(p).kind \in kinds

\* The kind n tokens ahead, or "" past the end of the buffer.
Ahead(p, n) == IF p.pos + n <= Len(p.ts) THEN p.ts[p.pos + n].kind ELSE ""

Err(p)     == [p EXCEPT !.errs = @ + 1]
Advance(p) == IF At(p, "EOF") THEN p ELSE [p EXCEPT !.pos = @ + 1]
Match(p, kind)  == IF At(p, kind) THEN Advance(p) ELSE p

\* A missing token is reported and left for the caller to stumble on.  The name
\* expect(ID)->lexeme gives is then that token's text: Lexeme(p) in every case.
Expect(p, kind) == IF At(p, kind) THEN Advance(p) ELSE Err(p)

RECURSIVE SkipKinds(_, _)
SkipKinds(p, kinds) ==
    IF AtAny(p, kinds) THEN SkipKinds(Advance(p), kinds) ELSE p

LineEnds == {"NEWLINE", ";"}
SkipNewlines(p)  == SkipKinds(p, LineEnds \cup {"DOC_COMMENT"})
SkipLinesAndDocs(p) == SkipNewlines(p)   \* for the mutation check
SkipLinesOnly(p) == SkipKinds(p, LineEnds)

\* The documentation comments skipped here become the pending ones; those of
\* an earlier call are dropped.
SkipNewlinesCollectDocs(p) ==
    LET q    == SkipNewlines(p)
        docs == SelectSeq(SubSeq(p.ts, p.pos, q.pos - 1),
                          LAMBDA t : t.kind = "DOC_COMMENT")
    IN  [q EXCEPT !.doc = [i \in DOMAIN docs |-> docs[i].lex]]

TakeDoc(p) == [p EXCEPT !.doc = <<>>]

\* The position of the parenthesis that closes the one opened before i.
RECURSIVE ClosingParen(_, _, _)
ClosingParen(p, i, depth) ==
    CASE depth = 0 \/ i > Len(p.ts) -> i
      [] depth > 0 /\ i <= Len(p.ts) ->
           ClosingParen(p, i + 1, CASE p.ts[i].kind = "(" -> depth + 1
                                    [] p.ts[i].kind = ")" -> depth - 1
                                    [] OTHER -> depth)

\* Does a pattern binding `x := ...` or `V(...) := ...` start here?
IsPatternBinding(p) ==
    /\ At(p, "ID")
    /\ \/ Ahead(p, 1) = ":="
       \/ /\ Ahead(p, 1) = "("
          /\ Ahead(p, ClosingParen(p, p.pos + 2, 1) - p.pos) = ":="
=============================================================================
