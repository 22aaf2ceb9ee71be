-------------------------------- MODULE Lexer ---------------------------------
(***************************************************************************)
(* The scanner (pass/lex/lex.c, lex_str.c).  LexNext is lex_next: it takes *)
(* the scanner's record and returns it with the next token.  The source is *)
(* a string; position Len + 1 reads as the terminating NUL, written "".    *)
(* Lines and columns are left out, and so are the values of the numbers.   *)
(*                                                                         *)
(*   src      the text            pending     the tokens of a string that  *)
(*   pos      the read position               is being handed out (NULL is *)
(*   last     lex->last_kind                  <<>>), and how many of them  *)
(*   errs     errors reported     pendingPos  have been handed out         *)
(***************************************************************************)
EXTENDS Tokens, TLC

CharsOf(s) == {SubSeq(s, i, i) : i \in 1 .. Len(s)}
Digits  == CharsOf("0123456789")
Letters == CharsOf("abcdefghijklmnopqrstuvwxyzABCDEFGHIJKLMNOPQRSTUVWXYZ_")
AlNum   == Letters \cup Digits

LexCreate(text) ==
    [src |-> text, pos |-> 1, last |-> "EOF", errs |-> 0,
     pending |-> <<>>, pendingPos |-> 0]

CharAt(l, i) == IF i <= Len(l.src) THEN SubSeq(l.src, i, i) ELSE ""
PeekChar(l)  == CharAt(l, l.pos)
Skip(l, n)   == [l EXCEPT !.pos = @ + n]
LexErr(l)    == [l EXCEPT !.errs = @ + 1]
Push(l, t)   == [l EXCEPT !.pending = Append(@, t)]

\* The first position from i on whose character is not in S.
SpanEnd(l, i, S) ==
    IF i > Len(l.src) THEN i
    ELSE CHOOSE j \in i .. Len(l.src) + 1 :
             CharAt(l, j) \notin S /\ \A k \in i .. j - 1 : CharAt(l, k) \in S

\* The first position from i on that holds one of the characters S, or the NUL.
Find(l, i, S) ==
    IF i > Len(l.src) THEN i
    ELSE CHOOSE j \in i .. Len(l.src) + 1 :
             /\ CharAt(l, j) \in S \cup {""}
             /\ \A k \in i .. j - 1 : CharAt(l, k) \notin S

\* The scanner moved to position j, with the token made of what it read (an
\* unfinished character literal may take it past the NUL).
Scanned(l, j, kind) ==
    [l |-> [l EXCEPT !.pos = j],
     t |-> Token(kind, SubSeq(l.src, l.pos, IF j > Len(l.src) THEN Len(l.src) ELSE j - 1))]

\* A number: a fraction needs a digit after the point, and is not looked for
\* right after a member access (t.0.1 is two accesses).
ScanNumber(l) ==
    LET a    == SpanEnd(l, l.pos, Digits \cup {"_"})
        frac == CharAt(l, a) = "." /\ CharAt(l, a + 1) \in Digits /\ l.last # "."
        b    == IF frac THEN SpanEnd(l, a + 1, Digits \cup {"_"}) ELSE a
        exp  == CharAt(l, b) \in {"e", "E"}
        sign == IF CharAt(l, b + 1) \in {"+", "-"} THEN b + 2 ELSE b + 1
        c    == IF exp THEN SpanEnd(l, sign, Digits) ELSE b
    IN  Scanned(l, c, IF frac \/ exp THEN "FLOAT_LIT" ELSE "INTEGER_LIT")

ScanIdent(l) ==
    LET j    == SpanEnd(l, l.pos, AlNum)
        word == SubSeq(l.src, l.pos, j - 1)
    IN  IF word \in ReservedKeywords THEN Scanned(LexErr(l), j, "ERR")
        ELSE Scanned(l, j, IF word \in Keywords THEN word ELSE "ID")

\* The second characters each one-character operator may be extended by.
Extensions ==
    "=" :> {">", "="} @@ "!" :> {"="} @@ "<" :> {"="} @@ ">" :> {"="}
    @@ "&" :> {"&"} @@ "|" :> {"|", ">"} @@ "+" :> {"="} @@ "-" :> {">", "="}
    @@ "*" :> {"="} @@ "/" :> {"="} @@ ":" :> {":", "="} @@ "." :> {"."}
    @@ "?" :> {"."}
    @@ [c \in {"%", "(", ")", "{", "}", "[", "]", ",", ";", "#"} |-> {}]

\* For the mutation check: the three-character operator is not looked for.
ScanPunctuationTwo(l) ==
    LET c == PeekChar(l)
        n == IF CharAt(l, l.pos + 1) \in Extensions[c] THEN 2 ELSE 1
    IN  IF c \notin DOMAIN Extensions THEN Scanned(LexErr(l), l.pos + 1, "ERR")
        ELSE Scanned(l, l.pos + n, SubSeq(l.src, l.pos, l.pos + n - 1))

ScanPunctuation(l) ==
    LET c == PeekChar(l)
        d == CharAt(l, l.pos + 1)
        n == IF d \notin Extensions[c] THEN 1
             ELSE IF c = "." /\ CharAt(l, l.pos + 2) = "=" THEN 3 ELSE 2
    IN  IF c \notin DOMAIN Extensions THEN Scanned(LexErr(l), l.pos + 1, "ERR")
        ELSE Scanned(l, l.pos + n, SubSeq(l.src, l.pos, l.pos + n - 1))

\* A character literal is one character, or one of five escapes, in quotes.
ScanCharLit(l) ==
    LET escaped == CharAt(l, l.pos + 1) = "\\"
        value   == IF escaped THEN l.pos + 2 ELSE l.pos + 1
        known   == ~escaped \/ CharAt(l, value) \in {"n", "t", "\\", "'", "0"}
        l1      == IF known THEN l ELSE LexErr(l)
    IN  IF CharAt(l, value + 1) = "'" THEN Scanned(l1, value + 2, "CHAR_LIT")
        ELSE Scanned(LexErr(l1), value + 1, "ERR")

\* The text of src[from..to-1] with its escapes decoded; an unknown escape
\* keeps its backslash.  A \u{...} escape is kept as its code point.
RECURSIVE DecodeRange(_, _, _)
DecodeRange(l, from, to) ==
    LET c == CharAt(l, from)
        e == CharAt(l, from + 1)
        close == Find(l, from + 3, {"}"})
    IN  CASE from >= to -> ""
          [] from < to /\ c = "\\" /\ from + 1 < to /\ e = "u"
             /\ CharAt(l, from + 2) = "{" /\ from + 2 < to ->
                "U+" \o SubSeq(l.src, from + 3, close - 1) \o DecodeRange(l, close + 1, to)
          [] from < to /\ c = "\\" /\ from + 1 < to
             /\ ~(e = "u" /\ CharAt(l, from + 2) = "{" /\ from + 2 < to) ->
                (CASE e = "n" -> "\n"
                   [] e = "t" -> "\t"
                   [] e \in {"\\", "\"", "u"} -> e
                   [] e = "0" -> "NUL"
                   [] OTHER -> "\\" \o e) \o DecodeRange(l, from + 2, to)
          [] OTHER -> c \o DecodeRange(l, from + 1, to)

\* Where a body without interpolations ends: the closing quote, or the NUL.
RECURSIVE StrEnd(_, _)
StrEnd(l, i) ==
    IF CharAt(l, i) \in {"\"", ""} THEN i
    ELSE StrEnd(l, IF CharAt(l, i) = "\\" THEN i + 2 ELSE i + 1)

\* Where a text segment ends: at a quote, at a brace or at the NUL, not looking
\* inside escapes (the brace of a \u{...} does not open an interpolation).
RECURSIVE SegmentEnd(_, _)
SegmentEnd(l, i) ==
    IF CharAt(l, i) \in {"\"", "{", ""} THEN i
    ELSE IF CharAt(l, i) # "\\" THEN SegmentEnd(l, i + 1)
    ELSE IF CharAt(l, i + 1) = "u" /\ CharAt(l, i + 2) = "{"
    THEN SegmentEnd(l, Find(l, i + 3, {"}"}) + 1)
    ELSE SegmentEnd(l, i + 2)

\* scan_str's lookahead: does the body hold an interpolation?
HasInterpolation(l, i) == CharAt(l, SegmentEnd(l, i)) = "{"

StrToken(l, from, to) == Token("STR_LIT", DecodeRange(l, from, to))

\* A string without interpolations.  l.pos is just past the opening quote.
ScanSimpleStr(l) ==
    LET j == StrEnd(l, l.pos)
    IN  IF CharAt(l, j) = ""
        THEN [l |-> [LexErr(l) EXCEPT !.pos = j], t |-> Token("ERR", "\"")]
        ELSE [l |-> [l EXCEPT !.pos = j + 1], t |-> StrToken(l, l.pos, j)]

RECURSIVE ScanToken(_), BlockTokens(_, _), Segments(_)

\* The tokens of an interpolation block up to its closing brace.  They are
\* scanned by scan_token itself, which does not update last_kind, and a string
\* that interpolates inside the block starts lex->pending over.
BlockTokens(l, depth) ==
    LET l1 == [l EXCEPT !.pos = SpanEnd(l, l.pos, {" ", "\t"})]
        c  == PeekChar(l1)
        r  == ScanToken(l1)
        d  == CASE c = "}" -> depth - 1 [] c = "{" -> depth + 1 [] OTHER -> depth
    IN  CASE PeekChar(l) = "" -> l
          [] PeekChar(l) # "" /\ c = "}" /\ depth = 1 -> Skip(l1, 1)
          [] OTHER -> IF r.t.kind \in {"EOF", "ERR"} THEN r.l
                      ELSE BlockTokens(IF r.t.kind = "NEWLINE" THEN r.l ELSE Push(r.l, r.t), d)

ScanInterpolationBlock(l) ==
    Push(BlockTokens(Push(Skip(l, 1), Token("INTERPOLATION_START", "{")), 1),
         Token("INTERPOLATION_END", "}"))

\* Text segments and blocks in turn, up to the closing quote or the NUL.
Segments(l) ==
    LET j  == SegmentEnd(l, l.pos)
        l1 == Push([l EXCEPT !.pos = j], StrToken(l, l.pos, j))
    IN  IF PeekChar(l) \in {"\"", ""} THEN l
        ELSE Segments(IF CharAt(l, j) = "{" THEN ScanInterpolationBlock(l1) ELSE l1)

\* A string that ends in a block has an empty last segment; then the closing
\* quote is skipped, and the first of the tokens is handed out.
LastSegment(l) ==
    IF l.pending # <<>> /\ Last(l.pending).kind = "INTERPOLATION_END"
    THEN Push(l, Token("STR_LIT", "")) ELSE l
CloseQuote(l) == IF PeekChar(l) = "" THEN LexErr(l) ELSE Skip(l, 1)
FirstPending(l) ==
    IF l.pending = <<>> THEN [l |-> l, t |-> Token("STR_LIT", "")]
    ELSE [l |-> [l EXCEPT !.pendingPos = 1], t |-> l.pending[1]]

ScanInterpolatedStr(l) ==
    FirstPending(CloseQuote(LastSegment(
        Segments([l EXCEPT !.pending = <<>>, !.pendingPos = 0]))))

ScanStr(l) ==
    LET l1 == Skip(l, 1)
    IN  IF HasInterpolation(l1, l1.pos) THEN ScanInterpolatedStr(l1) ELSE ScanSimpleStr(l1)

\* A comment runs to the end of its line; three slashes, not four, make a
\* documentation comment, which is a token.
ScanComment(l) ==
    LET isDoc == CharAt(l, l.pos + 2) = "/" /\ CharAt(l, l.pos + 3) # "/"
        text  == IF CharAt(l, l.pos + 3) = " " THEN l.pos + 4 ELSE l.pos + 3
    IN  IF isDoc THEN Scanned([l EXCEPT !.pos = text], Find(l, text, {"\n"}), "DOC_COMMENT")
        ELSE ScanToken([l EXCEPT !.pos = Find(l, l.pos, {"\n"})])

ScanToken(l) ==
    LET c == PeekChar(l)
    IN  CASE c \in {" ", "\t", "\r"} -> ScanToken(Skip(l, 1))
          [] c = "\n" -> Scanned(l, l.pos + 1, "NEWLINE")
          [] c = "/" /\ CharAt(l, l.pos + 1) = "/" -> ScanComment(l)
          [] c = "" -> [l |-> Skip(l, 1), t |-> EofToken]
          [] c \in Digits -> ScanNumber(l)
          [] c \in Letters -> ScanIdent(l)
          [] c = "\"" -> ScanStr(l)
          [] c = "'" -> ScanCharLit(l)
          [] OTHER -> ScanPunctuation(l)

\* lex_next: the tokens of a string still to be handed out come first.
HandedOut(r) == [l |-> [r.l EXCEPT !.last = r.t.kind], t |-> r.t]
LexNext(l) ==
    HandedOut(IF l.pendingPos < Len(l.pending)
              THEN [l |-> [l EXCEPT !.pendingPos = @ + 1], t |-> l.pending[l.pendingPos + 1]]
              ELSE ScanToken([l EXCEPT !.pending = <<>>, !.pendingPos = 0]))
=============================================================================
