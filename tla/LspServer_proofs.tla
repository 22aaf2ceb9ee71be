--------------------------- MODULE LspServer_proofs ---------------------------
(***************************************************************************)
(* Proofs about the language server: what it holds and what it has written *)
(* belong to the texts that the editor had when it sent the message served *)
(* last, so they are right for its present texts when the pipes are empty, *)
(* and each response is the answer for the text of its question, computed  *)
(* by loops that do what the answer's definition says.                     *)
(***************************************************************************)
EXTENDS LspServer, FiniteSetTheorems, SequenceTheorems, WellFoundedInduction, TLAPS

-----------------------------------------------------------------------------
(* The invariant of the documents.                                         *)

\* A sequence, of whatever elements.
IsList(s) == s \in Seq({s[i] : i \in DOMAIN s})

\* The store: a document to a URI, and what is derived from its text.
Stores == [uri : Uris, text : Texts, symbols : {Compiled[t].symbols : t \in Texts},
           tokens : Seq(Positions)]

DocOK(d) ==
  /\ d \in Stores
  /\ d.symbols = Compiled[d.text].symbols
  /\ Rearranged(d.tokens, Compiled[d.text].tokens)

StoreOK(docs) ==
  /\ IsList(docs)
  /\ \A i \in DOMAIN docs : DocOK(docs[i])
  /\ \A i, j \in DOMAIN docs : docs[i].uri = docs[j].uri => i = j

\* The text of a URI in the store, or NONE.
Holds(docs, uri, text) ==
  IF text = NONE THEN \A i \in DOMAIN docs : docs[i].uri # uri
  ELSE \E i \in DOMAIN docs : docs[i].uri = uri /\ docs[i].text = text

\* The messages that change the text of a document, and to what.
Edits(m, uri) == m.method \in {"didOpen", "didChange", "didClose"} /\ m.uri = uri
TextOf(m) == IF m.method = "didClose" THEN NONE ELSE m.text

\* The text of a URI when the message at k was sent: as the last message in
\* front of it says, or else as the server has it.
Saw(docs, in, k, uri, text) ==
  /\ \A i \in 1 .. (k - 1) :
       Edits(in[i], uri) /\ (\A j \in 1 .. (k - 1) : i < j => ~ Edits(in[j], uri))
         => TextOf(in[i]) = text
  /\ (\A i \in 1 .. (k - 1) : ~ Edits(in[i], uri)) => Holds(docs, uri, text)

\* What the editor puts in a message, and a save has the text or none.
WellSent(m) ==
  /\ m.method \in {"didOpen", "didChange"} => m.uri \in Uris /\ m.text \in Texts
  /\ m.method \in {"didSave", "didClose"} => m.uri \in Uris

Saved(docs, in, k) ==
  in[k].method = "didSave" =>
    \E t \in Texts : in[k].text \in {t, NONE} /\ Saw(docs, in, k, in[k].uri, t)

StoreInv ==
  /\ IsList(stdin) /\ StoreOK(documents)
  /\ buffers \in [Uris -> Texts \cup {NONE}]
  /\ \A k \in DOMAIN stdin : WellSent(stdin[k]) /\ Saved(documents, stdin, k)
  /\ \A uri \in Uris : Saw(documents, stdin, Len(stdin) + 1, uri, buffers[uri])

-----------------------------------------------------------------------------
(* The invariant of the diagnostics.                                       *)

Passes == {"lex", "parse", "sema"}

About(m, uri) == m.kind = "diagnostics" /\ m.uri = uri

\* What the editor will show for a URI when it has read everything written.
Shows(out, now, uri, diags) ==
  /\ \A i \in DOMAIN out :
       About(out[i], uri) /\ (\A j \in DOMAIN out : i < j => ~ About(out[j], uri))
         => out[i].diags = diags
  /\ (\A i \in DOMAIN out : ~ About(out[i], uri)) => now[uri] = diags

DiagsOf(text) == IF text = NONE THEN {} ELSE Compiled[text].diags

ShownInv ==
  /\ IsList(stdout)
  /\ shown \in [Uris -> SUBSET Passes]
  /\ \A i \in DOMAIN stdout :
       /\ stdout[i].kind \in {"diagnostics", "response"}
       /\ stdout[i].kind = "diagnostics" =>
            stdout[i].uri \in Uris /\ stdout[i].diags \in SUBSET Passes
  /\ phase # "gone" =>
       \A uri \in Uris, text \in Texts \cup {NONE} :
         Holds(documents, uri, text) => Shows(stdout, shown, uri, DiagsOf(text))

-----------------------------------------------------------------------------
(* The invariant of the requests.                                          *)

IsRequest(m) == m.method \in Queries \cup {"initialize", "shutdown"}
IsResponse(m) == m.kind = "response"

\* The request that a message in the pipe makes, about the text at its time.
Asked(docs, in, k, p) ==
  /\ p.id = in[k].id /\ p.method = in[k].method
  /\ p.method \in Queries =>
       in[k].uri \in Uris /\ p.line = in[k].line /\ Saw(docs, in, k, in[k].uri, p.text)

\* The answer is computed from what the server derives from the text of the
\* request.
Computed(p, d) ==
  CASE p.method = "definition" -> DefinitionAnswer(d, p.line)
    [] p.method = "hover" -> HoverAnswer(d, p.line)
    [] p.method = "references" -> ReferencesAnswer(d, p.line)
    [] p.method = "documentSymbol" -> DocumentSymbolAnswer(d)
    [] p.method = "semanticTokens" -> Answer("tokens", Deltas(SortTokens(d.tokens)))

Answered(p, answer) ==
  /\ p.method = "initialize" => answer = Answer("capabilities", << >>)
  /\ p.method = "shutdown" => answer = NULL_ANSWER
  /\ p.method \in Queries /\ p.text = NONE => answer = Unknown(p.method)
  /\ p.method \in Queries /\ p.text # NONE =>
       \E d \in Stores : DocOK(d) /\ d.text = p.text /\ answer = Computed(p, d)

\* A number belongs to one phase of the editor, or to a question sent so far.
Numbered(id, ph, n) ==
  /\ id \in INITIALIZE .. SHUTDOWN
  /\ id = INITIALIZE => ph = "starting"
  /\ id = SHUTDOWN => ph = "stopping"
  /\ id \notin {INITIALIZE, SHUTDOWN} => id <= n

\* Every number is on its way once, as a request or as the response to one
\* that waits.
Underway(docs, in, out, waiting, ph, n) ==
  /\ \A k \in DOMAIN in : IsRequest(in[k]) =>
       /\ Numbered(in[k].id, ph, n)
       /\ \E p \in waiting : Asked(docs, in, k, p)
       /\ \A j \in DOMAIN in : IsRequest(in[j]) /\ in[j].id = in[k].id => j = k
       /\ \A i \in DOMAIN out : IsResponse(out[i]) => out[i].id # in[k].id
  /\ \A i \in DOMAIN out : IsResponse(out[i]) =>
       /\ Numbered(out[i].id, ph, n)
       /\ \E p \in waiting : p.id = out[i].id /\ Answered(p, out[i].answer)
       /\ \A j \in DOMAIN out : IsResponse(out[j]) /\ out[j].id = out[i].id => j = i

AnswerInv ==
  /\ sent \in 0 .. MAX_SENT
  /\ phase \in {"start", "starting", "started", "ready", "stopping", "stopped",
                "exiting", "gone"}
  /\ \A p \in pending : /\ p.id \in INITIALIZE .. SHUTDOWN
                         /\ p.method \in Queries \cup {"initialize", "shutdown"}
  /\ phase = "gone" => stdout = << >>
  /\ phase \in {"start", "gone"} => pending = {}
  /\ phase # "gone" => Underway(documents, stdin, stdout, pending, phase, sent)

-----------------------------------------------------------------------------
(* Lists.                                                                  *)

LEMMA ListParts ==
  ASSUME NEW s, IsList(s)
  PROVE  Len(s) \in Nat /\ DOMAIN s = 1 .. Len(s)
BY LenProperties DEF IsList

LEMMA ListOf ==
  ASSUME NEW S, NEW s \in Seq(S)
  PROVE  IsList(s)
<1>. DEFINE T == {s[i] : i \in DOMAIN s}
<1>1. /\ Len(s) \in Nat /\ DOMAIN s = 1 .. Len(s)
      /\ s \in [1 .. Len(s) -> S]
  BY LenProperties
<1>2. s \in [1 .. Len(s) -> T]
  BY <1>1
<1>. HIDE DEF T
<1>3. s \in Seq(T)
  BY <1>1, <1>2, SeqDef
<1> QED BY <1>3 DEF IsList, T

LEMMA EmptyList == IsList(<< >>) /\ Len(<< >>) = 0 /\ DOMAIN << >> = {}
BY EmptySeq DEF IsList

\* A list with one element more at its end.
LEMMA Appended ==
  ASSUME NEW s, IsList(s), NEW e
  PROVE  /\ IsList(Append(s, e))
         /\ Len(s) \in Nat /\ Len(Append(s, e)) = Len(s) + 1
         /\ DOMAIN s = 1 .. Len(s)
         /\ DOMAIN Append(s, e) = 1 .. (Len(s) + 1)
         /\ \A i \in 1 .. Len(s) : Append(s, e)[i] = s[i]
         /\ Append(s, e)[Len(s) + 1] = e
<1>. DEFINE S == {s[i] : i \in DOMAIN s}
            T == S \cup {e}
<1>1. s \in Seq(S)
  BY DEF IsList
<1>. HIDE DEF S
<1>2. S \subseteq T /\ e \in T
  OBVIOUS
<1>. HIDE DEF T
<1>3. s \in Seq(T)
  BY <1>1, <1>2, SeqMonotonic
<1>4. /\ Append(s, e) \in Seq(T) /\ Len(Append(s, e)) = Len(s) + 1
      /\ \A i \in 1 .. Len(s) : Append(s, e)[i] = s[i]
      /\ Append(s, e)[Len(s) + 1] = e
  BY <1>2, <1>3, AppendProperties
<1>5. Len(s) \in Nat /\ DOMAIN s = 1 .. Len(s)
  BY ListParts
<1>6. IsList(Append(s, e))
  BY <1>4, ListOf
<1>7. DOMAIN Append(s, e) = 1 .. (Len(s) + 1)
  BY <1>4, LenProperties
<1> QED BY <1>4, <1>5, <1>6, <1>7

\* A list without its first element.
LEMMA Rest ==
  ASSUME NEW s, IsList(s), s # << >>
  PROVE  /\ IsList(Tail(s)) /\ Len(s) \in Nat /\ Len(s) >= 1
         /\ Len(Tail(s)) = Len(s) - 1
         /\ DOMAIN s = 1 .. Len(s) /\ DOMAIN Tail(s) = 1 .. (Len(s) - 1)
         /\ Head(s) = s[1]
         /\ \A i \in 1 .. (Len(s) - 1) : Tail(s)[i] = s[i + 1]
<1>. DEFINE S == {s[i] : i \in DOMAIN s}
<1>1. s \in Seq(S)
  BY DEF IsList
<1>. HIDE DEF S
<1>2. /\ Tail(s) \in Seq(S) /\ Len(Tail(s)) = Len(s) - 1
      /\ \A i \in 1 .. Len(Tail(s)) : Tail(s)[i] = s[i + 1]
  BY <1>1, HeadTailProperties
<1>3. Len(s) \in Nat /\ DOMAIN s = 1 .. Len(s)
  BY ListParts
<1>4. Len(s) # 0
  BY <1>1, EmptySeq
<1>5. Head(s) = s[1]
  BY <1>1, <1>4
<1>6. IsList(Tail(s)) /\ DOMAIN Tail(s) = 1 .. (Len(s) - 1)
  BY <1>2, ListOf, LenProperties
<1> QED BY <1>2, <1>3, <1>4, <1>5, <1>6

\* A list with one element more at its front.
LEMMA Prepended ==
  ASSUME NEW s, IsList(s), NEW e
  PROVE  /\ IsList(<<e>> \o s)
         /\ Len(s) \in Nat
         /\ DOMAIN (<<e>> \o s) = 1 .. (Len(s) + 1)
         /\ (<<e>> \o s)[1] = e
         /\ \A i \in 1 .. Len(s) : (<<e>> \o s)[i + 1] = s[i]
<1>. DEFINE S == {s[i] : i \in DOMAIN s}
            T == S \cup {e}
            t == <<e>> \o s
<1>1. s \in Seq(S)
  BY DEF IsList
<1>. HIDE DEF S
<1>2. S \subseteq T /\ e \in T
  OBVIOUS
<1>. HIDE DEF T
<1>3. s \in Seq(T) /\ <<e>> \in Seq(T) /\ Len(<<e>>) = 1 /\ <<e>>[1] = e
  BY <1>1, <1>2, SeqMonotonic
<1>4. /\ t \in Seq(T) /\ Len(t) = 1 + Len(s)
      /\ \A i \in 1 .. (1 + Len(s)) : t[i] = IF i <= 1 THEN <<e>>[i] ELSE s[i - 1]
  BY <1>3, ConcatProperties
<1>5. Len(s) \in Nat
  BY ListParts
<1>6. DOMAIN t = 1 .. (Len(s) + 1)
  BY <1>4, <1>5, LenProperties
<1>7. t[1] = e
  BY <1>3, <1>4, <1>5
<1>8. ASSUME NEW i \in 1 .. Len(s) PROVE t[i + 1] = s[i]
  <2>1. i + 1 \in 1 .. (1 + Len(s)) /\ ~ (i + 1 <= 1) /\ (i + 1) - 1 = i
    BY <1>5
  <2> QED BY <1>4, <2>1
<1>9. IsList(t)
  BY <1>4, ListOf
<1> QED BY <1>5, <1>6, <1>7, <1>8, <1>9

\* A list without the element at k.
LEMMA Without ==
  ASSUME NEW s, IsList(s), NEW k \in DOMAIN s
  PROVE  /\ IsList(RemoveAt(s, k))
         /\ Len(s) \in Nat /\ DOMAIN s = 1 .. Len(s)
         /\ DOMAIN RemoveAt(s, k) = 1 .. (Len(s) - 1)
         /\ \A i \in 1 .. (Len(s) - 1) :
              RemoveAt(s, k)[i] = IF i < k THEN s[i] ELSE s[i + 1]
<1>. DEFINE S == {s[i] : i \in DOMAIN s}
            n == Len(s)
            a == SubSeq(s, 1, k - 1)
            b == SubSeq(s, k + 1, n)
<1>1. s \in Seq(S) /\ n \in Nat /\ DOMAIN s = 1 .. n /\ k \in 1 .. n
  BY ListParts DEF IsList
<1>2. \A i \in 1 .. n : s[i] \in S
  BY <1>1
<1>. HIDE DEF S, n
<1>3. /\ a \in Seq(S) /\ Len(a) = k - 1
      /\ \A i \in 1 .. (k - 1) : a[i] = s[i]
  <2>1. /\ 1 \in Int /\ k - 1 \in Int
        /\ \A i \in 1 .. (k - 1) : s[i] \in S
        /\ (k - 1) - 1 + 1 = k - 1
    BY <1>1, <1>2
  <2>2. /\ a \in Seq(S)
        /\ Len(a) = IF 1 <= k - 1 THEN (k - 1) - 1 + 1 ELSE 0
        /\ \A i \in 1 .. ((k - 1) - 1 + 1) : a[i] = s[1 + i - 1]
    BY <2>1, SubSeqProperties
  <2>3. \A i \in 1 .. (k - 1) : 1 + i - 1 = i
    BY <1>1
  <2> QED BY <1>1, <2>1, <2>2, <2>3
<1>4. /\ b \in Seq(S) /\ Len(b) = n - k
      /\ \A i \in 1 .. (n - k) : b[i] = s[k + i]
  <2>1. /\ k + 1 \in Int /\ n \in Int
        /\ \A i \in (k + 1) .. n : s[i] \in S
        /\ n - (k + 1) + 1 = n - k
    BY <1>1, <1>2
  <2>2. /\ b \in Seq(S)
        /\ Len(b) = IF k + 1 <= n THEN n - (k + 1) + 1 ELSE 0
        /\ \A i \in 1 .. (n - (k + 1) + 1) : b[i] = s[(k + 1) + i - 1]
    BY <2>1, SubSeqProperties
  <2>3. \A i \in 1 .. (n - k) : (k + 1) + i - 1 = k + i
    BY <1>1
  <2> QED BY <1>1, <2>1, <2>2, <2>3
<1>5. RemoveAt(s, k) = a \o b
  BY DEF RemoveAt, n
<1>. HIDE DEF a, b
<1>6. /\ a \o b \in Seq(S) /\ Len(a \o b) = n - 1
      /\ \A i \in 1 .. (n - 1) : (a \o b)[i] = IF i <= k - 1 THEN a[i] ELSE b[i - (k - 1)]
  <2>1. (k - 1) + (n - k) = n - 1
    BY <1>1
  <2>2. /\ a \o b \in Seq(S) /\ Len(a \o b) = Len(a) + Len(b)
        /\ \A i \in 1 .. (Len(a) + Len(b)) :
             (a \o b)[i] = IF i <= Len(a) THEN a[i] ELSE b[i - Len(a)]
    BY <1>3, <1>4, ConcatProperties
  <2> QED BY <1>3, <1>4, <2>1, <2>2
<1>7. ASSUME NEW i \in 1 .. (n - 1)
      PROVE  (a \o b)[i] = IF i < k THEN s[i] ELSE s[i + 1]
  <2>1. CASE i < k
    <3>1. i <= k - 1 /\ i \in 1 .. (k - 1)
      BY <1>1, <2>1
    <3> QED BY <1>3, <1>6, <2>1, <3>1
  <2>2. CASE ~ (i < k)
    <3>1. /\ ~ (i <= k - 1) /\ i - (k - 1) \in 1 .. (n - k)
          /\ k + (i - (k - 1)) = i + 1
      BY <1>1, <2>2
    <3>2. (a \o b)[i] = b[i - (k - 1)]
      BY <1>6, <3>1
    <3>3. b[i - (k - 1)] = s[k + (i - (k - 1))]
      BY <1>4, <3>1
    <3> QED BY <2>2, <3>1, <3>2, <3>3
  <2> QED BY <2>1, <2>2
<1>8. IsList(a \o b)
  BY <1>6, ListOf
<1>9. DOMAIN (a \o b) = 1 .. (n - 1)
  BY <1>6, LenProperties
<1> QED BY <1>1, <1>5, <1>7, <1>8, <1>9 DEF n

\* A list with another element at k.
LEMMA Replaced ==
  ASSUME NEW s, IsList(s), NEW k \in DOMAIN s, NEW e, NEW t, t = [s EXCEPT ![k] = e]
  PROVE  /\ IsList(t) /\ DOMAIN t = DOMAIN s
         /\ t[k] = e /\ \A i \in DOMAIN s : i # k => t[i] = s[i]
<1>. DEFINE S == {s[i] : i \in DOMAIN s}
            T == S \cup {e}
<1>1. s \in Seq(S)
  BY DEF IsList
<1>. HIDE DEF S
<1>2. S \subseteq T /\ e \in T
  OBVIOUS
<1>. HIDE DEF T
<1>3. s \in Seq(T) /\ k \in 1 .. Len(s)
  BY <1>1, <1>2, SeqMonotonic, ListParts
<1>4. t \in Seq(T)
  BY <1>2, <1>3, ExceptSeq
<1>5. IsList(t)
  BY <1>4, ListOf
<1>6. s \in [1 .. Len(s) -> T] /\ DOMAIN s = 1 .. Len(s)
  BY <1>3, LenProperties
<1> QED BY <1>5, <1>6

-----------------------------------------------------------------------------
(* Sorting.                                                                *)

\* Positions are ordered.
LEMMA Order ==
  ASSUME NEW t \in Positions, NEW u \in Positions, NEW v \in Positions
  PROVE  /\ ~ Precedes(t, t)
         /\ Precedes(t, u) /\ Precedes(u, v) => Precedes(t, v)
         /\ t # u => Precedes(t, u) \/ Precedes(u, t)
<1>1. /\ t[1] \in Nat /\ t[2] \in Nat /\ u[1] \in Nat /\ u[2] \in Nat
      /\ v[1] \in Nat /\ v[2] \in Nat
      /\ t = <<t[1], t[2]>> /\ u = <<u[1], u[2]>>
  BY DEF Positions
<1> QED BY <1>1 DEF Precedes

\* A set of naturals that is not empty has a least element.
LEMMA Least ==
  ASSUME NEW T, T \subseteq Nat, T # {}
  PROVE  \E x \in T : \A y \in T : x <= y
<1>1. PICK x \in T : \A y \in T : ~ (<<y, x>> \in OpToRel(<, Nat))
  BY WFMin, NatLessThanWellFounded
<1>2. \A y \in T : ~ (y < x)
  BY <1>1 DEF OpToRel
<1> QED BY <1>2

\* The places of a list of positions in the order of what is there, and those
\* of one position as they are.
Before(w, i, j) == Precedes(w[i], w[j]) \/ (w[i] = w[j] /\ i < j)

LEMMA BeforeOrder ==
  ASSUME NEW L, L \subseteq Nat, NEW w \in [L -> Positions],
         NEW i \in L, NEW j \in L, NEW k \in L
  PROVE  /\ ~ Before(w, i, i)
         /\ Before(w, i, j) /\ Before(w, j, k) => Before(w, i, k)
         /\ i # j => Before(w, i, j) \/ Before(w, j, i)
         /\ Before(w, i, j) => ~ Precedes(w[j], w[i])
<1>1. w[i] \in Positions /\ w[j] \in Positions /\ w[k] \in Positions
  OBVIOUS
<1>2. i \in Nat /\ j \in Nat /\ k \in Nat
  OBVIOUS
<1>. DEFINE a == w[i]
            b == w[j]
            c == w[k]
<1>3. /\ ~ Precedes(a, a)
      /\ Precedes(a, b) /\ Precedes(b, c) => Precedes(a, c)
      /\ a # b => Precedes(a, b) \/ Precedes(b, a)
      /\ Precedes(a, b) /\ Precedes(b, a) => Precedes(a, a)
  BY <1>1, Order
<1>. HIDE DEF a, b, c
<1>4. /\ Before(w, i, i) <=> Precedes(a, a) \/ (a = a /\ i < i)
      /\ Before(w, i, j) <=> Precedes(a, b) \/ (a = b /\ i < j)
      /\ Before(w, j, i) <=> Precedes(b, a) \/ (b = a /\ j < i)
      /\ Before(w, j, k) <=> Precedes(b, c) \/ (b = c /\ j < k)
      /\ Before(w, i, k) <=> Precedes(a, c) \/ (a = c /\ i < k)
  BY DEF Before, a, b, c
<1>5. Before(w, i, j) => ~ Precedes(b, a)
  BY <1>3, <1>4
<1> QED BY <1>2, <1>3, <1>4, <1>5 DEF a, b

\* A list of all places in a set, in order.
Sorting(w, S, s, n) ==
  /\ s \in [1 .. n -> S] /\ \A t \in S : \E i \in 1 .. n : s[i] = t
  /\ \A i, j \in 1 .. n : i < j => Before(w, s[i], s[j])

\* A sorted list is still sorted with an element put in its place.
LEMMA Inserted ==
  ASSUME NEW L, L \subseteq Nat, NEW w \in [L -> Positions],
         NEW S, S \subseteq L, NEW m \in L, m \notin S,
         NEW n \in Nat, NEW s, Sorting(w, S, s, n)
  PROVE  \E t : Sorting(w, S \cup {m}, t, n + 1)
<1>. DEFINE After == {i \in 1 .. (n + 1) : i = n + 1 \/ Before(w, m, s[i])}
<1>1. n + 1 \in After /\ After \subseteq Nat
  OBVIOUS
<1>2. PICK k \in After : \A i \in After : k <= i
  BY <1>1, Least
<1>3. /\ k \in 1 .. (n + 1) /\ \A i \in 1 .. n : s[i] \in S
      /\ \A i, j \in 1 .. n : i < j => Before(w, s[i], s[j])
  BY DEF Sorting
<1>4. \A i \in 1 .. n : i < k => Before(w, s[i], m)
  <2> SUFFICES ASSUME NEW i \in 1 .. n, i < k PROVE Before(w, s[i], m)
    OBVIOUS
  <2>1. ~ Before(w, m, s[i])
    BY <1>2, <1>3
  <2>2. s[i] \in L /\ s[i] # m
    BY <1>3
  <2> QED BY <2>1, <2>2, BeforeOrder
<1>5. \A i \in 1 .. n : k <= i => Before(w, m, s[i])
  <2> SUFFICES ASSUME NEW i \in 1 .. n, k <= i PROVE Before(w, m, s[i])
    OBVIOUS
  <2>1. k \in 1 .. n /\ Before(w, m, s[k])
    BY <1>2, <1>3
  <2>2. CASE i = k
    BY <2>1, <2>2
  <2>3. CASE i # k
    <3>1. Before(w, s[k], s[i])
      BY <1>3, <2>1, <2>3
    <3>2. s[k] \in L /\ s[i] \in L
      BY <1>3, <2>1
    <3> QED BY <2>1, <3>1, <3>2, BeforeOrder
  <2> QED BY <2>2, <2>3
<1>. HIDE DEF After
<1>. DEFINE t == [i \in 1 .. (n + 1) |-> IF i < k THEN s[i] ELSE IF i = k THEN m ELSE s[i - 1]]
<1>6. /\ \A i \in 1 .. (n + 1) : i < k => i \in 1 .. n /\ t[i] = s[i]
      /\ t[k] = m
      /\ \A i \in 1 .. (n + 1) : k < i => i - 1 \in 1 .. n /\ k <= i - 1 /\ t[i] = s[i - 1]
  BY <1>3
<1>7. t \in [1 .. (n + 1) -> S \cup {m}]
  <2>1. \A i \in 1 .. (n + 1) : i < k \/ i = k \/ k < i
    BY <1>3
  <2>2. \A i \in 1 .. (n + 1) : t[i] \in S \cup {m}
    BY <1>3, <1>6, <2>1
  <2> QED BY <2>2
<1>. HIDE DEF t
<1>8. \A u \in S \cup {m} : \E i \in 1 .. (n + 1) : t[i] = u
  <2> SUFFICES ASSUME NEW u \in S PROVE \E i \in 1 .. (n + 1) : t[i] = u
    BY <1>3, <1>6
  <2>1. PICK i \in 1 .. n : s[i] = u
    BY DEF Sorting
  <2>2. CASE i < k
    BY <1>6, <2>1, <2>2
  <2>3. CASE ~ (i < k)
    <3>1. i + 1 \in 1 .. (n + 1) /\ k < i + 1 /\ (i + 1) - 1 = i
      BY <1>3, <2>3
    <3> QED BY <1>6, <2>1, <3>1
  <2> QED BY <2>2, <2>3
<1>9. \A i, j \in 1 .. (n + 1) : i < j => Before(w, t[i], t[j])
  <2> SUFFICES ASSUME NEW i \in 1 .. (n + 1), NEW j \in 1 .. (n + 1), i < j
               PROVE  Before(w, t[i], t[j])
    OBVIOUS
  <2>1. CASE j < k
    <3>1. i < k
      BY <1>3, <2>1
    <3> QED BY <1>3, <1>6, <2>1, <3>1
  <2>2. CASE j = k
    BY <1>4, <1>6, <2>2
  <2>3. CASE k < j /\ i < k
    <3>1. i < j - 1 \/ i = j - 1
      BY <1>3
    <3>2. /\ i \in 1 .. n /\ j - 1 \in 1 .. n /\ t[i] = s[i] /\ t[j] = s[j - 1]
          /\ Before(w, s[i], m) /\ Before(w, m, s[j - 1])
          /\ s[i] \in L /\ s[j - 1] \in L
      BY <1>3, <1>4, <1>5, <1>6, <2>3
    <3> QED BY <3>2, BeforeOrder
  <2>4. CASE k < j /\ i = k
    BY <1>5, <1>6, <2>4
  <2>5. CASE k < j /\ k < i
    <3>1. i - 1 < j - 1
      BY <1>3
    <3> QED BY <1>3, <1>6, <2>5, <3>1
  <2>6. j < k \/ j = k \/ (k < j /\ i < k) \/ (k < j /\ i = k) \/ (k < j /\ k < i)
    BY <1>3
  <2> QED BY <2>1, <2>2, <2>3, <2>4, <2>5, <2>6
<1> QED BY <1>7, <1>8, <1>9 DEF Sorting

\* The places in every finite set can be sorted: there is no least size of one
\* whose places cannot.
LEMMA SortingExists ==
  ASSUME NEW L, L \subseteq Nat, NEW w \in [L -> Positions],
         NEW S, S \subseteq L, IsFiniteSet(S)
  PROVE  \E s : Sorting(w, S, s, Cardinality(S))
<1>. DEFINE Fine(n) == \A T \in SUBSET L :
              IsFiniteSet(T) /\ Cardinality(T) = n => \E s : Sorting(w, T, s, n)
            Bad == {n \in Nat : ~ Fine(n)}
<1> SUFFICES Bad = {}
  BY FS_CardinalityType
<1> SUFFICES ASSUME Bad # {} PROVE FALSE
  OBVIOUS
<1>1. PICK n \in Bad : \A i \in Bad : n <= i
  <2>1. Bad \subseteq Nat
    OBVIOUS
  <2>. HIDE DEF Bad
  <2> QED BY <2>1, Least
<1>2. PICK T \in SUBSET L :
        IsFiniteSet(T) /\ Cardinality(T) = n /\ ~ \E s : Sorting(w, T, s, n)
  BY <1>1
<1>3. CASE T = {}
  <2>1. n = 0
    BY <1>2, <1>3, FS_EmptySet
  <2>2. Sorting(w, T, << >>, n)
    BY <1>3, <2>1 DEF Sorting
  <2> QED BY <1>2, <2>2
<1>4. CASE T # {}
  <2>1. PICK m \in T : TRUE
    BY <1>4
  <2>2. IsFiniteSet(T \ {m}) /\ Cardinality(T \ {m}) = n - 1
    BY <1>2, <2>1, FS_RemoveElement
  <2>3. n - 1 \in Nat
    BY <2>2, FS_CardinalityType
  <2>4. Fine(n - 1)
    BY <1>1, <2>3
  <2>5. PICK s : Sorting(w, T \ {m}, s, n - 1)
    BY <2>2, <2>4
  <2>6. \E t : Sorting(w, (T \ {m}) \cup {m}, t, (n - 1) + 1)
    BY <2>1, <2>3, <2>5, Inserted
  <2>7. (T \ {m}) \cup {m} = T /\ (n - 1) + 1 = n
    BY <1>1, <2>1
  <2> QED BY <1>2, <2>6, <2>7
<1> QED BY <1>3, <1>4

\* The same elements, each as often: an equivalence.
LEMMA SameCounts ==
  ASSUME NEW s, NEW t, Rearranged(s, t), NEW v
  PROVE  Cardinality(Occurrences(s, v)) = Cardinality(Occurrences(t, v))
<1>1. CASE v \in ToSet(s) \cup ToSet(t)
  BY <1>1 DEF Rearranged
<1>2. CASE v \notin ToSet(s) \cup ToSet(t)
  <2>1. Occurrences(s, v) = {} /\ Occurrences(t, v) = {}
    BY <1>2 DEF Occurrences, ToSet
  <2> QED BY <2>1
<1> QED BY <1>1, <1>2

LEMMA RearrangedTwice ==
  ASSUME NEW s, NEW t, NEW u, Rearranged(s, t), Rearranged(t, u)
  PROVE  Rearranged(s, u)
<1>1. \A v : Cardinality(Occurrences(s, v)) = Cardinality(Occurrences(u, v))
  BY SameCounts
<1> QED BY <1>1 DEF Rearranged

\* handle_semantic_tokens_full sorts: the same positions, each as often, in
\* order.
LEMMA SortedIs ==
  ASSUME NEW tokens \in Seq(Positions)
  PROVE  /\ SortTokens(tokens) \in Seq(Positions)
         /\ Rearranged(SortTokens(tokens), tokens)
         /\ InOrder(SortTokens(tokens))
<1>. DEFINE n == Len(tokens)
            L == 1 .. n
            at == ToSet(tokens)
<1>1. n \in Nat /\ tokens \in [L -> Positions] /\ DOMAIN tokens = L
  BY LenProperties
<1>2. L \subseteq Nat /\ IsFiniteSet(L) /\ Cardinality(L) = n
  BY <1>1, FS_Interval
<1>3. at = {tokens[i] : i \in L}
  BY <1>1 DEF ToSet
<1>. HIDE DEF n, L, at
<1>4. PICK p : Sorting(tokens, L, p, n)
  <2>1. \E s : Sorting(tokens, L, s, Cardinality(L))
    BY <1>1, <1>2, SortingExists
  <2> QED BY <1>2, <2>1
<1>5. /\ p \in [L -> L] /\ \A t \in L : \E i \in L : p[i] = t
      /\ \A i, j \in L : i < j => Before(tokens, p[i], p[j])
  BY <1>4 DEF Sorting, L
<1>. DEFINE r == [i \in L |-> tokens[p[i]]]
<1>6. r \in [L -> at] /\ DOMAIN r = L
  BY <1>3, <1>5
<1>7. InOrder(r)
  <2> SUFFICES ASSUME NEW i \in L, NEW j \in L, i < j PROVE ~ Precedes(r[j], r[i])
    BY DEF InOrder
  <2>1. Before(tokens, p[i], p[j]) /\ p[i] \in L /\ p[j] \in L
    BY <1>5
  <2>2. ~ Precedes(tokens[p[j]], tokens[p[i]])
    BY <1>1, <1>2, <2>1, BeforeOrder
  <2> QED BY <2>2
<1>8. ASSUME NEW i \in L, NEW j \in L, p[i] = p[j] PROVE i = j
  <2>1. p[i] \in L
    BY <1>5
  <2>2. ~ Before(tokens, p[i], p[i])
    BY <1>1, <1>2, <2>1, BeforeOrder
  <2>3. ~ (i < j) /\ ~ (j < i)
    BY <1>5, <1>8, <2>2
  <2> QED BY <1>2, <2>3
<1>9. ASSUME NEW v
      PROVE  Cardinality(Occurrences(r, v)) = Cardinality(Occurrences(tokens, v))
  <2>. DEFINE R == Occurrences(r, v)
              T == Occurrences(tokens, v)
              f == [i \in R |-> p[i]]
  <2>1. R = {i \in L : tokens[p[i]] = v} /\ T = {i \in L : tokens[i] = v}
    BY <1>1 DEF Occurrences
  <2>. HIDE DEF R, T
  <2>2. f \in [R -> T] /\ \A t \in T : \E i \in R : f[i] = t
    BY <1>5, <2>1
  <2>3. \A i, j \in R : f[i] = f[j] => i = j
    BY <1>8, <2>1
  <2>. HIDE DEF f
  <2>4. f \in Bijection(R, T)
    BY <2>2, <2>3 DEF Bijection, Injection, Surjection, IsInjective
  <2>5. ExistsBijection(R, T)
    BY <2>4 DEF ExistsBijection
  <2>6. IsFiniteSet(R)
    <3>1. R \subseteq L
      BY <2>1
    <3> QED BY <1>2, <3>1, FS_Subset
  <2>7. Cardinality(T) = Cardinality(R)
    BY <2>5, <2>6, FS_Bijection
  <2> QED BY <2>7 DEF R, T
<1>. HIDE DEF r
<1>10. Rearranged(r, tokens)
  BY <1>9 DEF Rearranged
<1>. DEFINE s == SortTokens(tokens)
<1>11. s = CHOOSE q \in [L -> at] : InOrder(q) /\ Rearranged(q, tokens)
  BY <1>1 DEF SortTokens, at
<1>. HIDE DEF s
<1>12. s \in [L -> at] /\ InOrder(s) /\ Rearranged(s, tokens)
  BY <1>6, <1>7, <1>10, <1>11
<1>13. s \in Seq(Positions)
  <2>1. at \subseteq Positions
    BY <1>1, <1>3
  <2>2. s \in [1 .. n -> Positions]
    BY <1>12, <2>1 DEF L
  <2> QED BY <1>1, <2>2, SeqDef
<1> QED BY <1>12, <1>13 DEF s
-----------------------------------------------------------------------------
(* Loops over lists.                                                       *)

\* What holds at 0 and after one more holds for every number.
LEMMA Reaches ==
  ASSUME NEW T, 0 \in T, \A n \in Nat : n \in T => n + 1 \in T
  PROVE  Nat \subseteq T
<1>. DEFINE Out == Nat \ T
<1> SUFFICES ASSUME Out # {} PROVE FALSE
  OBVIOUS
<1>1. PICK x \in Out : \A y \in Out : x <= y
  <2>1. Out \subseteq Nat
    OBVIOUS
  <2>. HIDE DEF Out
  <2> QED BY <2>1, Least
<1>2. x # 0 /\ x - 1 \in Nat /\ (x - 1) + 1 = x
  BY <1>1
<1>3. x - 1 \in T
  BY <1>1, <1>2
<1> QED BY <1>1, <1>2, <1>3

\* A loop of n rounds from b, of which G says what each does, and the values
\* it goes through.
Loop(n, X, b, G) == n \in Nat /\ b \in X /\ G \in [1 .. n -> [X -> X]]
Runs(n, X, b, G, f) ==
  f \in [0 .. n -> X] /\ f[0] = b /\ \A i \in 1 .. n : f[i] = G[i][f[i - 1]]

LEMMA Iterated ==
  ASSUME NEW n, NEW X, NEW b, NEW G, Loop(n, X, b, G)
  PROVE  \E f : Runs(n, X, b, G, f)
<1>. DEFINE Fine(m, f) == /\ f \in [0 .. m -> X] /\ f[0] = b
                          /\ \A i \in 1 .. m : f[i] = G[i][f[i - 1]]
            T == {m \in Nat : m <= n => \E f : Fine(m, f)}
<1>. n \in Nat /\ b \in X /\ G \in [1 .. n -> [X -> X]]
  BY DEF Loop
<1>1. 0 \in T
  <2>1. Fine(0, [i \in 0 .. 0 |-> b])
    OBVIOUS
  <2> QED BY <2>1
<1>2. ASSUME NEW m \in Nat, m \in T, m + 1 <= n
      PROVE  \E f : Fine(m + 1, f)
  <2>1. PICK f : Fine(m, f)
    BY <1>2
  <2>. DEFINE g == [i \in 0 .. (m + 1) |-> IF i <= m THEN f[i] ELSE G[m + 1][f[m]]]
  <2>2. m + 1 \in 1 .. n /\ f[m] \in X
    BY <1>2, <2>1
  <2>3. G[m + 1][f[m]] \in X
    BY <2>2
  <2>4. g \in [0 .. (m + 1) -> X] /\ g[0] = b
    BY <2>1, <2>3
  <2>5. ASSUME NEW i \in 1 .. (m + 1) PROVE g[i] = G[i][g[i - 1]]
    <3>1. CASE i = m + 1
      BY <3>1
    <3>2. CASE i \in 1 .. m
      <4>1. i - 1 \in 0 .. m /\ f[i] = G[i][f[i - 1]]
        BY <2>1, <3>2
      <4> QED BY <3>2, <4>1
    <3> QED BY <3>1, <3>2
  <2>. HIDE DEF g
  <2> QED BY <2>4, <2>5
<1>3. Nat \subseteq T
  <2>1. \A m \in Nat : m \in T => m + 1 \in T
    BY <1>2
  <2>. HIDE DEF T
  <2> QED BY <1>1, <2>1, Reaches
<1>4. PICK f : Fine(n, f)
  BY <1>3
<1> QED BY <1>4 DEF Runs

\* The loop that keeps what is in S.
LEMMA KeepIs ==
  ASSUME NEW X, NEW s \in Seq(X), NEW S
  PROVE  \E f : /\ Keep(s, S) = f[Len(s)] /\ f[0] = << >>
                /\ \A i \in 1 .. Len(s) :
                     f[i] = IF s[i] \in S THEN Append(f[i - 1], s[i]) ELSE f[i - 1]
<1>. DEFINE n == Len(s)
            Q == Seq(X)
            e == << >>
            G == [i \in 1 .. n |-> [x \in Q |-> IF s[i] \in S THEN Append(x, s[i]) ELSE x]]
            Is(f) == f = [i \in 0 .. n |->
                            IF i = 0 THEN << >>
                            ELSE IF s[i] \in S THEN Append(f[i - 1], s[i]) ELSE f[i - 1]]
<1>1. n \in Nat /\ \A i \in 1 .. n : s[i] \in X
  BY LenProperties
<1>2. \A i \in 1 .. n : \A x \in Q : Append(x, s[i]) \in Q
  BY <1>1, AppendProperties
<1>3. e \in Q
  BY EmptySeq
<1>4. PICK f : Runs(n, Q, e, G, f)
  <2>1. G \in [1 .. n -> [Q -> Q]]
    <3>. HIDE DEF Q
    <3> QED BY <1>2
  <2>. HIDE DEF G, Q, n, e, Is
  <2>2. Loop(n, Q, e, G)
    BY <1>1, <1>3, <2>1 DEF Loop
  <2> QED BY <2>2, Iterated
<1>. HIDE DEF Q
<1>5. \A i \in 1 .. n : /\ i \in 0 .. n /\ i # 0 /\ f[i - 1] \in Q
                        /\ f[i] = IF s[i] \in S THEN Append(f[i - 1], s[i]) ELSE f[i - 1]
  <2> SUFFICES ASSUME NEW i \in 1 .. n
               PROVE  /\ i \in 0 .. n /\ i # 0 /\ f[i - 1] \in Q
                      /\ f[i] = IF s[i] \in S THEN Append(f[i - 1], s[i]) ELSE f[i - 1]
    OBVIOUS
  <2>1. i \in 0 .. n /\ i # 0 /\ i - 1 \in 0 .. n
    BY <1>1
  <2> QED BY <1>4, <2>1 DEF Runs
<1>6. Is(f)
  <2>. DEFINE g == [i \in 0 .. n |->
                      IF i = 0 THEN << >>
                      ELSE IF s[i] \in S THEN Append(f[i - 1], s[i]) ELSE f[i - 1]]
  <2>1. \A i \in 0 .. n : i = 0 \/ i \in 1 .. n
    BY <1>1
  <2>2. \A i \in 0 .. n : f[i] = g[i]
    BY <1>4, <1>5, <2>1 DEF Runs
  <2> QED BY <1>4, <2>2 DEF Runs
<1>. DEFINE F == CHOOSE g : Is(g)
<1>7. Is(F)
  BY <1>6
<1>8. Keep(s, S) = F[n]
  BY DEF Keep
<1>. HIDE DEF F
<1>9. F[0] = << >> /\ \A i \in 1 .. n :
        F[i] = IF s[i] \in S THEN Append(F[i - 1], s[i]) ELSE F[i - 1]
  <2>1. 0 \in 0 .. n /\ \A i \in 1 .. n : i \in 0 .. n /\ i # 0
    BY <1>1
  <2>2. \A i \in 0 .. n : F[i] = IF i = 0 THEN << >>
                                 ELSE IF s[i] \in S THEN Append(F[i - 1], s[i]) ELSE F[i - 1]
    BY <1>7
  <2> QED BY <2>1, <2>2
<1> QED BY <1>8, <1>9

\* The elements of a list up to i.
UpTo(s, i) == {s[j] : j \in 1 .. i}

\* What is kept are the elements in S, and numbers in order are in order.
LEMMA KeepFacts ==
  ASSUME NEW X, NEW s \in Seq(X), NEW S
  PROVE  /\ Keep(s, S) \in Seq(X)
         /\ ToSet(Keep(s, S)) = ToSet(s) \cap S
         /\ X \subseteq Int /\ Ascending(s) => Ascending(Keep(s, S))
<1>. DEFINE n == Len(s)
<1>1. /\ n \in Nat /\ DOMAIN s = 1 .. n
      /\ \A i \in 1 .. n : s[i] \in X
  BY LenProperties
<1>2. PICK f : /\ Keep(s, S) = f[n] /\ f[0] = << >>
               /\ \A i \in 1 .. n :
                    f[i] = IF s[i] \in S THEN Append(f[i - 1], s[i]) ELSE f[i - 1]
  BY KeepIs
<1>. HIDE DEF n
<1>. DEFINE Fine(m) == /\ f[m] \in Seq(X)
                       /\ ToSet(f[m]) = UpTo(s, m) \cap S
                       /\ X \subseteq Int /\ Ascending(s) => Ascending(f[m])
            T == {m \in Nat : m <= n => Fine(m)}
<1>3. Fine(0)
  <2>1. f[0] \in Seq(X) /\ DOMAIN f[0] = {}
    BY <1>2, EmptySeq
  <2>2. ToSet(f[0]) = {} /\ UpTo(s, 0) = {} /\ Ascending(f[0])
    BY <2>1 DEF ToSet, UpTo, Ascending
  <2> QED BY <2>1, <2>2
<1>4. ASSUME NEW m \in Nat, m + 1 <= n, Fine(m)
      PROVE  Fine(m + 1)
  <2>1. /\ m + 1 \in 1 .. n /\ m + 1 \in DOMAIN s /\ s[m + 1] \in X
        /\ \A j \in 1 .. m : j \in DOMAIN s /\ j < m + 1
    BY <1>1, <1>4
  <2>2. UpTo(s, m + 1) = UpTo(s, m) \cup {s[m + 1]}
    <3>1. \A j \in 1 .. (m + 1) : j \in 1 .. m \/ j = m + 1
      OBVIOUS
    <3>2. \A j \in 1 .. m : j \in 1 .. (m + 1)
      OBVIOUS
    <3>3. m + 1 \in 1 .. (m + 1)
      OBVIOUS
    <3> QED BY <3>1, <3>2, <3>3 DEF UpTo
  <2>3. f[m + 1] = IF s[m + 1] \in S THEN Append(f[m], s[m + 1]) ELSE f[m]
    <3>1. (m + 1) - 1 = m
      OBVIOUS
    <3> QED BY <1>2, <2>1, <3>1
  <2>4. CASE s[m + 1] \notin S
    BY <1>4, <2>2, <2>3, <2>4
  <2>5. CASE s[m + 1] \in S
    <3>. DEFINE l == Len(f[m])
                new == Append(f[m], s[m + 1])
    <3>1. f[m + 1] = new
      BY <2>3, <2>5
    <3>2. /\ l \in Nat /\ DOMAIN f[m] = 1 .. l
          /\ new \in Seq(X) /\ DOMAIN new = 1 .. (l + 1)
          /\ \A i \in 1 .. l : new[i] = f[m][i]
          /\ new[l + 1] = s[m + 1]
      BY <1>4, <2>1, LenProperties, AppendProperties
    <3>. HIDE DEF l, new
    <3>3. /\ \A i \in 1 .. (l + 1) : i \in 1 .. l \/ i = l + 1
          /\ l + 1 \in 1 .. (l + 1)
          /\ \A i \in 1 .. l : i \in 1 .. (l + 1)
      BY <3>2
    <3>4. ToSet(new) = ToSet(f[m]) \cup {s[m + 1]}
      BY <3>2, <3>3 DEF ToSet
    <3>5. ToSet(new) = UpTo(s, m + 1) \cap S
      BY <1>4, <2>2, <2>5, <3>4
    <3>6. ASSUME X \subseteq Int, Ascending(s) PROVE Ascending(new)
      <4>1. \A i \in 1 .. l : f[m][i] < s[m + 1]
        <5> SUFFICES ASSUME NEW i \in 1 .. l PROVE f[m][i] < s[m + 1]
          OBVIOUS
        <5>1. f[m][i] \in UpTo(s, m)
          BY <1>4, <3>2 DEF ToSet
        <5>2. PICK j \in 1 .. m : f[m][i] = s[j]
          BY <5>1 DEF UpTo
        <5> QED BY <2>1, <3>6, <5>2 DEF Ascending
      <4>2. Ascending(f[m])
        BY <1>4, <3>6
      <4>3. ASSUME NEW i \in 1 .. (l + 1), NEW k \in 1 .. (l + 1), i < k
            PROVE  new[i] < new[k]
        <5>1. i \in 1 .. l
          BY <3>2, <4>3
        <5>2. CASE k \in 1 .. l
          BY <3>2, <4>2, <4>3, <5>1, <5>2 DEF Ascending
        <5>3. CASE k = l + 1
          BY <3>2, <4>1, <5>1, <5>3
        <5> QED BY <3>3, <5>2, <5>3
      <4> QED BY <3>2, <4>3 DEF Ascending
    <3> QED BY <3>1, <3>2, <3>5, <3>6
  <2> QED BY <2>4, <2>5
<1>5. Fine(n)
  <2>1. 0 \in T /\ \A m \in Nat : m \in T => m + 1 \in T
    <3>. HIDE DEF Fine
    <3>1. \A m \in Nat : m + 1 <= n => m <= n
      BY <1>1
    <3> QED BY <1>3, <1>4, <3>1
  <2>. HIDE DEF T
  <2>2. n \in T
    BY <1>1, <2>1, Reaches
  <2> QED BY <1>1, <2>2 DEF T
<1>6. ToSet(s) = UpTo(s, n)
  BY <1>1 DEF ToSet, UpTo
<1> QED BY <1>2, <1>5, <1>6

-----------------------------------------------------------------------------
(* What is derived from a text.                                            *)

\* The lists that are put together are lists of the same elements.
LEMMA FlattenIs ==
  ASSUME NEW Y, NEW seqs \in Seq(Seq(Y))
  PROVE  FlattenSeq(seqs) \in Seq(Y)
<1>. DEFINE n == Len(seqs)
            Q == Seq(Y)
            e == << >>
            G == [i \in 1 .. n |-> [x \in Q |-> IF i = 1 THEN seqs[i] ELSE x \o seqs[i]]]
            Is(f) == f = [i \in 1 .. n |-> IF i = 1 THEN seqs[i] ELSE f[i - 1] \o seqs[i]]
            F == CHOOSE f : Is(f)
<1>1. n \in Nat /\ e \in Q /\ \A i \in 1 .. n : seqs[i] \in Q
  BY LenProperties, EmptySeq
<1>2. CASE n = 0
  BY <1>2, EmptySeq DEF FlattenSeq
<1>3. CASE n # 0
  <2>1. \A x \in Q, i \in 1 .. n : x \o seqs[i] \in Q
    BY <1>1, ConcatProperties
  <2>2. PICK f : Runs(n, Q, e, G, f)
    <3>1. G \in [1 .. n -> [Q -> Q]]
      <4>. HIDE DEF Q
      <4> QED BY <1>1, <2>1
    <3>. HIDE DEF G, Q, n, e, Is, F
    <3>2. Loop(n, Q, e, G)
      BY <1>1, <3>1 DEF Loop
    <3> QED BY <3>2, Iterated
  <2>. HIDE DEF Q
  <2>3. Is([i \in 1 .. n |-> f[i]])
    <3>. DEFINE g == [i \in 1 .. n |-> f[i]]
                h == [i \in 1 .. n |-> IF i = 1 THEN seqs[i] ELSE g[i - 1] \o seqs[i]]
    <3>1. \A i \in 1 .. n : i \in 1 .. n /\ i \in 0 .. n /\ i - 1 \in 0 .. n
                            /\ (i # 1 => i - 1 \in 1 .. n)
      BY <1>1
    <3>2. \A i \in 1 .. n : f[i - 1] \in Q /\ f[i] = G[i][f[i - 1]]
      BY <2>2, <3>1 DEF Runs
    <3>3. \A i \in 1 .. n : g[i] = h[i]
      BY <3>1, <3>2
    <3> QED BY <3>3
  <2>4. Is(F)
    <3>. HIDE DEF Is
    <3> QED BY <2>3
  <2>5. FlattenSeq(seqs) = F[n]
    BY <1>3 DEF FlattenSeq
  <2>. HIDE DEF F
  <2>6. \A i \in 1 .. n : F[i] = IF i = 1 THEN seqs[i] ELSE F[i - 1] \o seqs[i]
    BY <2>4
  <2>. DEFINE T == {m \in Nat : m + 1 <= n => F[m + 1] \in Q}
  <2>7. 0 \in T
    <3>1. 0 + 1 = 1 /\ 1 \in 1 .. n
      BY <1>1, <1>3
    <3> QED BY <1>1, <2>6, <3>1
  <2>8. ASSUME NEW m \in Nat, m \in T, (m + 1) + 1 <= n
        PROVE  F[(m + 1) + 1] \in Q
    <3>1. /\ (m + 1) + 1 \in 1 .. n /\ (m + 1) + 1 # 1 /\ ((m + 1) + 1) - 1 = m + 1
          /\ m + 1 <= n
      BY <1>1, <2>8
    <3> QED BY <2>1, <2>6, <2>8, <3>1
  <2>9. n - 1 \in T
    <3>1. \A m \in Nat : m \in T => m + 1 \in T
      BY <2>8
    <3>2. n - 1 \in Nat
      BY <1>1, <1>3
    <3>. HIDE DEF T
    <3> QED BY <2>7, <3>1, <3>2, Reaches
  <2>10. (n - 1) + 1 = n
    BY <1>1
  <2> QED BY <1>1, <2>5, <2>9, <2>10 DEF Q
<1> QED BY <1>1, <1>2, <1>3

\* A list made of a list, element by element.
LEMMA MappedIs ==
  ASSUME NEW Y, NEW s, IsList(s), NEW g, g = [i \in DOMAIN s |-> g[i]],
         \A i \in DOMAIN s : g[i] \in Y
  PROVE  g \in Seq(Y) /\ DOMAIN g = DOMAIN s
<1>1. Len(s) \in Nat /\ DOMAIN s = 1 .. Len(s)
  BY ListParts
<1>2. g \in [1 .. Len(s) -> Y]
  BY <1>1
<1> QED BY <1>1, <1>2, SeqDef

LEMMA EntryIs ==
  ASSUME NEW name \in STRING, NEW line \in Nat, NEW container \in STRING \cup {NONE}
  PROVE  Entry(name, line, container) \in Entries
BY DEF Entry, Entries

\* What the index has for a declaration.
LEMMA IndexFnIs ==
  ASSUME NEW fn, fn.name \in STRING, fn.line \in Nat, fn.vars \in Seq(Names),
         NEW container \in STRING \cup {NONE}
  PROVE  IndexFn(fn, container) \in Seq(Entries)
<1>. DEFINE own == <<Entry(fn.name, fn.line, container)>>
            others == [i \in DOMAIN fn.vars |-> Entry(fn.vars[i].name, fn.vars[i].line, NONE)]
<1>1. own \in Seq(Entries)
  <2>1. Entry(fn.name, fn.line, container) \in Entries
    BY EntryIs
  <2> QED BY <2>1
<1>2. others \in Seq(Entries)
  <2>1. IsList(fn.vars) /\ \A i \in DOMAIN fn.vars : fn.vars[i] \in Names
    BY ListOf, LenProperties
  <2>2. \A i \in DOMAIN fn.vars : Entry(fn.vars[i].name, fn.vars[i].line, NONE) \in Entries
    BY <2>1, EntryIs DEF Names
  <2>3. others = [i \in DOMAIN fn.vars |-> others[i]]
        /\ \A i \in DOMAIN fn.vars : others[i] \in Entries
    BY <2>2
  <2>. HIDE DEF others
  <2> QED BY <2>1, <2>3, MappedIs
<1>3. IndexFn(fn, container) = own \o others
  BY DEF IndexFn
<1>. HIDE DEF own, others
<1> QED BY <1>1, <1>2, <1>3, ConcatProperties

LEMMA IndexDeclIs ==
  ASSUME NEW d \in Decls
  PROVE  IndexDecl(d) \in Seq(Entries)
<1>1. /\ d.name \in STRING /\ d.line \in Nat /\ d.vars \in Seq(Names)
      /\ d.methods \in Seq(Functions)
  BY DEF Decls
<1>. DEFINE self == <<Entry(d.name, d.line, NONE)>>
            bare == <<[self[1] EXCEPT !.hover = FALSE]>>
<1>2. self \in Seq(Entries)
  <2>1. Entry(d.name, d.line, NONE) \in Entries
    BY <1>1, EntryIs
  <2> QED BY <2>1
<1>3. bare \in Seq(Entries)
  <2>1. [Entry(d.name, d.line, NONE) EXCEPT !.hover = FALSE] \in Entries
    BY <1>1 DEF Entry, Entries
  <2> QED BY <2>1
<1>4. IndexMethods(d) \in Seq(Entries)
  <2>. DEFINE g == [i \in DOMAIN d.methods |-> IndexFn(d.methods[i], d.name)]
  <2>1. IsList(d.methods) /\ \A i \in DOMAIN d.methods : d.methods[i] \in Functions
    BY <1>1, ListOf, LenProperties
  <2>2. \A i \in DOMAIN d.methods : IndexFn(d.methods[i], d.name) \in Seq(Entries)
    <3>1. \A i \in DOMAIN d.methods :
            /\ d.methods[i].name \in STRING /\ d.methods[i].line \in Nat
            /\ d.methods[i].vars \in Seq(Names)
      BY <2>1 DEF Functions
    <3> QED BY <1>1, <3>1, IndexFnIs
  <2>3. g = [i \in DOMAIN d.methods |-> g[i]]
        /\ \A i \in DOMAIN d.methods : g[i] \in Seq(Entries)
    BY <2>2
  <2>4. IndexMethods(d) = FlattenSeq(g)
    BY DEF IndexMethods
  <2>. HIDE DEF g
  <2>5. g \in Seq(Seq(Entries))
    BY <2>1, <2>3, MappedIs
  <2> QED BY <2>4, <2>5, FlattenIs
<1>5. IndexMembers(d) \in Seq(Entries)
  <2>. DEFINE g == [i \in DOMAIN d.vars |-> Entry(d.vars[i].name, d.line, d.name)]
  <2>1. IsList(d.vars) /\ \A i \in DOMAIN d.vars : d.vars[i] \in Names
    BY <1>1, ListOf, LenProperties
  <2>2. \A i \in DOMAIN d.vars : Entry(d.vars[i].name, d.line, d.name) \in Entries
    BY <1>1, <2>1, EntryIs DEF Names
  <2>3. g = [i \in DOMAIN d.vars |-> g[i]] /\ \A i \in DOMAIN d.vars : g[i] \in Entries
    BY <2>2
  <2>4. IndexMembers(d) = g
    BY DEF IndexMembers
  <2>. HIDE DEF g
  <2> QED BY <2>1, <2>3, <2>4, MappedIs
<1>6. IndexFn(d, NONE) \in Seq(Entries)
  BY <1>1, IndexFnIs
<1>. DEFINE M == IndexMethods(d)
            B == IndexMembers(d)
<1>7. \A s, t \in Seq(Entries) : s \o t \in Seq(Entries)
  BY ConcatProperties
<1>8. << >> \in Seq(Entries)
  BY EmptySeq
<1>9. IndexDecl(d) \in {IndexFn(d, NONE), self \o M \o B, bare \o M, self \o B \o M,
                        self \o M, M, self, << >>}
  <2>1. IndexDecl(d) =
          CASE d.kind = "fn" -> IndexFn(d, NONE)
            [] d.kind = "struct" /\ d.found -> self \o M \o B
            [] d.kind = "struct" /\ ~ d.found -> bare \o M
            [] d.kind = "enum" -> self \o B \o M
            [] d.kind = "pact" -> self \o M
            [] d.kind = "ext" -> M
            [] d.kind = "var" -> self
            [] OTHER -> << >>
    BY DEF IndexDecl
  <2>. HIDE DEF self, bare, M, B
  <2> QED BY <2>1
<1>. HIDE DEF self, bare, M, B
<1>10. /\ self \o M \in Seq(Entries) /\ self \o B \in Seq(Entries)
       /\ bare \o M \in Seq(Entries)
  BY <1>2, <1>3, <1>4, <1>5, <1>7 DEF M, B
<1>11. (self \o M) \o B \in Seq(Entries) /\ (self \o B) \o M \in Seq(Entries)
  BY <1>4, <1>5, <1>7, <1>10 DEF M, B
<1> QED BY <1>2, <1>4, <1>6, <1>8, <1>9, <1>10, <1>11 DEF M

\* The lists made of the elements of a list, put together.
LEMMA FlattenedIs ==
  ASSUME NEW Y, NEW s, IsList(s), NEW g, g = [i \in DOMAIN s |-> g[i]],
         \A i \in DOMAIN s : g[i] \in Seq(Y)
  PROVE  FlattenSeq(g) \in Seq(Y)
<1>1. g \in Seq(Seq(Y))
  BY MappedIs
<1> QED BY <1>1, FlattenIs

\* lsp_build_symbol_index makes entries.
LEMMA IndexFromIs ==
  ASSUME NEW d \in Decls
  PROVE  IndexFrom(d) \in Seq(Entries)
<1>. DEFINE entries == IF d.file = "elsewhere" THEN << >> ELSE IndexDecl(d)
            g == [i \in DOMAIN entries |-> [entries[i] EXCEPT !.is_std = (d.file = "std")]]
<1>1. entries \in Seq(Entries)
  BY IndexDeclIs, EmptySeq
<1>2. IndexFrom(d) = g
  BY DEF IndexFrom
<1>. HIDE DEF entries
<1>3. IsList(entries) /\ \A i \in DOMAIN entries : entries[i] \in Entries
  BY <1>1, ListOf, LenProperties
<1>4. g = [i \in DOMAIN entries |-> g[i]] /\ \A i \in DOMAIN entries : g[i] \in Entries
  <2>1. (d.file = "std") \in BOOLEAN
    OBVIOUS
  <2>2. \A e \in Entries, b \in BOOLEAN : [e EXCEPT !.is_std = b] \in Entries
    BY DEF Entries
  <2> QED BY <1>3, <2>1, <2>2
<1>. HIDE DEF g
<1> QED BY <1>2, <1>3, <1>4, MappedIs

LEMMA SymbolIndexIs ==
  ASSUME NEW decls \in Seq(Decls)
  PROVE  BuildSymbolIndex(decls) \in Seq(Entries)
<1>. DEFINE g == [i \in DOMAIN decls |-> IndexFrom(decls[i])]
<1>1. IsList(decls) /\ \A i \in DOMAIN decls : decls[i] \in Decls
  BY ListOf, LenProperties
<1>2. g = [i \in DOMAIN decls |-> g[i]] /\ \A i \in DOMAIN decls : g[i] \in Seq(Entries)
  BY <1>1, IndexFromIs
<1>3. BuildSymbolIndex(decls) = FlattenSeq(g)
  BY DEF BuildSymbolIndex
<1>. HIDE DEF g
<1> QED BY <1>1, <1>2, <1>3, FlattenedIs

\* lsp_build_semantic_tokens makes positions.
LEMMA WalkDeclIs ==
  ASSUME NEW d \in Decls
  PROVE  WalkDecl(d) \in Seq(Positions)
<1>1. d.uses \in Seq(Positions) /\ d.methods \in Seq(Functions)
  BY DEF Decls
<1>2. WalkMethods(d) \in Seq(Positions)
  <2>. DEFINE g == [i \in DOMAIN d.methods |-> d.methods[i].uses]
  <2>1. IsList(d.methods) /\ \A i \in DOMAIN d.methods : d.methods[i] \in Functions
    BY <1>1, ListOf, LenProperties
  <2>2. g = [i \in DOMAIN d.methods |-> g[i]]
        /\ \A i \in DOMAIN d.methods : g[i] \in Seq(Positions)
    BY <2>1 DEF Functions
  <2>3. WalkMethods(d) = FlattenSeq(g)
    BY DEF WalkMethods
  <2>. HIDE DEF g
  <2> QED BY <2>1, <2>2, <2>3, FlattenedIs
<1>3. << >> \in Seq(Positions)
  BY EmptySeq
<1> QED BY <1>1, <1>2, <1>3 DEF WalkDecl

LEMMA TokensAre ==
  ASSUME NEW decls \in Seq(Decls)
  PROVE  SemanticTokens(decls) \in Seq(Positions)
<1>. DEFINE g == [i \in DOMAIN decls |-> WalkDecl(decls[i])]
<1>1. IsList(decls) /\ \A i \in DOMAIN decls : decls[i] \in Decls
  BY ListOf, LenProperties
<1>2. g = [i \in DOMAIN decls |-> g[i]] /\ \A i \in DOMAIN decls : g[i] \in Seq(Positions)
  BY <1>1, WalkDeclIs
<1>3. SemanticTokens(decls) = FlattenSeq(g)
  BY DEF SemanticTokens
<1>. HIDE DEF g
<1> QED BY <1>1, <1>2, <1>3, FlattenedIs

\* compile_diagnostics.
LEMMA CompiledIs ==
  ASSUME NEW text \in Texts
  PROVE  /\ Compiled[text].tokens \in Seq(Positions)
         /\ Compiled[text].diags \in SUBSET Passes
         /\ Compiled[text].symbols \in {Compiled[t].symbols : t \in Texts}
         /\ Compiled[text].symbols \in Seq(Entries)
<1>. DEFINE decls == StdDecls \o Content[text].decls
<1>1. decls \in Seq(Decls)
  <2>1. Content[text].decls \in Seq(Decls)
    BY LspAssumption DEF Contents
  <2> QED BY <2>1, SymbolsAssumption, ConcatProperties
<1>2. Compiled[text] = Compile(Content[text])
  BY DEF Compiled
<1>3. << >> \in Seq(Positions) /\ << >> \in Seq(Entries)
  BY EmptySeq
<1>. HIDE DEF decls
<1>4. SemanticTokens(decls) \in Seq(Positions) /\ BuildSymbolIndex(decls) \in Seq(Entries)
  BY <1>1, TokensAre, SymbolIndexIs
<1>5. /\ Compiled[text].tokens \in {<< >>, SemanticTokens(decls)}
      /\ Compiled[text].symbols \in {<< >>, BuildSymbolIndex(decls)}
      /\ Compiled[text].diags \in SUBSET Passes
  BY <1>2 DEF Compile, Passes, decls
<1> QED BY <1>3, <1>4, <1>5

-----------------------------------------------------------------------------
(* The document store.                                                     *)

\* find_document: the place of a document of the URI, or 0.
LEMMA FindIs ==
  ASSUME NEW docs, IsList(docs), NEW uri
  PROVE  \/ /\ FindDocument(docs, uri) = 0
            /\ \A i \in DOMAIN docs : docs[i].uri # uri
         \/ /\ FindDocument(docs, uri) \in DOMAIN docs
            /\ FindDocument(docs, uri) # 0
            /\ docs[FindDocument(docs, uri)].uri = uri
<1>. DEFINE I == {i \in 1 .. Len(docs) : docs[i].uri = uri}
            f == FindDocument(docs, uri)
<1>1. Len(docs) \in Nat /\ DOMAIN docs = 1 .. Len(docs)
  BY ListParts
<1>2. f = IF I # {} THEN Min(I) ELSE 0
  BY DEF FindDocument, SelectInSeq
<1>3. Min(I) = CHOOSE i \in I : \A j \in I : i <= j
  BY DEF Min
<1>4. I # {} => \E i \in I : \A j \in I : i <= j
  <2>1. I \subseteq Nat
    BY <1>1
  <2>. HIDE DEF I
  <2> QED BY <2>1, Least
<1>. HIDE DEF f
<1>5. CASE I = {}
  BY <1>1, <1>2, <1>5 DEF f
<1>6. CASE I # {}
  <2>1. f \in I
    <3>. HIDE DEF I
    <3> QED BY <1>2, <1>3, <1>4, <1>6
  <2>2. f \in DOMAIN docs /\ f # 0 /\ docs[f].uri = uri
    BY <1>1, <2>1
  <2> QED BY <2>2 DEF f
<1> QED BY <1>5, <1>6

\* The store while the document of a URI is not validated yet.
Raw == [uri : Uris, text : Texts,
        symbols : {Compiled[t].symbols : t \in Texts} \cup {<< >>}, tokens : Seq(Positions)]

Pending(docs, uri) ==
  /\ IsList(docs)
  /\ \A i \in DOMAIN docs : docs[i] \in Raw /\ (docs[i].uri # uri => DocOK(docs[i]))
  /\ \A i, j \in DOMAIN docs : docs[i].uri = docs[j].uri => i = j

LEMMA StoreIsPending ==
  ASSUME NEW docs, StoreOK(docs), NEW uri
  PROVE  Pending(docs, uri)
BY DEF StoreOK, Pending, DocOK, Stores, Raw

\* A store has one text for a URI.
LEMMA OneText ==
  ASSUME NEW docs, NEW uri, Pending(docs, uri), NEW t, NEW u,
         Holds(docs, uri, t), Holds(docs, uri, u)
  PROVE  t = u
BY DEF Pending, Holds

\* upsert_document: the URI has the text, and the others what they had.
LEMMA UpsertIs ==
  ASSUME NEW docs, StoreOK(docs), NEW uri \in Uris, NEW text \in Texts
  PROVE  /\ Pending(UpsertDocument(docs, uri, text), uri)
         /\ Holds(UpsertDocument(docs, uri, text), uri, text)
         /\ \A u, t : u # uri /\ Holds(docs, u, t)
              => Holds(UpsertDocument(docs, uri, text), u, t)
<1>. DEFINE d == Document(uri, text)
            i == FindDocument(docs, uri)
            new == UpsertDocument(docs, uri, text)
<1>1. d \in Raw /\ d.uri = uri /\ d.text = text
  <2>1. << >> \in Seq(Positions)
    BY EmptySeq
  <2> QED BY <2>1 DEF Document, Raw
<1>2. text # NONE
  BY LspAssumption
<1>3. /\ IsList(docs) /\ Len(docs) \in Nat /\ DOMAIN docs = 1 .. Len(docs)
      /\ \A k \in DOMAIN docs : docs[k] \in Raw /\ DocOK(docs[k])
      /\ \A j, k \in DOMAIN docs : docs[j].uri = docs[k].uri => j = k
  BY ListParts, StoreIsPending DEF StoreOK, Pending
<1>4. \/ i = 0 /\ \A k \in DOMAIN docs : docs[k].uri # uri
      \/ i \in DOMAIN docs /\ i # 0 /\ docs[i].uri = uri
  BY <1>3, FindIs
<1>5. new = IF i = 0 THEN <<d>> \o docs ELSE [docs EXCEPT ![i] = d]
  BY DEF UpsertDocument
<1>. HIDE DEF i, d, new
<1>6. CASE i = 0
  <2>1. new = <<d>> \o docs
    BY <1>5, <1>6
  <2>2. /\ IsList(new) /\ DOMAIN new = 1 .. (Len(docs) + 1)
        /\ new[1] = d /\ \A k \in 1 .. Len(docs) : new[k + 1] = docs[k]
    <3>1. /\ IsList(<<d>> \o docs) /\ DOMAIN (<<d>> \o docs) = 1 .. (Len(docs) + 1)
          /\ (<<d>> \o docs)[1] = d
          /\ \A k \in 1 .. Len(docs) : (<<d>> \o docs)[k + 1] = docs[k]
      BY <1>3, Prepended
    <3> QED BY <2>1, <3>1
  <2>3. \A k \in DOMAIN new : k = 1 \/ (k - 1 \in DOMAIN docs /\ new[k] = docs[k - 1])
    <3> SUFFICES ASSUME NEW k \in 1 .. (Len(docs) + 1), k # 1
                 PROVE  k - 1 \in 1 .. Len(docs) /\ new[k] = docs[k - 1]
      BY <1>3, <2>2
    <3>1. k - 1 \in 1 .. Len(docs) /\ (k - 1) + 1 = k
      BY <1>3
    <3> QED BY <2>2, <3>1
  <2>4. \A k \in DOMAIN docs : k + 1 \in DOMAIN new /\ new[k + 1] = docs[k]
    BY <1>3, <2>2
  <2>5. 1 \in DOMAIN new /\ \A k \in DOMAIN docs : docs[k].uri # uri
    BY <1>3, <1>4, <1>6, <2>2
  <2>6. \A k \in DOMAIN new : new[k] \in Raw /\ (new[k].uri # uri => DocOK(new[k]))
    BY <1>1, <1>3, <2>2, <2>3
  <2>7. \A j, k \in DOMAIN new : new[j].uri = new[k].uri => j = k
    <3>1. new[1].uri = uri
      BY <1>1, <2>2
    <3>2. \A k \in DOMAIN new : k # 1 => new[k].uri # uri
      BY <2>3, <2>5
    <3>3. ASSUME NEW j \in DOMAIN new, NEW k \in DOMAIN new,
                 new[j].uri = new[k].uri, j # 1, k # 1
          PROVE  j = k
      <4>1. j - 1 = k - 1
        BY <1>3, <2>3, <3>3
      <4>2. j \in Nat /\ k \in Nat
        BY <2>2
      <4> QED BY <4>1, <4>2
    <3> QED BY <3>1, <3>2, <3>3
  <2>8. Pending(new, uri)
    BY <2>2, <2>6, <2>7 DEF Pending
  <2>9. Holds(new, uri, text)
    BY <1>1, <1>2, <2>2, <2>5 DEF Holds
  <2>10. \A u, t : u # uri /\ Holds(docs, u, t) => Holds(new, u, t)
    <3> SUFFICES ASSUME NEW u, NEW t, u # uri, Holds(docs, u, t) PROVE Holds(new, u, t)
      OBVIOUS
    <3>1. CASE t = NONE
      BY <1>1, <2>2, <2>3, <3>1 DEF Holds
    <3>2. CASE t # NONE
      BY <2>4, <3>2 DEF Holds
    <3> QED BY <3>1, <3>2
  <2> QED BY <2>8, <2>9, <2>10 DEF new
<1>7. CASE i # 0
  <2>1. new = [docs EXCEPT ![i] = d] /\ i \in DOMAIN docs /\ docs[i].uri = uri
    BY <1>4, <1>5, <1>7
  <2>2. /\ IsList(new) /\ DOMAIN new = DOMAIN docs
        /\ new[i] = d /\ \A k \in DOMAIN docs : k # i => new[k] = docs[k]
    BY <1>3, <2>1, Replaced
  <2>3. \A k \in DOMAIN docs : new[k].uri = docs[k].uri
    BY <1>1, <2>1, <2>2
  <2>4. \A k \in DOMAIN new : new[k] \in Raw /\ (new[k].uri # uri => DocOK(new[k]))
    BY <1>1, <1>3, <2>2
  <2>5. Pending(new, uri)
    BY <1>3, <2>2, <2>3, <2>4 DEF Pending
  <2>6. Holds(new, uri, text)
    BY <1>1, <1>2, <2>1, <2>2 DEF Holds
  <2>7. \A u, t : u # uri /\ Holds(docs, u, t) => Holds(new, u, t)
    BY <2>1, <2>2, <2>3 DEF Holds
  <2> QED BY <2>5, <2>6, <2>7 DEF new
<1> QED BY <1>6, <1>7

\* validate_document: what is derived from the text is put in its place.
LEMMA ValidatedIs ==
  ASSUME NEW docs, NEW uri, Pending(docs, uri), NEW text \in Texts,
         Holds(docs, uri, text)
  PROVE  /\ StoreOK(Validated(docs, uri, text))
         /\ \A u, t : Holds(docs, u, t) => Holds(Validated(docs, uri, text), u, t)
<1>. DEFINE i == FindDocument(docs, uri)
            c == Compiled[text]
            new == Validated(docs, uri, text)
            e == [docs[i] EXCEPT !.symbols = c.symbols, !.tokens = c.tokens]
<1>1. PICK k \in DOMAIN docs : docs[k].uri = uri /\ docs[k].text = text
  BY LspAssumption DEF Holds
<1>2. /\ IsList(docs) /\ \A j \in DOMAIN docs : docs[j] \in Raw
      /\ \A j \in DOMAIN docs : docs[j].uri # uri => DocOK(docs[j])
      /\ \A j, l \in DOMAIN docs : docs[j].uri = docs[l].uri => j = l
  BY DEF Pending
<1>3. i = k /\ i # 0
  BY <1>1, <1>2, FindIs
<1>4. new = [docs EXCEPT ![i] = e]
  BY <1>3 DEF Validated
<1>5. /\ c.tokens \in Seq(Positions) /\ c.symbols \in {Compiled[t].symbols : t \in Texts}
  BY CompiledIs
<1>6. docs[i] \in Raw /\ docs[i].uri = uri /\ docs[i].text = text /\ i \in DOMAIN docs
  BY <1>1, <1>2, <1>3
<1>. HIDE DEF i, new
<1>7. /\ e \in Stores /\ e.uri = uri /\ e.text = text
      /\ e.symbols = c.symbols /\ e.tokens = c.tokens
  <2>. HIDE DEF c
  <2> QED BY <1>5, <1>6 DEF Raw, Stores
<1>8. DocOK(e)
  BY <1>7 DEF DocOK, Rearranged
<1>. HIDE DEF e
<1>9. /\ IsList(new) /\ DOMAIN new = DOMAIN docs
      /\ new[i] = e /\ \A j \in DOMAIN docs : j # i => new[j] = docs[j]
  BY <1>2, <1>4, <1>6, Replaced
<1>10. \A j \in DOMAIN docs : new[j].uri = docs[j].uri /\ new[j].text = docs[j].text
  BY <1>6, <1>7, <1>9
<1>11. \A j \in DOMAIN new : DocOK(new[j])
  BY <1>2, <1>6, <1>8, <1>9
<1>12. StoreOK(new)
  BY <1>2, <1>9, <1>10, <1>11 DEF StoreOK
<1>13. \A u, t : Holds(docs, u, t) => Holds(new, u, t)
  BY <1>9, <1>10 DEF Holds
<1> QED BY <1>12, <1>13 DEF new

\* remove_document: the URI has no text, and the others what they had.
LEMMA RemoveIs ==
  ASSUME NEW docs, StoreOK(docs), NEW uri
  PROVE  /\ StoreOK(RemoveDocument(docs, uri))
         /\ Holds(RemoveDocument(docs, uri), uri, NONE)
         /\ \A u, t : u # uri /\ Holds(docs, u, t)
              => Holds(RemoveDocument(docs, uri), u, t)
<1>. DEFINE k == FindDocument(docs, uri)
            new == RemoveDocument(docs, uri)
<1>1. /\ IsList(docs) /\ Len(docs) \in Nat /\ DOMAIN docs = 1 .. Len(docs)
      /\ \A j \in DOMAIN docs : DocOK(docs[j])
      /\ \A i, j \in DOMAIN docs : docs[i].uri = docs[j].uri => i = j
  BY ListParts DEF StoreOK
<1>2. \/ k = 0 /\ \A i \in DOMAIN docs : docs[i].uri # uri
      \/ k \in DOMAIN docs /\ k # 0 /\ docs[k].uri = uri
  BY <1>1, FindIs
<1>3. new = IF k = 0 THEN docs ELSE RemoveAt(docs, k)
  BY DEF RemoveDocument
<1>. HIDE DEF k, new
<1>4. CASE k = 0
  BY <1>2, <1>3, <1>4 DEF Holds, new
<1>5. CASE k # 0
  <2>1. k \in DOMAIN docs /\ docs[k].uri = uri /\ new = RemoveAt(docs, k)
    BY <1>2, <1>3, <1>5
  <2>2. /\ IsList(new) /\ DOMAIN new = 1 .. (Len(docs) - 1)
        /\ \A i \in 1 .. (Len(docs) - 1) : new[i] = IF i < k THEN docs[i] ELSE docs[i + 1]
    BY <1>1, <2>1, Without
  <2>. DEFINE From(i) == IF i < k THEN i ELSE i + 1
  <2>3. \A i \in DOMAIN new : From(i) \in DOMAIN docs /\ From(i) # k /\ new[i] = docs[From(i)]
    <3> SUFFICES ASSUME NEW i \in 1 .. (Len(docs) - 1)
                 PROVE  From(i) \in DOMAIN docs /\ From(i) # k /\ new[i] = docs[From(i)]
      BY <2>2
    <3>1. CASE i < k
      BY <1>1, <2>1, <2>2, <3>1
    <3>2. CASE ~ (i < k)
      BY <1>1, <2>1, <2>2, <3>2
    <3> QED BY <3>1, <3>2
  <2>4. \A i, j \in DOMAIN new : From(i) = From(j) => i = j
    BY <1>1, <2>1, <2>2
  <2>5. \A j \in DOMAIN docs : j # k => \E i \in DOMAIN new : From(i) = j
    <3> SUFFICES ASSUME NEW j \in 1 .. Len(docs), j # k
                 PROVE  \E i \in 1 .. (Len(docs) - 1) : From(i) = j
      BY <1>1, <2>2
    <3>1. CASE j < k
      BY <1>1, <2>1, <3>1
    <3>2. CASE k < j
      <4>1. j - 1 \in 1 .. (Len(docs) - 1) /\ ~ (j - 1 < k) /\ (j - 1) + 1 = j
        BY <1>1, <2>1, <3>2
      <4> QED BY <4>1
    <3> QED BY <1>1, <2>1, <3>1, <3>2
  <2>. HIDE DEF From
  <2>6. StoreOK(new)
    BY <1>1, <2>2, <2>3, <2>4 DEF StoreOK
  <2>7. Holds(new, uri, NONE)
    BY <1>1, <2>1, <2>3 DEF Holds
  <2>8. \A u, t : u # uri /\ Holds(docs, u, t) => Holds(new, u, t)
    <3> SUFFICES ASSUME NEW u, NEW t, u # uri, Holds(docs, u, t) PROVE Holds(new, u, t)
      OBVIOUS
    <3>1. CASE t = NONE
      BY <2>3, <3>1 DEF Holds
    <3>2. CASE t # NONE
      <4>1. PICK j \in DOMAIN docs : docs[j].uri = u /\ docs[j].text = t
        BY <3>2 DEF Holds
      <4>2. j # k
        BY <2>1, <4>1
      <4> QED BY <2>3, <2>5, <3>2, <4>1, <4>2 DEF Holds
    <3> QED BY <3>1, <3>2
  <2> QED BY <2>6, <2>7, <2>8 DEF new
<1> QED BY <1>4, <1>5

\* Sorting the tokens of a document changes no text.
LEMMA SortedStore ==
  ASSUME NEW docs, StoreOK(docs), NEW i \in DOMAIN docs
  PROVE  LET new == [docs EXCEPT ![i].tokens = SortTokens(docs[i].tokens)]
         IN  StoreOK(new) /\ \A u, t : Holds(docs, u, t) => Holds(new, u, t)
<1>. DEFINE r == SortTokens(docs[i].tokens)
            e == [docs[i] EXCEPT !.tokens = r]
            new == [docs EXCEPT ![i].tokens = r]
<1>1. /\ IsList(docs) /\ \A j \in DOMAIN docs : DocOK(docs[j])
      /\ \A j, l \in DOMAIN docs : docs[j].uri = docs[l].uri => j = l
  BY DEF StoreOK
<1>2. docs[i] \in Stores /\ DocOK(docs[i])
  BY <1>1 DEF DocOK
<1>3. r \in Seq(Positions) /\ Rearranged(r, Compiled[docs[i].text].tokens)
  <2>1. r \in Seq(Positions) /\ Rearranged(r, docs[i].tokens)
    BY <1>2, SortedIs DEF Stores
  <2> QED BY <1>2, <2>1, RearrangedTwice DEF DocOK
<1>4. new = [docs EXCEPT ![i] = e]
  OBVIOUS
<1>. HIDE DEF r
<1>5. /\ e \in Stores /\ e.uri = docs[i].uri /\ e.text = docs[i].text
      /\ e.symbols = docs[i].symbols /\ e.tokens = r
  BY <1>2, <1>3 DEF Stores
<1>6. DocOK(e)
  BY <1>2, <1>3, <1>5 DEF DocOK
<1>. HIDE DEF e
<1>7. /\ IsList(new) /\ DOMAIN new = DOMAIN docs
      /\ new[i] = e /\ \A j \in DOMAIN docs : j # i => new[j] = docs[j]
  <2>. HIDE DEF new
  <2> QED BY <1>1, <1>4, Replaced
<1>8. \A j \in DOMAIN docs : new[j].uri = docs[j].uri /\ new[j].text = docs[j].text
  BY <1>5, <1>7
<1>9. \A j \in DOMAIN new : DocOK(new[j])
  BY <1>1, <1>6, <1>7
<1>. HIDE DEF new
<1>10. StoreOK(new) /\ \A u, t : Holds(docs, u, t) => Holds(new, u, t)
  BY <1>1, <1>7, <1>8, <1>9 DEF StoreOK, Holds
<1> QED BY <1>10 DEF new, r

-----------------------------------------------------------------------------
(* What the editor had when it sent a message.                             *)

\* The server takes the first message and does to its documents what it says.
Served(docs, m, new) ==
  \A uri \in Uris :
    /\ Edits(m, uri) => Holds(new, uri, TextOf(m))
    /\ ~ Edits(m, uri) => \A t : Holds(docs, uri, t) => Holds(new, uri, t)

LEMMA SawTaken ==
  ASSUME NEW in, IsList(in), in # << >>, NEW docs, NEW new, Served(docs, in[1], new),
         NEW uri \in Uris, NEW text, NEW k \in 1 .. Len(in), Saw(docs, in, k + 1, uri, text)
  PROVE  Saw(new, Tail(in), k, uri, text)
<1>1. /\ Len(in) \in Nat /\ \A i \in 1 .. (Len(in) - 1) : Tail(in)[i] = in[i + 1]
  BY Rest
<1>2. \A i \in 1 .. (k - 1) : /\ i + 1 \in 1 .. k /\ i \in 1 .. (Len(in) - 1)
                              /\ Tail(in)[i] = in[i + 1]
  BY <1>1
<1>3. \A i \in 1 .. k : i = 1 \/ i - 1 \in 1 .. (k - 1)
  OBVIOUS
<1>4. (k + 1) - 1 = k /\ 1 \in 1 .. k
  OBVIOUS
<1>5. ASSUME NEW i \in 1 .. (k - 1), Edits(Tail(in)[i], uri),
             \A j \in 1 .. (k - 1) : i < j => ~ Edits(Tail(in)[j], uri)
      PROVE  TextOf(Tail(in)[i]) = text
  <2>1. \A j \in 1 .. k : i + 1 < j => ~ Edits(in[j], uri)
    <3> SUFFICES ASSUME NEW j \in 1 .. k, i + 1 < j PROVE ~ Edits(in[j], uri)
      OBVIOUS
    <3>1. j - 1 \in 1 .. (k - 1) /\ i < j - 1 /\ (j - 1) + 1 = j
      OBVIOUS
    <3>2. Tail(in)[j - 1] = in[(j - 1) + 1]
      BY <1>2, <3>1
    <3> QED BY <1>5, <3>1, <3>2
  <2>2. i + 1 \in 1 .. k /\ Edits(in[i + 1], uri)
    BY <1>2, <1>5
  <2>3. TextOf(in[i + 1]) = text
    BY <1>4, <2>1, <2>2 DEF Saw
  <2> QED BY <1>2, <2>3
<1>6. ASSUME \A i \in 1 .. (k - 1) : ~ Edits(Tail(in)[i], uri)
      PROVE  Holds(new, uri, text)
  <2>1. \A j \in 1 .. k : 1 < j => ~ Edits(in[j], uri)
    <3> SUFFICES ASSUME NEW j \in 1 .. k, 1 < j PROVE ~ Edits(in[j], uri)
      OBVIOUS
    <3>1. j - 1 \in 1 .. (k - 1) /\ (j - 1) + 1 = j
      OBVIOUS
    <3>2. Tail(in)[j - 1] = in[(j - 1) + 1]
      BY <1>2, <3>1
    <3> QED BY <1>6, <3>1, <3>2
  <2>2. CASE Edits(in[1], uri)
    <3>1. TextOf(in[1]) = text
      BY <1>4, <2>1, <2>2 DEF Saw
    <3> QED BY <2>2, <3>1 DEF Served
  <2>3. CASE ~ Edits(in[1], uri)
    <3>1. \A j \in 1 .. k : ~ Edits(in[j], uri)
      BY <2>1, <2>3
    <3>2. Holds(docs, uri, text)
      BY <1>4, <3>1 DEF Saw
    <3> QED BY <2>3, <3>2 DEF Served
  <2> QED BY <2>2, <2>3
<1> QED BY <1>5, <1>6 DEF Saw

\* A message sent later changes nothing for the ones before.
LEMMA SawBefore ==
  ASSUME NEW in, IsList(in), NEW m, NEW docs, NEW uri, NEW text,
         NEW k \in 1 .. (Len(in) + 1), Saw(docs, in, k, uri, text)
  PROVE  Saw(docs, Append(in, m), k, uri, text)
<1>1. Len(in) \in Nat /\ \A i \in 1 .. Len(in) : Append(in, m)[i] = in[i]
  BY Appended
<1>2. \A i \in 1 .. (k - 1) : Append(in, m)[i] = in[i]
  BY <1>1
<1> QED BY <1>2 DEF Saw

\* After a message the editor has the text it has sent, or what it had.
LEMMA SawAfter ==
  ASSUME NEW in, IsList(in), NEW m, NEW docs, NEW uri, NEW text,
         Saw(docs, in, Len(in) + 1, uri, text)
  PROVE  Saw(docs, Append(in, m), Len(in) + 2, uri,
             IF Edits(m, uri) THEN TextOf(m) ELSE text)
<1>. DEFINE n == Len(in)
            out == Append(in, m)
<1>1. n \in Nat /\ (\A i \in 1 .. n : out[i] = in[i]) /\ out[n + 1] = m
  BY Appended
<1>2. /\ (n + 2) - 1 = n + 1 /\ (n + 1) - 1 = n /\ n + 1 \in 1 .. (n + 1)
      /\ \A i \in 1 .. (n + 1) : i \in 1 .. n \/ i = n + 1
      /\ \A i \in 1 .. n : i \in 1 .. (n + 1) /\ i < n + 1 /\ ~ (n + 1 < i)
      /\ ~ (n + 1 < n + 1)
  BY <1>1
<1>. HIDE DEF n, out
<1>3. CASE Edits(m, uri)
  <2>1. ASSUME NEW i \in 1 .. (n + 1), Edits(out[i], uri),
               \A j \in 1 .. (n + 1) : i < j => ~ Edits(out[j], uri)
        PROVE  TextOf(out[i]) = TextOf(m)
    <3>1. i = n + 1
      BY <1>1, <1>2, <1>3, <2>1
    <3> QED BY <1>1, <3>1
  <2>2. \E i \in 1 .. (n + 1) : Edits(out[i], uri)
    BY <1>1, <1>2, <1>3
  <2>3. Saw(docs, out, n + 2, uri, TextOf(m))
    BY <1>2, <2>1, <2>2 DEF Saw
  <2> QED BY <1>3, <2>3 DEF n, out
<1>4. CASE ~ Edits(m, uri)
  <2>1. Saw(docs, in, n + 1, uri, text)
    BY DEF n
  <2>2. ASSUME NEW i \in 1 .. (n + 1), Edits(out[i], uri),
               \A j \in 1 .. (n + 1) : i < j => ~ Edits(out[j], uri)
        PROVE  TextOf(out[i]) = text
    <3>1. i \in 1 .. n
      BY <1>1, <1>2, <1>4, <2>2
    <3>2. Edits(in[i], uri) /\ \A j \in 1 .. n : i < j => ~ Edits(in[j], uri)
      BY <1>1, <1>2, <2>2, <3>1
    <3>3. TextOf(in[i]) = text
      BY <1>2, <2>1, <3>1, <3>2 DEF Saw
    <3> QED BY <1>1, <3>1, <3>3
  <2>3. ASSUME \A i \in 1 .. (n + 1) : ~ Edits(out[i], uri)
        PROVE  Holds(docs, uri, text)
    <3>1. \A i \in 1 .. n : ~ Edits(in[i], uri)
      BY <1>1, <1>2, <2>3
    <3> QED BY <1>2, <2>1, <3>1 DEF Saw
  <2>4. Saw(docs, out, n + 2, uri, text)
    BY <1>2, <2>2, <2>3 DEF Saw
  <2> QED BY <1>4, <2>4 DEF n, out
<1> QED BY <1>3, <1>4

-----------------------------------------------------------------------------
(* The documents.                                                          *)

LEMMA InitStore == Init => StoreInv
<1> SUFFICES ASSUME Init PROVE StoreInv
  OBVIOUS
<1>1. IsList(<< >>) /\ Len(<< >>) = 0 /\ DOMAIN << >> = {}
  BY EmptyList
<1>2. StoreOK(<< >>)
  BY <1>1 DEF StoreOK
<1>3. \A uri \in Uris : Saw(documents, stdin, Len(stdin) + 1, uri, buffers[uri])
  <2> SUFFICES ASSUME NEW uri \in Uris PROVE Saw(<< >>, << >>, 1, uri, NONE)
    BY <1>1 DEF Init
  <2> QED BY <1>1 DEF Saw, Holds
<1> QED BY <1>1, <1>2, <1>3 DEF StoreInv, Init

\* The server takes a message and serves it.
LEMMA TakeKeeps ==
  ASSUME StoreInv, stdin # << >>, stdin' = Tail(stdin), buffers' = buffers,
         StoreOK(documents'), Served(documents, Head(stdin), documents')
  PROVE  StoreInv'
<1>. DEFINE n == Len(stdin)
<1>1. /\ IsList(stdin) /\ n \in Nat /\ n >= 1 /\ DOMAIN stdin = 1 .. n
      /\ Head(stdin) = stdin[1] /\ IsList(stdin') /\ Len(stdin') = n - 1
      /\ DOMAIN stdin' = 1 .. (n - 1)
      /\ \A i \in 1 .. (n - 1) : stdin'[i] = stdin[i + 1]
  BY Rest DEF StoreInv
<1>2. \A k \in 1 .. n : \A uri \in Uris : \A t :
        Saw(documents, stdin, k + 1, uri, t) => Saw(documents', stdin', k, uri, t)
  BY <1>1, SawTaken
<1>. HIDE DEF n
<1>3. ASSUME NEW k \in DOMAIN stdin'
      PROVE  WellSent(stdin'[k]) /\ Saved(documents', stdin', k)
  <2>1. k \in 1 .. n /\ k + 1 \in DOMAIN stdin /\ stdin'[k] = stdin[k + 1]
    BY <1>1
  <2>2. WellSent(stdin[k + 1]) /\ Saved(documents, stdin, k + 1)
    BY <2>1 DEF StoreInv
  <2>3. Saved(documents', stdin', k)
    <3> SUFFICES ASSUME stdin'[k].method = "didSave"
                 PROVE  \E t \in Texts : stdin'[k].text \in {t, NONE}
                          /\ Saw(documents', stdin', k, stdin'[k].uri, t)
      BY DEF Saved
    <3>1. PICK t \in Texts : stdin[k + 1].text \in {t, NONE}
                             /\ Saw(documents, stdin, k + 1, stdin[k + 1].uri, t)
      BY <2>1, <2>2 DEF Saved
    <3>2. stdin[k + 1].uri \in Uris
      BY <2>1, <2>2 DEF WellSent
    <3> QED BY <1>2, <2>1, <3>1, <3>2
  <2> QED BY <2>1, <2>2, <2>3
<1>4. \A uri \in Uris : Saw(documents', stdin', Len(stdin') + 1, uri, buffers'[uri])
  <2>1. n \in 1 .. n /\ Len(stdin') + 1 = n
    BY <1>1
  <2>2. \A uri \in Uris : Saw(documents, stdin, n + 1, uri, buffers[uri])
    BY DEF StoreInv, n
  <2> QED BY <1>2, <2>1, <2>2
<1> QED BY <1>1, <1>3, <1>4 DEF StoreInv

\* The editor sends a message.
LEMMA SendKeeps ==
  ASSUME StoreInv, NEW m, stdin' = Append(stdin, m), documents' = documents,
         buffers' \in [Uris -> Texts \cup {NONE}],
         \A uri \in Uris : buffers'[uri] = IF Edits(m, uri) THEN TextOf(m) ELSE buffers[uri],
         WellSent(m),
         m.method = "didSave" => buffers[m.uri] \in Texts /\ m.text \in {buffers[m.uri], NONE}
  PROVE  StoreInv'
<1>. DEFINE n == Len(stdin)
<1>1. /\ IsList(stdin) /\ n \in Nat /\ DOMAIN stdin = 1 .. n
      /\ IsList(stdin') /\ Len(stdin') = n + 1
      /\ DOMAIN stdin' = 1 .. (n + 1)
      /\ \A i \in 1 .. n : stdin'[i] = stdin[i]
      /\ stdin'[n + 1] = m
  BY Appended DEF StoreInv
<1>2. \A k \in 1 .. (n + 1) : \A uri, t :
        Saw(documents, stdin, k, uri, t) => Saw(documents, stdin', k, uri, t)
  BY <1>1, SawBefore
<1>3. \A uri \in Uris : Saw(documents, stdin, n + 1, uri, buffers[uri])
  BY DEF StoreInv
<1>4. \A uri \in Uris : Saw(documents, stdin', n + 2, uri, buffers'[uri])
  BY <1>1, <1>3, SawAfter
<1>. HIDE DEF n
<1>5. ASSUME NEW k \in DOMAIN stdin'
      PROVE  WellSent(stdin'[k]) /\ Saved(documents, stdin', k)
  <2>1. CASE k \in 1 .. n
    <3>1. WellSent(stdin[k]) /\ Saved(documents, stdin, k)
      BY <1>1, <2>1 DEF StoreInv
    <3>2. stdin'[k] = stdin[k] /\ k \in 1 .. (n + 1)
      BY <1>1, <2>1
    <3> QED BY <1>2, <3>1, <3>2 DEF Saved
  <2>2. CASE k = n + 1
    <3>1. stdin'[k] = m /\ k \in 1 .. (n + 1)
      BY <1>1, <2>2
    <3>2. m.method = "didSave" => m.uri \in Uris
      BY DEF WellSent
    <3> QED BY <1>2, <1>3, <2>2, <3>1, <3>2 DEF Saved
  <2> QED BY <1>1, <2>1, <2>2
<1>6. (n + 1) + 1 = n + 2
  BY <1>1
<1> QED BY <1>1, <1>4, <1>5, <1>6 DEF StoreInv

\* The messages that do nothing to the documents.
LEMMA ReadKeeps ==
  ASSUME StoreInv, HandleInitialize \/ HandleOther \/ HandleShutdown \/ HandleExit \/ HandleLookup
  PROVE  StoreInv'
<1>1. /\ stdin # << >> /\ stdin' = Tail(stdin)
      /\ buffers' = buffers /\ documents' = documents
      /\ Head(stdin).method \in Queries \cup {"initialize", "initialized", "shutdown", "exit"}
  BY DEF HandleInitialize, HandleOther, HandleShutdown, HandleExit, HandleLookup, Reads,
     server, editor
<1>2. \A uri \in Uris : ~ Edits(Head(stdin), uri)
  BY <1>1 DEF Edits, Queries
<1>3. Served(documents, Head(stdin), documents') /\ StoreOK(documents')
  BY <1>1, <1>2 DEF Served, StoreInv
<1> QED BY <1>1, <1>3, TakeKeeps

\* What the editor had when it sent the message served next.
LEMMA SavedFirst ==
  ASSUME StoreInv, stdin # << >>, Head(stdin).method = "didSave"
  PROVE  \E t \in Texts : Head(stdin).text \in {t, NONE}
                          /\ Holds(documents, Head(stdin).uri, t)
<1>1. 1 \in DOMAIN stdin /\ Head(stdin) = stdin[1]
  BY Rest DEF StoreInv
<1>2. PICK t \in Texts : stdin[1].text \in {t, NONE}
                         /\ Saw(documents, stdin, 1, stdin[1].uri, t)
  BY <1>1 DEF StoreInv, Saved
<1>3. Holds(documents, stdin[1].uri, t)
  BY <1>2 DEF Saw
<1> QED BY <1>1, <1>2, <1>3

\* handle_did_save: the text of the message, or the stored one, is the text
\* of the document.
LEMMA SaveIs ==
  ASSUME StoreInv, HandleDidSave
  PROVE  \E t \in Texts :
           /\ Head(stdin).uri \in Uris
           /\ Holds(documents, Head(stdin).uri, t)
           /\ StoreOK(documents')
           /\ \A u, v : Holds(documents, u, v) => Holds(documents', u, v)
           /\ PublishDiagnostics(Head(stdin).uri, Compiled[t].diags)
<1>. DEFINE m == Head(stdin)
            i == FindDocument(documents, m.uri)
            text == IF m.text = NONE /\ i # 0 THEN documents[i].text ELSE m.text
<1>1. /\ stdin # << >> /\ m.method = "didSave" /\ StoreOK(documents)
      /\ text # NONE =>
           /\ documents' = Validated(documents, m.uri, text)
           /\ PublishDiagnostics(m.uri, Compiled[text].diags)
  BY DEF HandleDidSave, Reads, StoreInv
<1>2. PICK t \in Texts : m.text \in {t, NONE} /\ Holds(documents, m.uri, t)
  BY <1>1, SavedFirst
<1>3. t # NONE
  BY LspAssumption
<1>4. Pending(documents, m.uri) /\ IsList(documents)
  BY <1>1, StoreIsPending DEF StoreOK
<1>5. i \in DOMAIN documents /\ i # 0 /\ documents[i].uri = m.uri
  BY <1>2, <1>3, <1>4, FindIs DEF Holds
<1>6. documents[i].text # NONE
  BY <1>1, <1>5, LspAssumption DEF StoreOK, DocOK, Stores
<1>7. m.uri \in Uris
  BY <1>1, <1>5 DEF StoreOK, DocOK, Stores
<1>. HIDE DEF m, i
<1>8. documents[i].text = t
  <2>1. Holds(documents, m.uri, documents[i].text)
    BY <1>5, <1>6 DEF Holds
  <2> QED BY <1>2, <1>4, <2>1, OneText
<1>9. text = t
  BY <1>2, <1>3, <1>5, <1>8
<1>. HIDE DEF text
<1>10. /\ documents' = Validated(documents, m.uri, t)
       /\ PublishDiagnostics(m.uri, Compiled[t].diags)
  BY <1>1, <1>3, <1>9
<1>11. /\ StoreOK(documents')
       /\ \A u, v : Holds(documents, u, v) => Holds(documents', u, v)
  BY <1>2, <1>4, <1>10, ValidatedIs
<1> QED BY <1>2, <1>7, <1>10, <1>11 DEF m

\* Each handler serves its message.
LEMMA HandlersServe ==
  ASSUME StoreInv,
         HandleDidOpenOrChange \/ HandleDidSave \/ HandleDidClose \/ HandleSemanticTokens
  PROVE  /\ stdin # << >> /\ stdin' = Tail(stdin) /\ buffers' = buffers
         /\ StoreOK(documents') /\ Served(documents, Head(stdin), documents')
<1>. DEFINE m == Head(stdin)
<1>1. /\ stdin # << >> /\ stdin' = Tail(stdin) /\ buffers' = buffers
      /\ StoreOK(documents)
  BY DEF StoreInv, HandleDidOpenOrChange, HandleDidSave, HandleDidClose,
     HandleSemanticTokens, Reads, server, editor
<1>2. WellSent(m)
  <2>1. 1 \in DOMAIN stdin /\ Head(stdin) = stdin[1]
    BY <1>1, Rest DEF StoreInv
  <2> QED BY <2>1 DEF StoreInv
<1>3. CASE HandleDidOpenOrChange
  <2>1. /\ m.method \in {"didOpen", "didChange"}
        /\ documents' = Validated(UpsertDocument(documents, m.uri, m.text), m.uri, m.text)
    BY <1>3 DEF HandleDidOpenOrChange, Reads
  <2>2. m.uri \in Uris /\ m.text \in Texts
    BY <1>2, <2>1 DEF WellSent
  <2>. HIDE DEF m
  <2>3. /\ StoreOK(documents') /\ Holds(documents', m.uri, m.text)
        /\ \A u, t : u # m.uri /\ Holds(documents, u, t) => Holds(documents', u, t)
    BY <1>1, <2>1, <2>2, UpsertIs, ValidatedIs
  <2>4. Served(documents, m, documents')
    BY <2>1, <2>3 DEF Served, Edits, TextOf
  <2> QED BY <1>1, <2>3, <2>4 DEF m
<1>4. CASE HandleDidClose
  <2>1. m.method = "didClose" /\ documents' = RemoveDocument(documents, m.uri)
    BY <1>4 DEF HandleDidClose, Reads
  <2>. HIDE DEF m
  <2>2. /\ StoreOK(documents') /\ Holds(documents', m.uri, NONE)
        /\ \A u, t : u # m.uri /\ Holds(documents, u, t) => Holds(documents', u, t)
    BY <1>1, <2>1, RemoveIs
  <2>3. Served(documents, m, documents')
    BY <2>1, <2>2 DEF Served, Edits, TextOf
  <2> QED BY <1>1, <2>2, <2>3 DEF m
<1>5. CASE HandleDidSave
  <2>1. m.method = "didSave"
    BY <1>5 DEF HandleDidSave, Reads
  <2>2. /\ StoreOK(documents')
        /\ \A u, v : Holds(documents, u, v) => Holds(documents', u, v)
    BY <1>5, SaveIs
  <2>. HIDE DEF m
  <2>3. Served(documents, m, documents')
    BY <2>1, <2>2 DEF Served, Edits
  <2> QED BY <1>1, <2>2, <2>3 DEF m
<1>6. CASE HandleSemanticTokens
  <2>. DEFINE i == FindDocument(documents, m.uri)
              new == [documents EXCEPT ![i].tokens = SortTokens(documents[i].tokens)]
  <2>1. /\ m.method = "semanticTokens"
        /\ documents' = IF i = 0 THEN documents ELSE new
    BY <1>6 DEF HandleSemanticTokens, Reads
  <2>2. i = 0 \/ i \in DOMAIN documents
    BY <1>1, FindIs DEF StoreOK
  <2>3. i # 0 => StoreOK(new) /\ \A u, t : Holds(documents, u, t) => Holds(new, u, t)
    BY <1>1, <2>2, SortedStore
  <2>. HIDE DEF new
  <2>4. /\ StoreOK(documents')
        /\ \A u, v : Holds(documents, u, v) => Holds(documents', u, v)
    BY <1>1, <2>1, <2>3
  <2>5. Served(documents, m, documents')
    BY <2>1, <2>4 DEF Served, Edits
  <2> QED BY <1>1, <2>4, <2>5
<1> QED BY <1>3, <1>4, <1>5, <1>6

\* What the editor sends.
LEMMA EditorKeeps ==
  ASSUME StoreInv, EditorStep
  PROVE  StoreInv'
<1>1. buffers \in [Uris -> Texts \cup {NONE}]
  BY DEF StoreInv
<1>2. CASE Receive
  BY <1>2 DEF Receive, server, StoreInv
<1>3. CASE Start \/ Initialized \/ Shutdown \/ Exit \/ (Die /\ stdin' # stdin)
  <2>1. PICK m : /\ m.method \in {"initialize", "initialized", "shutdown", "exit", "truncated"}
                 /\ stdin' = Append(stdin, m)
    BY <1>3 DEF Start, Initialized, Shutdown, Exit, Die, Send
  <2>2. buffers' = buffers /\ documents' = documents
    BY <1>3 DEF Start, Initialized, Shutdown, Exit, Die, server
  <2>3. WellSent(m) /\ m.method # "didSave" /\ \A uri \in Uris : ~ Edits(m, uri)
    BY <2>1 DEF WellSent, Edits
  <2> QED BY <1>1, <2>1, <2>2, <2>3, SendKeeps
<1>4. CASE Die /\ stdin' = stdin
  BY <1>4 DEF Die, server, StoreInv
<1>5. ASSUME NEW uri \in Uris, NEW text \in Texts, Open(uri, text) \/ Change(uri, text)
      PROVE  StoreInv'
  <2>1. PICK m : /\ m.method \in {"didOpen", "didChange"} /\ m.uri = uri /\ m.text = text
                 /\ stdin' = Append(stdin, m)
    <3>1. Open(uri, text) =>
            stdin' = Append(stdin, [method |-> "didOpen", uri |-> uri, text |-> text])
      BY DEF Open, Send
    <3>2. Change(uri, text) =>
            stdin' = Append(stdin, [method |-> "didChange", uri |-> uri, text |-> text])
      BY DEF Change, Send
    <3> QED BY <1>5, <3>1, <3>2
  <2>2. buffers' = [buffers EXCEPT ![uri] = text] /\ documents' = documents
    BY <1>5 DEF Open, Change, server
  <2>3. WellSent(m) /\ m.method # "didSave"
    BY <2>1 DEF WellSent
  <2>4. \A u \in Uris : buffers'[u] = IF Edits(m, u) THEN TextOf(m) ELSE buffers[u]
    BY <1>1, <2>1, <2>2 DEF Edits, TextOf
  <2>5. buffers' \in [Uris -> Texts \cup {NONE}]
    BY <1>1, <2>2
  <2> QED BY <2>1, <2>2, <2>3, <2>4, <2>5, SendKeeps
<1>6. ASSUME NEW uri \in Uris, NEW text \in {buffers[uri], NONE}, Save(uri, text)
      PROVE  StoreInv'
  <2>. DEFINE m == [method |-> "didSave", uri |-> uri, text |-> text]
  <2>1. stdin' = Append(stdin, m) /\ buffers' = buffers /\ documents' = documents
        /\ buffers[uri] # NONE
    BY <1>6 DEF Save, Send, server
  <2>2. m.method = "didSave" /\ m.uri = uri /\ m.text = text
    OBVIOUS
  <2>. HIDE DEF m
  <2>3. WellSent(m) /\ \A u \in Uris : ~ Edits(m, u)
    BY <2>2 DEF WellSent, Edits
  <2>4. buffers[m.uri] \in Texts /\ m.text \in {buffers[m.uri], NONE}
    BY <1>1, <2>1, <2>2
  <2> QED BY <1>1, <2>1, <2>3, <2>4, SendKeeps
<1>7. ASSUME NEW uri \in Uris, Close(uri)
      PROVE  StoreInv'
  <2>. DEFINE m == [method |-> "didClose", uri |-> uri]
  <2>1. /\ stdin' = Append(stdin, m) /\ documents' = documents
        /\ buffers' = [buffers EXCEPT ![uri] = NONE]
    BY <1>7 DEF Close, Send, server
  <2>2. m.method = "didClose" /\ m.uri = uri
    OBVIOUS
  <2>. HIDE DEF m
  <2>3. WellSent(m) /\ m.method # "didSave"
    BY <2>2 DEF WellSent
  <2>4. \A u \in Uris : buffers'[u] = IF Edits(m, u) THEN TextOf(m) ELSE buffers[u]
    BY <1>1, <2>1, <2>2 DEF Edits, TextOf
  <2>5. buffers' \in [Uris -> Texts \cup {NONE}]
    BY <1>1, <2>1
  <2> QED BY <2>1, <2>3, <2>4, <2>5, SendKeeps
<1>8. ASSUME NEW method \in Queries, NEW uri \in Uris, NEW line, Ask(method, uri, line)
      PROVE  StoreInv'
  <2>. DEFINE m == [method |-> method, uri |-> uri, line |-> line, id |-> sent + 1]
  <2>1. stdin' = Append(stdin, m) /\ buffers' = buffers /\ documents' = documents
    BY <1>8 DEF Ask, Send, server
  <2>2. m.method \in Queries
    OBVIOUS
  <2>. HIDE DEF m
  <2>3. WellSent(m) /\ m.method # "didSave" /\ \A u \in Uris : ~ Edits(m, u)
    BY <2>2 DEF WellSent, Edits, Queries
  <2> QED BY <1>1, <2>1, <2>3, SendKeeps
<1>9. \A method \in Positional : method \in Queries
  BY DEF Positional, Queries
<1> QED BY <1>2, <1>3, <1>4, <1>5, <1>6, <1>7, <1>8, <1>9 DEF EditorStep

LEMMA NextStore == StoreInv /\ [Next]_vars => StoreInv'
<1> SUFFICES ASSUME StoreInv, [Next]_vars PROVE StoreInv'
  OBVIOUS
<1>1. CASE UNCHANGED vars
  BY <1>1 DEF vars, server, editor, StoreInv
<1>2. CASE EditorStep
  BY <1>2, EditorKeeps
<1>3. CASE HandleDidOpenOrChange \/ HandleDidSave \/ HandleDidClose \/ HandleSemanticTokens
  BY <1>3, HandlersServe, TakeKeeps
<1>4. CASE HandleInitialize \/ HandleOther \/ HandleShutdown \/ HandleExit \/ HandleLookup
  BY <1>4, ReadKeeps
<1>5. CASE EndOfInput \/ BrokenPipe
  BY <1>5 DEF EndOfInput, BrokenPipe, editor, StoreInv
<1> QED BY <1>1, <1>2, <1>3, <1>4, <1>5 DEF Next, ServerStep

LEMMA StoreHolds == Spec => []StoreInv
BY InitStore, NextStore, PTL DEF Spec

\* upsert_document, remove_document and validate_document, served in the
\* order of the pipe: a server that has read everything has the documents
\* open in the editor, with their text, and what is derived from that text.
THEOREM DocumentsCurrentHolds == Spec => []DocumentsCurrent
<1>1. ASSUME StoreInv PROVE DocumentsCurrent
  <2> SUFFICES ASSUME stdin = << >>, NEW uri \in Uris
               PROVE  LET held == {i \in DOMAIN documents : documents[i].uri = uri}
                          now == Compiled[buffers[uri]]
                      IN IF buffers[uri] = NONE THEN held = {}
                         ELSE \E i \in DOMAIN documents :
                                /\ held = {i} /\ documents[i].text = buffers[uri]
                                /\ documents[i].symbols = now.symbols
                                /\ Rearranged(documents[i].tokens, now.tokens)
    BY DEF DocumentsCurrent
  <2>1. Len(stdin) + 1 = 1
    BY EmptyList
  <2>2. Saw(documents, stdin, 1, uri, buffers[uri])
    BY <1>1, <2>1 DEF StoreInv
  <2>3. Holds(documents, uri, buffers[uri])
    BY <2>2 DEF Saw
  <2>4. CASE buffers[uri] = NONE
    BY <2>3, <2>4 DEF Holds
  <2>5. CASE buffers[uri] # NONE
    <3>1. PICK i \in DOMAIN documents :
            documents[i].uri = uri /\ documents[i].text = buffers[uri]
      BY <2>3, <2>5 DEF Holds
    <3>2. \A j \in DOMAIN documents : documents[j].uri = uri => j = i
      BY <1>1, <3>1 DEF StoreInv, StoreOK
    <3>3. {j \in DOMAIN documents : documents[j].uri = uri} = {i}
      BY <3>1, <3>2
    <3>4. DocOK(documents[i])
      BY <1>1 DEF StoreInv, StoreOK
    <3>5. /\ documents[i].symbols = Compiled[buffers[uri]].symbols
          /\ Rearranged(documents[i].tokens, Compiled[buffers[uri]].tokens)
      BY <3>1, <3>4 DEF DocOK
    <3> QED BY <2>5, <3>1, <3>3, <3>5
  <2> QED BY <2>4, <2>5
<1> QED BY <1>1, StoreHolds, PTL

-----------------------------------------------------------------------------
(* The diagnostics.                                                        *)

LEMMA InitShown == Init => ShownInv
<1> SUFFICES ASSUME Init PROVE ShownInv
  OBVIOUS
<1>1. IsList(<< >>) /\ DOMAIN << >> = {}
  BY EmptyList
<1>2. \A uri \in Uris : \A text : Holds(<< >>, uri, text) => DiagsOf(text) = {}
  BY <1>1 DEF Holds, DiagsOf
<1>3. \A uri \in Uris : Shows(<< >>, shown, uri, {})
  BY <1>1 DEF Shows, Init
<1>4. shown \in [Uris -> SUBSET Passes]
  BY DEF Init
<1> QED BY <1>1, <1>2, <1>3, <1>4 DEF ShownInv, Init

\* Every URI has a text in the store, or NONE.
LEMMA SomeText ==
  ASSUME NEW docs, StoreOK(docs), NEW uri
  PROVE  \E t \in Texts \cup {NONE} : Holds(docs, uri, t)
<1>1. CASE \A i \in DOMAIN docs : docs[i].uri # uri
  BY <1>1 DEF Holds
<1>2. CASE \E i \in DOMAIN docs : docs[i].uri = uri
  <2>1. PICK i \in DOMAIN docs : docs[i].uri = uri
    BY <1>2
  <2>2. docs[i].text \in Texts /\ docs[i].text # NONE
    BY LspAssumption DEF StoreOK, DocOK, Stores
  <2> QED BY <2>1, <2>2 DEF Holds
<1> QED BY <1>1, <1>2

\* What is written last about a URI is what will be shown.
LEMMA ShowsWritten ==
  ASSUME NEW out, IsList(out), NEW now, NEW m, NEW uri, NEW diags,
         About(m, uri) => m.diags = diags,
         ~ About(m, uri) => Shows(out, now, uri, diags)
  PROVE  Shows(Append(out, m), now, uri, diags)
<1>. DEFINE n == Len(out)
            new == Append(out, m)
<1>1. /\ n \in Nat /\ DOMAIN out = 1 .. n /\ DOMAIN new = 1 .. (n + 1)
      /\ (\A i \in 1 .. n : new[i] = out[i]) /\ new[n + 1] = m
  BY Appended
<1>2. /\ n + 1 \in 1 .. (n + 1)
      /\ \A i \in 1 .. (n + 1) : i \in 1 .. n \/ i = n + 1
      /\ \A i \in 1 .. n : i \in 1 .. (n + 1) /\ i < n + 1
  BY <1>1
<1>. HIDE DEF n, new
<1>3. ASSUME NEW i \in 1 .. (n + 1), About(new[i], uri),
             \A j \in 1 .. (n + 1) : i < j => ~ About(new[j], uri)
      PROVE  new[i].diags = diags
  <2>1. CASE About(m, uri)
    BY <1>1, <1>2, <1>3, <2>1
  <2>2. CASE ~ About(m, uri)
    <3>1. i \in 1 .. n
      BY <1>1, <1>2, <1>3, <2>2
    <3>2. About(out[i], uri) /\ \A j \in 1 .. n : i < j => ~ About(out[j], uri)
      BY <1>1, <1>2, <1>3, <3>1
    <3>3. out[i].diags = diags
      BY <1>1, <2>2, <3>1, <3>2 DEF Shows
    <3> QED BY <1>1, <3>1, <3>3
  <2> QED BY <2>1, <2>2
<1>4. ASSUME \A i \in 1 .. (n + 1) : ~ About(new[i], uri)
      PROVE  now[uri] = diags
  <2>1. ~ About(m, uri) /\ \A i \in 1 .. n : ~ About(out[i], uri)
    BY <1>1, <1>2, <1>4
  <2> QED BY <1>1, <2>1 DEF Shows
<1> QED BY <1>1, <1>3, <1>4 DEF Shows, new

\* The editor shows what it takes.
LEMMA ShowsTaken ==
  ASSUME NEW out, IsList(out), out # << >>, NEW now, NEW later, NEW uri, NEW diags,
         later[uri] = IF About(out[1], uri) THEN out[1].diags ELSE now[uri],
         Shows(out, now, uri, diags)
  PROVE  Shows(Tail(out), later, uri, diags)
<1>. DEFINE n == Len(out)
            new == Tail(out)
<1>1. /\ n \in Nat /\ n >= 1 /\ DOMAIN out = 1 .. n /\ DOMAIN new = 1 .. (n - 1)
      /\ \A i \in 1 .. (n - 1) : new[i] = out[i + 1]
  BY Rest
<1>2. /\ \A i \in 1 .. (n - 1) : i + 1 \in 1 .. n
      /\ 1 \in 1 .. n
  BY <1>1
<1>3. \A i \in 1 .. n : 1 < i => i - 1 \in 1 .. (n - 1) /\ new[i - 1] = out[i]
  <2> SUFFICES ASSUME NEW i \in 1 .. n, 1 < i
               PROVE  i - 1 \in 1 .. (n - 1) /\ new[i - 1] = out[i]
    OBVIOUS
  <2>1. i - 1 \in 1 .. (n - 1) /\ (i - 1) + 1 = i
    BY <1>1
  <2> QED BY <1>1, <2>1
<1>. HIDE DEF n, new
<1>4. ASSUME NEW i \in 1 .. (n - 1), About(new[i], uri),
             \A j \in 1 .. (n - 1) : i < j => ~ About(new[j], uri)
      PROVE  new[i].diags = diags
  <2>1. \A j \in 1 .. n : i + 1 < j => ~ About(out[j], uri)
    <3> SUFFICES ASSUME NEW j \in 1 .. n, i + 1 < j PROVE ~ About(out[j], uri)
      OBVIOUS
    <3>1. 1 < j /\ i < j - 1
      BY <1>1
    <3> QED BY <1>3, <1>4, <3>1
  <2>2. i + 1 \in 1 .. n /\ About(out[i + 1], uri)
    BY <1>1, <1>2, <1>4
  <2>3. out[i + 1].diags = diags
    BY <1>1, <2>1, <2>2 DEF Shows
  <2> QED BY <1>1, <2>3
<1>5. ASSUME \A i \in 1 .. (n - 1) : ~ About(new[i], uri)
      PROVE  later[uri] = diags
  <2>1. \A j \in 1 .. n : 1 < j => ~ About(out[j], uri)
    BY <1>3, <1>5
  <2>2. CASE About(out[1], uri)
    BY <1>1, <1>2, <2>1, <2>2 DEF Shows
  <2>3. CASE ~ About(out[1], uri)
    <3>1. \A j \in 1 .. n : ~ About(out[j], uri)
      <4> SUFFICES ASSUME NEW j \in 1 .. n, j # 1 PROVE ~ About(out[j], uri)
        BY <2>3
      <4>1. 1 < j
        BY <1>1
      <4> QED BY <2>1, <4>1
    <3> QED BY <1>1, <2>3, <3>1 DEF Shows
  <2> QED BY <2>2, <2>3
<1> QED BY <1>1, <1>4, <1>5 DEF Shows, new

\* The server changes the text of no document, and writes at most a response.
LEMMA QuietShown ==
  ASSUME ShownInv, StoreOK(documents), StoreOK(documents'),
         \A u, t : Holds(documents, u, t) => Holds(documents', u, t),
         shown' = shown, phase' = phase,
         stdout' = stdout \/ \E id, answer : SendResponse(id, answer)
  PROVE  ShownInv'
<1>1. \/ stdout' = stdout
      \/ \E m : m.kind = "response" /\ stdout' = Append(stdout, m)
  BY DEF SendResponse, Write
<1>2. IsList(stdout) /\ IsList(stdout')
  <2>1. IsList(stdout)
    BY DEF ShownInv
  <2>2. \A m : IsList(Append(stdout, m))
    BY <2>1, Appended
  <2> QED BY <1>1, <2>1, <2>2
<1>3. \A uri, diags : Shows(stdout, shown, uri, diags) => Shows(stdout', shown, uri, diags)
  <2> SUFFICES ASSUME NEW uri, NEW diags, Shows(stdout, shown, uri, diags), stdout' # stdout
               PROVE  Shows(stdout', shown, uri, diags)
    BY <1>1
  <2>1. PICK m : m.kind = "response" /\ stdout' = Append(stdout, m)
    BY <1>1
  <2>2. ~ About(m, uri)
    BY <2>1 DEF About
  <2> QED BY <1>2, <2>1, <2>2, ShowsWritten
<1>4. \A i \in DOMAIN stdout' :
        /\ stdout'[i].kind \in {"diagnostics", "response"}
        /\ stdout'[i].kind = "diagnostics" =>
             stdout'[i].uri \in Uris /\ stdout'[i].diags \in SUBSET Passes
  <2>1. CASE stdout' = stdout
    BY <2>1 DEF ShownInv
  <2>2. CASE stdout' # stdout
    <3>1. PICK m : m.kind = "response" /\ stdout' = Append(stdout, m)
      BY <1>1, <2>2
    <3>2. \A i \in DOMAIN stdout' : (i \in DOMAIN stdout /\ stdout'[i] = stdout[i])
                                      \/ stdout'[i] = m
      <4>1. /\ Len(stdout) \in Nat /\ DOMAIN stdout = 1 .. Len(stdout)
            /\ DOMAIN stdout' = 1 .. (Len(stdout) + 1)
            /\ \A i \in 1 .. Len(stdout) : stdout'[i] = stdout[i]
            /\ stdout'[Len(stdout) + 1] = m
        BY <1>2, <3>1, Appended
      <4>2. \A i \in 1 .. (Len(stdout) + 1) : i \in 1 .. Len(stdout) \/ i = Len(stdout) + 1
        BY <4>1
      <4> QED BY <4>1, <4>2
    <3> QED BY <3>1, <3>2 DEF ShownInv
  <2> QED BY <2>1, <2>2
<1>5. ASSUME phase # "gone", NEW uri \in Uris, NEW text \in Texts \cup {NONE},
             Holds(documents', uri, text)
      PROVE  Shows(stdout', shown, uri, DiagsOf(text))
  <2>1. PICK t \in Texts \cup {NONE} : Holds(documents, uri, t)
    BY SomeText
  <2>2. Holds(documents', uri, t) /\ Pending(documents', uri)
    BY <2>1, StoreIsPending
  <2>3. t = text
    BY <1>5, <2>2, OneText
  <2>4. Shows(stdout, shown, uri, DiagsOf(text))
    BY <1>5, <2>1, <2>3 DEF ShownInv
  <2> QED BY <1>3, <2>4
<1> QED BY <1>2, <1>4, <1>5 DEF ShownInv

\* publish_diagnostics of the text that a URI has after the message.
LEMMA PublishShown ==
  ASSUME ShownInv, StoreOK(documents), StoreOK(documents'),
         NEW uri \in Uris, NEW text \in Texts \cup {NONE},
         Holds(documents', uri, text),
         \A u, t : u # uri /\ Holds(documents, u, t) => Holds(documents', u, t),
         shown' = shown, phase' = phase,
         PublishDiagnostics(uri, DiagsOf(text))
  PROVE  ShownInv'
<1>. DEFINE m == [kind |-> "diagnostics", uri |-> uri, diags |-> DiagsOf(text)]
<1>1. IF phase = "gone" THEN stdout' = stdout ELSE stdout' = Append(stdout, m)
  BY DEF PublishDiagnostics, Write
<1>2. m.kind = "diagnostics" /\ m.uri = uri /\ m.diags = DiagsOf(text)
  OBVIOUS
<1>3. DiagsOf(text) \in SUBSET Passes
  BY CompiledIs DEF DiagsOf
<1>. HIDE DEF m
<1>4. CASE phase = "gone"
  BY <1>1, <1>4 DEF ShownInv
<1>5. CASE phase # "gone"
  <2>1. IsList(stdout) /\ IsList(stdout') /\ stdout' = Append(stdout, m)
    <3>1. IsList(stdout)
      BY DEF ShownInv
    <3>2. IsList(Append(stdout, m))
      BY <3>1, Appended
    <3> QED BY <1>1, <1>5, <3>1, <3>2
  <2>2. \A i \in DOMAIN stdout' : (i \in DOMAIN stdout /\ stdout'[i] = stdout[i])
                                    \/ stdout'[i] = m
    <3>1. /\ Len(stdout) \in Nat /\ DOMAIN stdout = 1 .. Len(stdout)
          /\ DOMAIN stdout' = 1 .. (Len(stdout) + 1)
          /\ \A i \in 1 .. Len(stdout) : stdout'[i] = stdout[i]
          /\ stdout'[Len(stdout) + 1] = m
      BY <2>1, Appended
    <3>2. \A i \in 1 .. (Len(stdout) + 1) : i \in 1 .. Len(stdout) \/ i = Len(stdout) + 1
      BY <3>1
    <3> QED BY <3>1, <3>2
  <2>3. \A i \in DOMAIN stdout' :
          /\ stdout'[i].kind \in {"diagnostics", "response"}
          /\ stdout'[i].kind = "diagnostics" =>
               stdout'[i].uri \in Uris /\ stdout'[i].diags \in SUBSET Passes
    BY <1>2, <1>3, <2>2 DEF ShownInv
  <2>4. ASSUME NEW u \in Uris, NEW t \in Texts \cup {NONE}, Holds(documents', u, t)
        PROVE  Shows(stdout', shown, u, DiagsOf(t))
    <3>1. CASE u = uri
      <4>1. t = text
        <5>1. Pending(documents', uri)
          BY StoreIsPending
        <5> QED BY <2>4, <3>1, <5>1, OneText
      <4>2. About(m, u)
        BY <1>2, <3>1 DEF About
      <4> QED BY <1>2, <2>1, <4>1, <4>2, ShowsWritten
    <3>2. CASE u # uri
      <4>1. PICK v \in Texts \cup {NONE} : Holds(documents, u, v)
        BY SomeText
      <4>2. Holds(documents', u, v) /\ Pending(documents', u)
        BY <3>2, <4>1, StoreIsPending
      <4>3. v = t
        BY <2>4, <4>2, OneText
      <4>4. Shows(stdout, shown, u, DiagsOf(t))
        BY <1>5, <4>1, <4>3 DEF ShownInv
      <4>5. ~ About(m, u)
        BY <1>2, <3>2 DEF About
      <4> QED BY <2>1, <4>4, <4>5, ShowsWritten
    <3> QED BY <3>1, <3>2
  <2> QED BY <2>1, <2>3, <2>4 DEF ShownInv
<1> QED BY <1>4, <1>5

LEMMA ServerShown ==
  ASSUME StoreInv, StoreInv', ShownInv, ServerStep
  PROVE  ShownInv'
<1>1. /\ StoreOK(documents) /\ StoreOK(documents')
      /\ stdin # << >> => WellSent(Head(stdin))
  <2>1. stdin # << >> => 1 \in DOMAIN stdin /\ Head(stdin) = stdin[1]
    BY Rest DEF StoreInv
  <2> QED BY <2>1 DEF StoreInv
<1>2. shown' = shown /\ phase' = phase
  BY DEF ServerStep, HandleInitialize, HandleOther, HandleShutdown, HandleExit,
     HandleDidOpenOrChange, HandleDidSave, HandleDidClose, HandleLookup,
     HandleSemanticTokens, EndOfInput, BrokenPipe, editor
<1>3. CASE HandleOther \/ HandleExit \/ EndOfInput \/ BrokenPipe
  <2>1. stdout' = stdout /\ documents' = documents
    BY <1>3 DEF HandleOther, HandleExit, EndOfInput, BrokenPipe, server
  <2> QED BY <1>1, <1>2, <2>1, QuietShown
<1>4. CASE HandleInitialize \/ HandleShutdown
  <2>1. documents' = documents /\ \E id, answer : SendResponse(id, answer)
    BY <1>4 DEF HandleInitialize, HandleShutdown, server
  <2> QED BY <1>1, <1>2, <2>1, QuietShown
<1>5. CASE HandleLookup
  <2>1. documents' = documents
    BY <1>5 DEF HandleLookup, server
  <2>2. \E id, answer : SendResponse(id, answer)
    BY <1>5 DEF HandleLookup
  <2> QED BY <1>1, <1>2, <2>1, <2>2, QuietShown
<1>6. CASE HandleSemanticTokens
  <2>1. \E id, answer : SendResponse(id, answer)
    BY <1>6 DEF HandleSemanticTokens
  <2>2. \A u, t : Holds(documents, u, t) => Holds(documents', u, t)
    <3>. DEFINE i == FindDocument(documents, Head(stdin).uri)
                new == [documents EXCEPT ![i].tokens = SortTokens(documents[i].tokens)]
    <3>1. documents' = IF i = 0 THEN documents ELSE new
      BY <1>6 DEF HandleSemanticTokens
    <3>2. i = 0 \/ i \in DOMAIN documents
      BY <1>1, FindIs DEF StoreOK
    <3>3. i # 0 => \A u, t : Holds(documents, u, t) => Holds(new, u, t)
      BY <1>1, <3>2, SortedStore
    <3>. HIDE DEF new
    <3> QED BY <3>1, <3>3
  <2> QED BY <1>1, <1>2, <2>1, <2>2, QuietShown
<1>7. CASE HandleDidOpenOrChange
  <2>. DEFINE m == Head(stdin)
  <2>1. /\ m.uri \in Uris /\ m.text \in Texts
        /\ documents' = Validated(UpsertDocument(documents, m.uri, m.text), m.uri, m.text)
        /\ PublishDiagnostics(m.uri, Compiled[m.text].diags)
    BY <1>1, <1>7 DEF HandleDidOpenOrChange, Reads, WellSent
  <2>. HIDE DEF m
  <2>2. /\ Holds(documents', m.uri, m.text)
        /\ \A u, t : u # m.uri /\ Holds(documents, u, t) => Holds(documents', u, t)
    BY <1>1, <2>1, UpsertIs, ValidatedIs
  <2>3. DiagsOf(m.text) = Compiled[m.text].diags
    BY <2>1, LspAssumption DEF DiagsOf
  <2> QED BY <1>1, <1>2, <2>1, <2>2, <2>3, PublishShown
<1>8. CASE HandleDidSave
  <2>1. PICK t \in Texts :
          /\ Head(stdin).uri \in Uris
          /\ Holds(documents, Head(stdin).uri, t)
          /\ \A u, v : Holds(documents, u, v) => Holds(documents', u, v)
          /\ PublishDiagnostics(Head(stdin).uri, Compiled[t].diags)
    BY <1>8, SaveIs
  <2>2. DiagsOf(t) = Compiled[t].diags
    BY LspAssumption DEF DiagsOf
  <2> QED BY <1>1, <1>2, <2>1, <2>2, PublishShown
<1>9. CASE HandleDidClose
  <2>. DEFINE m == Head(stdin)
  <2>1. /\ m.uri \in Uris /\ documents' = RemoveDocument(documents, m.uri)
        /\ PublishDiagnostics(m.uri, {})
    BY <1>1, <1>9 DEF HandleDidClose, Reads, WellSent
  <2>. HIDE DEF m
  <2>2. /\ Holds(documents', m.uri, NONE)
        /\ \A u, t : u # m.uri /\ Holds(documents, u, t) => Holds(documents', u, t)
    BY <1>1, <2>1, RemoveIs
  <2>3. DiagsOf(NONE) = {}
    BY DEF DiagsOf
  <2> QED BY <1>1, <1>2, <2>1, <2>2, <2>3, PublishShown
<1> QED BY <1>3, <1>4, <1>5, <1>6, <1>7, <1>8, <1>9 DEF ServerStep

LEMMA EditorShown ==
  ASSUME StoreInv, ShownInv, EditorStep
  PROVE  ShownInv'
<1>1. documents' = documents
  BY DEF EditorStep, Start, Initialized, Shutdown, Exit, Die, Receive, Open, Change, Save,
     Close, Ask, server
<1>2. CASE Die
  <2>1. stdout' = << >> /\ phase' = "gone" /\ shown' = shown
    BY <1>2 DEF Die
  <2> QED BY <2>1, EmptyList DEF ShownInv
<1>3. CASE Receive
  <2>1. /\ IsList(stdout) /\ stdout # << >> /\ stdout' = Tail(stdout)
        /\ phase # "gone"
    BY <1>3 DEF Receive, ShownInv
  <2>2. /\ Head(stdout) = stdout[1] /\ 1 \in DOMAIN stdout
        /\ IsList(stdout')
        /\ \A i \in DOMAIN stdout' : i + 1 \in DOMAIN stdout /\ stdout'[i] = stdout[i + 1]
    <3>1. /\ Head(stdout) = stdout[1] /\ IsList(Tail(stdout))
          /\ Len(stdout) \in Nat /\ Len(stdout) >= 1 /\ DOMAIN stdout = 1 .. Len(stdout)
          /\ DOMAIN Tail(stdout) = 1 .. (Len(stdout) - 1)
          /\ \A i \in 1 .. (Len(stdout) - 1) : Tail(stdout)[i] = stdout[i + 1]
      BY <2>1, Rest
    <3>2. 1 \in 1 .. Len(stdout) /\ \A i \in 1 .. (Len(stdout) - 1) : i + 1 \in 1 .. Len(stdout)
      BY <3>1
    <3> QED BY <2>1, <3>1, <3>2
  <2>3. \/ /\ stdout[1].kind = "diagnostics"
           /\ shown' = [shown EXCEPT ![stdout[1].uri] = stdout[1].diags]
        \/ stdout[1].kind = "response" /\ shown' = shown
    BY <1>3, <2>2 DEF Receive
  <2>4. /\ shown \in [Uris -> SUBSET Passes]
        /\ stdout[1].kind = "diagnostics" =>
             stdout[1].uri \in Uris /\ stdout[1].diags \in SUBSET Passes
    BY <2>2 DEF ShownInv
  <2>5. shown' \in [Uris -> SUBSET Passes]
    BY <2>3, <2>4
  <2>6. \A uri \in Uris :
          shown'[uri] = IF About(stdout[1], uri) THEN stdout[1].diags ELSE shown[uri]
    BY <2>3, <2>4 DEF About
  <2>7. \A uri \in Uris : \A diags :
          Shows(stdout, shown, uri, diags) => Shows(stdout', shown', uri, diags)
    BY <2>1, <2>6, ShowsTaken
  <2>8. \A i \in DOMAIN stdout' :
          /\ stdout'[i].kind \in {"diagnostics", "response"}
          /\ stdout'[i].kind = "diagnostics" =>
               stdout'[i].uri \in Uris /\ stdout'[i].diags \in SUBSET Passes
    BY <2>2 DEF ShownInv
  <2> QED BY <1>1, <2>1, <2>2, <2>5, <2>7, <2>8 DEF ShownInv
<1>4. CASE /\ stdout' = stdout /\ shown' = shown /\ phase # "gone" /\ phase' # "gone"
  BY <1>1, <1>4 DEF ShownInv
<1>5. EditorStep => Die \/ Receive
        \/ (stdout' = stdout /\ shown' = shown /\ phase # "gone" /\ phase' # "gone")
  BY DEF EditorStep, Start, Initialized, Shutdown, Exit, Open, Change, Save, Close, Ask,
     MaySend
<1> QED BY <1>2, <1>3, <1>4, <1>5

LEMMA NextShown == StoreInv /\ StoreInv' /\ ShownInv /\ [Next]_vars => ShownInv'
<1>1. UNCHANGED vars /\ ShownInv => ShownInv'
  BY DEF vars, server, editor, ShownInv
<1> QED BY <1>1, ServerShown, EditorShown DEF Next

LEMMA ShownHolds == Spec => []ShownInv
BY InitShown, NextShown, StoreHolds, PTL DEF Spec

\* publish_diagnostics: when the server has read everything and the editor
\* too, it shows the diagnostics of the texts that are open and no others.
THEOREM DiagnosticsCurrentHolds == Spec => []DiagnosticsCurrent
<1>1. ASSUME StoreInv, ShownInv PROVE DiagnosticsCurrent
  <2> SUFFICES ASSUME phase # "gone", stdin = << >>, stdout = << >>, NEW uri \in Uris
               PROVE  shown[uri] = DiagsOf(buffers[uri])
    BY DEF DiagnosticsCurrent, Alive, DiagsOf
  <2>1. Len(stdin) + 1 = 1 /\ DOMAIN stdout = {}
    BY EmptyList
  <2>2. Saw(documents, stdin, 1, uri, buffers[uri])
    BY <1>1, <2>1 DEF StoreInv
  <2>3. Holds(documents, uri, buffers[uri])
    BY <2>2 DEF Saw
  <2>4. buffers[uri] \in Texts \cup {NONE}
    BY <1>1 DEF StoreInv
  <2>5. Shows(stdout, shown, uri, DiagsOf(buffers[uri]))
    BY <1>1, <2>3, <2>4 DEF ShownInv
  <2> QED BY <2>1, <2>5 DEF Shows
<1> QED BY <1>1, StoreHolds, ShownHolds, PTL

-----------------------------------------------------------------------------
(* The requests and their answers.                                         *)

LEMMA InitAnswer == Init => AnswerInv
<1> SUFFICES ASSUME Init PROVE AnswerInv
  OBVIOUS
<1>1. DOMAIN << >> = {}
  BY EmptyList
<1>2. Underway(documents, stdin, stdout, pending, phase, sent)
  BY <1>1 DEF Init, Underway
<1>3. sent \in 0 .. MAX_SENT
  BY LspAssumption DEF Init
<1> QED BY <1>2, <1>3 DEF Init, AnswerInv

\* The server takes the first message off the pipe and serves it.
LEMMA UnderwayTaken ==
  ASSUME NEW docs, NEW new, NEW in, IsList(in), in # << >>, NEW out, NEW waiting,
         NEW ph, NEW n, Underway(docs, in, out, waiting, ph, n), Served(docs, in[1], new)
  PROVE  Underway(new, Tail(in), out, waiting, ph, n)
<1>. DEFINE rest == Tail(in)
            l == Len(in)
<1>1. /\ l \in Nat /\ l >= 1 /\ DOMAIN in = 1 .. l /\ DOMAIN rest = 1 .. (l - 1)
      /\ \A i \in 1 .. (l - 1) : rest[i] = in[i + 1]
  BY Rest
<1>2. \A k \in 1 .. l : \A uri \in Uris : \A t :
        Saw(docs, in, k + 1, uri, t) => Saw(new, rest, k, uri, t)
  BY SawTaken
<1>3. /\ \A k \in 1 .. (l - 1) : k \in 1 .. l /\ k + 1 \in 1 .. l
      /\ \A j, k \in 1 .. (l - 1) : j + 1 = k + 1 => j = k
  BY <1>1
<1>. HIDE DEF rest, l
<1>4. ASSUME NEW k \in 1 .. (l - 1), NEW p, Asked(docs, in, k + 1, p)
      PROVE  Asked(new, rest, k, p)
  BY <1>1, <1>2, <1>3, <1>4 DEF Asked
<1>5. ASSUME NEW k \in 1 .. (l - 1), IsRequest(rest[k])
      PROVE  /\ Numbered(rest[k].id, ph, n)
             /\ \E p \in waiting : Asked(new, rest, k, p)
             /\ \A j \in 1 .. (l - 1) :
                  IsRequest(rest[j]) /\ rest[j].id = rest[k].id => j = k
             /\ \A i \in DOMAIN out : IsResponse(out[i]) => out[i].id # rest[k].id
  <2>1. k + 1 \in DOMAIN in /\ rest[k] = in[k + 1] /\ IsRequest(in[k + 1])
    BY <1>1, <1>3, <1>5
  <2>2. /\ Numbered(in[k + 1].id, ph, n)
        /\ \E p \in waiting : Asked(docs, in, k + 1, p)
        /\ \A j \in DOMAIN in : IsRequest(in[j]) /\ in[j].id = in[k + 1].id => j = k + 1
        /\ \A i \in DOMAIN out : IsResponse(out[i]) => out[i].id # in[k + 1].id
    BY <2>1 DEF Underway
  <2>3. \A j \in 1 .. (l - 1) : IsRequest(rest[j]) /\ rest[j].id = rest[k].id => j = k
    BY <1>1, <1>3, <2>1, <2>2
  <2> QED BY <1>4, <2>1, <2>2, <2>3
<1>6. \A i \in DOMAIN out : IsResponse(out[i]) =>
        /\ Numbered(out[i].id, ph, n)
        /\ \E p \in waiting : p.id = out[i].id /\ Answered(p, out[i].answer)
        /\ \A j \in DOMAIN out : IsResponse(out[j]) /\ out[j].id = out[i].id => j = i
  BY DEF Underway
<1>7. DOMAIN rest = 1 .. (l - 1)
  BY <1>1
<1>8. Underway(new, rest, out, waiting, ph, n)
  BY <1>5, <1>6, <1>7 DEF Underway
<1> QED BY <1>8 DEF rest

\* The server writes a message; the number of a response is no longer on its way
\* as a request, and was not as a response.
LEMMA UnderwayWritten ==
  ASSUME NEW docs, NEW in, NEW out, IsList(out), NEW waiting, NEW ph, NEW n,
         Underway(docs, in, out, waiting, ph, n), NEW m,
         IsResponse(m) =>
           /\ Numbered(m.id, ph, n)
           /\ \E p \in waiting : p.id = m.id /\ Answered(p, m.answer)
           /\ \A k \in DOMAIN in : IsRequest(in[k]) => in[k].id # m.id
           /\ \A i \in DOMAIN out : IsResponse(out[i]) => out[i].id # m.id
  PROVE  Underway(docs, in, Append(out, m), waiting, ph, n)
<1>. DEFINE new == Append(out, m)
            l == Len(out)
<1>1. /\ l \in Nat /\ DOMAIN out = 1 .. l /\ DOMAIN new = 1 .. (l + 1)
      /\ (\A i \in 1 .. l : new[i] = out[i]) /\ new[l + 1] = m
  BY Appended
<1>2. \A i \in 1 .. (l + 1) : i \in 1 .. l \/ i = l + 1
  BY <1>1
<1>. HIDE DEF new, l
<1>3. \A i \in DOMAIN new : (i \in DOMAIN out /\ new[i] = out[i]) \/ (i = l + 1 /\ new[i] = m)
  BY <1>1, <1>2
<1>4. ASSUME NEW k \in DOMAIN in, IsRequest(in[k])
      PROVE  /\ Numbered(in[k].id, ph, n)
             /\ \E p \in waiting : Asked(docs, in, k, p)
             /\ \A j \in DOMAIN in : IsRequest(in[j]) /\ in[j].id = in[k].id => j = k
             /\ \A i \in DOMAIN new : IsResponse(new[i]) => new[i].id # in[k].id
  <2>1. /\ Numbered(in[k].id, ph, n)
        /\ \E p \in waiting : Asked(docs, in, k, p)
        /\ \A j \in DOMAIN in : IsRequest(in[j]) /\ in[j].id = in[k].id => j = k
        /\ \A i \in DOMAIN out : IsResponse(out[i]) => out[i].id # in[k].id
    BY <1>4 DEF Underway
  <2> QED BY <1>3, <1>4, <2>1
<1>5. ASSUME NEW i \in DOMAIN new, IsResponse(new[i])
      PROVE  /\ Numbered(new[i].id, ph, n)
             /\ \E p \in waiting : p.id = new[i].id /\ Answered(p, new[i].answer)
             /\ \A j \in DOMAIN new : IsResponse(new[j]) /\ new[j].id = new[i].id => j = i
  <2>1. \A j \in DOMAIN out : IsResponse(out[j]) =>
          /\ Numbered(out[j].id, ph, n)
          /\ \E p \in waiting : p.id = out[j].id /\ Answered(p, out[j].answer)
          /\ \A k \in DOMAIN out : IsResponse(out[k]) /\ out[k].id = out[j].id => k = j
    BY DEF Underway
  <2>2. CASE i \in DOMAIN out /\ new[i] = out[i]
    BY <1>3, <1>5, <2>1, <2>2
  <2>3. CASE i = l + 1 /\ new[i] = m
    BY <1>3, <1>5, <2>3
  <2> QED BY <1>3, <2>2, <2>3
<1>6. Underway(docs, in, new, waiting, ph, n)
  BY <1>4, <1>5 DEF Underway
<1> QED BY <1>6 DEF new

\* The editor sends a message; the number of a request is a new one.
LEMMA UnderwaySent ==
  ASSUME NEW docs, NEW in, IsList(in), NEW out, NEW waiting, NEW ph, NEW n,
         Underway(docs, in, out, waiting, ph, n), NEW m,
         NEW more, waiting \subseteq more, NEW next, NEW o,
         \A id : Numbered(id, ph, n) => Numbered(id, next, o),
         IsRequest(m) =>
           /\ Numbered(m.id, next, o) /\ ~ Numbered(m.id, ph, n)
           /\ \E p \in more : Asked(docs, Append(in, m), Len(in) + 1, p)
  PROVE  Underway(docs, Append(in, m), out, more, next, o)
<1>. DEFINE new == Append(in, m)
            l == Len(in)
<1>1. /\ l \in Nat /\ DOMAIN in = 1 .. l /\ DOMAIN new = 1 .. (l + 1)
      /\ (\A i \in 1 .. l : new[i] = in[i]) /\ new[l + 1] = m
  BY Appended
<1>2. \A k \in 1 .. (l + 1) : \A uri, t : Saw(docs, in, k, uri, t) => Saw(docs, new, k, uri, t)
  BY SawBefore
<1>3. IsRequest(m) => \E p \in more : Asked(docs, new, l + 1, p)
  OBVIOUS
<1>4. \A k \in 1 .. (l + 1) : k \in 1 .. l \/ k = l + 1
  BY <1>1
<1>5. \A k \in 1 .. l : k \in 1 .. (l + 1)
  BY <1>1
<1>. HIDE DEF new, l
<1>6. \A k \in DOMAIN new : (k \in DOMAIN in /\ new[k] = in[k]) \/ (k = l + 1 /\ new[k] = m)
  BY <1>1, <1>4
<1>7. \A k \in DOMAIN in : \A p : Asked(docs, in, k, p) => Asked(docs, new, k, p)
  BY <1>1, <1>2, <1>5 DEF Asked
<1>8. \A k \in DOMAIN in : IsRequest(in[k]) =>
        /\ Numbered(in[k].id, ph, n)
        /\ \E p \in waiting : Asked(docs, in, k, p)
        /\ \A j \in DOMAIN in : IsRequest(in[j]) /\ in[j].id = in[k].id => j = k
        /\ \A i \in DOMAIN out : IsResponse(out[i]) => out[i].id # in[k].id
  BY DEF Underway
<1>9. \A i \in DOMAIN out : IsResponse(out[i]) =>
        /\ Numbered(out[i].id, ph, n)
        /\ \E p \in waiting : p.id = out[i].id /\ Answered(p, out[i].answer)
        /\ \A j \in DOMAIN out : IsResponse(out[j]) /\ out[j].id = out[i].id => j = i
  BY DEF Underway
<1>10. ASSUME NEW k \in DOMAIN new, IsRequest(new[k])
       PROVE  /\ Numbered(new[k].id, next, o)
              /\ \E p \in more : Asked(docs, new, k, p)
              /\ \A j \in DOMAIN new : IsRequest(new[j]) /\ new[j].id = new[k].id => j = k
              /\ \A i \in DOMAIN out : IsResponse(out[i]) => out[i].id # new[k].id
  <2>1. CASE k \in DOMAIN in /\ new[k] = in[k]
    <3>1. /\ Numbered(in[k].id, ph, n)
          /\ \E p \in waiting : Asked(docs, in, k, p)
          /\ \A j \in DOMAIN in : IsRequest(in[j]) /\ in[j].id = in[k].id => j = k
          /\ \A i \in DOMAIN out : IsResponse(out[i]) => out[i].id # in[k].id
      BY <1>8, <1>10, <2>1
    <3>2. \E p \in more : Asked(docs, new, k, p)
      BY <1>7, <2>1, <3>1
    <3>3. \A j \in DOMAIN new : IsRequest(new[j]) /\ new[j].id = new[k].id => j = k
      BY <1>6, <2>1, <3>1
    <3> QED BY <2>1, <3>1, <3>2, <3>3
  <2>2. CASE k = l + 1 /\ new[k] = m
    <3>1. IsRequest(m) /\ Numbered(m.id, next, o) /\ ~ Numbered(m.id, ph, n)
      BY <1>10, <2>2
    <3>2. \E p \in more : Asked(docs, new, k, p)
      BY <1>3, <2>2, <3>1
    <3>3. \A j \in DOMAIN new : IsRequest(new[j]) /\ new[j].id = new[k].id => j = k
      BY <1>6, <1>8, <2>2, <3>1
    <3>4. \A i \in DOMAIN out : IsResponse(out[i]) => out[i].id # m.id
      BY <1>9, <3>1
    <3> QED BY <2>2, <3>1, <3>2, <3>3, <3>4
  <2> QED BY <1>6, <2>1, <2>2
<1>11. \A i \in DOMAIN out : IsResponse(out[i]) =>
         /\ Numbered(out[i].id, next, o)
         /\ \E p \in more : p.id = out[i].id /\ Answered(p, out[i].answer)
         /\ \A j \in DOMAIN out : IsResponse(out[j]) /\ out[j].id = out[i].id => j = i
  BY <1>9
<1>12. Underway(docs, new, out, more, next, o)
  BY <1>10, <1>11 DEF Underway
<1> QED BY <1>12 DEF new

\* The editor takes a message; the request that a response answers is done.
LEMMA UnderwayReceived ==
  ASSUME NEW docs, NEW in, NEW out, IsList(out), out # << >>, NEW waiting, NEW ph, NEW n,
         Underway(docs, in, out, waiting, ph, n), NEW left, NEW next,
         IF IsResponse(out[1])
         THEN /\ left = {p \in waiting : p.id # out[1].id}
              /\ \A id : id # out[1].id /\ Numbered(id, ph, n) => Numbered(id, next, n)
         ELSE left = waiting /\ next = ph
  PROVE  Underway(docs, in, Tail(out), left, next, n)
<1>. DEFINE new == Tail(out)
            l == Len(out)
<1>1. /\ l \in Nat /\ l >= 1 /\ DOMAIN out = 1 .. l /\ DOMAIN new = 1 .. (l - 1)
      /\ \A i \in 1 .. (l - 1) : new[i] = out[i + 1]
  BY Rest
<1>2. /\ \A i \in 1 .. (l - 1) : i + 1 \in 1 .. l /\ i + 1 # 1
      /\ \A i, j \in 1 .. (l - 1) : i + 1 = j + 1 => i = j
      /\ 1 \in 1 .. l
  BY <1>1
<1>. HIDE DEF new, l
<1>3. /\ \A i \in DOMAIN new : i + 1 \in DOMAIN out /\ i + 1 # 1 /\ new[i] = out[i + 1]
      /\ \A i, j \in DOMAIN new : i + 1 = j + 1 => i = j
      /\ 1 \in DOMAIN out
  BY <1>1, <1>2
<1>4. \A k \in DOMAIN in : IsRequest(in[k]) =>
        /\ Numbered(in[k].id, ph, n)
        /\ \E p \in waiting : Asked(docs, in, k, p)
        /\ \A j \in DOMAIN in : IsRequest(in[j]) /\ in[j].id = in[k].id => j = k
        /\ \A i \in DOMAIN out : IsResponse(out[i]) => out[i].id # in[k].id
  BY DEF Underway
<1>5. \A i \in DOMAIN out : IsResponse(out[i]) =>
        /\ Numbered(out[i].id, ph, n)
        /\ \E p \in waiting : p.id = out[i].id /\ Answered(p, out[i].answer)
        /\ \A j \in DOMAIN out : IsResponse(out[j]) /\ out[j].id = out[i].id => j = i
  BY DEF Underway
<1>6. ASSUME NEW id, Numbered(id, ph, n), IsResponse(out[1]) => out[1].id # id
      PROVE  Numbered(id, next, n) /\ \A p \in waiting : p.id = id => p \in left
  BY <1>6
<1>7. ASSUME NEW k \in DOMAIN in, IsRequest(in[k])
      PROVE  /\ Numbered(in[k].id, next, n)
             /\ \E p \in left : Asked(docs, in, k, p)
             /\ \A j \in DOMAIN in : IsRequest(in[j]) /\ in[j].id = in[k].id => j = k
             /\ \A i \in DOMAIN new : IsResponse(new[i]) => new[i].id # in[k].id
  <2>1. Numbered(in[k].id, next, n) /\ \A p \in waiting : p.id = in[k].id => p \in left
    BY <1>3, <1>4, <1>6, <1>7
  <2>2. \E p \in left : Asked(docs, in, k, p)
    <3>1. \A p : Asked(docs, in, k, p) => p.id = in[k].id
      BY DEF Asked
    <3> QED BY <1>4, <1>7, <2>1, <3>1
  <2>3. \A i \in DOMAIN new : IsResponse(new[i]) => new[i].id # in[k].id
    BY <1>3, <1>4, <1>7
  <2> QED BY <1>4, <1>7, <2>1, <2>2, <2>3
<1>8. ASSUME NEW i \in DOMAIN new, IsResponse(new[i])
      PROVE  /\ Numbered(new[i].id, next, n)
             /\ \E p \in left : p.id = new[i].id /\ Answered(p, new[i].answer)
             /\ \A j \in DOMAIN new : IsResponse(new[j]) /\ new[j].id = new[i].id => j = i
  <2>1. i + 1 \in DOMAIN out /\ i + 1 # 1 /\ new[i] = out[i + 1]
    BY <1>3
  <2>2. /\ Numbered(new[i].id, ph, n)
        /\ \E p \in waiting : p.id = new[i].id /\ Answered(p, new[i].answer)
        /\ \A j \in DOMAIN out : IsResponse(out[j]) /\ out[j].id = new[i].id => j = i + 1
    BY <1>5, <1>8, <2>1
  <2>3. IsResponse(out[1]) => out[1].id # new[i].id
    BY <1>3, <2>1, <2>2
  <2>4. Numbered(new[i].id, next, n) /\ \A p \in waiting : p.id = new[i].id => p \in left
    BY <1>6, <2>2, <2>3
  <2>5. \A j \in DOMAIN new : IsResponse(new[j]) /\ new[j].id = new[i].id => j = i
    BY <1>3, <2>2
  <2> QED BY <2>2, <2>4, <2>5
<1>9. Underway(docs, in, new, left, next, n)
  BY <1>7, <1>8 DEF Underway
<1> QED BY <1>9 DEF new

\* What the server finds for a question is the text that the editor had.
LEMMA FoundIs ==
  ASSUME StoreInv, stdin # << >>, NEW p, Asked(documents, stdin, 1, p), p.method \in Queries
  PROVE  LET i == FindDocument(documents, Head(stdin).uri)
         IN  /\ p.line = Head(stdin).line
             /\ \/ i = 0 /\ p.text = NONE
                \/ /\ i # 0 /\ p.text # NONE
                   /\ documents[i] \in Stores /\ DocOK(documents[i])
                   /\ documents[i].text = p.text
<1>. DEFINE uri == Head(stdin).uri
            i == FindDocument(documents, uri)
<1>1. Head(stdin) = stdin[1] /\ StoreOK(documents) /\ IsList(documents)
  BY Rest DEF StoreInv, StoreOK
<1>2. uri \in Uris /\ p.line = Head(stdin).line /\ Saw(documents, stdin, 1, uri, p.text)
  BY <1>1 DEF Asked
<1>3. Holds(documents, uri, p.text)
  BY <1>2 DEF Saw
<1>4. \/ i = 0 /\ \A j \in DOMAIN documents : documents[j].uri # uri
      \/ i \in DOMAIN documents /\ i # 0 /\ documents[i].uri = uri
  BY <1>1, FindIs
<1>. HIDE DEF i, uri
<1>5. CASE i = 0 /\ \A j \in DOMAIN documents : documents[j].uri # uri
  BY <1>2, <1>3, <1>5 DEF Holds, i, uri
<1>6. CASE i \in DOMAIN documents /\ i # 0 /\ documents[i].uri = uri
  <2>1. documents[i] \in Stores /\ DocOK(documents[i]) /\ documents[i].text # NONE
    BY <1>1, <1>6, LspAssumption DEF StoreOK, DocOK, Stores
  <2>2. p.text # NONE
    BY <1>3, <1>6 DEF Holds
  <2>3. documents[i].text = p.text
    BY <1>1, <1>3, <1>6, <2>2 DEF Holds, StoreOK
  <2> QED BY <1>2, <1>6, <2>1, <2>2, <2>3 DEF i, uri
<1> QED BY <1>4, <1>5, <1>6

\* The answer to a question.
LEMMA AnswerIs ==
  ASSUME StoreInv, stdin # << >>, NEW answer,
         LET m == Head(stdin)
             i == FindDocument(documents, m.uri)
         IN  answer = IF i = 0 THEN Unknown(m.method) ELSE Computed(m, documents[i]),
         NEW p, Asked(documents, stdin, 1, p), p.method \in Queries
  PROVE  Answered(p, answer)
<1>. DEFINE m == Head(stdin)
            i == FindDocument(documents, m.uri)
<1>1. Head(stdin) = stdin[1]
  BY Rest DEF StoreInv
<1>2. p.method = m.method
  BY <1>1 DEF Asked
<1>3. /\ p.line = m.line
      /\ \/ i = 0 /\ p.text = NONE
         \/ /\ i # 0 /\ p.text # NONE
            /\ documents[i] \in Stores /\ DocOK(documents[i])
            /\ documents[i].text = p.text
  BY FoundIs
<1>4. answer = IF i = 0 THEN Unknown(m.method) ELSE Computed(m, documents[i])
  OBVIOUS
<1>. HIDE DEF i, m
<1>5. Computed(m, documents[i]) = Computed(p, documents[i])
  BY <1>2, <1>3 DEF Computed
<1>6. p.method # "initialize" /\ p.method # "shutdown"
  BY DEF Queries
<1> QED BY <1>2, <1>3, <1>4, <1>5, <1>6 DEF Answered

\* A handler serves the first message and writes its answer, if it is a request,
\* or something that is no response.
LEMMA ServeAnswer ==
  ASSUME StoreInv, IsList(stdout), AnswerInv,
         stdin # << >>, stdin' = Tail(stdin), Served(documents, Head(stdin), documents'),
         phase' = phase, pending' = pending, sent' = sent,
         phase = "gone" => stdout' = stdout,
         phase # "gone" =>
           IF IsRequest(Head(stdin))
           THEN \E m : /\ stdout' = Append(stdout, m)
                       /\ m.id = Head(stdin).id
                       /\ \A p : Asked(documents, stdin, 1, p) => Answered(p, m.answer)
           ELSE stdout' = stdout \/ \E m : stdout' = Append(stdout, m) /\ ~ IsResponse(m)
  PROVE  AnswerInv'
<1>1. CASE phase = "gone"
  BY <1>1 DEF AnswerInv
<1>2. CASE phase # "gone"
  <2>1. /\ IsList(stdin) /\ Head(stdin) = stdin[1] /\ 1 \in DOMAIN stdin
        /\ Len(stdin) \in Nat /\ DOMAIN Tail(stdin) = 1 .. (Len(stdin) - 1)
        /\ DOMAIN stdin = 1 .. Len(stdin)
        /\ \A k \in 1 .. (Len(stdin) - 1) : Tail(stdin)[k] = stdin[k + 1]
    BY Rest DEF StoreInv
  <2>2. Underway(documents, stdin, stdout, pending, phase, sent)
    BY <1>2 DEF AnswerInv
  <2>3. Underway(documents', Tail(stdin), stdout, pending, phase, sent)
    BY <2>1, <2>2, UnderwayTaken
  <2>4. Underway(documents', Tail(stdin), stdout', pending, phase, sent)
    <3>1. CASE IsRequest(Head(stdin))
      <4>1. PICK m : /\ stdout' = Append(stdout, m)
                     /\ m.id = stdin[1].id
                     /\ \A p : Asked(documents, stdin, 1, p) => Answered(p, m.answer)
        BY <1>2, <2>1, <3>1
      <4>2. /\ Numbered(stdin[1].id, phase, sent)
            /\ \E p \in pending : Asked(documents, stdin, 1, p)
            /\ \A j \in DOMAIN stdin :
                 IsRequest(stdin[j]) /\ stdin[j].id = stdin[1].id => j = 1
            /\ \A i \in DOMAIN stdout : IsResponse(stdout[i]) => stdout[i].id # stdin[1].id
        BY <2>1, <2>2, <3>1 DEF Underway
      <4>3. \E p \in pending : p.id = m.id /\ Answered(p, m.answer)
        BY <4>1, <4>2 DEF Asked
      <4>4. \A k \in DOMAIN Tail(stdin) :
              IsRequest(Tail(stdin)[k]) => Tail(stdin)[k].id # m.id
        <5> SUFFICES ASSUME NEW k \in 1 .. (Len(stdin) - 1), IsRequest(stdin[k + 1])
                     PROVE  stdin[k + 1].id # m.id
          BY <2>1
        <5>1. k + 1 \in DOMAIN stdin /\ k + 1 # 1
          BY <2>1
        <5> QED BY <4>1, <4>2, <5>1
      <4> QED BY <2>3, <4>1, <4>2, <4>3, <4>4, UnderwayWritten
    <3>2. CASE ~ IsRequest(Head(stdin)) /\ stdout' # stdout
      <4>1. PICK m : stdout' = Append(stdout, m) /\ ~ IsResponse(m)
        BY <1>2, <3>2
      <4> QED BY <2>3, <4>1, UnderwayWritten
    <3>3. CASE ~ IsRequest(Head(stdin)) /\ stdout' = stdout
      BY <2>3, <3>3
    <3> QED BY <3>1, <3>2, <3>3
  <2> QED BY <1>2, <2>4 DEF AnswerInv
<1> QED BY <1>1, <1>2

\* What is written.
LEMMA WriteIs ==
  /\ \A id, answer : SendResponse(id, answer) =>
       /\ phase = "gone" => stdout' = stdout
       /\ phase # "gone" => \E m : /\ stdout' = Append(stdout, m) /\ IsResponse(m)
                                   /\ m.id = id /\ m.answer = answer
  /\ \A uri, diags : PublishDiagnostics(uri, diags) =>
       /\ phase = "gone" => stdout' = stdout
       /\ phase # "gone" => \E m : stdout' = Append(stdout, m) /\ ~ IsResponse(m)
<1>1. ASSUME NEW id, NEW answer, SendResponse(id, answer), phase # "gone"
      PROVE  \E m : /\ stdout' = Append(stdout, m) /\ IsResponse(m)
                    /\ m.id = id /\ m.answer = answer
  <2>. DEFINE m == [kind |-> "response", id |-> id, answer |-> answer]
  <2>1. stdout' = Append(stdout, m)
    BY <1>1 DEF SendResponse, Write
  <2>2. IsResponse(m) /\ m.id = id /\ m.answer = answer
    BY DEF IsResponse
  <2> QED BY <2>1, <2>2
<1>2. ASSUME NEW uri, NEW diags, PublishDiagnostics(uri, diags), phase # "gone"
      PROVE  \E m : stdout' = Append(stdout, m) /\ ~ IsResponse(m)
  <2>. DEFINE m == [kind |-> "diagnostics", uri |-> uri, diags |-> diags]
  <2>1. stdout' = Append(stdout, m)
    BY <1>2 DEF PublishDiagnostics, Write
  <2>2. ~ IsResponse(m)
    BY DEF IsResponse
  <2> QED BY <2>1, <2>2
<1>3. /\ \A id, answer : SendResponse(id, answer) /\ phase = "gone" => stdout' = stdout
      /\ \A uri, diags : PublishDiagnostics(uri, diags) /\ phase = "gone" => stdout' = stdout
  BY DEF SendResponse, PublishDiagnostics, Write
<1> QED BY <1>1, <1>2, <1>3

\* The questions.
LEMMA QuestionAnswer ==
  ASSUME StoreInv, IsList(stdout), AnswerInv, HandleLookup \/ HandleSemanticTokens
  PROVE  AnswerInv'
<1>. DEFINE m == Head(stdin)
            i == FindDocument(documents, m.uri)
            answer == IF i = 0 THEN Unknown(m.method) ELSE Computed(m, documents[i])
<1>1. /\ stdin # << >> /\ stdin' = Tail(stdin) /\ m.method \in Queries
      /\ phase' = phase /\ pending' = pending /\ sent' = sent
  BY DEF HandleLookup, HandleSemanticTokens, Reads, editor, Queries
<1>2. SendResponse(m.id, answer)
  <2>1. CASE HandleLookup
    <3>1. PICK method \in Queries \ {"semanticTokens"} :
            /\ m.method = method
            /\ SendResponse(m.id,
                 IF i = 0 THEN Unknown(method)
                 ELSE CASE method = "definition" -> DefinitionAnswer(documents[i], m.line)
                        [] method = "hover" -> HoverAnswer(documents[i], m.line)
                        [] method = "references" -> ReferencesAnswer(documents[i], m.line)
                        [] method = "documentSymbol" -> DocumentSymbolAnswer(documents[i]))
      BY <2>1 DEF HandleLookup, Reads
    <3>. HIDE DEF i, m
    <3>2. Computed(m, documents[i])
            = CASE method = "definition" -> DefinitionAnswer(documents[i], m.line)
                [] method = "hover" -> HoverAnswer(documents[i], m.line)
                [] method = "references" -> ReferencesAnswer(documents[i], m.line)
                [] method = "documentSymbol" -> DocumentSymbolAnswer(documents[i])
      BY <3>1 DEF Computed, Queries
    <3> QED BY <3>1, <3>2
  <2>2. CASE HandleSemanticTokens
    <3>1. /\ m.method = "semanticTokens"
          /\ SendResponse(m.id,
               IF i = 0 THEN Unknown("semanticTokens")
               ELSE Answer("tokens", Deltas(SortTokens(documents[i].tokens))))
      BY <2>2 DEF HandleSemanticTokens, Reads
    <3>. HIDE DEF i, m
    <3>2. Computed(m, documents[i])
            = Answer("tokens", Deltas(SortTokens(documents[i].tokens)))
      BY <3>1 DEF Computed
    <3> QED BY <3>1, <3>2
  <2> QED BY <2>1, <2>2
<1>3. Served(documents, m, documents')
  <2>1. CASE HandleLookup
    <3>1. documents' = documents /\ \A uri \in Uris : ~ Edits(m, uri)
      BY <1>1, <2>1 DEF HandleLookup, server, Edits, Queries
    <3> QED BY <3>1 DEF Served
  <2>2. CASE HandleSemanticTokens
    BY <2>2, HandlersServe
  <2> QED BY <2>1, <2>2
<1>4. \A p : Asked(documents, stdin, 1, p) => p.method \in Queries
  <2>1. Head(stdin) = stdin[1]
    BY <1>1, Rest DEF StoreInv
  <2> QED BY <1>1, <2>1 DEF Asked
<1>5. \A p : Asked(documents, stdin, 1, p) => Answered(p, answer)
  BY <1>1, <1>4, AnswerIs
<1>. HIDE DEF answer, i
<1>6. IsRequest(m)
  BY <1>1 DEF IsRequest
<1>7. /\ phase = "gone" => stdout' = stdout
      /\ phase # "gone" => \E w : /\ stdout' = Append(stdout, w)
                                  /\ w.id = m.id /\ w.answer = answer
  BY <1>2, WriteIs
<1> QED BY <1>1, <1>3, <1>5, <1>6, <1>7, ServeAnswer

LEMMA ServerAnswer ==
  ASSUME StoreInv, IsList(stdout), AnswerInv, ServerStep
  PROVE  AnswerInv'
<1>. DEFINE m == Head(stdin)
<1>1. phase' = phase /\ pending' = pending /\ sent' = sent
  BY DEF ServerStep, HandleInitialize, HandleOther, HandleShutdown, HandleExit,
     HandleDidOpenOrChange, HandleDidSave, HandleDidClose, HandleLookup,
     HandleSemanticTokens, EndOfInput, BrokenPipe, editor
<1>2. CASE EndOfInput \/ BrokenPipe
  <2>1. phase = "gone" /\ stdout' = stdout
    BY <1>2 DEF EndOfInput, BrokenPipe
  <2> QED BY <1>1, <2>1 DEF AnswerInv
<1>3. CASE HandleOther \/ HandleExit
  <2>1. /\ stdin # << >> /\ stdin' = Tail(stdin) /\ m.method \in {"initialized", "exit"}
        /\ stdout' = stdout /\ documents' = documents
    BY <1>3 DEF HandleOther, HandleExit, Reads, server
  <2>2. ~ IsRequest(m) /\ \A uri \in Uris : ~ Edits(m, uri)
    BY <2>1 DEF IsRequest, Queries, Edits
  <2>3. Served(documents, m, documents')
    BY <2>1, <2>2 DEF Served
  <2> QED BY <1>1, <2>1, <2>2, <2>3, ServeAnswer
<1>4. CASE HandleInitialize \/ HandleShutdown
  <2>. DEFINE answer == IF m.method = "initialize" THEN Answer("capabilities", << >>)
                        ELSE NULL_ANSWER
  <2>1. /\ stdin # << >> /\ stdin' = Tail(stdin) /\ m.method \in {"initialize", "shutdown"}
        /\ SendResponse(m.id, answer) /\ documents' = documents
    BY <1>4 DEF HandleInitialize, HandleShutdown, Reads, server
  <2>2. IsRequest(m) /\ \A uri \in Uris : ~ Edits(m, uri)
    BY <2>1 DEF IsRequest, Edits
  <2>3. Served(documents, m, documents')
    BY <2>1, <2>2 DEF Served
  <2>4. \A p : Asked(documents, stdin, 1, p) => Answered(p, answer)
    <3>1. Head(stdin) = stdin[1]
      BY <2>1, Rest DEF StoreInv
    <3>2. ASSUME NEW p, Asked(documents, stdin, 1, p) PROVE p.method = m.method
      BY <3>1, <3>2 DEF Asked
    <3> QED BY <2>1, <3>2 DEF Answered, Queries
  <2>. HIDE DEF answer
  <2>5. /\ phase = "gone" => stdout' = stdout
        /\ phase # "gone" => \E w : /\ stdout' = Append(stdout, w)
                                    /\ w.id = m.id /\ w.answer = answer
    BY <2>1, WriteIs
  <2> QED BY <1>1, <2>1, <2>2, <2>3, <2>4, <2>5, ServeAnswer
<1>5. CASE HandleDidOpenOrChange \/ HandleDidSave \/ HandleDidClose
  <2>1. /\ stdin # << >> /\ stdin' = Tail(stdin) /\ Served(documents, m, documents')
        /\ m.method \in {"didOpen", "didChange", "didSave", "didClose"}
    BY <1>5, HandlersServe DEF HandleDidOpenOrChange, HandleDidSave, HandleDidClose, Reads
  <2>2. stdout' = stdout \/ \E uri, diags : PublishDiagnostics(uri, diags)
    BY <1>5 DEF HandleDidOpenOrChange, HandleDidSave, HandleDidClose
  <2>3. /\ phase = "gone" => stdout' = stdout
        /\ phase # "gone" =>
             stdout' = stdout \/ \E w : stdout' = Append(stdout, w) /\ ~ IsResponse(w)
    BY <2>2, WriteIs
  <2>4. ~ IsRequest(m)
    BY <2>1 DEF IsRequest, Queries
  <2> QED BY <1>1, <2>1, <2>3, <2>4, ServeAnswer
<1>6. CASE HandleLookup \/ HandleSemanticTokens
  BY <1>6, QuestionAnswer
<1> QED BY <1>2, <1>3, <1>4, <1>5, <1>6 DEF ServerStep

\* Numbers stay theirs as the editor goes on, and a new request has a new one.
LEMMA SendAnswer ==
  ASSUME StoreInv, AnswerInv, phase # "gone", phase' # "gone",
         NEW m, stdin' = Append(stdin, m), stdout' = stdout, documents' = documents,
         pending \subseteq pending',
         \A id : Numbered(id, phase, sent) => Numbered(id, phase', sent'),
         IsRequest(m) =>
           /\ Numbered(m.id, phase', sent') /\ ~ Numbered(m.id, phase, sent)
           /\ \E p \in pending' : /\ p.id = m.id /\ p.method = m.method
                                  /\ p.method \in Queries =>
                                       /\ m.uri \in Uris /\ p.line = m.line
                                       /\ p.text = buffers[m.uri]
  PROVE  Underway(documents', stdin', stdout', pending', phase', sent')
<1>. DEFINE n == Len(stdin)
<1>1. /\ IsList(stdin) /\ n \in Nat
      /\ stdin'[n + 1] = m
  BY Appended DEF StoreInv
<1>2. \A uri \in Uris : Saw(documents, stdin', n + 1, uri, buffers[uri])
  <2>1. \A uri \in Uris : Saw(documents, stdin, n + 1, uri, buffers[uri])
    BY DEF StoreInv
  <2>2. n + 1 \in 1 .. (n + 1)
    BY <1>1
  <2> QED BY <1>1, <2>1, <2>2, SawBefore
<1>3. IsRequest(m) => \E p \in pending' : Asked(documents, stdin', n + 1, p)
  BY <1>1, <1>2 DEF Asked
<1>4. Underway(documents, stdin, stdout, pending, phase, sent)
  BY DEF AnswerInv
<1>5. Underway(documents, Append(stdin, m), stdout, pending', phase', sent')
  BY <1>1, <1>3, <1>4, UnderwaySent
<1> QED BY <1>5

\* The numbers of the messages.
LEMMA Numbers ==
  /\ \A id, n : /\ ~ Numbered(id, "started", n) <=> ~ Numbered(id, "ready", n)
                /\ Numbered(id, "start", n) => Numbered(id, "starting", n)
                /\ Numbered(id, "started", n) => Numbered(id, "ready", n)
                /\ Numbered(id, "ready", n) => Numbered(id, "stopping", n)
                /\ Numbered(id, "stopped", n) => Numbered(id, "exiting", n)
                /\ id # INITIALIZE /\ Numbered(id, "starting", n) => Numbered(id, "started", n)
                /\ id # SHUTDOWN /\ Numbered(id, "stopping", n) => Numbered(id, "stopped", n)
  /\ \A n : /\ ~ Numbered(INITIALIZE, "start", n) /\ Numbered(INITIALIZE, "starting", n)
            /\ ~ Numbered(SHUTDOWN, "ready", n) /\ Numbered(SHUTDOWN, "stopping", n)
  /\ \A n \in 0 .. (MAX_SENT - 1) :
       /\ \A id : Numbered(id, "ready", n) => Numbered(id, "ready", n + 1)
       /\ ~ Numbered(n + 1, "ready", n) /\ Numbered(n + 1, "ready", n + 1)
  /\ INITIALIZE # SHUTDOWN
<1>1. MAX_SENT \in Nat \ {0}
  BY LspAssumption
<1> QED BY <1>1 DEF Numbered, INITIALIZE, SHUTDOWN

LEMMA AskAnswer ==
  ASSUME StoreInv, AnswerInv, NEW method \in Queries, NEW uri \in Uris, NEW line,
         Ask(method, uri, line)
  PROVE  AnswerInv'
<1>. DEFINE m == [method |-> method, uri |-> uri, line |-> line, id |-> sent + 1]
            p == Request(sent + 1, method, buffers[uri], line)
<1>1. /\ phase = "ready" /\ phase' = "ready" /\ sent \in 0 .. (MAX_SENT - 1)
      /\ stdin' = Append(stdin, m) /\ pending' = pending \cup {p} /\ sent' = sent + 1
      /\ stdout' = stdout /\ documents' = documents
  <2>1. sent \in 0 .. MAX_SENT /\ MAX_SENT \in Nat
    BY LspAssumption DEF AnswerInv
  <2> QED BY <2>1 DEF Ask, MaySend, Send, server
<1>2. /\ m.method = method /\ m.uri = uri /\ m.line = line /\ m.id = sent + 1
      /\ p.id = sent + 1 /\ p.method = method /\ p.text = buffers[uri] /\ p.line = line
  BY DEF Request
<1>. HIDE DEF m, p
<1>3. /\ \A id : Numbered(id, "ready", sent) => Numbered(id, "ready", sent + 1)
      /\ ~ Numbered(sent + 1, "ready", sent) /\ Numbered(sent + 1, "ready", sent + 1)
  BY <1>1, Numbers
<1>4. Underway(documents', stdin', stdout', pending', phase', sent')
  BY <1>1, <1>2, <1>3, SendAnswer
<1>5. sent' \in 0 .. MAX_SENT /\ sent + 1 \in INITIALIZE .. SHUTDOWN
  BY <1>1, LspAssumption DEF INITIALIZE, SHUTDOWN
<1> QED BY <1>1, <1>2, <1>4, <1>5 DEF AnswerInv

LEMMA ReceiveAnswer ==
  ASSUME IsList(stdout), AnswerInv, Receive
  PROVE  AnswerInv'
<1>. DEFINE m == Head(stdout)
<1>1. /\ phase # "gone" /\ stdout # << >> /\ stdout' = Tail(stdout)
      /\ stdin' = stdin /\ documents' = documents /\ sent' = sent
  BY DEF Receive, server
<1>2. m = stdout[1] /\ 1 \in DOMAIN stdout
  BY <1>1, Rest
<1>3. Underway(documents, stdin, stdout, pending, phase, sent)
  BY <1>1 DEF AnswerInv
<1>4. CASE m.kind = "diagnostics"
  <2>1. ~ IsResponse(m) /\ phase' = phase /\ pending' = pending
    BY <1>4 DEF IsResponse, Receive
  <2>2. Underway(documents, stdin, Tail(stdout), pending, phase, sent)
    BY <1>1, <1>2, <1>3, <2>1, UnderwayReceived
  <2> QED BY <1>1, <2>1, <2>2 DEF AnswerInv
<1>5. CASE m.kind = "response"
  <2>1. /\ pending' = {p \in pending : p.id # m.id}
        /\ phase' = CASE m.id = INITIALIZE -> "started"
                      [] m.id = SHUTDOWN -> "stopped"
                      [] OTHER -> phase
    BY <1>5 DEF Receive
  <2>2. IsResponse(m)
    BY <1>5 DEF IsResponse
  <2>3. Numbered(m.id, phase, sent)
    BY <1>2, <1>3, <2>2 DEF Underway
  <2>4. /\ m.id = INITIALIZE => phase = "starting"
        /\ m.id = SHUTDOWN => phase = "stopping"
    BY <2>3 DEF Numbered
  <2>. HIDE DEF m
  <2>5. \/ m.id = INITIALIZE /\ phase = "starting" /\ phase' = "started"
        \/ m.id = SHUTDOWN /\ phase = "stopping" /\ phase' = "stopped"
        \/ phase' = phase
    BY <2>1, <2>4, Numbers
  <2>6. \A id : id # m.id /\ Numbered(id, phase, sent) => Numbered(id, phase', sent)
    BY <2>5, Numbers
  <2>7. Underway(documents, stdin, Tail(stdout), pending', phase', sent)
    BY <1>1, <1>2, <1>3, <2>1, <2>2, <2>6, UnderwayReceived
  <2>8. phase' \in {"start", "starting", "started", "ready", "stopping", "stopped", "exiting"}
        /\ (phase' = "start" => phase = "start")
    BY <1>1, <2>5 DEF AnswerInv
  <2> QED BY <1>1, <2>1, <2>7, <2>8 DEF AnswerInv
<1> QED BY <1>4, <1>5 DEF Receive

LEMMA EditorAnswer ==
  ASSUME StoreInv, IsList(stdout), AnswerInv, EditorStep
  PROVE  AnswerInv'
<1>1. CASE Start
  <2>. DEFINE m == [method |-> "initialize", id |-> INITIALIZE]
              p == Request(INITIALIZE, "initialize", NONE, 0)
  <2>1. /\ phase = "start" /\ phase' = "starting" /\ stdin' = Append(stdin, m)
        /\ pending' = {p} /\ sent' = sent /\ stdout' = stdout /\ documents' = documents
    BY <1>1 DEF Start, Send, server
  <2>2. /\ m.method = "initialize" /\ m.id = INITIALIZE
        /\ p.id = INITIALIZE /\ p.method = "initialize" /\ p.method \notin Queries
    BY DEF Request, Queries
  <2>3. pending = {}
    BY <2>1 DEF AnswerInv
  <2>. HIDE DEF m, p
  <2>4. Underway(documents', stdin', stdout', pending', phase', sent')
    <3>1. pending \subseteq pending' /\ p \in pending'
      BY <2>1, <2>3
    <3>2. /\ \A id : Numbered(id, phase, sent) => Numbered(id, phase', sent')
          /\ Numbered(m.id, phase', sent') /\ ~ Numbered(m.id, phase, sent)
      BY <2>1, <2>2, Numbers
    <3> QED BY <2>1, <2>2, <3>1, <3>2, SendAnswer
  <2>5. INITIALIZE \in INITIALIZE .. SHUTDOWN
    BY LspAssumption DEF INITIALIZE, SHUTDOWN
  <2> QED BY <2>1, <2>2, <2>4, <2>5 DEF AnswerInv
<1>2. CASE Initialized
  <2>. DEFINE m == [method |-> "initialized"]
  <2>1. /\ phase = "started" /\ phase' = "ready" /\ stdin' = Append(stdin, m)
        /\ pending' = pending /\ sent' = sent /\ stdout' = stdout /\ documents' = documents
    BY <1>2 DEF Initialized, Send, server
  <2>2. ~ IsRequest(m)
    BY DEF IsRequest, Queries
  <2>. HIDE DEF m
  <2>3. \A id : Numbered(id, phase, sent) => Numbered(id, phase', sent')
    BY <2>1, Numbers
  <2>4. Underway(documents', stdin', stdout', pending', phase', sent')
    BY <2>1, <2>2, <2>3, SendAnswer
  <2> QED BY <2>1, <2>4 DEF AnswerInv
<1>3. CASE Shutdown
  <2>. DEFINE m == [method |-> "shutdown", id |-> SHUTDOWN]
              p == Request(SHUTDOWN, "shutdown", NONE, 0)
  <2>1. /\ phase = "ready" /\ phase' = "stopping" /\ stdin' = Append(stdin, m)
        /\ pending' = pending \cup {p} /\ sent' = sent /\ stdout' = stdout
        /\ documents' = documents
    BY <1>3 DEF Shutdown, Send, server
  <2>2. /\ m.method = "shutdown" /\ m.id = SHUTDOWN
        /\ p.id = SHUTDOWN /\ p.method = "shutdown" /\ p.method \notin Queries
    BY DEF Request, Queries
  <2>. HIDE DEF m, p
  <2>3. Underway(documents', stdin', stdout', pending', phase', sent')
    <3>1. pending \subseteq pending' /\ p \in pending'
      BY <2>1
    <3>2. /\ \A id : Numbered(id, phase, sent) => Numbered(id, phase', sent')
          /\ Numbered(m.id, phase', sent') /\ ~ Numbered(m.id, phase, sent)
      BY <2>1, <2>2, Numbers
    <3> QED BY <2>1, <2>2, <3>1, <3>2, SendAnswer
  <2>4. SHUTDOWN \in INITIALIZE .. SHUTDOWN
    BY LspAssumption DEF INITIALIZE, SHUTDOWN
  <2> QED BY <2>1, <2>2, <2>3, <2>4 DEF AnswerInv
<1>4. CASE Exit
  <2>. DEFINE m == [method |-> "exit"]
  <2>1. /\ phase = "stopped" /\ phase' = "exiting" /\ stdin' = Append(stdin, m)
        /\ pending' = pending /\ sent' = sent /\ stdout' = stdout /\ documents' = documents
    BY <1>4 DEF Exit, Send, server
  <2>2. ~ IsRequest(m)
    BY DEF IsRequest, Queries
  <2>. HIDE DEF m
  <2>3. \A id : Numbered(id, phase, sent) => Numbered(id, phase', sent')
    BY <2>1, Numbers
  <2>4. Underway(documents', stdin', stdout', pending', phase', sent')
    BY <2>1, <2>2, <2>3, SendAnswer
  <2> QED BY <2>1, <2>4 DEF AnswerInv
<1>5. CASE Die
  BY <1>5 DEF Die, AnswerInv
<1>6. CASE Receive
  BY <1>6, ReceiveAnswer
<1>7. ASSUME \/ \E uri \in Uris, text \in Texts : Open(uri, text) \/ Change(uri, text)
             \/ \E uri \in Uris : \E text : Save(uri, text)
             \/ \E uri \in Uris : Close(uri)
      PROVE  AnswerInv'
  <2>1. PICK m : /\ stdin' = Append(stdin, m)
                 /\ m.method \in {"didOpen", "didChange", "didSave", "didClose"}
    <3>. DEFINE Sends == \E m : /\ stdin' = Append(stdin, m)
                                /\ m.method \in {"didOpen", "didChange", "didSave", "didClose"}
    <3>1. ASSUME NEW uri, NEW text, Open(uri, text) PROVE Sends
      <4>. DEFINE m == [method |-> "didOpen", uri |-> uri, text |-> text]
      <4>1. stdin' = Append(stdin, m) /\ m.method = "didOpen"
        BY <3>1 DEF Open, Send
      <4> QED BY <4>1
    <3>2. ASSUME NEW uri, NEW text, Change(uri, text) PROVE Sends
      <4>. DEFINE m == [method |-> "didChange", uri |-> uri, text |-> text]
      <4>1. stdin' = Append(stdin, m) /\ m.method = "didChange"
        BY <3>2 DEF Change, Send
      <4> QED BY <4>1
    <3>3. ASSUME NEW uri, NEW text, Save(uri, text) PROVE Sends
      <4>. DEFINE m == [method |-> "didSave", uri |-> uri, text |-> text]
      <4>1. stdin' = Append(stdin, m) /\ m.method = "didSave"
        BY <3>3 DEF Save, Send
      <4> QED BY <4>1
    <3>4. ASSUME NEW uri, Close(uri) PROVE Sends
      <4>. DEFINE m == [method |-> "didClose", uri |-> uri]
      <4>1. stdin' = Append(stdin, m) /\ m.method = "didClose"
        BY <3>4 DEF Close, Send
      <4> QED BY <4>1
    <3> QED BY <1>7, <3>1, <3>2, <3>3, <3>4
  <2>2. /\ phase = "ready" /\ phase' = "ready" /\ sent < MAX_SENT /\ sent' = sent + 1
        /\ pending' = pending /\ stdout' = stdout /\ documents' = documents
    BY <1>7 DEF Open, Change, Save, Close, MaySend, server
  <2>3. sent \in 0 .. (MAX_SENT - 1) /\ sent + 1 \in 0 .. MAX_SENT
    BY <2>2, LspAssumption DEF AnswerInv
  <2>4. ~ IsRequest(m)
    BY <2>1 DEF IsRequest, Queries
  <2>5. \A id : Numbered(id, phase, sent) => Numbered(id, phase', sent')
    BY <2>2, <2>3, Numbers
  <2>6. Underway(documents', stdin', stdout', pending', phase', sent')
    BY <2>1, <2>2, <2>4, <2>5, SendAnswer
  <2> QED BY <2>2, <2>3, <2>6 DEF AnswerInv
<1>8. ASSUME NEW method \in Queries, NEW uri \in Uris, NEW line, Ask(method, uri, line)
      PROVE  AnswerInv'
  BY <1>8, AskAnswer
<1>9. \A method \in Positional : method \in Queries
  BY DEF Positional, Queries
<1> QED BY <1>1, <1>2, <1>3, <1>4, <1>5, <1>6, <1>7, <1>8, <1>9 DEF EditorStep

LEMMA NextAnswer == StoreInv /\ ShownInv /\ AnswerInv /\ [Next]_vars => AnswerInv'
<1>1. UNCHANGED vars /\ AnswerInv => AnswerInv'
  BY DEF vars, server, editor, AnswerInv
<1>2. ShownInv => IsList(stdout)
  BY DEF ShownInv
<1> QED BY <1>1, <1>2, ServerAnswer, EditorAnswer DEF Next

LEMMA AnswerHolds == Spec => []AnswerInv
BY InitAnswer, NextAnswer, StoreHolds, ShownHolds, PTL DEF Spec

-----------------------------------------------------------------------------
(* The searches.                                                           *)

\* The loop of lsp_find_symbol_at, and the best entry after each round.
Searches(syms, name, line, f) ==
  /\ f[0] = NONE
  /\ \A i \in 1 .. Len(syms) :
       f[i] = IF syms[i].name = name /\ syms[i].line - 1 <= line
              THEN Closer(f[i - 1], syms[i]) ELSE f[i - 1]

LEMMA SearchIs ==
  ASSUME NEW syms \in Seq(Entries), NEW name, NEW line
  PROVE  \E f : /\ Searches(syms, name, line, f)
                /\ FindSymbolAt(syms, name, line)
                     = IF f[Len(syms)] = NONE THEN FindSymbol(syms, name) ELSE f[Len(syms)]
<1>. DEFINE n == Len(syms)
            X == Entries \cup {NONE}
            G == [i \in 1 .. n |-> [x \in X |->
                    IF syms[i].name = name /\ syms[i].line - 1 <= line
                    THEN Closer(x, syms[i]) ELSE x]]
            Is(f) == f = [i \in 0 .. n |->
                            IF i = 0 THEN NONE
                            ELSE IF syms[i].name = name /\ syms[i].line - 1 <= line
                                 THEN Closer(f[i - 1], syms[i]) ELSE f[i - 1]]
            F == CHOOSE f : Is(f)
<1>1. n \in Nat /\ NONE \in X /\ \A i \in 1 .. n : syms[i] \in X
  BY LenProperties
<1>2. \A i \in 1 .. n : \A x \in X : Closer(x, syms[i]) \in X
  <2>. HIDE DEF X
  <2> QED BY <1>1 DEF Closer
<1>3. PICK f : Runs(n, X, NONE, G, f)
  <2>1. G \in [1 .. n -> [X -> X]]
    <3>. HIDE DEF X
    <3> QED BY <1>2
  <2>. HIDE DEF G, X, n, Is, F
  <2>2. Loop(n, X, NONE, G)
    BY <1>1, <2>1 DEF Loop
  <2> QED BY <2>2, Iterated
<1>. HIDE DEF X
<1>4. Is(f)
  <2>. DEFINE g == [i \in 0 .. n |->
                      IF i = 0 THEN NONE
                      ELSE IF syms[i].name = name /\ syms[i].line - 1 <= line
                           THEN Closer(f[i - 1], syms[i]) ELSE f[i - 1]]
  <2>1. \A i \in 1 .. n : i \in 0 .. n /\ i # 0 /\ i - 1 \in 0 .. n
    BY <1>1
  <2>2. \A i \in 1 .. n : f[i - 1] \in X /\ f[i] = G[i][f[i - 1]]
    BY <1>3, <2>1 DEF Runs
  <2>3. \A i \in 0 .. n : i = 0 \/ i \in 1 .. n
    BY <1>1
  <2>4. \A i \in 0 .. n : f[i] = g[i]
    BY <1>3, <2>1, <2>2, <2>3 DEF Runs
  <2> QED BY <1>3, <2>4 DEF Runs
<1>5. Is(F)
  <2>. HIDE DEF Is
  <2> QED BY <1>4
<1>6. FindSymbolAt(syms, name, line) = IF F[n] = NONE THEN FindSymbol(syms, name) ELSE F[n]
  BY DEF FindSymbolAt
<1>. HIDE DEF F
<1>7. \A i \in 0 .. n : F[i] = IF i = 0 THEN NONE
                               ELSE IF syms[i].name = name /\ syms[i].line - 1 <= line
                                    THEN Closer(F[i - 1], syms[i]) ELSE F[i - 1]
  BY <1>5
<1>8. 0 \in 0 .. n /\ \A i \in 1 .. n : i \in 0 .. n /\ i # 0
  BY <1>1
<1>9. Searches(syms, name, line, F)
  BY <1>7, <1>8 DEF Searches
<1> QED BY <1>6, <1>9

\* The entries that may be meant, as the loop has seen them, and the best one.
Above(syms, m, name, line) ==
  {s \in UpTo(syms, m) : s.name = name /\ s.line - 1 <= line}

Closest(above, best) ==
  \/ above = {} /\ best = NONE
  \/ /\ best \in above /\ best # NONE
     /\ \A s \in above : /\ ~ s.is_std => ~ best.is_std
                         /\ s.is_std = best.is_std => s.line <= best.line

LEMMA ClosestIs ==
  ASSUME NEW syms \in Seq(Entries), NEW name, NEW line, NEW f, Searches(syms, name, line, f)
  PROVE  Closest(Above(syms, Len(syms), name, line), f[Len(syms)])
<1>. DEFINE n == Len(syms)
            A(m) == Above(syms, m, name, line)
            Fine(m) == Closest(A(m), f[m])
            T == {m \in Nat : m <= n => Fine(m)}
<1>1. n \in Nat /\ \A i \in 1 .. n : syms[i] \in Entries
  BY LenProperties
<1>2. Fine(0)
  BY DEF Above, UpTo, Closest, Searches
<1>3. ASSUME NEW m \in Nat, m + 1 <= n, Fine(m)
      PROVE  Fine(m + 1)
  <2>. DEFINE s == syms[m + 1]
              P == s.name = name /\ s.line - 1 <= line
  <2>1. m + 1 \in 1 .. n /\ (m + 1) - 1 = m /\ \A j \in 1 .. m : j \in 1 .. n
    BY <1>1, <1>3
  <2>2. s \in Entries /\ s # NONE /\ s.line \in Nat /\ s.is_std \in BOOLEAN
    BY <1>1, <2>1, SymbolsAssumption DEF Entries
  <2>3. f[m + 1] = IF P THEN Closer(f[m], s) ELSE f[m]
    BY <2>1 DEF Searches
  <2>4. UpTo(syms, m + 1) = UpTo(syms, m) \cup {s}
    <3>1. \A j \in 1 .. (m + 1) : j \in 1 .. m \/ j = m + 1
      OBVIOUS
    <3>2. \A j \in 1 .. m : j \in 1 .. (m + 1)
      OBVIOUS
    <3>3. m + 1 \in 1 .. (m + 1)
      OBVIOUS
    <3> QED BY <3>1, <3>2, <3>3 DEF UpTo
  <2>5. \A r \in A(m) : r.line \in Nat /\ r.is_std \in BOOLEAN
    BY <1>1, <2>1 DEF Above, UpTo, Entries
  <2>. HIDE DEF s
  <2>6. A(m + 1) = IF P THEN A(m) \cup {s} ELSE A(m)
    BY <2>4 DEF Above
  <2>. HIDE DEF A, P
  <2>7. CASE ~ P
    BY <1>3, <2>3, <2>6, <2>7
  <2>8. CASE P
    <3>1. A(m + 1) = A(m) \cup {s} /\ f[m + 1] = Closer(f[m], s)
      BY <2>3, <2>6, <2>8
    <3>2. CASE A(m) = {} /\ f[m] = NONE
      BY <2>2, <3>1, <3>2 DEF Closer, Closest
    <3>3. CASE /\ f[m] \in A(m) /\ f[m] # NONE
               /\ \A r \in A(m) : /\ ~ r.is_std => ~ f[m].is_std
                                  /\ r.is_std = f[m].is_std => r.line <= f[m].line
      <4>. DEFINE b == f[m]
      <4>1. b.line \in Nat /\ b.is_std \in BOOLEAN
        BY <2>5, <3>3
      <4>2. CASE (b.is_std /\ ~ s.is_std) \/ (b.is_std = s.is_std /\ s.line > b.line)
        <5>1. f[m + 1] = s
          BY <3>1, <4>2 DEF Closer
        <5>2. \A r \in A(m) : /\ ~ r.is_std => ~ s.is_std
                              /\ r.is_std = s.is_std => r.line <= s.line
          <6> SUFFICES ASSUME NEW r \in A(m)
                       PROVE  /\ ~ r.is_std => ~ s.is_std
                              /\ r.is_std = s.is_std => r.line <= s.line
            OBVIOUS
          <6>1. r.line \in Nat /\ r.is_std \in BOOLEAN
            BY <2>5
          <6>2. /\ ~ r.is_std => ~ b.is_std
                /\ r.is_std = b.is_std => r.line <= b.line
            BY <3>3
          <6>. HIDE DEF b
          <6> QED BY <2>2, <4>1, <4>2, <6>1, <6>2
        <5> QED BY <2>2, <3>1, <5>1, <5>2 DEF Closest
      <4>3. CASE ~ ((b.is_std /\ ~ s.is_std) \/ (b.is_std = s.is_std /\ s.line > b.line))
        <5>1. f[m + 1] = b
          BY <3>1, <3>3, <4>3 DEF Closer
        <5>2. /\ ~ s.is_std => ~ b.is_std
              /\ s.is_std = b.is_std => s.line <= b.line
          <6>. HIDE DEF b
          <6> QED BY <2>2, <4>1, <4>3
        <5> QED BY <3>1, <3>3, <5>1, <5>2 DEF Closest
      <4> QED BY <4>2, <4>3
    <3> QED BY <1>3, <3>2, <3>3 DEF Closest
  <2> QED BY <2>7, <2>8
<1>4. Fine(n)
  <2>1. 0 \in T /\ \A m \in Nat : m \in T => m + 1 \in T
    <3>. HIDE DEF Fine
    <3>1. \A m \in Nat : m + 1 <= n => m <= n
      BY <1>1
    <3> QED BY <1>2, <1>3, <3>1
  <2>. HIDE DEF T
  <2>2. n \in T
    BY <1>1, <2>1, Reaches
  <2> QED BY <1>1, <2>2 DEF T
<1> QED BY <1>4

\* lsp_find_symbol: an entry of the name, or NULL.
LEMMA FirstIs ==
  ASSUME NEW syms \in Seq(Entries), NEW name
  PROVE  LET named == {s \in ToSet(syms) : s.name = name}
             first == FindSymbol(syms, name)
         IN  IF named = {} THEN first = NONE ELSE first \in named /\ first # NONE
<1>. DEFINE I == {i \in 1 .. Len(syms) : syms[i].name = name}
            k == IF I # {} THEN Min(I) ELSE 0
<1>1. /\ Len(syms) \in Nat /\ DOMAIN syms = 1 .. Len(syms)
      /\ \A i \in DOMAIN syms : syms[i] \in Entries
  BY LenProperties
<1>2. FindSymbol(syms, name) = IF k = 0 THEN NONE ELSE syms[k]
  BY DEF FindSymbol, SelectInSeq
<1>3. I # {} => Min(I) \in I
  <2>1. Min(I) = CHOOSE i \in I : \A j \in I : i <= j
    BY DEF Min
  <2>2. I \subseteq Nat
    BY <1>1
  <2>3. I # {} => \E i \in I : \A j \in I : i <= j
    <3>. HIDE DEF I
    <3> QED BY <2>2, Least
  <2>. HIDE DEF I
  <2> QED BY <2>1, <2>3
<1>4. CASE I = {}
  <2>1. {s \in ToSet(syms) : s.name = name} = {}
    BY <1>1, <1>4 DEF ToSet
  <2> QED BY <1>2, <1>4, <2>1
<1>5. CASE I # {}
  <2>1. k \in I /\ k \in DOMAIN syms /\ k # 0
    BY <1>1, <1>3, <1>5
  <2>2. syms[k] \in {s \in ToSet(syms) : s.name = name}
    BY <2>1 DEF ToSet
  <2>3. syms[k] # NONE
    BY <1>1, <2>1, SymbolsAssumption
  <2>4. FindSymbol(syms, name) = syms[k]
    BY <1>2, <2>1
  <2> QED BY <2>2, <2>3, <2>4
<1> QED BY <1>4, <1>5

\* lsp_find_symbol_at: an entry that the name may stand for, if there is one.
LEMMA NearestIs ==
  ASSUME NEW text \in Texts, NEW name, NEW line
  PROVE  LET near == Nearest(text, name, line)
             sym == FindSymbolAt(Compiled[text].symbols, name, line)
         IN  IF near = {} THEN sym = NONE ELSE sym \in near /\ sym # NONE
<1>. DEFINE syms == Compiled[text].symbols
            n == Len(syms)
            sym == FindSymbolAt(syms, name, line)
            named == {s \in ToSet(syms) : s.name = name}
            above == {s \in named : s.line - 1 <= line}
            own == {s \in above : ~ s.is_std}
            lowest(S) == {s \in S : \A r \in S : r.line <= s.line}
            near == IF own # {} THEN lowest(own)
                    ELSE IF above # {} THEN lowest(above) ELSE named
<1>1. syms \in Seq(Entries)
  BY CompiledIs
<1>2. /\ ToSet(syms) = UpTo(syms, n)
      /\ \A s \in ToSet(syms) : s \in Entries
  BY <1>1, LenProperties DEF ToSet, UpTo
<1>3. near = Nearest(text, name, line)
  BY DEF Nearest, Named
<1>4. PICK f : /\ Searches(syms, name, line, f)
               /\ sym = IF f[n] = NONE THEN FindSymbol(syms, name) ELSE f[n]
  BY <1>1, SearchIs
<1>5. above = Above(syms, n, name, line)
  BY <1>2 DEF Above
<1>6. Closest(above, f[n])
  <2>. HIDE DEF above
  <2> QED BY <1>1, <1>4, <1>5, ClosestIs
<1>7. IF named = {} THEN FindSymbol(syms, name) = NONE
      ELSE FindSymbol(syms, name) \in named /\ FindSymbol(syms, name) # NONE
  BY <1>1, FirstIs
<1>8. \A s \in above : s.is_std \in BOOLEAN
  BY <1>2 DEF Entries
<1>. HIDE DEF named, syms, n, sym
<1>9. IF near = {} THEN sym = NONE ELSE sym \in near /\ sym # NONE
  <2>1. CASE above = {} /\ f[n] = NONE
    <3>1. own = {} /\ near = named /\ sym = FindSymbol(syms, name)
      BY <1>4, <2>1
    <3> QED BY <1>7, <3>1
  <2>2. CASE /\ f[n] \in above /\ f[n] # NONE
             /\ \A s \in above : /\ ~ s.is_std => ~ f[n].is_std
                                 /\ s.is_std = f[n].is_std => s.line <= f[n].line
    <3>1. sym = f[n]
      BY <1>4, <2>2
    <3>2. CASE own # {}
      <4>1. f[n] \in own
        BY <2>2, <3>2
      <4>2. \A r \in own : r.is_std = f[n].is_std
        BY <1>8, <4>1
      <4>3. f[n] \in lowest(own)
        BY <2>2, <4>1, <4>2
      <4> QED BY <2>2, <3>1, <3>2, <4>3
    <3>3. CASE own = {}
      <4>1. \A r \in above : r.is_std = f[n].is_std
        BY <1>8, <2>2, <3>3
      <4>2. f[n] \in lowest(above) /\ above # {}
        BY <2>2, <4>1
      <4> QED BY <2>2, <3>1, <3>3, <4>2
    <3> QED BY <3>2, <3>3
  <2> QED BY <1>6, <2>1, <2>2 DEF Closest
<1> QED BY <1>3, <1>9 DEF sym, syms

\* The client gets back the positions that were sent as differences.
LEMMA DecodedIs ==
  ASSUME NEW s \in Seq(Positions)
  PROVE  Decoded(Deltas(s)) = s
<1>. DEFINE n == Len(s)
            D == Deltas(s)
            Is(f) == f = [i \in DOMAIN D |->
                            LET p == IF i = 1 THEN <<0, 0>> ELSE f[i - 1]
                                d == D[i]
                            IN IF d[1] = 0 THEN <<p[1], p[2] + d[2]>> ELSE <<p[1] + d[1], d[2]>>]
            F == CHOOSE f : Is(f)
            Prev(i) == IF i = 1 THEN <<0, 0>> ELSE s[i - 1]
<1>1. /\ n \in Nat /\ DOMAIN s = 1 .. n /\ s = [i \in 1 .. n |-> s[i]]
      /\ \A i \in 1 .. n : s[i] \in Positions
  BY LenProperties
<1>2. DOMAIN D = 1 .. n
  BY <1>1 DEF Deltas
<1>3. \A i \in 1 .. n : i # 1 => i - 1 \in 1 .. n
  BY <1>1
<1>4. ASSUME NEW i \in 1 .. n
      PROVE  IF D[i][1] = 0 THEN <<Prev(i)[1], Prev(i)[2] + D[i][2]>> = s[i]
             ELSE <<Prev(i)[1] + D[i][1], D[i][2]>> = s[i]
  <2>. DEFINE p == Prev(i)
              t == s[i]
  <2>1. /\ p[1] \in Nat /\ p[2] \in Nat /\ t[1] \in Nat /\ t[2] \in Nat
        /\ t = <<t[1], t[2]>>
    BY <1>1, <1>3 DEF Positions
  <2>2. D[i] = <<t[1] - p[1], IF t[1] - p[1] = 0 THEN t[2] - p[2] ELSE t[2]>>
    BY <1>1 DEF Deltas
  <2>. HIDE DEF p, t, D
  <2>3. D[i][1] = t[1] - p[1] /\ D[i][2] = IF t[1] - p[1] = 0 THEN t[2] - p[2] ELSE t[2]
    BY <2>2
  <2>4. IF D[i][1] = 0 THEN <<p[1], p[2] + D[i][2]>> = t ELSE <<p[1] + D[i][1], D[i][2]>> = t
    <3>1. CASE D[i][1] = 0
      <4>1. p[1] = t[1] /\ p[2] + D[i][2] = t[2]
        BY <2>1, <2>3, <3>1
      <4> QED BY <2>1, <3>1, <4>1
    <3>2. CASE D[i][1] # 0
      <4>1. p[1] + D[i][1] = t[1] /\ D[i][2] = t[2]
        BY <2>1, <2>3, <3>2
      <4> QED BY <2>1, <3>2, <4>1
    <3> QED BY <3>1, <3>2
  <2> QED BY <2>4 DEF p, t
<1>. HIDE DEF D, n
<1>5. Is(s)
  <2>. DEFINE g == [i \in 1 .. n |->
                      LET p == IF i = 1 THEN <<0, 0>> ELSE s[i - 1]
                          d == D[i]
                      IN IF d[1] = 0 THEN <<p[1], p[2] + d[2]>> ELSE <<p[1] + d[1], d[2]>>]
  <2>1. \A i \in 1 .. n : s[i] = g[i]
    BY <1>4
  <2> QED BY <1>1, <1>2, <2>1
<1>6. Is(F)
  <2>. HIDE DEF Is
  <2> QED BY <1>5
<1>7. Decoded(D) = F
  BY DEF Decoded
<1>. HIDE DEF F
<1>8. /\ DOMAIN F = 1 .. n /\ F = [i \in 1 .. n |-> F[i]]
      /\ \A i \in 1 .. n :
           F[i] = LET p == IF i = 1 THEN <<0, 0>> ELSE F[i - 1]
                  IN IF D[i][1] = 0 THEN <<p[1], p[2] + D[i][2]>>
                     ELSE <<p[1] + D[i][1], D[i][2]>>
  BY <1>2, <1>6
<1>. DEFINE T == {m \in Nat : m + 1 <= n => F[m + 1] = s[m + 1]}
<1>9. 0 \in T
  <2> SUFFICES ASSUME 1 <= n PROVE F[1] = s[1]
    OBVIOUS
  <2>1. 1 \in 1 .. n /\ Prev(1) = <<0, 0>>
    BY <1>1
  <2> QED BY <1>4, <1>8, <2>1
<1>10. ASSUME NEW m \in Nat, m \in T
       PROVE  m + 1 \in T
  <2> SUFFICES ASSUME (m + 1) + 1 <= n PROVE F[(m + 1) + 1] = s[(m + 1) + 1]
    OBVIOUS
  <2>. DEFINE i == (m + 1) + 1
  <2>1. i \in 1 .. n /\ i # 1 /\ i - 1 = m + 1 /\ m + 1 <= n
    BY <1>1
  <2>2. F[i - 1] = s[i - 1]
    BY <1>10, <2>1
  <2>. HIDE DEF i
  <2>3. Prev(i) = F[i - 1]
    BY <2>1, <2>2
  <2>4. F[i] = s[i]
    BY <1>4, <1>8, <2>1, <2>3
  <2> QED BY <2>4 DEF i
<1>11. \A i \in 1 .. n : F[i] = s[i]
  <2> SUFFICES ASSUME NEW i \in 1 .. n PROVE F[i] = s[i]
    OBVIOUS
  <2>1. i - 1 \in Nat /\ (i - 1) + 1 = i /\ i <= n
    BY <1>1
  <2>2. i - 1 \in T
    <3>1. \A m \in Nat : m \in T => m + 1 \in T
      BY <1>10
    <3>. HIDE DEF T
    <3> QED BY <1>9, <2>1, <3>1, Reaches
  <2> QED BY <2>1, <2>2
<1>12. F = s
  BY <1>1, <1>8, <1>11
<1> QED BY <1>7, <1>12 DEF D

-----------------------------------------------------------------------------
(* The answers.                                                            *)

\* handle_references: the lines of the word, each once and in order.
LEMMA ReferencesFit ==
  ASSUME NEW d, NEW line, Content[d.text].words \in Seq(STRING \cup {NONE})
  PROVE  LET word == WordAt(Content[d.text], line)
             words == Content[d.text].words
             answer == ReferencesAnswer(d, line)
         IN  /\ Ascending(answer.at)
             /\ ToSet(answer.at) = {l \in 0 .. (Len(words) - 1) :
                                      word # NONE /\ words[l + 1] = word}
<1>. DEFINE text == Content[d.text]
            words == text.words
            n == Len(words)
            word == WordAt(text, line)
            answer == ReferencesAnswer(d, line)
            lines == [i \in DOMAIN words |-> i - 1]
            S == {l \in Nat : WordAt(text, l) = word}
<1>1. n \in Nat /\ DOMAIN words = 1 .. n
  BY LenProperties
<1>2. answer = IF word = NONE THEN Answer("list", << >>) ELSE Answer("list", Keep(lines, S))
  BY DEF ReferencesAnswer
<1>3. /\ Ascending(<< >>) /\ ToSet(<< >>) = {}
  BY EmptyList DEF Ascending, ToSet
<1>4. \A s : Answer("list", s).at = s
  BY DEF Answer
<1>5. CASE word = NONE
  BY <1>2, <1>3, <1>4, <1>5
<1>6. CASE word # NONE
  <2>1. lines \in Seq(Int) /\ DOMAIN lines = 1 .. n
    <3>1. IsList(words)
      BY ListOf
    <3>2. lines = [i \in DOMAIN words |-> lines[i]] /\ \A i \in DOMAIN words : lines[i] \in Int
      BY <1>1
    <3>. HIDE DEF lines
    <3> QED BY <1>1, <3>1, <3>2, MappedIs
  <2>2. Ascending(lines)
    BY <1>1 DEF Ascending
  <2>3. ToSet(lines) \cap S = {l \in 0 .. (n - 1) : word # NONE /\ words[l + 1] = word}
    <3>1. ToSet(lines) = 0 .. (n - 1)
      <4>1. \A l \in 0 .. (n - 1) : l + 1 \in 1 .. n /\ (l + 1) - 1 = l
        BY <1>1
      <4>2. \A i \in 1 .. n : i - 1 \in 0 .. (n - 1)
        BY <1>1
      <4>3. \A i \in 1 .. n : lines[i] = i - 1
        BY <1>1
      <4>4. ToSet(lines) = {lines[i] : i \in 1 .. n}
        BY <1>1 DEF ToSet
      <4>. HIDE DEF lines, n
      <4> QED BY <4>1, <4>2, <4>3, <4>4
    <3>2. \A l \in 0 .. (n - 1) : l \in Nat /\ WordAt(text, l) = words[l + 1]
      BY <1>1 DEF WordAt
    <3>. HIDE DEF lines, n, words, word
    <3> QED BY <1>6, <3>1, <3>2
  <2>4. Ascending(Keep(lines, S)) /\ ToSet(Keep(lines, S)) = ToSet(lines) \cap S
    <3>. HIDE DEF lines, S
    <3> QED BY <2>1, <2>2, KeepFacts
  <2>. HIDE DEF lines, S, word, answer, n
  <2> QED BY <1>2, <1>4, <1>6, <2>3, <2>4 DEF answer, word, n
<1> QED BY <1>5, <1>6

\* handle_document_symbol: the entries that are not of the library.
LEMMA DocumentSymbolFit ==
  ASSUME NEW d, d.symbols \in Seq(Entries)
  PROVE  ToSet(DocumentSymbolAnswer(d).at)
           = {s.line - 1 : s \in {e \in ToSet(d.symbols) : ~ e.is_std}}
<1>. DEFINE S == {e \in ToSet(d.symbols) : ~ e.is_std}
            own == Keep(d.symbols, S)
            at == [i \in DOMAIN own |-> own[i].line - 1]
<1>1. own \in Seq(Entries) /\ ToSet(own) = ToSet(d.symbols) \cap S
  <2>. HIDE DEF S
  <2> QED BY KeepFacts
<1>2. ToSet(own) = S
  BY <1>1
<1>3. DocumentSymbolAnswer(d).at = at
  BY DEF DocumentSymbolAnswer, Answer
<1>. HIDE DEF own, S
<1>4. DOMAIN at = DOMAIN own /\ \A i \in DOMAIN own : at[i] = own[i].line - 1
  OBVIOUS
<1>. HIDE DEF at
<1>5. ToSet(at) = {s.line - 1 : s \in ToSet(own)}
  BY <1>4 DEF ToSet
<1> QED BY <1>2, <1>3, <1>5 DEF S

\* What is computed for a document of the text is an answer.
LEMMA AnswerFits ==
  ASSUME NEW p, NEW answer, Answered(p, answer),
         p.method \in Queries \cup {"initialize", "shutdown"}
  PROVE  IsAnswer(p, answer)
<1>. DEFINE word == WordAt(Content[p.text], p.line)
            near == Nearest(p.text, word, p.line)
<1>1. CASE p.method = "initialize"
  <2>1. p.method \notin Queries /\ p.method # "shutdown"
    BY <1>1 DEF Queries
  <2>2. IsAnswer(p, answer) = (answer.kind = "capabilities")
    BY <1>1, <2>1 DEF IsAnswer
  <2>3. Answer("capabilities", << >>).kind = "capabilities"
    BY DEF Answer
  <2>4. answer = Answer("capabilities", << >>)
    BY <1>1 DEF Answered
  <2> QED BY <2>2, <2>3, <2>4
<1>2. CASE p.method = "shutdown"
  BY <1>2 DEF Answered, IsAnswer
<1>3. CASE p.method \in Queries /\ p.text = NONE
  <2>1. IsAnswer(p, answer) = (answer = Unknown(p.method))
    BY <1>3 DEF IsAnswer
  <2>2. answer = Unknown(p.method)
    BY <1>3 DEF Answered
  <2> QED BY <2>1, <2>2
<1>4. CASE p.method \in Queries /\ p.text # NONE
  <2>1. PICK d \in Stores : DocOK(d) /\ d.text = p.text /\ answer = Computed(p, d)
    BY <1>4 DEF Answered
  <2>2. /\ p.text \in Texts /\ d.symbols = Compiled[p.text].symbols
        /\ d.tokens \in Seq(Positions)
        /\ Rearranged(d.tokens, Compiled[p.text].tokens)
    BY <2>1 DEF DocOK, Stores
  <2>3. d.symbols \in Seq(Entries)
    BY <2>2, CompiledIs
  <2>. DEFINE sym == FindSymbolAt(Compiled[p.text].symbols, word, p.line)
  <2>4. IF near = {} THEN sym = NONE ELSE sym \in near /\ sym # NONE
    BY <2>2, NearestIs
  <2>5. CASE p.method = "definition"
    <3>1. answer = IF sym = NONE THEN NULL_ANSWER ELSE Answer("location", <<sym.line - 1>>)
      BY <2>1, <2>2, <2>5 DEF Computed, DefinitionAnswer, Location
    <3>2. IF near = {} THEN answer = NULL_ANSWER
          ELSE \E s \in near : answer = Answer("location", <<s.line - 1>>)
      <4>. HIDE DEF sym, near
      <4> QED BY <2>4, <3>1
    <3>3. IsAnswer(p, answer) = (IF near = {} THEN answer = NULL_ANSWER
                                 ELSE \E s \in near : answer = Answer("location", <<s.line - 1>>))
      BY <1>4, <2>5 DEF IsAnswer
    <3> QED BY <3>2, <3>3
  <2>6. CASE p.method = "hover"
    <3>1. answer = IF word \in BuiltinTypes THEN Answer("type", << >>)
                   ELSE IF sym = NONE THEN NULL_ANSWER
                   ELSE IF sym.hover THEN Answer("symbol", <<sym.line - 1>>) ELSE NULL_ANSWER
      BY <2>1, <2>2, <2>6 DEF Computed, HoverAnswer
    <3>2. Answer("type", << >>).kind = "type"
      BY DEF Answer
    <3>3. IF word \in BuiltinTypes THEN answer.kind = "type"
          ELSE IF near = {} THEN answer = NULL_ANSWER
          ELSE \E s \in near :
                 answer = IF s.hover THEN Answer("symbol", <<s.line - 1>>) ELSE NULL_ANSWER
      <4>. HIDE DEF sym, near, word
      <4> QED BY <2>4, <3>1, <3>2
    <3>4. IsAnswer(p, answer)
            = (IF word \in BuiltinTypes THEN answer.kind = "type"
               ELSE IF near = {} THEN answer = NULL_ANSWER
               ELSE \E s \in near :
                      answer = IF s.hover THEN Answer("symbol", <<s.line - 1>>)
                               ELSE NULL_ANSWER)
      BY <1>4, <2>6 DEF IsAnswer
    <3> QED BY <3>3, <3>4
  <2>7. CASE p.method = "references"
    <3>1. answer = ReferencesAnswer(d, p.line)
      BY <2>1, <2>7 DEF Computed
    <3>2. Content[d.text].words \in Seq(STRING \cup {NONE})
      BY <2>1, <2>2, LspAssumption DEF Contents
    <3>3. /\ Ascending(answer.at)
          /\ ToSet(answer.at) = {l \in 0 .. (Len(Content[p.text].words) - 1) :
                                   word # NONE /\ Content[p.text].words[l + 1] = word}
      <4>1. LET w == WordAt(Content[d.text], p.line)
                words == Content[d.text].words
                a == ReferencesAnswer(d, p.line)
            IN  /\ Ascending(a.at)
                /\ ToSet(a.at) = {l \in 0 .. (Len(words) - 1) :
                                     w # NONE /\ words[l + 1] = w}
        BY <3>2, ReferencesFit
      <4>2. d.text = p.text
        BY <2>1
      <4> QED BY <3>1, <4>1, <4>2
    <3>4. IsAnswer(p, answer) =
            /\ Ascending(answer.at)
            /\ ToSet(answer.at) = {l \in 0 .. (Len(Content[p.text].words) - 1) :
                                     word # NONE /\ Content[p.text].words[l + 1] = word}
      BY <1>4, <2>7 DEF IsAnswer
    <3> QED BY <3>3, <3>4
  <2>8. CASE p.method = "documentSymbol"
    <3>1. answer = DocumentSymbolAnswer(d)
      BY <2>1, <2>8 DEF Computed
    <3>2. ToSet(answer.at) = {s.line - 1 : s \in {e \in ToSet(Compiled[p.text].symbols) :
                                                   ~ e.is_std}}
      BY <2>2, <2>3, <3>1, DocumentSymbolFit
    <3> QED BY <1>4, <2>8, <3>2 DEF IsAnswer
  <2>9. CASE p.method = "semanticTokens"
    <3>. DEFINE t == SortTokens(d.tokens)
    <3>1. answer = Answer("tokens", Deltas(t))
      BY <2>1, <2>9 DEF Computed
    <3>2. t \in Seq(Positions) /\ Rearranged(t, d.tokens) /\ InOrder(t)
      BY <2>2, SortedIs
    <3>5. Rearranged(t, Compiled[p.text].tokens)
      BY <2>2, <3>2, RearrangedTwice
    <3>. HIDE DEF t
    <3>3. answer.at = Deltas(t)
      BY <3>1 DEF Answer
    <3>4. Decoded(answer.at) = t
      BY <3>2, <3>3, DecodedIs
    <3> QED BY <1>4, <2>9, <3>2, <3>4, <3>5 DEF IsAnswer
  <2> QED BY <1>4, <2>5, <2>6, <2>7, <2>8, <2>9 DEF Queries
<1> QED BY <1>1, <1>2, <1>3, <1>4

\* lsp_server_run serves messages in order: every response is to a request
\* that waits, is the only one, and answers it for the text it was asked about.
THEOREM AnswersMatchHolds == Spec => []AnswersMatch
<1>1. ASSUME AnswerInv PROVE AnswersMatch
  <2> SUFFICES ASSUME NEW i \in DOMAIN stdout, stdout[i].kind = "response"
               PROVE  /\ \E p \in pending : p.id = stdout[i].id /\ IsAnswer(p, stdout[i].answer)
                      /\ \A j \in DOMAIN stdout \ {i} :
                           stdout[j].kind = "response" => stdout[j].id # stdout[i].id
    BY DEF AnswersMatch
  <2>1. phase # "gone"
    BY <1>1, EmptyList DEF AnswerInv
  <2>2. Underway(documents, stdin, stdout, pending, phase, sent)
    BY <1>1, <2>1 DEF AnswerInv
  <2>3. /\ \E p \in pending : p.id = stdout[i].id /\ Answered(p, stdout[i].answer)
        /\ \A j \in DOMAIN stdout :
             IsResponse(stdout[j]) /\ stdout[j].id = stdout[i].id => j = i
    BY <2>2 DEF Underway, IsResponse
  <2>4. \A p \in pending : p.method \in Queries \cup {"initialize", "shutdown"}
    BY <1>1 DEF AnswerInv
  <2> QED BY <2>3, <2>4, AnswerFits DEF IsResponse
<1> QED BY <1>1, AnswerHolds, PTL

-----------------------------------------------------------------------------
(* No request is lost.                                                     *)

\* A request that waits is in the pipe, or its response is.
Crossing(in, out, waiting) ==
  \A p \in waiting :
    \/ \E k \in DOMAIN in : in[k].method = p.method /\ in[k].id = p.id
    \/ \E i \in DOMAIN out : IsResponse(out[i]) /\ out[i].id = p.id

\* Numbers are served in order.
InTurn(in, out) ==
  /\ \A k, l \in DOMAIN in :
       k < l /\ IsRequest(in[k]) /\ IsRequest(in[l]) => in[k].id < in[l].id
  /\ \A i, j \in DOMAIN out :
       i < j /\ IsResponse(out[i]) /\ IsResponse(out[j]) => out[i].id < out[j].id
  /\ \A i \in DOMAIN out, k \in DOMAIN in :
       IsResponse(out[i]) /\ IsRequest(in[k]) => out[i].id < in[k].id

\* Only "shutdown" has its number, and "exit" is the last word.
Closing(in, ph) ==
  \A k \in DOMAIN in :
    /\ IsRequest(in[k]) => (in[k].id = SHUTDOWN <=> in[k].method = "shutdown")
    /\ in[k].method = "exit" => ph = "exiting" /\ k = Len(in)

Closed(out, requested) ==
  \A i \in DOMAIN out : IsResponse(out[i]) /\ out[i].id = SHUTDOWN => requested

\* When its shutdown is answered, everything is.
Ended ==
  /\ phase \in {"stopped", "exiting"} => pending = {} /\ shutdownRequested
  /\ status # "running" => phase = "exiting" /\ status = "0" /\ stdin = << >>

FlightInv ==
  phase # "gone" =>
    /\ Crossing(stdin, stdout, pending)
    /\ InTurn(stdin, stdout)
    /\ Closing(stdin, phase)
    /\ Closed(stdout, shutdownRequested)
    /\ Ended

LEMMA InitFlight == Init => FlightInv
<1>1. DOMAIN << >> = {}
  BY EmptyList
<1> QED BY <1>1 DEF Init, FlightInv, Crossing, InTurn, Closing, Closed, Ended

\* The server takes a message, and answers it when it is a request.
LEMMA FlightServed ==
  ASSUME NEW in, IsList(in), in # << >>, NEW out, IsList(out), NEW waiting,
         \A p \in waiting : p.method \in Queries \cup {"initialize", "shutdown"},
         Crossing(in, out, waiting), InTurn(in, out), NEW next,
         \/ ~ IsRequest(in[1]) /\ next = out
         \/ \E w : /\ next = Append(out, w)
                   /\ IsRequest(in[1]) <=> IsResponse(w)
                   /\ IsResponse(w) => w.id = in[1].id
  PROVE  Crossing(Tail(in), next, waiting) /\ InTurn(Tail(in), next)
<1>. DEFINE n == Len(in)
            rest == Tail(in)
<1>1. /\ n \in Nat /\ n >= 1 /\ DOMAIN in = 1 .. n /\ DOMAIN rest = 1 .. (n - 1)
      /\ \A i \in 1 .. (n - 1) : rest[i] = in[i + 1]
  BY Rest
<1>. HIDE DEF n, rest
<1>2. ASSUME NEW k \in DOMAIN rest PROVE k + 1 \in DOMAIN in /\ rest[k] = in[k + 1] /\ 1 < k + 1
  BY <1>1
<1>3. ASSUME NEW k \in DOMAIN in, k # 1 PROVE k - 1 \in DOMAIN rest /\ rest[k - 1] = in[k]
  BY <1>1, <1>3
<1>4. ASSUME NEW p \in waiting, NEW k \in DOMAIN in, in[k].method = p.method
      PROVE  IsRequest(in[k])
  BY <1>4 DEF IsRequest
<1>5. \A k, l \in DOMAIN rest :
        k < l /\ IsRequest(rest[k]) /\ IsRequest(rest[l]) => rest[k].id < rest[l].id
  BY <1>1, <1>2 DEF InTurn
<1>6. CASE ~ IsRequest(in[1]) /\ next = out
  <2>1. Crossing(rest, next, waiting)
    <3> SUFFICES ASSUME NEW p \in waiting
                 PROVE  \/ \E k \in DOMAIN rest : rest[k].method = p.method /\ rest[k].id = p.id
                        \/ \E i \in DOMAIN next : IsResponse(next[i]) /\ next[i].id = p.id
      BY DEF Crossing
    <3>1. CASE \E i \in DOMAIN out : IsResponse(out[i]) /\ out[i].id = p.id
      BY <1>6, <3>1
    <3>2. CASE \E k \in DOMAIN in : in[k].method = p.method /\ in[k].id = p.id
      BY <1>3, <1>4, <1>6, <3>2
    <3> QED BY <3>1, <3>2 DEF Crossing
  <2>2. InTurn(rest, next)
    BY <1>2, <1>5, <1>6 DEF InTurn
  <2> QED BY <2>1, <2>2 DEF rest
<1>7. ASSUME NEW w, next = Append(out, w), IsRequest(in[1]) <=> IsResponse(w),
             IsResponse(w) => w.id = in[1].id
      PROVE  Crossing(rest, next, waiting) /\ InTurn(rest, next)
  <2>. DEFINE m == Len(out)
  <2>1. /\ m \in Nat /\ DOMAIN out = 1 .. m /\ DOMAIN next = 1 .. (m + 1)
        /\ \A i \in 1 .. m : next[i] = out[i]
        /\ next[m + 1] = w
    BY <1>7, Appended
  <2>. HIDE DEF m
  <2>2. Crossing(rest, next, waiting)
    <3> SUFFICES ASSUME NEW p \in waiting
                 PROVE  \/ \E k \in DOMAIN rest : rest[k].method = p.method /\ rest[k].id = p.id
                        \/ \E i \in DOMAIN next : IsResponse(next[i]) /\ next[i].id = p.id
      BY DEF Crossing
    <3>1. CASE \E i \in DOMAIN out : IsResponse(out[i]) /\ out[i].id = p.id
      BY <2>1, <3>1
    <3>2. ASSUME NEW k \in DOMAIN in, in[k].method = p.method, in[k].id = p.id
          PROVE  \/ \E l \in DOMAIN rest : rest[l].method = p.method /\ rest[l].id = p.id
                 \/ \E i \in DOMAIN next : IsResponse(next[i]) /\ next[i].id = p.id
      <4>1. CASE k # 1
        BY <1>3, <3>2, <4>1
      <4>2. CASE k = 1
        <5>1. IsResponse(w) /\ w.id = p.id
          BY <1>4, <1>7, <3>2, <4>2
        <5>2. m + 1 \in DOMAIN next
          BY <2>1
        <5> QED BY <2>1, <5>1, <5>2
      <4> QED BY <4>1, <4>2
    <3> QED BY <3>1, <3>2 DEF Crossing
  <2>3. \A i, j \in DOMAIN next :
          i < j /\ IsResponse(next[i]) /\ IsResponse(next[j]) => next[i].id < next[j].id
    <3> SUFFICES ASSUME NEW i \in DOMAIN next, NEW j \in DOMAIN next, i < j,
                        IsResponse(next[i]), IsResponse(next[j])
                 PROVE  next[i].id < next[j].id
      OBVIOUS
    <3>1. i \in DOMAIN out /\ next[i] = out[i]
      BY <2>1
    <3>2. CASE j = m + 1
      <4>1. next[j] = w /\ 1 \in DOMAIN in
        BY <1>1, <2>1, <3>2
      <4> QED BY <1>7, <3>1, <4>1 DEF InTurn
    <3>3. CASE j # m + 1
      <4>1. j \in DOMAIN out /\ next[j] = out[j]
        BY <2>1, <3>3
      <4> QED BY <3>1, <4>1 DEF InTurn
    <3> QED BY <3>2, <3>3
  <2>4. ASSUME NEW i \in DOMAIN next, NEW k \in DOMAIN rest,
               IsResponse(next[i]), IsRequest(rest[k])
        PROVE  next[i].id < rest[k].id
    <3>1. k + 1 \in DOMAIN in /\ rest[k] = in[k + 1] /\ 1 < k + 1 /\ 1 \in DOMAIN in
      BY <1>1, <1>2
    <3>2. CASE i = m + 1
      <4>1. next[i] = w
        BY <2>1, <3>2
      <4> QED BY <1>7, <2>4, <3>1, <4>1 DEF InTurn
    <3>3. CASE i # m + 1
      <4>1. i \in DOMAIN out /\ next[i] = out[i]
        BY <2>1, <3>3
      <4> QED BY <2>4, <3>1, <4>1 DEF InTurn
    <3> QED BY <3>2, <3>3
  <2> QED BY <1>5, <2>2, <2>3, <2>4 DEF InTurn
<1> QED BY <1>6, <1>7 DEF rest

\* The editor sends a message, with the highest number when it is a request.
LEMMA FlightSent ==
  ASSUME NEW in, IsList(in), NEW out, NEW waiting, NEW more, NEW m,
         Crossing(in, out, waiting), InTurn(in, out),
         \A p \in more : p \in waiting \/ (p.method = m.method /\ p.id = m.id),
         IsRequest(m) =>
           /\ \A k \in DOMAIN in : IsRequest(in[k]) => in[k].id < m.id
           /\ \A i \in DOMAIN out : IsResponse(out[i]) => out[i].id < m.id
  PROVE  Crossing(Append(in, m), out, more) /\ InTurn(Append(in, m), out)
<1>. DEFINE n == Len(in)
            all == Append(in, m)
<1>1. /\ n \in Nat /\ DOMAIN in = 1 .. n /\ DOMAIN all = 1 .. (n + 1)
      /\ \A k \in 1 .. n : all[k] = in[k]
      /\ all[n + 1] = m
  BY Appended
<1>. HIDE DEF n, all
<1>2. n + 1 \in DOMAIN all /\ \A k \in DOMAIN in : k \in DOMAIN all /\ all[k] = in[k]
  BY <1>1
<1>3. \A k \in DOMAIN all : k = n + 1 \/ k \in DOMAIN in
  BY <1>1
<1>4. Crossing(all, out, more)
  <2> SUFFICES ASSUME NEW p \in more
               PROVE  \/ \E k \in DOMAIN all : all[k].method = p.method /\ all[k].id = p.id
                      \/ \E i \in DOMAIN out : IsResponse(out[i]) /\ out[i].id = p.id
    BY DEF Crossing
  <2>1. CASE p.method = m.method /\ p.id = m.id
    BY <1>1, <1>2, <2>1
  <2>2. CASE p \in waiting
    BY <1>2, <2>2 DEF Crossing
  <2> QED BY <2>1, <2>2
<1>5. \A k, l \in DOMAIN all :
        k < l /\ IsRequest(all[k]) /\ IsRequest(all[l]) => all[k].id < all[l].id
  <2> SUFFICES ASSUME NEW k \in DOMAIN all, NEW l \in DOMAIN all, k < l,
                      IsRequest(all[k]), IsRequest(all[l])
               PROVE  all[k].id < all[l].id
    OBVIOUS
  <2>1. k \in DOMAIN in /\ all[k] = in[k]
    BY <1>1
  <2>2. CASE l = n + 1
    BY <1>1, <2>1, <2>2
  <2>3. CASE l # n + 1
    <3>1. l \in DOMAIN in /\ all[l] = in[l]
      BY <1>2, <1>3, <2>3
    <3> QED BY <2>1, <3>1 DEF InTurn
  <2> QED BY <2>2, <2>3
<1>6. ASSUME NEW i \in DOMAIN out, NEW k \in DOMAIN all, IsResponse(out[i]), IsRequest(all[k])
      PROVE  out[i].id < all[k].id
  <2>1. CASE k = n + 1
    BY <1>1, <1>6, <2>1
  <2>2. CASE k # n + 1
    <3>1. k \in DOMAIN in /\ all[k] = in[k]
      BY <1>2, <1>3, <2>2
    <3> QED BY <1>6, <3>1 DEF InTurn
  <2> QED BY <2>1, <2>2
<1>7. InTurn(all, out)
  BY <1>5, <1>6 DEF InTurn
<1> QED BY <1>4, <1>7 DEF all

\* The editor reads a message, and a response answers its request.
LEMMA FlightReceived ==
  ASSUME NEW in, NEW out, IsList(out), out # << >>, NEW waiting, NEW fewer,
         Crossing(in, out, waiting), InTurn(in, out),
         fewer \subseteq waiting,
         IsResponse(out[1]) => \A p \in fewer : p.id # out[1].id
  PROVE  Crossing(in, Tail(out), fewer) /\ InTurn(in, Tail(out))
<1>. DEFINE n == Len(out)
            rest == Tail(out)
<1>1. /\ n \in Nat /\ n >= 1 /\ DOMAIN out = 1 .. n /\ DOMAIN rest = 1 .. (n - 1)
      /\ \A i \in 1 .. (n - 1) : rest[i] = out[i + 1]
  BY Rest
<1>. HIDE DEF n, rest
<1>2. ASSUME NEW i \in DOMAIN rest PROVE i + 1 \in DOMAIN out /\ rest[i] = out[i + 1]
  BY <1>1
<1>3. ASSUME NEW i \in DOMAIN out, i # 1 PROVE i - 1 \in DOMAIN rest /\ rest[i - 1] = out[i]
  BY <1>1, <1>3
<1>4. Crossing(in, rest, fewer)
  <2> SUFFICES ASSUME NEW p \in fewer
               PROVE  \/ \E k \in DOMAIN in : in[k].method = p.method /\ in[k].id = p.id
                      \/ \E i \in DOMAIN rest : IsResponse(rest[i]) /\ rest[i].id = p.id
    BY DEF Crossing
  <2>1. p \in waiting
    OBVIOUS
  <2>2. ASSUME NEW i \in DOMAIN out, IsResponse(out[i]), out[i].id = p.id
        PROVE  \E j \in DOMAIN rest : IsResponse(rest[j]) /\ rest[j].id = p.id
    <3>1. i # 1
      BY <2>2
    <3> QED BY <1>3, <2>2, <3>1
  <2> QED BY <2>1, <2>2 DEF Crossing
<1>5. ASSUME NEW i \in DOMAIN rest, NEW j \in DOMAIN rest, i < j,
             IsResponse(rest[i]), IsResponse(rest[j])
      PROVE  rest[i].id < rest[j].id
  <2>1. i + 1 < j + 1
    BY <1>1, <1>5
  <2> QED BY <1>2, <1>5, <2>1 DEF InTurn
<1>6. InTurn(in, rest)
  BY <1>2, <1>5 DEF InTurn
<1> QED BY <1>4, <1>6 DEF rest

\* What is left of the messages to the server.
LEMMA ClosingTaken ==
  ASSUME NEW in, IsList(in), in # << >>, NEW ph, Closing(in, ph)
  PROVE  /\ Closing(Tail(in), ph)
         /\ in[1].method = "exit" => ph = "exiting" /\ Tail(in) = << >>
<1>1. /\ IsList(Tail(in)) /\ Len(in) \in Nat /\ Len(in) >= 1
      /\ Len(Tail(in)) = Len(in) - 1
      /\ DOMAIN in = 1 .. Len(in) /\ DOMAIN Tail(in) = 1 .. (Len(in) - 1)
      /\ \A i \in 1 .. (Len(in) - 1) : Tail(in)[i] = in[i + 1]
  BY Rest
<1>2. \A k \in DOMAIN Tail(in) : k + 1 \in DOMAIN in /\ Tail(in)[k] = in[k + 1]
  BY <1>1
<1>3. ASSUME in[1].method = "exit" PROVE ph = "exiting" /\ Tail(in) = << >>
  <2>1. ph = "exiting" /\ 1 = Len(in)
    BY <1>1, <1>3 DEF Closing
  <2>2. Len(Tail(in)) = 0
    <3>1. Len(Tail(in)) = Len(in) - 1
      BY <1>1
    <3>2. Len(in) - 1 = 0
      BY <2>1
    <3> QED BY <3>1, <3>2
  <2> QED BY <1>1, <2>1, <2>2, EmptySeq DEF IsList
<1>4. ASSUME NEW k \in DOMAIN Tail(in), Tail(in)[k].method = "exit"
      PROVE  ph = "exiting" /\ k = Len(Tail(in))
  <2>1. ph = "exiting" /\ k + 1 = Len(in)
    BY <1>2, <1>4 DEF Closing
  <2> QED BY <1>1, <2>1
<1> QED BY <1>2, <1>3, <1>4 DEF Closing

\* A handler that takes a message and answers it, but does not end the server.
LEMMA HandlerFlight ==
  ASSUME StoreInv, ShownInv, AnswerInv, FlightInv,
         status = "running", status' = status, UNCHANGED editor,
         shutdownRequested => shutdownRequested',
         stdin # << >>, stdin' = Tail(stdin),
         stdin[1].method = "shutdown" => shutdownRequested',
         phase # "gone" =>
           \/ ~ IsRequest(stdin[1]) /\ stdout' = stdout
           \/ \E w : /\ stdout' = Append(stdout, w)
                     /\ IsRequest(stdin[1]) <=> IsResponse(w)
                     /\ IsResponse(w) => w.id = stdin[1].id
  PROVE  FlightInv'
<1> SUFFICES ASSUME phase # "gone"
             PROVE  FlightInv'
  BY DEF FlightInv, editor
<1>1. /\ IsList(stdin) /\ IsList(stdout)
      /\ Crossing(stdin, stdout, pending) /\ InTurn(stdin, stdout)
      /\ \A p \in pending : p.method \in Queries \cup {"initialize", "shutdown"}
  BY DEF StoreInv, ShownInv, AnswerInv, FlightInv
<1>2. Crossing(stdin', stdout', pending) /\ InTurn(stdin', stdout')
  BY <1>1, FlightServed
<1>3. Closing(stdin', phase)
  BY <1>1, ClosingTaken DEF FlightInv
<1>4. Closed(stdout', shutdownRequested')
  <2>1. CASE stdout' = stdout
    BY <2>1 DEF FlightInv, Closed
  <2>2. ASSUME NEW w, stdout' = Append(stdout, w),
               IsRequest(stdin[1]) <=> IsResponse(w), IsResponse(w) => w.id = stdin[1].id
        PROVE  Closed(stdout', shutdownRequested')
    <3>1. /\ Len(stdout) \in Nat /\ DOMAIN stdout = 1 .. Len(stdout)
          /\ DOMAIN stdout' = 1 .. (Len(stdout) + 1)
          /\ \A i \in 1 .. Len(stdout) : stdout'[i] = stdout[i]
          /\ stdout'[Len(stdout) + 1] = w
      BY <1>1, <2>2, Appended
    <3>2. IsResponse(w) /\ w.id = SHUTDOWN => shutdownRequested'
      <4>1. 1 \in DOMAIN stdin
        BY <1>1, Rest
      <4> QED BY <2>2, <4>1 DEF FlightInv, Closing
    <3>3. \A i \in DOMAIN stdout' : i = Len(stdout) + 1 \/ i \in DOMAIN stdout
      BY <3>1
    <3> QED BY <3>1, <3>2, <3>3 DEF FlightInv, Closed
  <2> QED BY <2>1, <2>2
<1>5. Ended'
  BY DEF FlightInv, Ended, editor
<1> QED BY <1>2, <1>3, <1>4, <1>5 DEF FlightInv, editor

LEMMA ServerFlight ==
  ASSUME StoreInv, ShownInv, AnswerInv, FlightInv, ServerStep
  PROVE  FlightInv'
<1>. DEFINE m == Head(stdin)
            Takes == /\ status = "running" /\ stdin # << >> /\ stdin' = Tail(stdin)
                     /\ UNCHANGED editor
<1>1. stdin # << >> => m = stdin[1]
  BY Rest DEF StoreInv
<1>2. CASE HandleOther
  <2>1. Takes /\ ~ IsRequest(m) /\ stdout' = stdout /\ UNCHANGED server /\ m.method # "shutdown"
    BY <1>2 DEF HandleOther, Reads, IsRequest, Queries
  <2> QED BY <1>1, <2>1, HandlerFlight DEF server
<1>3. CASE HandleInitialize \/ HandleShutdown
  <2>1. /\ Takes /\ IsRequest(m) /\ status' = status
        /\ shutdownRequested => shutdownRequested'
        /\ m.method = "shutdown" => shutdownRequested'
        /\ \E answer : SendResponse(m.id, answer)
    BY <1>3 DEF HandleInitialize, HandleShutdown, Reads, IsRequest, server
  <2>2. phase # "gone" => \E w : stdout' = Append(stdout, w) /\ IsResponse(w) /\ w.id = m.id
    BY <2>1, WriteIs
  <2> QED BY <1>1, <2>1, <2>2, HandlerFlight
<1>4. CASE HandleDidOpenOrChange \/ HandleDidSave \/ HandleDidClose
  <2>1. /\ Takes /\ m.method \in {"didOpen", "didChange", "didSave", "didClose"}
        /\ UNCHANGED <<status, shutdownRequested>>
    BY <1>4 DEF HandleDidOpenOrChange, HandleDidSave, HandleDidClose, Reads
  <2>2. stdout' = stdout \/ \E uri, diags : PublishDiagnostics(uri, diags)
    BY <1>4 DEF HandleDidOpenOrChange, HandleDidSave, HandleDidClose
  <2>3. phase # "gone" =>
          stdout' = stdout \/ \E w : stdout' = Append(stdout, w) /\ ~ IsResponse(w)
    BY <2>2, WriteIs
  <2>4. ~ IsRequest(m) /\ m.method # "shutdown"
    BY <2>1 DEF IsRequest, Queries
  <2> QED BY <1>1, <2>1, <2>3, <2>4, HandlerFlight
<1>5. CASE HandleLookup \/ HandleSemanticTokens
  <2>1. /\ Takes /\ m.method \in Queries /\ UNCHANGED <<status, shutdownRequested>>
        /\ \E answer : SendResponse(m.id, answer)
    BY <1>5 DEF HandleLookup, HandleSemanticTokens, Reads, Queries, server
  <2>2. phase # "gone" => \E w : stdout' = Append(stdout, w) /\ IsResponse(w) /\ w.id = m.id
    BY <2>1, WriteIs
  <2>3. IsRequest(m) /\ m.method # "shutdown"
    BY <2>1 DEF IsRequest, Queries
  <2> QED BY <1>1, <2>1, <2>2, <2>3, HandlerFlight
<1>6. CASE HandleExit
  <2>1. /\ Takes /\ m.method = "exit" /\ status' = ExitStatus
        /\ UNCHANGED <<stdout, shutdownRequested>>
    BY <1>6 DEF HandleExit, Reads
  <2> SUFFICES ASSUME phase # "gone"
               PROVE  FlightInv'
    BY <2>1 DEF FlightInv, editor
  <2>2. /\ IsList(stdin) /\ IsList(stdout)
        /\ Crossing(stdin, stdout, pending) /\ InTurn(stdin, stdout)
        /\ \A p \in pending : p.method \in Queries \cup {"initialize", "shutdown"}
    BY DEF StoreInv, ShownInv, AnswerInv, FlightInv
  <2>3. ~ IsRequest(m)
    BY <2>1 DEF IsRequest, Queries
  <2>4. Crossing(stdin', stdout', pending) /\ InTurn(stdin', stdout')
    BY <1>1, <2>1, <2>2, <2>3, FlightServed
  <2>5. Closing(stdin', phase) /\ phase = "exiting" /\ stdin' = << >>
    BY <1>1, <2>1, <2>2, ClosingTaken DEF FlightInv
  <2>6. Ended'
    BY <2>1, <2>5 DEF FlightInv, Ended, ExitStatus, editor
  <2> QED BY <2>1, <2>4, <2>5, <2>6 DEF FlightInv, editor
<1>7. CASE EndOfInput \/ BrokenPipe
  BY <1>7 DEF EndOfInput, BrokenPipe, FlightInv, editor
<1> QED BY <1>2, <1>3, <1>4, <1>5, <1>6, <1>7 DEF ServerStep

\* The editor sends a message, of its phase.
LEMMA SendFlight ==
  ASSUME StoreInv, AnswerInv, FlightInv, phase # "gone", phase' # "gone",
         NEW m, stdin' = Append(stdin, m), stdout' = stdout, UNCHANGED server,
         phase \notin {"exiting"},
         phase' \in {"stopped", "exiting"} => phase = "stopped" /\ pending' = pending,
         m.method = "exit" => phase' = "exiting",
         IsRequest(m) => (m.id = SHUTDOWN <=> m.method = "shutdown"),
         \A p \in pending' : p \in pending \/ (p.method = m.method /\ p.id = m.id),
         IsRequest(m) =>
           /\ \A k \in DOMAIN stdin : IsRequest(stdin[k]) => stdin[k].id < m.id
           /\ \A i \in DOMAIN stdout : IsResponse(stdout[i]) => stdout[i].id < m.id
  PROVE  FlightInv'
<1>1. /\ IsList(stdin) /\ Crossing(stdin, stdout, pending) /\ InTurn(stdin, stdout)
      /\ Closing(stdin, phase) /\ Closed(stdout, shutdownRequested) /\ Ended
  BY DEF StoreInv, FlightInv
<1>2. Crossing(stdin', stdout', pending') /\ InTurn(stdin', stdout')
  BY <1>1, FlightSent
<1>3. Closing(stdin', phase')
  <2>1. /\ Len(stdin) \in Nat /\ Len(stdin') = Len(stdin) + 1
        /\ DOMAIN stdin = 1 .. Len(stdin) /\ DOMAIN stdin' = 1 .. (Len(stdin) + 1)
        /\ \A k \in 1 .. Len(stdin) : stdin'[k] = stdin[k]
        /\ stdin'[Len(stdin) + 1] = m
    BY <1>1, Appended
  <2>2. \A k \in DOMAIN stdin' : k = Len(stdin') \/ k \in DOMAIN stdin
    BY <2>1
  <2>3. \A k \in DOMAIN stdin : stdin'[k] = stdin[k] /\ stdin[k].method # "exit"
    BY <1>1, <2>1 DEF Closing
  <2>4. stdin'[Len(stdin')] = m
    BY <2>1
  <2> QED BY <1>1, <2>2, <2>3, <2>4 DEF Closing
<1>4. Closed(stdout', shutdownRequested')
  BY <1>1 DEF server
<1>5. Ended'
  BY <1>1 DEF Ended, server
<1> QED BY <1>2, <1>3, <1>4, <1>5 DEF FlightInv

\* A new number is above all that are on their way.
LEMMA NewNumber ==
  ASSUME AnswerInv, phase # "gone", NEW id,
         \/ phase = "start"
         \/ phase = "ready" /\ id = SHUTDOWN
         \/ phase = "ready" /\ id = sent + 1
  PROVE  /\ \A k \in DOMAIN stdin : IsRequest(stdin[k]) => stdin[k].id < id
         /\ \A i \in DOMAIN stdout : IsResponse(stdout[i]) => stdout[i].id < id
<1>1. Underway(documents, stdin, stdout, pending, phase, sent)
  BY DEF AnswerInv
<1>2. CASE phase = "start"
  <2>1. pending = {}
    BY <1>2 DEF AnswerInv
  <2> QED BY <1>1, <2>1 DEF Underway
<1>3. CASE phase = "ready" /\ id \in {SHUTDOWN, sent + 1}
  <2>1. sent \in 0 .. MAX_SENT /\ MAX_SENT \in Nat
    BY LspAssumption DEF AnswerInv
  <2>2. \A old : Numbered(old, "ready", sent) => old < id
    BY <1>3, <2>1 DEF Numbered, INITIALIZE, SHUTDOWN
  <2> QED BY <1>1, <1>3, <2>2 DEF Underway
<1> QED BY <1>2, <1>3

\* The editor reads a message.  With its shutdown, the last number, everything
\* is answered.
LEMMA ReceiveFlight ==
  ASSUME ShownInv, AnswerInv, FlightInv, Receive
  PROVE  FlightInv'
<1>. DEFINE m == Head(stdout)
<1>1. /\ phase # "gone" /\ stdout # << >> /\ stdout' = Tail(stdout) /\ IsList(stdout)
      /\ stdin' = stdin /\ UNCHANGED server
  BY DEF Receive, ShownInv
<1>2. m = stdout[1] /\ 1 \in DOMAIN stdout
  BY <1>1, Rest
<1>3. /\ Underway(documents, stdin, stdout, pending, phase, sent)
      /\ Crossing(stdin, stdout, pending) /\ InTurn(stdin, stdout)
      /\ Closing(stdin, phase) /\ Closed(stdout, shutdownRequested) /\ Ended
  BY <1>1 DEF AnswerInv, FlightInv
<1>4. Closed(stdout', shutdownRequested')
  <2>1. \A i \in DOMAIN Tail(stdout) : i + 1 \in DOMAIN stdout /\ Tail(stdout)[i] = stdout[i + 1]
    BY <1>1, Rest
  <2> QED BY <1>1, <1>3, <2>1 DEF Closed, server
<1>5. CASE m.kind = "diagnostics"
  <2>1. ~ IsResponse(m) /\ phase' = phase /\ pending' = pending
    BY <1>5 DEF IsResponse, Receive
  <2>. HIDE DEF m
  <2>2. Crossing(stdin', stdout', pending') /\ InTurn(stdin', stdout')
    <3>1. ~ IsResponse(stdout[1]) /\ pending \subseteq pending
      BY <1>2, <2>1
    <3>2. Crossing(stdin, Tail(stdout), pending) /\ InTurn(stdin, Tail(stdout))
      BY <1>1, <1>3, <3>1, FlightReceived
    <3> QED BY <1>1, <2>1, <3>2
  <2>3. Ended'
    BY <1>1, <1>3, <2>1 DEF Ended, server
  <2> QED BY <1>1, <1>3, <1>4, <2>1, <2>2, <2>3 DEF FlightInv
<1>6. CASE m.kind = "response"
  <2>1. /\ pending' = {p \in pending : p.id # m.id}
        /\ phase' = CASE m.id = INITIALIZE -> "started"
                      [] m.id = SHUTDOWN -> "stopped"
                      [] OTHER -> phase
    BY <1>6 DEF Receive
  <2>2. IsResponse(m)
    BY <1>6 DEF IsResponse
  <2>3. Numbered(m.id, phase, sent)
    BY <1>2, <1>3, <2>2 DEF Underway
  <2>4. /\ m.id = INITIALIZE => phase = "starting"
        /\ m.id = SHUTDOWN => phase = "stopping"
    BY <2>3 DEF Numbered
  <2>. HIDE DEF m
  <2>5. \/ m.id = INITIALIZE /\ phase = "starting" /\ phase' = "started"
        \/ m.id = SHUTDOWN /\ phase = "stopping" /\ phase' = "stopped"
        \/ m.id \notin {INITIALIZE, SHUTDOWN} /\ phase' = phase
    BY <2>1, <2>4, Numbers
  <2>6. Crossing(stdin', stdout', pending') /\ InTurn(stdin', stdout')
    <3>1. pending' \subseteq pending /\ \A p \in pending' : p.id # stdout[1].id
      BY <1>2, <2>1
    <3>2. /\ Crossing(stdin, Tail(stdout), pending')
          /\ InTurn(stdin, Tail(stdout))
      BY <1>1, <1>3, <3>1, FlightReceived
    <3> QED BY <1>1, <3>2
  <2>7. Closing(stdin', phase')
    BY <1>1, <1>3, <2>5 DEF Closing
  <2>8. ASSUME m.id = SHUTDOWN
        PROVE  pending' = {} /\ shutdownRequested
    <3>1. shutdownRequested
      BY <1>2, <1>3, <2>2, <2>8 DEF Closed
    <3>2. ASSUME NEW p \in pending, p.id # SHUTDOWN PROVE FALSE
      <4>1. p.method \in Queries \cup {"initialize", "shutdown"}
        BY DEF AnswerInv
      <4>2. \A id \in INITIALIZE .. SHUTDOWN : ~ (SHUTDOWN < id)
        BY LspAssumption DEF INITIALIZE, SHUTDOWN
      <4>3. CASE \E k \in DOMAIN stdin : stdin[k].method = p.method /\ stdin[k].id = p.id
        <5>1. PICK k \in DOMAIN stdin : stdin[k].method = p.method /\ stdin[k].id = p.id
          BY <4>3
        <5>2. IsRequest(stdin[k])
          BY <4>1, <5>1 DEF IsRequest
        <5>3. SHUTDOWN < stdin[k].id
          BY <1>2, <1>3, <2>2, <2>8, <5>2 DEF InTurn
        <5>4. stdin[k].id \in INITIALIZE .. SHUTDOWN
          BY <1>3, <5>2 DEF Underway, Numbered
        <5> QED BY <4>2, <5>3, <5>4
      <4>4. CASE \E i \in DOMAIN stdout : IsResponse(stdout[i]) /\ stdout[i].id = p.id
        <5>1. PICK i \in DOMAIN stdout : IsResponse(stdout[i]) /\ stdout[i].id = p.id
          BY <4>4
        <5>2. 1 < i
          <6>1. DOMAIN stdout = 1 .. Len(stdout) /\ Len(stdout) \in Nat
            BY <1>1, Rest
          <6>2. i # 1
            BY <1>2, <2>8, <3>2, <5>1
          <6> QED BY <6>1, <6>2
        <5>3. SHUTDOWN < stdout[i].id
          BY <1>2, <1>3, <2>2, <2>8, <5>1, <5>2 DEF InTurn
        <5>4. stdout[i].id \in INITIALIZE .. SHUTDOWN
          BY <1>3, <5>1 DEF Underway, Numbered
        <5> QED BY <4>2, <5>3, <5>4
      <4> QED BY <1>3, <4>3, <4>4 DEF Crossing
    <3> QED BY <2>1, <2>8, <3>1, <3>2
  <2>9. Ended'
    BY <1>1, <1>3, <2>1, <2>5, <2>8 DEF Ended, server
  <2>10. phase' # "gone"
    BY <1>1, <2>5
  <2> QED BY <1>4, <2>6, <2>7, <2>9, <2>10 DEF FlightInv
<1> QED BY <1>5, <1>6 DEF Receive

LEMMA EditorFlight ==
  ASSUME StoreInv, ShownInv, AnswerInv, FlightInv, EditorStep
  PROVE  FlightInv'
<1>. INITIALIZE # SHUTDOWN
  BY Numbers
<1>1. CASE Start
  <2>. DEFINE m == [method |-> "initialize", id |-> INITIALIZE]
              p == Request(INITIALIZE, "initialize", NONE, 0)
  <2>1. /\ phase = "start" /\ phase' = "starting" /\ stdin' = Append(stdin, m)
        /\ pending' = {p} /\ stdout' = stdout /\ UNCHANGED server
    BY <1>1 DEF Start, Send
  <2>2. m.method = "initialize" /\ m.id = INITIALIZE /\ p.id = m.id /\ p.method = m.method
    BY DEF Request
  <2>. HIDE DEF m, p
  <2>3. /\ \A k \in DOMAIN stdin : IsRequest(stdin[k]) => stdin[k].id < m.id
        /\ \A i \in DOMAIN stdout : IsResponse(stdout[i]) => stdout[i].id < m.id
    BY <2>1, NewNumber
  <2> QED BY <2>1, <2>2, <2>3, SendFlight
<1>2. CASE Initialized
  <2>. DEFINE m == [method |-> "initialized"]
  <2>1. /\ phase = "started" /\ phase' = "ready" /\ stdin' = Append(stdin, m)
        /\ pending' = pending /\ stdout' = stdout /\ UNCHANGED server
    BY <1>2 DEF Initialized, Send
  <2>2. ~ IsRequest(m) /\ m.method # "exit"
    BY DEF IsRequest, Queries
  <2>. HIDE DEF m
  <2> QED BY <2>1, <2>2, SendFlight
<1>3. CASE Shutdown
  <2>. DEFINE m == [method |-> "shutdown", id |-> SHUTDOWN]
              p == Request(SHUTDOWN, "shutdown", NONE, 0)
  <2>1. /\ phase = "ready" /\ phase' = "stopping" /\ stdin' = Append(stdin, m)
        /\ pending' = pending \cup {p} /\ stdout' = stdout /\ UNCHANGED server
    BY <1>3 DEF Shutdown, Send
  <2>2. m.method = "shutdown" /\ m.id = SHUTDOWN /\ p.id = m.id /\ p.method = m.method
    BY DEF Request
  <2>. HIDE DEF m, p
  <2>3. /\ \A k \in DOMAIN stdin : IsRequest(stdin[k]) => stdin[k].id < m.id
        /\ \A i \in DOMAIN stdout : IsResponse(stdout[i]) => stdout[i].id < m.id
    BY <2>1, <2>2, NewNumber
  <2> QED BY <2>1, <2>2, <2>3, SendFlight
<1>4. CASE Exit
  <2>. DEFINE m == [method |-> "exit"]
  <2>1. /\ phase = "stopped" /\ phase' = "exiting" /\ stdin' = Append(stdin, m)
        /\ pending' = pending /\ stdout' = stdout /\ UNCHANGED server
    BY <1>4 DEF Exit, Send
  <2>2. ~ IsRequest(m)
    BY DEF IsRequest, Queries
  <2>. HIDE DEF m
  <2> QED BY <2>1, <2>2, SendFlight
<1>5. CASE Die
  BY <1>5 DEF Die, FlightInv
<1>6. CASE Receive
  BY <1>6, ReceiveFlight
<1>7. ASSUME NEW uri, NEW text,
             Open(uri, text) \/ Change(uri, text) \/ Save(uri, text) \/ Close(uri)
      PROVE  FlightInv'
  <2>. DEFINE Sends(m) == stdin' = Append(stdin, m) /\ ~ IsRequest(m) /\ m.method # "exit"
              open == [method |-> "didOpen", uri |-> uri, text |-> text]
              change == [method |-> "didChange", uri |-> uri, text |-> text]
              save == [method |-> "didSave", uri |-> uri, text |-> text]
              close == [method |-> "didClose", uri |-> uri]
  <2>1. /\ ~ IsRequest(open) /\ open.method # "exit"
        /\ ~ IsRequest(change) /\ change.method # "exit"
        /\ ~ IsRequest(save) /\ save.method # "exit"
        /\ ~ IsRequest(close) /\ close.method # "exit"
    BY DEF IsRequest, Queries
  <2>2. stdin' \in {Append(stdin, open), Append(stdin, change),
                    Append(stdin, save), Append(stdin, close)}
    BY <1>7 DEF Open, Change, Save, Close, Send
  <2>3. PICK m : Sends(m)
    <3>. HIDE DEF open, change, save, close
    <3> QED BY <2>1, <2>2
  <2>4. /\ phase = "ready" /\ phase' = "ready"
        /\ pending' = pending /\ stdout' = stdout /\ UNCHANGED server
    BY <1>7 DEF Open, Change, Save, Close, MaySend
  <2> QED BY <2>3, <2>4, SendFlight
<1>8. ASSUME NEW method \in Queries, NEW uri \in Uris, NEW line, Ask(method, uri, line)
      PROVE  FlightInv'
  <2>. DEFINE m == [method |-> method, uri |-> uri, line |-> line, id |-> sent + 1]
              p == Request(sent + 1, method, buffers[uri], line)
  <2>1. /\ phase = "ready" /\ phase' = "ready" /\ sent < MAX_SENT
        /\ stdin' = Append(stdin, m) /\ pending' = pending \cup {p}
        /\ stdout' = stdout /\ UNCHANGED server
    BY <1>8 DEF Ask, MaySend, Send
  <2>2. m.method = method /\ m.id = sent + 1 /\ p.id = m.id /\ p.method = m.method
    BY DEF Request
  <2>3. method \notin {"shutdown", "exit"} /\ sent + 1 # SHUTDOWN
    <3>1. sent \in 0 .. MAX_SENT /\ MAX_SENT \in Nat
      BY LspAssumption DEF AnswerInv
    <3> QED BY <2>1, <3>1 DEF Queries, SHUTDOWN
  <2>. HIDE DEF m, p
  <2>4. /\ \A k \in DOMAIN stdin : IsRequest(stdin[k]) => stdin[k].id < m.id
        /\ \A i \in DOMAIN stdout : IsResponse(stdout[i]) => stdout[i].id < m.id
    BY <2>1, <2>2, NewNumber
  <2> QED BY <2>1, <2>2, <2>3, <2>4, SendFlight
<1>9. \A method \in Positional : method \in Queries
  BY DEF Positional, Queries
<1> QED BY <1>1, <1>2, <1>3, <1>4, <1>5, <1>6, <1>7, <1>8, <1>9 DEF EditorStep

LEMMA NextFlight ==
  StoreInv /\ ShownInv /\ AnswerInv /\ FlightInv /\ [Next]_vars => FlightInv'
<1>1. UNCHANGED vars /\ FlightInv => FlightInv'
  BY DEF vars, server, editor, FlightInv, Ended
<1> QED BY <1>1, ServerFlight, EditorFlight DEF Next

LEMMA FlightHolds == Spec => []FlightInv
BY InitFlight, NextFlight, StoreHolds, ShownHolds, AnswerHolds, PTL DEF Spec

\* lsp_server_run loses no request: each one that waits is in the pipe to the
\* server, or its response in the pipe back, while the editor lives; and a
\* server that ends before its editor was told to, and has answered everything.
THEOREM NothingLostHolds == Spec => []NothingLost
<1>1. ASSUME FlightInv PROVE NothingLost
  BY <1>1 DEF FlightInv, Crossing, Ended, NothingLost, IsResponse
<1> QED BY <1>1, FlightHolds, PTL

-----------------------------------------------------------------------------
(* The types.                                                              *)

PipeInv ==
  /\ Len(stdin) <= IN_CAPACITY /\ Len(stdout) <= OUT_CAPACITY
  /\ status \in {"running", "0", "1", "killed"} /\ shutdownRequested \in BOOLEAN

LEMMA NextPipe ==
  IsList(stdin) /\ IsList(stdout) /\ PipeInv /\ [Next]_vars => PipeInv'
<1> SUFFICES ASSUME IsList(stdin), IsList(stdout), PipeInv, [Next]_vars
             PROVE  PipeInv'
  OBVIOUS
<1>. {IN_CAPACITY, OUT_CAPACITY} \subseteq Nat
  BY LspAssumption
<1>1. \A m : /\ Send(m) => Len(stdin') <= IN_CAPACITY
             /\ Write(m) => Len(stdout') <= OUT_CAPACITY
  <2>1. \A m : /\ Len(Append(stdin, m)) = Len(stdin) + 1
               /\ Len(Append(stdout, m)) = Len(stdout) + 1
               /\ Len(stdin) \in Nat /\ Len(stdout) \in Nat
    BY Appended
  <2> QED BY <2>1 DEF Send, Write, PipeInv
<1>2. \A method : Reads(method) => Len(stdin') <= IN_CAPACITY
  <2>1. stdin # << >> => Len(stdin) \in Nat /\ Len(Tail(stdin)) = Len(stdin) - 1
    BY Rest
  <2> QED BY <2>1 DEF Reads, PipeInv
<1>3. /\ \A id, answer : SendResponse(id, answer) => Len(stdout') <= OUT_CAPACITY
      /\ \A uri, diags : PublishDiagnostics(uri, diags) => Len(stdout') <= OUT_CAPACITY
  BY <1>1 DEF SendResponse, PublishDiagnostics
<1>4. CASE UNCHANGED vars
  BY <1>4 DEF vars, server, PipeInv
<1>5. CASE HandleInitialize \/ HandleOther \/ HandleShutdown \/ HandleExit
  BY <1>2, <1>3, <1>5 DEF HandleInitialize, HandleOther, HandleShutdown, HandleExit,
     ExitStatus, server, PipeInv
<1>6. CASE HandleDidOpenOrChange \/ HandleDidSave \/ HandleDidClose
  <2>1. Len(stdin') <= IN_CAPACITY /\ UNCHANGED <<status, shutdownRequested>>
    BY <1>2, <1>6 DEF HandleDidOpenOrChange, HandleDidSave, HandleDidClose
  <2>2. stdout' = stdout \/ \E uri, diags : PublishDiagnostics(uri, diags)
    BY <1>6 DEF HandleDidOpenOrChange, HandleDidSave, HandleDidClose
  <2> QED BY <1>3, <2>1, <2>2 DEF PipeInv
<1>7. CASE HandleLookup \/ HandleSemanticTokens
  <2>1. Len(stdin') <= IN_CAPACITY /\ UNCHANGED <<status, shutdownRequested>>
    BY <1>2, <1>7 DEF HandleLookup, HandleSemanticTokens, server
  <2>2. \E id, answer : SendResponse(id, answer)
    BY <1>7 DEF HandleLookup, HandleSemanticTokens
  <2> QED BY <1>3, <2>1, <2>2 DEF PipeInv
<1>8. CASE EndOfInput \/ BrokenPipe
  BY <1>8 DEF EndOfInput, BrokenPipe, ExitStatus, PipeInv
<1>9. CASE Start \/ Initialized \/ Shutdown \/ Exit
  BY <1>1, <1>9 DEF Start, Initialized, Shutdown, Exit, server, PipeInv
<1>10. CASE Die
  <2>1. Len(stdout') <= OUT_CAPACITY
    BY <1>10, EmptyList DEF Die
  <2> QED BY <1>1, <1>10, <2>1 DEF Die, server, PipeInv
<1>11. CASE Receive
  <2>1. /\ stdin' = stdin /\ stdout # << >> /\ stdout' = Tail(stdout)
        /\ UNCHANGED <<status, shutdownRequested>>
    BY <1>11 DEF Receive, server
  <2>2. Len(stdout) \in Nat /\ Len(Tail(stdout)) = Len(stdout) - 1
    BY <2>1, Rest
  <2> QED BY <2>1, <2>2 DEF PipeInv
<1>12. ASSUME NEW uri, NEW text, NEW method, NEW line,
              Open(uri, text) \/ Change(uri, text) \/ Save(uri, text) \/ Close(uri)
              \/ Ask(method, uri, line)
       PROVE  PipeInv'
  BY <1>1, <1>12 DEF Open, Change, Save, Close, Ask, server, PipeInv
<1> QED BY <1>4, <1>5, <1>6, <1>7, <1>8, <1>9, <1>10, <1>11, <1>12
        DEF Next, ServerStep, EditorStep

LEMMA PipeHolds == Spec => []PipeInv
<1>1. Init => PipeInv
  <2>1. IN_CAPACITY \in Nat /\ OUT_CAPACITY \in Nat
    BY LspAssumption
  <2>2. 0 <= IN_CAPACITY /\ 0 <= OUT_CAPACITY
    BY <2>1
  <2>3. Len(<< >>) = 0
    OBVIOUS
  <2> QED BY <2>2, <2>3 DEF Init, PipeInv
<1>2. StoreInv => IsList(stdin)
  BY DEF StoreInv
<1>3. ShownInv => IsList(stdout)
  BY DEF ShownInv
<1> QED BY <1>1, <1>2, <1>3, NextPipe, StoreHolds, ShownHolds, PTL DEF Spec

\* The pipes keep to their capacities, and the store has documents with the
\* entries and tokens that the front end made.
THEOREM TypesHold == Spec => []TypeOK
<1>1. ASSUME StoreInv, ShownInv, AnswerInv, PipeInv PROVE TypeOK
  <2>1. documents \in Seq(Documents)
    <3>1. IsList(documents) /\ \A i \in DOMAIN documents : documents[i] \in Stores
      BY <1>1 DEF StoreInv, StoreOK, DocOK
    <3>2. \A d \in Stores : d \in Documents
      BY CompiledIs DEF Stores, Documents
    <3>3. /\ documents = [i \in DOMAIN documents |-> documents[i]]
          /\ \A i \in DOMAIN documents : documents[i] \in Documents
      BY <3>1, <3>2 DEF IsList
    <3> QED BY <3>1, <3>3, MappedIs
  <2>2. /\ buffers \in [Uris -> Texts \cup {NONE}]
        /\ shown \in [Uris -> SUBSET {"lex", "parse", "sema"}]
    BY <1>1 DEF StoreInv, ShownInv, Passes
  <2> QED BY <1>1, <2>1, <2>2 DEF TypeOK, AnswerInv, PipeInv
<1> QED BY <1>1, StoreHolds, ShownHolds, AnswerHolds, PipeHolds, PTL

-----------------------------------------------------------------------------
(* Nobody waits for ever.                                                  *)

\* While a request waits, the editor has something to read, or the server has,
\* and room for its answer: the server blocked on a full pipe is not waiting
\* for an editor that has nothing to read (lsp_server.c:1233-1283).
Unblocked ==
  phase # "gone" /\ pending # {} =>
    \/ stdout # << >>
    \/ status = "running" /\ stdin # << >> /\ Len(stdout) < OUT_CAPACITY

\* What is in the pipes, and may yet be.
Load == 2 * Len(stdin) + Len(stdout)

\* Whatever the server does, and whatever the editor reads, there is less to
\* come, or the server has ended.
Drains ==
  [][ServerStep \/ Receive =>
       /\ Load \in Nat /\ Load' \in Nat
       /\ Load' < Load \/ status' # "running"]_vars

\* An editor that waits for an answer and a server that waits for a message, or
\* for room in the pipe, never wait for each other.
THEOREM UnblockedHolds == Spec => []Unblocked
<1>1. ASSUME NothingLost PROVE Unblocked
  <2> SUFFICES ASSUME phase # "gone", pending # {}, stdout = << >>
               PROVE  status = "running" /\ stdin # << >> /\ Len(stdout) < OUT_CAPACITY
    BY DEF Unblocked
  <2>1. DOMAIN stdout = {} /\ Len(stdout) = 0
    BY EmptyList
  <2>2. PICK p \in pending : TRUE
    OBVIOUS
  <2>3. \E k \in DOMAIN stdin : stdin[k].method = p.method /\ stdin[k].id = p.id
    BY <1>1, <2>1, <2>2 DEF NothingLost
  <2>4. stdin # << >>
    BY <2>3, EmptyList
  <2>5. OUT_CAPACITY \in Nat \ {0}
    BY LspAssumption
  <2>6. 0 < OUT_CAPACITY
    BY <2>5
  <2> QED BY <1>1, <2>1, <2>4, <2>6 DEF NothingLost
<1> QED BY <1>1, NothingLostHolds, PTL

\* The server takes a message for each one it writes, and the editor only takes
\* what the server wrote: between two messages of the editor both come to rest.
THEOREM DrainsHolds == Spec => Drains
<1>1. ASSUME IsList(stdin), IsList(stdout), ServerStep \/ Receive
      PROVE  Load \in Nat /\ Load' \in Nat /\ (Load' < Load \/ status' # "running")
  <2>1. /\ Len(stdin) \in Nat /\ Len(stdout) \in Nat
        /\ \A m : Len(Append(stdout, m)) = Len(stdout) + 1
    BY <1>1, Appended
  <2>2. /\ stdin # << >> => Len(stdin) >= 1 /\ Len(Tail(stdin)) = Len(stdin) - 1
        /\ stdout # << >> => Len(stdout) >= 1 /\ Len(Tail(stdout)) = Len(stdout) - 1
    BY <1>1, Rest
  <2>3. \A m : Write(m) => Len(stdout') = Len(stdout) \/ Len(stdout') = Len(stdout) + 1
    BY <2>1 DEF Write
  <2>4. CASE /\ stdin # << >> /\ stdin' = Tail(stdin)
             /\ Len(stdout') = Len(stdout) \/ Len(stdout') = Len(stdout) + 1
    BY <2>1, <2>2, <2>4 DEF Load
  <2>5. CASE HandleInitialize \/ HandleOther \/ HandleShutdown \/ HandleExit
    <3>1. stdin # << >> /\ stdin' = Tail(stdin)
      BY <2>5 DEF HandleInitialize, HandleOther, HandleShutdown, HandleExit, Reads
    <3>2. stdout' = stdout \/ \E m : Write(m)
      BY <2>5 DEF HandleInitialize, HandleOther, HandleShutdown, HandleExit, SendResponse
    <3> QED BY <2>3, <2>4, <3>1, <3>2
  <2>6. CASE HandleDidOpenOrChange \/ HandleDidSave \/ HandleDidClose
    <3>1. stdin # << >> /\ stdin' = Tail(stdin)
      BY <2>6 DEF HandleDidOpenOrChange, HandleDidSave, HandleDidClose, Reads
    <3>2. stdout' = stdout \/ \E m : Write(m)
      BY <2>6 DEF HandleDidOpenOrChange, HandleDidSave, HandleDidClose, PublishDiagnostics
    <3> QED BY <2>3, <2>4, <3>1, <3>2
  <2>7. CASE HandleLookup \/ HandleSemanticTokens
    <3>1. stdin # << >> /\ stdin' = Tail(stdin)
      BY <2>7 DEF HandleLookup, HandleSemanticTokens, Reads
    <3>2. \E id, answer : SendResponse(id, answer)
      BY <2>7 DEF HandleLookup, HandleSemanticTokens
    <3>3. \E m : Write(m)
      BY <3>2 DEF SendResponse
    <3> QED BY <2>3, <2>4, <3>1, <3>3
  <2>8. CASE EndOfInput \/ BrokenPipe
    <3>1. status' # "running" /\ stdin' = stdin /\ stdout' = stdout
      BY <2>8 DEF EndOfInput, BrokenPipe, ExitStatus
    <3> QED BY <2>1, <3>1 DEF Load
  <2>9. CASE Receive
    <3>1. stdin' = stdin /\ stdout # << >> /\ stdout' = Tail(stdout)
      BY <2>9 DEF Receive
    <3> QED BY <2>1, <2>2, <3>1 DEF Load
  <2> QED BY <1>1, <2>5, <2>6, <2>7, <2>8, <2>9 DEF ServerStep
<1>2. StoreInv => IsList(stdin)
  BY DEF StoreInv
<1>3. ShownInv => IsList(stdout)
  BY DEF ShownInv
<1>4. IsList(stdin) /\ IsList(stdout) /\ [Next]_vars =>
        [ServerStep \/ Receive =>
           /\ Load \in Nat /\ Load' \in Nat
           /\ Load' < Load \/ status' # "running"]_vars
  BY <1>1
<1> QED BY <1>2, <1>3, <1>4, StoreHolds, ShownHolds, PTL DEF Spec, Drains
==============================================================================
