------------------------------ MODULE LspServer ------------------------------
(***************************************************************************)
(* tools/rsg-lsp/lsp_server.c and lsp_transport.c: the language server     *)
(* reads messages from a pipe, one at a time, and writes responses and     *)
(* diagnostics to another.  The editor at the other ends starts it, edits  *)
(* documents, asks questions about them without waiting for the answers,   *)
(* and stops it or dies.                                                   *)
(*                                                                         *)
(* Pipes are bounded: a write to a full one blocks.  A message that does   *)
(* not fit the protocol (no method, no document) is ignored by the server  *)
(* and not sent by this editor.  Versions of documents are stored and      *)
(* never read, and neither is srv->initialized.                            *)
(***************************************************************************)
EXTENDS LspSymbols

CONSTANTS Uris, Texts,
          Content,       \* what is in each text, see LspSymbols
          Lines,         \* lines the cursor may be on
          IN_CAPACITY,   \* of the pipe to the server, in messages
          OUT_CAPACITY,  \* of the pipe to the editor
          MAX_SENT       \* bound on the messages about documents

ASSUME LspAssumption ==
  /\ NONE \notin Uris \cup Texts
  /\ Lines \subseteq Nat
  /\ \A text \in Texts : Content[text] \in Contents
  /\ {IN_CAPACITY, OUT_CAPACITY, MAX_SENT} \subseteq Nat \ {0}

VARIABLES stdin, stdout, \* the pipes
          status,        \* "running", the exit status, or "killed"
          shutdownRequested, \* srv->shutdown_requested
          documents,     \* srv->documents, the newest first
          phase,         \* of the editor
          buffers,       \* the text of each open document in the editor
          shown,         \* the diagnostics the editor shows
          pending,       \* its requests without an answer
          sent           \* messages about documents sent so far

server == <<status, shutdownRequested, documents>>
editor == <<phase, buffers, shown, pending, sent>>
vars == <<stdin, stdout, server, editor>>

Queries == {"definition", "hover", "references", "documentSymbol", "semanticTokens"}
Positional == {"definition", "hover", "references"}
INITIALIZE == 0          \* ids of the requests that occur once
SHUTDOWN == MAX_SENT + 1

Document(uri, text) == [uri |-> uri, text |-> text, symbols |-> << >>, tokens |-> << >>]
Answer(kind, at) == [kind |-> kind, at |-> at]
NULL_ANSWER == Answer("null", << >>)

\* What the front end makes of each text; a table, which TLC fills once.
Compiled == [text \in Texts |-> Compile(Content[text])]

-----------------------------------------------------------------------------
(* The document store.                                                     *)

\* find_document: its place in the list, 0 if there is none.
FindDocument(docs, uri) == SelectInSeq(docs, LAMBDA d : d.uri = uri)

\* Mutant: an opened document is always a new one.
PushDocument(docs, uri, text) == <<Document(uri, text)>> \o docs

UpsertDocument(docs, uri, text) ==
  LET i == FindDocument(docs, uri) IN
  IF i = 0 THEN <<Document(uri, text)>> \o docs
  ELSE [docs EXCEPT ![i] = Document(uri, text)]

RemoveDocument(docs, uri) ==
  LET i == FindDocument(docs, uri) IN IF i = 0 THEN docs ELSE RemoveAt(docs, i)

\* validate_document: the results go to the document, if it is there still.
Validated(docs, uri, text) ==
  LET i == FindDocument(docs, uri) IN
  IF i = 0 THEN docs
  ELSE [docs EXCEPT ![i].symbols = Compiled[text].symbols,
                    ![i].tokens = Compiled[text].tokens]

-----------------------------------------------------------------------------
(* The server's loop, lsp_server_run.                                      *)

Reads(method) ==
  /\ status = "running" /\ stdin # << >>
  /\ Head(stdin).method = method
  /\ stdin' = Tail(stdin)

\* Mutant: what does not fit into a full pipe is not written.
WriteIfRoom(m) ==
  IF phase = "gone" \/ Len(stdout) = OUT_CAPACITY THEN stdout' = stdout
  ELSE stdout' = Append(stdout, m)

\* lsp_transport_write; nobody reads what is written after the editor died.
Write(m) ==
  IF phase = "gone" THEN stdout' = stdout
  ELSE Len(stdout) < OUT_CAPACITY /\ stdout' = Append(stdout, m)

SendResponse(id, answer) == Write([kind |-> "response", id |-> id, answer |-> answer])
PublishDiagnostics(uri, diags) == Write([kind |-> "diagnostics", uri |-> uri, diags |-> diags])

HandleInitialize ==
  /\ Reads("initialize")
  /\ SendResponse(Head(stdin).id, Answer("capabilities", << >>))
  /\ UNCHANGED <<server, editor>>

\* "initialized", and any method that the server does not know.
HandleOther ==
  /\ Reads("initialized")
  /\ UNCHANGED <<stdout, server, editor>>

HandleShutdown ==
  /\ Reads("shutdown")
  /\ shutdownRequested' = TRUE
  /\ SendResponse(Head(stdin).id, NULL_ANSWER)
  /\ UNCHANGED <<status, documents, editor>>

ExitStatus == IF shutdownRequested THEN "0" ELSE "1"

HandleExit ==
  /\ Reads("exit")
  /\ status' = ExitStatus
  /\ UNCHANGED <<stdout, shutdownRequested, documents, editor>>

\* handle_did_open and handle_did_change do the same with a text.
HandleDidOpenOrChange ==
  /\ Reads("didOpen") \/ Reads("didChange")
  /\ LET m == Head(stdin) IN
       /\ documents' = Validated(UpsertDocument(documents, m.uri, m.text), m.uri, m.text)
       /\ PublishDiagnostics(m.uri, Compiled[m.text].diags)
  /\ UNCHANGED <<status, shutdownRequested, editor>>

\* The text of the message, or else the one that is stored.
HandleDidSave ==
  /\ Reads("didSave")
  /\ LET m == Head(stdin)
         i == FindDocument(documents, m.uri)
         text == IF m.text = NONE /\ i # 0 THEN documents[i].text ELSE m.text
     IN IF text = NONE THEN UNCHANGED <<documents, stdout>>
        ELSE /\ documents' = Validated(documents, m.uri, text)
             /\ PublishDiagnostics(m.uri, Compiled[text].diags)
  /\ UNCHANGED <<status, shutdownRequested, editor>>

\* Mutant: the diagnostics of a closed document are not cleared.
CloseSilently ==
  /\ Reads("didClose")
  /\ documents' = RemoveDocument(documents, Head(stdin).uri)
  /\ UNCHANGED <<stdout, status, shutdownRequested, editor>>

HandleDidClose ==
  /\ Reads("didClose")
  /\ documents' = RemoveDocument(documents, Head(stdin).uri)
  /\ PublishDiagnostics(Head(stdin).uri, {})
  /\ UNCHANGED <<status, shutdownRequested, editor>>

\* The answers of handle_definition, handle_hover and so on, given the
\* document, in a state with these documents.
Location(sym) == IF sym = NONE THEN NULL_ANSWER ELSE Answer("location", <<sym.line - 1>>)

DefinitionAnswer(doc, line) ==
  Location(FindSymbolAt(doc.symbols, WordAt(Content[doc.text], line), line))

HoverAnswer(doc, line) ==
  LET word == WordAt(Content[doc.text], line)
      sym == FindSymbolAt(doc.symbols, word, line)
  IN IF word \in BuiltinTypes THEN Answer("type", << >>)
     ELSE IF sym = NONE THEN NULL_ANSWER
     ELSE IF sym.hover THEN Answer("symbol", <<sym.line - 1>>) ELSE NULL_ANSWER

ReferencesAnswer(doc, line) ==
  LET word == WordAt(Content[doc.text], line)
      lines == [i \in DOMAIN Content[doc.text].words |-> i - 1]
  IN IF word = NONE THEN Answer("list", << >>)
     ELSE Answer("list", Keep(lines, {l \in Nat : WordAt(Content[doc.text], l) = word}))

DocumentSymbolAnswer(doc) ==
  LET own == Keep(doc.symbols, {s \in ToSet(doc.symbols) : ~ s.is_std})
  IN Answer("list", [i \in DOMAIN own |-> own[i].line - 1])

\* What is answered when the document is not open.
Unknown(method) ==
  CASE method \in {"definition", "hover"} -> NULL_ANSWER
    [] method \in {"references", "documentSymbol"} -> Answer("list", << >>)
    [] method = "semanticTokens" -> Answer("tokens", << >>)

\* The requests that only read the document.
HandleLookup ==
  \E method \in Queries \ {"semanticTokens"} :
    /\ Reads(method)
    /\ LET m == Head(stdin)
           i == FindDocument(documents, m.uri)
       IN SendResponse(m.id,
            IF i = 0 THEN Unknown(method)
            ELSE CASE method = "definition" -> DefinitionAnswer(documents[i], m.line)
                   [] method = "hover" -> HoverAnswer(documents[i], m.line)
                   [] method = "references" -> ReferencesAnswer(documents[i], m.line)
                   [] method = "documentSymbol" -> DocumentSymbolAnswer(documents[i]))
    /\ UNCHANGED <<server, editor>>

\* Mutant: nothing is answered for a document that is not open.
SkipUnknownTokens ==
  /\ Reads("semanticTokens")
  /\ LET m == Head(stdin)
         i == FindDocument(documents, m.uri)
     IN IF i = 0 THEN UNCHANGED stdout
        ELSE SendResponse(m.id, Answer("tokens", Deltas(SortTokens(documents[i].tokens))))
  /\ UNCHANGED <<server, editor>>

\* handle_semantic_tokens_full sorts the document's tokens where they are.
HandleSemanticTokens ==
  /\ Reads("semanticTokens")
  /\ LET m == Head(stdin)
         i == FindDocument(documents, m.uri)
     IN IF i = 0
        THEN UNCHANGED documents /\ SendResponse(m.id, Unknown("semanticTokens"))
        ELSE LET sorted == SortTokens(documents[i].tokens) IN
               /\ documents' = [documents EXCEPT ![i].tokens = sorted]
               /\ SendResponse(m.id, Answer("tokens", Deltas(sorted)))
  /\ UNCHANGED <<status, shutdownRequested, editor>>

\* Mutant: the rest of a message that was cut short is waited for.
EndAtEof ==
  /\ status = "running" /\ phase = "gone" /\ stdin = << >>
  /\ status' = ExitStatus
  /\ UNCHANGED <<stdin, stdout, shutdownRequested, documents, editor>>

\* lsp_transport_read returns NULL: end of file, or a message cut short.
EndOfInput ==
  /\ status = "running" /\ phase = "gone"
  /\ stdin # << >> => Head(stdin).method = "truncated"
  /\ status' = ExitStatus
  /\ UNCHANGED <<stdin, stdout, shutdownRequested, documents, editor>>

\* The system may end a process that writes to a pipe without a reader.
BrokenPipe ==
  /\ status = "running" /\ phase = "gone"
  /\ stdin # << >>
  /\ Head(stdin).method \notin {"initialized", "exit", "truncated"}
  /\ status' = "killed"
  /\ UNCHANGED <<stdin, stdout, shutdownRequested, documents, editor>>

ServerStep ==
  \/ HandleInitialize \/ HandleOther \/ HandleShutdown \/ HandleExit
  \/ HandleDidOpenOrChange \/ HandleDidSave \/ HandleDidClose
  \/ HandleLookup \/ HandleSemanticTokens
  \/ EndOfInput \/ BrokenPipe

-----------------------------------------------------------------------------
(* The editor.                                                             *)

Send(m) == Len(stdin) < IN_CAPACITY /\ stdin' = Append(stdin, m)

Request(id, method, text, line) ==
  [id |-> id, method |-> method, text |-> text, line |-> line]

Start ==
  /\ phase = "start"
  /\ Send([method |-> "initialize", id |-> INITIALIZE])
  /\ pending' = {Request(INITIALIZE, "initialize", NONE, 0)}
  /\ phase' = "starting"
  /\ UNCHANGED <<stdout, server, buffers, shown, sent>>

Initialized ==
  /\ phase = "started"
  /\ Send([method |-> "initialized"])
  /\ phase' = "ready"
  /\ UNCHANGED <<stdout, server, buffers, shown, pending, sent>>

Shutdown ==
  /\ phase = "ready"
  /\ Send([method |-> "shutdown", id |-> SHUTDOWN])
  /\ pending' = pending \cup {Request(SHUTDOWN, "shutdown", NONE, 0)}
  /\ phase' = "stopping"
  /\ UNCHANGED <<stdout, server, buffers, shown, sent>>

Exit ==
  /\ phase = "stopped"
  /\ Send([method |-> "exit"])
  /\ phase' = "exiting"
  /\ UNCHANGED <<stdout, server, buffers, shown, pending, sent>>

MaySend == phase = "ready" /\ sent < MAX_SENT

Open(uri, text) ==
  /\ MaySend /\ buffers[uri] = NONE
  /\ Send([method |-> "didOpen", uri |-> uri, text |-> text])
  /\ buffers' = [buffers EXCEPT ![uri] = text] /\ sent' = sent + 1
  /\ UNCHANGED <<stdout, server, phase, shown, pending>>

Change(uri, text) ==
  /\ MaySend /\ buffers[uri] # NONE
  /\ Send([method |-> "didChange", uri |-> uri, text |-> text])
  /\ buffers' = [buffers EXCEPT ![uri] = text] /\ sent' = sent + 1
  /\ UNCHANGED <<stdout, server, phase, shown, pending>>

\* With its text or without.
Save(uri, text) ==
  /\ MaySend /\ buffers[uri] # NONE
  /\ Send([method |-> "didSave", uri |-> uri, text |-> text])
  /\ sent' = sent + 1
  /\ UNCHANGED <<stdout, server, phase, buffers, shown, pending>>

Close(uri) ==
  /\ MaySend /\ buffers[uri] # NONE
  /\ Send([method |-> "didClose", uri |-> uri])
  /\ buffers' = [buffers EXCEPT ![uri] = NONE] /\ sent' = sent + 1
  /\ UNCHANGED <<stdout, server, phase, shown, pending>>

Ask(method, uri, line) ==
  /\ MaySend
  /\ Send([method |-> method, uri |-> uri, line |-> line, id |-> sent + 1])
  /\ pending' = pending \cup {Request(sent + 1, method, buffers[uri], line)}
  /\ sent' = sent + 1
  /\ UNCHANGED <<stdout, server, phase, buffers, shown>>

\* The editor takes a message from its end of the pipe.
Receive ==
  /\ phase # "gone" /\ stdout # << >>
  /\ stdout' = Tail(stdout)
  /\ LET m == Head(stdout) IN
     \/ /\ m.kind = "diagnostics"
        /\ shown' = [shown EXCEPT ![m.uri] = m.diags]
        /\ UNCHANGED <<phase, pending>>
     \/ /\ m.kind = "response"
        /\ pending' = {p \in pending : p.id # m.id}
        /\ phase' = CASE m.id = INITIALIZE -> "started"
                      [] m.id = SHUTDOWN -> "stopped"
                      [] OTHER -> phase
        /\ UNCHANGED shown
  /\ UNCHANGED <<stdin, server, buffers, sent>>

\* The editor dies, at times in the middle of a message.
Die ==
  /\ phase # "gone" /\ phase' = "gone"
  /\ \/ stdin' = stdin
     \/ Send([method |-> "truncated"])
  /\ stdout' = << >> /\ pending' = {}
  /\ UNCHANGED <<server, buffers, shown, sent>>

EditorStep ==
  \/ Start \/ Initialized \/ Shutdown \/ Exit \/ Die \/ Receive
  \/ \E uri \in Uris :
       \/ \E text \in Texts : Open(uri, text) \/ Change(uri, text)
       \/ \E text \in {buffers[uri], NONE} : Save(uri, text)
       \/ Close(uri)
       \/ \E method \in Positional, line \in Lines : Ask(method, uri, line)
       \/ \E method \in Queries \ Positional : Ask(method, uri, 0)

Init ==
  /\ stdin = << >> /\ stdout = << >>
  /\ status = "running" /\ shutdownRequested = FALSE /\ documents = << >>
  /\ phase = "start" /\ sent = 0 /\ pending = {}
  /\ buffers = [uri \in Uris |-> NONE] /\ shown = [uri \in Uris |-> {}]

Next == ServerStep \/ EditorStep

Spec == Init /\ [][Next]_vars
\* The server's loop keeps running, and the editor reads what it is sent.
FairSpec == Spec /\ WF_vars(ServerStep) /\ WF_vars(Receive)

-----------------------------------------------------------------------------
(* Properties.                                                             *)

Documents == [uri : Uris, text : Texts, symbols : Seq(Entries), tokens : Seq(Positions)]

\* The pipes keep to their capacities and the store to its documents.
TypeOK ==
  /\ Len(stdin) <= IN_CAPACITY /\ Len(stdout) <= OUT_CAPACITY
  /\ status \in {"running", "0", "1", "killed"} /\ shutdownRequested \in BOOLEAN
  /\ documents \in Seq(Documents)
  /\ phase \in {"start", "starting", "started", "ready", "stopping", "stopped",
                "exiting", "gone"}
  /\ buffers \in [Uris -> Texts \cup {NONE}]
  /\ shown \in [Uris -> SUBSET {"lex", "parse", "sema"}]
  /\ sent \in 0 .. MAX_SENT
  /\ \A p \in pending : p.id \in INITIALIZE .. SHUTDOWN

Alive == status = "running" /\ phase # "gone"

\* When the server has read everything, it has exactly the documents that are
\* open in the editor, once each, with their text, and what is derived from it
\* is of that text and of no earlier one (upsert_document, validate_document).
DocumentsCurrent ==
  Alive /\ stdin = << >> =>
    \A uri \in Uris :
      LET held == {i \in DOMAIN documents : documents[i].uri = uri}
          now == Compiled[buffers[uri]]
      IN IF buffers[uri] = NONE THEN held = {}
         ELSE \E i \in DOMAIN documents :
                /\ held = {i} /\ documents[i].text = buffers[uri]
                /\ documents[i].symbols = now.symbols
                /\ Rearranged(documents[i].tokens, now.tokens)

\* When both pipes are empty, the editor shows the diagnostics of the texts it
\* has open, and none of a document that it closed (publish_diagnostics).
DiagnosticsCurrent ==
  Alive /\ stdin = << >> /\ stdout = << >> =>
    \A uri \in Uris :
      shown[uri] = IF buffers[uri] = NONE THEN {} ELSE Compiled[buffers[uri]].diags

\* The entries that a name on a line may stand for: the lowest ones of the
\* document at or above the line, else those of the library, else any.
Named(text, name) == {s \in ToSet(Compiled[text].symbols) : s.name = name}
Nearest(text, name, line) ==
  LET above == {s \in Named(text, name) : s.line - 1 <= line}
      own == {s \in above : ~ s.is_std}
      lowest(S) == {s \in S : \A r \in S : r.line <= s.line}
  IN IF own # {} THEN lowest(own)
     ELSE IF above # {} THEN lowest(above) ELSE Named(text, name)

\* The positions that differences stand for.
Decoded(deltas) ==
  LET at[i \in DOMAIN deltas] ==
        LET p == IF i = 1 THEN <<0, 0>> ELSE at[i - 1]
            d == deltas[i]
        IN IF d[1] = 0 THEN <<p[1], p[2] + d[2]>> ELSE <<p[1] + d[1], d[2]>>
  IN at

Ascending(s) == \A i, j \in DOMAIN s : i < j => s[i] < s[j]

\* What an answer to a request about a text has to be.
IsAnswer(p, answer) ==
  LET word == WordAt(Content[p.text], p.line)
      near == Nearest(p.text, word, p.line)
      place(kind, s) == Answer(kind, <<s.line - 1>>)
  IN IF p.method \in Queries /\ p.text = NONE THEN answer = Unknown(p.method)
     ELSE CASE p.method = "initialize" -> answer.kind = "capabilities"
            [] p.method = "shutdown" -> answer = NULL_ANSWER
            [] p.method = "definition" ->
                 IF near = {} THEN answer = NULL_ANSWER
                 ELSE \E s \in near : answer = place("location", s)
            [] p.method = "hover" ->
                 IF word \in BuiltinTypes THEN answer.kind = "type"
                 ELSE IF near = {} THEN answer = NULL_ANSWER
                 ELSE \E s \in near :
                        answer = IF s.hover THEN place("symbol", s) ELSE NULL_ANSWER
            [] p.method = "references" ->
                 /\ Ascending(answer.at)
                 /\ ToSet(answer.at) =
                      {l \in 0 .. (Len(Content[p.text].words) - 1) :
                         word # NONE /\ Content[p.text].words[l + 1] = word}
            [] p.method = "documentSymbol" ->
                 ToSet(answer.at) =
                   {s.line - 1 : s \in {e \in ToSet(Compiled[p.text].symbols) : ~ e.is_std}}
            [] p.method = "semanticTokens" ->
                 LET at == Decoded(answer.at) IN
                   /\ Rearranged(at, Compiled[p.text].tokens)
                   /\ InOrder(at)

\* A response in the pipe is the only one to a request that waits for it, and
\* answers it for the text that the editor had when it asked, however many
\* changes it has made since (lsp_server_run serves messages in order).
AnswersMatch ==
  \A i \in DOMAIN stdout : stdout[i].kind = "response" =>
    /\ \E p \in pending : p.id = stdout[i].id /\ IsAnswer(p, stdout[i].answer)
    /\ \A j \in DOMAIN stdout \ {i} :
         stdout[j].kind = "response" => stdout[j].id # stdout[i].id

\* No request is lost: while the editor lives, each one that waits is in the
\* pipe to the server, or its response in the pipe back.  A server that ends
\* was told to, ends with success, and has read and answered everything
\* (lsp_server_run, lsp_server.c:1227-1283).
NothingLost ==
  phase # "gone" =>
    /\ \A p \in pending :
         \/ \E k \in DOMAIN stdin : stdin[k].method = p.method /\ stdin[k].id = p.id
         \/ \E i \in DOMAIN stdout : stdout[i].kind = "response" /\ stdout[i].id = p.id
    /\ status # "running" => status = "0" /\ stdin = << >> /\ pending = {}

\* Every request is answered, unless the editor dies: no lost response, and no
\* pair of full pipes.  The editor sends at most MAX_SENT messages, so each
\* has its answer when none waits.
EveryRequestAnswered == (pending # {}) ~> (pending = {})

\* The server ends with its editor: with success when it was shut down and told
\* to exit, and not at all later than the end of its input.
ServerEnds ==
  /\ (phase = "exiting") ~> (status = "0" \/ phase = "gone")
  /\ (phase = "gone") ~> (status # "running")
=============================================================================
