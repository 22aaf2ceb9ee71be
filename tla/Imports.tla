------------------------------- MODULE Imports -------------------------------
(***************************************************************************)
(* What a use declaration brings into the tables (register_use_decl in     *)
(* resolve_module.c), and the methods that a pact asks for.                *)
(***************************************************************************)
EXTENDS Names

BeginsWithSuper(segment) == Len(segment) >= 5 /\ SubSeq(segment, 1, 5) = "super"

\* resolve_super_path: one level up for each leading super, then the rest.
RECURSIVE SuperPath(_, _)
SuperPath(mod, path) ==
  IF path # << >> /\ Head(path) = "super"
  THEN SuperPath(IF mod = << >> THEN mod ELSE Front(mod), Tail(path))
  ELSE mod \o path

\* The path as the tables know it.
UsePath(s, path) ==
  IF BeginsWithSuper(path[1]) THEN SuperPath(s.mod, path)
  ELSE IF path[1] = "self" /\ Len(path) > 1 THEN Tail(path) ELSE path

UnderModules(s, d) == {<< >>} \cup (IF d.pub /\ s.mod # << >> THEN {s.mod} ELSE {})

\* Mutant: the names in the modules inside are taken for names of the module.
Anywhere(name, path) == path # << >> /\ IsStrictPrefix(path, name)

\* Is it the name of something that the module itself declares?
Directly(name, path) == path # << >> /\ Len(name) = Len(path) + 1 /\ Front(name) = path

\* Mutant: only the named imports that are not functions are asked.
FnsArePub(s, kind, value) ==
  CASE kind \in {"gfn", "var", "pact"} -> value.pub
    [] OTHER -> TRUE

IsPub(s, kind, value) ==
  CASE kind = "fn" -> s.sigs[value].pub
    [] kind \in {"gfn", "var", "pact"} -> value.pub
    [] OTHER -> TRUE

\* The symbol that goes with an entry that is imported.
ImportedSym(kind, value) ==
  IF kind \in {"struct", "enum"} THEN Type(kind, value[2]) ELSE Type(kind, value.n)

\* register_wildcard_use: the visible names of every table, unless the bare
\* name is taken; pub use gives them a name in this module too.  Templates of
\* types are not imported.
ImportAll(s, d, path) ==
  LET kinds == {"fn", "gfn", "struct", "enum", "alias", "var", "pact"}
      Inside(k) == k[1] \in kinds /\ Directly(k[2], path) /\ IsPub(s, k[1], s.tab[k])
      found == {k \in DOMAIN s.tab : Inside(k)}
      news == {<<k, p>> \in found \X UnderModules(s, d) :
                 p # << >> \/ <<k[1], <<Last(k[2])>> >> \notin DOMAIN s.tab}
      Entry(x) == <<x[1][1], Append(x[2], Last(x[1][2]))>>
      entries == [y \in {Entry(x) : x \in news} |->
                    s.tab[(CHOOSE x \in news : Entry(x) = y)[1]]]
      syms == [y \in {<<"sym", z[2]>> : z \in {w \in DOMAIN entries :
                                                w[1] \in {"struct", "enum", "var"}}} |->
                 LET z == CHOOSE z \in DOMAIN entries :
                            z[2] = y[2] /\ z[1] \in {"struct", "enum", "var"} IN
                 ImportedSym(z[1], entries[z])] IN
  [s EXCEPT !.tab = syms @@ entries @@ @]

\* One name of a list: the first table that has it decides.
Import(s, d, path, item) ==
  LET name == Append(path, item.n)
      tables == SelectSeq(<<"fn", "gfn", "struct", "enum", "alias", "var", "pact">>,
                          LAMBDA t : IF t = "var" THEN Has(s, t, name) ELSE Known(s, t, name))
      kind == tables[1]
      value == Get(s, kind, name)
      Insert(r, p) ==
        LET as == Append(p, item.as)
            x == Put(r, kind, as, value) IN
        IF kind \in {"struct", "enum", "var"} THEN Define(x, as, ImportedSym(kind, value)) ELSE x IN
  CASE tables = << >> -> Fail(s, "not found in module", name)
    [] tables # << >> /\ ~ IsPub(s, kind, value) -> Fail(s, "private", name)
    [] OTHER -> FoldLeft(Insert, s, SetToSeq(UnderModules(s, d)))

RegisterUse(s, d) ==
  LET path == UsePath(s, d.path) IN
  IF BeginsWithSuper(d.path[1]) /\ s.mod = << >> THEN Fail(s, "super outside of a module", d.path)
  ELSE IF d.star THEN ImportAll(s, d, path)
  ELSE FoldLeft(LAMBDA r, item : Import(r, d, path, item), s, d.names)

-----------------------------------------------------------------------------
(* Pacts (collect_pact_methods in resolve_register.c).                     *)

\* Mutant: the methods of super pacts are not asked for.
OwnPactMethods(s, pact) == pact.methods

\* collect_pact_methods: those of the super pacts first, one of each name.
RECURSIVE PactMethods(_, _)
PactMethods(s, pact) ==
  LET Above(all, q) == IF Known(s, "pact", q) THEN all \o PactMethods(s, Get(s, "pact", q))
                       ELSE all
      AddNew(all, m) == IF \E x \in Range(all) : x.n = m.n THEN all ELSE Append(all, m) IN
  FoldLeft(AddNew, << >>, FoldLeft(Above, << >>, pact.supers) \o pact.methods)
=============================================================================
