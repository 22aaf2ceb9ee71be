-------------------------------- MODULE Names --------------------------------
(***************************************************************************)
(* The tables of the semantic passes (struct Sema), how a name is looked   *)
(* up in them, and types, as they are written and as they are resolved.    *)
(* A name is the sequence of its parts: "a.f", "P.area" and "W__i32" are   *)
(* <<"a", "f">>, <<"P", "area">> and <<"W__i32">>.                         *)
(***************************************************************************)
EXTENDS Naturals, Sequences, SequencesExt, TLC

\* Types as they are written (ASTType).  The parts of an array are its
\* element and its size, those of a function its parameters and its result.
NoType == [k |-> "inferred"]
Name(n, args) == [k |-> "name", n |-> n, args |-> args]
Of(kind, parts) == [k |-> kind, parts |-> parts]
Size(n) == [k |-> "int", n |-> <<n>>]
Assoc(base, member) == [k |-> "assoc", n |-> base, member |-> member]

\* Types as they are resolved (Type); Nothing is a null pointer.
Type(kind, n) == [t |-> kind, n |-> n]
Compound(kind, parts) == [t |-> kind, parts |-> parts]
PrimNames == {<<"i32">>, <<"str">>, <<"bool">>, <<"unit">>}
Unit    == Type("prim", <<"unit">>)
ErrType == Type("err", <<"<err>">>)
Nothing == Type("null", << >>)
Given(type) == IF type = Nothing THEN ErrType ELSE type

\* Texts that may contain dots: one is written behind the other.
Glue(x, y) ==
  IF x = << >> THEN y ELSE IF y = << >> THEN x
  ELSE Front(x) \o << Last(x) \o Head(y) >> \o Tail(y)

GlueAll(texts, sep) ==
  FoldLeft(LAMBDA text, x : IF text = << >> THEN x ELSE Glue(Glue(text, sep), x),
           << >>, texts)

\* How a type is printed, and how it is spelt in the name of an instance.
RECURSIVE TypeName(_), MangledType(_)
TypeName(type) ==
  LET parts == [i \in DOMAIN type.parts |-> TypeName(type.parts[i])] IN
  CASE type.t = "slice" -> Glue(<<"[]">>, parts[1])
    [] type.t = "array" -> GlueAll(<< <<"[">>, parts[2], <<"]">>, parts[1] >>, << >>)
    [] type.t = "ptr"   -> Glue(<<"*">>, parts[1])
    [] type.t = "tuple" -> GlueAll(<< <<"(">>, GlueAll(parts, <<", ">>), <<")">> >>, << >>)
    [] type.t = "fn"    -> GlueAll(<< <<"fn(">>, GlueAll(Front(parts), <<", ">>), <<")">>,
                                      IF Last(type.parts) = Unit THEN << >>
                                      ELSE Glue(<<" -> ">>, Last(parts)) >>, << >>)
    [] OTHER -> type.n

MangledType(type) ==
  LET parts == [i \in DOMAIN type.parts |-> MangledType(type.parts[i])] IN
  CASE type.t = "slice" -> Glue(<<"LR">>, parts[1])
    [] type.t = "array" -> GlueAll(<< <<"L">>, parts[2], <<"R">>, parts[1] >>, << >>)
    [] type.t = "ptr"   -> Glue(<<"ptr_">>, parts[1])
    [] type.t = "tuple" -> GlueAll(parts, << >>)
    [] type.t = "fn"    -> GlueAll(<< <<"fn">>, GlueAll(Front(parts), << >>),
                                      IF Last(type.parts) = Unit THEN << >>
                                      ELSE Glue(<<"->">>, Last(parts)) >>, << >>)
    [] OTHER -> type.n

Mangled(base, types) ==
  Glue(Glue(base, <<"__">>),
       GlueAll([i \in DOMAIN types |-> MangledType(types[i])], <<"_">>))

-----------------------------------------------------------------------------
(* The state of the passes.  tab holds every table, by table and key: fn,  *)
(* gfn, struct, gstruct, enum, genum, alias, galias, var, pact, ctor and   *)
(* the symbols of the global scope, sym.  A struct or enum table holds the *)
(* key of a definition in defs, the function table the key of a signature  *)
(* in sigs: entries that are imported share it.  tp are the type           *)
(* parameters in scope, mod the current module, << >> for none, self the   *)
(* type that Self is, dir where module files are searched, exts the        *)
(* generic extensions, insts the queue of the mono pass, types the types   *)
(* cached in the nodes of functions, named the names that registration     *)
(* rewrote, added the methods appended to an extension, loaded the         *)
(* declarations of module files.  out and outs carry results.  at, calls   *)
(* and made are history: what is being checked, where every call went, and *)
(* every instance of a generic type and of a method of one.                *)

NewSema(dir) ==
  [tab |-> << >>, defs |-> << >>, sigs |-> << >>, tp |-> << >>, mod |-> << >>,
   self |-> << >>, dir |-> dir, exts |-> << >>, insts |-> << >>, types |-> << >>,
   named |-> << >>, added |-> << >>, loaded |-> << >>, errs |-> {},
   out |-> Unit, outs |-> << >>, at |-> << >>, calls |-> {}, made |-> {}]

Out(s, type) == [s EXCEPT !.out = type]
Fail(s, what, name) ==
  [s EXCEPT !.errs = @ \cup {[err |-> what, name |-> name]}, !.out = ErrType]

Has(s, t, name) == <<t, name>> \in DOMAIN s.tab
Put(s, t, name, value) == [s EXCEPT !.tab = (<<t, name>> :> value) @@ @]

\* module_fallback_lookup: the name as it is, then under the current module.
Key(s, t, name) == IF Has(s, t, name) THEN name ELSE s.mod \o name
Known(s, t, name) == Has(s, t, name) \/ (s.mod # << >> /\ Has(s, t, s.mod \o name))
Get(s, t, name) == s.tab[<<t, Key(s, t, name)>>]

Sig(s, name) == s.sigs[Get(s, "fn", name)]
Def(s, kind, name) == s.defs[Get(s, kind, name)]

Define(s, name, sym) == Put(s, "sym", name, sym)
IsModule(s, name) == Has(s, "sym", name) /\ s.tab[<<"sym", name>>].t = "module"

\* The table of type parameters after the first i of them are pushed.
BoundTo(tp, params, types, i) ==
  FoldLeft(LAMBDA b, j : (params[j].n :> types[j]) @@ b, tp, [j \in 1 .. i |-> j])

\* sema_push_type_params.
Bind(s, params, types) ==
  [s EXCEPT !.tp = BoundTo(@, params, types, Len(params))]

\* Mutant: what was bound stays bound.
StillBound(s, tp, params, types) == s

\* sema_pop_type_params: each name gets back what it was when it was pushed on
\* tp, in the order in which they were pushed.
Unbind(s, tp, params, types) ==
  LET Restore(now, i) ==
        LET saved == BoundTo(tp, params, types, i - 1)
            n == params[i].n IN
        IF n \in DOMAIN saved THEN (n :> saved[n]) @@ now
        ELSE [x \in DOMAIN now \ {n} |-> now[x]] IN
  [s EXCEPT !.tp = FoldLeft(Restore, @, [i \in DOMAIN params |-> i])]
=============================================================================
