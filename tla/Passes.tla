------------------------------- MODULE Passes --------------------------------
(***************************************************************************)
(* Resolution of types, instantiation of generic types and functions, the  *)
(* checking of calls, and the registration of declarations                 *)
(* (resolve_type.c, sema_generic.c, resolve_fn.c, check_call.c,            *)
(* check_method.c, check_generic_call.c, resolve_struct.c, resolve_ext.c,  *)
(* resolve_register.c).  The passes call each other: to resolve a type is  *)
(* to instantiate a template, to instantiate it is to check the bodies of  *)
(* its extension methods, and to check a body is to resolve types.  Every  *)
(* operator takes the state of the passes (Names) and returns the state it *)
(* leaves, with its result in out or outs.                                 *)
(*                                                                         *)
(* Of a body the calls are kept, in the order in which they are checked.   *)
(* An expression is                                                        *)
(*   [e |-> "arg", i]       a parameter, 0 for the receiver                *)
(*   [e |-> "value", of]    a value of the written type of                 *)
(*   [e |-> "call"]         n<targs>(args)                                 *)
(*   [e |-> "method"]       on.n(args)                                     *)
(*   [e |-> "path"]         path::n<targs>(args)                           *)
(***************************************************************************)
EXTENDS Imports

\* Do(s, job) is the one point through which the passes call each other.
RECURSIVE Do(_, _), Satisfies(_, _, _), ToAst(_), InferFrom(_, _, _, _)

Resolve(s, a) == Do(s, [do |-> "resolve", a |-> a])
Instantiate(s, kind, g, args) == Do(s, [do |-> "instantiate", kind |-> kind, g |-> g, args |-> args])
CheckExpr(s, e, env) == Do(s, [do |-> "expr", e |-> e, env |-> env])
CheckNamedCall(s, e, n, env) == Do(s, [do |-> "named call", e |-> e, n |-> n, env |-> env])
CheckMethodCall(s, e, env) == Do(s, [do |-> "method call", e |-> e, env |-> env])
CheckMethod(s, m, owner, type) == Do(s, [do |-> "method", m |-> m, owner |-> owner, type |-> type])
RegisterSig(s, name, d, pub) == Do(s, [do |-> "signature", name |-> name, d |-> d, pub |-> pub])
CheckFn(s, d, name) == Do(s, [do |-> "fn", d |-> d, name |-> name])
Register(s, d, name) == Do(s, [do |-> "register", d |-> d, name |-> name])
RegisterExt(s, d) == Do(s, [do |-> "extend", d |-> d])
EnforceExt(s, d) == Do(s, [do |-> "enforce", d |-> d])

\* Each of a sequence of types, parameters or arguments, in turn.
ResolveAll(s, written) ==
  FoldLeft(LAMBDA r, a : LET x == Resolve(r, a) IN
                         [x EXCEPT !.outs = Append(r.outs, Given(x.out))],
           [s EXCEPT !.outs = << >>], written)

CheckAll(s, exprs, env) ==
  FoldLeft(LAMBDA r, e : LET x == CheckExpr(r, e, env) IN
                         [x EXCEPT !.outs = Append(r.outs, x.out)],
           [s EXCEPT !.outs = << >>], exprs)

-----------------------------------------------------------------------------
(* Signatures (resolve_fn.c).                                              *)

\* The types in the nodes of a function: resolved once, unless type parameters
\* are in scope.  out is the result, outs are the parameters.
Signature(s, d) ==
  IF DOMAIN s.tp = {} /\ d.id \in DOMAIN s.types
  THEN [s EXCEPT !.out = s.types[d.id].ret, !.outs = s.types[d.id].params]
  ELSE LET ret == Resolve(s, d.ret)
           all == [ResolveAll(ret, d.params) EXCEPT !.out = ret.out] IN
       IF DOMAIN s.tp # {} THEN all
       ELSE [all EXCEPT !.types = (d.id :> [ret |-> all.out, params |-> all.outs]) @@ @]

\* build_fn_sig, and the entry in the function table.
NoSelf(s, name, d) ==
  IF \E i \in DOMAIN d.params : d.params[i] = Name(<<"Self">>, << >>)
  THEN Fail(s, "Self as a parameter", name) ELSE s
EnterSig(s, name, d, pub) ==
  LET key == <<name, d.id>>
      sig == [params |-> s.outs, pub |-> pub, id |-> d.id,
              ret |-> IF s.out = Nothing THEN Unit ELSE s.out] IN
  Put([s EXCEPT !.sigs = (key :> sig) @@ @], "fn", name, key)

\* register_method_sig.
RegisterMethod(s, kind, owner, target, m) ==
  LET listed == [s EXCEPT !.defs[<<kind, owner>>].methods =
                            Append(@, [n |-> m.n, recv |-> m.recv])] IN
  RegisterSig(listed, Append(target, m.n), m, FALSE)

-----------------------------------------------------------------------------
(* Generic structs and enums (sema_generic.c).                             *)

MinRequired(params) ==
  Len(SelectSeq([i \in DOMAIN params |->
        \E j \in i .. Len(params) : params[j].default = NoType], LAMBDA needed : needed))

CountOk(params, args) == Len(args) \in MinRequired(params) .. Len(params)

\* The arguments as they are written, then the defaults of the others.
Filled(params, args) ==
  args \o [i \in 1 .. Len(params) - Len(args) |-> params[Len(args) + i].default]

\* Mutant: the methods of the first extension only.
FirstFitting(s, g, types) ==
  LET all == SelectSeq(s.exts, LAMBDA x : x.target = g.n /\ Len(x.tps) = Len(types)) IN
  IF all = << >> THEN << >> ELSE <<all[1]>>

\* The extensions of a template.
Fitting(s, g, types) ==
  SelectSeq(s.exts, LAMBDA x : x.target = g.n /\ Len(x.tps) = Len(types))

\* instantiate_generic_ext_methods: all the methods of an extension are
\* registered before the body of the first is checked.  method_checker is set:
\* both drivers call sema_enable_method_checking first (pipeline.c:329,
\* lsp_server.c:528).
ExtendInstance(s, g, name, kind, types) ==
  LET Extend(r, x) ==
        LET Listed(q, m) ==
              [RegisterMethod(q, kind, name, name, m) EXCEPT
                 !.made = @ \cup {[n |-> Append(name, m.n), id |-> m.id, tps |-> x.tps,
                                   types |-> types]}]
            Check(q, m) == CheckMethod(q, m, name, Type(kind, name))
            b == Bind(r, x.tps, types) IN
        Unbind(FoldLeft(Check, FoldLeft(Listed, b, x.methods), x.methods),
               r.tp, x.tps, types) IN
  FoldLeft(Extend, s, Fitting(s, g, types))

\* The stub that struct_create_stub or enum_create_stub puts in the tables.
Stub(s, kind, name) ==
  LET def == [methods |-> << >>, fields |-> << >>, assocs |-> << >>, embedded |-> << >>] IN
  Put(Put([s EXCEPT !.defs = (<<kind, name>> :> def) @@ @], kind, name, <<kind, name>>),
      "alias", name, Type(kind, name))

\* struct_resolve_members, enum_resolve_members: fields and payloads.
Members(s, kind, g, name) ==
  LET f == ResolveAll(s, [i \in DOMAIN g.fields |-> g.fields[i].of]) IN
  [f EXCEPT !.defs[<<kind, name>>].fields =
     [i \in DOMAIN g.fields |-> [n |-> g.fields[i].n, of |-> f.outs[i]]]]

\* The instance of that name: its stub is known while its own members are
\* resolved.
MakeInstance(s, kind, g, types, name) ==
  LET d == [Members(Stub(Bind(s, g.tps, types), kind, name), kind, g, name) EXCEPT
              !.made = @ \cup {[n |-> name, id |-> g.id, tps |-> g.tps, types |-> types]}] IN
  Out(Unbind(ExtendInstance(d, g, name, kind, types), s.tp, g.tps, types), Type(kind, name))

\* instantiate_generic_type: an instance that is known is not made again.
InstanceOf(s, kind, g, types, name) ==
  IF Known(s, kind, name) THEN Out(s, Get(s, "alias", name))
  ELSE MakeInstance(s, kind, g, types, name)
InstantiateType(s, kind, g, args) ==
  LET r == ResolveAll(s, Filled(g.tps, args)) IN
  IF ~ CountOk(g.tps, args) THEN Fail(s, "wrong number of type arguments", g.n)
  ELSE InstanceOf(r, kind, g, r.outs, Mangled(g.n, r.outs))

-----------------------------------------------------------------------------
(* Types (resolve_type.c).                                                 *)

\* resolve_generic_type_alias: an argument is bound before the next one is
\* resolved, and in the end the names are removed.
UseAlias(s, g, args) ==
  LET written == Filled(g.tps, args)
      BindNext(r, i) == LET x == Resolve(r, written[i]) IN
                        [x EXCEPT !.tp = (g.tps[i].n :> Given(x.out)) @@ @]
      bound == FoldLeft(BindNext, s, [i \in DOMAIN written |-> i])
      r == Resolve(bound, g.of) IN
  IF ~ CountOk(g.tps, args) THEN Fail(s, "wrong number of type arguments", g.n)
  ELSE [r EXCEPT !.tp = [n \in DOMAIN @ \ {g.tps[i].n : i \in DOMAIN g.tps} |-> @[n]]]

ResolveName(s, a) ==
  LET isSelf == a.n = <<"Self">>
      n    == IF isSelf THEN s.self ELSE a.n
      args == IF isSelf THEN << >> ELSE a.args IN
  CASE n = << >> -> Fail(s, "Self outside of a type", a.n)
    [] n \in PrimNames -> Out(s, Type("prim", n))
    [] n \in DOMAIN s.tp -> Out(s, s.tp[n])
    [] Known(s, "alias", n) -> Out(s, Get(s, "alias", n))
    [] args # << >> /\ Known(s, "galias", n) -> UseAlias(s, Get(s, "galias", n), args)
    [] args # << >> /\ Known(s, "gstruct", n) ->
         Instantiate(s, "struct", Get(s, "gstruct", n), args)
    [] args # << >> /\ Known(s, "genum", n) ->
         Instantiate(s, "enum", Get(s, "genum", n), args)
    [] OTHER -> Fail(s, "unknown type", n)

\* T::Item: the first associated type of that name, of the struct or else of
\* the enum called like the type.
ResolveAssoc(s, a) ==
  LET name == IF a.n = <<"Self">> THEN s.self
              ELSE IF a.n \in DOMAIN s.tp /\ s.tp[a.n].t \in {"struct", "enum"}
                   THEN s.tp[a.n].n ELSE << >>
      Items(kind) == IF Known(s, kind, name)
                     THEN SelectSeq(Def(s, kind, name).assocs, LAMBDA x : x.n = a.member)
                     ELSE << >>
      items == Items("struct") \o Items("enum") IN
  IF name = << >> \/ items = << >> \/ items[1].of = NoType
  THEN Fail(s, "no such associated type", a.n)
  ELSE Resolve(s, items[1].of)

ResolveArray(s, a) ==
  LET elem == Resolve(s, a.parts[1])
      size == IF a.parts[2].k = "int" THEN Type("int", a.parts[2].n)
              ELSE IF a.parts[2].n \in DOMAIN elem.tp THEN elem.tp[a.parts[2].n]
              ELSE ErrType IN
  IF size.t # "int" THEN Fail(elem, "expected comptime integer", a.parts[2].n)
  ELSE Out(elem, Compound("array", <<elem.out, size>>))

\* resolve_ast_type.
ResolveType(s, a) ==
  CASE a.k = "inferred" -> Out(s, Nothing)
    [] a.k = "name"  -> ResolveName(s, a)
    [] a.k = "assoc" -> ResolveAssoc(s, a)
    [] a.k = "int"   -> Out(s, Type("int", a.n))
    [] a.k = "array" -> ResolveArray(s, a)
    [] OTHER -> LET r == ResolveAll(s, a.parts) IN Out(r, Compound(a.k, r.outs))

-----------------------------------------------------------------------------
(* Bounds (sema_generic.c, check_generic_call.c).                          *)

HasMethod(s, type, n) ==
  IF type.t \in {"struct", "enum"}
  THEN \E m \in Range(Def(s, type.t, type.n).methods) : m.n = n
  ELSE Known(s, "fn", Append(TypeName(type), n))

\* type_satisfies_bound: methods with a default need not be there.
Satisfies(s, type, bound) ==
  /\ Known(s, "pact", bound)
  /\ type.t \in {"struct", "enum"} => Known(s, type.t, type.n)
  /\ LET pact == Get(s, "pact", bound) IN
       /\ \A m \in Range(pact.methods) : m.has \/ HasMethod(s, type, m.n)
       /\ \A q \in Range(pact.supers) : Satisfies(s, type, q)

SatisfiesAll(s, type, bounds) == \A b \in Range(bounds) : Satisfies(s, type, b)

\* The type that a struct says its associated type of that name is.
Concrete(s, type, member) ==
  LET items == SelectSeq(Def(s, "struct", type.n).assocs,
                         LAMBDA x : x.n = member /\ x.of # NoType) IN
  IF items = << >> THEN NoType ELSE items[1].of

IsKnownStruct(s, type) == type.t = "struct" /\ Known(s, "struct", type.n)

\* validate_assoc_constraints, for one T: Pact<Item = i32>.
CheckConstraint(s, type, c) ==
  LET is   == Resolve(s, Concrete(s, type, c.n))
      must == Resolve(is, c.of) IN
  CASE s.out = ErrType \/ ~ IsKnownStruct(s, type) -> s
    [] Given(is.out) = ErrType -> Fail(is, "no associated type", <<c.n>>)
    [] must.out \notin {Nothing, ErrType, is.out} -> Fail(must, "another associated type", <<c.n>>)
    [] OTHER -> Out(must, Unit)

\* validate_where_clauses, for one T: Pact or T::Item: Pact.
CheckWhere(s, g, types, w) ==
  LET of == SelectSeq([i \in DOMAIN g.tps |-> i], LAMBDA i : g.tps[i].n = w.n)
      type == types[of[1]]
      is == Resolve(s, Concrete(s, type, w.member)) IN
  CASE s.out = ErrType \/ of = << >> -> s
    [] w.member = "" ->
         IF SatisfiesAll(s, type, w.bounds) THEN s ELSE Fail(s, "bound", w.n)
    [] ~ IsKnownStruct(s, type) -> s
    [] OTHER -> IF Given(is.out) = ErrType \/ SatisfiesAll(is, is.out, w.bounds)
                THEN Out(is, Unit) ELSE Fail(is, "bound", w.n)

\* Mutant: the bounds of a parameter are not looked at.
CheckWheresOnly(s, g, types) ==
  FoldLeft(LAMBDA r, w : CheckWhere(r, g, types, w), Out(s, Unit), g.wheres)

\* validate_generic_bounds; out is ErrType if one does not hold.
CheckBounds(s, g, types) ==
  LET unmet == {i \in DOMAIN g.tps : ~ SatisfiesAll(s, types[i], g.tps[i].bounds)}
      Constrain(r, i) ==
        FoldLeft(LAMBDA q, c : CheckConstraint(q, types[i], c), r, g.tps[i].assocs) IN
  IF unmet # {} THEN Fail(s, "bound", g.n)
  ELSE FoldLeft(LAMBDA r, w : CheckWhere(r, g, types, w),
                FoldLeft(Constrain, Out(s, Unit), [i \in DOMAIN g.tps |-> i]), g.wheres)

-----------------------------------------------------------------------------
(* Calls (check_call.c, check_generic_call.c, check_method.c).             *)

\* resolve_call: the function is n, the arguments have been checked.
ResolveCall(s, e, n, args) ==
  LET key == Get(s, "fn", n)
      sig == s.sigs[key]
      r == [s EXCEPT !.calls = @ \cup {[at |-> s.at, mod |-> s.mod, e |-> e, to |-> key]}] IN
  IF Len(args) # Len(sig.params) THEN Out(Fail(r, "number of arguments", n), sig.ret)
  ELSE IF \E i \in DOMAIN args : args[i] # sig.params[i] /\ ErrType \notin {args[i], sig.params[i]}
       THEN Out(Fail(r, "type mismatch", n), sig.ret)
       ELSE Out(r, sig.ret)

\* The signature of an instance of g is made here, its body in the mono pass.
DeclareInstance(s, g, types, name) ==
  LET p   == ResolveAll(s, g.params)
      ret == [Resolve(p, g.ret) EXCEPT
                !.outs = p.outs, !.insts = Append(@, [g |-> g, n |-> name, types |-> types]),
                !.made = @ \cup {[n |-> name, id |-> g.id, tps |-> g.tps, types |-> types]}] IN
  EnterSig(ret, name, g, FALSE)

\* check_generic_fn_call: the instance is named after the call, not after the
\* template.  b is the state in which the bounds have been checked.
CallInstance(b, tp, e, g, types, name, args) ==
  LET Popped(q) == Unbind(q, tp, g.tps, types) IN
  IF b.out = ErrType THEN Popped(b)
  ELSE ResolveCall(Popped(IF Known(b, "fn", name) THEN b ELSE DeclareInstance(b, g, types, name)),
                   e, name, args)
GenericCall(s, e, n, targs, args) ==
  LET g == Get(s, "gfn", n)
      r == ResolveAll(s, targs) IN
  IF ~ Known(s, "gfn", n) THEN Fail(s, "undefined generic function", n)
  ELSE IF Len(targs) # Len(g.tps) THEN Fail(s, "wrong number of type arguments", n)
  ELSE CallInstance(CheckBounds(Bind(r, g.tps, r.outs), g, r.outs), r.tp, e, g, r.outs,
                    Mangled(n, r.outs), args)

\* type_to_ast_type: a tuple or a function becomes a name nobody declares.
ToAst(type) ==
  CASE type.t \in {"slice", "ptr"} -> Of(type.t, <<ToAst(type.parts[1])>>)
    [] type.t = "array" -> Of("array", <<ToAst(type.parts[1]), [k |-> "int", n |-> type.parts[2].n]>>)
    [] OTHER -> Name(TypeName(type), << >>)

\* infer_type_params: what the parameter types say of the type parameters; the
\* last one that speaks of a parameter is believed.
InferFrom(a, type, names, known) ==
  CASE type = ErrType -> known
    [] a.k = "name" -> IF a.n \in names THEN (a.n :> type) @@ known ELSE known
    [] a.k \in {"slice", "array", "ptr"} /\ type.t = a.k ->
         InferFrom(a.parts[1], type.parts[1], names, known)
    [] a.k = "fn" /\ type.t = "fn" ->
         LET ret == InferFrom(Last(a.parts), Last(type.parts), names, known)
             shared == {Len(a.parts), Len(type.parts)}
             n == CHOOSE x \in shared : \A y \in shared : x <= y IN
         FoldLeft(LAMBDA q, i : InferFrom(a.parts[i], type.parts[i], names, q),
                  ret, [i \in 1 .. n - 1 |-> i])
    [] OTHER -> known

\* infer_generic_call: the call is checked again with the inferred arguments.
Inferred(s, n, args) ==
  LET g == Get(s, "gfn", n)
      names == {g.tps[i].n : i \in DOMAIN g.tps}
      known == FoldLeft(LAMBDA q, i : InferFrom(g.params[i], args[i], names, q), << >>,
                        [i \in DOMAIN args |-> i]) IN
  IF ~ Known(s, "gfn", n) \/ Len(args) # Len(g.params) \/ names # DOMAIN known
  THEN << >> ELSE [i \in DOMAIN g.tps |-> ToAst(known[g.tps[i].n])]

\* check_call of a name, whose arguments have been checked.
NamedCall(s, e, n, args) ==
  LET targs == IF e.targs # << >> THEN e.targs ELSE Inferred(s, n, args) IN
  CASE e.targs = << >> /\ Known(s, "fn", n) -> ResolveCall(s, e, n, args)
    [] e.targs = << >> /\ ~ Known(s, "fn", n) /\ targs = << >> -> Fail(s, "undefined function", n)
    [] OTHER -> GenericCall(s, e, n, targs, args)

\* instantiate_compound_ext, for one extension that fits: its methods are
\* registered and checked one after the other.
ExtendCompound(s, x, type, types) ==
  LET name == TypeName(type)
      Add(r, m) == CheckMethod([RegisterSig(r, Append(name, m.n), m, FALSE) EXCEPT
                                  !.made = @ \cup {[n |-> Append(name, m.n), id |-> m.id,
                                                    tps |-> x.tps, types |-> types]}],
                               m, name, type) IN
  Unbind(FoldLeft(Add, Bind(s, x.tps, types), x.methods), s.tp, x.tps, types)

\* instantiate_compound_ext: extensions of []T or [N]T, up to the one that has
\* the method.
CompoundMethod(s, type, n) ==
  LET target == IF type.t = "slice" THEN <<"[]">> ELSE <<"[_]">>
      types  == type.parts
      Step(r, x) ==
        IF \/ Known(r, "fn", Append(TypeName(type), n))
           \/ x.target # target \/ Len(x.tps) # Len(types)
           \/ x.methods # << >> /\ Known(r, "fn", Append(TypeName(type), x.methods[1].n))
        THEN r ELSE ExtendCompound(r, x, type, types) IN
  IF type.t \in {"slice", "array"} THEN FoldLeft(Step, s, s.exts) ELSE s

\* The key under which a method of a value is found: its own, or else one of
\* the structs embedded in it; << >> if there is none.
MethodKey(s, type, n) ==
  LET own == Append(TypeName(type), n)
      from == IF IsKnownStruct(s, type)
              THEN SelectSeq(Def(s, "struct", type.n).embedded,
                             LAMBDA b : Known(s, "fn", Append(b, n)))
              ELSE << >> IN
  IF Known(s, "fn", own) THEN own ELSE IF from # << >> THEN Append(from[1], n) ELSE << >>

\* check_member_call on a value or a type: what is not a method of it is looked
\* up as if only its name had been written.
CallMember(s, e, key, env) ==
  LET a == CheckAll(s, e.args, env) IN
  IF key = << >> THEN CheckNamedCall(s, e, <<e.n>>, env) ELSE ResolveCall(a, e, key, a.outs)
MemberCall(s, type, e, env) ==
  LET r == IF MethodKey(s, type, e.n) = << >> THEN CompoundMethod(s, type, e.n) ELSE s IN
  CallMember(r, e, MethodKey(r, type, e.n), env)

\* check_id of the head of a path.
PathHead(s, n) ==
  CASE Has(s, "sym", <<n>>) -> Out(s, s.tab[<<"sym", <<n>> >>])
    [] s.mod # << >> /\ Has(s, "sym", Append(s.mod, n)) ->
         Out(s, s.tab[<<"sym", Append(s.mod, n)>>])
    [] n = "super" /\ s.mod # << >> -> Out(s, Type("module", Front(s.mod)))
    [] n = "self" -> Out(s, Type("module", << >>))
    [] OTHER -> Fail(s, "undefined variable", <<n>>)

\* check_module_member.
PathMember(s, n) ==
  LET name == Append(s.out.n, n)
      kinds == SelectSeq(<<"struct", "enum">>, LAMBDA t : Known(s, t, name)) IN
  CASE s.out.t # "module" -> Fail(s, "not a module", <<n>>)
    [] kinds # << >> -> Out(s, Type(kinds[1], Get(s, kinds[1], name)[2]))
    [] Known(s, "alias", name) -> Out(s, Get(s, "alias", name))
    [] IsModule(s, name) -> Out(s, Type("module", name))
    [] OTHER -> Fail(s, "not found in module", name)

\* try_module_qualified_call: a function that is not in the module is looked up
\* as if only its name had been written.
CheckModuleCall(s, e, env) ==
  LET name == Append(s.out.n, e.n)
      a == CheckAll(s, e.args, env) IN
  CASE ~ Known(s, "fn", name) -> CheckNamedCall(s, e, <<e.n>>, env)
    [] ~ Sig(s, name).pub -> Fail(s, "private", name)
    [] OTHER -> ResolveCall(a, e, name, a.outs)

\* check_member_call on a path; the type arguments of Enum<T>::f belong to the
\* enum.
CheckPathCall(s, e, env) ==
  LET head == PathHead(s, e.path[1])
      o == FoldLeft(PathMember, head, Tail(e.path))
      enum == Instantiate(s, "enum", Get(s, "genum", e.path), e.targs) IN
  IF Len(e.path) = 1 /\ e.targs # << >> /\ Known(s, "genum", e.path)
  THEN CheckMethodCall(enum, [e EXCEPT !.targs = << >>], env)
  ELSE IF o.out.t = "module" THEN CheckModuleCall(o, e, env) ELSE CheckMethodCall(o, e, env)

Expr(s, e, env) ==
  CASE e.e = "arg"    -> Out(s, IF e.i = 0 THEN env.self ELSE env.params[e.i])
    [] e.e = "value"  -> LET r == Resolve(s, e.of) IN Out(r, Given(r.out))
    [] e.e = "call"   -> CheckNamedCall(s, e, <<e.n>>, env)
    [] e.e = "method" -> CheckMethodCall(CheckExpr(s, e.on, env), e, env)
    [] e.e = "path"   -> CheckPathCall(s, e, env)

-----------------------------------------------------------------------------
(* Bodies (check_stmt.c, check_decl.c).                                    *)

\* After the body: the result, if none was declared, is the value of the last
\* expression, and from here on the result of the signature.
AfterBody(s, d, name, declared, at) ==
  LET ret == IF declared # Nothing THEN declared
             ELSE IF d.body = << >> THEN Unit ELSE Last(s.outs)
      key == Get(s, "fn", name) IN
  [s EXCEPT !.at = at, !.out = ret,
            !.sigs = IF Known(s, "fn", name) /\ s.sigs[key].ret = Unit
                     THEN [@ EXCEPT ![key].ret = ret] ELSE @]

\* check_fn_body: parameters, then body.
CheckBody(s, d, name, self) ==
  LET r == Signature(s, d)
      body == CheckAll([r EXCEPT !.at = name], d.body, [params |-> r.outs, self |-> self]) IN
  AfterBody(body, d, name, r.out, s.at)

\* check_struct_method_body: the receiver is a value or a pointer to one.
MethodBody(s, m, owner, type) ==
  LET recv == IF m.recv = "self" THEN type ELSE Compound("ptr", <<type>>)
      inside == [s EXCEPT !.self = owner] IN
  [CheckBody(inside, m, Append(owner, m.n), recv) EXCEPT !.self = s.self]

-----------------------------------------------------------------------------
(* Registration of declarations (resolve_fn.c, resolve_struct.c,           *)
(* resolve_register.c).  name is the name of a declaration with the module *)
(* it is in.                                                               *)

\* A declaration in a module is given its full name.
Rename(s, d, name) == [s EXCEPT !.named = (d.id :> name) @@ @]

Template(d, name) == [d EXCEPT !.n = name]

\* The state with Self as it is while a declaration is registered, and back.
In(s, self) == [s EXCEPT !.self = self]

RegisterFn(s, d, name) ==
  IF d.tps = << >> THEN Define(RegisterSig(s, name, d, d.pub), name, Type("fn", name))
  ELSE IF \E i \in DOMAIN d.tps : d.tps[i].default # NoType
       THEN Fail(s, "default generics", name)
       ELSE Put(s, "gfn", name, Template(d, name))

\* A type definition enters its table, the aliases and the scope.
DefineType(s, kind, name, def) ==
  Define(Put(Put([s EXCEPT !.defs = (<<kind, name>> :> def) @@ @], kind, name, <<kind, name>>),
             "alias", name, Type(kind, name)),
         name, Type(kind, name))

\* compose_struct_fields and build_struct_type: the fields of an embedded
\* struct's type are promoted, and the struct itself is a field.
ComposeStruct(s, d) ==
  LET Embed(r, b) ==
        IF ~ Known(r.s, "struct", b) THEN [r EXCEPT !.s = Fail(@, "unknown embedded struct", b)]
        ELSE LET def == Def(r.s, "struct", b) IN
             [r EXCEPT !.fields = @ \o def.shape, !.shape = Append(@, [n |-> b, of |-> Unit])]
      Own(r, f) ==
        LET x == Resolve(r.s, f.of)
            field == [n |-> f.n, of |-> Given(x.out)] IN
        IF \E g \in Range(r.fields) : g.n = f.n
        THEN [r EXCEPT !.s = Fail(x, "duplicate field", <<f.n>>), !.shape = Append(@, field)]
        ELSE [s |-> x, fields |-> Append(r.fields, field), shape |-> Append(r.shape, field)] IN
  FoldLeft(Own, FoldLeft(Embed, [s |-> s, fields |-> << >>, shape |-> << >>], d.embedded),
           d.fields)

RegisterStruct(s, d, name) ==
  LET c == ComposeStruct(In(s, name), d) IN
  CASE d.tps # << >> -> Put(s, "gstruct", name, Template(d, name))
    [] d.tps = << >> /\ Known(s, "struct", name) -> Fail(s, "duplicate struct", name)
    [] OTHER -> In(DefineType(c.s, "struct", name,
                              [methods |-> << >>, fields |-> c.fields, shape |-> c.shape,
                               assocs |-> << >>, embedded |-> d.embedded]), s.self)

\* The fields of an enum are the payloads of its variants.
RegisterEnum(s, d, name) ==
  LET r == ResolveAll(In(s, name), [i \in DOMAIN d.fields |-> d.fields[i].of]) IN
  CASE d.tps # << >> -> Put(s, "genum", name, Template(d, name))
    [] d.tps = << >> /\ Known(s, "enum", name) -> Fail(s, "duplicate enum", name)
    [] OTHER -> In(DefineType(r, "enum", name,
                              [methods |-> << >>, fields |-> r.outs, assocs |-> << >>]), s.self)

RegisterPact(s, d, name) ==
  LET self == Name(<<"Self">>, << >>)
      bad == \E m \in Range(d.methods) : self \in Range(m.params)
      r == IF bad THEN Fail(s, "Self as a parameter", name) ELSE s IN
  IF Known(s, "pact", name) THEN Fail(s, "duplicate pact", name)
  ELSE Put(r, "pact", name, Template(d, name))

\* register_type_alias; in a module the type parameters are not looked at.
RegisterAlias(s, d, name) ==
  LET r == Resolve(s, d.of) IN
  IF d.tps # << >> /\ s.mod = << >> THEN Put(s, "galias", name, Template(d, name))
  ELSE Put(r, "alias", name, r.out)

RegisterVar(s, d, name) ==
  LET r == Resolve(s, d.of) IN
  Define(Put(r, "var", name, Template(d, name)), name, Type("var", name))

-----------------------------------------------------------------------------
(* Extensions (resolve_ext.c).                                             *)

\* register_ext_assoc_types: an associated type is an alias of its bare name.
RegisterAssocs(s, key, assocs) ==
  LET Add(r, a) ==
        LET x == Resolve(r, a.of)
            pushed == [x EXCEPT !.defs[key].assocs = Append(@, a)] IN
        IF Given(x.out) = ErrType THEN pushed ELSE Put(pushed, "alias", <<a.n>>, x.out) IN
  FoldLeft(Add, s, assocs)

ExtMethods(s, d) ==
  LET kinds == SelectSeq(<<"struct", "enum">>, LAMBDA t : Known(s, t, d.target))
      key == Get(s, kinds[1], d.target)
      Method(r, m) == RegisterMethod(r, key[1], key[2], d.target, m)
      Primitive(r, m) == RegisterSig(r, Append(d.target, m.n), m, FALSE) IN
  CASE d.tps # << >> -> [s EXCEPT !.exts = Append(@, d)]
    [] d.tps = << >> /\ kinds # << >> ->
         In(FoldLeft(Method, RegisterAssocs(In(s, d.target), key, d.assocs), d.methods), s.self)
    [] OTHER -> FoldLeft(Primitive, s, d.methods)

Qualifies(a, n, pact) == a.n = n /\ a.qual \in {<< >>, pact}

\* The associated types of the pact: given, or by default.
EnforceAssocs(s, d, key, pact, n) ==
  LET Owed(r, a) ==
        CASE \E x \in Range(r.defs[key].assocs) : Qualifies(x, a.n, n) -> r
          [] a.of # NoType -> [r EXCEPT !.defs[key].assocs =
                                 Append(@, [n |-> a.n, qual |-> << >>, of |-> a.of])]
          [] OTHER -> Fail(r, "missing associated type", <<a.n>>)
      strange == {x \in Range(d.assocs) :
                    x.qual \in {<< >>, n} /\ \A a \in Range(pact.assocs) : a.n # x.n}
      Bounds(r, a) ==
        LET given == SelectSeq(r.defs[key].assocs, LAMBDA x : Qualifies(x, a.n, pact.n))
            x == Resolve(r, given[1].of) IN
        IF a.bounds = << >> \/ given = << >> THEN r
        ELSE IF Given(x.out) = ErrType \/ SatisfiesAll(x, x.out, a.bounds) THEN x
        ELSE Fail(x, "bound of associated type", <<a.n>>)
      owed == FoldLeft(Owed, s, pact.assocs) IN
  FoldLeft(Bounds, IF strange = {} THEN owed ELSE Fail(owed, "unknown associated type", n),
           pact.assocs)

\* enforce_ext_struct_pact: a method that the struct lacks and the pact has a
\* body for is added to the extension.
EnforceStructPact(s, d, key, n) ==
  LET pact == Get(s, "pact", n)
      Owed(r, m) ==
        LET own == SelectSeq(r.defs[key].methods, LAMBDA x : x.n = m.n) IN
        CASE own # << >> /\ m.recv \in {"none", own[1].recv} -> r
          [] own # << >> -> Fail(r, "receiver", <<m.n>>)
          [] m.has -> RegisterMethod([r EXCEPT !.added = (d.id :> Append(r.added[d.id], m)) @@ @],
                                     key[1], key[2], key[2], m)
          [] OTHER -> Fail(r, "missing method", <<m.n>>) IN
  FoldLeft(Owed, EnforceAssocs(s, d, key, pact, n), PactMethods(s, pact))

\* The rest of enforce_ext_pact_conformances: an enum or a primitive type is
\* given nothing.
EnforceOtherPact(s, d, n) ==
  LET pact == Get(s, "pact", n)
      isEnum == Known(s, "enum", d.target)
      Own(m) == IF isEnum
                THEN SelectSeq(Def(s, "enum", d.target).methods, LAMBDA x : x.n = m.n)
                ELSE IF Known(s, "fn", Append(d.target, m.n)) THEN <<m>> ELSE << >>
      Owed(r, m) ==
        CASE Own(m) = << >> /\ ~ m.has -> Fail(r, "missing method", <<m.n>>)
          [] isEnum /\ Own(m) # << >> /\ m.recv \notin {"none", Own(m)[1].recv} ->
               Fail(r, "receiver", <<m.n>>)
          [] OTHER -> r IN
  FoldLeft(Owed, s, PactMethods(s, pact))

Conformances(s, d) ==
  LET Enforce(r, n) ==
        CASE ~ Known(r, "pact", n) -> Fail(r, "unknown pact", n)
          [] Known(r, "pact", n) /\ Known(r, "struct", d.target) ->
               EnforceStructPact(r, d, Get(r, "struct", d.target), n)
          [] OTHER -> EnforceOtherPact(r, d, n) IN
  FoldLeft(Enforce, [s EXCEPT !.added = (d.id :> << >>) @@ @], d.pacts)

RegisterNamed(s, d, name) ==
  CASE d.d = "fn"     -> RegisterFn(Rename(s, d, name), d, name)
    [] d.d = "struct" -> RegisterStruct(s, d, name)
    [] d.d = "enum"   -> RegisterEnum(s, d, name)
    [] d.d = "pact"   -> RegisterPact(s, d, name)
    [] d.d = "alias"  -> RegisterAlias(s, d, name)
    [] d.d = "var"    -> RegisterVar(s, d, name)

-----------------------------------------------------------------------------
Do(s, job) ==
  CASE job.do = "resolve"     -> ResolveType(s, job.a)
    [] job.do = "instantiate" -> InstantiateType(s, job.kind, job.g, job.args)
    [] job.do = "expr"        -> Expr(s, job.e, job.env)
    [] job.do = "named call"  ->
         LET r == CheckAll(s, job.e.args, job.env) IN NamedCall(r, job.e, job.n, r.outs)
    [] job.do = "method call" ->
         MemberCall(s, IF s.out.t = "ptr" THEN s.out.parts[1] ELSE s.out, job.e, job.env)
    [] job.do = "method"      -> MethodBody(s, job.m, job.owner, job.type)
    [] job.do = "signature"   ->
         EnterSig(Signature(NoSelf(s, job.name, job.d), job.d), job.name, job.d, job.pub)
    [] job.do = "fn"          -> CheckBody(s, job.d, job.name, Nothing)
    [] job.do = "register"    -> RegisterNamed(s, job.d, job.name)
    [] job.do = "extend"      -> ExtMethods(s, job.d)
    [] job.do = "enforce"     -> Conformances(s, job.d)
=============================================================================
