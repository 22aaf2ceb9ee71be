------------------------------- MODULE Denotes -------------------------------
(***************************************************************************)
(* What the text of a program says, read without the tables of the passes: *)
(* which function a name can mean, by following declarations and imports;  *)
(* what a type is, by substituting at once; which methods a pact asks for, *)
(* by what it reaches.  The passes are compared with it.                   *)
(***************************************************************************)
EXTENDS Sema, FiniteSets

\* Every declaration with the module it is in: [mod, d].
RECURSIVE Listed(_, _, _, _)
Listed(p, mod, dir, decls) ==
  UNION { LET d == decls[i]
              here == {[mod |-> mod, d |-> d]}
              near == Append(dir, d.n)
              file == IF near \in DOMAIN p.files THEN near ELSE <<"std", d.n>> IN
          CASE d.d # "module" -> here
            [] d.d = "module" /\ d.decls # << >> ->
                 here \cup Listed(p, Append(mod, d.n), dir, d.decls)
            [] d.d = "module" /\ d.decls = << >> /\ file \in DOMAIN p.files ->
                 here \cup Listed(p, Append(mod, d.n), file, p.files[file])
            [] OTHER -> here : i \in DOMAIN decls }
Listing == Listed(program, << >>, << >>, program.decls)
Fns(all) == {x \in all : x.d.d = "fn"}
Uses(all) == {x \in all : x.d.d = "use"}

\* The module that a path leads to from mod.
RECURSIVE Absolute(_, _)
Absolute(mod, path) ==
  CASE path # << >> /\ Head(path) = "super" -> Absolute(Front(mod), Tail(path))
    [] path # << >> /\ Head(path) = "self"  -> Tail(path)
    [] OTHER -> mod \o path
Path(mod, path) ==
  Absolute(IF path # << >> /\ Head(path) = "super" THEN mod ELSE << >>, path)

\* The functions that a name can mean in a module: those it declares, and
\* those that its imports say.  An import in a module is also one of the root.
RECURSIVE Means(_, _, _, _)
Means(all, mod, n, fuel) ==
  LET declared == {x \in Fns(all) : x.mod = mod /\ x.d.n = n}
      uses == {x \in Uses(all) : mod \in {x.mod, << >>}}
      items == {<<x, i>> \in uses \X (1 .. 2) : i \in DOMAIN x.d.names /\ x.d.names[i].as = n}
      stars == {x \in uses : x.d.star} IN
  IF fuel = 0 THEN {}
  ELSE declared
       \cup UNION {Means(all, Path(y[1].mod, y[1].d.path), y[1].d.names[y[2]].n, fuel - 1) : y \in items}
       \cup UNION {Means(all, Path(x.mod, x.d.path), n, fuel - 1) : x \in stars}
Steps == 4      \* longer than any chain of imports in the programs
Called(all, c) ==
  Means(all, << >>, c.e.n, Steps)
    \cup Means(all, IF c.e.e = "path" THEN Path(c.mod, c.e.path) ELSE c.mod, c.e.n, Steps)

\* The declaration a call went to, if it is that of a function, and whether the
\* call was checked in the module it is written in.
Targets(all, c) == {x \in Fns(all) : Append(x.mod, x.d.n) = c.to[1] /\ x.d.id = c.to[2]}
AtHome(c) == c.at # << >> /\ c.mod = Front(c.at)
Ended == phase \in {"accepted", "rejected"}

\* A private function is called from its module, the modules inside it and
\* nowhere else, whatever names imports, re-exports and wildcards give it.
PrivateHidden ==
  Ended => LET all == Listing IN
           \A c \in sema.calls : AtHome(c) =>
             \A x \in Targets(all, c) : x.d.pub \/ IsPrefix(x.mod, c.mod)

\* The same of every call, also of one that is checked in the name of another
\* module than its own.
PrivateByDefault ==
  Ended => LET all == Listing IN
           \A c \in sema.calls :
             \A x \in Targets(all, c) : x.d.pub \/ IsPrefix(x.mod, Front(c.at))

\* A call reaches a function that declarations and imports, followed from the
\* module it is written in or from the root, give the name it is called by.
CallsMean ==
  Ended => LET all == Listing IN
           \A c \in sema.calls : AtHome(c) =>
             LET to == Targets(all, c) IN to # {} => to \cap Called(all, c) # {}

-----------------------------------------------------------------------------
\* A type with the arguments put in the place of the parameters, all at once.
RECURSIVE Meaning(_, _)
Meaning(a, env) ==
  LET given == IF a.k = "name" THEN a.args ELSE a.parts
      named(kind) == {d \in Range(program.decls) : d.d = kind /\ a.n = <<d.n>>}
      data == named("struct") \cup named("enum")
      d == CHOOSE x \in data \cup named("alias") : TRUE
      Argument(i) == IF i <= Len(given) THEN Meaning(given[i], env)
                     ELSE Meaning(d.tps[i].default, << >>)
      args == [i \in DOMAIN d.tps |-> Argument(i)] IN
  CASE a.k # "name" -> Compound(a.k, [i \in DOMAIN given |-> Meaning(given[i], env)])
    [] a.k = "name" /\ a.n \in DOMAIN env -> env[a.n]
    [] a.k = "name" /\ a.n \in PrimNames -> Type("prim", a.n)
    [] a.k = "name" /\ data # {} ->
         Type(d.d, IF d.tps = << >> THEN a.n ELSE Mangled(a.n, args))
    [] a.k = "name" /\ named("alias") # {} ->
         Meaning(d.of, [n \in {d.tps[i].n : i \in DOMAIN d.tps} |->
                          args[CHOOSE i \in DOMAIN d.tps : d.tps[i].n = n]])
    [] OTHER -> ErrType

Environment(m) ==
  [n \in {m.tps[i].n : i \in DOMAIN m.tps} |->
     m.types[CHOOSE i \in DOMAIN m.tps : m.tps[i].n = n]]

\* The declarations that an instance can be of.
Templates == Range(program.decls)
               \cup UNION {Range(d.methods) : d \in {x \in Range(program.decls) : x.d = "ext"}}

\* The fields of an instance of a type, the parameters and the declared result
\* of one of a function or of a method of such a type, are those of the
\* template with the arguments for the parameters, however instances are
\* nested in each other and whatever parameters are in scope by the same names.
Substituted ==
  \A m \in sema.made : \A t \in {x \in Templates : x.id = m.id} :
    LET env == Environment(m) IN
    IF t.d = "fn"
    THEN LET sig == sema.sigs[<<m.n, m.id>>] IN
         /\ sig.params = [i \in DOMAIN t.params |-> Meaning(t.params[i], env)]
         /\ t.ret # NoType => sig.ret = Meaning(t.ret, env)
    ELSE sema.defs[<<t.d, m.n>>].fields
           = [i \in DOMAIN t.fields |-> [n |-> t.fields[i].n, of |-> Meaning(t.fields[i].of, env)]]
SubstitutedAtOnce == Ended /\ sema.errs = {} => Substituted

\* An instance of a type that a body asks for has, from the same step on, every
\* method of every extension of its template, checked with its arguments.
Extended(m, s) ==
  \A t \in {x \in Templates : x.id = m.id /\ x.d \in {"struct", "enum"}} :
    \A x \in Range(program.decls) :
      x.d = "ext" /\ x.target = <<t.n>> /\ x.tps # << >> =>
        \A f \in Range(x.methods) :
          \E q \in s.made : q.n = Append(m.n, f.n) /\ q.id = f.id /\ q.types = m.types
Checks == phase \in {"check", "mono"}
InstancesExtended ==
  [][Checks =>
       \A m \in (sema'.made \ sema.made) : Extended(m, sema')]_vars

-----------------------------------------------------------------------------
\* The pacts that a pact reaches, itself included.
RECURSIVE Reached(_, _)
Reached(pact, fuel) ==
  {pact} \cup (IF fuel = 0 THEN {} ELSE UNION {Reached(q, fuel - 1) : q \in
    UNION {Range(d.supers) : d \in {x \in Range(program.decls) : x.d = "pact" /\ <<x.n>> = pact}}})
Asks(pact) ==
  UNION {Range(d.methods) : d \in
    {x \in Range(program.decls) : x.d = "pact" /\ <<x.n>> \in Reached(pact, Steps)}}
Callable(n, m) == Has(sema, "fn", Append(n, m.n))

\* In a program that is accepted a struct has every method of the pacts it
\* says it conforms to and of those above them, its own or a default one; an
\* enum has those that have no default.
PactsKept ==
  phase = "accepted" =>
    \A x \in {d \in Range(program.decls) : d.d = "ext" /\ d.tps = << >>} :
      \A p \in Range(x.pacts) : \A m \in Asks(p) :
        \/ Callable(x.target, m)
        \/ m.has /\ ~ Has(sema, "struct", x.target)

Conforms(type, pact) == \A m \in Asks(pact) : m.has \/ Callable(type.n, m)
ItemsOf(type, n) ==
  {a \in UNION {Range(x.assocs) : x \in {d \in Range(program.decls) : d.d = "ext" /\ d.target = type.n}} :
     a.n = n}

\* An instance of a function exists only for types that have what its bounds,
\* its where clauses and its associated types ask for, over all the pacts that
\* those reach.
BoundsKept ==
  Ended /\ sema.errs = {} =>
    \A i \in DOMAIN sema.insts :
      LET g == sema.insts[i].g
          types == sema.insts[i].types IN
      \A j \in DOMAIN g.tps :
        /\ \A b \in Range(g.tps[j].bounds) : Conforms(types[j], b)
        /\ \A c \in Range(g.tps[j].assocs) : \A a \in ItemsOf(types[j], c.n) :
             Meaning(a.of, << >>) = Meaning(c.of, << >>)
        /\ \A w \in Range(g.wheres) : w.n = g.tps[j].n =>
             \A b \in Range(w.bounds) :
               IF w.member = "" THEN Conforms(types[j], b)
               ELSE \A a \in ItemsOf(types[j], w.member) : Conforms(Meaning(a.of, << >>), b)

-----------------------------------------------------------------------------
\* When the passes accept a program, every instance of a function that some
\* body calls, those that only the bodies of other instances call included, is
\* in the program once, with the body of the function that is called.
EmittedOnce ==
  phase = "accepted" =>
    \A c \in sema.calls :
      LET of == {x \in Range(program.decls) : x.d = "fn" /\ x.id = c.to[2] /\ x.tps # << >>} IN
      of # {} => Cardinality({i \in DOMAIN emitted :
                                emitted[i].n = c.to[1] /\ emitted[i].g.id = c.to[2]}) = 1

-----------------------------------------------------------------------------
\* The passes use the queue of instances as the worklist that it is: they only
\* add to its end, and one round of mono looks at one instance.  What Worklist
\* says of any such queue is true of theirs.
Instances == INSTANCE Worklist WITH queue <- sema.insts, over <- phase = "accepted"
ImplementsWorklist == Instances!WorkSpec
=============================================================================
