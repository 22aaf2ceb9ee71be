-------------------------------- MODULE Sema --------------------------------
(***************************************************************************)
(* The semantic passes on a program: resolve, check and mono               *)
(* (resolve_main.c, resolve_module.c, check_main.c, mono.c), one           *)
(* declaration at a time.  A program is                                    *)
(*   [decls, files]   the declarations of its file, and those of each      *)
(*                    module file by its path: <<"b">>, <<"b", "c">>, and  *)
(*                    <<"std", "b">> in the library.                       *)
(* What a declaration does is in Imports and Passes.                       *)
(***************************************************************************)
EXTENDS Passes

CONSTANT Programs

VARIABLES program,
          phase,        \* resolve, check, mono, accepted or rejected
          todo,         \* the declarations that the pass has yet to visit
          sema,         \* struct Sema
          gi,           \* how many of the queued instances mono has seen
          emitted       \* the instances it added to the program

vars == <<program, phase, todo, sema, gi, emitted>>

Phases == {"resolve", "check", "mono", "accepted", "rejected"}

Item(do, d) == [do |-> do, d |-> d]
Items(do, decls) == [i \in DOMAIN decls |-> Item(do, decls[i])]
Kind(decls, kinds) == SelectSeq(decls, LAMBDA d : d.d \in kinds)

\* Uses, extensions and pacts are the last thing in a module.
UsesFirst(decls) == Items("use", Kind(decls, {"use"})) \o Items("ext", Kind(decls, {"ext"}))
ExtsFirst(decls) == Items("ext", Kind(decls, {"ext"})) \o Items("use", Kind(decls, {"use"}))
Pacts(decls) ==
  Items("enforce", SelectSeq(Kind(decls, {"ext"}), LAMBDA d : d.pacts # << >>))

\* The order of register_all_decls.  Generic enums are registered twice.
FileItems(decls) ==
  LET All(kind) == Items("decl", Kind(decls, {kind}))
      genums == Items("decl", SelectSeq(decls, LAMBDA d : d.d = "enum" /\ d.tps # << >>)) IN
  All("module") \o All("pact") \o genums \o All("struct") \o All("enum")
    \o Items("decl", Kind(decls, {"alias", "fn"})) \o ExtsFirst(decls) \o Pacts(decls)

\* The order of register_module_decl.
ModuleItems(decls) ==
  Items("decl", SelectSeq(decls, LAMBDA d : d.d \notin {"use", "ext"} /\ (d.d = "var" => d.pub)))
    \o UsesFirst(decls) \o Pacts(decls)

Init ==
  /\ program \in Programs
  /\ phase = "resolve" /\ todo = FileItems(program.decls)
  /\ sema = NewSema(<< >>) /\ gi = 0 /\ emitted = << >>

Resolving(do) == phase = "resolve" /\ todo # << >> /\ Head(todo).do = do
Checking(kind) == phase = "check" /\ todo # << >> /\ Head(todo).d.d = kind
decl == Head(todo).d

Visit(s) ==
  /\ sema' = s /\ todo' = Tail(todo)
  /\ UNCHANGED <<program, phase, gi, emitted>>

NameOf(s, d) == IF d.id \in DOMAIN s.named THEN s.named[d.id] ELSE <<d.n>>

RegisterDecl ==
  /\ Resolving("decl") /\ decl.d # "module"
  /\ Visit(Register(sema, decl, Append(sema.mod, decl.n)))

\* Where the declarations of a module are: in the file, next to it, or in the
\* library; << >> if nowhere.
Place(s, d) ==
  LET near == Append(s.dir, d.n) IN
  IF near \in DOMAIN program.files THEN near
  ELSE IF <<"std", d.n>> \in DOMAIN program.files THEN <<"std", d.n>> ELSE << >>

\* register_module_decl: a module that is already there is not looked at again.
RegisterModule ==
  LET name  == Append(sema.mod, decl.n)
      place == Place(sema, decl)
      s     == Rename(sema, decl, name)
      body  == IF decl.decls # << >> THEN decl.decls ELSE program.files[place]
      opened == [Define(s, name, Type("module", name)) EXCEPT
                   !.mod = name, !.loaded = (decl.id :> body) @@ @,
                   !.dir = IF decl.decls # << >> THEN @ ELSE place]
      back == [do |-> "leave", mod |-> sema.mod, dir |-> sema.dir] IN
  /\ Resolving("decl") /\ decl.d = "module"
  /\ \/ /\ sema.mod = << >> /\ IsModule(sema, name)
        /\ Visit(s)
     \/ /\ ~ (sema.mod = << >> /\ IsModule(sema, name))
        /\ decl.decls = << >> /\ place = << >>
        /\ Visit(Fail(s, "cannot find module file", name))
     \/ /\ sema.mod # << >> /\ IsModule(sema, name)
        /\ decl.decls # << >> \/ place # << >>
        /\ Visit([s EXCEPT !.loaded = (decl.id :> body) @@ @])
     \/ /\ ~ IsModule(sema, name)
        /\ decl.decls # << >> \/ place # << >>
        /\ sema' = opened
        /\ todo' = ModuleItems(body) \o <<back>> \o Tail(todo)
        /\ UNCHANGED <<program, phase, gi, emitted>>

LeaveModule ==
  /\ Resolving("leave")
  /\ Visit([sema EXCEPT !.mod = Head(todo).mod, !.dir = Head(todo).dir])

RegisterImports == Resolving("use") /\ Visit(RegisterUse(sema, decl))

RegisterExtension == Resolving("ext") /\ Visit(RegisterExt(sema, decl))

EnforcePacts == Resolving("enforce") /\ Visit(EnforceExt(sema, decl))

\* A pass is over: the next one runs only if there was no error.
PassOver(from, to, items) ==
  /\ phase = from /\ todo = << >>
  /\ phase' = IF sema.errs = {} THEN to ELSE "rejected"
  /\ todo' = IF sema.errs = {} THEN items ELSE << >>
  /\ UNCHANGED <<program, sema, gi, emitted>>

Resolved == PassOver("resolve", "check", Items("check", program.decls))

-----------------------------------------------------------------------------
\* check_node of a module: its name is set, and not set back.
CheckModule ==
  LET body == IF decl.id \in DOMAIN sema.loaded THEN sema.loaded[decl.id] ELSE decl.decls IN
  /\ Checking("module")
  /\ sema' = [sema EXCEPT !.mod = NameOf(sema, decl)]
  /\ todo' = Items("check", body) \o Tail(todo)
  /\ UNCHANGED <<program, phase, gi, emitted>>

CheckFunction ==
  /\ Checking("fn")
  /\ Visit(IF decl.tps # << >> THEN sema ELSE CheckFn(sema, decl, NameOf(sema, decl)))

\* check_ext_decl.
CheckExtension ==
  LET kinds == SelectSeq(<<"struct", "enum">>, LAMBDA t : Known(sema, t, decl.target))
      type == IF kinds # << >> THEN Type(kinds[1], Get(sema, kinds[1], decl.target)[2])
              ELSE Type("prim", decl.target)
      added == IF decl.id \in DOMAIN sema.added THEN sema.added[decl.id] ELSE << >>
      skipped == decl.tps # << >> \/ (kinds = << >> /\ decl.target \notin PrimNames) IN
  /\ Checking("ext")
  /\ Visit(IF skipped THEN sema
           ELSE FoldLeft(LAMBDA r, m : CheckMethod(r, m, decl.target, type),
                         sema, decl.methods \o added))

CheckOther ==
  /\ phase = "check" /\ todo # << >> /\ decl.d \notin {"module", "fn", "ext"}
  /\ Visit(sema)

Checked == PassOver("check", "mono", << >>)

-----------------------------------------------------------------------------
\* Mutant: one instance of each function is made, whatever its arguments.
SameTemplate(i) == \E j \in 1 .. i - 1 : sema.insts[j].g = sema.insts[i].g

\* Mutant: an instance is a duplicate of any other of its name, earlier or later.
AnyNamesake(i) == \E j \in DOMAIN sema.insts \ {i} : sema.insts[j].n = sema.insts[i].n

\* The instance has the name of one before it.
Duplicate(i) == \E j \in 1 .. i - 1 : sema.insts[j].n = sema.insts[i].n

\* instantiate_pending_generics: the body of a queued instance, in the module
\* that was checked last, unless an earlier one has the same name.
InstantiatePending ==
  LET inst == sema.insts[gi + 1] IN
  /\ phase = "mono" /\ gi < Len(sema.insts)
  /\ gi' = gi + 1
  /\ IF Duplicate(gi + 1) THEN UNCHANGED <<sema, emitted>>
     ELSE /\ sema' = Unbind(CheckFn(Bind(sema, inst.g.tps, inst.types), inst.g, inst.n),
                            sema.tp, inst.g.tps, inst.types)
          /\ emitted' = Append(emitted, inst)
  /\ UNCHANGED <<program, phase, todo>>

Finish ==
  /\ phase = "mono" /\ gi = Len(sema.insts)
  /\ phase' = IF sema.errs = {} THEN "accepted" ELSE "rejected"
  /\ UNCHANGED <<program, todo, sema, gi, emitted>>

\* The only states in which the passes have nothing to do.
Stop == phase \in {"accepted", "rejected"} /\ UNCHANGED vars

Next ==
  \/ RegisterDecl \/ RegisterModule \/ LeaveModule \/ RegisterImports
  \/ RegisterExtension \/ EnforcePacts \/ Resolved
  \/ CheckModule \/ CheckFunction \/ CheckExtension \/ CheckOther \/ Checked
  \/ InstantiatePending \/ Finish \/ Stop

Spec == Init /\ [][Next]_vars
=============================================================================
