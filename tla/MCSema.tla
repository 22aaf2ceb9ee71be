-------------------------------- MODULE MCSema --------------------------------
(***************************************************************************)
(* Programs for Sema: modules that call and import each other's functions; *)
(* generic types, extensions and functions that use each other; pacts,     *)
(* their defaults, and types that conform to them or are bound by them.    *)
(* What a program means is read off its text, without the tables: a name   *)
(* is followed through imports by a closure, a type is substituted all at  *)
(* once, and a pact asks for what it reaches.                              *)
(***************************************************************************)
EXTENDS Denotes

N(x) == <<x>>
Plain(x) == Name(N(x), << >>)
I32 == Plain("i32")
Str == Plain("str")
T == Plain("T")
U == Plain("U")

Param(x) == [n |-> N(x), bounds |-> << >>, default |-> NoType, assocs |-> << >>]
Bounded(x, bounds) == [Param(x) EXCEPT !.bounds = bounds]
Field(x, of) == [n |-> x, of |-> of]

Fn(x, pub, params, ret, body) ==
  [d |-> "fn", id |-> x, n |-> x, pub |-> pub, tps |-> << >>, params |-> params,
   ret |-> ret, body |-> body, has |-> TRUE, recv |-> "none", wheres |-> << >>]
GenFn(x, tps, params, ret, body) == [Fn(x, TRUE, params, ret, body) EXCEPT !.tps = tps]
Method(x, recv, ret, body) == [Fn(x, FALSE, << >>, ret, body) EXCEPT !.recv = recv]
Main(body) == Fn("main", FALSE, << >>, NoType, body)
Module(x, decls) == [d |-> "module", id |-> x, n |-> x, pub |-> FALSE, decls |-> decls]
Struct(x, tps, fields, embedded) ==
  [d |-> "struct", id |-> x, n |-> x, pub |-> TRUE, tps |-> tps, fields |-> fields,
   embedded |-> embedded]
Enum(x, tps, fields) ==
  [d |-> "enum", id |-> x, n |-> x, pub |-> TRUE, tps |-> tps, fields |-> fields]
Pact(x, supers, methods, assocs) ==
  [d |-> "pact", id |-> x, n |-> x, pub |-> TRUE, supers |-> supers, methods |-> methods,
   assocs |-> assocs]
Alias(x, tps, of) == [d |-> "alias", id |-> x, n |-> x, pub |-> TRUE, tps |-> tps, of |-> of]
Ext(x, tps, target, methods, assocs, pacts) ==
  [d |-> "ext", id |-> x, tps |-> tps, target |-> target, methods |-> methods,
   assocs |-> assocs, pacts |-> pacts]
Use(x, path, names, pub) ==
  [d |-> "use", id |-> x, path |-> path, names |-> names, star |-> names = << >>, pub |-> pub]
As(x, y) == [n |-> x, as |-> y]

Arg(i) == [e |-> "arg", i |-> i]
Val(of) == [e |-> "value", of |-> of]
CallGen(x, targs, args) == [e |-> "call", n |-> x, targs |-> targs, args |-> args]
Call(x, args) == CallGen(x, << >>, args)
PathCall(path, x) == [e |-> "path", path |-> path, n |-> x, targs |-> << >>, args |-> << >>]
Dot(on, x) == [e |-> "method", on |-> on, n |-> x, args |-> << >>, targs |-> << >>]

Program(decls, files) == [decls |-> decls, files |-> files]

-----------------------------------------------------------------------------
\* Module a with a private f, a g that calls it or something else, and c
\* inside; b imports from a; the root imports from both, and main calls.  The
\* modules are in the file, next to it or in the library.
F(x, ret, body) == Fn(x, TRUE, << >>, ret, body)
InC == << Fn("k", TRUE, << >>, I32, <<PathCall(<<"super">>, "g")>>) >>
Nested == { << >>, <<Module("c", << >>)>>, <<Module("c", InC)>> }
GCalls == { << >>, <<Call("f", << >>)>>, <<PathCall(<<"self">>, "p")>>, <<Call("k", << >>)>> }
InA(fpub, g, nested) ==
  << Fn("f", fpub, << >>, I32, << >>), Fn("g", TRUE, << >>, Str, g) >> \o nested
BUses == { << >>, <<Use("bu", <<"a">>, <<As("g", "g")>>, TRUE)>>,
           <<Use("bu", <<"super", "a">>, <<As("f", "m")>>, TRUE)>>,
           <<Use("bu", <<"a">>, << >>, TRUE)>>,
           <<Use("bu", <<"a", "c">>, <<As("k", "k")>>, FALSE)>> }
InB(uses) == << Fn("h", FALSE, << >>, Str, << >>), Fn("l", TRUE, << >>, I32, << >>) >> \o uses
RootUses == { << >>, <<Use("ru", <<"b">>, <<As("m", "f")>>, FALSE)>>,
              <<Use("ru", <<"b">>, << >>, FALSE)>>,
              <<Use("ru", <<"a">>, <<As("g", "l")>>, FALSE),
                Use("rv", <<"self", "b">>, <<As("l", "q")>>, FALSE)>> }
MainCalls == { Call("f", << >>), PathCall(<<"a">>, "f"), PathCall(<<"a">>, "g"), Call("l", << >>),
               PathCall(<<"b">>, "g"), PathCall(<<"a", "c">>, "k"), Call("h", << >>) }

ModuleProgram(a, uses, ruses, call, last) ==
  LET root == <<Main(<<call>>), Fn("p", TRUE, << >>, I32, << >>)>>
      mods == <<Module("a", a), Module("b", InB(uses))>> IN
  Program((IF last THEN mods \o root ELSE root \o mods) \o ruses, << >>)
ModulePrograms ==
  { ModuleProgram(InA(fpub, g, nested), uses, ruses, call, FALSE) :
      fpub \in BOOLEAN, g \in GCalls, nested \in Nested, uses \in BUses,
      ruses \in RootUses, call \in MainCalls }
  \cup { ModuleProgram(InA(FALSE, << >>, <<Module("c", InC)>>), << >>, << >>, call, TRUE) :
           call \in MainCalls }

\* Modules that are files, and modules that are there twice.
Files == { (<<"a">> :> InA(TRUE, << >>, <<Module("c", << >>)>>)),
           (<<"std", "a">> :> InA(TRUE, << >>, <<Module("c", << >>), Module("c", InC)>>)),
           (<<"a">> :> InA(FALSE, << >>, <<Module("c", << >>)>>) @@ <<"a", "c">> :> InC),
           (<<"std", "a">> :> InA(TRUE, << >>, <<Module("c", << >>)>>) @@ <<"std", "c">> :> InC),
           (<<"a">> :> InA(TRUE, << >>, <<Module("c", InC), Module("c", InC)>>)) }
FilePrograms ==
  { Program(<<Main(<<call>>), Module("a", << >>)>> \o again \o <<Fn("p", TRUE, << >>, I32, << >>)>>, files) :
      files \in Files, call \in MainCalls,
      again \in { << >>, <<[Module("a", InC) EXCEPT !.id = "a2"]>>, <<Module("b", InC)>> } }

-----------------------------------------------------------------------------
\* Generic types, aliases, extensions and functions.  The parameters of the
\* templates have the same names in other orders, so that one is bound while
\* an outer one of the same name is.
W(x) == Name(N("W"), <<x>>)
Q(x, y) == Name(N("Q"), <<x, y>>)
Both(x, y) == <<Param(x), Param(y)>>
Slice(x) == Of("slice", <<x>>)

StructW(x) == Struct("W", <<Param(x)>>, <<Field("v", Plain(x))>>, << >>)
StructQ(x, y) ==
  Struct("Q", Both(x, y), <<Field("a", Plain(x)), Field("w", W(Plain(y))), Field("b", Plain(y))>>, << >>)
EnumO(x) == Enum("O", <<[Param(x) EXCEPT !.default = I32]>>, <<Field("some", Slice(Plain(x)))>>)
AliasR == Alias("R", <<Param("A")>>, Q(I32, Plain("A")))

ExtW(x) ==
  Ext("ew", <<Param(x)>>, N("W"),
      << [Method("get", "self", Plain(x), << >>) EXCEPT !.id = "get"],
         [Method("pair", "ptr", Q(Plain(x), I32), <<Dot(Arg(0), "get")>>) EXCEPT !.id = "pair"] >>,
      << >>, << >>)
ExtW2 == Ext("ew2", <<Param("T")>>, N("W"),
             <<Method("last", "self", Slice(T), << Call("one", <<Dot(Arg(0), "get")>>) >>)>>, << >>, << >>)
ExtSlice == Ext("es", <<Param("T")>>, N("[]"),
                <<Method("first", "self", T, << >>)>>, << >>, << >>)

One(x) == GenFn("one", <<Param(x)>>, <<Plain(x)>>, W(Plain(x)), << >>)
Two(x, y) == GenFn("two", Both(x, y), <<Plain(x), Plain(y)>>, Q(Plain(y), Plain(x)),
                   << Call("one", <<Arg(2)>>), CallGen("one", <<W(Plain(x))>>, <<Call("one", <<Arg(1)>>)>>),
                      Dot(Call("one", <<Arg(1)>>), "pair") >>)
Rec == GenFn("rec", <<Param("T")>>, <<Slice(T)>>, NoType,
             << CallGen("rec", <<T>>, <<Arg(1)>>), Dot(Arg(1), "first") >>)

GenericCalls ==
  { CallGen("two", <<I32, Str>>, <<Val(I32), Val(Str)>>),
    Call("two", <<Val(Str), Val(I32)>>),
    Call("two", <<Val(W(I32)), Val(Str)>>),
    Call("rec", <<Val(Slice(Str))>>),
    Call("one", <<Val(Name(N("R"), <<W(Str)>>))>>),
    Dot(Val(W(Q(Str, I32))), "last"), Dot(Dot(Val(W(Str)), "get"), "nope"),
    Dot(Val(Slice(W(Str))), "first"),
    CallGen("one", <<Name(N("O"), <<Str>>)>>, <<Val(Name(N("O"), <<Str>>))>>),
    CallGen("one", <<I32>>, <<Val(Str)>>), CallGen("one", <<I32, I32>>, <<Val(I32)>>),
    Call("one", <<Val(Of("tuple", <<I32, Str>>))>>),
    Call("one", <<Val(Of("fn", <<I32, Str>>))>>) }
Names2 == {"T", "U"} \X {"T", "U"}
GenericPrograms ==
  { Program(<<Main(<<c1, c2>>), StructW(w), StructQ(q[1], q[2]), EnumO("T"), AliasR,
              ExtW(x)>> \o more \o <<ExtSlice, One(o), Two(q[2], q[1]), Rec>>, << >>) :
      c1 \in GenericCalls, c2 \in GenericCalls, w \in {"T"}, x \in {"T", "U"}, o \in {"T", "U"},
      q \in {<<"T", "U">>, <<"U", "T">>}, more \in { << >>, <<ExtW2>> } }

-----------------------------------------------------------------------------
\* Pacts A, B under A, and D under both; S conforms to one of them with some
\* of the methods, and generic functions ask for them.
Asked(x, has) == [Method(x, "self", I32, << >>) EXCEPT !.has = has]
ItemOf == [n |-> "Item", of |-> NoType, bounds |-> <<N("A")>>]
PactsOf(has, item) ==
  << Pact("A", << >>, <<Asked("m", FALSE)>>, << >>),
     Pact("B", <<N("A")>>, <<Asked("n", has)>>, item),
     Pact("D", <<N("B"), N("A")>>, <<Asked("m", has), Asked("o", has)>>, << >>) >>
Own(x, recv) == [Method(x, recv, I32, << >>) EXCEPT !.id = "S." \o x]
OwnMethods == { << >>, <<Own("m", "self")>>, <<Own("m", "self"), Own("n", "self")>>,
                <<Own("n", "self"), Own("o", "self")>>, <<Own("m", "ptr"), Own("n", "self")>>,
                <<Own("m", "self"), Own("n", "self"), Own("o", "self")>> }
Conformers == { <<Struct("E", << >>, <<Field("e", I32)>>, << >>),
                    Struct("S", << >>, <<Field("v", I32)>>, <<N("E")>>)>>,
             <<Enum("S", << >>, <<Field("v", I32)>>)>> }
ItemIs(a) == [n |-> "Item", qual |-> << >>, of |-> a]
WhereT(b) == [n |-> N("T"), member |-> "", bounds |-> <<b>>]
WhereItem(b) == [n |-> N("T"), member |-> "Item", bounds |-> <<b>>]
Ask(bounds, wheres) ==
  [GenFn("ask", <<Bounded("T", bounds)>>, <<T>>, NoType, <<Dot(Arg(1), "m")>>)
     EXCEPT !.wheres = wheres]
Askers == { Ask(<<N("A")>>, << >>), Ask(<<N("D")>>, << >>), Ask(<<N("A"), N("B")>>, << >>),
          Ask(<< >>, <<WhereT(N("B"))>>), Ask(<<N("A")>>, <<WhereItem(N("A"))>>),
          [Ask(<<N("B")>>, << >>) EXCEPT !.tps[1].assocs = <<[n |-> "Item", of |-> I32]>>] }
PactPrograms ==
  { Program(<<Main(<<Call("ask", <<Val(Plain("S"))>>)>>)>> \o PactsOf(has, << >>) \o target
              \o <<Ext("x", << >>, N("S"), own, << >>, pacts), ask>>, << >>) :
      has \in BOOLEAN, target \in Conformers, own \in OwnMethods, ask \in Askers,
      pacts \in { << >>, <<N("A")>>, <<N("D")>>, <<N("B"), N("D")>>, <<N("B")>> } }
ItemPrograms ==
  { Program(<<Main(<<Call("ask", <<Val(Plain("S"))>>)>>)>> \o PactsOf(TRUE, <<ItemOf>>)
              \o <<Struct("S", << >>, << >>, << >>), Struct("V", << >>, << >>, << >>),
                   Ext("y", << >>, N("V"), v, << >>, << >>),
                   Ext("x", << >>, N("S"), <<Own("m", "self")>>, items, <<N("B")>>), ask>>, << >>) :
      v \in { << >>, <<[Own("m", "self") EXCEPT !.id = "V.m"]>> }, ask \in Askers,
      items \in { << >>, <<ItemIs(I32)>>, <<ItemIs(Plain("V"))>> } }

MCPrograms == ModulePrograms \cup FilePrograms \cup GenericPrograms \cup PactPrograms \cup ItemPrograms
=============================================================================
