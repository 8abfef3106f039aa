-------------------------------- MODULE MCLink --------------------------------
EXTENDS Linkage

Decl(name, class, func, init) ==
  [op |-> "decl", name |-> name, class |-> class, func |-> func, init |-> init]
Func(name, class, body) == [op |-> "func", name |-> name, class |-> class, body |-> body]
P(op, name) == [op |-> op, name |-> name, init |-> NoInit]
Loc(name, init) == [op |-> "static", name |-> name, init |-> init]
Prototype(name, class) == Decl(name, class, TRUE, NoInit)
Var(name, init) == Decl(name, "none", FALSE, init)
Main == Func("main", "none", <<P("call", "f"), P("string", NoName), P("loop", NoName)>>)

(* Programs of which one module at a time is worth a look.                 *)
Texts == <<
  <<Prototype("f", "none"), Main>>,
  <<Var("x", "const"), Func("f", "none", <<P("read", "x"), P("loop", NoName), P("string", NoName)>>)>>,
  <<Func("f", "static", <<Loc("x", "const"), P("read", "x")>>),
    Func("g", "none", <<Loc("x", NoInit), P("call", "f"), P("read", "x")>>)>>,
  <<Prototype("s", "static"), Func("g", "none", <<P("call", "s")>>), Func("s", "static", <<>>),
    Func("f", "none", <<P("call", "s")>>)>>,
  <<Decl("x", "static", FALSE, NoInit), Func("f", "none", <<P("read", "x")>>),
    Decl("x", "static", FALSE, "const"), Var("p", "x")>>,
  <<Var("x", "const"), Func("f", "none", <<P("extern", "x"), P("read", "x")>>)>>,
  <<Func("f", "none", <<P("proto", "g"), P("call", "g")>>), Func("g", "none", <<>>)>>,
  <<Var("x", "const"), Func("f", "none", <<Loc("x", NoInit), Loc("p", "x"), P("read", "p")>>)>>,
  <<Decl("x", "extern", FALSE, NoInit), Func("g", "none", <<P("read", "x")>>), Var("p", "x")>>,
  <<Prototype("s", "static"), Func("s", "none", <<>>), Func("g", "none", <<P("call", "s")>>)>>,
  <<Var("x", NoInit), Func("g", "none", <<P("read", "x"), P("local", "x"), P("read", "x")>>)>>,
  <<Func("s", "static", <<P("call", "s")>>), Var("p", "s"), Main>>,
  <<Func("main", "static", <<P("call", "main")>>)>>,
  <<Var("main", NoInit)>>,
  <<Var("x", NoInit), Var("x", NoInit), Func("f", "none", <<P("read", "x")>>)>>,
  <<Var("x", "const"), Func("f", "none", <<P("local", "x"), Loc("p", "x")>>)>>,
  <<Var("x", NoInit), Func("g", "none", <<P("read", "x")>>), Decl("x", "static", FALSE, "const"),
    Var("p", "x")>> >>

(* Sources the compiler rejects, when it reads or when it emits.           *)
BadTexts == <<
  <<Var("x", "const"), [op |-> "junk"]>>,
  <<Func("f", "none", <<P("string", NoName)>>), Func("g", "none", <<P("unsupported", NoName)>>)>>,
  <<Func("f", "none", <<Loc("x", NoInit), Loc("p", "x")>>)>>,
  <<Func("g", "none", <<P("local", "x"), P("call", "x")>>)>>,
  <<Func("g", "none", <<P("read", "x")>>)>>,
  <<Var("p", "x")>> >>

File(t) == [text |-> t, file |-> "readable"]
Lost(t, how) == [text |-> t, file |-> how]
Wrap(sources) ==
  [sources |-> sources, opts |-> {"wrapper"}, id |-> "", stop |-> FALSE, keep |-> FALSE,
   assembler |-> "there", compiler |-> "there"]
Good == {Wrap(<<File(Texts[i]), File(Texts[j])>>) : i, j \in DOMAIN Texts}
Bads == {Wrap(<<File(Texts[1]), File(BadTexts[j])>>) : j \in DOMAIN BadTexts}
Two == <<File(Texts[2]), File(Texts[1])>>

Variants ==
  {[Wrap(Two) EXCEPT !.stop = s, !.keep = k, !.assembler = a, !.compiler = c] :
     s, k \in BOOLEAN, a \in {"there", "missing"}, c \in {"there", "missing"}}
  \cup {[Wrap(<<File(Texts[2])>>) EXCEPT !.stop = s, !.keep = TRUE] : s \in BOOLEAN}
  \cup {Wrap(<<File(Texts[2]), Lost(Texts[1], how)>>) : how \in {"missing", "unreadable"}}
  \cup {Wrap(<<File(Texts[2]), File(Texts[1]), File(Texts[3])>>)}

Directs ==
  {[Wrap(<<f>>) EXCEPT !.opts = o, !.id = id] :
     f \in {File(Texts[2]), File(BadTexts[1]), File(BadTexts[2]), Lost(Texts[2], "unreadable")},
     o \in SUBSET {"S", "c", "E", "ast"}, id \in {"", "id", "bad"}}

MCBuilds == Good \cup Bads \cup Variants \cup Directs
=============================================================================
