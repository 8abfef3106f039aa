------------------------------- MODULE MCCalls -------------------------------
(* Programs of up to three functions: what main does, around calls of f,   *)
(* with every way f can take parameters and use them.                      *)
EXTENDS Calls

Node(kind, op, n, ty, kids) == [kind |-> kind, op |-> op, n |-> n, ty |-> ty, kids |-> kids]
G(n) == Node("gvar", "", n, "int", <<>>)
V(n) == Node("lvar", "", n, "int", <<>>)
S(n) == Node("lvar", "", n, "struct", <<>>)
SG(n) == Node("gvar", "", n, "struct", <<>>)
L(n) == Node("lit", "", n, "int", <<>>)
Fl(t) == Node("conv", "", 0, "float", <<t>>)
Fn(f) == Node("funcdesg", "", f, "int", <<>>)
Bin(kind, op, x, y) == Node(kind, op, 0, "int", <<x, y>>)
Un(kind, op, x) == Node(kind, op, 0, "int", <<x>>)
Add(x, y) == Bin("arith", "add", x, y)
Sub(x, y) == Bin("arith", "sub", x, y)
Cond(c, x, y) == Node("cond", "", 0, "int", <<c, x, y>>)
If(c, x) == Node("cond", "", 0, "int", <<c, x>>)
Set1(x, y) == Bin("assign", "", x, y)
Block(s) == Node("block", "", 0, "int", s)
Ret(x) == Node("return", "", 0, "int", <<x>>)
Calling(f, args) == Node("call", "", f, "int", args)
Via(t, args) == Node("callptr", "", 0, "int", Append(args, t))

Func(params, locals, body) == [params |-> params, locals |-> locals, main |-> FALSE, body |-> body]
Main(locals, body) == [params |-> <<>>, locals |-> locals, main |-> TRUE, body |-> body]

(* The words at the data addresses 1 to 4; struct variables are at 5; from *)
(* 10 on, one for each argument.                                           *)
MCGlobals == [a \in 1 .. 16 |-> <<1, 2, 0, 7, 20, 21, 0, 0, 0, 50, 51, 52, 53, 54, 55, 56>>[a]]

Int3 == <<"int", "int", "int">>
Ints(n) == [i \in 1 .. n |-> "int"]

(* How f takes its parameters, and a list of arguments for each.           *)
Arg(ty, i) == CASE ty = "int" -> G(9 + i) [] ty = "float" -> Fl(G(9 + i)) [] OTHER -> SG(5)
ArgsFor(params) == [i \in DOMAIN params |-> Arg(params[i], i)]

Shapes == { <<>>, Ints(1), Ints(3), Ints(6), Ints(7),
            <<"float">>, <<"float", "int">>, <<"int", "float", "int", "float">>,
            <<"float", "float", "float", "int">>,
            <<"struct">>, <<"int", "struct", "int">>, <<"struct", "float", "int">> }

(* Bodies of g, which takes one int and has no local; of f, whatever it    *)
(* takes; and of main, which has two locals and calls f.                   *)
GBodies == { Ret(Add(V(1), G(1))),
             Block(<<If(V(1), Ret(Calling(1, <<Sub(V(1), G(1))>>))), Ret(G(3))>>) }

FBodies(n) ==
  {Ret(G(2)), Block(<<>>)}
  \cup (IF n = 0 THEN {}
        ELSE {Ret(Add(Calling(1, <<G(2)>>), V(n))),
              Ret(Cond(V(1), Bin("bitop", "and", V(n), Calling(1, <<V(1)>>)), G(2)))})

(* What main does with the call c.                                         *)
Uses(c) ==
  { c, Ret(Add(G(1), c)), Set1(V(1), Sub(c, c)),
    Bin("comp", "setlt", c, G(2)), Bin("logand", "", c, G(1)), Bin("logor", "", G(3), c) }

GFunc(b) == Func(Ints(1), <<>>, b)

ShapePrograms ==
  UNION {{<<GFunc(Ret(Add(V(1), G(1)))), Func(params, l, x), Main(<<"int", "int">>, y)>> :
            l \in {<<>>, <<"int">>}, x \in FBodies(Len(params)),
            y \in {Calling(2, ArgsFor(params)), Ret(Add(G(1), Calling(2, ArgsFor(params))))}} :
         params \in Shapes}

(* f is called with three ints, one of which is a call.                    *)
F3 == Func(Int3, <<>>, Ret(Sub(V(1), Add(V(2), V(3)))))
Nested == {Calling(2, <<G(1), Calling(1, <<G(4)>>), G(2)>>),
           Calling(2, <<Calling(2, <<G(1), G(2), G(4)>>), G(1), Add(G(4), G(2))>>),
           Via(Fn(2), <<G(4), G(2), Calling(1, <<G(2)>>)>>),
           Via(V(2), <<G(4), G(2), G(1)>>)}
UsePrograms ==
  {<<GFunc(g), F3, Main(<<"int", "int">>, Block(<<Set1(V(2), Fn(2)), u>>))>> :
     g \in GBodies, u \in UNION {Uses(c) : c \in Nested}}

(* The rest of the expressions, with a call in the middle.                 *)
C == Calling(1, <<G(2)>>)
OtherBodies ==
  { Set1(Un("deref", "", Un("addr", "", V(1))), C),
    Block(<<Set1(V(1), Un("addr", "", G(4))), Set1(Un("deref", "", V(1)), Add(Un("deref", "", V(1)), C))>>),
    Add(Un("postinc", "add", V(1)), C), Add(C, Un("preinc", "sub", G(4))),
    Un("postinc", "add", Un("deref", "", Un("addr", "", G(4)))),
    Bin("ptrarith", "add", Un("addr", "", G(1)), C),
    Bin("copy", "", S(2), SG(5)),
    Un("lognot", "", Bin("comp", "seteq", C, L(7))),
    Bin("comma", "", L(3), Add(C, L(2))),
    Bin("comp", "setle", Fl(G(1)), Fl(C)),
    Node("floatarith", "add", 0, "float", <<Fl(C), Node("flit", "", 2, "float", <<>>)>>),
    Node("return", "", 0, "int", <<>>) }
OtherPrograms ==
  {<<GFunc(Ret(Bin("bitop", "or", V(1), G(1)))), Main(<<"int", "struct">>, b)>> : b \in OtherBodies}

MCPrograms == ShapePrograms \cup UsePrograms \cup OtherPrograms

RECURSIVE Subtrees(_)
Subtrees(t) == {t} \cup UNION {Subtrees(t.kids[i]) : i \in DOMAIN t.kids}
MCNodes == UNION {UNION {Subtrees(p[f].body) : f \in DOMAIN p} : p \in MCPrograms}
=============================================================================
