---------------------------- MODULE MCMacroExpand ----------------------------
(* Small programs for MacroExpand: five sets of macros, each with every    *)
(* text up to a length over a few names, and some longer texts.            *)
EXTENDS Prosser

N(c) == <<c>>
P(n) == [n |-> <<"parameter">>, p |-> n, hideset |-> {}]
B(c) == Token(N(c))
Obj(body) == [kind |-> "obj", nargs |-> 0, varg |-> FALSE, body |-> body]
Func(nargs, body) == [kind |-> "func", nargs |-> nargs, varg |-> FALSE, body |-> body]
Varg(nargs, body) == [kind |-> "func", nargs |-> nargs, varg |-> TRUE, body |-> body]
Special == [kind |-> "special", nargs |-> 0, varg |-> FALSE, body |-> <<>>]

MacroNames == {N("A"), N("B"), N("E"), N("f"), N("g"), N("h"), N("S")}
Macros(some) == [n \in MacroNames |-> IF n[1] \in DOMAIN some THEN some[n[1]] ELSE NoMacro]

Lines == [l \in {<<"newline", "undef f">>, <<"newline", "define A f a">>} |->
            IF l[2] = "undef f"
            THEN [name |-> N("f"), macro |-> NoMacro]
            ELSE [name |-> N("A"), macro |-> Obj(<<B("f"), B("a")>>)]]
UndefF == <<"newline", "undef f">>
DefineA == <<"newline", "define A f a">>

(* A directive is read only at the beginning of a line.                    *)
WellFormed(text) ==
  \A n \in DOMAIN text : text[n] \in DOMAIN Lines =>
    n = 1 \/ text[n - 1] = NEWLINE \/ text[n - 1] \in DOMAIN Lines

Texts(names, length) ==
  {t \in UNION {[1..n -> names] : n \in 0..length} : WellFormed(t)}

(* f(x) = x g     g(x) = f(x): the case in which hide sets intersect.      *)
Mutual == Macros([f |-> Func(1, <<P(1), B("g")>>),
                  g |-> Func(1, <<B("f"), B("("), P(1), B(")")>>)])

(* A = E B        B = A      h() = h A h   E is empty                      *)
Cyclic == Macros([A |-> Obj(<<B("E"), B("B")>>),
                  B |-> Obj(<<B("A")>>),
                  h |-> Func(0, <<B("h"), B("A"), B("h")>>),
                  E |-> Obj(<<>>)])

(* f(x, y...) = #x , ## y y    g(x, y) = x ## y ## a x    A = a ## b       *)
Pasting == Macros([f |-> Varg(2, <<B("#"), P(1), B(","), B("##"), P(2), P(2)>>),
                   g |-> Func(2, <<P(1), B("##"), P(2), B("##"), B("a"), P(1)>>),
                   A |-> Obj(<<B("a"), B("##"), B("b")>>)])

(* f(x) = x A x   A = a   S is special                                     *)
Lined == Macros([f |-> Func(1, <<P(1), B("A"), P(1)>>),
                 A |-> Obj(<<B("a")>>),
                 S |-> Special])

(* f(x) = x ## f(x)     A = a ## b B     B = E     E is empty              *)
SelfPasting == Macros([f |-> Func(1, <<P(1), B("##"), B("f"), B("("), P(1), B(")")>>),
                       A |-> Obj(<<B("a"), B("##"), B("b"), B("B")>>),
                       B |-> Obj(<<B("E")>>),
                       E |-> Obj(<<>>)])

MCTables == [mutual |-> Mutual, cyclic |-> Cyclic, pasting |-> Pasting, lined |-> Lined,
             selfpasting |-> SelfPasting]

With(name, texts) == {[table |-> name, text |-> t] : t \in texts}

(* Calls of a macro: anything up to a length in and after the parentheses. *)
Calls(name, names, inside, after) ==
  {t \in {<<name, LPAREN>> \o a \o <<RPAREN>> \o b :
            a \in Texts(names, inside), b \in Texts(names, after)} : WellFormed(t)}

MCPrograms ==
  LET parens == {LPAREN, RPAREN} IN
  With("mutual", Texts({N("f"), N("g"), N("a")} \cup parens, 3)
                 \cup Calls(N("f"), {N("f"), N("g"), N("a")} \cup parens, 2, 3))
  \cup With("cyclic", Texts({N("A"), N("B"), N("E"), N("h")} \cup parens, 4))
  \cup With("pasting", Texts({N("f"), N("g"), N("A"), COMMA} \cup parens, 2)
                 \cup Calls(N("f"), {N("f"), N("A"), COMMA} \cup parens, 4, 0)
                 \cup Calls(N("g"), {N("f"), N("g"), N("A"), COMMA}, 4, 0)
                 \cup Calls(N("g"), {N("g"), N("A"), COMMA} \cup parens, 3, 1))
  \cup With("selfpasting", Texts({N("f"), N("A"), N("B")} \cup parens, 4))
  \cup With("lined", Texts({N("f"), N("A"), N("S"), NEWLINE, UndefF} \cup parens, 3)
                 \cup Calls(N("f"), {N("f"), N("A"), NEWLINE, UndefF, DefineA}, 3, 1)
                 \cup {<<N("f"), NEWLINE, UndefF, LPAREN, N("A"), RPAREN>>})
=============================================================================
