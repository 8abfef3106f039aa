---------------------------- MODULE MCInitializers ----------------------------
EXTENDS Initialized

Scalar(kind, size) ==
  [kind |-> kind, size |-> size, len |-> 0, ptr |-> <<>>, fields |-> <<>>, isstruct |-> FALSE]
CChar == Scalar("char", 1)
CInt == Scalar("int", 4)
CLong == Scalar("long", 8)
Member(name, o, t) == [name |-> name, offset |-> o, type |-> t]
Record(size, isstruct, fields) ==
  [kind |-> "struct", size |-> size, len |-> 0, ptr |-> <<>>, fields |-> fields, isstruct |-> isstruct]
Open(t) == [ArrayOf(t, 1) EXCEPT !.len = -1, !.size = -1]

Pair == Record(2, TRUE, <<Member("a", 0, CChar), Member("b", 1, CChar)>>)
Mixed == Record(16, TRUE, <<Member("a", 0, CChar), Member("b", 4, CInt), Member("c", 8, CLong)>>)
Either ==
  Record(4, FALSE, <<Member("a", 0, CChar), Member("b", 0, CInt), Member("c", 0, ArrayOf(CChar, 3))>>)
Nested ==
  Record(12, TRUE, <<Member("a", 0, ArrayOf(CChar, 2)), Member("b", 4, Either), Member("c", 8, CInt)>>)

Types ==
  {CChar, CInt, CLong, ArrayOf(CInt, 3), Open(CInt), ArrayOf(CChar, 4), Open(CChar),
   Mixed, Either, Nested, ArrayOf(Pair, 2), Open(Pair), ArrayOf(ArrayOf(CChar, 2), 2)}

Index(n) == [k |-> "[", n |-> n]
Dot(name) == [k |-> ".", name |-> name]
One(t) ==
  IF t.kind = "array" THEN {<<Index(n)>> : n \in 0..(IF t.len < 0 THEN 2 ELSE t.len - 1)}
  ELSE {<<Dot(t.fields[k].name)>> : k \in DOMAIN t.fields}
Named(t, to) == TypeAt(t, PathOf(t, to))
Two(t) ==
  UNION {{to \o more : more \in One(Named(t, to))} : to \in {to \in One(t) : Aggregate(Named(t, to))}}

Val(v) == [k |-> "val", v |-> v]
Str(s) == [k |-> "str", s |-> s]
List(items, comma) == [k |-> "list", items |-> items, comma |-> comma]
Item(to, x) == [to |-> to, init |-> x]
Bare(x) == Item(<<>>, x)

(* The n-th item of a list gives values from ten times n.                  *)
Values(t, n) == {Item(to, Val(10 * n)) : to \in {<<>>} \cup One(t) \cup Two(t)}
Lists(t, n) ==
  LET v(k) == Val(10 * n + k)
      inner == {<<Bare(v(1))>>, <<Bare(v(1)), Bare(v(2))>>, <<Item(<<Index(1)>>, v(1))>>,
                <<Item(<<Dot("b")>>, v(1))>>, <<Item(<<Dot("b")>>, v(1)), Item(<<Dot("a")>>, v(2))>>}
  IN  {Item(to, List(x, FALSE)) : to \in {<<>>} \cup One(t), x \in inner}
Strings(t, n) ==
  {Bare(Str(s)) : s \in {<<10 * n>>, <<10 * n + 1, 10 * n + 2>>, <<10 * n, 0, 10 * n + 3>>}}
Items(t, n) == Values(t, n) \cup Lists(t, n) \cup Strings(t, n)

(* A value of more than sixteen bits: 3 * 65536 + 20.                      *)
Wide == 196628

Short(t, n) == {Item(to, Val(10 * n)) : to \in {<<>>} \cup One(t)}
Sources(t) ==
  IF ~Aggregate(t)
  THEN {Val(1), Val(Wide), List(<<Bare(Val(Wide))>>, FALSE), List(<<Bare(Val(1))>>, FALSE), List(<<Bare(Val(1))>>, TRUE)}
  ELSE {List(<<x>>, c) : x \in Items(t, 1), c \in BOOLEAN}
       \cup {List(<<x, y>>, FALSE) : x \in Items(t, 1), y \in Items(t, 2)}
       \cup {List(<<x, y, z>>, FALSE) : x \in Values(t, 1), y \in Values(t, 2), z \in Short(t, 3)}
       \cup {x.init : x \in Strings(t, 1)}
       \cup {List(<<x, y>>, FALSE) : x \in Items(t, 1), y \in {y \in {Item(<<Dot("c")>>, Val(Wide))} : t = Mixed}}

(* The arrays of test/global.c and test/initializer.c.                     *)
Array(t, values) ==
  LET x == List([k \in DOMAIN values |-> Bare(Val(values[k]))], FALSE)
  IN  {[type |-> t, input |-> Text(x) \o Mark(";"), init |-> x]}
GlobalTest == Array(ArrayOf(CInt, 3), <<24, 25, 26>>)
LocalTest == Array(Open(CInt), <<1, 3, 5>>)

MCDeclarations ==
  LocalTest
  \cup UNION {{[type |-> t, input |-> Text(x) \o Mark(";"), init |-> x] :
                  x \in {x \in Sources(t) : Give(t, x).valid}} : t \in Types}

(* Nothing; or bits that no literal of the run has, one of them a sign.    *)
MCRegisters == {0, 384}
MCGarbage == -1
=============================================================================
