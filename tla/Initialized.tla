----------------------------- MODULE Initialized -----------------------------
(***************************************************************************)
(* What an initializer means (C11 6.7.9), from its syntax tree decl.init:  *)
(*    [k |-> "val", v], [k |-> "str", s],                                  *)
(*    [k |-> "list", items, comma], an item being [to, init] with to its   *)
(*    designators.                                                         *)
(* A subobject is named by a path, the numbers of the parts that lead to   *)
(* it.  A list walks its object with a cursor, the path of the subobject   *)
(* initialized last.                                                       *)
(***************************************************************************)
EXTENDS Initializers, FiniteSetsExt

(* The tokens of an initializer.                                           *)
Mark(k) == <<[k |-> k]>>
RECURSIVE Text(_), ItemsText(_)
Text(x) ==
  IF x.k # "list" THEN <<x>>
  ELSE Mark("{") \o ItemsText(x.items) \o (IF x.comma THEN Mark(",") ELSE <<>>) \o Mark("}")
ItemsText(items) ==
  IF items = <<>> THEN <<>>
  ELSE items[1].to \o (IF items[1].to = <<>> THEN <<>> ELSE Mark("=")) \o Text(items[1].init)
       \o (IF Len(items) = 1 THEN <<>> ELSE Mark(",") \o ItemsText(Tail(items)))

(* Subobjects.  Of a union only the first part comes by itself; an array   *)
(* of unknown length is as long as it needs.                               *)
Part(t, i) == IF t.kind = "array" THEN t.ptr[1] ELSE t.fields[i + 1].type
PartOffset(t, i) == IF t.kind = "array" THEN t.ptr[1].size * i ELSE t.fields[i + 1].offset
Unbounded(t) == t.kind = "array" /\ t.len < 0
Parts(t) ==
  IF Unbounded(t) THEN 100 ELSE IF t.kind = "array" THEN t.len
  ELSE IF t.isstruct THEN Len(t.fields) ELSE 1

Front(p) == SubSeq(p, 1, Len(p) - 1)
RECURSIVE TypeAt(_, _), OffsetAt(_, _), Following(_, _), Reach(_, _, _), PathOf(_, _)
TypeAt(t, p) == IF p = <<>> THEN t ELSE TypeAt(Part(t, p[1]), Tail(p))
OffsetAt(t, p) == IF p = <<>> THEN 0 ELSE PartOffset(t, p[1]) + OffsetAt(Part(t, p[1]), Tail(p))

(* The subobject behind one; <<>> is behind the last.                      *)
Following(t, p) ==
  IF p = <<>> THEN <<>>
  ELSE IF p[Len(p)] + 1 < Parts(TypeAt(t, Front(p))) THEN [p EXCEPT ![Len(p)] = @ + 1]
  ELSE Following(t, Front(p))

(* What has no braces goes to the first subobject it fits (6.7.9p13, p20). *)
Fits(t, x) == x.k = "list" \/ (IF x.k = "str" THEN IsString(t) ELSE ~Aggregate(t))
Reach(t, p, x) ==
  IF Fits(TypeAt(t, p), x) \/ ~Aggregate(TypeAt(t, p)) THEN p ELSE Reach(t, Append(p, 0), x)

(* The path some designators name, <<-1>> if they name none.               *)
PathOf(t, to) ==
  IF to = <<>> THEN <<>>
  ELSE LET d == to[1]
           here == IF t.kind = "array"
                   THEN {x.n : x \in {x \in {d} : x.k = "[" /\ (t.len < 0 \/ x.n < t.len)}}
                   ELSE {k - 1 : k \in {k \in DOMAIN t.fields : d.k = "." /\ t.fields[k].name = d.name}}
       IN  IF here = {} THEN <<-1>>
           ELSE LET i == CHOOSE i \in here : TRUE IN <<i>> \o PathOf(Part(t, i), Tail(to))

(* The outcome of some initializers:                                       *)
(*    valid   they obey the constraints, but for values there is no room   *)
(*            for at the end of a list                                     *)
(*    vals    <<offset, value, size>> of the scalars given a value, by a   *)
(*            string that ends before its array a zero; the others are     *)
(*            zero too                                                     *)
(*    bytes   what has been initialized                                    *)
(*    odd     what the compiler is known to get wrong:                     *)
(*              "twice"   something is initialized again                   *)
(*              "late"    a designator behind the last element of its     *)
(*                        array, or behind a member of its union           *)
(*              "nul"     a string with a null character inside            *)
(*              "comma"   a comma behind a string in braces of its own     *)
(*    top     the highest element of the object; last: the last one        *)
Nothing == [valid |-> TRUE, vals |-> {}, bytes |-> {}, odd |-> {}, top |-> 0, last |-> 0]
Extent(n, size) == n..(n + size - 1)

RECURSIVE Give(_, _), GiveList(_, _, _, _)
Give(t, x) ==
  CASE x.k = "val" ->
         [Nothing EXCEPT !.valid = ~Aggregate(t), !.vals = {<<0, x.v, t.size>>}]
    [] x.k = "str" ->
         LET n == IF t.len < 0 THEN Len(x.s) + 1 ELSE t.len
             Char(k) == IF k <= Len(x.s) THEN x.s[k] ELSE 0
         IN  [Nothing EXCEPT !.valid = IsString(t), !.vals = {<<k - 1, Char(k), 1>> : k \in 1..n},
                             !.odd = IF 0 \in {x.s[k] : k \in DOMAIN x.s} THEN {"nul"} ELSE {},
                             !.top = Len(x.s), !.last = Len(x.s)]
    [] OTHER ->
         IF IsString(t) /\ Len(x.items) = 1 /\ x.items[1].to = <<>> /\ x.items[1].init.k = "str"
         THEN LET m == Give(t, x.items[1].init)
              IN  [m EXCEPT !.odd = @ \cup IF x.comma THEN {"comma"} ELSE {}]
         ELSE IF Aggregate(t) THEN GiveList(t, x.items, <<-1>>, Nothing)
         ELSE IF Len(x.items) = 1 /\ x.items[1].to = <<>> /\ x.items[1].init.k = "val"
         THEN Give(t, x.items[1].init)
         ELSE [Nothing EXCEPT !.valid = FALSE]

GiveList(t, items, cursor, sofar) ==
  IF items = <<>> THEN sofar
  ELSE
  LET x == items[1]
      named == IF x.to = <<>> THEN Following(t, cursor) ELSE PathOf(t, x.to)
      late == ~t.isstruct /\ x.to # <<>> /\ cursor # <<-1>> /\ cursor[1] + 1 >= Parts(t)
  IN
  IF named = <<>> \/ -1 \in {named[k] : k \in DOMAIN named}
  THEN [sofar EXCEPT !.valid =
          /\ @ /\ named = <<>>
          /\ \A k \in DOMAIN items : items[k].to = <<>> /\ items[k].init.k = "val"]
  ELSE
  LET path == Reach(t, named, x.init)
      sub == TypeAt(t, path)
      o == OffsetAt(t, path)
      mine == Give(sub, x.init)
      fresh == Extent(o, sub.size)
  IN  GiveList(t, Tail(items), path,
        [valid |-> sofar.valid /\ mine.valid,
         vals |-> {p \in sofar.vals : p[1] \notin fresh} \cup {<<o + p[1], p[2], p[3]>> : p \in mine.vals},
         bytes |-> sofar.bytes \cup fresh,
         odd |-> sofar.odd \cup mine.odd
                 \cup (IF late THEN {"late"} ELSE {})
                 \cup (IF sofar.bytes \cap fresh # {} THEN {"twice"} ELSE {}),
         top |-> Max({sofar.top, path[1]}), last |-> path[1]])

RECURSIVE Scalars(_, _)
(* The scalars of an object, as pairs of an offset and a size.             *)
Scalars(t, o) ==
  IF ~Aggregate(t) THEN {<<o, t.size>>}
  ELSE UNION {Scalars(Part(t, i), o + PartOffset(t, i)) : i \in 0..(Parts(t) - 1)}

Ended == status \notin {"reading", "emitting"}
Meaning == Give(decl.type, decl.init)
Complete(m) == IF Unbounded(decl.type) THEN ArrayOf(decl.type.ptr[1], m.top + 1) ELSE decl.type

(* The word at an offset, and the value C wants there: what was given, or  *)
(* zero where nothing was.                                                 *)
Word(o) == IF o + 1 \in DOMAIN image THEN image[o + 1] ELSE Garbage
ValuesAt(m, o) == {p[2] : p \in {p \in m.vals : p[1] = o}}
Value(m, o) == IF ValuesAt(m, o) = {} THEN 0 ELSE Low(Max(ValuesAt(m, o)))
Overlaps(m, s) == \E p \in m.vals : p[1] # s[1] /\ p[1] \in Extent(s[1], s[2])

(* The words that go through rax on their way into a local object, with    *)
(* the size of the type: of a long in a list, the upper one too.           *)
Listed == decl.init.k = "list"
Moved(m) ==
  {<<p[1], Low(p[2]), p[3]>> : p \in m.vals}
  \cup {<<p[1] + 1, High(p[2]), p[3]>> : p \in {p \in m.vals : p[3] = 8 /\ Listed}}

(* What a local object holds where C wants such a word: movi ORs it into   *)
(* what rax still holds of the words in front of it, and of what the       *)
(* program computed before.  Residue is rax with all words in front of o   *)
(* stored; a char leaves it a byte with its sign extended.                 *)
RECURSIVE Residue(_, _)
Residue(words, o) ==
  LET before == {p \in words : p[1] < o}
      p == CHOOSE p \in before : \A q \in before : q[1] <= p[1]
      w == Residue(words, p[1]) | p[2]
      byte == w % 256
  IN  IF before = {} THEN held
      ELSE IF p[3] = 1 THEN byte + 65280 * (byte \div 128) ELSE w

(* Of a global object the words in front of an offset fill it, one each.   *)
Compact(o) == LET before == {k \in DOMAIN inits : inits[k].off < o}
              IN  \A k \in before : inits[k].off = k - 1 /\ inits[k].ty.size = 1
Crashes(m) == storage = "global" /\ Listed /\ \E p \in m.vals : p[3] = 8

(* Unless an initializer is odd, or its last element is not the highest of *)
(* an array of unknown length, the object is declared and the array gets   *)
(* its length; only a long in the list of a global object crashes the      *)
(* compiler.  A local object holds, in the place of every value C gives    *)
(* it, this value ORed with what movi left in rax of the values in front   *)
(* of it, and zero in the place of every other scalar: where this is not   *)
(* what C says, movi is why.  A global object holds C's values as far as   *)
(* its words are compact: behind a hole, or behind a scalar that is larger *)
(* than a character, the words are not where they are read                 *)
(* (parse.c:1617-1817, gen_ex_isa_rebuild.c:1211-1412 and 2273-2424).      *)
MatchesC ==
  Ended =>
    LET m == Meaning
        t == Complete(m)
        scalars == {s \in Scalars(t, 0) : ~Overlaps(m, s)}
        words == Moved(m)
    IN  m.odd = {} /\ (Unbounded(decl.type) => m.top = m.last) =>
          /\ status = IF Crashes(m) THEN "crashed" ELSE "done"
          /\ type = t
          /\ storage = "local" =>
               /\ \A p \in words : Word(p[1]) = Residue(words, p[1] + 1)
               /\ \A s \in scalars : ValuesAt(m, s[1]) = {} => Word(s[1]) = 0
          /\ storage = "global" /\ ~Crashes(m) =>
               \A s \in scalars : Compact(s[1]) => Word(s[1]) = Value(m, s[1])

(* test/global.c:12 and 40: of int a2[3] = { 24, 25, 26 }, a2[1] is 25.    *)
(* The elements of a global object read back what they were given.         *)
DataReadsBack ==
  Ended /\ storage = "global" =>
    \A s \in Scalars(decl.type, 0) : Word(s[1]) = Value(Meaning, s[1])
=============================================================================
