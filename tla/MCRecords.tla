------------------------------ MODULE MCRecords ------------------------------
(* Structures of up to three members of every sort, unions, and records in *)
(* records, with and without names.                                        *)
EXTENDS Abi

CONSTANTS s, u, x, y, z, none

Ty(size, al) == [kind |-> "int", size |-> size, align |-> al, len |-> 0]
Char == Ty(1, 1)
Short == Ty(2, 2)
Int4 == Ty(4, 4)
Char3 == [kind |-> "array", size |-> 3, align |-> 1, len |-> 3]
Flex == [kind |-> "array", size |-> -1, align |-> 4, len |-> -1]
MCBasics == {Char, Short, Int4, Char3, Flex}

Token(kind, isstruct, tag, name, type, bits) ==
  <<[kind |-> kind, isstruct |-> isstruct, tag |-> tag, name |-> name, type |-> type, bits |-> bits]>>
Struct(tag) == Token("open", TRUE, tag, none, Char, 0)
Union(tag) == Token("open", FALSE, tag, none, Char, 0)
End(name) == Token("close", TRUE, none, name, Char, 0)
Ref(tag, name) == Token("ref", TRUE, tag, name, Char, 0)
Ptr(tag, name) == Token("pointer", TRUE, tag, name, Char, 0)
F(type, name) == Token("field", TRUE, none, name, type, 0)
Bit(type, name, bits) == Token("bits", TRUE, none, name, type, bits)

(* One member called name, or one without a name. *)
Named(name) == {F(Char, name), F(Short, name), F(Int4, name), F(Char3, name), Ptr(s, name),
                Bit(Char, name, 3), Bit(Char, name, 7), Bit(Short, name, 9), Bit(Int4, name, 10), Bit(Int4, name, 17)}
Unnamed == {Bit(Int4, none, 10), Bit(Char, none, 8), Bit(Char, none, 0), Bit(Short, none, 0), Bit(Int4, none, 0)}
Any(name) == Named(name) \cup Unnamed

Cat(A, B) == {p \o q : p \in A, q \in B}
Bodies2 == Cat(Any(x), Any(y))
Bodies3 == Cat(Bodies2, Any(z))

Structs(B) == {Struct(none) \o b \o End(none) : b \in B}
Few(name) == {F(Char, name), F(Int4, name), Bit(Char, name, 3), Bit(Int4, name, 17)}

(* Records in records; the one without a name is no stricter than the rest. *)
NamedInner == {F(Char, x) \o i \o q \o End(y) \o r :
                 i \in {Struct(none), Union(none)}, q \in Cat(Few(x), Few(y)), r \in Few(z)}
AnonymousInner == {p \o i \o q \o End(none) \o F(Int4, z) :
                     p \in Few(s), i \in {Struct(none), Union(none)}, q \in Cat(Few(x), Few(y))}

(* A record that is mentioned by its tag comes first, where it is aligned. *)
Special == {
  <<>>,
  Struct(s) \o F(Int4, x) \o Ptr(s, y) \o End(none),
  Union(s) \o F(Int4, x) \o Struct(none) \o F(Short, y) \o F(Short, z) \o End(none) \o End(x),
  Struct(none) \o F(Int4, x) \o F(Flex, y) \o End(x),
  Struct(s) \o F(Char, x) \o Struct(u) \o F(Short, x) \o End(y) \o End(none) \o Struct(none)
    \o Ref(u, x) \o F(Char, z) \o F(Int4, y) \o End(x),
  (* what C does not allow *)
  Struct(none) \o F(Flex, x) \o F(Int4, y) \o End(none),
  Struct(none) \o F(Flex, x) \o End(none),
  Struct(none) \o Bit(Int4, x, 33) \o End(none),
  Struct(none) \o Bit(Int4, x, 0) \o End(none),
  Struct(none) \o Bit(Char3, x, 1) \o End(none),
  Struct(s) \o F(Int4, x) \o End(none) \o Union(s) \o F(Int4, x) \o End(none),
  Struct(s) \o F(Int4, x) }

MCPrograms == Structs(Bodies3 \cup NamedInner \cup AnonymousInner)
                \cup {Union(none) \o b \o End(none) : b \in Cat(Named(x), Named(y))}
                \cup Special
=============================================================================
