------------------------------- MODULE Records -------------------------------
(***************************************************************************)
(* parse.c's struct and union definitions: tags, the list of members that  *)
(* is read between braces, and the layout that is computed at the closing  *)
(* brace, one member a step (update_struct_offset, update_union_offset).   *)
(* A definition inside of another one is a frame on the stack, as the C    *)
(* functions are.  Types that are no records are given by the program.     *)
(***************************************************************************)
EXTENDS Integers, Sequences

CONSTANTS
  Tags, Names, NoName,   (* NoName stands for a missing tag or name *)
  Basics,                (* the types that are no records *)
  PointerSize,
  Programs               (* sequences of tokens *)

(* An array of unknown length has len and size -1.                         *)
Basic == [kind : {"int", "array"}, size : Nat \cup {-1}, align : Nat \ {0}, len : Nat \cup {-1}]

(* A token stands for                                                      *)
(*    open    struct tag {          ref     struct tag name;               *)
(*    close   } name;               pointer struct tag *name;              *)
(*    field   type name;            bits    type name : bits;              *)
Tokens == [kind : {"open", "close", "ref", "pointer", "field", "bits"},
           isstruct : BOOLEAN, tag : Tags \cup {NoName}, name : Names \cup {NoName},
           type : Basics, bits : Int]

ASSUME ProgramAssumption ==
  /\ NoName \notin Tags \cup Names
  /\ PointerSize \in Nat \ {0}
  /\ Basics \subseteq Basic
  /\ \A t \in Basics : t.kind = "int" => t.size \in Nat \ {0}
  /\ \A t \in Basics : t.size = -1 => t.len = -1
  /\ Programs \subseteq Seq(Tokens)

VARIABLES
  program, input,   (* what is read, and what is left of it *)
  tags,      (* tag -> the number of its type, or 0 *)
  types,     (* the record types made so far *)
  stack,     (* the definitions being read: [id, list], innermost first *)
  n,         (* the member that is laid out next; 0 while members are read *)
  off, bitoff, align,   (* update_struct_offset's; off is maxsize in a union *)
  dict,      (* the members laid out, those without a name left out *)
  status     (* "reading", "done" or "error" *)

tables == <<tags, types>>
layout == <<n, off, bitoff, align, dict>>
vars == <<program, input, tables, stack, layout, status>>

Larger(x, y) == IF x >= y THEN x ELSE y

(* compute_padding *)
Padding(offset, al) == IF offset % al = 0 THEN 0 ELSE al - (offset % al)
Pad(offset, al) == offset + Padding(offset, al)

(* A member as it is read: its type by value (copy_type); bits is -1 if it *)
(* is no bit-field.                                                        *)
Member(name, ty, bits) == [name |-> name, ty |-> ty, bits |-> bits]

BasicType(b) == [kind |-> b.kind, size |-> b.size, align |-> b.align, len |-> b.len, dict |-> <<>>]
RecordType(r) == [kind |-> "record", size |-> r.size, align |-> r.align, len |-> 0, dict |-> r.dict]
PointerType == [kind |-> "pointer", size |-> PointerSize, align |-> PointerSize, len |-> 0, dict |-> <<>>]

(* A member in its place; nth is its number among those it was read with.  *)
Entry(m, offset, bit, nth) ==
  [name |-> m.name, offset |-> offset, bitoff |-> bit, bits |-> m.bits, size |-> m.ty.size, nth |-> nth]

Init ==
  /\ program \in Programs /\ input = program
  /\ tags = [t \in Tags |-> 0]
  /\ types = <<>>
  /\ stack = <<>>
  /\ n = 0 /\ off = 0 /\ bitoff = 0 /\ align = 1 /\ dict = <<>>
  /\ status = "reading"

Tok == input[1]
Reads(kind) == status = "reading" /\ n = 0 /\ input # <<>> /\ Tok.kind = kind
Advance == input' = Tail(input)
Frame == stack[1]
Place == Len(program) - Len(input) + 1

Fail == status' = "error" /\ UNCHANGED <<program, input, tables, stack, layout>>

(* What is declared is a member of the record being read, if there is one. *)
Declare(s, m) ==
  IF s = <<>> THEN <<>>
  ELSE <<[id |-> s[1].id, at |-> s[1].at, list |-> Append(s[1].list, m)]>> \o Tail(s)

------------------------------------------------------------------------------
(* read_rectype_def, up to the members. *)

Known == Tok.tag # NoName /\ tags[Tok.tag] # 0
IsMatch == Known => types[tags[Tok.tag]].isstruct = Tok.isstruct
Id == IF Known THEN tags[Tok.tag] ELSE Len(types) + 1

MakeRecType(al) == [isstruct |-> Tok.isstruct, size |-> 0, align |-> al, dict |-> <<>>, at |-> 0]

SetTag == tags' = IF Tok.tag = NoName THEN tags ELSE [tags EXCEPT ![Tok.tag] = Id]

ReadOpen ==
  /\ Reads("open") /\ IsMatch
  /\ Advance
  /\ SetTag
  /\ types' = IF Known THEN types ELSE Append(types, MakeRecType(0))
  /\ stack' = <<[id |-> Id, at |-> Place, list |-> <<>>]>> \o stack
  /\ UNCHANGED <<program, layout, status>>

(* A type that is mentioned without members: its align becomes 1.          *)
Mention ==
  /\ SetTag
  /\ types' = IF Known THEN [types EXCEPT ![Id].align = 1] ELSE Append(types, MakeRecType(1))

ReadRef ==
  /\ Reads("ref") /\ IsMatch
  /\ Advance
  /\ Mention
  /\ stack' = Declare(stack, Member(Tok.name, RecordType(types'[Id]), -1))
  /\ UNCHANGED <<program, layout, status>>

ReadPointer ==
  /\ Reads("pointer") /\ IsMatch
  /\ Advance
  /\ Mention
  /\ stack' = Declare(stack, Member(Tok.name, PointerType, -1))
  /\ UNCHANGED <<program, layout, status>>

ReadMismatch == (Reads("open") \/ Reads("ref") \/ Reads("pointer")) /\ ~ IsMatch /\ Fail

------------------------------------------------------------------------------
(* read_rectype_fields_sub *)

ReadField ==
  /\ Reads("field")
  /\ Advance
  /\ stack' = Declare(stack, Member(Tok.name, BasicType(Tok.type), -1))
  /\ UNCHANGED <<program, tables, layout, status>>

(* read_bitsize *)
BitsOK == /\ stack # <<>> /\ Tok.type.kind = "int"
          /\ Tok.bits \in 0..8 * Tok.type.size
          /\ Tok.bits = 0 => Tok.name = NoName

ReadBits ==
  /\ Reads("bits") /\ BitsOK
  /\ Advance
  /\ stack' = Declare(stack, Member(Tok.name, BasicType(Tok.type), Tok.bits))
  /\ UNCHANGED <<program, tables, layout, status>>

ReadBadBits == Reads("bits") /\ ~ BitsOK /\ Fail

(* fix_rectype_flexible_member *)
IsFlexible(m) == m.ty.kind = "array" /\ m.ty.len = -1
FlexibleOK(list) == \A k \in 1..Len(list) : IsFlexible(list[k]) => k = Len(list) /\ k # 1

(* A flexible member, now of length 0. *)
Emptied(m, size) ==
  Member(m.name, [kind |-> m.ty.kind, size |-> size, align |-> m.ty.align, len |-> 0, dict |-> m.ty.dict], m.bits)

(* Mutant of FixFlexible: only the length is set.                          *)
FixFlexibleLen(list) ==
  [k \in 1..Len(list) |-> IF IsFlexible(list[k]) THEN Emptied(list[k], list[k].ty.size) ELSE list[k]]

FixFlexible(list) ==
  [k \in 1..Len(list) |-> IF IsFlexible(list[k]) THEN Emptied(list[k], 0) ELSE list[k]]

(* The layout begins; the name behind the brace is read after it.          *)
ReadClose ==
  /\ Reads("close") /\ stack # <<>> /\ FlexibleOK(Frame.list)
  /\ stack' = <<[id |-> Frame.id, at |-> Frame.at, list |-> FixFlexible(Frame.list)]>> \o Tail(stack)
  /\ n' = 1
  /\ off' = 0 /\ bitoff' = 0 /\ align' = 1 /\ dict' = <<>>
  /\ UNCHANGED <<program, input, tables, status>>

ReadBadEnd ==
  /\ \/ Reads("close") /\ (stack # <<>> => ~ FlexibleOK(Frame.list))
     \/ status = "reading" /\ n = 0 /\ input = <<>> /\ stack # <<>>
  /\ Fail

------------------------------------------------------------------------------
(* update_struct_offset and update_union_offset: the n-th member.          *)

Laying == status = "reading" /\ n # 0 /\ n <= Len(Frame.list)
M == Frame.list[n]
IsStruct == types[Frame.id].isstruct
Anonymous == M.name = NoName /\ M.ty.kind = "record"

(* squash_unnamed_struct *)
Moved(e, offset) == [name |-> e.name, offset |-> e.offset + offset, bitoff |-> e.bitoff,
                     bits |-> e.bits, size |-> e.size, nth |-> n]
Squashed(d, offset) == [k \in 1..Len(d) |-> Moved(d[k], offset)]

Put(offset, bit) ==
  dict' = IF M.name = NoName THEN dict ELSE Append(dict, Entry(M, offset, bit, n))

(* Where the next byte is. *)
FinishBits == off + (bitoff + 7) \div 8

AlignRecord == align' = IF M.name = NoName THEN align ELSE Larger(align, M.ty.align)

LayNext ==
  /\ n' = n + 1
  /\ UNCHANGED <<program, input, tables, stack, status>>

LayAnonymous ==
  /\ Laying /\ IsStruct /\ Anonymous
  /\ LET at == Pad(FinishBits, M.ty.align) IN
     /\ dict' = dict \o Squashed(M.ty.dict, at)
     /\ off' = at + M.ty.size
  /\ bitoff' = 0
  /\ UNCHANGED align
  /\ LayNext

LayZeroBits ==
  /\ Laying /\ IsStruct /\ ~ Anonymous /\ M.bits = 0
  /\ off' = Pad(FinishBits, M.ty.align)
  /\ bitoff' = 0
  /\ AlignRecord
  /\ UNCHANGED dict
  /\ LayNext

Unit == 8 * M.ty.size

(* Mutant of Room: the bits since off are forgotten.                       *)
RoomFromOff == Unit - ((off * 8) % Unit)

Room == Unit - ((off * 8 + bitoff) % Unit)

LayBits ==
  /\ Laying /\ IsStruct /\ ~ Anonymous /\ M.bits > 0 /\ M.bits <= Room
  /\ Put(off, bitoff)
  /\ bitoff' = bitoff + M.bits
  /\ AlignRecord
  /\ UNCHANGED off
  /\ LayNext

LayNextUnit ==
  /\ Laying /\ IsStruct /\ ~ Anonymous /\ M.bits > 0 /\ M.bits > Room
  /\ off' = Pad(FinishBits, M.ty.align)
  /\ Put(off', 0)
  /\ bitoff' = M.bits
  /\ AlignRecord
  /\ LayNext

(* Mutant of LayPlain: the bits before it are not counted.                 *)
LayPlainOverBits ==
  /\ Laying /\ IsStruct /\ ~ Anonymous /\ M.bits = -1
  /\ Put(Pad(off, M.ty.align), 0)
  /\ off' = Pad(off, M.ty.align) + M.ty.size
  /\ bitoff' = 0
  /\ AlignRecord
  /\ LayNext

LayPlain ==
  /\ Laying /\ IsStruct /\ ~ Anonymous /\ M.bits = -1
  /\ Put(Pad(FinishBits, M.ty.align), 0)
  /\ off' = Pad(FinishBits, M.ty.align) + M.ty.size
  /\ bitoff' = 0
  /\ AlignRecord
  /\ LayNext

LayInUnion ==
  /\ Laying /\ ~ IsStruct
  /\ off' = Larger(off, M.ty.size)
  /\ align' = Larger(align, M.ty.align)
  /\ IF Anonymous THEN dict' = dict \o Squashed(M.ty.dict, 0) ELSE Put(0, 0)
  /\ UNCHANGED bitoff
  /\ LayNext

(* Mutant of RecordSize: the bits at the end are not counted.              *)
RecordSizeNoBits == Pad(off, align)

RecordSize == Pad(IF IsStruct THEN FinishBits ELSE off, align)

(* read_rectype_def's end, and the declarator. *)
FinishRecord ==
  /\ status = "reading" /\ n # 0 /\ n = Len(Frame.list) + 1
  /\ Advance
  /\ LET r == [isstruct |-> IsStruct, size |-> RecordSize, align |-> align, dict |-> dict, at |-> Frame.at] IN
     /\ types' = [types EXCEPT ![Frame.id] = r]
     /\ stack' = Declare(Tail(stack), Member(Tok.name, RecordType(r), -1))
  /\ n' = 0
  /\ UNCHANGED <<program, tags, off, bitoff, align, dict, status>>

Finish ==
  /\ status = "reading" /\ n = 0 /\ input = <<>> /\ stack = <<>>
  /\ status' = "done"
  /\ UNCHANGED <<program, input, tables, stack, layout>>

Next ==
  \/ ReadOpen \/ ReadRef \/ ReadPointer \/ ReadMismatch
  \/ ReadField \/ ReadBits \/ ReadBadBits \/ ReadClose \/ ReadBadEnd
  \/ LayAnonymous \/ LayZeroBits \/ LayBits \/ LayNextUnit \/ LayPlain \/ LayInUnion
  \/ FinishRecord \/ Finish

Spec == Init /\ [][Next]_vars

------------------------------------------------------------------------------
Entries == [name : Names, offset : Nat, bitoff : Nat, bits : Int, size : Nat, nth : Nat]
RecTypes == [isstruct : BOOLEAN, size : Nat, align : Nat, dict : Seq(Entries), at : Nat]
Types == [kind : {"int", "array", "record", "pointer"}, size : Nat \cup {-1}, align : Nat \ {0},
          len : Nat \cup {-1}, dict : Seq(Entries)]
Members == [name : Names \cup {NoName}, ty : Types, bits : Nat \cup {-1}]
Frames == [id : 1..Len(types), at : Nat, list : Seq(Members)]

(* Every variable has its type; what is laid out has a size.               *)
TypeOK ==
  /\ program \in Seq(Tokens) /\ input \in Seq(Tokens) /\ Len(input) <= Len(program)
  /\ tags \in [Tags -> 0..Len(types)]
  /\ types \in Seq(RecTypes)
  /\ stack \in Seq(Frames)
  /\ n \in Nat /\ off \in Nat /\ bitoff \in Nat /\ align \in Nat \ {0}
  /\ dict \in Seq(Entries)
  /\ status \in {"reading", "done", "error"}
  /\ n # 0 => /\ stack # <<>> /\ n <= Len(Frame.list) + 1 /\ input # <<>>
              /\ \A k \in 1..Len(Frame.list) : Frame.list[k].ty.size # -1

(* The bits of a record that are an entry's. *)
FirstBit(e) == 8 * e.offset + e.bitoff
EndBit(e) == FirstBit(e) + (IF e.bits > 0 THEN e.bits ELSE 8 * e.size)

Apart(d) == \A j, k \in 1..Len(d) :
              d[j].nth # d[k].nth => EndBit(d[j]) <= FirstBit(d[k]) \/ EndBit(d[k]) <= FirstBit(d[j])

(* Different members of a structure share no bit, those in anonymous       *)
(* records, and bit-fields of different types that share bytes, included.  *)
MembersApart ==
  /\ \A t \in 1..Len(types) : types[t].isstruct => Apart(types[t].dict)
  /\ n # 0 /\ IsStruct => Apart(dict)

Within(d, size) == \A k \in 1..Len(d) : EndBit(d[k]) <= 8 * size

(* A record is large enough for all of its members.                        *)
MembersInside == \A t \in 1..Len(types) : Within(types[t].dict, types[t].size)
=============================================================================
