---------------------------- MODULE Initializers ----------------------------
(***************************************************************************)
(* parse.c's reader of initializers and gen_ex_isa_rebuild.c's emitters of *)
(* what it has read.  The recursion of the C functions is a stack of       *)
(* frames; a scalar that is initialized is an entry of inits, at its byte  *)
(* offset in the object.  A local object is then stored scalar by scalar,  *)
(* a global one is written out as words, in the order of the offsets.      *)
(*                                                                         *)
(* Types are given with their layout (Records computes it):                *)
(*    [kind, size, len, ptr, fields, isstruct]                             *)
(* ptr holds an array's element type, fields a record's members, which are *)
(* [name, offset, type].  Only the declared object itself may be an array  *)
(* of unknown length.  Bit-fields are left out.                            *)
(***************************************************************************)
EXTENDS Integers, Sequences, TLC, Bitwise

(* [type, input]: an object and the tokens behind the equals sign.         *)
(* Registers: what rax may hold where the declaration is.                  *)
CONSTANTS Declarations, Registers, Garbage

VARIABLES
  decl, storage,   (* the declaration, of a "local" or a "global" object *)
  held,        (* what rax holds when a local object is declared *)
  type,        (* the object's type; its length may get known *)
  input,       (* the tokens that are left *)
  stack,       (* the calls, innermost first: [fn, ty, off, designated, brace, i] *)
  inits,       (* what is initialized: [off, ty, val, lit] *)
  nth,         (* the entry that is emitted next *)
  rax,         (* the register, while a local object is stored *)
  off, left,   (* do_emit_data's off and size *)
  image,       (* the object's words: of the stack, or as they were written *)
  status

given == <<decl, storage, held>>
reader == <<type, input, stack, inits>>
emitter == <<nth, rax, off, left, image>>
vars == <<given, reader, emitter, status>>

IsString(t) == t.kind = "array" /\ t.ptr[1].kind = "char"
ArrayOf(t, n) ==
  [kind |-> "array", size |-> t.size * n, len |-> n, ptr |-> <<t>>, fields |-> <<>>, isstruct |-> FALSE]
Aggregate(t) == t.kind \in {"array", "struct"}

Token == input[1]
Is(k) == Token.k = k
Skip(k) == IF Is(k) THEN Tail(input) ELSE input     (* next_token *)
Top == stack[1]
Under == Tail(stack)

Call(fn, t, o, d) == [fn |-> fn, ty |-> t, off |-> o, designated |-> d, brace |-> FALSE, i |-> 0]
In(fns) == status = "reading" /\ stack # <<>> /\ Top.fn \in fns
Reads(at) == In(at) /\ UNCHANGED <<given, emitter>>
Fail(how) == status' = how /\ UNCHANGED reader

Init ==
  /\ decl \in Declarations
  /\ storage \in {"local", "global"}
  /\ held \in IF storage = "local" THEN Registers ELSE {0}
  /\ type = decl.type /\ input = decl.input
  /\ stack = <<>> /\ inits = <<>>
  /\ nth = 1 /\ rax = held /\ off = 0 /\ left = 0 /\ image = <<>>
  /\ status = "reading"

(***************************************************************************)
(* Reading.                                                                *)
(***************************************************************************)
(* lit: the value is a literal still, and not one that is converted.       *)
Entry(t, o, v) == [off |-> o, ty |-> t, val |-> v, lit |-> TRUE]

(* A call returns to the one below it.                                     *)
Return == stack' = Under

(* sort_inits: qsort may leave entries of one offset in any order.         *)
Sorted(s) ==
  {t \in {[k \in DOMAIN s |-> s[p[k]]] : p \in Permutations(DOMAIN s)} :
     \A j, k \in DOMAIN t : j < k => t[j].off <= t[k].off}

(* Mutant of SortAndReturn: the entries stay in the order of the source.   *)
ReturnUnsorted == Return /\ UNCHANGED inits

SortAndReturn == inits' \in Sorted(inits) /\ Return

(* read_decl_init.  Only here is an int converted to the type it is for.   *)
ReadDeclInit ==
  /\ status = "reading" /\ stack = <<>> /\ inits = <<>>
  /\ IF Is("{") \/ IsString(type)
       THEN stack' = <<Call("list", type, 0, FALSE)>> /\ UNCHANGED <<type, input, inits, status>>
       ELSE /\ inits' = <<[Entry(type, 0, Token.v) EXCEPT !.lit = type.kind = "int"]>>
            /\ input' = Tail(input)
            /\ UNCHANGED <<type, stack, status>>
  /\ UNCHANGED <<given, emitter>>

(* assign_string: the C string in s goes into an array of n characters,    *)
(* and gives one of unknown length its own.                                *)
CString(s) ==
  LET nuls == {k \in DOMAIN s : s[k] = 0}
  IN  IF nuls = {} THEN s ELSE SubSeq(s, 1, (CHOOSE k \in nuls : \A m \in nuls : k <= m) - 1)
AssignString(s, t, o) ==
  LET p == CString(s)
      n == IF t.len = -1 THEN Len(p) + 1 ELSE t.len
  IN  /\ type' = IF t.len = -1 THEN ArrayOf(t.ptr[1], n) ELSE type
      /\ inits' = inits \o [k \in 1..n |->
                    Entry(t.ptr[1], o + k - 1, IF k <= Len(p) THEN p[k] ELSE 0)]

(* read_initializer_list.                                                  *)
ListString ==
  /\ Reads({"list"}) /\ IsString(Top.ty) /\ Is("str")
  /\ AssignString(Token.s, Top.ty, Top.off)
  /\ input' = Tail(input) /\ Return
  /\ UNCHANGED status

BracedString == IsString(Top.ty) /\ Is("{") /\ input[2].k = "str"
ListBracedString ==
  /\ Reads({"list"}) /\ BracedString
  /\ IF input[3].k = "}"
       THEN /\ AssignString(input[2].s, Top.ty, Top.off)
            /\ input' = SubSeq(input, 4, Len(input)) /\ Return
            /\ UNCHANGED status
       ELSE Fail("rejected")

ListAggregate ==
  /\ Reads({"list"}) /\ ~(IsString(Top.ty) /\ Is("str")) /\ ~BracedString
  /\ LET t == IF Aggregate(Top.ty) THEN Top.ty ELSE ArrayOf(Top.ty, 1)
     IN  stack' = <<[Top EXCEPT !.fn = t.kind, !.ty = t, !.brace = Is("{")]>> \o Under
  /\ input' = Skip("{")
  /\ UNCHANGED <<type, inits, status>>

(* What read_struct_initializer_sub and read_array_initializer_sub share.  *)
(* Behind the last element what is left in the braces is skipped, ...      *)
Known == Top.ty.len > 0
Leaves == (Is(".") \/ Is("[")) /\ ~Top.brace /\ ~Top.designated

Own == Is(IF Top.fn = "array" THEN "[" ELSE ".")
Full ==
  IF Top.fn = "array" THEN Known /\ Top.i >= Top.ty.len
  ELSE ~Is("}") /\ ~Leaves /\ ~Own /\ Top.i = Len(Top.ty.fields)

FullList ==
  /\ Reads({"struct", "array"}) /\ Full
  /\ IF Top.brace
       THEN stack' = <<[Top EXCEPT !.fn = "skip"]>> \o Under /\ UNCHANGED inits
       ELSE SortAndReturn
  /\ UNCHANGED <<type, input, status>>

(* ... a closing brace ends the list, whether it is its own or not, ...    *)
SetLength ==
  type' = IF Top.ty.len < 0 THEN ArrayOf(Top.ty.ptr[1], Top.i) ELSE type

CloseBrace ==
  /\ Reads({"struct", "array"}) /\ ~Full /\ Is("}")
  /\ input' = IF Top.brace THEN Tail(input) ELSE input
  /\ SetLength /\ SortAndReturn
  /\ UNCHANGED status

(* ... and a designator is left to a caller that has a brace.              *)
LeaveDesignator ==
  /\ Reads({"struct", "array"}) /\ ~Full /\ Leaves
  /\ SortAndReturn
  /\ UNCHANGED <<type, input, status>>

(* The next element, its number counted from zero.  The frame goes on with *)
(* "after" when the element has been read.                                 *)
ReadElement(i, d) ==
  LET field == Top.ty.fields[i + 1]
      t == IF Top.fn = "array" THEN Top.ty.ptr[1] ELSE field.type
      o == IF Top.fn = "array" THEN t.size * i ELSE field.offset
  IN  stack' = <<Call("elem", t, Top.off + o, d), [Top EXCEPT !.fn = "after " \o @, !.i = i + 1]>>
               \o Under

(* A designator of the other kind is no expression to whoever reads it.    *)
NextElement ==
  /\ Reads({"struct", "array"}) /\ ~Full /\ ~Is("}") /\ ~Leaves /\ ~Own
  /\ ReadElement(Top.i, Top.designated)
  /\ UNCHANGED <<type, input, inits, status>>

FieldDesignator ==
  /\ Reads({"struct"}) /\ Own /\ ~Leaves
  /\ LET named == {k \in DOMAIN Top.ty.fields : Top.ty.fields[k].name = Token.name}
     IN  IF named = {} THEN Fail("rejected")
         ELSE /\ \E k \in named : ReadElement(k - 1, TRUE)
              /\ input' = Tail(input)
              /\ UNCHANGED <<type, inits, status>>

IndexDesignator ==
  /\ Reads({"array"}) /\ Own /\ ~Leaves /\ ~Full
  /\ IF Known /\ Top.ty.len <= Token.n THEN Fail("rejected")
     ELSE /\ ReadElement(Token.n, TRUE)
          /\ input' = Tail(input)
          /\ UNCHANGED <<type, inits, status>>

(* Behind an element; a union takes one.                                   *)
AfterElement ==
  /\ Reads({"after struct", "after array"})
  /\ input' = Skip(",")
  /\ IF Top.fn = "after struct" /\ ~Top.ty.isstruct
       THEN IF Top.brace THEN stack' = <<[Top EXCEPT !.fn = "skip"]>> \o Under /\ UNCHANGED inits
            ELSE SortAndReturn
       ELSE /\ stack' = <<[Top EXCEPT !.fn = IF @ = "after struct" THEN "struct" ELSE "array",
                                      !.designated = FALSE]>> \o Under
            /\ UNCHANGED inits
  /\ UNCHANGED <<type, status>>

(* skip_to_brace, an initializer a step.  It gives up, without a word, in  *)
(* front of what begins no expression.                                     *)
Expression(tok) == tok.k \in {"val", "str"}
Behind(s) == IF s[1].k = "," THEN Tail(s) ELSE s
SkipToBrace ==
  /\ Reads({"skip"})
  /\ LET rest == IF Is(".") THEN SubSeq(input, 3, Len(input)) ELSE input
         ends == Is("}") \/ ~Expression(rest[1])
     IN  IF Is(".") /\ input[2].k # "=" THEN Fail("rejected")
         ELSE /\ input' = IF Is("}") THEN Tail(input)
                          ELSE IF ends THEN rest ELSE Behind(Tail(rest))
              /\ IF ends
                   THEN SetLength /\ SortAndReturn
                   ELSE UNCHANGED <<type, stack, inits>>
              /\ UNCHANGED status

(* read_initializer_elem.  Without an expression it follows a null pointer.*)
ElemAggregate ==
  /\ Reads({"elem"}) /\ Aggregate(Top.ty)
  /\ stack' = <<[Top EXCEPT !.fn = "list"]>> \o Under
  /\ input' = Skip("=")
  /\ UNCHANGED <<type, inits, status>>

ElemScalar ==
  /\ Reads({"elem"}) /\ ~Aggregate(Top.ty)
  /\ LET s == Skip("=")
     IN  IF s[1].k = "{"
           THEN /\ stack' = <<Call("elem", Top.ty, Top.off, TRUE), [Top EXCEPT !.fn = "close"]>> \o Under
                /\ input' = Tail(s)
                /\ UNCHANGED <<type, inits, status>>
         ELSE IF s[1].k = "val"
           THEN /\ inits' = Append(inits, Entry(Top.ty, Top.off, s[1].v))
                /\ input' = Tail(s) /\ Return
                /\ UNCHANGED <<type, status>>
         ELSE Fail("crashed")

ElemCloses ==
  /\ Reads({"close"})
  /\ IF Is("}") THEN input' = Tail(input) /\ Return /\ UNCHANGED <<type, inits, status>>
     ELSE Fail("rejected")

(* Back in read_decl; the code generator takes over.  emit_decl_init first *)
(* has emit_fill_holes clear what is between the entries, which it sorts   *)
(* once more: from the end of one to the beginning of the next.            *)
End(e) == e.off + e.ty.size
InHole(buf, b) ==
  \E k \in 0..Len(buf) : /\ k = 0 \/ End(buf[k]) <= b
                         /\ k = Len(buf) \/ b < buf[k + 1].off

FillHoles ==
  \E buf \in Sorted(inits) :
    image' = [b \in 1..type.size |-> IF InHole(buf, b - 1) THEN 0 ELSE Garbage]

ReadDecl ==
  /\ status = "reading" /\ stack = <<>> /\ inits # <<>>
  /\ IF Is(";")
       THEN /\ status' = "emitting"
            /\ left' = type.size
            /\ IF storage = "global" THEN image' = <<>> ELSE FillHoles
            /\ UNCHANGED <<reader, nth, rax, off>>
       ELSE Fail("rejected") /\ UNCHANGED emitter
  /\ UNCHANGED given

(***************************************************************************)
(* Emitting.                                                               *)
(***************************************************************************)
Emits(s) == status = "emitting" /\ storage = s /\ UNCHANGED <<given, reader>>

Current == inits[nth]
Low(n) == n % 65536
High(n) == Low(n \div 65536)

(* emit_normalize_int: a char is cut to a byte, and its sign extended.     *)
Normalized(t, w) ==
  IF t.kind # "char" THEN w
  ELSE LET b == w % 256 IN IF b < 128 THEN b ELSE b + 65280

(* movi ORs its operand into rax, and nobody has cleared rax.              *)
Literal == Normalized(Current.ty, rax | Low(Current.val))

(* str, of each of these words, from an entry's place on.                  *)
Save(words) ==
  /\ image' = [b \in DOMAIN image |->
                 IF b - Current.off \in DOMAIN words THEN words[b - Current.off] ELSE image[b]]
  /\ rax' = words[Len(words)]
  /\ nth' = nth + 1
  /\ UNCHANGED <<off, left, status>>

(* emit_decl_init: with emit_save_literal, two words of a long; ...        *)
SaveLiteral ==
  /\ Emits("local") /\ nth <= Len(inits) /\ Current.lit
  /\ Save(IF Current.ty.kind = "long" THEN <<Literal, Literal | High(Current.val)>>
          ELSE <<Literal>>)

(* ... with emit_conv and emit_lsave, one.                                 *)
SaveConverted ==
  /\ Emits("local") /\ nth <= Len(inits) /\ ~Current.lit
  /\ Save(<<Literal>>)

SaveEnds ==
  /\ Emits("local") /\ nth > Len(inits)
  /\ status' = "done"
  /\ UNCHANGED emitter

(* do_emit_data: emit_padding asserts that there is something to pad, or   *)
(* nothing; emit_data_primtype writes a word, whatever the type, but takes *)
(* a long literal for the operator of a conversion, and its value for the  *)
(* address of the operand.                                                 *)
Zeros(n) == [k \in 1..n |-> 0]
More == nth <= Len(inits) /\ left > 0
EmitData ==
  /\ Emits("global") /\ More
  /\ IF Current.off < off THEN status' = "aborted" /\ UNCHANGED emitter
     ELSE IF Current.ty.kind = "long" /\ Current.lit
     THEN status' = "crashed" /\ UNCHANGED emitter
     ELSE /\ image' = image \o Zeros(Current.off - off) \o <<Low(Current.val)>>
          /\ off' = off + Current.ty.size
          /\ left' = left - Current.ty.size
          /\ nth' = nth + 1
          /\ UNCHANGED <<rax, status>>

EmitZero ==
  /\ Emits("global") /\ ~More
  /\ image' = image \o Zeros(left)
  /\ status' = "done"
  /\ UNCHANGED <<nth, rax, off, left>>

Stopped == status \notin {"reading", "emitting"} /\ UNCHANGED vars

Next ==
  \/ ReadDeclInit \/ ListString \/ ListBracedString \/ ListAggregate
  \/ CloseBrace \/ LeaveDesignator \/ FullList \/ NextElement
  \/ FieldDesignator \/ IndexDesignator \/ AfterElement
  \/ SkipToBrace \/ ElemAggregate \/ ElemScalar \/ ElemCloses \/ ReadDecl
  \/ SaveLiteral \/ SaveConverted \/ SaveEnds \/ EmitData \/ EmitZero
  \/ Stopped

Spec == Init /\ [][Next]_vars
=============================================================================
