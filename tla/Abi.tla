--------------------------------- MODULE Abi ---------------------------------
(***************************************************************************)
(* Where the members of a record are by the rules the compiler's tests     *)
(* take for granted, which are those of the System V ABI: a member is at   *)
(* the first place that is left where it is aligned to its natural         *)
(* boundary, a bit-field at the first where it is in one unit of its type; *)
(* a record is aligned as the strictest of its members.  Nothing is        *)
(* stepped through: a definition is named by the position of its token.    *)
(***************************************************************************)
EXTENDS Records, FiniteSets

Greater(x, y) == IF x >= y THEN x ELSE y

(* A member may begin at bit p. *)
MayBeAt(p, size, al, bits) ==
  IF bits > 0 THEN p \div (8 * size) = (p + bits - 1) \div (8 * size) ELSE p % (8 * al) = 0

(* The first place from p on; an alignment is 8 bytes at most. *)
FirstFrom(p, size, al, bits) ==
  CHOOSE q \in p..p + 64 : /\ MayBeAt(q, size, al, bits)
                           /\ \A r \in p..q - 1 : ~ MayBeAt(r, size, al, bits)

(* The next multiple of al bytes in bits, in bytes. *)
Bytes(p, al) == FirstFrom(p, 0, al, -1) \div 8

(* The definition a mention at q means. *)
Latest(ts, q) == CHOOSE p \in 1..q - 1 :
  /\ ts[p].kind = "open" /\ ts[p].tag = ts[q].tag
  /\ \A r \in p + 1..q - 1 : ~ (ts[r].kind = "open" /\ ts[r].tag = ts[q].tag)

(* Inner(ts, q) is the record whose "open" is at q: [size, align, places], *)
(* places holding each name with the bit it begins at, and next, the token *)
(* after it.  ListFrom goes on with the members at q.                      *)
RECURSIVE Inner(_, _), ListFrom(_, _, _, _)
Inner(ts, q) == ListFrom(ts, q + 1, ts[q].isstruct, [bit |-> 0, end |-> 0, align |-> 1, places |-> {}])

ListFrom(ts, q, isstruct, r) ==
  LET t == ts[q]
      inner == CASE t.kind = "open" -> Inner(ts, q)
                 [] t.kind = "ref"  -> Inner(ts, Latest(ts, q))
                 [] OTHER -> [places |-> {}]
      next == IF t.kind = "open" THEN inner.next ELSE q + 1
      name == ts[next - 1].name
      size == CASE t.kind \in {"open", "ref"} -> inner.size
                [] t.kind = "pointer" -> PointerSize
                [] OTHER -> IF t.type.size = -1 THEN 0 ELSE t.type.size
      al == CASE t.kind \in {"open", "ref"} -> inner.align
              [] t.kind = "pointer" -> PointerSize
              [] OTHER -> t.type.align
      bits == IF t.kind = "bits" THEN t.bits ELSE -1
      at == FirstFrom(IF isstruct THEN r.bit ELSE 0, size, al, bits)
      end == at + (IF bits >= 0 THEN bits ELSE 8 * size)
      counts == name # NoName \/ t.kind \in {"open", "ref"}
  IN  IF t.kind = "close"
      THEN [size |-> Bytes(r.end, r.align), align |-> r.align, places |-> r.places, next |-> q + 1]
      ELSE ListFrom(ts, next, isstruct,
             [bit    |-> end,
              end    |-> Greater(r.end, end),
              align  |-> IF counts THEN Greater(r.align, al) ELSE r.align,
              places |-> r.places \cup IF name # NoName THEN {<<name, at>>}
                                       ELSE {<<p[1], p[2] + at>> : p \in inner.places}])

(* Every record is as large, and its members are where, as the rules say.  *)
MatchesAbi ==
  \A t \in 1..Len(types) : types[t].at # 0 =>
    LET r == Inner(program, types[t].at) IN
    /\ types[t].size = r.size
    /\ {<<types[t].dict[k].name, FirstBit(types[t].dict[k])>> : k \in 1..Len(types[t].dict)} = r.places
=============================================================================
