---------------------------- MODULE RecordsProofs ----------------------------
(***************************************************************************)
(* Proofs about Records, for every set of programs and of basic types: the *)
(* members of a structure share no bit and no record is too small for its  *)
(* members.  Both need to be known of the records that are read inside of  *)
(* others (GoodTypes), and the second of the bits laid out so far (Laid).  *)
(***************************************************************************)
EXTENDS Records, SequenceTheorems, TLAPS

(* What is known of a type, of a member, and of a definition being read.   *)
GoodTypes == {ty \in Types : /\ ty.size = -1 => ty.kind = "array" /\ ty.len = -1
                             /\ ty.kind = "array" => ty.dict = <<>>
                             /\ Within(ty.dict, ty.size)}
GoodMembers == {m \in [name : Names \cup {NoName}, ty : GoodTypes, bits : Nat \cup {-1}] :
                  /\ m.bits # -1 => m.ty.kind = "int"
                  /\ m.bits > 0 => m.bits <= 8 * m.ty.size}
GoodFrames(k) == [id : 1..k, at : Nat, list : Seq(GoodMembers)]
GoodRecs == {r \in RecTypes : Within(r.dict, r.size) /\ (r.isstruct => Apart(r.dict))}

(* The members before the k-th one, and their bits, end before bit top.    *)
Laid(d, k, top) == \A j \in 1..Len(d) : d[j].nth < k /\ EndBit(d[j]) <= top

Top == IF IsStruct THEN 8 * off + bitoff ELSE 8 * off

Typed ==
  /\ program \in Seq(Tokens) /\ input \in Seq(Tokens) /\ Len(input) <= Len(program)
  /\ tags \in [Tags -> 0..Len(types)]
  /\ types \in Seq(GoodRecs)
  /\ stack \in Seq(GoodFrames(Len(types)))
  /\ status \in {"reading", "done", "error"}

IInv ==
  /\ Typed
  /\ n \in Nat /\ off \in Nat /\ bitoff \in Nat /\ align \in Nat \ {0}
  /\ dict \in Seq(Entries)
  /\ n # 0 => /\ stack # <<>> /\ n <= Len(Frame.list) + 1 /\ input # <<>>
              /\ \A k \in 1..Len(Frame.list) : Frame.list[k].ty.size # -1
              /\ Laid(dict, n, Top)
              /\ IsStruct => Apart(dict)

------------------------------------------------------------------------------
(* Offsets. *)

LEMMA PadOK ==
  ASSUME NEW o \in Nat, NEW a \in Nat \ {0}
  PROVE  Pad(o, a) \in Nat /\ o <= Pad(o, a)
<1>1. o % a \in 0..a - 1
  OBVIOUS
<1> QED BY <1>1 DEF Pad, Padding

LEMMA FinishBitsOK ==
  ASSUME off \in Nat, bitoff \in Nat
  PROVE  FinishBits \in Nat /\ 8 * off + bitoff <= 8 * FinishBits
BY DEF FinishBits

LEMMA LargerOK ==
  ASSUME NEW i \in Nat, NEW j \in Nat
  PROVE  Larger(i, j) \in Nat /\ i <= Larger(i, j) /\ j <= Larger(i, j)
BY DEF Larger

LEMMA EntryBits ==
  ASSUME NEW e \in Entries
  PROVE  FirstBit(e) \in Nat /\ EndBit(e) \in Nat /\ FirstBit(e) <= EndBit(e)
BY DEF Entries, FirstBit, EndBit

(* Entries q of the k-th member behind those of the members before it.     *)
LEMMA Joined ==
  ASSUME NEW d \in Seq(Entries), NEW q \in Seq(Entries), NEW k \in Nat,
         NEW top \in Nat, NEW new \in Nat, top <= new, Laid(d, k, top),
         \A j \in 1..Len(q) : q[j].nth = k /\ EndBit(q[j]) <= new
  PROVE  /\ d \o q \in Seq(Entries) /\ Laid(d \o q, k + 1, new)
         /\ Apart(d) /\ (\A j \in 1..Len(q) : top <= FirstBit(q[j])) => Apart(d \o q)
<1> DEFINE r == d \o q
<1>1. /\ r \in Seq(Entries) /\ Len(r) = Len(d) + Len(q)
      /\ \A j \in 1..Len(d) : r[j] = d[j]
      /\ \A j \in 1..Len(r) : j > Len(d) => j - Len(d) \in 1..Len(q) /\ r[j] = q[j - Len(d)]
  OBVIOUS
<1>2. \A j \in 1..Len(d) : d[j] \in Entries /\ d[j].nth \in Nat /\ FirstBit(d[j]) \in Nat /\ EndBit(d[j]) \in Nat
  <2>1. \A j \in 1..Len(d) : d[j] \in Entries
    OBVIOUS
  <2> QED BY <2>1, EntryBits DEF Entries
<1>3. \A j \in 1..Len(q) : q[j] \in Entries /\ FirstBit(q[j]) \in Nat /\ EndBit(q[j]) \in Nat
  <2>1. \A j \in 1..Len(q) : q[j] \in Entries
    OBVIOUS
  <2> QED BY <2>1, EntryBits
<1> HIDE DEF r
<1>4. Len(d) \in Nat /\ Len(q) \in Nat
  OBVIOUS
<1>5. \A j \in 1..Len(r) : \/ \E i \in 1..Len(d) : r[j] = d[i]
                           \/ \E i \in 1..Len(q) : r[j] = q[i]
  <2> SUFFICES ASSUME NEW j \in 1..Len(r)
               PROVE  \/ \E i \in 1..Len(d) : r[j] = d[i]
                      \/ \E i \in 1..Len(q) : r[j] = q[i]
    OBVIOUS
  <2>1. CASE j > Len(d)
    BY <2>1, <1>1
  <2>2. CASE ~ (j > Len(d))
    <3>1. j \in 1..Len(d)
      BY <2>2, <1>1, <1>4
    <3> QED BY <3>1, <1>1
  <2> QED BY <2>1, <2>2
<1>6. Laid(r, k + 1, new)
  <2> SUFFICES ASSUME NEW j \in 1..Len(r) PROVE r[j].nth < k + 1 /\ EndBit(r[j]) <= new
    BY DEF Laid
  <2>1. CASE \E i \in 1..Len(d) : r[j] = d[i]
    <3> PICK i \in 1..Len(d) : r[j] = d[i]
      BY <2>1
    <3>1. d[i].nth \in Nat /\ EndBit(d[i]) \in Nat
      BY <1>2
    <3>2. d[i].nth < k /\ EndBit(d[i]) <= top
      BY DEF Laid
    <3> QED BY <3>1, <3>2
  <2>2. CASE \E i \in 1..Len(q) : r[j] = q[i]
    BY <2>2
  <2> QED BY <1>5, <2>1, <2>2
<1>7. ASSUME Apart(d), \A j \in 1..Len(q) : top <= FirstBit(q[j]) PROVE Apart(r)
  <2> SUFFICES ASSUME NEW i \in 1..Len(r), NEW j \in 1..Len(r), r[i].nth # r[j].nth
               PROVE  EndBit(r[i]) <= FirstBit(r[j]) \/ EndBit(r[j]) <= FirstBit(r[i])
    BY DEF Apart
  <2>1. CASE \E g \in 1..Len(d), h \in 1..Len(d) : r[i] = d[g] /\ r[j] = d[h]
    BY <2>1, <1>7 DEF Apart
  <2>2. CASE \E g \in 1..Len(q), h \in 1..Len(q) : r[i] = q[g] /\ r[j] = q[h]
    BY <2>2
  <2>3. CASE \E g \in 1..Len(d), h \in 1..Len(q) : r[i] = d[g] /\ r[j] = q[h]
    BY <2>3, <1>2, <1>3, <1>7 DEF Laid
  <2>4. CASE \E g \in 1..Len(q), h \in 1..Len(d) : r[i] = q[g] /\ r[j] = d[h]
    BY <2>4, <1>2, <1>3, <1>7 DEF Laid
  <2> QED BY <1>5, <2>1, <2>2, <2>3, <2>4
<1> QED BY <1>1, <1>6, <1>7 DEF r

LEMMA MovedOK ==
  ASSUME NEW e \in Entries, NEW at \in Nat, n \in Nat
  PROVE  /\ Moved(e, at) \in Entries /\ Moved(e, at).nth = n
         /\ FirstBit(Moved(e, at)) = FirstBit(e) + 8 * at
         /\ EndBit(Moved(e, at)) = EndBit(e) + 8 * at
<1>1. Moved(e, at) \in Entries /\ Moved(e, at).nth = n
  BY DEF Moved, Entries
<1>2. /\ Moved(e, at).offset = e.offset + at /\ Moved(e, at).bitoff = e.bitoff
      /\ Moved(e, at).bits = e.bits /\ Moved(e, at).size = e.size
  BY DEF Moved
<1>3. e.offset \in Nat /\ e.bitoff \in Nat /\ e.bits \in Int /\ e.size \in Nat
  BY DEF Entries
<1>4. FirstBit(Moved(e, at)) = FirstBit(e) + 8 * at
  BY <1>2, <1>3 DEF FirstBit
<1> DEFINE width == IF e.bits > 0 THEN e.bits ELSE 8 * e.size
<1>5. EndBit(e) = FirstBit(e) + width /\ EndBit(Moved(e, at)) = FirstBit(Moved(e, at)) + width
  BY <1>2 DEF EndBit
<1>6. width \in Nat /\ FirstBit(e) \in Nat
  BY <1>3, EntryBits
<1> HIDE DEF width
<1>7. EndBit(Moved(e, at)) = EndBit(e) + 8 * at
  BY <1>4, <1>5, <1>6
<1> QED BY <1>1, <1>4, <1>7

(* The entries of an anonymous record, moved to where it is. *)
LEMMA SquashedOK ==
  ASSUME NEW d \in Seq(Entries), NEW size \in Nat, Within(d, size), NEW at \in Nat, n \in Nat
  PROVE  /\ Squashed(d, at) \in Seq(Entries)
         /\ \A j \in 1..Len(Squashed(d, at)) :
              /\ Squashed(d, at)[j].nth = n
              /\ 8 * at <= FirstBit(Squashed(d, at)[j])
              /\ EndBit(Squashed(d, at)[j]) <= 8 * (at + size)
<1> DEFINE q == Squashed(d, at)
<1>1. \A j \in 1..Len(d) : d[j] \in Entries /\ EndBit(d[j]) <= 8 * size
  BY DEF Within
<1>2. \A j \in 1..Len(d) : /\ Moved(d[j], at) \in Entries /\ Moved(d[j], at).nth = n
                           /\ 8 * at <= FirstBit(Moved(d[j], at))
                           /\ EndBit(Moved(d[j], at)) <= 8 * (at + size)
  <2> SUFFICES ASSUME NEW j \in 1..Len(d)
               PROVE  /\ Moved(d[j], at) \in Entries /\ Moved(d[j], at).nth = n
                      /\ 8 * at <= FirstBit(Moved(d[j], at))
                      /\ EndBit(Moved(d[j], at)) <= 8 * (at + size)
    OBVIOUS
  <2>1. d[j] \in Entries /\ EndBit(d[j]) <= 8 * size
    BY <1>1
  <2>2. FirstBit(d[j]) \in Nat /\ EndBit(d[j]) \in Nat
    BY <2>1, EntryBits
  <2>3. /\ Moved(d[j], at) \in Entries /\ Moved(d[j], at).nth = n
        /\ FirstBit(Moved(d[j], at)) = FirstBit(d[j]) + 8 * at
        /\ EndBit(Moved(d[j], at)) = EndBit(d[j]) + 8 * at
    BY <2>1, MovedOK
  <2> QED BY <2>1, <2>2, <2>3
<1>3. q = [j \in 1..Len(d) |-> Moved(d[j], at)] /\ Len(d) \in Nat
  BY DEF Squashed
<1> HIDE DEF q
<1>4. q \in Seq(Entries) /\ Len(q) = Len(d) /\ \A j \in 1..Len(d) : q[j] = Moved(d[j], at)
  BY <1>2, <1>3
<1>5. \A j \in 1..Len(q) : q[j].nth = n /\ 8 * at <= FirstBit(q[j]) /\ EndBit(q[j]) <= 8 * (at + size)
  BY <1>2, <1>4
<1> QED BY <1>4, <1>5 DEF q

------------------------------------------------------------------------------
(* Types and members. *)

LEMMA GoodIsTyped ==
  ASSUME NEW k \in Nat
  PROVE  /\ GoodRecs \subseteq RecTypes
         /\ \A f \in GoodFrames(k) : f.id \in 1..k /\ f.at \in Nat /\ f.list \in Seq(Members)
<1>1. GoodMembers \subseteq Members
  BY DEF GoodMembers, Members, GoodTypes
<1>2. Seq(GoodMembers) \subseteq Seq(Members)
  BY <1>1
<1> QED BY <1>2 DEF GoodRecs, GoodFrames

LEMMA BasicGood ==
  ASSUME NEW b \in Basics
  PROVE  BasicType(b) \in GoodTypes /\ (b.kind = "int" => b.size \in Nat)
<1>1. b \in Basic /\ (b.kind = "int" => b.size \in Nat \ {0}) /\ (b.size = -1 => b.len = -1)
  BY ProgramAssumption
<1>2. BasicType(b) \in Types
  BY <1>1 DEF Basic, BasicType, Types
<1>3. b.size = -1 => b.kind = "array" /\ b.len = -1
  BY <1>1 DEF Basic
<1>4. Within(<<>>, b.size)
  BY DEF Within
<1> QED BY <1>1, <1>2, <1>3, <1>4 DEF GoodTypes, BasicType

LEMMA PointerGood == PointerType \in GoodTypes
<1>1. PointerType \in Types /\ PointerType.size # -1 /\ PointerType.kind = "pointer"
  BY ProgramAssumption DEF PointerType, Types
<1>2. Within(PointerType.dict, PointerType.size)
  BY DEF Within, PointerType
<1> QED BY <1>1, <1>2 DEF GoodTypes

LEMMA RecordGood ==
  ASSUME NEW r \in GoodRecs, r.align # 0
  PROVE  RecordType(r) \in GoodTypes
<1>1. r \in RecTypes /\ Within(r.dict, r.size)
  BY DEF GoodRecs
<1>2. RecordType(r) \in Types /\ RecordType(r).size # -1
  BY <1>1 DEF RecTypes, RecordType, Types
<1> QED BY <1>1, <1>2 DEF GoodTypes, RecordType

(* A declaration adds a good member to good frames. *)
LEMMA DeclareGood ==
  ASSUME NEW k \in Nat, NEW s \in Seq(GoodFrames(k)), NEW name \in Names \cup {NoName},
         NEW ty \in GoodTypes, NEW bits \in Nat \cup {-1},
         bits # -1 => ty.kind = "int", bits > 0 => bits <= 8 * ty.size
  PROVE  Declare(s, Member(name, ty, bits)) \in Seq(GoodFrames(k))
<1>1. Member(name, ty, bits) \in GoodMembers
  BY DEF Member, GoodMembers
<1> DEFINE m == Member(name, ty, bits)
<1> HIDE DEF m
<1>2. CASE s = <<>>
  BY <1>2 DEF Declare
<1>3. CASE s # <<>>
  <2>1. s[1] \in GoodFrames(k) /\ Tail(s) \in Seq(GoodFrames(k))
    BY <1>3
  <2>2. [id |-> s[1].id, at |-> s[1].at, list |-> Append(s[1].list, m)] \in GoodFrames(k)
    BY <1>1, <2>1 DEF GoodFrames, m
  <2>3. <<[id |-> s[1].id, at |-> s[1].at, list |-> Append(s[1].list, m)]>> \in Seq(GoodFrames(k))
    BY <2>2
  <2> QED BY <1>3, <2>1, <2>3 DEF Declare, m
<1> QED BY <1>2, <1>3

LEMMA DeclarePlain ==
  ASSUME NEW k \in Nat, NEW s \in Seq(GoodFrames(k)), NEW name \in Names \cup {NoName}, NEW ty \in GoodTypes
  PROVE  Declare(s, Member(name, ty, -1)) \in Seq(GoodFrames(k))
<1> DEFINE bits == -1
<1>1. bits \in Nat \cup {-1} /\ (bits # -1 => ty.kind = "int") /\ (bits > 0 => bits <= 8 * ty.size)
  OBVIOUS
<1> HIDE DEF bits
<1>2. Declare(s, Member(name, ty, bits)) \in Seq(GoodFrames(k))
  BY <1>1, DeclareGood
<1> QED BY <1>2 DEF bits

LEMMA MoreFrames ==
  ASSUME NEW k \in Nat, NEW l \in Nat, k <= l
  PROVE  Seq(GoodFrames(k)) \subseteq Seq(GoodFrames(l))
<1>1. GoodFrames(k) \subseteq GoodFrames(l)
  BY DEF GoodFrames
<1> QED BY <1>1

LEMMA EmptiedGood ==
  ASSUME NEW m \in GoodMembers
  PROVE  IF IsFlexible(m) THEN Emptied(m, 0) \in GoodMembers /\ Emptied(m, 0).ty.size = 0
         ELSE m.ty.size # -1
<1>1. /\ m.name \in Names \cup {NoName} /\ m.ty \in GoodTypes /\ m.bits \in Nat \cup {-1}
      /\ m.bits # -1 => m.ty.kind = "int"
  BY DEF GoodMembers
<1>2. CASE IsFlexible(m)
  <2> DEFINE ty == [kind |-> m.ty.kind, size |-> 0, align |-> m.ty.align, len |-> 0, dict |-> m.ty.dict]
  <2>1. m.ty.dict = <<>> /\ m.ty.kind = "array" /\ m.bits = -1
    BY <1>1, <1>2 DEF IsFlexible, GoodTypes
  <2>2. ty \in Types /\ ty.size = 0 /\ ty.kind = "array" /\ ty.dict = <<>>
    BY <1>1, <2>1 DEF GoodTypes, Types
  <2>3. Within(ty.dict, ty.size)
    BY <2>2 DEF Within
  <2> HIDE DEF ty
  <2>4. ty \in GoodTypes
    BY <2>2, <2>3 DEF GoodTypes
  <2>5. Emptied(m, 0) = [name |-> m.name, ty |-> ty, bits |-> m.bits]
    BY DEF Emptied, Member, ty
  <2>6. Emptied(m, 0) \in GoodMembers /\ Emptied(m, 0).ty.size = 0
    BY <1>1, <2>1, <2>2, <2>4, <2>5 DEF GoodMembers
  <2> QED BY <1>2, <2>6
<1>3. CASE ~ IsFlexible(m)
  BY <1>1, <1>3 DEF IsFlexible, GoodTypes
<1> QED BY <1>2, <1>3

LEMMA FixedGood ==
  ASSUME NEW list \in Seq(GoodMembers)
  PROVE  /\ FixFlexible(list) \in Seq(GoodMembers)
         /\ \A k \in 1..Len(FixFlexible(list)) : FixFlexible(list)[k].ty.size # -1
<1> DEFINE G(m) == IF IsFlexible(m) THEN Emptied(m, 0) ELSE m
           q == FixFlexible(list)
<1>1. \A m \in GoodMembers : G(m) \in GoodMembers /\ G(m).ty.size # -1
  BY EmptiedGood
<1>2. q = [k \in 1..Len(list) |-> G(list[k])] /\ Len(list) \in Nat
      /\ \A k \in 1..Len(list) : list[k] \in GoodMembers
  BY DEF FixFlexible
<1> HIDE DEF G, q
<1>3. q \in Seq(GoodMembers) /\ Len(q) = Len(list) /\ \A k \in 1..Len(list) : q[k] = G(list[k])
  BY <1>1, <1>2
<1>4. \A k \in 1..Len(q) : q[k].ty.size # -1
  BY <1>1, <1>2, <1>3
<1> QED BY <1>3, <1>4 DEF q

LEMMA TokenOK ==
  ASSUME Typed, input # <<>>
  PROVE  /\ Tok.isstruct \in BOOLEAN /\ Tok.tag \in Tags \cup {NoName} /\ Tok.name \in Names \cup {NoName}
         /\ Tok.type \in Basics /\ Tok.bits \in Int
         /\ Tail(input) \in Seq(Tokens) /\ Len(Tail(input)) <= Len(program)
         /\ Place \in Nat
<1>1. Tok \in Tokens
  BY DEF Typed, Tok
<1>2. Tail(input) \in Seq(Tokens) /\ Len(Tail(input)) = Len(input) - 1
      /\ Len(input) \in Nat /\ Len(program) \in Nat /\ Len(input) <= Len(program)
  BY DEF Typed
<1> QED BY <1>1, <1>2 DEF Tokens, Place

(* A tag that is mentioned. *)
LEMMA KnownOK ==
  ASSUME Typed, input # <<>>
  PROVE  /\ Len(types) \in Nat
         /\ Known => Id \in 1..Len(types)
         /\ ~ Known => Id = Len(types) + 1
<1>1. Len(types) \in Nat
  BY DEF Typed
<1>2. CASE Known
  <2>1. Tok.tag \in Tags /\ tags[Tok.tag] # 0
    BY <1>2, TokenOK DEF Known
  <2>2. tags[Tok.tag] \in 1..Len(types)
    BY <2>1, <1>1 DEF Typed
  <2> QED BY <1>1, <1>2, <2>2 DEF Id
<1>3. CASE ~ Known
  BY <1>1, <1>3 DEF Id
<1> QED BY <1>2, <1>3

LEMMA SetTagOK ==
  ASSUME Typed, input # <<>>, SetTag, NEW k \in Nat, Len(types) <= k, Id \in 1..k
  PROVE  tags' \in [Tags -> 0..k]
<1>1. Len(types) \in Nat /\ tags \in [Tags -> 0..k]
  BY DEF Typed
<1>2. CASE Tok.tag = NoName
  BY <1>1, <1>2 DEF SetTag
<1>3. CASE Tok.tag # NoName
  <2>1. tags' = [tags EXCEPT ![Tok.tag] = Id] /\ Id \in 0..k
    BY <1>3 DEF SetTag
  <2> QED BY <1>1, <2>1
<1> QED BY <1>2, <1>3

LEMMA MadeGood ==
  ASSUME Typed, input # <<>>, NEW al \in Nat
  PROVE  MakeRecType(al) \in GoodRecs /\ MakeRecType(al).align = al
<1>1. Tok.isstruct \in BOOLEAN
  BY TokenOK
<1>2. MakeRecType(al) \in RecTypes /\ MakeRecType(al).dict = <<>> /\ MakeRecType(al).align = al
  BY <1>1 DEF MakeRecType, RecTypes
<1>3. Within(<<>>, MakeRecType(al).size) /\ Apart(<<>>)
  BY DEF Within, Apart
<1> QED BY <1>2, <1>3 DEF GoodRecs

LEMMA AlignedGood ==
  ASSUME NEW r \in GoodRecs
  PROVE  [r EXCEPT !.align = 1] \in GoodRecs /\ [r EXCEPT !.align = 1].align = 1
<1> DEFINE q == [r EXCEPT !.align = 1]
<1>1. r \in RecTypes
  BY DEF GoodRecs
<1>2. q \in RecTypes /\ q.align = 1 /\ q.dict = r.dict /\ q.size = r.size /\ q.isstruct = r.isstruct
  BY <1>1 DEF RecTypes
<1> HIDE DEF q
<1>3. q \in GoodRecs /\ q.align = 1
  BY <1>2 DEF GoodRecs
<1> QED BY <1>3 DEF q

LEMMA MentionGood ==
  ASSUME Typed, input # <<>>, Mention
  PROVE  /\ tags' \in [Tags -> 0..Len(types')]
         /\ types' \in Seq(GoodRecs) /\ Len(types) <= Len(types') /\ Len(types') \in Nat
         /\ types'[Id] \in GoodRecs /\ types'[Id].align # 0
<1>1. types \in Seq(GoodRecs) /\ Len(types) \in Nat
  BY DEF Typed
<1>2. CASE Known
  <2>1. Id \in 1..Len(types) /\ types' = [types EXCEPT ![Id] = [types[Id] EXCEPT !.align = 1]]
    BY <1>2, KnownOK DEF Mention
  <2>2. [types[Id] EXCEPT !.align = 1] \in GoodRecs /\ [types[Id] EXCEPT !.align = 1].align = 1
    BY <1>1, <2>1, AlignedGood
  <2> DEFINE q == [types[Id] EXCEPT !.align = 1]
  <2> HIDE DEF q
  <2>3. types' = [types EXCEPT ![Id] = q] /\ q \in GoodRecs /\ q.align = 1
    BY <2>1, <2>2 DEF q
  <2>4. types' \in Seq(GoodRecs) /\ Len(types') = Len(types) /\ types'[Id] = q
    BY <1>1, <2>1, <2>3
  <2>5. tags' \in [Tags -> 0..Len(types')]
    BY <1>1, <2>1, <2>4, SetTagOK DEF Mention
  <2> QED BY <1>1, <2>3, <2>4, <2>5
<1>3. CASE ~ Known
  <2> DEFINE q == MakeRecType(1)
  <2>1. Id = Len(types) + 1 /\ types' = Append(types, q) /\ q \in GoodRecs /\ q.align = 1
    BY <1>3, KnownOK, MadeGood DEF Mention
  <2> HIDE DEF q
  <2>2. types' \in Seq(GoodRecs) /\ Len(types') = Len(types) + 1 /\ types'[Id] = q
    BY <1>1, <2>1
  <2>3. tags' \in [Tags -> 0..Len(types')]
    BY <1>1, <2>1, <2>2, SetTagOK DEF Mention
  <2> QED BY <1>1, <2>1, <2>2, <2>3
<1> QED BY <1>2, <1>3

------------------------------------------------------------------------------
(* What is common to the steps that read a token, and to those that lay a  *)
(* member.                                                                 *)

LEMMA ReadingStep ==
  ASSUME IInv, n = 0, UNCHANGED layout, Typed'
  PROVE  IInv'
BY DEF IInv, layout

LEMMA AdvanceOK ==
  ASSUME Typed, input # <<>>, Advance, UNCHANGED <<program, status>>
  PROVE  /\ program' \in Seq(Tokens) /\ input' \in Seq(Tokens) /\ Len(input') <= Len(program')
         /\ status' \in {"reading", "done", "error"}
<1>1. input' = Tail(input) /\ program' = program /\ status' = status
  BY DEF Advance
<1> QED BY <1>1, TokenOK DEF Typed

LEMMA TheMember ==
  ASSUME IInv, Laying
  PROVE  /\ M \in GoodMembers /\ M.name \in Names \cup {NoName} /\ M.bits \in Nat \cup {-1}
         /\ M.ty.size \in Nat /\ M.ty.align \in Nat \ {0}
         /\ M.ty.dict \in Seq(Entries) /\ Within(M.ty.dict, M.ty.size)
         /\ M.bits > 0 => M.bits <= 8 * M.ty.size
         /\ off \in Nat /\ bitoff \in Nat /\ align \in Nat \ {0} /\ n \in Nat
         /\ dict \in Seq(Entries) /\ Laid(dict, n, Top) /\ (IsStruct => Apart(dict))
         /\ Top \in Nat /\ n + 1 <= Len(Frame.list) + 1
<1>1. /\ n \in Nat /\ n # 0 /\ n <= Len(Frame.list) /\ stack # <<>>
      /\ Frame.list[n].ty.size # -1
      /\ stack \in Seq(GoodFrames(Len(types)))
  <2>1. n \in Nat /\ n # 0 /\ n <= Len(Frame.list) /\ stack # <<>> /\ stack \in Seq(GoodFrames(Len(types)))
        /\ \A k \in 1..Len(Frame.list) : Frame.list[k].ty.size # -1
    BY DEF IInv, Typed, Laying
  <2>2. Len(Frame.list) \in Nat
    <3>1. Frame \in GoodFrames(Len(types))
      BY <2>1 DEF Frame
    <3> QED BY <3>1 DEF GoodFrames
  <2>3. n \in 1..Len(Frame.list)
    BY <2>1, <2>2
  <2> QED BY <2>1, <2>3
<1>2. Frame \in GoodFrames(Len(types))
  BY <1>1 DEF Frame
<1>3. Frame.list \in Seq(GoodMembers) /\ Len(Frame.list) \in Nat
  BY <1>2 DEF GoodFrames
<1>4. M \in GoodMembers /\ M.ty.size # -1 /\ n + 1 <= Len(Frame.list) + 1
  BY <1>1, <1>3 DEF M
<1>5. M.name \in Names \cup {NoName} /\ M.ty \in GoodTypes /\ M.bits \in Nat \cup {-1}
      /\ (M.bits > 0 => M.bits <= 8 * M.ty.size)
  BY <1>4 DEF GoodMembers
<1>6. M.ty.size \in Nat /\ M.ty.align \in Nat \ {0}
      /\ M.ty.dict \in Seq(Entries) /\ Within(M.ty.dict, M.ty.size)
  BY <1>4, <1>5 DEF GoodTypes, Types
<1>7. /\ off \in Nat /\ bitoff \in Nat /\ align \in Nat \ {0} /\ n \in Nat
      /\ dict \in Seq(Entries) /\ Laid(dict, n, Top) /\ (IsStruct => Apart(dict))
  BY <1>1 DEF IInv
<1>8. Top \in Nat
  BY <1>7 DEF Top
<1> QED BY <1>4, <1>5, <1>6, <1>7, <1>8

LEMMA LaidOne ==
  ASSUME IInv, Laying, LayNext,
         off' \in Nat, bitoff' \in Nat, align' \in Nat \ {0}, dict' \in Seq(Entries),
         Laid(dict', n + 1, Top'), IsStruct => Apart(dict')
  PROVE  IInv'
<1>1. /\ n' = n + 1 /\ program' = program /\ input' = input /\ tags' = tags /\ types' = types
      /\ stack' = stack /\ status' = status
  BY DEF LayNext, tables
<1>2. Frame' = Frame /\ IsStruct' = IsStruct
  BY <1>1 DEF Frame, IsStruct
<1>3. Typed'
  BY <1>1 DEF IInv, Typed
<1>4. n \in Nat /\ n' \in Nat /\ n' # 0 /\ n' <= Len(Frame.list) + 1
  <2>1. n \in Nat /\ n + 1 <= Len(Frame.list) + 1
    BY TheMember
  <2>2. n + 1 \in Nat /\ n + 1 # 0
    BY <2>1
  <2> QED BY <1>1, <2>1, <2>2
<1>5. stack # <<>> /\ input # <<>> /\ \A k \in 1..Len(Frame.list) : Frame.list[k].ty.size # -1
  BY DEF IInv, Laying
<1>6. Laid(dict', n', Top') /\ (IsStruct' => Apart(dict'))
  BY <1>1, <1>2
<1> QED BY <1>1, <1>2, <1>3, <1>4, <1>5, <1>6 DEF IInv

(* One entry, or none, behind those laid before it. *)
LEMMA PutOK ==
  ASSUME IInv, Laying, NEW offset \in Nat, NEW bit \in Nat, Put(offset, bit),
         NEW new \in Nat, Top <= new,
         8 * offset + bit + (IF M.bits > 0 THEN M.bits ELSE 8 * M.ty.size) <= new
  PROVE  /\ dict' \in Seq(Entries) /\ Laid(dict', n + 1, new)
         /\ IsStruct /\ Top <= 8 * offset + bit => Apart(dict')
<1>1. CASE M.name = NoName
  <2>1. dict' = dict /\ n \in Nat /\ Top \in Nat /\ dict \in Seq(Entries) /\ Laid(dict, n, Top)
        /\ (IsStruct => Apart(dict))
    BY <1>1, TheMember DEF Put
  <2>2. \A j \in 1..Len(dict) : dict[j].nth \in Nat /\ EndBit(dict[j]) \in Nat
    <3>1. \A j \in 1..Len(dict) : dict[j] \in Entries
      BY <2>1
    <3> QED BY <3>1, EntryBits DEF Entries
  <2>3. Laid(dict, n + 1, new)
    <3> SUFFICES ASSUME NEW j \in 1..Len(dict) PROVE dict[j].nth < n + 1 /\ EndBit(dict[j]) <= new
      BY DEF Laid
    <3>1. dict[j].nth \in Nat /\ EndBit(dict[j]) \in Nat /\ dict[j].nth < n /\ EndBit(dict[j]) <= Top
      BY <2>1, <2>2 DEF Laid
    <3> QED BY <2>1, <3>1
  <2> QED BY <2>1, <2>3
<1>2. CASE M.name # NoName
  <2> DEFINE e == Entry(M, offset, bit, n)
  <2>1. dict' = Append(dict, e)
    BY <1>2 DEF Put
  <2>2. M.bits \in Nat \cup {-1} /\ M.ty.size \in Nat /\ n \in Nat /\ Top \in Nat
        /\ dict \in Seq(Entries) /\ Laid(dict, n, Top) /\ (IsStruct => Apart(dict))
    BY TheMember
  <2>9. M.name \in Names
    BY <1>2, TheMember
  <2>10. M.bits \in Int
    BY <2>2
  <2>3. e \in Entries /\ e.nth = n
    BY <2>2, <2>9, <2>10 DEF Entry, Entries
  <2>4. FirstBit(e) = 8 * offset + bit /\ EndBit(e) <= new
    BY <2>2, <2>10 DEF FirstBit, EndBit, Entry
  <2> HIDE DEF e
  <2>5. <<e>> \in Seq(Entries) /\ Len(<<e>>) = 1 /\ <<e>>[1] = e /\ Append(dict, e) = dict \o <<e>>
    BY <2>2, <2>3, AppendIsConcat
  <2>6. \A j \in 1..Len(<<e>>) : <<e>>[j].nth = n /\ EndBit(<<e>>[j]) <= new
    BY <2>3, <2>4, <2>5
  <2>7. /\ dict \o <<e>> \in Seq(Entries) /\ Laid(dict \o <<e>>, n + 1, new)
        /\ Apart(dict) /\ (\A j \in 1..Len(<<e>>) : Top <= FirstBit(<<e>>[j])) => Apart(dict \o <<e>>)
    BY <2>2, <2>5, <2>6, Joined
  <2>8. IsStruct /\ Top <= 8 * offset + bit => Apart(dict \o <<e>>)
    BY <2>2, <2>4, <2>5, <2>7
  <2> QED BY <2>1, <2>5, <2>7, <2>8
<1> QED BY <1>1, <1>2

LEMMA AlignRecordOK ==
  ASSUME IInv, Laying, AlignRecord
  PROVE  align' \in Nat \ {0}
<1>1. align \in Nat \ {0} /\ M.ty.align \in Nat \ {0}
  BY TheMember
<1> QED BY <1>1 DEF AlignRecord, Larger

------------------------------------------------------------------------------
(* Each member that is laid keeps the invariant. *)

LEMMA LayAnonymousInv == IInv /\ LayAnonymous => IInv'
<1> SUFFICES ASSUME IInv, LayAnonymous PROVE IInv'
  OBVIOUS
<1> DEFINE at == Pad(FinishBits, M.ty.align)
           q == Squashed(M.ty.dict, at)
<1>1. Laying /\ IsStruct /\ LayNext /\ dict' = dict \o q /\ off' = at + M.ty.size /\ bitoff' = 0 /\ align' = align
  BY DEF LayAnonymous
<1>2. /\ M.ty.size \in Nat /\ M.ty.align \in Nat \ {0} /\ M.ty.dict \in Seq(Entries)
      /\ Within(M.ty.dict, M.ty.size) /\ off \in Nat /\ bitoff \in Nat /\ align \in Nat \ {0} /\ n \in Nat
      /\ dict \in Seq(Entries) /\ Laid(dict, n, Top) /\ Apart(dict) /\ Top \in Nat
  BY <1>1, TheMember
<1>3. FinishBits \in Nat /\ Top <= 8 * FinishBits
  BY <1>1, <1>2, FinishBitsOK DEF Top
<1>4. at \in Nat /\ FinishBits <= at
  BY <1>2, <1>3, PadOK
<1>5. Top <= 8 * at
  BY <1>2, <1>3, <1>4
<1>6. /\ q \in Seq(Entries)
      /\ \A j \in 1..Len(q) : q[j].nth = n /\ 8 * at <= FirstBit(q[j]) /\ EndBit(q[j]) <= 8 * (at + M.ty.size)
  BY <1>2, <1>4, SquashedOK
<1> HIDE DEF at, q
<1>7. \A j \in 1..Len(q) : Top <= FirstBit(q[j])
  <2>1. \A j \in 1..Len(q) : q[j] \in Entries
    BY <1>6
  <2> SUFFICES ASSUME NEW j \in 1..Len(q) PROVE Top <= FirstBit(q[j])
    OBVIOUS
  <2>2. FirstBit(q[j]) \in Nat /\ 8 * at <= FirstBit(q[j])
    BY <1>6, <2>1, EntryBits
  <2> QED BY <1>2, <1>4, <1>5, <2>2
<1> DEFINE new == 8 * (at + M.ty.size)
<1>8. new \in Nat /\ Top <= new
  BY <1>2, <1>4, <1>5
<1> HIDE DEF new
<1>9. \A j \in 1..Len(q) : q[j].nth = n /\ EndBit(q[j]) <= new
  BY <1>6 DEF new
<1>10. dict \o q \in Seq(Entries) /\ Laid(dict \o q, n + 1, new) /\ Apart(dict \o q)
  BY <1>2, <1>6, <1>7, <1>8, <1>9, Joined
<1>11. Top' = new
  <2>1. IsStruct'
    BY <1>1 DEF LayNext, tables, IsStruct, Frame
  <2>2. Top' = 8 * off' + bitoff'
    BY <2>1 DEF Top
  <2> QED BY <1>1, <1>2, <1>4, <2>2 DEF new
<1> QED BY <1>1, <1>2, <1>4, <1>10, <1>11, LaidOne

(* The bit where the next entry of a structure can begin, once laid. *)
LEMMA NewTop ==
  ASSUME LayNext
  PROVE  /\ IsStruct => Top' = 8 * off' + bitoff'
         /\ ~ IsStruct => Top' = 8 * off'
<1>1. IsStruct' = IsStruct
  BY DEF LayNext, tables, IsStruct, Frame
<1> QED BY <1>1 DEF Top

LEMMA LayZeroBitsInv == IInv /\ LayZeroBits => IInv'
<1> SUFFICES ASSUME IInv, LayZeroBits PROVE IInv'
  OBVIOUS
<1>1. Laying /\ IsStruct /\ LayNext /\ dict' = dict /\ off' = Pad(FinishBits, M.ty.align) /\ bitoff' = 0 /\ AlignRecord
  BY DEF LayZeroBits
<1>2. /\ M.ty.align \in Nat \ {0} /\ off \in Nat /\ bitoff \in Nat /\ n \in Nat
      /\ dict \in Seq(Entries) /\ Laid(dict, n, Top) /\ Apart(dict) /\ Top \in Nat
  BY <1>1, TheMember
<1>3. FinishBits \in Nat /\ Top <= 8 * FinishBits
  BY <1>1, <1>2, FinishBitsOK DEF Top
<1>4. off' \in Nat /\ FinishBits <= off'
  BY <1>1, <1>2, <1>3, PadOK
<1>5. Top' = 8 * off' /\ Top <= Top'
  BY <1>1, <1>2, <1>3, <1>4, NewTop
<1>6. \A j \in 1..Len(dict) : dict[j].nth \in Nat /\ EndBit(dict[j]) \in Nat
  <2>1. \A j \in 1..Len(dict) : dict[j] \in Entries
    BY <1>2
  <2> QED BY <2>1, EntryBits DEF Entries
<1>7. Laid(dict', n + 1, Top')
  BY <1>1, <1>2, <1>4, <1>5, <1>6 DEF Laid
<1>8. align' \in Nat \ {0}
  BY <1>1, AlignRecordOK
<1> QED BY <1>1, <1>2, <1>4, <1>7, <1>8, LaidOne

LEMMA LayBitsInv == IInv /\ LayBits => IInv'
<1> SUFFICES ASSUME IInv, LayBits PROVE IInv'
  OBVIOUS
<1>1. Laying /\ IsStruct /\ LayNext /\ M.bits > 0 /\ Put(off, bitoff) /\ bitoff' = bitoff + M.bits
      /\ off' = off /\ AlignRecord
  BY DEF LayBits
<1>2. off \in Nat /\ bitoff \in Nat /\ M.bits \in Nat \cup {-1}
  BY <1>1, TheMember
<1>3. off' \in Nat /\ bitoff' \in Nat /\ Top = 8 * off + bitoff /\ Top' = 8 * off + bitoff + M.bits
  BY <1>1, <1>2, NewTop DEF Top
<1>4. Top' \in Nat /\ Top <= Top'
  BY <1>1, <1>2, <1>3
<1>5. 8 * off + bitoff + (IF M.bits > 0 THEN M.bits ELSE 8 * M.ty.size) <= Top'
  BY <1>1, <1>2, <1>3
<1>6. dict' \in Seq(Entries) /\ Laid(dict', n + 1, Top') /\ Apart(dict')
  BY <1>1, <1>2, <1>3, <1>4, <1>5, PutOK
<1>7. align' \in Nat \ {0}
  BY <1>1, AlignRecordOK
<1> QED BY <1>1, <1>3, <1>6, <1>7, LaidOne

LEMMA LayNextUnitInv == IInv /\ LayNextUnit => IInv'
<1> SUFFICES ASSUME IInv, LayNextUnit PROVE IInv'
  OBVIOUS
<1>1. Laying /\ IsStruct /\ LayNext /\ M.bits > 0 /\ Put(off', 0) /\ bitoff' = M.bits
      /\ off' = Pad(FinishBits, M.ty.align) /\ AlignRecord
  BY DEF LayNextUnit
<1>2. off \in Nat /\ bitoff \in Nat /\ M.bits \in Nat \cup {-1} /\ M.ty.align \in Nat \ {0} /\ Top \in Nat
  BY <1>1, TheMember
<1>3. FinishBits \in Nat /\ Top <= 8 * FinishBits
  BY <1>1, <1>2, FinishBitsOK DEF Top
<1>4. off' \in Nat /\ FinishBits <= off'
  BY <1>1, <1>2, <1>3, PadOK
<1>5. bitoff' \in Nat /\ Top' = 8 * off' + M.bits /\ Top <= 8 * off'
  BY <1>1, <1>2, <1>3, <1>4, NewTop
<1>6. Top' \in Nat /\ Top <= Top' /\ Top <= 8 * off' + 0
  BY <1>1, <1>2, <1>4, <1>5
<1>7. 8 * off' + 0 + (IF M.bits > 0 THEN M.bits ELSE 8 * M.ty.size) <= Top'
  BY <1>1, <1>2, <1>4, <1>5
<1>8. dict' \in Seq(Entries) /\ Laid(dict', n + 1, Top') /\ Apart(dict')
  BY <1>1, <1>2, <1>4, <1>6, <1>7, PutOK
<1>9. align' \in Nat \ {0}
  BY <1>1, AlignRecordOK
<1> QED BY <1>1, <1>4, <1>5, <1>8, <1>9, LaidOne

LEMMA LayPlainInv == IInv /\ LayPlain => IInv'
<1> SUFFICES ASSUME IInv, LayPlain PROVE IInv'
  OBVIOUS
<1> DEFINE at == Pad(FinishBits, M.ty.align)
<1>1. Laying /\ IsStruct /\ LayNext /\ M.bits = -1 /\ Put(at, 0) /\ bitoff' = 0
      /\ off' = at + M.ty.size /\ AlignRecord
  BY DEF LayPlain
<1>2. off \in Nat /\ bitoff \in Nat /\ M.ty.align \in Nat \ {0} /\ M.ty.size \in Nat /\ Top \in Nat
  BY <1>1, TheMember
<1>3. FinishBits \in Nat /\ Top <= 8 * FinishBits
  BY <1>1, <1>2, FinishBitsOK DEF Top
<1>4. at \in Nat /\ FinishBits <= at
  BY <1>2, <1>3, PadOK
<1> HIDE DEF at
<1>5. off' \in Nat /\ Top' = 8 * (at + M.ty.size) /\ Top <= 8 * at + 0
  BY <1>1, <1>2, <1>3, <1>4, NewTop
<1>6. Top' \in Nat /\ Top <= Top'
  BY <1>2, <1>4, <1>5
<1>7. 8 * at + 0 + (IF M.bits > 0 THEN M.bits ELSE 8 * M.ty.size) <= Top'
  BY <1>1, <1>2, <1>4, <1>5
<1>8. dict' \in Seq(Entries) /\ Laid(dict', n + 1, Top') /\ Apart(dict')
  BY <1>1, <1>4, <1>5, <1>6, <1>7, PutOK
<1>9. align' \in Nat \ {0}
  BY <1>1, AlignRecordOK
<1> QED BY <1>1, <1>5, <1>8, <1>9, LaidOne

LEMMA LayInUnionInv == IInv /\ LayInUnion => IInv'
<1> SUFFICES ASSUME IInv, LayInUnion PROVE IInv'
  OBVIOUS
<1>1. Laying /\ ~ IsStruct /\ LayNext /\ off' = Larger(off, M.ty.size) /\ align' = Larger(align, M.ty.align)
      /\ bitoff' = bitoff
  BY DEF LayInUnion
<1>2. /\ M.ty.size \in Nat /\ M.ty.align \in Nat \ {0} /\ M.ty.dict \in Seq(Entries)
      /\ Within(M.ty.dict, M.ty.size) /\ off \in Nat /\ bitoff \in Nat /\ align \in Nat \ {0} /\ n \in Nat
      /\ dict \in Seq(Entries) /\ Laid(dict, n, Top) /\ Top \in Nat
      /\ M.bits \in Nat \cup {-1} /\ (M.bits > 0 => M.bits <= 8 * M.ty.size)
  BY <1>1, TheMember
<1>3. off' \in Nat /\ off <= off' /\ M.ty.size <= off' /\ align' \in Nat \ {0}
  BY <1>1, <1>2 DEF Larger
<1>4. Top = 8 * off
  BY <1>1 DEF Top
<1>5. Top' = 8 * off'
  BY <1>1, NewTop
<1>6. Top' \in Nat /\ Top <= Top' /\ 8 * M.ty.size <= Top'
  <2>1. off \in Nat /\ off' \in Nat /\ M.ty.size \in Nat /\ off <= off' /\ M.ty.size <= off'
    BY <1>2, <1>3
  <2>2. 8 * off' \in Nat /\ 8 * off <= 8 * off' /\ 8 * M.ty.size <= 8 * off'
    <3> DEFINE i == off
               j == M.ty.size
               k == off'
    <3>1. i \in Nat /\ j \in Nat /\ k \in Nat /\ i <= k /\ j <= k
      BY <2>1
    <3> HIDE DEF i, j, k
    <3>2. 8 * k \in Nat /\ 8 * i <= 8 * k /\ 8 * j <= 8 * k
      BY <3>1
    <3> QED BY <3>2 DEF i, j, k
  <2> QED BY <1>4, <1>5, <2>2
<1>7. dict' \in Seq(Entries) /\ Laid(dict', n + 1, Top')
  <2>1. CASE Anonymous
    <3> DEFINE q == Squashed(M.ty.dict, 0)
    <3>1. dict' = dict \o q
      BY <1>1, <2>1 DEF LayInUnion
    <3>2. /\ q \in Seq(Entries)
          /\ \A j \in 1..Len(q) : q[j].nth = n /\ EndBit(q[j]) <= 8 * (0 + M.ty.size)
      BY <1>2, SquashedOK
    <3>4. 8 * (0 + M.ty.size) = 8 * M.ty.size
      BY <1>2
    <3> HIDE DEF q
    <3>3. \A j \in 1..Len(q) : q[j].nth = n /\ EndBit(q[j]) <= Top'
      <4>1. \A j \in 1..Len(q) : q[j] \in Entries
        BY <3>2
      <4> SUFFICES ASSUME NEW j \in 1..Len(q) PROVE q[j].nth = n /\ EndBit(q[j]) <= Top'
        OBVIOUS
      <4>2. EndBit(q[j]) \in Nat /\ q[j].nth = n /\ EndBit(q[j]) <= 8 * M.ty.size
        BY <3>2, <3>4, <4>1, EntryBits
      <4> QED BY <1>2, <1>6, <4>2
    <3> QED BY <1>2, <1>6, <3>1, <3>2, <3>3, Joined
  <2>2. CASE ~ Anonymous
    <3>1. Put(0, 0)
      BY <1>1, <2>2 DEF LayInUnion
    <3>2. 8 * 0 + 0 + (IF M.bits > 0 THEN M.bits ELSE 8 * M.ty.size) <= Top'
      <4>1. CASE M.bits > 0
        BY <1>2, <1>6, <4>1
      <4>2. CASE ~ (M.bits > 0)
        BY <1>2, <1>6, <4>2
      <4> QED BY <4>1, <4>2
    <3> QED BY <1>1, <1>6, <3>1, <3>2, PutOK
  <2> QED BY <2>1, <2>2
<1> QED BY <1>1, <1>2, <1>3, <1>7, LaidOne

------------------------------------------------------------------------------
(* So does each token that is read. *)

LEMMA ReadOpenInv == IInv /\ ReadOpen => IInv'
<1> SUFFICES ASSUME IInv, ReadOpen PROVE IInv'
  OBVIOUS
<1>1. /\ Typed /\ input # <<>> /\ n = 0 /\ Advance /\ SetTag
      /\ types' = (IF Known THEN types ELSE Append(types, MakeRecType(0)))
      /\ stack' = <<[id |-> Id, at |-> Place, list |-> <<>>]>> \o stack
      /\ UNCHANGED <<program, layout, status>>
  BY DEF ReadOpen, Reads, IInv
<1>2. /\ types \in Seq(GoodRecs) /\ Len(types) \in Nat /\ stack \in Seq(GoodFrames(Len(types)))
  BY <1>1 DEF Typed
<1>3. /\ types' \in Seq(GoodRecs) /\ Len(types') \in Nat /\ Len(types) <= Len(types') /\ Id \in 1..Len(types')
  <2>1. CASE Known
    BY <1>1, <1>2, <2>1, KnownOK
  <2>2. CASE ~ Known
    <3> DEFINE q == MakeRecType(0)
    <3>1. q \in GoodRecs /\ types' = Append(types, q) /\ Id = Len(types) + 1
      BY <1>1, <2>2, MadeGood, KnownOK
    <3> HIDE DEF q
    <3> QED BY <1>2, <3>1
  <2> QED BY <2>1, <2>2
<1>4. tags' \in [Tags -> 0..Len(types')]
  BY <1>1, <1>3, SetTagOK
<1>5. stack' \in Seq(GoodFrames(Len(types')))
  <2> DEFINE f == [id |-> Id, at |-> Place, list |-> <<>>]
  <2>1. f \in GoodFrames(Len(types'))
    BY <1>1, <1>3, TokenOK DEF GoodFrames
  <2>2. stack \in Seq(GoodFrames(Len(types')))
    BY <1>2, <1>3, MoreFrames
  <2> HIDE DEF f
  <2>3. <<f>> \o stack \in Seq(GoodFrames(Len(types')))
    BY <2>1, <2>2
  <2> QED BY <1>1, <2>3 DEF f
<1>6. Typed'
  BY <1>1, <1>3, <1>4, <1>5, AdvanceOK DEF Typed
<1> QED BY <1>1, <1>6, ReadingStep

LEMMA ReadRefInv == IInv /\ ReadRef => IInv'
<1> SUFFICES ASSUME IInv, ReadRef PROVE IInv'
  OBVIOUS
<1> DEFINE ty == RecordType(types'[Id])
<1>1. /\ Typed /\ input # <<>> /\ n = 0 /\ Advance /\ Mention
      /\ stack' = Declare(stack, Member(Tok.name, ty, -1))
      /\ UNCHANGED <<program, layout, status>>
  BY DEF ReadRef, Reads, IInv
<1>2. /\ tags' \in [Tags -> 0..Len(types')]
      /\ types' \in Seq(GoodRecs) /\ Len(types) <= Len(types') /\ Len(types') \in Nat
      /\ ty \in GoodTypes
  BY <1>1, MentionGood, RecordGood
<1>3. stack \in Seq(GoodFrames(Len(types'))) /\ Tok.name \in Names \cup {NoName}
  BY <1>1, <1>2, MoreFrames, TokenOK DEF Typed
<1> HIDE DEF ty
<1>4. stack' \in Seq(GoodFrames(Len(types')))
  BY <1>1, <1>2, <1>3, DeclarePlain
<1>5. Typed'
  BY <1>1, <1>2, <1>4, AdvanceOK DEF Typed
<1> QED BY <1>1, <1>5, ReadingStep

LEMMA ReadPointerInv == IInv /\ ReadPointer => IInv'
<1> SUFFICES ASSUME IInv, ReadPointer PROVE IInv'
  OBVIOUS
<1>1. /\ Typed /\ input # <<>> /\ n = 0 /\ Advance /\ Mention
      /\ stack' = Declare(stack, Member(Tok.name, PointerType, -1))
      /\ UNCHANGED <<program, layout, status>>
  BY DEF ReadPointer, Reads, IInv
<1>2. /\ tags' \in [Tags -> 0..Len(types')]
      /\ types' \in Seq(GoodRecs) /\ Len(types) <= Len(types') /\ Len(types') \in Nat
  BY <1>1, MentionGood
<1>3. stack \in Seq(GoodFrames(Len(types'))) /\ Tok.name \in Names \cup {NoName}
  BY <1>1, <1>2, MoreFrames, TokenOK DEF Typed
<1>4. stack' \in Seq(GoodFrames(Len(types')))
  BY <1>1, <1>2, <1>3, DeclarePlain, PointerGood
<1>5. Typed'
  BY <1>1, <1>2, <1>4, AdvanceOK DEF Typed
<1> QED BY <1>1, <1>5, ReadingStep

LEMMA ReadMemberInv == IInv /\ (ReadField \/ ReadBits) => IInv'
<1> SUFFICES ASSUME IInv, ReadField \/ ReadBits PROVE IInv'
  OBVIOUS
<1>1. /\ Typed /\ input # <<>> /\ n = 0 /\ Advance
      /\ UNCHANGED <<program, tables, layout, status>>
  BY DEF ReadField, ReadBits, Reads, IInv
<1>2. Len(types) \in Nat /\ stack \in Seq(GoodFrames(Len(types)))
      /\ Tok.name \in Names \cup {NoName} /\ Tok.type \in Basics
  BY <1>1, TokenOK DEF Typed
<1>3. BasicType(Tok.type) \in GoodTypes /\ BasicType(Tok.type).kind = Tok.type.kind
      /\ BasicType(Tok.type).size = Tok.type.size /\ (Tok.type.kind = "int" => Tok.type.size \in Nat)
  BY <1>2, BasicGood DEF BasicType
<1>4. stack' \in Seq(GoodFrames(Len(types)))
  <2>1. CASE ReadField
    <3>1. stack' = Declare(stack, Member(Tok.name, BasicType(Tok.type), -1))
      BY <2>1 DEF ReadField
    <3> QED BY <1>2, <1>3, <3>1, DeclarePlain
  <2>2. CASE ReadBits
    <3>1. stack' = Declare(stack, Member(Tok.name, BasicType(Tok.type), Tok.bits)) /\ BitsOK
      BY <2>2 DEF ReadBits
    <3>2. Tok.type.kind = "int" /\ Tok.type.size \in Nat /\ Tok.bits \in 0..8 * Tok.type.size
      BY <1>3, <3>1 DEF BitsOK
    <3>3. Tok.bits \in Nat \cup {-1} /\ Tok.bits <= 8 * BasicType(Tok.type).size
      BY <1>3, <3>2
    <3> QED BY <1>2, <1>3, <3>1, <3>2, <3>3, DeclareGood
  <2> QED BY <2>1, <2>2
<1>5. Typed'
  BY <1>1, <1>4, AdvanceOK DEF Typed, tables
<1> QED BY <1>1, <1>5, ReadingStep

LEMMA ReadCloseInv == IInv /\ ReadClose => IInv'
<1> SUFFICES ASSUME IInv, ReadClose PROVE IInv'
  OBVIOUS
<1> DEFINE q == FixFlexible(Frame.list)
           f == [id |-> Frame.id, at |-> Frame.at, list |-> q]
<1>1. /\ Typed /\ input # <<>> /\ stack # <<>>
      /\ stack' = <<f>> \o Tail(stack) /\ n' = 1
      /\ off' = 0 /\ bitoff' = 0 /\ align' = 1 /\ dict' = <<>>
      /\ program' = program /\ input' = input /\ tags' = tags /\ types' = types /\ status' = status
  BY DEF ReadClose, Reads, IInv, tables
<1>2. stack \in Seq(GoodFrames(Len(types)))
  BY <1>1 DEF Typed
<1>3. Frame \in GoodFrames(Len(types)) /\ Tail(stack) \in Seq(GoodFrames(Len(types)))
  BY <1>1, <1>2 DEF Frame
<1>4. q \in Seq(GoodMembers) /\ \A k \in 1..Len(q) : q[k].ty.size # -1
  BY <1>3, FixedGood DEF GoodFrames
<1> HIDE DEF q
<1>5. f \in GoodFrames(Len(types)) /\ f.list = q
  BY <1>3, <1>4 DEF GoodFrames
<1> HIDE DEF f
<1>6. stack' \in Seq(GoodFrames(Len(types))) /\ stack' # <<>> /\ Frame' = f
  BY <1>1, <1>3, <1>5 DEF Frame
<1>7. Typed'
  BY <1>1, <1>6 DEF Typed
<1>8. Len(q) \in Nat /\ n' <= Len(Frame'.list) + 1
  BY <1>1, <1>4, <1>5, <1>6
<1>9. Laid(dict', n', Top') /\ Apart(dict')
  BY <1>1 DEF Laid, Apart
<1>10. \A k \in 1..Len(Frame'.list) : Frame'.list[k].ty.size # -1
  BY <1>4, <1>5, <1>6
<1>11. /\ n' \in Nat /\ off' \in Nat /\ bitoff' \in Nat /\ align' \in Nat \ {0}
       /\ dict' \in Seq(Entries) /\ input' # <<>>
  BY <1>1
<1> QED BY <1>6, <1>7, <1>8, <1>9, <1>10, <1>11 DEF IInv

LEMMA FinishRecordInv == IInv /\ FinishRecord => IInv'
<1> SUFFICES ASSUME IInv, FinishRecord PROVE IInv'
  OBVIOUS
<1> DEFINE r == [isstruct |-> IsStruct, size |-> RecordSize, align |-> align, dict |-> dict, at |-> Frame.at]
<1>1. /\ Typed /\ n # 0 /\ Advance /\ n' = 0
      /\ types' = [types EXCEPT ![Frame.id] = r]
      /\ stack' = Declare(Tail(stack), Member(Tok.name, RecordType(r), -1))
      /\ UNCHANGED <<program, tags, off, bitoff, align, dict, status>>
  BY DEF FinishRecord, IInv
<1>2. /\ n \in Nat /\ off \in Nat /\ bitoff \in Nat /\ align \in Nat \ {0}
      /\ dict \in Seq(Entries) /\ stack # <<>> /\ input # <<>>
      /\ Laid(dict, n, Top) /\ (IsStruct => Apart(dict))
  BY <1>1 DEF IInv
<1>3. /\ stack \in Seq(GoodFrames(Len(types))) /\ types \in Seq(GoodRecs) /\ Len(types) \in Nat
      /\ tags \in [Tags -> 0..Len(types)]
  BY <1>1 DEF Typed
<1>4. Frame \in GoodFrames(Len(types)) /\ Tail(stack) \in Seq(GoodFrames(Len(types)))
  BY <1>2, <1>3 DEF Frame
<1>5. Frame.id \in 1..Len(types) /\ Frame.at \in Nat
  BY <1>4 DEF GoodFrames
<1>6. IsStruct \in BOOLEAN
  <2>1. types[Frame.id] \in RecTypes
    BY <1>3, <1>5 DEF GoodRecs
  <2> QED BY <2>1 DEF IsStruct, RecTypes
<1>7. RecordSize \in Nat /\ Top <= 8 * RecordSize /\ Top \in Nat
  <2>1. CASE IsStruct
    <3>1. FinishBits \in Nat /\ Top <= 8 * FinishBits /\ Top \in Nat
      BY <1>2, <2>1, FinishBitsOK DEF Top
    <3>2. RecordSize = Pad(FinishBits, align)
      BY <2>1 DEF RecordSize
    <3>3. RecordSize \in Nat /\ FinishBits <= RecordSize
      BY <1>2, <3>1, <3>2, PadOK
    <3> QED BY <3>1, <3>3
  <2>2. CASE ~ IsStruct
    <3>1. RecordSize = Pad(off, align) /\ Top = 8 * off
      BY <2>2 DEF RecordSize, Top
    <3>2. RecordSize \in Nat /\ off <= RecordSize
      BY <1>2, <3>1, PadOK
    <3> QED BY <1>2, <3>1, <3>2
  <2> QED BY <2>1, <2>2
<1>8. Within(dict, RecordSize)
  <2> SUFFICES ASSUME NEW j \in 1..Len(dict) PROVE EndBit(dict[j]) <= 8 * RecordSize
    BY DEF Within
  <2>1. EndBit(dict[j]) \in Nat
    <3>1. dict[j] \in Entries
      BY <1>2
    <3> QED BY <3>1, EntryBits
  <2>2. EndBit(dict[j]) <= Top
    BY <1>2 DEF Laid
  <2> QED BY <1>7, <2>1, <2>2
<1>9. r \in GoodRecs /\ r.align # 0
  <2>1. r \in RecTypes /\ r.isstruct = IsStruct /\ r.size = RecordSize /\ r.dict = dict /\ r.align = align
    BY <1>2, <1>5, <1>6, <1>7 DEF RecTypes
  <2> QED BY <1>2, <1>8, <2>1 DEF GoodRecs
<1> HIDE DEF r
<1>10. types' \in Seq(GoodRecs) /\ Len(types') = Len(types)
  BY <1>1, <1>3, <1>5, <1>9
<1>11. stack' \in Seq(GoodFrames(Len(types)))
  <2>1. RecordType(r) \in GoodTypes /\ Tok.name \in Names \cup {NoName}
    BY <1>1, <1>2, <1>9, RecordGood, TokenOK
  <2> QED BY <1>1, <1>3, <1>4, <2>1, DeclarePlain
<1>12. Typed'
  BY <1>1, <1>2, <1>3, <1>10, <1>11, AdvanceOK DEF Typed
<1> QED BY <1>1, <1>2, <1>12 DEF IInv

(* Steps that stop the reading, or change nothing. *)
LEMMA StopInv == IInv /\ (Finish \/ Fail \/ UNCHANGED vars) => IInv'
<1> SUFFICES ASSUME IInv, Finish \/ Fail \/ UNCHANGED vars PROVE IInv'
  OBVIOUS
<1>1. /\ program' = program /\ input' = input /\ tags' = tags /\ types' = types /\ stack' = stack
      /\ n' = n /\ off' = off /\ bitoff' = bitoff /\ align' = align /\ dict' = dict
      /\ status' \in {"reading", "done", "error"}
  BY DEF Finish, Fail, vars, tables, layout, IInv, Typed
<1>2. Frame' = Frame /\ IsStruct' = IsStruct /\ Top' = Top
  BY <1>1 DEF Frame, IsStruct, Top
<1> QED BY <1>1, <1>2 DEF IInv, Typed

LEMMA InitInv == Init => IInv
<1> SUFFICES ASSUME Init PROVE IInv
  OBVIOUS
<1>1. program \in Seq(Tokens) /\ input = program
  BY ProgramAssumption DEF Init
<1>2. /\ tags = [t \in Tags |-> 0] /\ types = <<>> /\ stack = <<>> /\ n = 0 /\ off = 0
      /\ bitoff = 0 /\ align = 1 /\ dict = <<>> /\ status = "reading"
  BY DEF Init
<1>3. Typed
  BY <1>1, <1>2 DEF Typed
<1> QED BY <1>2, <1>3 DEF IInv

LEMMA NextInv == IInv /\ [Next]_vars => IInv'
<1> SUFFICES ASSUME IInv, [Next]_vars PROVE IInv'
  OBVIOUS
<1>1. CASE ReadOpen
  BY <1>1, ReadOpenInv
<1>2. CASE ReadRef
  BY <1>2, ReadRefInv
<1>3. CASE ReadPointer
  BY <1>3, ReadPointerInv
<1>4. CASE ReadField \/ ReadBits
  BY <1>4, ReadMemberInv
<1>5. CASE ReadClose
  BY <1>5, ReadCloseInv
<1>6. CASE ReadMismatch \/ ReadBadBits \/ ReadBadEnd \/ Finish \/ UNCHANGED vars
  BY <1>6, StopInv DEF ReadMismatch, ReadBadBits, ReadBadEnd
<1>7. CASE LayAnonymous
  BY <1>7, LayAnonymousInv
<1>8. CASE LayZeroBits
  BY <1>8, LayZeroBitsInv
<1>9. CASE LayBits
  BY <1>9, LayBitsInv
<1>10. CASE LayNextUnit
  BY <1>10, LayNextUnitInv
<1>11. CASE LayPlain
  BY <1>11, LayPlainInv
<1>12. CASE LayInUnion
  BY <1>12, LayInUnionInv
<1>13. CASE FinishRecord
  BY <1>13, FinishRecordInv
<1> QED BY <1>1, <1>2, <1>3, <1>4, <1>5, <1>6, <1>7, <1>8, <1>9, <1>10, <1>11, <1>12, <1>13 DEF Next

LEMMA Invariant == Spec => []IInv
BY InitInv, NextInv, PTL DEF Spec

------------------------------------------------------------------------------
LEMMA InvTypes == IInv => TypeOK
<1> SUFFICES ASSUME IInv PROVE TypeOK
  OBVIOUS
<1>1. Len(types) \in Nat /\ types \in Seq(GoodRecs) /\ stack \in Seq(GoodFrames(Len(types)))
  BY DEF IInv, Typed
<1>2. types \in Seq(RecTypes)
  <2>1. GoodRecs \subseteq RecTypes
    BY GoodIsTyped
  <2> QED BY <1>1, <2>1
<1>3. stack \in Seq(Frames)
  <2>1. GoodFrames(Len(types)) \subseteq Frames
    <3>1. Seq(GoodMembers) \subseteq Seq(Members)
      <4>1. GoodMembers \subseteq Members
        BY DEF GoodMembers, Members, GoodTypes
      <4> QED BY <4>1
    <3> QED BY <3>1 DEF GoodFrames, Frames
  <2> QED BY <1>1, <2>1
<1> QED BY <1>2, <1>3 DEF IInv, Typed, TypeOK

(* Every variable has its type, and nothing without a size is laid out:    *)
(* the flexible member has been given its size (fix_rectype_flexible_member). *)
THEOREM TypeCorrect == Spec => []TypeOK
<1>1. IInv => TypeOK
  BY InvTypes
<1> QED BY <1>1, Invariant, PTL

(* In every structure, different members share no bit, whatever follows a  *)
(* bit-field and whatever is inside (update_struct_offset).                *)
THEOREM NoOverlap == Spec => []MembersApart
<1>1. IInv => MembersApart
  <2> SUFFICES ASSUME IInv PROVE MembersApart
    OBVIOUS
  <2>1. \A t \in 1..Len(types) : types[t] \in GoodRecs
    BY DEF IInv, Typed
  <2>2. \A t \in 1..Len(types) : types[t].isstruct => Apart(types[t].dict)
    BY <2>1 DEF GoodRecs
  <2> QED BY <2>2 DEF MembersApart, IInv
<1> QED BY <1>1, Invariant, PTL

(* A structure or union is large enough for each of its members, those of  *)
(* anonymous records included (read_rectype_fields).                       *)
THEOREM LargeEnough == Spec => []MembersInside
<1>1. IInv => MembersInside
  <2> SUFFICES ASSUME IInv PROVE MembersInside
    OBVIOUS
  <2>1. \A t \in 1..Len(types) : types[t] \in GoodRecs
    BY DEF IInv, Typed
  <2> QED BY <2>1 DEF GoodRecs, MembersInside
<1> QED BY <1>1, Invariant, PTL
=============================================================================
