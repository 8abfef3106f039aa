-------------------------- MODULE MacroExpandProofs ---------------------------
(***************************************************************************)
(* The C functions of the macro expander and lex.c's stack of buffers stay *)
(* in step, for all macros, directives and texts.  The tokens of a buffer, *)
(* an argument or a body may be anything: the proof needs no more of them  *)
(* than that they stand in sequences.                                      *)
(***************************************************************************)
EXTENDS MacroExpand, FiniteSetTheorems, SequenceTheorems, TLAPS

(* A sequence, of whatever. *)
IsSeq(q) == Len(q) \in Nat /\ q = [n \in 1..Len(q) |-> q[n]]

LEMMA SeqOfItself ==
  ASSUME NEW q, IsSeq(q), NEW S, \A n \in 1..Len(q) : q[n] \in S
  PROVE  q \in Seq(S) /\ DOMAIN q = 1..Len(q)
<1>1. q \in [1..Len(q) -> S]
  BY DEF IsSeq
<1> QED BY <1>1, SeqDef DEF IsSeq

LEMMA SeqIsSeq ==
  ASSUME NEW S, NEW q \in Seq(S)
  PROVE  IsSeq(q)
BY LenProperties DEF IsSeq

LEMMA Cons ==
  ASSUME NEW q, IsSeq(q), NEW f
  PROVE  /\ IsSeq(<<f>> \o q) /\ Len(<<f>> \o q) = Len(q) + 1
         /\ (<<f>> \o q)[1] = f
         /\ \A n \in 1..Len(q) : (<<f>> \o q)[n + 1] = q[n]
<1> DEFINE S == {q[n] : n \in 1..Len(q)} \cup {f}
           r == <<f>> \o q
<1>1. q \in Seq(S) /\ <<f>> \in Seq(S) /\ Len(<<f>>) = 1 /\ <<f>>[1] = f /\ Len(q) \in Nat
  BY SeqOfItself DEF IsSeq
<1> HIDE DEF S
<1>2. r \in Seq(S) /\ Len(r) = 1 + Len(q)
      /\ \A n \in 1..1 + Len(q) : r[n] = IF n <= 1 THEN <<f>>[n] ELSE q[n - 1]
  BY <1>1, ConcatProperties
<1> HIDE DEF r
<1>3. r[1] = f /\ \A n \in 1..Len(q) : r[n + 1] = q[n]
  <2>1. r[1] = f
    BY <1>1, <1>2
  <2>2. ASSUME NEW n \in 1..Len(q) PROVE r[n + 1] = q[n]
    <3>1. n + 1 \in 1..1 + Len(q) /\ ~ (n + 1 <= 1) /\ (n + 1) - 1 = n
      BY <1>1
    <3> QED BY <1>2, <3>1
  <2> QED BY <2>1, <2>2
<1>4. IsSeq(r)
  BY <1>2, SeqIsSeq
<1> QED BY <1>1, <1>2, <1>3, <1>4 DEF r

LEMMA TailOf ==
  ASSUME NEW q, IsSeq(q), q # <<>>
  PROVE  /\ IsSeq(Tail(q)) /\ Len(q) \in Nat \ {0} /\ Len(Tail(q)) = Len(q) - 1
         /\ \A n \in 1..Len(q) - 1 : Tail(q)[n] = q[n + 1]
<1> DEFINE S == {q[n] : n \in 1..Len(q)}
<1>1. q \in Seq(S) /\ Len(q) \in Nat
  BY SeqOfItself DEF IsSeq
<1> HIDE DEF S
<1>2. Tail(q) \in Seq(S) /\ Len(q) # 0 /\ Len(Tail(q)) = Len(q) - 1
      /\ \A n \in 1..Len(Tail(q)) : Tail(q)[n] = q[n + 1]
  BY <1>1, HeadTailProperties, EmptySeq
<1> QED BY <1>1, <1>2, SeqIsSeq

LEMMA AppendTo ==
  ASSUME NEW q, IsSeq(q), NEW e
  PROVE  IsSeq(Append(q, e)) /\ Len(Append(q, e)) = Len(q) + 1
<1> DEFINE S == {q[n] : n \in 1..Len(q)} \cup {e}
<1>1. q \in Seq(S) /\ e \in S
  BY SeqOfItself
<1> HIDE DEF S
<1> QED BY <1>1, AppendProperties, SeqIsSeq

LEMMA EmptyIsSeq == IsSeq(<<>>) /\ Len(<<>>) = 0
BY DEF IsSeq

LEMMA NotEmpty ==
  ASSUME NEW q, IsSeq(q)
  PROVE  q # <<>> <=> Len(q) > 0
<1>1. Len(q) = 0 => q = <<>>
  BY DEF IsSeq
<1> QED BY <1>1, EmptyIsSeq DEF IsSeq

------------------------------------------------------------------------------
(* The frames, field by field. *)

Args(f) == [at |-> "args", tok |-> f.tok, macro |-> f.macro, args |-> f.args,
            arg |-> f.arg, level |-> f.level]
Subs(f) == [at |-> "subst", macro |-> f.macro, args |-> f.args, hideset |-> f.hideset,
            i |-> f.i, r |-> f.r]

LEMMA ArgEnds ==
  ASSUME NEW f, f = Args(f), NEW args, NEW arg
  PROVE  [f EXCEPT !.args = args, !.arg = arg] =
          [at |-> "args", tok |-> f.tok, macro |-> f.macro, args |-> args,
           arg |-> arg, level |-> f.level]
<1>1. PICK g : g = [f EXCEPT !.args = args]
  OBVIOUS
<1>2. g = [at |-> "args", tok |-> f.tok, macro |-> f.macro, args |-> args,
           arg |-> f.arg, level |-> f.level]
  BY <1>1 DEF Args
<1>3. [g EXCEPT !.arg = arg] =
          [at |-> "args", tok |-> f.tok, macro |-> f.macro, args |-> args,
           arg |-> arg, level |-> f.level]
  BY <1>2
<1> QED BY ONLY <1>1, <1>3, Zenon

LEMMA ArgGrows ==
  ASSUME NEW f, f = Args(f), NEW arg, NEW level
  PROVE  [f EXCEPT !.arg = arg, !.level = level] =
          [at |-> "args", tok |-> f.tok, macro |-> f.macro, args |-> f.args,
           arg |-> arg, level |-> level]
<1>1. PICK g : g = [f EXCEPT !.arg = arg]
  OBVIOUS
<1>2. g = [at |-> "args", tok |-> f.tok, macro |-> f.macro, args |-> f.args,
           arg |-> arg, level |-> f.level]
  BY <1>1 DEF Args
<1>3. [g EXCEPT !.level = level] =
          [at |-> "args", tok |-> f.tok, macro |-> f.macro, args |-> f.args,
           arg |-> arg, level |-> level]
  BY <1>2
<1> QED BY ONLY <1>1, <1>3, Zenon

LEMMA SubstGoesOn ==
  ASSUME NEW f, f = Subs(f), NEW i, NEW r, NEW hs
  PROVE  [f EXCEPT !.i = i, !.r = r, !.hideset = hs] =
          [at |-> "subst", macro |-> f.macro, args |-> f.args, hideset |-> hs,
           i |-> i, r |-> r]
<1>1. PICK g : g = [f EXCEPT !.i = i]
  OBVIOUS
<1>2. PICK h : h = [g EXCEPT !.r = r]
  OBVIOUS
<1>3. g = [at |-> "subst", macro |-> f.macro, args |-> f.args, hideset |-> f.hideset,
           i |-> i, r |-> f.r]
  BY <1>1 DEF Subs
<1>4. h = [at |-> "subst", macro |-> f.macro, args |-> f.args, hideset |-> f.hideset,
           i |-> i, r |-> r]
  BY <1>2, <1>3
<1>5. [h EXCEPT !.hideset = hs] =
          [at |-> "subst", macro |-> f.macro, args |-> f.args, hideset |-> hs,
           i |-> i, r |-> r]
  BY <1>4
<1> QED BY ONLY <1>1, <1>2, <1>5, Zenon

LEMMA SubstGoesOnAfterCall ==
  ASSUME NEW f, f = Subs(f), NEW i, NEW r
  PROVE  [f EXCEPT !.r = r, !.i = i] =
          [at |-> "subst", macro |-> f.macro, args |-> f.args, hideset |-> f.hideset,
           i |-> i, r |-> r]
<1>1. PICK g : g = [f EXCEPT !.r = r]
  OBVIOUS
<1>2. g = [at |-> "subst", macro |-> f.macro, args |-> f.args, hideset |-> f.hideset,
           i |-> f.i, r |-> r]
  BY <1>1 DEF Subs
<1>3. [g EXCEPT !.i = i] =
          [at |-> "subst", macro |-> f.macro, args |-> f.args, hideset |-> f.hideset,
           i |-> i, r |-> r]
  BY <1>2
<1> QED BY ONLY <1>1, <1>3, Zenon

IsTop(f) == f = TopFrame
IsPeek(f) == f = PeekFrame(f.tok, f.macro) /\ IsMacro(f.macro) /\ f.macro.nargs = 0
IsArgs(f) == f = Args(f) /\ IsMacro(f.macro) /\ IsSeq(f.args) /\ f.level \in Nat
IsSubst(f) ==
  /\ f = Subs(f) /\ IsMacro(f.macro)
  /\ IsSeq(f.args) /\ Len(f.args) = f.macro.nargs
  /\ f.i \in 1..Len(f.macro.body) + 1
IsExpand(f) == f = [at |-> "expand", r |-> f.r]

IsFrame(f) == IsTop(f) \/ IsPeek(f) \/ IsArgs(f) \/ IsSubst(f) \/ IsExpand(f)

LEMMA FrameAt ==
  ASSUME NEW f, IsFrame(f)
  PROVE  /\ f.at \in {"top", "peek", "args", "subst", "expand"}
         /\ f.at = "top" <=> IsTop(f)
         /\ f.at = "peek" <=> IsPeek(f)
         /\ f.at = "args" <=> IsArgs(f)
         /\ f.at = "subst" <=> IsSubst(f)
         /\ f.at = "expand" <=> IsExpand(f)
<1>1. IsTop(f) => f.at = "top"
  BY DEF IsTop, TopFrame
<1>2. IsPeek(f) => f.at = "peek"
  BY DEF IsPeek, PeekFrame
<1>3. IsArgs(f) => f.at = "args"
  BY DEF IsArgs, Args
<1>4. IsSubst(f) => f.at = "subst"
  BY DEF IsSubst, Subs
<1>5. IsExpand(f) => f.at = "expand"
  BY DEF IsExpand
<1> QED BY <1>1, <1>2, <1>3, <1>4, <1>5 DEF IsFrame

(* Of two frames, one above the other: expand_all is what subst calls, and *)
(* subst calls nothing else.                                               *)
Calls(above, below) ==
  /\ below.at # "args"
  /\ above.at # "top"
  /\ above.at = "expand" <=> below.at = "subst"
  /\ below.at = "subst" => below.i <= Len(below.macro.body)

(* The calls under way. *)
Stack(q) ==
  /\ IsSeq(q) /\ Len(q) > 0
  /\ \A n \in 1..Len(q) : IsFrame(q[n])
  /\ q[Len(q)].at = "top"
  /\ \A n \in 1..Len(q) - 1 : Calls(q[n], q[n + 1])

Expands(q) == {n \in 1..Len(q) : q[n].at = "expand"}

MInv ==
  /\ status \in {"running", "done", "error"}
  /\ \A x \in DOMAIN macros : IsMacro(macros[x])
  /\ Stack(stack)
  /\ IsSeq(bufs)
  /\ Len(bufs) = 1 + Cardinality(Expands(stack))

LEMMA ExpandsFinite ==
  ASSUME NEW q, IsSeq(q)
  PROVE  IsFiniteSet(Expands(q)) /\ Cardinality(Expands(q)) \in Nat
<1>1. IsFiniteSet(1..Len(q))
  <2>1. 1 \in Int /\ Len(q) \in Int
    BY DEF IsSeq
  <2> QED BY <2>1, FS_Interval
<1> QED BY <1>1, FS_Subset, FS_CardinalityType DEF Expands

(* A call. *)
LEMMA PushStack ==
  ASSUME NEW q, Stack(q), NEW f, IsFrame(f), Calls(f, q[1])
  PROVE  /\ Stack(<<f>> \o q)
         /\ Cardinality(Expands(<<f>> \o q)) =
              Cardinality(Expands(q)) + (IF f.at = "expand" THEN 1 ELSE 0)
<1> DEFINE p == <<f>> \o q
<1>1. IsSeq(p) /\ Len(p) = Len(q) + 1 /\ p[1] = f /\ \A n \in 1..Len(q) : p[n + 1] = q[n]
  BY Cons DEF Stack
<1> HIDE DEF p
<1>2. Len(q) \in Nat \ {0} /\ IsSeq(q)
  BY DEF Stack, IsSeq
<1>3. ASSUME NEW n \in 1..Len(p) PROVE n = 1 \/ (n - 1 \in 1..Len(q) /\ p[n] = q[n - 1])
  <2>1. CASE n # 1
    <3>1. n - 1 \in 1..Len(q) /\ (n - 1) + 1 = n
      BY <1>1, <1>2, <2>1
    <3> QED BY <1>1, <3>1
  <2> QED BY <2>1
<1>4. Stack(p)
  <2>1. \A n \in 1..Len(p) : IsFrame(p[n])
    BY <1>1, <1>3 DEF Stack
  <2>2. p[Len(p)].at = "top"
    BY <1>1, <1>2 DEF Stack
  <2>3. ASSUME NEW n \in 1..Len(p) - 1 PROVE Calls(p[n], p[n + 1])
    <3>1. n \in 1..Len(q) /\ p[n + 1] = q[n] /\ n \in 1..Len(p)
      BY <1>1, <1>2
    <3>2. CASE n = 1
      BY <1>1, <3>1, <3>2
    <3>3. CASE n # 1
      <4>1. n - 1 \in 1..Len(q) - 1 /\ (n - 1) + 1 = n /\ p[n] = q[n - 1]
        BY <1>2, <1>3, <3>1, <3>3
      <4>2. Calls(q[n - 1], q[(n - 1) + 1])
        BY <4>1 DEF Stack
      <4> QED BY <3>1, <4>1, <4>2
    <3> QED BY <3>2, <3>3
  <2> QED BY <1>1, <1>2, <2>1, <2>2, <2>3 DEF Stack
<1>5. Cardinality(Expands(p)) = Cardinality(Expands(q)) + (IF f.at = "expand" THEN 1 ELSE 0)
  <2> DEFINE up == {n + 1 : n \in Expands(q)}
             g == [n \in Expands(q) |-> n + 1]
  <2>1. IsFiniteSet(Expands(q)) /\ Cardinality(Expands(q)) \in Nat
    BY <1>2, ExpandsFinite
  <2>2. g \in Bijection(Expands(q), up)
    <3>1. Expands(q) \subseteq Nat
      BY <1>2 DEF Expands
    <3>2. g \in [Expands(q) -> up] /\ \A a, b \in Expands(q) : g[a] = g[b] => a = b
      BY <3>1
    <3>3. \A y \in up : \E a \in Expands(q) : g[a] = y
      OBVIOUS
    <3> QED BY <3>2, <3>3 DEF Bijection, Injection, Surjection, IsInjective
  <2>3. IsFiniteSet(up) /\ Cardinality(up) = Cardinality(Expands(q))
    <3>1. ExistsBijection(Expands(q), up)
      BY <2>2 DEF ExistsBijection
    <3> QED BY <2>1, <3>1, FS_Bijection
  <2>4. 1 \notin up
    BY <1>2 DEF Expands
  <2>5. Expands(p) = IF f.at = "expand" THEN up \cup {1} ELSE up
    <3>1. up \subseteq Expands(p)
      BY <1>1, <1>2 DEF Expands
    <3>2. ASSUME NEW n \in Expands(p), n # 1 PROVE n \in up
      <4>1. n \in 1..Len(p) /\ p[n].at = "expand"
        BY DEF Expands
      <4>2. n - 1 \in Expands(q) /\ (n - 1) + 1 = n
        BY <1>2, <1>3, <3>2, <4>1 DEF Expands
      <4> QED BY <4>2
    <3>3. 1 \in Expands(p) <=> f.at = "expand"
      BY <1>1, <1>2 DEF Expands
    <3> QED BY <2>4, <3>1, <3>2, <3>3
  <2> HIDE DEF up, g
  <2>6. Cardinality(up \cup {1}) = Cardinality(up) + 1
    BY <2>3, <2>4, FS_AddElement
  <2>7. CASE f.at = "expand"
    BY <2>3, <2>5, <2>6, <2>7
  <2>8. CASE f.at # "expand"
    BY <2>1, <2>3, <2>5, <2>8
  <2> QED BY <2>7, <2>8
<1> QED BY <1>4, <1>5 DEF p

LEMMA TailStack ==
  ASSUME NEW q, Stack(q), q[1].at # "top"
  PROVE  /\ Stack(Tail(q)) /\ Len(q) > 1 /\ Tail(q)[1] = q[2] /\ Calls(q[1], q[2])
         /\ Cardinality(Expands(q)) =
              Cardinality(Expands(Tail(q))) + (IF q[1].at = "expand" THEN 1 ELSE 0)
         /\ q = <<q[1]>> \o Tail(q)
<1> DEFINE p == Tail(q)
<1>1. IsSeq(q) /\ Len(q) \in Nat /\ Len(q) > 1 /\ q # <<>> /\ Calls(q[1], q[2])
  <2>1. IsSeq(q) /\ Len(q) \in Nat /\ Len(q) > 1
    <3>1. Len(q) # 1
      BY DEF Stack
    <3> QED BY <3>1 DEF Stack, IsSeq
  <2>2. q # <<>>
    BY <2>1, NotEmpty
  <2>3. Calls(q[1], q[1 + 1])
    <3>1. 1 \in 1..Len(q) - 1
      BY <2>1
    <3> QED BY <3>1 DEF Stack
  <2> QED BY <2>1, <2>2, <2>3
<1>2. IsSeq(p) /\ Len(p) = Len(q) - 1 /\ \A n \in 1..Len(q) - 1 : p[n] = q[n + 1]
  BY <1>1, TailOf
<1> HIDE DEF p
<1>3. Stack(p) /\ p[1] = q[2]
  <2>1. \A n \in 1..Len(p) : IsFrame(p[n])
    BY <1>1, <1>2 DEF Stack
  <2>2. p[Len(p)].at = "top"
    <3>1. p[Len(p)] = q[Len(q)]
      BY <1>1, <1>2
    <3> QED BY <3>1 DEF Stack
  <2>3. ASSUME NEW n \in 1..Len(p) - 1 PROVE Calls(p[n], p[n + 1])
    <3>1. p[n] = q[n + 1] /\ p[n + 1] = q[(n + 1) + 1] /\ n + 1 \in 1..Len(q) - 1
      BY <1>1, <1>2
    <3> QED BY <3>1 DEF Stack
  <2>4. p[1] = q[2]
    BY <1>1, <1>2
  <2> QED BY <1>1, <1>2, <2>1, <2>2, <2>3, <2>4 DEF Stack
<1> DEFINE c == <<q[1]>> \o p
<1>4. q = c
  <2>1. IsSeq(c) /\ Len(c) = Len(p) + 1 /\ c[1] = q[1] /\ \A n \in 1..Len(p) : c[n + 1] = p[n]
    BY <1>2, Cons
  <2> HIDE DEF c
  <2>2. ASSUME NEW n \in 1..Len(q) PROVE c[n] = q[n]
    <3>1. CASE n # 1
      <4>1. n - 1 \in 1..Len(p) /\ (n - 1) + 1 = n
        BY <1>1, <1>2, <3>1
      <4> QED BY <1>2, <2>1, <4>1
    <3> QED BY <2>1, <3>1
  <2>3. Len(c) = Len(q)
    BY <1>1, <1>2, <2>1
  <2> QED BY <1>1, <2>1, <2>2, <2>3 DEF IsSeq
<1>5. Cardinality(Expands(c)) = Cardinality(Expands(p)) + (IF q[1].at = "expand" THEN 1 ELSE 0)
  <2>1. IsFrame(q[1])
    BY <1>1 DEF Stack
  <2> QED BY <1>1, <1>3, <2>1, PushStack
<1> HIDE DEF c
<1>6. q = <<q[1]>> \o p
  BY <1>4 DEF c
<1> QED BY <1>1, <1>3, <1>4, <1>5, <1>6 DEF p

(* The function on top goes on: it stays what it is, or becomes another of *)
(* those that read.                                                        *)
LEMMA ReplaceTop ==
  ASSUME NEW q, Stack(q), q[1].at # "top", NEW f, IsFrame(f), f.at # "top",
         f.at = "expand" <=> q[1].at = "expand"
  PROVE  /\ Stack(<<f>> \o Tail(q))
         /\ Cardinality(Expands(<<f>> \o Tail(q))) = Cardinality(Expands(q))
<1>1. /\ Stack(Tail(q)) /\ Tail(q)[1] = q[2] /\ Calls(q[1], q[2])
      /\ Cardinality(Expands(q)) =
           Cardinality(Expands(Tail(q))) + (IF q[1].at = "expand" THEN 1 ELSE 0)
  BY TailStack
<1>2. Calls(f, Tail(q)[1])
  BY <1>1 DEF Calls
<1> QED BY <1>1, <1>2, PushStack

(* The top of the buffers changes. *)
LEMMA SetBufferSeq ==
  ASSUME NEW q, IsSeq(q), Len(q) > 0, NEW b
  PROVE  IsSeq(<<b>> \o Tail(q)) /\ Len(<<b>> \o Tail(q)) = Len(q)
<1>1. IsSeq(Tail(q)) /\ Len(q) \in Nat /\ Len(Tail(q)) = Len(q) - 1
  BY NotEmpty, TailOf
<1> QED BY <1>1, Cons

(* What MInv says of the top. *)
LEMMA TopOf ==
  ASSUME MInv
  PROVE  /\ IsFrame(Frame) /\ Len(bufs) \in Nat \ {0} /\ IsSeq(bufs) /\ Stack(stack)
         /\ Len(bufs) = 1 + Cardinality(Expands(stack))
         /\ Cardinality(Expands(stack)) \in Nat
<1>1. 1 \in 1..Len(stack) /\ IsSeq(stack)
  BY DEF MInv, Stack, IsSeq
<1>2. Cardinality(Expands(stack)) \in Nat
  BY <1>1, ExpandsFinite
<1> QED BY <1>1, <1>2 DEF MInv, Stack, Frame, IsSeq

LEMMA ActiveIsMacro ==
  ASSUME MInv
  PROVE  IsMacro(Active)
<1>1. IsMacro(NoMacro)
  BY EmptyIsSeq DEF IsMacro, NoMacro
<1> QED BY <1>1 DEF Active, MacroOf, MInv

------------------------------------------------------------------------------
(* The actions. *)

LEMMA InitMInv == Init => MInv
<1> SUFFICES ASSUME Init PROVE MInv
  OBVIOUS
<1>1. \A x \in DOMAIN macros : IsMacro(macros[x])
  BY MacroAssumption DEF Init
<1>2. stack = <<TopFrame>> /\ Len(stack) = 1 /\ stack[1] = TopFrame /\ IsSeq(stack)
  BY DEF Init, IsSeq
<1>3. Stack(stack)
  BY <1>2 DEF Stack, IsFrame, IsTop, TopFrame
<1>4. Expands(stack) = {}
  BY <1>2 DEF Expands, TopFrame
<1>5. Len(bufs) = 1 /\ IsSeq(bufs)
  BY DEF Init, IsSeq
<1>6. Cardinality(Expands(stack)) = 0
  <2>1. Cardinality({}) = 0
    BY FS_EmptySet
  <2> QED BY <1>4, <2>1
<1>7. status = "running"
  BY DEF Init
<1> QED BY <1>1, <1>3, <1>5, <1>6, <1>7 DEF MInv

(* Nothing but the buffer changes, or the macros.                          *)
LEMMA BufferMInv ==
  ASSUME MInv, UNCHANGED <<status, stack>>, NEW b, SetBuffer(b),
         \A x \in DOMAIN macros' : IsMacro(macros'[x])
  PROVE  MInv'
<1>1. IsSeq(bufs') /\ Len(bufs') = Len(bufs)
  BY TopOf, SetBufferSeq DEF SetBuffer
<1> QED BY <1>1 DEF MInv

(* The frame on top changes, and perhaps the buffer.                       *)
LEMMA FrameMInv ==
  ASSUME MInv, UNCHANGED <<status, macros>>, Frame.at # "top",
         NEW f, SetFrame(f), IsFrame(f), f.at # "top",
         f.at = "expand" <=> Frame.at = "expand",
         UNCHANGED bufs \/ \E b : SetBuffer(b)
  PROVE  MInv'
<1>1. Stack(stack') /\ Cardinality(Expands(stack')) = Cardinality(Expands(stack))
  <2>1. Stack(stack) /\ stack[1].at # "top" /\ (f.at = "expand" <=> stack[1].at = "expand")
    BY TopOf DEF Frame
  <2>2. /\ Stack(<<f>> \o Tail(stack))
        /\ Cardinality(Expands(<<f>> \o Tail(stack))) = Cardinality(Expands(stack))
    BY <2>1, ReplaceTop
  <2> QED BY <2>2 DEF SetFrame
<1>2. IsSeq(bufs') /\ Len(bufs') = Len(bufs)
  <2>1. CASE UNCHANGED bufs
    BY <2>1, TopOf
  <2>2. CASE \E b : SetBuffer(b)
    BY <2>2, TopOf, SetBufferSeq DEF SetBuffer
  <2> QED BY <2>1, <2>2
<1> QED BY <1>1, <1>2 DEF MInv

(* A macro is called: the frame of subst or read_args on top of a reader.  *)
LEMMA CallMInv ==
  ASSUME MInv, UNCHANGED <<status, macros>>, Frame.at \in {"top", "peek", "expand"},
         NEW f, PushFrame(f), IsFrame(f), f.at \in {"peek", "args", "subst"},
         NEW b, SetBuffer(b)
  PROVE  MInv'
<1>1. Calls(f, stack[1])
  BY DEF Calls, Frame
<1>2. Stack(stack') /\ Cardinality(Expands(stack')) = Cardinality(Expands(stack))
  <2>1. Cardinality(Expands(<<f>> \o stack)) = Cardinality(Expands(stack)) + 0
    BY <1>1, TopOf, PushStack
  <2>2. Stack(<<f>> \o stack)
    BY <1>1, TopOf, PushStack
  <2> QED BY <2>1, <2>2, TopOf DEF PushFrame
<1>3. IsSeq(bufs') /\ Len(bufs') = Len(bufs)
  BY TopOf, SetBufferSeq DEF SetBuffer
<1> QED BY <1>2, <1>3 DEF MInv

LEMMA ReadMInv ==
  ASSUME MInv, SkipNewline \/ ReadDirective \/ ExpandSpecial \/ ArgNewline \/ ArgDirective
  PROVE  MInv'
<1>1. UNCHANGED <<status, stack>> /\ \E b : SetBuffer(b)
  BY DEF SkipNewline, ReadDirective, ExpandSpecial, ArgNewline, ArgDirective, Directive,
         DropToken
<1>2. \A x \in DOMAIN macros' : IsMacro(macros'[x])
  <2>1. CASE ReadDirective \/ ArgDirective
    <3> DEFINE d == Directives[Tok.n]
    <3>1. macros' = [macros EXCEPT ![d.name] = d.macro] /\ IsMacro(d.macro)
      BY <2>1, MacroAssumption DEF ReadDirective, ArgDirective, Directive
    <3> QED BY <3>1 DEF MInv
  <2>2. CASE SkipNewline \/ ExpandSpecial \/ ArgNewline
    BY <2>2 DEF SkipNewline, ExpandSpecial, ArgNewline, MInv
  <2> QED BY <2>1, <2>2
<1> QED BY <1>1, <1>2, BufferMInv

LEMMA FailMInv ==
  ASSUME MInv, Fail
  PROVE  MInv'
BY DEF Fail, MInv

LEMMA SubstStarts ==
  ASSUME NEW macro, IsMacro(macro), NEW args, IsSeq(args), Len(args) = macro.nargs, NEW hs
  PROVE  IsSubst(SubstFrame(macro, args, hs)) /\ SubstFrame(macro, args, hs).at = "subst"
BY DEF IsSubst, SubstFrame, Subs, IsMacro

LEMMA DeliverMInv ==
  ASSUME MInv, Deliver
  PROVE  MInv'
<1> USE DEF Deliver
<1>1. UNCHANGED <<status, macros>> /\ IsFrame(Frame)
  BY TopOf
<1>2. CASE Frame.at = "top"
  <2>1. UNCHANGED stack /\ \E b : SetBuffer(b)
    BY <1>2 DEF DropToken
  <2> QED BY <1>1, <2>1, BufferMInv DEF MInv
<1>3. CASE Frame.at = "expand"
  <2> DEFINE f == [Frame EXCEPT !.r = Append(@, Tok)]
  <2>1. IsExpand(f) /\ f.at = "expand"
    <3>1. Frame = [at |-> "expand", r |-> Frame.r]
      BY <1>1, <1>3, FrameAt DEF IsExpand
    <3>2. \A frame, r : frame = [at |-> "expand", r |-> frame.r]
            => [frame EXCEPT !.r = r] = [at |-> "expand", r |-> r]
      OBVIOUS
    <3>3. f = [at |-> "expand", r |-> Append(Frame.r, Tok)]
      BY <3>1, <3>2
    <3> QED BY <3>3 DEF IsExpand
  <2>2. SetFrame(f) /\ \E b : SetBuffer(b)
    BY <1>3 DEF DropToken
  <2> HIDE DEF f
  <2> QED BY <1>1, <1>3, <2>1, <2>2, FrameMInv DEF IsFrame
<1>4. CASE Frame.at = "peek" /\ Tok.n = RPAREN
  <2> DEFINE hs == (Frame.tok.hideset \cap Tok.hideset) \cup {Frame.tok.n}
             f == SubstFrame(Frame.macro, <<>>, hs)
  <2>1. IsMacro(Frame.macro) /\ Frame.macro.nargs = 0
    BY <1>1, <1>4, FrameAt DEF IsPeek
  <2>2. IsSubst(f) /\ f.at = "subst"
    BY <2>1, SubstStarts, EmptyIsSeq
  <2>3. SetFrame(f) /\ \E b : SetBuffer(b)
    BY <1>4 DEF DropToken
  <2> HIDE DEF f
  <2> QED BY <1>1, <1>4, <2>2, <2>3, FrameMInv DEF IsFrame
<1>5. CASE Frame.at = "peek" /\ Tok.n # RPAREN
  <2> DEFINE f == ArgsFrame(Frame.tok, Frame.macro)
  <2>1. IsArgs(f) /\ f.at = "args"
    BY <1>1, <1>5, FrameAt, EmptyIsSeq DEF IsPeek, IsArgs, ArgsFrame, Args
  <2>2. SetFrame(f) /\ UNCHANGED bufs
    BY <1>5
  <2> HIDE DEF f
  <2> QED BY <1>1, <1>5, <2>1, <2>2, FrameMInv DEF IsFrame
<1> QED BY <1>2, <1>3, <1>4, <1>5

LEMMA ExpandMInv ==
  ASSUME MInv, ExpandObj \/ ExpandFunc
  PROVE  MInv'
<1>1. /\ UNCHANGED <<status, macros>> /\ Frame.at \in {"top", "peek", "expand"}
      /\ \E b : SetBuffer(b)
  BY DEF ExpandObj, ExpandFunc, Reading, DropToken
<1>2. CASE ExpandObj
  <2> DEFINE f == SubstFrame(Active, <<>>, Tok.hideset \cup {Tok.n})
  <2>1. IsMacro(Active) /\ Active.nargs = 0
    BY <1>2, ActiveIsMacro DEF ExpandObj, IsMacro
  <2>2. IsSubst(f) /\ f.at = "subst"
    BY <2>1, SubstStarts, EmptyIsSeq
  <2>3. PushFrame(f)
    BY <1>2 DEF ExpandObj
  <2> HIDE DEF f
  <2> QED BY <1>1, <2>2, <2>3, CallMInv DEF IsFrame
<1>3. CASE ExpandFunc
  <2> DEFINE f == IF Active.nargs = 0 THEN PeekFrame(Tok, Active) ELSE ArgsFrame(Tok, Active)
  <2>1. IsFrame(f) /\ f.at \in {"peek", "args"}
    <3>1. Active.nargs = 0 =>
            IsPeek(PeekFrame(Tok, Active)) /\ PeekFrame(Tok, Active).at = "peek"
      BY ActiveIsMacro DEF IsPeek, PeekFrame
    <3>2. IsArgs(ArgsFrame(Tok, Active)) /\ ArgsFrame(Tok, Active).at = "args"
      BY ActiveIsMacro, EmptyIsSeq DEF IsArgs, ArgsFrame, Args
    <3> QED BY <3>1, <3>2 DEF IsFrame
  <2>2. PushFrame(f)
    BY <1>3 DEF ExpandFunc
  <2> HIDE DEF f
  <2> QED BY <1>1, <2>1, <2>2, CallMInv
<1> QED BY <1>2, <1>3
LEMMA ReadEofMInv ==
  ASSUME MInv, ReadEof
  PROVE  MInv'
<1>1. UNCHANGED macros /\ IsFrame(Frame)
  BY TopOf DEF ReadEof
<1>2. CASE Frame.at = "top"
  BY <1>2 DEF ReadEof, MInv
<1>3. CASE Frame.at = "peek"
  <2> DEFINE f == ArgsFrame(Frame.tok, Frame.macro)
  <2>1. IsArgs(f) /\ f.at = "args"
    BY <1>1, <1>3, FrameAt, EmptyIsSeq DEF IsPeek, IsArgs, ArgsFrame, Args
  <2>2. SetFrame(f) /\ UNCHANGED <<bufs, status>>
    BY <1>3 DEF ReadEof
  <2> HIDE DEF f
  <2> QED BY <1>1, <1>3, <2>1, <2>2, FrameMInv DEF IsFrame
<1>4. CASE Frame.at = "expand"
  <2> DEFINE below == Tail(stack)
             f == [stack[2] EXCEPT !.r = @ \o Frame.r, !.i = @ + 1]
  <2>1. /\ stack' = <<f>> \o Tail(below) /\ bufs' = Tail(bufs) /\ UNCHANGED status
    BY <1>4 DEF ReadEof
  <2>2. /\ Stack(below) /\ below[1] = stack[2] /\ Calls(stack[1], stack[2])
        /\ Cardinality(Expands(stack)) = Cardinality(Expands(below)) + 1
    BY <1>4, TopOf, TailStack DEF Frame
  <2>3. stack[2].at = "subst" /\ stack[2].i <= Len(stack[2].macro.body)
    BY <1>4, <2>2 DEF Calls, Frame
  <2>4. IsSubst(stack[2])
    <3>1. 1 \in 1..Len(below)
      BY <2>2 DEF Stack, IsSeq
    <3>2. IsFrame(stack[2])
      BY <2>2, <3>1 DEF Stack
    <3> QED BY <2>3, <3>2, FrameAt
  <2>5. IsSubst(f) /\ f.at = "subst"
    <3>1. f = [at |-> "subst", macro |-> stack[2].macro, args |-> stack[2].args,
               hideset |-> stack[2].hideset, i |-> stack[2].i + 1, r |-> stack[2].r \o Frame.r]
      BY <2>4, SubstGoesOnAfterCall, Zenon DEF IsSubst
    <3> HIDE DEF f
    <3>2. Len(stack[2].macro.body) \in Nat
      BY <2>4 DEF IsSubst, IsMacro
    <3>3. f.i \in 1..Len(f.macro.body) + 1
      BY <2>3, <2>4, <3>1, <3>2 DEF IsSubst
    <3> QED BY <2>4, <3>1, <3>3 DEF IsSubst, Subs
  <2> HIDE DEF f, below
  <2>6. Stack(<<f>> \o Tail(below))
        /\ Cardinality(Expands(<<f>> \o Tail(below))) = Cardinality(Expands(below))
    <3>1. below[1].at # "top" /\ f.at # "top" /\ (f.at = "expand" <=> below[1].at = "expand")
      BY <2>2, <2>3, <2>5
    <3>2. IsFrame(f)
      BY <2>5 DEF IsFrame
    <3> QED BY <2>2, <3>1, <3>2, ReplaceTop
  <2>7. IsSeq(bufs') /\ Len(bufs') = Len(bufs) - 1
    <3>1. bufs # <<>>
      BY TopOf, NotEmpty
    <3> QED BY <2>1, <3>1, TopOf, TailOf
  <2>8. IsFiniteSet(Expands(below)) /\ Cardinality(Expands(below)) \in Nat
    BY <2>2, ExpandsFinite DEF Stack
  <2>9. Len(bufs') = 1 + Cardinality(Expands(stack'))
    BY <2>1, <2>2, <2>6, <2>7, <2>8, TopOf
  <2> QED BY <1>1, <2>1, <2>6, <2>7, <2>9 DEF MInv
<1> QED BY <1>2, <1>3, <1>4 DEF ReadEof

(* read_args goes on to the next token. *)
LEMMA ArgMInv ==
  ASSUME MInv, ArgComma \/ ArgToken
  PROVE  MInv'
<1>1. /\ UNCHANGED <<status, macros>> /\ Frame.at = "args" /\ IsArgs(Frame)
      /\ \E b : SetBuffer(b)
  BY TopOf, FrameAt DEF ArgComma, ArgToken, ReadingArgs, DropToken
<1>2. CASE ArgComma
  <2> DEFINE f == [Frame EXCEPT !.args = Append(@, Frame.arg), !.arg = <<>>]
  <2>1. f = [at |-> "args", tok |-> Frame.tok, macro |-> Frame.macro,
             args |-> Append(Frame.args, Frame.arg), arg |-> <<>>, level |-> Frame.level]
    BY <1>1, ArgEnds, Zenon DEF IsArgs
  <2>2. SetFrame(f)
    BY <1>2 DEF ArgComma
  <2> HIDE DEF f
  <2>3. IsSeq(Append(Frame.args, Frame.arg))
    BY <1>1, AppendTo DEF IsArgs
  <2>4. IsArgs(f) /\ f.at = "args"
    BY <1>1, <2>1, <2>3 DEF IsArgs, Args
  <2> QED BY <1>1, <2>2, <2>4, FrameMInv DEF IsFrame
<1>3. CASE ArgToken
  <2> DEFINE level == CASE Tok.n = LPAREN -> Frame.level + 1
                        [] Tok.n = RPAREN -> Frame.level - 1
                        [] OTHER          -> Frame.level
             f == [Frame EXCEPT !.arg = Append(@, Tok), !.level = level]
  <2>1. f = [at |-> "args", tok |-> Frame.tok, macro |-> Frame.macro, args |-> Frame.args,
             arg |-> Append(Frame.arg, Tok), level |-> level]
    BY <1>1, ArgGrows, Zenon DEF IsArgs
  <2>2. SetFrame(f)
    BY <1>1, <1>3 DEF ArgToken, IsArgs, Args
  <2>3. level \in Nat
    <3>1. LPAREN # RPAREN /\ RPAREN # COMMA
      BY DEF LPAREN, RPAREN, COMMA
    <3>2. Tok.n = RPAREN => Frame.level > 0
      BY <1>3, <3>1 DEF ArgToken
    <3>3. Frame.level \in Nat
      BY <1>1 DEF IsArgs
    <3>4. CASE Tok.n = LPAREN
      BY <3>1, <3>3, <3>4
    <3>5. CASE Tok.n = RPAREN
      BY <3>1, <3>2, <3>3, <3>5
    <3>6. CASE Tok.n # LPAREN /\ Tok.n # RPAREN
      BY <3>3, <3>6
    <3> QED BY <3>4, <3>5, <3>6
  <2> HIDE DEF f, level
  <2>4. IsArgs(f) /\ f.at = "args"
    BY <1>1, <2>1, <2>3 DEF IsArgs, Args
  <2> QED BY <1>1, <2>2, <2>4, FrameMInv DEF IsFrame
<1> QED BY <1>2, <1>3

LEMMA ArgsCloseMInv ==
  ASSUME MInv, ArgsClose \/ ArgsUnterminated
  PROVE  MInv'
<1>1. CASE ArgsUnterminated
  BY <1>1, FailMInv DEF ArgsUnterminated
<1>2. CASE ArgsClose
  <2> DEFINE read == Append(Frame.args, Frame.arg)
             args == IF Frame.macro.varg /\ Len(read) + 1 = Frame.macro.nargs
                     THEN Append(read, <<>>) ELSE read
             f == SubstFrame(Frame.macro, args, HideSet(Frame.tok, Tok))
  <2>1. Frame.at = "args" /\ IsArgs(Frame)
    BY <1>2, TopOf, FrameAt DEF ArgsClose, ReadingArgs
  <2>2. IsSeq(args)
    BY <2>1, AppendTo DEF IsArgs
  <2>3. \/ Len(args) = Frame.macro.nargs /\ SetFrame(f) /\ (\E b : SetBuffer(b))
           /\ UNCHANGED <<status, macros>>
        \/ Fail
    BY <1>2 DEF ArgsClose, DropToken
  <2> HIDE DEF read, args
  <2>4. CASE Len(args) = Frame.macro.nargs /\ SetFrame(f) /\ (\E b : SetBuffer(b))
             /\ UNCHANGED <<status, macros>>
    <3>1. IsSubst(f) /\ f.at = "subst"
      BY <2>1, <2>2, <2>4, SubstStarts DEF IsArgs
    <3> HIDE DEF f
    <3> QED BY <2>1, <2>4, <3>1, FrameMInv DEF IsFrame
  <2> QED BY <2>3, <2>4, FailMInv
<1> QED BY <1>1, <1>2

(* subst goes on, by tokens that the body has. *)
LEMMA SubstMInv ==
  ASSUME MInv, Frame.at = "subst", NEW n \in Nat, Frame.i + n <= Len(Body) + 1,
         NEW r, NEW hs, Subst(n, r, hs)
  PROVE  MInv'
<1> DEFINE f == [Frame EXCEPT !.i = @ + n, !.r = r, !.hideset = hs]
<1>1. IsSubst(Frame)
  BY TopOf, FrameAt
<1>2. f = [at |-> "subst", macro |-> Frame.macro, args |-> Frame.args, hideset |-> hs,
           i |-> Frame.i + n, r |-> r]
  <2>1. Frame = Subs(Frame)
    BY <1>1 DEF IsSubst
  <2>2. ASSUME NEW i
        PROVE  [Frame EXCEPT !.i = i, !.r = r, !.hideset = hs] =
                 [at |-> "subst", macro |-> Frame.macro, args |-> Frame.args,
                  hideset |-> hs, i |-> i, r |-> r]
    BY <2>1, SubstGoesOn, Zenon
  <2> QED BY <2>2, Zenon
<1>3. SetFrame(f) /\ UNCHANGED <<status, macros, bufs>>
  BY DEF Subst
<1> HIDE DEF f
<1>4. Len(Frame.macro.body) \in Nat /\ Frame.i \in Nat /\ Frame.i >= 1
  BY <1>1 DEF IsSubst, IsMacro
<1>5. f.i \in 1..Len(f.macro.body) + 1
  BY <1>2, <1>4 DEF Body
<1>6. IsSubst(f) /\ f.at = "subst"
  BY <1>1, <1>2, <1>5 DEF IsSubst, Subs
<1> QED BY <1>3, <1>6, FrameMInv DEF IsFrame

(* An operand is a token of the body. *)
LEMMA Operand ==
  ASSUME MInv, Substituting
  PROVE  /\ Frame.at = "subst" /\ Frame.i + 1 <= Len(Body) + 1
         /\ T1.p > 0 \/ T1.n = HASHHASH => Frame.i + 2 <= Len(Body) + 1
<1>1. Frame.at = "subst" /\ Frame.i <= Len(Body)
  BY DEF Substituting
<1>2. IsSubst(Frame)
  BY <1>1, TopOf, FrameAt
<1>3. Len(Body) \in Nat /\ Frame.i \in Nat
  BY <1>2 DEF IsSubst, IsMacro, Body
<1>4. ~ (Frame.i < Len(Body)) => T1.p = 0 /\ T1.n = NEWLINE
  BY DEF T1, Token
<1>5. NEWLINE # HASHHASH
  BY DEF NEWLINE, HASHHASH
<1>6. T1.p > 0 \/ T1.n = HASHHASH => Frame.i < Len(Body)
  BY <1>4, <1>5
<1> QED BY <1>1, <1>3, <1>6

LEMMA SubstStepMInv ==
  ASSUME MInv, \/ SubstStringize \/ SubstCommaVarargs \/ SubstPasteParam
               \/ SubstPaste \/ SubstBeforePaste \/ SubstPush
  PROVE  MInv'
<1>1. \/ Fail
      \/ \E n \in {1, 2} : \E r, hs : Subst(n, r, hs) /\ Substituting
           /\ (n = 2 => T1.p > 0 \/ T1.n = HASHHASH \/ Frame.i < Len(Body))
  <2>1. CASE SubstStringize
    BY <2>1 DEF SubstStringize
  <2>2. CASE SubstCommaVarargs
    BY <2>2 DEF SubstCommaVarargs, PastesParam
  <2>3. CASE SubstPasteParam
    BY <2>3 DEF SubstPasteParam, PastesParam
  <2>4. CASE SubstPaste
    BY <2>4 DEF SubstPaste
  <2>5. CASE SubstBeforePaste
    BY <2>5 DEF SubstBeforePaste
  <2>6. CASE SubstPush
    BY <2>6 DEF SubstPush
  <2> QED BY <2>1, <2>2, <2>3, <2>4, <2>5, <2>6
<1>2. ASSUME NEW n \in {1, 2}, NEW r, NEW hs, Subst(n, r, hs), Substituting,
             n = 2 => T1.p > 0 \/ T1.n = HASHHASH \/ Frame.i < Len(Body)
      PROVE  MInv'
  <2>1. Frame.at = "subst" /\ n \in Nat
    BY <1>2, Operand
  <2>2. IsSubst(Frame)
    BY <2>1, TopOf, FrameAt
  <2>3. Len(Body) \in Nat /\ Frame.i \in Nat
    BY <2>2 DEF IsSubst, IsMacro, Body
  <2>4. Frame.i + n <= Len(Body) + 1
    BY <1>2, <2>3, Operand
  <2> QED BY <1>2, <2>1, <2>4, SubstMInv
<1> QED BY <1>1, <1>2, FailMInv

LEMMA SubstParamMInv ==
  ASSUME MInv, SubstParam
  PROVE  MInv'
<1>1. /\ bufs' = <<Frame.args[T0.p]>> \o bufs
      /\ stack' = <<ExpandFrame>> \o stack /\ UNCHANGED <<status, macros>>
      /\ stack[1].at = "subst" /\ stack[1].i <= Len(stack[1].macro.body)
  BY DEF SubstParam, PushFrame, Substituting, Frame, Body
<1>2. IsExpand(ExpandFrame) /\ ExpandFrame.at = "expand"
  BY DEF IsExpand, ExpandFrame
<1>3. Calls(ExpandFrame, stack[1])
  BY <1>1, <1>2 DEF Calls
<1>4. Stack(stack') /\ Cardinality(Expands(stack')) = Cardinality(Expands(stack)) + 1
  <2>1. /\ Stack(<<ExpandFrame>> \o stack)
        /\ Cardinality(Expands(<<ExpandFrame>> \o stack)) = Cardinality(Expands(stack)) + 1
    BY <1>2, <1>3, TopOf, PushStack DEF IsFrame
  <2> QED BY <1>1, <2>1
<1>5. IsSeq(bufs') /\ Len(bufs') = Len(bufs) + 1
  BY <1>1, TopOf, Cons
<1>6. Len(bufs') = 1 + Cardinality(Expands(stack'))
  BY <1>4, <1>5, TopOf
<1> QED BY <1>1, <1>4, <1>5, <1>6 DEF MInv

LEMMA SubstEndsMInv ==
  ASSUME MInv, SubstEnds
  PROVE  MInv'
<1>1. /\ stack' = Tail(stack) /\ stack[1].at = "subst" /\ UNCHANGED <<status, macros>>
      /\ \E b : SetBuffer(b)
  BY DEF SubstEnds, Frame
<1>2. Stack(stack') /\ Cardinality(Expands(stack')) = Cardinality(Expands(stack))
  <2>1. Stack(Tail(stack))
        /\ Cardinality(Expands(stack)) = Cardinality(Expands(Tail(stack))) + 0
    BY <1>1, TopOf, TailStack
  <2>2. Cardinality(Expands(Tail(stack))) \in Nat
    BY <2>1, ExpandsFinite DEF Stack
  <2> QED BY <1>1, <2>1, <2>2
<1>3. IsSeq(bufs') /\ Len(bufs') = Len(bufs)
  BY <1>1, TopOf, SetBufferSeq DEF SetBuffer
<1> QED BY <1>1, <1>2, <1>3 DEF MInv

LEMMA NextMInv == MInv /\ [Next]_vars => MInv'
<1> SUFFICES ASSUME MInv, [Next]_vars PROVE MInv'
  OBVIOUS
<1>1. CASE UNCHANGED vars
  BY <1>1 DEF vars, MInv
<1>2. CASE Next
  BY <1>2, ReadMInv, DeliverMInv, ReadEofMInv, ExpandMInv, ArgMInv, ArgsCloseMInv,
     SubstStepMInv, SubstParamMInv, SubstEndsMInv DEF Next
<1> QED BY <1>1, <1>2

LEMMA MInvTypeOK == MInv => TypeOK
<1> SUFFICES ASSUME MInv PROVE TypeOK
  OBVIOUS
<1>1. /\ stack # <<>> /\ bufs # <<>> /\ IsSeq(stack) /\ Len(stack) \in Nat \ {0}
      /\ DOMAIN stack = 1..Len(stack)
  BY TopOf, NotEmpty DEF Stack, IsSeq
<1>2. ASSUME NEW n \in DOMAIN stack
      PROVE  /\ stack[n].at \in {"top", "peek", "args", "subst", "expand"}
             /\ (stack[n].at = "top") = (n = Len(stack))
             /\ stack[n].at = "args" => stack[n].level \in Nat
             /\ stack[n].at = "expand" => stack[n + 1].at = "subst"
             /\ stack[n].at = "subst" => /\ stack[n].i \in 1..Len(stack[n].macro.body) + 1
                                         /\ Len(stack[n].args) = stack[n].macro.nargs
             /\ n > 1 /\ stack[n].at = "subst" => stack[n - 1].at = "expand"
  <2>1. IsFrame(stack[n])
    BY <1>1 DEF MInv, Stack
  <2>2. n # Len(stack) => Calls(stack[n], stack[n + 1])
    BY <1>1 DEF MInv, Stack
  <2>3. n > 1 => Calls(stack[n - 1], stack[n])
    <3>1. n > 1 => n - 1 \in 1..Len(stack) - 1 /\ (n - 1) + 1 = n
      BY <1>1
    <3>2. \A m \in 1..Len(stack) - 1 : Calls(stack[m], stack[m + 1])
      BY DEF MInv, Stack
    <3> QED BY <3>1, <3>2
  <2>4. stack[Len(stack)].at = "top"
    BY DEF MInv, Stack
  <2>5. stack[n].at = "top" <=> n = Len(stack)
    BY <2>2, <2>4 DEF Calls
  <2>6. stack[n].at = "expand" => stack[n + 1].at = "subst"
    BY <2>2, <2>4 DEF Calls
  <2>7. n > 1 /\ stack[n].at = "subst" => stack[n - 1].at = "expand"
    BY <2>3 DEF Calls
  <2>8. stack[n].at \in {"top", "peek", "args", "subst", "expand"}
    BY <2>1, FrameAt
  <2>9. stack[n].at = "args" => stack[n].level \in Nat
    BY <2>1, FrameAt DEF IsArgs
  <2>10. stack[n].at = "subst" => /\ stack[n].i \in 1..Len(stack[n].macro.body) + 1
                                  /\ Len(stack[n].args) = stack[n].macro.nargs
    BY <2>1, FrameAt DEF IsSubst
  <2> QED BY <2>5, <2>6, <2>7, <2>8, <2>9, <2>10
<1>3. Expands(stack) = {n \in DOMAIN stack : stack[n].at = "expand"}
  BY <1>1 DEF Expands
<1>4. Len(bufs) = 1 + Cardinality({n \in DOMAIN stack : stack[n].at = "expand"})
  BY <1>3 DEF MInv
<1>5. status \in {"running", "done", "error"}
  BY DEF MInv
<1> QED BY <1>1, <1>2, <1>4, <1>5 DEF TypeOK

(* Whatever the macros, the directives and the text: read_token is at the  *)
(* bottom of the calls, each expand_all is called by subst and has a       *)
(* buffer of its own, which is gone when it returns, a body is substituted *)
(* only with as many arguments as the macro takes, and the parentheses of  *)
(* an argument never go below level 0.                                     *)
THEOREM CallsMatchBuffers == Spec => []TypeOK
<1>1. Init => MInv
  BY InitMInv
<1>2. MInv /\ [Next]_vars => MInv'
  BY NextMInv
<1>3. MInv => TypeOK
  BY MInvTypeOK
<1> QED BY <1>1, <1>2, <1>3, PTL DEF Spec
=============================================================================
