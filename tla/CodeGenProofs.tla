--------------------------- MODULE CodeGenProofs -----------------------------
(***************************************************************************)
(* The stack pointer the generator counts is right: no assertion of its    *)
(* functions fails, for every program, however its trees are nested.       *)
(*                                                                         *)
(* What is left to do is a sequence of items, and every item takes the     *)
(* stack from one height to another: an expression leaves it as it was, a  *)
(* push is one higher, what is left of a call comes back to opos.  The     *)
(* invariant is that the items fit together (Chain): there are heights,    *)
(* the first of them stackpos, such that each item takes its height to the *)
(* next one.  A step replaces the first item by items that fit in its      *)
(* place.                                                                  *)
(***************************************************************************)
EXTENDS CodeGen, SequenceTheorems, TLAPS

IntNodes == {t \in Nodes : t.ty = "int"}
FloatNodes == {t \in Nodes : t.ty = "float"}
CallNodes == {t \in Nodes : t.kind \in {"call", "callptr"}}
CallRecs == {c \in [node : CallNodes, ints : Seq(IntNodes), floats : Seq(FloatNodes),
                    rest : Seq(Nodes), opos : Nat] : Len(c.ints) <= 6 /\ Len(c.floats) <= 2}

Items ==
  [do : {"expr"}, node : Nodes]
  \cup [do : {"code"}, ins : Seq(Instructions), by : Emitters]
  \cup [do : {"push", "pop"}, reg : Nat, words : Nat, by : Emitters]
  \cup [do : {"pushstruct"}, words : Nat]
  \cup [do : {"label"}, l : Nat]
  \cup [do : {"classify"}, call : CallRecs, args : Seq(Nodes)]
  \cup [do : {"saveints"}, n : 0 .. 6, i : 0 .. 6]
  \cup [do : {"savefloats"}, n : 0 .. 2, i : 1 .. 2]
  \cup [do : {"popints"}, n : 0 .. 6, by : Emitters]
  \cup [do : {"popfloats"}, n : 0 .. 2, low : 0 .. 1, by : Emitters]
  \cup [do : {"emitrest"}, call : CallRecs, vals : Seq(Nodes), r : Nat]
  \cup [do : {"emitargs"}, vals : Seq(IntNodes) \cup Seq(FloatNodes)]
  \cup [do : {"jump"}, node : CallNodes, ret : Nat]
  \cup [do : {"drop"}, n : Nat]
  \cup [do : {"assert"}, opos : Nat]
  \cup [do : {"params"}, i : Nat \ {0}, off : Int, arg : Nat, ireg : 0 .. 6, xreg : 0 .. 2]

(* The words save_arg_regs has pushed when it is done.                     *)
Above(n, low) == IF n > low THEN 2 * (n - low) ELSE 0
Saved(call) == Len(call.ints) + Above(Len(call.floats), 1)

(* Item x takes the stack from height p to height q.  Nothing comes after  *)
(* the parameters, whose height is known only when they have been read.    *)
Takes(x, p, q) ==
  /\ x.do \in {"expr", "code", "label", "jump"} => q = p
  /\ x.do = "push" => q = p + x.words
  /\ x.do = "pop" => p = q + x.words
  /\ x.do = "pushstruct" => q = p + x.words + 1
  /\ x.do = "classify" => q = p /\ x.call.opos = p
  /\ x.do = "saveints" => q = p + (IF x.n > x.i THEN x.n - x.i ELSE 0)
  /\ x.do = "savefloats" => q = p + Above(x.n, x.i)
  /\ x.do = "popints" => p = q + x.n
  /\ x.do = "popfloats" => p = q + Above(x.n, x.low)
  /\ x.do = "emitrest" => p = x.call.opos + Saved(x.call) + x.r /\ q = x.call.opos
  /\ x.do = "emitargs" => \/ x.vals \in Seq(IntNodes) /\ q = p + Len(x.vals)
                          \/ x.vals \in Seq(FloatNodes) /\ q = p + 2 * Len(x.vals)
  /\ x.do = "drop" => p = q + x.n
  /\ x.do = "assert" => q = p /\ x.opos = p

Fits(x, p, q) ==
  /\ x \in Items /\ p \in Nat
  /\ IF x.do = "params" THEN q = -1 ELSE q \in Nat /\ Takes(x, p, q)

Chain(s, p, q) ==
  /\ s \in Seq(Items)
  /\ \E pos \in [1 .. Len(s) + 1 -> Int] :
       /\ pos[1] = p /\ pos[Len(s) + 1] = q
       /\ \A i \in 1 .. Len(s) : Fits(s[i], pos[i], pos[i + 1])

IInv == /\ TypeOK /\ AssertsHold
        /\ todo # <<>> => current # 0
        /\ \E q \in Int : Chain(todo, stackpos, q)

-----------------------------------------------------------------------------
(* Chains.                                                                 *)

LEMMA ChainEmpty == \A p \in Int : Chain(<<>>, p, p)
<1> TAKE p \in Int
<1> DEFINE e == <<>>  pos == [i \in 1 .. 1 |-> p]
<1>1. e \in Seq(Items) /\ Len(e) = 0  OBVIOUS
<1>2. pos \in [1 .. 1 -> Int] /\ pos[1] = p  OBVIOUS
<1>3. \A i \in 1 .. 0 : Fits(e[i], pos[i], pos[i + 1])  OBVIOUS
<1> HIDE DEF e, pos
<1>4. Chain(e, p, p)  BY <1>1, <1>2, <1>3 DEF Chain
<1> QED BY <1>4 DEF e

LEMMA ChainOne == ASSUME NEW x, NEW p \in Int, NEW q \in Int, Fits(x, p, q)
                  PROVE  Chain(<<x>>, p, q)
<1> DEFINE s == <<x>>  pos == [i \in 1 .. 2 |-> IF i = 1 THEN p ELSE q]
<1>1. s \in Seq(Items) /\ Len(s) = 1 /\ s[1] = x  BY DEF Fits
<1>2. pos \in [1 .. Len(s) + 1 -> Int] /\ pos[1] = p /\ pos[2] = q  BY <1>1
<1>3. \A i \in 1 .. Len(s) : Fits(s[i], pos[i], pos[i + 1])
  <2> TAKE i \in 1 .. Len(s)
  <2>1. i = 1  BY <1>1
  <2> HIDE DEF s, pos
  <2> QED BY <2>1, <1>1, <1>2
<1> HIDE DEF s, pos
<1>4. Chain(s, p, q)  BY <1>1, <1>2, <1>3 DEF Chain
<1> QED BY <1>4 DEF s

LEMMA ChainCat == ASSUME NEW s, NEW t, NEW p \in Int, NEW q \in Int, NEW r \in Int,
                         Chain(s, p, q), Chain(t, q, r)
                  PROVE  Chain(s \o t, p, r)
<1>1. PICK f \in [1 .. Len(s) + 1 -> Int] :
        /\ f[1] = p /\ f[Len(s) + 1] = q
        /\ \A i \in 1 .. Len(s) : Fits(s[i], f[i], f[i + 1])
  BY DEF Chain
<1>2. PICK g \in [1 .. Len(t) + 1 -> Int] :
        /\ g[1] = q /\ g[Len(t) + 1] = r
        /\ \A i \in 1 .. Len(t) : Fits(t[i], g[i], g[i + 1])
  BY DEF Chain
<1> DEFINE m == Len(s)  n == Len(t)
           h == [i \in 1 .. m + n + 1 |-> IF i <= m THEN f[i] ELSE g[i - m]]
<1>3. s \in Seq(Items) /\ t \in Seq(Items) /\ m \in Nat /\ n \in Nat  BY DEF Chain
<1>4. s \o t \in Seq(Items) /\ Len(s \o t) = m + n  BY <1>3
<1>5. /\ \A i \in 1 .. m : (s \o t)[i] = s[i]
      /\ \A i \in m + 1 .. m + n : (s \o t)[i] = t[i - m]
  BY <1>3
<1> HIDE DEF m, n
<1>6. h \in [1 .. m + n + 1 -> Int]  BY <1>1, <1>2, <1>3 DEF m, n
<1>7. h[1] = p /\ h[m + n + 1] = r  BY <1>1, <1>2, <1>3 DEF m, n
<1>8. ASSUME NEW i \in 1 .. m + n PROVE Fits((s \o t)[i], h[i], h[i + 1])
  <2>1. CASE i < m
    <3>1. h[i] = f[i] /\ h[i + 1] = f[i + 1]  BY <2>1, <1>3
    <3> HIDE DEF h
    <3> QED BY <3>1, <2>1, <1>1, <1>3, <1>5 DEF m
  <2>2. CASE i = m
    <3>1. h[i] = f[i] /\ h[i + 1] = g[1] /\ f[i + 1] = g[1]  BY <2>2, <1>1, <1>2, <1>3 DEF m
    <3> HIDE DEF h
    <3> QED BY <3>1, <2>2, <1>1, <1>3, <1>5 DEF m
  <2>3. CASE i > m
    <3> DEFINE k == i - m
    <3>1. k \in 1 .. n /\ (i + 1) - m = k + 1 /\ i + 1 \in 1 .. m + n + 1 /\ i \in m + 1 .. m + n
      BY <2>3, <1>3
    <3>2. h[i] = g[k] /\ h[i + 1] = g[(i + 1) - m]  BY <3>1, <2>3, <1>3
    <3>3. (s \o t)[i] = t[k]  BY <3>1, <1>5
    <3>4. Fits(t[k], g[k], g[k + 1])  BY <3>1, <1>2 DEF n
    <3> HIDE DEF h, k
    <3> QED BY <3>1, <3>2, <3>3, <3>4
  <2>4. i \in Int /\ m \in Int  BY <1>3
  <2>5. i < m \/ i = m \/ i > m  BY <2>4
  <2> QED BY <2>1, <2>2, <2>3, <2>5
<1> HIDE DEF h
<1> QED BY <1>4, <1>6, <1>7, <1>8 DEF Chain

LEMMA ChainHead == ASSUME NEW s, NEW p \in Int, NEW r \in Int, Chain(s, p, r), s # <<>>
                   PROVE  \E q \in Int : Fits(s[1], p, q) /\ Chain(Tail(s), q, r)
<1>1. PICK f \in [1 .. Len(s) + 1 -> Int] :
        /\ f[1] = p /\ f[Len(s) + 1] = r
        /\ \A i \in 1 .. Len(s) : Fits(s[i], f[i], f[i + 1])
  BY DEF Chain
<1>2. s \in Seq(Items) /\ Len(s) \in Nat \ {0}  BY DEF Chain
<1> DEFINE t == Tail(s)  g == [i \in 1 .. Len(s) |-> f[i + 1]]
<1>3. t \in Seq(Items) /\ Len(t) = Len(s) - 1 /\ \A i \in 1 .. Len(t) : t[i] = s[i + 1]  BY <1>2
<1>4. g \in [1 .. Len(t) + 1 -> Int] /\ g[1] = f[2] /\ g[Len(t) + 1] = r  BY <1>1, <1>2, <1>3
<1>5. ASSUME NEW i \in 1 .. Len(t) PROVE Fits(t[i], g[i], g[i + 1])
  <2>1. g[i] = f[i + 1] /\ g[i + 1] = f[(i + 1) + 1] /\ t[i] = s[i + 1] /\ i + 1 \in 1 .. Len(s)
    BY <1>2, <1>3
  <2> HIDE DEF g, t
  <2> QED BY <2>1, <1>1
<1> HIDE DEF g, t
<1>6. Chain(t, f[2], r)  BY <1>3, <1>4, <1>5 DEF Chain
<1> QED BY <1>1, <1>2, <1>6 DEF t

LEMMA ChainCons == ASSUME NEW s \in Seq(Items), s # <<>>, NEW p \in Int, NEW q \in Int, NEW r \in Int,
                          Fits(s[1], p, q), Chain(Tail(s), q, r)
                   PROVE  Chain(s, p, r)
<1> DEFINE t == <<s[1]>> \o Tail(s)
<1>1. Chain(t, p, r)  BY ChainOne, ChainCat
<1>2. t \in Seq(Items) /\ Len(t) = Len(s) /\ \A i \in 1 .. Len(t) : t[i] = s[i]  OBVIOUS
<1> HIDE DEF t
<1>3. t = s  BY <1>2, SeqEqual
<1> QED BY <1>1, <1>3

LEMMA ChainTwo == ASSUME NEW a, NEW b,
                         NEW p0 \in Int, NEW p1 \in Int,
                         NEW p2 \in Int,
                         Fits(a, p0, p1), Fits(b, p1, p2)
                  PROVE  Chain(<<a, b>>, p0, p2)
<1>1. <<a, b>> \in Seq(Items) /\ Tail(<<a, b>>) = <<b>>  BY DEF Fits
<1>2. Chain(<<b>>, p1, p2)  BY ChainOne
<1> QED BY <1>1, <1>2, ChainCons

LEMMA ChainThree == ASSUME NEW a, NEW b, NEW c,
                           NEW p0 \in Int, NEW p1 \in Int,
                           NEW p2 \in Int, NEW p3 \in Int,
                           Fits(a, p0, p1), Fits(b, p1, p2), Fits(c, p2, p3)
                    PROVE  Chain(<<a, b, c>>, p0, p3)
<1>1. <<a, b, c>> \in Seq(Items) /\ Tail(<<a, b, c>>) = <<b, c>>  BY DEF Fits
<1>2. Chain(<<b, c>>, p1, p3)  BY ChainTwo
<1> QED BY <1>1, <1>2, ChainCons

LEMMA ChainFour == ASSUME NEW a, NEW b, NEW c, NEW d,
                          NEW p0 \in Int, NEW p1 \in Int, NEW p2 \in Int,
                          NEW p3 \in Int, NEW p4 \in Int,
                          Fits(a, p0, p1), Fits(b, p1, p2), Fits(c, p2, p3), Fits(d, p3, p4)
                   PROVE  Chain(<<a, b, c, d>>, p0, p4)
<1>1. <<a, b, c, d>> \in Seq(Items) /\ Tail(<<a, b, c, d>>) = <<b, c, d>>  BY DEF Fits
<1>2. Chain(<<b, c, d>>, p1, p4)  BY ChainThree
<1> QED BY <1>1, <1>2, ChainCons

LEMMA ChainFive == ASSUME NEW a, NEW b, NEW c, NEW d, NEW e,
                          NEW p0 \in Int, NEW p1 \in Int, NEW p2 \in Int,
                          NEW p3 \in Int, NEW p4 \in Int, NEW p5 \in Int,
                          Fits(a, p0, p1), Fits(b, p1, p2), Fits(c, p2, p3),
                          Fits(d, p3, p4), Fits(e, p4, p5)
                   PROVE  Chain(<<a, b, c, d, e>>, p0, p5)
<1>1. <<a, b, c, d, e>> \in Seq(Items) /\ Tail(<<a, b, c, d, e>>) = <<b, c, d, e>>  BY DEF Fits
<1>2. Chain(<<b, c, d, e>>, p1, p5)  BY ChainFour
<1> QED BY <1>1, <1>2, ChainCons

LEMMA ChainSix == ASSUME NEW a, NEW b, NEW c, NEW d, NEW e, NEW f,
                         NEW p0 \in Int, NEW p1 \in Int, NEW p2 \in Int, NEW p3 \in Int,
                         NEW p4 \in Int, NEW p5 \in Int, NEW p6 \in Int,
                         Fits(a, p0, p1), Fits(b, p1, p2), Fits(c, p2, p3),
                         Fits(d, p3, p4), Fits(e, p4, p5), Fits(f, p5, p6)
                  PROVE  Chain(<<a, b, c, d, e, f>>, p0, p6)
<1>1. <<a, b, c, d, e, f>> \in Seq(Items) /\ Tail(<<a, b, c, d, e, f>>) = <<b, c, d, e, f>>  BY DEF Fits
<1>2. Chain(<<b, c, d, e, f>>, p1, p6)  BY ChainFive
<1> QED BY <1>1, <1>2, ChainCons

LEMMA ChainSeven == ASSUME NEW a, NEW b, NEW c, NEW d, NEW e, NEW f, NEW g,
                           NEW p0 \in Int, NEW p1 \in Int, NEW p2 \in Int, NEW p3 \in Int,
                           NEW p4 \in Int, NEW p5 \in Int, NEW p6 \in Int, NEW p7 \in Int,
                           Fits(a, p0, p1), Fits(b, p1, p2), Fits(c, p2, p3), Fits(d, p3, p4),
                           Fits(e, p4, p5), Fits(f, p5, p6), Fits(g, p6, p7)
                    PROVE  Chain(<<a, b, c, d, e, f, g>>, p0, p7)
<1>1. <<a, b, c, d, e, f, g>> \in Seq(Items) /\ Tail(<<a, b, c, d, e, f, g>>) = <<b, c, d, e, f, g>>  BY DEF Fits
<1>2. Chain(<<b, c, d, e, f, g>>, p1, p7)  BY ChainSix
<1> QED BY <1>1, <1>2, ChainCons

LEMMA ChainEight == ASSUME NEW a, NEW b, NEW c, NEW d, NEW e, NEW f, NEW g, NEW h,
                           NEW p0 \in Int, NEW p1 \in Int, NEW p2 \in Int, NEW p3 \in Int, NEW p4 \in Int,
                           NEW p5 \in Int, NEW p6 \in Int, NEW p7 \in Int, NEW p8 \in Int,
                           Fits(a, p0, p1), Fits(b, p1, p2), Fits(c, p2, p3), Fits(d, p3, p4),
                           Fits(e, p4, p5), Fits(f, p5, p6), Fits(g, p6, p7), Fits(h, p7, p8)
                    PROVE  Chain(<<a, b, c, d, e, f, g, h>>, p0, p8)
<1>1. <<a, b, c, d, e, f, g, h>> \in Seq(Items) /\ Tail(<<a, b, c, d, e, f, g, h>>) = <<b, c, d, e, f, g, h>>  BY DEF Fits
<1>2. Chain(<<b, c, d, e, f, g, h>>, p1, p8)  BY ChainSeven
<1> QED BY <1>1, <1>2, ChainCons

-----------------------------------------------------------------------------
(* What each item does to the height.                                      *)

LEMMA ExprFits == \A t \in Nodes, p \in Nat : Fits(Expr(t), p, p)
BY DEF Fits, Takes, Expr, Items

LEMMA CodeFits == \A ins \in Seq(Instructions), by \in Emitters, p \in Nat : Fits(Code(ins, by), p, p)
BY DEF Fits, Takes, Code, Items

LEMMA PushRFits == \A reg \in Nat, by \in Emitters, p \in Nat : Fits(PushR(reg, by), p, p + 1)
BY DEF Fits, Takes, PushR, Items

LEMMA PopRFits == \A reg \in Nat, by \in Emitters, p \in Nat : Fits(PopR(reg, by), p + 1, p)
BY DEF Fits, Takes, PopR, Items

LEMMA PushXFits == \A reg \in Nat, by \in Emitters, p \in Nat : Fits(PushX(reg, by), p, p + 2)
BY DEF Fits, Takes, PushX, Items

LEMMA PopXFits == \A reg \in Nat, by \in Emitters, p \in Nat : Fits(PopX(reg, by), p + 2, p)
BY DEF Fits, Takes, PopX, Items

LEMMA LabelFits == \A l \in Nat, p \in Nat : Fits(Label(l), p, p)
BY DEF Fits, Takes, Label, Items

LEMMA CodeChain == \A ins \in Seq(Instructions), by \in Emitters, p \in Nat :
                     Chain(<<Code(ins, by)>>, p, p)
BY CodeFits, ChainOne

-----------------------------------------------------------------------------
(* The scripts.                                                            *)

USE DEF zero, rax, rbx, rcx, rdx, rsi, rdi, xmm0, xmm1, gb, rbp, sp, tmp

LEMMA OpTyped == \A op \in Opcodes, a \in Nat, b \in Nat, c \in Int : Op(op, a, b, c) \in Instructions
BY DEF Op, Instructions

LEMMA OpLTyped == \A op \in Opcodes, a \in Nat, l \in Nat : OpL(op, a, l) \in Instructions
BY DEF OpL, Instructions

LEMMA MovTyped == \A a \in Nat, b \in Nat : Mov(a, b) \in Instructions
BY DEF Mov, Op, Instructions, Opcodes

LEMMA MoviTyped == \A a \in Nat, n \in Int : Movi(a, n) \in Instructions
BY DEF Movi, Op, Instructions, Opcodes

LEMMA LdrTyped == \A a \in Nat, b \in Nat, n \in Int : Ldr(a, b, n) \in Instructions
BY DEF Ldr, Op, Instructions, Opcodes

LEMMA StrTyped == \A a \in Nat, b \in Nat, n \in Int : Str(a, b, n) \in Instructions
BY DEF Str, Op, Instructions, Opcodes

LEMMA OffTyped == ASSUME loff \in Seq(Int), NEW n PROVE Off(n) \in Int
BY DEF Off

LEMMA NumberTyped == \A t \in Nodes : t.n \in Nat
BY TreeAssumption

LEMMA OperatorTyped ==
  \A t \in Nodes : t.kind \in {"arith", "ptrarith", "floatarith", "comp", "bitop", "preinc", "postinc"}
                     => t.op \in Opcodes
BY TreeAssumption DEF Opcodes

LEMMA KidsTyped ==
  ASSUME NEW t \in Nodes
  PROVE  /\ t.kids \in Seq(Nodes)
         /\ t.kind \in {"addr", "deref", "conv", "lognot", "preinc", "postinc", "callptr"}
              => t.kids[1] \in Nodes
         /\ t.kind \in {"arith", "ptrarith", "floatarith", "comp", "bitop", "logand", "logor",
                        "cond", "comma", "assign", "copy"}
              => t.kids[1] \in Nodes /\ t.kids[2] \in Nodes
BY TreeAssumption DEF Arity

LEMMA AddrChain == ASSUME loff \in Seq(Int), NEW t \in Nodes, NEW p \in Nat
                   PROVE  Chain(emit_addr(t), p, p)
<1>1. "emit_addr" \in Emitters  BY DEF Emitters
<1>2. CASE t.kind = "lvar"
  <2>1. "addi" \in Opcodes  BY DEF Opcodes
  <2>2. <<Op("addi", rax, rbp, Off(t.n))>> \in Seq(Instructions)  BY <2>1, OpTyped, OffTyped
  <2> QED BY <1>1, <1>2, <2>2, CodeChain DEF emit_addr
<1>3. CASE t.kind = "gvar"
  <2>1. <<Mov(rax, zero), Movi(rax, t.n)>> \in Seq(Instructions)  BY MovTyped, MoviTyped, NumberTyped
  <2> QED BY <1>1, <1>3, <2>1, CodeChain DEF emit_addr
<1>4. CASE t.kind = "deref"
  <2>1. t.kids[1] \in Nodes  BY <1>4, KidsTyped
  <2> QED BY <1>4, <2>1, ExprFits, ChainOne DEF emit_addr
<1>5. CASE t.kind \notin {"lvar", "gvar", "deref"}
  <2>1. "movi" \in Opcodes  BY DEF Opcodes
  <2>2. <<Mov(rax, zero), OpL("movi", rax, t.n)>> \in Seq(Instructions)
    BY <2>1, MovTyped, OpLTyped, NumberTyped
  <2> QED BY <1>1, <1>5, <2>2, CodeChain DEF emit_addr
<1> QED BY <1>2, <1>3, <1>4, <1>5

LEMMA StoreChain == ASSUME loff \in Seq(Int), NEW t \in Nodes, NEW p \in Nat
                    PROVE  Chain(emit_store(t), p, p)
<1>1. /\ "emit_assign_deref" \in Emitters /\ "do_emit_assign_deref" \in Emitters
      /\ "emit_lsave" \in Emitters /\ "emit_gsave" \in Emitters
  BY DEF Emitters
<1>2. CASE t.kind = "deref"
  <2>1. t.kids[1] \in Nodes  BY <1>2, KidsTyped
  <2>2. <<Ldr(rcx, sp, 0), Str(rax, rcx, 0)>> \in Seq(Instructions)  BY LdrTyped, StrTyped
  <2>3. p + 1 \in Nat  OBVIOUS
  <2>4. /\ Fits(PushR(rax, "emit_assign_deref"), p, p + 1)
        /\ Fits(Expr(t.kids[1]), p + 1, p + 1)
        /\ Fits(PopR(rax, "do_emit_assign_deref"), p + 1, p)
    BY <1>1, <2>1, <2>3, ExprFits, PushRFits, PopRFits
  <2>5. Fits(Code(<<Ldr(rcx, sp, 0), Str(rax, rcx, 0)>>, "do_emit_assign_deref"), p + 1, p + 1)
    BY <1>1, <2>2, <2>3, CodeFits
  <2>6. Chain(emit_assign_deref(t), p, p)  BY <2>3, <2>4, <2>5, ChainFour DEF emit_assign_deref
  <2> QED BY <1>2, <2>6 DEF emit_store
<1>3. CASE t.kind = "lvar"
  <2>1. <<Str(rax, rbp, Off(t.n))>> \in Seq(Instructions)  BY StrTyped, OffTyped
  <2> QED BY <1>1, <1>3, <2>1, CodeChain DEF emit_store
<1>4. CASE t.kind \notin {"deref", "lvar"}
  <2>1. <<Str(rax, zero, t.n)>> \in Seq(Instructions)  BY StrTyped, NumberTyped
  <2> QED BY <1>1, <1>4, <2>1, CodeChain DEF emit_store
<1> QED BY <1>2, <1>3, <1>4

LEMMA RetChain == \A p \in Nat : Chain(emit_ret, p, p)
<1> TAKE p \in Nat
<1>1. "emit_ret" \in Emitters  BY DEF Emitters
<1>2. "halt" \in Opcodes /\ "addi" \in Opcodes /\ "jmpr" \in Opcodes  BY DEF Opcodes
<1>3. <<Op("halt", 0, 0, 0)>> \in Seq(Instructions)  BY <1>2, OpTyped
<1>4. <<Mov(sp, rbp), Ldr(rbp, sp, 0), Ldr(gb, sp, 1), Op("addi", sp, sp, 2),
        Op("jmpr", gb, 0, 0)>> \in Seq(Instructions)
  BY <1>2, OpTyped, MovTyped, LdrTyped
<1> QED BY <1>1, <1>3, <1>4, CodeChain DEF emit_ret

LEMMA IntArithChain == ASSUME NEW t \in Nodes, t.kind = "arith", NEW p \in Nat
                       PROVE  Chain(emit_binop_int_arith(t), p, p)
<1>1. t.kids[1] \in Nodes /\ t.kids[2] \in Nodes /\ p + 1 \in Nat /\ "emit_binop" \in Emitters
  BY KidsTyped DEF Emitters
<1>2. <<Mov(rcx, rax)>> \in Seq(Instructions)  BY MovTyped
<1>3. <<Op(t.op, rax, rax, rcx)>> \in Seq(Instructions)  BY OpTyped, OperatorTyped
<1>4. /\ Fits(Expr(t.kids[1]), p, p) /\ Fits(PushR(rax, "emit_binop"), p, p + 1)
      /\ Fits(Expr(t.kids[2]), p + 1, p + 1) /\ Fits(PopR(rax, "emit_binop"), p + 1, p)
  BY <1>1, ExprFits, PushRFits, PopRFits
<1>5. /\ Fits(Code(<<Mov(rcx, rax)>>, "emit_binop"), p + 1, p + 1)
      /\ Fits(Code(<<Op(t.op, rax, rax, rcx)>>, "emit_binop"), p, p)
  BY <1>1, <1>2, <1>3, CodeFits
<1> QED BY <1>1, <1>4, <1>5, ChainSix DEF emit_binop_int_arith

LEMMA FloatArithChain == ASSUME NEW t \in Nodes, t.kind = "floatarith", NEW p \in Nat
                         PROVE  Chain(emit_binop_float_arith(t), p, p)
<1>1. t.kids[1] \in Nodes /\ t.kids[2] \in Nodes /\ p + 2 \in Nat /\ "emit_binop" \in Emitters
  BY KidsTyped DEF Emitters
<1>2. <<Mov(xmm1, xmm0)>> \in Seq(Instructions)  BY MovTyped
<1>3. <<Op(t.op, xmm0, xmm0, xmm1)>> \in Seq(Instructions)  BY OpTyped, OperatorTyped
<1>4. /\ Fits(Expr(t.kids[1]), p, p) /\ Fits(PushX(xmm0, "emit_binop"), p, p + 2)
      /\ Fits(Expr(t.kids[2]), p + 2, p + 2) /\ Fits(PopX(xmm0, "emit_binop"), p + 2, p)
  BY <1>1, ExprFits, PushXFits, PopXFits
<1>5. /\ Fits(Code(<<Mov(xmm1, xmm0)>>, "emit_binop"), p + 2, p + 2)
      /\ Fits(Code(<<Op(t.op, xmm0, xmm0, xmm1)>>, "emit_binop"), p, p)
  BY <1>1, <1>2, <1>3, CodeFits
<1> QED BY <1>1, <1>4, <1>5, ChainSix DEF emit_binop_float_arith

LEMMA PointerArithChain == ASSUME NEW t \in Nodes, t.kind = "ptrarith", NEW p \in Nat
                           PROVE  Chain(emit_pointer_arith(t), p, p)
<1>1. t.kids[1] \in Nodes /\ t.kids[2] \in Nodes /\ "emit_pointer_arith" \in Emitters
  BY KidsTyped DEF Emitters
<1>2. p + 1 \in Nat /\ (p + 1) + 1 \in Nat  OBVIOUS
<1>3. <<Op("multi", rax, rax, Size("int")), Mov(rcx, rax)>> \in Seq(Instructions)
  <2>1. "multi" \in Opcodes /\ Size("int") \in Int  BY DEF Opcodes, Size
  <2> QED BY <2>1, OpTyped, MovTyped
<1>4. <<Op(t.op, rcx, rax, rax)>> \in Seq(Instructions)  BY OpTyped, OperatorTyped
<1>5. /\ Fits(Expr(t.kids[1]), p, p) /\ Fits(Expr(t.kids[2]), (p + 1) + 1, (p + 1) + 1)
      /\ Fits(PushR(rcx, "emit_pointer_arith"), p, p + 1)
      /\ Fits(PushR(rax, "emit_pointer_arith"), p + 1, (p + 1) + 1)
      /\ Fits(PopR(rax, "emit_pointer_arith"), (p + 1) + 1, p + 1)
      /\ Fits(PopR(rcx, "emit_pointer_arith"), p + 1, p)
  BY <1>1, <1>2, ExprFits, PushRFits, PopRFits
<1>6. /\ Fits(Code(<<Op("multi", rax, rax, Size("int")), Mov(rcx, rax)>>, "emit_pointer_arith"),
              (p + 1) + 1, (p + 1) + 1)
      /\ Fits(Code(<<Op(t.op, rcx, rax, rax)>>, "emit_pointer_arith"), p + 1, p + 1)
  BY <1>1, <1>2, <1>3, <1>4, CodeFits
<1> QED BY <1>2, <1>5, <1>6, ChainEight DEF emit_pointer_arith

LEMMA CompChain == ASSUME NEW t \in Nodes, t.kind = "comp", NEW p \in Nat
                   PROVE  Chain(emit_comp(t), p, p)
<1>1. t.kids[1] \in Nodes /\ t.kids[2] \in Nodes /\ "emit_comp" \in Emitters
  BY KidsTyped DEF Emitters
<1>2. p + 1 \in Nat /\ p + 2 \in Nat  OBVIOUS
<1>3. "cmp" \in Opcodes /\ t.op \in Opcodes  BY OperatorTyped DEF Opcodes
<1>4. /\ <<Op("cmp", xmm0, xmm1, 0), Op(t.op, rax, 0, 0), Mov(rax, rax)>> \in Seq(Instructions)
      /\ <<Op("cmp", rax, rcx, 0), Op(t.op, rax, 0, 0), Mov(rax, rax)>> \in Seq(Instructions)
  BY <1>3, OpTyped, MovTyped
<1>5. /\ Fits(Expr(t.kids[1]), p, p)
      /\ Fits(Expr(t.kids[2]), p + 1, p + 1) /\ Fits(Expr(t.kids[2]), p + 2, p + 2)
  BY <1>1, <1>2, ExprFits
<1>6. /\ Fits(PushR(rax, "emit_comp"), p, p + 1) /\ Fits(PopR(rcx, "emit_comp"), p + 1, p)
      /\ Fits(PushX(xmm0, "emit_comp"), p, p + 2) /\ Fits(PopX(xmm1, "emit_comp"), p + 2, p)
  BY <1>1, PushRFits, PopRFits, PushXFits, PopXFits
<1>7. /\ Fits(Code(<<Op("cmp", xmm0, xmm1, 0), Op(t.op, rax, 0, 0), Mov(rax, rax)>>, "emit_comp"), p, p)
      /\ Fits(Code(<<Op("cmp", rax, rcx, 0), Op(t.op, rax, 0, 0), Mov(rax, rax)>>, "emit_comp"), p, p)
  BY <1>1, <1>4, CodeFits
<1> QED BY <1>2, <1>5, <1>6, <1>7, ChainFive DEF emit_comp

LEMMA BitopChain == ASSUME NEW t \in Nodes, t.kind = "bitop", NEW p \in Nat
                    PROVE  Chain(emit_bitop(t), p, p)
<1>1. t.kids[1] \in Nodes /\ t.kids[2] \in Nodes /\ p + 1 \in Nat /\ "emit_bitop" \in Emitters
  BY KidsTyped DEF Emitters
<1>2. <<Op(t.op, rax, rcx, rax)>> \in Seq(Instructions)  BY OpTyped, OperatorTyped
<1>3. /\ Fits(Expr(t.kids[1]), p, p) /\ Fits(PushR(rax, "emit_bitop"), p, p + 1)
      /\ Fits(Expr(t.kids[2]), p + 1, p + 1) /\ Fits(PopR(rcx, "emit_bitop"), p + 1, p)
  BY <1>1, ExprFits, PushRFits, PopRFits
<1>4. Fits(Code(<<Op(t.op, rax, rcx, rax)>>, "emit_bitop"), p, p)  BY <1>1, <1>2, CodeFits
<1> QED BY <1>1, <1>3, <1>4, ChainFive DEF emit_bitop

LEMMA TernaryChain == ASSUME NEW t \in Nodes, t.kind = "cond", NEW k \in Nat, NEW p \in Nat
                      PROVE  Chain(emit_ternary(t, k), p, p)
<1>1. t.kids[1] \in Nodes /\ t.kids[2] \in Nodes /\ "emit_ternary" \in Emitters
  BY KidsTyped DEF Emitters
<1>2. "jz" \in Opcodes /\ "jmp" \in Opcodes /\ k + 1 \in Nat  BY DEF Opcodes
<1>3. <<OpL("jz", rax, k)>> \in Seq(Instructions) /\ <<OpL("jmp", 0, k + 1)>> \in Seq(Instructions)
  BY <1>2, OpLTyped
<1>4. /\ Fits(Expr(t.kids[1]), p, p) /\ Fits(Expr(t.kids[2]), p, p)
      /\ Fits(Code(<<OpL("jz", rax, k)>>, "emit_ternary"), p, p)
      /\ Fits(Code(<<OpL("jmp", 0, k + 1)>>, "emit_ternary"), p, p)
      /\ Fits(Label(k), p, p) /\ Fits(Label(k + 1), p, p)
  BY <1>1, <1>2, <1>3, ExprFits, CodeFits, LabelFits
<1>5. Chain(<<Expr(t.kids[1]), Code(<<OpL("jz", rax, k)>>, "emit_ternary"), Expr(t.kids[2])>>, p, p)
  BY <1>4, ChainThree
<1>6. CASE Len(t.kids) = 3
  <2>1. Fits(Expr(t.kids[3]), p, p)  BY <1>6, KidsTyped, ExprFits
  <2>2. Chain(<<Code(<<OpL("jmp", 0, k + 1)>>, "emit_ternary"),
                Label(k), Expr(t.kids[3]), Label(k + 1)>>, p, p)
    BY <1>4, <2>1, ChainFour
  <2> QED BY <1>5, <1>6, <2>2, ChainCat DEF emit_ternary
<1>7. CASE Len(t.kids) # 3
  <2>1. Chain(<<Label(k)>>, p, p)  BY <1>4, ChainOne
  <2> QED BY <1>5, <1>7, <2>1, ChainCat DEF emit_ternary
<1> QED BY <1>6, <1>7

LEMMA LogandChain == ASSUME NEW t \in Nodes, t.kind = "logand", NEW k \in Nat, NEW p \in Nat
                     PROVE  Chain(emit_logand(t, k), p, p)
<1>1. t.kids[1] \in Nodes /\ t.kids[2] \in Nodes /\ "emit_logand" \in Emitters
  BY KidsTyped DEF Emitters
<1>2. "jz" \in Opcodes /\ "cmp" \in Opcodes  BY DEF Opcodes
<1>3. /\ <<Op("cmp", rax, rax, 0), Mov(rax, zero), OpL("jz", rax, k)>> \in Seq(Instructions)
      /\ <<Movi(rax, 1)>> \in Seq(Instructions)
  BY <1>2, OpTyped, OpLTyped, MovTyped, MoviTyped
<1>4. /\ Fits(Expr(t.kids[1]), p, p) /\ Fits(Expr(t.kids[2]), p, p) /\ Fits(Label(k), p, p)
      /\ Fits(Code(<<Movi(rax, 1)>>, "emit_logand"), p, p)
  BY <1>1, <1>3, ExprFits, CodeFits, LabelFits
<1>5. Fits(TestAnd(k), p, p)  BY <1>1, <1>3, CodeFits DEF TestAnd
<1> QED BY <1>4, <1>5, ChainSix DEF emit_logand

LEMMA LogorChain == ASSUME NEW t \in Nodes, t.kind = "logor", NEW k \in Nat, NEW p \in Nat
                    PROVE  Chain(emit_logor(t, k), p, p)
<1>1. t.kids[1] \in Nodes /\ t.kids[2] \in Nodes /\ "emit_logor" \in Emitters
  BY KidsTyped DEF Emitters
<1>2. "jz" \in Opcodes /\ "jmp" \in Opcodes /\ k + 1 \in Nat  BY DEF Opcodes
<1>3. /\ <<OpL("jz", rax, k), Movi(rax, 1), OpL("jmp", 0, k + 1)>> \in Seq(Instructions)
      /\ <<OpL("jz", rax, k + 1), Movi(rax, 1)>> \in Seq(Instructions)
  BY <1>2, OpLTyped, MoviTyped
<1>4. /\ Fits(Expr(t.kids[1]), p, p) /\ Fits(Expr(t.kids[2]), p, p)
      /\ Fits(Label(k), p, p) /\ Fits(Label(k + 1), p, p)
  BY <1>1, <1>2, ExprFits, LabelFits
<1>5. /\ Fits(Code(<<OpL("jz", rax, k), Movi(rax, 1), OpL("jmp", 0, k + 1)>>, "emit_logor"), p, p)
      /\ Fits(Code(<<OpL("jz", rax, k + 1), Movi(rax, 1)>>, "emit_logor"), p, p)
  BY <1>1, <1>3, CodeFits
<1> QED BY <1>4, <1>5, ChainSix DEF emit_logor

LEMMA CopyChain == ASSUME loff \in Seq(Int), NEW t \in Nodes, t.kind = "copy", NEW p \in Nat
                   PROVE  Chain(emit_copy_struct(t), p, p)
<1>1. t.kids[1] \in Nodes /\ t.kids[2] \in Nodes /\ p + 1 \in Nat /\ "emit_copy_struct" \in Emitters
  BY KidsTyped DEF Emitters
<1>2. <<Mov(rcx, rax)>> \in Seq(Instructions)  BY MovTyped
<1>3. <<Op("copy", rcx, rax, Words("struct"))>> \in Seq(Instructions)
  <2>1. "copy" \in Opcodes /\ Words("struct") \in Int  BY DEF Opcodes, Words, Size
  <2> QED BY <2>1, OpTyped
<1>4. Chain(<<PushR(rcx, "emit_copy_struct")>>, p, p + 1)
  <2>1. Fits(PushR(rcx, "emit_copy_struct"), p, p + 1)  BY <1>1, PushRFits
  <2> QED BY <2>1, <1>1, ChainOne
<1>5. Chain(emit_addr(t.kids[2]), p + 1, p + 1) /\ Chain(emit_addr(t.kids[1]), p + 1, p + 1)
  BY <1>1, AddrChain
<1>6. Chain(<<Code(<<Mov(rcx, rax)>>, "emit_copy_struct")>>, p + 1, p + 1)
  BY <1>1, <1>2, CodeChain
<1>7. Chain(<<Code(<<Op("copy", rcx, rax, Words("struct"))>>, "emit_copy_struct"),
              PopR(rcx, "emit_copy_struct")>>, p + 1, p)
  <2>1. Fits(Code(<<Op("copy", rcx, rax, Words("struct"))>>, "emit_copy_struct"), p + 1, p + 1)
    BY <1>1, <1>3, CodeFits
  <2>2. Fits(PopR(rcx, "emit_copy_struct"), p + 1, p)  BY <1>1, PopRFits
  <2> QED BY <2>1, <2>2, <1>1, ChainTwo
<1> QED BY <1>1, <1>4, <1>5, <1>6, <1>7, ChainCat DEF emit_copy_struct

LEMMA IncDecFits == ASSUME NEW t \in Nodes, t.kind \in {"preinc", "postinc"}, NEW p \in Nat
                    PROVE  Fits(IncDec(t), p, p)
<1>1. <<Op(t.op, rax, 1, rax)>> \in Seq(Instructions)  BY OpTyped, OperatorTyped
<1>2. "emit_inc_dec" \in Emitters  BY DEF Emitters
<1> QED BY <1>1, <1>2, CodeFits DEF IncDec

LEMMA ReturnChain == ASSUME NEW t \in Nodes, t.kind = "return", NEW p \in Nat
                     PROVE  Chain(emit_return(t), p, p)
<1>1. Chain(emit_ret, p, p)  BY RetChain
<1>2. CASE t.kids # <<>>
  <2>1. t.kids[1] \in Nodes  BY <1>2, KidsTyped
  <2>2. Chain(<<Expr(t.kids[1])>>, p, p)  BY <2>1, ExprFits, ChainOne
  <2> QED BY <1>1, <1>2, <2>2, ChainCat DEF emit_return
<1>3. CASE t.kids = <<>> /\ program[current].main
  <2>1. <<Movi(rax, 0)>> \in Seq(Instructions) /\ "emit_return" \in Emitters
    BY MoviTyped DEF Emitters
  <2>2. Chain(<<Code(<<Movi(rax, 0)>>, "emit_return")>>, p, p)  BY <2>1, CodeChain
  <2> QED BY <1>1, <1>3, <2>2, ChainCat DEF emit_return
<1>4. CASE t.kids = <<>> /\ ~ program[current].main
  <2>1. Chain(<<>>, p, p)  BY ChainEmpty
  <2> QED BY <1>1, <1>4, <2>1, ChainCat DEF emit_return
<1> QED BY <1>2, <1>3, <1>4

(* A sequence of items that leave the height alone.                        *)
LEMMA ChainFlat == ASSUME NEW s \in Seq(Items), NEW p \in Nat,
                          \A i \in 1 .. Len(s) : Fits(s[i], p, p)
                   PROVE  Chain(s, p, p)
<1> DEFINE pos == [i \in 1 .. Len(s) + 1 |-> p]
<1>1. /\ pos \in [1 .. Len(s) + 1 -> Int] /\ pos[1] = p /\ pos[Len(s) + 1] = p
      /\ \A i \in 1 .. Len(s) : pos[i] = p /\ pos[i + 1] = p
  OBVIOUS
<1> HIDE DEF pos
<1>2. \A i \in 1 .. Len(s) : Fits(s[i], pos[i], pos[i + 1])  BY <1>1
<1> QED BY <1>1, <1>2 DEF Chain

LEMMA LoadConvertChain == ASSUME NEW to, NEW from, NEW p \in Nat
                          PROVE  Chain(emit_load_convert(to, from), p, p)
<1>1. "emit_load_convert" \in Emitters  BY DEF Emitters
<1>2. <<Mov(xmm0, rax)>> \in Seq(Instructions)  BY MovTyped
<1>3. <<Mov(rax, rax)>> \in Seq(Instructions)  BY MovTyped
<1>4. Chain(<<Code(<<Mov(xmm0, rax)>>, "emit_load_convert")>>, p, p)  BY <1>1, <1>2, CodeChain
<1>5. Chain(<<Code(<<Mov(rax, rax)>>, "emit_load_convert")>>, p, p)  BY <1>1, <1>3, CodeChain
<1> QED BY <1>4, <1>5, ChainEmpty DEF emit_load_convert

(* Every script leaves the height as it was.                               *)
LEMMA ScriptChain == ASSUME loff \in Seq(Int), NEW t \in Nodes, NEW k \in Nat, NEW p \in Nat
                     PROVE  Chain(Script(t, k), p, p)
<1>0. t.kind \in Kinds  BY TreeAssumption
<1>1. CASE t.kind = "lit"
  <2>1. <<Movi(rax, t.n)>> \in Seq(Instructions)  BY MoviTyped, NumberTyped
  <2>2. "emit_literal" \in Emitters  BY DEF Emitters
  <2>3. Script(t, k) = <<Code(<<Movi(rax, t.n)>>, "emit_literal")>>
    BY <1>1 DEF Script, emit_literal
  <2> QED BY <2>1, <2>2, <2>3, CodeChain
<1>2. CASE t.kind = "flit"
  <2>1. <<Movi(xmm0, t.n)>> \in Seq(Instructions)  BY MoviTyped, NumberTyped
  <2>2. "emit_literal" \in Emitters  BY DEF Emitters
  <2>3. Script(t, k) = <<Code(<<Movi(xmm0, t.n)>>, "emit_literal")>>
    BY <1>2 DEF Script, emit_literal
  <2> QED BY <2>1, <2>2, <2>3, CodeChain
<1>3. CASE t.kind = "lvar"
  <2>1. <<Ldr(rax, rbp, Off(t.n))>> \in Seq(Instructions)  BY LdrTyped, OffTyped
  <2>2. "emit_lload" \in Emitters  BY DEF Emitters
  <2>3. Script(t, k) = <<Code(<<Ldr(rax, rbp, Off(t.n))>>, "emit_lload")>>
    BY <1>3 DEF Script, emit_lload
  <2> QED BY <2>1, <2>2, <2>3, CodeChain
<1>4. CASE t.kind = "gvar"
  <2>1. <<Ldr(rax, zero, t.n)>> \in Seq(Instructions)  BY LdrTyped, NumberTyped
  <2>2. "emit_gload" \in Emitters  BY DEF Emitters
  <2>3. Script(t, k) = <<Code(<<Ldr(rax, zero, t.n)>>, "emit_gload")>>
    BY <1>4 DEF Script, emit_gload
  <2> QED BY <2>1, <2>2, <2>3, CodeChain
<1>5. CASE t.kind \in {"funcdesg", "addr"}
  <2>1. t.kind = "addr" => t.kids[1] \in Nodes  BY KidsTyped
  <2>2. Script(t, k) = IF t.kind = "addr" THEN emit_addr(t.kids[1]) ELSE emit_addr(t)
    BY <1>5 DEF Script
  <2> QED BY <1>5, <2>1, <2>2, AddrChain
<1>6. CASE t.kind = "deref"
  <2>1. t.kids[1] \in Nodes /\ "emit_lload" \in Emitters  BY <1>6, KidsTyped DEF Emitters
  <2>2. <<Ldr(rax, rax, 0)>> \in Seq(Instructions)  BY LdrTyped
  <2>3. Fits(Expr(t.kids[1]), p, p) /\ Fits(Code(<<Ldr(rax, rax, 0)>>, "emit_lload"), p, p)
    BY <2>1, <2>2, ExprFits, CodeFits
  <2> DEFINE s == <<Expr(t.kids[1])>>  u == <<Code(<<Ldr(rax, rax, 0)>>, "emit_lload")>>
  <2>4. Script(t, k) = s \o u  BY <1>6 DEF Script, emit_deref, emit_lload
  <2>5. Chain(s, p, p) /\ Chain(u, p, p)  BY <2>3, ChainOne
  <2> HIDE DEF s, u
  <2> QED BY <2>4, <2>5, ChainCat
<1>7. CASE t.kind = "conv"
  <2>1. t.kids[1] \in Nodes  BY <1>7, KidsTyped
  <2>2. Chain(<<Expr(t.kids[1])>>, p, p)  BY <2>1, ExprFits, ChainOne
  <2>3. Chain(emit_load_convert(t.ty, t.kids[1].ty), p, p)  BY LoadConvertChain
  <2> QED BY <1>7, <2>2, <2>3, ChainCat DEF Script
<1>8. CASE t.kind \in {"arith", "ptrarith", "floatarith", "comp", "bitop"}
  BY <1>8, IntArithChain, PointerArithChain, FloatArithChain, CompChain, BitopChain DEF Script
<1>9. CASE t.kind = "lognot"
  <2> DEFINE ins == <<Op("cmp", rax, zero, 0), Op("seteq", rax, 0, 0)>>
  <2>1. t.kids[1] \in Nodes /\ "emit_lognot" \in Emitters  BY <1>9, KidsTyped DEF Emitters
  <2>2. "cmp" \in Opcodes /\ "seteq" \in Opcodes  BY DEF Opcodes, Operators
  <2>3. ins \in Seq(Instructions)  BY <2>2, OpTyped
  <2>4. Script(t, k) = <<Expr(t.kids[1]), Code(ins, "emit_lognot")>>
    BY <1>9 DEF Script, emit_lognot
  <2> HIDE DEF ins
  <2>5. Fits(Expr(t.kids[1]), p, p) /\ Fits(Code(ins, "emit_lognot"), p, p)
    BY <2>1, <2>3, ExprFits, CodeFits
  <2> QED BY <2>4, <2>5, ChainTwo
<1>10. CASE t.kind \in {"logand", "logor", "cond"}
  BY <1>10, LogandChain, LogorChain, TernaryChain DEF Script
<1>11. CASE t.kind \in {"comma", "block"}
  <2> DEFINE s == [i \in 1 .. Len(t.kids) |-> Expr(t.kids[i])]
  <2>1. t.kids \in Seq(Nodes)  BY KidsTyped
  <2>2. \A i \in 1 .. Len(t.kids) : Fits(Expr(t.kids[i]), p, p)  BY <2>1, ExprFits
  <2>3. \A i \in 1 .. Len(t.kids) : Expr(t.kids[i]) \in Items  BY <2>2 DEF Fits
  <2>4. s \in Seq(Items) /\ Len(s) = Len(t.kids) /\ \A i \in 1 .. Len(s) : s[i] = Expr(t.kids[i])
    BY <2>1, <2>3
  <2>5. Script(t, k) = s  BY <1>11 DEF Script
  <2> HIDE DEF s
  <2> QED BY <2>2, <2>4, <2>5, ChainFlat
<1>12. CASE t.kind = "assign"
  <2>1. t.kids[1] \in Nodes /\ t.kids[2] \in Nodes  BY <1>12, KidsTyped
  <2>2. Chain(<<Expr(t.kids[2])>>, p, p)  BY <2>1, ExprFits, ChainOne
  <2>3. Chain(emit_store(t.kids[1]), p, p)  BY <2>1, StoreChain
  <2> DEFINE s == <<Expr(t.kids[2])>>
             u == emit_load_convert(t.ty, t.kids[2].ty)
             v == emit_store(t.kids[1])
  <2>4. Script(t, k) = s \o u \o v  BY <1>12 DEF Script, emit_assign
  <2>5. Chain(u, p, p)  BY LoadConvertChain
  <2> HIDE DEF u, v
  <2>6. Chain(s \o u, p, p)  BY <2>2, <2>5, ChainCat
  <2> QED BY <2>3, <2>4, <2>6, ChainCat DEF v
<1>13. CASE t.kind = "copy"
  BY <1>13, CopyChain DEF Script
<1>14. CASE t.kind = "preinc"
  <2>1. t.kids[1] \in Nodes  BY <1>14, KidsTyped
  <2>2. Fits(Expr(t.kids[1]), p, p) /\ Fits(IncDec(t), p, p)  BY <1>14, <2>1, ExprFits, IncDecFits
  <2>3. Chain(<<Expr(t.kids[1]), IncDec(t)>>, p, p)  BY <2>2, ChainTwo
  <2>4. Chain(emit_store(t.kids[1]), p, p)  BY <2>1, StoreChain
  <2> QED BY <1>14, <2>3, <2>4, ChainCat DEF Script, emit_pre_inc_dec
<1>15. CASE t.kind = "postinc"
  <2>1. t.kids[1] \in Nodes /\ p + 1 \in Nat /\ "emit_post_inc_dec" \in Emitters
    BY <1>15, KidsTyped DEF Emitters
  <2>2. Fits(Expr(t.kids[1]), p, p) /\ Fits(IncDec(t), p + 1, p + 1)
    BY <1>15, <2>1, ExprFits, IncDecFits
  <2>3. /\ Fits(PushR(rax, "emit_post_inc_dec"), p, p + 1)
        /\ Fits(PopR(rax, "emit_post_inc_dec"), p + 1, p)
    BY <2>1, PushRFits, PopRFits
  <2>4. Chain(<<Expr(t.kids[1]), PushR(rax, "emit_post_inc_dec"), IncDec(t)>>, p, p + 1)
    BY <2>1, <2>2, <2>3, ChainThree
  <2>5. Chain(emit_store(t.kids[1]), p + 1, p + 1)  BY <2>1, StoreChain
  <2>6. Chain(<<PopR(rax, "emit_post_inc_dec")>>, p + 1, p)  BY <2>1, <2>3, ChainOne
  <2> DEFINE s == <<Expr(t.kids[1]), PushR(rax, "emit_post_inc_dec"), IncDec(t)>>
             u == emit_store(t.kids[1])
             v == <<PopR(rax, "emit_post_inc_dec")>>
  <2>7. Script(t, k) = s \o u \o v  BY <1>15 DEF Script, emit_post_inc_dec
  <2> HIDE DEF s, u, v
  <2>8. Chain(s \o u, p, p + 1)  BY <2>1, <2>4, <2>5, ChainCat DEF s, u
  <2> QED BY <2>1, <2>6, <2>7, <2>8, ChainCat DEF v
<1>16. CASE t.kind = "return"
  BY <1>16, ReturnChain DEF Script
<1>17. CASE t.kind \in {"call", "callptr"}
  BY <1>17, ChainEmpty DEF Script
<1> QED BY <1>0, <1>1, <1>2, <1>3, <1>4, <1>5, <1>6, <1>7, <1>8, <1>9, <1>10, <1>11, <1>12,
           <1>13, <1>14, <1>15, <1>16, <1>17 DEF Kinds

-----------------------------------------------------------------------------
(* Calls.                                                                  *)

LEMMA ArgChain == ASSUME loff \in Seq(Int), NEW v \in Nodes, NEW p \in Nat
                  PROVE  ArgSize(v.ty) \in Nat /\ Chain(emit_arg(v), p, p + ArgSize(v.ty))
<1>1. v.ty \in Types  BY TreeAssumption
<1>2. "emit_args" \in Emitters  BY DEF Emitters
<1>3. CASE v.ty = "struct"
  <2>1. Words("struct") = 2  BY DEF Words, Size
  <2>2. Fits(PushStruct("struct"), p, p + 3)  BY <2>1 DEF Fits, Takes, PushStruct, Items
  <2>3. Chain(<<PushStruct("struct")>>, p, p + 3)  BY <2>2, ChainOne
  <2>4. Chain(emit_addr(v) \o <<PushStruct("struct")>>, p, p + 3)  BY <2>3, AddrChain, ChainCat
  <2>5. emit_addr(v) \in Seq(Items)  BY AddrChain DEF Chain
  <2>6. Append(emit_addr(v), PushStruct("struct")) = emit_addr(v) \o <<PushStruct("struct")>>
    BY <2>5, <2>2 DEF Fits
  <2>7. emit_arg(v) = Append(emit_addr(v), PushStruct("struct"))  BY <1>3 DEF emit_arg
  <2>8. ArgSize(v.ty) = 3  BY <1>3, <2>1 DEF ArgSize
  <2>9. Chain(emit_arg(v), p, p + 3)  BY <2>4, <2>6, <2>7
  <2> QED BY <2>8, <2>9
<1>4. CASE v.ty = "float"
  <2>1. Fits(Expr(v), p, p) /\ Fits(PushX(xmm0, "emit_args"), p, p + 2)
    BY <1>2, ExprFits, PushXFits
  <2>2. Chain(<<Expr(v), PushX(xmm0, "emit_args")>>, p, p + 2)  BY <2>1, ChainTwo
  <2> QED BY <1>4, <2>2 DEF emit_arg, ArgSize
<1>5. CASE v.ty = "int"
  <2>1. Fits(Expr(v), p, p) /\ Fits(PushR(rax, "emit_args"), p, p + 1)
    BY <1>2, ExprFits, PushRFits
  <2>2. Chain(<<Expr(v), PushR(rax, "emit_args")>>, p, p + 1)  BY <2>1, ChainTwo
  <2> QED BY <1>5, <2>2 DEF emit_arg, ArgSize
<1> QED BY <1>1, <1>3, <1>4, <1>5 DEF Types

(* The sizes of a call's two register vectors.                             *)
LEMMA CallParts == ASSUME NEW c \in CallRecs
                   PROVE  /\ c.node \in Nodes /\ c.node \in CallNodes
                          /\ c.ints \in Seq(IntNodes) /\ c.floats \in Seq(FloatNodes)
                          /\ c.rest \in Seq(Nodes) /\ c.opos \in Nat
                          /\ Len(c.ints) \in 0 .. 6 /\ Len(c.floats) \in 0 .. 2
                          /\ Saved(c) \in Nat
<1>1. /\ c.node \in CallNodes /\ c.ints \in Seq(IntNodes) /\ c.floats \in Seq(FloatNodes)
      /\ c.rest \in Seq(Nodes) /\ c.opos \in Nat /\ Len(c.ints) <= 6 /\ Len(c.floats) <= 2
  BY DEF CallRecs
<1>2. Len(c.ints) \in Nat /\ Len(c.floats) \in Nat  BY <1>1
<1>3. Above(Len(c.floats), 1) \in Nat  BY <1>2 DEF Above
<1>4. Saved(c) \in Nat  BY <1>2, <1>3 DEF Saved
<1>5. c.node \in Nodes  BY <1>1 DEF CallNodes
<1>6. Len(c.ints) \in 0 .. 6 /\ Len(c.floats) \in 0 .. 2
  <2> DEFINE n == Len(c.ints)  m == Len(c.floats)
  <2>1. n \in Nat /\ n <= 6 /\ m \in Nat /\ m <= 2  BY <1>1, <1>2
  <2> HIDE DEF n, m
  <2>2. n \in 0 .. 6 /\ m \in 0 .. 2  BY <2>1
  <2> QED BY <2>2 DEF n, m
<1> QED BY <1>1, <1>4, <1>5, <1>6

LEMMA AfterRestChain ==
  ASSUME NEW c \in CallRecs, NEW r \in Nat, NEW ret \in Nat
  PROVE  Chain(AfterRest(c, r, ret), c.opos + Saved(c) + r, c.opos)
<1> DEFINE n == Len(c.ints)  m == Len(c.floats)  kids == c.node.kids
           p == c.opos + Saved(c) + r
           isptr == c.node.kind = "callptr"
           e == IF isptr THEN 1 ELSE 0
           A == IF isptr THEN <<Expr(kids[Len(kids)]), PushR(rax, "emit_func_call")>> ELSE <<>>
           B == <<EmitArgs(c.ints), EmitArgs(c.floats),
                  PopFloats(m, 0, "pop_float_args"), PopInts(n, "pop_int_args")>>
           C == IF isptr THEN <<PopR(tmp, "emit_func_call")>> ELSE <<>>
           D == << PushR(gb, "emit_func_call"), CallJump(c.node, ret), Label(ret),
                   PopR(gb, "emit_func_call"), Drop(r),
                   PopFloats(m, 1, "restore_arg_regs"), PopInts(n, "restore_arg_regs"),
                   Assert(c.opos) >>
<1>1. /\ "emit_func_call" \in Emitters /\ "pop_float_args" \in Emitters
      /\ "pop_int_args" \in Emitters /\ "restore_arg_regs" \in Emitters
  BY DEF Emitters
<1>2. n \in 0 .. 6 /\ m \in 0 .. 2 /\ c.opos \in Nat /\ p \in Nat /\ p + 1 \in Nat /\ e \in Nat
  BY CallParts
<1>3. AfterRest(c, r, ret) = A \o B \o C \o D  BY DEF AfterRest
<1> DEFINE q == p + e
<1>4. Chain(A, p, q)
  <2>1. CASE isptr
    <3>1. kids[Len(kids)] \in Nodes  BY <2>1, CallParts, TreeAssumption DEF Arity
    <3>2. Fits(Expr(kids[Len(kids)]), p, p) /\ Fits(PushR(rax, "emit_func_call"), p, p + 1)
      BY <3>1, <1>1, <1>2, ExprFits, PushRFits
    <3>3. Chain(<<Expr(kids[Len(kids)]), PushR(rax, "emit_func_call")>>, p, p + 1)
      BY <3>2, <1>2, ChainTwo
    <3> QED BY <2>1, <3>3
  <2>2. CASE ~ isptr
    <3>1. Chain(<<>>, p, p) /\ p + 0 = p  BY <1>2, ChainEmpty
    <3> QED BY <2>2, <3>1
  <2> QED BY <2>1, <2>2
<1>5. Chain(B, q, q)
  <2>1. q \in Nat /\ q + n \in Nat /\ q + n + 2 * m \in Nat
    <3> HIDE DEF p, e, n, m
    <3> QED BY <1>2
  <2>2. Fits(EmitArgs(c.ints), q, q + n) /\ Fits(EmitArgs(c.floats), q + n, q + n + 2 * m)
    BY <2>1, CallParts DEF Fits, Takes, EmitArgs, Items
  <2>3. Fits(PopFloats(m, 0, "pop_float_args"), q + n + 2 * m, q + n)
    BY <1>1, <1>2, <2>1 DEF Fits, Takes, Above, PopFloats, Items
  <2>4. Fits(PopInts(n, "pop_int_args"), q + n, q)
    BY <1>1, <1>2, <2>1 DEF Fits, Takes, PopInts, Items
  <2> HIDE DEF n, m, q
  <2> QED BY <2>1, <2>2, <2>3, <2>4, ChainFour
<1>6. Chain(C, q, p)
  <2>1. CASE isptr
    <3>1. Fits(PopR(tmp, "emit_func_call"), p + 1, p)  BY <1>1, <1>2, PopRFits
    <3>2. Chain(<<PopR(tmp, "emit_func_call")>>, p + 1, p)  BY <3>1, <1>2, ChainOne
    <3> QED BY <2>1, <3>2
  <2>2. CASE ~ isptr
    <3>1. Chain(<<>>, p, p) /\ p + 0 = p  BY <1>2, ChainEmpty
    <3> QED BY <2>2, <3>1
  <2> QED BY <2>1, <2>2
<1>7. Chain(D, p, c.opos)
  <2> DEFINE o == c.opos  f == Above(m, 1)
  <2>0. Saved(c) = n + f  BY DEF Saved
  <2>1. o \in Nat /\ o + n \in Nat /\ f \in Nat /\ o + n + f \in Nat /\ p = o + n + f + r
    <3>1. o \in Nat /\ n \in Nat /\ f \in Nat  BY <1>2 DEF Above
    <3>2. p = o + Saved(c) + r  OBVIOUS
    <3> HIDE DEF p, o, n, f
    <3> QED BY <2>0, <3>1, <3>2
  <2>2. Fits(PushR(gb, "emit_func_call"), p, p + 1) /\ Fits(PopR(gb, "emit_func_call"), p + 1, p)
    BY <1>1, <1>2, PushRFits, PopRFits
  <2>3. Fits(CallJump(c.node, ret), p + 1, p + 1)
    BY <1>2, CallParts DEF Fits, Takes, CallJump, Items
  <2>4. Fits(Label(ret), p + 1, p + 1)  BY <1>2, LabelFits
  <2>5. Fits(Drop(r), p, o + n + f)
    <3> HIDE DEF p, o, n, f
    <3> QED BY <1>2, <2>1 DEF Fits, Takes, Drop, Items
  <2>6. Fits(PopFloats(m, 1, "restore_arg_regs"), o + n + f, o + n)
    BY <1>1, <1>2, <2>1 DEF Fits, Takes, PopFloats, Items
  <2>7. Fits(PopInts(n, "restore_arg_regs"), o + n, o)
    BY <1>1, <1>2, <2>1 DEF Fits, Takes, PopInts, Items
  <2>8. Fits(Assert(o), o, o)  BY <1>2 DEF Fits, Takes, Assert, Items
  <2> HIDE DEF n, m, p, f
  <2> QED BY <1>2, <2>1, <2>2, <2>3, <2>4, <2>5, <2>6, <2>7, <2>8, ChainEight
<1> HIDE DEF A, B, C, D, p, q
<1>8. p \in Int /\ q \in Int /\ c.opos \in Int  BY <1>2 DEF q
<1>9. Chain(A \o B, p, q)  BY <1>4, <1>5, <1>8, ChainCat
<1>10. Chain(A \o B \o C, p, p)  BY <1>6, <1>8, <1>9, ChainCat
<1>11. Chain(A \o B \o C \o D, p, c.opos)  BY <1>7, <1>8, <1>10, ChainCat
<1> QED BY <1>3, <1>11 DEF p

-----------------------------------------------------------------------------
(* The steps.                                                              *)

Emitted == [ins : Instructions, by : Emitters, depth : Nat, fn : Nat]

LEMMA ProgramTyped ==
  ASSUME TypeOK
  PROVE  /\ program \in Seq(Functions) /\ Len(program) \in Nat /\ current \in Nat
         /\ current # 0 => program[current] \in Functions
BY ProgramAssumption DEF TypeOK

LEMMA EmitTyped ==
  ASSUME TypeOK, NEW ins \in Seq(Instructions), NEW by \in Emitters, Emit(ins, by)
  PROVE  code' \in Seq(Emitted) /\ Len(code) <= Len(code') /\ Len(code') \in Nat
<1> DEFINE s == [i \in 1 .. Len(ins) |-> [ins |-> ins[i], by |-> by, depth |-> stackpos, fn |-> current]]
<1>1. stackpos \in Nat /\ current \in Nat /\ code \in Seq(Emitted)
  BY ProgramTyped DEF TypeOK, Emitted
<1>2. s \in Seq(Emitted)  BY <1>1 DEF Emitted
<1>3. code' = code \o s  BY DEF Emit
<1> HIDE DEF s
<1> QED BY <1>1, <1>2, <1>3

(* What code, place and status may do in a step.                           *)
LEMMA TypeKept ==
  ASSUME TypeOK, UNCHANGED <<program, current>>, loff' \in Seq(Int), stackpos' \in Nat,
         nlabels' \in Nat, code' \in Seq(Emitted), Len(code) <= Len(code'),
         UNCHANGED place, status' \in {"compiling", "done", "aborted"}
  PROVE  TypeOK'
<1>1. \A l \in DOMAIN place : place'[l] \in 1 .. Len(code') + 1
  BY DEF TypeOK, Emitted
<1> QED BY <1>1 DEF TypeOK, Emitted

LEMMA ThisFits ==
  ASSUME IInv, todo # <<>>
  PROVE  /\ This \in Items
         /\ \E q \in Int, r \in Int : Fits(This, stackpos, q) /\ Chain(Tail(todo), q, r)
BY ChainHead DEF IInv, TypeOK, This, Fits

LEMMA Replaced ==
  ASSUME NEW s, NEW q \in Int, NEW r \in Int, Then(s), stackpos' \in Int,
         Chain(s, stackpos', q), Chain(Tail(todo), q, r)
  PROVE  \E z \in Int : Chain(todo', stackpos', z)
<1>1. Chain(s \o Tail(todo), stackpos', r)  BY ChainCat
<1> QED BY <1>1 DEF Then

LEMMA ItemParts ==
  ASSUME NEW x \in Items
  PROVE  /\ x.do = "expr" => x.node \in Nodes
         /\ x.do = "code" => x.ins \in Seq(Instructions) /\ x.by \in Emitters
         /\ x.do \in {"push", "pop"} => x.reg \in Nat /\ x.words \in Nat /\ x.by \in Emitters
         /\ x.do = "pushstruct" => x.words \in Nat
         /\ x.do = "label" => x.l \in Nat
         /\ x.do = "classify" => x.call \in CallRecs /\ x.args \in Seq(Nodes)
         /\ x.do = "saveints" => x.n \in 0 .. 6 /\ x.i \in 0 .. 6
         /\ x.do = "savefloats" => x.n \in 0 .. 2 /\ x.i \in 1 .. 2
         /\ x.do = "popints" => x.n \in 0 .. 6 /\ x.by \in Emitters
         /\ x.do = "popfloats" => x.n \in 0 .. 2 /\ x.low \in 0 .. 1 /\ x.by \in Emitters
         /\ x.do = "emitrest" => x.call \in CallRecs /\ x.vals \in Seq(Nodes) /\ x.r \in Nat
         /\ x.do = "jump" => x.node \in CallNodes /\ x.ret \in Nat
         /\ x.do = "drop" => x.n \in Nat
         /\ x.do = "params" => /\ x.i \in Nat \ {0} /\ x.off \in Int /\ x.arg \in Nat
                               /\ x.ireg \in 0 .. 6 /\ x.xreg \in 0 .. 2
BY DEF Items

(* A step that goes on with s in place of the first item.                  *)
LEMMA StepKept ==
  ASSUME IInv, NEW s, NEW q \in Int, NEW r \in Int, Then(s), TypeOK', AssertsHold',
         current # 0, current' = current,
         Chain(s, stackpos', q), Chain(Tail(todo), q, r)
  PROVE  IInv'
<1>1. stackpos' \in Int  BY DEF TypeOK
<1>2. \E z \in Int : Chain(todo', stackpos', z)  BY <1>1, Replaced
<1> QED BY <1>2 DEF IInv

LEMMA InitInv == Init => IInv
<1> SUFFICES ASSUME Init PROVE IInv  OBVIOUS
<1>1. TypeOK  BY ProgramAssumption DEF Init, TypeOK
<1>2. Chain(<<>>, 0, 0)  BY ChainEmpty
<1> QED BY <1>1, <1>2 DEF Init, IInv, AssertsHold

LEMMA NextFunctionInv == ASSUME IInv, NextFunction PROVE IInv'
<1>1. TypeOK /\ current \in Nat /\ current' = current + 1 /\ status = "compiling" /\ status' = status
  BY ProgramTyped DEF IInv, NextFunction
<1>2. TypeOK'
  <2>1. current' \in 0 .. Len(program)  BY <1>1, ProgramTyped DEF NextFunction
  <2>2. loff' \in Seq(Int) /\ stackpos' \in Nat  BY DEF NextFunction
  <2> QED BY <1>1, <2>1, <2>2 DEF NextFunction, TypeOK
<1> DEFINE f == current + 1
<1>3. "prologue" \in Emitters /\ "nop" \in Opcodes  BY DEF Emitters, Opcodes
<1>4. <<Op("nop", 0, 0, 0)>> \in Seq(Instructions) /\ <<Mov(rbp, sp)>> \in Seq(Instructions)
  BY <1>3, OpTyped, MovTyped
<1>5. Fits(Label(f), 1, 1)  BY <1>1, LabelFits
<1>6. /\ Fits(Code(<<Op("nop", 0, 0, 0)>>, "prologue"), 1, 1)
      /\ Fits(Code(<<Mov(rbp, sp)>>, "prologue"), 3, 3)
  BY <1>3, <1>4, CodeFits
<1>7. Fits(PushR(gb, "prologue"), 1, 2) /\ Fits(PushR(rbp, "prologue"), 2, 3)
  <2>1. Fits(PushR(gb, "prologue"), 1, 1 + 1) /\ Fits(PushR(rbp, "prologue"), 2, 2 + 1)
    BY <1>3, PushRFits
  <2> QED BY <2>1
<1>8. Fits(Params(1, 0, 3, 0, 0), 3, -1)  BY DEF Fits, Params, Items
<1>9. Chain(Prologue(f), 1, -1)  BY <1>5, <1>6, <1>7, <1>8, ChainSix DEF Prologue
<1>10. todo' = Prologue(f) /\ stackpos' = 1  BY DEF NextFunction
<1>11. current' # 0  BY <1>1
<1> QED BY <1>1, <1>2, <1>9, <1>10, <1>11 DEF IInv, AssertsHold

LEMMA FinishInv == ASSUME IInv, Finish PROVE IInv'
BY DEF IInv, Finish, TypeOK, AssertsHold

(* What is known when a step begins that does the first item.              *)
LEMMA Doing ==
  ASSUME IInv, NEW what, Do(what)
  PROVE  /\ TypeOK /\ todo # <<>> /\ status = "compiling" /\ current # 0
         /\ This.do = what /\ This \in Items /\ stackpos \in Nat /\ loff \in Seq(Int) /\ nlabels \in Nat
         /\ \E q \in Int, r \in Int : Fits(This, stackpos, q) /\ Chain(Tail(todo), q, r)
BY ThisFits DEF IInv, Do, This, TypeOK

LEMMA EmitExprInv == ASSUME IInv, EmitExpr PROVE IInv'
<1>1. Do("expr")  BY DEF EmitExpr
<1>2. PICK q \in Int, r \in Int : Fits(This, stackpos, q) /\ Chain(Tail(todo), q, r)
  BY <1>1, Doing
<1>3. /\ TypeOK /\ status = "compiling" /\ current # 0 /\ stackpos \in Nat /\ loff \in Seq(Int)
      /\ nlabels \in Nat /\ This.do = "expr" /\ This \in Items
  BY <1>1, Doing
<1>4. This.node \in Nodes  BY <1>3, ItemParts
<1>5. q = stackpos  BY <1>2, <1>3 DEF Fits, Takes
<1>6. UNCHANGED <<program, current, loff, stackpos, code, place, status>>  BY DEF EmitExpr
<1>7. CASE This.node.kind \in {"call", "callptr"}
  <2> DEFINE c == Call(This.node, stackpos)  x == Classify(c, Args(This.node))
  <2>1. This.node.kids \in Seq(Nodes)  BY <1>4, KidsTyped
  <2>2. Args(This.node) \in Seq(Nodes)
    <3>1. CASE This.node.kind = "callptr"
      <4>1. Len(This.node.kids) \in Nat \ {0}  BY <3>1, <1>4, <2>1, TreeAssumption DEF Arity
      <4> QED BY <3>1, <4>1, <2>1 DEF Args
    <3>2. CASE This.node.kind # "callptr"  BY <3>2, <2>1 DEF Args
    <3> QED BY <3>1, <3>2
  <2>3. c \in CallRecs /\ c.opos = stackpos  BY <1>3, <1>4, <1>7 DEF Call, CallRecs, CallNodes
  <2> HIDE DEF c
  <2>4. Fits(x, stackpos, stackpos)  BY <1>3, <2>2, <2>3 DEF Fits, Takes, Classify, Items
  <2>5. Chain(<<x>>, stackpos, q)  BY <1>3, <1>5, <2>4, ChainOne
  <2>6. Then(<<x>>) /\ nlabels' = nlabels  BY <1>7 DEF EmitExpr, c
  <2> HIDE DEF x
  <2>7. TypeOK' /\ AssertsHold'  BY <1>3, <1>6, <2>6 DEF TypeOK, AssertsHold
  <2> QED BY <1>2, <1>3, <1>6, <2>5, <2>6, <2>7, StepKept
<1>8. CASE This.node.kind \notin {"call", "callptr"}
  <2>1. Then(Script(This.node, nlabels + 1)) /\ nlabels' = nlabels + 2  BY <1>8 DEF EmitExpr
  <2>2. Chain(Script(This.node, nlabels + 1), stackpos, q)  BY <1>3, <1>4, <1>5, ScriptChain
  <2>3. TypeOK' /\ AssertsHold'  BY <1>3, <1>6, <2>1 DEF TypeOK, AssertsHold
  <2> QED BY <1>2, <1>3, <1>6, <2>1, <2>2, <2>3, StepKept
<1> QED BY <1>7, <1>8

LEMMA EmitCodeInv == ASSUME IInv, EmitCode PROVE IInv'
<1>1. Do("code")  BY DEF EmitCode
<1>2. PICK q \in Int, r \in Int : Fits(This, stackpos, q) /\ Chain(Tail(todo), q, r)
  BY <1>1, Doing
<1>3. /\ TypeOK /\ status = "compiling" /\ current # 0 /\ stackpos \in Nat /\ loff \in Seq(Int)
      /\ nlabels \in Nat /\ This.do = "code" /\ This \in Items
  BY <1>1, Doing
<1>4. This.ins \in Seq(Instructions) /\ This.by \in Emitters  BY <1>3, ItemParts
<1>5. q = stackpos  BY <1>2, <1>3 DEF Fits, Takes
<1>6. Emit(This.ins, This.by) /\ Then(<<>>)
      /\ UNCHANGED <<program, current, loff, stackpos, nlabels, place, status>>
  BY DEF EmitCode
<1>7. TypeOK' /\ AssertsHold'
  BY <1>3, <1>4, <1>6, EmitTyped, TypeKept DEF AssertsHold
<1>8. Chain(<<>>, stackpos', q)  BY <1>3, <1>5, <1>6, ChainEmpty
<1> QED BY <1>2, <1>3, <1>6, <1>7, <1>8, StepKept

LEMMA EmitLabelInv == ASSUME IInv, EmitLabel PROVE IInv'
<1>1. Do("label")  BY DEF EmitLabel
<1>2. PICK q \in Int, r \in Int : Fits(This, stackpos, q) /\ Chain(Tail(todo), q, r)
  BY <1>1, Doing
<1>3. /\ TypeOK /\ status = "compiling" /\ current # 0 /\ stackpos \in Nat
      /\ This.do = "label"
  BY <1>1, Doing
<1>4. q = stackpos  BY <1>2, <1>3 DEF Fits, Takes
<1>5. Then(<<>>) /\ UNCHANGED <<program, current, loff, stackpos, nlabels, code, status>>
      /\ place' = [l \in DOMAIN place \cup {This.l} |->
                     IF l = This.l THEN Len(code) + 1 ELSE place[l]]
  BY DEF EmitLabel
<1>6. \A l \in DOMAIN place' : place'[l] \in 1 .. Len(code) + 1
  <2>1. Len(code) \in Nat /\ \A l \in DOMAIN place : place[l] \in 1 .. Len(code) + 1
    BY <1>3 DEF TypeOK
  <2> QED BY <1>5, <2>1
<1>7. TypeOK' /\ AssertsHold'  BY <1>3, <1>5, <1>6 DEF TypeOK, AssertsHold
<1>8. Chain(<<>>, stackpos', q)  BY <1>3, <1>4, <1>5, ChainEmpty
<1> QED BY <1>2, <1>3, <1>5, <1>7, <1>8, StepKept

(* push and pop, with what they need and leave.                            *)
LEMMA PushKept ==
  ASSUME TypeOK, NEW reg \in Nat, NEW words \in Nat, NEW by \in Emitters, Push(reg, words, by)
  PROVE  /\ stackpos' = stackpos + words /\ stackpos' \in Nat
         /\ code' \in Seq(Emitted) /\ Len(code) <= Len(code')
<1>1. "subi" \in Opcodes  BY DEF Opcodes
<1>2. <<Op("subi", sp, sp, 1), Str(reg, sp, 0)>> \in Seq(Instructions)  BY <1>1, OpTyped, StrTyped
<1>3. Emit(<<Op("subi", sp, sp, 1), Str(reg, sp, 0)>>, by) /\ stackpos' = stackpos + words
  BY DEF Push
<1>4. stackpos \in Nat  BY DEF TypeOK
<1>5. code' \in Seq(Emitted) /\ Len(code) <= Len(code')  BY <1>2, <1>3, EmitTyped
<1> QED BY <1>3, <1>4, <1>5

LEMMA PopKept ==
  ASSUME TypeOK, NEW reg \in Nat, NEW words \in Nat, NEW by \in Emitters, Pop(reg, words, by),
         status = "compiling", NEW q \in Nat, stackpos = q + words
  PROVE  /\ stackpos' = q /\ status' = "compiling"
         /\ code' \in Seq(Emitted) /\ Len(code) <= Len(code')
<1>1. "addi" \in Opcodes  BY DEF Opcodes
<1>2. <<Ldr(reg, sp, 0), Op("addi", sp, sp, 1)>> \in Seq(Instructions)  BY <1>1, OpTyped, LdrTyped
<1>3. /\ Emit(<<Ldr(reg, sp, 0), Op("addi", sp, sp, 1)>>, by) /\ stackpos' = stackpos - words
      /\ status' = IF stackpos' >= 0 THEN status ELSE "aborted"
  BY DEF Pop
<1>4. stackpos' = q  BY <1>3
<1>5. code' \in Seq(Emitted) /\ Len(code) <= Len(code')  BY <1>2, <1>3, EmitTyped
<1> QED BY <1>3, <1>4, <1>5

LEMMA EmitPushInv == ASSUME IInv, EmitPush PROVE IInv'
<1>1. Do("push")  BY DEF EmitPush
<1>2. PICK q \in Int, r \in Int : Fits(This, stackpos, q) /\ Chain(Tail(todo), q, r)
  BY <1>1, Doing
<1>3. /\ TypeOK /\ status = "compiling" /\ current # 0 /\ stackpos \in Nat /\ loff \in Seq(Int)
      /\ nlabels \in Nat /\ This.do = "push" /\ This \in Items
  BY <1>1, Doing
<1>4. This.reg \in Nat /\ This.words \in Nat /\ This.by \in Emitters  BY <1>3, ItemParts
<1>5. q = stackpos + This.words  BY <1>2, <1>3 DEF Fits, Takes
<1>6. Push(This.reg, This.words, This.by) /\ Then(<<>>)
      /\ UNCHANGED <<program, current, loff, nlabels, place, status>>
  BY DEF EmitPush
<1>7. stackpos' = q /\ stackpos' \in Nat /\ code' \in Seq(Emitted) /\ Len(code) <= Len(code')
  BY <1>3, <1>4, <1>5, <1>6, PushKept
<1>8. TypeOK' /\ AssertsHold'  BY <1>3, <1>6, <1>7, TypeKept DEF AssertsHold
<1>9. Chain(<<>>, stackpos', q)  BY <1>7, ChainEmpty
<1> QED BY <1>2, <1>3, <1>6, <1>8, <1>9, StepKept

LEMMA EmitPopInv == ASSUME IInv, EmitPop PROVE IInv'
<1>1. Do("pop")  BY DEF EmitPop
<1>2. PICK q \in Int, r \in Int : Fits(This, stackpos, q) /\ Chain(Tail(todo), q, r)
  BY <1>1, Doing
<1>3. /\ TypeOK /\ status = "compiling" /\ current # 0 /\ stackpos \in Nat /\ loff \in Seq(Int)
      /\ nlabels \in Nat /\ This.do = "pop" /\ This \in Items
  BY <1>1, Doing
<1>4. This.reg \in Nat /\ This.words \in Nat /\ This.by \in Emitters  BY <1>3, ItemParts
<1>5. q \in Nat /\ stackpos = q + This.words  BY <1>2, <1>3 DEF Fits, Takes
<1>6. Pop(This.reg, This.words, This.by) /\ Then(<<>>)
      /\ UNCHANGED <<program, current, loff, nlabels, place>>
  BY DEF EmitPop
<1>7. /\ stackpos' = q /\ status' = "compiling"
      /\ code' \in Seq(Emitted) /\ Len(code) <= Len(code')
  BY <1>3, <1>4, <1>5, <1>6, PopKept
<1>8. TypeOK' /\ AssertsHold'  BY <1>3, <1>5, <1>6, <1>7, TypeKept DEF AssertsHold
<1>9. Chain(<<>>, stackpos', q)  BY <1>7, ChainEmpty
<1> QED BY <1>2, <1>3, <1>6, <1>8, <1>9, StepKept

LEMMA StructCodeTyped == \A words \in Nat : StructCode(words) \in Seq(Instructions)
<1> TAKE words \in Nat
<1> DEFINE a == <<Op("subi", sp, sp, words + 1), Str(rcx, sp, 0), Op("add", rcx, rax, zero)>>
           b == [i \in 1 .. 2 * words |-> IF i % 2 = 1 THEN Ldr(tmp, rcx, (i - 1) \div 2)
                                                       ELSE Str(tmp, sp, i \div 2)]
           c == <<Ldr(rcx, sp, 0)>>
<1>1. "subi" \in Opcodes /\ "add" \in Opcodes /\ words + 1 \in Int  BY DEF Opcodes, Operators
<1>2. a \in Seq(Instructions)  BY <1>1, OpTyped, StrTyped
<1>3. b \in Seq(Instructions)
  <2>1. \A i \in 1 .. 2 * words : (i - 1) \div 2 \in Int /\ i \div 2 \in Int  OBVIOUS
  <2>2. \A i \in 1 .. 2 * words : b[i] \in Instructions  BY <2>1, LdrTyped, StrTyped
  <2>3. 2 * words \in Nat /\ b = [i \in 1 .. 2 * words |-> b[i]]  OBVIOUS
  <2> HIDE DEF b
  <2> QED BY <2>2, <2>3
<1>4. c \in Seq(Instructions)  BY LdrTyped
<1>5. StructCode(words) = a \o b \o c  BY DEF StructCode
<1> HIDE DEF a, b, c
<1> QED BY <1>2, <1>3, <1>4, <1>5

LEMMA EmitStructInv == ASSUME IInv, EmitStruct PROVE IInv'
<1>1. Do("pushstruct")  BY DEF EmitStruct
<1>2. PICK q \in Int, r \in Int : Fits(This, stackpos, q) /\ Chain(Tail(todo), q, r)
  BY <1>1, Doing
<1>3. /\ TypeOK /\ status = "compiling" /\ current # 0 /\ stackpos \in Nat /\ loff \in Seq(Int)
      /\ nlabels \in Nat /\ This.do = "pushstruct" /\ This \in Items
  BY <1>1, Doing
<1>4. This.words \in Nat  BY <1>3, ItemParts
<1>5. q = stackpos + This.words + 1  BY <1>2, <1>3 DEF Fits, Takes
<1>6. /\ Emit(StructCode(This.words), "push_struct") /\ Then(<<>>)
      /\ stackpos' = stackpos + This.words + 1
      /\ UNCHANGED <<program, current, loff, nlabels, place, status>>
  BY DEF EmitStruct
<1>7. code' \in Seq(Emitted) /\ Len(code) <= Len(code')
  <2>1. "push_struct" \in Emitters  BY DEF Emitters
  <2> QED BY <2>1, <1>3, <1>4, <1>6, StructCodeTyped, EmitTyped
<1>8. stackpos' \in Nat  BY <1>3, <1>4, <1>6
<1>9. TypeOK' /\ AssertsHold'  BY <1>3, <1>6, <1>7, <1>8, TypeKept DEF AssertsHold
<1>10. Chain(<<>>, stackpos', q)  BY <1>5, <1>6, ChainEmpty
<1> QED BY <1>2, <1>3, <1>6, <1>9, <1>10, StepKept

LEMMA IntoTyped == ASSUME NEW c \in CallRecs, NEW v \in Nodes
                   PROVE  Into(c, v) \in CallRecs /\ Into(c, v).opos = c.opos
<1>1. CASE v.ty = "int" /\ Len(c.ints) < 6
  <2>1. Into(c, v) = [c EXCEPT !.ints = Append(@, v)]  BY <1>1 DEF Into
  <2>2. Append(c.ints, v) \in Seq(IntNodes) /\ Len(Append(c.ints, v)) <= 6
    <3>1. v \in IntNodes  BY <1>1 DEF IntNodes
    <3>2. c.ints \in Seq(IntNodes) /\ Len(c.ints) \in Nat  BY CallParts
    <3>3. Append(c.ints, v) \in Seq(IntNodes) /\ Len(Append(c.ints, v)) = Len(c.ints) + 1  BY <3>1, <3>2
    <3> QED BY <1>1, <3>2, <3>3
  <2> QED BY <2>1, <2>2 DEF CallRecs
<1>2. CASE v.ty = "float" /\ Len(c.floats) < 2
  <2>1. Into(c, v) = [c EXCEPT !.floats = Append(@, v)]  BY <1>2 DEF Into
  <2>2. Append(c.floats, v) \in Seq(FloatNodes) /\ Len(Append(c.floats, v)) <= 2
    <3>1. v \in FloatNodes  BY <1>2 DEF FloatNodes
    <3>2. c.floats \in Seq(FloatNodes) /\ Len(c.floats) \in Nat  BY CallParts
    <3>3. Append(c.floats, v) \in Seq(FloatNodes) /\ Len(Append(c.floats, v)) = Len(c.floats) + 1  BY <3>1, <3>2
    <3> QED BY <1>2, <3>2, <3>3
  <2> QED BY <2>1, <2>2 DEF CallRecs
<1>3. CASE ~ (v.ty = "int" /\ Len(c.ints) < 6) /\ ~ (v.ty = "float" /\ Len(c.floats) < 2)
  <2>1. Into(c, v) = [c EXCEPT !.rest = <<v>> \o @]  BY <1>3 DEF Into
  <2>2. <<v>> \o c.rest \in Seq(Nodes)  BY CallParts
  <2> QED BY <2>1, <2>2 DEF CallRecs
<1> QED BY <1>1, <1>2, <1>3

LEMMA ClassifyArgsInv == ASSUME IInv, ClassifyArgs PROVE IInv'
<1>1. Do("classify")  BY DEF ClassifyArgs
<1>2. PICK q \in Int, r \in Int : Fits(This, stackpos, q) /\ Chain(Tail(todo), q, r)
  BY <1>1, Doing
<1>3. /\ TypeOK /\ status = "compiling" /\ current # 0 /\ stackpos \in Nat /\ loff \in Seq(Int)
      /\ nlabels \in Nat /\ This.do = "classify" /\ This \in Items
  BY <1>1, Doing
<1>4. This.call \in CallRecs /\ This.args \in Seq(Nodes)  BY <1>3, ItemParts
<1>5. q = stackpos /\ This.call.opos = stackpos  BY <1>2, <1>3 DEF Fits, Takes
<1>6. UNCHANGED <<program, current, loff, stackpos, nlabels, code, place, status>>
  BY DEF ClassifyArgs
<1>7. TypeOK' /\ AssertsHold'  BY <1>3, <1>6 DEF TypeOK, AssertsHold
<1>8. CASE This.args # <<>>
  <2> DEFINE x == Classify(Into(This.call, This.args[1]), Tail(This.args))
  <2>1. This.args[1] \in Nodes /\ Tail(This.args) \in Seq(Nodes)  BY <1>4, <1>8
  <2>2. Into(This.call, This.args[1]) \in CallRecs /\ Into(This.call, This.args[1]).opos = stackpos
    BY <1>4, <1>5, <2>1, IntoTyped
  <2>3. Fits(x, stackpos, q)  BY <1>3, <1>5, <2>1, <2>2 DEF Fits, Takes, Classify, Items
  <2>4. Then(<<x>>)  BY <1>8 DEF ClassifyArgs
  <2> HIDE DEF x
  <2>5. Chain(<<x>>, stackpos', q)  BY <1>3, <1>6, <2>3, ChainOne
  <2> QED BY <1>2, <1>3, <1>6, <1>7, <2>4, <2>5, StepKept
<1>9. CASE This.args = <<>>
  <2> DEFINE c == This.call  n == Len(c.ints)  m == Len(c.floats)  f == Above(m, 1)
             x == SaveInts(n, 0)  y == SaveFloats(m, 1)  z == EmitRest(c, c.rest, 0)
  <2>1. n \in 0 .. 6 /\ m \in 0 .. 2 /\ c.rest \in Seq(Nodes) /\ c \in CallRecs
    BY <1>4, CallParts
  <2>2. f \in Nat /\ Saved(c) = n + f  BY <2>1 DEF Saved, Above
  <2>3. Then(<<x, y, z>>)  BY <1>9 DEF ClassifyArgs
  <2>4. Fits(x, stackpos, stackpos + n)
    <3> HIDE DEF n
    <3>1. (IF n > 0 THEN n - 0 ELSE 0) = n  BY <2>1
    <3> QED BY <1>3, <2>1, <3>1 DEF Fits, Takes, SaveInts, Items
  <2>5. Fits(y, stackpos + n, stackpos + n + f)
    BY <1>3, <2>1, <2>2 DEF Fits, Takes, SaveFloats, Items
  <2>6. Fits(z, stackpos + n + f, stackpos)
    <3>1. c.opos + Saved(c) + 0 = stackpos + n + f /\ stackpos + n + f \in Nat
      <4> HIDE DEF n, f, c
      <4> QED BY <1>3, <1>5, <2>1, <2>2 DEF c
    <3> HIDE DEF n, f, c
    <3> QED BY <1>3, <1>5, <2>1, <3>1 DEF Fits, Takes, EmitRest, Items, c
  <2>7. stackpos + n \in Int /\ stackpos + n + f \in Int  BY <1>3, <2>1, <2>2
  <2> HIDE DEF n, f, x, y, z
  <2>8. Chain(<<x, y, z>>, stackpos, stackpos)  BY <1>3, <2>4, <2>5, <2>6, <2>7, ChainThree
  <2>9. Chain(<<x, y, z>>, stackpos', q)  BY <1>5, <1>6, <2>8
  <2> QED BY <1>2, <1>3, <1>6, <1>7, <2>3, <2>9, StepKept
<1> QED BY <1>8, <1>9

LEMMA RegsTyped == /\ \A i \in 0 .. 5 : REGS[i + 1] \in Nat
                   /\ \A i \in 0 .. 1 : FREGS[i + 1] \in Nat
                   /\ \A i \in 1 .. 6 : REGS[i] \in Nat
                   /\ \A i \in 1 .. 2 : FREGS[i] \in Nat
BY DEF REGS, FREGS

LEMMA SaveIntsInv == ASSUME IInv, SaveArgRegs, Do("saveints") PROVE IInv'
<1>1. Do("saveints")  OBVIOUS
<1>2. PICK q \in Int, r \in Int : Fits(This, stackpos, q) /\ Chain(Tail(todo), q, r)
  BY <1>1, Doing
<1>3. /\ TypeOK /\ status = "compiling" /\ current # 0 /\ stackpos \in Nat /\ loff \in Seq(Int)
      /\ nlabels \in Nat /\ This.do = "saveints" /\ This \in Items
  BY <1>1, Doing
<1>4. This.n \in 0 .. 6 /\ This.i \in 0 .. 6  BY <1>3, ItemParts
<1>5. q = stackpos + (IF This.n > This.i THEN This.n - This.i ELSE 0)
  BY <1>2, <1>3 DEF Fits, Takes
<1>6. UNCHANGED <<program, current, loff, nlabels, place, status>>  BY DEF SaveArgRegs
<1>7. CASE This.i >= This.n
  <2>1. Then(<<>>) /\ UNCHANGED <<stackpos, code>>  BY <1>7 DEF SaveArgRegs
  <2>2. TypeOK' /\ AssertsHold'  BY <1>3, <1>6, <2>1 DEF TypeOK, AssertsHold
  <2>3. q = stackpos  BY <1>3, <1>4, <1>5, <1>7
  <2>4. Chain(<<>>, stackpos', q)  BY <1>3, <2>1, <2>3, ChainEmpty
  <2> QED BY <1>2, <1>3, <1>6, <2>1, <2>2, <2>4, StepKept
<1>8. CASE ~ (This.i >= This.n)
  <2> DEFINE x == SaveInts(This.n, This.i + 1)
  <2>1. Push(REGS[This.i + 1], 1, "save_arg_regs") /\ Then(<<x>>)
    BY <1>3, <1>8 DEF SaveArgRegs
  <2>2. This.i \in 0 .. 5 /\ This.i + 1 \in 0 .. 6 /\ "save_arg_regs" \in Emitters
    BY <1>4, <1>8 DEF Emitters
  <2>3. /\ stackpos' = stackpos + 1 /\ stackpos' \in Nat
        /\ code' \in Seq(Emitted) /\ Len(code) <= Len(code')
    BY <1>3, <2>1, <2>2, RegsTyped, PushKept
  <2>4. TypeOK' /\ AssertsHold'  BY <1>3, <1>6, <2>3, TypeKept DEF AssertsHold
  <2>5. q = stackpos' + (IF This.n > This.i + 1 THEN This.n - (This.i + 1) ELSE 0) /\ q \in Nat
    <3> DEFINE n == This.n  i == This.i
    <3>1. n \in Nat /\ i \in Nat /\ i < n  BY <1>4, <1>8
    <3>2. q = stackpos + (n - i)  BY <1>5, <3>1
    <3> HIDE DEF n, i
    <3>3. (IF n > i + 1 THEN n - (i + 1) ELSE 0) = n - (i + 1)  BY <3>1
    <3>4. q = stackpos' + (n - (i + 1)) /\ q \in Nat  BY <1>3, <2>3, <3>1, <3>2
    <3> QED BY <3>3, <3>4 DEF n, i
  <2>6. Fits(x, stackpos', q)  BY <1>4, <2>2, <2>3, <2>5 DEF Fits, Takes, SaveInts, Items
  <2> HIDE DEF x
  <2>7. Chain(<<x>>, stackpos', q)  BY <2>3, <2>6, ChainOne
  <2> QED BY <1>2, <1>3, <1>6, <2>1, <2>4, <2>7, StepKept
<1> QED BY <1>7, <1>8

LEMMA SaveFloatsInv == ASSUME IInv, SaveArgRegs, Do("savefloats") PROVE IInv'
<1>1. Do("savefloats")  OBVIOUS
<1>2. PICK q \in Int, r \in Int : Fits(This, stackpos, q) /\ Chain(Tail(todo), q, r)
  BY <1>1, Doing
<1>3. /\ TypeOK /\ status = "compiling" /\ current # 0 /\ stackpos \in Nat /\ loff \in Seq(Int)
      /\ nlabels \in Nat /\ This.do = "savefloats" /\ This \in Items
  BY <1>1, Doing
<1>4. This.n \in 0 .. 2 /\ This.i \in 1 .. 2  BY <1>3, ItemParts
<1>5. q = stackpos + Above(This.n, This.i)  BY <1>2, <1>3 DEF Fits, Takes
<1>6. UNCHANGED <<program, current, loff, nlabels, place, status>>  BY DEF SaveArgRegs
<1>7. CASE This.i >= This.n
  <2>1. Then(<<>>) /\ UNCHANGED <<stackpos, code>>  BY <1>7 DEF SaveArgRegs
  <2>2. TypeOK' /\ AssertsHold'  BY <1>3, <1>6, <2>1 DEF TypeOK, AssertsHold
  <2>3. q = stackpos  BY <1>3, <1>4, <1>5, <1>7 DEF Above
  <2>4. Chain(<<>>, stackpos', q)  BY <1>3, <2>1, <2>3, ChainEmpty
  <2> QED BY <1>2, <1>3, <1>6, <2>1, <2>2, <2>4, StepKept
<1>8. CASE ~ (This.i >= This.n)
  <2> DEFINE x == SaveFloats(This.n, This.i + 1)
  <2>1. Push(FREGS[This.i + 1], 2, "save_arg_regs") /\ Then(<<x>>)
    BY <1>3, <1>8 DEF SaveArgRegs
  <2>2. This.i \in 0 .. 1 /\ This.i + 1 \in 1 .. 2 /\ "save_arg_regs" \in Emitters
    BY <1>4, <1>8 DEF Emitters
  <2>3. /\ stackpos' = stackpos + 2 /\ stackpos' \in Nat
        /\ code' \in Seq(Emitted) /\ Len(code) <= Len(code')
    BY <1>3, <2>1, <2>2, RegsTyped, PushKept
  <2>4. TypeOK' /\ AssertsHold'  BY <1>3, <1>6, <2>3, TypeKept DEF AssertsHold
  <2>5. q = stackpos' + Above(This.n, This.i + 1) /\ q \in Nat
    BY <1>3, <1>4, <1>5, <1>8, <2>3 DEF Above
  <2>6. Fits(x, stackpos', q)  BY <1>4, <2>2, <2>3, <2>5 DEF Fits, Takes, SaveFloats, Items
  <2> HIDE DEF x
  <2>7. Chain(<<x>>, stackpos', q)  BY <2>3, <2>6, ChainOne
  <2> QED BY <1>2, <1>3, <1>6, <2>1, <2>4, <2>7, StepKept
<1> QED BY <1>7, <1>8

LEMMA PopIntsInv == ASSUME IInv, PopArgRegs, Do("popints") PROVE IInv'
<1>1. Do("popints")  OBVIOUS
<1>2. PICK q \in Int, r \in Int : Fits(This, stackpos, q) /\ Chain(Tail(todo), q, r)
  BY <1>1, Doing
<1>3. /\ TypeOK /\ status = "compiling" /\ current # 0 /\ stackpos \in Nat /\ loff \in Seq(Int)
      /\ nlabels \in Nat /\ This.do = "popints" /\ This \in Items
  BY <1>1, Doing
<1>4. This.n \in 0 .. 6 /\ This.by \in Emitters  BY <1>3, ItemParts
<1>5. stackpos = q + This.n /\ q \in Nat  BY <1>2, <1>3 DEF Fits, Takes
<1>6. UNCHANGED <<program, current, loff, nlabels, place>>  BY DEF PopArgRegs
<1>7. CASE This.n = 0
  <2>1. Then(<<>>) /\ UNCHANGED <<stackpos, code, status>>  BY <1>3, <1>7 DEF PopArgRegs
  <2>2. TypeOK' /\ AssertsHold'  BY <1>3, <1>6, <2>1 DEF TypeOK, AssertsHold
  <2>3. Chain(<<>>, stackpos', q)  BY <1>5, <1>7, <2>1, ChainEmpty
  <2> QED BY <1>2, <1>3, <1>6, <2>1, <2>2, <2>3, StepKept
<1>8. CASE This.n # 0
  <2> DEFINE x == PopInts(This.n - 1, This.by)
  <2>1. Pop(REGS[This.n], 1, This.by) /\ Then(<<x>>)  BY <1>3, <1>8 DEF PopArgRegs
  <2>2. This.n \in 1 .. 6 /\ This.n - 1 \in 0 .. 6  BY <1>4, <1>8
  <2>3. q + (This.n - 1) \in Nat /\ stackpos = q + (This.n - 1) + 1  BY <1>5, <2>2
  <2>4. /\ stackpos' = q + (This.n - 1) /\ status' = "compiling"
        /\ code' \in Seq(Emitted) /\ Len(code) <= Len(code')
    BY <1>3, <1>4, <2>1, <2>2, <2>3, RegsTyped, PopKept
  <2>5. TypeOK' /\ AssertsHold'  BY <1>3, <1>6, <2>3, <2>4, TypeKept DEF AssertsHold
  <2>6. Fits(x, stackpos', q)  BY <1>4, <1>5, <2>2, <2>3, <2>4 DEF Fits, Takes, PopInts, Items
  <2> HIDE DEF x
  <2>7. Chain(<<x>>, stackpos', q)  BY <2>3, <2>4, <2>6, ChainOne
  <2> QED BY <1>2, <1>3, <1>6, <2>1, <2>5, <2>7, StepKept
<1> QED BY <1>7, <1>8

LEMMA PopFloatsInv == ASSUME IInv, PopArgRegs, Do("popfloats") PROVE IInv'
<1>1. Do("popfloats")  OBVIOUS
<1>2. PICK q \in Int, r \in Int : Fits(This, stackpos, q) /\ Chain(Tail(todo), q, r)
  BY <1>1, Doing
<1>3. /\ TypeOK /\ status = "compiling" /\ current # 0 /\ stackpos \in Nat /\ loff \in Seq(Int)
      /\ nlabels \in Nat /\ This.do = "popfloats" /\ This \in Items
  BY <1>1, Doing
<1>4. This.n \in 0 .. 2 /\ This.low \in 0 .. 1 /\ This.by \in Emitters  BY <1>3, ItemParts
<1>5. stackpos = q + Above(This.n, This.low) /\ q \in Nat  BY <1>2, <1>3 DEF Fits, Takes
<1>6. UNCHANGED <<program, current, loff, nlabels, place>>  BY DEF PopArgRegs
<1>7. CASE This.n <= This.low
  <2>1. Then(<<>>) /\ UNCHANGED <<stackpos, code, status>>  BY <1>3, <1>7 DEF PopArgRegs
  <2>2. TypeOK' /\ AssertsHold'  BY <1>3, <1>6, <2>1 DEF TypeOK, AssertsHold
  <2>3. stackpos = q  BY <1>4, <1>5, <1>7 DEF Above
  <2>4. Chain(<<>>, stackpos', q)  BY <1>5, <2>1, <2>3, ChainEmpty
  <2> QED BY <1>2, <1>3, <1>6, <2>1, <2>2, <2>4, StepKept
<1>8. CASE ~ (This.n <= This.low)
  <2> DEFINE x == PopFloats(This.n - 1, This.low, This.by)  a == Above(This.n - 1, This.low)
  <2>1. Pop(FREGS[This.n], 2, This.by) /\ Then(<<x>>)  BY <1>3, <1>8 DEF PopArgRegs
  <2>2. This.n \in 1 .. 2 /\ This.n - 1 \in 0 .. 2  BY <1>4, <1>8
  <2>3. a \in Nat /\ Above(This.n, This.low) = a + 2  BY <1>4, <1>8 DEF Above
  <2> HIDE DEF a
  <2>4. q + a \in Nat /\ stackpos = q + a + 2  BY <1>5, <2>3
  <2>5. /\ stackpos' = q + a /\ status' = "compiling"
        /\ code' \in Seq(Emitted) /\ Len(code) <= Len(code')
    BY <1>3, <1>4, <2>1, <2>2, <2>4, RegsTyped, PopKept
  <2>6. TypeOK' /\ AssertsHold'  BY <1>3, <1>6, <2>4, <2>5, TypeKept DEF AssertsHold
  <2>7. Fits(x, stackpos', q)
    BY <1>4, <1>5, <2>2, <2>4, <2>5 DEF Fits, Takes, PopFloats, Items, a
  <2> HIDE DEF x
  <2>8. Chain(<<x>>, stackpos', q)  BY <2>4, <2>5, <2>7, ChainOne
  <2> QED BY <1>2, <1>3, <1>6, <2>1, <2>6, <2>8, StepKept
<1> QED BY <1>7, <1>8

(* A sequence of items and one that goes on from where they end.           *)
LEMMA ChainAppend == ASSUME NEW s, NEW x, NEW p \in Int, NEW q \in Int, NEW r \in Int,
                            Chain(s, p, q), Fits(x, q, r)
                     PROVE  Chain(Append(s, x), p, r)
<1>1. Chain(s \o <<x>>, p, r)  BY ChainOne, ChainCat
<1>2. s \in Seq(Items) /\ x \in Items  BY DEF Chain, Fits
<1>3. s \o <<x>> = Append(s, x)  BY <1>2
<1> QED BY <1>1, <1>3

LEMMA EmitRestArgsInv == ASSUME IInv, EmitRestArgs PROVE IInv'
<1>1. Do("emitrest")  BY DEF EmitRestArgs
<1>2. PICK q \in Int, r \in Int : Fits(This, stackpos, q) /\ Chain(Tail(todo), q, r)
  BY <1>1, Doing
<1>3. /\ TypeOK /\ status = "compiling" /\ current # 0 /\ stackpos \in Nat /\ loff \in Seq(Int)
      /\ nlabels \in Nat /\ This.do = "emitrest" /\ This \in Items
  BY <1>1, Doing
<1>4. This.call \in CallRecs /\ This.vals \in Seq(Nodes) /\ This.r \in Nat  BY <1>3, ItemParts
<1>5. stackpos = This.call.opos + Saved(This.call) + This.r /\ q = This.call.opos /\ q \in Nat
  BY <1>2, <1>3 DEF Fits, Takes
<1>6. UNCHANGED <<program, current, loff, stackpos, code, place, status>>  BY DEF EmitRestArgs
<1>7. CASE This.vals # <<>>
  <2> DEFINE v == This.vals[1]  n == ArgSize(v.ty)
             x == EmitRest(This.call, Tail(This.vals), This.r + n)
  <2>1. Then(Append(emit_arg(v), x)) /\ nlabels' = nlabels  BY <1>7 DEF EmitRestArgs
  <2>2. v \in Nodes /\ Tail(This.vals) \in Seq(Nodes)  BY <1>4, <1>7
  <2> HIDE DEF v
  <2>3. n \in Nat /\ Chain(emit_arg(v), stackpos, stackpos + n)  BY <1>3, <2>2, ArgChain
  <2> HIDE DEF n
  <2>4. Fits(x, stackpos + n, q)
    <3>1. Saved(This.call) \in Nat  BY <1>4, CallParts
    <3>2. stackpos + n = This.call.opos + Saved(This.call) + (This.r + n)
      BY <1>4, <1>5, <2>3, <3>1
    <3>3. This.r + n \in Nat /\ stackpos + n \in Nat  BY <1>3, <1>4, <2>3
    <3>4. x \in Items  BY <1>4, <2>2, <3>3 DEF EmitRest, Items
    <3>5. /\ x.do = "emitrest" /\ x.r = This.r + n /\ x.call = This.call  BY DEF EmitRest
    <3> HIDE DEF x
    <3> QED BY <1>5, <3>2, <3>3, <3>4, <3>5 DEF Fits, Takes
  <2> HIDE DEF x
  <2>5. Chain(Append(emit_arg(v), x), stackpos', q)  BY <1>3, <1>6, <2>3, <2>4, ChainAppend
  <2>6. TypeOK' /\ AssertsHold'  BY <1>3, <1>6, <2>1 DEF TypeOK, AssertsHold
  <2> QED BY <1>2, <1>3, <1>6, <2>1, <2>5, <2>6, StepKept
<1>8. CASE This.vals = <<>>
  <2>1. Then(AfterRest(This.call, This.r, nlabels + 1)) /\ nlabels' = nlabels + 1
    BY <1>8 DEF EmitRestArgs
  <2>2. Chain(AfterRest(This.call, This.r, nlabels + 1), stackpos', q)
    BY <1>3, <1>4, <1>5, <1>6, AfterRestChain
  <2>3. TypeOK' /\ AssertsHold'  BY <1>3, <1>6, <2>1 DEF TypeOK, AssertsHold
  <2> QED BY <1>2, <1>3, <1>6, <2>1, <2>2, <2>3, StepKept
<1> QED BY <1>7, <1>8

LEMMA EmitRegArgsInv == ASSUME IInv, EmitRegArgs PROVE IInv'
<1>1. Do("emitargs")  BY DEF EmitRegArgs
<1>2. PICK q \in Int, r \in Int : Fits(This, stackpos, q) /\ Chain(Tail(todo), q, r)
  BY <1>1, Doing
<1>3. /\ TypeOK /\ status = "compiling" /\ current # 0 /\ stackpos \in Nat /\ loff \in Seq(Int)
      /\ nlabels \in Nat /\ This.do = "emitargs" /\ This \in Items
  BY <1>1, Doing
<1>4. UNCHANGED <<program, current, loff, stackpos, nlabels, code, place, status>>
  BY DEF EmitRegArgs
<1>5. TypeOK' /\ AssertsHold'  BY <1>3, <1>4 DEF TypeOK, AssertsHold
<1>6. /\ q \in Nat
      /\ \/ This.vals \in Seq(IntNodes) /\ q = stackpos + Len(This.vals)
         \/ This.vals \in Seq(FloatNodes) /\ q = stackpos + 2 * Len(This.vals)
  BY <1>2, <1>3 DEF Fits, Takes
<1>7. CASE This.vals = <<>>
  <2>1. Then(<<>>)  BY <1>7 DEF EmitRegArgs
  <2>2. q = stackpos  BY <1>3, <1>6, <1>7
  <2>3. Chain(<<>>, stackpos', q)  BY <1>3, <1>4, <2>2, ChainEmpty
  <2> QED BY <1>2, <1>3, <1>4, <1>5, <2>1, <2>3, StepKept
<1>8. CASE This.vals # <<>>
  <2> DEFINE v == This.vals[1]  x == EmitArgs(Tail(This.vals))  n == ArgSize(v.ty)
  <2>1. Then(Append(emit_arg(v), x))  BY <1>8 DEF EmitRegArgs
  <2>2. v \in Nodes /\ Fits(x, stackpos + n, q)
    <3>1. CASE This.vals \in Seq(IntNodes) /\ q = stackpos + Len(This.vals)
      <4>1. v \in IntNodes /\ Tail(This.vals) \in Seq(IntNodes)
            /\ Len(Tail(This.vals)) = Len(This.vals) - 1 /\ Len(This.vals) \in Nat
        BY <1>8, <3>1
      <4>2. v \in Nodes /\ n = 1  BY <4>1 DEF IntNodes, ArgSize
      <4>3. q = stackpos + 1 + Len(Tail(This.vals))
        <5> DEFINE k == Len(Tail(This.vals))  j == Len(This.vals)
        <5>1. k = j - 1 /\ j \in Nat /\ q = stackpos + j  BY <3>1, <4>1
        <5> HIDE DEF k, j
        <5>2. q = stackpos + 1 + k  BY <1>3, <5>1
        <5> QED BY <5>2 DEF k
      <4> QED BY <1>3, <1>6, <4>1, <4>2, <4>3 DEF Fits, Takes, EmitArgs, Items
    <3>2. CASE This.vals \in Seq(FloatNodes) /\ q = stackpos + 2 * Len(This.vals)
      <4>1. v \in FloatNodes /\ Tail(This.vals) \in Seq(FloatNodes)
            /\ Len(Tail(This.vals)) = Len(This.vals) - 1 /\ Len(This.vals) \in Nat
        BY <1>8, <3>2
      <4>2. v \in Nodes /\ n = 2  BY <4>1 DEF FloatNodes, ArgSize
      <4>3. q = stackpos + 2 + 2 * Len(Tail(This.vals))
        <5> DEFINE k == Len(Tail(This.vals))  j == Len(This.vals)
        <5>1. k = j - 1 /\ j \in Nat /\ q = stackpos + 2 * j  BY <3>2, <4>1
        <5> HIDE DEF k, j
        <5>2. q = stackpos + 2 + 2 * k  BY <1>3, <5>1
        <5> QED BY <5>2 DEF k
      <4> QED BY <1>3, <1>6, <4>1, <4>2, <4>3 DEF Fits, Takes, EmitArgs, Items
    <3> QED BY <1>6, <3>1, <3>2
  <2> HIDE DEF v, x
  <2>3. n \in Nat /\ Chain(emit_arg(v), stackpos, stackpos + n)  BY <1>3, <2>2, ArgChain
  <2> HIDE DEF n
  <2>4. Chain(Append(emit_arg(v), x), stackpos', q)  BY <1>3, <1>4, <2>2, <2>3, ChainAppend
  <2> QED BY <1>2, <1>3, <1>4, <1>5, <2>1, <2>4, StepKept
<1> QED BY <1>7, <1>8

LEMMA EmitJumpInv == ASSUME IInv, EmitJump PROVE IInv'
<1>1. Do("jump")  BY DEF EmitJump
<1>2. PICK q \in Int, r \in Int : Fits(This, stackpos, q) /\ Chain(Tail(todo), q, r)
  BY <1>1, Doing
<1>3. /\ TypeOK /\ status = "compiling" /\ current # 0 /\ stackpos \in Nat /\ loff \in Seq(Int)
      /\ nlabels \in Nat /\ This.do = "jump" /\ This \in Items
  BY <1>1, Doing
<1>4. This.node \in Nodes /\ This.ret \in Nat  BY <1>3, ItemParts DEF CallNodes
<1>5. q = stackpos  BY <1>2, <1>3 DEF Fits, Takes
<1> DEFINE to == IF This.node.kind = "callptr" THEN Op("jmpr", tmp, 0, 0) ELSE OpL("jmp", 0, This.node.n)
           ins == <<Mov(gb, zero), OpL("movi", gb, This.ret), to>>
<1>6. Emit(ins, "emit_func_call") /\ Then(<<>>)
      /\ UNCHANGED <<program, current, loff, stackpos, nlabels, place, status>>
  BY DEF EmitJump
<1>7. ins \in Seq(Instructions)
  <2>1. "jmpr" \in Opcodes /\ "jmp" \in Opcodes /\ "movi" \in Opcodes  BY DEF Opcodes
  <2>2. to \in Instructions  BY <1>4, <2>1, OpTyped, OpLTyped, NumberTyped
  <2> HIDE DEF to
  <2> QED BY <1>4, <2>1, <2>2, MovTyped, OpLTyped
<1> HIDE DEF ins
<1>8. TypeOK' /\ AssertsHold'
  <2>1. "emit_func_call" \in Emitters  BY DEF Emitters
  <2> QED BY <2>1, <1>3, <1>6, <1>7, EmitTyped, TypeKept DEF AssertsHold
<1>9. Chain(<<>>, stackpos', q)  BY <1>3, <1>5, <1>6, ChainEmpty
<1> QED BY <1>2, <1>3, <1>6, <1>8, <1>9, StepKept

LEMMA DropRestInv == ASSUME IInv, DropRest PROVE IInv'
<1>1. Do("drop")  BY DEF DropRest
<1>2. PICK q \in Int, r \in Int : Fits(This, stackpos, q) /\ Chain(Tail(todo), q, r)
  BY <1>1, Doing
<1>3. /\ TypeOK /\ status = "compiling" /\ current # 0 /\ stackpos \in Nat /\ loff \in Seq(Int)
      /\ nlabels \in Nat /\ This.do = "drop" /\ This \in Items
  BY <1>1, Doing
<1>4. This.n \in Nat  BY <1>3, ItemParts
<1>5. stackpos = q + This.n /\ q \in Nat  BY <1>2, <1>3 DEF Fits, Takes
<1>6. Then(<<>>) /\ UNCHANGED <<program, current, loff, nlabels, place, status>>
  BY DEF DropRest
<1>7. stackpos' = q /\ code' \in Seq(Emitted) /\ Len(code) <= Len(code')
  <2>1. CASE This.n = 0
    <3>1. UNCHANGED <<stackpos, code>>  BY <2>1 DEF DropRest
    <3> QED BY <1>3, <1>5, <2>1, <3>1 DEF TypeOK, Emitted
  <2>2. CASE This.n # 0
    <3>1. /\ Emit(<<Op("addi", sp, sp, This.n)>>, "emit_func_call")
          /\ stackpos' = stackpos - This.n
      BY <2>2 DEF DropRest
    <3>2. "addi" \in Opcodes /\ "emit_func_call" \in Emitters /\ This.n \in Int
      BY <1>4 DEF Opcodes, Emitters
    <3>3. <<Op("addi", sp, sp, This.n)>> \in Seq(Instructions)  BY <3>2, OpTyped
    <3>4. code' \in Seq(Emitted) /\ Len(code) <= Len(code')  BY <1>3, <3>1, <3>2, <3>3, EmitTyped
    <3>5. stackpos' = q  BY <1>4, <1>5, <3>1
    <3> QED BY <3>4, <3>5
  <2> QED BY <2>1, <2>2
<1>8. TypeOK' /\ AssertsHold'  BY <1>3, <1>5, <1>6, <1>7, TypeKept DEF AssertsHold
<1>9. Chain(<<>>, stackpos', q)  BY <1>7, ChainEmpty
<1> QED BY <1>2, <1>3, <1>6, <1>8, <1>9, StepKept

(* emit_func_call's own assertion.                                         *)
LEMMA CheckStackposInv == ASSUME IInv, CheckStackpos PROVE IInv'
<1>1. Do("assert")  BY DEF CheckStackpos
<1>2. PICK q \in Int, r \in Int : Fits(This, stackpos, q) /\ Chain(Tail(todo), q, r)
  BY <1>1, Doing
<1>3. /\ TypeOK /\ status = "compiling" /\ current # 0 /\ stackpos \in Nat /\ loff \in Seq(Int)
      /\ nlabels \in Nat /\ This.do = "assert" /\ This \in Items
  BY <1>1, Doing
<1>4. q = stackpos /\ This.opos = stackpos  BY <1>2, <1>3 DEF Fits, Takes
<1>5. Then(<<>>) /\ UNCHANGED <<program, current, loff, stackpos, nlabels, code, place>>
  BY DEF CheckStackpos
<1>6. status' = "compiling"  BY <1>3, <1>4 DEF CheckStackpos
<1>7. TypeOK' /\ AssertsHold'  BY <1>3, <1>5, <1>6 DEF TypeOK, AssertsHold
<1>8. Chain(<<>>, stackpos', q)  BY <1>3, <1>4, <1>5, ChainEmpty
<1> QED BY <1>2, <1>3, <1>5, <1>7, <1>8, StepKept

(* The parameters come last: their item leaves a height no item starts at. *)
LEMMA ParamsLast == ASSUME IInv, Do("params")
                    PROVE  Tail(todo) = <<>> /\ Chain(Tail(todo), -1, -1)
<1>1. PICK q \in Int, r \in Int : Fits(This, stackpos, q) /\ Chain(Tail(todo), q, r)
  BY Doing
<1>2. q = -1  BY <1>1, Doing DEF Fits
<1>3. Tail(todo) = <<>>
  <2> SUFFICES ASSUME Tail(todo) # <<>> PROVE FALSE  OBVIOUS
  <2> DEFINE s == Tail(todo)
  <2>1. \E z \in Int : Fits(s[1], q, z)
    <3> HIDE DEF s
    <3>1. Chain(s, q, r)  BY <1>1 DEF s
    <3>2. s # <<>>  BY DEF s
    <3> QED BY <3>1, <3>2, ChainHead
  <2> QED BY <1>2, <2>1 DEF Fits
<1>4. -1 \in Int  OBVIOUS
<1>5. Chain(<<>>, -1, -1)  BY <1>4, ChainEmpty
<1> QED BY <1>3, <1>5

LEMMA ParamKept ==
  ASSUME IInv, Do("params"), NEW ty, PushParam(ty), NEW i \in Nat \ {0}, NEW off \in Int,
         NEW arg \in Nat, NEW ireg \in 0 .. 6, NEW xreg \in 0 .. 2,
         Then(<<Params(i, off, arg, ireg, xreg)>>),
         stackpos' \in Nat, code' \in Seq(Emitted), Len(code) <= Len(code'),
         loff' = Append(loff, todo'[1].off),
         UNCHANGED <<program, current, nlabels, place, status>>
  PROVE  IInv'
<1> DEFINE x == Params(i, off, arg, ireg, xreg)
<1>1. TypeOK /\ status = "compiling" /\ current # 0 /\ loff \in Seq(Int) /\ nlabels \in Nat
  BY Doing
<1>2. Fits(x, stackpos', -1) /\ x.off = off  BY DEF Fits, Params, Items
<1>3. Then(<<x>>)  OBVIOUS
<1> HIDE DEF x
<1>4. todo'[1] = x
  <2>1. todo' = <<x>> \o <<>>  BY <1>3, ParamsLast DEF Then
  <2> QED BY <2>1
<1>5. loff' \in Seq(Int)  BY <1>1, <1>2, <1>4
<1>6. TypeOK' /\ AssertsHold'  BY <1>1, <1>5, TypeKept DEF AssertsHold
<1>7. Chain(<<x>>, stackpos', -1)  BY <1>2, ChainOne
<1> QED BY <1>1, <1>3, <1>6, <1>7, ParamsLast, StepKept

LEMMA EmitParamsInv == ASSUME IInv, EmitParams PROVE IInv'
<1>1. Do("params")  BY DEF EmitParams
<1>2. PICK q \in Int, r \in Int : Fits(This, stackpos, q) /\ Chain(Tail(todo), q, r)
  BY <1>1, Doing
<1>3. /\ TypeOK /\ status = "compiling" /\ current # 0 /\ stackpos \in Nat /\ loff \in Seq(Int)
      /\ nlabels \in Nat /\ This.do = "params" /\ This \in Items
  BY <1>1, Doing
<1>4. /\ This.i \in Nat \ {0} /\ This.off \in Int /\ This.arg \in Nat
      /\ This.ireg \in 0 .. 6 /\ This.xreg \in 0 .. 2
  BY <1>3, ItemParts
<1> DEFINE ty == program[current].params[This.i]
<1>5. PushParam(ty) /\ loff' = Append(loff, todo'[1].off)
      /\ UNCHANGED <<program, current, nlabels, place, status>>
  BY DEF EmitParams
<1> HIDE DEF ty
<1>6. "prologue" \in Emitters /\ "addi" \in Opcodes /\ "subi" \in Opcodes  BY DEF Emitters, Opcodes
<1>7. This.i + 1 \in Nat \ {0} /\ This.off - 1 \in Int /\ This.off - 4 \in Int
      /\ This.arg + 1 \in Nat /\ This.arg + 4 \in Nat
  BY <1>4
<1>8. CASE ty = "struct"
  <2> DEFINE ins == <<Op("addi", rax, rbp, This.arg)>> \o StructCode(Words(ty))
  <2>1. /\ Emit(ins, "prologue") /\ stackpos' = stackpos + Words(ty) + 1
        /\ Then(<<Params(This.i + 1, This.off - Size(ty), This.arg + Size(ty), This.ireg, This.xreg)>>)
    BY <1>5, <1>8 DEF PushParam
  <2>2. Words(ty) = 2 /\ Size(ty) = 4  BY DEF Words, Size
  <2>3. ins \in Seq(Instructions)
    <3>1. <<Op("addi", rax, rbp, This.arg)>> \in Seq(Instructions)  BY <1>4, <1>6, OpTyped
    <3>2. StructCode(Words(ty)) \in Seq(Instructions)  BY <2>2, StructCodeTyped
    <3> QED BY <3>1, <3>2
  <2> HIDE DEF ins
  <2>4. code' \in Seq(Emitted) /\ Len(code) <= Len(code')  BY <1>3, <1>6, <2>1, <2>3, EmitTyped
  <2>5. stackpos' \in Nat  BY <1>3, <2>1, <2>2
  <2> QED BY <1>1, <1>4, <1>5, <1>7, <2>1, <2>2, <2>4, <2>5, ParamKept
<1>9. CASE ty = "float" /\ This.xreg < 2
  <2>1. /\ Push(FREGS[This.xreg + 1], 2, "prologue")
        /\ Then(<<Params(This.i + 1, This.off - 1, This.arg, This.ireg, This.xreg + 1)>>)
    BY <1>5, <1>9 DEF PushParam
  <2>2. This.xreg \in 0 .. 1 /\ This.xreg + 1 \in 0 .. 2  BY <1>4, <1>9
  <2>3. stackpos' \in Nat /\ code' \in Seq(Emitted) /\ Len(code) <= Len(code')
    BY <1>3, <1>6, <2>1, <2>2, RegsTyped, PushKept
  <2> QED BY <1>1, <1>4, <1>5, <1>7, <2>1, <2>2, <2>3, ParamKept
<1>10. CASE ty = "int" /\ This.ireg < 6
  <2>1. /\ Push(REGS[This.ireg + 1], 1, "prologue")
        /\ Then(<<Params(This.i + 1, This.off - 1, This.arg, This.ireg + 1, This.xreg)>>)
    BY <1>5, <1>10 DEF PushParam
  <2>2. This.ireg \in 0 .. 5 /\ This.ireg + 1 \in 0 .. 6  BY <1>4, <1>10
  <2>3. stackpos' \in Nat /\ code' \in Seq(Emitted) /\ Len(code) <= Len(code')
    BY <1>3, <1>6, <2>1, <2>2, RegsTyped, PushKept
  <2> QED BY <1>1, <1>4, <1>5, <1>7, <2>1, <2>2, <2>3, ParamKept
<1>11. CASE ty # "struct" /\ ~ (ty = "float" /\ This.xreg < 2) /\ ~ (ty = "int" /\ This.ireg < 6)
  <2> DEFINE ins == <<Str(rax, rbp, This.arg), Op("subi", sp, sp, 1), Str(rax, sp, 0)>>
  <2>1. /\ Emit(ins, "prologue") /\ stackpos' = stackpos + 1
        /\ Then(<<Params(This.i + 1, This.off - 1, This.arg + 1, This.ireg, This.xreg)>>)
    BY <1>5, <1>11 DEF PushParam
  <2>2. ins \in Seq(Instructions)  BY <1>4, <1>6, OpTyped, StrTyped
  <2> HIDE DEF ins
  <2>3. code' \in Seq(Emitted) /\ Len(code) <= Len(code')  BY <1>3, <1>6, <2>1, <2>2, EmitTyped
  <2>4. stackpos' \in Nat  BY <1>3, <2>1
  <2> QED BY <1>1, <1>4, <1>5, <1>7, <2>1, <2>3, <2>4, ParamKept
<1> QED BY <1>8, <1>9, <1>10, <1>11

LEMMA BodyChain == ASSUME NEW f \in Functions, NEW p \in Nat PROVE Chain(Body(f), p, p)
<1>1. f.body \in Nodes  BY DEF Functions
<1>2. "emit_toplevel" \in Emitters  BY DEF Emitters
<1>3. <<Movi(rax, 0)>> \in Seq(Instructions)  BY MoviTyped
<1> DEFINE a == <<Expr(f.body)>>
           b == IF f.main THEN <<Code(<<Movi(rax, 0)>>, "emit_toplevel")>> ELSE <<>>
<1>4. Chain(a, p, p)  BY <1>1, ExprFits, ChainOne
<1>5. Chain(b, p, p)
  <2>1. Chain(<<Code(<<Movi(rax, 0)>>, "emit_toplevel")>>, p, p)  BY <1>2, <1>3, CodeChain
  <2>2. Chain(<<>>, p, p)  BY ChainEmpty
  <2> QED BY <2>1, <2>2
<1>6. Body(f) = a \o b \o emit_ret  BY DEF Body
<1> HIDE DEF a, b
<1>7. Chain(a \o b, p, p)  BY <1>4, <1>5, ChainCat
<1> QED BY <1>6, <1>7, RetChain, ChainCat

LEMMA EmitLocalsInv == ASSUME IInv, EmitLocals PROVE IInv'
<1>1. Do("params")  BY DEF EmitLocals
<1>2. PICK q \in Int, r \in Int : Fits(This, stackpos, q) /\ Chain(Tail(todo), q, r)
  BY <1>1, Doing
<1>3. /\ TypeOK /\ status = "compiling" /\ current # 0 /\ stackpos \in Nat /\ loff \in Seq(Int)
      /\ nlabels \in Nat /\ This.do = "params" /\ This \in Items
  BY <1>1, Doing
<1> DEFINE f == program[current]  n == Len(f.params)  m == Len(f.locals)
           localarea == Size("int") * m
           places == [j \in 1 .. m |-> 0 - n - Size("int") * j]
<1>4. f \in Functions  BY <1>3, ProgramTyped
<1>5. n \in Nat /\ m \in Nat /\ localarea = 4 * m /\ Size("int") = 4  BY <1>4 DEF Functions, Size
<1>6. /\ loff' = loff \o places
      /\ IF localarea = 0 THEN UNCHANGED <<stackpos, code>>
         ELSE /\ Emit(<<Op("subi", sp, rbp, localarea)>>, "prologue")
              /\ stackpos' = stackpos + localarea
      /\ Then(Body(f))
      /\ UNCHANGED <<program, current, nlabels, place, status>>
  BY DEF EmitLocals
<1> HIDE DEF f
<1>7. loff' \in Seq(Int)
  <2>1. \A j \in 1 .. m : 0 - n - Size("int") * j \in Int  BY <1>5
  <2>2. places \in Seq(Int)  BY <1>5, <2>1
  <2> HIDE DEF places
  <2> QED BY <1>3, <1>6, <2>2
<1>8. localarea \in Nat  BY <1>5
<1> HIDE DEF localarea, places
<1>9. stackpos' \in Nat /\ code' \in Seq(Emitted) /\ Len(code) <= Len(code')
  <2>1. CASE localarea = 0  BY <1>3, <1>6, <2>1 DEF TypeOK, Emitted
  <2>2. CASE localarea # 0
    <3>1. Emit(<<Op("subi", sp, rbp, localarea)>>, "prologue") /\ stackpos' = stackpos + localarea
      BY <1>6, <2>2
    <3>2. "subi" \in Opcodes /\ "prologue" \in Emitters  BY DEF Opcodes, Emitters
    <3>3. <<Op("subi", sp, rbp, localarea)>> \in Seq(Instructions)  BY <1>8, <3>2, OpTyped
    <3>4. stackpos' \in Nat  BY <1>3, <1>8, <3>1
    <3>5. code' \in Seq(Emitted) /\ Len(code) <= Len(code')  BY <1>3, <3>1, <3>2, <3>3, EmitTyped
    <3> QED BY <3>4, <3>5
  <2> QED BY <2>1, <2>2
<1>10. TypeOK' /\ AssertsHold'  BY <1>3, <1>6, <1>7, <1>9, TypeKept DEF AssertsHold
<1>11. Chain(Body(f), stackpos', stackpos')  BY <1>4, <1>9, BodyChain
<1>12. Chain(Tail(todo), stackpos', stackpos')
  <2>1. Tail(todo) = <<>> /\ stackpos' \in Int  BY <1>1, <1>9, ParamsLast
  <2> QED BY <2>1, ChainEmpty
<1>13. stackpos' \in Int  BY <1>9
<1> QED BY <1>3, <1>6, <1>10, <1>11, <1>12, <1>13, StepKept

-----------------------------------------------------------------------------
LEMMA StepInv == IInv /\ [Next]_vars => IInv'
<1> SUFFICES ASSUME IInv, [Next]_vars PROVE IInv'  OBVIOUS
<1>1. CASE UNCHANGED vars  BY <1>1 DEF vars, IInv, TypeOK, AssertsHold
<1>2. CASE SaveArgRegs
  BY <1>2, SaveIntsInv, SaveFloatsInv DEF SaveArgRegs
<1>3. CASE PopArgRegs
  BY <1>3, PopIntsInv, PopFloatsInv DEF PopArgRegs
<1> QED BY <1>1, <1>2, <1>3, NextFunctionInv, FinishInv, EmitExprInv, EmitCodeInv, EmitLabelInv,
           EmitPushInv, EmitPopInv, EmitStructInv, ClassifyArgsInv, EmitRestArgsInv, EmitRegArgsInv,
           EmitJumpInv, DropRestInv, CheckStackposInv, EmitParamsInv, EmitLocalsInv DEF Next

(* Whatever the program, the generator counts in natural numbers, stackpos *)
(* among them, and what it emits is instructions: TypeOK.                  *)
THEOREM TypeCorrect == Spec => []TypeOK
<1>1. Spec => []IInv  BY InitInv, StepInv, PTL DEF Spec
<1>2. IInv => TypeOK  BY DEF IInv
<1> QED BY <1>1, <1>2, PTL

(* Whatever the program, however its expressions and calls are nested, no  *)
(* assertion of the generator stops it: a call ends with stackpos as it    *)
(* began, and no pop takes it below zero.                                  *)
THEOREM NoAbort == Spec => []AssertsHold
<1>1. Spec => []IInv  BY InitInv, StepInv, PTL DEF Spec
<1>2. IInv => AssertsHold  BY DEF IInv
<1> QED BY <1>1, <1>2, PTL
=============================================================================
