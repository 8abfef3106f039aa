------------------------------ MODULE CodeGen -------------------------------
(***************************************************************************)
(* The EX_ISA code generator, gen_ex_isa_rebuild.c: emit_toplevel for each *)
(* function of a program, emit_expr and the functions it dispatches to.    *)
(* Temporaries, saved registers and arguments live on the stack of the     *)
(* machine that will run the code; the generator counts its words in       *)
(* stackpos.                                                               *)
(*                                                                         *)
(* An emit_ function is the sequence of things it does, its script: code   *)
(* to emit, push and pop, a subexpression.  todo holds what is left of the *)
(* scripts of all the functions that are active, and a step does the first *)
(* of it.  The loops and counters of calls and parameters are steps of     *)
(* their own.  Left out: bit-fields, initializers, members, variable       *)
(* arguments, goto, and what narrow types need after a load.               *)
(***************************************************************************)
EXTENDS Integers, Sequences

CONSTANTS
  Nodes,     (* the syntax trees, and all of their subtrees *)
  Programs   (* sequences of functions *)

Kinds == {"lit", "flit", "lvar", "gvar", "funcdesg", "addr", "deref", "conv",
          "arith", "ptrarith", "floatarith", "comp", "bitop", "lognot", "logand", "logor", "cond",
          "comma", "block", "assign", "copy", "preinc", "postinc", "call", "callptr", "return"}
Types == {"int", "float", "struct"}

Functions == [params : Seq(Types), locals : Seq(Types), main : BOOLEAN, body : Nodes]

(* The instructions, first those that stand for an operator of the source; *)
(* and the functions that emit them, prologue for emit_func_prologue.      *)
Operators == {"add", "sub", "mult", "and", "or", "xor", "setlt", "setle", "seteq", "setne"}
Opcodes == Operators \cup {"addi", "subi", "multi", "mov", "movi", "ldr", "str", "copy",
                           "cmp", "jz", "jmp", "jmpr", "halt", "nop"}
Emitters == {"emit_addr", "emit_args", "emit_assign_deref", "do_emit_assign_deref", "emit_binop",
             "emit_bitop", "emit_comp", "emit_copy_struct", "emit_func_call", "emit_gload",
             "emit_gsave", "emit_inc_dec", "emit_literal", "emit_lload", "emit_load_convert",
             "emit_logand", "emit_lognot", "emit_logor", "emit_lsave", "emit_pointer_arith",
             "emit_post_inc_dec", "emit_ret", "emit_return", "emit_ternary", "emit_toplevel",
             "pop_float_args", "pop_int_args", "prologue", "push_struct", "restore_arg_regs",
             "save_arg_regs"}

(* How many operands the parser gives a node at least.                     *)
Arity(kind) ==
  CASE kind \in {"lit", "flit", "lvar", "gvar", "funcdesg", "block", "call", "return"} -> 0
    [] kind \in {"addr", "deref", "conv", "lognot", "preinc", "postinc", "callptr"} -> 1
    [] OTHER -> 2

(* n is the value of a literal, the number of a variable or a function; op *)
(* the instruction of an operator.  The last kid of a callptr is its fptr. *)
ASSUME TreeAssumption ==
  \A t \in Nodes : /\ t.kind \in Kinds /\ t.ty \in Types /\ t.n \in Nat
                   /\ t.kind \in {"arith", "ptrarith", "floatarith", "comp", "bitop", "preinc", "postinc"}
                        => t.op \in Operators
                   /\ t.kids \in Seq(Nodes) /\ Len(t.kids) >= Arity(t.kind)
ASSUME ProgramAssumption == Programs \subseteq Seq(Functions)

VARIABLES
  program,
  current,    (* the number of the function being generated *)
  loff,       (* the places of its parameters and locals, from FP *)
  todo,       (* what is left to do for it *)
  stackpos,
  nlabels,    (* make_label's counter; function k has label k *)
  code,       (* the instructions emitted, with who emitted them and at which stackpos *)
  place,      (* label -> the position it stands for *)
  status      (* "compiling", "done", or "aborted" by an assertion *)

vars == <<program, current, loff, todo, stackpos, nlabels, code, place, status>>

zero == 0
rax == 1
rbx == 2
rcx == 3
rdx == 4
rsi == 6
rdi == 7
xmm0 == 8
xmm1 == 9
gb == 10
rbp == 11
sp == 12
tmp == 13

REGS == <<rax, rbx, rcx, rdx, rdi, rsi>>
FREGS == <<xmm0, xmm1>>

(* sizeof is in bytes, the machine's addresses are of words of two bytes.  *)
Size(ty) == 4
Words(ty) == Size(ty) \div 2

(* Instructions: registers a and b, a register or a number c, a label l.   *)
Op(op, a, b, c) == [op |-> op, a |-> a, b |-> b, c |-> c, l |-> 0]
OpL(op, a, l) == [op |-> op, a |-> a, b |-> 0, c |-> 0, l |-> l]
Mov(a, b) == Op("mov", a, b, 0)
Movi(a, n) == Op("movi", a, 0, n)
Ldr(a, b, n) == Op("ldr", a, b, n)
Str(a, b, n) == Op("str", a, b, n)

(* Things to do.                                                           *)
Expr(t) == [do |-> "expr", node |-> t]
Code(ins, by) == [do |-> "code", ins |-> ins, by |-> by]
PushR(reg, by) == [do |-> "push", reg |-> reg, words |-> 1, by |-> by]
PopR(reg, by) == [do |-> "pop", reg |-> reg, words |-> 1, by |-> by]
PushX(reg, by) == [do |-> "push", reg |-> reg, words |-> 2, by |-> by]
PopX(reg, by) == [do |-> "pop", reg |-> reg, words |-> 2, by |-> by]
PushStruct(ty) == [do |-> "pushstruct", words |-> Words(ty)]
Label(l) == [do |-> "label", l |-> l]

-----------------------------------------------------------------------------
(* Scripts.  k and k + 1 are labels nobody uses yet.                       *)

(* The place of a variable: zero until it has been given one.              *)
Off(n) == IF n \in DOMAIN loff THEN loff[n] ELSE 0

emit_addr(t) ==
  CASE t.kind = "lvar" -> <<Code(<<Op("addi", rax, rbp, Off(t.n))>>, "emit_addr")>>
    [] t.kind = "gvar" -> <<Code(<<Mov(rax, zero), Movi(rax, t.n)>>, "emit_addr")>>
    [] t.kind = "deref" -> <<Expr(t.kids[1])>>
    [] OTHER -> <<Code(<<Mov(rax, zero), OpL("movi", rax, t.n)>>, "emit_addr")>>

emit_assign_deref(t) ==
  << PushR(rax, "emit_assign_deref"),
     Expr(t.kids[1]),
     Code(<<Ldr(rcx, sp, 0), Str(rax, rcx, 0)>>, "do_emit_assign_deref"),
     PopR(rax, "do_emit_assign_deref") >>

emit_store(t) ==
  CASE t.kind = "deref" -> emit_assign_deref(t)
    [] t.kind = "lvar" -> <<Code(<<Str(rax, rbp, Off(t.n))>>, "emit_lsave")>>
    [] OTHER -> <<Code(<<Str(rax, zero, t.n)>>, "emit_gsave")>>

emit_binop_int_arith(t) ==
  << Expr(t.kids[1]), PushR(rax, "emit_binop"), Expr(t.kids[2]),
     Code(<<Mov(rcx, rax)>>, "emit_binop"), PopR(rax, "emit_binop"),
     Code(<<Op(t.op, rax, rax, rcx)>>, "emit_binop") >>

emit_binop_float_arith(t) ==
  << Expr(t.kids[1]), PushX(xmm0, "emit_binop"), Expr(t.kids[2]),
     Code(<<Mov(xmm1, xmm0)>>, "emit_binop"), PopX(xmm0, "emit_binop"),
     Code(<<Op(t.op, xmm0, xmm0, xmm1)>>, "emit_binop") >>

emit_pointer_arith(t) ==
  << Expr(t.kids[1]), PushR(rcx, "emit_pointer_arith"), PushR(rax, "emit_pointer_arith"),
     Expr(t.kids[2]),
     Code(<<Op("multi", rax, rax, Size("int")), Mov(rcx, rax)>>, "emit_pointer_arith"),
     PopR(rax, "emit_pointer_arith"),
     Code(<<Op(t.op, rcx, rax, rax)>>, "emit_pointer_arith"),
     PopR(rcx, "emit_pointer_arith") >>

emit_comp(t) ==
  IF t.kids[1].ty = "float"
  THEN << Expr(t.kids[1]), PushX(xmm0, "emit_comp"), Expr(t.kids[2]), PopX(xmm1, "emit_comp"),
          Code(<<Op("cmp", xmm0, xmm1, 0), Op(t.op, rax, 0, 0), Mov(rax, rax)>>, "emit_comp") >>
  ELSE << Expr(t.kids[1]), PushR(rax, "emit_comp"), Expr(t.kids[2]), PopR(rcx, "emit_comp"),
          Code(<<Op("cmp", rax, rcx, 0), Op(t.op, rax, 0, 0), Mov(rax, rax)>>, "emit_comp") >>

emit_bitop(t) ==
  << Expr(t.kids[1]), PushR(rax, "emit_bitop"), Expr(t.kids[2]), PopR(rcx, "emit_bitop"),
     Code(<<Op(t.op, rax, rcx, rax)>>, "emit_bitop") >>

emit_ternary(t, k) ==
  << Expr(t.kids[1]), Code(<<OpL("jz", rax, k)>>, "emit_ternary"), Expr(t.kids[2]) >>
  \o (IF Len(t.kids) = 3
      THEN << Code(<<OpL("jmp", 0, k + 1)>>, "emit_ternary"),
              Label(k), Expr(t.kids[3]), Label(k + 1) >>
      ELSE << Label(k) >>)

(* cmp rax, rax; mov rax, 0; jz rax: see the README.                       *)
TestAnd(k) == Code(<<Op("cmp", rax, rax, 0), Mov(rax, zero), OpL("jz", rax, k)>>, "emit_logand")

emit_logand(t, k) ==
  << Expr(t.kids[1]), TestAnd(k), Expr(t.kids[2]), TestAnd(k),
     Code(<<Movi(rax, 1)>>, "emit_logand"), Label(k) >>

emit_logor(t, k) ==
  << Expr(t.kids[1]),
     Code(<<OpL("jz", rax, k), Movi(rax, 1), OpL("jmp", 0, k + 1)>>, "emit_logor"),
     Label(k), Expr(t.kids[2]),
     Code(<<OpL("jz", rax, k + 1), Movi(rax, 1)>>, "emit_logor"), Label(k + 1) >>

emit_copy_struct(t) ==
  << PushR(rcx, "emit_copy_struct") >> \o emit_addr(t.kids[2])
  \o << Code(<<Mov(rcx, rax)>>, "emit_copy_struct") >> \o emit_addr(t.kids[1])
  \o << Code(<<Op("copy", rcx, rax, Words("struct"))>>, "emit_copy_struct"),
        PopR(rcx, "emit_copy_struct") >>

(* add rax, 1, rax: the step stands where a register does.                 *)
IncDec(t) == Code(<<Op(t.op, rax, 1, rax)>>, "emit_inc_dec")

(* Mutant: the stack pointer is not taken back to the frame.               *)
NoUnwind ==
  IF program[current].main THEN <<Code(<<Op("halt", 0, 0, 0)>>, "emit_ret")>>
  ELSE << Code(<<Ldr(rbp, sp, 0), Ldr(gb, sp, 1), Op("addi", sp, sp, 2),
                 Op("jmpr", gb, 0, 0)>>, "emit_ret") >>

(* Mutant: the link is taken for the saved frame pointer.                  *)
LinkFromFrame ==
  IF program[current].main THEN <<Code(<<Op("halt", 0, 0, 0)>>, "emit_ret")>>
  ELSE << Code(<<Mov(sp, rbp), Ldr(rbp, sp, 0), Ldr(gb, sp, 0), Op("addi", sp, sp, 2),
                 Op("jmpr", gb, 0, 0)>>, "emit_ret") >>

emit_ret ==
  IF program[current].main THEN <<Code(<<Op("halt", 0, 0, 0)>>, "emit_ret")>>
  ELSE << Code(<<Mov(sp, rbp), Ldr(rbp, sp, 0), Ldr(gb, sp, 1), Op("addi", sp, sp, 2),
                 Op("jmpr", gb, 0, 0)>>, "emit_ret") >>

emit_return(t) ==
  (IF t.kids # <<>> THEN <<Expr(t.kids[1])>>
   ELSE IF program[current].main THEN <<Code(<<Movi(rax, 0)>>, "emit_return")>> ELSE <<>>)
  \o emit_ret

emit_literal(t) == <<Code(<<Movi(IF t.kind = "flit" THEN xmm0 ELSE rax, t.n)>>, "emit_literal")>>
emit_lload(base, off) == <<Code(<<Ldr(rax, base, off)>>, "emit_lload")>>
emit_gload(t) == <<Code(<<Ldr(rax, zero, t.n)>>, "emit_gload")>>
emit_deref(t) == <<Expr(t.kids[1])>> \o emit_lload(rax, 0)
emit_load_convert(to, from) ==
  IF from = "int" /\ to = "float" THEN <<Code(<<Mov(xmm0, rax)>>, "emit_load_convert")>>
  ELSE IF from = "float" /\ to = "int" THEN <<Code(<<Mov(rax, rax)>>, "emit_load_convert")>>
  ELSE <<>>
emit_assign(t) ==
  <<Expr(t.kids[2])>> \o emit_load_convert(t.ty, t.kids[2].ty) \o emit_store(t.kids[1])
emit_lognot(t) ==
  <<Expr(t.kids[1]), Code(<<Op("cmp", rax, zero, 0), Op("seteq", rax, 0, 0)>>, "emit_lognot")>>
emit_pre_inc_dec(t) == <<Expr(t.kids[1]), IncDec(t)>> \o emit_store(t.kids[1])
emit_post_inc_dec(t) ==
  <<Expr(t.kids[1]), PushR(rax, "emit_post_inc_dec"), IncDec(t)>>
  \o emit_store(t.kids[1]) \o <<PopR(rax, "emit_post_inc_dec")>>

(* emit_expr: what a node becomes.  A call is split up by steps.           *)
Script(t, k) ==
  CASE t.kind \in {"lit", "flit"} -> emit_literal(t)
    [] t.kind = "lvar" -> emit_lload(rbp, Off(t.n))
    [] t.kind = "gvar" -> emit_gload(t)
    [] t.kind = "funcdesg" -> emit_addr(t)
    [] t.kind = "addr" -> emit_addr(t.kids[1])
    [] t.kind = "deref" -> emit_deref(t)
    [] t.kind = "conv" -> <<Expr(t.kids[1])>> \o emit_load_convert(t.ty, t.kids[1].ty)
    [] t.kind = "arith" -> emit_binop_int_arith(t)
    [] t.kind = "ptrarith" -> emit_pointer_arith(t)
    [] t.kind = "floatarith" -> emit_binop_float_arith(t)
    [] t.kind = "comp" -> emit_comp(t)
    [] t.kind = "bitop" -> emit_bitop(t)
    [] t.kind = "lognot" -> emit_lognot(t)
    [] t.kind = "logand" -> emit_logand(t, k)
    [] t.kind = "logor" -> emit_logor(t, k)
    [] t.kind = "cond" -> emit_ternary(t, k)
    [] t.kind \in {"comma", "block"} -> [i \in 1 .. Len(t.kids) |-> Expr(t.kids[i])]
    [] t.kind = "assign" -> emit_assign(t)
    [] t.kind = "copy" -> emit_copy_struct(t)
    [] t.kind = "preinc" -> emit_pre_inc_dec(t)
    [] t.kind = "postinc" -> emit_post_inc_dec(t)
    [] t.kind = "return" -> emit_return(t)
    [] OTHER -> <<>>

(* emit_func_call.  The three vectors of classify_args and opos stay with  *)
(* the call until it is done; the loops over them are steps.               *)
Args(t) == IF t.kind = "callptr" THEN SubSeq(t.kids, 1, Len(t.kids) - 1) ELSE t.kids
Call(t, pos) == [node |-> t, ints |-> <<>>, floats |-> <<>>, rest |-> <<>>, opos |-> pos]

Classify(call, args) == [do |-> "classify", call |-> call, args |-> args]
SaveInts(n, i) == [do |-> "saveints", n |-> n, i |-> i]
SaveFloats(n, i) == [do |-> "savefloats", n |-> n, i |-> i]
PopInts(n, by) == [do |-> "popints", n |-> n, by |-> by]
PopFloats(n, low, by) == [do |-> "popfloats", n |-> n, low |-> low, by |-> by]
EmitRest(call, vals, r) == [do |-> "emitrest", call |-> call, vals |-> vals, r |-> r]
EmitArgs(vals) == [do |-> "emitargs", vals |-> vals]
CallJump(t, ret) == [do |-> "jump", node |-> t, ret |-> ret]
Drop(n) == [do |-> "drop", n |-> n]
Assert(pos) == [do |-> "assert", opos |-> pos]

(* Mutant: a float is counted as the one word it takes.                    *)
FloatIsWord(ty) == IF ty = "struct" THEN Words(ty) + 1 ELSE 1

(* One turn of emit_args, and what it adds to its result.                  *)
emit_arg(v) ==
  CASE v.ty = "struct" -> Append(emit_addr(v), PushStruct(v.ty))
    [] v.ty = "float" -> <<Expr(v), PushX(xmm0, "emit_args")>>
    [] OTHER -> <<Expr(v), PushR(rax, "emit_args")>>
ArgSize(ty) == CASE ty = "struct" -> Words(ty) + 1 [] ty = "float" -> 2 [] OTHER -> 1

(* Mutant: the integers are popped before the floats that lie on them.     *)
IntsFirst(call, restsize, ret) ==
  LET nints == Len(call.ints)  nfloats == Len(call.floats)
      isptr == call.node.kind = "callptr"
  IN (IF isptr THEN <<Expr(call.node.kids[Len(call.node.kids)]), PushR(rax, "emit_func_call")>>
               ELSE <<>>)
     \o << EmitArgs(call.ints), EmitArgs(call.floats),
           PopInts(nints, "pop_int_args"), PopFloats(nfloats, 0, "pop_float_args") >>
     \o (IF isptr THEN <<PopR(tmp, "emit_func_call")>> ELSE <<>>)
     \o << PushR(gb, "emit_func_call"), CallJump(call.node, ret), Label(ret), PopR(gb, "emit_func_call"),
           Drop(restsize),
           PopFloats(nfloats, 1, "restore_arg_regs"), PopInts(nints, "restore_arg_regs"),
           Assert(call.opos) >>

(* The call from emit_args(rest) on, whose result is restsize.             *)
AfterRest(call, restsize, ret) ==
  LET nints == Len(call.ints)  nfloats == Len(call.floats)
      isptr == call.node.kind = "callptr"
  IN (IF isptr THEN <<Expr(call.node.kids[Len(call.node.kids)]), PushR(rax, "emit_func_call")>>
               ELSE <<>>)
     \o << EmitArgs(call.ints), EmitArgs(call.floats),
           PopFloats(nfloats, 0, "pop_float_args"), PopInts(nints, "pop_int_args") >>
     \o (IF isptr THEN <<PopR(tmp, "emit_func_call")>> ELSE <<>>)
     \o << PushR(gb, "emit_func_call"), CallJump(call.node, ret), Label(ret), PopR(gb, "emit_func_call"),
           Drop(restsize),
           PopFloats(nfloats, 1, "restore_arg_regs"), PopInts(nints, "restore_arg_regs"),
           Assert(call.opos) >>

(* push_func_params reads the parameters one by one; the rest of the       *)
(* function waits for its result.                                          *)
Params(i, off, arg, ireg, xreg) ==
  [do |-> "params", i |-> i, off |-> off, arg |-> arg, ireg |-> ireg, xreg |-> xreg]

Prologue(f) ==
  << Label(f), Code(<<Op("nop", 0, 0, 0)>>, "prologue"),
     PushR(gb, "prologue"), PushR(rbp, "prologue"), Code(<<Mov(rbp, sp)>>, "prologue"),
     Params(1, 0, 3, 0, 0) >>

Body(f) ==
  << Expr(f.body) >>
  \o (IF f.main THEN <<Code(<<Movi(rax, 0)>>, "emit_toplevel")>> ELSE <<>>)
  \o emit_ret

-----------------------------------------------------------------------------
Init ==
  /\ program \in Programs
  /\ current = 0
  /\ loff = <<>> /\ todo = <<>> /\ code = <<>>
  /\ stackpos = 0
  /\ nlabels = Len(program)
  /\ place = <<>>
  /\ status = "compiling"

Do(what) == status = "compiling" /\ todo # <<>> /\ todo[1].do = what
This == todo[1]
Then(script) == todo' = script \o Tail(todo)

Emit(ins, by) ==
  code' = code \o [i \in 1 .. Len(ins) |->
                     [ins |-> ins[i], by |-> by, depth |-> stackpos, fn |-> current]]

(* emit_toplevel                                                           *)
NextFunction ==
  /\ status = "compiling" /\ todo = <<>> /\ current < Len(program)
  /\ current' = current + 1
  /\ todo' = Prologue(current + 1)
  /\ stackpos' = 1
  /\ loff' = <<>>
  /\ UNCHANGED <<program, nlabels, code, place, status>>

Finish ==
  /\ status = "compiling" /\ todo = <<>> /\ current = Len(program)
  /\ status' = "done"
  /\ UNCHANGED <<program, current, loff, todo, stackpos, nlabels, code, place>>

EmitExpr ==
  /\ Do("expr")
  /\ IF This.node.kind \in {"call", "callptr"}
     THEN /\ Then(<<Classify(Call(This.node, stackpos), Args(This.node))>>)
          /\ UNCHANGED nlabels
     ELSE /\ Then(Script(This.node, nlabels + 1))
          /\ nlabels' = nlabels + 2
  /\ UNCHANGED <<program, current, loff, stackpos, code, place, status>>

EmitCode ==
  /\ Do("code")
  /\ Emit(This.ins, This.by)
  /\ Then(<<>>)
  /\ UNCHANGED <<program, current, loff, stackpos, nlabels, place, status>>

(* Mutant: a label stands for the instruction after the next one.          *)
LabelLate ==
  /\ Do("label")
  /\ place' = [l \in DOMAIN place \cup {This.l} |->
                 IF l = This.l THEN Len(code) + 2 ELSE place[l]]
  /\ Then(<<>>)
  /\ UNCHANGED <<program, current, loff, stackpos, nlabels, code, status>>

EmitLabel ==
  /\ Do("label")
  /\ place' = [l \in DOMAIN place \cup {This.l} |->
                 IF l = This.l THEN Len(code) + 1 ELSE place[l]]
  /\ Then(<<>>)
  /\ UNCHANGED <<program, current, loff, stackpos, nlabels, code, status>>

(* push, push_xmm                                                          *)
Push(reg, words, by) ==
  /\ Emit(<<Op("subi", sp, sp, 1), Str(reg, sp, 0)>>, by)
  /\ stackpos' = stackpos + words

(* pop, pop_xmm, with their assertion                                      *)
Pop(reg, words, by) ==
  /\ Emit(<<Ldr(reg, sp, 0), Op("addi", sp, sp, 1)>>, by)
  /\ stackpos' = stackpos - words
  /\ status' = IF stackpos' >= 0 THEN status ELSE "aborted"

EmitPush ==
  /\ Do("push")
  /\ Push(This.reg, This.words, This.by)
  /\ Then(<<>>)
  /\ UNCHANGED <<program, current, loff, nlabels, place, status>>

EmitPop ==
  /\ Do("pop")
  /\ Pop(This.reg, This.words, This.by)
  /\ Then(<<>>)
  /\ UNCHANGED <<program, current, loff, nlabels, place>>

StructCode(words) ==
  <<Op("subi", sp, sp, words + 1), Str(rcx, sp, 0), Op("add", rcx, rax, zero)>>
  \o [i \in 1 .. 2 * words |-> IF i % 2 = 1 THEN Ldr(tmp, rcx, (i - 1) \div 2)
                                           ELSE Str(tmp, sp, i \div 2)]
  \o <<Ldr(rcx, sp, 0)>>

(* push_struct                                                             *)
EmitStruct ==
  /\ Do("pushstruct")
  /\ Emit(StructCode(This.words), "push_struct")
  /\ stackpos' = stackpos + This.words + 1
  /\ Then(<<>>)
  /\ UNCHANGED <<program, current, loff, nlabels, place, status>>

-----------------------------------------------------------------------------
(* classify_args, then save_arg_regs and emit_args(vec_reverse(rest)).     *)
Into(call, v) ==
  CASE v.ty = "int" /\ Len(call.ints) < 6 -> [call EXCEPT !.ints = Append(@, v)]
    [] v.ty = "float" /\ Len(call.floats) < 2 -> [call EXCEPT !.floats = Append(@, v)]
    [] OTHER -> [call EXCEPT !.rest = <<v>> \o @]

ClassifyArgs ==
  /\ Do("classify")
  /\ IF This.args # <<>>
     THEN Then(<<Classify(Into(This.call, This.args[1]), Tail(This.args))>>)
     ELSE Then(<<SaveInts(Len(This.call.ints), 0), SaveFloats(Len(This.call.floats), 1),
                 EmitRest(This.call, This.call.rest, 0)>>)
  /\ UNCHANGED <<program, current, loff, stackpos, nlabels, code, place, status>>

SaveArgRegs ==
  /\ Do("saveints") \/ Do("savefloats")
  /\ IF This.i >= This.n
     THEN Then(<<>>) /\ UNCHANGED <<stackpos, code>>
     ELSE IF This.do = "saveints"
     THEN Push(REGS[This.i + 1], 1, "save_arg_regs") /\ Then(<<SaveInts(This.n, This.i + 1)>>)
     ELSE Push(FREGS[This.i + 1], 2, "save_arg_regs") /\ Then(<<SaveFloats(This.n, This.i + 1)>>)
  /\ UNCHANGED <<program, current, loff, nlabels, place, status>>

(* Mutant: the registers come back in the order in which they were saved.  *)
RestoreAscending ==
  /\ Do("popints") \/ Do("popfloats")
  /\ IF This.do = "popints"
     THEN IF This.n = 0 THEN Then(<<>>) /\ UNCHANGED <<stackpos, code, status>>
          ELSE Pop(REGS[7 - This.n], 1, This.by) /\ Then(<<PopInts(This.n - 1, This.by)>>)
     ELSE IF This.n <= This.low THEN Then(<<>>) /\ UNCHANGED <<stackpos, code, status>>
          ELSE Pop(FREGS[This.n], 2, This.by) /\ Then(<<PopFloats(This.n - 1, This.low, This.by)>>)
  /\ UNCHANGED <<program, current, loff, nlabels, place>>

(* pop_int_args, pop_float_args, restore_arg_regs                          *)
PopArgRegs ==
  /\ Do("popints") \/ Do("popfloats")
  /\ IF This.do = "popints"
     THEN IF This.n = 0 THEN Then(<<>>) /\ UNCHANGED <<stackpos, code, status>>
          ELSE Pop(REGS[This.n], 1, This.by) /\ Then(<<PopInts(This.n - 1, This.by)>>)
     ELSE IF This.n <= This.low THEN Then(<<>>) /\ UNCHANGED <<stackpos, code, status>>
          ELSE Pop(FREGS[This.n], 2, This.by) /\ Then(<<PopFloats(This.n - 1, This.low, This.by)>>)
  /\ UNCHANGED <<program, current, loff, nlabels, place>>

EmitRestArgs ==
  /\ Do("emitrest")
  /\ IF This.vals # <<>>
     THEN /\ Then(Append(emit_arg(This.vals[1]),
                         EmitRest(This.call, Tail(This.vals), This.r + ArgSize(This.vals[1].ty))))
          /\ UNCHANGED nlabels
     ELSE /\ Then(AfterRest(This.call, This.r, nlabels + 1))
          /\ nlabels' = nlabels + 1
  /\ UNCHANGED <<program, current, loff, stackpos, code, place, status>>

EmitRegArgs ==
  /\ Do("emitargs")
  /\ Then(IF This.vals = <<>> THEN <<>>
          ELSE Append(emit_arg(This.vals[1]), EmitArgs(Tail(This.vals))))
  /\ UNCHANGED <<program, current, loff, stackpos, nlabels, code, place, status>>

EmitJump ==
  /\ Do("jump")
  /\ Emit(<<Mov(gb, zero), OpL("movi", gb, This.ret),
            IF This.node.kind = "callptr" THEN Op("jmpr", tmp, 0, 0) ELSE OpL("jmp", 0, This.node.n)>>,
          "emit_func_call")
  /\ Then(<<>>)
  /\ UNCHANGED <<program, current, loff, stackpos, nlabels, place, status>>

(* Mutant: one word of the overflow arguments stays on the stack.          *)
DropsLess ==
  /\ Do("drop")
  /\ IF This.n = 0 THEN UNCHANGED <<stackpos, code>>
     ELSE /\ Emit(<<Op("addi", sp, sp, This.n - 1)>>, "emit_func_call")
          /\ stackpos' = stackpos - This.n
  /\ Then(<<>>)
  /\ UNCHANGED <<program, current, loff, nlabels, place, status>>

DropRest ==
  /\ Do("drop")
  /\ IF This.n = 0 THEN UNCHANGED <<stackpos, code>>
     ELSE /\ Emit(<<Op("addi", sp, sp, This.n)>>, "emit_func_call")
          /\ stackpos' = stackpos - This.n
  /\ Then(<<>>)
  /\ UNCHANGED <<program, current, loff, nlabels, place, status>>

(* assert(opos == stackpos)                                                *)
CheckStackpos ==
  /\ Do("assert")
  /\ status' = IF stackpos = This.opos THEN status ELSE "aborted"
  /\ Then(<<>>)
  /\ UNCHANGED <<program, current, loff, stackpos, nlabels, code, place>>

-----------------------------------------------------------------------------
(* push_func_params: one parameter.                                        *)
PushParam(ty) ==
  CASE ty = "struct" ->
         /\ Emit(<<Op("addi", rax, rbp, This.arg)>> \o StructCode(Words(ty)), "prologue")
         /\ stackpos' = stackpos + Words(ty) + 1
         /\ Then(<<Params(This.i + 1, This.off - Size(ty), This.arg + Size(ty), This.ireg, This.xreg)>>)
    [] ty = "float" /\ This.xreg < 2 ->
         /\ Push(FREGS[This.xreg + 1], 2, "prologue")
         /\ Then(<<Params(This.i + 1, This.off - 1, This.arg, This.ireg, This.xreg + 1)>>)
    [] ty = "int" /\ This.ireg < 6 ->
         /\ Push(REGS[This.ireg + 1], 1, "prologue")
         /\ Then(<<Params(This.i + 1, This.off - 1, This.arg, This.ireg + 1, This.xreg)>>)
    [] OTHER ->
         /\ Emit(<<Str(rax, rbp, This.arg), Op("subi", sp, sp, 1), Str(rax, sp, 0)>>, "prologue")
         /\ stackpos' = stackpos + 1
         /\ Then(<<Params(This.i + 1, This.off - 1, This.arg + 1, This.ireg, This.xreg)>>)

EmitParams ==
  /\ Do("params")
  /\ This.i <= Len(program[current].params)
  /\ PushParam(program[current].params[This.i])
  /\ loff' = Append(loff, todo'[1].off)
  /\ UNCHANGED <<program, current, nlabels, place, status>>

(* The places of the locals, counted from the number of parameters on.     *)
EmitLocals ==
  /\ Do("params")
  /\ LET f == program[current]  n == Len(f.params)
         localarea == Size("int") * Len(f.locals)
     IN /\ This.i > n
        /\ loff' = loff \o [j \in 1 .. Len(f.locals) |-> 0 - n - Size("int") * j]
        /\ IF localarea = 0 THEN UNCHANGED <<stackpos, code>>
           ELSE /\ Emit(<<Op("subi", sp, rbp, localarea)>>, "prologue")
                /\ stackpos' = stackpos + localarea
        /\ Then(Body(f))
  /\ UNCHANGED <<program, current, nlabels, place, status>>

Next ==
  \/ NextFunction \/ Finish
  \/ EmitExpr \/ EmitCode \/ EmitLabel \/ EmitPush \/ EmitPop \/ EmitStruct
  \/ ClassifyArgs \/ SaveArgRegs \/ PopArgRegs \/ EmitRestArgs \/ EmitRegArgs
  \/ EmitJump \/ DropRest \/ CheckStackpos
  \/ EmitParams \/ EmitLocals

Spec == Init /\ [][Next]_vars

-----------------------------------------------------------------------------
Instructions == [op : Opcodes, a : Nat, b : Nat, c : Int, l : Nat]

(* The generator counts in natural numbers, stackpos among them: what is   *)
(* popped was pushed.  Every place a label can have is in the code.        *)
TypeOK ==
  /\ program \in Programs /\ current \in 0 .. Len(program)
  /\ loff \in Seq(Int) /\ stackpos \in Nat /\ nlabels \in Nat
  /\ code \in Seq([ins : Instructions, by : Emitters, depth : Nat, fn : Nat])
  /\ \A l \in DOMAIN place : place[l] \in 1 .. Len(code) + 1
  /\ status \in {"compiling", "done", "aborted"}

(* The assertions of the generator hold: emit_func_call leaves stackpos as *)
(* it found it (line 1989), and pop never takes it below zero (lines 526   *)
(* and 547), however expressions and calls are nested.                     *)
AssertsHold == status # "aborted"
=============================================================================
