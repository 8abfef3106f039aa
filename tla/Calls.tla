-------------------------------- MODULE Calls --------------------------------
(***************************************************************************)
(* The code that CodeGen emits, run on the Potato machine.  What a caller  *)
(* and a callee agree on - who saves which register, where an argument is  *)
(* put, what is on the stack when a function returns - is nowhere in the   *)
(* generator; it shows when the code of the two runs.                      *)
(***************************************************************************)
EXTENDS CodeGen, FiniteSets

CONSTANT Globals    (* data address -> the word there at the start *)

VARIABLES regs, mem, pc, compared, halted
INSTANCE Potato

(* What the run remembers to tell right from wrong.                        *)
VARIABLES
  layout,     (* the places of the variables of each function *)
  sites,      (* position of a call's jump -> the call *)
  active,     (* the calls that have not returned, innermost first *)
  pushed      (* address -> what was pushed there last *)

machine == <<regs, mem, pc, compared, halted>>
remembered == <<layout, sites, active, pushed>>
allvars == <<vars, machine, remembered>>

Here == code[pc]
By(who) == Running /\ Here.by \in who
Runs(op) == Running /\ Here.ins.op = op

IsPush == Runs("str") /\ Here.ins.b = sp /\ Here.by # "push_struct"
IsPop == /\ Runs("ldr") /\ Here.ins.b = sp
         /\ Here.by \notin {"push_struct", "emit_ret", "do_emit_assign_deref", "prologue"}
IsCall == By({"emit_func_call"}) /\ (Runs("jmp") \/ Runs("jmpr"))
IsReturn == By({"emit_ret"}) /\ Runs("jmpr")

CInit ==
  /\ Init
  /\ regs = [r \in 0 .. 15 |-> 0]
  /\ mem = Globals
  /\ pc = 0 /\ compared = <<0, 0>> /\ halted = FALSE
  /\ layout = <<>> /\ sites = <<>> /\ active = <<>> /\ pushed = <<>>

Compile ==
  /\ Next
  /\ layout' = IF Do("params") /\ This.i > Len(program[current].params)
               THEN Append(layout, loff') ELSE layout
  /\ sites' = IF Do("jump")
              THEN [p \in DOMAIN sites \cup {Len(code) + 3} |->
                      IF p = Len(code) + 3 THEN This.node ELSE sites[p]]
              ELSE sites
  /\ UNCHANGED <<machine, active, pushed>>

(* The jump to main that the linker puts at address zero.                  *)
Start ==
  /\ status = "done" /\ pc = 0
  /\ \E f \in 1 .. Len(program) : program[f].main /\ pc' = place[f]
  /\ UNCHANGED <<vars, regs, mem, compared, halted, remembered>>

Run ==
  /\ status = "done"
  /\ Instruction
  /\ active' = IF IsCall
               THEN <<[back |-> regs[gb], sp |-> regs[sp], fp |-> regs[rbp], at |-> pc]>> \o active
               ELSE IF IsReturn THEN Tail(active) ELSE active
  /\ pushed' = IF IsPush
               THEN [a \in DOMAIN pushed \cup {regs[sp]} |->
                       IF a = regs[sp] THEN [reg |-> Here.ins.a, by |-> Here.by, word |-> regs[Here.ins.a]]
                       ELSE pushed[a]]
               ELSE pushed
  /\ UNCHANGED <<vars, layout, sites>>

CNext == Compile \/ Start \/ Run

(* One processor: the compiler, then the machine, goes on while it can.    *)
CSpec == CInit /\ [][CNext]_allvars /\ WF_allvars(CNext)

-----------------------------------------------------------------------------
UsesFloats == \E p \in DOMAIN code : code[p].ins.op = "str" /\ code[p].ins.a \in {xmm0, xmm1}

Count(s, ty) == Cardinality({i \in DOMAIN s : s[i] = ty})
InRegisters(params) == /\ Count(params, "struct") = 0
                       /\ Count(params, "int") <= 6 /\ Count(params, "float") <= 2

FloatsOnStack == \E s \in DOMAIN sites :
  Cardinality({i \in DOMAIN sites[s].kids : sites[s].kids[i].ty = "float"}) > 2

(* A return goes to the instruction after the call it answers, with the    *)
(* stack and the frame the caller had, however deep the calls were: the    *)
(* saved frame pointer and the link in between were overwritten by no one. *)
ReturnsHome ==
  [][ IsReturn => /\ active # <<>>
                  /\ pc' = active[1].back
                  /\ regs'[sp] = active[1].sp
                  /\ regs'[rbp] = active[1].fp ]_allvars

(* What pop finds is what the push it belongs to has left: neither the     *)
(* callee nor a store to a variable came between, and a register is given  *)
(* back what save_arg_regs took from it.  Not in a function that has both  *)
(* parameters and locals, whose locals lie below its stack pointer, nor    *)
(* in a program that passes floats on the stack, which restsize counts     *)
(* twice.                                                                  *)
TempsKept ==
  IsPop /\ ~ FloatsOnStack
        /\ (program[Here.fn].params = <<>> \/ program[Here.fn].locals = <<>>)
  => /\ regs[sp] \in DOMAIN pushed
     /\ Read(regs[sp]) = pushed[regs[sp]].word
     /\ Here.by = "restore_arg_regs" =>
          pushed[regs[sp]].by = "save_arg_regs" /\ pushed[regs[sp]].reg = Here.ins.a

(* The word an argument stands for, where it can be told from the program. *)
Known(v) == v.kind \in {"gvar", "funcdesg"} \/ (v.kind = "conv" /\ v.kids[1].kind = "gvar")
Worth(v) == CASE v.kind = "gvar" -> Read(v.n)
              [] v.kind = "funcdesg" -> place[v.n]
              [] OTHER -> Read(v.kids[1].n)

(* When the body of a function begins, each parameter passed in a register *)
(* is, at the place the body will look for it, the argument of the call:   *)
(* classify_args, the order of pushes and pops, REGS, and                  *)
(* push_func_params agree for every mixture of types.                      *)
ArgsArrive ==
  Running /\ pc > 1 /\ Here.by # "prologue" /\ code[pc - 1].by = "prologue" /\ active # <<>>
  => LET params == program[Here.fn].params
         args == Args(sites[active[1].at])
     IN InRegisters(params) =>
          \A i \in DOMAIN params :
            Known(args[i]) => Read(Word(regs[rbp] + layout[Here.fn][i])) = Worth(args[i])

(* stackpos, which the generator counts along the text of the program, is  *)
(* what the machine's stack pointer is away from its frame pointer, at     *)
(* every instruction of a body, whichever branches were taken and calls    *)
(* made.  Parameters are forgotten where locals are made room for; floats  *)
(* count as two words of which only one is there.                          *)
ParamWords(params) == Count(params, "int") + (Words("struct") + 1) * Count(params, "struct")
DepthAgrees ==
  Running /\ ~ UsesFloats /\ ~ IsPush
          /\ Here.by \notin {"prologue", "push_struct", "emit_ret"}
  => LET f == program[Here.fn]
     IN Word(regs[rbp] - regs[sp]) =
          Here.depth - 3 - (IF f.locals # <<>> THEN ParamWords(f.params) ELSE 0)

(* Every program of the model is compiled and its code comes to its halt.  *)
Halts == <>halted

(* rax is the default register for return data (line 1889): giving back    *)
(* the argument registers does not take away the result of the call.       *)
ResultKept == [][ By({"restore_arg_regs"}) => regs'[rax] = regs[rax] ]_allvars
=============================================================================
