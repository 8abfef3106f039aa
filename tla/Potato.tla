------------------------------- MODULE Potato --------------------------------
(***************************************************************************)
(* The EX_ISA machine as the header of gen_ex_isa_rebuild.c describes it:  *)
(* sixteen registers of sixteen bits, R0 always zero, a data memory of     *)
(* words and a memory of instructions.  A pseudo-instruction is one step;  *)
(* the register the assembler keeps for itself, R14, is not modelled.      *)
(***************************************************************************)
EXTENDS Integers, Sequences, Bitwise

VARIABLES
  code,        (* the instructions, and what the labels stand for; *)
  place,       (* they do not change while the machine runs *)
  regs, mem,   (* mem holds the words that were written; the others are zero *)
  pc,
  compared,    (* the two words of the last CMP *)
  halted

Word(n) == n % 65536

Signed(w) == IF w < 32768 THEN w ELSE w - 65536

Fetch == code[pc].ins
Running == ~ halted /\ pc \in 1 .. Len(code)

Read(a) == IF a \in DOMAIN mem THEN mem[a] ELSE 0
Written(cells) == [a \in DOMAIN mem \cup DOMAIN cells |->
                     IF a \in DOMAIN cells THEN cells[a] ELSE Read(a)]
Set(r, w) == regs' = IF r = 0 THEN regs ELSE [regs EXCEPT ![r] = w]

(* ADDI and its kin take c for a number, the others for a register.        *)
Operand(i) == IF i.op \in {"addi", "subi", "multi"} THEN Word(i.c) ELSE regs[i.c]
Result(op, x, y) ==
  CASE op \in {"add", "addi"} -> Word(x + y)
    [] op \in {"sub", "subi"} -> Word(x - y)
    [] op \in {"mult", "multi"} -> Word(x * y)
    [] op = "and" -> x & y
    [] op = "or" -> x | y
    [] op = "xor" -> x ^^ y
Holds(cond, x, y) ==
  CASE cond = "setlt" -> Signed(x) < Signed(y)
    [] cond = "setle" -> Signed(x) <= Signed(y)
    [] cond = "seteq" -> x = y
    [] cond = "setne" -> x # y

Is(ops) == Running /\ Fetch.op \in ops
NextPc == pc' = pc + 1

Store ==
  /\ Is({"str"})
  /\ mem' = Written([a \in {Word(regs[Fetch.b] + Fetch.c)} |-> regs[Fetch.a]])
  /\ NextPc /\ UNCHANGED <<regs, compared, halted>>

Load ==
  /\ Is({"ldr"})
  /\ Set(Fetch.a, Read(Word(regs[Fetch.b] + Fetch.c)))
  /\ NextPc /\ UNCHANGED <<mem, compared, halted>>

Copy ==
  /\ Is({"copy"})
  /\ LET from == regs[Fetch.a]  to == regs[Fetch.b]
         Target(a) == Word(a - to)
     IN mem' = Written([a \in {Word(to + n) : n \in 0 .. Fetch.c - 1} |->
                          Read(Word(from + Target(a)))])
  /\ NextPc /\ UNCHANGED <<regs, compared, halted>>

Compute ==
  /\ Is({"add", "addi", "sub", "subi", "mult", "multi", "and", "or", "xor"})
  /\ Set(Fetch.a, Result(Fetch.op, regs[Fetch.b], Operand(Fetch)))
  /\ NextPc /\ UNCHANGED <<mem, compared, halted>>

(* MOVI ORs its operand into the register.                                 *)
Move ==
  /\ Is({"mov", "movi"})
  /\ Set(Fetch.a, IF Fetch.op = "mov" THEN regs[Fetch.b]
                  ELSE regs[Fetch.a] | (IF Fetch.l # 0 THEN place[Fetch.l] ELSE Word(Fetch.c)))
  /\ NextPc /\ UNCHANGED <<mem, compared, halted>>

Compare ==
  /\ Is({"cmp"})
  /\ compared' = <<regs[Fetch.a], regs[Fetch.b]>>
  /\ NextPc /\ UNCHANGED <<regs, mem, halted>>

SetFlag ==
  /\ Is({"setlt", "setle", "seteq", "setne"})
  /\ Set(Fetch.a, IF Holds(Fetch.op, compared[1], compared[2]) THEN 1 ELSE 0)
  /\ NextPc /\ UNCHANGED <<mem, compared, halted>>

Jump ==
  /\ Is({"jmp", "jz", "jmpr"})
  /\ pc' = CASE Fetch.op = "jmpr" -> regs[Fetch.a]
             [] Fetch.op = "jz" /\ regs[Fetch.a] # 0 -> pc + 1
             [] OTHER -> place[Fetch.l]
  /\ UNCHANGED <<regs, mem, compared, halted>>

Nop == Is({"nop"}) /\ NextPc /\ UNCHANGED <<regs, mem, compared, halted>>

Halt == Is({"halt"}) /\ halted' = TRUE /\ UNCHANGED <<regs, mem, pc, compared>>

Instruction ==
  Store \/ Load \/ Copy \/ Compute \/ Move \/ Compare \/ SetFlag \/ Jump \/ Nop \/ Halt
=============================================================================
