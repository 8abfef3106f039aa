------------------------------- MODULE Lowered -------------------------------
(***************************************************************************)
(* The code the statements become (emit_expr on the nodes parse.c made,    *)
(* for control flow the same in both back ends), and its execution side by *)
(* side with what the function body means.  What an expression evaluates   *)
(* to is chosen anew each time.                                            *)
(***************************************************************************)
EXTENDS Statements, Structured

VARIABLES
  code,   (* the instructions of the function; <<>> before it is compiled *)
  cpu,    (* [pc, rax, temps]: the machine *)
  body,   (* the function body with its structure, from then on *)
  walk    (* the state of the walk over it *)

runVars == <<code, cpu, body, walk>>

(* Code and the labels made for it, which continue the parser's count.     *)
Ins(op, arg) == [op |-> op, arg |-> arg]

(* emit_expr.  A user label no goto goes to emits nothing; a test leaves   *)
(* its value in rax, and jz takes the jump if that is 0.                   *)
RECURSIVE Emit(_, _, _), EmitAll(_, _, _)
Emit(node, new, n) ==
  CASE node.kind = "expr"     -> [code |-> <<Ins("do", node.name)>>, n |-> n]
    [] node.kind = "test"     -> [code |-> <<Ins("test", node.name)>>, n |-> n]
    [] node.kind \in {"set", "in"} -> [code |-> <<Ins(node.kind, node)>>, n |-> n]
    [] node.kind = "jump"     -> [code |-> <<Ins("jmp", node.to)>>, n |-> n]
    [] node.kind = "goto"     -> [code |-> <<Ins("jmp", new[node.name])>>, n |-> n]
    [] node.kind = "dest"     -> [code |-> <<Ins("label", node.at)>>, n |-> n]
    [] node.kind = "label"    -> [code |-> IF new[node.name] # 0
                                           THEN <<Ins("label", new[node.name])>> ELSE <<>>,
                                  n    |-> n]
    [] node.kind = "return"   -> [code |-> <<Ins("ret", 0)>>, n |-> n]
    [] node.kind = "compound" -> EmitAll(node.stmts, new, n)
    [] node.kind = "if" ->                                  \* emit_ternary
         LET ne   == n + 1
             cond == Emit(node.cond, new, n)
             then == EmitAll(Stmt(node.then), new, ne)
             end  == then.n + 1
             els  == EmitAll(Stmt(node.els), new, end)
         IN  IF node.els = NoNode
             THEN [code |-> cond.code \o <<Ins("jz", ne)>> \o then.code \o <<Ins("label", ne)>>,
                   n    |-> then.n]
             ELSE [code |-> cond.code \o <<Ins("jz", ne)>> \o then.code
                            \o <<Ins("jmp", end), Ins("label", ne)>> \o els.code
                            \o <<Ins("label", end)>>,
                   n    |-> els.n]

EmitAll(nodes, new, n) ==
  IF nodes = <<>> THEN [code |-> <<>>, n |-> n]
  ELSE LET first == Emit(nodes[1], new, n)
           rest  == EmitAll(Tail(nodes), new, first.n)
       IN  [code |-> first.code \o rest.code, n |-> rest.n]

(* emit_toplevel: a function that runs off its end returns.                *)
Function == Emit(ret[1], newlabel, nlabels).code \o <<Ins("ret", 0)>>

LabelsAt(c, l) == {pc \in DOMAIN c : c[pc] = Ins("label", l)}
AddressOf(c, l) == CHOOSE pc \in LabelsAt(c, l) : TRUE

(* One instruction that is not seen.                                       *)
Execute(c, m) ==
  LET i == c[m.pc]
      Goto(pc, rax) == [m EXCEPT !.pc = pc, !.rax = rax]
  IN  CASE i.op = "jmp"   -> Goto(AddressOf(c, i.arg), m.rax)
        [] i.op = "jz"    -> Goto(IF m.rax = 0 THEN AddressOf(c, i.arg) ELSE m.pc + 1, m.rax)
        [] i.op = "in"    -> Goto(m.pc + 1, IF m.temps[i.arg.var] \in i.arg.lo..i.arg.hi THEN 1 ELSE 0)
        [] i.op = "label" -> Goto(m.pc + 1, m.rax)

SeenBy(c, m) ==
  LET i == c[m.pc] IN
  CASE i.op \in {"do", "test"} -> [what |-> i.op, name |-> i.arg]
    [] i.op = "set" -> [what |-> "pick", name |-> i.arg.name]
    [] i.op = "ret" -> [what |-> "return", name |-> <<>>]
    [] OTHER        -> [what |-> "", name |-> <<>>]

RECURSIVE Run(_, _, _)
Run(c, m, n) == IF n = 0 \/ SeenBy(c, m).what # "" THEN m ELSE Run(c, Execute(c, m), n - 1)

(* So many silent steps in a row are an empty loop.                        *)
Patience(c) == 4 * Len(c)

------------------------------------------------------------------------------
LInit == /\ Init
         /\ code = <<>> /\ cpu = [pc |-> 0, rax |-> 0, temps |-> <<>>]
         /\ body = <<>> /\ walk = Begin(1)

Resolved(c) == \A n \in DOMAIN c : c[n].op \in {"jmp", "jz"} => Cardinality(LabelsAt(c, c[n].arg)) = 1

Start ==
  /\ status = "done" /\ code = <<>> /\ Resolved(Function)
  /\ code' = Function
  /\ body' = Body(program)
  /\ cpu' = Run(code', [pc |-> 1, rax |-> 0, temps |-> [t \in 1..nlabels |-> 0]],
                Patience(code'))
  /\ walk' = Walk(body', Begin(1), Patience(program))
  /\ UNCHANGED vars

(* Both go on to the next expression, with the same value of the last.     *)
Go(v) ==
  /\ code # <<>>
  /\ LET what == SeenBy(code, cpu).what IN
     /\ \/ what = "do" /\ v = 0
        \/ what = "test" /\ v \in {0, 1}
        \/ what = "pick" /\ v \in Values
     /\ cpu' = Run(code, [pc    |-> cpu.pc + 1,
                          rax   |-> v,
                          temps |-> IF what = "pick"
                                    THEN [cpu.temps EXCEPT ![code[cpu.pc].arg.var] = v]
                                    ELSE cpu.temps], Patience(code))
  /\ walk' = Walk(body, Then(body, walk, v), Patience(program))
  /\ UNCHANGED <<vars, code, body>>

LNext ==
  \/ Next /\ UNCHANGED runVars
  \/ Start
  \/ \E v \in Values \cup {0, 1} : Go(v)

LSpec == LInit /\ [][LNext]_<<vars, runVars>> /\ WF_<<vars, runVars>>(Next /\ UNCHANGED runVars)

------------------------------------------------------------------------------
(* A body is accepted if and only if C allows it: what test/negative.py    *)
(* lists as errors (stray break, continue and goto, duplicate case,        *)
(* default and label) and nothing else.                                    *)
Judged ==
  /\ status = "done" => Accepts(program)
  /\ status = "error" => ~ Accepts(program)

(* Every jump goes to a label that the code holds exactly once.            *)
LabelsResolved == status = "done" /\ code = <<>> => Resolved(Function)

(* The code does what the body means: the same expressions in the same     *)
(* order whatever their values, to the same end or empty loop.             *)
MatchesMeaning == code # <<>> => SeenBy(code, cpu) = Seen(body, walk)
=============================================================================
