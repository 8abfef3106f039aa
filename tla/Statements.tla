----------------------------- MODULE Statements ------------------------------
(***************************************************************************)
(* parse.c's statements: the recursive functions that read the body of one *)
(* function and lower loops, switches, break and continue to labels and    *)
(* jumps.  Where a jump goes is kept in globals that each loop and switch  *)
(* sets and restores around its body (SET_JUMP_LABELS, SET_SWITCH_CONTEXT).*)
(* The frames of the C functions are the variable stack; a step reads one  *)
(* token, or gives a statement that was read to the function that asked    *)
(* for it.  Expressions are names; declarations are left out.              *)
(***************************************************************************)
EXTENDS Naturals, Sequences

CONSTANTS
  Names,     (* of expressions and of labels *)
  Values,    (* of case labels *)
  Programs   (* function bodies: sequences of tokens, "{" first *)

(* A token stands for a keyword with the parenthesis or the semicolon that  *)
(* belongs to it.  "for" has all of its three expressions, "forever" none.  *)
Tokens == [kind : {"{", "}", ";", "expr", "if", "else", "while", "do", "for", "forever",
                   "switch", "case", "default", "break", "continue", "goto", "label", "return"},
           name : Names, lo : Values, hi : Values]

ASSUME ProgramAssumption ==
  /\ Values \subseteq Nat
  /\ Programs \subseteq Seq(Tokens) \ {<<>>}

VARIABLES
  program,      (* what is read; never changes *)
  input,        (* the tokens not yet read *)
  stack,        (* the frames of the C functions, innermost first *)
  ret,          (* the statement just read: a sequence of at most one node *)
  lcontinue, lbreak,     (* the labels of continue and break; 0 is NULL *)
  cases, defaultcase,    (* the switch being read: <<>> is NULL, <<list>> a vector *)
  labels, gotos,         (* the labels defined, the gotos to be resolved *)
  newlabel,              (* user label -> the label made for it, or 0 *)
  nlabels,      (* make_label's counter *)
  status        (* "reading", "done", or "error" after errort *)

jumpVars == <<lcontinue, lbreak>>
switchVars == <<cases, defaultcase>>
labelVars == <<labels, gotos, newlabel>>
vars == <<program, input, stack, ret, jumpVars, switchVars, labelVars, nlabels, status>>

(* Nodes.  NoNode is the NULL an empty statement is read as.               *)
NoNode == [kind |-> "null"]
Expr(name) == [kind |-> "expr", name |-> name]
If(cond, then, els) == [kind |-> "if", cond |-> cond, then |-> then, els |-> els]
Compound(stmts) == [kind |-> "compound", stmts |-> stmts]
Jump(label) == [kind |-> "jump", to |-> label]
Dest(label) == [kind |-> "dest", at |-> label]
Stmt(node) == IF node = NoNode THEN <<>> ELSE <<node>>

(* The temporary a switch keeps its value in, and a test of it.            *)
SetTemp(var, name) == [kind |-> "set", var |-> var, name |-> name]
InCase(var, c) == [kind |-> "in", var |-> var, lo |-> c.lo, hi |-> c.hi]

Block(list) == [at |-> "block", list |-> list]

(* read_funcdef, after its "{".                                            *)
Init ==
  /\ program \in Programs
  /\ input = Tail(program)
  /\ stack = <<Block(<<>>)>>
  /\ ret = <<>>
  /\ lcontinue = 0 /\ lbreak = 0
  /\ cases = <<>> /\ defaultcase = 0
  /\ labels = {} /\ gotos = <<>>
  /\ newlabel = [l \in Names |-> 0]
  /\ nlabels = 0
  /\ status = "reading"

Frame == stack[1]
Tok == input[1]
NextIs(kind) == input # <<>> /\ Tok.kind = kind
Reads(kind) == status = "reading" /\ ret = <<>> /\ NextIs(kind)
Advance == input' = Tail(input)

Push(frame) ==
  /\ Advance
  /\ stack' = <<frame>> \o stack
  /\ UNCHANGED <<program, ret, status>>

(* A statement of one token.                                               *)
Yield(node) ==
  /\ Advance
  /\ ret' = <<node>>
  /\ UNCHANGED <<program, stack, jumpVars, switchVars, nlabels, status>>

Fail ==
  /\ status' = "error"
  /\ UNCHANGED <<program, input, stack, ret, jumpVars, switchVars, labelVars, nlabels>>

------------------------------------------------------------------------------
(* read_stmt: the token a statement begins with.                           *)

ReadExpr ==
  /\ \/ Reads("expr") /\ Yield(Expr(Tok.name))
     \/ Reads(";") /\ Yield(NoNode)
     \/ Reads("return") /\ Yield([kind |-> "return"])
  /\ UNCHANGED labelVars

ReadBlock ==
  /\ Reads("{")
  /\ Push(Block(<<>>))
  /\ UNCHANGED <<jumpVars, switchVars, labelVars, nlabels>>

CloseBlock ==
  /\ Reads("}") /\ Frame.at = "block"
  /\ Advance
  /\ ret' = <<Compound(Frame.list)>>
  /\ stack' = Tail(stack)
  /\ UNCHANGED <<program, jumpVars, switchVars, labelVars, nlabels, status>>

(* Mutant of ReadNothing: the end of the input is not looked for.          *)
ReadNothingButEnd ==
  /\ status = "reading" /\ ret = <<>> /\ input # <<>>
  /\ Tok.kind = "else" \/ (Tok.kind = "}" /\ Frame.at # "block")
  /\ Fail

(* No statement begins here: the input ends, or "}" or "else" is stray.    *)
ReadNothing ==
  /\ status = "reading" /\ ret = <<>>
  /\ input # <<>> => Tok.kind = "else" \/ (Tok.kind = "}" /\ Frame.at # "block")
  /\ Fail

ReadIf ==
  /\ Reads("if")
  /\ Push([at |-> "then", cond |-> Tok.name])
  /\ UNCHANGED <<jumpVars, switchVars, labelVars, nlabels>>

(* Mutant of SetJumpLabels: only break gets a new target.                  *)
SetBreakLabel(cont, brk) ==
  /\ lbreak' = brk
  /\ UNCHANGED lcontinue

SetJumpLabels(cont, brk) == lcontinue' = cont /\ lbreak' = brk

(* A loop's own labels, and those of the loop it is in.                    *)
Loop(at, cond, beg, mid, end) ==
  [at |-> at, cond |-> cond, beg |-> beg, mid |-> mid, end |-> end,
   ocontinue |-> lcontinue, obreak |-> lbreak]

(* continue goes to beg in "do" too: past the condition.                   *)
ReadWhileOrDo ==
  /\ Reads("while") \/ Reads("do")
  /\ Push(Loop(Tok.kind, Tok.name, nlabels + 1, 0, nlabels + 2))
  /\ SetJumpLabels(nlabels + 1, nlabels + 2)
  /\ nlabels' = nlabels + 2
  /\ UNCHANGED <<switchVars, labelVars>>

(* Mutant of ReadFor: the labels are not counted as used.                  *)
ReadForReusing ==
  /\ Reads("for") \/ Reads("forever")
  /\ Push(Loop(Tok.kind, Tok.name, nlabels + 1, nlabels + 2, nlabels + 3))
  /\ SetJumpLabels(nlabels + 2, nlabels + 3)
  /\ UNCHANGED <<nlabels, switchVars, labelVars>>

ReadFor ==
  /\ Reads("for") \/ Reads("forever")
  /\ Push(Loop(Tok.kind, Tok.name, nlabels + 1, nlabels + 2, nlabels + 3))
  /\ SetJumpLabels(nlabels + 2, nlabels + 3)
  /\ nlabels' = nlabels + 3
  /\ UNCHANGED <<switchVars, labelVars>>

ReadSwitch ==
  /\ Reads("switch")
  /\ nlabels' = nlabels + 1
  /\ Push([at |-> "switch", cond |-> Tok.name, end |-> nlabels + 1,
           ocases |-> cases, odefault |-> defaultcase, obreak |-> lbreak])
  /\ cases' = <<<<>>>>
  /\ defaultcase' = 0
  /\ lbreak' = nlabels + 1
  /\ UNCHANGED <<lcontinue, labelVars>>

PushLabel(node) == Push([at |-> "label", node |-> node])

(* check_case_duplicates: the new range against all those before.          *)
Overlaps(c, d) == ~ (c.hi < d.lo \/ d.hi < c.lo)

(* Mutant of CaseOK: only ranges that begin alike are duplicates.          *)
CaseStartOK == /\ cases # <<>>
               /\ Tok.lo <= Tok.hi
               /\ \A n \in DOMAIN cases[1] : Tok.lo # cases[1][n].lo

CaseOK == /\ cases # <<>>
          /\ Tok.lo <= Tok.hi
          /\ \A n \in DOMAIN cases[1] : ~ Overlaps(Tok, cases[1][n])

ReadCase ==
  /\ Reads("case") /\ CaseOK
  /\ nlabels' = nlabels + 1
  /\ cases' = <<Append(cases[1], [lo |-> Tok.lo, hi |-> Tok.hi, label |-> nlabels + 1])>>
  /\ PushLabel(Dest(nlabels + 1))
  /\ UNCHANGED <<jumpVars, defaultcase, labelVars>>

(* Whether there is a switch is not asked.                                 *)
ReadDefault ==
  /\ Reads("default") /\ defaultcase = 0
  /\ nlabels' = nlabels + 1
  /\ defaultcase' = nlabels + 1
  /\ PushLabel(Dest(nlabels + 1))
  /\ UNCHANGED <<jumpVars, cases, labelVars>>

ReadLabel ==
  /\ Reads("label") /\ Tok.name \notin labels
  /\ labels' = labels \cup {Tok.name}
  /\ PushLabel([kind |-> "label", name |-> Tok.name])
  /\ UNCHANGED <<jumpVars, switchVars, gotos, newlabel, nlabels>>

ReadBreak ==
  /\ Reads("break") /\ lbreak # 0
  /\ Yield(Jump(lbreak))
  /\ UNCHANGED labelVars

ReadContinue ==
  /\ Reads("continue") /\ lcontinue # 0
  /\ Yield(Jump(lcontinue))
  /\ UNCHANGED labelVars

ReadGoto ==
  /\ Reads("goto")
  /\ Yield([kind |-> "goto", name |-> Tok.name])
  /\ gotos' = Append(gotos, Tok.name)
  /\ UNCHANGED <<labels, newlabel>>

(* stray break, continue or case; duplicate case, default or label         *)
ReadStray ==
  /\ \/ Reads("break") /\ lbreak = 0
     \/ Reads("continue") /\ lcontinue = 0
     \/ Reads("case") /\ ~ CaseOK
     \/ Reads("default") /\ defaultcase # 0
     \/ Reads("label") /\ Tok.name \in labels
  /\ Fail

------------------------------------------------------------------------------
(* A statement was read: the function that asked for it goes on.           *)

Got(at) == status = "reading" /\ ret # <<>> /\ stack # <<>> /\ Frame.at = at
Node == ret[1]

(* The function returns node to its caller.                                *)
Return(node) ==
  /\ ret' = <<node>>
  /\ stack' = Tail(stack)
  /\ UNCHANGED <<program, labelVars, nlabels, status>>

(* read_compound_stmt *)
BlockGot ==
  /\ Got("block")
  /\ stack' = <<Block(Frame.list \o Stmt(Node))>> \o Tail(stack)
  /\ ret' = <<>>
  /\ UNCHANGED <<program, input, jumpVars, switchVars, labelVars, nlabels, status>>

Test(name) == [kind |-> "test", name |-> name]

ThenGot ==
  /\ Got("then")
  /\ \/ /\ NextIs("else")
        /\ Advance
        /\ stack' = <<[at |-> "else", cond |-> Frame.cond, then |-> Node]>> \o Tail(stack)
        /\ ret' = <<>>
        /\ UNCHANGED <<program, labelVars, nlabels, status>>
     \/ /\ ~ NextIs("else")
        /\ Return(If(Test(Frame.cond), Node, NoNode))
        /\ UNCHANGED input
  /\ UNCHANGED <<jumpVars, switchVars>>

ElseGot ==
  /\ Got("else")
  /\ Return(If(Test(Frame.cond), Frame.then, Node))
  /\ UNCHANGED <<input, jumpVars, switchVars>>

(* read_label_tail *)
LabelGot ==
  /\ Got("label")
  /\ Return(Compound(<<Frame.node>> \o Stmt(Node)))
  /\ UNCHANGED <<input, jumpVars, switchVars>>

(* Mutant of RestoreJumpLabels: continue keeps the target of the loop.     *)
RestoreBreakLabel ==
  /\ lbreak' = Frame.obreak
  /\ UNCHANGED lcontinue

RestoreJumpLabels == lcontinue' = Frame.ocontinue /\ lbreak' = Frame.obreak

WhileGot ==
  /\ Got("while")
  /\ RestoreJumpLabels
  /\ Return(Compound(<<Dest(Frame.beg),
                       If(Test(Frame.cond), Node, Jump(Frame.end)),
                       Jump(Frame.beg),
                       Dest(Frame.end)>>))
  /\ UNCHANGED <<input, switchVars>>

DoTail == NextIs("while") /\ Len(input) > 1 /\ input[2].kind = ";"

(* Mutant of DoGot: the label of break is not put down.                    *)
DoGotNoEnd ==
  /\ Got("do") /\ DoTail
  /\ RestoreJumpLabels
  /\ input' = Tail(Tail(input))
  /\ Return(Compound(<<Dest(Frame.beg)>> \o Stmt(Node)
                     \o <<If(Test(Tok.name), Jump(Frame.beg), NoNode)>>))
  /\ UNCHANGED switchVars

DoGot ==
  /\ Got("do") /\ DoTail
  /\ RestoreJumpLabels
  /\ input' = Tail(Tail(input))
  /\ Return(Compound(<<Dest(Frame.beg)>> \o Stmt(Node)
                     \o <<If(Test(Tok.name), Jump(Frame.beg), NoNode), Dest(Frame.end)>>))
  /\ UNCHANGED switchVars

DoNoTail == Got("do") /\ ~ DoTail /\ Fail

Part(name, part) == <<name, part>>

(* Mutant of ForNode: continue goes past the step.                         *)
ForNodeMidLate(f, body) ==
  Compound(<<Expr(Part(f.cond, "init")), Dest(f.beg),
             If(Test(Part(f.cond, "cond")), NoNode, Jump(f.end))>> \o body
           \o <<Expr(Part(f.cond, "step")), Dest(f.mid), Jump(f.beg), Dest(f.end)>>)

ForNode(f, body) ==
  IF f.at = "forever"
  THEN Compound(<<Dest(f.beg)>> \o body \o <<Dest(f.mid), Jump(f.beg), Dest(f.end)>>)
  ELSE Compound(<<Expr(Part(f.cond, "init")), Dest(f.beg),
                  If(Test(Part(f.cond, "cond")), NoNode, Jump(f.end))>> \o body
                \o <<Dest(f.mid), Expr(Part(f.cond, "step")), Jump(f.beg), Dest(f.end)>>)

ForGot ==
  /\ Got("for") \/ Got("forever")
  /\ RestoreJumpLabels
  /\ Return(ForNode(Frame, Stmt(Node)))
  /\ UNCHANGED <<input, switchVars>>

(* The tests come in front of the body, in the order of the case labels.   *)
SwitchGot ==
  /\ Got("switch")
  /\ Return(Compound(
       <<SetTemp(Frame.end, Frame.cond)>>
       \o [n \in DOMAIN cases[1] |->
             If(InCase(Frame.end, cases[1][n]), Jump(cases[1][n].label), NoNode)]
       \o <<Jump(IF defaultcase # 0 THEN defaultcase ELSE Frame.end)>>
       \o Stmt(Node) \o <<Dest(Frame.end)>>))
  /\ cases' = Frame.ocases
  /\ defaultcase' = Frame.odefault
  /\ lbreak' = Frame.obreak
  /\ UNCHANGED <<input, lcontinue>>

------------------------------------------------------------------------------
(* backfill_labels: a label is made for a user label some goto goes to.    *)

Backfilling == status = "reading" /\ ret # <<>> /\ stack = <<>>

Backfill ==
  /\ Backfilling /\ gotos # <<>> /\ gotos[1] \in labels
  /\ gotos' = Tail(gotos)
  /\ IF newlabel[gotos[1]] # 0
     THEN UNCHANGED <<newlabel, nlabels>>
     ELSE /\ newlabel' = [newlabel EXCEPT ![gotos[1]] = nlabels + 1]
          /\ nlabels' = nlabels + 1
  /\ UNCHANGED <<program, input, stack, ret, jumpVars, switchVars, labels, status>>

StrayGoto == Backfilling /\ gotos # <<>> /\ gotos[1] \notin labels /\ Fail

Finish ==
  /\ Backfilling /\ gotos = <<>>
  /\ status' = "done"
  /\ UNCHANGED <<program, input, stack, ret, jumpVars, switchVars, labelVars, nlabels>>

Next ==
  \/ ReadExpr \/ ReadBlock \/ CloseBlock \/ ReadNothing \/ ReadIf
  \/ ReadWhileOrDo \/ ReadFor \/ ReadSwitch \/ ReadCase \/ ReadDefault \/ ReadLabel
  \/ ReadBreak \/ ReadContinue \/ ReadGoto \/ ReadStray
  \/ BlockGot \/ ThenGot \/ ElseGot \/ LabelGot \/ WhileGot \/ DoGot \/ DoNoTail
  \/ ForGot \/ SwitchGot
  \/ Backfill \/ StrayGoto \/ Finish

(* The compiler is one thread that runs until it is done.                  *)
Spec == Init /\ [][Next]_vars /\ WF_vars(Next)

------------------------------------------------------------------------------
Loops == {"while", "do", "for", "forever"}
Breakable == Loops \cup {"switch"}

CaseLists == Seq([lo : Values, hi : Values, label : Nat \ {0}])
IsCases(c) == c = <<>> \/ (Len(c) = 1 /\ c \in Seq(CaseLists))

(* The fields of a frame that outlive the statement being read; k labels   *)
(* were made.                                                              *)
FrameOK(f, k) ==
  /\ f.at \in Breakable \cup {"block", "then", "else", "label"}
  /\ f.at \in Breakable => f.end \in 1..k /\ f.obreak \in 0..k
  /\ f.at \in Loops => f.ocontinue \in 0..k
  /\ f.at \in {"while", "do"} => f.beg \in 1..k
  /\ f.at \in {"for", "forever"} => f.mid \in 1..k
  /\ f.at = "switch" => f.odefault \in 0..k /\ IsCases(f.ocases)

IsStack(s, k) ==
  /\ s \in Seq({s[n] : n \in 1..Len(s)})
  /\ \A n \in 1..Len(s) : FrameOK(s[n], k)

(* Every variable has its type, and no label is used that was not made.    *)
TypeOK ==
  /\ program \in Seq(Tokens)
  /\ input \in Seq(Tokens)
  /\ IsStack(stack, nlabels)
  /\ Len(ret) \in {0, 1}
  /\ ret = <<>> => stack # <<>>
  /\ lcontinue \in 0..nlabels /\ lbreak \in 0..nlabels
  /\ IsCases(cases) /\ defaultcase \in 0..nlabels
  /\ labels \subseteq Names /\ gotos \in Seq(Names)
  /\ newlabel \in [Names -> 0..nlabels]
  /\ nlabels \in Nat
  /\ status \in {"reading", "done", "error"}

(* The frame n of s is the innermost of these kinds from m on.             *)
Innermost(s, n, m, kinds) ==
  /\ n \in m..Len(s) /\ s[n].at \in kinds
  /\ \A k \in m..n - 1 : s[k].at \notin kinds

ContinueLabel(f) == IF f.at \in {"for", "forever"} THEN f.mid ELSE f.beg

(* label is where a continue (a break) goes that only the frames of s from *)
(* m on are around.                                                        *)
ContinuesAt(s, m, label) ==
  /\ \A n \in m..Len(s) : Innermost(s, n, m, Loops) => label = ContinueLabel(s[n])
  /\ (\A n \in m..Len(s) : s[n].at \notin Loops) => label = 0

BreaksAt(s, m, label) ==
  /\ \A n \in m..Len(s) : Innermost(s, n, m, Breakable) => label = s[n].end
  /\ (\A n \in m..Len(s) : s[n].at \notin Breakable) => label = 0

InSwitch(s, m) == \E n \in m..Len(s) : s[n].at = "switch"

(* break and continue go to the innermost loop or switch that is being     *)
(* read, whatever loops and switches were read before and left, and are    *)
(* errors exactly where there is none; case labels belong to a switch.     *)
JumpsAreScoped ==
  /\ ContinuesAt(stack, 1, lcontinue)
  /\ BreaksAt(stack, 1, lbreak)
  /\ cases # <<>> <=> InSwitch(stack, 1)

(* Every function body is read to its end or rejected.                     *)
Terminates == <>(status # "reading")
=============================================================================
