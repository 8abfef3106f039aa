------------------------------- MODULE Compiler -------------------------------
(***************************************************************************)
(* main.c with the names of parse.c and the labels of the EX_ISA back end: *)
(* one run of 8cc on one source.  The source is parsed as a whole, then    *)
(* emitted.  A source is a sequence of file-scope declarations and         *)
(* functions, a function's body a sequence of what has to do with names    *)
(* and labels; types and expressions are left out.                         *)
(***************************************************************************)
EXTENDS Integers, Sequences

VARIABLES
  phase,    \* where the compiler is; "idle" before it runs
  job,      \* its command line and its source
  pos,      \* <<i, k>>: in item i, in part k of its body (0: at its head)
  global, local,  \* globalenv and localenv: what the names stand for
  counts,   \* the counters of make_label and make_static_label
  code,     \* the body of the function that is read
  tops,     \* the toplevels to be emitted
  asm,      \* what the assembly file holds
  temps,    \* the temporary files there are
  ccstatus  \* the exit status

parsing == <<pos, global, local, counts, code, tops>>
ccVars == <<phase, job, parsing, asm, temps, ccstatus>>

NoName == "-"
NoInit == "none"
Signal == 128

(***************************************************************************)
(* Labels.                                                                 *)
(***************************************************************************)
Label(kind, id, n, name) == [kind |-> kind, id |-> id, n |-> n, name |-> name]
Public(name) == Label("public", "", 0, name)

(* Mutant of Private: the number alone.                                    *)
PrivateUnnamed(n) == Label("L", "", n, NoName)

Private(n) == Label("L", job.id, n, NoName)
Null == Label("null", "", 0, NoName)   \* printf's (null)

(* Mutant of Static: two variables of one name share a label.              *)
StaticUncounted(n, name) == Label("S", job.id, 0, name)

Static(n, name) == Label("S", job.id, n, name)

Nothing == [n \in {} |-> Null]
Entry(scope, label, func) == [scope |-> scope, label |-> label, func |-> func]
With(env, name, e) == [x \in DOMAIN env \cup {name} |-> IF x = name THEN e ELSE env[x]]

(* map_get(env(), name): localenv has globalenv for its parent.            *)
Known(x) == x \in DOMAIN local \cup DOMAIN global
Meaning(x) == IF x \in DOMAIN local THEN local[x] ELSE global[x]

(***************************************************************************)
(* main.                                                                   *)
(***************************************************************************)

CcInit(j) ==
  /\ job = j
  /\ pos = <<1, 0>> /\ global = Nothing /\ local = Nothing
  /\ counts = [label |-> 0, static |-> 0]
  /\ code = <<>> /\ tops = <<>>
  /\ asm = <<>> /\ temps = {} /\ ccstatus = 0

Run(j) ==
  /\ job' = j /\ phase' = "options"
  /\ pos' = <<1, 0>> /\ global' = Nothing /\ local' = Nothing
  /\ counts' = [label |-> 0, static |-> 0]
  /\ code' = <<>> /\ tops' = <<>>
  /\ asm' = <<>> /\ ccstatus' = 0

At(p) == phase = p
Goto(p) == phase' = p /\ UNCHANGED <<job, ccstatus>>

(* exit: atexit has delete_temp_files called.                              *)
TempName == "8ccXXXXXX.s"
Exit(status) ==
  /\ phase' = "exit" /\ ccstatus' = status
  /\ temps' = temps \ {TempName}
  /\ UNCHANGED job

ParseOpt ==
  /\ At("options")
  /\ IF job.id = "bad" \/ job.opts = {}
     THEN Exit(1)
     ELSE Goto("source") /\ UNCHANGED temps
  /\ UNCHANGED <<parsing, asm>>

LexInit ==
  /\ At("source")
  /\ IF job.readable THEN Goto("open") /\ UNCHANGED temps ELSE Exit(1)
  /\ UNCHANGED <<parsing, asm>>

(* mkstemp fails for a name that does not end in XXXXXX: the name is used  *)
(* as it is.                                                               *)
OpenAsm ==
  /\ At("open")
  /\ temps' = IF "S" \in job.opts THEN temps ELSE temps \cup {TempName}
  /\ asm' = <<>>
  /\ Goto(IF "E" \in job.opts THEN "preprocess" ELSE "parse")
  /\ UNCHANGED parsing

Preprocess == At("preprocess") /\ Exit(0) /\ UNCHANGED <<parsing, asm>>

(***************************************************************************)
(* read_toplevels: read_decl and read_funcdef.                             *)
(***************************************************************************)
Item == job.source[pos[1]]
Part == Item.body[pos[2]]
Here == <<job.n, pos[1], pos[2]>>

AtHead(op) == At("parse") /\ pos[1] <= Len(job.source) /\ pos[2] = 0 /\ Item.op = op
AtPart(ops) == At("parse") /\ pos[2] > 0 /\ pos[2] <= Len(Item.body) /\ Part.op \in ops
NextItem == pos' = <<pos[1] + 1, 0>>
NextPart == pos' = <<pos[1], pos[2] + 1>>
Reading == Goto("parse") /\ UNCHANGED <<asm, temps>>
ParseError == Exit(1) /\ UNCHANGED <<parsing, asm>>

Use(label) == [op |-> "use", label |-> label, at |-> Here]
Top(def, label, body) == [def |-> def, label |-> label, code |-> body, at |-> Here]

(* An initializer: none, a constant, or an address.                        *)
Undefined(init, env) == init \notin {NoInit, "const"} \cup DOMAIN env
InitCode(init, env) == IF init \in {NoInit, "const"} THEN <<>> ELSE <<Use(env[init].label)>>
Object(init, env, label) == Top(IF init = NoInit THEN "bss" ELSE "data", label, InitCode(init, env))

(* ast_gvar.                                                               *)
GlobalLabel(name, class) == IF class = "static" THEN Static(counts.static, name) ELSE Public(name)
Count(class) == counts' = [counts EXCEPT !.static = IF class = "static" THEN @ + 1 ELSE @]

ReadDecl ==
  LET d == Item
      label == GlobalLabel(d.name, d.class)
      env == With(global, d.name, Entry("global", label, d.func))
  IN  /\ AtHead("decl")
      /\ ~Undefined(d.init, env)
      /\ global' = env /\ Count(d.class)
      /\ tops' = IF d.init # NoInit \/ (d.class # "extern" /\ ~d.func)
                 THEN Append(tops, Object(d.init, env, label))
                 ELSE tops
      /\ NextItem /\ Reading /\ UNCHANGED <<local, code>>

ReadDeclUndefined ==
  /\ AtHead("decl")
  /\ Undefined(Item.init, With(global, Item.name, Entry("global", Null, FALSE)))
  /\ ParseError

SyntaxError == AtHead("junk") /\ ParseError

FuncBegins ==
  /\ AtHead("func")
  /\ global' = With(global, Item.name, Entry("global", GlobalLabel(Item.name, Item.class), TRUE))
  /\ Count(Item.class)
  /\ local' = Nothing /\ code' = <<>>
  /\ NextPart /\ Reading /\ UNCHANGED tops

FuncEnds ==
  /\ At("parse") /\ pos[2] > 0 /\ pos[2] > Len(Item.body)
  /\ tops' = Append(tops, [Top("code", global[Item.name].label, code) EXCEPT !.at[3] = 0])
  /\ local' = Nothing /\ code' = <<>>
  /\ NextItem /\ Reading /\ UNCHANGED <<global, counts>>

(* read_var_or_func: a local variable has no label, and one that a block   *)
(* declares to be a function has none either.                              *)
ReadName ==
  /\ AtPart({"read"}) /\ Known(Part.name)
  /\ LET m == Meaning(Part.name)
     IN  code' = IF m.scope = "local" /\ ~m.func THEN code ELSE Append(code, Use(m.label))
  /\ NextPart /\ Reading /\ UNCHANGED <<global, local, counts, tops>>

ReadNameUndefined == AtPart({"read"}) /\ ~Known(Part.name) /\ ParseError

(* A function nobody declared is called by its name.                       *)
Callee(x) == IF Known(x) THEN Meaning(x).label ELSE Public(x)

ReadCall ==
  /\ AtPart({"call"}) /\ (Known(Part.name) => Meaning(Part.name).func)
  /\ code' = Append(code, [Use(Callee(Part.name)) EXCEPT !.op = "call"])
  /\ NextPart /\ Reading /\ UNCHANGED <<global, local, counts, tops>>

ReadCallNoFunction ==
  AtPart({"call"}) /\ Known(Part.name) /\ ~Meaning(Part.name).func /\ ParseError

(* read_decl in a block knows static, and takes extern for auto.           *)
ReadLocal ==
  /\ AtPart({"local", "extern", "proto"})
  /\ local' = With(local, Part.name, Entry("local", Null, Part.op = "proto"))
  /\ NextPart /\ Reading /\ UNCHANGED <<global, counts, code, tops>>

(* read_static_local_var reads the initializer with no localenv.           *)
ReadStatic ==
  /\ AtPart({"static"}) /\ ~Undefined(Part.init, global)
  /\ LET label == Static(counts.static, Part.name)
     IN  /\ local' = With(local, Part.name, Entry("static", label, FALSE))
         /\ tops' = Append(tops, Object(Part.init, global, label))
  /\ Count("static")
  /\ NextPart /\ Reading /\ UNCHANGED <<global, code>>

ReadStaticUndefined == AtPart({"static"}) /\ Undefined(Part.init, global) /\ ParseError

(* A statement that jumps gets its label here, a string when it is emitted. *)
ReadLoop ==
  /\ AtPart({"loop"})
  /\ code' = Append(code, [op |-> "loop", label |-> Private(counts.label), at |-> Here])
  /\ counts' = [counts EXCEPT !.label = @ + 1]
  /\ NextPart /\ Reading /\ UNCHANGED <<global, local, tops>>

ReadOther ==
  /\ AtPart({"string", "unsupported"})
  /\ code' = Append(code, [op |-> Part.op, label |-> Null, at |-> Here])
  /\ NextPart /\ Reading /\ UNCHANGED <<global, local, counts, tops>>

ParseEnds ==
  /\ At("parse") /\ pos[1] > Len(job.source)
  /\ pos' = <<1, 0>>
  /\ Goto(IF "ast" \in job.opts THEN "close" ELSE "emit")
  /\ UNCHANGED <<global, local, counts, code, tops, asm, temps>>

(***************************************************************************)
(* emit_toplevel.                                                          *)
(***************************************************************************)
Toplevel == tops[pos[1]]
Element == Toplevel.code[pos[2]]
Emitting == At("emit") /\ pos[1] <= Len(tops)
Line(op, label, at) == [op |-> op, label |-> label, at |-> at]
Emit(lines) == asm' = asm \o lines /\ Goto("emit") /\ UNCHANGED <<global, local, code, tops, temps>>

(* A label of its own: a use of it and its definition.                     *)
Own(label, at) == <<Line("use", label, at), Line("def", label, at)>>

EmitHead ==
  /\ Emitting /\ pos[2] = 0
  /\ Emit(<<Line(IF Toplevel.def = "bss" THEN "bss" ELSE "def", Toplevel.label, Toplevel.at)>>)
  /\ NextPart /\ UNCHANGED counts

EmitElement ==
  /\ Emitting /\ pos[2] \in 1..Len(Toplevel.code) /\ Element.op # "unsupported"
  /\ LET own == Own(Private(counts.label), Element.at)
     IN  Emit(CASE Element.op = "use"    -> <<Line("use", Element.label, Element.at)>>
                [] Element.op = "loop"   -> Own(Element.label, Element.at)
                [] Element.op = "string" -> own
                [] Element.op = "call"   -> <<Line("use", Element.label, Element.at)>> \o own)
  /\ counts' = IF Element.op \in {"string", "call"} THEN [counts EXCEPT !.label = @ + 1] ELSE counts
  /\ NextPart

EmitUnsupported ==
  /\ Emitting /\ pos[2] \in 1..Len(Toplevel.code) /\ Element.op = "unsupported"
  /\ Exit(1) /\ UNCHANGED <<parsing, asm>>

EmitNext ==
  /\ Emitting /\ pos[2] > Len(Toplevel.code)
  /\ NextItem /\ Emit(<<>>) /\ UNCHANGED counts

EmitEnds ==
  /\ At("emit") /\ pos[1] > Len(tops)
  /\ Goto("close") /\ UNCHANGED <<parsing, asm, temps>>

(* The file is closed by target_finalize, then once more by main: that is  *)
(* undefined, the library goes on or aborts, and then no file is deleted.  *)
CloseOutput == At("close") /\ Goto("closeagain") /\ UNCHANGED <<parsing, asm, temps>>

CloseAgain ==
  /\ At("closeagain")
  /\ \/ Exit(0)
     \/ phase' = "exit" /\ ccstatus' = Signal + 6 /\ UNCHANGED <<job, temps>>
  /\ UNCHANGED <<parsing, asm>>

Parse ==
  \/ ReadDecl \/ ReadDeclUndefined \/ SyntaxError \/ FuncBegins \/ FuncEnds
  \/ ReadName \/ ReadNameUndefined \/ ReadCall \/ ReadCallNoFunction
  \/ ReadLocal \/ ReadStatic \/ ReadStaticUndefined \/ ReadLoop \/ ReadOther \/ ParseEnds

Compile ==
  \/ ParseOpt \/ LexInit \/ OpenAsm \/ Preprocess \/ Parse
  \/ EmitHead \/ EmitElement \/ EmitUnsupported \/ EmitNext \/ EmitEnds
  \/ CloseOutput \/ CloseAgain
=============================================================================
