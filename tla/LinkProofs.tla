------------------------------ MODULE LinkProofs -------------------------------
(***************************************************************************)
(* What the linking script and the compiler leave behind, that the exit    *)
(* status says what happened, that labels stay apart, and what the names   *)
(* in the program stand for: for all sources, command lines and machines,  *)
(* whatever fails and whenever a signal comes.                             *)
(***************************************************************************)
EXTENDS Linkage, SequenceTheorems, FiniteSetTheorems, WellFoundedInduction, TLAPS

Steps == {"check", "temp", "trap", "compiler", "next", "compiling", "copy", "stop",
          "assemble", "report", "ended"}
Opened == {"preprocess", "parse", "emit", "close", "closeagain"}
Phases == {"idle", "options", "source", "open", "exit"} \cup Opened

(* The compiler's own temporary file: there from OpenAsm to the exit, and  *)
(* for good after an abort.                                                *)
OwnTemp ==
  IF "S" \in job.opts THEN {}
  ELSE IF phase \in Opened \/ (phase = "exit" /\ Aborted) THEN {TempName} ELSE {}

(* The script's directory, there from MakeTemp to the end.                 *)
OwnDir == IF step \in {"check", "temp"} THEN {} ELSE {Dir}

TInv ==
  /\ step \in Steps /\ phase \in Phases
  /\ step # "ended" => signalled = "no"
  /\ phase \notin {"exit"} => ccstatus = 0
  /\ Direct => step \in {"compiling", "ended"} /\ signalled = "no" /\ temps = OwnTemp
  /\ ~Direct => "S" \in job.opts /\ (step # "ended" => temps = OwnDir)
  /\ Direct /\ step = "ended" => phase = "exit"
  /\ Tidy

LEMMA InitTInv == Init => TInv
BY DEF Init, TInv, CcInit, Job, Direct, Sources, OwnTemp, OwnDir, Steps, Phases, Opened, Tidy

(* A step of the compiler, whoever runs it.                                *)
LEMMA CompilerTemps ==
  ASSUME TInv, Compile, UNCHANGED build
  PROVE  /\ phase' \in Phases
         /\ job' = job
         /\ phase' # "exit" => ccstatus' = 0
         /\ "S" \in job.opts => temps' = temps \/ temps' = temps \ {TempName}
         /\ temps = OwnTemp => temps' = OwnTemp'
<1> USE DEF At, Goto, Exit, Phases, Opened, OwnTemp, Aborted, Signal
<1>1. CASE ParseOpt \/ LexInit \/ OpenAsm
  BY <1>1 DEF ParseOpt, LexInit, OpenAsm, TInv
<1>2. CASE Preprocess
  BY <1>2 DEF Preprocess, TInv
<1>3. CASE Parse
  <2>1. phase = "parse" /\ job' = job
        /\ \/ phase' \in {"parse", "emit", "close"} /\ UNCHANGED <<temps, ccstatus>>
           \/ phase' = "exit" /\ ccstatus' = 1 /\ temps' = temps \ {TempName}
    BY <1>3 DEF Parse, ReadDecl, ReadDeclUndefined, SyntaxError, FuncBegins, FuncEnds,
         ReadName, ReadNameUndefined, ReadCall, ReadCallNoFunction, ReadLocal, ReadStatic,
         ReadStaticUndefined, ReadLoop, ReadOther, ParseEnds, AtHead, AtPart, Reading,
         ParseError
  <2> QED BY <2>1 DEF TInv
<1>4. CASE EmitHead \/ EmitElement \/ EmitUnsupported \/ EmitNext \/ EmitEnds
  <2>1. phase = "emit" /\ job' = job
        /\ \/ phase' \in {"emit", "close"} /\ UNCHANGED <<temps, ccstatus>>
           \/ phase' = "exit" /\ ccstatus' = 1 /\ temps' = temps \ {TempName}
    BY <1>4 DEF EmitHead, EmitElement, EmitUnsupported, EmitNext, EmitEnds, Emitting, Emit
  <2> QED BY <2>1 DEF TInv
<1>5. CASE CloseOutput \/ CloseAgain
  BY <1>5 DEF CloseOutput, CloseAgain, TInv
<1> QED BY <1>1, <1>2, <1>3, <1>4, <1>5 DEF Compile

LEMMA NextTInv == TInv /\ [Next]_vars => TInv'
<1> SUFFICES ASSUME TInv, [Next]_vars PROVE TInv'
  OBVIOUS
<1> USE DEF Script, Then, NoCc, NoTemps, Direct
<1>1. CASE Check \/ MakeTemp \/ SetTrap \/ FindCompiler
  BY <1>1 DEF Check, MakeTemp, SetTrap, FindCompiler, Ends, TInv, Steps, OwnDir, OwnTemp,
              Tidy, Aborted, ccVars
<1>2. CASE CompileNext
  BY <1>2 DEF CompileNext, Run, Job, TInv, Steps, Phases, OwnDir, Tidy
<1>3. CASE Compiling
  <2>1. UNCHANGED <<build, step, signalled>> /\ step = "compiling"
    BY <1>3 DEF Compiling, linkVars
  <2>2. /\ phase' \in Phases /\ job' = job
        /\ phase' # "exit" => ccstatus' = 0
        /\ "S" \in job.opts => temps' = temps \/ temps' = temps \ {TempName}
        /\ temps = OwnTemp => temps' = OwnTemp'
    BY <1>3, <2>1, CompilerTemps DEF Compiling
  <2>3. ~Direct => temps' = OwnDir'
    <3>1. TempName # Dir
      BY DEF TempName, Dir
    <3> QED BY <2>1, <2>2, <3>1 DEF TInv, OwnDir
  <2> QED BY <2>1, <2>2, <2>3 DEF TInv, Steps, Tidy
<1>4. CASE Merge \/ AddStartup \/ Copy
  BY <1>4 DEF Merge, AddStartup, Copy, TInv, Steps, OwnDir, Tidy, ccVars
<1>5. CASE Failed \/ Stop \/ Assemble \/ Report
  BY <1>5 DEF Failed, Stop, Assemble, Report, Ends, TInv, Steps, OwnDir, Tidy, Aborted, ccVars
<1>6. CASE Interrupt
  <2>1. /\ ~Direct /\ step # "ended" /\ step' = "ended" /\ signalled' = step
        /\ temps' = IF step \in {"check", "temp", "trap"} THEN temps ELSE temps \ {Dir}
        /\ UNCHANGED <<phase, job, ccstatus, build>>
    BY <1>6 DEF Interrupt, Ends
  <2> QED BY <2>1 DEF TInv, Steps, OwnDir, Tidy, Aborted
<1>7. CASE DirectEnds
  BY <1>7 DEF DirectEnds, Ends, TInv, Steps, OwnTemp, Tidy, Aborted, TempName, Dir, Opened
<1>8. CASE Stopped \/ UNCHANGED vars
  BY <1>8 DEF Stopped, vars, ccVars, linkVars, TInv, OwnTemp, OwnDir, Tidy, Aborted
<1> QED BY <1>1, <1>2, <1>3, <1>4, <1>5, <1>6, <1>7, <1>8 DEF Next

(* Whatever fails and whenever a signal comes, nothing temporary is left,  *)
(* but for the two windows Tidy names.                                     *)
THEOREM LeavesTidy == Spec => []Tidy
<1>1. TInv => Tidy
  BY DEF TInv
<1> QED BY <1>1, InitTInv, NextTInv, PTL DEF Spec
------------------------------------------------------------------------------
(* What Linkage says of a module, of its text alone.                       *)

Declare(text, i, x) == text[i].op \in {"decl", "func"} /\ text[i].name = x
Earlier(text, i, x) == {j \in 1..i : Declare(text, j, x)}
Around(text, i, k, x) ==
  {j \in 1..k : text[i].body[j].op \in {"local", "static", "extern", "proto"}
                /\ text[i].body[j].name = x}
AroundOp(text, i, k, x) ==
  IF Around(text, i, k, x) = {} THEN "none" ELSE text[i].body[Max(Around(text, i, k, x))].op

BodyMentions(text, i) ==
  LET body == text[i].body
  IN  {Mention(i, k, body[k].name, body[k].op) : k \in {k \in DOMAIN body : body[k].op \in {"read", "call"}}}
      \cup {Mention(i, k, body[k].init, "init") :
              k \in {k \in DOMAIN body : body[k].op = "static" /\ Address(body[k].init)}}
Mentions(text) ==
  (UNION {BodyMentions(text, i) : i \in {i \in DOMAIN text : text[i].op = "func"}})
  \cup {Mention(i, 0, text[i].init, "init") :
          i \in {i \in DOMAIN text : text[i].op = "decl" /\ Address(text[i].init)}}

Callable(text, i) == text[i].op = "func" \/ text[i].func
Refused(text, u) ==
  LET block == IF u.k = 0 THEN "none" ELSE AroundOp(text, u.i, u.k, u.x)
      file == Earlier(text, u.i, u.x)
      func == \E i \in file : i = Max(file) /\ Callable(text, i)
  IN  CASE u.how = "call" -> block \notin {"none", "proto"} \/ (block = "none" /\ file # {} /\ ~func)
        [] u.how = "init" -> file = {}
        [] u.how = "read" -> block = "none" /\ file = {}

Wrong(text) ==
  \/ \E i \in DOMAIN text : text[i].op = "junk"
  \/ \E u \in Mentions(text) : Refused(text, u)
UnsupportedAt(text, i, k) == text[i].op = "func" /\ text[i].body[k].op = "unsupported"
Unwritable(text) ==
  \E i \in DOMAIN text : text[i].op = "func" /\ \E k \in DOMAIN text[i].body : text[i].body[k].op = "unsupported"

FullAt(text, i) == text[i].op = "func" \/ (text[i].op = "decl" /\ text[i].init # NoInit)
TentativeAt(text, i) ==
  text[i].op = "decl" /\ text[i].init = NoInit /\ text[i].class # "extern" /\ ~text[i].func
MainAt(text, i) == Declare(text, i, "main") /\ FullAt(text, i) /\ text[i].class # "static"

(* Part k of item i defines, the item itself if k is 0.                    *)
DefinesAt(text, i, k) ==
  /\ i \in DOMAIN text
  /\ \/ k = 0 /\ text[i].op # "junk" /\ (TentativeAt(text, i) \/ FullAt(text, i))
     \/ k # 0 /\ text[i].op = "func" /\ k \in DOMAIN text[i].body /\ text[i].body[k].op = "static"

LEMMA InText ==
  ASSUME NEW m
  PROVE  /\ \A u : Rejected(m, u) <=> Refused(Text(m), u)
         /\ Uses(m) = Mentions(Text(m))
         /\ Bad(m) <=> Wrong(Text(m))
         /\ Unsupported(m) <=> Unwritable(Text(m))
         /\ \A i : MainAt(Text(m), i) <=> Declares(m, i, "main") /\ Full(m, i) /\ Class(m, i) # "static"
<1>1. \A i, x : Before(m, i, x) = Earlier(Text(m), i, x)
  BY DEF Before, Earlier, Declares, Declare
<1>2. \A i, k, x : BlockOp(m, i, k, x) = AroundOp(Text(m), i, k, x)
  BY DEF BlockOp, AroundOp, InBlock, Around
<1>3. \A u : Rejected(m, u) <=> Refused(Text(m), u)
  BY <1>1, <1>2 DEF Rejected, Refused, InBody, Callable
<1>4. Uses(m) = Mentions(Text(m))
  BY DEF Uses, BodyUses, Mentions, BodyMentions
<1>5. Bad(m) <=> Wrong(Text(m))
  BY <1>3, <1>4 DEF Bad, Wrong
<1>6. Unsupported(m) <=> Unwritable(Text(m))
  BY DEF Unsupported, Unwritable
<1>7. \A i : MainAt(Text(m), i) <=> Declares(m, i, "main") /\ Full(m, i) /\ Class(m, i) # "static"
  BY DEF MainAt, Declares, Declare, Full, FullAt, Class
<1> QED BY <1>3, <1>4, <1>5, <1>6, <1>7

LEMMA PlacesInText ==
  ASSUME NEW m, NEW p
  PROVE  p \in DefinitionPlaces(m) <=> \E i, k : p = <<m, i, k>> /\ DefinesAt(Text(m), i, k)
                                                 /\ (k # 0 => k \in DOMAIN Text(m)[i].body)
BY DEF DefinitionPlaces, DefinesAt, Defining, Tentative, Full, TentativeAt, FullAt

------------------------------------------------------------------------------
(* What the compiler has made of a text, of module m, so far.              *)

IsSeq(q) == Len(q) \in Nat /\ q = [k \in 1..Len(q) |-> q[k]]

LEMMA SeqOfItself ==
  ASSUME NEW q, IsSeq(q), NEW S, \A k \in 1..Len(q) : q[k] \in S
  PROVE  q \in Seq(S) /\ DOMAIN q = 1..Len(q)
<1>1. q \in [1..Len(q) -> S]
  BY DEF IsSeq
<1> QED BY <1>1, SeqDef DEF IsSeq

LEMMA SeqIsSeq ==
  ASSUME NEW S, NEW q \in Seq(S)
  PROVE  IsSeq(q) /\ DOMAIN q = 1..Len(q)
BY LenProperties DEF IsSeq

LEMMA AppendTo ==
  ASSUME NEW q, IsSeq(q), NEW e
  PROVE  /\ IsSeq(Append(q, e)) /\ Len(Append(q, e)) = Len(q) + 1
         /\ \A k \in 1..Len(q) : Append(q, e)[k] = q[k]
         /\ Append(q, e)[Len(q) + 1] = e
<1> DEFINE S == {q[k] : k \in 1..Len(q)} \cup {e}
<1>1. q \in Seq(S) /\ e \in S
  BY SeqOfItself
<1> HIDE DEF S
<1>2. Append(q, e) \in Seq(S)
  BY <1>1, AppendProperties
<1>3. /\ Len(Append(q, e)) = Len(q) + 1
      /\ \A k \in 1..Len(q) : Append(q, e)[k] = q[k]
      /\ Append(q, e)[Len(q) + 1] = e
  BY <1>1, AppendProperties
<1> QED BY <1>2, <1>3, SeqIsSeq

LEMMA ConcatTo ==
  ASSUME NEW q, IsSeq(q), NEW r, IsSeq(r)
  PROVE  /\ IsSeq(q \o r) /\ Len(q \o r) = Len(q) + Len(r)
         /\ \A k \in 1..Len(q) : (q \o r)[k] = q[k]
         /\ \A k \in 1..Len(r) : (q \o r)[Len(q) + k] = r[k]
<1> DEFINE S == {q[k] : k \in 1..Len(q)} \cup {r[k] : k \in 1..Len(r)}
           c == q \o r
<1>1. q \in Seq(S) /\ r \in Seq(S) /\ Len(q) \in Nat /\ Len(r) \in Nat
  BY SeqOfItself DEF IsSeq
<1> HIDE DEF S
<1>2. c \in Seq(S) /\ Len(c) = Len(q) + Len(r)
      /\ \A k \in 1..Len(q) + Len(r) : c[k] = IF k <= Len(q) THEN q[k] ELSE r[k - Len(q)]
  BY <1>1, ConcatProperties
<1> HIDE DEF c
<1>3. ASSUME NEW k \in 1..Len(q) PROVE c[k] = q[k]
  BY <1>1, <1>2
<1>4. ASSUME NEW k \in 1..Len(r) PROVE c[Len(q) + k] = r[k]
  <2>1. Len(q) + k \in 1..Len(q) + Len(r) /\ ~(Len(q) + k <= Len(q)) /\ (Len(q) + k) - Len(q) = k
    BY <1>1
  <2> QED BY <1>2, <2>1
<1>5. IsSeq(c)
  BY <1>2, SeqIsSeq
<1> QED BY <1>2, <1>3, <1>4, <1>5 DEF c

LEMMA ShortSeqs ==
  /\ IsSeq(<<>>) /\ Len(<<>>) = 0
  /\ \A e : IsSeq(<<e>>) /\ Len(<<e>>) = 1 /\ <<e>>[1] = e
  /\ \A e, f : IsSeq(<<e, f>>) /\ Len(<<e, f>>) = 2 /\ <<e, f>>[1] = e /\ <<e, f>>[2] = f
BY DEF IsSeq

SourceOK(text) ==
  /\ IsSeq(text)
  /\ \A i \in 1..Len(text) :
       /\ text[i].op \in {"decl", "func", "junk"}
       /\ text[i].op = "decl" => text[i].func \in BOOLEAN
       /\ text[i].op = "func" => IsSeq(text[i].body)

(* The parser at <<i, k>> has done part p of item j, a function at its end. *)
Passed(j, p, i, k) == j < i \/ (j = i /\ 0 < p /\ p < k)
Mentioned(u, i, k) == u.i < i \/ (u.i = i /\ u.k < k)

LastOf(S, j) == j \in S /\ \A l \in S : l <= j

(* The names declared in the first i items, and in k parts of a body.      *)
GlobalIs(env, text, i) ==
  \A x : /\ x \in DOMAIN env <=> Earlier(text, i, x) # {}
         /\ x \in DOMAIN env =>
              \E j : LastOf(Earlier(text, i, x), j) /\ (env[x].func <=> Callable(text, j))

LocalIs(env, text, i, k) ==
  \A x : /\ x \in DOMAIN env <=> Around(text, i, k, x) # {}
         /\ x \in DOMAIN env =>
              \E j : LastOf(Around(text, i, k, x), j) /\ (env[x].func <=> text[i].body[j].op = "proto")

IsElement(e, m) ==
  /\ e.op \in {"use", "call", "loop", "string", "unsupported"}
  /\ e.at[1] = m
  /\ e.op = "loop" => e.label.kind = "L"

CodeIs(q, m, text, i, k) ==
  /\ IsSeq(q)
  /\ \A e \in 1..Len(q) : IsElement(q[e], m)
  /\ (\E e \in 1..Len(q) : q[e].op = "unsupported") <=> (\E p \in 1..k - 1 : UnsupportedAt(text, i, p))

IsToplevel(t, m) ==
  /\ t.def \in {"bss", "data", "code"} /\ t.label.kind # "L" /\ t.at[1] = m
  /\ IsSeq(t.code) /\ \A e \in 1..Len(t.code) : IsElement(t.code[e], m)
IsMain(t) == t.def # "bss" /\ t.label = Public("main")
Emittable(t) == \A e \in 1..Len(t.code) : t.code[e].op # "unsupported"
Supported(text, i) == text[i].op = "func" => \A p \in 1..Len(text[i].body) : text[i].body[p].op # "unsupported"

MainBefore(text, i) == \E j \in 1..i - 1 : MainAt(text, j)
SupportedBefore(text, i) == \A j \in 1..i - 1 : Supported(text, j)

(* The toplevels of what the parser at <<i, k>> has done.                  *)
TopsAre(q, m, text, i, k) ==
  /\ IsSeq(q)
  /\ \A t \in 1..Len(q) :
       /\ IsToplevel(q[t], m)
       /\ \E j, p \in Nat : q[t].at = <<m, j, p>> /\ DefinesAt(text, j, p) /\ Passed(j, p, i, k)
  /\ \A j, p \in Nat : DefinesAt(text, j, p) /\ Passed(j, p, i, k) =>
       \E t \in 1..Len(q) : q[t].at = <<m, j, p>>
  /\ (\E t \in 1..Len(q) : IsMain(q[t])) <=> MainBefore(text, i)
  /\ (\A t \in 1..Len(q) : Emittable(q[t])) <=> SupportedBefore(text, i)

(* Lines of assembly: those that define something with a name.             *)
Names(lines) == {l \in 1..Len(lines) : lines[l].op \in {"def", "bss"} /\ lines[l].label.kind # "L"}
HasMain(lines) == \E l \in 1..Len(lines) : lines[l].op = "def" /\ lines[l].label = Public("main")

(* The back end at <<i, k>> has written the head of toplevel t.            *)
Headed(t, i, k) == t < i \/ (t = i /\ 0 < k)

LinesAre(lines, q, m, i, k) ==
  /\ IsSeq(lines)
  /\ \A l \in 1..Len(lines) : lines[l].at[1] = m
  /\ \A l \in Names(lines) : \E t \in 1..Len(q) : Headed(t, i, k) /\ lines[l].at = q[t].at
  /\ \A t \in 1..Len(q) : Headed(t, i, k) => \E l \in Names(lines) : lines[l].at = q[t].at
  /\ HasMain(lines) <=> \E t \in 1..Len(q) : Headed(t, i, k) /\ IsMain(q[t])
  /\ \A t \in 1..Len(q) : \A e \in 1..Len(q[t].code) :
       t < i \/ (t = i /\ e < k) => q[t].code[e].op # "unsupported"

(* What the compiler, and the script, have written of the modules S.       *)
NamesAre(lines, sources, S) ==
  /\ \A l \in Names(lines) :
       \E m \in S : \E j, p \in Nat : lines[l].at = <<m, j, p>> /\ DefinesAt(sources[m].text, j, p)
  /\ \A m \in S : \A j, p \in Nat :
       DefinesAt(sources[m].text, j, p) => \E l \in Names(lines) : lines[l].at = <<m, j, p>>
HaveMain(sources, S) == \E m \in S : \E j \in 1..Len(sources[m].text) : MainAt(sources[m].text, j)

ModulesAre(lines, sources, S) ==
  /\ IsSeq(lines)
  /\ \A l \in 1..Len(lines) : lines[l].at[1] \in S
  /\ NamesAre(lines, sources, S)
  /\ HasMain(lines) <=> HaveMain(sources, S)

Sorted(lines) == \A j, k \in 1..Len(lines) : j < k => lines[j].at[1] <= lines[k].at[1]

------------------------------------------------------------------------------
(* What holds while the compiler is at work on source n.                   *)

FunctionAt(text, m, i, k, env, loc, c) ==
  /\ i <= Len(text) /\ text[i].op = "func" /\ k <= Len(text[i].body) + 1
  /\ LocalIs(loc, text, i, k - 1)
  /\ CodeIs(c, m, text, i, k)
  /\ env[text[i].name].label.kind # "L"
  /\ env[text[i].name].label = Public("main") <=> MainAt(text, i)

ParseAt(text, m, i, k, env, loc, q, c) ==
  /\ i \in 1..Len(text) + 1 /\ k \in Nat
  /\ k = 0 => GlobalIs(env, text, i - 1)
  /\ k > 0 => GlobalIs(env, text, i) /\ FunctionAt(text, m, i, k, env, loc, c)
  /\ \A j \in 1..i - 1 : text[j].op # "junk"
  /\ \A u \in Mentions(text) : Mentioned(u, i, k) => ~Refused(text, u)
  /\ TopsAre(q, m, text, i, k)

ParseInv ==
  /\ pos = <<pos[1], pos[2]>> /\ asm = <<>>
  /\ ParseAt(job.source, job.n, pos[1], pos[2], global, local, tops, code)

EmitAt(lines, q, m, i, k) ==
  /\ i \in 1..Len(q) + 1 /\ k \in Nat
  /\ k > 0 => i <= Len(q) /\ k <= Len(q[i].code) + 1
  /\ LinesAre(lines, q, m, i, k)

EmitInv ==
  /\ pos = <<pos[1], pos[2]>>
  /\ TopsAre(tops, job.n, job.source, Len(job.source) + 1, 0)
  /\ EmitAt(asm, tops, job.n, pos[1], pos[2])

Emitted == ~Unwritable(job.source) /\ ModulesAre(asm, Sources, {job.n})

CInv ==
  /\ phase \in {"options", "source", "open", "preprocess", "parse", "emit", "close", "closeagain", "exit"}
  /\ phase \notin {"options", "exit"} => job.id # "bad" /\ job.opts # {}
  /\ phase \notin {"options", "source", "exit"} => job.readable
  /\ phase = "preprocess" => "E" \in job.opts
  /\ phase \in {"parse", "emit", "close", "closeagain"} => "E" \notin job.opts
  /\ phase \in {"options", "source", "open"} => pos = <<1, 0>> /\ global = Nothing /\ tops = <<>>
  /\ phase = "parse" => ParseInv
  /\ phase \in {"emit", "close", "closeagain"} => ~Wrong(job.source)
  /\ phase = "emit" => EmitInv /\ "ast" \notin job.opts
  /\ phase \in {"close", "closeagain"} => "ast" \in job.opts \/ Emitted
  /\ phase = "exit" =>
       \/ /\ ccstatus = 0 /\ job.id # "bad" /\ job.opts # {} /\ job.readable
          /\ "E" \in job.opts \/ (~Wrong(job.source) /\ ("ast" \in job.opts \/ Emitted))
       \/ /\ ccstatus = 1
          /\ \/ job.id = "bad" \/ job.opts = {} \/ ~job.readable
             \/ /\ "E" \notin job.opts
                /\ Wrong(job.source) \/ ("ast" \notin job.opts /\ Unwritable(job.source))
       \/ ccstatus = Signal + 6

(* What holds of the script.                                               *)
Compiles(source) == source.file = "readable" /\ ~Wrong(source.text) /\ ~Unwritable(source.text)

Program(lines, sources) ==
  \E body : /\ ModulesAre(body, sources, 1..Len(sources)) /\ Sorted(body)
            /\ lines = Startup(HaveMain(sources, 1..Len(sources))) \o body

Hindered ==
  \/ signalled # "no" \/ Aborted
  \/ \E m \in 1..Len(Sources) : ~Compiles(Sources[m])
  \/ build.compiler = "missing" \/ ~HaveMain(Sources, 1..Len(Sources))
  \/ ~build.stop /\ (build.assembler = "missing" \/ ~Links(merged))

HinderedDirect ==
  \/ build.opts = {} \/ build.id = "bad" \/ Aborted \/ Sources[1].file # "readable"
  \/ /\ "E" \notin build.opts
     /\ Wrong(Sources[1].text) \/ ("ast" \notin build.opts /\ Unwritable(Sources[1].text))

DirectEnd ==
  /\ status = 0 <=> ~HinderedDirect
  /\ status = 0 /\ build.opts \in {{"S"}, {"S", "c"}} => ModulesAre(asm, Sources, {1})

ScriptEnd ==
  /\ status = 0 <=> ~Hindered
  /\ status = 0 => image.is = (IF build.stop THEN "old" ELSE "written")
  /\ status = 0 /\ (build.stop \/ build.keep) => kept.is = "written"
  /\ image.is = "written" => Program(image.lines, Sources)
  /\ kept.is = "written" => Program(kept.lines, Sources)

(* At each step of the script: what is merged, and what was found there.   *)
ScriptInv ==
  /\ step \in {"check", "temp", "trap", "compiler"} => n = 1 /\ merged = <<>>
  /\ step \in {"next", "compiling"} =>
       /\ ModulesAre(merged, Sources, 1..n - 1) /\ Sorted(merged)
       /\ \A m \in 1..n - 1 : Compiles(Sources[m])
  /\ step \in {"copy", "stop", "assemble", "report"} =>
       /\ Program(merged, Sources)
       /\ \A m \in 1..Len(Sources) : Compiles(Sources[m])
       /\ missingmain <=> ~HaveMain(Sources, 1..Len(Sources))
  /\ step # "compiling" => ccstatus = 0
  /\ step # "check" => build.stop \/ build.assembler # "missing"
  /\ step \notin {"check", "temp", "trap", "compiler"} => build.compiler # "missing"
  /\ step = "stop" => build.stop
  /\ step \in {"assemble", "report"} => ~build.stop
  /\ step = "report" => Links(merged)
  /\ image = (IF step = "report" THEN Written(merged) ELSE Old)
  /\ kept = (IF step \in {"stop", "assemble", "report"} /\ (build.keep \/ build.stop)
             THEN Written(merged) ELSE Old)

SInv ==
  /\ build \in Builds /\ n \in 1..Len(Sources) + 1
  /\ step = "compiling" => n <= Len(Sources) /\ job = Job(n) /\ CInv
  /\ Direct => n = 1
  /\ ~Direct /\ step # "ended" => ScriptInv
  /\ ~Direct /\ step = "ended" => ScriptEnd
  /\ Direct /\ step = "ended" => DirectEnd

------------------------------------------------------------------------------
(* Mentions, and which are refused.                                        *)

LEMMA MaxIs ==
  ASSUME NEW S, S \subseteq Int, NEW j, LastOf(S, j)
  PROVE  Max(S) = j /\ \A l : LastOf(S, l) => l = j
<1>1. \E x \in S : \A y \in S : x >= y
  BY DEF LastOf
<1>2. Max(S) \in S /\ \A y \in S : Max(S) >= y
  BY <1>1 DEF Max
<1> HIDE DEF Max
<1>3. ASSUME NEW m, m \in S, \A y \in S : m >= y PROVE m = j
  BY <1>3 DEF LastOf
<1>4. ASSUME NEW l, LastOf(S, l) PROVE l = j
  BY <1>4 DEF LastOf
<1> QED BY <1>2, <1>3, <1>4

LEMMA MentionsAre ==
  ASSUME NEW text, SourceOK(text), NEW u
  PROVE  u \in Mentions(text) <=>
           \E i \in 1..Len(text) :
             \/ text[i].op = "decl" /\ Address(text[i].init) /\ u = Mention(i, 0, text[i].init, "init")
             \/ /\ text[i].op = "func"
                /\ \E k \in 1..Len(text[i].body) :
                     \/ /\ text[i].body[k].op \in {"read", "call"}
                        /\ u = Mention(i, k, text[i].body[k].name, text[i].body[k].op)
                     \/ /\ text[i].body[k].op = "static" /\ Address(text[i].body[k].init)
                        /\ u = Mention(i, k, text[i].body[k].init, "init")
<1>1. DOMAIN text = 1..Len(text)
  BY SeqOfItself DEF SourceOK
<1>2. \A i \in 1..Len(text) : text[i].op = "func" => DOMAIN text[i].body = 1..Len(text[i].body)
  <2>1. TAKE i \in 1..Len(text)
  <2>2. HAVE text[i].op = "func"
  <2>3. PICK q : q = text[i].body
    OBVIOUS
  <2>4. IsSeq(q)
    BY <2>2, <2>3 DEF SourceOK
  <2>5. DOMAIN q = 1..Len(q)
    BY <2>4 DEF IsSeq
  <2> QED BY <2>3, <2>5
<1>3. u \in Mentions(text) <=>
           \E i \in DOMAIN text :
             \/ text[i].op = "decl" /\ Address(text[i].init) /\ u = Mention(i, 0, text[i].init, "init")
             \/ /\ text[i].op = "func"
                /\ \E k \in DOMAIN text[i].body :
                     \/ /\ text[i].body[k].op \in {"read", "call"}
                        /\ u = Mention(i, k, text[i].body[k].name, text[i].body[k].op)
                     \/ /\ text[i].body[k].op = "static" /\ Address(text[i].body[k].init)
                        /\ u = Mention(i, k, text[i].body[k].init, "init")
  <2> DEFINE InItems == {Mention(i, 0, text[i].init, "init") :
                            i \in {i \in DOMAIN text : text[i].op = "decl" /\ Address(text[i].init)}}
             InBodies == UNION {BodyMentions(text, i) : i \in {i \in DOMAIN text : text[i].op = "func"}}
  <2>1. \A i : u \in BodyMentions(text, i) <=>
          \E k \in DOMAIN text[i].body :
             \/ /\ text[i].body[k].op \in {"read", "call"}
                /\ u = Mention(i, k, text[i].body[k].name, text[i].body[k].op)
             \/ /\ text[i].body[k].op = "static" /\ Address(text[i].body[k].init)
                /\ u = Mention(i, k, text[i].body[k].init, "init")
    BY DEF BodyMentions
  <2>2. Mentions(text) = InBodies \cup InItems
    BY DEF Mentions
  <2>3. u \in InBodies <=> \E i \in DOMAIN text : text[i].op = "func" /\ u \in BodyMentions(text, i)
    OBVIOUS
  <2>4. u \in InItems <=>
          \E i \in DOMAIN text :
               text[i].op = "decl" /\ Address(text[i].init) /\ u = Mention(i, 0, text[i].init, "init")
    OBVIOUS
  <2> HIDE DEF InBodies, InItems
  <2>5. u \in Mentions(text) <=>
          \/ \E i \in DOMAIN text : text[i].op = "func" /\ u \in BodyMentions(text, i)
          \/ \E i \in DOMAIN text :
               text[i].op = "decl" /\ Address(text[i].init) /\ u = Mention(i, 0, text[i].init, "init")
    BY <2>2, <2>3, <2>4
  <2> QED BY <2>1, <2>5
<1> QED BY <1>1, <1>2, <1>3

LEMMA RefusedInit ==
  ASSUME NEW text, NEW i, NEW k, NEW x
  PROVE  Refused(text, Mention(i, k, x, "init")) <=> Earlier(text, i, x) = {}
BY DEF Refused, Mention

LEMMA RefusedName ==
  ASSUME NEW text, NEW i \in Nat, NEW k \in Nat \ {0}, NEW x, NEW env, NEW loc,
         GlobalIs(env, text, i), LocalIs(loc, text, i, k - 1),
         text[i].body[k].op \in {"read", "call"}
  PROVE  /\ Refused(text, Mention(i, k, x, "read")) <=> x \notin DOMAIN loc /\ x \notin DOMAIN env
         /\ Refused(text, Mention(i, k, x, "call")) <=>
              \/ x \in DOMAIN loc /\ ~loc[x].func
              \/ x \notin DOMAIN loc /\ x \in DOMAIN env /\ ~env[x].func
<1> DEFINE A == Around(text, i, k, x)
           E == Earlier(text, i, x)
<1>1. A = Around(text, i, k - 1, x)
  BY DEF Around
<1>2. A \subseteq Int /\ E \subseteq Int
  BY DEF Earlier, Around
<1>3. x \notin DOMAIN loc => AroundOp(text, i, k, x) = "none"
  BY <1>1 DEF LocalIs, AroundOp
<1>4. x \in DOMAIN loc => /\ AroundOp(text, i, k, x) \notin {"none"}
                          /\ AroundOp(text, i, k, x) = "proto" <=> loc[x].func
  <2>1. HAVE x \in DOMAIN loc
  <2>2. PICK j : LastOf(A, j) /\ (loc[x].func <=> text[i].body[j].op = "proto")
    BY <1>1, <2>1 DEF LocalIs
  <2>3. Max(A) = j /\ A # {} /\ j \in A
    BY <1>2, <2>2, MaxIs DEF LastOf
  <2>4. AroundOp(text, i, k, x) = text[i].body[j].op
    BY <2>3 DEF AroundOp
  <2>5. text[i].body[j].op \in {"local", "static", "extern", "proto"}
    BY <2>3 DEF Around
  <2> QED BY <2>2, <2>4, <2>5
<1>5. x \notin DOMAIN env <=> E = {}
  BY DEF GlobalIs
<1>6. x \in DOMAIN env => ((\E j \in E : j = Max(E) /\ Callable(text, j)) <=> env[x].func)
  <2>1. HAVE x \in DOMAIN env
  <2>2. PICK j : LastOf(E, j) /\ (env[x].func <=> Callable(text, j))
    BY <2>1 DEF GlobalIs
  <2>3. Max(E) = j /\ j \in E
    BY <1>2, <2>2, MaxIs DEF LastOf
  <2> QED BY <2>2, <2>3
<1>7. Refused(text, Mention(i, k, x, "read")) <=> AroundOp(text, i, k, x) = "none" /\ E = {}
  BY DEF Refused, Mention
<1>8. Refused(text, Mention(i, k, x, "call")) <=>
        \/ AroundOp(text, i, k, x) \notin {"none", "proto"}
        \/ AroundOp(text, i, k, x) = "none" /\ E # {} /\ ~ \E j \in E : j = Max(E) /\ Callable(text, j)
  BY DEF Refused, Mention
<1> QED BY <1>3, <1>4, <1>5, <1>6, <1>7, <1>8

------------------------------------------------------------------------------
(* The environments, a declaration at a time.                              *)

LEMMA EarlierNext ==
  ASSUME NEW text, NEW i \in Nat, NEW x
  PROVE  Earlier(text, i + 1, x) = Earlier(text, i, x) \cup {j \in {i + 1} : Declare(text, j, x)}
BY DEF Earlier

LEMMA AroundNext ==
  ASSUME NEW text, NEW i, NEW k \in Nat, NEW x
  PROVE  Around(text, i, k + 1, x) =
           Around(text, i, k, x) \cup
           {j \in {k + 1} : text[i].body[j].op \in {"local", "static", "extern", "proto"}
                            /\ text[i].body[j].name = x}
BY DEF Around

LEMMA GlobalStarts ==
  ASSUME NEW text
  PROVE  GlobalIs(Nothing, text, 0) /\ \A i : LocalIs(Nothing, text, i, 0)
BY DEF GlobalIs, LocalIs, Nothing, Earlier, Around

LEMMA GlobalGrows ==
  ASSUME NEW text, NEW i \in Nat, NEW env, GlobalIs(env, text, i), NEW name, NEW e,
         Declare(text, i + 1, name), e.func <=> Callable(text, i + 1)
  PROVE  GlobalIs(With(env, name, e), text, i + 1)
<1> DEFINE more == With(env, name, e)
<1> SUFFICES ASSUME NEW x
             PROVE  /\ x \in DOMAIN more <=> Earlier(text, i + 1, x) # {}
                    /\ x \in DOMAIN more =>
                         \E j : LastOf(Earlier(text, i + 1, x), j) /\ (more[x].func <=> Callable(text, j))
  BY DEF GlobalIs
<1>1. /\ x \in DOMAIN more <=> x = name \/ x \in DOMAIN env
      /\ x = name => more[x] = e
      /\ x # name /\ x \in DOMAIN env => more[x] = env[x]
  BY DEF With
<1>2. CASE x = name
  <2>1. Earlier(text, i + 1, x) = Earlier(text, i, x) \cup {i + 1}
    BY <1>2, EarlierNext
  <2>2. LastOf(Earlier(text, i + 1, x), i + 1)
    BY <2>1 DEF LastOf, Earlier
  <2> QED BY <1>1, <1>2, <2>1, <2>2
<1>3. CASE x # name
  <2>1. Earlier(text, i + 1, x) = Earlier(text, i, x)
    <3>1. ~Declare(text, i + 1, x)
      BY <1>3 DEF Declare
    <3>2. \A j : j \in Earlier(text, i + 1, x) <=> j \in Earlier(text, i, x)
      BY <3>1 DEF Earlier
    <3> QED BY <3>2
  <2>2. /\ x \in DOMAIN env <=> Earlier(text, i, x) # {}
        /\ x \in DOMAIN env =>
             \E j : LastOf(Earlier(text, i, x), j) /\ (env[x].func <=> Callable(text, j))
    BY DEF GlobalIs
  <2> QED BY <1>1, <1>3, <2>1, <2>2
<1> QED BY <1>2, <1>3

LEMMA LocalGrows ==
  ASSUME NEW text, NEW i, NEW k \in Nat, NEW env, LocalIs(env, text, i, k), NEW name, NEW e,
         text[i].body[k + 1].op \in {"local", "static", "extern", "proto"},
         text[i].body[k + 1].name = name,
         e.func <=> text[i].body[k + 1].op = "proto"
  PROVE  LocalIs(With(env, name, e), text, i, k + 1)
<1> DEFINE more == With(env, name, e)
<1> SUFFICES ASSUME NEW x
             PROVE  /\ x \in DOMAIN more <=> Around(text, i, k + 1, x) # {}
                    /\ x \in DOMAIN more =>
                         \E j : LastOf(Around(text, i, k + 1, x), j)
                                /\ (more[x].func <=> text[i].body[j].op = "proto")
  BY DEF LocalIs
<1>1. /\ x \in DOMAIN more <=> x = name \/ x \in DOMAIN env
      /\ x = name => more[x] = e
      /\ x # name /\ x \in DOMAIN env => more[x] = env[x]
  BY DEF With
<1>2. CASE x = name
  <2>1. Around(text, i, k + 1, x) = Around(text, i, k, x) \cup {k + 1}
    BY <1>2, AroundNext
  <2>2. LastOf(Around(text, i, k + 1, x), k + 1)
    BY <2>1 DEF LastOf, Around
  <2> QED BY <1>1, <1>2, <2>1, <2>2
<1>3. CASE x # name
  <2>1. Around(text, i, k + 1, x) = Around(text, i, k, x)
    <3>1. \A j : j \in Around(text, i, k + 1, x) <=> j \in Around(text, i, k, x)
      BY <1>3 DEF Around
    <3> QED BY <3>1
  <2>2. /\ x \in DOMAIN env <=> Around(text, i, k, x) # {}
        /\ x \in DOMAIN env =>
             \E j : LastOf(Around(text, i, k, x), j) /\ (env[x].func <=> text[i].body[j].op = "proto")
    BY DEF LocalIs
  <2> QED BY <1>1, <1>3, <2>1, <2>2
<1> QED BY <1>2, <1>3

LEMMA LocalStays ==
  ASSUME NEW text, NEW i, NEW k \in Nat, NEW env, LocalIs(env, text, i, k),
         text[i].body[k + 1].op \notin {"local", "static", "extern", "proto"}
  PROVE  LocalIs(env, text, i, k + 1)
<1>1. ASSUME NEW x PROVE Around(text, i, k + 1, x) = Around(text, i, k, x)
  <2>1. \A j : j \in Around(text, i, k + 1, x) <=> j \in Around(text, i, k, x)
    BY DEF Around
  <2> QED BY <2>1
<1> QED BY <1>1 DEF LocalIs

(* The toplevels and the code of a body, one more at a time.               *)
LEMMA BeforeNext ==
  ASSUME NEW text, NEW i \in Nat \ {0}
  PROVE  /\ MainBefore(text, i + 1) <=> MainBefore(text, i) \/ MainAt(text, i)
         /\ SupportedBefore(text, i + 1) <=> SupportedBefore(text, i) /\ Supported(text, i)
<1>1. \A j : j \in 1..(i + 1) - 1 <=> j \in 1..i - 1 \/ j = i
  OBVIOUS
<1> QED BY <1>1 DEF MainBefore, SupportedBefore

LEMMA TopsAdd ==
  ASSUME NEW q, NEW m, NEW text, NEW i \in Nat, NEW k, NEW i2 \in Nat, NEW k2, NEW t, NEW a \in Nat, NEW b \in Nat,
         TopsAre(q, m, text, i, k), IsToplevel(t, m),
         t.at = <<m, a, b>>, DefinesAt(text, a, b),
         \A j, p \in Nat : DefinesAt(text, j, p) =>
           (Passed(j, p, i2, k2) <=> Passed(j, p, i, k) \/ (j = a /\ p = b)),
         MainBefore(text, i2) <=> MainBefore(text, i) \/ IsMain(t),
         SupportedBefore(text, i2) <=>
           SupportedBefore(text, i) /\ Emittable(t)
  PROVE  TopsAre(Append(q, t), m, text, i2, k2)
<1> DEFINE r == Append(q, t)
<1>0. IsSeq(q)
  BY DEF TopsAre
<1>1. /\ IsSeq(r) /\ Len(r) = Len(q) + 1 /\ Len(q) \in Nat
      /\ \A l \in 1..Len(q) : r[l] = q[l]
      /\ r[Len(q) + 1] = t
  BY <1>0, AppendTo DEF IsSeq
<1>2. \A l \in 1..Len(r) : l \in 1..Len(q) \/ l = Len(q) + 1
  BY <1>1
<1>2a. \A l \in 1..Len(q) : l \in 1..Len(r)
  BY <1>1
<1>2b. Len(q) + 1 \in 1..Len(r)
  BY <1>1
<1> HIDE DEF r
<1>3. ASSUME NEW l \in 1..Len(r)
      PROVE  /\ IsToplevel(r[l], m)
             /\ \E j, p \in Nat : r[l].at = <<m, j, p>> /\ DefinesAt(text, j, p) /\ Passed(j, p, i2, k2)
  <2>1. CASE l \in 1..Len(q)
    <3>1. PICK j \in Nat, p \in Nat : q[l].at = <<m, j, p>> /\ DefinesAt(text, j, p) /\ Passed(j, p, i, k)
      BY <2>1 DEF TopsAre
    <3>2. Passed(j, p, i2, k2)
      BY <3>1
    <3>3. IsToplevel(q[l], m)
      BY <2>1 DEF TopsAre
    <3> QED BY <1>1, <2>1, <3>1, <3>2, <3>3
  <2>2. CASE l = Len(q) + 1
    <3>1. Passed(a, b, i2, k2)
      OBVIOUS
    <3> QED BY <1>1, <2>2, <3>1
  <2> QED BY <1>2, <2>1, <2>2
<1>4. ASSUME NEW j \in Nat, NEW p \in Nat, DefinesAt(text, j, p), Passed(j, p, i2, k2)
      PROVE  \E l \in 1..Len(r) : r[l].at = <<m, j, p>>
  <2>1. CASE Passed(j, p, i, k)
    <3>1. PICK l \in 1..Len(q) : q[l].at = <<m, j, p>>
      BY <1>4, <2>1 DEF TopsAre
    <3> QED BY <1>1, <1>2a, <3>1
  <2>2. CASE j = a /\ p = b
    BY <1>1, <1>2b, <2>2
  <2> QED BY <1>4, <2>1, <2>2
<1>5. (\E l \in 1..Len(r) : IsMain(r[l])) <=> MainBefore(text, i2)
  <2>1. (\E l \in 1..Len(r) : IsMain(r[l])) <=> (\E l \in 1..Len(q) : IsMain(q[l])) \/ IsMain(t)
    BY <1>1, <1>2, <1>2a, <1>2b
  <2>2. (\E l \in 1..Len(q) : IsMain(q[l])) <=> MainBefore(text, i)
    BY DEF TopsAre
  <2> QED BY <2>1, <2>2
<1>6. (\A l \in 1..Len(r) : Emittable(r[l])) <=> SupportedBefore(text, i2)
  <2>1. (\A l \in 1..Len(r) : Emittable(r[l])) <=> (\A l \in 1..Len(q) : Emittable(q[l])) /\ Emittable(t)
    BY <1>1, <1>2, <1>2a, <1>2b
  <2>2. (\A l \in 1..Len(q) : Emittable(q[l])) <=> SupportedBefore(text, i)
    BY DEF TopsAre
  <2> QED BY <2>1, <2>2
<1>7. IsSeq(r)
  BY <1>1
<1>8. TopsAre(r, m, text, i2, k2)
  BY <1>3, <1>4, <1>5, <1>6, <1>7 DEF TopsAre
<1> QED BY <1>8 DEF r

LEMMA TopsStay ==
  ASSUME NEW q, NEW m, NEW text, NEW i \in Nat, NEW k, NEW i2 \in Nat, NEW k2,
         TopsAre(q, m, text, i, k),
         \A j, p \in Nat : DefinesAt(text, j, p) => (Passed(j, p, i2, k2) <=> Passed(j, p, i, k)),
         MainBefore(text, i2) <=> MainBefore(text, i),
         SupportedBefore(text, i2) <=> SupportedBefore(text, i)
  PROVE  TopsAre(q, m, text, i2, k2)
<1>1. ASSUME NEW l \in 1..Len(q)
      PROVE  /\ IsToplevel(q[l], m)
             /\ \E j, p \in Nat : q[l].at = <<m, j, p>> /\ DefinesAt(text, j, p) /\ Passed(j, p, i2, k2)
  <2>1. PICK j \in Nat, p \in Nat : q[l].at = <<m, j, p>> /\ DefinesAt(text, j, p) /\ Passed(j, p, i, k)
    BY DEF TopsAre
  <2> QED BY <2>1 DEF TopsAre
<1>2. ASSUME NEW j \in Nat, NEW p \in Nat, DefinesAt(text, j, p), Passed(j, p, i2, k2)
      PROVE  \E l \in 1..Len(q) : q[l].at = <<m, j, p>>
  BY <1>2 DEF TopsAre
<1>3. /\ IsSeq(q)
      /\ (\E l \in 1..Len(q) : IsMain(q[l])) <=> MainBefore(text, i2)
      /\ (\A l \in 1..Len(q) : Emittable(q[l])) <=> SupportedBefore(text, i2)
  BY DEF TopsAre
<1> QED BY <1>1, <1>2, <1>3 DEF TopsAre

LEMMA CodeAdd ==
  ASSUME NEW q, NEW m, NEW text, NEW i, NEW k \in Nat \ {0}, CodeIs(q, m, text, i, k), NEW e, IsElement(e, m),
         e.op = "unsupported" <=> UnsupportedAt(text, i, k)
  PROVE  CodeIs(Append(q, e), m, text, i, k + 1)
<1> DEFINE r == Append(q, e)
<1>0. IsSeq(q)
  BY DEF CodeIs
<1>1. /\ IsSeq(r) /\ Len(r) = Len(q) + 1 /\ Len(q) \in Nat
      /\ \A l \in 1..Len(q) : r[l] = q[l]
      /\ r[Len(q) + 1] = e
  BY <1>0, AppendTo DEF IsSeq
<1> HIDE DEF r
<1>2. \A l \in 1..Len(r) : l \in 1..Len(q) \/ l = Len(q) + 1
  BY <1>1
<1>2a. \A l \in 1..Len(q) : l \in 1..Len(r)
  BY <1>1
<1>2b. Len(q) + 1 \in 1..Len(r)
  BY <1>1
<1>3. \A l \in 1..Len(r) : IsElement(r[l], m)
  BY <1>1, <1>2 DEF CodeIs
<1>4. (\E l \in 1..Len(r) : r[l].op = "unsupported") <=> (\E l \in 1..Len(q) : q[l].op = "unsupported") \/ e.op = "unsupported"
  BY <1>1, <1>2, <1>2a, <1>2b
<1>5. (\E p \in 1..(k + 1) - 1 : UnsupportedAt(text, i, p)) <=> (\E p \in 1..k - 1 : UnsupportedAt(text, i, p)) \/ UnsupportedAt(text, i, k)
  <2>1. \A p : p \in 1..(k + 1) - 1 <=> p \in 1..k - 1 \/ p = k
    OBVIOUS
  <2> QED BY <2>1
<1>6. CodeIs(r, m, text, i, k + 1)
  BY <1>1, <1>3, <1>4, <1>5 DEF CodeIs
<1> QED BY <1>6 DEF r

LEMMA CodeStays ==
  ASSUME NEW q, NEW m, NEW text, NEW i, NEW k \in Nat \ {0}, CodeIs(q, m, text, i, k), ~UnsupportedAt(text, i, k)
  PROVE  CodeIs(q, m, text, i, k + 1)
<1>1. \A p : p \in 1..(k + 1) - 1 <=> p \in 1..k - 1 \/ p = k
  OBVIOUS
<1> QED BY <1>1 DEF CodeIs

------------------------------------------------------------------------------
(* The parser, a step at a time.                                           *)

LEMMA BodyOf ==
  ASSUME NEW text, SourceOK(text), NEW i \in 1..Len(text), text[i].op = "func"
  PROVE  Len(text[i].body) \in Nat /\ DOMAIN text[i].body = 1..Len(text[i].body) /\ DOMAIN text = 1..Len(text)
<1>1. PICK q : q = text[i].body
  OBVIOUS
<1>2. IsSeq(q)
  BY <1>1 DEF SourceOK
<1>3. Len(q) \in Nat /\ DOMAIN q = 1..Len(q)
  BY <1>2 DEF IsSeq
<1>4. DOMAIN text = 1..Len(text)
  BY DEF SourceOK, IsSeq
<1> QED BY <1>1, <1>3, <1>4

(* What has been mentioned after a part, an item or the head of a function. *)
LEMMA MentionedNext ==
  ASSUME NEW text, SourceOK(text), NEW i \in 1..Len(text), NEW k \in Nat, NEW u \in Mentions(text)
  PROVE  /\ Mentioned(u, i, k + 1) => Mentioned(u, i, k) \/ (u.i = i /\ u.k = k)
         /\ Mentioned(u, i + 1, 0) /\ text[i].op = "func" => Mentioned(u, i, Len(text[i].body) + 1)
         /\ Mentioned(u, i, 1) /\ text[i].op = "func" => Mentioned(u, i, 0)
         /\ Mentioned(u, i + 1, 0) /\ text[i].op # "func" =>
              Mentioned(u, i, 0) \/ (text[i].op = "decl" /\ Address(text[i].init)
                                     /\ u = Mention(i, 0, text[i].init, "init"))
         /\ Mentioned(u, Len(text) + 1, 0)
<1>1. Len(text) \in Nat
  BY DEF SourceOK, IsSeq
<1>2. PICK j \in 1..Len(text) :
             \/ text[j].op = "decl" /\ Address(text[j].init) /\ u = Mention(j, 0, text[j].init, "init")
             \/ /\ text[j].op = "func"
                /\ \E l \in 1..Len(text[j].body) :
                     \/ /\ text[j].body[l].op \in {"read", "call"}
                        /\ u = Mention(j, l, text[j].body[l].name, text[j].body[l].op)
                     \/ /\ text[j].body[l].op = "static" /\ Address(text[j].body[l].init)
                        /\ u = Mention(j, l, text[j].body[l].init, "init")
  BY MentionsAre
<1>3. u.i = j /\ \/ /\ text[j].op = "decl" /\ Address(text[j].init)
                    /\ u = Mention(j, 0, text[j].init, "init") /\ u.k = 0
                 \/ text[j].op = "func" /\ u.k \in 1..Len(text[j].body)
  BY <1>2 DEF Mention
<1>4. text[j].op = "func" => Len(text[j].body) \in Nat
  BY BodyOf
<1> QED BY <1>1, <1>3, <1>4 DEF Mentioned

LEMMA PassedNext ==
  ASSUME NEW text, SourceOK(text), NEW i \in 1..Len(text),
         NEW j \in Nat, NEW p \in Nat, DefinesAt(text, j, p)
  PROVE  /\ \A k \in Nat \ {0} : Passed(j, p, i, k + 1) <=> Passed(j, p, i, k) \/ (j = i /\ p = k)
         /\ text[i].op = "func" => (Passed(j, p, i, 1) <=> Passed(j, p, i, 0))
         /\ text[i].op = "func" =>
              (Passed(j, p, i + 1, 0) <=> Passed(j, p, i, Len(text[i].body) + 1) \/ (j = i /\ p = 0))
         /\ text[i].op # "func" => (Passed(j, p, i + 1, 0) <=> Passed(j, p, i, 0) \/ (j = i /\ p = 0))
<1>1. j = i /\ text[i].op = "func" => p = 0 \/ p \in 1..Len(text[i].body)
  BY BodyOf DEF DefinesAt
<1>2. j = i /\ text[i].op # "func" => p = 0
  BY DEF DefinesAt
<1>3. text[i].op = "func" => Len(text[i].body) \in Nat
  BY BodyOf
<1> QED BY <1>1, <1>2, <1>3 DEF Passed

LEMMA PartDone ==
  ASSUME NEW text, SourceOK(text), NEW m, NEW i, NEW k, NEW env, NEW loc, NEW q, NEW c,
         ParseAt(text, m, i, k, env, loc, q, c), k > 0, k <= Len(text[i].body),
         \A u \in Mentions(text) : u.i = i /\ u.k = k => ~Refused(text, u),
         NEW loc2, NEW q2, NEW c2,
         LocalIs(loc2, text, i, k), TopsAre(q2, m, text, i, k + 1), CodeIs(c2, m, text, i, k + 1)
  PROVE  ParseAt(text, m, i, k + 1, env, loc2, q2, c2)
<1>1. i \in 1..Len(text) /\ k \in Nat \ {0} /\ text[i].op = "func" /\ Len(text) \in Nat
  BY DEF ParseAt, FunctionAt, SourceOK, IsSeq
<1>2. Len(text[i].body) \in Nat
  BY <1>1, BodyOf
<1>3. ASSUME NEW u \in Mentions(text), Mentioned(u, i, k + 1) PROVE ~Refused(text, u)
  BY <1>1, <1>3, MentionedNext DEF ParseAt
<1>4. FunctionAt(text, m, i, k + 1, env, loc2, c2)
  <2>1. (k + 1) - 1 = k /\ k + 1 <= Len(text[i].body) + 1
    BY <1>1, <1>2
  <2> QED BY <1>1, <2>1 DEF ParseAt, FunctionAt
<1>5. k + 1 \in Nat /\ k + 1 > 0 /\ k + 1 # 0
  BY <1>1
<1>6. i \in 1..Len(text) + 1 /\ GlobalIs(env, text, i) /\ \A j \in 1..i - 1 : text[j].op # "junk"
  BY <1>1 DEF ParseAt
<1> QED BY <1>3, <1>4, <1>5, <1>6 DEF ParseAt

(* The toplevels stay when a part is no static variable.                   *)
LEMMA PartTops ==
  ASSUME NEW text, SourceOK(text), NEW m, NEW i \in 1..Len(text), NEW k \in Nat \ {0}, NEW q,
         TopsAre(q, m, text, i, k), text[i].body[k].op # "static"
  PROVE  TopsAre(q, m, text, i, k + 1)
<1>1. \A j, p \in Nat : DefinesAt(text, j, p) => (Passed(j, p, i, k + 1) <=> Passed(j, p, i, k))
  <2>1. ~DefinesAt(text, i, k)
    BY DEF DefinesAt
  <2> QED BY <2>1, PassedNext
<1>2. i \in Nat
  OBVIOUS
<1> QED BY ONLY <1>1, <1>2, TopsStay, TopsAre(q, m, text, i, k)

LEMMA HeadDone ==
  ASSUME NEW text, SourceOK(text), NEW m, NEW i, NEW env, NEW loc, NEW q, NEW c,
         ParseAt(text, m, i, 0, env, loc, q, c), i <= Len(text), text[i].op = "decl",
         Address(text[i].init) => ~Refused(text, Mention(i, 0, text[i].init, "init")),
         NEW env2, NEW loc2, NEW q2, NEW c2,
         GlobalIs(env2, text, i), TopsAre(q2, m, text, i + 1, 0)
  PROVE  ParseAt(text, m, i + 1, 0, env2, loc2, q2, c2)
<1>1. i \in 1..Len(text) /\ Len(text) \in Nat
  BY DEF ParseAt, SourceOK, IsSeq
<1>2. ASSUME NEW u \in Mentions(text), Mentioned(u, i + 1, 0) PROVE ~Refused(text, u)
  BY <1>1, <1>2, MentionedNext DEF ParseAt
<1>3. i + 1 \in 1..Len(text) + 1 /\ 0 \in Nat /\ (i + 1) - 1 = i /\ ~(0 > 0)
  BY <1>1
<1>4. \A j \in 1..(i + 1) - 1 : text[j].op # "junk"
  <2>1. \A j \in 1..(i + 1) - 1 : j \in 1..i - 1 \/ j = i
    BY <1>1
  <2> QED BY <2>1 DEF ParseAt
<1> QED BY <1>2, <1>3, <1>4 DEF ParseAt

LEMMA FuncOpened ==
  ASSUME NEW text, SourceOK(text), NEW m, NEW i, NEW env, NEW loc, NEW q, NEW c,
         ParseAt(text, m, i, 0, env, loc, q, c), i <= Len(text), text[i].op = "func",
         NEW env2, GlobalIs(env2, text, i),
         env2[text[i].name].label.kind # "L",
         env2[text[i].name].label = Public("main") <=> MainAt(text, i)
  PROVE  ParseAt(text, m, i, 1, env2, Nothing, q, <<>>)
<1>1. i \in 1..Len(text) /\ Len(text) \in Nat /\ i \in Nat
  BY DEF ParseAt, SourceOK, IsSeq
<1>2. ASSUME NEW u \in Mentions(text), Mentioned(u, i, 1) PROVE ~Refused(text, u)
  BY <1>1, <1>2, MentionedNext DEF ParseAt
<1>3. TopsAre(q, m, text, i, 1)
  <2>1. \A j, p \in Nat : DefinesAt(text, j, p) => (Passed(j, p, i, 1) <=> Passed(j, p, i, 0))
    BY <1>1, PassedNext
  <2>2. TopsAre(q, m, text, i, 0)
    BY DEF ParseAt
  <2> QED BY ONLY <1>1, <2>1, <2>2, TopsStay
<1>4. FunctionAt(text, m, i, 1, env2, Nothing, <<>>)
  <2>1. LocalIs(Nothing, text, i, 1 - 1)
    <3>1. 1 - 1 = 0
      OBVIOUS
    <3> QED BY <3>1, GlobalStarts
  <2>2. CodeIs(<<>>, m, text, i, 1)
    BY ShortSeqs DEF CodeIs
  <2>3. Len(text[i].body) \in Nat
    BY <1>1, BodyOf
  <2> QED BY <1>1, <2>1, <2>2, <2>3 DEF FunctionAt
<1>5. i \in 1..Len(text) + 1 /\ \A j \in 1..i - 1 : text[j].op # "junk"
  BY DEF ParseAt
<1> QED BY <1>2, <1>3, <1>4, <1>5 DEF ParseAt

LEMMA FuncClosed ==
  ASSUME NEW text, SourceOK(text), NEW m, NEW i, NEW k, NEW env, NEW loc, NEW q, NEW c,
         ParseAt(text, m, i, k, env, loc, q, c), k > 0, k > Len(text[i].body),
         NEW q2, TopsAre(q2, m, text, i + 1, 0), NEW loc2, NEW c2
  PROVE  ParseAt(text, m, i + 1, 0, env, loc2, q2, c2)
<1>1. /\ i \in 1..Len(text) /\ Len(text) \in Nat /\ i \in Nat /\ text[i].op = "func"
      /\ k \in Nat \ {0} /\ k <= Len(text[i].body) + 1
  BY DEF ParseAt, FunctionAt, SourceOK, IsSeq
<1>2. Len(text[i].body) \in Nat
  BY <1>1, BodyOf
<1>3. k = Len(text[i].body) + 1
  BY <1>1, <1>2
<1>4. ASSUME NEW u \in Mentions(text), Mentioned(u, i + 1, 0) PROVE ~Refused(text, u)
  BY <1>1, <1>3, <1>4, MentionedNext DEF ParseAt
<1>5. i + 1 \in 1..Len(text) + 1 /\ 0 \in Nat /\ (i + 1) - 1 = i /\ ~(0 > 0)
  BY <1>1
<1>6. \A j \in 1..(i + 1) - 1 : text[j].op # "junk"
  <2>1. \A j \in 1..(i + 1) - 1 : j \in 1..i - 1 \/ j = i
    BY <1>1
  <2> QED BY <1>1, <2>1 DEF ParseAt
<1>7. GlobalIs(env, text, i)
  BY DEF ParseAt
<1> QED BY <1>4, <1>5, <1>6, <1>7 DEF ParseAt

LEMMA ObjectIs ==
  ASSUME NEW init, NEW env, NEW label, label.kind # "L"
  PROVE  LET t == Object(init, env, label)
         IN  /\ IsToplevel(t, job.n) /\ Emittable(t) /\ t.at = Here
             /\ IsMain(t) <=> init # NoInit /\ label = Public("main")
<1> DEFINE t == Object(init, env, label)
<1>1. /\ t.def = (IF init = NoInit THEN "bss" ELSE "data") /\ t.label = label /\ t.at = Here
      /\ t.code = InitCode(init, env)
  BY DEF Object, Top
<1>2. Here[1] = job.n
  BY DEF Here
<1>3. \/ InitCode(init, env) = <<>>
      \/ InitCode(init, env) = <<Use(env[init].label)>>
  BY DEF InitCode
<1>4. IsElement(Use(env[init].label), job.n) /\ Use(env[init].label).op = "use"
  BY <1>2 DEF IsElement, Use
<1>5. IsSeq(t.code) /\ \A e \in 1..Len(t.code) : IsElement(t.code[e], job.n) /\ t.code[e].op = "use"
  BY <1>1, <1>3, <1>4, ShortSeqs
<1> HIDE DEF t
<1>6. IsToplevel(t, job.n)
  BY <1>1, <1>2, <1>5 DEF IsToplevel
<1>7. Emittable(t)
  BY <1>5 DEF Emittable
<1>8. IsMain(t) <=> init # NoInit /\ label = Public("main")
  BY <1>1 DEF IsMain
<1> QED BY <1>1, <1>6, <1>7, <1>8 DEF t

LEMMA LabelIs ==
  ASSUME NEW name, NEW class
  PROVE  /\ GlobalLabel(name, class).kind # "L"
         /\ GlobalLabel(name, class) = Public("main") <=> class # "static" /\ name = "main"
         /\ \A l : Static(l, name).kind # "L" /\ Static(l, name) # Public("main")
BY Zenon DEF GlobalLabel, Static, Public, Label

LEMMA DeclIsRead ==
  ASSUME ParseInv, SourceOK(job.source), ReadDecl
  PROVE  ParseInv'
<1> DEFINE text == job.source
           i == pos[1]
           d == text[i]
           label == GlobalLabel(d.name, d.class)
           env == With(global, d.name, Entry("global", label, d.func))
           t == Object(d.init, env, label)
<1>1. /\ pos[2] = 0 /\ i <= Len(text) /\ d.op = "decl"
      /\ ~Undefined(d.init, env) /\ global' = env
      /\ tops' = IF d.init # NoInit \/ (d.class # "extern" /\ ~d.func) THEN Append(tops, t) ELSE tops
      /\ pos' = <<i + 1, 0>> /\ UNCHANGED <<job, asm, local, code>>
  BY DEF ReadDecl, AtHead, Item, NextItem, Reading, Goto
<1>2. ParseAt(text, job.n, i, 0, global, local, tops, code) /\ asm = <<>>
  BY <1>1 DEF ParseInv
<1>3. i \in 1..Len(text) /\ Len(text) \in Nat /\ i \in Nat /\ i - 1 \in Nat /\ (i - 1) + 1 = i
      /\ (i + 1) - 1 = i
  BY <1>1, <1>2 DEF ParseAt, SourceOK, IsSeq
<1>4. GlobalIs(env, text, i)
  <2>1. GlobalIs(global, text, i - 1)
    BY <1>2 DEF ParseAt
  <2>2. Declare(text, i, d.name)
    BY <1>1 DEF Declare
  <2>3. Entry("global", label, d.func).func <=> Callable(text, i)
    <3>1. d.func \in BOOLEAN /\ d.op # "func"
      BY <1>1, <1>3 DEF SourceOK
    <3>2. Entry("global", label, d.func).func = d.func
      BY DEF Entry
    <3> QED BY <3>1, <3>2 DEF Callable
  <2> HIDE DEF text, i
  <2> QED BY <1>3, <2>1, <2>2, <2>3, GlobalGrows
<1>5. Address(d.init) => ~Refused(text, Mention(i, 0, d.init, "init"))
  <2>1. HAVE Address(d.init)
  <2>2. d.init \in DOMAIN env
    BY <1>1, <2>1 DEF Address, Undefined
  <2>3. Earlier(text, i, d.init) # {}
    BY <1>4, <2>2 DEF GlobalIs
  <2> QED BY <2>3, RefusedInit
<1>6. label.kind # "L" /\ (label = Public("main") <=> d.class # "static" /\ d.name = "main")
  BY LabelIs
<1>7. /\ IsToplevel(t, job.n) /\ Emittable(t) /\ t.at = <<job.n, i, 0>>
      /\ IsMain(t) <=> d.init # NoInit /\ label = Public("main")
  <2>1. Here = <<job.n, i, 0>>
    BY <1>1 DEF Here
  <2> HIDE DEF env, label
  <2> QED BY <1>6, <2>1, ObjectIs
<1>8. MainAt(text, i) <=> d.init # NoInit /\ d.class # "static" /\ d.name = "main"
  BY <1>1 DEF MainAt, Declare, FullAt
<1>9. DefinesAt(text, i, 0) <=> d.init # NoInit \/ (d.class # "extern" /\ ~d.func)
  <2>1. i \in DOMAIN text
    BY <1>3 DEF SourceOK, IsSeq
  <2> QED BY <1>1, <2>1 DEF DefinesAt, TentativeAt, FullAt
<1>10. Supported(text, i)
  BY <1>1 DEF Supported
<1>11. MainBefore(text, i + 1) <=> MainBefore(text, i) \/ MainAt(text, i)
  BY <1>3, BeforeNext
<1>12. SupportedBefore(text, i + 1) <=> SupportedBefore(text, i)
  BY <1>3, <1>10, BeforeNext
<1>13. \A j, p \in Nat : DefinesAt(text, j, p) => (Passed(j, p, i + 1, 0) <=> Passed(j, p, i, 0) \/ (j = i /\ p = 0))
  <2>1. d.op # "func"
    BY <1>1
  <2> QED BY <1>3, <2>1, PassedNext
<1>14. TopsAre(tops, job.n, text, i, 0)
  BY <1>2 DEF ParseAt
<1>15. i + 1 \in Nat /\ 0 \in Nat
  BY <1>3
<1>16. TopsAre(tops', job.n, text, i + 1, 0)
  <2>1. CASE DefinesAt(text, i, 0)
    <3>1. tops' = Append(tops, t)
      BY SMTT(30), <1>1, <1>9, <2>1
    <3>2. IsMain(t) <=> MainAt(text, i)
      BY ONLY Zenon, <1>6, <1>7, <1>8
    <3> HIDE DEF t, text, i
    <3>3. Emittable(t) /\ Passed(i, 0, i + 1, 0)
      BY <1>3, <1>7 DEF Passed
    <3>4. MainBefore(text, i + 1) <=> MainBefore(text, i) \/ IsMain(t)
      BY ONLY <1>11, <3>2
    <3>5. SupportedBefore(text, i + 1) <=> SupportedBefore(text, i) /\ Emittable(t)
      BY ONLY <1>12, <3>3
    <3>6. TopsAre(Append(tops, t), job.n, text, i + 1, 0)
      BY ONLY <1>3, <1>7, <1>13, <1>14, <1>15, <2>1, <3>3, <3>4, <3>5, TopsAdd
    <3> QED BY <3>1, <3>6
  <2>2. CASE ~DefinesAt(text, i, 0)
    <3>1. tops' = tops /\ ~MainAt(text, i)
      BY <1>1, <1>8, <1>9, <2>2
    <3> HIDE DEF t, text, i
    <3>2. \A j, p \in Nat : DefinesAt(text, j, p) => (Passed(j, p, i + 1, 0) <=> Passed(j, p, i, 0))
      BY <1>13, <2>2
    <3>3. TopsAre(tops, job.n, text, i + 1, 0)
      BY <1>3, <1>11, <1>12, <1>14, <1>15, <3>1, <3>2, TopsStay
    <3> QED BY <3>1, <3>3
  <2> QED BY <2>1, <2>2
<1>17. ParseAt(text, job.n, i + 1, 0, env, local, tops', code)
  <2> HIDE DEF text, i, env
  <2>0. text[i].op = "decl" /\ i <= Len(text)
    BY <1>1
  <2>1. SourceOK(text)
    BY DEF text
  <2> QED BY <1>2, <1>4, <1>5, <1>16, <2>0, <2>1, HeadDone
<1>18. pos'[1] = i + 1 /\ pos'[2] = 0
  BY <1>1
<1> QED BY <1>1, <1>2, <1>17, <1>18, SMTT(30) DEF ParseInv

LEMMA FuncBegun ==
  ASSUME ParseInv, SourceOK(job.source), FuncBegins
  PROVE  ParseInv'
<1> DEFINE text == job.source
           i == pos[1]
           d == text[i]
           label == GlobalLabel(d.name, d.class)
           env == With(global, d.name, Entry("global", label, TRUE))
<1>1. /\ pos[2] = 0 /\ i <= Len(text) /\ d.op = "func"
      /\ global' = env /\ local' = Nothing /\ code' = <<>>
      /\ pos' = <<i, pos[2] + 1>> /\ UNCHANGED <<job, asm, tops>>
  BY DEF FuncBegins, AtHead, Item, NextPart, Reading, Goto
<1>2. ParseAt(text, job.n, i, 0, global, local, tops, code) /\ asm = <<>>
  BY <1>1 DEF ParseInv
<1>3. i \in 1..Len(text) /\ i - 1 \in Nat /\ (i - 1) + 1 = i
  BY <1>1, <1>2 DEF ParseAt, SourceOK, IsSeq
<1>4. GlobalIs(env, text, i)
  <2>1. GlobalIs(global, text, i - 1)
    BY <1>2 DEF ParseAt
  <2>2. Declare(text, i, d.name)
    BY <1>1 DEF Declare
  <2>3. Entry("global", label, TRUE).func <=> Callable(text, i)
    BY <1>1 DEF Callable, Entry
  <2> HIDE DEF text, i
  <2> QED BY <1>3, <2>1, <2>2, <2>3, GlobalGrows
<1>5. env[d.name].label = label
  BY DEF With, Entry
<1>6. env[d.name].label.kind # "L" /\ (env[d.name].label = Public("main") <=> MainAt(text, i))
  <2>1. label.kind # "L" /\ (label = Public("main") <=> d.class # "static" /\ d.name = "main")
    BY LabelIs
  <2>2. MainAt(text, i) <=> d.class # "static" /\ d.name = "main"
    BY <1>1 DEF MainAt, Declare, FullAt
  <2> HIDE DEF env, label
  <2> QED BY <1>5, <2>1, <2>2
<1>7. ParseAt(text, job.n, i, 1, env, Nothing, tops, <<>>)
  <2> HIDE DEF env, i, text
  <2>1. SourceOK(text) /\ text[i].op = "func" /\ i <= Len(text)
    BY <1>1 DEF text
  <2> QED BY <1>2, <1>4, <1>6, <2>1, FuncOpened
<1>8. pos'[1] = i /\ pos'[2] = 1
  BY <1>1
<1> QED BY <1>1, <1>2, <1>7, <1>8 DEF ParseInv

(* What every part of a body starts from.                                  *)
LEMMA AtPartIs ==
  ASSUME ParseInv, SourceOK(job.source), pos[2] > 0
  PROVE  /\ pos[1] \in 1..Len(job.source) /\ pos[2] \in Nat \ {0}
         /\ pos[1] \in Nat /\ pos[2] - 1 \in Nat /\ (pos[2] - 1) + 1 = pos[2]
         /\ ParseAt(job.source, job.n, pos[1], pos[2], global, local, tops, code)
         /\ job.source[pos[1]].op = "func" /\ Len(Item.body) \in Nat /\ DOMAIN Item.body = 1..Len(Item.body)
         /\ DOMAIN job.source = 1..Len(job.source)
         /\ pos[2] <= Len(Item.body) + 1
         /\ GlobalIs(global, job.source, pos[1])
         /\ LocalIs(local, job.source, pos[1], pos[2] - 1)
         /\ CodeIs(code, job.n, job.source, pos[1], pos[2])
         /\ TopsAre(tops, job.n, job.source, pos[1], pos[2])
         /\ asm = <<>>
<1> DEFINE text == job.source
           i == pos[1]
           k == pos[2]
<1>1. ParseAt(text, job.n, i, k, global, local, tops, code) /\ asm = <<>> /\ k > 0
  BY DEF ParseInv
<1>2. SourceOK(text)
  OBVIOUS
<1> HIDE DEF text, i, k
<1>3. /\ i \in 1..Len(text) /\ k \in Nat \ {0} /\ i \in Nat /\ text[i].op = "func"
      /\ k <= Len(text[i].body) + 1
      /\ GlobalIs(global, text, i) /\ LocalIs(local, text, i, k - 1) /\ CodeIs(code, job.n, text, i, k)
      /\ TopsAre(tops, job.n, text, i, k)
  BY <1>1, <1>2 DEF ParseAt, FunctionAt, SourceOK, IsSeq
<1>4. Len(text[i].body) \in Nat /\ DOMAIN text[i].body = 1..Len(text[i].body) /\ DOMAIN text = 1..Len(text)
  BY <1>2, <1>3, BodyOf
<1>5. k - 1 \in Nat /\ (k - 1) + 1 = k
  BY <1>3
<1> QED BY <1>1, <1>3, <1>4, <1>5 DEF text, i, k, Item

(* A part is read: what is left to show of each.                           *)
LEMMA PartIsRead ==
  ASSUME ParseInv, SourceOK(job.source), pos[2] > 0, pos[2] <= Len(Item.body),
         NextPart, UNCHANGED <<job, asm, global>>,
         \A u \in Mentions(job.source) : u.i = pos[1] /\ u.k = pos[2] => ~Refused(job.source, u),
         LocalIs(local', job.source, pos[1], pos[2]),
         TopsAre(tops', job.n, job.source, pos[1], pos[2] + 1),
         CodeIs(code', job.n, job.source, pos[1], pos[2] + 1)
  PROVE  ParseInv'
<1>1. /\ ParseAt(job.source, job.n, pos[1], pos[2], global, local, tops, code)
      /\ pos[2] <= Len(job.source[pos[1]].body) /\ asm = <<>>
  BY AtPartIs DEF Item
<1>2. ParseAt(job.source, job.n, pos[1], pos[2] + 1, global, local', tops', code')
  BY ONLY <1>1, SourceOK(job.source), pos[2] > 0, PartDone,
          \A u \in Mentions(job.source) : u.i = pos[1] /\ u.k = pos[2] => ~Refused(job.source, u),
          LocalIs(local', job.source, pos[1], pos[2]),
          TopsAre(tops', job.n, job.source, pos[1], pos[2] + 1),
          CodeIs(code', job.n, job.source, pos[1], pos[2] + 1)
<1>3. pos' = <<pos[1], pos[2] + 1>> /\ pos'[1] = pos[1] /\ pos'[2] = pos[2] + 1
  BY DEF NextPart
<1> QED BY <1>1, <1>2, <1>3 DEF ParseInv

(* Which mention a part makes.                                             *)
LEMMA MentionOfPart ==
  ASSUME ParseInv, SourceOK(job.source), pos[2] > 0,
         NEW u \in Mentions(job.source), u.i = pos[1], u.k = pos[2]
  PROVE  \/ /\ Part.op \in {"read", "call"}
            /\ u = Mention(pos[1], pos[2], Part.name, Part.op)
         \/ /\ Part.op = "static" /\ Address(Part.init)
            /\ u = Mention(pos[1], pos[2], Part.init, "init")
<1>1. pos[2] \in Nat \ {0}
  BY AtPartIs
<1> DEFINE text == job.source
<1> HIDE DEF text
<1>a. SourceOK(text) /\ u \in Mentions(text)
  BY DEF text
<1>2. PICK j \in 1..Len(text) :
             \/ text[j].op = "decl" /\ Address(text[j].init) /\ u = Mention(j, 0, text[j].init, "init")
             \/ /\ text[j].op = "func"
                /\ \E l \in 1..Len(text[j].body) :
                     \/ /\ text[j].body[l].op \in {"read", "call"}
                        /\ u = Mention(j, l, text[j].body[l].name, text[j].body[l].op)
                     \/ /\ text[j].body[l].op = "static" /\ Address(text[j].body[l].init)
                        /\ u = Mention(j, l, text[j].body[l].init, "init")
  BY <1>a, MentionsAre
<1>3. Item = text[pos[1]] /\ Part = text[pos[1]].body[pos[2]]
  BY DEF Part, Item, text
<1> QED BY <1>1, <1>2, <1>3, SMTT(30) DEF Mention

LEMMA RefusedPart ==
  ASSUME ParseInv, SourceOK(job.source), pos[2] > 0, Part.op \in {"read", "call"}
  PROVE  LET x == Part.name
         IN  /\ Refused(job.source, Mention(pos[1], pos[2], x, "read")) <=> ~Known(x)
             /\ Refused(job.source, Mention(pos[1], pos[2], x, "call")) <=> Known(x) /\ ~Meaning(x).func
<1> DEFINE text == job.source
           i == pos[1]
           k == pos[2]
           x == Part.name
<1>1. /\ i \in Nat /\ k \in Nat \ {0}
      /\ GlobalIs(global, text, i) /\ LocalIs(local, text, i, k - 1)
  BY AtPartIs
<1>2. text[i].body[k].op \in {"read", "call"}
  BY DEF Part, Item
<1> HIDE DEF text, i, k, x
<1>3. /\ Refused(text, Mention(i, k, x, "read")) <=> x \notin DOMAIN local /\ x \notin DOMAIN global
      /\ Refused(text, Mention(i, k, x, "call")) <=>
              \/ x \in DOMAIN local /\ ~local[x].func
              \/ x \notin DOMAIN local /\ x \in DOMAIN global /\ ~global[x].func
  BY ONLY <1>1, <1>2, RefusedName
<1>4. Known(x) <=> x \in DOMAIN local \/ x \in DOMAIN global
  BY DEF Known
<1>5. /\ x \in DOMAIN local => Meaning(x) = local[x]
      /\ x \notin DOMAIN local => Meaning(x) = global[x]
  BY DEF Meaning
<1>6. /\ Refused(text, Mention(i, k, x, "read")) <=> ~Known(x)
      /\ Refused(text, Mention(i, k, x, "call")) <=> Known(x) /\ ~Meaning(x).func
  BY <1>3, <1>4, <1>5
<1> QED BY <1>6 DEF text, i, k, x

(* A part that mentions no more than it may, and declares nothing.         *)
LEMMA StayingPart ==
  ASSUME ParseInv, SourceOK(job.source), pos[2] > 0, Part.op \notin {"local", "static", "extern", "proto"}
  PROVE  /\ LocalIs(local, job.source, pos[1], pos[2])
         /\ TopsAre(tops, job.n, job.source, pos[1], pos[2] + 1)
<1> DEFINE text == job.source
           i == pos[1]
           k == pos[2]
<1>1. /\ i \in 1..Len(text) /\ k \in Nat \ {0} /\ k - 1 \in Nat /\ (k - 1) + 1 = k
      /\ LocalIs(local, text, i, k - 1) /\ TopsAre(tops, job.n, text, i, k)
  BY AtPartIs
<1>2. text[i].body[k].op \notin {"local", "static", "extern", "proto"} /\ text[i].body[k].op # "static"
  BY DEF Part, Item
<1>3. SourceOK(text)
  OBVIOUS
<1> HIDE DEF text, i, k
<1>4. LocalIs(local, text, i, k)
  BY ONLY <1>1, <1>2, LocalStays
<1>5. TopsAre(tops, job.n, text, i, k + 1)
  BY ONLY <1>1, <1>2, <1>3, PartTops
<1> QED BY <1>4, <1>5 DEF text, i, k

LEMMA CodeOfPart ==
  ASSUME ParseInv, SourceOK(job.source), pos[2] > 0
  PROVE  /\ \A e : IsElement(e, job.n) /\ (e.op = "unsupported" <=> Part.op = "unsupported") =>
              CodeIs(Append(code, e), job.n, job.source, pos[1], pos[2] + 1)
         /\ Part.op # "unsupported" => CodeIs(code, job.n, job.source, pos[1], pos[2] + 1)
<1> DEFINE text == job.source
           i == pos[1]
           k == pos[2]
<1>1. k \in Nat \ {0} /\ CodeIs(code, job.n, text, i, k) /\ text[i].op = "func"
  BY AtPartIs
<1>2. UnsupportedAt(text, i, k) <=> Part.op = "unsupported"
  BY <1>1 DEF UnsupportedAt, Part, Item
<1> HIDE DEF text, i, k
<1>3. ASSUME NEW e, IsElement(e, job.n), e.op = "unsupported" <=> Part.op = "unsupported"
      PROVE  CodeIs(Append(code, e), job.n, text, i, k + 1)
  BY <1>1, <1>2, <1>3, CodeAdd
<1>4. Part.op # "unsupported" => CodeIs(code, job.n, text, i, k + 1)
  BY <1>1, <1>2, CodeStays
<1> QED BY <1>3, <1>4 DEF text, i, k

LEMMA HereOf == Here[1] = job.n /\ \A label : IsElement(Use(label), job.n) /\ Use(label).op = "use"
BY DEF Here, IsElement, Use

LEMMA NameIsRead ==
  ASSUME ParseInv, SourceOK(job.source), ReadName
  PROVE  ParseInv'
<1>1. /\ pos[2] > 0 /\ pos[2] <= Len(Item.body) /\ Part.op = "read" /\ Known(Part.name)
      /\ code' = code \/ code' = Append(code, Use(Meaning(Part.name).label))
      /\ NextPart /\ UNCHANGED <<job, asm, global, local, tops>>
  BY DEF ReadName, AtPart, Reading, Goto
<1>2. ASSUME NEW u \in Mentions(job.source), u.i = pos[1], u.k = pos[2]
      PROVE  ~Refused(job.source, u)
  BY <1>1, <1>2, MentionOfPart, RefusedPart
<1>3. CodeIs(code', job.n, job.source, pos[1], pos[2] + 1)
  BY <1>1, CodeOfPart, HereOf
<1>4. /\ LocalIs(local', job.source, pos[1], pos[2])
      /\ TopsAre(tops', job.n, job.source, pos[1], pos[2] + 1)
  BY <1>1, StayingPart
<1> QED BY <1>1, <1>2, <1>3, <1>4, PartIsRead

LEMMA CallIsRead ==
  ASSUME ParseInv, SourceOK(job.source), ReadCall
  PROVE  ParseInv'
<1> DEFINE e == [Use(Callee(Part.name)) EXCEPT !.op = "call"]
<1>1. /\ pos[2] > 0 /\ pos[2] <= Len(Item.body) /\ Part.op = "call"
      /\ Known(Part.name) => Meaning(Part.name).func
      /\ code' = Append(code, e)
      /\ NextPart /\ UNCHANGED <<job, asm, global, local, tops>>
  BY DEF ReadCall, AtPart, Reading, Goto
<1>2. ASSUME NEW u \in Mentions(job.source), u.i = pos[1], u.k = pos[2]
      PROVE  ~Refused(job.source, u)
  BY <1>1, <1>2, MentionOfPart, RefusedPart
<1>3. IsElement(e, job.n) /\ e.op = "call"
  BY HereOf DEF IsElement, Use
<1>4. CodeIs(code', job.n, job.source, pos[1], pos[2] + 1)
  <2> HIDE DEF e
  <2> QED BY <1>1, <1>3, CodeOfPart
<1>5. /\ LocalIs(local', job.source, pos[1], pos[2])
      /\ TopsAre(tops', job.n, job.source, pos[1], pos[2] + 1)
  BY <1>1, StayingPart
<1> QED BY <1>1, <1>2, <1>4, <1>5, PartIsRead

LEMMA OtherIsRead ==
  ASSUME ParseInv, SourceOK(job.source), ReadLoop \/ ReadOther
  PROVE  ParseInv'
<1>1. /\ pos[2] > 0 /\ pos[2] <= Len(Item.body) /\ Part.op \in {"loop", "string", "unsupported"}
      /\ NextPart /\ UNCHANGED <<job, asm, global, local, tops>>
  BY DEF ReadLoop, ReadOther, AtPart, Reading, Goto
<1>2. PICK e : /\ code' = Append(code, e) /\ IsElement(e, job.n)
               /\ e.op = "unsupported" <=> Part.op = "unsupported"
  <2>1. CASE ReadLoop
    <3>1. PICK e : e = [op |-> "loop", label |-> Private(counts.label), at |-> Here]
      OBVIOUS
    <3>2. code' = Append(code, e) /\ Part.op = "loop"
      BY <2>1, <3>1 DEF ReadLoop, AtPart
    <3>3. e.op = "loop" /\ e.label.kind = "L" /\ e.at[1] = job.n
      BY <3>1, HereOf DEF Private, Label
    <3> QED BY <3>2, <3>3 DEF IsElement
  <2>2. CASE ReadOther
    <3>1. PICK e : e = [op |-> Part.op, label |-> Null, at |-> Here]
      OBVIOUS
    <3>2. code' = Append(code, e) /\ Part.op \in {"string", "unsupported"}
      BY <2>2, <3>1 DEF ReadOther, AtPart
    <3>3. e.op = Part.op /\ e.at[1] = job.n
      BY <3>1, HereOf
    <3> QED BY <3>2, <3>3 DEF IsElement
  <2> QED BY <2>1, <2>2
<1>3. ASSUME NEW u \in Mentions(job.source), u.i = pos[1], u.k = pos[2]
      PROVE  ~Refused(job.source, u)
  BY <1>1, <1>3, MentionOfPart
<1>4. CodeIs(code', job.n, job.source, pos[1], pos[2] + 1)
  BY <1>1, <1>2, CodeOfPart
<1>5. /\ LocalIs(local', job.source, pos[1], pos[2])
      /\ TopsAre(tops', job.n, job.source, pos[1], pos[2] + 1)
  BY <1>1, StayingPart
<1> QED BY <1>1, <1>3, <1>4, <1>5, PartIsRead

LEMMA LocalIsRead ==
  ASSUME ParseInv, SourceOK(job.source), ReadLocal
  PROVE  ParseInv'
<1> DEFINE text == job.source
           i == pos[1]
           k == pos[2]
           e == Entry("local", Null, Part.op = "proto")
<1>1. /\ k > 0 /\ k <= Len(Item.body) /\ Part.op \in {"local", "extern", "proto"}
      /\ local' = With(local, Part.name, e)
      /\ NextPart /\ UNCHANGED <<job, asm, global, code, tops>>
  BY DEF ReadLocal, AtPart, Reading, Goto
<1>2. /\ i \in 1..Len(text) /\ k \in Nat \ {0} /\ k - 1 \in Nat /\ (k - 1) + 1 = k
      /\ LocalIs(local, text, i, k - 1) /\ TopsAre(tops, job.n, text, i, k)
  BY <1>1, AtPartIs
<1>3. Part = text[i].body[k] /\ SourceOK(text)
  BY DEF Part, Item
<1>4. e.func <=> Part.op = "proto"
  BY DEF Entry
<1>5. ASSUME NEW u \in Mentions(text), u.i = i, u.k = k
      PROVE  ~Refused(text, u)
  BY <1>1, <1>5, MentionOfPart
<1>6. CodeIs(code', job.n, text, i, k + 1)
  BY <1>1, CodeOfPart
<1>7. LocalIs(local', text, i, k)
  <2> HIDE DEF text, i, k, e
  <2>1. PICK l : l = k - 1
    OBVIOUS
  <2>2. l \in Nat /\ k = l + 1 /\ LocalIs(local, text, i, l)
    BY <1>2, <2>1
  <2>3. /\ text[i].body[l + 1].op \in {"local", "static", "extern", "proto"}
        /\ text[i].body[l + 1].name = Part.name
        /\ e.func <=> text[i].body[l + 1].op = "proto"
    BY <1>1, <1>3, <1>4, <2>2
  <2>4. LocalIs(With(local, Part.name, e), text, i, l + 1)
    BY ONLY <2>2, <2>3, LocalGrows
  <2> QED BY <1>1, <2>2, <2>4
<1>8. TopsAre(tops', job.n, text, i, k + 1)
  <2> HIDE DEF text, i, k, e
  <2> QED BY <1>1, <1>2, <1>3, PartTops
<1> QED BY <1>1, <1>5, <1>6, <1>7, <1>8, PartIsRead

LEMMA StaticIsRead ==
  ASSUME ParseInv, SourceOK(job.source), ReadStatic
  PROVE  ParseInv'
<1> DEFINE text == job.source
           i == pos[1]
           k == pos[2]
           label == Static(counts.static, Part.name)
           e == Entry("static", label, FALSE)
           t == Object(Part.init, global, label)
<1>1. /\ k > 0 /\ k <= Len(Item.body) /\ Part.op = "static" /\ ~Undefined(Part.init, global)
      /\ local' = With(local, Part.name, e) /\ tops' = Append(tops, t)
      /\ NextPart /\ UNCHANGED <<job, asm, global, code>>
  BY DEF ReadStatic, AtPart, Reading, Goto
<1>2. /\ i \in 1..Len(text) /\ i \in Nat /\ k \in Nat \ {0} /\ k \in Nat /\ k - 1 \in Nat /\ (k - 1) + 1 = k
      /\ LocalIs(local, text, i, k - 1) /\ TopsAre(tops, job.n, text, i, k)
      /\ text[i].op = "func" /\ DOMAIN text = 1..Len(text)
      /\ DOMAIN Item.body = 1..Len(Item.body) /\ Len(Item.body) \in Nat
      /\ GlobalIs(global, text, i)
  BY <1>1, AtPartIs
<1>3. Part = text[i].body[k] /\ Item = text[i] /\ SourceOK(text) /\ Here = <<job.n, i, k>>
  BY DEF Part, Item, Here
<1>4. ~e.func
  BY DEF Entry
<1>5. ASSUME NEW u \in Mentions(text), u.i = i, u.k = k
      PROVE  ~Refused(text, u)
  <2>1. Address(Part.init) /\ u = Mention(i, k, Part.init, "init")
    BY <1>1, <1>5, MentionOfPart
  <2>2. Part.init \in DOMAIN global
    BY <1>1, <2>1 DEF Address, Undefined
  <2>3. Earlier(text, i, Part.init) # {}
    BY <1>2, <2>2 DEF GlobalIs
  <2> QED BY <2>1, <2>3, RefusedInit
<1>6. CodeIs(code', job.n, text, i, k + 1)
  BY <1>1, CodeOfPart
<1>7. LocalIs(local', text, i, k)
  <2> HIDE DEF text, i, k, e
  <2>1. PICK l : l = k - 1
    OBVIOUS
  <2>2. l \in Nat /\ k = l + 1 /\ LocalIs(local, text, i, l)
    BY <1>2, <2>1
  <2>3. /\ text[i].body[l + 1].op \in {"local", "static", "extern", "proto"}
        /\ text[i].body[l + 1].name = Part.name
        /\ e.func <=> text[i].body[l + 1].op = "proto"
    BY <1>1, <1>3, <1>4, <2>2
  <2>4. LocalIs(With(local, Part.name, e), text, i, l + 1)
    BY ONLY <2>2, <2>3, LocalGrows
  <2> QED BY <1>1, <2>2, <2>4
<1>8. label.kind # "L" /\ label # Public("main")
  BY LabelIs
<1>9. IsToplevel(t, job.n) /\ Emittable(t) /\ t.at = <<job.n, i, k>> /\ ~IsMain(t)
  <2> HIDE DEF label, i, k
  <2> QED BY <1>3, <1>8, ObjectIs
<1>10. DefinesAt(text, i, k)
  <2> HIDE DEF text, i, k
  <2>1. PICK body : body = Item.body
    OBVIOUS
  <2>2. k \in 1..Len(body) /\ DOMAIN body = 1..Len(body)
    BY <1>1, <1>2, <2>1
  <2>3. k \in DOMAIN text[i].body
    BY <1>3, <2>1, <2>2
  <2> QED BY <1>1, <1>2, <1>3, <2>3 DEF DefinesAt
<1>11. TopsAre(Append(tops, t), job.n, text, i, k + 1)
  <2> HIDE DEF text, i, k, t
  <2>1. \A j, p \in Nat : DefinesAt(text, j, p) =>
           (Passed(j, p, i, k + 1) <=> Passed(j, p, i, k) \/ (j = i /\ p = k))
    BY <1>2, <1>3, PassedNext
  <2>2. MainBefore(text, i) <=> MainBefore(text, i) \/ IsMain(t)
    BY <1>9
  <2>3. SupportedBefore(text, i) <=> SupportedBefore(text, i) /\ Emittable(t)
    BY <1>9
  <2>4. Passed(i, k, i, k + 1)
    BY <1>2 DEF Passed
  <2>5. i \in Nat /\ k \in Nat /\ TopsAre(tops, job.n, text, i, k)
    BY <1>2
  <2>6. PICK next : next = k + 1
    OBVIOUS
  <2>7. TopsAre(Append(tops, t), job.n, text, i, next)
    BY ONLY <1>9, <1>10, <2>1, <2>2, <2>3, <2>4, <2>5, <2>6, TopsAdd
  <2> QED BY <2>6, <2>7
<1>12. TopsAre(tops', job.n, text, i, k + 1)
  BY <1>1, <1>11
<1> QED BY <1>1, <1>5, <1>6, <1>7, <1>12, PartIsRead

LEMMA EmptyPart ==
  [Top("code", global[Item.name].label, code) EXCEPT !.at[3] = 0] =
    [def |-> "code", label |-> global[Item.name].label, code |-> code, at |-> <<job.n, pos[1], 0>>]
<1>1. PICK h : h = Here
  OBVIOUS
<1>2. [h EXCEPT ![3] = 0] = <<job.n, pos[1], 0>>
  BY <1>1 DEF Here
<1>3. PICK g : g = Top("code", global[Item.name].label, code)
  OBVIOUS
<1>4. g.at = h /\ g = [def |-> "code", label |-> global[Item.name].label, code |-> code, at |-> h]
  BY <1>1, <1>3 DEF Top
<1>5. PICK z : z = [h EXCEPT ![3] = 0]
  OBVIOUS
<1>6. [g EXCEPT !.at = z] = [def |-> "code", label |-> global[Item.name].label, code |-> code, at |-> z]
  BY <1>4
<1>7. [g EXCEPT !.at[3] = 0] = [g EXCEPT !.at = [g.at EXCEPT ![3] = 0]]
  BY Zenon
<1> QED BY ONLY <1>2, <1>3, <1>4, <1>5, <1>6, <1>7, Zenon

LEMMA FuncEnded ==
  ASSUME ParseInv, SourceOK(job.source), FuncEnds
  PROVE  ParseInv'
<1> DEFINE text == job.source
           i == pos[1]
           k == pos[2]
           label == global[Item.name].label
<1>1. PICK t : t = [def |-> "code", label |-> label, code |-> code, at |-> <<job.n, i, 0>>]
  OBVIOUS
<1>2. /\ k > 0 /\ k > Len(Item.body)
      /\ tops' = Append(tops, [Top("code", label, code) EXCEPT !.at[3] = 0])
      /\ pos' = <<i + 1, 0>> /\ UNCHANGED <<job, asm, global>>
  BY DEF FuncEnds, NextItem, Reading, Goto
<1>3. tops' = Append(tops, t)
  <2>1. PICK e : e = [Top("code", global[Item.name].label, code) EXCEPT !.at[3] = 0]
    OBVIOUS
  <2>2. tops' = Append(tops, e)
    BY ONLY <1>2, <2>1, Zenon
  <2>3. e = [def |-> "code", label |-> label, code |-> code, at |-> <<job.n, i, 0>>]
    BY ONLY <2>1, EmptyPart, Zenon
  <2> QED BY <1>1, <2>2, <2>3
<1>4. /\ i \in 1..Len(text) /\ i \in Nat /\ k \in Nat \ {0} /\ k <= Len(Item.body) + 1
      /\ ParseAt(text, job.n, i, k, global, local, tops, code)
      /\ text[i].op = "func" /\ Len(Item.body) \in Nat /\ DOMAIN text = 1..Len(text)
      /\ CodeIs(code, job.n, text, i, k) /\ TopsAre(tops, job.n, text, i, k) /\ asm = <<>>
  BY <1>2, AtPartIs
<1>5. Item = text[i] /\ SourceOK(text) /\ k = Len(Item.body) + 1
  <2>1. Item = text[i]
    BY DEF Item
  <2>2. k = Len(Item.body) + 1
    BY <1>2, <1>4
  <2> QED BY <2>1, <2>2
<1>6. label.kind # "L" /\ (label = Public("main") <=> MainAt(text, i))
  <2> HIDE DEF text, i, k
  <2>1. FunctionAt(text, job.n, i, k, global, local, code)
    BY <1>2, <1>4 DEF ParseAt
  <2> QED BY <1>5, <2>1 DEF FunctionAt
<1> HIDE DEF text, i, k, label
<1>7. IsToplevel(t, job.n) /\ t.at = <<job.n, i, 0>> /\ (IsMain(t) <=> MainAt(text, i))
  BY <1>1, <1>4, <1>6 DEF IsToplevel, IsMain, CodeIs
<1>8. Emittable(t) <=> Supported(text, i)
  <2>1. (\E e \in 1..Len(code) : code[e].op = "unsupported") <=> (\E p \in 1..k - 1 : UnsupportedAt(text, i, p))
    BY <1>4 DEF CodeIs
  <2>2. k - 1 = Len(text[i].body)
    BY <1>4, <1>5
  <2> QED BY <1>1, <1>4, <2>1, <2>2 DEF Emittable, Supported, UnsupportedAt
<1>9. DefinesAt(text, i, 0)
  BY <1>4 DEF DefinesAt, FullAt
<1>10. TopsAre(tops', job.n, text, i + 1, 0)
  <2>1. \A j, p \in Nat : DefinesAt(text, j, p) =>
           (Passed(j, p, i + 1, 0) <=> Passed(j, p, i, k) \/ (j = i /\ p = 0))
    BY <1>4, <1>5, PassedNext
  <2>2. /\ MainBefore(text, i + 1) <=> MainBefore(text, i) \/ IsMain(t)
        /\ SupportedBefore(text, i + 1) <=> SupportedBefore(text, i) /\ Emittable(t)
    BY <1>4, <1>7, <1>8, BeforeNext
  <2>3. Passed(i, 0, i + 1, 0)
    BY <1>4 DEF Passed
  <2>4. i \in Nat /\ 0 \in Nat /\ i + 1 \in Nat /\ TopsAre(tops, job.n, text, i, k)
    BY <1>4
  <2>5. PICK next : next = i + 1
    OBVIOUS
  <2>6. TopsAre(Append(tops, t), job.n, text, next, 0)
    BY ONLY <1>7, <1>9, <2>1, <2>2, <2>3, <2>4, <2>5, TopsAdd
  <2> QED BY <1>3, <2>5, <2>6
<1>11. \A loc2, c2 : ParseAt(text, job.n, i + 1, 0, global, loc2, tops', c2)
  <2>1. k > 0 /\ k > Len(text[i].body)
    BY <1>2, <1>5
  <2> QED BY <1>4, <1>5, <1>10, <2>1, FuncClosed
<1>12. pos'[1] = i + 1 /\ pos'[2] = 0 /\ pos' = <<pos'[1], pos'[2]>>
  BY <1>2
<1>13. job'.source = text /\ job'.n = job.n
  BY <1>2 DEF text
<1> QED BY <1>2, <1>4, <1>11, <1>12, <1>13 DEF ParseInv

(* What the parser refuses is wrong, and what it accepts is not.           *)
LEMMA ErrorsAreWrong ==
  ASSUME ParseInv, SourceOK(job.source),
         ReadDeclUndefined \/ SyntaxError \/ ReadNameUndefined \/ ReadCallNoFunction \/ ReadStaticUndefined
  PROVE  Wrong(job.source)
<1> DEFINE text == job.source
           i == pos[1]
           k == pos[2]
<1>1. CASE ReadDeclUndefined
  <2> DEFINE env == With(global, Item.name, Entry("global", Null, FALSE))
             x == Item.init
  <2>1. k = 0 /\ i <= Len(text) /\ Item.op = "decl" /\ Undefined(x, env)
    BY <1>1 DEF ReadDeclUndefined, AtHead
  <2>2. /\ i \in 1..Len(text) /\ GlobalIs(global, text, i - 1) /\ i - 1 \in Nat /\ (i - 1) + 1 = i
    BY <2>1 DEF ParseInv, ParseAt, SourceOK, IsSeq
  <2>3. Address(x) /\ x \notin DOMAIN global /\ x # Item.name
    BY <2>1 DEF Undefined, Address, With
  <2>4. Earlier(text, i, x) = {}
    <3>1. Earlier(text, i - 1, x) = {}
      BY <2>2, <2>3 DEF GlobalIs
    <3>2. ~Declare(text, i, x)
      BY <2>3 DEF Declare, Item
    <3>3. \A j : j \notin Earlier(text, i, x)
      BY <2>2, <3>1, <3>2 DEF Earlier
    <3> QED BY <3>3
  <2>5. Mention(i, 0, x, "init") \in Mentions(text)
    <3> HIDE DEF text, i, x
    <3>1. text[i].op = "decl" /\ x = text[i].init /\ SourceOK(text)
      BY <2>1 DEF Item, text, i, x
    <3> QED BY <2>2, <2>3, <3>1, MentionsAre
  <2> QED BY <2>4, <2>5, RefusedInit DEF Wrong
<1>2. CASE SyntaxError
  <2>1. k = 0 /\ i <= Len(text) /\ text[i].op = "junk"
    BY <1>2 DEF SyntaxError, AtHead, Item
  <2>2. i \in DOMAIN text
    BY <2>1 DEF ParseInv, ParseAt, SourceOK, IsSeq
  <2> QED BY <2>1, <2>2 DEF Wrong
<1>3. CASE ReadNameUndefined \/ ReadCallNoFunction \/ ReadStaticUndefined
  <2>1. k > 0 /\ k <= Len(Item.body) /\ Part.op \in {"read", "call", "static"}
    BY <1>3 DEF ReadNameUndefined, ReadCallNoFunction, ReadStaticUndefined, AtPart
  <2>2. /\ i \in 1..Len(text) /\ k \in 1..Len(text[i].body) /\ text[i].op = "func" /\ GlobalIs(global, text, i)
        /\ Part = text[i].body[k] /\ SourceOK(text)
    <3>1. Item = text[i] /\ Part = text[i].body[k]
      BY DEF Item, Part
    <3> QED BY <2>1, <3>1, AtPartIs
  <2>3. Part.op \in {"read", "call"} => Mention(i, k, Part.name, Part.op) \in Mentions(text)
    <3> HIDE DEF text, i, k
    <3> QED BY <2>2, MentionsAre
  <2>4. Part.op = "static" /\ Address(Part.init) => Mention(i, k, Part.init, "init") \in Mentions(text)
    <3> HIDE DEF text, i, k
    <3> QED BY <2>2, MentionsAre
  <2>5. CASE ReadNameUndefined
    <3>1. Part.op = "read" /\ ~Known(Part.name)
      BY <2>5 DEF ReadNameUndefined, AtPart
    <3> QED BY <2>1, <2>3, <3>1, RefusedPart DEF Wrong
  <2>6. CASE ReadCallNoFunction
    <3>1. Part.op = "call" /\ Known(Part.name) /\ ~Meaning(Part.name).func
      BY <2>6 DEF ReadCallNoFunction, AtPart
    <3> QED BY <2>1, <2>3, <3>1, RefusedPart DEF Wrong
  <2>7. CASE ReadStaticUndefined
    <3>1. Part.op = "static" /\ Address(Part.init) /\ Part.init \notin DOMAIN global
      BY <2>7 DEF ReadStaticUndefined, AtPart, Undefined, Address
    <3>2. Earlier(text, i, Part.init) = {}
      <4>1. PICK x : x = Part.init
        OBVIOUS
      <4>2. x \in DOMAIN global <=> Earlier(text, i, x) # {}
        BY <2>2 DEF GlobalIs
      <4> QED BY ONLY <3>1, <4>1, <4>2
    <3> QED BY <2>4, <3>1, <3>2, RefusedInit DEF Wrong
  <2> QED BY <1>3, <2>5, <2>6, <2>7
<1> QED BY <1>1, <1>2, <1>3

LEMMA AcceptedIsRight ==
  ASSUME ParseInv, SourceOK(job.source), pos[1] > Len(job.source)
  PROVE  ~Wrong(job.source) /\ TopsAre(tops, job.n, job.source, Len(job.source) + 1, 0)
<1> DEFINE text == job.source
<1>1. /\ ParseAt(text, job.n, pos[1], pos[2], global, local, tops, code)
      /\ Len(text) \in Nat /\ DOMAIN text = 1..Len(text) /\ SourceOK(text)
  BY DEF ParseInv, SourceOK, IsSeq
<1>2. pos[1] = Len(text) + 1 /\ pos[2] = 0
  BY <1>1 DEF ParseAt, FunctionAt
<1> HIDE DEF text
<1>3. ASSUME NEW u \in Mentions(text) PROVE ~Refused(text, u)
  <2>1. u.i < Len(text) + 1
    <3>1. \E j \in 1..Len(text) : u.i = j
      BY <1>1, MentionsAre DEF Mention
    <3> QED BY <1>1, <3>1
  <2>2. Mentioned(u, pos[1], pos[2])
    BY <1>2, <2>1 DEF Mentioned
  <2> QED BY <1>1, <2>2 DEF ParseAt
<1>4. \A j \in DOMAIN text : text[j].op # "junk"
  BY <1>1, <1>2 DEF ParseAt
<1>5. TopsAre(tops, job.n, text, Len(text) + 1, 0)
  BY <1>1, <1>2 DEF ParseAt
<1> QED BY <1>3, <1>4, <1>5 DEF Wrong, text

------------------------------------------------------------------------------
(* Lines of assembly, put one after another.                               *)

Joined(c, a, b) ==
  /\ IsSeq(c)
  /\ \A l \in 1..Len(c) : (\E j \in 1..Len(a) : c[l] = a[j]) \/ (\E j \in 1..Len(b) : c[l] = b[j])
  /\ \A l \in Names(c) : (\E j \in Names(a) : c[l] = a[j]) \/ (\E j \in Names(b) : c[l] = b[j])
  /\ \A j \in Names(a) : \E l \in Names(c) : c[l] = a[j]
  /\ \A j \in Names(b) : \E l \in Names(c) : c[l] = b[j]
  /\ HasMain(c) <=> HasMain(a) \/ HasMain(b)

LEMMA LinesConcat ==
  ASSUME NEW a, IsSeq(a), NEW b, IsSeq(b)
  PROVE  Joined(a \o b, a, b)
<1> DEFINE c == a \o b
<1>1. /\ IsSeq(c) /\ Len(c) = Len(a) + Len(b) /\ Len(a) \in Nat /\ Len(b) \in Nat
      /\ \A k \in 1..Len(a) : c[k] = a[k]
      /\ \A k \in 1..Len(b) : c[Len(a) + k] = b[k]
  BY SMTT(30), ConcatTo DEF IsSeq
<1> HIDE DEF c
<1>2. \A k \in 1..Len(a) : k \in 1..Len(c)
  BY <1>1
<1>3. \A k \in 1..Len(b) : Len(a) + k \in 1..Len(c)
  BY <1>1
<1>4. ASSUME NEW l \in 1..Len(c)
      PROVE  (\E j \in 1..Len(a) : c[l] = a[j]) \/ (\E j \in 1..Len(b) : c[l] = b[j])
  <2>1. CASE l <= Len(a)
    BY <1>1, <2>1
  <2>2. CASE l > Len(a)
    <3>1. l - Len(a) \in 1..Len(b) /\ Len(a) + (l - Len(a)) = l
      BY <1>1, <2>2
    <3>2. c[Len(a) + (l - Len(a))] = b[l - Len(a)]
      BY <1>1, <3>1
    <3> QED BY <3>1, <3>2
  <2> QED BY <1>1, <2>1, <2>2
<1>5. ASSUME NEW l \in Names(c)
      PROVE  (\E j \in Names(a) : c[l] = a[j]) \/ (\E j \in Names(b) : c[l] = b[j])
  <2>1. l \in 1..Len(c) /\ c[l].op \in {"def", "bss"} /\ c[l].label.kind # "L"
    BY DEF Names
  <2> QED BY <1>4, <2>1 DEF Names
<1>6. ASSUME NEW j \in Names(a) PROVE \E l \in Names(c) : c[l] = a[j]
  <2>1. j \in 1..Len(a) /\ a[j].op \in {"def", "bss"} /\ a[j].label.kind # "L"
    BY DEF Names
  <2>2. c[j] = a[j] /\ j \in Names(c)
    BY <1>1, <1>2, <2>1 DEF Names
  <2> QED BY <2>2
<1>7. ASSUME NEW j \in Names(b) PROVE \E l \in Names(c) : c[l] = b[j]
  <2>1. j \in 1..Len(b) /\ b[j].op \in {"def", "bss"} /\ b[j].label.kind # "L"
    BY DEF Names
  <2>2. c[Len(a) + j] = b[j] /\ Len(a) + j \in Names(c)
    BY <1>1, <1>3, <2>1 DEF Names
  <2> QED BY <2>2
<1>8. HasMain(c) <=> HasMain(a) \/ HasMain(b)
  <2>1. HasMain(c) => HasMain(a) \/ HasMain(b)
    BY <1>4 DEF HasMain
  <2>2. HasMain(a) => HasMain(c)
    BY <1>1, <1>2 DEF HasMain
  <2>3. HasMain(b) => HasMain(c)
    BY <1>1, <1>3 DEF HasMain
  <2> QED BY <2>1, <2>2, <2>3
<1>9. Joined(c, a, b)
  BY <1>1, <1>4, <1>5, <1>6, <1>7, <1>8 DEF Joined
<1> QED BY <1>9 DEF c

LEMMA SortedConcat ==
  ASSUME NEW a, IsSeq(a), Sorted(a), NEW b, IsSeq(b), Sorted(b),
         \A j \in 1..Len(a), k \in 1..Len(b) : a[j].at[1] <= b[k].at[1]
  PROVE  Sorted(a \o b)
<1> DEFINE c == a \o b
<1>1. /\ Len(c) = Len(a) + Len(b) /\ Len(a) \in Nat /\ Len(b) \in Nat
      /\ \A k \in 1..Len(a) : c[k] = a[k]
      /\ \A k \in 1..Len(b) : c[Len(a) + k] = b[k]
  BY ConcatTo DEF IsSeq
<1> HIDE DEF c
<1>2. ASSUME NEW k \in 1..Len(c), k > Len(a)
      PROVE  k - Len(a) \in 1..Len(b) /\ c[k] = b[k - Len(a)]
  <2>1. k - Len(a) \in 1..Len(b) /\ Len(a) + (k - Len(a)) = k
    BY <1>1, <1>2
  <2>2. c[Len(a) + (k - Len(a))] = b[k - Len(a)]
    BY <1>1, <2>1
  <2> QED BY <2>1, <2>2
<1>3. ASSUME NEW j \in 1..Len(c), NEW k \in 1..Len(c), j < k
      PROVE  c[j].at[1] <= c[k].at[1]
  <2>1. CASE k <= Len(a)
    BY <1>1, <1>3, <2>1 DEF Sorted
  <2>2. CASE j <= Len(a) /\ k > Len(a)
    BY SMTT(30), <1>1, <1>2, <2>2
  <2>3. CASE j > Len(a)
    <3>1. k > Len(a) /\ j - Len(a) < k - Len(a)
      BY <1>1, <1>3, <2>3
    <3> QED BY <1>2, <1>3, <2>3, <3>1 DEF Sorted
  <2> QED BY <1>1, <2>1, <2>2, <2>3
<1>4. Sorted(c)
  BY <1>3 DEF Sorted
<1> QED BY <1>4 DEF c

(* The back end, a step at a time: lines that define no name, and a head.  *)
LEMMA LinesAdd ==
  ASSUME NEW lines, NEW q, NEW m, NEW i, NEW k, LinesAre(lines, q, m, i, k),
         NEW r, IsSeq(r), \A l \in 1..Len(r) : r[l].at[1] = m,
         Names(r) = {}, ~HasMain(r), NEW i2, NEW k2,
         \A t \in 1..Len(q) : Headed(t, i2, k2) <=> Headed(t, i, k),
         \A t \in 1..Len(q) : \A e \in 1..Len(q[t].code) :
           t < i2 \/ (t = i2 /\ e < k2) => q[t].code[e].op # "unsupported"
  PROVE  LinesAre(lines \o r, q, m, i2, k2)
<1> DEFINE c == lines \o r
<1>1. IsSeq(lines)
  BY DEF LinesAre
<1>a. Joined(c, lines, r)
  BY <1>1, LinesConcat
<1> HIDE DEF c
<1>2. /\ IsSeq(c)
      /\ \A l \in 1..Len(c) : (\E j \in 1..Len(lines) : c[l] = lines[j]) \/ (\E j \in 1..Len(r) : c[l] = r[j])
      /\ \A l \in Names(c) : \E j \in Names(lines) : c[l] = lines[j]
      /\ \A j \in Names(lines) : \E l \in Names(c) : c[l] = lines[j]
      /\ HasMain(c) <=> HasMain(lines)
  BY <1>a DEF Joined
<1>3. \A l \in 1..Len(c) : c[l].at[1] = m
  BY <1>2 DEF LinesAre
<1>4. ASSUME NEW l \in Names(c)
      PROVE  \E t \in 1..Len(q) : Headed(t, i2, k2) /\ c[l].at = q[t].at
  <2>1. PICK j \in Names(lines) : c[l] = lines[j]
    BY <1>2
  <2>2. PICK t \in 1..Len(q) : Headed(t, i, k) /\ lines[j].at = q[t].at
    BY DEF LinesAre
  <2> QED BY <2>1, <2>2
<1>5. ASSUME NEW t \in 1..Len(q), Headed(t, i2, k2)
      PROVE  \E l \in Names(c) : c[l].at = q[t].at
  <2>1. PICK j \in Names(lines) : lines[j].at = q[t].at
    BY <1>5 DEF LinesAre
  <2> QED BY <1>2, <2>1
<1>6. HasMain(c) <=> \E t \in 1..Len(q) : Headed(t, i2, k2) /\ IsMain(q[t])
  BY <1>2 DEF LinesAre
<1>7. LinesAre(c, q, m, i2, k2)
  BY <1>2, <1>3, <1>4, <1>5, <1>6 DEF LinesAre
<1> QED BY <1>7 DEF c

LEMMA HeadAdd ==
  ASSUME NEW lines, NEW q, NEW m, NEW i \in 1..Len(q), LinesAre(lines, q, m, i, 0), IsToplevel(q[i], m),
         NEW r, r = <<Line(IF q[i].def = "bss" THEN "bss" ELSE "def", q[i].label, q[i].at)>>
  PROVE  LinesAre(lines \o r, q, m, i, 1)
<1> DEFINE c == lines \o r
<1>1. /\ IsSeq(r) /\ Len(r) = 1 /\ r[1].op = (IF q[i].def = "bss" THEN "bss" ELSE "def")
      /\ r[1].label = q[i].label /\ r[1].at = q[i].at
  BY ShortSeqs DEF Line
<1>2. Names(r) = {1} /\ (HasMain(r) <=> IsMain(q[i])) /\ r[1].at[1] = m
  BY <1>1 DEF Names, HasMain, IsMain, IsToplevel
<1>3. IsSeq(lines)
  BY DEF LinesAre
<1>4. /\ IsSeq(c)
      /\ \A l \in 1..Len(c) : (\E j \in 1..Len(lines) : c[l] = lines[j]) \/ (\E j \in 1..Len(r) : c[l] = r[j])
      /\ \A l \in Names(c) : (\E j \in Names(lines) : c[l] = lines[j]) \/ (\E j \in Names(r) : c[l] = r[j])
      /\ \A j \in Names(lines) : \E l \in Names(c) : c[l] = lines[j]
      /\ \A j \in Names(r) : \E l \in Names(c) : c[l] = r[j]
      /\ HasMain(c) <=> HasMain(lines) \/ HasMain(r)
  <2>1. Joined(c, lines, r)
    BY <1>1, <1>3, LinesConcat
  <2> HIDE DEF c
  <2> QED BY <2>1 DEF Joined
<1> HIDE DEF c
<1>5. \A t \in 1..Len(q) : Headed(t, i, 1) <=> Headed(t, i, 0) \/ t = i
  BY DEF Headed
<1>6. \A l \in 1..Len(c) : c[l].at[1] = m
  <2>1. \A j \in 1..Len(r) : r[j].at[1] = m
    BY <1>1, <1>2
  <2> QED BY <1>4, <2>1 DEF LinesAre
<1>7. \A l \in Names(c) : \E t \in 1..Len(q) : Headed(t, i, 1) /\ c[l].at = q[t].at
  <2> TAKE l \in Names(c)
  <2>1. CASE \E j \in Names(r) : c[l] = r[j]
    BY <1>1, <1>2, <1>5, <2>1
  <2>2. CASE \E j \in Names(lines) : c[l] = lines[j]
    <3>1. PICK j \in Names(lines) : c[l] = lines[j]
      BY <2>2
    <3>2. PICK t \in 1..Len(q) : Headed(t, i, 0) /\ lines[j].at = q[t].at
      BY DEF LinesAre
    <3> QED BY <1>5, <3>1, <3>2
  <2> QED BY <1>4, <2>1, <2>2
<1>8. \A t \in 1..Len(q) : Headed(t, i, 1) => \E l \in Names(c) : c[l].at = q[t].at
  <2>1. \E l \in Names(c) : c[l].at = q[i].at
    BY <1>1, <1>2, <1>4
  <2>2. ASSUME NEW t \in 1..Len(q), Headed(t, i, 0)
        PROVE  \E l \in Names(c) : c[l].at = q[t].at
    <3>1. PICK j \in Names(lines) : lines[j].at = q[t].at
      BY <2>2 DEF LinesAre
    <3> QED BY <1>4, <3>1
  <2> QED BY <1>5, <2>1, <2>2
<1>9. HasMain(c) <=> \E t \in 1..Len(q) : Headed(t, i, 1) /\ IsMain(q[t])
  BY <1>2, <1>4, <1>5 DEF LinesAre
<1>10. \A t \in 1..Len(q) : \A e \in 1..Len(q[t].code) :
         t < i \/ (t = i /\ e < 1) => q[t].code[e].op # "unsupported"
  BY DEF LinesAre
<1>11. LinesAre(c, q, m, i, 1)
  BY <1>4, <1>6, <1>7, <1>8, <1>9, <1>10 DEF LinesAre
<1> QED BY <1>11 DEF c

LEMMA HeadIsEmitted ==
  ASSUME EmitInv, EmitHead
  PROVE  EmitInv'
<1> DEFINE q == tops
           i == pos[1]
<1>1. PICK r : r = <<Line(IF q[i].def = "bss" THEN "bss" ELSE "def", q[i].label, q[i].at)>>
  OBVIOUS
<1>2. /\ pos[2] = 0 /\ i <= Len(q) /\ asm' = asm \o r
      /\ pos' = <<i, pos[2] + 1>> /\ UNCHANGED <<tops, job>>
  BY <1>1 DEF EmitHead, Emitting, Emit, Toplevel, NextPart, Goto
<1>3. /\ i \in 1..Len(q) /\ LinesAre(asm, q, job.n, i, 0) /\ Len(q) \in Nat
      /\ IsToplevel(q[i], job.n) /\ Len(q[i].code) \in Nat
  <2>1. EmitAt(asm, q, job.n, i, 0) /\ TopsAre(q, job.n, job.source, Len(job.source) + 1, 0)
    BY <1>2 DEF EmitInv
  <2> HIDE DEF q, i
  <2>2. i \in 1..Len(q) /\ LinesAre(asm, q, job.n, i, 0) /\ Len(q) \in Nat
    BY <1>2, <2>1 DEF EmitAt, TopsAre, IsSeq
  <2>3. IsToplevel(q[i], job.n)
    BY <2>1, <2>2 DEF TopsAre
  <2> QED BY <2>2, <2>3 DEF IsToplevel, IsSeq
<1>4. LinesAre(asm \o r, q, job.n, i, 1)
  <2> HIDE DEF q, i
  <2> QED BY <1>1, <1>3, HeadAdd
<1>5. EmitAt(asm', q, job.n, i, 1)
  BY <1>2, <1>3, <1>4 DEF EmitAt
<1>6. pos'[1] = i /\ pos'[2] = 1 /\ pos' = <<pos'[1], pos'[2]>>
  BY <1>2
<1> QED BY <1>2, <1>5, <1>6 DEF EmitInv

(* Labels of jumps, calls and strings are no names.                        *)
LEMMA OwnIs ==
  ASSUME NEW label, label.kind = "L", NEW at
  PROVE  /\ Len(Own(label, at)) = 2 /\ IsSeq(Own(label, at))
         /\ \A l \in 1..2 : Own(label, at)[l].at = at /\ Own(label, at)[l].label = label
         /\ Names(Own(label, at)) = {} /\ ~HasMain(Own(label, at))
<1>1. /\ Len(Own(label, at)) = 2 /\ IsSeq(Own(label, at))
      /\ \A l \in 1..2 : Own(label, at)[l].at = at /\ Own(label, at)[l].label = label
  <2>1. PICK x, y : x = Line("use", label, at) /\ y = Line("def", label, at)
    OBVIOUS
  <2>2. x.at = at /\ y.at = at /\ x.label = label /\ y.label = label
    BY <2>1 DEF Line
  <2>3. Own(label, at) = <<x, y>>
    BY <2>1 DEF Own
  <2> QED BY <2>2, <2>3, ShortSeqs
<1>2. label # Public("main")
  <2>1. Public("main").kind = "public"
    BY DEF Public, Label
  <2> QED BY <2>1
<1> QED BY <1>1, <1>2 DEF Names, HasMain

LEMMA UseIs ==
  ASSUME NEW label, NEW at
  PROVE  LET r == <<Line("use", label, at)>>
         IN  IsSeq(r) /\ Len(r) = 1 /\ r[1].at = at /\ Names(r) = {} /\ ~HasMain(r)
<1>1. PICK x : x = Line("use", label, at)
  OBVIOUS
<1>2. x.at = at /\ x.op = "use"
  BY <1>1 DEF Line
<1>3. IsSeq(<<x>>) /\ Len(<<x>>) = 1 /\ <<x>>[1] = x
  BY ShortSeqs
<1>4. Names(<<x>>) = {} /\ ~HasMain(<<x>>)
  BY <1>2, <1>3 DEF Names, HasMain
<1> QED BY <1>1, <1>2, <1>3, <1>4

(* What an element of a body makes: lines of no name.                      *)
Nameless(r, m) == IsSeq(r) /\ Names(r) = {} /\ ~HasMain(r) /\ \A l \in 1..Len(r) : r[l].at[1] = m

LEMMA UseNameless ==
  ASSUME NEW label, NEW at, NEW m, at[1] = m
  PROVE  Nameless(<<Line("use", label, at)>>, m)
<1>1. PICK r : r = <<Line("use", label, at)>>
  OBVIOUS
<1>2. IsSeq(r) /\ Len(r) = 1 /\ r[1].at = at /\ Names(r) = {} /\ ~HasMain(r)
  BY <1>1, UseIs
<1>3. Nameless(r, m)
  BY <1>2 DEF Nameless
<1> QED BY <1>1, <1>3

LEMMA OwnNameless ==
  ASSUME NEW label, label.kind = "L", NEW at, NEW m, at[1] = m
  PROVE  Nameless(Own(label, at), m)
BY OwnIs DEF Nameless

LEMMA CallNameless ==
  ASSUME NEW a, NEW b, NEW m, Nameless(a, m), Nameless(b, m)
  PROVE  Nameless(a \o b, m)
<1>1. Joined(a \o b, a, b)
  BY LinesConcat DEF Nameless
<1>2. PICK c : c = a \o b
  OBVIOUS
<1>3. Joined(c, a, b)
  BY <1>1, <1>2
<1>4. Nameless(c, m)
  BY <1>3 DEF Joined, Nameless
<1> QED BY <1>2, <1>4

LEMMA ToplevelAt ==
  ASSUME EmitInv, pos[1] <= Len(tops)
  PROVE  /\ pos[1] \in 1..Len(tops) /\ Len(tops) \in Nat /\ pos[2] \in Nat
         /\ LinesAre(asm, tops, job.n, pos[1], pos[2])
         /\ IsToplevel(Toplevel, job.n) /\ Toplevel = tops[pos[1]] /\ Len(Toplevel.code) \in Nat
         /\ \A e \in 1..Len(Toplevel.code) : IsElement(Toplevel.code[e], job.n)
         /\ pos[2] > 0 => pos[2] <= Len(Toplevel.code) + 1
<1> DEFINE q == tops
           i == pos[1]
           k == pos[2]
<1>1. EmitAt(asm, q, job.n, i, k) /\ TopsAre(q, job.n, job.source, Len(job.source) + 1, 0) /\ i <= Len(q)
  BY DEF EmitInv
<1>2. Toplevel = q[i]
  BY DEF Toplevel
<1> HIDE DEF q, i, k
<1>3. /\ i \in 1..Len(q) /\ Len(q) \in Nat /\ k \in Nat /\ LinesAre(asm, q, job.n, i, k)
      /\ k > 0 => k <= Len(q[i].code) + 1
  BY <1>1 DEF EmitAt, TopsAre, IsSeq
<1>4. IsToplevel(q[i], job.n)
  BY <1>1, <1>3 DEF TopsAre
<1>5. Len(q[i].code) \in Nat /\ \A e \in 1..Len(q[i].code) : IsElement(q[i].code[e], job.n)
  BY <1>4 DEF IsToplevel, IsSeq
<1> QED BY <1>2, <1>3, <1>4, <1>5 DEF q, i, k

LEMMA ElementIsEmitted ==
  ASSUME EmitInv, EmitElement
  PROVE  EmitInv'
<1> DEFINE q == tops
           i == pos[1]
           k == pos[2]
           at == Element.at
<1>1. /\ i <= Len(q) /\ k \in 1..Len(Toplevel.code) /\ Element.op # "unsupported"
      /\ pos' = <<i, k + 1>> /\ UNCHANGED <<tops, job>>
  BY DEF EmitElement, Emitting, Emit, NextPart, Goto
<1>2. /\ i \in 1..Len(q) /\ Len(q) \in Nat /\ k \in Nat /\ k > 0 /\ LinesAre(asm, q, job.n, i, k)
      /\ Len(Toplevel.code) \in Nat /\ IsElement(Toplevel.code[k], job.n) /\ Toplevel = q[i]
      /\ Element = Toplevel.code[k]
  BY <1>1, ToplevelAt DEF Element
<1>3. /\ Element.op \in {"use", "call", "loop", "string"} /\ at[1] = job.n
      /\ Element.op = "loop" => Element.label.kind = "L"
  BY <1>1, <1>2 DEF IsElement
<1>4. Private(counts.label).kind = "L"
  BY DEF Private, Label
<1>5. PICK r : asm' = asm \o r /\ Nameless(r, job.n)
  <2> DEFINE use == <<Line("use", Element.label, at)>>
             own == Own(Private(counts.label), at)
             loop == Own(Element.label, at)
  <2>1. asm' = asm \o (CASE Element.op = "use"    -> use
                         [] Element.op = "loop"   -> loop
                         [] Element.op = "string" -> own
                         [] Element.op = "call"   -> use \o own)
    BY DEF EmitElement, Emit
  <2>2. Nameless(use, job.n) /\ Nameless(own, job.n)
    BY <1>3, <1>4, UseNameless, OwnNameless
  <2>3. Element.op = "loop" => Nameless(loop, job.n)
    BY <1>3, OwnNameless
  <2> HIDE DEF use, own, loop
  <2>4. Nameless(use \o own, job.n)
    BY <2>2, CallNameless
  <2>5. CASE Element.op = "use"
    BY <2>1, <2>2, <2>5
  <2>6. CASE Element.op = "loop"
    BY <2>1, <2>3, <2>6
  <2>7. CASE Element.op = "string"
    BY <2>1, <2>2, <2>7
  <2>8. CASE Element.op = "call"
    BY <2>1, <2>4, <2>8
  <2> QED BY <1>3, <2>5, <2>6, <2>7, <2>8
<1>6. LinesAre(asm \o r, q, job.n, i, k + 1)
  <2>1. q[i].code[k].op # "unsupported"
    BY <1>1, <1>2
  <2> HIDE DEF q, i, k
  <2>2. \A t \in 1..Len(q) : Headed(t, i, k + 1) <=> Headed(t, i, k)
    BY <1>2 DEF Headed
  <2>3. \A t \in 1..Len(q) : \A e \in 1..Len(q[t].code) :
          t < i \/ (t = i /\ e < k + 1) => q[t].code[e].op # "unsupported"
    <3> TAKE t \in 1..Len(q)
    <3> TAKE e \in 1..Len(q[t].code)
    <3>1. CASE t < i \/ (t = i /\ e < k)
      BY <1>2, <3>1 DEF LinesAre
    <3>2. CASE t = i /\ e = k
      BY <2>1, <3>2
    <3> QED BY <1>2, <3>1, <3>2
  <2> QED BY <1>2, <1>5, <2>2, <2>3, LinesAdd DEF Nameless
<1>7. EmitAt(asm', q, job.n, i, k + 1)
  <2>1. Len(q[i].code) \in Nat /\ k <= Len(q[i].code)
    BY <1>1, <1>2
  <2>2. asm' = asm \o r
    BY <1>5
  <2> HIDE DEF q, i, k
  <2> QED BY <1>2, <1>6, <2>1, <2>2 DEF EmitAt
<1>8. pos'[1] = i /\ pos'[2] = k + 1 /\ pos' = <<pos'[1], pos'[2]>>
  BY <1>1
<1> QED BY <1>1, <1>7, <1>8 DEF EmitInv

LEMMA NextIsEmitted ==
  ASSUME EmitInv, EmitNext
  PROVE  EmitInv'
<1> DEFINE q == tops
           i == pos[1]
           k == pos[2]
<1>1. /\ i <= Len(q) /\ k > Len(Toplevel.code) /\ asm' = asm \o <<>>
      /\ pos' = <<i + 1, 0>> /\ UNCHANGED <<tops, job>>
  BY DEF EmitNext, Emitting, Emit, NextItem, Goto
<1>2. /\ i \in 1..Len(q) /\ Len(q) \in Nat /\ k \in Nat /\ LinesAre(asm, q, job.n, i, k)
      /\ Len(Toplevel.code) \in Nat /\ Toplevel = q[i]
      /\ k > 0 => k <= Len(Toplevel.code) + 1
  BY <1>1, ToplevelAt
<1>3. k > 0 /\ k = Len(Toplevel.code) + 1
  BY <1>1, <1>2
<1>4. LinesAre(asm \o <<>>, q, job.n, i + 1, 0)
  <2>1. IsSeq(<<>>) /\ Names(<<>>) = {} /\ ~HasMain(<<>>) /\ \A l \in 1..Len(<<>>) : <<>>[l].at[1] = job.n
    BY ShortSeqs DEF Names, HasMain
  <2> HIDE DEF q, i, k
  <2>2. \A t \in 1..Len(q) : Headed(t, i + 1, 0) <=> Headed(t, i, k)
    BY <1>2, <1>3 DEF Headed
  <2>3. \A t \in 1..Len(q) : \A e \in 1..Len(q[t].code) :
          t < i + 1 \/ (t = i + 1 /\ e < 0) => q[t].code[e].op # "unsupported"
    <3> TAKE t \in 1..Len(q)
    <3> TAKE e \in 1..Len(q[t].code)
    <3>1. CASE t < i
      BY <1>2, <3>1 DEF LinesAre
    <3>2. CASE t = i
      <4>1. e < k
        BY <1>2, <1>3, <3>2
      <4> QED BY <1>2, <3>2, <4>1 DEF LinesAre
    <3>3. ~(e < 0)
      OBVIOUS
    <3> QED BY <1>2, <3>1, <3>2, <3>3
  <2> QED BY <1>2, <2>1, <2>2, <2>3, LinesAdd
<1>5. EmitAt(asm', q, job.n, i + 1, 0)
  BY <1>1, <1>2, <1>4 DEF EmitAt
<1>6. pos'[1] = i + 1 /\ pos'[2] = 0 /\ pos' = <<pos'[1], pos'[2]>>
  BY <1>1
<1> QED BY <1>1, <1>5, <1>6 DEF EmitInv

LEMMA AllSupported ==
  ASSUME NEW text, SourceOK(text)
  PROVE  /\ SupportedBefore(text, Len(text) + 1) <=> ~Unwritable(text)
         /\ MainBefore(text, Len(text) + 1) <=> \E j \in 1..Len(text) : MainAt(text, j)
<1>1. Len(text) \in Nat /\ DOMAIN text = 1..Len(text) /\ (Len(text) + 1) - 1 = Len(text)
  BY DEF SourceOK, IsSeq
<1>2. \A i \in 1..Len(text) : text[i].op = "func" => DOMAIN text[i].body = 1..Len(text[i].body)
  BY BodyOf
<1> QED BY <1>1, <1>2 DEF SupportedBefore, Supported, Unwritable, MainBefore

LEMMA EmitFails ==
  ASSUME EmitInv, EmitUnsupported, SourceOK(job.source)
  PROVE  Unwritable(job.source)
<1> DEFINE text == job.source
<1>1. pos[1] <= Len(tops) /\ pos[2] \in 1..Len(Toplevel.code) /\ Element.op = "unsupported"
  BY DEF EmitUnsupported, Emitting
<1>2. pos[1] \in 1..Len(tops) /\ ~Emittable(tops[pos[1]])
  BY <1>1, ToplevelAt DEF Element, Toplevel, Emittable
<1>3. TopsAre(tops, job.n, text, Len(text) + 1, 0) /\ SourceOK(text)
  BY DEF EmitInv
<1> HIDE DEF text
<1>4. ~SupportedBefore(text, Len(text) + 1)
  BY <1>2, <1>3 DEF TopsAre
<1>5. Unwritable(text)
  BY <1>3, <1>4, AllSupported
<1> QED BY <1>5 DEF text

LEMMA EmitBegins ==
  ASSUME NEW q, IsSeq(q), NEW m
  PROVE  EmitAt(<<>>, q, m, 1, 0)
<1>1. IsSeq(<<>>) /\ Len(<<>>) = 0 /\ Names(<<>>) = {} /\ ~HasMain(<<>>)
  BY ShortSeqs DEF Names, HasMain
<1>2. \A t \in 1..Len(q) : ~Headed(t, 1, 0) /\ ~(t < 1) /\ (t = 1 => t \in 1..1)
  BY DEF Headed
<1>3. LinesAre(<<>>, q, m, 1, 0)
  <2>1. \A t \in 1..Len(q) : \A e \in 1..Len(q[t].code) :
          t < 1 \/ (t = 1 /\ e < 0) => q[t].code[e].op # "unsupported"
    OBVIOUS
  <2> QED BY <1>1, <1>2, <2>1 DEF LinesAre
<1> QED BY <1>3 DEF EmitAt, IsSeq

LEMMA EmitDone ==
  ASSUME EmitInv, pos[1] > Len(tops), SourceOK(job.source),
         NEW sources, sources[job.n].text = job.source
  PROVE  ~Unwritable(job.source) /\ ModulesAre(asm, sources, {job.n})
<1> DEFINE text == job.source
           q == tops
           m == job.n
<1>1. /\ TopsAre(q, m, text, Len(text) + 1, 0) /\ SourceOK(text) /\ sources[m].text = text
      /\ EmitAt(asm, q, m, pos[1], pos[2])
  BY DEF EmitInv
<1>2. Len(q) \in Nat /\ Len(text) \in Nat /\ DOMAIN text = 1..Len(text)
  BY <1>1 DEF TopsAre, IsSeq, SourceOK
<1>3. pos[1] = Len(q) + 1 /\ pos[2] = 0 /\ LinesAre(asm, q, m, Len(q) + 1, 0)
  BY <1>1, <1>2 DEF EmitAt
<1> HIDE DEF text, q, m
<1>4. \A t \in 1..Len(q) : Headed(t, Len(q) + 1, 0) /\ t < Len(q) + 1
  BY <1>2 DEF Headed
<1>5. \A j, p \in Nat : DefinesAt(text, j, p) => Passed(j, p, Len(text) + 1, 0)
  BY <1>2 DEF Passed, DefinesAt
<1>6. ~Unwritable(text)
  <2>1. \A t \in 1..Len(q) : Emittable(q[t])
    BY <1>3, <1>4 DEF LinesAre, Emittable
  <2> QED BY <1>1, <2>1, AllSupported DEF TopsAre
<1>7. HasMain(asm) <=> \E j \in 1..Len(text) : MainAt(text, j)
  <2>1. HasMain(asm) <=> \E t \in 1..Len(q) : IsMain(q[t])
    BY <1>3, <1>4 DEF LinesAre
  <2>2. (\E t \in 1..Len(q) : IsMain(q[t])) <=> MainBefore(text, Len(text) + 1)
    BY <1>1 DEF TopsAre
  <2> QED BY <1>1, <2>1, <2>2, AllSupported
<1>8. ASSUME NEW l \in Names(asm)
      PROVE  \E j, p \in Nat : asm[l].at = <<m, j, p>> /\ DefinesAt(text, j, p)
  <2>1. PICK t \in 1..Len(q) : asm[l].at = q[t].at
    BY <1>3 DEF LinesAre
  <2>2. PICK j \in Nat, p \in Nat : q[t].at = <<m, j, p>> /\ DefinesAt(text, j, p)
    BY <1>1 DEF TopsAre
  <2> QED BY <2>1, <2>2
<1>9. ASSUME NEW j \in Nat, NEW p \in Nat, DefinesAt(text, j, p)
      PROVE  \E l \in Names(asm) : asm[l].at = <<m, j, p>>
  <2>1. PICK t \in 1..Len(q) : q[t].at = <<m, j, p>>
    BY <1>1, <1>5, <1>9 DEF TopsAre
  <2>2. PICK l \in Names(asm) : asm[l].at = q[t].at
    BY <1>3, <1>4 DEF LinesAre
  <2> QED BY <2>1, <2>2
<1>10. IsSeq(asm) /\ \A l \in 1..Len(asm) : asm[l].at[1] \in {m}
  BY <1>3 DEF LinesAre
<1>11. ModulesAre(asm, sources, {m})
  BY <1>1, <1>7, <1>8, <1>9, <1>10 DEF ModulesAre, NamesAre, HaveMain
<1> QED BY <1>6, <1>11 DEF text, m

------------------------------------------------------------------------------
(* The compiler.                                                           *)

LEMMA ParseBegins ==
  ASSUME NEW text, SourceOK(text), NEW m, NEW loc, NEW c
  PROVE  ParseAt(text, m, 1, 0, Nothing, loc, <<>>, c)
<1>1. Len(text) \in Nat /\ 1 \in 1..Len(text) + 1 /\ 1 - 1 = 0
  BY DEF SourceOK, IsSeq
<1>2. GlobalIs(Nothing, text, 1 - 1)
  BY <1>1, GlobalStarts
<1>3. ASSUME NEW u \in Mentions(text), Mentioned(u, 1, 0) PROVE FALSE
  <2>1. \E j \in 1..Len(text) : u.i = j
    BY MentionsAre DEF Mention
  <2>2. u.k < 0 => FALSE
    <3>1. u.k = 0 \/ \E j \in 1..Len(text) : u.k \in 1..Len(text[j].body)
      BY MentionsAre DEF Mention
    <3> QED BY <3>1
  <2> QED BY <1>3, <2>1, <2>2 DEF Mentioned
<1>4. TopsAre(<<>>, m, text, 1, 0)
  <2>1. IsSeq(<<>>) /\ Len(<<>>) = 0 /\ \A t : t \notin 1..Len(<<>>)
    BY ShortSeqs
  <2>2. \A j, p \in Nat : DefinesAt(text, j, p) => ~Passed(j, p, 1, 0)
    BY <1>1 DEF Passed, DefinesAt, SourceOK, IsSeq
  <2>3. ~MainBefore(text, 1) /\ SupportedBefore(text, 1)
    BY DEF MainBefore, SupportedBefore
  <2> QED BY <2>1, <2>2, <2>3 DEF TopsAre
<1> QED BY <1>1, <1>2, <1>3, <1>4 DEF ParseAt

LEMMA StartCInv ==
  ASSUME CInv, SourceOK(job.source), ParseOpt \/ LexInit \/ OpenAsm \/ Preprocess
  PROVE  CInv'
<1>1. CASE ParseOpt
  BY <1>1 DEF CInv, ParseOpt, At, Goto, Exit, parsing
<1>2. CASE LexInit
  BY <1>2 DEF CInv, LexInit, At, Goto, Exit, parsing
<1>3. CASE OpenAsm
  <2>1. /\ phase = "open" /\ phase' = (IF "E" \in job.opts THEN "preprocess" ELSE "parse")
        /\ asm' = <<>> /\ UNCHANGED <<job, pos, global, local, counts, code, tops>>
    BY <1>3 DEF OpenAsm, At, Goto, parsing
  <2>2. pos = <<1, 0>> /\ global = Nothing /\ tops = <<>>
    BY <2>1 DEF CInv
  <2>3. ParseInv'
    <3>1. ParseAt(job.source, job.n, 1, 0, Nothing, local, <<>>, code)
      BY ParseBegins
    <3>2. pos[1] = 1 /\ pos[2] = 0 /\ pos = <<pos[1], pos[2]>>
      BY <2>2
    <3>3. ParseAt(job.source, job.n, pos[1], pos[2], global, local, tops, code)
      BY <2>2, <3>1, <3>2
    <3> QED BY <2>1, <3>2, <3>3 DEF ParseInv
  <2>4. job.id # "bad" /\ job.opts # {} /\ job.readable
    BY <2>1 DEF CInv
  <2> QED BY <2>1, <2>3, <2>4 DEF CInv
<1>4. CASE Preprocess
  BY <1>4 DEF CInv, Preprocess, At, Exit
<1> QED BY <1>1, <1>2, <1>3, <1>4

LEMMA ParseCInv ==
  ASSUME CInv, SourceOK(job.source), Parse
  PROVE  CInv'
<1>1. phase = "parse" /\ ParseInv /\ job.id # "bad" /\ job.opts # {} /\ job.readable /\ "E" \notin job.opts
  <2>1. phase = "parse"
    BY DEF Parse, ReadDecl, ReadDeclUndefined, SyntaxError, FuncBegins, FuncEnds, ReadName,
           ReadNameUndefined, ReadCall, ReadCallNoFunction, ReadLocal, ReadStatic,
           ReadStaticUndefined, ReadLoop, ReadOther, ParseEnds, AtHead, AtPart, At
  <2> QED BY <2>1 DEF CInv
<1>2. CASE ReadDecl \/ FuncBegins \/ FuncEnds \/ ReadName \/ ReadCall \/ ReadLocal \/ ReadStatic
           \/ ReadLoop \/ ReadOther
  <2>1. phase' = "parse" /\ job' = job
    BY <1>2 DEF ReadDecl, FuncBegins, FuncEnds, ReadName, ReadCall, ReadLocal, ReadStatic,
           ReadLoop, ReadOther, Reading, Goto
  <2>2. ParseInv'
    BY <1>1, <1>2, DeclIsRead, FuncBegun, FuncEnded, NameIsRead, CallIsRead, LocalIsRead,
       StaticIsRead, OtherIsRead
  <2> QED BY <1>1, <2>1, <2>2 DEF CInv
<1>3. CASE ReadDeclUndefined \/ SyntaxError \/ ReadNameUndefined \/ ReadCallNoFunction \/ ReadStaticUndefined
  <2>1. phase' = "exit" /\ ccstatus' = 1 /\ job' = job
    BY <1>3 DEF ReadDeclUndefined, SyntaxError, ReadNameUndefined, ReadCallNoFunction,
                ReadStaticUndefined, ParseError, Exit
  <2>2. Wrong(job.source)
    BY <1>1, <1>3, ErrorsAreWrong
  <2> QED BY <1>1, <2>1, <2>2 DEF CInv
<1>4. CASE ParseEnds
  <2>1. /\ pos[1] > Len(job.source) /\ pos' = <<1, 0>>
        /\ phase' = (IF "ast" \in job.opts THEN "close" ELSE "emit")
        /\ UNCHANGED <<job, tops, asm>>
    BY <1>4 DEF ParseEnds, Goto
  <2>2. ~Wrong(job.source) /\ TopsAre(tops, job.n, job.source, Len(job.source) + 1, 0)
    BY <1>1, <2>1, AcceptedIsRight
  <2>3. asm = <<>>
    BY <1>1 DEF ParseInv
  <2>4. EmitInv'
    <3>1. IsSeq(tops)
      BY <2>2 DEF TopsAre
    <3>2. EmitAt(asm, tops, job.n, 1, 0)
      BY <2>3, <3>1, EmitBegins
    <3>3. pos'[1] = 1 /\ pos'[2] = 0 /\ pos' = <<pos'[1], pos'[2]>>
      BY <2>1
    <3> QED BY <2>1, <2>2, <3>2, <3>3 DEF EmitInv
  <2> QED BY <1>1, <2>1, <2>2, <2>4 DEF CInv
<1> QED BY <1>2, <1>3, <1>4 DEF Parse

LEMMA EmitCInv ==
  ASSUME CInv, SourceOK(job.source), UNCHANGED build, Sources[job.n].text = job.source,
         EmitHead \/ EmitElement \/ EmitUnsupported \/ EmitNext \/ EmitEnds
  PROVE  CInv'
<1>1. /\ phase = "emit" /\ EmitInv /\ ~Wrong(job.source) /\ "ast" \notin job.opts
      /\ job.id # "bad" /\ job.opts # {} /\ job.readable /\ "E" \notin job.opts
  <2>1. phase = "emit"
    BY DEF EmitHead, EmitElement, EmitUnsupported, EmitNext, EmitEnds, Emitting, At
  <2> QED BY <2>1 DEF CInv
<1>2. CASE EmitHead \/ EmitElement \/ EmitNext
  <2>1. phase' = "emit" /\ job' = job
    BY <1>2 DEF EmitHead, EmitElement, EmitNext, Emit, Goto
  <2>2. EmitInv'
    BY <1>1, <1>2, HeadIsEmitted, ElementIsEmitted, NextIsEmitted
  <2> QED BY SMTT(30), <1>1, <2>1, <2>2 DEF CInv
<1>3. CASE EmitUnsupported
  <2>1. phase' = "exit" /\ ccstatus' = 1 /\ job' = job
    BY <1>3 DEF EmitUnsupported, Exit
  <2>2. Unwritable(job.source)
    BY <1>1, <1>3, EmitFails
  <2> QED BY <1>1, <2>1, <2>2 DEF CInv
<1>4. CASE EmitEnds
  <2>1. pos[1] > Len(tops) /\ phase' = "close" /\ UNCHANGED <<job, asm>>
    BY <1>4 DEF EmitEnds, Goto
  <2>2. ~Unwritable(job.source) /\ ModulesAre(asm, Sources, {job.n})
    BY <1>1, <2>1, EmitDone
  <2>3. Emitted'
    BY <2>1, <2>2 DEF Emitted, Sources
  <2> QED BY <1>1, <2>1, <2>3 DEF CInv
<1> QED BY <1>2, <1>3, <1>4

LEMMA CompileCInv ==
  ASSUME CInv, SourceOK(job.source), UNCHANGED build, Sources[job.n].text = job.source, Compile
  PROVE  CInv'
<1>1. CASE CloseOutput
  <2>1. phase = "close" /\ phase' = "closeagain" /\ UNCHANGED <<job, asm>>
    BY <1>1 DEF CloseOutput, At, Goto
  <2>2. Emitted => Emitted'
    BY <2>1 DEF Emitted, Sources
  <2> QED BY <2>1, <2>2 DEF CInv
<1>2. CASE CloseAgain
  <2>1. phase = "closeagain" /\ phase' = "exit" /\ ccstatus' \in {0, Signal + 6} /\ UNCHANGED <<job, asm>>
    BY <1>2 DEF CloseAgain, At, Exit
  <2>2. Emitted => Emitted'
    BY <2>1 DEF Emitted, Sources
  <2> QED BY <2>1, <2>2 DEF CInv
<1> QED BY <1>1, <1>2, StartCInv, ParseCInv, EmitCInv DEF Compile

------------------------------------------------------------------------------
(* The script.                                                             *)

LEMMA BuildIs ==
  ASSUME NEW b \in Builds
  PROVE  /\ Len(b.sources) \in Nat \ {0} /\ DOMAIN b.sources = 1..Len(b.sources)
         /\ \A i \in 1..Len(b.sources) : SourceOK(b.sources[i].text) /\ "m" \o ToString(i) # "bad"
         /\ \A i, j \in 1..Len(b.sources) : i # j => "m" \o ToString(i) # "m" \o ToString(j)
         /\ b.stop \in BOOLEAN /\ b.keep \in BOOLEAN
         /\ b.opts # {"wrapper"} => b.opts \subseteq {"S", "c", "E", "ast"} /\ Len(b.sources) = 1
<1>1. /\ b.sources \in Seq({b.sources[i] : i \in DOMAIN b.sources}) /\ b.sources # <<>>
      /\ \A i \in DOMAIN b.sources : IsSource(b.sources[i].text) /\ "m" \o ToString(i) # "bad"
      /\ \A i, j \in DOMAIN b.sources : i # j => "m" \o ToString(i) # "m" \o ToString(j)
      /\ {b.stop, b.keep} \subseteq BOOLEAN
      /\ b.opts # {"wrapper"} => b.opts \subseteq {"S", "c", "E", "ast"} /\ Len(b.sources) = 1
  BY BuildAssumption DEF BuildAssumption
<1>2. PICK S : S = {b.sources[i] : i \in DOMAIN b.sources}
  OBVIOUS
<1>3. b.sources \in Seq(S)
  BY <1>1, <1>2
<1>4. IsSeq(b.sources) /\ DOMAIN b.sources = 1..Len(b.sources)
  BY <1>3, SeqIsSeq
<1>5. Len(b.sources) \in Nat \ {0}
  BY <1>1, <1>3, EmptySeq, LenProperties
<1>6. ASSUME NEW text, IsSource(text) PROVE SourceOK(text)
  <2>1. PICK T : T = {text[i] : i \in DOMAIN text}
    OBVIOUS
  <2>2. text \in Seq(T)
    BY <1>6, <2>1 DEF IsSource
  <2>3. IsSeq(text) /\ DOMAIN text = 1..Len(text)
    BY <2>2, SeqIsSeq
  <2>4. ASSUME NEW i \in 1..Len(text), text[i].op = "func" PROVE IsSeq(text[i].body)
    <3>1. PICK B : B = {text[i].body[k] : k \in DOMAIN text[i].body}
      OBVIOUS
    <3>2. text[i].body \in Seq(B)
      BY <1>6, <2>3, <2>4, <3>1 DEF IsSource
    <3> QED BY <3>2, SeqIsSeq
  <2> QED BY <1>6, <2>3, <2>4 DEF IsSource, SourceOK
<1> QED BY <1>1, <1>4, <1>5, <1>6

LEMMA MergeModules ==
  ASSUME NEW a, NEW b, NEW sources, NEW k \in Nat \ {0},
         ModulesAre(a, sources, 1..k - 1), Sorted(a), ModulesAre(b, sources, {k})
  PROVE  ModulesAre(a \o b, sources, 1..k) /\ Sorted(a \o b)
<1> DEFINE c == a \o b
<1>1. IsSeq(a) /\ IsSeq(b)
  BY DEF ModulesAre
<1>2. Joined(c, a, b)
  BY <1>1, LinesConcat
<1>3. 1..k = (1..k - 1) \cup {k}
  OBVIOUS
<1>4. Sorted(c)
  <2>1. Sorted(b)
    BY DEF Sorted, ModulesAre
  <2>2. \A j \in 1..Len(a), l \in 1..Len(b) : a[j].at[1] <= b[l].at[1]
    BY DEF ModulesAre
  <2> QED BY <1>1, <2>1, <2>2, SortedConcat
<1> HIDE DEF c
<1>5. \A l \in 1..Len(c) : c[l].at[1] \in 1..k
  BY <1>2, <1>3 DEF Joined, ModulesAre
<1>6. ASSUME NEW l \in Names(c)
      PROVE  \E m \in 1..k : \E j, p \in Nat : c[l].at = <<m, j, p>> /\ DefinesAt(sources[m].text, j, p)
  <2>1. CASE \E x \in Names(a) : c[l] = a[x]
    BY <1>3, <2>1 DEF ModulesAre, NamesAre
  <2>2. CASE \E x \in Names(b) : c[l] = b[x]
    BY <1>3, <2>2 DEF ModulesAre, NamesAre
  <2> QED BY <1>2, <2>1, <2>2 DEF Joined
<1>7. ASSUME NEW m \in 1..k, NEW j \in Nat, NEW p \in Nat, DefinesAt(sources[m].text, j, p)
      PROVE  \E l \in Names(c) : c[l].at = <<m, j, p>>
  <2>1. CASE m \in 1..k - 1
    <3>1. PICK x \in Names(a) : a[x].at = <<m, j, p>>
      BY <1>7, <2>1 DEF ModulesAre, NamesAre
    <3> QED BY <1>2, <3>1 DEF Joined
  <2>2. CASE m = k
    <3>1. PICK x \in Names(b) : b[x].at = <<m, j, p>>
      BY <1>7, <2>2 DEF ModulesAre, NamesAre
    <3> QED BY <1>2, <3>1 DEF Joined
  <2> QED BY <1>3, <2>1, <2>2
<1>8. HasMain(c) <=> HaveMain(sources, 1..k)
  <2>1. HasMain(c) <=> HaveMain(sources, 1..k - 1) \/ HaveMain(sources, {k})
    BY <1>2 DEF Joined, ModulesAre
  <2>2. HaveMain(sources, 1..k) <=> HaveMain(sources, 1..k - 1) \/ HaveMain(sources, {k})
    BY <1>3 DEF HaveMain
  <2> QED BY <2>1, <2>2
<1>9. ModulesAre(c, sources, 1..k)
  <2>1. IsSeq(c)
    BY <1>2 DEF Joined
  <2>2. NamesAre(c, sources, 1..k)
    BY <1>6, <1>7 DEF NamesAre
  <2> QED BY <1>5, <1>8, <2>1, <2>2 DEF ModulesAre
<1> QED BY <1>4, <1>9 DEF c

LEMMA DefinesMainIs ==
  ASSUME NEW lines, IsSeq(lines)
  PROVE  DefinesMain(lines) <=> HasMain(lines)
<1>1. DOMAIN lines = 1..Len(lines)
  BY DEF IsSeq
<1> QED BY <1>1 DEF DefinesMain, HasMain

LEMMA WholeIs ==
  ASSUME build \in Builds, NEW lines, IsSeq(lines), Sorted(lines),
         NamesAre(lines, Sources, 1..Len(Sources))
  PROVE  Whole(lines)
<1>1. /\ DOMAIN Sources = 1..Len(Sources) /\ Modules = 1..Len(Sources)
      /\ \A m \in 1..Len(Sources) : SourceOK(Text(m)) /\ Text(m) = Sources[m].text
  BY BuildIs DEF Sources, Modules, Text
<1>2. DOMAIN lines = 1..Len(lines)
  BY DEF IsSeq
<1>3. {k \in Defined(lines) : lines[k].label.kind # "L"} = Names(lines)
  BY <1>2 DEF Defined, Names
<1>4. ASSUME NEW l \in Names(lines)
      PROVE  \E m \in Modules : lines[l].at \in DefinitionPlaces(m)
  <2>1. PICK m \in 1..Len(Sources) :
          \E j, p \in Nat : lines[l].at = <<m, j, p>> /\ DefinesAt(Sources[m].text, j, p)
    BY DEF NamesAre
  <2>2. PICK j \in Nat, p \in Nat : lines[l].at = <<m, j, p>> /\ DefinesAt(Text(m), j, p)
    BY <1>1, <2>1
  <2>3. p # 0 => p \in DOMAIN Text(m)[j].body
    BY <2>2 DEF DefinesAt
  <2>4. lines[l].at \in DefinitionPlaces(m)
    BY <2>2, <2>3, PlacesInText
  <2> QED BY <1>1, <2>4
<1>5. ASSUME NEW m \in Modules, NEW at \in DefinitionPlaces(m)
      PROVE  \E l \in Names(lines) : lines[l].at = at
  <2>1. PICK j, p : at = <<m, j, p>> /\ DefinesAt(Text(m), j, p) /\ (p # 0 => p \in DOMAIN Text(m)[j].body)
    BY PlacesInText
  <2>2. j \in Nat /\ p \in Nat
    <3> DEFINE text == Text(m)
    <3>1. SourceOK(text) /\ DefinesAt(text, j, p)
      BY <1>1, <2>1
    <3> HIDE DEF text
    <3>2. j \in 1..Len(text) /\ (p = 0 \/ (text[j].op = "func" /\ p \in DOMAIN text[j].body))
      BY <3>1 DEF DefinesAt, SourceOK, IsSeq
    <3> QED BY <3>1, <3>2, BodyOf
  <2> QED BY <1>1, <2>1, <2>2 DEF NamesAre
<1>6. {lines[k].at : k \in Names(lines)} = UNION {DefinitionPlaces(m) : m \in Modules}
  BY <1>4, <1>5
<1>7. \A j, k \in DOMAIN lines : j < k => lines[j].at[1] <= lines[k].at[1]
  BY <1>2 DEF Sorted
<1> QED BY <1>3, <1>6, <1>7 DEF Whole

LEMMA MainModulesAre ==
  ASSUME build \in Builds
  PROVE  MainModules # {} <=> HaveMain(Sources, 1..Len(Sources))
<1>1. /\ Modules = 1..Len(Sources)
      /\ \A m \in 1..Len(Sources) : SourceOK(Text(m)) /\ Text(m) = Sources[m].text
  BY BuildIs DEF Sources, Modules, Text
<1>2. \A m \in 1..Len(Sources) : DOMAIN Text(m) = 1..Len(Text(m))
  BY <1>1 DEF SourceOK, IsSeq
<1>3. \A m, i : MainAt(Text(m), i) <=> Declares(m, i, "main") /\ Full(m, i) /\ Class(m, i) # "static"
  BY InText
<1>4. MainModules # {} <=> \E m \in Modules : \E i \in DOMAIN Text(m) : MainAt(Text(m), i)
  BY <1>3 DEF MainModules
<1> QED BY <1>1, <1>2, <1>4 DEF HaveMain

(* The start-up defines nothing, and stands first.                         *)
LEMMA StartupIs ==
  ASSUME NEW main
  PROVE  LET s == Startup(main)
         IN  /\ IsSeq(s) /\ Len(s) = 1 /\ s[1].at = <<0, 0, 0>> /\ s[1].op \in {"use", "hlt"}
             /\ Names(s) = {} /\ ~HasMain(s) /\ Sorted(s)
<1>1. PICK x : Startup(main) = <<x>> /\ x.at = <<0, 0, 0>> /\ x.op \in {"use", "hlt"}
  <2>1. PICK y, z : y = Line("use", Public("main"), <<0, 0, 0>>) /\ z = Line("hlt", Null, <<0, 0, 0>>)
    OBVIOUS
  <2>2. /\ y.at = <<0, 0, 0>> /\ y.op = "use"
        /\ z.at = <<0, 0, 0>> /\ z.op = "hlt"
    BY <2>1 DEF Line
  <2>3. Startup(main) = IF main THEN <<y>> ELSE <<z>>
    BY <2>1 DEF Startup
  <2> QED BY <2>2, <2>3
<1>2. IsSeq(<<x>>) /\ Len(<<x>>) = 1 /\ <<x>>[1] = x
  BY ShortSeqs
<1>3. Names(<<x>>) = {} /\ ~HasMain(<<x>>) /\ Sorted(<<x>>)
  BY <1>1, <1>2 DEF Names, HasMain, Sorted
<1> QED BY <1>1, <1>2, <1>3

(* The names a program defines are those of its modules: the start-up      *)
(* defines none.                                                           *)
LEMMA ProgramNames ==
  ASSUME NEW lines, NEW sources, Program(lines, sources)
  PROVE  NamesAre(lines, sources, 1..Len(sources))
<1>1. PICK body : /\ ModulesAre(body, sources, 1..Len(sources))
                  /\ lines = Startup(HaveMain(sources, 1..Len(sources))) \o body
  BY DEF Program
<1>2. PICK s : s = Startup(HaveMain(sources, 1..Len(sources)))
  OBVIOUS
<1>3. IsSeq(s) /\ Names(s) = {}
  BY <1>2, StartupIs
<1>4. Joined(lines, s, body)
  BY <1>1, <1>2, <1>3, LinesConcat DEF ModulesAre
<1>5. NamesAre(lines, sources, 1..Len(sources))
  <2>1. NamesAre(body, sources, 1..Len(sources))
    BY <1>1 DEF ModulesAre
  <2>2. /\ \A l \in Names(lines) : \E j \in Names(body) : lines[l] = body[j]
        /\ \A j \in Names(body) : \E l \in Names(lines) : lines[l] = body[j]
    BY <1>3, <1>4 DEF Joined
  <2>3. ASSUME NEW l \in Names(lines)
        PROVE  \E m \in 1..Len(sources) : \E j, p \in Nat :
                 lines[l].at = <<m, j, p>> /\ DefinesAt(sources[m].text, j, p)
    <3>1. PICK x \in Names(body) : lines[l] = body[x]
      BY <2>2
    <3>2. \E m \in 1..Len(sources) : \E j, p \in Nat :
            body[x].at = <<m, j, p>> /\ DefinesAt(sources[m].text, j, p)
      BY <2>1 DEF NamesAre
    <3> QED BY <3>1, <3>2
  <2>4. ASSUME NEW m \in 1..Len(sources), NEW j \in Nat, NEW p \in Nat, DefinesAt(sources[m].text, j, p)
        PROVE  \E l \in Names(lines) : lines[l].at = <<m, j, p>>
    <3>1. PICK x \in Names(body) : body[x].at = <<m, j, p>>
      BY <2>1, <2>4 DEF NamesAre
    <3> QED BY <2>2, <3>1
  <2> QED BY <2>3, <2>4 DEF NamesAre
<1> QED BY <1>5

LEMMA ProgramIsWhole ==
  ASSUME build \in Builds, NEW lines, Program(lines, Sources)
  PROVE  WholeProgram(lines)
<1>1. PICK body : /\ ModulesAre(body, Sources, 1..Len(Sources)) /\ Sorted(body)
                  /\ lines = Startup(HaveMain(Sources, 1..Len(Sources))) \o body
  BY DEF Program
<1>2. HaveMain(Sources, 1..Len(Sources)) <=> MainModules # {}
  BY MainModulesAre
<1>3. PICK s : s = Startup(MainModules # {})
  OBVIOUS
<1>4. lines = s \o body
  BY <1>1, <1>2, <1>3 DEF Startup
<1>5. IsSeq(s) /\ Len(s) = 1 /\ s[1].at = <<0, 0, 0>> /\ Names(s) = {} /\ Sorted(s)
  BY <1>3, StartupIs
<1>6. IsSeq(body)
  BY <1>1 DEF ModulesAre
<1>7. Joined(lines, s, body)
  BY <1>4, <1>5, <1>6, LinesConcat
<1>8. lines[1] = s[1]
  BY <1>4, <1>5, <1>6, ConcatTo
<1>9. Sorted(lines)
  <2>1. \A j \in 1..Len(s), k \in 1..Len(body) : s[j].at[1] <= body[k].at[1]
    BY <1>1, <1>5 DEF ModulesAre
  <2> QED BY <1>1, <1>4, <1>5, <1>6, <2>1, SortedConcat
<1>10. NamesAre(lines, Sources, 1..Len(Sources))
  BY ProgramNames
<1>11. Whole(lines)
  BY <1>7, <1>9, <1>10, WholeIs DEF Joined
<1> QED BY <1>3, <1>8, <1>11 DEF WholeProgram

LEMMA SInvStatus == SInv => StatusTrue
<1> SUFFICES ASSUME SInv, step = "ended" PROVE StatusTrue
  BY DEF StatusTrue
<1>1. /\ build \in Builds /\ Modules = 1..Len(Sources) /\ Len(Sources) \in Nat \ {0}
      /\ Direct => Len(Sources) = 1
  BY BuildIs DEF SInv, Sources, Modules, Direct
<1>2. \A m : (Bad(m) <=> Wrong(Sources[m].text)) /\ (Unsupported(m) <=> Unwritable(Sources[m].text))
  BY InText DEF Text
<1>3. CASE Direct
  <2>1. DirectEnd
    BY <1>3 DEF SInv
  <2>2. WhyNotDirect <=> HinderedDirect
    BY <1>2 DEF WhyNotDirect, HinderedDirect
  <2>3. ModulesAre(asm, Sources, {1}) => Whole(asm)
    <3>1. HAVE ModulesAre(asm, Sources, {1})
    <3>2. 1..Len(Sources) = {1}
      <4>1. Len(Sources) = 1
        BY <1>1, <1>3
      <4>2. 1..1 = {1}
        OBVIOUS
      <4> QED BY <4>1, <4>2
    <3>3. IsSeq(asm) /\ NamesAre(asm, Sources, 1..Len(Sources))
      BY <3>1, <3>2 DEF ModulesAre
    <3>4. Sorted(asm)
      BY <3>1 DEF ModulesAre, Sorted
    <3> QED BY <1>1, <3>3, <3>4, WholeIs
  <2> QED BY <1>3, <2>1, <2>2, <2>3 DEF StatusTrue, DirectEnd
<1>4. CASE ~Direct
  <2>1. ScriptEnd
    BY <1>4 DEF SInv
  <2>2. WhyNot <=> Hindered
    <3>1. HaveMain(Sources, 1..Len(Sources)) <=> MainModules # {}
      BY <1>1, MainModulesAre
    <3> QED BY <1>1, <1>2, <3>1 DEF WhyNot, Hindered, Compiles
  <2>3. \A f \in {image, kept} : f.is = "written" => WholeProgram(f.lines)
    BY <1>1, <2>1, ProgramIsWhole DEF ScriptEnd
  <2> QED BY <1>4, <2>1, <2>2, <2>3 DEF StatusTrue, ScriptEnd
<1> QED BY <1>3, <1>4

LEMMA EmptyModules ==
  ASSUME NEW sources
  PROVE  ModulesAre(<<>>, sources, 1..0) /\ Sorted(<<>>)
<1>1. IsSeq(<<>>) /\ Len(<<>>) = 0 /\ Names(<<>>) = {} /\ ~HasMain(<<>>)
  BY ShortSeqs DEF Names, HasMain
<1>2. \A k : k \notin 1..0
  OBVIOUS
<1> QED BY <1>1, <1>2 DEF ModulesAre, NamesAre, HaveMain, Sorted

LEMMA InitSInv == Init => SInv
<1> SUFFICES ASSUME Init PROVE SInv
  OBVIOUS
<1>1. build \in Builds /\ n = 1 /\ Len(Sources) \in Nat \ {0} /\ n \in 1..Len(Sources) + 1 /\ n <= Len(Sources)
  BY BuildIs DEF Init, Sources
<1>2. CASE Direct
  <2>1. /\ step = "compiling" /\ job = Job(n) /\ phase = "options"
        /\ pos = <<1, 0>> /\ global = Nothing /\ tops = <<>>
    BY <1>2 DEF Init, CcInit
  <2>2. CInv
    BY <2>1 DEF CInv
  <2> QED BY <1>1, <1>2, <2>1, <2>2 DEF SInv
<1>3. CASE ~Direct
  <2>1. step = "check" /\ merged = <<>> /\ kept = Old /\ image = Old /\ ccstatus = 0
    BY <1>3 DEF Init, CcInit
  <2>2. ScriptInv
    BY <1>1, <2>1 DEF ScriptInv
  <2> QED BY <1>1, <1>3, <2>1, <2>2 DEF SInv
<1> QED BY <1>2, <1>3

(* The script ends without success: the reason is there.                   *)
LEMMA EndsHindered ==
  ASSUME SInv, ~Direct, step # "ended",
         NEW s, Ends(s), s # 0, Hindered',
         UNCHANGED <<n, merged, missingmain, kept, image>>
  PROVE  SInv'
<1>1. step' = "ended" /\ status' = s /\ UNCHANGED <<build, ccstatus>>
  BY DEF Ends
<1>2. /\ build \in Builds /\ n \in 1..Len(Sources) + 1 /\ ScriptInv
  BY DEF SInv
<1>3. ~Direct' /\ Sources' = Sources
  BY <1>1 DEF Direct, Sources
<1>4. /\ image.is = "written" => Program(image.lines, Sources)
      /\ kept.is = "written" => Program(kept.lines, Sources)
  BY <1>2 DEF ScriptInv, Written, Old
<1>5. ScriptEnd'
  BY <1>1, <1>3, <1>4 DEF ScriptEnd
<1> QED BY <1>1, <1>2, <1>3, <1>5 DEF SInv

LEMMA EndsWell ==
  ASSUME SInv, TInv, Stop \/ Report
  PROVE  SInv'
<1>1. /\ ~Direct /\ step \in {"stop", "report"} /\ Ends(IF missingmain THEN 1 ELSE 0)
      /\ UNCHANGED <<n, merged, missingmain, kept, image, signalled>>
  BY DEF Stop, Report, Script
<1>2. step' = "ended" /\ status' = (IF missingmain THEN 1 ELSE 0) /\ UNCHANGED <<build, ccstatus>>
  BY <1>1 DEF Ends
<1>3. /\ build \in Builds /\ n \in 1..Len(Sources) + 1 /\ ScriptInv
  BY <1>1 DEF SInv
<1>4. ~Direct' /\ Sources' = Sources
  BY <1>1, <1>2 DEF Direct, Sources
<1>5. signalled = "no"
  BY <1>1 DEF TInv
<1>6. /\ Program(merged, Sources)
      /\ \A m \in 1..Len(Sources) : Compiles(Sources[m])
      /\ missingmain <=> ~HaveMain(Sources, 1..Len(Sources))
      /\ ccstatus = 0 /\ build.compiler # "missing" /\ (build.stop \/ build.assembler # "missing")
      /\ step = "stop" => build.stop
      /\ step = "report" => ~build.stop /\ Links(merged)
      /\ image = (IF step = "report" THEN Written(merged) ELSE Old)
      /\ kept = (IF build.keep \/ build.stop THEN Written(merged) ELSE Old)
  BY <1>1, <1>3 DEF ScriptInv
<1>7. Hindered' <=> missingmain
  BY <1>1, <1>2, <1>4, <1>5, <1>6 DEF Hindered, Aborted, Signal
<1>8. ScriptEnd'
  BY <1>1, <1>2, <1>4, <1>6, <1>7 DEF ScriptEnd, Written, Old
<1> QED BY <1>1, <1>2, <1>3, <1>4, <1>8 DEF SInv

LEMMA NextSInv ==
  ASSUME SInv, TInv, [Next]_vars
  PROVE  SInv'
<1> USE DEF Script, Then, NoCc, NoTemps
<1>0. /\ build \in Builds /\ n \in 1..Len(Sources) + 1
      /\ Len(Sources) \in Nat \ {0} /\ DOMAIN Sources = 1..Len(Sources)
      /\ \A i \in 1..Len(Sources) : SourceOK(Sources[i].text) /\ "m" \o ToString(i) # "bad"
      /\ Direct => Len(Sources) = 1
      /\ build.stop \in BOOLEAN /\ build.keep \in BOOLEAN
  BY BuildIs DEF SInv, Sources, Direct
<1>a. ~Direct /\ step # "ended" => ScriptInv /\ signalled = "no"
  BY DEF SInv, TInv
<1>b. UNCHANGED build => (Direct' <=> Direct) /\ Sources' = Sources
  BY DEF Direct, Sources
<1>1. CASE Check
  <2>1. ~Direct /\ step = "check" /\ UNCHANGED <<n, merged, missingmain, kept, image, signalled, ccstatus, build>>
    BY <1>1 DEF Check, Ends, ccVars
  <2>2. CASE \/ \E i \in DOMAIN Sources : Sources[i].file = "missing"
             \/ ~build.stop /\ build.assembler = "missing"
    <3>1. Ends(1)
      BY <1>1, <2>2 DEF Check
    <3>2. Hindered
      BY <1>0, <2>2 DEF Hindered, Compiles
    <3>3. Hindered'
      BY <1>b, <2>1, <3>2 DEF Hindered, Aborted
    <3> QED BY <2>1, <3>1, <3>3, EndsHindered
  <2>3. CASE ~ \/ \E i \in DOMAIN Sources : Sources[i].file = "missing"
               \/ ~build.stop /\ build.assembler = "missing"
    <3>1. step' = "temp"
      BY <1>1, <2>3 DEF Check
    <3>2. ScriptInv'
      BY <1>a, <1>b, <2>1, <2>3, <3>1 DEF ScriptInv
    <3> QED BY <1>0, <1>b, <2>1, <3>1, <3>2 DEF SInv
  <2> QED BY <2>2, <2>3
<1>2. CASE MakeTemp \/ SetTrap
  <2>1. /\ ~Direct /\ step \in {"temp", "trap"} /\ step' \in {"trap", "compiler"}
        /\ UNCHANGED <<n, merged, missingmain, kept, image, ccstatus, build>>
    BY <1>2 DEF MakeTemp, SetTrap, ccVars
  <2>2. ScriptInv'
    BY <1>a, <1>b, <2>1 DEF ScriptInv
  <2> QED BY <1>0, <1>b, <2>1, <2>2 DEF SInv
<1>3. CASE FindCompiler
  <2>1. ~Direct /\ step = "compiler" /\ UNCHANGED <<n, merged, missingmain, kept, image, signalled, ccstatus, build>>
    BY <1>3 DEF FindCompiler, Ends, ccVars
  <2>2. CASE build.compiler = "missing"
    <3>1. Ends(1) /\ Hindered'
      BY <1>3, <2>1, <2>2 DEF FindCompiler, Hindered
    <3> QED BY <2>1, <3>1, EndsHindered
  <2>3. CASE build.compiler # "missing"
    <3>1. step' = "next"
      BY <1>3, <2>3 DEF FindCompiler
    <3>2. n = 1 /\ merged = <<>> /\ n - 1 = 0
      BY <1>a, <2>1 DEF ScriptInv
    <3>3. ModulesAre(merged, Sources, 1..n - 1) /\ Sorted(merged) /\ \A m \in 1..n - 1 : Compiles(Sources[m])
      BY <3>2, EmptyModules
    <3>4. ScriptInv'
      BY <1>a, <1>b, <2>1, <2>3, <3>1, <3>3 DEF ScriptInv
    <3> QED BY <1>0, <1>b, <2>1, <3>1, <3>4 DEF SInv
  <2> QED BY <2>2, <2>3
<1>4. CASE CompileNext
  <2>1. /\ ~Direct /\ step = "next" /\ step' = "compiling" /\ n <= Len(Sources)
        /\ job' = Job(n) /\ phase' = "options" /\ pos' = <<1, 0>> /\ global' = Nothing /\ tops' = <<>>
        /\ UNCHANGED <<n, merged, missingmain, kept, image, build>>
    BY <1>4 DEF CompileNext, Run
  <2>2. CInv'
    BY <2>1 DEF CInv
  <2>3. ScriptInv'
    BY <1>a, <1>b, <2>1 DEF ScriptInv
  <2>4. Job(n)' = Job(n)
    BY <1>b, <2>1 DEF Job
  <2> QED BY <1>0, <1>b, <2>1, <2>2, <2>3, <2>4 DEF SInv
<1>5. CASE Compiling
  <2>1. /\ step = "compiling" /\ Compile
        /\ UNCHANGED <<n, merged, missingmain, kept, image, signalled, status, step, build>>
    BY <1>5 DEF Compiling, linkVars
  <2>2. n <= Len(Sources) /\ job = Job(n) /\ CInv
    BY <2>1 DEF SInv
  <2>3. SourceOK(job.source) /\ Sources[job.n].text = job.source
    BY <1>0, <2>2 DEF Job
  <2>4. CInv'
    BY <2>1, <2>2, <2>3, CompileCInv
  <2>5. job' = job
    BY <2>1, CompilerTemps
  <2>6. Job(n)' = Job(n)
    BY <1>b, <2>1 DEF Job
  <2>7. ~Direct => ScriptInv'
    BY <1>a, <1>b, <2>1 DEF ScriptInv
  <2> QED BY <1>0, <1>b, <2>1, <2>2, <2>4, <2>5, <2>6, <2>7 DEF SInv
<1>6. CASE Failed
  <2>1. /\ ~Direct /\ step = "compiling" /\ phase = "exit" /\ ccstatus # 0 /\ Ends(ccstatus)
        /\ UNCHANGED <<n, merged, missingmain, kept, image, signalled, ccstatus, build>>
    BY <1>6 DEF Failed, Ends
  <2>2. n \in 1..Len(Sources) /\ job = Job(n) /\ CInv
    BY <1>0, <2>1 DEF SInv
  <2>3. /\ job.id = "m" \o ToString(n) /\ job.opts = {"S"} /\ job.source = Sources[n].text
        /\ job.readable <=> Sources[n].file = "readable"
    BY <2>1, <2>2 DEF Job
  <2>4. job.id # "bad" /\ job.opts # {}
    BY <1>0, <2>2, <2>3
  <2>5. \/ ~job.readable \/ Wrong(job.source) \/ Unwritable(job.source)
        \/ ccstatus = Signal + 6
    BY <2>1, <2>2, <2>4 DEF CInv
  <2>6. Hindered
    BY <2>2, <2>3, <2>5 DEF Hindered, Compiles, Aborted
  <2>7. Hindered'
    BY <1>b, <2>1, <2>6 DEF Hindered, Aborted
  <2> QED BY <2>1, <2>7, EndsHindered
<1>7. CASE Merge
  <2>1. /\ ~Direct /\ step = "compiling" /\ phase = "exit" /\ ccstatus = 0
        /\ merged' = merged \o asm /\ n' = n + 1 /\ step' = "next"
        /\ UNCHANGED <<missingmain, kept, image, ccstatus, build>>
    BY <1>7 DEF Merge, ccVars
  <2>2. n \in 1..Len(Sources) /\ n \in Nat \ {0} /\ job = Job(n) /\ CInv
    BY <1>0, <2>1 DEF SInv
  <2>3. /\ job.n = n /\ job.opts = {"S"} /\ job.source = Sources[n].text
        /\ job.readable <=> Sources[n].file = "readable"
    BY <2>1, <2>2 DEF Job
  <2>4. job.readable /\ ~Wrong(job.source) /\ Emitted
    BY <2>1, <2>2, <2>3 DEF CInv, Signal
  <2>5. Compiles(Sources[n]) /\ ModulesAre(asm, Sources, {n})
    BY <2>3, <2>4 DEF Compiles, Emitted
  <2>6. ModulesAre(merged \o asm, Sources, 1..n) /\ Sorted(merged \o asm)
    <3>1. ModulesAre(merged, Sources, 1..n - 1) /\ Sorted(merged)
      BY <1>a, <2>1 DEF ScriptInv
    <3> QED BY <2>2, <2>5, <3>1, MergeModules
  <2>7. (n + 1) - 1 = n /\ n + 1 \in 1..Len(Sources) + 1
    BY <1>0, <2>2
  <2>8. \A m \in 1..n : Compiles(Sources[m])
    <3>1. \A m \in 1..n : m \in 1..n - 1 \/ m = n
      BY <2>2
    <3> QED BY <1>a, <2>1, <2>5, <3>1 DEF ScriptInv
  <2>9. ScriptInv'
    BY <1>a, <1>b, <2>1, <2>6, <2>7, <2>8 DEF ScriptInv
  <2> QED BY <1>0, <1>b, <2>1, <2>7, <2>9 DEF SInv
<1>8. CASE AddStartup
  <2> DEFINE have == HaveMain(Sources, 1..Len(Sources))
  <2>1. /\ ~Direct /\ step = "next" /\ n > Len(Sources) /\ step' = "copy"
        /\ missingmain' = ~DefinesMain(merged) /\ merged' = Startup(DefinesMain(merged)) \o merged
        /\ UNCHANGED <<n, kept, image, ccstatus, build>>
    BY <1>8 DEF AddStartup, ccVars
  <2>2. n - 1 = Len(Sources)
    BY <1>0, <2>1
  <2>3. /\ ModulesAre(merged, Sources, 1..Len(Sources)) /\ Sorted(merged)
        /\ \A m \in 1..Len(Sources) : Compiles(Sources[m])
    BY <1>a, <2>1, <2>2 DEF ScriptInv
  <2>4. DefinesMain(merged) <=> have
    BY <2>3, DefinesMainIs DEF ModulesAre
  <2>5. Startup(DefinesMain(merged)) = Startup(have)
    BY <2>4 DEF Startup
  <2>6. Program(merged', Sources)
    BY <2>1, <2>3, <2>5 DEF Program
  <2>7. missingmain' <=> ~have
    BY <2>1, <2>4
  <2>8. ScriptInv'
    BY <1>a, <1>b, <2>1, <2>3, <2>6, <2>7 DEF ScriptInv
  <2> QED BY <1>0, <1>b, <2>1, <2>8 DEF SInv
<1>9. CASE Copy
  <2>1. /\ ~Direct /\ step = "copy" /\ step' = (IF build.stop THEN "stop" ELSE "assemble")
        /\ kept' = (IF build.keep \/ build.stop THEN Written(merged) ELSE kept)
        /\ UNCHANGED <<n, merged, missingmain, image, ccstatus, build>>
    BY <1>9 DEF Copy, ccVars
  <2>2. ScriptInv'
    BY <1>0, <1>a, <1>b, <2>1 DEF ScriptInv
  <2> QED BY <1>0, <1>b, <2>1, <2>2 DEF SInv
<1>10. CASE Assemble
  <2>1. /\ ~Direct /\ step = "assemble"
        /\ UNCHANGED <<n, merged, missingmain, kept, ccstatus, build, signalled>>
    BY <1>10 DEF Assemble, Ends, ccVars
  <2>2. CASE Links(merged)
    <3>1. image' = Written(merged) /\ step' = "report"
      BY <1>10, <2>2 DEF Assemble
    <3>2. ScriptInv'
      BY <1>a, <1>b, <2>1, <2>2, <3>1 DEF ScriptInv
    <3> QED BY <1>0, <1>b, <2>1, <3>1, <3>2 DEF SInv
  <2>3. CASE ~Links(merged)
    <3>1. Ends(1) /\ UNCHANGED image
      BY <1>10, <2>3 DEF Assemble
    <3>2. ~build.stop
      BY <1>a, <2>1 DEF ScriptInv
    <3>3. Hindered'
      BY <2>1, <2>3, <3>2 DEF Hindered
    <3> QED BY <2>1, <3>1, <3>3, EndsHindered
  <2> QED BY <2>2, <2>3
<1>11. CASE Interrupt
  <2>1. /\ ~Direct /\ step # "ended" /\ Ends(Signal + 2) /\ signalled' = step
        /\ UNCHANGED <<n, merged, missingmain, kept, image>>
    BY <1>11 DEF Interrupt
  <2>2. signalled' # "no"
    BY <2>1 DEF TInv, Steps
  <2>3. Hindered' /\ Signal + 2 # 0
    BY <2>2 DEF Hindered, Signal
  <2> QED BY <2>1, <2>3, EndsHindered
<1>12. CASE DirectEnds
  <2>1. /\ Direct /\ step = "compiling" /\ phase = "exit" /\ step' = "ended" /\ status' = ccstatus
        /\ UNCHANGED <<n, ccstatus, build, asm>>
    BY <1>12 DEF DirectEnds, Ends
  <2>2. n = 1 /\ job = Job(1) /\ CInv
    BY <2>1 DEF SInv
  <2>3. /\ job.n = 1 /\ job.id = build.id /\ job.opts = build.opts /\ job.source = Sources[1].text
        /\ job.readable <=> Sources[1].file = "readable"
    BY <2>1, <2>2 DEF Job
  <2>4. ccstatus = 0 <=> ~HinderedDirect
    BY <2>1, <2>2, <2>3 DEF CInv, HinderedDirect, Aborted, Signal, Emitted
  <2>5. ccstatus = 0 /\ build.opts \in {{"S"}, {"S", "c"}} => ModulesAre(asm, Sources, {1})
    <3>1. HAVE ccstatus = 0 /\ build.opts \in {{"S"}, {"S", "c"}}
    <3>2. "E" \notin job.opts /\ "ast" \notin job.opts
      BY <2>3, <3>1
    <3>3. Emitted
      BY <2>1, <2>2, <3>1, <3>2 DEF CInv, Signal
    <3> QED BY <2>3, <3>3 DEF Emitted
  <2>6. HinderedDirect' <=> HinderedDirect
    BY <1>b, <2>1 DEF HinderedDirect, Aborted
  <2>7. DirectEnd'
    BY <1>b, <2>1, <2>4, <2>5, <2>6 DEF DirectEnd
  <2> QED BY <1>0, <1>b, <2>1, <2>2, <2>7 DEF SInv
<1>13. CASE Stopped \/ UNCHANGED vars
  <2>1. UNCHANGED <<build, step, n, merged, missingmain, kept, image, signalled, status,
                    phase, job, pos, global, local, counts, code, tops, asm, temps, ccstatus>>
    BY <1>13 DEF Stopped, vars, ccVars, linkVars, parsing
  <2>2. CInv => CInv'
    BY <2>1 DEF CInv, ParseInv, EmitInv, Emitted, Sources
  <2>3. Job(n)' = Job(n)
    BY <1>b, <2>1 DEF Job
  <2>4. ScriptInv => ScriptInv'
    BY <1>b, <2>1 DEF ScriptInv
  <2>5. ScriptEnd => ScriptEnd'
    BY <1>b, <2>1 DEF ScriptEnd, Hindered, Aborted
  <2>6. DirectEnd => DirectEnd'
    BY <1>b, <2>1 DEF DirectEnd, HinderedDirect, Aborted
  <2> QED BY <1>0, <1>b, <2>1, <2>2, <2>3, <2>4, <2>5, <2>6 DEF SInv
<1> QED BY <1>1, <1>2, <1>3, <1>4, <1>5, <1>6, <1>7, <1>8, <1>9, <1>10, <1>11, <1>12, <1>13,
           EndsWell DEF Next

(* The exit status tells the truth, for every build: of any sources, with  *)
(* whatever is missing, unreadable, refused or interrupted.  It is zero    *)
(* just if nothing went wrong, then what was asked for is there, and what  *)
(* the assembler got and what is kept is the program as a whole.           *)
THEOREM StatusIsTrue == Spec => []StatusTrue
<1> QED BY InitTInv, NextTInv, InitSInv, NextSInv, SInvStatus, PTL DEF Spec
------------------------------------------------------------------------------
(* Labels of jumps and strings: what has one, where it is defined once.    *)

Labels(x) == x.op \in {"def", "bss"}
Numbered(x) == x.label.kind = "L"

Labelled(lines) ==
  /\ IsSeq(lines)
  /\ \A k \in 1..Len(lines) : lines[k].op = "use" /\ Numbered(lines[k]) =>
       \E d \in 1..Len(lines) : Labels(lines[d]) /\ lines[d].label = lines[k].label /\ lines[d].at = lines[k].at
  /\ \A j, k \in 1..Len(lines) :
       Labels(lines[j]) /\ Labels(lines[k]) /\ Numbered(lines[j]) /\ lines[j].label = lines[k].label => j = k

(* Numbered by this run of the compiler, so far up to c.                   *)
OfModule(q, id) == \A k \in 1..Len(q) : Numbered(q[k]) => q[k].label.id = id
Below(q, c) == \A k \in 1..Len(q) : Numbered(q[k]) => q[k].label.n \in Nat /\ q[k].label.n < c

(* Two sequences have none of these labels in common.                      *)
Apart(q, r) == \A j \in 1..Len(q), k \in 1..Len(r) : Numbered(q[j]) => q[j].label # r[k].label

(* The elements of a body: only statements that jump have one yet.         *)
BodyLabelled(q, id, c) ==
  /\ IsSeq(q) /\ OfModule(q, id) /\ Below(q, c)
  /\ \A k \in 1..Len(q) : Numbered(q[k]) => q[k].op = "loop"
  /\ \A j, k \in 1..Len(q) : Numbered(q[j]) /\ q[j].label = q[k].label => j = k

TopsLabelled(q, id, c) ==
  /\ IsSeq(q)
  /\ \A t \in 1..Len(q) : ~Numbered(q[t]) /\ BodyLabelled(q[t].code, id, c)
  /\ \A s, t \in 1..Len(q) : s # t => Apart(q[s].code, q[t].code)

Unnumbered(env) == \A x \in DOMAIN env : ~Numbered(env[x])

(* What the back end at <<i, k>> has not come to.                          *)
Pending(lines, q, i, k) ==
  \A t \in 1..Len(q) : \A e \in 1..Len(q[t].code) :
    (t > i \/ (t = i /\ e >= k)) /\ Numbered(q[t].code[e]) =>
      \A l \in 1..Len(lines) : lines[l].label # q[t].code[e].label

(* What holds of these labels while the compiler runs.                     *)
ParseLabels ==
  /\ Unnumbered(global) /\ Unnumbered(local)
  /\ BodyLabelled(code, job.id, counts.label)
  /\ TopsLabelled(tops, job.id, counts.label)
  /\ \A t \in 1..Len(tops) : Apart(tops[t].code, code)
  /\ asm = <<>>

EmitLabels ==
  /\ TopsLabelled(tops, job.id, counts.label)
  /\ Below(asm, counts.label)
  /\ Pending(asm, tops, pos[1], pos[2])

LInv ==
  /\ counts \in [label : Nat, static : Nat]
  /\ Labelled(asm) /\ OfModule(asm, job.id)
  /\ phase \in {"idle", "options", "source", "open", "preprocess"} =>
       global = Nothing /\ local = Nothing /\ code = <<>> /\ tops = <<>> /\ asm = <<>>
  /\ phase = "parse" => ParseLabels
  /\ phase = "emit" => EmitLabels

(* What has been merged has labels of the modules merged.                  *)
MergedLabels ==
  /\ Labelled(merged)
  /\ step \in {"check", "temp", "trap", "compiler", "next", "compiling"} =>
       \A k \in 1..Len(merged) : Numbered(merged[k]) =>
         \E m \in 1..n - 1 : merged[k].label.id = "m" \o ToString(m)

(* Line by line, c is a and then b.                                        *)
Follows(c, a, b) ==
  /\ IsSeq(c) /\ Len(a) \in Nat /\ Len(b) \in Nat
  /\ \A k \in 1..Len(a) : k \in 1..Len(c) /\ c[k] = a[k]
  /\ \A k \in 1..Len(b) : Len(a) + k \in 1..Len(c) /\ c[Len(a) + k] = b[k]
  /\ \A l \in 1..Len(c) : \/ l \in 1..Len(a) /\ c[l] = a[l]
                          \/ \E k \in 1..Len(b) : l = Len(a) + k /\ c[l] = b[k]

LEMMA ConcatFollows ==
  ASSUME NEW a, IsSeq(a), NEW b, IsSeq(b)
  PROVE  Follows(a \o b, a, b)
<1> DEFINE c == a \o b
<1>1. /\ IsSeq(c) /\ Len(c) = Len(a) + Len(b) /\ Len(a) \in Nat /\ Len(b) \in Nat
      /\ \A k \in 1..Len(a) : c[k] = a[k]
      /\ \A k \in 1..Len(b) : c[Len(a) + k] = b[k]
  BY ConcatTo DEF IsSeq
<1> HIDE DEF c
<1>2. \A k \in 1..Len(a) : k \in 1..Len(c)
  BY <1>1
<1>3. \A k \in 1..Len(b) : Len(a) + k \in 1..Len(c)
  BY <1>1
<1>4. ASSUME NEW l \in 1..Len(c)
      PROVE  l \in 1..Len(a) \/ \E k \in 1..Len(b) : l = Len(a) + k
  <2>1. CASE l > Len(a)
    <3>1. l - Len(a) \in 1..Len(b) /\ l = Len(a) + (l - Len(a))
      BY <1>1, <2>1
    <3> QED BY <3>1
  <2> QED BY <1>1, <2>1
<1>5. \A l \in 1..Len(c) :
        \/ l \in 1..Len(a) /\ c[l] = a[l]
        \/ \E k \in 1..Len(b) : l = Len(a) + k /\ c[l] = b[k]
  BY <1>1, <1>4
<1>6. Follows(c, a, b)
  BY <1>1, <1>2, <1>3, <1>5 DEF Follows
<1> QED BY <1>6 DEF c

LEMMA LabelledConcat ==
  ASSUME NEW a, Labelled(a), NEW b, Labelled(b), Apart(a, b)
  PROVE  Labelled(a \o b)
<1>0. PICK c : c = a \o b
  OBVIOUS
<1>1. Follows(c, a, b)
  BY <1>0, ConcatFollows DEF Labelled
<1>2. ASSUME NEW l \in 1..Len(c), c[l].op = "use", Numbered(c[l])
      PROVE  \E d \in 1..Len(c) : Labels(c[d]) /\ c[d].label = c[l].label /\ c[d].at = c[l].at
  <2>1. CASE l \in 1..Len(a) /\ c[l] = a[l]
    <3>1. PICK d \in 1..Len(a) : Labels(a[d]) /\ a[d].label = a[l].label /\ a[d].at = a[l].at
      BY <1>2, <2>1 DEF Labelled
    <3> QED BY <1>1, <2>1, <3>1 DEF Follows
  <2>2. CASE \E k \in 1..Len(b) : l = Len(a) + k /\ c[l] = b[k]
    <3>1. PICK k \in 1..Len(b) : c[l] = b[k]
      BY <2>2
    <3>2. PICK d \in 1..Len(b) : Labels(b[d]) /\ b[d].label = b[k].label /\ b[d].at = b[k].at
      BY <1>2, <3>1 DEF Labelled
    <3>3. Len(a) + d \in 1..Len(c) /\ c[Len(a) + d] = b[d]
      BY <1>1 DEF Follows
    <3> QED BY <3>1, <3>2, <3>3
  <2> QED BY <1>1, <2>1, <2>2 DEF Follows
<1>3. ASSUME NEW j \in 1..Len(c), NEW l \in 1..Len(c),
             Labels(c[j]), Labels(c[l]), Numbered(c[j]), c[j].label = c[l].label
      PROVE  j = l
  <2>1. Numbered(c[l])
    BY <1>3 DEF Numbered
  <2>2. \A x \in 1..Len(a), y \in 1..Len(b) : Numbered(a[x]) => a[x].label # b[y].label
    BY DEF Apart
  <2>3. CASE j \in 1..Len(a) /\ c[j] = a[j] /\ l \in 1..Len(a) /\ c[l] = a[l]
    BY <1>3, <2>3 DEF Labelled
  <2>4. CASE j \in 1..Len(a) /\ c[j] = a[j] /\ \E k \in 1..Len(b) : l = Len(a) + k /\ c[l] = b[k]
    BY <1>3, <2>2, <2>4
  <2>5. CASE l \in 1..Len(a) /\ c[l] = a[l] /\ \E k \in 1..Len(b) : j = Len(a) + k /\ c[j] = b[k]
    BY <1>3, <2>1, <2>2, <2>5
  <2>6. CASE (\E k \in 1..Len(b) : j = Len(a) + k /\ c[j] = b[k])
             /\ (\E k \in 1..Len(b) : l = Len(a) + k /\ c[l] = b[k])
    <3>1. PICK x \in 1..Len(b) : j = Len(a) + x /\ c[j] = b[x]
      BY <2>6
    <3>2. PICK y \in 1..Len(b) : l = Len(a) + y /\ c[l] = b[y]
      BY <2>6
    <3>3. x = y
      BY <1>3, <3>1, <3>2 DEF Labelled
    <3> QED BY <3>1, <3>2, <3>3
  <2> QED BY <1>1, <2>3, <2>4, <2>5, <2>6 DEF Follows
<1>4. Labelled(c)
  <2>1. \A l \in 1..Len(c) : c[l].op = "use" /\ Numbered(c[l]) =>
          \E d \in 1..Len(c) : Labels(c[d]) /\ c[d].label = c[l].label /\ c[d].at = c[l].at
    BY <1>2
  <2>2. \A j, l \in 1..Len(c) :
          Labels(c[j]) /\ Labels(c[l]) /\ Numbered(c[j]) /\ c[j].label = c[l].label => j = l
    BY <1>3
  <2> QED BY <1>1, <2>1, <2>2 DEF Follows, Labelled
<1> QED BY <1>0, <1>4

LEMMA NumbersConcat ==
  ASSUME NEW a, IsSeq(a), NEW b, IsSeq(b), NEW id, NEW c
  PROVE  /\ OfModule(a, id) /\ OfModule(b, id) => OfModule(a \o b, id)
         /\ Below(a, c) /\ Below(b, c) => Below(a \o b, c)
         /\ \A r : Apart(r, a) /\ Apart(r, b) => Apart(r, a \o b)
<1>0. PICK s : s = a \o b
  OBVIOUS
<1>1. Follows(s, a, b)
  BY <1>0, ConcatFollows
<1>2. \A l \in 1..Len(s) : (\E k \in 1..Len(a) : s[l] = a[k]) \/ (\E k \in 1..Len(b) : s[l] = b[k])
  BY <1>1 DEF Follows
<1>3. ASSUME NEW l \in 1..Len(s), Numbered(s[l])
      PROVE  /\ OfModule(a, id) /\ OfModule(b, id) => s[l].label.id = id
             /\ Below(a, c) /\ Below(b, c) => s[l].label.n \in Nat /\ s[l].label.n < c
  BY <1>2, <1>3 DEF OfModule, Below
<1>5. OfModule(a, id) /\ OfModule(b, id) => OfModule(s, id)
  <2> SUFFICES ASSUME OfModule(a, id), OfModule(b, id) PROVE OfModule(s, id)
    OBVIOUS
  <2> QED BY <1>3 DEF OfModule
<1>6. Below(a, c) /\ Below(b, c) => Below(s, c)
  <2> SUFFICES ASSUME Below(a, c), Below(b, c) PROVE Below(s, c)
    OBVIOUS
  <2> QED BY <1>3 DEF Below
<1>4. ASSUME NEW r, Apart(r, a), Apart(r, b) PROVE Apart(r, s)
  <2>1. ASSUME NEW j \in 1..Len(r), NEW l \in 1..Len(s), Numbered(r[j]) PROVE r[j].label # s[l].label
    <3>1. \A k \in 1..Len(a) : r[j].label # a[k].label
      BY <1>4, <2>1 DEF Apart
    <3>2. \A k \in 1..Len(b) : r[j].label # b[k].label
      BY <1>4, <2>1 DEF Apart
    <3> QED BY <1>2, <3>1, <3>2
  <2> QED BY <2>1 DEF Apart
<1> QED BY <1>0, <1>4, <1>5, <1>6

LEMMA PendingConcat ==
  ASSUME NEW a, IsSeq(a), NEW b, IsSeq(b), NEW q, NEW i, NEW k, Pending(a, q, i, k), Pending(b, q, i, k)
  PROVE  Pending(a \o b, q, i, k)
<1>0. PICK s : s = a \o b
  OBVIOUS
<1>1. Follows(s, a, b)
  BY <1>0, ConcatFollows
<1>2. ASSUME NEW t \in 1..Len(q), NEW e \in 1..Len(q[t].code),
             t > i \/ (t = i /\ e >= k), Numbered(q[t].code[e]), NEW l \in 1..Len(s)
      PROVE  s[l].label # q[t].code[e].label
  <2>1. \A x \in 1..Len(a) : a[x].label # q[t].code[e].label
    BY <1>2 DEF Pending
  <2>2. \A x \in 1..Len(b) : b[x].label # q[t].code[e].label
    BY <1>2 DEF Pending
  <2>3. (\E x \in 1..Len(a) : s[l] = a[x]) \/ (\E x \in 1..Len(b) : s[l] = b[x])
    BY <1>1, <1>2 DEF Follows
  <2> QED BY ONLY <2>1, <2>2, <2>3
<1>3. Pending(s, q, i, k)
  BY <1>2 DEF Pending
<1> QED BY <1>0, <1>3

LEMMA BelowMore ==
  ASSUME NEW q, NEW id, NEW c \in Nat, NEW d \in Nat, c <= d
  PROVE  /\ Below(q, c) => Below(q, d)
         /\ BodyLabelled(q, id, c) => BodyLabelled(q, id, d)
         /\ TopsLabelled(q, id, c) => TopsLabelled(q, id, d)
<1>1. \A r : Below(r, c) => Below(r, d)
  BY DEF Below
<1>2. \A r : BodyLabelled(r, id, c) => BodyLabelled(r, id, d)
  BY <1>1 DEF BodyLabelled
<1> QED BY <1>1, <1>2 DEF TopsLabelled

(* One more element, or one more toplevel.                                 *)
LEMMA BodyAppend ==
  ASSUME NEW q, NEW id, NEW c \in Nat, BodyLabelled(q, id, c), NEW e, NEW d \in Nat, c <= d,
         Numbered(e) => e.op = "loop" /\ e.label.id = id /\ e.label.n = c /\ c < d
  PROVE  /\ BodyLabelled(Append(q, e), id, d)
         /\ \A r : BodyLabelled(r, id, c) /\ Apart(r, q) => Apart(r, Append(q, e))
<1> DEFINE s == Append(q, e)
<1>1. /\ IsSeq(q) /\ Len(q) \in Nat /\ IsSeq(s) /\ Len(s) = Len(q) + 1
      /\ \A k \in 1..Len(q) : s[k] = q[k]
      /\ s[Len(q) + 1] = e
  BY AppendTo DEF BodyLabelled, IsSeq
<1> HIDE DEF s
<1>2. \A k \in 1..Len(s) : (k \in 1..Len(q) /\ s[k] = q[k]) \/ (k = Len(q) + 1 /\ s[k] = e)
  BY <1>1
<1>3. \A r, k : BodyLabelled(r, id, c) /\ k \in 1..Len(r) /\ Numbered(r[k]) =>
                  r[k].label.n \in Nat /\ r[k].label.n < c
  BY DEF BodyLabelled, Below
<1>4. ASSUME NEW r, BodyLabelled(r, id, c), NEW k \in 1..Len(r), Numbered(r[k]) PROVE r[k].label # e.label
  <2>1. r[k].label.n \in Nat /\ r[k].label.n < c
    BY <1>3, <1>4
  <2>2. CASE Numbered(e)
    BY <2>1, <2>2
  <2>3. CASE ~Numbered(e)
    BY <1>4, <2>3 DEF Numbered
  <2> QED BY <2>2, <2>3
<1>5. OfModule(s, id)
  BY <1>2 DEF BodyLabelled, OfModule
<1>6. Below(s, d)
  <2>1. \A k \in 1..Len(q) : Numbered(q[k]) => q[k].label.n \in Nat /\ q[k].label.n < d
    BY <1>3
  <2> QED BY <1>2, <2>1 DEF Below
<1>7. \A k \in 1..Len(s) : Numbered(s[k]) => s[k].op = "loop"
  BY <1>2 DEF BodyLabelled
<1>8. ASSUME NEW j \in 1..Len(s), NEW k \in 1..Len(s), Numbered(s[j]), s[j].label = s[k].label
      PROVE  j = k
  <2>1. Numbered(s[k])
    BY <1>8 DEF Numbered
  <2>2. CASE j \in 1..Len(q) /\ s[j] = q[j] /\ k \in 1..Len(q) /\ s[k] = q[k]
    BY <1>8, <2>2 DEF BodyLabelled
  <2>3. CASE j \in 1..Len(q) /\ s[j] = q[j] /\ k = Len(q) + 1 /\ s[k] = e
    BY <1>4, <1>8, <2>3
  <2>4. CASE j = Len(q) + 1 /\ s[j] = e /\ k \in 1..Len(q) /\ s[k] = q[k]
    BY <1>4, <1>8, <2>1, <2>4
  <2>5. CASE j = Len(q) + 1 /\ k = Len(q) + 1
    BY <2>5
  <2> QED BY <1>2, <2>2, <2>3, <2>4, <2>5
<1>9. BodyLabelled(s, id, d)
  BY <1>1, <1>5, <1>6, <1>7, <1>8 DEF BodyLabelled
<1>10. ASSUME NEW r, BodyLabelled(r, id, c), Apart(r, q) PROVE Apart(r, s)
  BY <1>2, <1>4, <1>10 DEF Apart
<1> QED BY <1>9, <1>10 DEF s

LEMMA TopsAppend ==
  ASSUME NEW q, NEW id, NEW c, TopsLabelled(q, id, c), NEW t, ~Numbered(t), BodyLabelled(t.code, id, c),
         \A s \in 1..Len(q) : Apart(q[s].code, t.code)
  PROVE  /\ TopsLabelled(Append(q, t), id, c)
         /\ \A body : (\A s \in 1..Len(q) : Apart(q[s].code, body)) /\ Apart(t.code, body) =>
              \A s \in 1..Len(Append(q, t)) : Apart(Append(q, t)[s].code, body)
<1> DEFINE p == Append(q, t)
<1>1. /\ IsSeq(q) /\ Len(q) \in Nat /\ IsSeq(p) /\ Len(p) = Len(q) + 1
      /\ \A k \in 1..Len(q) : p[k] = q[k]
      /\ p[Len(q) + 1] = t
  BY AppendTo DEF TopsLabelled, IsSeq
<1> HIDE DEF p
<1>2. \A k \in 1..Len(p) : (k \in 1..Len(q) /\ p[k] = q[k]) \/ (k = Len(q) + 1 /\ p[k] = t)
  BY <1>1
<1>3. \A k \in 1..Len(p) : ~Numbered(p[k]) /\ BodyLabelled(p[k].code, id, c)
  BY <1>2 DEF TopsLabelled
<1>4. \A a, b : Apart(a, b) => Apart(b, a)
  BY DEF Apart, Numbered
<1>5. ASSUME NEW s \in 1..Len(p), NEW u \in 1..Len(p), s # u PROVE Apart(p[s].code, p[u].code)
  BY <1>2, <1>4, <1>5 DEF TopsLabelled
<1>6. TopsLabelled(p, id, c)
  BY <1>1, <1>3, <1>5 DEF TopsLabelled
<1>7. ASSUME NEW body, \A s \in 1..Len(q) : Apart(q[s].code, body), Apart(t.code, body)
      PROVE  \A s \in 1..Len(p) : Apart(p[s].code, body)
  BY <1>2, <1>7
<1> QED BY <1>6, <1>7 DEF p

(* Lines that can be added at <<i, k>>, with numbers below d.              *)
Fits(r, lines, id, d, q, i, k) ==
  Labelled(r) /\ Apart(lines, r) /\ OfModule(r, id) /\ Below(r, d) /\ Pending(r, q, i, k)

LEMMA LineFits ==
  ASSUME NEW op, NEW label, label.kind # "L", NEW at
  PROVE  \A r, lines, id, d, q, i, k :
           r = <<Line(op, label, at)>> => Fits(r, lines, id, d, q, i, k) /\ \A s : Apart(r, s)
<1> SUFFICES ASSUME NEW r, r = <<Line(op, label, at)>>,
                    NEW lines, NEW id, NEW d, NEW q, NEW i, NEW k
             PROVE  Fits(r, lines, id, d, q, i, k) /\ \A s : Apart(r, s)
  OBVIOUS
<1>1. Line(op, label, at).label = label
  BY DEF Line
<1>2. IsSeq(r) /\ Len(r) = 1 /\ r[1].label = label
  BY <1>1, ShortSeqs
<1>3. \A l \in 1..Len(r) : l = 1 /\ r[l].label = label /\ ~Numbered(r[l])
  BY <1>2 DEF Numbered
<1>4. Labelled(r)
  BY <1>2, <1>3 DEF Labelled
<1>5. Apart(lines, r)
  <2>1. ASSUME NEW j \in 1..Len(lines), NEW l \in 1..Len(r), Numbered(lines[j])
        PROVE  lines[j].label # r[l].label
    BY <1>3, <2>1 DEF Numbered
  <2> QED BY <2>1 DEF Apart
<1>6. OfModule(r, id) /\ Below(r, d) /\ \A s : Apart(r, s)
  BY <1>3 DEF OfModule, Below, Apart
<1>7. Pending(r, q, i, k)
  <2>1. ASSUME NEW x, Numbered(x), NEW l \in 1..Len(r) PROVE r[l].label # x.label
    BY <1>3, <2>1 DEF Numbered
  <2> QED BY <2>1 DEF Pending
<1> QED BY <1>4, <1>5, <1>6, <1>7 DEF Fits

LEMMA OwnFits ==
  ASSUME NEW label, NEW at, NEW lines, NEW id, NEW d, NEW q, NEW i, NEW k,
         label.kind = "L" =>
           /\ label.id = id /\ label.n \in Nat /\ label.n < d
           /\ \A j \in 1..Len(lines) : lines[j].label # label
           /\ \A t \in 1..Len(q) : \A e \in 1..Len(q[t].code) :
                t > i \/ (t = i /\ e >= k) => q[t].code[e].label # label
  PROVE  Fits(Own(label, at), lines, id, d, q, i, k)
<1>1. PICK r : r = Own(label, at)
  OBVIOUS
<1>2. PICK x, y : x = Line("use", label, at) /\ y = Line("def", label, at)
  OBVIOUS
<1>3. x.op = "use" /\ y.op = "def" /\ x.at = at /\ y.at = at /\ x.label = label /\ y.label = label
  BY <1>2 DEF Line
<1>4. r = <<x, y>>
  BY <1>1, <1>2 DEF Own
<1>5. IsSeq(r) /\ Len(r) = 2 /\ r[1] = x /\ r[2] = y
  BY <1>4, ShortSeqs
<1>6. \A l \in 1..Len(r) : /\ r[l].label = label /\ r[l].at = at
                           /\ l = 1 \/ l = 2
                           /\ Numbered(r[l]) <=> label.kind = "L"
  BY <1>3, <1>5 DEF Numbered
<1>7. Labelled(r)
  <2>1. 2 \in 1..Len(r) /\ Labels(r[2]) /\ ~Labels(r[1])
    BY <1>3, <1>5 DEF Labels
  <2>2. \A l \in 1..Len(r) : \E e \in 1..Len(r) : Labels(r[e]) /\ r[e].label = r[l].label /\ r[e].at = r[l].at
    BY <1>6, <2>1
  <2>3. \A j, l \in 1..Len(r) : Labels(r[j]) /\ Labels(r[l]) => j = l
    BY <1>6, <2>1
  <2> QED BY <1>5, <2>2, <2>3 DEF Labelled
<1>8. Apart(lines, r)
  <2>1. ASSUME NEW j \in 1..Len(lines), NEW l \in 1..Len(r), Numbered(lines[j])
        PROVE  lines[j].label # r[l].label
    BY <1>6, <2>1 DEF Numbered
  <2> QED BY <2>1 DEF Apart
<1>9. OfModule(r, id) /\ Below(r, d)
  BY <1>6 DEF OfModule, Below
<1>10. Pending(r, q, i, k)
  <2>1. ASSUME NEW t \in 1..Len(q), NEW e \in 1..Len(q[t].code),
               t > i \/ (t = i /\ e >= k), Numbered(q[t].code[e]), NEW l \in 1..Len(r)
        PROVE  r[l].label # q[t].code[e].label
    <3>1. CASE label.kind = "L"
      BY <1>6, <2>1, <3>1
    <3>2. CASE label.kind # "L"
      BY <1>6, <2>1, <3>2 DEF Numbered
    <3> QED BY <3>1, <3>2
  <2> QED BY <2>1 DEF Pending
<1>11. Fits(r, lines, id, d, q, i, k)
  BY <1>7, <1>8, <1>9, <1>10 DEF Fits
<1> QED BY <1>1, <1>11

LEMMA FitsAdded ==
  ASSUME NEW a, NEW r, NEW lines, NEW id, NEW d, NEW q, NEW i, NEW k, Fits(r, lines, id, d, q, i, k)
  PROVE  /\ Labelled(lines) /\ OfModule(lines, id) /\ Below(lines, d) /\ Pending(lines, q, i, k) =>
              /\ Labelled(lines \o r) /\ OfModule(lines \o r, id)
              /\ Below(lines \o r, d) /\ Pending(lines \o r, q, i, k)
         /\ Fits(a, lines, id, d, q, i, k) /\ Apart(a, r) => Fits(a \o r, lines, id, d, q, i, k)
<1>1. Labelled(r) /\ IsSeq(r) /\ Apart(lines, r) /\ OfModule(r, id) /\ Below(r, d) /\ Pending(r, q, i, k)
  BY DEF Fits, Labelled
<1>2. ASSUME Labelled(lines), OfModule(lines, id), Below(lines, d), Pending(lines, q, i, k)
      PROVE  /\ Labelled(lines \o r) /\ OfModule(lines \o r, id)
             /\ Below(lines \o r, d) /\ Pending(lines \o r, q, i, k)
  <2>1. IsSeq(lines)
    BY <1>2 DEF Labelled
  <2> QED BY <1>1, <1>2, <2>1, LabelledConcat, NumbersConcat, PendingConcat
<1>3. ASSUME Fits(a, lines, id, d, q, i, k), Apart(a, r) PROVE Fits(a \o r, lines, id, d, q, i, k)
  <2>1. Labelled(a) /\ IsSeq(a) /\ Apart(lines, a) /\ OfModule(a, id) /\ Below(a, d) /\ Pending(a, q, i, k)
    BY <1>3 DEF Fits, Labelled
  <2>2. Labelled(a \o r)
    BY <1>1, <1>3, <2>1, LabelledConcat
  <2>3. Apart(lines, a \o r) /\ OfModule(a \o r, id) /\ Below(a \o r, d)
    BY <1>1, <2>1, NumbersConcat
  <2>4. Pending(a \o r, q, i, k)
    BY <1>1, <2>1, PendingConcat
  <2> QED BY <2>2, <2>3, <2>4 DEF Fits
<1> QED BY <1>2, <1>3

LEMMA PendingNext ==
  ASSUME NEW lines, NEW q, NEW i \in Int, NEW k \in Nat, Pending(lines, q, i, k)
  PROVE  Pending(lines, q, i, k + 1) /\ Pending(lines, q, i + 1, 0)
<1>1. ASSUME NEW t \in 1..Len(q), NEW e \in 1..Len(q[t].code), Numbered(q[t].code[e]),
             (t > i \/ (t = i /\ e >= k + 1)) \/ (t > i + 1 \/ (t = i + 1 /\ e >= 0)),
             NEW l \in 1..Len(lines)
      PROVE  lines[l].label # q[t].code[e].label
  <2>1. t > i \/ (t = i /\ e >= k)
    BY <1>1
  <2> QED BY <1>1, <2>1 DEF Pending
<1>2. Pending(lines, q, i, k + 1)
  BY <1>1 DEF Pending
<1>3. Pending(lines, q, i + 1, 0)
  BY <1>1 DEF Pending
<1> QED BY <1>2, <1>3

------------------------------------------------------------------------------
(* These labels, a step of the compiler at a time.                         *)

LEMMA NoneLabelled ==
  /\ Unnumbered(Nothing)
  /\ Labelled(<<>>)
  /\ \A id, c, q, i, k :
       /\ OfModule(<<>>, id) /\ Below(<<>>, c) /\ BodyLabelled(<<>>, id, c) /\ TopsLabelled(<<>>, id, c)
       /\ Apart(q, <<>>) /\ Apart(<<>>, q) /\ Pending(<<>>, q, i, k)
<1>1. PICK e : e = <<>>
  OBVIOUS
<1>2. IsSeq(e) /\ Len(e) = 0
  BY <1>1, ShortSeqs
<1>3. \A k : k \notin 1..Len(e)
  BY <1>2
<1>4. Labelled(e)
  BY <1>2, <1>3 DEF Labelled
<1>5. \A id, c, q, i, k : /\ OfModule(e, id) /\ Below(e, c) /\ Apart(q, e) /\ Apart(e, q)
                          /\ Pending(e, q, i, k)
  BY <1>3 DEF OfModule, Below, Apart, Pending
<1>6. \A id, c : BodyLabelled(e, id, c)
  BY <1>2, <1>3, <1>5 DEF BodyLabelled
<1>7. \A id, c : TopsLabelled(e, id, c)
  BY <1>2, <1>3 DEF TopsLabelled
<1>8. Unnumbered(Nothing)
  BY DEF Unnumbered, Nothing
<1> QED BY <1>1, <1>4, <1>5, <1>6, <1>7, <1>8

LEMMA WithUnnumbered ==
  ASSUME NEW env, Unnumbered(env), NEW name, NEW scope, NEW label, label.kind # "L", NEW func
  PROVE  Unnumbered(With(env, name, Entry(scope, label, func)))
<1>1. PICK e : e = Entry(scope, label, func)
  OBVIOUS
<1>2. ~Numbered(e)
  BY <1>1 DEF Entry, Numbered
<1>3. Unnumbered(With(env, name, e))
  BY <1>2 DEF Unnumbered, With
<1> QED BY <1>1, <1>3

LEMMA ObjectLabels ==
  ASSUME NEW init, NEW env, Unnumbered(env), ~Undefined(init, env), NEW label, label.kind # "L"
  PROVE  LET t == Object(init, env, label)
         IN  /\ ~Numbered(t)
             /\ \A id, c : BodyLabelled(t.code, id, c)
             /\ \A q : Apart(q, t.code) /\ Apart(t.code, q)
<1> DEFINE t == Object(init, env, label)
<1>1. t.label = label /\ t.code = InitCode(init, env)
  BY DEF Object, Top
<1>2. PICK b : b = InitCode(init, env)
  OBVIOUS
<1> HIDE DEF t
<1>3. CASE b = <<>>
  BY <1>1, <1>2, <1>3, NoneLabelled DEF Numbered, t
<1>4. CASE b # <<>>
  <2>1. init \in DOMAIN env /\ b = <<Use(env[init].label)>>
    BY <1>2, <1>4 DEF InitCode, Undefined
  <2>2. PICK u : u = Use(env[init].label)
    OBVIOUS
  <2>3. ~Numbered(u)
    BY <2>1, <2>2 DEF Unnumbered, Numbered, Use
  <2>4. IsSeq(b) /\ Len(b) = 1 /\ b[1] = u
    BY <2>1, <2>2, ShortSeqs
  <2>5. \A k \in 1..Len(b) : ~Numbered(b[k])
    BY <2>3, <2>4
  <2>6. \A id, c : BodyLabelled(b, id, c)
    BY <2>4, <2>5 DEF BodyLabelled, OfModule, Below
  <2>7. ASSUME NEW q PROVE Apart(q, b) /\ Apart(b, q)
    BY <2>5 DEF Apart, Numbered
  <2> QED BY <1>1, <1>2, <2>6, <2>7 DEF Numbered, t
<1> QED BY <1>3, <1>4

(* A body gets one more element.                                           *)
LEMMA BodyGrows ==
  ASSUME ParseLabels, counts \in [label : Nat, static : Nat], NEW e,
         counts' \in [label : Nat, static : Nat], counts.label <= counts'.label,
         code' = Append(code, e), UNCHANGED <<job, global, local, tops, asm>>,
         Numbered(e) => /\ e.op = "loop" /\ e.label.id = job.id /\ e.label.n = counts.label
                        /\ counts.label < counts'.label
  PROVE  ParseLabels'
<1>1. PICK id, c, d : id = job.id /\ c = counts.label /\ d = counts'.label
  OBVIOUS
<1>2. c \in Nat /\ d \in Nat /\ c <= d
  BY <1>1
<1>3. BodyLabelled(code, id, c) /\ TopsLabelled(tops, id, c) /\ \A t \in 1..Len(tops) : Apart(tops[t].code, code)
  BY <1>1 DEF ParseLabels
<1>4. Numbered(e) => e.op = "loop" /\ e.label.id = id /\ e.label.n = c /\ c < d
  BY <1>1
<1>5. /\ BodyLabelled(Append(code, e), id, d)
      /\ \A r : BodyLabelled(r, id, c) /\ Apart(r, code) => Apart(r, Append(code, e))
  BY <1>2, <1>3, <1>4, BodyAppend
<1>6. TopsLabelled(tops, id, d)
  BY <1>2, <1>3, BelowMore
<1>7. \A t \in 1..Len(tops) : Apart(tops[t].code, Append(code, e))
  BY <1>3, <1>5 DEF TopsLabelled
<1> QED BY <1>1, <1>5, <1>6, <1>7 DEF ParseLabels

(* The program gets one more toplevel, with a label of another kind.       *)
LEMMA TopsGrow ==
  ASSUME ParseLabels, NEW t, ~Numbered(t), BodyLabelled(t.code, job.id, counts.label),
         \A s \in 1..Len(tops) : Apart(tops[s].code, t.code),
         NEW body, \A s \in 1..Len(tops) : Apart(tops[s].code, body), Apart(t.code, body)
  PROVE  /\ TopsLabelled(Append(tops, t), job.id, counts.label)
         /\ \A s \in 1..Len(Append(tops, t)) : Apart(Append(tops, t)[s].code, body)
<1>1. TopsLabelled(tops, job.id, counts.label)
  BY DEF ParseLabels
<1> QED BY <1>1, TopsAppend

LEMMA CountIs ==
  ASSUME counts \in [label : Nat, static : Nat], NEW class, Count(class)
  PROVE  counts' \in [label : Nat, static : Nat] /\ counts'.label = counts.label
BY DEF Count

LEMMA DeclLabels ==
  ASSUME ParseLabels, counts \in [label : Nat, static : Nat], ReadDecl
  PROVE  ParseLabels' /\ counts' \in [label : Nat, static : Nat]
<1> DEFINE d == Item
           label == GlobalLabel(d.name, d.class)
           env == With(global, d.name, Entry("global", label, d.func))
           t == Object(d.init, env, label)
<1>1. /\ ~Undefined(d.init, env) /\ global' = env /\ Count(d.class)
      /\ tops' = Append(tops, t) \/ tops' = tops
      /\ UNCHANGED <<job, local, code, asm>>
  BY DEF ReadDecl, Reading, Goto
<1>2. counts' \in [label : Nat, static : Nat] /\ counts'.label = counts.label
  BY <1>1, CountIs
<1>3. label.kind # "L"
  BY LabelIs
<1>4. Unnumbered(env)
  BY <1>3, WithUnnumbered DEF ParseLabels
<1>5. ~Numbered(t) /\ BodyLabelled(t.code, job.id, counts.label) /\ \A q : Apart(q, t.code) /\ Apart(t.code, q)
  BY <1>1, <1>3, <1>4, ObjectLabels
<1> HIDE DEF d, label, env, t
<1>6. /\ TopsLabelled(Append(tops, t), job.id, counts.label)
      /\ \A s \in 1..Len(Append(tops, t)) : Apart(Append(tops, t)[s].code, code)
  BY <1>5, TopsGrow DEF ParseLabels
<1> QED BY <1>1, <1>2, <1>4, <1>6 DEF ParseLabels

LEMMA StaticLabels ==
  ASSUME ParseLabels, counts \in [label : Nat, static : Nat], ReadStatic
  PROVE  ParseLabels' /\ counts' \in [label : Nat, static : Nat]
<1> DEFINE label == Static(counts.static, Part.name)
           env == With(local, Part.name, Entry("static", label, FALSE))
           t == Object(Part.init, global, label)
<1>1. /\ ~Undefined(Part.init, global) /\ local' = env /\ Count("static")
      /\ tops' = Append(tops, t)
      /\ UNCHANGED <<job, global, code, asm>>
  BY DEF ReadStatic, Reading, Goto
<1>2. counts' \in [label : Nat, static : Nat] /\ counts'.label = counts.label
  BY <1>1, CountIs
<1>3. label.kind # "L"
  BY LabelIs
<1>4. Unnumbered(env)
  BY <1>3, WithUnnumbered DEF ParseLabels
<1>5. ~Numbered(t) /\ BodyLabelled(t.code, job.id, counts.label) /\ \A q : Apart(q, t.code) /\ Apart(t.code, q)
  BY <1>1, <1>3, ObjectLabels DEF ParseLabels
<1> HIDE DEF label, env, t
<1>6. /\ TopsLabelled(Append(tops, t), job.id, counts.label)
      /\ \A s \in 1..Len(Append(tops, t)) : Apart(Append(tops, t)[s].code, code)
  BY <1>5, TopsGrow DEF ParseLabels
<1> QED BY <1>1, <1>2, <1>4, <1>6 DEF ParseLabels

LEMMA FuncBeginLabels ==
  ASSUME ParseLabels, counts \in [label : Nat, static : Nat], FuncBegins
  PROVE  ParseLabels' /\ counts' \in [label : Nat, static : Nat]
<1>1. /\ global' = With(global, Item.name, Entry("global", GlobalLabel(Item.name, Item.class), TRUE))
      /\ Count(Item.class) /\ local' = Nothing /\ code' = <<>> /\ UNCHANGED <<job, tops, asm>>
  BY DEF FuncBegins, Reading, Goto
<1>2. counts' \in [label : Nat, static : Nat] /\ counts'.label = counts.label
  BY <1>1, CountIs
<1>3. Unnumbered(global')
  BY <1>1, LabelIs, WithUnnumbered DEF ParseLabels
<1> QED BY <1>1, <1>2, <1>3, NoneLabelled DEF ParseLabels

LEMMA FuncEndLabels ==
  ASSUME ParseLabels, counts \in [label : Nat, static : Nat], FuncEnds, ParseInv, SourceOK(job.source)
  PROVE  ParseLabels' /\ counts' \in [label : Nat, static : Nat]
<1>1. PICK t : t = [def |-> "code", label |-> global[Item.name].label, code |-> code, at |-> <<job.n, pos[1], 0>>]
  OBVIOUS
<1>2. /\ pos[2] > 0
      /\ tops' = Append(tops, [Top("code", global[Item.name].label, code) EXCEPT !.at[3] = 0])
      /\ local' = Nothing /\ code' = <<>> /\ UNCHANGED <<job, asm, global, counts>>
  BY DEF FuncEnds, NextItem, Reading, Goto
<1>3. tops' = Append(tops, t)
  <2>1. PICK e : e = [Top("code", global[Item.name].label, code) EXCEPT !.at[3] = 0]
    OBVIOUS
  <2>2. tops' = Append(tops, e)
    BY ONLY <1>2, <2>1, Zenon
  <2>3. e = [def |-> "code", label |-> global[Item.name].label, code |-> code, at |-> <<job.n, pos[1], 0>>]
    BY ONLY <2>1, EmptyPart, Zenon
  <2> QED BY <1>1, <2>2, <2>3
<1>4. global[Item.name].label.kind # "L"
  <2>1. ParseAt(job.source, job.n, pos[1], pos[2], global, local, tops, code)
    BY DEF ParseInv
  <2>2. FunctionAt(job.source, job.n, pos[1], pos[2], global, local, code)
    BY <1>2, <2>1 DEF ParseAt
  <2> QED BY <2>2 DEF FunctionAt, Item
<1>5. t.code = code /\ ~Numbered(t)
  BY <1>1, <1>4 DEF Numbered
<1>6. /\ BodyLabelled(t.code, job.id, counts.label)
      /\ \A s \in 1..Len(tops) : Apart(tops[s].code, t.code)
  BY <1>5 DEF ParseLabels
<1>7. Apart(t.code, <<>>) /\ \A s \in 1..Len(tops) : Apart(tops[s].code, <<>>)
  BY NoneLabelled
<1>8. /\ TopsLabelled(Append(tops, t), job.id, counts.label)
      /\ \A s \in 1..Len(Append(tops, t)) : Apart(Append(tops, t)[s].code, <<>>)
  BY <1>5, <1>6, <1>7, TopsGrow
<1> QED BY <1>2, <1>3, <1>8, NoneLabelled DEF ParseLabels

LEMMA PartLabels ==
  ASSUME ParseLabels, counts \in [label : Nat, static : Nat],
         ReadName \/ ReadCall \/ ReadLocal \/ ReadLoop \/ ReadOther
  PROVE  ParseLabels' /\ counts' \in [label : Nat, static : Nat]
<1>1. ASSUME NEW x, Known(x) PROVE Meaning(x).label.kind # "L"
  BY <1>1 DEF Known, Meaning, ParseLabels, Unnumbered, Numbered
<1>2. ASSUME NEW e, ~Numbered(e), code' = Append(code, e), UNCHANGED <<job, global, local, counts, tops, asm>>
      PROVE  ParseLabels' /\ counts' \in [label : Nat, static : Nat]
  <2>1. counts.label \in Nat /\ counts' \in [label : Nat, static : Nat] /\ counts.label <= counts'.label
    BY <1>2
  <2> QED BY <1>2, <2>1, BodyGrows
<1>3. CASE ReadName
  <2>1. PICK e : e = Use(Meaning(Part.name).label)
    OBVIOUS
  <2>2. Known(Part.name) /\ (code' = code \/ code' = Append(code, e))
        /\ UNCHANGED <<job, global, local, counts, tops, asm>>
    BY <1>3, <2>1 DEF ReadName, Reading, Goto
  <2>3. ~Numbered(e)
    BY <1>1, <2>1, <2>2 DEF Use, Numbered
  <2>4. CASE code' = code
    BY <2>2, <2>4 DEF ParseLabels
  <2> QED BY <1>2, <2>2, <2>3, <2>4
<1>4. CASE ReadCall
  <2>1. PICK e : e = [Use(Callee(Part.name)) EXCEPT !.op = "call"]
    OBVIOUS
  <2>2. code' = Append(code, e) /\ UNCHANGED <<job, global, local, counts, tops, asm>>
    BY <1>4, <2>1 DEF ReadCall, Reading, Goto
  <2>3. Callee(Part.name).kind # "L"
    BY <1>1 DEF Callee, Public, Label
  <2>4. ~Numbered(e)
    BY <2>1, <2>3 DEF Use, Numbered
  <2> QED BY <1>2, <2>2, <2>4
<1>5. CASE ReadLocal
  <2>1. /\ local' = With(local, Part.name, Entry("local", Null, Part.op = "proto"))
        /\ UNCHANGED <<job, global, counts, code, tops, asm>>
    BY <1>5 DEF ReadLocal, Reading, Goto
  <2>2. Null.kind # "L"
    BY DEF Null, Label
  <2>3. Unnumbered(local')
    BY <2>1, <2>2, WithUnnumbered DEF ParseLabels
  <2> QED BY <2>1, <2>3 DEF ParseLabels
<1>6. CASE ReadLoop
  <2>1. PICK e : e = [op |-> "loop", label |-> Private(counts.label), at |-> Here]
    OBVIOUS
  <2>2. /\ code' = Append(code, e) /\ counts' = [counts EXCEPT !.label = @ + 1]
        /\ UNCHANGED <<job, global, local, tops, asm>>
    BY <1>6, <2>1 DEF ReadLoop, Reading, Goto
  <2>3. e.op = "loop" /\ e.label.id = job.id /\ e.label.n = counts.label
    BY <2>1 DEF Private, Label
  <2>4. /\ counts' \in [label : Nat, static : Nat]
        /\ counts.label <= counts'.label /\ counts.label < counts'.label
    BY <2>2
  <2> QED BY <2>2, <2>3, <2>4, BodyGrows
<1>7. CASE ReadOther
  <2>1. PICK e : e = [op |-> Part.op, label |-> Null, at |-> Here]
    OBVIOUS
  <2>2. code' = Append(code, e) /\ UNCHANGED <<job, global, local, counts, tops, asm>>
    BY <1>7, <2>1 DEF ReadOther, Reading, Goto
  <2>3. Null.kind # "L"
    BY DEF Null, Label
  <2>4. ~Numbered(e)
    BY <2>1, <2>3 DEF Numbered
  <2> QED BY <1>2, <2>2, <2>4
<1> QED BY <1>3, <1>4, <1>5, <1>6, <1>7

LEMMA ElementLabels ==
  ASSUME EmitLabels, counts \in [label : Nat, static : Nat], Labelled(asm), OfModule(asm, job.id),
         EmitElement, EmitInv
  PROVE  EmitLabels' /\ counts' \in [label : Nat, static : Nat] /\ Labelled(asm') /\ OfModule(asm', job.id)
<1>1. PICK q, i, k, id, c, d, at, x :
        /\ q = tops /\ i = pos[1] /\ k = pos[2] /\ id = job.id /\ c = counts.label /\ d = counts'.label
        /\ at = Element.at /\ x = Element
  OBVIOUS
<1>2. /\ i <= Len(q) /\ k \in 1..Len(Toplevel.code) /\ x.op # "unsupported"
      /\ pos' = <<i, k + 1>> /\ UNCHANGED <<tops, job>>
      /\ counts' = IF x.op \in {"string", "call"} THEN [counts EXCEPT !.label = @ + 1] ELSE counts
  BY <1>1 DEF EmitElement, Emitting, Emit, NextPart, Goto
<1>3. /\ counts' \in [label : Nat, static : Nat] /\ c \in Nat /\ d \in Nat /\ c <= d
      /\ x.op \in {"string", "call"} => c < d
  BY <1>1, <1>2
<1>4. i \in 1..Len(q) /\ i \in Int /\ k \in Nat /\ k \in 1..Len(q[i].code) /\ x = q[i].code[k]
      /\ x.op \in {"use", "call", "loop", "string"}
  <2>1. /\ pos[1] \in 1..Len(tops) /\ Len(tops) \in Nat /\ pos[2] \in Nat /\ Toplevel = tops[pos[1]]
        /\ \A e \in 1..Len(Toplevel.code) : IsElement(Toplevel.code[e], job.n)
    BY <1>1, <1>2, ToplevelAt
  <2>2. PICK body : body = Toplevel.code
    OBVIOUS
  <2>3. x = body[k] /\ k \in 1..Len(body)
    BY <1>1, <1>2, <2>2 DEF Element
  <2>4. IsElement(x, job.n)
    BY <2>1, <2>2, <2>3
  <2>5. x.op \in {"use", "call", "loop", "string"}
    BY <1>2, <2>4 DEF IsElement
  <2>6. q[i].code = body /\ i \in 1..Len(q) /\ i \in Int /\ k \in Nat
    BY <1>1, <2>1, <2>2
  <2> QED BY <2>3, <2>5, <2>6
<1>5. TopsLabelled(q, id, c) /\ Below(asm, c) /\ Pending(asm, q, i, k) /\ OfModule(asm, id)
  BY <1>1 DEF EmitLabels
<1>6. BodyLabelled(q[i].code, id, c)
  BY <1>4, <1>5 DEF TopsLabelled
<1>7. TopsLabelled(q, id, d) /\ Below(asm, d) /\ Pending(asm, q, i, k + 1)
  BY <1>3, <1>4, <1>5, BelowMore, PendingNext
<1>8. x.op # "loop" => x.label.kind # "L"
  BY <1>4, <1>6 DEF BodyLabelled, Numbered
<1>9. PICK r : asm' = asm \o r /\ Fits(r, asm, id, d, q, i, k + 1)
  <2> DEFINE use == <<Line("use", x.label, at)>>
             own == Own(Private(counts.label), at)
             loop == Own(x.label, at)
  <2>1. asm' = asm \o (CASE x.op = "use"    -> use
                         [] x.op = "loop"   -> loop
                         [] x.op = "string" -> own
                         [] x.op = "call"   -> use \o own)
    BY <1>1 DEF EmitElement, Emit
  <2>2. x.op # "loop" => Fits(use, asm, id, d, q, i, k + 1) /\ Apart(use, own)
    BY <1>8, LineFits
  <2>3. x.op = "loop" => Fits(loop, asm, id, d, q, i, k + 1)
    <3>1. ASSUME x.label.kind = "L"
          PROVE  /\ x.label.id = id /\ x.label.n \in Nat /\ x.label.n < d
                 /\ \A j \in 1..Len(asm) : asm[j].label # x.label
                 /\ \A t \in 1..Len(q) : \A e \in 1..Len(q[t].code) :
                      t > i \/ (t = i /\ e >= k + 1) => q[t].code[e].label # x.label
      <4>1. Numbered(q[i].code[k])
        BY <1>4, <3>1 DEF Numbered
      <4>2. x.label.id = id /\ x.label.n \in Nat /\ x.label.n < d
        <5>1. PICK body : body = q[i].code
          OBVIOUS
        <5>2. OfModule(body, id) /\ Below(body, c) /\ k \in 1..Len(body) /\ Numbered(body[k])
          BY <1>4, <1>6, <4>1, <5>1 DEF BodyLabelled
        <5>3. body[k].label.id = id /\ body[k].label.n \in Nat /\ body[k].label.n < c
          BY <5>2 DEF OfModule, Below
        <5>4. x = body[k]
          BY <1>4, <5>1
        <5> QED BY <1>3, <5>3, <5>4
      <4>3. \A j \in 1..Len(asm) : asm[j].label # x.label
        BY <1>4, <1>5, <4>1 DEF Pending
      <4>4. ASSUME NEW t \in 1..Len(q), NEW e \in 1..Len(q[t].code), t > i \/ (t = i /\ e >= k + 1)
            PROVE  q[t].code[e].label # x.label
        <5>1. CASE t > i
          <6>1. Apart(q[i].code, q[t].code)
            BY <1>4, <1>5, <5>1 DEF TopsLabelled
          <6> QED BY <1>4, <4>1, <6>1 DEF Apart
        <5>2. CASE t = i /\ e >= k + 1
          <6>1. e # k /\ e \in 1..Len(q[i].code)
            BY <1>4, <5>2
          <6> QED BY <1>4, <1>6, <4>1, <5>2, <6>1 DEF BodyLabelled
        <5> QED BY <4>4, <5>1, <5>2
      <4> QED BY <4>2, <4>3, <4>4
    <3> QED BY <3>1, OwnFits
  <2>4. x.op \in {"string", "call"} => Fits(own, asm, id, d, q, i, k + 1)
    <3>1. HAVE x.op \in {"string", "call"}
    <3>2. PICK label : label = Private(counts.label)
      OBVIOUS
    <3>3. label.id = id /\ label.n = c /\ label.n \in Nat /\ label.n < d
      BY <1>1, <1>3, <3>1, <3>2 DEF Private, Label
    <3>4. \A j \in 1..Len(asm) : label.kind = "L" => asm[j].label # label
      BY <1>5, <3>3 DEF Below, Numbered
    <3>5. ASSUME NEW t \in 1..Len(q), NEW e \in 1..Len(q[t].code), label.kind = "L"
          PROVE  q[t].code[e].label # label
      <4>1. Below(q[t].code, c)
        BY <1>5 DEF TopsLabelled, BodyLabelled
      <4> QED BY <1>3, <3>3, <3>5, <4>1 DEF Below, Numbered
    <3>6. Fits(Own(label, at), asm, id, d, q, i, k + 1)
      BY <3>3, <3>4, <3>5, OwnFits
    <3> QED BY <3>2, <3>6
  <2> HIDE DEF use, own, loop
  <2>5. x.op = "call" => Fits(use \o own, asm, id, d, q, i, k + 1)
    BY <2>2, <2>4, FitsAdded
  <2>6. CASE x.op = "use"
    BY <2>1, <2>2, <2>6
  <2>7. CASE x.op = "loop"
    BY <2>1, <2>3, <2>7
  <2>8. CASE x.op = "string"
    BY <2>1, <2>4, <2>8
  <2>9. CASE x.op = "call"
    BY <2>1, <2>5, <2>9
  <2> QED BY <1>4, <2>6, <2>7, <2>8, <2>9
<1>10. /\ Labelled(asm \o r) /\ OfModule(asm \o r, id)
       /\ Below(asm \o r, d) /\ Pending(asm \o r, q, i, k + 1)
  BY <1>5, <1>7, <1>9, FitsAdded
<1>11. pos'[1] = i /\ pos'[2] = k + 1 /\ tops' = q /\ job'.id = id /\ counts'.label = d /\ asm' = asm \o r
  BY <1>1, <1>2, <1>9
<1> QED BY <1>1, <1>3, <1>7, <1>10, <1>11 DEF EmitLabels

LEMMA HeadLabels ==
  ASSUME EmitLabels, Labelled(asm), OfModule(asm, job.id), EmitHead, EmitInv
  PROVE  EmitLabels' /\ Labelled(asm') /\ OfModule(asm', job.id) /\ UNCHANGED counts
<1>1. PICK q, i, k, id, c, op, r :
        /\ q = tops /\ i = pos[1] /\ k = pos[2] /\ id = job.id /\ c = counts.label
        /\ op = (IF Toplevel.def = "bss" THEN "bss" ELSE "def")
        /\ r = <<Line(op, Toplevel.label, Toplevel.at)>>
  OBVIOUS
<1>2. asm' = asm \o r /\ pos' = <<i, k + 1>> /\ UNCHANGED <<tops, job, counts>> /\ pos[1] <= Len(tops)
  BY <1>1 DEF EmitHead, Emitting, Emit, NextPart, Goto
<1>3. i \in 1..Len(q) /\ i \in Int /\ k \in Nat /\ Toplevel = q[i]
  BY <1>1, <1>2, ToplevelAt
<1>4. TopsLabelled(q, id, c) /\ Below(asm, c) /\ Pending(asm, q, i, k) /\ OfModule(asm, id)
  BY <1>1 DEF EmitLabels
<1>5. Toplevel.label.kind # "L"
  BY <1>3, <1>4 DEF TopsLabelled, Numbered
<1>6. Fits(r, asm, id, c, q, i, k + 1)
  BY <1>1, <1>5, LineFits
<1>7. Pending(asm, q, i, k + 1)
  BY <1>3, <1>4, PendingNext
<1>8. /\ Labelled(asm \o r) /\ OfModule(asm \o r, id)
      /\ Below(asm \o r, c) /\ Pending(asm \o r, q, i, k + 1)
  BY <1>4, <1>6, <1>7, FitsAdded
<1>9. pos'[1] = i /\ pos'[2] = k + 1 /\ tops' = q /\ job'.id = id /\ counts'.label = c /\ asm' = asm \o r
  BY <1>1, <1>2
<1> QED BY <1>1, <1>2, <1>4, <1>8, <1>9 DEF EmitLabels

LEMMA NextLabels ==
  ASSUME EmitLabels, Labelled(asm), EmitNext, EmitInv
  PROVE  EmitLabels' /\ UNCHANGED <<asm, job, counts>>
<1>1. pos' = <<pos[1] + 1, 0>> /\ asm' = asm \o <<>> /\ UNCHANGED <<tops, job, counts>> /\ pos[1] <= Len(tops)
  BY DEF EmitNext, Emitting, NextItem, Emit, Goto
<1>2. asm' = asm
  <2>1. asm \in Seq({asm[l] : l \in 1..Len(asm)})
    BY SeqOfItself DEF Labelled
  <2> QED BY <1>1, <2>1, ConcatEmptySeq
<1>3. pos[1] \in Int /\ pos[2] \in Nat
  BY <1>1, ToplevelAt
<1>4. Pending(asm, tops, pos[1] + 1, 0)
  BY <1>3, PendingNext DEF EmitLabels
<1>5. pos'[1] = pos[1] + 1 /\ pos'[2] = 0
  BY <1>1
<1> QED BY <1>1, <1>2, <1>4, <1>5 DEF EmitLabels

(* A step of the compiler, whoever runs it.                                *)
LEMMA CompileLInv ==
  ASSUME LInv, CInv, SourceOK(job.source), Compile
  PROVE  LInv'
<1> USE DEF At, Goto, Exit
<1>1. counts \in [label : Nat, static : Nat] /\ Labelled(asm) /\ OfModule(asm, job.id)
  BY DEF LInv
<1>2. CASE ParseOpt \/ LexInit \/ Preprocess
  <2>1. /\ phase' \in {"source", "open", "exit"} /\ phase \in {"options", "source", "preprocess"}
        /\ UNCHANGED <<job, pos, global, local, counts, code, tops, asm>>
    BY <1>2 DEF ParseOpt, LexInit, Preprocess, parsing
  <2> QED BY <1>1, <2>1 DEF LInv
<1>3. CASE OpenAsm
  <2>1. /\ phase' \in {"preprocess", "parse"} /\ phase = "open" /\ asm' = <<>>
        /\ UNCHANGED <<job, pos, global, local, counts, code, tops>>
    BY <1>3 DEF OpenAsm, parsing
  <2>2. global = Nothing /\ local = Nothing /\ code = <<>> /\ tops = <<>>
    BY <2>1 DEF LInv
  <2>3. ParseLabels'
    <3>1. \A t \in 1..Len(tops') : Apart(tops'[t].code, code')
      BY <2>1, <2>2, NoneLabelled
    <3> QED BY <2>1, <2>2, <3>1, NoneLabelled DEF ParseLabels
  <2> QED BY <1>1, <2>1, <2>2, <2>3, NoneLabelled DEF LInv
<1>4. CASE \/ ReadDecl \/ FuncBegins \/ FuncEnds
           \/ ReadName \/ ReadCall \/ ReadLocal \/ ReadStatic \/ ReadLoop \/ ReadOther
  <2>1. phase = "parse" /\ phase' = "parse" /\ UNCHANGED <<job, asm>>
    BY <1>4 DEF ReadDecl, FuncBegins, FuncEnds, ReadName, ReadCall, ReadLocal, ReadStatic, ReadLoop,
         ReadOther, AtHead, AtPart, Reading
  <2>2. ParseLabels /\ ParseInv
    BY <2>1 DEF LInv, CInv
  <2>3. ParseLabels' /\ counts' \in [label : Nat, static : Nat]
    BY <1>1, <1>4, <2>2, DeclLabels, StaticLabels, FuncBeginLabels, FuncEndLabels, PartLabels
  <2> QED BY <1>1, <2>1, <2>3 DEF LInv
<1>5. CASE ReadDeclUndefined \/ SyntaxError \/ ReadNameUndefined \/ ReadCallNoFunction \/ ReadStaticUndefined
  <2>1. phase' = "exit" /\ UNCHANGED <<job, pos, global, local, counts, code, tops, asm>>
    BY <1>5 DEF ReadDeclUndefined, SyntaxError, ReadNameUndefined, ReadCallNoFunction,
         ReadStaticUndefined, ParseError, parsing
  <2> QED BY <1>1, <2>1 DEF LInv
<1>6. CASE ParseEnds
  <2>1. /\ phase = "parse" /\ phase' \in {"emit", "close"} /\ pos' = <<1, 0>>
        /\ UNCHANGED <<job, counts, tops, asm>>
    BY <1>6 DEF ParseEnds
  <2>2. TopsLabelled(tops, job.id, counts.label) /\ asm = <<>>
    BY <2>1 DEF LInv, ParseLabels
  <2>3. EmitLabels'
    BY <2>1, <2>2, NoneLabelled DEF EmitLabels
  <2> QED BY <1>1, <2>1, <2>3 DEF LInv
<1>7. CASE EmitHead \/ EmitElement \/ EmitNext
  <2>1. phase = "emit" /\ phase' = "emit" /\ UNCHANGED job
    BY <1>7 DEF EmitHead, EmitElement, EmitNext, Emitting, Emit
  <2>2. EmitLabels /\ EmitInv
    BY <2>1 DEF LInv, CInv
  <2>3. EmitLabels' /\ counts' \in [label : Nat, static : Nat] /\ Labelled(asm') /\ OfModule(asm', job.id)
    BY <1>1, <1>7, <2>2, HeadLabels, ElementLabels, NextLabels
  <2> QED BY <2>1, <2>3 DEF LInv
<1>8. CASE EmitUnsupported \/ EmitEnds \/ CloseOutput \/ CloseAgain
  <2>1. phase' \in {"close", "closeagain", "exit"} /\ UNCHANGED <<job, pos, global, local, counts, code, tops, asm>>
    BY <1>8 DEF EmitUnsupported, EmitEnds, CloseOutput, CloseAgain, parsing
  <2> QED BY <1>1, <2>1 DEF LInv
<1> QED BY <1>2, <1>3, <1>4, <1>5, <1>6, <1>7, <1>8 DEF Compile, Parse

(* What has been merged has labels of the modules merged.                  *)
LEMMA InitLabels == Init => LInv /\ MergedLabels
<1> SUFFICES ASSUME Init PROVE LInv /\ MergedLabels
  OBVIOUS
<1>1. /\ counts = [label |-> 0, static |-> 0] /\ asm = <<>> /\ merged = <<>>
      /\ global = Nothing /\ local = Nothing /\ code = <<>> /\ tops = <<>>
      /\ phase \in {"options", "idle"}
  BY DEF Init, CcInit
<1>2. counts \in [label : Nat, static : Nat]
  BY <1>1
<1>3. LInv
  BY <1>1, <1>2, NoneLabelled DEF LInv
<1>4. Len(merged) = 0
  BY <1>1, ShortSeqs
<1> QED BY <1>1, <1>3, <1>4, NoneLabelled DEF MergedLabels

LEMMA NextLInv ==
  ASSUME LInv, SInv, [Next]_vars
  PROVE  LInv'
<1> USE DEF Script, Then, NoCc, NoTemps
<1>1. CASE CompileNext
  <2>1. /\ counts' = [label |-> 0, static |-> 0] /\ asm' = <<>> /\ phase' = "options"
        /\ global' = Nothing /\ local' = Nothing /\ code' = <<>> /\ tops' = <<>>
    BY <1>1 DEF CompileNext, Run
  <2>2. counts' \in [label : Nat, static : Nat]
    BY <2>1
  <2> QED BY <2>1, <2>2, NoneLabelled DEF LInv
<1>2. CASE Compiling
  <2>1. step = "compiling" /\ Compile
    BY <1>2 DEF Compiling
  <2>2. /\ n \in 1..Len(Sources) /\ job = Job(n) /\ CInv
        /\ \A i \in 1..Len(Sources) : SourceOK(Sources[i].text)
    <3>1. build \in Builds /\ n \in 1..Len(Sources) + 1 /\ n <= Len(Sources) /\ job = Job(n) /\ CInv
      BY <2>1 DEF SInv
    <3>2. Len(Sources) \in Nat /\ \A i \in 1..Len(Sources) : SourceOK(Sources[i].text)
      BY <3>1, BuildIs DEF Sources
    <3> QED BY <3>1, <3>2
  <2>3. SourceOK(job.source)
    BY <2>2 DEF Job
  <2> QED BY <2>1, <2>2, <2>3, CompileLInv
<1>3. CASE \/ Check \/ MakeTemp \/ SetTrap \/ FindCompiler \/ Failed \/ Merge \/ AddStartup \/ Copy
           \/ Stop \/ Assemble \/ Report \/ Interrupt \/ DirectEnds \/ Stopped \/ UNCHANGED vars
  <2>1. UNCHANGED <<phase, job, pos, global, local, counts, code, tops, asm>>
    BY <1>3 DEF Check, MakeTemp, SetTrap, FindCompiler, Failed, Merge, AddStartup, Copy, Stop,
         Assemble, Report, Interrupt, DirectEnds, Ends, Stopped, vars, ccVars, parsing
  <2> QED BY <2>1 DEF LInv, ParseLabels, EmitLabels
<1> QED BY <1>1, <1>2, <1>3 DEF Next

LEMMA NextMerged ==
  ASSUME MergedLabels, LInv, SInv, TInv, [Next]_vars
  PROVE  MergedLabels'
<1> USE DEF Script, Then, NoCc, NoTemps
<1>1. /\ n \in Nat \ {0} /\ n - 1 \in Nat
      /\ \A i, j \in 1..Len(Sources) : i # j => "m" \o ToString(i) # "m" \o ToString(j)
  <2>1. build \in Builds /\ n \in 1..Len(Sources) + 1
    BY DEF SInv
  <2>2. Len(Sources) \in Nat
    BY <2>1, BuildIs DEF Sources
  <2>3. \A i, j \in 1..Len(Sources) : i # j => "m" \o ToString(i) # "m" \o ToString(j)
    BY <2>1, BuildIs DEF Sources
  <2>4. n \in Nat \ {0} /\ n - 1 \in Nat
    BY <2>1, <2>2
  <2> QED BY <2>3, <2>4
<1>2. CASE Merge
  <2>1. ~Direct /\ step = "compiling" /\ merged' = merged \o asm /\ n' = n + 1 /\ step' = "next"
    BY <1>2 DEF Merge
  <2>2. n \in 1..Len(Sources) /\ job.id = "m" \o ToString(n)
    BY <1>1, <2>1 DEF SInv, Job
  <2>3. Labelled(merged) /\ Labelled(asm) /\ IsSeq(merged) /\ IsSeq(asm) /\ OfModule(asm, "m" \o ToString(n))
    BY <2>2 DEF MergedLabels, LInv, Labelled
  <2>4. ASSUME NEW j \in 1..Len(merged), Numbered(merged[j])
        PROVE  \E m \in 1..n - 1 : merged[j].label.id = "m" \o ToString(m)
    BY <2>1, <2>4 DEF MergedLabels
  <2>5. ASSUME NEW j \in 1..Len(merged), NEW k \in 1..Len(asm), Numbered(merged[j]),
               merged[j].label = asm[k].label
        PROVE  FALSE
    <3>1. PICK m \in 1..n - 1 : merged[j].label.id = "m" \o ToString(m)
      BY <2>4, <2>5
    <3>2. asm[k].label.id = "m" \o ToString(n)
      BY <2>3, <2>5 DEF OfModule, Numbered
    <3>3. m \in 1..Len(Sources) /\ m # n
      BY <1>1, <2>2, <3>1
    <3> QED BY <1>1, <2>2, <2>5, <3>1, <3>2, <3>3
  <2>6. Apart(merged, asm)
    BY <2>5 DEF Apart
  <2>7. Labelled(merged \o asm)
    BY <2>3, <2>6, LabelledConcat
  <2>8. PICK c : c = merged \o asm
    OBVIOUS
  <2>9. Follows(c, merged, asm)
    BY <2>3, <2>8, ConcatFollows
  <2>10. ASSUME NEW l \in 1..Len(c), Numbered(c[l])
         PROVE  \E m \in 1..n : c[l].label.id = "m" \o ToString(m)
    <3>1. CASE l \in 1..Len(merged) /\ c[l] = merged[l]
      <4>1. PICK m \in 1..n - 1 : merged[l].label.id = "m" \o ToString(m)
        BY <2>4, <2>10, <3>1
      <4>2. m \in 1..n
        BY <1>1
      <4> QED BY <3>1, <4>1, <4>2
    <3>2. CASE \E k \in 1..Len(asm) : l = Len(merged) + k /\ c[l] = asm[k]
      <4>1. c[l].label.id = "m" \o ToString(n)
        BY <2>3, <2>10, <3>2 DEF OfModule
      <4>2. n \in 1..n
        BY <1>1
      <4> QED BY <4>1, <4>2
    <3> QED BY <2>9, <3>1, <3>2 DEF Follows
  <2>11. n' - 1 = n
    BY <1>1, <2>1
  <2> QED BY <2>1, <2>7, <2>8, <2>10, <2>11 DEF MergedLabels
<1>3. CASE AddStartup
  <2>1. merged' = Startup(DefinesMain(merged)) \o merged /\ step' = "copy"
    BY <1>3 DEF AddStartup
  <2>2. PICK r : r = Startup(DefinesMain(merged))
    OBVIOUS
  <2>3. Labelled(r) /\ Apart(r, merged)
    <3>1. Public("main").kind # "L" /\ Null.kind # "L"
      BY DEF Public, Null, Label
    <3>2. \/ r = <<Line("use", Public("main"), <<0, 0, 0>>)>>
          \/ r = <<Line("hlt", Null, <<0, 0, 0>>)>>
      BY <2>2 DEF Startup
    <3>3. ASSUME NEW op, NEW label, label.kind # "L", NEW at, r = <<Line(op, label, at)>>
          PROVE  Labelled(r) /\ Apart(r, merged)
      <4>1. Fits(r, merged, job.id, 0, merged, 0, 0) /\ Apart(r, merged)
        BY <3>3, LineFits
      <4> QED BY <4>1 DEF Fits
    <3> QED BY <3>1, <3>2, <3>3
  <2>4. Labelled(r \o merged)
    BY <2>3, LabelledConcat DEF MergedLabels
  <2> QED BY <2>1, <2>2, <2>4 DEF MergedLabels
<1>4. CASE \/ Check \/ MakeTemp \/ SetTrap \/ FindCompiler \/ CompileNext \/ Compiling \/ Failed \/ Copy
           \/ Stop \/ Assemble \/ Report \/ Interrupt \/ DirectEnds \/ Stopped \/ UNCHANGED vars
  <2>1. /\ UNCHANGED <<merged, n>>
        /\ \/ step' \in {"copy", "stop", "assemble", "report", "ended"}
           \/ step \in {"check", "temp", "trap", "compiler", "next", "compiling"}
           \/ step' = step
    BY <1>4 DEF Check, MakeTemp, SetTrap, FindCompiler, CompileNext, Compiling, Failed, Copy, Stop,
         Assemble, Report, Interrupt, DirectEnds, Ends, Stopped, vars, linkVars
  <2> QED BY <2>1 DEF MergedLabels
<1> QED BY <1>2, <1>3, <1>4 DEF Next

LEMMA MergedOwn == MergedLabels => OwnLabels
<1> SUFFICES ASSUME Labelled(merged) PROVE OwnLabels
  BY DEF MergedLabels
<1>1. DOMAIN merged = 1..Len(merged)
  BY DEF Labelled, IsSeq
<1>2. ASSUME NEW k \in Used(merged), merged[k].label.kind = "L"
      PROVE  \E d \in Defined(merged) :
               /\ merged[d].at = merged[k].at
               /\ \A j \in Defined(merged) : merged[j].label = merged[k].label <=> j = d
  <2>1. k \in 1..Len(merged) /\ merged[k].op = "use" /\ Numbered(merged[k])
    BY <1>1, <1>2 DEF Used, Numbered
  <2>2. PICK d \in 1..Len(merged) :
          Labels(merged[d]) /\ merged[d].label = merged[k].label /\ merged[d].at = merged[k].at
    BY <2>1 DEF Labelled
  <2>3. d \in Defined(merged) /\ Numbered(merged[d])
    BY <1>1, <2>1, <2>2 DEF Defined, Labels, Numbered
  <2>4. \A j \in Defined(merged) : j \in 1..Len(merged) /\ Labels(merged[j])
    BY <1>1 DEF Defined, Labels
  <2>5. \A j \in Defined(merged) : merged[j].label = merged[d].label => d = j
    BY <2>2, <2>3, <2>4 DEF Labelled
  <2> QED BY <2>2, <2>3, <2>5
<1> QED BY <1>2 DEF OwnLabels

(* Labels of jumps and strings never meet, for all sources: the numbers    *)
(* differ within a module, whether the parser or the back end took them,   *)
(* and the modules' names from one module to the other.                    *)
THEOREM LabelsStayApart == Spec => []OwnLabels
<1> QED BY InitTInv, NextTInv, InitSInv, NextSInv, InitLabels, NextLInv, NextMerged, MergedOwn,
           PTL DEF Spec
------------------------------------------------------------------------------
(* Least and greatest elements.                                            *)
LEMMA LeastOf ==
  ASSUME NEW T, T \subseteq Nat, T # {}
  PROVE  \E x \in T : \A y \in T : x <= y
<1>1. PICK R : R = {ss \in Nat \X Nat : ss[1] < ss[2]}
  OBVIOUS
<1>2. IsWellFoundedOn(R, Nat)
  BY <1>1, NatLessThanWellFounded DEF OpToRel
<1>3. \E x \in T : \A y \in T : <<y, x>> \notin R
  BY <1>2, WFMin
<1>4. \A x, y \in Nat : y < x => <<y, x>> \in R
  BY <1>1
<1>5. PICK x \in T : \A y \in T : ~(y < x)
  BY <1>3, <1>4
<1>6. ASSUME NEW y \in T PROVE x <= y
  <2>1. x \in Nat /\ y \in Nat /\ ~(y < x)
    BY <1>5
  <2> QED BY <2>1
<1> QED BY <1>6

LEMMA LastExists ==
  ASSUME NEW i \in Nat, NEW S, S \subseteq 1..i, S # {}
  PROVE  \E j : LastOf(S, j)
<1> DEFINE T == {i - x : x \in S}
<1>1. T \subseteq Nat /\ T # {}
  <2>1. \A x \in S : x \in 1..i /\ i - x \in Nat
    OBVIOUS
  <2> QED BY <2>1
<1>2. PICK y \in T : \A z \in T : y <= z
  BY <1>1, LeastOf
<1>3. PICK j \in S : y = i - j
  BY <1>2
<1>4. ASSUME NEW l \in S PROVE l <= j
  <2>1. i - l \in T /\ l \in Nat /\ j \in Nat
    OBVIOUS
  <2>2. i - j <= i - l
    BY <1>2, <1>3, <2>1
  <2> QED BY <2>1, <2>2
<1> QED BY <1>3, <1>4 DEF LastOf

(* The numbers make_static_label gives: how many statics came before, in   *)
(* the order in which they are read.                                       *)
Prior(j, p, i, k) == j < i \/ (j = i /\ p < k)
StaticAt(text, j, p) ==
  \/ p = 0 /\ text[j].op \in {"decl", "func"} /\ text[j].class = "static"
  \/ p # 0 /\ text[j].op = "func" /\ p \in 1..Len(text[j].body) /\ text[j].body[p].op = "static"
StaticsTo(text, i, k) ==
  {q \in (1..Len(text)) \X Nat : StaticAt(text, q[1], q[2]) /\ Prior(q[1], q[2], i, k)}
Num(text, j, p) == Cardinality(StaticsTo(text, j, p))
Counted(text, i, k, c) == IsFiniteSet(StaticsTo(text, i, k)) /\ c = Num(text, i, k)

LEMMA NumsDiffer ==
  ASSUME NEW text, Len(text) \in Nat, NEW i \in Nat, NEW k \in Nat, IsFiniteSet(StaticsTo(text, i, k)),
         NEW q \in StaticsTo(text, i, k), NEW r \in StaticsTo(text, i, k), q # r
  PROVE  Num(text, q[1], q[2]) # Num(text, r[1], r[2])
<1>1. ASSUME NEW x \in StaticsTo(text, i, k), NEW y \in StaticsTo(text, i, k), Prior(x[1], x[2], y[1], y[2])
      PROVE  Num(text, x[1], x[2]) # Num(text, y[1], y[2])
  <2>1. /\ x[1] \in Nat /\ x[2] \in Nat /\ y[1] \in Nat /\ y[2] \in Nat
        /\ x \in (1..Len(text)) \X Nat /\ StaticAt(text, x[1], x[2])
        /\ Prior(y[1], y[2], i, k)
    BY DEF StaticsTo
  <2> DEFINE X == StaticsTo(text, x[1], x[2])
             Y == StaticsTo(text, y[1], y[2])
  <2>2. x \in Y /\ x \notin X
    BY <1>1, <2>1 DEF StaticsTo, Prior
  <2>3. ASSUME NEW z \in X PROVE z \in Y
    <3>1. z \in (1..Len(text)) \X Nat /\ StaticAt(text, z[1], z[2]) /\ Prior(z[1], z[2], x[1], x[2])
      BY DEF StaticsTo
    <3>2. z[1] \in Nat /\ z[2] \in Nat
      BY <3>1
    <3>3. Prior(z[1], z[2], y[1], y[2])
      BY <1>1, <2>1, <3>1, <3>2 DEF Prior
    <3> QED BY <3>1, <3>3 DEF StaticsTo
  <2>4. ASSUME NEW z \in Y PROVE z \in StaticsTo(text, i, k)
    <3>1. z \in (1..Len(text)) \X Nat /\ StaticAt(text, z[1], z[2]) /\ Prior(z[1], z[2], y[1], y[2])
      BY DEF StaticsTo
    <3>2. z[1] \in Nat /\ z[2] \in Nat
      BY <3>1
    <3>3. Prior(z[1], z[2], i, k)
      BY <2>1, <3>1, <3>2 DEF Prior
    <3> QED BY <3>1, <3>3 DEF StaticsTo
  <2> HIDE DEF X, Y
  <2>5. IsFiniteSet(Y)
    BY <2>4, FS_Subset
  <2>6. Cardinality(X) # Cardinality(Y)
    BY <2>2, <2>3, <2>5, FS_Subset
  <2> QED BY <2>6 DEF Num, X, Y
<1>2. Prior(q[1], q[2], r[1], r[2]) \/ Prior(r[1], r[2], q[1], q[2])
  <2>1. /\ q[1] \in Nat /\ q[2] \in Nat /\ r[1] \in Nat /\ r[2] \in Nat
        /\ q = <<q[1], q[2]>> /\ r = <<r[1], r[2]>>
    BY DEF StaticsTo
  <2>2. q[1] # r[1] \/ q[2] # r[2]
    BY <2>1
  <2> QED BY <2>1, <2>2 DEF Prior
<1> QED BY <1>1, <1>2

LEMMA StaticsNext ==
  ASSUME NEW text, Len(text) \in Nat, NEW i \in 1..Len(text), NEW k \in Nat
  PROVE  /\ <<i, k>> \notin StaticsTo(text, i, k)
         /\ StaticAt(text, i, k) => StaticsTo(text, i, k + 1) = StaticsTo(text, i, k) \cup {<<i, k>>}
         /\ ~StaticAt(text, i, k) => StaticsTo(text, i, k + 1) = StaticsTo(text, i, k)
         /\ (\A p \in Nat : p >= k => ~StaticAt(text, i, p)) => StaticsTo(text, i + 1, 0) = StaticsTo(text, i, k)
<1>1. <<i, k>> \notin StaticsTo(text, i, k)
  BY DEF StaticsTo, Prior
<1>2. ASSUME NEW q
      PROVE  q \in StaticsTo(text, i, k + 1) <=>
               q \in StaticsTo(text, i, k) \/ (q = <<i, k>> /\ StaticAt(text, i, k))
  <2>1. CASE q \in (1..Len(text)) \X Nat
    <3>1. q[1] \in Nat /\ q[2] \in Nat /\ q = <<q[1], q[2]>>
      BY <2>1
    <3>2. Prior(q[1], q[2], i, k + 1) <=> Prior(q[1], q[2], i, k) \/ (q[1] = i /\ q[2] = k)
      BY <3>1 DEF Prior
    <3>3. q[1] = i /\ q[2] = k <=> q = <<i, k>>
      BY <3>1
    <3> QED BY <2>1, <3>2, <3>3 DEF StaticsTo
  <2>2. CASE q \notin (1..Len(text)) \X Nat
    <3>1. q # <<i, k>>
      BY <2>2
    <3> QED BY <2>2, <3>1 DEF StaticsTo
  <2> QED BY <2>1, <2>2
<1>3. ASSUME \A p \in Nat : p >= k => ~StaticAt(text, i, p), NEW q
      PROVE  q \in StaticsTo(text, i + 1, 0) <=> q \in StaticsTo(text, i, k)
  <2>1. CASE q \in (1..Len(text)) \X Nat
    <3>1. q[1] \in Nat /\ q[2] \in Nat
      BY <2>1
    <3>2. StaticAt(text, q[1], q[2]) => (Prior(q[1], q[2], i + 1, 0) <=> Prior(q[1], q[2], i, k))
      BY <1>3, <3>1 DEF Prior
    <3> QED BY <2>1, <3>2 DEF StaticsTo
  <2>2. CASE q \notin (1..Len(text)) \X Nat
    BY <2>2 DEF StaticsTo
  <2> QED BY <2>1, <2>2
<1> QED BY <1>1, <1>2, <1>3

LEMMA CountedNext ==
  ASSUME NEW text, Len(text) \in Nat, NEW i \in 1..Len(text), NEW k \in Nat, NEW c, Counted(text, i, k, c)
  PROVE  /\ c \in Nat
         /\ StaticAt(text, i, k) => Counted(text, i, k + 1, c + 1)
         /\ ~StaticAt(text, i, k) => Counted(text, i, k + 1, c)
         /\ (\A p \in Nat : p >= k => ~StaticAt(text, i, p)) => Counted(text, i + 1, 0, c)
<1>1. IsFiniteSet(StaticsTo(text, i, k)) /\ c = Cardinality(StaticsTo(text, i, k))
  BY DEF Counted, Num
<1>2. c \in Nat
  BY <1>1, FS_CardinalityType
<1>3. ASSUME StaticAt(text, i, k) PROVE Counted(text, i, k + 1, c + 1)
  <2>1. PICK S, q : S = StaticsTo(text, i, k) /\ q = <<i, k>>
    OBVIOUS
  <2>2. StaticsTo(text, i, k + 1) = S \cup {q} /\ q \notin S
    BY <1>3, <2>1, StaticsNext
  <2>3. IsFiniteSet(S) /\ c = Cardinality(S)
    BY <1>1, <2>1
  <2>4. IsFiniteSet(S \cup {q}) /\ Cardinality(S \cup {q}) = c + 1
    BY <2>2, <2>3, FS_AddElement
  <2> QED BY <2>2, <2>4 DEF Counted, Num
<1>4. ASSUME ~StaticAt(text, i, k) PROVE Counted(text, i, k + 1, c)
  <2>1. StaticsTo(text, i, k + 1) = StaticsTo(text, i, k)
    BY <1>4, StaticsNext
  <2> QED BY <1>1, <2>1 DEF Counted, Num
<1>5. ASSUME \A p \in Nat : p >= k => ~StaticAt(text, i, p) PROVE Counted(text, i + 1, 0, c)
  <2>1. StaticsTo(text, i + 1, 0) = StaticsTo(text, i, k)
    BY <1>5, StaticsNext
  <2> QED BY <1>1, <2>1 DEF Counted, Num
<1> QED BY <1>2, <1>3, <1>4, <1>5

LEMMA CountedFirst ==
  ASSUME NEW text, Len(text) \in Nat
  PROVE  Counted(text, 1, 0, 0)
<1>1. \A q : q \notin StaticsTo(text, 1, 0)
  BY DEF StaticsTo, Prior
<1> QED BY <1>1, FS_EmptySet DEF Counted, Num

(* The label of what a place declares, and what is to stand for a use: the *)
(* innermost declaration the compiler sees, which in an initializer is one *)
(* at file scope.                                                          *)
PlaceName(text, j, p) == IF p = 0 THEN text[j].name ELSE text[j].body[p].name
PlaceLabel(text, id, j, p) ==
  IF StaticAt(text, j, p)
  THEN Label("S", id, Num(text, j, p), PlaceName(text, j, p))
  ELSE Public(PlaceName(text, j, p))
InnerLabel(text, id, i, j) ==
  IF text[i].body[j].op = "static" THEN PlaceLabel(text, id, i, j) ELSE Null

Inner(text, u) == IF u.how = "init" THEN {} ELSE Around(text, u.i, u.k, u.x)
Silent(text, u) ==
  u.how = "read" /\ \E j : LastOf(Inner(text, u), j) /\ text[u.i].body[j].op \in {"local", "extern"}
Stands(text, id, u, label) ==
  /\ \A j : LastOf(Inner(text, u), j) => label = InnerLabel(text, id, u.i, j)
  /\ Inner(text, u) = {} =>
       /\ \A j : LastOf(Earlier(text, u.i, u.x), j) => label = PlaceLabel(text, id, j, 0)
       /\ Earlier(text, u.i, u.x) = {} => label = Public(u.x)

(* An element or a line of code that uses a name, a toplevel or a line     *)
(* that defines one.                                                       *)
Refers(e) == e.op \in {"use", "call"}
Linked(e, text, m, id) ==
  \E u \in Mentions(text) :
    e.at = <<m, u.i, u.k>> /\ ~Silent(text, u) /\ Stands(text, id, u, e.label)
Placed(t, text, m, id) ==
  \E j, p \in Nat :
    t.at = <<m, j, p>> /\ DefinesAt(text, j, p) /\ t.label = PlaceLabel(text, id, j, p)

CodeLinked(c, text, m, id) == \A e \in 1..Len(c) : Refers(c[e]) => Linked(c[e], text, m, id)
TopsLinked(q, text, m, id) ==
  \A t \in 1..Len(q) : Placed(q[t], text, m, id) /\ CodeLinked(q[t].code, text, m, id)

InCode(c, at) == \E e \in 1..Len(c) : Refers(c[e]) /\ c[e].at = at
InTops(q, at) == \E t \in 1..Len(q) : InCode(q[t].code, at)

(* The environments, and what is done with the names, at <<i, k>>.         *)
GlobalLabels(env, text, id, i) ==
  \A x \in DOMAIN env : \A j :
    LastOf(Earlier(text, i, x), j) => env[x].scope = "global" /\ env[x].label = PlaceLabel(text, id, j, 0)
LocalLabels(loc, text, id, i, k) ==
  \A x \in DOMAIN loc : \A j :
    LastOf(Around(text, i, k, x), j) =>
      /\ loc[x].scope = "local" <=> text[i].body[j].op # "static"
      /\ loc[x].label = InnerLabel(text, id, i, j)
UsesDone(q, c, text, m, i, k) ==
  \A u \in Mentions(text) : Mentioned(u, i, k) /\ ~Silent(text, u) =>
    (k > 0 /\ InCode(c, <<m, u.i, u.k>>)) \/ InTops(q, <<m, u.i, u.k>>)

ParseLinksAt(text, m, id, i, k, env, loc, q, c, s) ==
  /\ Counted(text, i, k, s)
  /\ k = 0 => GlobalLabels(env, text, id, i - 1)
  /\ k > 0 => /\ GlobalLabels(env, text, id, i) /\ LocalLabels(loc, text, id, i, k - 1)
              /\ CodeLinked(c, text, m, id)
              /\ env[text[i].name].label = PlaceLabel(text, id, i, 0)
  /\ TopsLinked(q, text, m, id)
  /\ UsesDone(q, c, text, m, i, k)
ParseLinks ==
  ParseLinksAt(job.source, job.n, job.id, pos[1], pos[2], global, local, tops, code, counts.static)

LEMMA GlobalLabelsGrow ==
  ASSUME NEW text, NEW id, NEW i \in Nat, NEW env, GlobalLabels(env, text, id, i), NEW name, NEW e,
         Declare(text, i + 1, name), e.scope = "global", e.label = PlaceLabel(text, id, i + 1, 0)
  PROVE  GlobalLabels(With(env, name, e), text, id, i + 1)
<1> DEFINE more == With(env, name, e)
<1> SUFFICES ASSUME NEW x \in DOMAIN more, NEW j, LastOf(Earlier(text, i + 1, x), j)
             PROVE  more[x].scope = "global" /\ more[x].label = PlaceLabel(text, id, j, 0)
  BY DEF GlobalLabels
<1>1. /\ x = name => more[x] = e
      /\ x # name => x \in DOMAIN env /\ more[x] = env[x]
  BY DEF With
<1>2. CASE x = name
  <2>1. i + 1 \in Earlier(text, i + 1, x)
    BY <1>2 DEF Earlier
  <2>2. j \in 1..i + 1 /\ i + 1 <= j
    BY <2>1 DEF LastOf, Earlier
  <2>3. j = i + 1
    BY <2>2
  <2> QED BY <1>1, <1>2, <2>3
<1>3. CASE x # name
  <2>1. Earlier(text, i + 1, x) = Earlier(text, i, x)
    <3>1. ~Declare(text, i + 1, x)
      BY <1>3 DEF Declare
    <3>2. \A l : l \in Earlier(text, i + 1, x) <=> l \in Earlier(text, i, x)
      BY <3>1 DEF Earlier
    <3> QED BY <3>2
  <2> QED BY <1>1, <1>3, <2>1 DEF GlobalLabels
<1> QED BY <1>2, <1>3

LEMMA LocalLabelsGrow ==
  ASSUME NEW text, NEW id, NEW i, NEW l \in Nat, NEW k, k = l + 1, NEW env, LocalLabels(env, text, id, i, l),
         NEW part, part = text[i].body[k], part.op \in {"local", "static", "extern", "proto"},
         NEW e, e.scope = "local" <=> part.op # "static", e.label = InnerLabel(text, id, i, k)
  PROVE  LocalLabels(With(env, part.name, e), text, id, i, k)
<1>0. PICK name : name = part.name
  OBVIOUS
<1> DEFINE more == With(env, name, e)
<1>1. ASSUME NEW x \in DOMAIN more, NEW j, LastOf(Around(text, i, k, x), j)
      PROVE  /\ more[x].scope = "local" <=> text[i].body[j].op # "static"
             /\ more[x].label = InnerLabel(text, id, i, j)
  <2>1. /\ x = name => more[x] = e
        /\ x # name => x \in DOMAIN env /\ more[x] = env[x]
    BY <1>1 DEF With
  <2>2. CASE x = name
    <3>1. k \in Around(text, i, k, x)
      BY <1>0, <2>2 DEF Around
    <3>2. j \in 1..k /\ k <= j
      BY <1>1, <3>1 DEF LastOf, Around
    <3>3. j = k
      BY <3>2
    <3> QED BY <2>1, <2>2, <3>3
  <2>3. CASE x # name
    <3>1. Around(text, i, k, x) = Around(text, i, l, x)
      <4>1. \A p : p \in Around(text, i, k, x) <=> p \in Around(text, i, l, x)
        BY <1>0, <2>3 DEF Around
      <4> QED BY <4>1
    <3> QED BY <1>1, <2>1, <2>3, <3>1 DEF LocalLabels
  <2> QED BY <2>2, <2>3
<1> QED BY <1>0, <1>1 DEF LocalLabels

LEMMA LocalLabelsStay ==
  ASSUME NEW text, NEW id, NEW i, NEW k \in Nat, NEW env, LocalLabels(env, text, id, i, k),
         text[i].body[k + 1].op \notin {"local", "static", "extern", "proto"}
  PROVE  LocalLabels(env, text, id, i, k + 1)
<1>1. ASSUME NEW x PROVE Around(text, i, k + 1, x) = Around(text, i, k, x)
  <2>1. \A j : j \in Around(text, i, k + 1, x) <=> j \in Around(text, i, k, x)
    BY DEF Around
  <2> QED BY <2>1
<1> QED BY <1>1 DEF LocalLabels

LEMMA LabelsStart ==
  ASSUME NEW text, NEW id
  PROVE  GlobalLabels(Nothing, text, id, 0) /\ \A i : LocalLabels(Nothing, text, id, i, 0)
BY DEF GlobalLabels, LocalLabels, Nothing

LEMMA CodeLinkedAdd ==
  ASSUME NEW c, IsSeq(c), NEW text, NEW m, NEW id, CodeLinked(c, text, m, id), NEW e,
         Refers(e) => Linked(e, text, m, id)
  PROVE  /\ CodeLinked(Append(c, e), text, m, id)
         /\ \A at : InCode(Append(c, e), at) <=> InCode(c, at) \/ (Refers(e) /\ e.at = at)
<1> DEFINE s == Append(c, e)
<1>1. /\ Len(c) \in Nat /\ Len(s) = Len(c) + 1
      /\ \A k \in 1..Len(c) : s[k] = c[k]
      /\ s[Len(c) + 1] = e
  BY AppendTo DEF IsSeq
<1> HIDE DEF s
<1>2. /\ \A k \in 1..Len(s) : (k \in 1..Len(c) /\ s[k] = c[k]) \/ (k = Len(c) + 1 /\ s[k] = e)
      /\ \A k \in 1..Len(c) : k \in 1..Len(s) /\ s[k] = c[k]
      /\ Len(c) + 1 \in 1..Len(s)
  BY <1>1
<1>3. CodeLinked(s, text, m, id)
  BY <1>2 DEF CodeLinked
<1>4. ASSUME NEW at PROVE InCode(s, at) <=> InCode(c, at) \/ (Refers(e) /\ e.at = at)
  BY <1>1, <1>2 DEF InCode
<1> QED BY <1>3, <1>4 DEF s

LEMMA TopsLinkedAdd ==
  ASSUME NEW q, IsSeq(q), NEW text, NEW m, NEW id, TopsLinked(q, text, m, id), NEW t,
         Placed(t, text, m, id), CodeLinked(t.code, text, m, id)
  PROVE  /\ TopsLinked(Append(q, t), text, m, id)
         /\ \A at : InTops(Append(q, t), at) <=> InTops(q, at) \/ InCode(t.code, at)
<1> DEFINE s == Append(q, t)
<1>1. /\ Len(q) \in Nat /\ Len(s) = Len(q) + 1
      /\ \A k \in 1..Len(q) : s[k] = q[k]
      /\ s[Len(q) + 1] = t
  BY AppendTo DEF IsSeq
<1> HIDE DEF s
<1>2. /\ \A k \in 1..Len(s) : (k \in 1..Len(q) /\ s[k] = q[k]) \/ (k = Len(q) + 1 /\ s[k] = t)
      /\ \A k \in 1..Len(q) : k \in 1..Len(s) /\ s[k] = q[k]
      /\ Len(q) + 1 \in 1..Len(s)
  BY <1>1
<1>3. TopsLinked(s, text, m, id)
  BY <1>2 DEF TopsLinked
<1>4. ASSUME NEW at PROVE InTops(s, at) <=> InTops(q, at) \/ InCode(t.code, at)
  BY <1>1, <1>2 DEF InTops
<1> QED BY <1>3, <1>4 DEF s

(* What an initializer refers to.                                          *)
LEMMA InitStands ==
  ASSUME NEW text, NEW id, NEW i, NEW k, NEW x, NEW env, GlobalIs(env, text, i), GlobalLabels(env, text, id, i),
         x \in DOMAIN env
  PROVE  LET u == Mention(i, k, x, "init")
         IN  ~Silent(text, u) /\ Stands(text, id, u, env[x].label)
<1> DEFINE u == Mention(i, k, x, "init")
<1>1. u.i = i /\ u.k = k /\ u.x = x /\ u.how = "init"
  BY DEF Mention
<1> HIDE DEF u
<1>2. Inner(text, u) = {} /\ ~Silent(text, u)
  BY <1>1 DEF Inner, Silent
<1>3. \A j : ~LastOf(Inner(text, u), j)
  BY <1>2 DEF LastOf
<1>4. Earlier(text, i, x) # {}
  BY DEF GlobalIs
<1>5. \A j : LastOf(Earlier(text, i, x), j) => env[x].label = PlaceLabel(text, id, j, 0)
  BY DEF GlobalLabels
<1>6. Stands(text, id, u, env[x].label)
  BY <1>1, <1>3, <1>4, <1>5 DEF Stands
<1> QED BY <1>2, <1>6 DEF u

LEMMA ObjectLinked ==
  ASSUME NEW init, NEW env, NEW label, ~Undefined(init, env),
         NEW text, NEW m, NEW id, NEW i \in Nat, NEW k \in Nat, Here = <<m, i, k>>,
         GlobalIs(env, text, i), GlobalLabels(env, text, id, i),
         Address(init) => Mention(i, k, init, "init") \in Mentions(text),
         label = PlaceLabel(text, id, i, k)
  PROVE  LET t == Object(init, env, label)
         IN  /\ DefinesAt(text, i, k) => Placed(t, text, m, id)
             /\ CodeLinked(t.code, text, m, id)
             /\ Address(init) => InCode(t.code, <<m, i, k>>)
<1> DEFINE t == Object(init, env, label)
<1>1. t.label = label /\ t.at = <<m, i, k>> /\ t.code = InitCode(init, env)
  BY DEF Object, Top
<1>2. PICK b : b = InitCode(init, env)
  OBVIOUS
<1> HIDE DEF t
<1>3. DefinesAt(text, i, k) => Placed(t, text, m, id)
  BY <1>1 DEF Placed
<1>4. CASE ~Address(init)
  <2>1. b = <<>>
    BY <1>2, <1>4 DEF InitCode, Address
  <2>2. \A e : e \notin 1..Len(b)
    BY <2>1, ShortSeqs
  <2>3. CodeLinked(b, text, m, id)
    BY <2>2 DEF CodeLinked
  <2> QED BY <1>1, <1>2, <1>3, <1>4, <2>3 DEF t
<1>5. CASE Address(init)
  <2>1. init \in DOMAIN env /\ b = <<Use(env[init].label)>>
    BY <1>2, <1>5 DEF InitCode, Undefined, Address
  <2>2. PICK e : e = Use(env[init].label)
    OBVIOUS
  <2>3. e.op = "use" /\ e.label = env[init].label /\ e.at = <<m, i, k>>
    BY <2>2 DEF Use
  <2>4. Len(b) = 1 /\ b[1] = e
    BY <2>1, <2>2, ShortSeqs
  <2>5. PICK u : u = Mention(i, k, init, "init")
    OBVIOUS
  <2>6. u \in Mentions(text) /\ ~Silent(text, u) /\ Stands(text, id, u, e.label) /\ u.i = i /\ u.k = k
    BY <1>5, <2>1, <2>3, <2>5, InitStands DEF Mention
  <2>7. Linked(e, text, m, id)
    BY <2>3, <2>6 DEF Linked
  <2>8. \A l \in 1..Len(b) : b[l] = e
    BY <2>4
  <2>9. CodeLinked(b, text, m, id)
    BY <2>7, <2>8 DEF CodeLinked
  <2>10. 1 \in 1..Len(b) /\ Refers(b[1]) /\ b[1].at = <<m, i, k>>
    BY <2>3, <2>4 DEF Refers
  <2>11. InCode(b, <<m, i, k>>)
    BY <2>10 DEF InCode
  <2> QED BY <1>1, <1>2, <1>3, <2>9, <2>11 DEF t
<1> QED BY <1>4, <1>5

(* What a name in a body refers to.                                        *)
LEMMA NameStands ==
  ASSUME NEW text, SourceOK(text), NEW id, NEW i \in 1..Len(text), text[i].op = "func",
         NEW k \in 1..Len(text[i].body), NEW how \in {"read", "call"}, text[i].body[k].op = how,
         NEW x, text[i].body[k].name = x, NEW env, NEW loc,
         GlobalIs(env, text, i), LocalIs(loc, text, i, k - 1),
         GlobalLabels(env, text, id, i), LocalLabels(loc, text, id, i, k - 1),
         NEW u, u = Mention(i, k, x, how)
  PROVE  /\ u \in Mentions(text) /\ u.i = i /\ u.k = k
         /\ x \in DOMAIN loc =>
              /\ Stands(text, id, u, loc[x].label)
              /\ Silent(text, u) <=> how = "read" /\ loc[x].scope = "local" /\ ~loc[x].func
         /\ x \notin DOMAIN loc =>
              /\ ~Silent(text, u)
              /\ x \in DOMAIN env => Stands(text, id, u, env[x].label) /\ env[x].scope # "local"
              /\ x \notin DOMAIN env => Stands(text, id, u, Public(x))
<1>1. u.i = i /\ u.k = k /\ u.x = x /\ u.how = how
  BY DEF Mention
<1>2. u \in Mentions(text)
  BY MentionsAre
<1>3. k \in Nat /\ k # 0
  OBVIOUS
<1>4. Inner(text, u) = Around(text, i, k - 1, x)
  <2>1. \A j : j \in Around(text, i, k, x) <=> j \in Around(text, i, k - 1, x)
    <3>1. \A j : j \in 1..k <=> j \in 1..k - 1 \/ j = k
      BY <1>3
    <3>2. how \notin {"local", "static", "extern", "proto"}
      OBVIOUS
    <3> QED BY <3>1, <3>2 DEF Around
  <2>2. Around(text, i, k, x) = Around(text, i, k - 1, x)
    BY <2>1
  <2> QED BY <1>1, <2>2 DEF Inner
<1>5. ASSUME x \in DOMAIN loc
      PROVE  /\ Stands(text, id, u, loc[x].label)
             /\ Silent(text, u) <=> how = "read" /\ loc[x].scope = "local" /\ ~loc[x].func
  <2>1. PICK j : LastOf(Around(text, i, k - 1, x), j) /\ (loc[x].func <=> text[i].body[j].op = "proto")
    BY <1>5 DEF LocalIs
  <2>2. \A l : LastOf(Inner(text, u), l) => l = j
    <3>1. PICK S : S = Around(text, i, k - 1, x)
      OBVIOUS
    <3>2. S \subseteq Int
      BY <3>1 DEF Around
    <3>3. LastOf(S, j)
      BY <2>1, <3>1
    <3>4. \A l : LastOf(S, l) => l = j
      BY <3>2, <3>3, MaxIs
    <3> QED BY <1>4, <3>1, <3>4
  <2>3. LastOf(Inner(text, u), j) /\ Inner(text, u) # {}
    BY <1>4, <2>1 DEF LastOf
  <2>4. /\ loc[x].scope = "local" <=> text[i].body[j].op # "static"
        /\ loc[x].label = InnerLabel(text, id, i, j)
    BY <1>5, <2>1 DEF LocalLabels
  <2>5. text[i].body[j].op \in {"local", "static", "extern", "proto"}
    BY <2>1 DEF LastOf, Around
  <2>6. Stands(text, id, u, loc[x].label)
    BY <1>1, <2>2, <2>3, <2>4 DEF Stands
  <2>7. Silent(text, u) <=> how = "read" /\ text[i].body[j].op \in {"local", "extern"}
    BY <1>1, <2>2, <2>3 DEF Silent
  <2> QED BY <2>1, <2>4, <2>5, <2>6, <2>7
<1>6. ASSUME x \notin DOMAIN loc
      PROVE  /\ ~Silent(text, u)
             /\ x \in DOMAIN env => Stands(text, id, u, env[x].label) /\ env[x].scope # "local"
             /\ x \notin DOMAIN env => Stands(text, id, u, Public(x))
  <2>1. Inner(text, u) = {}
    BY <1>4, <1>6 DEF LocalIs
  <2>2. \A j : ~LastOf(Inner(text, u), j)
    BY <2>1 DEF LastOf
  <2>3. ~Silent(text, u)
    BY <2>2 DEF Silent
  <2>4. ASSUME x \in DOMAIN env PROVE Stands(text, id, u, env[x].label) /\ env[x].scope # "local"
    <3>1. PICK j : LastOf(Earlier(text, i, x), j)
      BY <2>4 DEF GlobalIs
    <3>2. Earlier(text, i, x) # {} /\ env[x].scope = "global"
      BY <2>4, <3>1 DEF LastOf, GlobalLabels
    <3>3. \A l : LastOf(Earlier(text, i, x), l) => env[x].label = PlaceLabel(text, id, l, 0)
      BY <2>4 DEF GlobalLabels
    <3> QED BY <1>1, <2>2, <3>2, <3>3 DEF Stands
  <2>5. ASSUME x \notin DOMAIN env PROVE Stands(text, id, u, Public(x))
    <3>1. Earlier(text, i, x) = {}
      BY <2>5 DEF GlobalIs
    <3>2. \A l : ~LastOf(Earlier(text, i, x), l)
      BY <3>1 DEF LastOf
    <3> QED BY <1>1, <2>2, <3>2 DEF Stands
  <2> QED BY <2>3, <2>4, <2>5
<1> QED BY <1>1, <1>2, <1>5, <1>6

(* A step of the parser, part by part and item by item.                    *)
LEMMA UsesNext ==
  ASSUME NEW text, SourceOK(text), NEW m, NEW i \in 1..Len(text), NEW k \in Nat, NEW q, NEW c, NEW q2, NEW c2,
         UsesDone(q, c, text, m, i, k),
         \A at : (k > 0 /\ InCode(c, at)) \/ InTops(q, at) => InCode(c2, at) \/ InTops(q2, at),
         \A u \in Mentions(text) : u.i = i /\ u.k = k /\ ~Silent(text, u) =>
           InCode(c2, <<m, i, k>>) \/ InTops(q2, <<m, i, k>>)
  PROVE  UsesDone(q2, c2, text, m, i, k + 1)
<1> SUFFICES ASSUME NEW u \in Mentions(text), Mentioned(u, i, k + 1), ~Silent(text, u)
             PROVE  InCode(c2, <<m, u.i, u.k>>) \/ InTops(q2, <<m, u.i, u.k>>)
  BY DEF UsesDone
<1>1. Mentioned(u, i, k) \/ (u.i = i /\ u.k = k)
  BY MentionedNext
<1>2. CASE Mentioned(u, i, k)
  BY <1>2 DEF UsesDone
<1>3. CASE u.i = i /\ u.k = k
  BY <1>3
<1> QED BY <1>1, <1>2, <1>3

LEMMA PartLinks ==
  ASSUME NEW text, SourceOK(text), NEW m, NEW id, NEW i \in 1..Len(text), NEW k \in Nat \ {0},
         NEW env, NEW loc, NEW q, NEW c, NEW s, ParseLinksAt(text, m, id, i, k, env, loc, q, c, s),
         NEW loc2, NEW q2, NEW c2, NEW s2,
         Counted(text, i, k + 1, s2), LocalLabels(loc2, text, id, i, k),
         CodeLinked(c2, text, m, id), TopsLinked(q2, text, m, id),
         \A at : InCode(c, at) => InCode(c2, at),
         \A at : InTops(q, at) => InTops(q2, at),
         \A u \in Mentions(text) : u.i = i /\ u.k = k /\ ~Silent(text, u) =>
           InCode(c2, <<m, i, k>>) \/ InTops(q2, <<m, i, k>>)
  PROVE  ParseLinksAt(text, m, id, i, k + 1, env, loc2, q2, c2, s2)
<1>1. k > 0 /\ k + 1 > 0 /\ k + 1 # 0 /\ (k + 1) - 1 = k /\ k \in Nat
  OBVIOUS
<1>2. /\ UsesDone(q, c, text, m, i, k) /\ GlobalLabels(env, text, id, i)
      /\ env[text[i].name].label = PlaceLabel(text, id, i, 0)
  BY <1>1 DEF ParseLinksAt
<1>3. UsesDone(q2, c2, text, m, i, k + 1)
  BY <1>1, <1>2, UsesNext
<1> QED BY <1>1, <1>2, <1>3 DEF ParseLinksAt

LEMMA CountStatic ==
  ASSUME counts \in [label : Nat, static : Nat], NEW class, Count(class)
  PROVE  counts'.static = (IF class = "static" THEN counts.static + 1 ELSE counts.static)
BY DEF Count

(* The label of a place is what the counter gives it when it is read.      *)
LEMMA LabelOfPlace ==
  ASSUME NEW text, NEW i, NEW k, NEW c, Counted(text, i, k, c)
  PROVE  StaticAt(text, i, k) => Static(c, PlaceName(text, i, k)) = PlaceLabel(text, job.id, i, k)
BY DEF Counted, Static, PlaceLabel

LEMMA GlobalLabelIs ==
  ASSUME NEW text, NEW i, Counted(text, i, 0, counts.static), text[i].op \in {"decl", "func"}
  PROVE  /\ GlobalLabel(text[i].name, text[i].class) = PlaceLabel(text, job.id, i, 0)
         /\ StaticAt(text, i, 0) <=> text[i].class = "static"
<1>1. StaticAt(text, i, 0) <=> text[i].class = "static"
  BY DEF StaticAt
<1>2. PlaceName(text, i, 0) = text[i].name
  BY DEF PlaceName
<1> QED BY <1>1, <1>2, LabelOfPlace DEF GlobalLabel, PlaceLabel

LEMMA DeclLinks ==
  ASSUME ParseInv, ParseInv', ParseLinks, SourceOK(job.source), counts \in [label : Nat, static : Nat], ReadDecl
  PROVE  ParseLinks'
<1> DEFINE label == GlobalLabel(Item.name, Item.class)
           env == With(global, Item.name, Entry("global", label, Item.func))
           t == Object(Item.init, env, label)
<1>1. PICK text, m, id, i, d, s, s2 :
        /\ text = job.source /\ m = job.n /\ id = job.id /\ i = pos[1] /\ d = text[i]
        /\ s = counts.static /\ s2 = counts'.static
  OBVIOUS
<1>2. Item = d
  BY <1>1 DEF Item
<1>3. /\ pos[2] = 0 /\ i <= Len(text) /\ d.op = "decl"
      /\ ~Undefined(d.init, env) /\ global' = env /\ Count(d.class)
      /\ tops' = IF d.init # NoInit \/ (d.class # "extern" /\ ~d.func) THEN Append(tops, t) ELSE tops
      /\ pos' = <<i + 1, 0>> /\ pos'[1] = i + 1 /\ pos'[2] = 0 /\ UNCHANGED <<job, code>>
  BY <1>1, <1>2 DEF ReadDecl, AtHead, NextItem, Reading, Goto
<1>4. /\ ParseAt(text, m, i, 0, global, local, tops, code)
      /\ ParseAt(text, m, i + 1, 0, env, local', tops', code')
      /\ ParseLinksAt(text, m, id, i, 0, global, local, tops, code, s)
      /\ SourceOK(text)
  BY <1>1, <1>3 DEF ParseInv, ParseLinks
<1>5. i \in 1..Len(text) /\ Len(text) \in Nat /\ i \in Nat /\ i - 1 \in Nat /\ (i - 1) + 1 = i
      /\ (i + 1) - 1 = i
  BY SMTT(30), <1>3, <1>4 DEF ParseAt, SourceOK, IsSeq
<1>6. GlobalIs(env, text, i) /\ IsSeq(tops)
  BY <1>4, <1>5 DEF ParseAt, TopsAre
<1>7. /\ Counted(text, i, 0, s) /\ GlobalLabels(global, text, id, i - 1)
      /\ TopsLinked(tops, text, m, id) /\ UsesDone(tops, code, text, m, i, 0)
  BY <1>4 DEF ParseLinksAt
<1>8. label = PlaceLabel(text, id, i, 0) /\ (StaticAt(text, i, 0) <=> d.class = "static")
  BY <1>1, <1>2, <1>3, <1>7, GlobalLabelIs
<1>9. Counted(text, i + 1, 0, s2)
  <2>1. s2 = IF d.class = "static" THEN s + 1 ELSE s
    BY <1>1, <1>3, CountStatic
  <2>2. Counted(text, i, 1, s2)
    <3>1. 0 + 1 = 1
      OBVIOUS
    <3> QED BY <1>5, <1>7, <1>8, <2>1, <3>1, CountedNext
  <2>3. \A p \in Nat : p >= 1 => ~StaticAt(text, i, p)
    BY <1>1, <1>3 DEF StaticAt
  <2> QED BY <1>5, <2>2, <2>3, CountedNext
<1>10. GlobalLabels(env, text, id, i)
  <2>1. PICK e : e = Entry("global", label, d.func)
    OBVIOUS
  <2>2. e.scope = "global" /\ e.label = PlaceLabel(text, id, (i - 1) + 1, 0)
    BY <1>5, <1>8, <2>1 DEF Entry
  <2>3. Declare(text, (i - 1) + 1, d.name)
    BY <1>1, <1>3, <1>5 DEF Declare
  <2>4. GlobalLabels(With(global, d.name, e), text, id, (i - 1) + 1)
    BY <1>5, <1>7, <2>2, <2>3, GlobalLabelsGrow
  <2> QED BY <1>2, <1>5, <2>1, <2>4
<1>11. Address(d.init) => Mention(i, 0, d.init, "init") \in Mentions(text)
  BY <1>1, <1>3, <1>4, <1>5, MentionsAre
<1>12. /\ DefinesAt(text, i, 0) => Placed(t, text, m, id)
       /\ CodeLinked(t.code, text, m, id)
       /\ Address(d.init) => InCode(t.code, <<m, i, 0>>)
  <2>1. Here = <<m, i, 0>>
    BY <1>1, <1>3 DEF Here
  <2>2. 0 \in Nat
    OBVIOUS
  <2> HIDE DEF env, label
  <2> QED BY <1>2, <1>3, <1>5, <1>6, <1>8, <1>10, <1>11, <2>1, <2>2, ObjectLinked
<1> HIDE DEF t, env, label
<1>13. DefinesAt(text, i, 0) <=> d.init # NoInit \/ (d.class # "extern" /\ ~d.func)
  <2>1. i \in DOMAIN text
    BY <1>4, <1>5 DEF SourceOK, IsSeq
  <2> QED BY <1>1, <1>3, <2>1 DEF DefinesAt, TentativeAt, FullAt
<1>14. /\ TopsLinked(tops', text, m, id)
       /\ \A at : InTops(tops, at) => InTops(tops', at)
       /\ Address(d.init) => InTops(tops', <<m, i, 0>>)
  <2>1. CASE DefinesAt(text, i, 0)
    <3>1. tops' = Append(tops, t)
      BY <1>3, <1>13, <2>1
    <3> QED BY <1>6, <1>7, <1>12, <2>1, <3>1, TopsLinkedAdd
  <2>2. CASE ~DefinesAt(text, i, 0)
    <3>1. tops' = tops /\ ~Address(d.init)
      BY <1>3, <1>13, <2>2 DEF Address
    <3> QED BY <1>7, <3>1
  <2> QED BY <2>1, <2>2
<1>15. UsesDone(tops', code', text, m, i + 1, 0)
  <2> SUFFICES ASSUME NEW u \in Mentions(text), Mentioned(u, i + 1, 0), ~Silent(text, u)
               PROVE  InTops(tops', <<m, u.i, u.k>>)
    BY DEF UsesDone
  <2>1. \/ Mentioned(u, i, 0)
        \/ Address(d.init) /\ u = Mention(i, 0, d.init, "init")
    BY <1>1, <1>3, <1>4, <1>5, MentionedNext
  <2>2. CASE Mentioned(u, i, 0)
    BY <1>7, <1>14, <2>2 DEF UsesDone
  <2>3. CASE Address(d.init) /\ u = Mention(i, 0, d.init, "init")
    BY <1>14, <2>3 DEF Mention
  <2> QED BY <2>1, <2>2, <2>3
<1>16. ParseLinksAt(text, m, id, i + 1, 0, env, local', tops', code', s2)
  BY <1>5, <1>9, <1>10, <1>14, <1>15 DEF ParseLinksAt
<1> QED BY <1>1, <1>3, <1>16 DEF ParseLinks

LEMMA FuncBeginLinks ==
  ASSUME ParseInv, ParseInv', ParseLinks, SourceOK(job.source), counts \in [label : Nat, static : Nat], FuncBegins
  PROVE  ParseLinks'
<1> DEFINE label == GlobalLabel(Item.name, Item.class)
           env == With(global, Item.name, Entry("global", label, TRUE))
<1>1. PICK text, m, id, i, d, s, s2 :
        /\ text = job.source /\ m = job.n /\ id = job.id /\ i = pos[1] /\ d = text[i]
        /\ s = counts.static /\ s2 = counts'.static
  OBVIOUS
<1>2. Item = d
  BY <1>1 DEF Item
<1>3. /\ pos[2] = 0 /\ i <= Len(text) /\ d.op = "func"
      /\ global' = env /\ Count(d.class) /\ local' = Nothing /\ code' = <<>>
      /\ pos' = <<i, 0 + 1>> /\ pos'[1] = i /\ pos'[2] = 1 /\ UNCHANGED <<job, tops>>
  BY <1>1, <1>2 DEF FuncBegins, AtHead, NextPart, Reading, Goto
<1>4. /\ ParseAt(text, m, i, 0, global, local, tops, code)
      /\ ParseLinksAt(text, m, id, i, 0, global, local, tops, code, s)
      /\ SourceOK(text)
  BY <1>1, <1>3 DEF ParseInv, ParseLinks
<1>5. i \in 1..Len(text) /\ Len(text) \in Nat /\ i \in Nat /\ i - 1 \in Nat /\ (i - 1) + 1 = i
  BY <1>3, <1>4 DEF ParseAt, SourceOK, IsSeq
<1>7. /\ Counted(text, i, 0, s) /\ GlobalLabels(global, text, id, i - 1)
      /\ TopsLinked(tops, text, m, id) /\ UsesDone(tops, code, text, m, i, 0)
  BY <1>4 DEF ParseLinksAt
<1>8. label = PlaceLabel(text, id, i, 0) /\ (StaticAt(text, i, 0) <=> d.class = "static")
  BY <1>1, <1>2, <1>3, <1>7, GlobalLabelIs
<1>9. Counted(text, i, 1, s2)
  <2>1. s2 = IF d.class = "static" THEN s + 1 ELSE s
    BY <1>1, <1>3, CountStatic
  <2>2. 0 + 1 = 1 /\ 0 \in Nat
    OBVIOUS
  <2> QED BY <1>5, <1>7, <1>8, <2>1, <2>2, CountedNext
<1>10. GlobalLabels(env, text, id, i) /\ env[d.name].label = PlaceLabel(text, id, i, 0)
  <2>1. PICK e : e = Entry("global", label, TRUE)
    OBVIOUS
  <2>2. e.scope = "global" /\ e.label = PlaceLabel(text, id, (i - 1) + 1, 0)
    BY <1>5, <1>8, <2>1 DEF Entry
  <2>3. Declare(text, (i - 1) + 1, d.name)
    BY <1>1, <1>3, <1>5 DEF Declare
  <2>4. GlobalLabels(With(global, d.name, e), text, id, (i - 1) + 1)
    BY <1>5, <1>7, <2>2, <2>3, GlobalLabelsGrow
  <2>5. With(global, d.name, e)[d.name] = e
    BY DEF With
  <2> QED BY <1>2, <1>5, <2>1, <2>2, <2>4, <2>5
<1> HIDE DEF env, label
<1>11. CodeLinked(<<>>, text, m, id)
  BY ShortSeqs DEF CodeLinked
<1>12. UsesDone(tops, <<>>, text, m, i, 1)
  <2> SUFFICES ASSUME NEW u \in Mentions(text), Mentioned(u, i, 1), ~Silent(text, u)
               PROVE  InTops(tops, <<m, u.i, u.k>>)
    BY DEF UsesDone
  <2>1. Mentioned(u, i, 0)
    BY <1>1, <1>3, <1>4, <1>5, MentionedNext
  <2> QED BY <1>7, <2>1 DEF UsesDone
<1>13. LocalLabels(Nothing, text, id, i, 1 - 1)
  <2>1. 1 - 1 = 0
    OBVIOUS
  <2> QED BY <2>1, LabelsStart
<1>14. ParseLinksAt(text, m, id, i, 1, env, Nothing, tops, <<>>, s2)
  <2>1. 1 # 0
    OBVIOUS
  <2> QED BY <1>1, <1>7, <1>9, <1>10, <1>11, <1>12, <1>13, <2>1 DEF ParseLinksAt
<1> QED BY <1>1, <1>3, <1>14 DEF ParseLinks

LEMMA FuncEndLinks ==
  ASSUME ParseInv, ParseLinks, SourceOK(job.source), FuncEnds
  PROVE  ParseLinks'
<1>1. PICK text, m, id, i, k, d, s, t :
        /\ text = job.source /\ m = job.n /\ id = job.id /\ i = pos[1] /\ k = pos[2] /\ d = text[i]
        /\ s = counts.static
        /\ t = [def |-> "code", label |-> global[d.name].label, code |-> code, at |-> <<m, i, 0>>]
  BY Zenon
<1>2. Item = d
  BY <1>1 DEF Item
<1>3. /\ k > 0 /\ k > Len(d.body)
      /\ tops' = Append(tops, [Top("code", global[Item.name].label, code) EXCEPT !.at[3] = 0])
      /\ pos' = <<i + 1, 0>> /\ pos'[1] = i + 1 /\ pos'[2] = 0 /\ UNCHANGED <<job, global, counts>>
  BY Zenon, <1>1, <1>2 DEF FuncEnds, NextItem, Reading, Goto
<1>4. tops' = Append(tops, t)
  <2>1. PICK e : e = [Top("code", global[Item.name].label, code) EXCEPT !.at[3] = 0]
    OBVIOUS
  <2>2. tops' = Append(tops, e)
    BY ONLY <1>3, <2>1, Zenon
  <2>3. e = [def |-> "code", label |-> global[Item.name].label, code |-> code, at |-> <<job.n, pos[1], 0>>]
    BY ONLY <2>1, EmptyPart, Zenon
  <2> QED BY <1>1, <1>2, <2>2, <2>3
<1>5. /\ i \in 1..Len(text) /\ i \in Nat /\ k \in Nat \ {0} /\ d.op = "func" /\ Len(d.body) \in Nat
      /\ k = Len(d.body) + 1 /\ IsSeq(tops) /\ SourceOK(text) /\ Len(text) \in Nat /\ i \in DOMAIN text
  <2>1. pos[2] > 0
    BY <1>1, <1>3
  <2>2. /\ pos[1] \in 1..Len(job.source) /\ pos[2] \in Nat \ {0} /\ pos[1] \in Nat
        /\ job.source[pos[1]].op = "func" /\ Len(Item.body) \in Nat /\ pos[2] <= Len(Item.body) + 1
        /\ TopsAre(tops, job.n, job.source, pos[1], pos[2]) /\ DOMAIN job.source = 1..Len(job.source)
    BY <2>1, AtPartIs
  <2>3. IsSeq(tops)
    BY <2>2 DEF TopsAre
  <2>4. Len(text) \in Nat
    BY <1>1 DEF SourceOK, IsSeq
  <2>5. i \in 1..Len(text) /\ i \in Nat /\ k \in Nat \ {0} /\ d.op = "func" /\ Len(d.body) \in Nat
        /\ k <= Len(d.body) + 1 /\ i \in DOMAIN text
    BY <1>1, <1>2, <2>2
  <2>6. k = Len(d.body) + 1
    BY <1>3, <2>5
  <2> QED BY <1>1, <2>3, <2>4, <2>5, <2>6
<1>6. ParseLinksAt(text, m, id, i, k, global, local, tops, code, s)
  BY <1>1 DEF ParseLinks
<1>7. /\ Counted(text, i, k, s) /\ GlobalLabels(global, text, id, i) /\ CodeLinked(code, text, m, id)
      /\ global[d.name].label = PlaceLabel(text, id, i, 0)
      /\ TopsLinked(tops, text, m, id) /\ UsesDone(tops, code, text, m, i, k)
  BY <1>1, <1>3, <1>6 DEF ParseLinksAt
<1>8. Counted(text, i + 1, 0, s)
  <2>1. \A p \in Nat : p >= k => ~StaticAt(text, i, p)
    BY <1>1, <1>5 DEF StaticAt
  <2> QED BY <1>5, <1>7, <2>1, CountedNext
<1>9. DefinesAt(text, i, 0)
  BY <1>1, <1>5 DEF DefinesAt, FullAt
<1>10. t.code = code /\ t.at = <<m, i, 0>> /\ t.label = PlaceLabel(text, id, i, 0)
  BY <1>1, <1>7
<1>11. Placed(t, text, m, id)
  BY <1>5, <1>9, <1>10 DEF Placed
<1>12. /\ TopsLinked(tops', text, m, id)
       /\ \A at : InTops(tops', at) <=> InTops(tops, at) \/ InCode(code, at)
  BY <1>4, <1>5, <1>7, <1>10, <1>11, TopsLinkedAdd
<1>13. UsesDone(tops', code', text, m, i + 1, 0)
  <2> SUFFICES ASSUME NEW u \in Mentions(text), Mentioned(u, i + 1, 0), ~Silent(text, u)
               PROVE  InTops(tops', <<m, u.i, u.k>>)
    BY DEF UsesDone
  <2>1. Mentioned(u, i, k)
    BY SMTT(30), <1>1, <1>5, MentionedNext
  <2> QED BY <1>7, <1>12, <2>1 DEF UsesDone
<1>14. (i + 1) - 1 = i /\ ~(0 > 0)
  BY <1>5
<1>15. ParseLinksAt(text, m, id, i + 1, 0, global, local', tops', code', s)
  BY <1>7, <1>8, <1>12, <1>13, <1>14 DEF ParseLinksAt
<1> QED BY <1>1, <1>3, <1>15 DEF ParseLinks

LEMMA AtPartLinks ==
  ASSUME ParseInv, ParseLinks, SourceOK(job.source), pos[2] > 0, pos[2] <= Len(Item.body)
  PROVE  \E text, m, id, i, k :
           /\ text = job.source /\ m = job.n /\ id = job.id /\ i = pos[1] /\ k = pos[2]
           /\ SourceOK(text) /\ Len(text) \in Nat
           /\ i \in 1..Len(text) /\ i \in Nat /\ k \in Nat \ {0} /\ k - 1 \in Nat /\ (k - 1) + 1 = k
           /\ text[i].op = "func" /\ k \in 1..Len(text[i].body) /\ Item = text[i] /\ Part = text[i].body[k]
           /\ Here = <<m, i, k>>
           /\ GlobalIs(global, text, i) /\ LocalIs(local, text, i, k - 1)
           /\ IsSeq(code) /\ IsSeq(tops)
           /\ ParseLinksAt(text, m, id, i, k, global, local, tops, code, counts.static)
           /\ Counted(text, i, k, counts.static)
           /\ GlobalLabels(global, text, id, i) /\ LocalLabels(local, text, id, i, k - 1)
           /\ CodeLinked(code, text, m, id) /\ TopsLinked(tops, text, m, id)
<1>1. PICK text, m, id, i, k :
           text = job.source /\ m = job.n /\ id = job.id /\ i = pos[1] /\ k = pos[2]
  OBVIOUS
<1>2. /\ pos[1] \in 1..Len(job.source) /\ pos[2] \in Nat \ {0}
      /\ pos[1] \in Nat /\ pos[2] - 1 \in Nat /\ (pos[2] - 1) + 1 = pos[2]
      /\ job.source[pos[1]].op = "func" /\ Len(Item.body) \in Nat
      /\ GlobalIs(global, job.source, pos[1])
      /\ LocalIs(local, job.source, pos[1], pos[2] - 1)
      /\ CodeIs(code, job.n, job.source, pos[1], pos[2])
      /\ TopsAre(tops, job.n, job.source, pos[1], pos[2])
  BY AtPartIs
<1>3. IsSeq(code) /\ IsSeq(tops)
  BY <1>2 DEF CodeIs, TopsAre
<1>4. Item = text[i] /\ Part = text[i].body[k] /\ Here = <<m, i, k>>
  BY <1>1 DEF Item, Part, Here
<1>5. SourceOK(text) /\ Len(text) \in Nat /\ i \in 1..Len(text) /\ i \in Nat
  BY <1>1, <1>2 DEF SourceOK, IsSeq
<1>6. k \in Nat \ {0} /\ k - 1 \in Nat /\ (k - 1) + 1 = k /\ k \in 1..Len(text[i].body) /\ text[i].op = "func"
  BY <1>1, <1>2, <1>4
<1>7. GlobalIs(global, text, i) /\ LocalIs(local, text, i, k - 1)
  BY <1>1, <1>2
<1>8. ParseLinksAt(text, m, id, i, k, global, local, tops, code, counts.static)
  BY <1>1 DEF ParseLinks
<1>9. /\ Counted(text, i, k, counts.static)
      /\ GlobalLabels(global, text, id, i) /\ LocalLabels(local, text, id, i, k - 1)
      /\ CodeLinked(code, text, m, id) /\ TopsLinked(tops, text, m, id)
  BY <1>6, <1>8 DEF ParseLinksAt
<1> QED BY <1>1, <1>3, <1>4, <1>5, <1>6, <1>7, <1>8, <1>9

(* A part that counts no static variable and adds at most one element.     *)
LEMMA CodePart ==
  ASSUME ParseInv, ParseLinks, SourceOK(job.source), pos[2] > 0, pos[2] <= Len(Item.body),
         Part.op # "static", NextPart, UNCHANGED <<job, global, tops>>, counts'.static = counts.static,
         LocalLabels(local', job.source, job.id, pos[1], pos[2]),
         NEW e, code' = code \/ code' = Append(code, e),
         code' # code => (Refers(e) => Linked(e, job.source, job.n, job.id)),
         \A u \in Mentions(job.source) : u.i = pos[1] /\ u.k = pos[2] /\ ~Silent(job.source, u) =>
           code' = Append(code, e) /\ Refers(e) /\ e.at = Here
  PROVE  ParseLinks'
<1>1. PICK text, m, id, i, k :
        /\ text = job.source /\ m = job.n /\ id = job.id /\ i = pos[1] /\ k = pos[2]
        /\ SourceOK(text) /\ Len(text) \in Nat
        /\ i \in 1..Len(text) /\ k \in Nat \ {0}
        /\ Part = text[i].body[k] /\ Here = <<m, i, k>>
        /\ IsSeq(code)
        /\ ParseLinksAt(text, m, id, i, k, global, local, tops, code, counts.static)
        /\ Counted(text, i, k, counts.static)
        /\ CodeLinked(code, text, m, id) /\ TopsLinked(tops, text, m, id)
  BY AtPartLinks
<1>2. Counted(text, i, k + 1, counts.static)
  <2>1. ~StaticAt(text, i, k)
    BY <1>1 DEF StaticAt
  <2> QED BY <1>1, <2>1, CountedNext
<1>3. CodeLinked(code', text, m, id) /\ \A at : InCode(code, at) => InCode(code', at)
  <2>1. CASE code' = code
    BY <1>1, <2>1
  <2>2. CASE code' # code
    <3>1. code' = Append(code, e) /\ (Refers(e) => Linked(e, text, m, id))
      BY <1>1, <2>2
    <3> QED BY <1>1, <3>1, CodeLinkedAdd
  <2> QED BY <2>1, <2>2
<1>4. ASSUME NEW u \in Mentions(text), u.i = i, u.k = k, ~Silent(text, u) PROVE InCode(code', <<m, i, k>>)
  <2>1. code' = Append(code, e) /\ Refers(e) /\ e.at = <<m, i, k>>
    BY <1>1, <1>4
  <2>2. IsSeq(Append(code, e)) /\ Len(code) + 1 \in 1..Len(Append(code, e)) /\ Append(code, e)[Len(code) + 1] = e
    <3>1. Len(code) \in Nat
      BY <1>1 DEF IsSeq
    <3> QED BY <1>1, <3>1, AppendTo
  <2> QED BY <2>1, <2>2 DEF InCode
<1>5. LocalLabels(local', text, id, i, k)
  BY <1>1
<1>6. ParseLinksAt(text, m, id, i, k + 1, global, local', tops, code', counts.static)
  BY <1>1, <1>2, <1>3, <1>4, <1>5, PartLinks
<1>7. pos'[1] = i /\ pos'[2] = k + 1 /\ UNCHANGED <<job, global, tops>> /\ counts'.static = counts.static
  BY <1>1 DEF NextPart
<1> QED BY <1>1, <1>6, <1>7 DEF ParseLinks

LEMMA NameLinks ==
  ASSUME ParseInv, ParseLinks, SourceOK(job.source), ReadName
  PROVE  ParseLinks'
<1>1. /\ pos[2] > 0 /\ pos[2] <= Len(Item.body) /\ Part.op = "read" /\ Known(Part.name)
      /\ LET r == Meaning(Part.name)
         IN  code' = IF r.scope = "local" /\ ~r.func THEN code ELSE Append(code, Use(r.label))
      /\ NextPart /\ UNCHANGED <<job, global, local, counts, tops>>
  BY DEF ReadName, AtPart, Reading, Goto
<1>2. PICK text, m, id, i, k :
        /\ text = job.source /\ m = job.n /\ id = job.id /\ i = pos[1] /\ k = pos[2]
        /\ SourceOK(text) /\ i \in 1..Len(text) /\ k \in Nat \ {0} /\ k - 1 \in Nat /\ (k - 1) + 1 = k
        /\ text[i].op = "func" /\ k \in 1..Len(text[i].body) /\ Part = text[i].body[k]
        /\ Here = <<m, i, k>>
        /\ GlobalIs(global, text, i) /\ LocalIs(local, text, i, k - 1)
        /\ GlobalLabels(global, text, id, i) /\ LocalLabels(local, text, id, i, k - 1)
  BY <1>1, AtPartLinks
<1>3. PICK x, e, u : x = Part.name /\ e = Use(Meaning(x).label) /\ u = Mention(i, k, x, "read")
  OBVIOUS
<1>4. e.op = "use" /\ e.label = Meaning(x).label /\ e.at = Here /\ Refers(e)
  BY <1>3 DEF Use, Refers
<1>5. /\ u \in Mentions(text) /\ u.i = i /\ u.k = k
      /\ Stands(text, id, u, Meaning(x).label)
      /\ Silent(text, u) <=> Meaning(x).scope = "local" /\ ~Meaning(x).func
  <2>1. PICK how : how = "read"
    OBVIOUS
  <2>2. text[i].body[k].op = how /\ text[i].body[k].name = x /\ u = Mention(i, k, x, how) /\ how \in {"read", "call"}
    BY Zenon, <1>1, <1>2, <1>3, <2>1
  <2>3. /\ u \in Mentions(text) /\ u.i = i /\ u.k = k
        /\ x \in DOMAIN local =>
             /\ Stands(text, id, u, local[x].label)
             /\ Silent(text, u) <=> how = "read" /\ local[x].scope = "local" /\ ~local[x].func
        /\ x \notin DOMAIN local =>
             /\ ~Silent(text, u)
             /\ x \in DOMAIN global => Stands(text, id, u, global[x].label) /\ global[x].scope # "local"
    <3>1. /\ SourceOK(text) /\ i \in 1..Len(text) /\ text[i].op = "func" /\ k \in 1..Len(text[i].body)
          /\ GlobalIs(global, text, i) /\ LocalIs(local, text, i, k - 1)
          /\ GlobalLabels(global, text, id, i) /\ LocalLabels(local, text, id, i, k - 1)
      BY <1>2
    <3> QED BY <2>2, <3>1, NameStands
  <2>4. x \in DOMAIN local \/ x \in DOMAIN global
    BY <1>1, <1>3 DEF Known
  <2>5. Meaning(x) = IF x \in DOMAIN local THEN local[x] ELSE global[x]
    BY DEF Meaning
  <2> QED BY <2>1, <2>3, <2>4, <2>5
<1>6. IF Silent(text, u) THEN code' = code ELSE code' = Append(code, e)
  BY <1>1, <1>3, <1>5
<1>7. ~Silent(text, u) => Linked(e, text, m, id)
  BY <1>2, <1>4, <1>5 DEF Linked
<1>8. \A v \in Mentions(text) : v.i = i /\ v.k = k => v = u
  BY Zenon, <1>1, <1>2, <1>3, MentionOfPart
<1>9. LocalLabels(local', text, id, i, k)
  <2>1. LocalLabels(local, text, id, i, (k - 1) + 1)
    BY Zenon, <1>1, <1>2, LocalLabelsStay
  <2> QED BY Zenon, <1>1, <1>2, <2>1
<1>10. \A v \in Mentions(job.source) : v.i = pos[1] /\ v.k = pos[2] /\ ~Silent(job.source, v) =>
           code' = Append(code, e) /\ Refers(e) /\ e.at = Here
  BY <1>2, <1>4, <1>6, <1>8
<1>11. code' # code => (Refers(e) => Linked(e, job.source, job.n, job.id))
  BY <1>2, <1>6, <1>7
<1>12. Part.op # "static" /\ counts'.static = counts.static /\ (code' = code \/ code' = Append(code, e))
       /\ UNCHANGED <<job, global, tops>> /\ LocalLabels(local', job.source, job.id, pos[1], pos[2])
  BY Zenon, <1>1, <1>2, <1>6, <1>9
<1> QED BY <1>1, <1>10, <1>11, <1>12, CodePart

LEMMA CallLinks ==
  ASSUME ParseInv, ParseLinks, SourceOK(job.source), ReadCall
  PROVE  ParseLinks'
<1>1. /\ pos[2] > 0 /\ pos[2] <= Len(Item.body) /\ Part.op = "call"
      /\ code' = Append(code, [Use(Callee(Part.name)) EXCEPT !.op = "call"])
      /\ NextPart /\ UNCHANGED <<job, global, local, counts, tops>>
  BY DEF ReadCall, AtPart, Reading, Goto
<1>2. PICK text, m, id, i, k :
        /\ text = job.source /\ m = job.n /\ id = job.id /\ i = pos[1] /\ k = pos[2]
        /\ SourceOK(text) /\ i \in 1..Len(text) /\ k \in Nat \ {0} /\ k - 1 \in Nat /\ (k - 1) + 1 = k
        /\ text[i].op = "func" /\ k \in 1..Len(text[i].body) /\ Part = text[i].body[k]
        /\ Here = <<m, i, k>>
        /\ GlobalIs(global, text, i) /\ LocalIs(local, text, i, k - 1)
        /\ GlobalLabels(global, text, id, i) /\ LocalLabels(local, text, id, i, k - 1)
  BY <1>1, AtPartLinks
<1>3. PICK x, e, u : x = Part.name /\ e = [Use(Callee(x)) EXCEPT !.op = "call"] /\ u = Mention(i, k, x, "call")
  OBVIOUS
<1>4. e.op = "call" /\ e.label = Callee(x) /\ e.at = Here /\ Refers(e)
  BY <1>3 DEF Use, Refers
<1>5. u \in Mentions(text) /\ u.i = i /\ u.k = k /\ Stands(text, id, u, Callee(x)) /\ ~Silent(text, u)
  <2>1. /\ u \in Mentions(text) /\ u.i = i /\ u.k = k
        /\ x \in DOMAIN local => Stands(text, id, u, local[x].label)
        /\ x \notin DOMAIN local =>
             /\ x \in DOMAIN global => Stands(text, id, u, global[x].label)
             /\ x \notin DOMAIN global => Stands(text, id, u, Public(x))
    <3>1. PICK how : how = "call"
      OBVIOUS
    <3>2. text[i].body[k].op = how /\ text[i].body[k].name = x /\ u = Mention(i, k, x, how) /\ how \in {"read", "call"}
      BY Zenon, <1>1, <1>2, <1>3, <3>1
    <3>3. /\ SourceOK(text) /\ i \in 1..Len(text) /\ text[i].op = "func" /\ k \in 1..Len(text[i].body)
          /\ GlobalIs(global, text, i) /\ LocalIs(local, text, i, k - 1)
          /\ GlobalLabels(global, text, id, i) /\ LocalLabels(local, text, id, i, k - 1)
      BY <1>2
    <3> QED BY <3>2, <3>3, NameStands
  <2>2. ~Silent(text, u)
    BY <1>3 DEF Silent, Mention
  <2> QED BY <2>1, <2>2 DEF Callee, Known, Meaning
<1>6. code' = Append(code, e)
  BY <1>1, <1>3
<1>7. Linked(e, text, m, id)
  BY SMTT(30), <1>2, <1>4, <1>5 DEF Linked
<1>8. LocalLabels(local', text, id, i, k)
  <2>1. LocalLabels(local, text, id, i, (k - 1) + 1)
    BY Zenon, <1>1, <1>2, LocalLabelsStay
  <2> QED BY SMTT(30), <1>1, <1>2, <2>1
<1>9. Linked(e, job.source, job.n, job.id)
  BY <1>2, <1>7
<1>10. Part.op # "static" /\ counts'.static = counts.static
       /\ UNCHANGED <<job, global, tops>> /\ LocalLabels(local', job.source, job.id, pos[1], pos[2])
  BY <1>1, <1>2, <1>8
<1> QED BY <1>1, <1>4, <1>6, <1>9, <1>10, CodePart

LEMMA OtherLinks ==
  ASSUME ParseInv, ParseLinks, SourceOK(job.source), counts \in [label : Nat, static : Nat], ReadLoop \/ ReadOther
  PROVE  ParseLinks'
<1>1. PICK e : /\ pos[2] > 0 /\ pos[2] <= Len(Item.body) /\ Part.op \in {"loop", "string", "unsupported"}
               /\ code' = Append(code, e) /\ e.op \in {"loop", "string", "unsupported"}
               /\ NextPart /\ UNCHANGED <<job, global, local, tops>> /\ counts'.static = counts.static
  <2>1. CASE ReadLoop
    BY <2>1 DEF ReadLoop, AtPart, Reading, Goto
  <2>2. CASE ReadOther
    BY <2>2 DEF ReadOther, AtPart, Reading, Goto
  <2> QED BY <2>1, <2>2
<1>2. PICK text, id, i, k :
        /\ text = job.source /\ id = job.id /\ i = pos[1] /\ k = pos[2]
        /\ k - 1 \in Nat /\ (k - 1) + 1 = k /\ Part = text[i].body[k]
        /\ LocalLabels(local, text, id, i, k - 1)
  BY SMTT(30), <1>1, AtPartLinks
<1>3. LocalLabels(local', job.source, job.id, pos[1], pos[2])
  <2>1. LocalLabels(local, text, id, i, (k - 1) + 1)
    BY <1>1, <1>2, LocalLabelsStay
  <2> QED BY <1>1, <1>2, <2>1
<1>4. \A u \in Mentions(job.source) : ~(u.i = pos[1] /\ u.k = pos[2])
  BY <1>1, MentionOfPart
<1>5. ~Refers(e)
  BY <1>1 DEF Refers
<1>6. Part.op # "static"
  BY <1>1
<1> QED BY <1>1, <1>3, <1>4, <1>5, <1>6, CodePart

LEMMA LocalLinks ==
  ASSUME ParseInv, ParseLinks, SourceOK(job.source), ReadLocal
  PROVE  ParseLinks'
<1>1. /\ pos[2] > 0 /\ pos[2] <= Len(Item.body) /\ Part.op \in {"local", "extern", "proto"}
      /\ local' = With(local, Part.name, Entry("local", Null, Part.op = "proto"))
      /\ NextPart /\ UNCHANGED <<job, global, tops, code>> /\ counts'.static = counts.static
  BY DEF ReadLocal, AtPart, Reading, Goto
<1>2. PICK text, id, i, k :
        /\ text = job.source /\ id = job.id /\ i = pos[1] /\ k = pos[2]
        /\ k - 1 \in Nat /\ (k - 1) + 1 = k /\ Part = text[i].body[k]
        /\ LocalLabels(local, text, id, i, k - 1)
  BY <1>1, AtPartLinks
<1>3. PICK e : e = Entry("local", Null, Part.op = "proto")
  OBVIOUS
<1>4. PICK part, l : part = Part /\ l = k - 1
  OBVIOUS
<1>5. LocalLabels(local', job.source, job.id, pos[1], pos[2])
  <2>1. /\ l \in Nat /\ k = l + 1 /\ LocalLabels(local, text, id, i, l)
        /\ part = text[i].body[k] /\ part.op \in {"local", "static", "extern", "proto"}
    BY Zenon, <1>1, <1>2, <1>4
  <2>2. /\ e.scope = "local" <=> part.op # "static"
        /\ e.label = InnerLabel(text, id, i, k)
    BY Zenon, <1>1, <1>2, <1>3, <1>4 DEF Entry, InnerLabel
  <2>3. LocalLabels(With(local, part.name, e), text, id, i, k)
    BY <2>1, <2>2, LocalLabelsGrow
  <2> QED BY Zenon, <1>1, <1>2, <1>3, <1>4, <2>3
<1>6. \A u \in Mentions(job.source) : ~(u.i = pos[1] /\ u.k = pos[2])
  BY <1>1, MentionOfPart
<1>7. Part.op # "static"
  BY <1>1
<1> QED BY <1>1, <1>5, <1>6, <1>7, CodePart

LEMMA StaticLinks ==
  ASSUME ParseInv, ParseLinks, SourceOK(job.source), counts \in [label : Nat, static : Nat], ReadStatic
  PROVE  ParseLinks'
<1> DEFINE label == Static(counts.static, Part.name)
           t == Object(Part.init, global, label)
<1>1. /\ pos[2] > 0 /\ pos[2] <= Len(Item.body) /\ Part.op = "static" /\ ~Undefined(Part.init, global)
      /\ local' = With(local, Part.name, Entry("static", label, FALSE))
      /\ tops' = Append(tops, t) /\ Count("static")
      /\ NextPart /\ UNCHANGED <<job, global, code>>
  BY DEF ReadStatic, AtPart, Reading, Goto
<1>2. PICK text, m, id, i, k :
           /\ text = job.source /\ m = job.n /\ id = job.id /\ i = pos[1] /\ k = pos[2]
           /\ SourceOK(text) /\ Len(text) \in Nat
           /\ i \in 1..Len(text) /\ i \in Nat /\ k \in Nat \ {0} /\ k - 1 \in Nat /\ (k - 1) + 1 = k
           /\ text[i].op = "func" /\ k \in 1..Len(text[i].body) /\ Part = text[i].body[k]
           /\ Here = <<m, i, k>>
           /\ GlobalIs(global, text, i)
           /\ IsSeq(tops)
           /\ ParseLinksAt(text, m, id, i, k, global, local, tops, code, counts.static)
           /\ Counted(text, i, k, counts.static)
           /\ GlobalLabels(global, text, id, i) /\ LocalLabels(local, text, id, i, k - 1)
           /\ CodeLinked(code, text, m, id) /\ TopsLinked(tops, text, m, id)
  BY <1>1, AtPartLinks
<1>3. StaticAt(text, i, k) /\ DefinesAt(text, i, k) /\ k \in Nat
  <2>1. i \in DOMAIN text /\ k \in DOMAIN text[i].body
    BY <1>2, BodyOf
  <2> QED BY Zenon, <1>1, <1>2, <2>1 DEF StaticAt, DefinesAt
<1>4. label = PlaceLabel(text, id, i, k)
  <2>1. PlaceName(text, i, k) = Part.name
    BY <1>2 DEF PlaceName
  <2>2. Static(counts.static, PlaceName(text, i, k)) = PlaceLabel(text, job.id, i, k)
    BY <1>2, <1>3, LabelOfPlace
  <2> QED BY <1>2, <2>1, <2>2
<1>5. Address(Part.init) => Mention(i, k, Part.init, "init") \in Mentions(text)
  BY Zenon, <1>1, <1>2, MentionsAre
<1>6. /\ Placed(t, text, m, id) /\ CodeLinked(t.code, text, m, id)
      /\ Address(Part.init) => InCode(t.code, <<m, i, k>>)
  <2> HIDE DEF label
  <2> QED BY Zenon, <1>1, <1>2, <1>3, <1>4, <1>5, ObjectLinked
<1> HIDE DEF t
<1>7. /\ TopsLinked(tops', text, m, id)
      /\ \A at : InTops(tops', at) <=> InTops(tops, at) \/ InCode(t.code, at)
  BY Zenon, <1>1, <1>2, <1>6, TopsLinkedAdd
<1>8. LocalLabels(local', text, id, i, k)
  <2>1. PICK e : e = Entry("static", label, FALSE)
    BY Zenon
  <2>2. PICK part, l : part = Part /\ l = k - 1
    OBVIOUS
  <2>3. /\ l \in Nat /\ k = l + 1 /\ LocalLabels(local, text, id, i, l)
        /\ part = text[i].body[k] /\ part.op = "static" /\ part.op \in {"local", "static", "extern", "proto"}
    BY Zenon, <1>1, <1>2, <2>2
  <2>4. /\ e.scope = "local" <=> part.op # "static"
        /\ e.label = InnerLabel(text, id, i, k)
    BY <1>4, <2>1, <2>3 DEF Entry, InnerLabel
  <2>5. LocalLabels(With(local, part.name, e), text, id, i, k)
    BY <2>3, <2>4, LocalLabelsGrow
  <2> QED BY Zenon, <1>1, <1>2, <2>1, <2>2, <2>5
<1>9. Counted(text, i, k + 1, counts'.static)
  <2>1. counts'.static = counts.static + 1
    BY <1>1, CountStatic
  <2> QED BY <1>2, <1>3, <2>1, CountedNext
<1>10. ASSUME NEW u \in Mentions(text), u.i = i, u.k = k PROVE InTops(tops', <<m, i, k>>)
  <2>1. Address(Part.init)
    BY Zenon, <1>1, <1>2, <1>10, MentionOfPart
  <2> QED BY <1>6, <1>7, <2>1
<1>11. ParseLinksAt(text, m, id, i, k + 1, global, local', tops', code, counts'.static)
  BY Zenon, <1>2, <1>7, <1>8, <1>9, <1>10, PartLinks
<1>12. pos'[1] = i /\ pos'[2] = k + 1 /\ UNCHANGED <<job, global, code>>
  BY Zenon, <1>1, <1>2 DEF NextPart
<1> QED BY <1>2, <1>11, <1>12 DEF ParseLinks

(* Lines of assembly, of a module and of a program.                        *)
LineLinked(x, text, m, id) ==
  ~Numbered(x) =>
    /\ Labels(x) => Placed(x, text, m, id)
    /\ x.op = "use" => Linked(x, text, m, id)
LinesLinked(lines, text, m, id) == \A l \in 1..Len(lines) : LineLinked(lines[l], text, m, id)
UsedAt(lines, at) ==
  \E l \in 1..Len(lines) : lines[l].op = "use" /\ ~Numbered(lines[l]) /\ lines[l].at = at

ModuleLinked(lines, text, m, id) ==
  /\ LinesLinked(lines, text, m, id)
  /\ \A u \in Mentions(text) : ~Silent(text, u) => UsedAt(lines, <<m, u.i, u.k>>)
  /\ IsFiniteSet(StaticsTo(text, Len(text) + 1, 0))

EmitLinksAt(lines, q, text, m, id, i, k) ==
  /\ TopsLinked(q, text, m, id)
  /\ \A u \in Mentions(text) : ~Silent(text, u) => InTops(q, <<m, u.i, u.k>>)
  /\ IsFiniteSet(StaticsTo(text, Len(text) + 1, 0))
  /\ LinesLinked(lines, text, m, id)
  /\ \A t \in 1..Len(q) : \A e \in 1..Len(q[t].code) :
       (t < i \/ (t = i /\ e < k)) /\ Refers(q[t].code[e]) => UsedAt(lines, q[t].code[e].at)
EmitLinks == EmitLinksAt(asm, tops, job.source, job.n, job.id, pos[1], pos[2])

LEMMA LinesLinkedAdd ==
  ASSUME NEW a, IsSeq(a), NEW b, IsSeq(b), NEW text, NEW m, NEW id,
         LinesLinked(a, text, m, id), LinesLinked(b, text, m, id)
  PROVE  /\ LinesLinked(a \o b, text, m, id)
         /\ \A at : UsedAt(a, at) \/ UsedAt(b, at) => UsedAt(a \o b, at)
<1>1. PICK c : c = a \o b
  OBVIOUS
<1>2. Follows(c, a, b)
  BY <1>1, ConcatFollows
<1>3. LinesLinked(c, text, m, id)
  <2>1. ASSUME NEW l \in 1..Len(c) PROVE LineLinked(c[l], text, m, id)
    <3>1. CASE l \in 1..Len(a) /\ c[l] = a[l]
      BY <3>1 DEF LinesLinked
    <3>2. CASE \E k \in 1..Len(b) : l = Len(a) + k /\ c[l] = b[k]
      BY <3>2 DEF LinesLinked
    <3> QED BY <1>2, <3>1, <3>2 DEF Follows
  <2> QED BY <2>1 DEF LinesLinked
<1>4. ASSUME NEW at, UsedAt(a, at) PROVE UsedAt(c, at)
  BY <1>2, <1>4 DEF UsedAt, Follows
<1>5. ASSUME NEW at, UsedAt(b, at) PROVE UsedAt(c, at)
  BY <1>2, <1>5 DEF UsedAt, Follows
<1> QED BY <1>1, <1>3, <1>4, <1>5

LEMMA OneLine ==
  ASSUME NEW op, NEW label, NEW at, NEW text, NEW m, NEW id,
         LineLinked(Line(op, label, at), text, m, id)
  PROVE  LET r == <<Line(op, label, at)>>
         IN  /\ IsSeq(r) /\ LinesLinked(r, text, m, id)
             /\ op = "use" /\ label.kind # "L" => UsedAt(r, at)
<1>1. PICK x, r : x = Line(op, label, at) /\ r = <<x>>
  OBVIOUS
<1>2. x.op = op /\ x.label = label /\ x.at = at
  BY <1>1 DEF Line
<1>3. IsSeq(r) /\ Len(r) = 1 /\ r[1] = x
  BY <1>1, ShortSeqs
<1>4. LinesLinked(r, text, m, id)
  BY <1>1, <1>3 DEF LinesLinked
<1>5. op = "use" /\ label.kind # "L" => UsedAt(r, at)
  <2>1. HAVE op = "use" /\ label.kind # "L"
  <2>2. 1 \in 1..Len(r) /\ r[1].op = "use" /\ ~Numbered(r[1]) /\ r[1].at = at
    BY <1>2, <1>3, <2>1 DEF Numbered
  <2> QED BY <2>2 DEF UsedAt
<1> QED BY <1>1, <1>3, <1>4, <1>5

LEMMA OwnLinked ==
  ASSUME NEW label, label.kind = "L", NEW at, NEW text, NEW m, NEW id
  PROVE  IsSeq(Own(label, at)) /\ LinesLinked(Own(label, at), text, m, id)
<1>1. PICK r : r = Own(label, at)
  OBVIOUS
<1>2. IsSeq(r) /\ Len(r) = 2 /\ \A l \in 1..2 : r[l].label = label
  BY <1>1, OwnIs
<1>3. LinesLinked(r, text, m, id)
  BY <1>2 DEF LinesLinked, LineLinked, Numbered
<1> QED BY <1>1, <1>2, <1>3

LEMMA EmitLinksAdd ==
  ASSUME NEW lines, IsSeq(lines), NEW q, NEW text, NEW m, NEW id, NEW i \in Int, NEW k \in Nat,
         EmitLinksAt(lines, q, text, m, id, i, k), NEW r, IsSeq(r), LinesLinked(r, text, m, id),
         k > 0 /\ Refers(q[i].code[k]) => UsedAt(r, q[i].code[k].at)
  PROVE  EmitLinksAt(lines \o r, q, text, m, id, i, k + 1)
<1>1. PICK c : c = lines \o r
  OBVIOUS
<1>2. /\ TopsLinked(q, text, m, id)
      /\ \A u \in Mentions(text) : ~Silent(text, u) => InTops(q, <<m, u.i, u.k>>)
      /\ IsFiniteSet(StaticsTo(text, Len(text) + 1, 0))
      /\ LinesLinked(lines, text, m, id)
  BY DEF EmitLinksAt
<1>3. LinesLinked(c, text, m, id) /\ \A at : UsedAt(lines, at) \/ UsedAt(r, at) => UsedAt(c, at)
  BY <1>1, <1>2, LinesLinkedAdd
<1>4. ASSUME NEW t \in 1..Len(q), NEW e \in 1..Len(q[t].code), t < i \/ (t = i /\ e < k + 1),
             Refers(q[t].code[e])
      PROVE  UsedAt(c, q[t].code[e].at)
  <2>1. CASE t < i \/ (t = i /\ e < k)
    <3>1. UsedAt(lines, q[t].code[e].at)
      BY <1>4, <2>1 DEF EmitLinksAt
    <3> QED BY <1>3, <3>1
  <2>2. CASE t = i /\ e = k
    <3>1. k > 0
      BY <2>2
    <3>2. UsedAt(r, q[t].code[e].at)
      BY <1>4, <2>2, <3>1
    <3> QED BY <1>3, <3>2
  <2> QED BY <1>4, <2>1, <2>2
<1>5. EmitLinksAt(c, q, text, m, id, i, k + 1)
  BY <1>2, <1>3, <1>4 DEF EmitLinksAt
<1> QED BY <1>1, <1>5

LEMMA HeadLinks ==
  ASSUME EmitLinks, IsSeq(asm), EmitHead, EmitInv
  PROVE  EmitLinks'
<1>1. PICK q, i, k, text, m, id, op, label, at, r :
        /\ q = tops /\ i = pos[1] /\ k = pos[2] /\ text = job.source /\ m = job.n /\ id = job.id
        /\ op = (IF Toplevel.def = "bss" THEN "bss" ELSE "def")
        /\ label = Toplevel.label /\ at = Toplevel.at
        /\ r = <<Line(op, label, at)>>
  OBVIOUS
<1>2. /\ asm' = asm \o r /\ pos' = <<i, k + 1>> /\ UNCHANGED <<tops, job>> /\ pos[1] <= Len(tops)
      /\ k = 0
  BY <1>1 DEF EmitHead, Emitting, Emit, NextPart, Goto
<1>3. i \in 1..Len(q) /\ i \in Int /\ k \in Nat /\ Toplevel = q[i]
  BY <1>1, <1>2, ToplevelAt
<1>4. EmitLinksAt(asm, q, text, m, id, i, k)
  BY <1>1 DEF EmitLinks
<1>5. Placed(q[i], text, m, id)
  BY <1>3, <1>4 DEF EmitLinksAt, TopsLinked
<1>6. LineLinked(Line(op, label, at), text, m, id)
  <2>1. PICK x : x = Line(op, label, at)
    OBVIOUS
  <2>2. x.op # "use" /\ x.label = q[i].label /\ x.at = q[i].at
    BY <1>1, <1>3, <2>1 DEF Line
  <2>3. Placed(x, text, m, id)
    BY <1>5, <2>2 DEF Placed
  <2>4. LineLinked(x, text, m, id)
    BY <2>2, <2>3 DEF LineLinked
  <2> QED BY <2>1, <2>4
<1>7. IsSeq(r) /\ LinesLinked(r, text, m, id)
  BY <1>1, <1>6, OneLine
<1>8. EmitLinksAt(asm \o r, q, text, m, id, i, k + 1)
  <2>1. i \in Int /\ k \in Nat /\ ~(k > 0)
    BY <1>2, <1>3
  <2> QED BY <1>4, <1>7, <2>1, EmitLinksAdd
<1>9. /\ pos'[1] = i /\ pos'[2] = k + 1 /\ tops' = q /\ asm' = asm \o r
      /\ job'.source = text /\ job'.n = m /\ job'.id = id
  BY <1>1, <1>2
<1> QED BY <1>8, <1>9 DEF EmitLinks

LEMMA ElementLinks ==
  ASSUME EmitLinks, IsSeq(asm), EmitLabels, EmitElement, EmitInv
  PROVE  EmitLinks'
<1>1. PICK q, i, k, text, m, id, at, x, private :
        /\ q = tops /\ i = pos[1] /\ k = pos[2] /\ text = job.source /\ m = job.n /\ id = job.id
        /\ at = Element.at /\ x = Element /\ private = Private(counts.label)
  OBVIOUS
<1>2. /\ i <= Len(q) /\ k \in 1..Len(Toplevel.code) /\ x.op # "unsupported"
      /\ pos' = <<i, k + 1>> /\ UNCHANGED <<tops, job>>
  BY <1>1 DEF EmitElement, Emitting, Emit, NextPart, Goto
<1>3. /\ i \in 1..Len(q) /\ i \in Int /\ k \in Nat /\ k \in 1..Len(q[i].code) /\ x = q[i].code[k]
      /\ x.op \in {"use", "call", "loop", "string"} /\ (x.op = "loop" => x.label.kind = "L")
  <2>1. /\ pos[1] \in 1..Len(tops) /\ Len(tops) \in Nat /\ pos[2] \in Nat /\ Toplevel = tops[pos[1]]
        /\ \A e \in 1..Len(Toplevel.code) : IsElement(Toplevel.code[e], job.n)
    BY <1>1, <1>2, ToplevelAt
  <2>2. PICK body : body = Toplevel.code
    OBVIOUS
  <2>3. x = body[k] /\ k \in 1..Len(body)
    BY <1>1, <1>2, <2>2 DEF Element
  <2>4. IsElement(x, job.n)
    BY <2>1, <2>2, <2>3
  <2>5. x.op \in {"use", "call", "loop", "string"} /\ (x.op = "loop" => x.label.kind = "L")
    BY <1>2, <2>4 DEF IsElement
  <2>6. q[i].code = body /\ i \in 1..Len(q) /\ i \in Int /\ k \in Nat
    BY <1>1, <2>1, <2>2
  <2> QED BY <2>3, <2>5, <2>6
<1>4. EmitLinksAt(asm, q, text, m, id, i, k)
  BY <1>1 DEF EmitLinks
<1>5. x.op # "loop" => x.label.kind # "L"
  <2>1. BodyLabelled(q[i].code, id, counts.label)
    BY <1>1, <1>3 DEF EmitLabels, TopsLabelled
  <2> QED BY <1>3, <2>1 DEF BodyLabelled, Numbered
<1>6. Refers(x) => Linked(x, text, m, id)
  <2>1. CodeLinked(q[i].code, text, m, id)
    BY <1>3, <1>4 DEF EmitLinksAt, TopsLinked
  <2> QED BY <1>3, <2>1 DEF CodeLinked
<1>7. PICK r : asm' = asm \o r /\ IsSeq(r) /\ LinesLinked(r, text, m, id) /\ (Refers(x) => UsedAt(r, x.at))
  <2> DEFINE use == <<Line("use", x.label, at)>>
             own == Own(private, at)
             loop == Own(x.label, at)
  <2>1. asm' = asm \o (CASE x.op = "use"    -> use
                         [] x.op = "loop"   -> loop
                         [] x.op = "string" -> own
                         [] x.op = "call"   -> use \o own)
    BY <1>1 DEF EmitElement, Emit
  <2>2. Refers(x) => IsSeq(use) /\ LinesLinked(use, text, m, id) /\ UsedAt(use, at)
    <3>1. HAVE Refers(x)
    <3>2. PICK y, l : y = Line("use", l, at) /\ l = x.label
      OBVIOUS
    <3>3. y.op = "use" /\ y.label = x.label /\ y.at = x.at
      BY <1>1, <3>2 DEF Line
    <3>4. Linked(y, text, m, id)
      BY <1>6, <3>1, <3>3 DEF Linked
    <3>5. LineLinked(y, text, m, id)
      BY <3>3, <3>4 DEF LineLinked, Labels
    <3>6. l.kind # "L"
      BY <1>5, <3>1, <3>2 DEF Refers
    <3>7. IsSeq(<<y>>) /\ LinesLinked(<<y>>, text, m, id) /\ UsedAt(<<y>>, at)
      BY <3>2, <3>5, <3>6, OneLine
    <3> QED BY <3>2, <3>7
  <2>3. x.op = "loop" => IsSeq(loop) /\ LinesLinked(loop, text, m, id)
    BY <1>3, OwnLinked
  <2>4. IsSeq(own) /\ LinesLinked(own, text, m, id)
    <3>1. private.kind = "L"
      BY <1>1 DEF Private, Label
    <3> QED BY <3>1, OwnLinked
  <2> HIDE DEF use, own, loop
  <2>5. Refers(x) => /\ IsSeq(use \o own) /\ LinesLinked(use \o own, text, m, id)
                     /\ UsedAt(use \o own, at)
    BY <2>2, <2>4, LinesLinkedAdd, ConcatTo
  <2>6. CASE x.op = "use"
    BY <1>1, <2>1, <2>2, <2>6 DEF Refers
  <2>7. CASE x.op = "loop"
    BY <2>1, <2>3, <2>7 DEF Refers
  <2>8. CASE x.op = "string"
    BY <2>1, <2>4, <2>8 DEF Refers
  <2>9. CASE x.op = "call"
    BY <1>1, <2>1, <2>5, <2>9 DEF Refers
  <2> QED BY <1>3, <2>6, <2>7, <2>8, <2>9
<1>8. EmitLinksAt(asm \o r, q, text, m, id, i, k + 1)
  <2>1. /\ i \in Int /\ k \in Nat /\ IsSeq(r) /\ LinesLinked(r, text, m, id)
        /\ Refers(q[i].code[k]) => UsedAt(r, q[i].code[k].at)
    BY <1>3, <1>7
  <2> QED BY <1>4, <2>1, EmitLinksAdd
<1>9. /\ pos'[1] = i /\ pos'[2] = k + 1 /\ tops' = q /\ asm' = asm \o r
      /\ job'.source = text /\ job'.n = m /\ job'.id = id
  BY <1>1, <1>2, <1>7
<1> QED BY <1>8, <1>9 DEF EmitLinks

LEMMA NextLinks ==
  ASSUME EmitLinks, IsSeq(asm), EmitNext, EmitInv
  PROVE  EmitLinks'
<1>1. pos' = <<pos[1] + 1, 0>> /\ asm' = asm \o <<>> /\ UNCHANGED <<tops, job>> /\ pos[1] <= Len(tops)
      /\ pos[2] > Len(Toplevel.code)
  BY DEF EmitNext, Emitting, NextItem, Emit, Goto
<1>2. asm' = asm
  <2>1. asm \in Seq({asm[l] : l \in 1..Len(asm)})
    BY SeqOfItself
  <2> QED BY <1>1, <2>1, ConcatEmptySeq
<1>3. PICK q, i, k, text, m, id :
        /\ q = tops /\ i = pos[1] /\ k = pos[2] /\ text = job.source /\ m = job.n /\ id = job.id
  OBVIOUS
<1>4. i \in Int /\ k \in Nat /\ Len(q[i].code) \in Nat /\ k > Len(q[i].code)
  BY <1>1, <1>3, ToplevelAt
<1>5. EmitLinksAt(asm, q, text, m, id, i, k)
  BY <1>3 DEF EmitLinks
<1>6. ASSUME NEW t \in 1..Len(q), NEW e \in 1..Len(q[t].code), t < i + 1 \/ (t = i + 1 /\ e < 0)
      PROVE  t < i \/ (t = i /\ e < k)
  BY <1>4, <1>6
<1>7. EmitLinksAt(asm, q, text, m, id, i + 1, 0)
  BY <1>5, <1>6 DEF EmitLinksAt
<1>8. /\ pos'[1] = i + 1 /\ pos'[2] = 0 /\ tops' = q /\ asm' = asm
      /\ job'.source = text /\ job'.n = m /\ job'.id = id
  BY <1>1, <1>2, <1>3
<1> QED BY <1>7, <1>8 DEF EmitLinks

(* From the parser to the back end, and what that leaves.                  *)
LEMMA ParseEndsLinks ==
  ASSUME ParseInv, ParseLinks, SourceOK(job.source), pos[1] > Len(job.source)
  PROVE  EmitLinksAt(<<>>, tops, job.source, job.n, job.id, 1, 0)
<1>1. PICK text, m, id, q : text = job.source /\ m = job.n /\ id = job.id /\ q = tops
  OBVIOUS
<1>2. SourceOK(text) /\ Len(text) \in Nat
  BY <1>1 DEF SourceOK, IsSeq
<1>3. pos[1] = Len(text) + 1 /\ pos[2] = 0
  BY <1>1, <1>2 DEF ParseInv, ParseAt, FunctionAt
<1>4. /\ IsFiniteSet(StaticsTo(text, Len(text) + 1, 0))
      /\ TopsLinked(q, text, m, id) /\ UsesDone(q, code, text, m, Len(text) + 1, 0)
  BY <1>1, <1>3 DEF ParseLinks, ParseLinksAt, Counted
<1>5. ASSUME NEW u \in Mentions(text), ~Silent(text, u) PROVE InTops(q, <<m, u.i, u.k>>)
  <2>1. u.i < Len(text) + 1
    <3>1. \E j \in 1..Len(text) : u.i = j
      BY <1>2, MentionsAre DEF Mention
    <3> QED BY <1>2, <3>1
  <2>2. Mentioned(u, Len(text) + 1, 0)
    BY <2>1 DEF Mentioned
  <2> QED BY <1>4, <1>5, <2>2 DEF UsesDone
<1>6. LinesLinked(<<>>, text, m, id)
  BY ShortSeqs DEF LinesLinked
<1>7. \A t \in 1..Len(q) : \A e \in 1..Len(q[t].code) : ~(t < 1 \/ (t = 1 /\ e < 0))
  OBVIOUS
<1>8. EmitLinksAt(<<>>, q, text, m, id, 1, 0)
  BY <1>4, <1>5, <1>6, <1>7 DEF EmitLinksAt
<1> QED BY <1>1, <1>8

LEMMA EmitDoneLinks ==
  ASSUME EmitInv, EmitLinks, pos[1] > Len(tops)
  PROVE  ModuleLinked(asm, job.source, job.n, job.id)
<1>1. PICK text, m, id, q, i, k :
        /\ text = job.source /\ m = job.n /\ id = job.id /\ q = tops /\ i = pos[1] /\ k = pos[2]
  OBVIOUS
<1>2. EmitLinksAt(asm, q, text, m, id, i, k) /\ i > Len(q) /\ Len(q) \in Nat /\ i \in Nat
  <2>1. EmitAt(asm, q, m, i, k) /\ IsSeq(q)
    BY <1>1 DEF EmitInv, TopsAre
  <2>2. Len(q) \in Nat /\ i \in Nat
    BY <2>1 DEF EmitAt, IsSeq
  <2> QED BY <1>1, <2>2 DEF EmitLinks
<1>3. ASSUME NEW u \in Mentions(text), ~Silent(text, u) PROVE UsedAt(asm, <<m, u.i, u.k>>)
  <2>1. InTops(q, <<m, u.i, u.k>>)
    BY <1>2, <1>3 DEF EmitLinksAt
  <2>2. PICK t \in 1..Len(q) : InCode(q[t].code, <<m, u.i, u.k>>)
    BY <2>1 DEF InTops
  <2>3. PICK e \in 1..Len(q[t].code) : Refers(q[t].code[e]) /\ q[t].code[e].at = <<m, u.i, u.k>>
    BY <2>2 DEF InCode
  <2>4. t < i
    BY <1>2
  <2>5. UsedAt(asm, q[t].code[e].at)
    BY <1>2, <2>3, <2>4 DEF EmitLinksAt
  <2> QED BY <2>3, <2>5
<1>4. ModuleLinked(asm, text, m, id)
  BY <1>2, <1>3 DEF EmitLinksAt, ModuleLinked
<1> QED BY <1>1, <1>4

(* A step of the compiler.                                                 *)
(* What a module's names stand for, while it is compiled and when its      *)
(* assembly is done.                                                       *)
ModuleDone == ModuleLinked(asm, job.source, job.n, job.id)
NInv ==
  /\ phase \in {"idle", "options", "source", "open", "preprocess"} => pos = <<1, 0>> /\ counts.static = 0
  /\ phase = "parse" => ParseLinks
  /\ phase = "emit" => EmitLinks
  /\ phase \in {"close", "closeagain"} \/ (phase = "exit" /\ ccstatus = 0) =>
       job.opts \cap {"E", "ast"} # {} \/ ModuleDone

LEMMA ParseStartsLinked ==
  ASSUME NEW text, SourceOK(text), NEW m, NEW id, NEW loc, NEW c
  PROVE  ParseLinksAt(text, m, id, 1, 0, Nothing, loc, <<>>, c, 0)
<1>1. Counted(text, 1, 0, 0)
  BY CountedFirst DEF SourceOK, IsSeq
<1>2. GlobalLabels(Nothing, text, id, 1 - 1)
  BY LabelsStart
<1>3. TopsLinked(<<>>, text, m, id)
  BY ShortSeqs DEF TopsLinked
<1>4. ASSUME NEW u \in Mentions(text), Mentioned(u, 1, 0) PROVE FALSE
  <2>1. ParseAt(text, m, 1, 0, Nothing, loc, <<>>, c)
    BY ParseBegins
  <2>2. \E j \in 1..Len(text) : u.i = j
    BY MentionsAre DEF Mention
  <2>3. u.k = 0 \/ \E j \in 1..Len(text) : u.k \in 1..Len(text[j].body)
    BY MentionsAre DEF Mention
  <2> QED BY <1>4, <2>2, <2>3 DEF Mentioned
<1> QED BY <1>1, <1>2, <1>3, <1>4 DEF ParseLinksAt, UsesDone

LEMMA ReadingLinks ==
  ASSUME CInv, CInv', LInv, NInv, SourceOK(job.source),
         ReadDecl \/ FuncBegins \/ FuncEnds \/ ReadName \/ ReadCall \/ ReadLocal \/ ReadStatic
         \/ ReadLoop \/ ReadOther
  PROVE  NInv'
<1>1. phase = "parse" /\ phase' = "parse"
  BY DEF ReadDecl, FuncBegins, FuncEnds, ReadName, ReadCall, ReadLocal, ReadStatic,
         ReadLoop, ReadOther, AtHead, AtPart, Reading, At, Goto
<1>2. ParseInv /\ ParseInv' /\ ParseLinks /\ counts \in [label : Nat, static : Nat]
  BY <1>1 DEF CInv, LInv, NInv
<1>3. ParseLinks'
  BY <1>2, DeclLinks, FuncBeginLinks, FuncEndLinks, NameLinks, CallLinks, LocalLinks, StaticLinks,
     OtherLinks
<1> QED BY <1>1, <1>3 DEF NInv

LEMMA CompileNInv ==
  ASSUME CInv, CInv', LInv, NInv, SourceOK(job.source), Compile
  PROVE  NInv'
<1> USE DEF At, Goto, Exit
<1>1. CASE ParseOpt \/ LexInit
  <2>1. /\ phase \in {"options", "source"}
        /\ phase' \in {"source", "open"} \/ (phase' = "exit" /\ ccstatus' = 1)
        /\ UNCHANGED <<pos, counts>>
    BY <1>1 DEF ParseOpt, LexInit, parsing
  <2> QED BY <2>1 DEF NInv
<1>2. CASE OpenAsm
  <2>1. /\ phase' \in {"preprocess", "parse"} /\ phase = "open" /\ asm' = <<>>
        /\ UNCHANGED <<job, pos, global, local, counts, code, tops>>
    BY <1>2 DEF OpenAsm, parsing
  <2>2. global = Nothing /\ local = Nothing /\ code = <<>> /\ tops = <<>> /\ pos = <<1, 0>> /\ counts.static = 0
    BY <2>1 DEF LInv, NInv
  <2>3. ParseLinksAt(job.source, job.n, job.id, 1, 0, Nothing, Nothing, <<>>, <<>>, 0)
    BY ParseStartsLinked
  <2>4. pos[1] = 1 /\ pos[2] = 0
    BY <2>2
  <2>5. ParseLinks
    BY <2>2, <2>3, <2>4 DEF ParseLinks
  <2>6. ParseLinks'
    BY <2>1, <2>5 DEF ParseLinks
  <2> QED BY <2>1, <2>2, <2>6 DEF NInv
<1>3. CASE Preprocess
  <2>1. phase = "preprocess" /\ phase' = "exit" /\ UNCHANGED job
    BY <1>3 DEF Preprocess
  <2>2. "E" \in job.opts
    BY <2>1 DEF CInv
  <2> QED BY <2>1, <2>2 DEF NInv
<1>4. CASE ReadDecl \/ FuncBegins \/ FuncEnds \/ ReadName \/ ReadCall \/ ReadLocal \/ ReadStatic
           \/ ReadLoop \/ ReadOther
  BY <1>4, ReadingLinks
<1>5. CASE ReadDeclUndefined \/ SyntaxError \/ ReadNameUndefined \/ ReadCallNoFunction \/ ReadStaticUndefined
           \/ EmitUnsupported
  <2>1. phase' = "exit" /\ ccstatus' = 1
    BY <1>5 DEF ReadDeclUndefined, SyntaxError, ReadNameUndefined, ReadCallNoFunction,
         ReadStaticUndefined, ParseError, EmitUnsupported
  <2> QED BY <2>1 DEF NInv
<1>6. CASE ParseEnds
  <2>1. /\ phase = "parse" /\ pos' = <<1, 0>> /\ pos[1] > Len(job.source)
        /\ phase' = (IF "ast" \in job.opts THEN "close" ELSE "emit")
        /\ UNCHANGED <<job, tops, asm>>
    BY <1>6 DEF ParseEnds
  <2>2. ParseInv /\ ParseLinks /\ asm = <<>>
    BY <2>1 DEF CInv, NInv, ParseInv
  <2>3. EmitLinksAt(<<>>, tops, job.source, job.n, job.id, 1, 0)
    BY <2>1, <2>2, ParseEndsLinks
  <2>4. pos'[1] = 1 /\ pos'[2] = 0
    BY <2>1
  <2>5. EmitLinks'
    BY <2>1, <2>2, <2>3, <2>4 DEF EmitLinks
  <2> QED BY <2>1, <2>5 DEF NInv
<1>7. CASE EmitHead \/ EmitElement \/ EmitNext
  <2>1. phase = "emit" /\ phase' = "emit"
    BY <1>7 DEF EmitHead, EmitElement, EmitNext, Emitting, Emit
  <2>2. EmitLinks /\ EmitLabels /\ IsSeq(asm) /\ EmitInv
    BY <2>1 DEF LInv, CInv, NInv, Labelled
  <2>3. EmitLinks'
    BY <1>7, <2>2, HeadLinks, ElementLinks, NextLinks
  <2> QED BY <2>1, <2>3 DEF NInv
<1>8. CASE EmitEnds
  <2>1. phase = "emit" /\ phase' = "close" /\ pos[1] > Len(tops) /\ UNCHANGED <<job, asm>>
    BY <1>8 DEF EmitEnds
  <2>2. EmitInv /\ EmitLinks
    BY <2>1 DEF CInv, NInv
  <2>3. ModuleDone'
    BY <2>1, <2>2, EmitDoneLinks DEF ModuleDone
  <2> QED BY <2>1, <2>3 DEF NInv
<1>9. CASE CloseOutput \/ CloseAgain
  <2>1. phase \in {"close", "closeagain"} /\ phase' \in {"closeagain", "exit"} /\ UNCHANGED <<job, asm>>
    BY <1>9 DEF CloseOutput, CloseAgain
  <2>2. ModuleDone => ModuleDone'
    BY <2>1 DEF ModuleDone
  <2> QED BY <2>1, <2>2 DEF NInv
<1> QED BY <1>1, <1>2, <1>3, <1>4, <1>5, <1>6, <1>7, <1>8, <1>9 DEF Compile, Parse

(* What has been merged: the start-up, and the first k modules.            *)
ModuleId(m) == "m" \o ToString(m)
LineOfModules(x, sources, k) ==
  \/ x.at[1] = 0 /\ ~Labels(x)
  \/ \E m \in 1..k : LineLinked(x, sources[m].text, m, ModuleId(m))
UsesLinked(lines, text, m) ==
  /\ \A u \in Mentions(text) : ~Silent(text, u) => UsedAt(lines, <<m, u.i, u.k>>)
  /\ IsFiniteSet(StaticsTo(text, Len(text) + 1, 0))
AllLinked(lines, sources, k) ==
  /\ IsSeq(lines)
  /\ \A l \in 1..Len(lines) : LineOfModules(lines[l], sources, k)
  /\ \A m \in 1..k : UsesLinked(lines, sources[m].text, m)

LEMMA UsedConcat ==
  ASSUME NEW a, IsSeq(a), NEW b, IsSeq(b), NEW text, NEW m, UsesLinked(a, text, m) \/ UsesLinked(b, text, m)
  PROVE  UsesLinked(a \o b, text, m)
<1>1. PICK c : c = a \o b
  OBVIOUS
<1>2. Follows(c, a, b)
  BY <1>1, ConcatFollows
<1>3. ASSUME NEW at, UsedAt(a, at) \/ UsedAt(b, at) PROVE UsedAt(c, at)
  <2>1. CASE UsedAt(a, at)
    BY <1>2, <2>1 DEF UsedAt, Follows
  <2>2. CASE UsedAt(b, at)
    BY <1>2, <2>2 DEF UsedAt, Follows
  <2> QED BY <1>3, <2>1, <2>2
<1>4. UsesLinked(c, text, m)
  BY <1>3 DEF UsesLinked
<1> QED BY <1>1, <1>4

LEMMA MergeLinked ==
  ASSUME NEW a, NEW b, NEW sources, NEW k \in Nat \ {0}, AllLinked(a, sources, k - 1),
         IsSeq(b), ModuleLinked(b, sources[k].text, k, ModuleId(k))
  PROVE  AllLinked(a \o b, sources, k)
<1>1. PICK c : c = a \o b
  OBVIOUS
<1>2. Follows(c, a, b) /\ IsSeq(a)
  BY <1>1, ConcatFollows DEF AllLinked
<1>3. \A m \in 1..k - 1 : m \in 1..k
  OBVIOUS
<1>4. ASSUME NEW l \in 1..Len(c) PROVE LineOfModules(c[l], sources, k)
  <2>1. CASE l \in 1..Len(a) /\ c[l] = a[l]
    <3>1. LineOfModules(a[l], sources, k - 1)
      BY <2>1 DEF AllLinked
    <3> QED BY <1>3, <2>1, <3>1 DEF LineOfModules
  <2>2. CASE \E j \in 1..Len(b) : l = Len(a) + j /\ c[l] = b[j]
    <3>1. LineLinked(c[l], sources[k].text, k, ModuleId(k))
      BY <2>2 DEF ModuleLinked, LinesLinked
    <3>2. k \in 1..k
      OBVIOUS
    <3> QED BY <3>1, <3>2 DEF LineOfModules
  <2> QED BY <1>2, <2>1, <2>2 DEF Follows
<1>5. ASSUME NEW m \in 1..k PROVE UsesLinked(c, sources[m].text, m)
  <2>1. CASE m \in 1..k - 1
    BY <1>1, <1>2, <2>1, UsedConcat DEF AllLinked
  <2>2. CASE m = k
    <3>1. UsesLinked(b, sources[m].text, m)
      BY <2>2 DEF ModuleLinked, UsesLinked
    <3> QED BY <1>1, <1>2, <3>1, UsedConcat
  <2> QED BY <2>1, <2>2
<1>6. AllLinked(c, sources, k)
  BY <1>2, <1>4, <1>5 DEF AllLinked, Follows
<1> QED BY <1>1, <1>6

LEMMA StartupLinked ==
  ASSUME NEW b, NEW sources, NEW k, AllLinked(b, sources, k), NEW main
  PROVE  AllLinked(Startup(main) \o b, sources, k)
<1>1. PICK s, c : s = Startup(main) /\ c = s \o b
  OBVIOUS
<1>2. IsSeq(s) /\ Len(s) = 1 /\ s[1].at = <<0, 0, 0>> /\ s[1].op \in {"use", "hlt"} /\ IsSeq(b)
  BY <1>1, StartupIs DEF AllLinked
<1>3. Follows(c, s, b)
  BY <1>1, <1>2, ConcatFollows
<1>4. ASSUME NEW l \in 1..Len(c) PROVE LineOfModules(c[l], sources, k)
  <2>1. CASE l \in 1..Len(s) /\ c[l] = s[l]
    <3>1. c[l] = s[1]
      BY <1>2, <2>1
    <3> QED BY <1>2, <3>1 DEF LineOfModules, Labels
  <2>2. CASE \E j \in 1..Len(b) : l = Len(s) + j /\ c[l] = b[j]
    BY <2>2 DEF AllLinked
  <2> QED BY <1>3, <2>1, <2>2 DEF Follows
<1>5. ASSUME NEW m \in 1..k PROVE UsesLinked(c, sources[m].text, m)
  BY <1>1, <1>2, UsedConcat DEF AllLinked
<1>6. AllLinked(c, sources, k)
  BY <1>3, <1>4, <1>5 DEF AllLinked, Follows
<1> QED BY <1>1, <1>6

(* The script's steps while it merges, and what it has merged by then.     *)
Early == {"check", "temp", "trap", "compiler", "next", "compiling"}
MInv ==
  ~Direct =>
    /\ step \in Early => AllLinked(merged, Sources, n - 1)
    /\ step \in {"copy", "stop", "assemble", "report"} => AllLinked(merged, Sources, Len(Sources))

LEMMA InitNames == Init => NInv /\ MInv
<1> SUFFICES ASSUME Init PROVE NInv /\ MInv
  OBVIOUS
<1>1. /\ counts = [label |-> 0, static |-> 0] /\ merged = <<>> /\ n = 1 /\ pos = <<1, 0>>
      /\ phase \in {"options", "idle"} /\ step \in {"check", "compiling"}
  BY DEF Init, CcInit
<1>2. NInv
  BY <1>1 DEF NInv
<1>3. AllLinked(merged, Sources, n - 1)
  BY <1>1, ShortSeqs DEF AllLinked
<1> QED BY <1>1, <1>2, <1>3 DEF MInv, Early

LEMMA NextNInv ==
  ASSUME NInv, LInv, SInv, SInv', [Next]_vars
  PROVE  NInv'
<1> USE DEF Script, Then, NoCc, NoTemps
<1>1. CASE CompileNext
  <2>1. counts' = [label |-> 0, static |-> 0] /\ phase' = "options" /\ pos' = <<1, 0>>
    BY <1>1 DEF CompileNext, Run
  <2> QED BY <2>1 DEF NInv
<1>2. CASE Compiling
  <2>1. step = "compiling" /\ step' = step /\ Compile
    BY <1>2 DEF Compiling
  <2>2. /\ n \in 1..Len(Sources) /\ job = Job(n) /\ CInv
        /\ \A i \in 1..Len(Sources) : SourceOK(Sources[i].text)
    <3>1. build \in Builds /\ n \in 1..Len(Sources) + 1 /\ n <= Len(Sources) /\ job = Job(n) /\ CInv
      BY <2>1 DEF SInv
    <3>2. Len(Sources) \in Nat /\ \A i \in 1..Len(Sources) : SourceOK(Sources[i].text)
      BY <3>1, BuildIs DEF Sources
    <3> QED BY <3>1, <3>2
  <2>3. SourceOK(job.source)
    BY <2>2 DEF Job
  <2>4. CInv'
    BY <2>1 DEF SInv
  <2> QED BY <2>1, <2>2, <2>3, <2>4, CompileNInv
<1>3. CASE \/ Check \/ MakeTemp \/ SetTrap \/ FindCompiler \/ Failed \/ Merge \/ AddStartup \/ Copy
           \/ Stop \/ Assemble \/ Report \/ Interrupt \/ DirectEnds \/ Stopped \/ UNCHANGED vars
  <2>1. UNCHANGED <<phase, job, pos, global, local, counts, code, tops, asm, ccstatus>>
    BY <1>3 DEF Check, MakeTemp, SetTrap, FindCompiler, Failed, Merge, AddStartup, Copy, Stop,
         Assemble, Report, Interrupt, DirectEnds, Ends, Stopped, vars, ccVars, parsing
  <2> QED BY <2>1 DEF NInv, ParseLinks, EmitLinks, ModuleDone
<1> QED BY <1>1, <1>2, <1>3 DEF Next

LEMMA NextMInv ==
  ASSUME MInv, NInv, LInv, SInv, [Next]_vars
  PROVE  MInv'
<1> USE DEF Script, Then, NoCc, NoTemps
<1>1. n \in Nat \ {0} /\ n \in 1..Len(Sources) + 1 /\ Len(Sources) \in Nat
  <2>1. build \in Builds /\ n \in 1..Len(Sources) + 1
    BY DEF SInv
  <2>2. Len(Sources) \in Nat
    BY <2>1, BuildIs DEF Sources
  <2> QED BY <2>1, <2>2
<1>2. CASE Merge
  <2>1. /\ ~Direct /\ step = "compiling" /\ merged' = merged \o asm /\ n' = n + 1 /\ step' = "next"
        /\ phase = "exit" /\ ccstatus = 0 /\ UNCHANGED build
    BY <1>2 DEF Merge
  <2>2. job = Job(n)
    BY <2>1 DEF SInv
  <2>3. job.opts = {"S"} /\ job.id = ModuleId(n) /\ job.source = Sources[n].text /\ job.n = n
    BY <2>1, <2>2 DEF Job, ModuleId
  <2>4. ModuleLinked(asm, Sources[n].text, n, ModuleId(n))
    BY <2>1, <2>3 DEF NInv, ModuleDone
  <2>5. AllLinked(merged, Sources, n - 1) /\ IsSeq(asm)
    BY <2>1 DEF MInv, Early, LInv, Labelled
  <2>6. AllLinked(merged \o asm, Sources, n)
    BY <1>1, <2>4, <2>5, MergeLinked
  <2>7. n' - 1 = n /\ Sources' = Sources
    BY <1>1, <2>1 DEF Sources
  <2> QED BY <2>1, <2>6, <2>7 DEF MInv, Early
<1>3. CASE AddStartup
  <2>1. /\ ~Direct /\ step = "next" /\ n > Len(Sources) /\ UNCHANGED build
        /\ merged' = Startup(DefinesMain(merged)) \o merged /\ step' = "copy"
    BY <1>3 DEF AddStartup
  <2>2. n - 1 = Len(Sources)
    BY <1>1, <2>1
  <2>3. AllLinked(merged, Sources, Len(Sources))
    BY <2>1, <2>2 DEF MInv, Early
  <2>4. AllLinked(Startup(DefinesMain(merged)) \o merged, Sources, Len(Sources))
    BY <2>3, StartupLinked
  <2>5. Sources' = Sources
    BY <2>1 DEF Sources
  <2> QED BY <2>1, <2>4, <2>5 DEF MInv, Early
<1>4. CASE \/ Check \/ MakeTemp \/ SetTrap \/ FindCompiler \/ CompileNext \/ Compiling \/ Failed \/ Copy
           \/ Stop \/ Assemble \/ Report \/ Interrupt \/ DirectEnds \/ Stopped \/ UNCHANGED vars
  <2>1. /\ UNCHANGED <<merged, n, build>>
        /\ \/ step' = "ended"
           \/ step \in Early /\ step' \in Early
           \/ step' \in {"copy", "stop", "assemble", "report"} /\ step \in {"copy", "stop", "assemble", "report"}
           \/ step' = step
    BY <1>4 DEF Check, MakeTemp, SetTrap, FindCompiler, CompileNext, Compiling, Failed, Copy, Stop,
         Assemble, Report, Interrupt, DirectEnds, Ends, Stopped, vars, linkVars, Early
  <2>2. Sources' = Sources /\ (Direct' <=> Direct)
    BY <2>1 DEF Sources, Direct
  <2> QED BY <2>1, <2>2 DEF MInv, Early
<1> QED BY <1>2, <1>3, <1>4 DEF Next

(* What the assembler is given, and what the labels in it stand for.       *)
Assembled ==
  /\ build \in Builds
  /\ AllLinked(merged, Sources, Len(Sources)) /\ NamesAre(merged, Sources, 1..Len(Sources))
  /\ \A m \in 1..Len(Sources) : ~Wrong(Sources[m].text)

LEMMA ModulesOfBuild ==
  ASSUME build \in Builds
  PROVE  /\ Len(Sources) \in Nat /\ Modules = 1..Len(Sources)
         /\ \A m \in 1..Len(Sources) : SourceOK(Sources[m].text) /\ Text(m) = Sources[m].text
         /\ \A i, j \in 1..Len(Sources) : i # j => ModuleId(i) # ModuleId(j)
<1>1. build \in Builds
  OBVIOUS
<1>2. /\ Len(build.sources) \in Nat /\ DOMAIN build.sources = 1..Len(build.sources)
      /\ \A i \in 1..Len(build.sources) : SourceOK(build.sources[i].text)
      /\ \A i, j \in 1..Len(build.sources) : i # j => "m" \o ToString(i) # "m" \o ToString(j)
  BY <1>1, BuildIs
<1> QED BY <1>2 DEF Sources, Modules, Text, ModuleId

LEMMA MentionOnce ==
  ASSUME NEW text, SourceOK(text), NEW u \in Mentions(text), NEW v \in Mentions(text), u.i = v.i, u.k = v.k
  PROVE  u = v
<1> DEFINE Is(w, i) ==
             \/ text[i].op = "decl" /\ Address(text[i].init) /\ w = Mention(i, 0, text[i].init, "init")
             \/ /\ text[i].op = "func"
                /\ \E k \in 1..Len(text[i].body) :
                     \/ /\ text[i].body[k].op \in {"read", "call"}
                        /\ w = Mention(i, k, text[i].body[k].name, text[i].body[k].op)
                     \/ /\ text[i].body[k].op = "static" /\ Address(text[i].body[k].init)
                        /\ w = Mention(i, k, text[i].body[k].init, "init")
<1>1. PICK i \in 1..Len(text) : Is(u, i)
  BY MentionsAre
<1>2. PICK j \in 1..Len(text) : Is(v, j)
  BY MentionsAre
<1>3. u.i = i /\ v.i = j
  BY <1>1, <1>2 DEF Mention
<1>4. CASE text[i].op = "decl"
  BY <1>1, <1>2, <1>3, <1>4
<1>5. CASE text[i].op = "func"
  <2>1. PICK k \in 1..Len(text[i].body) :
               \/ /\ text[i].body[k].op \in {"read", "call"}
                  /\ u = Mention(i, k, text[i].body[k].name, text[i].body[k].op)
               \/ /\ text[i].body[k].op = "static" /\ Address(text[i].body[k].init)
                  /\ u = Mention(i, k, text[i].body[k].init, "init")
    BY <1>1, <1>5
  <2>2. PICK l \in 1..Len(text[i].body) :
               \/ /\ text[i].body[l].op \in {"read", "call"}
                  /\ v = Mention(i, l, text[i].body[l].name, text[i].body[l].op)
               \/ /\ text[i].body[l].op = "static" /\ Address(text[i].body[l].init)
                  /\ v = Mention(i, l, text[i].body[l].init, "init")
    BY <1>2, <1>3, <1>5
  <2>3. u.k = k /\ v.k = l
    BY <2>1, <2>2 DEF Mention
  <2> QED BY <2>1, <2>2, <2>3
<1> QED BY <1>1, <1>4, <1>5

LEMMA MentionIn ==
  ASSUME NEW text, SourceOK(text), NEW u \in Mentions(text)
  PROVE  /\ u.i \in 1..Len(text) /\ Len(text) \in Nat /\ u.i \in Nat
         /\ u.how \in {"read", "call", "init"}
         /\ u.how \in {"read", "call"} => u.k # 0
         /\ u.k = 0 \/ (u.k \in 1..Len(text[u.i].body) /\ Len(text[u.i].body) \in Nat)
<1>1. Len(text) \in Nat
  BY DEF SourceOK, IsSeq
<1>2. PICK i \in 1..Len(text) :
             \/ text[i].op = "decl" /\ Address(text[i].init) /\ u = Mention(i, 0, text[i].init, "init")
             \/ /\ text[i].op = "func"
                /\ \E k \in 1..Len(text[i].body) :
                     \/ /\ text[i].body[k].op \in {"read", "call"}
                        /\ u = Mention(i, k, text[i].body[k].name, text[i].body[k].op)
                     \/ /\ text[i].body[k].op = "static" /\ Address(text[i].body[k].init)
                        /\ u = Mention(i, k, text[i].body[k].init, "init")
  BY MentionsAre
<1>3. u.i = i
  BY <1>2 DEF Mention
<1>4. CASE text[i].op = "decl"
  <2>1. u.k = 0 /\ u.how = "init"
    BY <1>2, <1>4 DEF Mention
  <2> QED BY <1>1, <1>3, <2>1
<1>5. CASE text[i].op = "func"
  <2>1. PICK k \in 1..Len(text[i].body) :
               \/ /\ text[i].body[k].op \in {"read", "call"}
                  /\ u = Mention(i, k, text[i].body[k].name, text[i].body[k].op)
               \/ /\ text[i].body[k].op = "static" /\ Address(text[i].body[k].init)
                  /\ u = Mention(i, k, text[i].body[k].init, "init")
    BY <1>2, <1>5
  <2>2. u.k = k /\ u.how \in {"read", "call", "init"}
    BY <2>1 DEF Mention
  <2>3. Len(text[i].body) \in Nat
    BY <1>5, BodyOf
  <2>4. k # 0
    OBVIOUS
  <2> QED BY <1>1, <1>3, <2>2, <2>3, <2>4
<1> QED BY <1>2, <1>4, <1>5

(* Where a label is defined.                                               *)
LEMMA DefinitionIs ==
  ASSUME Assembled, NEW l \in Defined(merged), merged[l].label.kind # "L"
  PROVE  \E m \in 1..Len(Sources) : \E j, p \in Nat :
           /\ merged[l].at = <<m, j, p>> /\ DefinesAt(Sources[m].text, j, p)
           /\ merged[l].label = PlaceLabel(Sources[m].text, ModuleId(m), j, p)
<1>1. l \in 1..Len(merged) /\ Labels(merged[l]) /\ ~Numbered(merged[l])
  BY DEF Defined, Labels, Numbered, Assembled, AllLinked, IsSeq
<1>2. PICK m \in 1..Len(Sources) : LineLinked(merged[l], Sources[m].text, m, ModuleId(m))
  BY <1>1 DEF Assembled, AllLinked, LineOfModules
<1>3. Placed(merged[l], Sources[m].text, m, ModuleId(m))
  BY <1>1, <1>2 DEF LineLinked
<1> QED BY <1>3 DEF Placed

LEMMA DefinedThere ==
  ASSUME Assembled, NEW m \in 1..Len(Sources), NEW j \in Nat, NEW p \in Nat, DefinesAt(Sources[m].text, j, p)
  PROVE  \E l \in Defined(merged) :
           merged[l].at = <<m, j, p>> /\ merged[l].label = PlaceLabel(Sources[m].text, ModuleId(m), j, p)
<1>1. PICK l \in Names(merged) : merged[l].at = <<m, j, p>>
  BY DEF Assembled, NamesAre
<1>2. l \in Defined(merged) /\ merged[l].label.kind # "L"
  BY DEF Names, Defined, Assembled, AllLinked, IsSeq
<1>3. PICK m2 \in 1..Len(Sources), j2 \in Nat, p2 \in Nat :
        /\ merged[l].at = <<m2, j2, p2>>
        /\ merged[l].label = PlaceLabel(Sources[m2].text, ModuleId(m2), j2, p2)
  BY <1>2, DefinitionIs
<1>4. m2 = m /\ j2 = j /\ p2 = p
  BY <1>1, <1>3
<1> QED BY <1>1, <1>2, <1>3, <1>4

LEMMA StaticPlace ==
  ASSUME Assembled, NEW m \in 1..Len(Sources), NEW text, text = Sources[m].text,
         NEW j \in 1..Len(text), NEW p \in Nat, StaticAt(text, j, p)
  PROVE  \A at : at \in PlacesOf(PlaceLabel(text, ModuleId(m), j, p)) <=>
                   at = <<m, j, p>> /\ DefinesAt(text, j, p)
<1>1. PICK label : label = PlaceLabel(text, ModuleId(m), j, p)
  OBVIOUS
<1>2. label.kind = "S" /\ label.id = ModuleId(m) /\ label.n = Num(text, j, p)
  BY <1>1 DEF PlaceLabel, Label
<1>3. SourceOK(text) /\ Len(text) \in Nat /\ j \in Nat
      /\ \A i, l \in 1..Len(Sources) : i # l => ModuleId(i) # ModuleId(l)
  <2>1. SourceOK(text) /\ \A i, l \in 1..Len(Sources) : i # l => ModuleId(i) # ModuleId(l)
    BY ModulesOfBuild DEF Assembled
  <2>2. Len(text) \in Nat
    BY <2>1 DEF SourceOK, IsSeq
  <2> QED BY <2>1, <2>2
<1>4. IsFiniteSet(StaticsTo(text, Len(text) + 1, 0))
  BY DEF Assembled, AllLinked, UsesLinked
<1>5. ASSUME NEW l \in Defined(merged), merged[l].label = label
      PROVE  merged[l].at = <<m, j, p>> /\ DefinesAt(text, j, p)
  <2>1. PICK m2 \in 1..Len(Sources), j2 \in Nat, p2 \in Nat :
          /\ merged[l].at = <<m2, j2, p2>> /\ DefinesAt(Sources[m2].text, j2, p2)
          /\ label = PlaceLabel(Sources[m2].text, ModuleId(m2), j2, p2)
    <3>1. merged[l].label.kind # "L"
      BY <1>2, <1>5
    <3> QED BY <1>5, <3>1, DefinitionIs
  <2>2. StaticAt(Sources[m2].text, j2, p2)
    <3>1. ~StaticAt(Sources[m2].text, j2, p2) => label.kind = "public"
      BY <2>1 DEF PlaceLabel, Public, Label
    <3> QED BY <1>2, <3>1
  <2>3. label.id = ModuleId(m2) /\ label.n = Num(Sources[m2].text, j2, p2)
    BY <2>1, <2>2 DEF PlaceLabel, Label
  <2>4. m2 = m
    BY <1>2, <1>3, <2>3
  <2>5. DefinesAt(text, j2, p2) /\ StaticAt(text, j2, p2) /\ Num(text, j2, p2) = Num(text, j, p)
    BY <1>2, <2>1, <2>2, <2>3, <2>4
  <2>6. j2 \in 1..Len(text)
    BY <1>3, <2>5 DEF DefinesAt, SourceOK, IsSeq
  <2>7. PICK q, r : q = <<j, p>> /\ r = <<j2, p2>>
    OBVIOUS
  <2>8. q \in StaticsTo(text, Len(text) + 1, 0) /\ r \in StaticsTo(text, Len(text) + 1, 0)
    BY <1>3, <2>5, <2>6, <2>7 DEF StaticsTo, Prior
  <2>9. q = r
    <3>1. Num(text, q[1], q[2]) = Num(text, r[1], r[2])
      BY <2>5, <2>7
    <3>2. Len(text) + 1 \in Nat /\ 0 \in Nat
      BY <1>3
    <3> QED BY <1>3, <1>4, <2>8, <3>1, <3>2, NumsDiffer
  <2> QED BY <2>1, <2>4, <2>5, <2>7, <2>9
<1>6. ASSUME DefinesAt(text, j, p)
      PROVE  \E l \in Defined(merged) : merged[l].at = <<m, j, p>> /\ merged[l].label = label
  BY <1>1, <1>3, <1>6, DefinedThere
<1>7. \A at : at \in PlacesOf(label) <=> \E l \in Defined(merged) : merged[l].label = label /\ at = merged[l].at
  BY DEF PlacesOf
<1> QED BY <1>1, <1>5, <1>6, <1>7

LEMMA PublicPlace ==
  ASSUME Assembled, NEW x, NEW at \in PlacesOf(Public(x))
  PROVE  \E m \in 1..Len(Sources) : \E j \in Nat :
           /\ at = <<m, j, 0>> /\ DefinesAt(Sources[m].text, j, 0)
           /\ ~StaticAt(Sources[m].text, j, 0) /\ Sources[m].text[j].name = x
<1>1. PICK l \in Defined(merged) : merged[l].label = Public(x) /\ at = merged[l].at
  BY DEF PlacesOf
<1>2. Public(x).kind = "public" /\ Public(x).name = x
  BY DEF Public, Label
<1>3. PICK m \in 1..Len(Sources), j \in Nat, p \in Nat :
        /\ at = <<m, j, p>> /\ DefinesAt(Sources[m].text, j, p)
        /\ Public(x) = PlaceLabel(Sources[m].text, ModuleId(m), j, p)
  BY <1>1, <1>2, DefinitionIs
<1>4. PICK text : text = Sources[m].text
  OBVIOUS
<1>5. ~StaticAt(text, j, p)
  <2>1. StaticAt(text, j, p) => Public(x).kind = "S"
    BY <1>3, <1>4 DEF PlaceLabel, Label
  <2> QED BY <1>2, <2>1
<1>6. p = 0
  <2>1. SourceOK(text) /\ DOMAIN text = 1..Len(text)
    BY <1>4, ModulesOfBuild DEF Assembled, SourceOK, IsSeq
  <2>2. p # 0 => StaticAt(text, j, p)
    <3>1. HAVE p # 0
    <3>2. j \in 1..Len(text) /\ text[j].op = "func" /\ p \in DOMAIN text[j].body /\ text[j].body[p].op = "static"
      BY <1>3, <1>4, <2>1, <3>1 DEF DefinesAt
    <3>3. DOMAIN text[j].body = 1..Len(text[j].body)
      BY <2>1, <3>2, BodyOf
    <3> QED BY <3>1, <3>2, <3>3 DEF StaticAt
  <2> QED BY <1>5, <2>2
<1>7. Public(x) = Public(text[j].name)
  BY <1>3, <1>4, <1>5, <1>6 DEF PlaceLabel, PlaceName
<1>8. text[j].name = x
  BY <1>7 DEF Public, Label
<1> QED BY <1>3, <1>4, <1>5, <1>6, <1>8

LEMMA NullPlace ==
  ASSUME Assembled
  PROVE  PlacesOf(Null) = {}
<1>1. ASSUME NEW l \in Defined(merged), merged[l].label = Null PROVE FALSE
  <2>1. Null.kind = "null"
    BY DEF Null, Label
  <2>2. PICK m \in 1..Len(Sources), j \in Nat, p \in Nat :
          Null = PlaceLabel(Sources[m].text, ModuleId(m), j, p)
    BY <1>1, <2>1, DefinitionIs
  <2>3. Null.kind \in {"S", "public"}
    BY <2>2 DEF PlaceLabel, Public, Label
  <2> QED BY <2>1, <2>3
<1> QED BY <1>1 DEF PlacesOf

(* The labels at a use.                                                    *)
LEMMA LabelsThere ==
  ASSUME Assembled, NEW m \in 1..Len(Sources), NEW text, text = Sources[m].text, NEW u \in Mentions(text)
  PROVE  /\ Silent(text, u) => LabelsAt(<<m, u.i, u.k>>) = {}
         /\ ~Silent(text, u) => LabelsAt(<<m, u.i, u.k>>) # {}
         /\ \A label \in LabelsAt(<<m, u.i, u.k>>) : Stands(text, ModuleId(m), u, label)
<1>1. /\ SourceOK(text) /\ IsSeq(merged) /\ Len(Sources) \in Nat
      /\ \A i \in 1..Len(Sources) : SourceOK(Sources[i].text)
  BY ModulesOfBuild DEF Assembled, AllLinked
<1>2. PICK at : at = <<m, u.i, u.k>>
  OBVIOUS
<1>3. ASSUME NEW l \in Used(merged), merged[l].at = at, merged[l].label.kind # "L"
      PROVE  ~Silent(text, u) /\ Stands(text, ModuleId(m), u, merged[l].label)
  <2>1. l \in 1..Len(merged) /\ merged[l].op = "use" /\ ~Numbered(merged[l]) /\ merged[l].at[1] # 0
    BY <1>1, <1>2, <1>3 DEF Used, IsSeq, Numbered
  <2>2. PICK m2 \in 1..Len(Sources) : LineLinked(merged[l], Sources[m2].text, m2, ModuleId(m2))
    BY <2>1 DEF Assembled, AllLinked, LineOfModules
  <2>3. Linked(merged[l], Sources[m2].text, m2, ModuleId(m2))
    BY <2>1, <2>2 DEF LineLinked
  <2>4. PICK v \in Mentions(Sources[m2].text) :
          /\ merged[l].at = <<m2, v.i, v.k>> /\ ~Silent(Sources[m2].text, v)
          /\ Stands(Sources[m2].text, ModuleId(m2), v, merged[l].label)
    BY <2>3 DEF Linked
  <2>5. m2 = m /\ v.i = u.i /\ v.k = u.k
    BY <1>2, <1>3, <2>4
  <2>6. v = u
    BY <1>1, <2>4, <2>5, MentionOnce
  <2> QED BY <2>4, <2>5, <2>6
<1>4. ASSUME ~Silent(text, u)
      PROVE  \E l \in Used(merged) : merged[l].at = at /\ merged[l].label.kind # "L"
  <2>1. UsedAt(merged, at)
    BY <1>2, <1>4 DEF Assembled, AllLinked, UsesLinked
  <2> QED BY <1>1, <2>1 DEF UsedAt, Used, IsSeq, Numbered
<1>5. \A label : label \in LabelsAt(at) <=>
        \E l \in Used(merged) : merged[l].at = at /\ merged[l].label.kind # "L" /\ label = merged[l].label
  BY DEF LabelsAt
<1> QED BY <1>2, <1>3, <1>4, <1>5

(* What Linkage says of the names in a module, of its text alone.          *)
LEMMA NamesInText ==
  ASSUME build \in Builds, NEW m \in 1..Len(Sources), NEW text, text = Sources[m].text
  PROVE  /\ \A i, x : Before(m, i, x) = Earlier(text, i, x)
         /\ \A i, k, x : InBlock(m, i, k, x) = Around(text, i, k, x) /\ BlockOp(m, i, k, x) = AroundOp(text, i, k, x)
         /\ \A x : Declarations(m, x) = Earlier(text, Len(text), x)
         /\ \A x : \A j \in Declarations(m, x) :
              /\ j \in 1..Len(text) /\ text[j].op \in {"decl", "func"} /\ text[j].name = x
              /\ DefinesAt(text, j, 0) <=> Defining(m, j)
              /\ StaticAt(text, j, 0) <=> Class(m, j) = "static"
<1>1. Text(m) = text /\ SourceOK(text)
  BY ModulesOfBuild
<1>2. DOMAIN text = 1..Len(text)
  BY <1>1 DEF SourceOK, IsSeq
<1>3. \A i, x : Before(m, i, x) = Earlier(text, i, x)
  BY <1>1 DEF Before, Earlier, Declares, Declare
<1>4. \A i, k, x : InBlock(m, i, k, x) = Around(text, i, k, x)
  BY <1>1 DEF InBlock, Around
<1>5. \A i, k, x : BlockOp(m, i, k, x) = AroundOp(text, i, k, x)
  BY <1>1, <1>4 DEF BlockOp, AroundOp
<1>6. \A x : Declarations(m, x) = Earlier(text, Len(text), x)
  BY <1>1, <1>3 DEF Declarations
<1>7. ASSUME NEW x, NEW j \in Declarations(m, x)
      PROVE  /\ j \in 1..Len(text) /\ text[j].op \in {"decl", "func"} /\ text[j].name = x
             /\ DefinesAt(text, j, 0) <=> Defining(m, j)
             /\ StaticAt(text, j, 0) <=> Class(m, j) = "static"
  <2>1. j \in 1..Len(text) /\ text[j].op \in {"decl", "func"} /\ text[j].name = x
    BY <1>6 DEF Earlier, Declare
  <2>2. Defining(m, j) <=> TentativeAt(text, j) \/ FullAt(text, j)
    BY <1>1 DEF Defining, Tentative, Full, TentativeAt, FullAt
  <2>3. DefinesAt(text, j, 0) <=> Defining(m, j)
    BY <1>2, <2>1, <2>2 DEF DefinesAt
  <2>4. StaticAt(text, j, 0) <=> Class(m, j) = "static"
    BY <1>1, <2>1 DEF StaticAt, Class
  <2> QED BY <2>1, <2>3, <2>4
<1> QED BY <1>3, <1>4, <1>5, <1>6, <1>7

(* The definition of a name is one of its declarations, and defines it.    *)
LEMMA DefinitionDefines ==
  ASSUME build \in Builds, NEW m \in 1..Len(Sources), NEW x, Definition(m, x) # 0
  PROVE  Definition(m, x) \in Declarations(m, x) /\ Defining(m, Definition(m, x))
<1>1. PICK full : full = {i \in Declarations(m, x) : Full(m, i)}
  OBVIOUS
<1>2. PICK last : last = {i \in Declarations(m, x) : Tentative(m, i)}
  OBVIOUS
<1>3. PICK len : len = Len(Sources[m].text) /\ len \in Nat
  BY ModulesOfBuild DEF SourceOK, IsSeq
<1>4. Declarations(m, x) \subseteq 1..len
  BY <1>3, NamesInText
<1>5. Definition(m, x) = IF full # {} THEN Max(full) ELSE Max(last \cup {0})
  BY <1>1, <1>2 DEF Definition
<1>6. full \subseteq 1..len /\ last \subseteq 1..len
  BY <1>1, <1>2, <1>4
<1> DEFINE d == Definition(m, x)
<1>7. CASE full # {}
  <2>1. PICK j : LastOf(full, j)
    BY <1>3, <1>6, <1>7, LastExists
  <2>2. full \subseteq Int
    BY <1>6
  <2>3. d = j /\ j \in full
    BY <1>5, <1>7, <2>1, <2>2, MaxIs DEF LastOf
  <2> QED BY <1>1, <2>3 DEF Defining
<1>8. CASE full = {} /\ last # {}
  <2>1. PICK j : LastOf(last, j)
    BY <1>3, <1>6, <1>8, LastExists
  <2>2. PICK s : s = last \cup {0}
    OBVIOUS
  <2>3. s \subseteq Int
    BY <1>6, <2>2
  <2>4. j \in 1..len
    BY <1>6, <2>1 DEF LastOf
  <2>5. LastOf(s, j)
    BY <1>3, <2>1, <2>2, <2>4 DEF LastOf
  <2>6. d = j /\ j \in last
    BY <1>5, <1>8, <2>1, <2>2, <2>3, <2>5, MaxIs DEF LastOf
  <2> QED BY <1>2, <2>6 DEF Defining
<1>9. CASE full = {} /\ last = {}
  <2>1. LastOf({0}, 0) /\ {0} \subseteq Int
    BY DEF LastOf
  <2>2. Max({0}) = 0
    BY <2>1, MaxIs
  <2> QED BY <1>5, <1>9, <2>2
<1> QED BY <1>7, <1>8, <1>9

(* Where a public name is defined, if no static leaks.                     *)
LEMMA PublicRight ==
  ASSUME Assembled, NEW x, ~Leaks(x)
  PROVE  /\ PlacesOf(Public(x)) \subseteq PublicPlaces(x)
         /\ \A m \in 1..Len(Sources) : \A j : Internal(m, x) => <<m, j, 0>> \notin PlacesOf(Public(x))
<1>1. ASSUME NEW at \in PlacesOf(Public(x))
      PROVE  \E m \in 1..Len(Sources) : \E j \in Declarations(m, x) : at = <<m, j, 0>> /\ ~Internal(m, x)
  <2>1. PICK m \in 1..Len(Sources), j \in Nat :
          /\ at = <<m, j, 0>> /\ DefinesAt(Sources[m].text, j, 0)
          /\ ~StaticAt(Sources[m].text, j, 0) /\ Sources[m].text[j].name = x
    BY <1>1, PublicPlace
  <2>2. PICK text : text = Sources[m].text
    OBVIOUS
  <2>3. build \in Builds /\ SourceOK(text) /\ m \in Modules
    BY <2>2, ModulesOfBuild DEF Assembled
  <2>4. DOMAIN text = 1..Len(text)
    BY <2>3 DEF SourceOK, IsSeq
  <2>5. j \in 1..Len(text) /\ text[j].op \in {"decl", "func"} /\ text[j].name = x
    BY <2>1, <2>2, <2>3, <2>4 DEF DefinesAt, SourceOK
  <2>6. j \in Earlier(text, Len(text), x)
    BY <2>5 DEF Earlier, Declare
  <2>7. j \in Declarations(m, x) /\ Defining(m, j) /\ Class(m, j) # "static"
    BY <2>1, <2>2, <2>3, <2>6, NamesInText
  <2>8. ~Internal(m, x)
    BY <2>3, <2>7 DEF Leaks
  <2> QED BY <2>1, <2>7, <2>8
<1>2. Modules = 1..Len(Sources)
  BY ModulesOfBuild DEF Assembled
<1>3. PlacesOf(Public(x)) \subseteq PublicPlaces(x)
  BY <1>1, <1>2 DEF PublicPlaces
<1>4. ASSUME NEW m \in 1..Len(Sources), NEW j, Internal(m, x) PROVE <<m, j, 0>> \notin PlacesOf(Public(x))
  BY <1>1, <1>4
<1> QED BY <1>3, <1>4

(* A use that means a declaration at file scope.                           *)
OfFile(m, u) ==
  LET labels == LabelsAt(<<m, u.i, u.k>>)
  IN  IF MeansInternal(m, u)
      THEN labels # {} /\ \A l \in labels : PlacesOf(l) = {<<m, Definition(m, u.x), 0>>}
      ELSE labels = {Public(u.x)} /\ PlacesOf(Public(u.x)) \subseteq PublicPlaces(u.x)

LEMMA FileRight ==
  ASSUME Assembled, NEW m \in 1..Len(Sources), NEW text, text = Sources[m].text, NEW u \in Mentions(text),
         Inner(text, u) = {}, ~Leaks(u.x), ~Clashes(u.x)
  PROVE  OfFile(m, u) <=> ~(MeansInternal(m, u) /\ Max(Before(m, u.i, u.x)) # Definition(m, u.x))
<1>1. PICK x, i, labels : x = u.x /\ i = u.i /\ labels = LabelsAt(<<m, u.i, u.k>>)
  OBVIOUS
<1>2. /\ build \in Builds /\ m \in Modules /\ SourceOK(text)
      /\ Len(text) \in Nat /\ i \in 1..Len(text) /\ i \in Nat
  <2>1. build \in Builds /\ m \in Modules /\ SourceOK(text)
    BY ModulesOfBuild DEF Assembled
  <2> QED BY <1>1, <2>1, MentionIn
<1>3. PICK file : file = Earlier(text, i, x) /\ file = Before(m, i, x)
  BY <1>2, NamesInText
<1>4. labels # {} /\ \A l \in labels : Stands(text, ModuleId(m), u, l)
  <2>1. ~Silent(text, u)
    BY DEF Silent, LastOf
  <2> QED BY <1>1, <2>1, LabelsThere
<1>5. /\ file = {} => labels = {Public(x)}
      /\ \A j : LastOf(file, j) => labels = {PlaceLabel(text, ModuleId(m), j, 0)}
  <2>1. \A l \in labels :
          /\ file = {} => l = Public(x)
          /\ \A j : LastOf(file, j) => l = PlaceLabel(text, ModuleId(m), j, 0)
    BY <1>1, <1>3, <1>4 DEF Stands
  <2> QED BY <1>4, <2>1
<1>6. file \subseteq 1..i /\ file \subseteq Int /\ file \subseteq Declarations(m, x)
  <2>1. file \subseteq 1..i /\ file \subseteq Earlier(text, Len(text), x)
    BY <1>2, <1>3 DEF Earlier
  <2> QED BY <1>2, <2>1, NamesInText
<1>7. /\ PlacesOf(Public(x)) \subseteq PublicPlaces(x)
      /\ \A j : Internal(m, x) => <<m, j, 0>> \notin PlacesOf(Public(x))
  BY <1>1, PublicRight
<1>8. PICK d : d = Definition(m, x)
  OBVIOUS
<1>9. /\ MeansInternal(m, u) <=> Internal(m, x) /\ file # {}
      /\ OfFile(m, u) <=>
           IF MeansInternal(m, u)
           THEN labels # {} /\ \A l \in labels : PlacesOf(l) = {<<m, d, 0>>}
           ELSE labels = {Public(x)} /\ PlacesOf(Public(x)) \subseteq PublicPlaces(x)
      /\ Max(Before(m, u.i, u.x)) # Definition(m, u.x) <=> Max(file) # d
  BY <1>1, <1>3, <1>8 DEF MeansInternal, OfFile
<1>10. CASE file = {}
  BY <1>5, <1>7, <1>9, <1>10
<1>11. CASE file # {}
  <2>1. PICK j : LastOf(file, j)
    BY <1>2, <1>6, <1>11, LastExists
  <2>2. j \in Declarations(m, x) /\ Max(file) = j
    BY <1>6, <2>1, MaxIs DEF LastOf
  <2>3. PICK label : label = PlaceLabel(text, ModuleId(m), j, 0) /\ labels = {label}
    BY <1>5, <2>1
  <2>4. /\ j \in 1..Len(text) /\ text[j].name = x /\ (DefinesAt(text, j, 0) <=> Defining(m, j))
        /\ StaticAt(text, j, 0) <=> Class(m, j) = "static"
    BY <1>2, <2>2, NamesInText
  <2>5. ~StaticAt(text, j, 0) => label = Public(x)
    BY <2>3, <2>4 DEF PlaceLabel, PlaceName
  <2>6. d = j => Defining(m, j)
    <3>1. HAVE d = j
    <3>2. Definition(m, x) # 0
      BY <1>8, <2>4, <3>1
    <3>3. Defining(m, Definition(m, x))
      BY <1>2, <3>2, DefinitionDefines
    <3> QED BY <1>8, <3>1, <3>3
  <2>7. CASE ~Internal(m, x)
    <3>1. ~StaticAt(text, j, 0)
      BY <1>1, <1>2, <2>2, <2>4, <2>7 DEF Clashes
    <3> QED BY <1>7, <1>9, <2>3, <2>5, <2>7, <3>1
  <2>8. CASE Internal(m, x) /\ ~StaticAt(text, j, 0)
    <3>1. PlacesOf(label) # {<<m, d, 0>>}
      BY <1>7, <2>5, <2>8
    <3>2. d # j
      <4>1. SUFFICES ASSUME d = j PROVE FALSE
        OBVIOUS
      <4>2. Defining(m, j)
        BY <2>6, <4>1
      <4> QED BY <1>1, <1>2, <2>2, <2>4, <2>8, <4>2 DEF Leaks
    <3> QED BY <1>9, <1>11, <2>2, <2>3, <2>8, <3>1, <3>2
  <2>9. CASE Internal(m, x) /\ StaticAt(text, j, 0)
    <3>1. \A at : at \in PlacesOf(label) <=> at = <<m, j, 0>> /\ DefinesAt(text, j, 0)
      BY <2>3, <2>4, <2>9, StaticPlace
    <3>2. PlacesOf(label) = {<<m, d, 0>>} => d = j
      <4>1. HAVE PlacesOf(label) = {<<m, d, 0>>}
      <4>2. <<m, d, 0>> = <<m, j, 0>>
        BY <3>1, <4>1
      <4> QED BY <4>2
    <3>3. d = j => PlacesOf(label) = {<<m, d, 0>>}
      <4>1. HAVE d = j
      <4>2. Defining(m, j)
        BY <2>6, <4>1
      <4> QED BY <2>4, <3>1, <4>1, <4>2
    <3> QED BY <1>9, <1>11, <2>2, <2>3, <2>9, <3>2, <3>3
  <2> QED BY <2>7, <2>8, <2>9
<1> QED BY <1>10, <1>11

(* A mention in a body is in a function.                                   *)
LEMMA FuncOfUse ==
  ASSUME NEW text, SourceOK(text), NEW u \in Mentions(text), u.k # 0
  PROVE  text[u.i].op = "func"
<1>1. PICK i \in 1..Len(text) :
             \/ text[i].op = "decl" /\ Address(text[i].init) /\ u = Mention(i, 0, text[i].init, "init")
             \/ /\ text[i].op = "func"
                /\ \E k \in 1..Len(text[i].body) :
                     \/ /\ text[i].body[k].op \in {"read", "call"}
                        /\ u = Mention(i, k, text[i].body[k].name, text[i].body[k].op)
                     \/ /\ text[i].body[k].op = "static" /\ Address(text[i].body[k].init)
                        /\ u = Mention(i, k, text[i].body[k].init, "init")
  BY MentionsAre
<1>2. u.i = i
  BY <1>1 DEF Mention
<1>3. text[i].op = "func"
  BY <1>1 DEF Mention
<1> QED BY <1>2, <1>3

(* A label of a file-scope name stands at no part of a body.               *)
LEMMA FilePlaces ==
  ASSUME Assembled, NEW m \in 1..Len(Sources), NEW text, text = Sources[m].text, NEW u \in Mentions(text),
         Inner(text, u) = {}, NEW label, Stands(text, ModuleId(m), u, label), NEW i, NEW p, p # 0
  PROVE  <<m, i, p>> \notin PlacesOf(label)
<1>1. PICK x, k : x = u.x /\ k = u.i
  OBVIOUS
<1>2. build \in Builds /\ SourceOK(text) /\ Len(text) \in Nat /\ k \in 1..Len(text) /\ k \in Nat
  <2>1. build \in Builds /\ SourceOK(text)
    BY ModulesOfBuild DEF Assembled
  <2> QED BY <1>1, <2>1, MentionIn
<1>3. PICK file : file = Earlier(text, k, x)
  OBVIOUS
<1>4. file \subseteq 1..k
  BY <1>3 DEF Earlier
<1>5. /\ file = {} => label = Public(x)
      /\ \A j : LastOf(file, j) => label = PlaceLabel(text, ModuleId(m), j, 0)
  BY <1>1, <1>3 DEF Stands
<1>6. \A y : <<m, i, p>> \notin PlacesOf(Public(y))
  <2>1. ASSUME NEW y, <<m, i, p>> \in PlacesOf(Public(y)) PROVE FALSE
    <3>1. PICK n2 \in 1..Len(Sources), j \in Nat : <<m, i, p>> = <<n2, j, 0>>
      BY <2>1, PublicPlace
    <3> QED BY <3>1
  <2> QED BY <2>1
<1>7. CASE file # {}
  <2>1. PICK j : LastOf(file, j)
    BY <1>2, <1>4, <1>7, LastExists
  <2>2. label = PlaceLabel(text, ModuleId(m), j, 0) /\ j \in 1..Len(text)
    BY <1>2, <1>4, <1>5, <2>1 DEF LastOf
  <2>3. CASE StaticAt(text, j, 0)
    <3>1. \A at : at \in PlacesOf(label) => at = <<m, j, 0>>
      BY <2>2, <2>3, StaticPlace
    <3>2. <<m, i, p>> # <<m, j, 0>>
      OBVIOUS
    <3> QED BY <3>1, <3>2
  <2>4. CASE ~StaticAt(text, j, 0)
    <3>1. label = Public(PlaceName(text, j, 0))
      BY <2>2, <2>4 DEF PlaceLabel
    <3> QED BY <1>6, <3>1
  <2> QED BY <2>3, <2>4
<1> QED BY <1>5, <1>6, <1>7

(* A use is right just if the compiler does not deviate there.             *)
LEMMA UseIsRight ==
  ASSUME Assembled, NEW m \in 1..Len(Sources), NEW text, text = Sources[m].text, NEW u \in Mentions(text),
         ~Leaks(u.x), ~Clashes(u.x)
  PROVE  Right(m, u) <=> ~Deviates(m, u)
<1>1. PICK x, i, k, labels : x = u.x /\ i = u.i /\ k = u.k /\ labels = LabelsAt(<<m, u.i, u.k>>)
  OBVIOUS
<1>2. /\ build \in Builds /\ SourceOK(text) /\ Len(text) \in Nat /\ i \in 1..Len(text) /\ i \in Nat
      /\ u.how \in {"read", "call", "init"}
      /\ u.how \in {"read", "call"} => k # 0
      /\ k = 0 \/ k \in Nat
      /\ ~Wrong(text)
  <2>1. build \in Builds /\ SourceOK(text) /\ ~Wrong(text)
    BY ModulesOfBuild DEF Assembled
  <2> QED BY <1>1, <2>1, MentionIn
<1>3. PICK block : block = Around(text, i, k, x) /\ block = InBlock(m, i, k, x)
  BY SMTT(30), <1>2, NamesInText
<1>4. block \subseteq 1..k /\ block \subseteq Int /\ (block # {} => k # 0)
  BY <1>2, <1>3 DEF Around
<1>5. PICK op : op = InBody(m, u)
  OBVIOUS
<1>6. op = IF block = {} THEN "none" ELSE text[i].body[Max(block)].op
  <2>1. k = 0 => block = {}
    BY <1>4
  <2>2. BlockOp(m, i, k, x) = IF block = {} THEN "none" ELSE text[i].body[Max(block)].op
    <3>1. BlockOp(m, i, k, x) = AroundOp(text, i, k, x)
      BY <1>2, NamesInText
    <3> QED BY <1>3, <3>1 DEF AroundOp
  <2> QED BY <1>1, <1>5, <2>1, <2>2 DEF InBody
<1>7. \A j : LastOf(block, j) => j \in Nat /\ j # 0 /\ Max(block) = j /\ op = text[i].body[j].op
                                /\ op \in {"local", "static", "extern", "proto"}
  <2>1. TAKE j
  <2>2. HAVE LastOf(block, j)
  <2>3. Max(block) = j /\ j \in block
    BY Zenon, <1>4, <2>2, MaxIs DEF LastOf
  <2>4. j \in 1..k /\ text[i].body[j].op \in {"local", "static", "extern", "proto"}
    BY <1>3, <2>3 DEF Around
  <2> QED BY <1>2, <1>6, <2>3, <2>4
<1>8. block # {} => \E j : LastOf(block, j)
  BY <1>2, <1>4, LastExists
<1>9. Inner(text, u) = (IF u.how = "init" THEN {} ELSE block)
  BY <1>1, <1>3 DEF Inner
<1>10. /\ Silent(text, u) => labels = {}
       /\ ~Silent(text, u) => labels # {}
       /\ \A label \in labels : Stands(text, ModuleId(m), u, label)
  BY <1>1, LabelsThere
<1>11. /\ op = "static" => (Right(m, u) <=> labels # {} /\ \A l \in labels : PlacesOf(l) = {<<m, i, Max(block)>>})
       /\ op = "local" => (Right(m, u) <=> labels = {})
       /\ op \notin {"static", "local"} => (Right(m, u) <=> OfFile(m, u))
  BY <1>1, <1>3, <1>5 DEF Right, OfFile
<1>12. Deviates(m, u) <=>
         \/ u.how # "init" /\ op \in {"extern", "proto"}
         \/ u.how = "init" /\ op \in {"static", "local"}
         \/ /\ op \notin {"static", "local"} /\ MeansInternal(m, u)
            /\ Max(Before(m, u.i, u.x)) # Definition(m, u.x)
  BY <1>5 DEF Deviates
<1>13. ~Refused(text, u)
  BY <1>2 DEF Wrong
<1>14. CASE u.how # "init" /\ block = {}
  <2>1. op = "none" /\ Inner(text, u) = {}
    BY <1>6, <1>9, <1>14
  <2> QED BY <1>11, <1>12, <1>14, <2>1, FileRight
<1>15. CASE u.how # "init" /\ block # {}
  <2>1. PICK j : LastOf(block, j)
    BY <1>8, <1>15
  <2>2. /\ j \in Nat /\ j # 0 /\ Max(block) = j /\ op = text[i].body[j].op
        /\ op \in {"local", "static", "extern", "proto"}
    BY <1>7, <2>1
  <2>3. LastOf(Inner(text, u), j)
    BY <1>9, <1>15, <2>1
  <2>4. \A l \in labels : l = InnerLabel(text, ModuleId(m), i, j)
    BY <1>1, <1>10, <2>3 DEF Stands
  <2>5. Silent(text, u) <=> u.how = "read" /\ op \in {"local", "extern"}
    <3>1. \A l : LastOf(Inner(text, u), l) => l = j
      BY <1>4, <1>9, <1>15, <2>1, MaxIs
    <3> QED BY <1>1, <2>2, <2>3, <3>1 DEF Silent
  <2>6. u.how = "call" => op = "proto"
    <3>1. HAVE u.how = "call"
    <3>2. k # 0 /\ op = AroundOp(text, i, k, x)
      BY <1>2, <1>3, <1>6, <3>1 DEF AroundOp
    <3>3. ~(op \notin {"none", "proto"})
      BY <1>1, <1>13, <3>1, <3>2 DEF Refused
    <3> QED BY <2>2, <3>3
  <2>7. CASE op = "static"
    <3>1. labels = {PlaceLabel(text, ModuleId(m), i, j)}
      <4>1. labels # {}
        BY <1>10, <2>5, <2>7
      <4>2. \A l \in labels : l = PlaceLabel(text, ModuleId(m), i, j)
        BY <2>2, <2>4, <2>7 DEF InnerLabel
      <4> QED BY <4>1, <4>2
    <3>2. StaticAt(text, i, j) /\ DefinesAt(text, i, j)
      <4>1. u.k \in 1..Len(text[u.i].body) /\ Len(text[u.i].body) \in Nat
        BY <1>1, <1>2, <1>4, <1>15, MentionIn
      <4>2. text[i].op = "func"
        BY <1>1, <1>2, <1>15, FuncOfUse
      <4>3. j \in 1..k /\ k \in 1..Len(text[i].body) /\ Len(text[i].body) \in Nat
        BY <1>1, <1>4, <2>1, <4>1 DEF LastOf
      <4>4. j \in 1..Len(text[i].body) /\ text[i].body[j].op = "static" /\ j # 0
        BY <2>2, <2>7, <4>3
      <4>5. DOMAIN text = 1..Len(text) /\ DOMAIN text[i].body = 1..Len(text[i].body)
        BY <1>2, <4>2, BodyOf
      <4> QED BY <1>2, <4>2, <4>4, <4>5 DEF StaticAt, DefinesAt
    <3>3. PlacesOf(PlaceLabel(text, ModuleId(m), i, j)) = {<<m, i, j>>}
      <4>1. \A at : at \in PlacesOf(PlaceLabel(text, ModuleId(m), i, j)) <=>
                      at = <<m, i, j>> /\ DefinesAt(text, i, j)
        BY <1>2, <2>2, <3>2, StaticPlace
      <4> QED BY <3>2, <4>1
    <3>4. Right(m, u)
      BY <1>11, <2>2, <2>7, <3>1, <3>3
    <3> QED BY <1>12, <1>15, <2>7, <3>4
  <2>8. CASE op = "local"
    <3>1. u.how = "read"
      BY <1>2, <1>15, <2>6, <2>8
    <3> QED BY <1>10, <1>11, <1>12, <1>15, <2>5, <2>8, <3>1
  <2>9. CASE op \in {"extern", "proto"}
    <3>1. Deviates(m, u)
      BY <1>12, <1>15, <2>9
    <3>2. \A l \in labels : PlacesOf(l) = {} /\ l # Public(x)
      <4>1. Null # Public(x)
        BY DEF Null, Public, Label
      <4>2. \A l \in labels : l = Null
        BY <2>2, <2>4, <2>9 DEF InnerLabel
      <4> QED BY <4>1, <4>2, NullPlace
    <3>3. ~OfFile(m, u)
      <4>1. CASE MeansInternal(m, u)
        BY <1>1, <3>2, <4>1 DEF OfFile
      <4>2. CASE ~MeansInternal(m, u)
        BY <1>1, <3>2, <4>2 DEF OfFile
      <4> QED BY <4>1, <4>2
    <3> QED BY <1>11, <2>9, <3>1, <3>3
  <2> QED BY <2>2, <2>7, <2>8, <2>9
<1>16. CASE u.how = "init"
  <2>1. Inner(text, u) = {} /\ ~Silent(text, u)
    BY <1>9, <1>16 DEF Silent
  <2>2. labels # {}
    BY <1>10, <2>1
  <2>3. CASE op = "static"
    <3>1. PICK j : LastOf(block, j)
      BY <1>6, <1>8, <2>3
    <3>2. j # 0 /\ Max(block) = j
      BY <1>7, <3>1
    <3>3. Deviates(m, u)
      BY <1>12, <1>16, <2>3
    <3>4. ~Right(m, u)
      <4>1. PICK l \in labels : TRUE
        BY <2>2
      <4>2. <<m, i, j>> \notin PlacesOf(l)
        BY <1>1, <1>2, <1>10, <2>1, <3>2, <4>1, FilePlaces
      <4> QED BY <1>11, <2>3, <3>2, <4>1, <4>2
    <3> QED BY <3>3, <3>4
  <2>4. CASE op = "local"
    BY <1>11, <1>12, <1>16, <2>2, <2>4
  <2>5. CASE op \notin {"static", "local"}
    BY <1>11, <1>12, <1>16, <2>1, <2>5, FileRight
  <2> QED BY <2>3, <2>4, <2>5
<1> QED BY <1>14, <1>15, <1>16

LEMMA AssembledIs ==
  ASSUME SInv, TInv, MInv, step = "assemble"
  PROVE  Assembled
<1>1. ~Direct /\ build \in Builds /\ ScriptInv
  BY DEF TInv, SInv
<1>2. Program(merged, Sources) /\ \A m \in 1..Len(Sources) : ~Wrong(Sources[m].text)
  BY <1>1 DEF ScriptInv, Compiles
<1>3. AllLinked(merged, Sources, Len(Sources))
  BY <1>1 DEF MInv
<1>4. NamesAre(merged, Sources, 1..Len(Sources))
  BY <1>2, ProgramNames
<1> QED BY <1>1, <1>2, <1>3, <1>4 DEF Assembled

LEMMA NamesMatch ==
  ASSUME SInv, TInv, MInv
  PROVE  MatchesLinkage
<1>1. SUFFICES ASSUME step = "assemble", NEW m \in Modules, NEW u \in Uses(m), ~Leaks(u.x), ~Clashes(u.x)
               PROVE  Right(m, u) <=> ~Deviates(m, u)
  BY DEF MatchesLinkage
<1>2. Assembled
  BY <1>1, AssembledIs
<1>3. PICK text : text = Sources[m].text
  OBVIOUS
<1>4. m \in 1..Len(Sources) /\ Text(m) = text
  BY <1>2, <1>3, ModulesOfBuild DEF Assembled
<1>5. u \in Mentions(text)
  BY <1>4, InText
<1> QED BY <1>1, <1>2, <1>3, <1>4, <1>5, UseIsRight

(* Names mean what they mean in C, for all sources: in the program the     *)
(* assembler is given, each use in each module has a label, or an offset,  *)
(* and the label stands where C says the entity is defined, except just    *)
(* where the compiler deviates: a block-scope extern or prototype, an      *)
(* initializer in a block, an internal name declared again.                *)
THEOREM NamesMeanTheSame == Spec => []MatchesLinkage
<1>1. SInv /\ TInv /\ MInv => MatchesLinkage
  BY NamesMatch
<1> QED BY <1>1, InitTInv, NextTInv, InitSInv, NextSInv, InitLabels, NextLInv,
           InitNames, NextNInv, NextMInv, PTL DEF Spec
==============================================================================
