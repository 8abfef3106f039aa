----------------------------- MODULE LinkWrapper ------------------------------
(***************************************************************************)
(* compile-ex-isa.sh: the source-level linker.  It runs the compiler on    *)
(* every source in turn, appends what it wrote to the merged file, puts    *)
(* the start-up in front and runs the assembler.  set -e ends the script   *)
(* at the first command that fails, a signal may end it anywhere, and an   *)
(* EXIT trap removes the directory of the temporary files.  Or the         *)
(* compiler is run by hand, on one source.                                 *)
(***************************************************************************)
EXTENDS Compiler, TLC

CONSTANTS
  Builds   \* what is asked for: the sources, which options, and what is installed

IsSource(text) ==
  /\ text \in Seq({text[i] : i \in DOMAIN text})
  /\ \A i \in DOMAIN text :
       /\ text[i].op \in {"decl", "func", "junk"}
       /\ text[i].op = "decl" => text[i].func \in BOOLEAN
       /\ text[i].op = "func" => text[i].body \in Seq({text[i].body[k] : k \in DOMAIN text[i].body})

(* A source for the compiler (main.c:185), one or more for the script; and *)
(* "bad" is for what set_module_id rejects, which the script does not pass: *)
(* it numbers the modules.                                                 *)
BuildAssumption ==
  \A b \in Builds :
    /\ DOMAIN b = {"sources", "opts", "id", "stop", "keep", "assembler", "compiler"}
    /\ {b.stop, b.keep} \subseteq BOOLEAN
    /\ b.sources \in Seq({b.sources[i] : i \in DOMAIN b.sources}) /\ b.sources # <<>>
    /\ \A i \in DOMAIN b.sources : IsSource(b.sources[i].text) /\ "m" \o ToString(i) # "bad"
    /\ \A i, j \in DOMAIN b.sources : i # j => "m" \o ToString(i) # "m" \o ToString(j)
    /\ b.opts # {"wrapper"} => b.opts \subseteq {"S", "c", "E", "ast"} /\ Len(b.sources) = 1
ASSUME BuildAssumption

VARIABLES
  build,    \* the command line and the machine: never changes
  step,     \* where the script is
  n,        \* the source that is compiled
  merged,   \* what merged.s holds
  missingmain,
  kept,     \* the --asm-out file: "old", or the lines that were copied
  image,    \* the output: "old" until the assembler runs
  signalled, \* the step a signal ended, "no" before that
  status    \* the exit status

linkVars == <<n, merged, missingmain, kept, image, signalled, status>>
vars == <<ccVars, build, step, linkVars>>

Dir == "tmpdir"       \* the directory with merged.s, startup.s and module-n.s
Direct == build.opts # {"wrapper"}
Sources == build.sources

Job(i) ==
  [n |-> i, id |-> IF Direct THEN build.id ELSE "m" \o ToString(i),
   opts |-> IF Direct THEN build.opts ELSE {"S"},
   source |-> Sources[i].text, readable |-> Sources[i].file = "readable"]

Old == [is |-> "old", lines |-> <<>>]
Written(lines) == [is |-> "written", lines |-> lines]

Script(s) == step = s /\ ~Direct
Then(s) == step' = s /\ UNCHANGED <<build, signalled, status>>
NoCc == UNCHANGED ccVars
NoTemps == UNCHANGED <<phase, job, parsing, asm, ccstatus>>

(* Mutant of Ends: only success cleans up.                                 *)
EndsUntidy(s) ==
  /\ step' = "ended" /\ status' = s
  /\ temps' = IF s # 0 THEN temps ELSE temps \ {Dir}
  /\ UNCHANGED <<phase, job, parsing, asm, ccstatus, build>>

(* exit, and the trap once it is set.                                      *)
Ends(s) ==
  /\ step' = "ended" /\ status' = s
  /\ temps' = IF step \in {"check", "temp", "trap"} THEN temps ELSE temps \ {Dir}
  /\ UNCHANGED <<phase, job, parsing, asm, ccstatus, build>>

Init ==
  /\ build \in Builds
  /\ CcInit(Job(1))
  /\ phase = IF Direct THEN "options" ELSE "idle"
  /\ step = IF Direct THEN "compiling" ELSE "check"
  /\ n = 1 /\ merged = <<>> /\ missingmain = FALSE
  /\ kept = Old /\ image = Old /\ signalled = "no" /\ status = 0

(* The sources are there, and the assembler unless the script stops before *)
(* it; the temporary directory; the compiler.                              *)
Check ==
  /\ Script("check")
  /\ IF \/ \E i \in DOMAIN Sources : Sources[i].file = "missing"
        \/ ~build.stop /\ build.assembler = "missing"
     THEN Ends(1) /\ UNCHANGED signalled
     ELSE Then("temp") /\ NoCc
  /\ UNCHANGED <<n, merged, missingmain, kept, image>>

MakeTemp ==
  /\ Script("temp")
  /\ temps' = temps \cup {Dir}
  /\ Then("trap") /\ NoTemps
  /\ UNCHANGED <<n, merged, missingmain, kept, image>>

SetTrap ==
  /\ Script("trap")
  /\ Then("compiler") /\ NoCc
  /\ UNCHANGED <<n, merged, missingmain, kept, image>>

FindCompiler ==
  /\ Script("compiler")
  /\ IF build.compiler = "missing" THEN Ends(1) /\ UNCHANGED signalled ELSE Then("next") /\ NoCc
  /\ UNCHANGED <<n, merged, missingmain, kept, image>>

CompileNext ==
  /\ Script("next") /\ n <= Len(Sources)
  /\ Run(Job(n)) /\ UNCHANGED temps
  /\ Then("compiling")
  /\ UNCHANGED <<n, merged, missingmain, kept, image>>

Compiling ==
  /\ step = "compiling"
  /\ Compile
  /\ UNCHANGED <<build, step, linkVars>>

Failed ==
  /\ Script("compiling") /\ phase = "exit" /\ ccstatus # 0
  /\ Ends(ccstatus)
  /\ UNCHANGED <<n, merged, missingmain, kept, image, signalled>>

(* Mutant of Merge: each module replaces what was there.                 *)
MergeOver ==
  /\ Script("compiling") /\ phase = "exit" /\ ccstatus = 0
  /\ merged' = asm
  /\ n' = n + 1
  /\ Then("next") /\ NoCc
  /\ UNCHANGED <<missingmain, kept, image>>

Merge ==
  /\ Script("compiling") /\ phase = "exit" /\ ccstatus = 0
  /\ merged' = merged \o asm
  /\ n' = n + 1
  /\ Then("next") /\ NoCc
  /\ UNCHANGED <<missingmain, kept, image>>

(* grep sees "main:", so no .lcomm and no static main.                     *)
DefinesMain(lines) == \E k \in DOMAIN lines : lines[k].op = "def" /\ lines[k].label = Public("main")
Startup(main) ==
  IF main THEN <<Line("use", Public("main"), <<0, 0, 0>>)>> ELSE <<Line("hlt", Null, <<0, 0, 0>>)>>

AddStartup ==
  /\ Script("next") /\ n > Len(Sources)
  /\ missingmain' = ~DefinesMain(merged)
  /\ merged' = Startup(DefinesMain(merged)) \o merged
  /\ Then("copy") /\ NoCc
  /\ UNCHANGED <<n, kept, image>>

(* --asm-out, which --stop-before-assembler implies.                       *)
Copy ==
  /\ Script("copy")
  /\ kept' = IF build.keep \/ build.stop THEN Written(merged) ELSE kept
  /\ Then(IF build.stop THEN "stop" ELSE "assemble") /\ NoCc
  /\ UNCHANGED <<n, merged, missingmain, image>>

Stop ==
  /\ Script("stop")
  /\ Ends(IF missingmain THEN 1 ELSE 0)
  /\ UNCHANGED <<n, merged, missingmain, kept, image, signalled>>

(* The assembler, which is not part of this repository: it reports labels  *)
(* that are defined twice or not at all.                                   *)
Defined(lines) == {k \in DOMAIN lines : lines[k].op \in {"def", "bss"}}
Used(lines) == {k \in DOMAIN lines : lines[k].op = "use"}
Links(lines) ==
  /\ \A j, k \in Defined(lines) : lines[j].label = lines[k].label => j = k
  /\ \A k \in Used(lines) : \E j \in Defined(lines) : lines[j].label = lines[k].label

Assemble ==
  /\ Script("assemble")
  /\ IF Links(merged)
     THEN image' = Written(merged) /\ Then("report") /\ NoCc
     ELSE Ends(1) /\ UNCHANGED <<image, signalled>>
  /\ UNCHANGED <<n, merged, missingmain, kept>>

Report ==
  /\ Script("report")
  /\ Ends(IF missingmain THEN 1 ELSE 0)
  /\ UNCHANGED <<n, merged, missingmain, kept, image, signalled>>

(* A signal ends the script, and the compiler it waits for.                *)
Interrupt ==
  /\ ~Direct /\ step # "ended"
  /\ Ends(Signal + 2) /\ signalled' = step
  /\ UNCHANGED <<n, merged, missingmain, kept, image>>

DirectEnds ==
  /\ Direct /\ step = "compiling" /\ phase = "exit"
  /\ Ends(ccstatus)
  /\ UNCHANGED <<n, merged, missingmain, kept, image, signalled>>

Stopped == step = "ended" /\ UNCHANGED vars

Next ==
  \/ Check \/ MakeTemp \/ SetTrap \/ FindCompiler \/ CompileNext \/ Compiling \/ Failed
  \/ Merge \/ AddStartup \/ Copy \/ Stop \/ Assemble \/ Report \/ Interrupt \/ DirectEnds
  \/ Stopped

Spec == Init /\ [][Next]_vars
=============================================================================
