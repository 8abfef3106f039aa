------------------------------ MODULE CondIncl -------------------------------
(***************************************************************************)
(* cpp.c's directives that decide which lines are read: #if and its kin,   *)
(* #include with its include guards, #pragma once and #import, on top of   *)
(* file.c's stack of open files and of lex.c's skip_cond_incl, which reads *)
(* past the tokenizer.  A file is a sequence of lines and a step reads one *)
(* line, or finds the end of a file.                                       *)
(***************************************************************************)
EXTENDS Integers, Sequences, FiniteSets

CONSTANTS
  Files,      (* names of the files there are; "main" is compiled *)
  Macros,     (* names of object macros *)
  Texts,      (* what a line of text may hold, and the operand of #else and #endif *)
  Programs,   (* texts of the files: Files -> sequence of lines *)
  MaxOpen     (* so many files can be open; fopen fails beyond *)

ASSUME FileAssumption == "main" \in Files /\ MaxOpen \in Nat \ {0}

NoName == "none"
ASSUME NameAssumption == NoName \notin Macros

(* A line: a text, a blank line, a text with a lone apostrophe, or a       *)
(* directive with its operand ("if" and "elif" test defined(arg)).         *)
Opening == {"if", "ifdef", "ifndef"}
Closing == {"elif", "else", "endif"}

Lines ==
  [kind : {"text", "blank", "quote", "else", "endif", "once"}, arg : Texts]
  \cup [kind : {"if", "ifdef", "ifndef", "elif", "define", "undef"}, arg : Macros]
  \cup [kind : {"include", "import", "line"}, arg : Files]

ASSUME ProgramAssumption == Programs \subseteq [Files -> Seq(Lines)]

VARIABLES
  disk,     (* the program: what the files hold; never changes *)
  files,    (* the open files, innermost first *)
  opened,   (* how many were opened so far: identifies a File *)
  mode,     (* "read"; "look": #endif looks at what follows; "skip": skip_cond_incl; *)
            (* "quoted": skip_char; "done"; "error" *)
  nest,     (* skip_cond_incl's nesting depth *)
  conds,    (* cond_incl_stack, innermost first *)
  closed,   (* the CondIncl whose #endif is looking *)
  defined,  (* the macros defined *)
  guards,   (* include_guard: file name -> macro or NoName *)
  once,     (* the files not to be included again *)
  flag,     (* the value of __8cc_include_guard *)
  out       (* the texts read *)

vars == <<disk, files, opened, mode, nest, conds, closed, defined, guards, once, flag, out>>
lineVars == <<disk, opened>>
skipVars == <<mode, nest>>
condVars == <<conds, closed>>
incVars == <<guards, once, flag>>

(* make_file.  The name is what #line changes, path what was opened.       *)
OpenFile(path, id) == [path |-> path, name |-> path, id |-> id, at |-> 1, ntok |-> 0]

NoneClosed == [guard |-> NoName, file |-> 0, name |-> NoName]

Init ==
  /\ disk \in Programs
  /\ files = <<OpenFile("main", 1)>>
  /\ opened = 1
  /\ mode = "read" /\ nest = 0
  /\ conds = <<>> /\ closed = NoneClosed
  /\ defined = {}
  /\ guards = [f \in Files |-> NoName]
  /\ once = {}
  /\ flag = 0
  /\ out = <<>>

File == files[1]
AtEnd == File.at > Len(disk[File.path])
Line == disk[File.path][File.at]
Is(kinds) == ~ AtEnd /\ Line.kind \in kinds

(* The line is consumed.  Of the tokens counted, some or none is enough.   *)
Consumed(f) == [f EXCEPT !.at = @ + 1, !.ntok = IF Line.kind = "blank" THEN @ ELSE 1]
NextLine == files' = <<Consumed(File)>> \o Tail(files)

(* readc at the end of a file: it is popped, unless it is the last one.    *)
PopFile ==
  /\ AtEnd /\ Len(files) > 1
  /\ files' = Tail(files)

Stop(how) ==
  /\ mode' = how
  /\ UNCHANGED <<lineVars, files, nest, condVars, defined, incVars, out>>

------------------------------------------------------------------------------
(* Lines that are read as tokens.                                          *)

ReadLine(kinds) == mode = "read" /\ Is(kinds) /\ NextLine /\ UNCHANGED lineVars

(* A lone apostrophe is a token error here.                                *)
ReadQuote == mode = "read" /\ Is({"quote"}) /\ Stop("error")

ReadText ==
  /\ ReadLine({"text"})
  /\ out' = Append(out, Line.arg)
  /\ UNCHANGED <<skipVars, condVars, defined, incVars>>

ReadBlank ==
  /\ ReadLine({"blank"})
  /\ UNCHANGED <<skipVars, condVars, defined, incVars, out>>

ReadDefine ==
  /\ ReadLine({"define", "undef"})
  /\ defined' = IF Line.kind = "define" THEN defined \cup {Line.arg}
                ELSE defined \ {Line.arg}
  /\ UNCHANGED <<skipVars, condVars, incVars, out>>

(* The end of an included file is no token; at that of main the compiler   *)
(* is done, whatever conditionals are open.                                *)
ReadPopsFile ==
  /\ mode = "read" /\ PopFile
  /\ UNCHANGED <<lineVars, skipVars, condVars, defined, incVars, out>>

ReadEof == mode = "read" /\ AtEnd /\ Len(files) = 1 /\ Stop("done")

------------------------------------------------------------------------------
(* read_if, read_ifdef, read_ifndef, with do_read_if.                      *)

Holds(line) == IF line.kind = "ifndef" THEN line.arg \notin defined
               ELSE line.arg \in defined

SetConds(c) == conds' = c /\ UNCHANGED closed

(* "ifndef" is the second token of its file: it may be an include guard.   *)
ReadIf ==
  /\ ReadLine(Opening)
  /\ SetConds(<<[ctx     |-> "then",
                 wastrue |-> Holds(Line),
                 guard   |-> IF Line.kind = "ifndef" /\ File.ntok = 0 THEN Line.arg ELSE NoName,
                 file    |-> File.id]>> \o conds)
  /\ mode' = IF Holds(Line) THEN "read" ELSE "skip"
  /\ UNCHANGED <<nest, defined, incVars, out>>

(* stray #else, #elif or #endif; #else or #elif after #else *)
Stray == conds # <<>> => conds[1].ctx = "else" /\ Line.kind \in {"else", "elif"}

ReadStray == mode = "read" /\ Is(Closing) /\ Stray /\ Stop("error")

(* Mutant of Elsed: an #else leaves the guard alone.                       *)
ElsedGuarding(c) ==
  [ctx |-> "else", wastrue |-> c.wastrue, guard |-> c.guard, file |-> c.file]

Elsed(c) ==
  [ctx |-> "else", wastrue |-> c.wastrue, guard |-> NoName, file |-> c.file]

(* Mutant of ReadElse: whether a group was true is not asked.              *)
ReadElseAlways ==
  /\ ReadLine({"else"}) /\ ~ Stray
  /\ SetConds(<<Elsed(conds[1])>> \o Tail(conds))
  /\ UNCHANGED <<skipVars, defined, incVars, out>>

ReadElse ==
  /\ ReadLine({"else"}) /\ ~ Stray
  /\ SetConds(<<Elsed(conds[1])>> \o Tail(conds))
  /\ mode' = IF conds[1].wastrue THEN "skip" ELSE "read"
  /\ UNCHANGED <<nest, defined, incVars, out>>

ReadElif ==
  /\ ReadLine({"elif"}) /\ ~ Stray
  /\ SetConds(<<[ctx     |-> "elif",
                 wastrue |-> conds[1].wastrue \/ Line.arg \in defined,
                 guard   |-> NoName,
                 file    |-> conds[1].file]>> \o Tail(conds))
  /\ mode' = IF ~ conds[1].wastrue /\ Line.arg \in defined THEN "read" ELSE "skip"
  /\ UNCHANGED <<nest, defined, incVars, out>>

(* read_endif: if the conditional began the file, skip_newlines looks for  *)
(* the next token, which is in another file if this was the last.          *)
ReadEndif ==
  /\ ReadLine({"endif"}) /\ ~ Stray
  /\ conds' = Tail(conds)
  /\ IF conds[1].guard # NoName /\ conds[1].file = File.id
     THEN /\ mode' = "look"
          /\ closed' = [guard |-> conds[1].guard, file |-> File.id, name |-> File.name]
     ELSE UNCHANGED <<mode, closed>>
  /\ UNCHANGED <<nest, defined, incVars, out>>

(* Mutant of LookOn: the end of the file is not got over.                  *)
LookOnInFile ==
  /\ mode = "look"
  /\ Is({"blank"}) /\ NextLine
  /\ UNCHANGED <<lineVars, skipVars, condVars, defined, incVars, out>>

LookOn ==
  /\ mode = "look"
  /\ \/ Is({"blank"}) /\ NextLine
     \/ PopFile
  /\ UNCHANGED <<lineVars, skipVars, condVars, defined, incVars, out>>

(* The guard is remembered for the name the guarded file has NOW.  The end *)
(* of main is a token of no file.                                          *)
LookEnds ==
  /\ mode = "look"
  /\ IF AtEnd THEN Len(files) = 1 ELSE ~ Is({"blank"})
  /\ guards' = IF AtEnd \/ File.id # closed.file
               THEN [guards EXCEPT ![closed.name] = closed.guard] ELSE guards
  /\ mode' = "read"
  /\ closed' = NoneClosed
  /\ UNCHANGED <<lineVars, files, nest, conds, defined, once, flag, out>>

------------------------------------------------------------------------------
(* read_include with try_include and guarded.  The search path is left out: *)
(* a name is found in the first place, or nowhere because fopen fails.      *)

Guarded(path) == guards[path] # NoName /\ guards[path] \in defined

IncludeOnce ==
  /\ ReadLine({"include", "import"})
  /\ Line.arg \in once
  /\ UNCHANGED <<skipVars, condVars, defined, incVars, out>>

IncludeGuarded ==
  /\ ReadLine({"include", "import"})
  /\ Line.arg \notin once /\ Guarded(Line.arg)
  /\ flag' = 1
  /\ UNCHANGED <<skipVars, condVars, defined, guards, once, out>>

Include ==
  /\ mode = "read" /\ Is({"include", "import"})
  /\ Line.arg \notin once /\ ~ Guarded(Line.arg)
  /\ flag' = 0
  /\ \/ /\ Len(files) < MaxOpen
        /\ files' = <<OpenFile(Line.arg, opened + 1), Consumed(File)>> \o Tail(files)
        /\ opened' = opened + 1
        /\ once' = IF Line.kind = "import" THEN once \cup {Line.arg} ELSE once
        /\ UNCHANGED mode
     \/ /\ Len(files) = MaxOpen
        /\ mode' = "error"
        /\ UNCHANGED <<files, opened, once>>
  /\ UNCHANGED <<disk, nest, condVars, defined, guards, out>>

(* #pragma once *)
PragmaOnce ==
  /\ ReadLine({"once"})
  /\ once' = once \cup {File.name}
  /\ UNCHANGED <<skipVars, condVars, defined, guards, flag, out>>

(* #line with a file name *)
ReadLineName ==
  /\ mode = "read" /\ Is({"line"})
  /\ files' = <<[Consumed(File) EXCEPT !.name = Line.arg]>> \o Tail(files)
  /\ UNCHANGED <<lineVars, skipVars, condVars, defined, incVars, out>>

------------------------------------------------------------------------------
(* skip_cond_incl: characters up to the "#else", "#elif" or "#endif" that  *)
(* belongs to the group, which is left for read_directive.                 *)

Skipping == mode \in {"skip", "quoted"}
Unread == UNCHANGED <<lineVars, condVars, defined, incVars, out>>

SkipPopsFile ==
  /\ Skipping /\ PopFile
  /\ UNCHANGED skipVars /\ Unread

SkipEof == Skipping /\ AtEnd /\ Len(files) = 1 /\ Stop("done")

(* skip_char goes on to the next apostrophe, wherever it is.               *)
SkipQuote ==
  /\ Skipping /\ Is({"quote"}) /\ NextLine
  /\ mode' = IF mode = "skip" THEN "quoted" ELSE "skip"
  /\ UNCHANGED nest /\ Unread

(* Mutant of SkipNested: an #ifdef in a skipped group is overlooked.       *)
SkipNestedIf ==
  /\ mode = "skip" /\ Is(Opening) /\ NextLine
  /\ nest' = IF Line.kind # "ifdef" THEN nest + 1 ELSE nest
  /\ UNCHANGED mode /\ Unread

SkipNested ==
  /\ mode = "skip" /\ Is(Opening) /\ NextLine
  /\ nest' = nest + 1
  /\ UNCHANGED mode /\ Unread

(* Mutant of SkipNestedEndif: any #endif is taken for a nested one.        *)
SkipAnyEndif ==
  /\ mode = "skip" /\ Is({"endif"}) /\ NextLine
  /\ nest' = nest - 1
  /\ UNCHANGED mode /\ Unread

SkipNestedEndif ==
  /\ mode = "skip" /\ nest > 0 /\ Is({"endif"}) /\ NextLine
  /\ nest' = nest - 1
  /\ UNCHANGED mode /\ Unread

SkipLine ==
  /\ Skipping /\ ~ AtEnd /\ Line.kind # "quote" /\ NextLine
  /\ mode = "skip" =>
       /\ Line.kind \notin Opening
       /\ Line.kind \in Closing => nest > 0 /\ Line.kind # "endif"
  /\ UNCHANGED skipVars /\ Unread

SkipEnds ==
  /\ mode = "skip" /\ nest = 0 /\ Is(Closing)
  /\ mode' = "read"
  /\ UNCHANGED <<files, nest>> /\ Unread

Next ==
  \/ ReadText \/ ReadBlank \/ ReadQuote \/ ReadDefine \/ ReadPopsFile \/ ReadEof
  \/ ReadIf \/ ReadStray \/ ReadElse \/ ReadElif \/ ReadEndif \/ LookOn \/ LookEnds
  \/ IncludeOnce \/ IncludeGuarded \/ Include \/ PragmaOnce \/ ReadLineName
  \/ SkipPopsFile \/ SkipEof \/ SkipQuote \/ SkipNested \/ SkipNestedEndif
  \/ SkipLine \/ SkipEnds

(* The compiler is one thread that runs until it is done.                  *)
Spec == Init /\ [][Next]_vars /\ WF_vars(Next)

------------------------------------------------------------------------------
FileRecords == [path : Files, name : Files, id : Nat, at : Nat, ntok : {0, 1}]
CondRecords == [ctx : {"then", "elif", "else"}, wastrue : BOOLEAN,
                guard : Macros \cup {NoName}, file : Nat]

(* At most MaxOpen files are open, each at a line it has or at its end.    *)
FilesOK ==
  /\ files \in Seq(FileRecords) /\ Len(files) \in 1..MaxOpen
  /\ \A n \in 1..Len(files) : files[n].at \in 1..Len(disk[files[n].path]) + 1

(* Every variable has its type; an #endif looks ahead only for a guard.    *)
TypeOK ==
  /\ disk \in [Files -> Seq(Lines)]
  /\ opened \in Nat
  /\ FilesOK
  /\ mode \in {"read", "look", "skip", "quoted", "done", "error"}
  /\ nest \in Nat
  /\ conds \in Seq(CondRecords)
  /\ closed \in [guard : Macros \cup {NoName}, file : Nat, name : Files \cup {NoName}]
  /\ mode = "look" => closed.guard \in Macros /\ closed.name \in Files
  /\ defined \in SUBSET Macros
  /\ guards \in [Files -> Macros \cup {NoName}]
  /\ once \in SUBSET Files
  /\ flag \in {0, 1}
  /\ out \in Seq(Texts)

(* What is read as tokens lies in groups that were chosen: of each open    *)
(* conditional, a group whose condition held, or the #else if none did.    *)
Chosen(c) == c.wastrue <=> c.ctx # "else"

ReadsChosenGroups ==
  mode = "look" \/ (mode = "read" /\ ~ Is(Closing)) =>
    \A n \in 1..Len(conds) : Chosen(conds[n])

(* With macro g defined, reading these lines again would change nothing:   *)
(* "#ifndef g" opens them and its own "#endif" closes them, no "#else".    *)
Depth(lines, n) == Cardinality({x \in 1..n : lines[x].kind \in Opening})
                   - Cardinality({x \in 1..n : lines[x].kind = "endif"})

Inert(lines, g) ==
  \E a, z \in DOMAIN lines :
    /\ lines[a] = [kind |-> "ifndef", arg |-> g]
    /\ \A n \in DOMAIN lines : n \notin a..z => lines[n].kind = "blank"
    /\ Depth(lines, z) = 0
    /\ \A n \in a..z - 1 :
         /\ Depth(lines, n) > 0
         /\ lines[n].kind \in {"else", "elif"} => Depth(lines, n) > 1

(* "an #ifndef and #endif pair that guards the entire header file ... so   *)
(* that we can skip the file next time" (cpp.c:595-597): no file is taken  *)
(* for guarded that reading it again would not be in vain.                 *)
GuardsAreSound ==
  \A f \in Files : guards[f] # NoName => Inert(disk[f], guards[f])

(* Every program is read to its end or rejected.                           *)
Terminates == <>(mode \in {"done", "error"})
=============================================================================
