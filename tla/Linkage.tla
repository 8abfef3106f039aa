-------------------------------- MODULE Linkage -------------------------------
(***************************************************************************)
(* What the linked program has to be, from the sources alone: which entity *)
(* a name stands for (C11 6.2.1, 6.2.2), where that is defined (6.9.2),    *)
(* which sources compile, when a build succeeds, and what it leaves.       *)
(***************************************************************************)
EXTENDS LinkWrapper, FiniteSetsExt

Text(m) == Sources[m].text
Modules == DOMAIN Sources

(* File-scope declarations, and which of them define.                      *)
Declares(m, i, x) == Text(m)[i].op \in {"decl", "func"} /\ Text(m)[i].name = x
Before(m, i, x) == {j \in 1..i : Declares(m, j, x)}
Declarations(m, x) == Before(m, Len(Text(m)), x)
Tentative(m, i) ==
  LET d == Text(m)[i] IN d.op = "decl" /\ d.init = NoInit /\ d.class # "extern" /\ ~d.func
Full(m, i) == Text(m)[i].op = "func" \/ (Text(m)[i].op = "decl" /\ Text(m)[i].init # NoInit)
Defining(m, i) == Tentative(m, i) \/ Full(m, i)
Class(m, i) == Text(m)[i].class

Internal(m, x) ==
  Declarations(m, x) # {} /\ Class(m, Min(Declarations(m, x))) = "static"

(* Of an internal name: its definition, or the last that may be it.        *)
Definition(m, x) ==
  LET full == {i \in Declarations(m, x) : Full(m, i)}
  IN  IF full # {} THEN Max(full) ELSE Max({i \in Declarations(m, x) : Tentative(m, i)} \cup {0})

(* The declaration in a block that a name in part k of function i means.   *)
InBlock(m, i, k, x) ==
  {j \in 1..k : Text(m)[i].body[j].op \in {"local", "static", "extern", "proto"}
                /\ Text(m)[i].body[j].name = x}
BlockOp(m, i, k, x) ==
  IF InBlock(m, i, k, x) = {} THEN "none" ELSE Text(m)[i].body[Max(InBlock(m, i, k, x))].op

(* The uses of names: in an initializer or in a body.                      *)
Address(init) == init \notin {NoInit, "const"}
Mention(i, k, x, how) == [i |-> i, k |-> k, x |-> x, how |-> how]
BodyUses(m, i) ==
  LET body == Text(m)[i].body
  IN  {Mention(i, k, body[k].name, body[k].op) : k \in {k \in DOMAIN body : body[k].op \in {"read", "call"}}}
      \cup {Mention(i, k, body[k].init, "init") :
              k \in {k \in DOMAIN body : body[k].op = "static" /\ Address(body[k].init)}}
Uses(m) ==
  (UNION {BodyUses(m, i) : i \in {i \in DOMAIN Text(m) : Text(m)[i].op = "func"}})
  \cup {Mention(i, 0, Text(m)[i].init, "init") :
          i \in {i \in DOMAIN Text(m) : Text(m)[i].op = "decl" /\ Address(Text(m)[i].init)}}

InBody(m, u) == IF u.k = 0 THEN "none" ELSE BlockOp(m, u.i, u.k, u.x)
MeansInternal(m, u) == Internal(m, u.x) /\ Before(m, u.i, u.x) # {}

(***************************************************************************)
(* What the merged program makes of a use.                                 *)
(***************************************************************************)
LabelsAt(at) ==
  {merged[k].label : k \in {k \in Used(merged) : merged[k].at = at /\ merged[k].label.kind # "L"}}
PlacesOf(label) == {merged[k].at : k \in {k \in Defined(merged) : merged[k].label = label}}
PublicPlaces(x) == UNION {{<<m, i, 0>> : i \in Declarations(m, x)} : m \in {m \in Modules : ~Internal(m, x)}}

Right(m, u) ==
  LET labels == LabelsAt(<<m, u.i, u.k>>)
      one(place) == labels # {} /\ \A l \in labels : PlacesOf(l) = {place}
  IN  CASE InBody(m, u) = "static" -> one(<<m, u.i, Max(InBlock(m, u.i, u.k, u.x))>>)
        [] InBody(m, u) = "local"  -> labels = {}
        [] OTHER ->
             IF MeansInternal(m, u)
             THEN one(<<m, Definition(m, u.x), 0>>)
             ELSE labels = {Public(u.x)} /\ PlacesOf(Public(u.x)) \subseteq PublicPlaces(u.x)

(* Where the compiler does something else: what a block declares extern is *)
(* taken for a local variable or for a function without a label; the       *)
(* initializer of a static variable does not see the block, nor that it    *)
(* may not name an automatic variable there; and a static that is declared *)
(* again is another one from there.                                        *)
Deviates(m, u) ==
  \/ u.how # "init" /\ InBody(m, u) \in {"extern", "proto"}
  \/ u.how = "init" /\ InBody(m, u) \in {"static", "local"}
  \/ /\ InBody(m, u) \notin {"static", "local"} /\ MeansInternal(m, u)
     /\ Max(Before(m, u.i, u.x)) # Definition(m, u.x)

(* What is static by its first declaration only gets a public label.       *)
Leaks(x) ==
  \E m \in Modules : Internal(m, x) /\ \E i \in Declarations(m, x) : Defining(m, i) /\ Class(m, i) # "static"

(* What is declared static after a declaration that is not: C does not say *)
(* which entity that is (6.2.2p7).                                         *)
Clashes(x) ==
  \E m \in Modules : ~Internal(m, x) /\ \E i \in Declarations(m, x) : Class(m, i) = "static"

(* A name in the merged program stands for what it stands for in C, over   *)
(* all modules, but where the compiler deviates: there it does not.        *)
MatchesLinkage ==
  step = "assemble" =>
    \A m \in Modules : \A u \in Uses(m) :
      ~Leaks(u.x) /\ ~Clashes(u.x) => (Right(m, u) <=> ~Deviates(m, u))

(* The labels of jumps and strings, counted by the parser and by the back  *)
(* end of each module on its own (make_label): in the merged file each     *)
(* stands at one line, in the element it was made for, and for no other,   *)
(* whatever has been merged so far.                                        *)
OwnLabels ==
  \A k \in Used(merged) : merged[k].label.kind = "L" =>
    \E d \in Defined(merged) :
      /\ merged[d].at = merged[k].at
      /\ \A j \in Defined(merged) : merged[j].label = merged[k].label <=> j = d

(***************************************************************************)
(* Success.                                                                *)
(***************************************************************************)

(* A source the compiler rejects.                                          *)
Rejected(m, u) ==
  LET block == InBody(m, u)
      file == Before(m, u.i, u.x)
      func == \E i \in file : i = Max(file) /\ (Text(m)[i].op = "func" \/ Text(m)[i].func)
  IN  CASE u.how = "call" -> block \notin {"none", "proto"} \/ (block = "none" /\ file # {} /\ ~func)
        [] u.how = "init" -> file = {}
        [] u.how = "read" -> block = "none" /\ file = {}
Unsupported(m) ==
  \E i \in DOMAIN Text(m) :
     Text(m)[i].op = "func" /\ \E k \in DOMAIN Text(m)[i].body : Text(m)[i].body[k].op = "unsupported"
Bad(m) ==
  \/ \E i \in DOMAIN Text(m) : Text(m)[i].op = "junk"
  \/ \E u \in Uses(m) : Rejected(m, u)

MainModules ==
  {m \in Modules : \E i \in DOMAIN Text(m) : Declares(m, i, "main") /\ Full(m, i) /\ Class(m, i) # "static"}

DefinitionPlaces(m) ==
  {<<m, i, 0>> : i \in {i \in DOMAIN Text(m) : Text(m)[i].op # "junk" /\ Defining(m, i)}}
  \cup UNION {{<<m, i, k>> : k \in {k \in DOMAIN Text(m)[i].body : Text(m)[i].body[k].op = "static"}}
                : i \in {i \in DOMAIN Text(m) : Text(m)[i].op = "func"}}

(* All that the sources define, in their order.                            *)
Whole(lines) ==
  /\ {lines[k].at : k \in {k \in Defined(lines) : lines[k].label.kind # "L"}}
       = UNION {DefinitionPlaces(m) : m \in Modules}
  /\ \A j, k \in DOMAIN lines : j < k => lines[j].at[1] <= lines[k].at[1]
WholeProgram(lines) == Whole(lines) /\ lines[1] = Startup(MainModules # {})[1]

Aborted == ccstatus = Signal + 6

(* What keeps a build from succeeding.                                     *)
WhyNot ==
  \/ signalled # "no" \/ Aborted
  \/ \E m \in Modules : Sources[m].file # "readable" \/ Bad(m) \/ Unsupported(m)
  \/ build.compiler = "missing" \/ MainModules = {}
  \/ ~build.stop /\ (build.assembler = "missing" \/ ~Links(merged))

WhyNotDirect ==
  \/ build.opts = {} \/ build.id = "bad" \/ Aborted \/ Sources[1].file # "readable"
  \/ "E" \notin build.opts /\ (Bad(1) \/ ("ast" \notin build.opts /\ Unsupported(1)))

(* The exit status is zero just if nothing went wrong, and then what was   *)
(* asked for is there and whole; whatever the assembler was given, and     *)
(* whatever is kept, is the whole program with the right start-up.         *)
StatusTrue ==
  step = "ended" =>
    IF Direct
    THEN /\ status = 0 <=> ~WhyNotDirect
         /\ status = 0 /\ build.opts \in {{"S"}, {"S", "c"}} => Whole(asm)
    ELSE /\ status = 0 <=> ~WhyNot
         /\ status = 0 => image.is = (IF build.stop THEN "old" ELSE "written")
         /\ status = 0 /\ (build.stop \/ build.keep) => kept.is = "written"
         /\ \A f \in {image, kept} : f.is = "written" => WholeProgram(f.lines)

(* No temporary file outlives a build, a failure or a signal, except when  *)
(* the signal comes before the trap is set; the compiler's own outlives    *)
(* only an abort.                                                          *)
Tidy ==
  step = "ended" =>
    temps = (IF signalled = "trap" THEN {Dir} ELSE {})
            \cup (IF Aborted /\ "S" \notin job.opts THEN {TempName} ELSE {})
=============================================================================
