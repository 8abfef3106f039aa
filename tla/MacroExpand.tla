---------------------------- MODULE MacroExpand -----------------------------
(***************************************************************************)
(* cpp.c's macro expander on top of lex.c's stack of token buffers.  The C *)
(* functions call each other (read_token, read_expand, read_args, subst,   *)
(* expand_all); the frames of those calls are the variable stack, and one  *)
(* step reads one token of the top buffer or substitutes one token of a    *)
(* macro body.  Spaces, source positions and _Pragma are left out.         *)
(***************************************************************************)
EXTENDS Naturals, Sequences, FiniteSets

CONSTANTS
  Tables,     (* the tables of macros a program may start with: table -> name -> macro *)
  Programs,   (* [table |-> the macros defined at first, text |-> the names read] *)
  Directives  (* a directive line, seen as one name |-> [name, macro] it (un)defines *)

(* A name is a sequence of characters.  Only these need to be told apart:  *)
LPAREN == <<"(">>
RPAREN == <<")">>
COMMA == <<",">>
HASH == <<"#">>
HASHHASH == <<"##">>
NEWLINE == <<"newline">>
VALUE == <<"value">>                        (* what a special macro stands for *)
Punctuation == {"(", ")", ",", "#", "##", "newline", "quote"}

NoMacro == [kind |-> "none", nargs |-> 0, varg |-> FALSE, body |-> <<>>]

(* What read_obj_macro, read_funclike_macro and define_special_macro make.  *)
IsMacro(macro) ==
  /\ macro.kind \in {"none", "obj", "func", "special"}
  /\ macro.nargs \in Nat /\ (macro.kind # "func" => macro.nargs = 0)
  /\ Len(macro.body) \in Nat

ASSUME MacroAssumption ==
  /\ \A p \in Programs : \A x \in DOMAIN Tables[p.table] : IsMacro(Tables[p.table][x])
  /\ \A d \in DOMAIN Directives : IsMacro(Directives[d].macro)

VARIABLES
  program,  (* what is being read; never changes *)
  macros,   (* name -> macro; NoMacro if there is none *)
  bufs,     (* buffers, top first; each is the tokens still to be read *)
  stack,    (* the frames of the C functions, innermost first *)
  out,      (* the names read_token has returned *)
  status    (* "running", "done", or "error" after errort *)

vars == <<program, macros, bufs, stack, out, status>>

(* A token; p > 0 is a TMACRO_PARAM of a macro body.  make_token: no hide set. *)
Token(name) == [n |-> name, p |-> 0, hideset |-> {}]

TopFrame == [at |-> "top"]                  (* read_token for the parser *)
PeekFrame(tok, macro) ==                    (* peek_token in read_args *)
  [at |-> "peek", tok |-> tok, macro |-> macro]
ArgsFrame(tok, macro) ==                    (* do_read_args, read_one_arg *)
  [at |-> "args", tok |-> tok, macro |-> macro, args |-> <<>>, arg |-> <<>>, level |-> 0]
SubstFrame(macro, args, hideset) ==         (* subst *)
  [at |-> "subst", macro |-> macro, args |-> args, hideset |-> hideset, i |-> 1, r |-> <<>>]
ExpandFrame == [at |-> "expand", r |-> <<>>]   (* expand_all *)

Init ==
  /\ program \in Programs
  /\ macros = Tables[program.table]
  /\ bufs = <<[n \in DOMAIN program.text |-> Token(program.text[n])]>>
  /\ stack = <<TopFrame>>
  /\ out = <<>>
  /\ status = "running"

Frame == stack[1]
Buffer == bufs[1]
Tok == Buffer[1]
SetFrame(f) == stack' = <<f>> \o Tail(stack)
PushFrame(f) == stack' = <<f>> \o stack
SetBuffer(b) == bufs' = <<b>> \o Tail(bufs)
DropToken == SetBuffer(Tail(Buffer))

(* lex() finds a token in the buffer; at the bottom, in the file.          *)
HasToken == status = "running" /\ Buffer # <<>>
AtEof == status = "running" /\ Buffer = <<>>
NextIs(b, name) == b # <<>> /\ b[1].n = name

Fail ==
  /\ status' = "error"
  /\ UNCHANGED <<program, macros, bufs, stack, out>>

(* read_directive for #define and #undef.  A redefinition replaces.        *)
Directive ==
  /\ HasToken /\ Tok.n \in DOMAIN Directives
  /\ LET d == Directives[Tok.n] IN macros' = [macros EXCEPT ![d.name] = d.macro]
  /\ DropToken
  /\ UNCHANGED <<program, stack, out, status>>

------------------------------------------------------------------------------
(* read_expand *)

Reading == HasToken /\ Frame.at \in {"top", "peek", "expand"}

MacroOf(name) == IF name \in DOMAIN macros THEN macros[name] ELSE NoMacro

(* The macro the token in front is to be replaced by.                      *)
Active == IF Tok.n \in Tok.hideset THEN NoMacro ELSE MacroOf(Tok.n)

SkipNewline ==
  /\ Reading /\ Tok.n = NEWLINE
  /\ DropToken
  /\ UNCHANGED <<program, macros, stack, out, status>>

(* Only read_token looks for directives.                                   *)
ReadDirective ==
  /\ Reading /\ Frame.at # "expand"
  /\ Directive

(* A token that is not replaced goes to the caller: the parser, expand_all, *)
(* or peek_token, which puts it back and has read_args look at it.          *)
Deliver ==
  /\ Reading
  /\ Tok.n # NEWLINE /\ Tok.n \notin DOMAIN Directives
  /\ \/ Active.kind = "none"
     \/ Active.kind = "func" /\ ~ NextIs(Tail(Buffer), LPAREN)
  /\ \/ /\ Frame.at = "top"
        /\ out' = Append(out, Tok.n)
        /\ DropToken
        /\ UNCHANGED stack
     \/ /\ Frame.at = "expand"
        /\ SetFrame([Frame EXCEPT !.r = Append(@, Tok)])
        /\ DropToken
        /\ UNCHANGED out
     \/ /\ Frame.at = "peek" /\ Tok.n = RPAREN
        /\ SetFrame(SubstFrame(Frame.macro, <<>>,
                      (Frame.tok.hideset \cap Tok.hideset) \cup {Frame.tok.n}))
        /\ DropToken
        /\ UNCHANGED out
     \/ /\ Frame.at = "peek" /\ Tok.n # RPAREN
        /\ SetFrame(ArgsFrame(Frame.tok, Frame.macro))
        /\ UNCHANGED <<bufs, out>>
  /\ UNCHANGED <<program, macros, status>>

ExpandSpecial ==
  /\ Reading /\ Active.kind = "special"
  /\ SetBuffer(<<[Tok EXCEPT !.n = VALUE]>> \o Tail(Buffer))
  /\ UNCHANGED <<program, macros, stack, out, status>>

(* Mutant of ExpandObj: the name does not join the hide set.               *)
ExpandObjOpenly ==
  /\ Reading /\ Active.kind = "obj"
  /\ PushFrame(SubstFrame(Active, <<>>, Tok.hideset))
  /\ DropToken
  /\ UNCHANGED <<program, macros, out, status>>

ExpandObj ==
  /\ Reading /\ Active.kind = "obj"
  /\ PushFrame(SubstFrame(Active, <<>>, Tok.hideset \cup {Tok.n}))
  /\ DropToken
  /\ UNCHANGED <<program, macros, out, status>>

(* The name and its "(" are consumed.  The macro is fixed here: directives *)
(* among the arguments come too late for it.                               *)
ExpandFunc ==
  /\ Reading /\ Active.kind = "func" /\ NextIs(Tail(Buffer), LPAREN)
  /\ PushFrame(IF Active.nargs = 0 THEN PeekFrame(Tok, Active) ELSE ArgsFrame(Tok, Active))
  /\ SetBuffer(Tail(Tail(Buffer)))
  /\ UNCHANGED <<program, macros, out, status>>

(* The end of the file, or of the argument expand_all was given.           *)
ReadEof ==
  /\ AtEof
  /\ \/ /\ Frame.at = "top"
        /\ status' = "done"
        /\ UNCHANGED <<bufs, stack>>
     \/ /\ Frame.at = "peek"
        /\ SetFrame(ArgsFrame(Frame.tok, Frame.macro))
        /\ UNCHANGED <<bufs, status>>
     \/ /\ Frame.at = "expand"
        /\ stack' = <<[stack[2] EXCEPT !.r = @ \o Frame.r, !.i = @ + 1]>>
                      \o Tail(Tail(stack))
        /\ bufs' = Tail(bufs)
        /\ UNCHANGED status
  /\ UNCHANGED <<program, macros, out>>

------------------------------------------------------------------------------
(* read_args *)

ReadingArgs == HasToken /\ Frame.at = "args"

(* The last parameter of a variadic macro takes the commas too.            *)
InEllipsis == Frame.macro.varg /\ Len(Frame.args) + 1 = Frame.macro.nargs

ArgsUnterminated == AtEof /\ Frame.at = "args" /\ Fail

ArgNewline ==
  /\ ReadingArgs /\ Tok.n = NEWLINE
  /\ DropToken
  /\ UNCHANGED <<program, macros, stack, out, status>>

ArgDirective == ReadingArgs /\ Directive

ArgComma ==
  /\ ReadingArgs /\ Tok.n = COMMA /\ Frame.level = 0 /\ ~ InEllipsis
  /\ SetFrame([Frame EXCEPT !.args = Append(@, Frame.arg), !.arg = <<>>])
  /\ DropToken
  /\ UNCHANGED <<program, macros, out, status>>

ArgToken ==
  /\ ReadingArgs
  /\ Tok.n # NEWLINE /\ Tok.n \notin DOMAIN Directives
  /\ Tok.n \in {COMMA, RPAREN} => Frame.level > 0 \/ (Tok.n = COMMA /\ InEllipsis)
  /\ SetFrame([Frame EXCEPT !.arg = Append(@, Tok),
                            !.level = CASE Tok.n = LPAREN -> @ + 1
                                        [] Tok.n = RPAREN -> @ - 1
                                        [] OTHER          -> @])
  /\ DropToken
  /\ UNCHANGED <<program, macros, out, status>>

(* Mutant of HideSet: the closing parenthesis is not looked at.            *)
HideSetOfName(tok, rparen) == tok.hideset \cup {tok.n}

HideSet(tok, rparen) == (tok.hideset \cap rparen.hideset) \cup {tok.n}

(* Variable arguments may be left out together with their comma.           *)
ArgsClose ==
  /\ ReadingArgs /\ Tok.n = RPAREN /\ Frame.level = 0
  /\ LET read == Append(Frame.args, Frame.arg)
         args == IF Frame.macro.varg /\ Len(read) + 1 = Frame.macro.nargs
                 THEN Append(read, <<>>) ELSE read
     IN  \/ /\ Len(args) = Frame.macro.nargs
            /\ SetFrame(SubstFrame(Frame.macro, args, HideSet(Frame.tok, Tok)))
            /\ DropToken
            /\ UNCHANGED <<program, macros, out, status>>
         \/ Len(args) # Frame.macro.nargs /\ Fail

------------------------------------------------------------------------------
(* subst: one token, or one operator with its operands, of the body.       *)

Body == Frame.macro.body
T0 == Body[Frame.i]
T1 == IF Frame.i < Len(Body) THEN Body[Frame.i + 1] ELSE Token(NEWLINE)

Substituting == status = "running" /\ Frame.at = "subst" /\ Frame.i <= Len(Body)

IsVararg(t) == Frame.macro.varg /\ t.p = Frame.macro.nargs

(* One step of subst: n body tokens are done, r is the result so far.      *)
Subst(n, r, hideset) ==
  /\ SetFrame([Frame EXCEPT !.i = @ + n, !.r = r, !.hideset = hideset])
  /\ UNCHANGED <<program, macros, bufs, out, status>>

(* The characters of tokens, one after the other; stringize.               *)
Text(ts) ==
  LET from[n \in 1..Len(ts) + 1] ==
        IF n > Len(ts) THEN <<>> ELSE ts[n].n \o from[n + 1]
  IN  from[1]

StringOf(ts) == <<"quote">> \o Text(ts) \o <<"quote">>

(* glue_push: lex_string makes a new token, without hide set, of the text  *)
(* of two.  Text that is not one token is an error, and so is a "##" with  *)
(* nothing before it (vec_pop's assertion).                                *)
CanGlue(r, t) ==
  /\ r # <<>>
  /\ \A c \in {r[Len(r)].n[n] : n \in DOMAIN r[Len(r)].n}
              \cup {t.n[n] : n \in DOMAIN t.n} : c \notin Punctuation

Glue(r, t) ==
  SubSeq(r, 1, Len(r) - 1) \o <<Token(r[Len(r)].n \o t.n)>>

SubstStringize ==
  /\ Substituting /\ T0.n = HASH /\ T1.p > 0
  /\ Subst(2, Append(Frame.r, Token(StringOf(Frame.args[T1.p]))), Frame.hideset)

PastesParam == Substituting /\ T0.n = HASHHASH /\ T1.p > 0
AfterComma == IsVararg(T1) /\ Frame.r # <<>> /\ Frame.r[Len(Frame.r)].n = COMMA

(* [GNU] ", ## __VA_ARGS__": no comma if there are no arguments.           *)
SubstCommaVarargs ==
  /\ PastesParam /\ AfterComma
  /\ LET arg == Frame.args[T1.p] IN
     Subst(2, IF arg = <<>> THEN SubSeq(Frame.r, 1, Len(Frame.r) - 1) ELSE Frame.r \o arg,
           Frame.hideset)

SubstPasteParam ==
  /\ PastesParam /\ ~ AfterComma
  /\ LET arg == Frame.args[T1.p] IN
     \/ arg = <<>> /\ Subst(2, Frame.r, Frame.hideset)
     \/ /\ arg # <<>> /\ CanGlue(Frame.r, arg[1])
        /\ Subst(2, Glue(Frame.r, arg[1]) \o Tail(arg), Frame.hideset)
     \/ arg # <<>> /\ ~ CanGlue(Frame.r, arg[1]) /\ Fail

(* The hide set to add is REPLACED by that of a body token, the empty one. *)
SubstPaste ==
  /\ Substituting /\ T0.n = HASHHASH /\ T1.p = 0 /\ Frame.i < Len(Body)
  /\ \/ CanGlue(Frame.r, T1) /\ Subst(2, Glue(Frame.r, T1), T1.hideset)
     \/ ~ CanGlue(Frame.r, T1) /\ Fail

(* A parameter before "##" is not expanded; an empty one takes the "##"    *)
(* with it.  The hide set is replaced here too.                            *)
SubstBeforePaste ==
  /\ Substituting /\ T0.p > 0 /\ T1.n = HASHHASH
  /\ LET arg == Frame.args[T0.p] IN
     Subst(IF arg = <<>> THEN 2 ELSE 1, Frame.r \o arg, T1.hideset)

(* Mutant of SubstParam: the argument is put back in front of the input.   *)
SubstParamUnstashed ==
  /\ Substituting /\ T0.p > 0 /\ T1.n # HASHHASH
  /\ SetBuffer(Frame.args[T0.p] \o Buffer)
  /\ PushFrame(ExpandFrame)
  /\ UNCHANGED <<program, macros, out, status>>

(* expand_all: the argument becomes the input, on its own.                 *)
SubstParam ==
  /\ Substituting /\ T0.p > 0 /\ T1.n # HASHHASH
  /\ bufs' = <<Frame.args[T0.p]>> \o bufs
  /\ PushFrame(ExpandFrame)
  /\ UNCHANGED <<program, macros, out, status>>

SubstPush ==
  /\ Substituting /\ T0.p = 0
  /\ ~ (T0.n = HASH /\ T1.p > 0)
  /\ ~ (T0.n = HASHHASH /\ Frame.i < Len(Body))
  /\ Subst(1, Append(Frame.r, T0), Frame.hideset)

(* add_hide_set and unget_all; read_expand goes on with the result.        *)
SubstEnds ==
  /\ status = "running" /\ Frame.at = "subst" /\ Frame.i > Len(Body)
  /\ SetBuffer([n \in DOMAIN Frame.r |->
                  [Frame.r[n] EXCEPT !.hideset = @ \cup Frame.hideset]] \o Buffer)
  /\ stack' = Tail(stack)
  /\ UNCHANGED <<program, macros, out, status>>

Next ==
  \/ SkipNewline \/ ReadDirective \/ Deliver \/ ReadEof
  \/ ExpandSpecial \/ ExpandObj \/ ExpandFunc
  \/ ArgsUnterminated \/ ArgNewline \/ ArgDirective \/ ArgComma \/ ArgToken \/ ArgsClose
  \/ SubstStringize \/ SubstCommaVarargs \/ SubstPasteParam \/ SubstPaste
  \/ SubstBeforePaste \/ SubstParam \/ SubstPush \/ SubstEnds

(* The compiler is one thread that runs until it is done.                  *)
Spec == Init /\ [][Next]_vars /\ WF_vars(Next)

------------------------------------------------------------------------------
(* The frames and the buffers belong together: read_token is at the bottom *)
(* of the calls, each expand_all has subst as its caller and one buffer of *)
(* its own, and a body is substituted only with all of its arguments.      *)
TypeOK ==
  /\ status \in {"running", "done", "error"}
  /\ stack # <<>> /\ bufs # <<>>
  /\ \A n \in DOMAIN stack :
       /\ stack[n].at \in {"top", "peek", "args", "subst", "expand"}
       /\ (stack[n].at = "top") = (n = Len(stack))
       /\ stack[n].at = "args" => stack[n].level \in Nat
       /\ stack[n].at = "expand" => stack[n + 1].at = "subst"
       /\ stack[n].at = "subst" => /\ stack[n].i \in 1..Len(stack[n].macro.body) + 1
                                  /\ Len(stack[n].args) = stack[n].macro.nargs
       /\ n > 1 /\ stack[n].at = "subst" => stack[n - 1].at = "expand"
  /\ Len(bufs) = 1 + Cardinality({n \in DOMAIN stack : stack[n].at = "expand"})

(* subst forgets the hide set it was given, where it sees "##".            *)
DropsHideSet == (SubstPaste \/ SubstBeforePaste) /\ Frame'.hideset # Frame.hideset

(* Every program is read to its end or rejected: whatever macros a macro   *)
(* calls, itself included, none is replaced for ever, unless "##" makes    *)
(* subst forget the names that must not be replaced again, time after time *)
(* (cpp.c:250-370).                                                        *)
Terminates == <>(status # "running") \/ []<><<DropsHideSet>>_vars
=============================================================================
