------------------------------ MODULE Tokenizer ------------------------------
(***************************************************************************)
(* lex.c above the stream of file.c: preprocessing tokens, lex_string for  *)
(* a pasted token, skip_cond_incl and read_header_file_name.  A step reads *)
(* one character and may put characters back.  next(c) and peek() that     *)
(* look at one and the same character are one reading of it.               *)
(***************************************************************************)
EXTENDS CharStream, TLC

CONSTANTS
  Letters,   \* what may begin an identifier
  Inputs     \* what is read: the texts of the open files, the included one last; a
             \* string lex_string is called with, or none; which function begins

ASSUME InputAssumption ==
  Inputs \subseteq [open : Seq(Seq(Chars)) \ {<<>>}, paste : Seq(Chars), start : {"lex", "skip", "header"}]

White == {" ", "\t", "\f"}
Digits == {"0", "1", "2", "3", "4", "5", "6", "7", "8", "9"}
Octal == Digits \ {"8", "9"}
HexDigit ==
  <<{"0"}, {"1"}, {"2"}, {"3"}, {"4"}, {"5"}, {"6"}, {"7"}, {"8"}, {"9"},
    {"a", "A"}, {"b", "B"}, {"c", "C"}, {"d", "D"}, {"e", "E"}, {"f", "F"}>>
HexDigits == UNION {HexDigit[n] : n \in 1..16}
Nibble(c) == (CHOOSE n \in 1..16 : c \in HexDigit[n]) - 1

(* The punctuators do_read_token tries, by their spelling: what is read    *)
(* further as long as a longer one is possible.                            *)
Punctuators ==
  {<<c>> : c \in {"(", ")", ",", ";", "[", "]", "{", "}", "?", "~", ":", "#", "+", "*", "=",
                  "!", "&", "|", "^", "/", ".", "-", "<", ">", "%"}}
  \cup {<<c, "=">> : c \in {"+", "*", "=", "!", "&", "|", "^", "/", "-", "<", ">", "%"}}
  \cup {<<c, c>> : c \in {"#", "+", "&", "|", "-", "<", ">"}}
  \cup {<<"<", "<", "=">>, <<">", ">", "=">>, <<".", ".", ".">>, <<"-", ">">>}
  \cup {<<":", ">">>, <<"<", ":">>, <<"<", "%">>, <<"%", ">">>, <<"%", ":">>, <<"%", ":", "%", ":">>}
  \cup {<<".", ".">>}   \* an identifier ".." to the code

Beginnings == UNION {{SubSeq(p, 1, n) : n \in 1..Len(p)} : p \in Punctuators}
Extensible(p) == \E q \in Beginnings : Len(q) = Len(p) + 1 /\ SubSeq(q, 1, Len(p)) = p

(* Digraphs are other spellings of the same tokens.                        *)
Spelling(p) ==
  CASE p = <<"<", ":">> -> <<"[">> [] p = <<":", ">">> -> <<"]">>
    [] p = <<"<", "%">> -> <<"{">> [] p = <<"%", ">">> -> <<"}">>
    [] p = <<"%", ":">> -> <<"#">> [] p = <<"%", ":", "%", ":">> -> <<"#", "#">>
    [] OTHER -> p

VARIABLES
  input,    \* what is read and how: never changes
  mode,     \* where the tokenizer is
  caller,   \* "lex"; "string": lex_string; "header": read_header_file_name;
            \* "skip": skip_cond_incl; "skiplex": lex for it
  nest,     \* skip_cond_incl's nesting depth
  text,     \* the spelling of the token so far; of a literal, the prefix
  content,  \* of a string or a character: <<character, 0>> or <<NoChar, value>> each
  code,     \* of an escape: what it is in, its value so far, how many digits may follow
  space, bol, at,  \* of the token: a space before it, begins a line, its line
  paste,    \* the string lex_string is still to be called with, if any
  tokens,   \* the tokens lex returned, and those skip_cond_incl put back
  pasted    \* those lex_string returned

tokenVars == <<text, content, code, space, bol, at>>
results == <<tokens, pasted>>
callVars == <<caller, nest, paste>>
vars == <<streamVars, input, mode, tokenVars, callVars, results>>

NoCode == [in |-> "none", value |-> 0, left |-> 0]
NoPaste == <<>>

(* What became of the character in got: it is used, or it is put back,     *)
(* alone or with one before it.                                            *)
Use == got' = NoChar /\ UNCHANGED <<files, stashed, slash>>
PutBack == SetTop(Unread(Top, got)) /\ got' = NoChar /\ UNCHANGED <<stashed, slash>>
PutBackWith(c) ==
  SetTop(Unread(Unread(Top, got), c)) /\ got' = NoChar /\ UNCHANGED <<stashed, slash>>

At(m) == mode = m /\ got # NoChar
Goto(m) == mode' = m /\ UNCHANGED <<input, callVars, results>>
Fail == mode' = "error" /\ Use /\ UNCHANGED <<input, tokenVars, callVars, results>>

Token(kind, spelling) ==
  [kind |-> kind, text |-> spelling, content |-> content, space |-> space, bol |-> bol, line |-> at]

(***************************************************************************)
(* Calls.                                                                  *)
(***************************************************************************)

(* lex: bol is taken from the column before the spaces are skipped.        *)
Lex ==
  /\ mode = "begin"
  /\ bol' = (Top.column = 1) /\ space' = FALSE /\ text' = <<>> /\ content' = <<>>
  /\ Goto("gap")
  /\ UNCHANGED <<streamVars, code, at>>

(* lex_string, called for ## between two calls of lex: the stream is put   *)
(* away and a string takes its place.                                      *)
LexString ==
  /\ mode = "begin" /\ caller = "lex" /\ paste # NoPaste
  /\ stashed' = Append(stashed, files)
  /\ files' = <<MakeFile(paste)>>
  /\ caller' = "string" /\ paste' = NoPaste
  /\ bol' = FALSE /\ space' = FALSE /\ text' = <<>> /\ content' = <<>>
  /\ mode' = "gap"
  /\ UNCHANGED <<slash, got, input, code, at, nest, results>>

(* The token t is complete; what the caller does with it.                  *)
ToLex(t) ==
  /\ caller = "lex"
  /\ tokens' = Append(tokens, t)
  /\ mode' = IF t.kind = "eof" THEN "done" ELSE "begin"
  /\ UNCHANGED <<pasted, callVars>>

ToLexString(t) ==
  /\ caller = "string"
  /\ pasted' = Append(pasted, t)
  /\ mode' = "newline"
  /\ UNCHANGED <<tokens, callVars>>

Opening == {<<"i", "f">>, <<"i", "f", "d", "e", "f">>, <<"i", "f", "n", "d", "e", "f">>}
Endif == <<"e", "n", "d", "i", "f">>
Closing == {<<"e", "l", "s", "e">>, <<"e", "l", "i", "f">>, Endif}

Hash(line) ==
  [kind |-> "punct", text |-> <<"#">>, content |-> <<>>, space |-> FALSE, bol |-> TRUE, line |-> line]

(* skip_cond_incl has read a token behind a # at the beginning of a line:  *)
(* where it ends, both are put back for lex.                               *)
ToSkip(t) ==
  LET name == IF t.kind = "ident" THEN t.text ELSE <<>>
  IN  /\ caller = "skiplex"
      /\ IF nest = 0 /\ name \in Closing
         THEN /\ tokens' = tokens \o <<Hash(t.line), t>>
              /\ caller' = "lex" /\ mode' = "begin" /\ UNCHANGED nest
         ELSE /\ caller' = "skip"
              /\ nest' = CASE name \in Opening -> nest + 1
                           [] name = Endif      -> nest - 1
                           [] OTHER             -> nest
              /\ mode' = IF name # <<>> THEN "skipline" ELSE "skip"
              /\ UNCHANGED tokens
      /\ UNCHANGED <<paste, pasted>>

Give(t) == (ToLex(t) \/ ToLexString(t) \/ ToSkip(t)) /\ UNCHANGED <<input, tokenVars>>
Emit(kind, spelling) == Give(Token(kind, spelling))

(***************************************************************************)
(* skip_space: spaces and comments.                                        *)
(***************************************************************************)

(* Where skip_space's callers go on when there is no more space.           *)
AfterGap ==
  CASE caller = "skip"   -> "skipfirst"
    [] caller = "header" -> "header"
    [] caller = "string" /\ space -> "spaces"
    [] OTHER -> "mark"

GapSpace ==
  /\ At("gap") /\ got \in White
  /\ Use /\ space' = TRUE
  /\ Goto("gap") /\ UNCHANGED <<text, content, code, bol, at>>

GapSlash ==
  /\ At("gap") /\ got = "/"
  /\ Use /\ Goto("slash") /\ UNCHANGED tokenVars

GapEnds ==
  /\ At("gap") /\ got \notin White \cup {"/"}
  /\ PutBack /\ Goto(AfterGap) /\ UNCHANGED tokenVars

SlashComment ==
  /\ At("slash") /\ got \in {"*", "/"}
  /\ Use /\ Goto(IF got = "*" THEN "block" ELSE "line") /\ UNCHANGED tokenVars

SlashAlone ==
  /\ At("slash") /\ got \notin {"*", "/"}
  /\ PutBackWith("/") /\ Goto(AfterGap) /\ UNCHANGED tokenVars

InBlock ==
  /\ At("block") \/ At("star")
  /\ got # Eof /\ ~(mode = "star" /\ got = "/")
  /\ Use /\ Goto(IF got = "*" THEN "star" ELSE "block") /\ UNCHANGED tokenVars

BlockEnds ==
  /\ At("star") /\ got = "/"
  /\ Use /\ space' = TRUE
  /\ Goto("gap") /\ UNCHANGED <<text, content, code, bol, at>>

BlockUnterminated == (At("block") \/ At("star")) /\ got = Eof /\ Fail

(* skip_line, of a comment and of skip_cond_incl.                          *)
InLine ==
  /\ At("line") \/ At("skipline")
  /\ got \notin {Newline, Eof}
  /\ Use /\ Goto(mode) /\ UNCHANGED tokenVars

LineEnds ==
  /\ At("line") \/ At("skipline")
  /\ got \in {Newline, Eof}
  /\ PutBack /\ space' = TRUE
  /\ Goto(IF mode = "line" THEN "gap" ELSE "skip") /\ UNCHANGED <<text, content, code, bol, at>>

SpacesOnly == mode = "spaces" /\ Emit("space", <<>>) /\ UNCHANGED streamVars

Mark ==
  /\ mode = "mark"
  /\ at' = Top.line
  /\ Goto("first") /\ UNCHANGED <<streamVars, text, content, code, space, bol>>

(***************************************************************************)
(* do_read_token: the first character decides.                             *)
(***************************************************************************)

Text(t) == text' = t /\ UNCHANGED <<content, code, space, bol, at>>

FirstNewline == At("first") /\ got = Newline /\ Use /\ Emit("newline", <<>>)
FirstEof == At("first") /\ got = Eof /\ Use /\ Emit("eof", <<>>)

FirstPunctuator ==
  /\ At("first") /\ <<got>> \in Punctuators
  /\ Use
  /\ IF Extensible(<<got>>)
     THEN Text(<<got>>) /\ Goto("punct")
     ELSE Emit("punct", <<got>>)

FirstQuote ==
  /\ At("first") /\ got \in {"\"", "'"}
  /\ Use /\ Goto(IF got = "'" THEN "char" ELSE "string") /\ UNCHANGED tokenVars

(* L, U and u may begin a literal.                                         *)
FirstLetter ==
  /\ At("first") /\ got \in Letters
  /\ Use /\ Text(<<got>>) /\ Goto(IF got \in {"L", "U", "u"} THEN "prefix" ELSE "ident")

FirstDigit ==
  /\ At("first") /\ got \in Digits
  /\ Use /\ Text(<<got>>) /\ Goto("number")

FirstOther ==
  /\ At("first")
  /\ got \notin Letters \cup Digits \cup {Newline, Eof, "\"", "'"} /\ <<got>> \notin Punctuators
  /\ Use /\ Emit("invalid", <<got>>)

(* read_rep, read_rep2, read_hash_digraph and the cases of do_read_token.  *)
PunctLonger ==
  LET p == Append(text, got)
  IN  /\ At("punct") /\ p \in Beginnings
      /\ Use
      /\ IF Extensible(p)
         THEN Text(p) /\ Goto("punct")
         ELSE Emit("punct", Spelling(p))

PunctDotDigit ==
  /\ At("punct") /\ text = <<".">> /\ got \in Digits
  /\ PutBack /\ Goto("number") /\ UNCHANGED tokenVars

PunctEnds ==
  /\ At("punct") /\ text \in Punctuators /\ Append(text, got) \notin Beginnings
  /\ ~(text = <<".">> /\ got \in Digits)
  /\ PutBack
  /\ Emit(IF text = <<".", ".">> THEN "ident" ELSE "punct", Spelling(text))

(* Mutant of PunctTooFar: all of the digraph that was tried goes back.     *)
PunctNothing ==
  /\ At("punct") /\ text \notin Punctuators /\ Append(text, got) \notin Beginnings
  /\ SetTop(Unread(Unread(Unread(Top, got), text[3]), text[2])) /\ got' = NoChar
  /\ UNCHANGED <<stashed, slash>>
  /\ Emit("punct", <<"%">>)

(* After %:% comes something else: both go back.                           *)
PunctTooFar ==
  LET p == SubSeq(text, 1, Len(text) - 1)
  IN  /\ At("punct") /\ text \notin Punctuators /\ Append(text, got) \notin Beginnings
      /\ PutBackWith(text[Len(text)])
      /\ Emit("punct", Spelling(p))

PrefixQuote ==
  /\ At("prefix") /\ (got = "\"" \/ (got = "'" /\ Len(text) = 1))
  /\ Use /\ Goto(IF got = "'" THEN "char" ELSE "string") /\ UNCHANGED tokenVars

PrefixEight ==
  /\ At("prefix") /\ text = <<"u">> /\ got = "8"
  /\ Use /\ Text(<<"u", "8">>) /\ Goto("prefix")

PrefixNone ==
  /\ At("prefix") /\ got # "\"" /\ ~(Len(text) = 1 /\ got = "'") /\ ~(text = <<"u">> /\ got = "8")
  /\ IF Len(text) = 2 THEN PutBackWith("8") ELSE PutBack
  /\ Text(<<text[1]>>) /\ Goto("ident")

(***************************************************************************)
(* read_ident, read_number.                                                *)
(***************************************************************************)

(* read_escaped_char begins, in a string, a character or an identifier.    *)
Begin(in, left, value) ==
  code' = [in |-> in, value |-> value, left |-> left] /\ UNCHANGED <<text, content, space, bol, at>>

IdentLonger ==
  /\ At("ident") /\ got \in Letters \cup Digits
  /\ Use /\ Text(Append(text, got)) /\ Goto("ident")

(* c is a char there: EOF has the bit 0x80 and is taken for a letter, as    *)
(* often as it is read.  (What it writes is left out.)                     *)
IdentEof ==
  /\ At("ident") /\ got = Eof
  /\ Use /\ Goto("ident") /\ UNCHANGED tokenVars

IdentBackslash ==
  /\ At("ident") /\ got = Backslash
  /\ Use /\ Goto("identescape") /\ UNCHANGED tokenVars

IdentEnds ==
  /\ At("ident") /\ got \notin Letters \cup Digits \cup {Backslash, Eof}
  /\ PutBack /\ Emit("ident", text)

(* peek() sees no u or U: the backslash goes back too.                     *)
IdentNoEscape ==
  /\ At("identescape") /\ got \notin {"u", "U"}
  /\ PutBackWith(Backslash) /\ Emit("ident", text)

IdentEscape ==
  /\ At("identescape") /\ got \in {"u", "U"}
  /\ Use /\ Begin("ident", IF got = "u" THEN 4 ELSE 8, 0) /\ Goto("ucn")

IsExponentSign == text[Len(text)] \in {"e", "E", "p", "P"} /\ got \in {"+", "-"}

NumberLonger ==
  /\ At("number") /\ (got \in (Letters \ {"_", "$"}) \cup Digits \cup {"."} \/ IsExponentSign)
  /\ Use /\ Text(Append(text, got)) /\ Goto("number")

NumberEnds ==
  /\ At("number")
  /\ got \notin (Letters \ {"_", "$"}) \cup Digits \cup {"."} /\ ~IsExponentSign
  /\ PutBack /\ Emit("number", text)

(***************************************************************************)
(* read_string, read_char, read_escaped_char.                              *)
(***************************************************************************)

(* What a string or a character holds: source characters, bytes written by *)
(* an escape, and universal characters, which a string holds in UTF-8.     *)
Char(c) == [c |-> c, n |-> 0]
Byte(n) == [c |-> NoChar, n |-> n % 256]
Whole(n) == [c |-> "u", n |-> n]

Wide == text \in {<<"L">>, <<"U">>, <<"u">>}
In(c) == content' = Append(content, c) /\ UNCHANGED <<text, code, space, bol, at>>

(* write_utf8 in an identifier: $ and @ are the characters themselves.      *)
Utf8(n) == CASE n = 36 -> "$" [] n = 64 -> "@" [] OTHER -> ToString(n)

(* The escape is read; only a character with a prefix keeps more than a byte. *)
After == CASE code.in = "char" -> "charend" [] OTHER -> code.in
Escaped(c) ==
  /\ IF code.in = "ident"
     THEN text' = Append(text, Utf8(c.n)) /\ UNCHANGED content
     ELSE content' = Append(content, c) /\ UNCHANGED text
  /\ code' = NoCode
  /\ Goto(After) /\ UNCHANGED <<space, bol, at>>
Coded(n, isucn) ==
  LET whole == IF code.in = "char" THEN Wide ELSE isucn
  IN  Escaped(IF whole THEN Whole(n) ELSE Byte(n))

(* Newlines do not end a string, only the end of the source does.          *)
StringPlain ==
  /\ At("string") /\ got \notin {"\"", Backslash, Eof}
  /\ Use /\ In(Char(got)) /\ Goto("string")

StringEnds == At("string") /\ got = "\"" /\ Use /\ Emit("string", text)

StringUnterminated == At("string") /\ got = Eof /\ Fail

CharPlain ==
  /\ At("char") /\ got # Backslash
  /\ Use /\ In(Char(got)) /\ Goto("charend")

CharEnds == At("charend") /\ got = "'" /\ Use /\ Emit("char", text)

CharUnterminated == At("charend") /\ got # "'" /\ Fail

EscapeBegins ==
  /\ At("string") \/ At("char")
  /\ got = Backslash
  /\ Use /\ Begin(mode, 0, 0) /\ Goto("escape")

Simple ==
  [c \in {"a", "b", "f", "n", "r", "t", "v", "e"} |->
     CASE c = "a" -> 7 [] c = "b" -> 8 [] c = "t" -> 9 [] c = "n" -> 10
       [] c = "v" -> 11 [] c = "f" -> 12 [] c = "r" -> 13 [] c = "e" -> 27]

EscapeSimple ==
  /\ At("escape") /\ got \in DOMAIN Simple
  /\ Use /\ Coded(Simple[got], FALSE)

(* Also with a warning, for a character that is no escape.                 *)
EscapeItself ==
  /\ At("escape") /\ got \notin DOMAIN Simple \cup Octal \cup {"x", "u", "U"}
  /\ Use /\ Escaped(Char(got))

EscapeOctal ==
  /\ At("escape") /\ got \in Octal
  /\ Use /\ Begin(code.in, 2, Nibble(got)) /\ Goto("octal")

OctalDigit ==
  LET n == code.value * 8 + Nibble(got)
  IN  /\ At("octal") /\ got \in Octal
      /\ Use
      /\ IF code.left = 1 THEN Coded(n, FALSE) ELSE Begin(code.in, 1, n) /\ Goto("octal")

OctalEnds == At("octal") /\ got \notin Octal /\ PutBack /\ Coded(code.value, FALSE)

EscapeHex ==
  /\ At("escape") /\ got = "x"
  /\ Use /\ Begin(code.in, 0, 0) /\ Goto("hex")

HexFirst ==
  /\ At("hex")
  /\ IF got \in HexDigits
     THEN Use /\ Begin(code.in, 0, Nibble(got)) /\ Goto("hexes")
     ELSE Fail

(* The texts have no more digits than an int holds.                        *)
HexMore ==
  /\ At("hexes") /\ got \in HexDigits
  /\ Use /\ Begin(code.in, 0, code.value * 16 + Nibble(got)) /\ Goto("hexes")

HexEnds == At("hexes") /\ got \notin HexDigits /\ PutBack /\ Coded(code.value, FALSE)

EscapeUniversal ==
  /\ At("escape") /\ got \in {"u", "U"}
  /\ Use /\ Begin(code.in, IF got = "u" THEN 4 ELSE 8, 0) /\ Goto("ucn")

ValidUcn(n) == n \notin 55296..57343 /\ (n >= 160 \/ n \in {36, 64, 96})

UcnDigit ==
  LET n == code.value * 16 + Nibble(got)
  IN  /\ At("ucn") /\ got \in HexDigits
      /\ CASE code.left > 1 -> Use /\ Begin(code.in, code.left - 1, n) /\ Goto("ucn")
           [] code.left = 1 /\ ValidUcn(n) -> Use /\ Coded(n, TRUE)
           [] OTHER -> Fail

UcnNoDigit == At("ucn") /\ got \notin HexDigits /\ Fail

(***************************************************************************)
(* The end of lex_string: a newline, if there is one, then nothing.        *)
(***************************************************************************)

PasteNewline ==
  /\ At("newline") /\ got = Newline
  /\ Use /\ Goto("rest") /\ UNCHANGED tokenVars

(* Mutant of Unstash: the stream is looked at, not popped.                 *)
UnstashNoPop ==
  /\ At("newline") \/ At("rest")
  /\ got = Eof
  /\ files' = stashed[Len(stashed)]
  /\ got' = NoChar
  /\ caller' = "lex" /\ mode' = "begin"
  /\ UNCHANGED <<stashed, slash, input, tokenVars, nest, paste, results>>

Unstash ==
  /\ At("newline") \/ At("rest")
  /\ got = Eof
  /\ files' = stashed[Len(stashed)]
  /\ stashed' = SubSeq(stashed, 1, Len(stashed) - 1)
  /\ got' = NoChar
  /\ caller' = "lex" /\ mode' = "begin"
  /\ UNCHANGED <<slash, input, tokenVars, nest, paste, results>>

Unconsumed ==
  /\ At("newline") \/ At("rest")
  /\ got \notin IF mode = "newline" THEN {Newline, Eof} ELSE {Eof}
  /\ Fail

(***************************************************************************)
(* skip_cond_incl.                                                         *)
(***************************************************************************)

Skip ==
  /\ mode = "skip"
  /\ bol' = (Top.column = 1)
  /\ Goto("gap") /\ UNCHANGED <<streamVars, text, content, code, space, at>>

(* The caller of skip_cond_incl goes on with lex.                          *)
SkipEof ==
  /\ At("skipfirst") /\ got = Eof
  /\ Use
  /\ caller' = "lex" /\ mode' = "begin"
  /\ UNCHANGED <<input, tokenVars, nest, paste, results>>

SkipHash ==
  /\ At("skipfirst") /\ got = "#" /\ bol
  /\ Use
  /\ caller' = "skiplex" /\ mode' = "begin"
  /\ UNCHANGED <<input, tokenVars, nest, paste, results>>

SkipLiteral ==
  /\ At("skipfirst") /\ got \in {"'", "\""}
  /\ Use /\ Goto(IF got = "'" THEN "skipchar" ELSE "skipstring") /\ UNCHANGED tokenVars

SkipOther ==
  /\ At("skipfirst") /\ got \notin {Eof, "'", "\""} /\ ~(got = "#" /\ bol)
  /\ Use /\ Goto("skip") /\ UNCHANGED tokenVars

(* skip_char takes one character, or two behind a backslash, whatever they *)
(* are, then all to the quote.                                             *)
SkipCharFirst ==
  /\ At("skipchar")
  /\ Use /\ Goto(IF got = Backslash THEN "skipescape" ELSE "skipchars") /\ UNCHANGED tokenVars

SkipEscape ==
  /\ At("skipescape") \/ At("skipstringescape")
  /\ Use /\ Goto(IF mode = "skipescape" THEN "skipchars" ELSE "skipstring") /\ UNCHANGED tokenVars

SkipChars ==
  /\ At("skipchars")
  /\ Use /\ Goto(IF got \in {Eof, "'"} THEN "skip" ELSE "skipchars") /\ UNCHANGED tokenVars

(* Mutant of SkipString: only a quote ends it.                             *)
SkipStringToQuote ==
  /\ At("skipstring")
  /\ Use
  /\ Goto(CASE got = "\""      -> "skip"
            [] got = Backslash -> "skipstringescape"
            [] OTHER           -> "skipstring")
  /\ UNCHANGED tokenVars

SkipString ==
  /\ At("skipstring")
  /\ Use
  /\ Goto(CASE got \in {Eof, "\""} -> "skip"
            [] got = Backslash     -> "skipstringescape"
            [] OTHER               -> "skipstring")
  /\ UNCHANGED tokenVars

(***************************************************************************)
(* read_header_file_name.                                                  *)
(***************************************************************************)

HeaderOpens ==
  /\ At("header") /\ got \in {"\"", "<"}
  /\ Use /\ Text(<<IF got = "<" THEN ">" ELSE "\"">>) /\ Goto("headername")

NoHeader ==
  /\ At("header") /\ got \notin {"\"", "<"}
  /\ PutBack
  /\ caller' = "lex" /\ mode' = "begin"
  /\ UNCHANGED <<input, tokenVars, nest, paste, results>>

HeaderName ==
  /\ At("headername") /\ got \notin {text[1], Newline, Eof}
  /\ Use /\ In(Char(got)) /\ Goto("headername")

HeaderCloses ==
  /\ At("headername") /\ got = text[1] /\ content # <<>>
  /\ Use
  /\ tokens' = Append(tokens, Token("header", text))
  /\ caller' = "lex" /\ mode' = "begin"
  /\ UNCHANGED <<input, tokenVars, nest, paste, pasted>>

HeaderFails ==
  /\ At("headername") /\ (got \in {Newline, Eof} \/ (got = text[1] /\ content = <<>>))
  /\ Fail

(***************************************************************************)
(* The specification.                                                      *)
(***************************************************************************)

Init ==
  /\ input \in Inputs
  /\ StreamInit([n \in 1..Len(input.open) |-> MakeFile(input.open[n])])
  /\ caller = input.start /\ nest = 0 /\ paste = input.paste
  /\ mode = CASE caller = "lex" -> "begin" [] caller = "skip" -> "skip" [] caller = "header" -> "gap"
  /\ text = <<>> /\ content = <<>> /\ code = NoCode
  /\ space = FALSE /\ bol = FALSE /\ at = 1
  /\ tokens = <<>> /\ pasted = <<>>

(* What is done without a character, and between two of them.              *)
Between == Lex \/ LexString \/ SpacesOnly \/ Mark \/ Skip
Reads ==
  /\ mode \notin {"begin", "spaces", "mark", "skip", "done", "error"}
  /\ Readc
  /\ UNCHANGED <<input, mode, tokenVars, callVars, results>>

Gap ==
  \/ GapSpace \/ GapSlash \/ GapEnds \/ SlashComment \/ SlashAlone
  \/ InBlock \/ BlockEnds \/ BlockUnterminated \/ InLine \/ LineEnds

First ==
  \/ FirstNewline \/ FirstEof \/ FirstPunctuator \/ FirstQuote \/ FirstLetter \/ FirstDigit
  \/ FirstOther

Further ==
  \/ PunctLonger \/ PunctDotDigit \/ PunctEnds \/ PunctTooFar
  \/ PrefixQuote \/ PrefixEight \/ PrefixNone
  \/ IdentLonger \/ IdentEof \/ IdentBackslash \/ IdentEnds \/ IdentNoEscape \/ IdentEscape
  \/ NumberLonger \/ NumberEnds

Literal ==
  \/ StringPlain \/ StringEnds \/ StringUnterminated \/ CharPlain \/ CharEnds \/ CharUnterminated
  \/ EscapeBegins \/ EscapeSimple \/ EscapeItself \/ EscapeOctal \/ OctalDigit \/ OctalEnds
  \/ EscapeHex \/ HexFirst \/ HexMore \/ HexEnds \/ EscapeUniversal \/ UcnDigit \/ UcnNoDigit

Paste == PasteNewline \/ Unstash \/ Unconsumed

Skips ==
  SkipEof \/ SkipHash \/ SkipLiteral \/ SkipOther \/ SkipCharFirst \/ SkipEscape \/ SkipChars \/ SkipString

Header == HeaderOpens \/ NoHeader \/ HeaderName \/ HeaderCloses \/ HeaderFails

Modes ==
  {"begin", "gap", "slash", "block", "star", "line", "skipline", "spaces", "mark", "first", "punct",
   "prefix", "ident", "identescape", "number", "string", "char", "charend", "escape", "octal", "hex",
   "hexes", "ucn", "newline", "rest", "skip", "skipfirst", "skipchar", "skipescape", "skipchars",
   "skipstring", "skipstringescape", "header", "headername", "done", "error"}

(* The stream is that of the source, or of a pasted string with the source *)
(* put away; what lex returned before it is there.                         *)
TypeOK ==
  /\ mode \in Modes /\ caller \in {"lex", "string", "skip", "skiplex", "header"}
  /\ files \in Seq(File) /\ files # <<>>
  /\ stashed \in Seq(Seq(File) \ {<<>>}) /\ Len(stashed) = IF caller = "string" THEN 1 ELSE 0
  /\ slash \in BOOLEAN /\ got \in Chars \cup {Eof, NoChar} /\ (slash => got = NoChar)
  /\ paste \in Seq(Chars) /\ nest \in Nat
  /\ space \in BOOLEAN /\ bol \in BOOLEAN /\ at \in Int

Over == mode \in {"done", "error"}
Stopped == Over /\ UNCHANGED vars

Next ==
  \/ Reads \/ Between \/ Gap \/ First \/ Further \/ Literal \/ Paste \/ Skips \/ Header
  \/ Stopped

Spec == Init /\ [][Next]_vars /\ WF_vars(Next)
=============================================================================
