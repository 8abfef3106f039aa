-------------------------------- MODULE Phases --------------------------------
(***************************************************************************)
(* What the tokens of a source are by the translation phases of C11        *)
(* (5.1.1.2, 6.4), phase by phase over the whole text: line ends, splices, *)
(* then the longest preprocessing token at each place.                     *)
(***************************************************************************)
EXTENDS Tokenizer, SequencesExt

(* Phase 1: line ends, and the newline at the end.                         *)
Canonical(t) ==
  LET kept == SelectSeq([i \in DOMAIN t |-> i], LAMBDA i : ~(i > 1 /\ t[i] = Newline /\ t[i - 1] = CarriageReturn))
      u == [i \in DOMAIN kept |-> IF t[kept[i]] = CarriageReturn THEN Newline ELSE t[kept[i]]]
  IN  IF u # <<>> /\ Last(u) = Newline THEN u ELSE Append(u, Newline)

(* Phase 2.  Each character knows its line and the splices at its sides.   *)
Logical(t) ==
  LET u == Canonical(t)
      spliced == {i \in DOMAIN u : \/ u[i] = Backslash /\ i < Len(u) /\ u[i + 1] = Newline
                                   \/ u[i] = Newline /\ i > 1 /\ u[i - 1] = Backslash}
      kept == SelectSeq([i \in DOMAIN u |-> i], LAMBDA i : i \notin spliced)
  IN  [n \in DOMAIN kept |->
         LET i == kept[n]
         IN  [c |-> u[i],
              line |-> 1 + Cardinality({j \in 1..(i - 1) : u[j] = Newline}),
              behind |-> i = 1 \/ i - 1 \in spliced,
              before |-> i + 1 \in spliced]]

(* An included file stands in front of what is left of the one around it.  *)
Source(open) == FlattenSeq([n \in DOMAIN open |-> Logical(open[Len(open) + 1 - n])])

(***************************************************************************)
(* Phase 3, of the characters s.                                           *)
(***************************************************************************)

C(s, i) == IF i \in DOMAIN s THEN s[i].c ELSE Eof

(* The first place from i on that is not in S.                             *)
Run(s, S, i) == CHOOSE j \in i..(Len(s) + 1) : C(s, j) \notin S /\ \A k \in i..(j - 1) : C(s, k) \in S

Bad == 0

(* Behind the spaces and comments at i.                                    *)
RECURSIVE GapEnd(_, _)
GapEnd(s, i) ==
  LET closings == {j \in (i + 2)..Len(s) : C(s, j) = "*" /\ C(s, j + 1) = "/"}
  IN  CASE C(s, i) \in White -> GapEnd(s, i + 1)
        [] C(s, i) = "/" /\ C(s, i + 1) = "/" -> GapEnd(s, Run(s, Chars \ {Newline}, i))
        [] C(s, i) = "/" /\ C(s, i + 1) = "*" ->
             IF closings = {} THEN Bad ELSE GapEnd(s, Min(closings) + 2)
        [] OTHER -> i

Digited(s, base, i, j) ==
  LET value[k \in i..j] == IF k = i THEN 0 ELSE value[k - 1] * base + Nibble(C(s, k - 1))
  IN  value[j]

(* What stands for one character: the character or an escape, and where it *)
(* ends.                                                                   *)
Coding(kind, c, n, end) == [code |-> kind, c |-> c, n |-> n, end |-> end]

UcnFrom(s, i, j) ==
  LET n == Digited(s, 16, i, j)
  IN  IF Run(s, HexDigits, i) < j THEN Coding("ucn", NoChar, 0, Bad)
      ELSE Coding("ucn", NoChar, n, IF ValidUcn(n) THEN j ELSE Bad)
HexFrom(s, i, j) == IF i = j THEN Coding("byte", NoChar, 0, Bad) ELSE Coding("byte", NoChar, Digited(s, 16, i, j), j)
OctalFrom(s, i, j) == Coding("byte", NoChar, Digited(s, 8, i, j), j)

IsUcn(s, i) == C(s, i) = Backslash /\ C(s, i + 1) \in {"u", "U"}
Ucn(s, i) == UcnFrom(s, i + 2, i + 2 + IF C(s, i + 1) = "u" THEN 4 ELSE 8)

EscapeOf(s, i, c) ==
  CASE IsUcn(s, i)   -> Ucn(s, i)
    [] c = "x"       -> HexFrom(s, i + 2, Run(s, HexDigits, i + 2))
    [] c \in Octal   -> OctalFrom(s, i + 1, Min({Run(s, Octal, i + 1), i + 4}))
    [] c \in DOMAIN Simple -> Coding("byte", NoChar, Simple[c], i + 2)
    [] OTHER         -> Coding("char", c, 0, i + 2)
CharAt(s, i) == IF C(s, i) = Backslash THEN EscapeOf(s, i, C(s, i + 1)) ELSE Coding("char", C(s, i), 0, i + 1)

(* What it gives.  Only a character with a prefix holds more than a byte,  *)
(* and a string holds universal characters in UTF-8.                       *)
Item(e, whole) == IF e.code = "char" THEN Char(e.c) ELSE IF e.code \in whole THEN Whole(e.n) ELSE Byte(e.n)

Tok(kind, spelling, items, end) == [kind |-> kind, text |-> spelling, content |-> items, end |-> end]
Spelled(s, i, j) == [k \in 1..(j - i) |-> C(s, i + k - 1)]

(* The string that goes on at i after items; Bad unless it is closed.      *)
RECURSIVE StringFrom(_, _, _, _), StringNext(_, _, _, _)
StringFrom(s, i, word, items) ==
  CASE C(s, i) = Eof  -> Tok("string", word, items, Bad)
    [] C(s, i) = "\"" -> Tok("string", word, items, i + 1)
    [] OTHER          -> StringNext(s, CharAt(s, i), word, items)
StringNext(s, e, word, items) ==
  IF e.end = Bad THEN Tok("string", word, items, Bad)
  ELSE StringFrom(s, e.end, word, Append(items, Item(e, {"ucn"})))

Character(s, e, word) ==
  Tok("char", word, <<Item(e, IF word = <<>> THEN {} ELSE {"ucn", "byte"})>>,
      IF e.end = Bad \/ C(s, e.end) # "'" THEN Bad ELSE e.end + 1)

(* The identifier that goes on at i after name.                            *)
RECURSIVE IdentFrom(_, _, _), IdentNext(_, _, _)
IdentFrom(s, i, name) ==
  CASE IsUcn(s, i) -> IdentNext(s, Ucn(s, i), name)
    [] C(s, i) \in Letters \cup Digits -> IdentFrom(s, i + 1, Append(name, C(s, i)))
    [] OTHER -> Tok("ident", name, <<>>, i)
IdentNext(s, u, name) ==
  IF u.end = Bad THEN Tok("ident", name, <<>>, Bad) ELSE IdentFrom(s, u.end, Append(name, Utf8(u.n)))

InNumber(s, i, k) ==
  \/ C(s, k) \in Letters \cup Digits \cup {"."}
  \/ C(s, k) \in {"+", "-"} /\ k > i /\ C(s, k - 1) \in {"e", "E", "p", "P"}
NumberTo(s, i, j) == Tok("number", Spelled(s, i, j), <<>>, j)
Number(s, i) ==
  NumberTo(s, i, CHOOSE j \in i..(Len(s) + 1) : ~InNumber(s, i, j) /\ \A k \in i..(j - 1) : InNumber(s, i, k))

Punctuator(p, i) == Tok(IF p = <<".", ".">> THEN "ident" ELSE "punct", Spelling(p), <<>>, i + Len(p))
Longest(s, i) == Max({n \in 1..4 : Spelled(s, i, i + n) \in Punctuators})

(* A literal's prefix at i: how long it is.                                *)
Prefix(s, i) ==
  CASE C(s, i) \in {"\"", "'"} -> 0
    [] C(s, i) \in {"L", "U", "u"} /\ C(s, i + 1) \in {"\"", "'"} -> 1
    [] C(s, i) = "u" /\ C(s, i + 1) = "8" /\ C(s, i + 2) = "\"" -> 2
    [] OTHER -> -1

(* The token at i, where there is no space.                                *)
TokenFrom(s, i, prefix) ==
  CASE C(s, i) = Eof     -> Tok("eof", <<>>, <<>>, i)
    [] C(s, i) = Newline -> Tok("newline", <<>>, <<>>, i + 1)
    [] prefix >= 0 /\ C(s, i + prefix) = "\"" -> StringFrom(s, i + prefix + 1, Spelled(s, i, i + prefix), <<>>)
    [] prefix >= 0 /\ C(s, i + prefix) = "'" -> Character(s, CharAt(s, i + prefix + 1), Spelled(s, i, i + prefix))
    [] prefix < 0 /\ C(s, i) \in Letters -> IdentFrom(s, i, <<>>)
    [] C(s, i) \in Digits \/ (C(s, i) = "." /\ C(s, i + 1) \in Digits) -> Number(s, i)
    [] <<C(s, i)>> \in Punctuators /\ ~(C(s, i) = "." /\ C(s, i + 1) \in Digits) ->
         Punctuator(Spelled(s, i, i + Longest(s, i)), i)
    [] OTHER -> Tok("invalid", <<C(s, i)>>, <<>>, i + 1)

(* With the space before it.  Two flags of a token are what the code is    *)
(* known not to get right: whether a token behind a splice begins a line,  *)
(* for a column is put back but not the line break it came over, and the   *)
(* line of /, % and \ in front of a splice, which have been put back       *)
(* behind it.                                                              *)
Flagged(s, i, g, t, first) ==
  [kind |-> t.kind, text |-> t.text, content |-> t.content, space |-> g > i, bol |-> first,
   line |-> IF g \in DOMAIN s THEN s[g].line ELSE 0,
   from |-> g, end |-> t.end,
   anybol |-> ~first /\ i \in DOMAIN s /\ s[i].behind,
   anyline |-> C(s, g) \in {"/", "%", Backslash} /\ s[g].before]

(* All tokens from i on after ts, and whether there is nothing wrong.      *)
RECURSIVE TokensAfter(_, _, _), TokensNext(_, _, _)
TokensAfter(s, i, ts) ==
  LET g == GapEnd(s, i)
  IN  IF g = Bad THEN [ok |-> FALSE, tokens |-> ts]
      ELSE TokensNext(s, Flagged(s, i, g, TokenFrom(s, g, Prefix(s, g)), i = 1 \/ C(s, i - 1) = Newline), ts)
TokensNext(s, t, ts) ==
  CASE t.end = Bad    -> [ok |-> FALSE, tokens |-> ts]
    [] t.kind = "eof" -> [ok |-> TRUE, tokens |-> Append(ts, t)]
    [] OTHER          -> TokensAfter(s, t.end, Append(ts, t))

(* The tokens for spaces, newlines and the end are shared, and a header    *)
(* name is no token: these have no flags.                                  *)
Same(t, r) ==
  /\ t.kind = r.kind /\ t.text = r.text /\ t.content = r.content
  /\ t.kind \notin {"newline", "eof", "space", "header"} =>
       /\ t.space = r.space
       /\ r.anybol \/ t.bol = r.bol
       /\ r.anyline \/ t.line = r.line
AllSame(ts, rs) == Len(ts) = Len(rs) /\ \A n \in DOMAIN ts : Same(ts[n], rs[n])

(* 6.10.1: up to the directive that ends the group, nested ones apart.  The *)
(* code takes no %: for a # there.                                         *)
IsDirective(ts, n, names) ==
  /\ ts[n].kind = "punct" /\ ts[n].text = <<"#">> /\ ts[n].bol
  /\ n < Len(ts) /\ ts[n + 1].kind = "ident" /\ ts[n + 1].text \in names
Depth(ts, n) ==
  Cardinality({k \in 1..(n - 1) : IsDirective(ts, k, Opening)})
    - Cardinality({k \in 1..(n - 1) : IsDirective(ts, k, {Endif})})
Skipped(ts) ==
  LET ends == {n \in DOMAIN ts : IsDirective(ts, n, Closing) /\ Depth(ts, n) = 0}
      n == Min(ends)
      name == [ts[n + 1] EXCEPT !.bol = FALSE]
      hash == [ts[n] EXCEPT !.space = FALSE, !.line = name.line]
  IN  IF ends = {} THEN <<Last(ts)>> ELSE <<hash, name>> \o SubSeq(ts, n + 2, Len(ts))

(* 6.4.7: a header name between g and j, or else tokens.                   *)
HeaderTo(s, g, close, j) ==
  IF C(s, j) # close \/ j = g + 1 THEN [ok |-> FALSE, tokens |-> <<>>]
  ELSE TokensAfter(s, j + 1, <<[kind |-> "header", text |-> <<close>>,
                                content |-> [k \in 1..(j - g - 1) |-> Char(C(s, g + k))]]>>)
HeaderFrom(s, g, close) == HeaderTo(s, g, close, Run(s, Chars \ {close, Newline}, g + 1))
Headed(s, g) ==
  CASE g = Bad -> [ok |-> FALSE, tokens |-> <<>>]
    [] g # Bad /\ C(s, g) \in {"\"", "<"} -> HeaderFrom(s, g, IF C(s, g) = "<" THEN ">" ELSE "\"")
    [] OTHER -> TokensAfter(s, g, <<>>)

(* What is read, and whether it can be.                                    *)
Skipping(r) == [r EXCEPT !.tokens = IF r.ok THEN Skipped(@) ELSE @]
Reading(s) ==
  CASE input.start = "header" -> Headed(s, GapEnd(s, 1))
    [] input.start = "skip"   -> Skipping(TokensAfter(s, 1, <<>>))
    [] OTHER                  -> TokensAfter(s, 1, <<>>)

(* Of a pasted string one token must remain.  What // begins is to the code *)
(* a space, and one token.                                                 *)
GluedFrom(s, r) ==
  IF GapEnd(s, 1) > 1
  THEN [ok |-> C(s, GapEnd(s, 1)) = Newline,
        tokens |-> <<Tok("space", <<>>, <<>>, 1)>>]
  ELSE [ok |-> /\ r.ok /\ Len(r.tokens) = 3
               /\ r.tokens[2].kind = "newline" /\ r.tokens[2].from = r.tokens[1].end,
        tokens |-> [n \in 1..Min({1, Len(r.tokens)}) |-> [r.tokens[n] EXCEPT !.bol = FALSE]]]
Gluing(s) == GluedFrom(s, TokensAfter(s, 1, <<>>))

(* A backslash that phase 2 leaves in front of a newline: where readc has  *)
(* to put the two back they are read again as a splice (file.c:114-118).   *)
Resplices(s) == \E n \in DOMAIN s : s[n].c = Backslash /\ C(s, n + 1) = Newline

Refused(r) == ~r.ok
Read(r) ==
  /\ r.ok \/ input.start = "skip"
  /\ r.ok => AllSame(tokens, r.tokens)
GluedRight(r) == r.ok /\ AllSame(pasted, r.tokens)
IsPasted == input.paste # NoPaste /\ paste = NoPaste

(* The tokens lex returns, with their flags and lines, what lex_string and *)
(* read_header_file_name return and where skip_cond_incl stops are those   *)
(* of the translation phases; and what has no tokens is refused, but for   *)
(* text that is skipped, and nothing else is (lex.c, file.c).              *)
MatchesPhases ==
  mode \in {"done", "error"} /\ ~Resplices(Source(input.open)) =>
    IF mode = "done"
    THEN /\ Read(Reading(Source(input.open)))
         /\ IsPasted => GluedRight(Gluing(Logical(input.paste)))
    ELSE \/ Refused(Reading(Source(input.open)))
         \/ IsPasted /\ Refused(Gluing(Logical(input.paste)))

(* The source ends in an identifier and a splice: IdentEof.                *)
EndsInIdentifier(r) ==
  LET last == r.tokens[Len(r.tokens) - 1]
  IN  r.ok /\ Len(r.tokens) > 1 /\ last.kind = "ident" /\ last.end = Last(r.tokens).from

(* Every source is read to its end or refused, but for one that ends in an *)
(* identifier and a splice, which is read for ever (lex.c:378).            *)
Ends == <>(Over \/ (mode = "ident" /\ got = Eof /\ EndsInIdentifier(Reading(Source(input.open)))))
=============================================================================
