------------------------------- MODULE Prosser -------------------------------
(***************************************************************************)
(* What macro expansion has to compute: "expand" and "subst" of Dave       *)
(* Prosser's algorithm, which cpp.c:4 says it implements, as recursive     *)
(* operators on whole token lists, extended by what C lets stand in the    *)
(* text: newlines and directives.                                          *)
(*                                                                         *)
(* Three clauses on "##" of the published algorithm are not in cpp.c, nor  *)
(* here: a replacement keeps its hide set whatever it pastes, a glued      *)
(* token is hidden from what both its parts are, and the parameter after   *)
(* an empty one is not expanded.                                           *)
(***************************************************************************)
EXTENDS MacroExpand, Integers, SequencesExt, FiniteSetsExt

IsDirective(t) == t.n \in DOMAIN Directives
IsText(t) == t.n # NEWLINE /\ ~ IsDirective(t)

Define(ms, t) ==
  IF IsDirective(t)
  THEN [ms EXCEPT ![Directives[t.n].name] = Directives[t.n].macro] ELSE ms

(* The actuals of a call of macro m; ts is what follows its "(".           *)
Depth(ts, n) == Cardinality({i \in 1..n : ts[i].n = LPAREN})
                - Cardinality({i \in 1..n : ts[i].n = RPAREN})

Closings(ts) == {c \in DOMAIN ts : ts[c].n = RPAREN /\ Depth(ts, c) = -1}

Actuals(m, ts) ==
  LET last   == Min(Closings(ts))
      commas == {c \in 1..last - 1 : ts[c].n = COMMA /\ Depth(ts, c) = 0}
      cuts   == {c \in commas :
                   m.varg => Cardinality({d \in commas : d < c}) < m.nargs - 1}
      ends   == <<0>> \o SetToSortSeq(cuts \cup {last}, <)
      read   == [n \in 1..Len(ends) - 1 |->
                   SelectSeq(SubSeq(ts, ends[n] + 1, ends[n + 1] - 1), IsText)]
  IN  IF m.varg /\ Len(read) = m.nargs - 1 THEN Append(read, <<>>) ELSE read

PError == <<Token(<<"error">>)>>

HideMore(ts, hs) == [n \in DOMAIN ts |-> [ts[n] EXCEPT !.hideset = @ \cup hs]]

GlueTokens(r, t) ==
  IF ~ CanGlue(r, t) THEN PError
  ELSE [Glue(r, t) EXCEPT ![Len(r)].hideset = {}]

RECURSIVE Expand(_, _), SubstFrom(_, _, _, _, _, _)

(* expand: the replacement of ts, from left to right, macros ms defined.   *)
Expand(ms, ts) ==
  IF ts = <<>> THEN <<>>
  ELSE
  LET t     == ts[1]
      rest  == Tail(ts)
      m     == IF t.n \in DOMAIN ms /\ t.n \notin t.hideset THEN ms[t.n] ELSE NoMacro
      ready == m.kind = "func" /\ rest # <<>> /\ rest[1].n = LPAREN
      after == Tail(rest)                     (* if ready: what follows "(" *)
  IN
  CASE ~ IsText(t)        -> Expand(Define(ms, t), rest)
    [] m.kind = "special" -> Expand(ms, <<[t EXCEPT !.n = VALUE]>> \o rest)
    [] m.kind = "obj"     ->
         Expand(ms, SubstFrom(ms, m, <<>>, 1, t.hideset \cup {t.n}, <<>>) \o rest)
    [] ready /\ Closings(after) = {} -> PError
    [] ready /\ Closings(after) # {} ->
         LET last == Min(Closings(after))
             defs == FoldLeft(Define, ms, SubSeq(after, 1, last))
             args == IF m.nargs = 0 /\ Expand(ms, SubSeq(after, 1, last - 1)) = <<>>
                     THEN <<>> ELSE Actuals(m, after)
             hs   == (t.hideset \cap after[last].hideset) \cup {t.n}
         IN  IF Len(args) # m.nargs THEN PError
             ELSE Expand(defs, SubstFrom(defs, m, args, 1, hs, <<>>)
                           \o SubSeq(after, last + 1, Len(after)))
    [] OTHER              -> <<t>> \o Expand(ms, rest)

(* subst: r is the replacement of the body before i.                       *)
SubstFrom(ms, m, args, i, hs, r) ==
  IF i > Len(m.body) THEN HideMore(r, hs)
  ELSE
  LET t    == m.body[i]
      more == i < Len(m.body)
      u    == IF more THEN m.body[i + 1] ELSE Token(NEWLINE)
      Arg(x) == args[x.p]
      Skip(n, s) == SubstFrom(ms, m, args, i + n, hs, s)
      Paste(s)   == SubstFrom(ms, m, args, i + 2, {}, s)
  IN
  CASE t.n = HASH /\ u.p > 0 -> Skip(2, Append(r, Token(StringOf(Arg(u)))))
    [] t.n = HASHHASH /\ u.p > 0 /\ m.varg /\ u.p = m.nargs
         /\ r # <<>> /\ Last(r).n = COMMA ->
         Skip(2, IF Arg(u) = <<>> THEN Front(r) ELSE r \o Arg(u))
    [] t.n = HASHHASH /\ u.p > 0 /\ ~ (m.varg /\ u.p = m.nargs
         /\ r # <<>> /\ Last(r).n = COMMA) ->
         Skip(2, IF Arg(u) = <<>> THEN r
                 ELSE GlueTokens(r, Arg(u)[1]) \o Tail(Arg(u)))
    [] t.n = HASHHASH /\ u.p = 0 /\ more -> Paste(GlueTokens(r, u))
    [] t.p > 0 /\ u.n = HASHHASH /\ Arg(t) # <<>> ->
         SubstFrom(ms, m, args, i + 1, {}, r \o Arg(t))
    [] t.p > 0 /\ u.n = HASHHASH /\ Arg(t) = <<>> -> Paste(r)
    [] t.p > 0 /\ u.n # HASHHASH -> Skip(1, r \o Expand(ms, Arg(t)))
    [] OTHER -> Skip(1, Append(r, t))

(* The names of the program's whole text, fully expanded.                  *)
Expansion ==
  LET ts == Expand(Tables[program.table],
                   [n \in DOMAIN program.text |-> Token(program.text[n])])
  IN  [n \in DOMAIN ts |-> ts[n].n]

Rejected(names) == <<"error">> \in Range(names)

------------------------------------------------------------------------------
(* The expander's buffers, stashes and pushed-back tokens compute what the *)
(* recursive definition does, and it stops with an error just where that   *)
(* finds one: for every text of a program.                                 *)
MatchesExpansion ==
  /\ status = "done" => out = Expansion
  /\ status = "error" => Rejected(Expansion)
=============================================================================
