----------------------------- MODULE MCCondIncl ------------------------------
(* Small programs for CondIncl: every header h up to a length over a few   *)
(* lines, included by a few main files.                                    *)
EXTENDS Groups, SequencesExt

L(kind, arg) == [kind |-> kind, arg |-> arg]
IncludeH == L("include", "h")
IncludeK == L("include", "k")
Else == L("else", "")
Endif == L("endif", "")
Blank == L("blank", "")
Text(n) == L("text", n)

(* h is included twice, in and out of conditionals, its guard undefined    *)
(* or its macro defined in between, or reached through k.                  *)
Mains == {
  <<IncludeH, IncludeH, Text("m")>>,
  <<IncludeH, Blank, L("undef", "G"), IncludeH>>,
  <<L("define", "D"), IncludeH, L("if", "D"), Text("m"), Else, IncludeH, Endif, IncludeH>>,
  <<L("ifdef", "D"), L("ifndef", "D"), Endif, IncludeH, L("elif", "D"), IncludeH, Else,
    L("import", "h"), Endif, IncludeH>>,
  <<IncludeK, IncludeH, IncludeK>> }

K == <<IncludeH, L("ifndef", "G"), Text("k"), Endif>>

Bodies(lines, length) == UNION {[1..n -> lines] : n \in 0..length}

(* Any lines, few; and conditionals with any lines inside, more.           *)
Headers ==
  Bodies({L("ifndef", "G"), L("if", "D"), L("define", "G"), Text("h"), Else,
          L("elif", "D"), Endif, IncludeH}, 3)
  \cup {<<L("ifndef", "G")>> \o b \o <<Endif>> \o e :
          b \in Bodies({L("ifdef", "D"), L("define", "G"), L("define", "D"), Text("h"), Else,
                        L("elif", "G"), Endif, IncludeH}, 3),
          e \in {<<>>, <<Blank>>, <<Text("h")>>}}
  \cup {<<Blank, L("once", ""), Text("h")>>,
        <<L("line", "h"), Text("h"), L("quote", "don't")>>,
        <<L("if", "D"), L("quote", "don't"), Endif, L("quote", "don't"), Endif, Text("h")>>,
        <<L("ifndef", "G"), L("define", "G"), IncludeK, Endif>>}

Program(m, h) == [main |-> m, h |-> h, k |-> K]

MCPrograms == {Program(m, h) : m \in Mains, h \in Headers}
=============================================================================
