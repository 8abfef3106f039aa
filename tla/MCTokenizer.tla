----------------------------- MODULE MCTokenizer -----------------------------
(***************************************************************************)
(* The texts the tokenizer is checked with: all sequences of a few         *)
(* fragments, chosen so that what one of them begins another one ends.     *)
(***************************************************************************)
EXTENDS Phases

MCLetters == {"a", "e", "f", "i", "n", "d", "l", "s", "u", "U", "L", "x", "D", "A", "F"}
MCChars ==
  MCLetters \cup Digits \cup
  {"\n", "\r", "\\", " ", "\"", "'", "%", ":", "#", "/", "*", "+", "-", ".", "<", ">", "=", "(", "@"}

RECURSIVE Texts(_, _)
Texts(fragments, n) ==
  {<<>>} \cup IF n = 0 THEN {} ELSE {f \o t : f \in fragments, t \in Texts(fragments, n - 1)}
Lexed(texts) == [open : {<<t>> : t \in texts}, paste : {NoPaste}, start : {"lex"}]

Splices == Lexed(Texts({<<"a">>, <<"/">>, <<"*">>, <<"\n">>, <<"\\">>, <<"#">>}, 4))
Digraphs == Lexed(Texts({<<"%">>, <<":">>, <<"%", ":">>, <<"\\", "\n">>, <<"#">>}, 4)
                    \cup {<<"%", ":", "%", "\\", "a">>, <<"/", "\\", "a">>, <<"u", "8", "\\", "a">>})
Ends3 == Lexed(Texts({<<"\r">>, <<"\n">>, <<"\\">>, <<"a">>, <<"\"">>}, 4))
Puncts == Lexed(Texts({<<c>> : c \in {"+", "-", "<", ">", "=", ".", "(", "@"}}, 3))
Numbers == Lexed(Texts({<<c>> : c \in {"1", ".", "e", "+", "a"}}, 4))
Literals ==
  Lexed(Texts({<<"'">>, <<"\"">>, <<"\\">>, <<"x">>, <<"u">>, <<"8">>, <<"0">>, <<"n">>, <<"L">>}, 3))
Escapes ==
  LET prefix == {<<>>, <<"u">>}
      escape == {<<"\\">> \o e : e \in
                  {<<"0">>, <<"7", "7">>, <<"1", "0", "1">>, <<"7", "7", "7">>,
                   <<"x", "a">>, <<"x", "1", "F", "0">>,
                   <<"u", "0", "0", "a", "A">>, <<"u", "0", "0", "2", "4">>, <<"u", "0", "0", "6", "1">>,
                   <<"u", "D", "8", "0", "0">>, <<"U", "0", "0", "0", "1", "F", "6", "0", "0">>,
                   <<"\"">>, <<"'">>, <<"n">>, <<"s">>}}
      tail == {<<>>, <<"1">>, <<"\\", "\n", "1">>}
  IN  Lexed({p \o <<q>> \o e \o t \o <<q>> : p \in prefix, q \in {"\"", "'"}, e \in escape, t \in tail}
              \cup {<<"a">> \o e \o t : e \in escape, t \in tail})
Nested ==
  [open : {<<outer, inner>> : outer \in Texts({<<"a">>, <<"=">>, <<"#">>, <<"\\", "\n">>}, 2),
                              inner \in {t \o <<"\\">> : t \in {<<>>, <<"a">>, <<"/">>, <<"+">>, <<"u", "8">>, <<"%", ":", "%">>}}
                                        \cup {<<"a">>, <<"a", "\r">>}},
   paste : {NoPaste}, start : {"lex"}]
Pastes ==
  [open : {<<t>> : t \in {<<"a", "\\", "\n", "d", "+", "\n", "#">>, <<"+", "\\", "\n", "+", "\\", "+">>}},
   paste : Texts({<<c>> : c \in {"a", "1", "+", "/", "*", "#", ".", "'"}}, 2) \ {NoPaste}, start : {"lex"}]
Groups ==
  [open : {<<t>> : t \in Texts(
             {<<"#", "i", "f", "\n">>, <<"#", "e", "n", "d", "i", "f", "\n">>, <<" ", "#", " ", "e", "l", "s", "e", "\n">>,
              <<"#", "e", "l", "i", "f", " ", "'", "\n">>, <<"a", "#", "e", "n", "d", "i", "f", "\n">>,
              <<"\"", "\\", "\"", "\n">>, <<"'", "\"", "'", "\n">>, <<"'", "\\", "'", "'">>,
              <<"/", "/", "'", "\n">>, <<"/", "*", "\n", "*", "/">>, <<"#", "\n">>}, 3)},
   paste : {NoPaste}, start : {"skip"}]
Headers ==
  [open : {<<t>> : t \in Texts({<<"<">>, <<">">>, <<"\"">>, <<"a">>, <<" ">>, <<"\\", "\n">>, <<"/", "*", "*", "/">>}, 4)},
   paste : {NoPaste}, start : {"header"}]

MCInputs ==
  Splices \cup Digraphs \cup Ends3 \cup Puncts \cup Numbers \cup Literals \cup Escapes \cup Nested \cup Pastes
    \cup Groups \cup Headers
=============================================================================
