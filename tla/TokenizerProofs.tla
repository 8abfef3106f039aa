--------------------------- MODULE TokenizerProofs ---------------------------
(***************************************************************************)
(* Proofs about Tokenizer, for all texts: the characters it puts back fit  *)
(* into File.buf, which holds three.  What has to be known is how many of  *)
(* the characters read are still to be put back in each mode (Held), what  *)
(* buf can hold before and after the next character is read (Limit), and   *)
(* that the files below the one that is read, and those that are stashed,  *)
(* keep what they hold.                                                    *)
(***************************************************************************)
EXTENDS Tokenizer, SequenceTheorems, TLAPS

(* The characters of an unfinished token that may still be put back.       *)
Held ==
  CASE mode \in {"slash", "identescape"} -> 1
    [] mode \in {"prefix", "punct"} -> IF Len(text) = 1 THEN 1 ELSE 2
    [] OTHER -> 0

(* What buf holds at most: before a character is read, behind a backslash  *)
(* that has been taken out, and with the character that was read.          *)
After2(held) == IF held = 0 THEN 2 ELSE 1
Limit == IF slash THEN 2 - Held ELSE IF got = NoChar THEN 3 - Held ELSE After2(Held)

Holds(fs, k) ==
  /\ fs \in Seq(File) /\ fs # <<>>
  /\ Len(fs[Len(fs)].buf) <= k
  /\ \A n \in 1..(Len(fs) - 1) : fs[n].buf = <<>>

StreamInv ==
  /\ Holds(files, Limit)
  /\ stashed \in Seq(Seq(File) \ {<<>>})
  /\ \A n \in 1..Len(stashed) : Holds(stashed[n], 3)
  /\ slash \in BOOLEAN /\ got \in Chars \cup {Eof, NoChar} /\ (slash => got = NoChar)

WordInv ==
  mode \in {"punct", "prefix"} =>
    /\ text \in Seq(Chars \cup {Eof}) /\ text # <<>>
    /\ mode = "punct" /\ Len(text) = 1 => text \in Punctuators

(* An escape knows what it is in.                                          *)
EscapeModes == {"escape", "octal", "hex", "hexes", "ucn"}
CodeInv == mode \in EscapeModes => code.in \in {"string", "char", "ident"}

Callers == {"lex", "string", "skip", "skiplex", "header"}
CallInv ==
  /\ mode \in Modes /\ caller \in Callers
  /\ Len(stashed) = IF caller = "string" THEN 1 ELSE 0
  /\ mode \in {"newline", "rest"} => caller = "string"
  /\ mode \in {"skipfirst", "header", "headername"} => caller # "string"
  /\ paste \in Seq(Chars) /\ nest \in Nat
  /\ space \in BOOLEAN /\ bol \in BOOLEAN /\ at \in Int

IInv == StreamInv /\ WordInv /\ CodeInv /\ CallInv

------------------------------------------------------------------------------
(* One file. *)

LEMMA FilesHold ==
  ASSUME NEW f \in File
  PROVE  /\ f.text \in Seq(Chars) /\ f.buf \in Seq(Chars) /\ f.last \in Chars \cup {Eof, NoChar}
         /\ f.line \in Int /\ f.column \in Int
BY DEF File

LEMMA TailOK ==
  ASSUME NEW t \in Seq(Chars), t # <<>>
  PROVE  t[1] \in Chars /\ Tail(t) \in Seq(Chars)
OBVIOUS

LEMMA RawOK ==
  ASSUME NEW f \in File
  PROVE  /\ ReadRaw(f).c \in Chars \cup {Eof}
         /\ ReadRaw(f).file \in File /\ ReadRaw(f).file.buf = f.buf
<1> DEFINE rest == Tail(f.text)
           crlf == f.text[1] = CarriageReturn /\ rest # <<>> /\ rest[1] = Newline
           c == CASE f.text # <<>> -> IF f.text[1] = CarriageReturn THEN Newline ELSE f.text[1]
                  [] OTHER         -> IF f.last \in {Newline, Eof} THEN Eof ELSE Newline
           left == IF f.text = <<>> THEN <<>> ELSE IF crlf THEN Tail(rest) ELSE rest
<1>1. c \in Chars \cup {Eof}
  BY FilesHold, TailOK, CharAssumption
<1>2. left \in Seq(Chars)
  <2>1. CASE f.text = <<>>
    BY <2>1
  <2>2. CASE f.text # <<>>
    <3>1. rest \in Seq(Chars)
      BY <2>2, FilesHold, TailOK
    <3>2. crlf => Tail(rest) \in Seq(Chars)
      BY <3>1, TailOK
    <3> HIDE DEF rest, crlf
    <3> QED BY <2>2, <3>1, <3>2
  <2> QED BY <2>1, <2>2
<1>3. ReadRaw(f) = [c |-> c, file |-> [f EXCEPT !.text = left, !.last = c]]
  BY DEF ReadRaw
<1> HIDE DEF c, left, rest, crlf
<1> DEFINE g == [f EXCEPT !.text = left, !.last = c]
<1>4. g \in File /\ g.buf = f.buf
  BY <1>1, <1>2 DEF File
<1> HIDE DEF g
<1>5. ReadRaw(f).c = c /\ ReadRaw(f).file = g
  BY <1>3 DEF g
<1> QED BY <1>1, <1>4, <1>5

LEMMA TakenOK ==
  ASSUME NEW f \in File
  PROVE  /\ Taken(f).c \in Chars \cup {Eof}
         /\ Taken(f).file \in File
         /\ Len(Taken(f).file.buf) <= Len(f.buf)
         /\ f.buf # <<>> => Len(Taken(f).file.buf) = Len(f.buf) - 1
<1>1. CASE f.buf # <<>>
  <2> DEFINE b == SubSeq(f.buf, 1, Len(f.buf) - 1)
  <2>1. f.buf \in Seq(Chars) /\ Len(f.buf) \in Nat /\ Len(f.buf) > 0
    BY <1>1, FilesHold
  <2>2. b \in Seq(Chars) /\ Len(b) = Len(f.buf) - 1
    BY <2>1
  <2>3. f.buf[Len(f.buf)] \in Chars
    BY <2>1
  <2>4. Taken(f) = [c |-> f.buf[Len(f.buf)], file |-> [f EXCEPT !.buf = b]]
    BY <1>1 DEF Taken
  <2> HIDE DEF b
  <2> DEFINE g == [f EXCEPT !.buf = b]
  <2>5. g \in File /\ g.buf = b
    BY <2>2 DEF File
  <2> HIDE DEF g
  <2>6. Taken(f).c = f.buf[Len(f.buf)] /\ Taken(f).file = g
    BY <2>4 DEF g
  <2> QED BY <2>1, <2>2, <2>3, <2>5, <2>6
<1>2. CASE f.buf = <<>>
  BY <1>2, RawOK, FilesHold DEF Taken
<1> QED BY <1>1, <1>2

LEMMA GetOK ==
  ASSUME NEW f \in File
  PROVE  /\ Get(f).c \in Chars \cup {Eof}
         /\ Get(f).file \in File
         /\ Len(Get(f).file.buf) <= Len(f.buf)
         /\ f.buf # <<>> => Len(Get(f).file.buf) = Len(f.buf) - 1
<1> DEFINE r == Taken(f)
           l == IF r.c = Newline THEN r.file.line + 1 ELSE r.file.line
           k == CASE r.c = Newline -> 1 [] r.c = Eof -> r.file.column [] OTHER -> r.file.column + 1
<1>1. /\ r.c \in Chars \cup {Eof} /\ r.file \in File
      /\ Len(r.file.buf) <= Len(f.buf)
      /\ f.buf # <<>> => Len(r.file.buf) = Len(f.buf) - 1
  BY TakenOK
<1>2. Get(f) = [c |-> r.c, file |-> [r.file EXCEPT !.line = l, !.column = k]]
  BY DEF Get
<1>3. l \in Int /\ k \in Int
  BY <1>1, FilesHold
<1> HIDE DEF r, l, k
<1> DEFINE g == [r.file EXCEPT !.line = l, !.column = k]
<1>4. g \in File /\ g.buf = r.file.buf
  BY <1>1, <1>3 DEF File
<1> HIDE DEF g
<1>5. Get(f).c = r.c /\ Get(f).file = g
  BY <1>2 DEF g
<1> QED BY <1>1, <1>4, <1>5

LEMMA UnreadOK ==
  ASSUME NEW f \in File, NEW c \in Chars \cup {Eof}
  PROVE  Unread(f, c) \in File /\ Len(Unread(f, c).buf) <= Len(f.buf) + 1
<1>1. CASE c = Eof
  BY <1>1, FilesHold DEF Unread
<1>2. CASE c # Eof
  <2> DEFINE l == IF c = Newline THEN f.line - 1 ELSE f.line
             k == IF c = Newline THEN 1 ELSE f.column - 1
             b == Append(f.buf, c)
  <2>1. b \in Seq(Chars) /\ Len(b) = Len(f.buf) + 1
    BY <1>2, FilesHold
  <2>2. l \in Int /\ k \in Int
    BY FilesHold
  <2>3. Unread(f, c) = [f EXCEPT !.buf = b, !.column = k, !.line = l]
    BY <1>2 DEF Unread
  <2> HIDE DEF l, k, b
  <2>4. [f EXCEPT !.buf = b, !.column = k, !.line = l] \in File
    BY <2>1, <2>2 DEF File
  <2>5. [f EXCEPT !.buf = b, !.column = k, !.line = l].buf = b
    BY DEF File
  <2> QED BY <2>1, <2>3, <2>4, <2>5
<1> QED BY <1>1, <1>2

------------------------------------------------------------------------------
(* The file that is read. *)

LEMMA TopOK ==
  ASSUME StreamInv
  PROVE  /\ files \in Seq(File) /\ files # <<>> /\ Len(files) \in Nat \ {0}
         /\ Top \in File /\ Top = files[Len(files)] /\ Len(Top.buf) \in Nat
         /\ Len(Top.buf) <= Limit
         /\ Top.line \in Int /\ Top.column \in Int
<1>1. files \in Seq(File) /\ files # <<>> /\ Len(files[Len(files)].buf) <= Limit
  BY DEF StreamInv, Holds
<1>2. Len(files) \in Nat \ {0} /\ files[Len(files)] \in File
  BY <1>1
<1> QED BY <1>1, <1>2, FilesHold DEF Top

LEMMA SetTopOK ==
  ASSUME StreamInv, NEW f \in File, NEW k \in Int, Len(f.buf) <= k, SetTop(f)
  PROVE  Holds(files', k)
<1>1. files' = [files EXCEPT ![Len(files)] = f]
  BY DEF SetTop
<1>2. files \in Seq(File) /\ Len(files) \in Nat \ {0}
  BY TopOK
<1>3. files' \in Seq(File) /\ Len(files') = Len(files) /\ files'[Len(files)] = f
  BY <1>1, <1>2
<1>4. \A n \in 1..(Len(files) - 1) : files'[n] = files[n]
  BY <1>1, <1>2
<1>5. \A n \in 1..(Len(files) - 1) : files[n].buf = <<>>
  BY DEF StreamInv, Holds
<1>6. \A n \in 1..(Len(files') - 1) : files'[n].buf = <<>>
  BY <1>3, <1>4, <1>5
<1>7. files' # <<>>
  BY <1>2, <1>3
<1> QED BY <1>2, <1>3, <1>6, <1>7 DEF Holds

(* The file below the one that is read becomes the one that is read.       *)
LEMMA PopOK ==
  ASSUME StreamInv, Len(files) # 1
  PROVE  Holds(SubSeq(files, 1, Len(files) - 1), 0)
<1> DEFINE k == Len(files)
           fs == SubSeq(files, 1, k - 1)
<1>1. files \in Seq(File) /\ k \in Nat \ {0} /\ k # 1
  BY TopOK
<1>2. \A n \in 1..(k - 1) : files[n].buf = <<>>
  BY DEF StreamInv, Holds
<1> HIDE DEF k
<1>3. k - 1 \in Nat \ {0} /\ k - 1 <= k
  BY <1>1
<1>4. fs \in Seq(File) /\ Len(fs) = k - 1 /\ \A n \in 1..(k - 1) : fs[n] = files[n]
  <2>1. \A n \in 1..(k - 1) : files[n] \in File
    BY <1>1 DEF k
  <2>2. /\ fs \in Seq(File)
        /\ Len(fs) = IF 1 <= k - 1 THEN k - 1 - 1 + 1 ELSE 0
        /\ \A n \in 1..(k - 1 - 1 + 1) : fs[n] = files[1 + n - 1]
    BY <1>3, <2>1, SubSeqProperties
  <2> HIDE DEF fs
  <2>3. Len(fs) = k - 1
    BY <1>3, <2>2
  <2>4. ASSUME NEW n \in 1..(k - 1)
        PROVE  fs[n] = files[n]
    <3>1. n \in 1..(k - 1 - 1 + 1) /\ 1 + n - 1 = n
      BY <1>3
    <3> QED BY <2>2, <3>1
  <2> QED BY <2>2, <2>3, <2>4
<1> HIDE DEF fs
<1>5. \A n \in 1..Len(fs) : fs[n].buf = <<>>
  BY <1>2, <1>4
<1>6. Len(fs) \in 1..Len(fs) /\ fs # <<>>
  <2>1. Len(fs) \in Nat /\ Len(fs) > 0
    <3>1. Len(fs) = k - 1
      BY <1>4
    <3> QED BY <1>1, <1>3, <3>1
  <2>2. \A t : t = <<>> => Len(t) = 0
    OBVIOUS
  <2> QED BY <2>1, <2>2
<1>7. fs[Len(fs)].buf = <<>>
  BY <1>5, <1>6
<1>8. \A b : b = <<>> => Len(b) <= 0
  OBVIOUS
<1>9. Len(fs[Len(fs)].buf) <= 0
  BY <1>7, <1>8
<1>10. \A n \in 1..(Len(fs) - 1) : fs[n].buf = <<>>
  BY <1>3, <1>4, <1>5
<1>11. Holds(fs, 0)
  BY <1>4, <1>6, <1>9, <1>10 DEF Holds
<1> QED BY <1>11 DEF fs, k

LEMMA HoldsMore ==
  ASSUME NEW fs, NEW j \in Int, NEW k \in Int, j <= k, Holds(fs, j)
  PROVE  Holds(fs, k)
<1>1. fs \in Seq(File) /\ fs # <<>>
  BY DEF Holds
<1>2. fs[Len(fs)] \in File
  BY <1>1
<1>3. Len(fs[Len(fs)].buf) \in Nat
  BY <1>2, FilesHold
<1> QED BY <1>3 DEF Holds

LEMMA HeldOK == Held \in 0..2 /\ Held' \in 0..2
BY DEF Held

------------------------------------------------------------------------------
(* What becomes of the character that was read.  The bounds are on Held in *)
(* the mode that follows.                                                  *)

LEMMA UseOK ==
  ASSUME StreamInv, got # NoChar, Use, After2(Held) <= 3 - Held'
  PROVE  StreamInv' /\ stashed' = stashed
<1>1. files' = files /\ stashed' = stashed /\ slash' = slash /\ got' = NoChar
  BY DEF Use
<1>2. slash = FALSE /\ Limit = After2(Held) /\ After2(Held) \in Int
  BY HeldOK DEF StreamInv, Limit, After2
<1>3. Limit' = 3 - Held' /\ Limit' \in Int
  BY <1>1, <1>2, HeldOK DEF Limit
<1>4. Holds(files, 3 - Held')
  BY <1>2, HoldsMore, HeldOK DEF StreamInv
<1> QED BY <1>1, <1>2, <1>3, <1>4 DEF StreamInv, Holds

LEMMA PutBackOK ==
  ASSUME StreamInv, got # NoChar, PutBack, Held' = 0
  PROVE  StreamInv' /\ stashed' = stashed
<1>1. SetTop(Unread(Top, got)) /\ stashed' = stashed /\ slash' = slash /\ got' = NoChar
  BY DEF PutBack
<1>2. slash = FALSE /\ Limit = After2(Held) /\ Limit <= 2 /\ Limit \in Int /\ got \in Chars \cup {Eof}
  BY HeldOK DEF StreamInv, Limit, After2
<1>3. /\ Unread(Top, got) \in File
      /\ Len(Unread(Top, got).buf) <= Len(Top.buf) + 1
  BY <1>2, TopOK, UnreadOK
<1>4. Len(Unread(Top, got).buf) \in Nat
  BY <1>3, FilesHold
<1>5. Len(Unread(Top, got).buf) <= 3
  BY <1>2, <1>3, <1>4, TopOK
<1>6. Holds(files', 3)
  BY <1>1, <1>3, <1>5, SetTopOK
<1>7. Limit' = 3
  BY <1>1, <1>2 DEF Limit
<1> QED BY <1>1, <1>2, <1>6, <1>7 DEF StreamInv, Holds

LEMMA PutBackWithOK ==
  ASSUME StreamInv, got # NoChar, Held # 0, NEW c \in Chars \cup {Eof}, PutBackWith(c), Held' = 0
  PROVE  StreamInv' /\ stashed' = stashed
<1>1. SetTop(Unread(Unread(Top, got), c)) /\ stashed' = stashed /\ slash' = slash /\ got' = NoChar
  BY DEF PutBackWith
<1>2. slash = FALSE /\ Limit = 1 /\ got \in Chars \cup {Eof}
  BY HeldOK DEF StreamInv, Limit, After2
<1>3. /\ Unread(Top, got) \in File
      /\ Len(Unread(Top, got).buf) <= Len(Top.buf) + 1
  BY <1>2, TopOK, UnreadOK
<1>4. /\ Unread(Unread(Top, got), c) \in File
      /\ Len(Unread(Unread(Top, got), c).buf) <= Len(Unread(Top, got).buf) + 1
  BY <1>3, UnreadOK
<1>5. Len(Unread(Top, got).buf) \in Nat /\ Len(Unread(Unread(Top, got), c).buf) \in Nat
  BY <1>3, <1>4, FilesHold
<1>6. Len(Unread(Unread(Top, got), c).buf) <= 3
  BY <1>2, <1>3, <1>4, <1>5, TopOK
<1>7. Holds(files', 3)
  BY <1>1, <1>4, <1>6, SetTopOK
<1>8. Limit' = 3
  BY <1>1, <1>2 DEF Limit
<1> QED BY <1>1, <1>2, <1>7, <1>8 DEF StreamInv, Holds

LEMMA KeepOK ==
  ASSUME StreamInv, UNCHANGED streamVars, Held' = Held
  PROVE  StreamInv' /\ stashed' = stashed
<1>1. files' = files /\ stashed' = stashed /\ slash' = slash /\ got' = got
  BY DEF streamVars
<1>2. Limit' = Limit
  BY <1>1, Zenon DEF Limit
<1> QED BY <1>1, <1>2, Zenon DEF StreamInv, Holds

------------------------------------------------------------------------------
(* Reading a character. *)

LEMMA ReadcOK ==
  ASSUME StreamInv, Readc, Held' = Held
  PROVE  StreamInv' /\ stashed' = stashed
<1> DEFINE g == Get(Top)
<1>1. got = NoChar /\ stashed' = stashed
  BY DEF Readc
<1>2. /\ g.c \in Chars \cup {Eof} /\ g.c # NoChar /\ g.file \in File
      /\ Len(g.file.buf) <= Len(Top.buf)
      /\ Top.buf # <<>> => Len(g.file.buf) = Len(Top.buf) - 1
      /\ Len(g.file.buf) \in Nat
  <2>1. NoChar # Eof
    BY DEF NoChar, Eof
  <2> QED BY <2>1, GetOK, TopOK, FilesHold, CharAssumption
<1>3. Top.buf = <<>> => Len(g.file.buf) = 0
  BY <1>2
<1>4. Len(Top.buf) \in Nat /\ Len(Top.buf) <= Limit /\ (Top.buf # <<>> => Len(Top.buf) > 0)
  BY TopOK, FilesHold
<1>5. Held \in 0..2
  BY HeldOK
<1> HIDE DEF g
<1>6. CASE ReadPlain
  <2>1. ~slash /\ slash' = slash /\ SetTop(g.file) /\ got' = g.c
    BY <1>6 DEF ReadPlain, g
  <2>2. Limit = 3 - Held /\ Limit' = After2(Held)
    BY <1>1, <1>2, <2>1, Zenon DEF Limit, After2
  <2>3. Len(g.file.buf) <= After2(Held)
    BY <1>2, <1>3, <1>4, <1>5, <2>2 DEF After2
  <2>4. Holds(files', After2(Held))
    BY <1>2, <1>5, <2>1, <2>3, SetTopOK DEF After2
  <2> QED BY <1>1, <1>2, <2>1, <2>2, <2>4 DEF StreamInv, Holds
<1>7. CASE ReadEof
  <2>1. ~slash /\ slash' = slash /\ g.c = Eof
    BY <1>7 DEF ReadEof, g
  <2>2. CASE Len(files) = 1
    <3>1. SetTop(g.file) /\ got' = Eof
      BY <1>7, <2>2 DEF ReadEof, g
    <3>2. Limit = 3 - Held /\ Limit' = After2(Held)
      BY <1>1, <1>2, <2>1, <3>1, Zenon DEF Limit, After2
    <3>3. Len(g.file.buf) <= After2(Held)
      BY <1>2, <1>3, <1>4, <1>5, <3>2 DEF After2
    <3>4. Holds(files', After2(Held))
      BY <1>2, <1>5, <3>1, <3>3, SetTopOK DEF After2
    <3> QED BY <1>1, <2>1, <3>1, <3>2, <3>4 DEF StreamInv, Holds
  <2>3. CASE Len(files) # 1
    <3>1. files' = SubSeq(files, 1, Len(files) - 1) /\ got' = got
      BY <1>7, <2>3 DEF ReadEof
    <3>2. Holds(files', 0)
      BY <2>3, <3>1, PopOK
    <3>3. Limit' = 3 - Held
      BY <1>1, <2>1, <3>1 DEF Limit
    <3>4. Holds(files', 3 - Held)
      BY <1>5, <3>2, HoldsMore
    <3> QED BY <1>1, <2>1, <3>1, <3>3, <3>4 DEF StreamInv, Holds
  <2> QED BY <2>2, <2>3
<1>8. CASE ReadBackslash
  <2>1. ~slash /\ slash' = TRUE /\ SetTop(g.file) /\ got' = got
    BY <1>8 DEF ReadBackslash, g
  <2>2. Limit = 3 - Held /\ Limit' = 2 - Held
    BY <1>1, <2>1, Zenon DEF Limit
  <2>3. Len(g.file.buf) <= 2 - Held
    BY <1>2, <1>3, <1>4, <1>5, <2>2
  <2>4. Holds(files', 2 - Held)
    BY <1>2, <1>5, <2>1, <2>3, SetTopOK
  <2> QED BY <1>1, <2>1, <2>2, <2>4 DEF StreamInv, Holds
<1>9. CASE Splice
  <2>1. slash /\ slash' = FALSE /\ SetTop(g.file) /\ got' = got
    BY <1>9 DEF Splice, g
  <2>2. Limit = 2 - Held /\ Limit' = 3 - Held
    BY <1>1, <2>1, Zenon DEF Limit
  <2>3. Len(g.file.buf) <= 3 - Held
    BY <1>2, <1>3, <1>4, <1>5, <2>2
  <2>4. Holds(files', 3 - Held)
    BY <1>2, <1>5, <2>1, <2>3, SetTopOK
  <2> QED BY <1>1, <2>1, <2>2, <2>4 DEF StreamInv, Holds
<1>10. CASE ReadNoSplice
  <2> DEFINE u == Unread(g.file, g.c)
  <2>1. slash /\ slash' = FALSE /\ SetTop(u) /\ got' = Backslash
    BY <1>10 DEF ReadNoSplice, g
  <2>2. Backslash \in Chars /\ Backslash # NoChar
    BY CharAssumption DEF Backslash, NoChar
  <2>3. Limit = 2 - Held /\ Limit' = After2(Held)
    BY <1>1, <2>1, <2>2, Zenon DEF Limit, After2
  <2>4. u \in File /\ Len(u.buf) <= Len(g.file.buf) + 1
    BY <1>2, UnreadOK
  <2>5. Len(u.buf) \in Nat
    BY <2>4, FilesHold
  <2> HIDE DEF u
  <2>6. Len(u.buf) <= After2(Held)
    BY <1>2, <1>3, <1>4, <1>5, <2>3, <2>4, <2>5 DEF After2
  <2>7. Holds(files', After2(Held))
    BY <1>5, <2>1, <2>4, <2>6, SetTopOK DEF After2
  <2> QED BY <1>1, <2>1, <2>2, <2>3, <2>7 DEF StreamInv, Holds
<1> QED BY <1>6, <1>7, <1>8, <1>9, <1>10 DEF Readc

------------------------------------------------------------------------------
(* Where a step goes. *)

(* The modes in which nothing but the next character is still to be read.  *)
Plain == Modes \ ({"slash", "identescape", "prefix", "punct"} \cup EscapeModes)

(* What a step leaves to the invariant but for the stream, the word and    *)
(* the escape.                                                             *)
CallKept ==
  /\ caller' \in Callers /\ (caller' = "string") = (caller = "string")
  /\ mode' \in {"newline", "rest"} => caller' = "string"
  /\ mode' \in {"skipfirst", "header", "headername"} => caller' # "string"
  /\ paste' \in Seq(Chars) /\ nest' \in Nat
  /\ space' \in BOOLEAN /\ bol' \in BOOLEAN /\ at' \in Int

LEMMA PlainHeld ==
  ASSUME mode' \in Plain
  PROVE  Held' = 0 /\ WordInv' /\ CodeInv' /\ mode' \in Modes
BY Zenon DEF Plain, Held, WordInv, CodeInv

LEMMA CallOK ==
  ASSUME IInv, mode' \in Modes, CallKept, stashed' = stashed
  PROVE  CallInv'
BY Zenon DEF IInv, CallInv, CallKept

LEMMA HeldCap == After2(Held) <= 3 /\ (Held = 0 => After2(Held) = 2) /\ (Held # 0 => After2(Held) = 1)
BY HeldOK DEF After2

LEMMA UsedPlain ==
  ASSUME IInv, got # NoChar, Use, mode' \in Plain, CallKept
  PROVE  IInv'
<1>1. Held' = 0 /\ WordInv' /\ CodeInv' /\ mode' \in Modes
  BY PlainHeld
<1>2. After2(Held) <= 3 - Held'
  BY <1>1, HeldOK DEF After2
<1>3. StreamInv' /\ stashed' = stashed
  BY <1>2, UseOK DEF IInv
<1> QED BY <1>1, <1>3, CallOK DEF IInv

LEMMA PutPlain ==
  ASSUME IInv, got # NoChar, PutBack, mode' \in Plain, CallKept
  PROVE  IInv'
<1>1. Held' = 0 /\ WordInv' /\ CodeInv' /\ mode' \in Modes
  BY PlainHeld
<1>2. StreamInv' /\ stashed' = stashed
  BY <1>1, PutBackOK DEF IInv
<1> QED BY <1>1, <1>2, CallOK DEF IInv

LEMMA PutTwoPlain ==
  ASSUME IInv, got # NoChar, Held # 0, NEW c \in Chars \cup {Eof}, PutBackWith(c), mode' \in Plain, CallKept
  PROVE  IInv'
<1>1. Held' = 0 /\ WordInv' /\ CodeInv' /\ mode' \in Modes
  BY PlainHeld
<1>2. StreamInv' /\ stashed' = stashed
  BY <1>1, PutBackWithOK DEF IInv
<1> QED BY <1>1, <1>2, CallOK DEF IInv

LEMMA KeptPlain ==
  ASSUME IInv, UNCHANGED streamVars, mode \in Plain, mode' \in Plain, CallKept
  PROVE  IInv'
<1>1. Held' = 0 /\ WordInv' /\ CodeInv' /\ mode' \in Modes
  BY PlainHeld
<1>2. Held = 0
  BY Zenon DEF Plain, Held
<1>3. StreamInv' /\ stashed' = stashed
  BY <1>1, <1>2, KeepOK DEF IInv
<1> QED BY <1>1, <1>3, CallOK DEF IInv

LEMMA UsedEscape ==
  ASSUME IInv, got # NoChar, Use, mode' \in EscapeModes, code'.in \in {"string", "char", "ident"}, CallKept
  PROVE  IInv'
<1>1. Held' = 0 /\ WordInv' /\ CodeInv' /\ mode' \in Modes
  BY DEF EscapeModes, Held, WordInv, CodeInv, Modes
<1>2. After2(Held) <= 3 - Held'
  BY <1>1, HeldOK DEF After2
<1>3. StreamInv' /\ stashed' = stashed
  BY <1>2, UseOK DEF IInv
<1> QED BY <1>1, <1>3, CallOK DEF IInv

(* A step that goes to a mode and changes no call.                         *)
LEMMA GotoKept ==
  ASSUME IInv, NEW m, Goto(m), space' \in BOOLEAN, bol' \in BOOLEAN, at' \in Int,
         m \in {"newline", "rest"} => caller = "string",
         m \in {"skipfirst", "header", "headername"} => caller # "string"
  PROVE  CallKept /\ mode' = m
BY Zenon DEF IInv, CallInv, Goto, CallKept, callVars

LEMMA GotoSame ==
  ASSUME IInv, NEW m, Goto(m), UNCHANGED <<space, bol, at>>,
         m \in {"newline", "rest"} => caller = "string",
         m \in {"skipfirst", "header", "headername"} => caller # "string"
  PROVE  CallKept /\ mode' = m
<1>1. space' \in BOOLEAN /\ bol' \in BOOLEAN /\ at' \in Int
  BY DEF IInv, CallInv
<1> QED BY <1>1, GotoKept

LEMMA PlainModes ==
  Modes = Plain \cup {"slash", "identescape", "prefix", "punct"} \cup EscapeModes
BY DEF Plain, Modes, EscapeModes

(* A token is complete.                                                    *)
LEMMA GiveOK ==
  ASSUME IInv, NEW t, Give(t)
  PROVE  CallKept /\ mode' \in Plain
<1>1. UNCHANGED <<input, space, bol, at>>
  BY DEF Give, tokenVars
<1>2. {"done", "begin", "newline", "skipline", "skip"} \subseteq Plain
  BY DEF Plain, Modes, EscapeModes
<1>3. space' \in BOOLEAN /\ bol' \in BOOLEAN /\ at' \in Int /\ nest \in Nat /\ caller \in Callers /\ paste \in Seq(Chars)
  BY <1>1 DEF IInv, CallInv
<1>4. CASE ToLex(t)
  <2>1. mode' \in {"done", "begin"} /\ caller = "lex" /\ UNCHANGED <<caller, nest, paste>>
    BY <1>4 DEF ToLex, callVars
  <2> QED BY <1>2, <1>3, <2>1 DEF CallKept
<1>5. CASE ToLexString(t)
  <2>1. mode' = "newline" /\ caller = "string" /\ UNCHANGED <<caller, nest, paste>>
    BY <1>5 DEF ToLexString, callVars
  <2> QED BY <1>2, <1>3, <2>1 DEF CallKept
<1>6. CASE ToSkip(t)
  <2> DEFINE name == IF t.kind = "ident" THEN t.text ELSE <<>>
  <2>1. caller = "skiplex" /\ paste' = paste
    BY <1>6 DEF ToSkip
  <2>2. CASE nest = 0 /\ name \in Closing
    <3>1. caller' = "lex" /\ mode' = "begin" /\ nest' = nest
      BY <1>6, <2>2 DEF ToSkip
    <3> QED BY <1>2, <1>3, <2>1, <3>1 DEF CallKept, Callers
  <2>3. CASE ~(nest = 0 /\ name \in Closing)
    <3>1. /\ caller' = "skip" /\ mode' \in {"skipline", "skip"}
          /\ nest' = CASE name \in Opening -> nest + 1 [] name = Endif -> nest - 1 [] OTHER -> nest
      BY <1>6, <2>3 DEF ToSkip
    <3>2. name = Endif => nest # 0
      BY <2>3 DEF Closing
    <3> HIDE DEF name
    <3>3. nest' \in Nat
      BY <1>3, <3>1, <3>2
    <3> QED BY <1>2, <1>3, <2>1, <3>1, <3>3 DEF CallKept, Callers
  <2> QED BY <2>2, <2>3
<1> QED BY <1>4, <1>5, <1>6 DEF Give

------------------------------------------------------------------------------
(* One lemma per group of actions. *)

(* To a mode that changes no call, with a token that has the right types.  *)
Free(m) ==
  /\ space' \in BOOLEAN /\ bol' \in BOOLEAN /\ at' \in Int
  /\ m \in Plain
  /\ m \in {"newline", "rest"} => caller = "string"
  /\ m \in {"skipfirst", "header", "headername"} => caller # "string"

LEMMA UsedGoto ==
  ASSUME IInv, NEW m, got # NoChar, Use, Goto(m), Free(m)
  PROVE  IInv'
BY GotoKept, UsedPlain DEF Free

LEMMA PutGoto ==
  ASSUME IInv, NEW m, got # NoChar, PutBack, Goto(m), Free(m)
  PROVE  IInv'
BY GotoKept, PutPlain DEF Free

LEMMA PutTwoGoto ==
  ASSUME IInv, NEW m, got # NoChar, Held # 0, NEW c \in Chars \cup {Eof}, PutBackWith(c), Goto(m), Free(m)
  PROVE  IInv'
BY GotoKept, PutTwoPlain DEF Free

LEMMA EscapeGoto ==
  ASSUME IInv, NEW m \in EscapeModes, got # NoChar, Use, Goto(m), UNCHANGED <<space, bol, at>>,
         code'.in \in {"string", "char", "ident"}
  PROVE  IInv'
<1>1. m \notin {"newline", "rest", "skipfirst", "header", "headername"}
  BY DEF EscapeModes
<1> QED BY <1>1, GotoSame, UsedEscape

(* To a mode with something that may still be put back.                    *)
LEMMA UsedHeld ==
  ASSUME IInv, NEW m \in {"slash", "identescape", "prefix", "punct"}, got # NoChar, Use, Goto(m),
         UNCHANGED <<space, bol, at>>, WordInv', After2(Held) <= 3 - Held'
  PROVE  IInv'
<1>1. CallKept /\ mode' = m
  BY GotoSame
<1>2. CodeInv' /\ mode' \in Modes
  BY <1>1 DEF CodeInv, EscapeModes, Modes
<1>3. StreamInv' /\ stashed' = stashed
  BY UseOK DEF IInv
<1> QED BY <1>1, <1>2, <1>3, CallOK DEF IInv

LEMMA Typed == IInv => /\ space \in BOOLEAN /\ bol \in BOOLEAN /\ at \in Int
                       /\ got \in Chars \cup {Eof, NoChar} /\ mode \in Modes
BY DEF IInv, CallInv, StreamInv

LEMMA AfterGapOK ==
  /\ AfterGap \in Plain /\ AfterGap \notin {"newline", "rest"}
  /\ AfterGap \in {"skipfirst", "header", "headername"} => caller # "string"
BY DEF AfterGap, Plain, Modes, EscapeModes

LEMMA ReadsOK == ASSUME IInv, Reads PROVE IInv'
<1>1. Readc /\ UNCHANGED <<input, mode, tokenVars, callVars, results>>
  BY DEF Reads
<1>2. UNCHANGED <<mode, text, content, code, space, bol, at, caller, nest, paste>>
  BY <1>1 DEF tokenVars, callVars
<1>3. Held' = Held /\ WordInv' /\ CodeInv'
  BY <1>2, Zenon DEF Held, WordInv, CodeInv, IInv
<1>4. StreamInv' /\ stashed' = stashed
  BY <1>1, <1>3, ReadcOK DEF IInv
<1>5. CallInv'
  BY <1>2, <1>4, Zenon DEF CallInv, IInv
<1> QED BY <1>3, <1>4, <1>5 DEF IInv

LEMMA LexStringOK == ASSUME IInv, LexString PROVE IInv'
<1>1. /\ mode = "begin" /\ caller = "lex"
      /\ stashed' = Append(stashed, files) /\ files' = <<MakeFile(paste)>>
      /\ caller' = "string" /\ paste' = <<>> /\ bol' = FALSE /\ space' = FALSE
      /\ mode' = "gap" /\ slash' = slash /\ got' = got /\ at' = at /\ nest' = nest
  BY DEF LexString, NoPaste
<1>2. /\ stashed \in Seq(Seq(File) \ {<<>>}) /\ \A n \in 1..Len(stashed) : Holds(stashed[n], 3)
      /\ Holds(files, Limit) /\ Len(stashed) = 0 /\ paste \in Seq(Chars)
  BY <1>1 DEF IInv, StreamInv, CallInv
<1>3. Held = 0 /\ Held' = 0 /\ WordInv' /\ CodeInv'
  BY <1>1 DEF Held, WordInv, CodeInv, EscapeModes
<1>4. Limit \in Int /\ Limit <= 3 /\ Limit' = Limit /\ Limit >= 0
  BY <1>1, <1>3 DEF Limit, After2
<1>5. Holds(files, 3)
  BY <1>2, <1>4, HoldsMore
<1>6. stashed' = <<files>> /\ files \in Seq(File) \ {<<>>}
  BY <1>1, <1>2 DEF Holds
<1>7. stashed' \in Seq(Seq(File) \ {<<>>}) /\ Len(stashed') = 1 /\ \A n \in 1..Len(stashed') : Holds(stashed'[n], 3)
  BY <1>5, <1>6
<1> DEFINE f == MakeFile(paste)
<1>8. f \in File /\ f.buf = <<>>
  BY <1>2 DEF MakeFile, File
<1> HIDE DEF f
<1>9. Len(f.buf) <= 0
  BY <1>8
<1>10. Holds(<<f>>, 0)
  BY <1>8, <1>9 DEF Holds
<1>11. Holds(files', Limit')
  BY <1>1, <1>4, <1>10, HoldsMore DEF f
<1>12. StreamInv'
  BY <1>1, <1>2, <1>7, <1>11, Zenon DEF StreamInv, IInv
<1>13. CallInv'
  <2>1. /\ caller' \in Callers /\ mode' \in Modes /\ paste' \in Seq(Chars)
        /\ mode' \notin {"newline", "rest", "skipfirst", "header", "headername"}
    BY <1>1 DEF Callers, Modes
  <2>2. nest' \in Nat /\ at' \in Int /\ bol' \in BOOLEAN /\ space' \in BOOLEAN
    BY <1>1 DEF IInv, CallInv
  <2> QED BY <1>1, <1>7, <2>1, <2>2 DEF CallInv
<1> QED BY <1>3, <1>12, <1>13 DEF IInv

LEMMA BetweenOK == ASSUME IInv, Between PROVE IInv'
<1>1. CASE Lex
  <2>1. /\ mode = "begin" /\ UNCHANGED streamVars /\ Goto("gap")
        /\ bol' = (Top.column = 1) /\ space' = FALSE /\ at' = at
    BY <1>1 DEF Lex
  <2>2. CallKept /\ mode' = "gap"
    <3>1. bol' \in BOOLEAN /\ space' \in BOOLEAN /\ at' \in Int
      BY <2>1, Typed
    <3> QED BY <2>1, <3>1, GotoKept
  <2> QED BY <2>1, <2>2, KeptPlain DEF Plain, Modes, EscapeModes
<1>2. CASE LexString
  BY <1>2, LexStringOK
<1>3. CASE SpacesOnly
  <2>1. mode \in Plain /\ UNCHANGED streamVars
    BY <1>3 DEF SpacesOnly, Plain, Modes, EscapeModes
  <2>2. CallKept /\ mode' \in Plain
    BY <1>3, GiveOK DEF SpacesOnly, Emit
  <2> QED BY <2>1, <2>2, KeptPlain
<1>4. CASE Mark
  <2>1. mode = "mark" /\ UNCHANGED streamVars /\ Goto("first") /\ at' = Top.line /\ bol' = bol /\ space' = space
    BY <1>4 DEF Mark
  <2>2. CallKept /\ mode' = "first"
    <3>1. at' \in Int /\ bol' \in BOOLEAN /\ space' \in BOOLEAN
      BY <2>1, Typed, TopOK DEF IInv
    <3> QED BY <2>1, <3>1, GotoKept
  <2> QED BY <2>1, <2>2, KeptPlain DEF Plain, Modes, EscapeModes
<1>5. CASE Skip
  <2>1. mode = "skip" /\ UNCHANGED streamVars /\ Goto("gap") /\ bol' = (Top.column = 1) /\ at' = at /\ space' = space
    BY <1>5 DEF Skip
  <2>2. CallKept /\ mode' = "gap"
    <3>1. at' \in Int /\ bol' \in BOOLEAN /\ space' \in BOOLEAN
      BY <2>1, Typed
    <3> QED BY <2>1, <3>1, GotoKept
  <2> QED BY <2>1, <2>2, KeptPlain DEF Plain, Modes, EscapeModes
<1> QED BY <1>1, <1>2, <1>3, <1>4, <1>5 DEF Between

LEMMA FailOK == ASSUME IInv, got # NoChar, Fail PROVE IInv'
<1>1. Goto("error") /\ Use /\ UNCHANGED <<space, bol, at>>
  BY DEF Fail, Goto, tokenVars
<1>2. Free("error")
  BY <1>1, Typed DEF Free, Plain, Modes, EscapeModes
<1> QED BY <1>1, <1>2, UsedGoto DEF Fail

LEMMA GapOK == ASSUME IInv, Gap PROVE IInv'
<1> USE DEF At, tokenVars
<1>0. got \in Chars \cup {Eof, NoChar} /\ space \in BOOLEAN /\ bol \in BOOLEAN /\ at \in Int
  BY Typed
<1>a. /\ {"gap", "block", "line", "star", "skip", "skipline"} \subseteq Plain
  BY DEF Plain, Modes, EscapeModes
<1>1. CASE GapSpace
  BY <1>0, <1>a, <1>1, UsedGoto DEF GapSpace, Free
<1>2. CASE GapSlash
  <2>1. Held = 0 /\ mode' = "slash"
    BY <1>2 DEF GapSlash, Held, Goto
  <2>2. WordInv' /\ After2(Held) <= 3 - Held'
    BY <2>1 DEF WordInv, Held, After2
  <2> QED BY <1>2, <2>2, UsedHeld DEF GapSlash
<1>3. CASE GapEnds
  BY <1>0, <1>3, AfterGapOK, PutGoto DEF GapEnds, Free
<1>4. CASE SlashComment
  BY <1>0, <1>a, <1>4, UsedGoto DEF SlashComment, Free
<1>5. CASE SlashAlone
  <2>1. Held # 0 /\ "/" \in Chars
    BY <1>5, CharAssumption DEF SlashAlone, Held
  <2> QED BY <1>0, <1>5, <2>1, AfterGapOK, PutTwoGoto DEF SlashAlone, Free
<1>6. CASE InBlock
  BY <1>0, <1>a, <1>6, UsedGoto DEF InBlock, Free
<1>7. CASE BlockEnds
  BY <1>0, <1>a, <1>7, UsedGoto DEF BlockEnds, Free
<1>8. CASE BlockUnterminated
  BY <1>8, FailOK DEF BlockUnterminated
<1>9. CASE InLine
  BY <1>0, <1>a, <1>9, UsedGoto DEF InLine, Free
<1>10. CASE LineEnds
  BY <1>0, <1>a, <1>10, PutGoto DEF LineEnds, Free
<1> QED BY <1>1, <1>2, <1>3, <1>4, <1>5, <1>6, <1>7, <1>8, <1>9, <1>10 DEF Gap

LEMMA UsedEmit ==
  ASSUME IInv, got # NoChar, Use, NEW kind, NEW spelling, Emit(kind, spelling)
  PROVE  IInv'
BY GiveOK, UsedPlain DEF Emit

LEMMA PutEmit ==
  ASSUME IInv, got # NoChar, PutBack, NEW kind, NEW spelling, Emit(kind, spelling)
  PROVE  IInv'
BY GiveOK, PutPlain DEF Emit

(* One character of a token that may still turn out to be shorter.         *)
LEMMA OneChar ==
  ASSUME IInv, NEW m \in {"prefix", "punct"}, Held = 0, got # NoChar, Use, Text(<<got>>), Goto(m),
         m = "punct" => <<got>> \in Punctuators
  PROVE  IInv'
<1>1. text' = <<got>> /\ UNCHANGED <<space, bol, at>> /\ mode' = m /\ got \in Chars \cup {Eof}
  BY Typed DEF Text, Goto
<1>2. WordInv'
  BY <1>1 DEF WordInv
<1>3. Held' = 1
  BY <1>1 DEF Held
<1>4. After2(Held) <= 3 - Held'
  BY <1>3 DEF After2
<1> QED BY <1>1, <1>2, <1>4, UsedHeld

LEMMA FirstOK == ASSUME IInv, First PROVE IInv'
<1> USE DEF At
<1>0. got \in Chars \cup {Eof, NoChar} /\ space \in BOOLEAN /\ bol \in BOOLEAN /\ at \in Int
  BY Typed
<1>a. {"string", "char", "ident", "number"} \subseteq Plain
  BY DEF Plain, Modes, EscapeModes
<1>b. mode = "first" => Held = 0
  BY DEF Held
<1>1. CASE FirstNewline
  BY <1>1, UsedEmit DEF FirstNewline
<1>2. CASE FirstEof
  BY <1>2, UsedEmit DEF FirstEof
<1>3. CASE FirstPunctuator
  <2>1. CASE Extensible(<<got>>)
    BY <1>3, <1>b, <2>1, OneChar DEF FirstPunctuator
  <2>2. CASE ~Extensible(<<got>>)
    BY <1>3, <2>2, UsedEmit DEF FirstPunctuator
  <2> QED BY <2>1, <2>2
<1>4. CASE FirstQuote
  BY <1>0, <1>a, <1>4, UsedGoto DEF FirstQuote, Free, tokenVars
<1>5. CASE FirstLetter
  <2>1. CASE got \in {"L", "U", "u"}
    BY <1>5, <1>b, <2>1, OneChar DEF FirstLetter
  <2>2. CASE got \notin {"L", "U", "u"}
    BY <1>0, <1>a, <1>5, <2>2, UsedGoto DEF FirstLetter, Free, Text
  <2> QED BY <2>1, <2>2
<1>6. CASE FirstDigit
  BY <1>0, <1>a, <1>6, UsedGoto DEF FirstDigit, Free, Text
<1>7. CASE FirstOther
  BY <1>7, UsedEmit DEF FirstOther
<1> QED BY <1>1, <1>2, <1>3, <1>4, <1>5, <1>6, <1>7 DEF First

LEMMA FurtherOK == ASSUME IInv, Further PROVE IInv'
<1> USE DEF At
<1>0. got \in Chars \cup {Eof, NoChar} /\ space \in BOOLEAN /\ bol \in BOOLEAN /\ at \in Int
  BY Typed
<1>a. {"string", "char", "ident", "number"} \subseteq Plain
  BY DEF Plain, Modes, EscapeModes
<1>b. mode \in {"punct", "prefix"} =>
        /\ text \in Seq(Chars \cup {Eof}) /\ text # <<>>
        /\ mode = "punct" /\ Len(text) = 1 => text \in Punctuators
        /\ Held = IF Len(text) = 1 THEN 1 ELSE 2
  BY DEF IInv, WordInv, Held
<1>1. CASE PunctLonger
  <2> DEFINE p == Append(text, got)
  <2>1. mode = "punct" /\ got # NoChar /\ Use
    BY <1>1 DEF PunctLonger
  <2>2. p \in Seq(Chars \cup {Eof}) /\ p # <<>> /\ Len(p) # 1
    BY <1>0, <1>b, <2>1
  <2>3. CASE Extensible(p)
    <3>1. Text(p) /\ Goto("punct")
      BY <1>1, <2>3 DEF PunctLonger
    <3> HIDE DEF p
    <3>2. text' = p /\ mode' = "punct" /\ UNCHANGED <<space, bol, at>>
      BY <3>1 DEF Text, Goto
    <3>3. WordInv'
      BY <2>2, <3>2 DEF WordInv
    <3>4. Held' = 2 /\ Held # 0
      BY <1>b, <2>1, <2>2, <3>2 DEF Held
    <3>5. After2(Held) <= 3 - Held'
      BY <3>4 DEF After2
    <3> QED BY <2>1, <3>1, <3>2, <3>3, <3>5, UsedHeld
  <2>4. CASE ~Extensible(p)
    BY <1>1, <2>1, <2>4, UsedEmit DEF PunctLonger
  <2> QED BY <2>3, <2>4
<1>2. CASE PunctDotDigit
  BY <1>0, <1>a, <1>2, PutGoto DEF PunctDotDigit, Free, tokenVars
<1>3. CASE PunctEnds
  BY <1>3, PutEmit DEF PunctEnds
<1>4. CASE PunctTooFar
  <2>1. /\ mode = "punct" /\ got # NoChar /\ PutBackWith(text[Len(text)])
        /\ Emit("punct", Spelling(SubSeq(text, 1, Len(text) - 1)))
    BY <1>4 DEF PunctTooFar
  <2>2. text[Len(text)] \in Chars \cup {Eof} /\ Held # 0
    BY <1>b, <2>1
  <2> QED BY <2>1, <2>2, GiveOK, PutTwoPlain DEF Emit
<1>5. CASE PrefixQuote
  BY <1>0, <1>a, <1>5, UsedGoto DEF PrefixQuote, Free, tokenVars
<1>6. CASE PrefixEight
  <2>1. /\ mode = "prefix" /\ got # NoChar /\ Use /\ Goto("prefix") /\ text' = <<"u", "8">>
        /\ UNCHANGED <<space, bol, at>> /\ mode' = "prefix" /\ text = <<"u">> /\ got = "8"
    BY <1>6 DEF PrefixEight, Text, Goto
  <2>2. "u" \in Chars \cup {Eof} /\ "8" \in Chars
    BY <1>b, <2>1, CharAssumption
  <2>3. WordInv'
    BY <2>1, <2>2 DEF WordInv
  <2>4. Held' = 2 /\ Held # 0
    BY <1>b, <2>1 DEF Held
  <2>5. After2(Held) <= 3 - Held'
    BY <2>4 DEF After2
  <2> QED BY <2>1, <2>3, <2>5, UsedHeld
<1>7. CASE PrefixNone
  <2>1. /\ mode = "prefix" /\ got # NoChar /\ Goto("ident") /\ UNCHANGED <<space, bol, at>>
        /\ IF Len(text) = 2 THEN PutBackWith("8") ELSE PutBack
    BY <1>7 DEF PrefixNone, Text
  <2>2. Free("ident")
    BY <1>0, <1>a, <2>1 DEF Free
  <2>3. Held # 0 /\ "8" \in Chars
    BY <1>b, <2>1, CharAssumption
  <2> QED BY <2>1, <2>2, <2>3, PutGoto, PutTwoGoto
<1>8. CASE IdentLonger
  BY <1>0, <1>a, <1>8, UsedGoto DEF IdentLonger, Free, Text
<1>9. CASE IdentEof
  BY <1>0, <1>a, <1>9, UsedGoto DEF IdentEof, Free, tokenVars
<1>10. CASE IdentBackslash
  <2>1. Held = 0 /\ mode' = "identescape"
    BY <1>10 DEF IdentBackslash, Held, Goto
  <2>2. WordInv' /\ After2(Held) <= 3 - Held'
    BY <2>1 DEF WordInv, Held, After2
  <2> QED BY <1>10, <2>2, UsedHeld DEF IdentBackslash, tokenVars
<1>11. CASE IdentEnds
  BY <1>11, PutEmit DEF IdentEnds
<1>12. CASE IdentNoEscape
  <2>1. mode = "identescape" /\ got # NoChar /\ PutBackWith(Backslash) /\ Emit("ident", text)
    BY <1>12 DEF IdentNoEscape
  <2>2. Held # 0 /\ Backslash \in Chars
    BY <2>1, CharAssumption DEF Held
  <2> QED BY <2>1, <2>2, GiveOK, PutTwoPlain DEF Emit
<1>13. CASE IdentEscape
  BY <1>13, EscapeGoto DEF IdentEscape, Begin, EscapeModes
<1>14. CASE NumberLonger
  BY <1>0, <1>a, <1>14, UsedGoto DEF NumberLonger, Free, Text
<1>15. CASE NumberEnds
  BY <1>15, PutEmit DEF NumberEnds
<1> QED BY <1>1, <1>2, <1>3, <1>4, <1>5, <1>6, <1>7, <1>8, <1>9, <1>10, <1>11, <1>12, <1>13, <1>14, <1>15
        DEF Further

(* The value of an escape is known.                                        *)
LEMMA EscapedOK ==
  ASSUME IInv, mode \in EscapeModes, NEW c, Escaped(c)
  PROVE  Goto(After) /\ Free(After)
<1>1. Goto(After) /\ UNCHANGED <<space, bol, at>>
  BY DEF Escaped
<1>2. After \in {"string", "charend", "ident"}
  BY DEF IInv, CodeInv, After
<1>3. After \in Plain /\ After \notin {"newline", "rest", "skipfirst", "header", "headername"}
  BY <1>2 DEF Plain, Modes, EscapeModes
<1> QED BY <1>1, <1>3, Typed DEF Free

LEMMA CodedOK ==
  ASSUME IInv, mode \in EscapeModes, NEW n, NEW b, Coded(n, b)
  PROVE  Goto(After) /\ Free(After)
BY EscapedOK DEF Coded

LEMMA LiteralOK == ASSUME IInv, Literal PROVE IInv'
<1> USE DEF At
<1>0. space \in BOOLEAN /\ bol \in BOOLEAN /\ at \in Int
  BY Typed
<1>a. {"string", "char", "charend"} \subseteq Plain
  BY DEF Plain, Modes, EscapeModes
<1>b. mode \in EscapeModes => code.in \in {"string", "char", "ident"}
  BY DEF IInv, CodeInv
<1>c. EscapeModes = {"escape", "octal", "hex", "hexes", "ucn"}
  BY DEF EscapeModes
<1>1. CASE StringPlain
  BY <1>0, <1>a, <1>1, UsedGoto DEF StringPlain, In, Free
<1>2. CASE StringEnds
  BY <1>2, UsedEmit DEF StringEnds
<1>3. CASE StringUnterminated
  BY <1>3, FailOK DEF StringUnterminated
<1>4. CASE CharPlain
  BY <1>0, <1>a, <1>4, UsedGoto DEF CharPlain, In, Free
<1>5. CASE CharEnds
  BY <1>5, UsedEmit DEF CharEnds
<1>6. CASE CharUnterminated
  BY <1>6, FailOK DEF CharUnterminated
<1>7. CASE EscapeBegins
  BY <1>7, <1>c, EscapeGoto DEF EscapeBegins, Begin
<1>8. CASE EscapeSimple
  BY <1>8, <1>c, CodedOK, UsedGoto DEF EscapeSimple
<1>9. CASE EscapeItself
  BY <1>9, <1>c, EscapedOK, UsedGoto DEF EscapeItself
<1>10. CASE EscapeOctal
  BY <1>10, <1>b, <1>c, EscapeGoto DEF EscapeOctal, Begin
<1>11. CASE OctalDigit
  <2>1. CASE code.left = 1
    BY <1>11, <2>1, <1>c, CodedOK, UsedGoto DEF OctalDigit
  <2>2. CASE code.left # 1
    BY <1>11, <2>2, <1>b, <1>c, EscapeGoto DEF OctalDigit, Begin
  <2> QED BY <2>1, <2>2
<1>12. CASE OctalEnds
  BY <1>12, <1>c, CodedOK, PutGoto DEF OctalEnds
<1>13. CASE EscapeHex
  BY <1>13, <1>b, <1>c, EscapeGoto DEF EscapeHex, Begin
<1>14. CASE HexFirst
  <2>1. CASE got \in HexDigits
    BY <1>14, <2>1, <1>b, <1>c, EscapeGoto DEF HexFirst, Begin
  <2>2. CASE got \notin HexDigits
    BY <1>14, <2>2, FailOK DEF HexFirst
  <2> QED BY <2>1, <2>2
<1>15. CASE HexMore
  BY <1>15, <1>b, <1>c, EscapeGoto DEF HexMore, Begin
<1>16. CASE HexEnds
  BY <1>16, <1>c, CodedOK, PutGoto DEF HexEnds
<1>17. CASE EscapeUniversal
  BY <1>17, <1>b, <1>c, EscapeGoto DEF EscapeUniversal, Begin
<1>18. CASE UcnDigit
  <2> DEFINE n == code.value * 16 + Nibble(got)
  <2>1. CASE code.left > 1
    <3>1. mode = "ucn" /\ got # NoChar /\ Use /\ Begin(code.in, code.left - 1, n) /\ Goto("ucn")
      <4>1. ~(code.left = 1)
        BY <2>1
      <4> QED BY <1>18, <2>1, <4>1, Zenon DEF UcnDigit
    <3> HIDE DEF n
    <3> QED BY <3>1, <1>b, <1>c, EscapeGoto DEF Begin
  <2>2. CASE ~(code.left > 1) /\ code.left = 1 /\ ValidUcn(n)
    <3>1. mode = "ucn" /\ got # NoChar /\ Use /\ Coded(n, TRUE)
      BY <1>18, <2>2 DEF UcnDigit
    <3> QED BY <3>1, <1>c, CodedOK, UsedGoto
  <2>3. CASE ~(code.left > 1) /\ ~(code.left = 1 /\ ValidUcn(n))
    BY <1>18, <2>3, FailOK DEF UcnDigit
  <2> QED BY <2>1, <2>2, <2>3
<1>19. CASE UcnNoDigit
  BY <1>19, FailOK DEF UcnNoDigit
<1> QED BY <1>1, <1>2, <1>3, <1>4, <1>5, <1>6, <1>7, <1>8, <1>9, <1>10, <1>11, <1>12, <1>13, <1>14, <1>15,
           <1>16, <1>17, <1>18, <1>19 DEF Literal

(* The stream of the source comes back as it was put away.                 *)
LEMMA UnstashOK == ASSUME IInv, Unstash PROVE IInv'
<1>1. /\ mode \in {"newline", "rest"} /\ files' = stashed[Len(stashed)]
      /\ stashed' = SubSeq(stashed, 1, Len(stashed) - 1)
      /\ got' = NoChar /\ caller' = "lex" /\ mode' = "begin"
      /\ UNCHANGED <<slash, nest, paste, space, bol, at>> /\ got = Eof
  BY DEF Unstash, At, tokenVars
<1>2. /\ caller = "string" /\ Len(stashed) = 1 /\ stashed \in Seq(Seq(File) \ {<<>>})
      /\ \A n \in 1..Len(stashed) : Holds(stashed[n], 3)
      /\ slash = FALSE
  BY <1>1 DEF IInv, CallInv, StreamInv, Eof, NoChar
<1>3. Held' = 0 /\ WordInv' /\ CodeInv'
  BY <1>1 DEF Held, WordInv, CodeInv, EscapeModes
<1>4. Limit' = 3
  BY <1>1, <1>2, <1>3 DEF Limit
<1>5. Holds(files', Limit')
  BY <1>1, <1>2, <1>4
<1>6. stashed' = <<>>
  BY <1>1, <1>2
<1>7. StreamInv'
  <2>1. stashed' \in Seq(Seq(File) \ {<<>>}) /\ \A n \in 1..Len(stashed') : Holds(stashed'[n], 3)
    BY <1>6
  <2>2. slash' = FALSE /\ got' = NoChar
    BY <1>1, <1>2
  <2> QED BY <1>5, <2>1, <2>2, Zenon DEF StreamInv, Holds
<1>8. CallInv'
  <2>1. mode' \in Modes /\ caller' \in Callers
    BY <1>1 DEF Modes, Callers
  <2>2. paste \in Seq(Chars) /\ nest \in Nat /\ space \in BOOLEAN /\ bol \in BOOLEAN /\ at \in Int
    BY DEF IInv, CallInv
  <2> QED BY <1>1, <1>6, <2>1, <2>2 DEF CallInv
<1> QED BY <1>3, <1>7, <1>8 DEF IInv

LEMMA PasteOK == ASSUME IInv, Paste PROVE IInv'
<1>1. CASE PasteNewline
  <2>1. mode = "newline" /\ got # NoChar /\ Use /\ Goto("rest") /\ UNCHANGED <<space, bol, at>>
    BY <1>1 DEF PasteNewline, At, tokenVars
  <2>2. Free("rest")
    BY <2>1, Typed DEF Free, IInv, CallInv, Plain, Modes, EscapeModes
  <2> QED BY <2>1, <2>2, UsedGoto
<1>2. CASE Unstash
  BY <1>2, UnstashOK
<1>3. CASE Unconsumed
  BY <1>3, FailOK DEF Unconsumed, At
<1> QED BY <1>1, <1>2, <1>3 DEF Paste

(* A step that changes who called, but not whether lex_string did.         *)
LEMMA Recalled ==
  ASSUME IInv, caller # "string", caller' \in Callers \ {"string"}, mode' = "begin",
         UNCHANGED <<nest, paste, space, bol, at>>
  PROVE  CallKept /\ mode' \in Plain
<1>1. mode' \in Plain /\ mode' \notin {"newline", "rest", "skipfirst", "header", "headername"}
  BY DEF Plain, Modes, EscapeModes
<1>2. paste \in Seq(Chars) /\ nest \in Nat /\ space \in BOOLEAN /\ bol \in BOOLEAN /\ at \in Int
  BY DEF IInv, CallInv
<1> QED BY <1>1, <1>2 DEF CallKept

LEMMA SkipsOK == ASSUME IInv, Skips PROVE IInv'
<1> USE DEF At, tokenVars
<1>0. space \in BOOLEAN /\ bol \in BOOLEAN /\ at \in Int
  BY Typed
<1>a. {"skip", "skipchar", "skipstring", "skipescape", "skipchars", "skipstringescape"} \subseteq Plain
  BY DEF Plain, Modes, EscapeModes
<1>b. mode = "skipfirst" => caller # "string"
  BY DEF IInv, CallInv
<1>1. CASE SkipEof
  BY <1>1, <1>b, Recalled, UsedPlain DEF SkipEof, Callers
<1>2. CASE SkipHash
  BY <1>2, <1>b, Recalled, UsedPlain DEF SkipHash, Callers
<1>3. CASE SkipLiteral
  BY <1>0, <1>a, <1>3, UsedGoto DEF SkipLiteral, Free
<1>4. CASE SkipOther
  BY <1>0, <1>a, <1>4, UsedGoto DEF SkipOther, Free
<1>5. CASE SkipCharFirst
  BY <1>0, <1>a, <1>5, UsedGoto DEF SkipCharFirst, Free
<1>6. CASE SkipEscape
  BY <1>0, <1>a, <1>6, UsedGoto DEF SkipEscape, Free
<1>7. CASE SkipChars
  BY <1>0, <1>a, <1>7, UsedGoto DEF SkipChars, Free
<1>8. CASE SkipString
  BY <1>0, <1>a, <1>8, UsedGoto DEF SkipString, Free
<1> QED BY <1>1, <1>2, <1>3, <1>4, <1>5, <1>6, <1>7, <1>8 DEF Skips

LEMMA HeaderOK == ASSUME IInv, Header PROVE IInv'
<1> USE DEF At, tokenVars
<1>0. space \in BOOLEAN /\ bol \in BOOLEAN /\ at \in Int
  BY Typed
<1>a. "headername" \in Plain
  BY DEF Plain, Modes, EscapeModes
<1>b. mode \in {"header", "headername"} => caller # "string"
  BY DEF IInv, CallInv
<1>1. CASE HeaderOpens
  BY <1>0, <1>a, <1>b, <1>1, UsedGoto DEF HeaderOpens, Free, Text
<1>2. CASE NoHeader
  BY <1>2, <1>b, Recalled, PutPlain DEF NoHeader, Callers
<1>3. CASE HeaderName
  BY <1>0, <1>a, <1>b, <1>3, UsedGoto DEF HeaderName, Free, In
<1>4. CASE HeaderCloses
  BY <1>4, <1>b, Recalled, UsedPlain DEF HeaderCloses, Callers
<1>5. CASE HeaderFails
  BY <1>5, FailOK DEF HeaderFails
<1> QED BY <1>1, <1>2, <1>3, <1>4, <1>5 DEF Header

------------------------------------------------------------------------------
(* The invariant, and what it is for. *)

LEMMA InitOK == Init => IInv
<1> SUFFICES ASSUME Init PROVE IInv
  OBVIOUS
<1>1. /\ input.open \in Seq(Seq(Chars)) \ {<<>>} /\ input.paste \in Seq(Chars)
      /\ input.start \in {"lex", "skip", "header"}
  BY InputAssumption DEF Init
<1>2. /\ files = [n \in 1..Len(input.open) |-> MakeFile(input.open[n])]
      /\ stashed = <<>> /\ slash = FALSE /\ got = NoChar
  BY DEF Init, StreamInit
<1>3. \A t \in Seq(Chars) : MakeFile(t) \in File /\ MakeFile(t).buf = <<>>
  BY DEF MakeFile, File
<1>4. \A n \in 1..Len(input.open) : files[n] \in File /\ files[n].buf = <<>>
  BY <1>1, <1>2, <1>3
<1>5. Len(input.open) \in Nat \ {0}
  BY <1>1
<1>6. files \in Seq(File) /\ Len(files) = Len(input.open) /\ files # <<>>
  <2> DEFINE k == Len(input.open)
  <2>1. files = [n \in 1..k |-> files[n]] /\ \A n \in 1..k : files[n] \in File
    BY <1>2, <1>4, Zenon
  <2>2. k \in Nat \ {0}
    BY <1>5
  <2> HIDE DEF k
  <2>3. files \in Seq(File) /\ Len(files) = k
    BY <2>1, <2>2, IsASeq
  <2> QED BY <2>2, <2>3 DEF k
<1>7. Len(files[Len(files)].buf) <= 0
  <2>1. files[Len(files)].buf = <<>>
    BY <1>4, <1>5, <1>6
  <2>2. \A b : b = <<>> => Len(b) <= 0
    OBVIOUS
  <2> QED BY <2>1, <2>2
<1>8. Holds(files, 0)
  BY <1>4, <1>5, <1>6, <1>7 DEF Holds
<1>9. mode \in {"begin", "skip", "gap"}
  BY <1>1 DEF Init
<1>10. Held = 0 /\ WordInv /\ CodeInv
  BY <1>9 DEF Held, WordInv, CodeInv, EscapeModes
<1>11. StreamInv
  <2>1. Limit = 3
    BY <1>2, <1>10 DEF Limit
  <2>2. Holds(files, 3)
    BY <1>8, HoldsMore
  <2>3. stashed \in Seq(Seq(File) \ {<<>>}) /\ \A n \in 1..Len(stashed) : Holds(stashed[n], 3)
    BY <1>2
  <2> QED BY <1>2, <2>1, <2>2, <2>3 DEF StreamInv
<1>12. CallInv
  <2>1. mode \in Modes /\ mode \notin {"newline", "rest", "skipfirst", "header", "headername"}
    BY <1>9 DEF Modes
  <2>2. caller \in Callers \ {"string"} /\ paste \in Seq(Chars) /\ nest \in Nat
    BY <1>1 DEF Init, Callers
  <2>3. space \in BOOLEAN /\ bol \in BOOLEAN /\ at \in Int
    <3>1. space = FALSE /\ bol = FALSE /\ at = 1
      BY Zenon DEF Init
    <3>2. at \in Int
      BY <3>1, SMT
    <3> QED BY <3>1, <3>2, Zenon
  <2>4. Len(stashed) = 0
    BY <1>2
  <2> QED BY <2>1, <2>2, <2>3, <2>4 DEF CallInv
<1> QED BY <1>10, <1>11, <1>12 DEF IInv

LEMMA StepOK == IInv /\ [Next]_vars => IInv'
<1> SUFFICES ASSUME IInv, [Next]_vars PROVE IInv'
  OBVIOUS
<1>1. CASE UNCHANGED vars
  <2>1. UNCHANGED <<files, stashed, slash, got, mode, text, code, caller, nest, paste, space, bol, at>>
    BY <1>1 DEF vars, streamVars, tokenVars, callVars
  <2>2. Limit' = Limit
    BY <2>1, Zenon DEF Limit, Held
  <2>3. StreamInv'
    BY <2>1, <2>2, Zenon DEF IInv, StreamInv, Holds
  <2> QED BY <2>1, <2>3, Zenon DEF IInv, WordInv, CodeInv, CallInv
<1>2. CASE Stopped
  BY <1>1, <1>2 DEF Stopped
<1> QED BY <1>1, <1>2, ReadsOK, BetweenOK, GapOK, FirstOK, FurtherOK, LiteralOK, PasteOK, SkipsOK, HeaderOK
        DEF Next

LEMMA Inductive == Spec => []IInv
BY InitOK, StepOK, PTL DEF Spec

(* The types; and that the stream is the source's or, with that put away,  *)
(* a pasted string's (file.c:142-164, lex.c:585-594).                      *)
THEOREM TypeCorrect == Spec => []TypeOK
<1>1. IInv => TypeOK
  <2> SUFFICES ASSUME IInv PROVE TypeOK
    OBVIOUS
  <2>1. files \in Seq(File) /\ files # <<>>
    BY DEF IInv, StreamInv, Holds
  <2> QED BY <2>1 DEF IInv, StreamInv, CallInv, TypeOK, Callers
<1> QED BY <1>1, Inductive, PTL

(* The assertion of unreadc (file.c:130) never fails, whatever the text:   *)
(* three characters suffice.                                               *)
THEOREM PushbackSuffices == Spec => []PushbackFits
<1>1. IInv => PushbackFits
  <2> SUFFICES ASSUME IInv, NEW n \in DOMAIN files PROVE Len(files[n].buf) <= Pushback
    BY DEF PushbackFits
  <2>1. /\ files \in Seq(File) /\ files # <<>> /\ Len(files[Len(files)].buf) <= Limit
        /\ \A m \in 1..(Len(files) - 1) : files[m].buf = <<>>
    BY DEF IInv, StreamInv, Holds
  <2>2. Limit \in Int /\ Limit <= 3
    BY HeldOK DEF Limit, After2
  <2>3. n \in 1..Len(files) /\ Len(files) \in Nat
    BY <2>1
  <2>4. files[n] \in File
    BY <2>1
  <2>5. Len(files[n].buf) \in Nat
    BY <2>4, FilesHold
  <2>6. Len(files[n].buf) <= 3
    <3>1. CASE n = Len(files)
      BY <2>1, <2>2, <2>5, <3>1
    <3>2. CASE n # Len(files)
      BY <2>1, <2>3, <3>2
    <3> QED BY <3>1, <3>2
  <2> QED BY <2>5, <2>6, PushbackAssumption
<1> QED BY <1>1, Inductive, PTL
=============================================================================
