----------------------------- MODULE CharStream ------------------------------
(***************************************************************************)
(* file.c: the source as a stream of characters.  The files that are open  *)
(* form a stack; line ends become "\n", a file that does not end in one    *)
(* gets one, a backslash and a newline disappear, and what is read can be  *)
(* put back.  A step is one call of get() by readc(); the character readc  *)
(* returns waits in got for the tokenizer.                                 *)
(***************************************************************************)
EXTENDS Integers, Sequences

CONSTANTS
  Chars,     \* the characters a file may hold
  Pushback   \* the size of File.buf

ASSUME PushbackAssumption == Pushback \in Nat /\ Pushback >= 3

Newline == "\n"
CarriageReturn == "\r"
Backslash == "\\"
Eof == "EOF"
NoChar == "none"
ASSUME CharAssumption == {Newline, Backslash, "/", "8"} \subseteq Chars /\ Chars \cap {Eof, NoChar} = {}

VARIABLES
  files,    (* the open files, the one that is read last *)
  stashed,  (* what stream_stash put away: stacks of files *)
  slash,    (* readc has read a backslash and reads what follows it *)
  got       (* what readc returned, NoChar before it does *)

streamVars == <<files, stashed, slash, got>>

File == [text : Seq(Chars), last : Chars \cup {Eof, NoChar}, buf : Seq(Chars),
         line : Int, column : Int]

MakeFile(text) == [text |-> text, last |-> NoChar, buf |-> <<>>, line |-> 1, column |-> 1]

Top == files[Len(files)]
SetTop(f) == files' = [files EXCEPT ![Len(files)] = f]

(* getc with line ends canonicalized, and the newline at the end.          *)
ReadRaw(f) ==
  LET rest == Tail(f.text)
      crlf == f.text[1] = CarriageReturn /\ rest # <<>> /\ rest[1] = Newline
      c == CASE f.text # <<>> -> IF f.text[1] = CarriageReturn THEN Newline ELSE f.text[1]
             [] OTHER         -> IF f.last \in {Newline, Eof} THEN Eof ELSE Newline
      left == IF f.text = <<>> THEN <<>> ELSE IF crlf THEN Tail(rest) ELSE rest
  IN  [c |-> c, file |-> [f EXCEPT !.text = left, !.last = c]]

Taken(f) ==
  IF f.buf # <<>>
  THEN [c |-> f.buf[Len(f.buf)], file |-> [f EXCEPT !.buf = SubSeq(f.buf, 1, Len(f.buf) - 1)]]
  ELSE ReadRaw(f)

(* get: the character and the file behind it.                              *)
Get(f) ==
  LET r == Taken(f)
  IN  [c |-> r.c,
       file |-> [r.file EXCEPT !.line = IF r.c = Newline THEN @ + 1 ELSE @,
                               !.column = CASE r.c = Newline -> 1
                                            [] r.c = Eof     -> @
                                            [] OTHER         -> @ + 1]]

(* Mutant of Unread: the line of a newline stays counted.                  *)
UnreadSameLine(f, c) ==
  IF c = Eof THEN f
  ELSE [f EXCEPT !.buf = Append(@, c), !.column = IF c = Newline THEN 1 ELSE @ - 1]

(* unreadc.  That buf has room is asserted there; here it is the invariant *)
(* PushbackFits.                                                           *)
Unread(f, c) ==
  IF c = Eof THEN f
  ELSE [f EXCEPT !.buf = Append(@, c),
                 !.column = IF c = Newline THEN 1 ELSE @ - 1,
                 !.line = IF c = Newline THEN @ - 1 ELSE @]

StreamInit(open) ==
  /\ files = open
  /\ stashed = <<>>
  /\ slash = FALSE
  /\ got = NoChar

ReadPlain ==
  LET g == Get(Top)
  IN  /\ ~slash
      /\ g.c \notin {Eof, Backslash}
      /\ SetTop(g.file) /\ got' = g.c
      /\ UNCHANGED slash

(* The end of the last file is the end; that of an included one is not.    *)
ReadEof ==
  LET g == Get(Top)
  IN  /\ ~slash
      /\ g.c = Eof
      /\ IF Len(files) = 1
         THEN SetTop(g.file) /\ got' = Eof
         ELSE files' = SubSeq(files, 1, Len(files) - 1) /\ UNCHANGED got
      /\ UNCHANGED slash

ReadBackslash ==
  LET g == Get(Top)
  IN  /\ ~slash
      /\ g.c = Backslash
      /\ SetTop(g.file) /\ slash' = TRUE
      /\ UNCHANGED got

Splice ==
  LET g == Get(Top)
  IN  /\ slash
      /\ g.c = Newline
      /\ SetTop(g.file) /\ slash' = FALSE
      /\ UNCHANGED got

ReadNoSplice ==
  LET g == Get(Top)
  IN  /\ slash
      /\ g.c # Newline
      /\ SetTop(Unread(g.file, g.c)) /\ slash' = FALSE
      /\ got' = Backslash

Readc ==
  /\ got = NoChar
  /\ \/ ReadPlain \/ ReadEof \/ ReadBackslash \/ Splice \/ ReadNoSplice
  /\ UNCHANGED stashed

(* The assertion of unreadc (file.c:130): what the tokenizer puts back,    *)
(* and what readc itself puts back behind a backslash, always fits.        *)
PushbackFits == \A n \in DOMAIN files : Len(files[n].buf) <= Pushback
=============================================================================
