--------------------------- MODULE CondInclProofs ---------------------------
(***************************************************************************)
(* Proofs about CondIncl for every program: types, that the tokenizer only *)
(* reads lines of groups that were chosen, and, of files whose             *)
(* conditionals are their own, that no file is skipped which would matter. *)
(***************************************************************************)
EXTENDS CondIncl, FiniteSetTheorems, TLAPS

USE DEF NoName

------------------------------------------------------------------------------
(* Sequences whose head is the top of a stack.                             *)

LEMMA Pushed ==
  ASSUME NEW S, NEW q \in Seq(S), NEW x \in S
  PROVE  /\ <<x>> \o q \in Seq(S)
         /\ Len(<<x>> \o q) = Len(q) + 1
         /\ (<<x>> \o q)[1] = x
         /\ \A n \in 2..Len(q) + 1 : (<<x>> \o q)[n] = q[n - 1]
  OBVIOUS

LEMMA Popped ==
  ASSUME NEW S, NEW q \in Seq(S), q # <<>>
  PROVE  /\ Tail(q) \in Seq(S)
         /\ Len(Tail(q)) = Len(q) - 1
         /\ q[1] \in S
         /\ \A n \in 1..Len(q) - 1 : Tail(q)[n] = q[n + 1]
  OBVIOUS

LEMMA Replaced ==
  ASSUME NEW S, NEW q \in Seq(S), q # <<>>, NEW x \in S
  PROVE  /\ <<x>> \o Tail(q) \in Seq(S)
         /\ Len(<<x>> \o Tail(q)) = Len(q)
         /\ (<<x>> \o Tail(q))[1] = x
         /\ \A n \in 2..Len(q) : (<<x>> \o Tail(q))[n] = q[n]
  <1>1. Tail(q) \in Seq(S) /\ Len(Tail(q)) = Len(q) - 1
    BY Popped
  <1>2. \A n \in 1..Len(q) - 1 : Tail(q)[n] = q[n + 1]
    BY Popped
  <1>3. /\ <<x>> \o Tail(q) \in Seq(S)
        /\ Len(<<x>> \o Tail(q)) = Len(Tail(q)) + 1
        /\ (<<x>> \o Tail(q))[1] = x
        /\ \A n \in 2..Len(Tail(q)) + 1 : (<<x>> \o Tail(q))[n] = Tail(q)[n - 1]
    BY <1>1, Pushed
  <1>4. Len(q) \in Nat /\ Len(q) > 0
    OBVIOUS
  <1> QED
    BY <1>1, <1>2, <1>3, <1>4

------------------------------------------------------------------------------
(* The line at hand, and what becomes of the stack of files.               *)

LEMMA HeadFile ==
  ASSUME TypeOK
  PROVE  files # <<>> /\ File \in FileRecords /\ disk[File.path] \in Seq(Lines)
         /\ File.at \in 1..Len(disk[File.path]) + 1
  <1>1. files \in Seq(FileRecords) /\ Len(files) >= 1
    BY FileAssumption DEF TypeOK, FilesOK
  <1>2. files # <<>> /\ File \in FileRecords /\ 1 \in 1..Len(files)
    BY <1>1 DEF File
  <1>3. File.path \in Files
    BY <1>2 DEF FileRecords
  <1> QED
    BY <1>2, <1>3 DEF TypeOK, FilesOK, File

LEMMA LineAtHand ==
  ASSUME TypeOK, ~ AtEnd
  PROVE  Line \in Lines /\ File.at \in 1..Len(disk[File.path])
  BY HeadFile DEF AtEnd, Line

LEMMA LineKinds ==
  ASSUME NEW l \in Lines
  PROVE  /\ l.kind \in {"text", "blank", "quote", "else", "endif", "once"} => l.arg \in Texts
         /\ l.kind \in {"if", "ifdef", "ifndef", "elif", "define", "undef"} => l.arg \in Macros
         /\ l.kind \in {"include", "import", "line"} => l.arg \in Files
  BY DEF Lines

(* The file at hand goes on to its next line, perhaps renamed.             *)
LEMMA Advanced ==
  ASSUME TypeOK, ~ AtEnd, NEW f \in FileRecords,
         f.path = File.path, f.at = File.at + 1, disk' = disk,
         files' = <<f>> \o Tail(files)
  PROVE  FilesOK'
  <1>1. files # <<>> /\ files \in Seq(FileRecords) /\ Len(files) \in 1..MaxOpen
    BY HeadFile DEF TypeOK, FilesOK
  <1>2. /\ files' \in Seq(FileRecords) /\ Len(files') = Len(files)
        /\ files'[1] = f /\ \A n \in 2..Len(files) : files'[n] = files[n]
    BY <1>1, Replaced
  <1>3. f.at \in 1..Len(disk[f.path]) + 1
    BY LineAtHand, HeadFile
  <1>4. \A n \in 1..Len(files') : files'[n].at \in 1..Len(disk[files'[n].path]) + 1
    <2> TAKE n \in 1..Len(files')
    <2>1. CASE n = 1
      BY <1>2, <1>3, <2>1
    <2>2. CASE n # 1
      <3>1. n \in 2..Len(files) /\ n \in 1..Len(files)
        BY <1>1, <1>2, <2>2
      <3> QED
        BY <1>2, <3>1 DEF TypeOK, FilesOK
    <2> QED
      BY <2>1, <2>2
  <1> QED
    BY <1>1, <1>2, <1>4 DEF FilesOK

LEMMA ConsumedFile ==
  ASSUME TypeOK, ~ AtEnd
  PROVE  /\ Consumed(File) \in FileRecords
         /\ Consumed(File).path = File.path /\ Consumed(File).at = File.at + 1
  <1>1. File \in FileRecords /\ File.at + 1 \in Nat
    BY HeadFile, LineAtHand
  <1> QED
    BY <1>1 DEF Consumed, FileRecords

LEMMA NextLineTyped ==
  ASSUME TypeOK, ~ AtEnd, NextLine, disk' = disk
  PROVE  FilesOK'
  BY ConsumedFile, Advanced DEF NextLine

LEMMA PopFileTyped ==
  ASSUME TypeOK, PopFile, disk' = disk
  PROVE  FilesOK'
  <1>1. files # <<>> /\ files \in Seq(FileRecords) /\ Len(files) \in 1..MaxOpen
    BY HeadFile DEF TypeOK, FilesOK
  <1>2. /\ files' \in Seq(FileRecords) /\ Len(files') = Len(files) - 1
        /\ \A n \in 1..Len(files) - 1 : files'[n] = files[n + 1]
    BY <1>1, Popped DEF PopFile
  <1>3. \A n \in 1..Len(files') : files'[n].at \in 1..Len(disk[files'[n].path]) + 1
    <2> TAKE n \in 1..Len(files')
    <2>1. n \in 1..Len(files) - 1 /\ n + 1 \in 1..Len(files)
      BY <1>1, <1>2
    <2> QED
      BY <1>2, <2>1 DEF TypeOK, FilesOK
  <1>4. Len(files') \in 1..MaxOpen
    BY <1>1, <1>2, FileAssumption DEF PopFile
  <1> QED
    BY <1>2, <1>3, <1>4 DEF FilesOK
------------------------------------------------------------------------------
(* The stack of conditionals.                                              *)

LEMMA HeadCond ==
  ASSUME TypeOK, conds # <<>>
  PROVE  conds[1] \in CondRecords /\ Tail(conds) \in Seq(CondRecords)
  BY Popped DEF TypeOK

(* No #else and no #endif without a conditional.                           *)
LEMMA NotStray ==
  ASSUME ~ Stray
  PROVE  conds # <<>> /\ (Line.kind \in {"else", "elif"} => conds[1].ctx # "else")
  BY DEF Stray

LEMMA ElsedTyped ==
  ASSUME TypeOK, conds # <<>>
  PROVE  /\ Elsed(conds[1]) \in CondRecords
         /\ Elsed(conds[1]).ctx = "else" /\ Elsed(conds[1]).wastrue = conds[1].wastrue
  <1>1. conds[1] \in CondRecords
    BY HeadCond
  <1> QED
    BY <1>1 DEF Elsed, CondRecords

------------------------------------------------------------------------------
(* Type correctness, one step per action.                                  *)

LEMMA InitTyped == Init => TypeOK
  <1> SUFFICES ASSUME Init PROVE TypeOK
    OBVIOUS
  <1>1. disk \in [Files -> Seq(Lines)]
    BY ProgramAssumption DEF Init
  <1>2. disk["main"] \in Seq(Lines)
    BY <1>1, FileAssumption
  <1>3. OpenFile("main", 1) \in FileRecords
    BY FileAssumption DEF OpenFile, FileRecords
  <1>4. files \in Seq(FileRecords) /\ Len(files) = 1 /\ files[1] = OpenFile("main", 1)
    BY <1>3 DEF Init
  <1>5. FilesOK
    BY <1>2, <1>4, FileAssumption DEF FilesOK, OpenFile
  <1> QED
    BY <1>1, <1>5 DEF Init, TypeOK, NoneClosed

LEMMA StopTyped ==
  ASSUME TypeOK, NEW how \in {"done", "error"}, Stop(how)
  PROVE  TypeOK'
  <1>1. FilesOK'
    BY DEF TypeOK, FilesOK, Stop, lineVars
  <1> QED
    BY <1>1 DEF TypeOK, Stop, lineVars, condVars, incVars

LEMMA ReadsTyped ==
  ASSUME TypeOK
  PROVE  /\ ReadText => TypeOK'
         /\ ReadBlank => TypeOK'
         /\ ReadDefine => TypeOK'
         /\ ReadPopsFile => TypeOK'
         /\ PragmaOnce => TypeOK'
         /\ ReadLineName => TypeOK'
  <1>1. ASSUME NEW kinds, ReadLine(kinds)
        PROVE  FilesOK' /\ UNCHANGED lineVars /\ Line \in Lines /\ Line.kind \in kinds
    BY <1>1, NextLineTyped, LineAtHand DEF ReadLine, Is, lineVars
  <1>2. ReadText => TypeOK'
    <2> SUFFICES ASSUME ReadText PROVE TypeOK'
      OBVIOUS
    <2>1. FilesOK' /\ UNCHANGED lineVars /\ Line.arg \in Texts
      BY <1>1, LineKinds DEF ReadText
    <2> QED
      BY <2>1 DEF ReadText, TypeOK, lineVars, skipVars, condVars, incVars
  <1>3. ReadBlank => TypeOK'
    BY <1>1 DEF ReadBlank, TypeOK, lineVars, skipVars, condVars, incVars
  <1>4. ReadDefine => TypeOK'
    <2> SUFFICES ASSUME ReadDefine PROVE TypeOK'
      OBVIOUS
    <2>1. FilesOK' /\ UNCHANGED lineVars /\ Line.arg \in Macros
      BY <1>1, LineKinds DEF ReadDefine
    <2> QED
      BY <2>1 DEF ReadDefine, TypeOK, lineVars, skipVars, condVars, incVars
  <1>5. ReadPopsFile => TypeOK'
    <2> SUFFICES ASSUME ReadPopsFile PROVE TypeOK'
      OBVIOUS
    <2>1. FilesOK'
      BY PopFileTyped DEF ReadPopsFile, lineVars
    <2> QED
      BY <2>1 DEF ReadPopsFile, TypeOK, lineVars, skipVars, condVars, incVars
  <1>6. PragmaOnce => TypeOK'
    <2> SUFFICES ASSUME PragmaOnce PROVE TypeOK'
      OBVIOUS
    <2>1. FilesOK' /\ UNCHANGED lineVars /\ File.name \in Files
      BY <1>1, HeadFile DEF PragmaOnce, FileRecords
    <2> QED
      BY <2>1 DEF PragmaOnce, TypeOK, lineVars, skipVars, condVars, incVars
  <1>7. ReadLineName => TypeOK'
    <2> SUFFICES ASSUME ReadLineName PROVE TypeOK'
      OBVIOUS
    <2>1. ~ AtEnd /\ Line.arg \in Files /\ disk' = disk
      BY LineAtHand, LineKinds DEF ReadLineName, Is, lineVars
    <2>2. Consumed(File) \in FileRecords
      BY <2>1, ConsumedFile
    <2> DEFINE f == [Consumed(File) EXCEPT !.name = Line.arg]
    <2>3. f \in FileRecords /\ f.path = Consumed(File).path /\ f.at = Consumed(File).at
      BY <2>1, <2>2 DEF FileRecords
    <2>4. files' = <<f>> \o Tail(files)
      BY DEF ReadLineName
    <2>5. FilesOK'
      BY <2>1, <2>3, <2>4, ConsumedFile, Advanced
    <2> QED
      BY <2>5 DEF ReadLineName, TypeOK, lineVars, skipVars, condVars, incVars
  <1> QED
    BY <1>2, <1>3, <1>4, <1>5, <1>6, <1>7

LEMMA ConditionalsTyped ==
  ASSUME TypeOK
  PROVE  /\ ReadIf => TypeOK'
         /\ ReadElse => TypeOK'
         /\ ReadElif => TypeOK'
         /\ ReadEndif => TypeOK'
  <1>1. ASSUME NEW kinds, ReadLine(kinds)
        PROVE  FilesOK' /\ UNCHANGED lineVars /\ Line \in Lines /\ Line.kind \in kinds
    BY <1>1, NextLineTyped, LineAtHand DEF ReadLine, Is, lineVars
  <1>2. File.id \in Nat /\ File.name \in Files
    BY HeadFile DEF FileRecords
  <1>3. ReadIf => TypeOK'
    <2> SUFFICES ASSUME ReadIf PROVE TypeOK'
      OBVIOUS
    <2>1. FilesOK' /\ UNCHANGED lineVars /\ Line.arg \in Macros
      BY <1>1, LineKinds DEF ReadIf, Opening
    <2> DEFINE c == [ctx     |-> "then",
                     wastrue |-> Holds(Line),
                     guard   |-> IF Line.kind = "ifndef" /\ File.ntok = 0
                                 THEN Line.arg ELSE NoName,
                     file    |-> File.id]
    <2>2. Holds(Line) \in BOOLEAN
      <3>1. CASE Line.kind = "ifndef"
        BY <3>1 DEF Holds
      <3>2. CASE Line.kind # "ifndef"
        BY <3>2 DEF Holds
      <3> QED
        BY <3>1, <3>2
    <2>3. c \in CondRecords
      BY <1>2, <2>1, <2>2 DEF CondRecords
    <2>4. conds' = <<c>> \o conds
      BY DEF ReadIf, SetConds
    <2> HIDE DEF c
    <2>5. conds' \in Seq(CondRecords)
      BY <2>3, <2>4, Pushed DEF TypeOK
    <2> QED
      BY <2>1, <2>5 DEF ReadIf, SetConds, TypeOK, lineVars, incVars
  <1>4. ReadElse => TypeOK'
    <2> SUFFICES ASSUME ReadElse PROVE TypeOK'
      OBVIOUS
    <2>1. FilesOK' /\ UNCHANGED lineVars
      BY <1>1 DEF ReadElse
    <2>2. conds # <<>>
      BY NotStray DEF ReadElse
    <2>3. conds' \in Seq(CondRecords)
      BY <2>2, ElsedTyped, Replaced DEF ReadElse, SetConds, TypeOK
    <2> QED
      BY <2>1, <2>3 DEF ReadElse, SetConds, TypeOK, lineVars, incVars
  <1>5. ReadElif => TypeOK'
    <2> SUFFICES ASSUME ReadElif PROVE TypeOK'
      OBVIOUS
    <2>1. FilesOK' /\ UNCHANGED lineVars
      BY <1>1 DEF ReadElif
    <2>2. conds # <<>>
      BY NotStray DEF ReadElif
    <2> DEFINE c == [ctx     |-> "elif",
                     wastrue |-> conds[1].wastrue \/ Line.arg \in defined,
                     guard   |-> NoName,
                     file    |-> conds[1].file]
    <2>3. c \in CondRecords
      BY <2>2, HeadCond DEF CondRecords
    <2>4. conds' = <<c>> \o Tail(conds)
      BY DEF ReadElif, SetConds
    <2> HIDE DEF c
    <2>5. conds' \in Seq(CondRecords)
      BY <2>2, <2>3, <2>4, Replaced DEF TypeOK
    <2> QED
      BY <2>1, <2>5 DEF ReadElif, SetConds, TypeOK, lineVars, incVars
  <1>6. ReadEndif => TypeOK'
    <2> SUFFICES ASSUME ReadEndif PROVE TypeOK'
      OBVIOUS
    <2>1. FilesOK' /\ UNCHANGED lineVars
      BY <1>1 DEF ReadEndif
    <2>2. conds # <<>>
      BY NotStray DEF ReadEndif
    <2>3. conds' \in Seq(CondRecords) /\ conds[1].guard \in Macros \cup {NoName}
      BY <2>2, HeadCond DEF ReadEndif, CondRecords
    <2>4. CASE conds[1].guard # NoName /\ conds[1].file = File.id
      BY <1>2, <2>1, <2>3, <2>4 DEF ReadEndif, TypeOK, lineVars, incVars
    <2>5. CASE ~ (conds[1].guard # NoName /\ conds[1].file = File.id)
      BY <2>1, <2>3, <2>5 DEF ReadEndif, TypeOK, lineVars, incVars
    <2> QED
      BY <2>4, <2>5
  <1> QED
    BY <1>3, <1>4, <1>5, <1>6

LEMMA LooksTyped ==
  ASSUME TypeOK
  PROVE  /\ LookOn => TypeOK'
         /\ LookEnds => TypeOK'
  <1>1. LookOn => TypeOK'
    <2> SUFFICES ASSUME LookOn PROVE TypeOK'
      OBVIOUS
    <2>1. disk' = disk
      BY DEF LookOn, lineVars
    <2>2. CASE Is({"blank"}) /\ NextLine
      BY <2>1, <2>2, NextLineTyped DEF LookOn, Is, TypeOK, lineVars, skipVars, condVars, incVars
    <2>3. CASE PopFile
      BY <2>1, <2>3, PopFileTyped DEF LookOn, TypeOK, lineVars, skipVars, condVars, incVars
    <2> QED
      BY <2>2, <2>3 DEF LookOn
  <1>2. LookEnds => TypeOK'
    <2> SUFFICES ASSUME LookEnds PROVE TypeOK'
      OBVIOUS
    <2>1. FilesOK'
      BY DEF LookEnds, lineVars, TypeOK, FilesOK
    <2>2. closed.guard \in Macros /\ closed.name \in Files
      BY DEF LookEnds, TypeOK
    <2>3. guards' \in [Files -> Macros \cup {NoName}]
      BY <2>2 DEF LookEnds, TypeOK
    <2> QED
      BY <2>1, <2>3 DEF LookEnds, TypeOK, lineVars, NoneClosed
  <1> QED
    BY <1>1, <1>2

LEMMA IncludesTyped ==
  ASSUME TypeOK
  PROVE  /\ IncludeOnce => TypeOK'
         /\ IncludeGuarded => TypeOK'
         /\ Include => TypeOK'
  <1>1. ASSUME NEW kinds, ReadLine(kinds)
        PROVE  FilesOK' /\ UNCHANGED lineVars
    BY <1>1, NextLineTyped DEF ReadLine, Is, lineVars
  <1>2. IncludeOnce => TypeOK'
    BY <1>1 DEF IncludeOnce, TypeOK, lineVars, skipVars, condVars, incVars
  <1>3. IncludeGuarded => TypeOK'
    BY <1>1 DEF IncludeGuarded, TypeOK, lineVars, skipVars, condVars
  <1>4. Include => TypeOK'
    <2> SUFFICES ASSUME Include PROVE TypeOK'
      OBVIOUS
    <2>1. ~ AtEnd /\ disk' = disk /\ Line.arg \in Files
      BY LineAtHand, LineKinds DEF Include, Is
    <2>2. CASE Len(files) = MaxOpen /\ UNCHANGED <<files, opened, once>>
      <3>1. FilesOK'
        BY <2>1, <2>2 DEF TypeOK, FilesOK
      <3> QED
        BY <2>2, <3>1 DEF Include, TypeOK, condVars
    <2>3. CASE Len(files) < MaxOpen
      <3> DEFINE f == OpenFile(Line.arg, opened + 1)
                 q == <<Consumed(File)>> \o Tail(files)
      <3>1. f \in FileRecords /\ f.at = 1 /\ f.path = Line.arg
        BY <2>1 DEF OpenFile, FileRecords, TypeOK
      <3>2. files \in Seq(FileRecords) /\ files # <<>> /\ Len(files) \in Nat
        BY HeadFile DEF TypeOK, FilesOK
      <3>3. Consumed(File) \in FileRecords
        BY <2>1, ConsumedFile
      <3>4. /\ q \in Seq(FileRecords) /\ Len(q) = Len(files) /\ q[1] = Consumed(File)
            /\ \A n \in 2..Len(files) : q[n] = files[n]
        BY <3>2, <3>3, Replaced
      <3>5. files' = <<f>> \o q /\ opened' = opened + 1 /\ UNCHANGED mode
        BY <2>3, <3>2 DEF Include
      <3> HIDE DEF f, q
      <3>6. /\ files' \in Seq(FileRecords) /\ Len(files') = Len(files) + 1
            /\ files'[1] = f /\ \A n \in 2..Len(files) + 1 : files'[n] = q[n - 1]
        BY <3>1, <3>4, <3>5, Pushed
      <3>7. \A n \in 1..Len(files) : q[n].at \in 1..Len(disk[q[n].path]) + 1
        <4> TAKE n \in 1..Len(files)
        <4>1. CASE n = 1
          BY <2>1, <3>4, <4>1, ConsumedFile, LineAtHand, HeadFile
        <4>2. CASE n # 1
          <5>1. n \in 2..Len(files)
            BY <3>2, <4>2
          <5> QED
            BY <3>4, <5>1 DEF TypeOK, FilesOK
        <4> QED
          BY <4>1, <4>2
      <3>8. f.at \in 1..Len(disk[f.path]) + 1
        <4>1. disk[Line.arg] \in Seq(Lines)
          BY <2>1 DEF TypeOK
        <4> QED
          BY <3>1, <4>1
      <3>9. \A n \in 1..Len(files') : files'[n].at \in 1..Len(disk[files'[n].path]) + 1
        <4> TAKE n \in 1..Len(files')
        <4>1. CASE n = 1
          BY <3>6, <3>8, <4>1
        <4>2. CASE n # 1
          <5>1. n \in 2..Len(files) + 1 /\ n - 1 \in 1..Len(files)
            BY <3>2, <3>6, <4>2
          <5> QED
            BY <3>6, <3>7, <5>1
        <4> QED
          BY <4>1, <4>2
      <3>10. FilesOK'
        BY <2>1, <2>3, <3>2, <3>6, <3>9, FileAssumption DEF FilesOK
      <3>11. once' \in SUBSET Files
        BY <2>1, <2>3, <3>2 DEF Include, TypeOK
      <3> QED
        BY <3>5, <3>10, <3>11 DEF Include, TypeOK, condVars
    <2> QED
      BY <2>2, <2>3 DEF Include
  <1> QED
    BY <1>2, <1>3, <1>4

LEMMA SkipsTyped ==
  ASSUME TypeOK
  PROVE  /\ SkipPopsFile => TypeOK'
         /\ SkipQuote => TypeOK'
         /\ SkipNested => TypeOK'
         /\ SkipNestedEndif => TypeOK'
         /\ SkipLine => TypeOK'
         /\ SkipEnds => TypeOK'
  <1> USE DEF Unread, lineVars, condVars, incVars, skipVars
  <1>1. SkipPopsFile => TypeOK'
    BY PopFileTyped DEF SkipPopsFile, TypeOK
  <1>2. SkipQuote => TypeOK'
    BY NextLineTyped DEF SkipQuote, Is, TypeOK
  <1>3. SkipNested => TypeOK'
    BY NextLineTyped DEF SkipNested, Is, TypeOK
  <1>4. SkipNestedEndif => TypeOK'
    BY NextLineTyped DEF SkipNestedEndif, Is, TypeOK
  <1>5. SkipLine => TypeOK'
    BY NextLineTyped DEF SkipLine, TypeOK
  <1>6. SkipEnds => TypeOK'
    BY DEF SkipEnds, TypeOK, FilesOK
  <1> QED
    BY <1>1, <1>2, <1>3, <1>4, <1>5, <1>6

LEMMA StutterTyped ==
  ASSUME TypeOK, UNCHANGED vars
  PROVE  TypeOK'
  BY DEF vars, TypeOK, FilesOK

LEMMA NextTyped ==
  ASSUME TypeOK, Next
  PROVE  TypeOK'
  <1>1. CASE ReadQuote \/ ReadStray \/ ReadEof \/ SkipEof
    BY <1>1, StopTyped DEF ReadQuote, ReadStray, ReadEof, SkipEof
  <1>2. CASE \/ ReadText \/ ReadBlank \/ ReadDefine \/ ReadPopsFile
             \/ PragmaOnce \/ ReadLineName
    BY <1>2, ReadsTyped
  <1>3. CASE ReadIf \/ ReadElse \/ ReadElif \/ ReadEndif
    BY <1>3, ConditionalsTyped
  <1>4. CASE LookOn \/ LookEnds
    BY <1>4, LooksTyped
  <1>5. CASE IncludeOnce \/ IncludeGuarded \/ Include
    BY <1>5, IncludesTyped
  <1>6. CASE \/ SkipPopsFile \/ SkipQuote \/ SkipNested \/ SkipNestedEndif
             \/ SkipLine \/ SkipEnds
    BY <1>6, SkipsTyped
  <1> QED
    BY <1>1, <1>2, <1>3, <1>4, <1>5, <1>6 DEF Next

(* Whatever the files hold, the directives keep every variable typed, no   *)
(* file is read beyond its end and no more than MaxOpen are open.          *)
THEOREM TypeCorrect == Spec => []TypeOK
  <1>1. TypeOK /\ [Next]_vars => TypeOK'
    BY NextTyped, StutterTyped
  <1> QED
    BY InitTyped, <1>1, PTL DEF Spec

------------------------------------------------------------------------------
(* ReadsChosenGroups is not inductive: while a group is skipped nothing is *)
(* said of the conditionals around it.  They were all being read.          *)
Outside == \A n \in 2..Len(conds) : Chosen(conds[n])

GroupsInv == TypeOK /\ Outside /\ ReadsChosenGroups

LEMMA NoConds ==
  ASSUME conds = <<>>
  PROVE  Outside /\ ReadsChosenGroups
  BY DEF Outside, ReadsChosenGroups

(* What is known where a line is read that is no #elif, #else or #endif.   *)
LEMMA AllChosen ==
  ASSUME GroupsInv, mode = "look" \/ (mode = "read" /\ ~ Is(Closing))
  PROVE  \A n \in 1..Len(conds) : Chosen(conds[n])
  BY DEF GroupsInv, ReadsChosenGroups

(* Steps that leave the conditionals alone.                                *)
LEMMA SameConds ==
  ASSUME GroupsInv, conds' = conds,
         mode' \in {"read", "look"} =>
           \/ mode = "look" \/ (mode = "read" /\ ~ Is(Closing))
           \/ mode' = "read" /\ Is(Closing)'
  PROVE  Outside' /\ ReadsChosenGroups'
  <1>1. Outside'
    BY DEF GroupsInv, Outside, Chosen
  <1>2. ASSUME mode = "look" \/ (mode = "read" /\ ~ Is(Closing))
        PROVE  \A n \in 1..Len(conds') : Chosen(conds'[n])
    BY <1>2, AllChosen
  <1>3. ReadsChosenGroups'
    BY <1>2 DEF ReadsChosenGroups, Chosen
  <1> QED
    BY <1>1, <1>3

LEMMA OpeningGroups ==
  ASSUME GroupsInv, ReadIf
  PROVE  Outside' /\ ReadsChosenGroups'
  <1>1. mode = "read" /\ ~ Is(Closing)
    BY DEF ReadIf, ReadLine, Is, Opening, Closing
  <1>2. \A n \in 1..Len(conds) : Chosen(conds[n])
    BY <1>1, AllChosen
  <1> DEFINE c == [ctx     |-> "then",
                   wastrue |-> Holds(Line),
                   guard   |-> IF Line.kind = "ifndef" /\ File.ntok = 0
                               THEN Line.arg ELSE NoName,
                   file    |-> File.id]
  <1>3. conds' = <<c>> \o conds
    BY DEF ReadIf, SetConds
  <1>4. mode' = "read" => Chosen(c)
    BY DEF ReadIf, Chosen
  <1>5. mode' # "look"
    BY DEF ReadIf
  <1> HIDE DEF c
  <1>6. conds \in Seq(CondRecords) /\ Len(conds) \in Nat
    BY DEF GroupsInv, TypeOK
  <1>7. /\ Len(conds') = Len(conds) + 1 /\ conds'[1] = c
        /\ \A n \in 2..Len(conds) + 1 : conds'[n] = conds[n - 1]
    BY <1>3, <1>6
  <1>8. \A n \in 2..Len(conds') : Chosen(conds'[n])
    <2> TAKE n \in 2..Len(conds')
    <2>1. n - 1 \in 1..Len(conds) /\ n \in 2..Len(conds) + 1
      BY <1>6, <1>7
    <2> QED
      BY <1>2, <1>7, <2>1
  <1>9. mode' = "read" => \A n \in 1..Len(conds') : Chosen(conds'[n])
    <2> SUFFICES ASSUME mode' = "read", NEW n \in 1..Len(conds') PROVE Chosen(conds'[n])
      OBVIOUS
    <2>1. CASE n = 1
      BY <1>4, <1>7, <2>1
    <2>2. CASE n # 1
      BY <1>6, <1>7, <1>8, <2>2
    <2> QED
      BY <2>1, <2>2
  <1> QED
    BY <1>5, <1>8, <1>9 DEF Outside, ReadsChosenGroups, Chosen

(* The head is replaced by c, which is chosen if its group is to be read.  *)
LEMMA NextGroup ==
  ASSUME GroupsInv, conds # <<>>, NEW c \in CondRecords, conds' = <<c>> \o Tail(conds),
         mode' # "look", mode' = "read" => Chosen(c)
  PROVE  Outside' /\ ReadsChosenGroups'
  <1>1. conds \in Seq(CondRecords) /\ Len(conds) \in Nat /\ Len(conds) >= 1
    BY DEF GroupsInv, TypeOK
  <1>2. /\ Len(conds') = Len(conds) /\ conds'[1] = c
        /\ \A n \in 2..Len(conds) : conds'[n] = conds[n]
    BY <1>1, Replaced
  <1>3. \A n \in 2..Len(conds') : Chosen(conds'[n])
    BY <1>2 DEF GroupsInv, Outside
  <1>4. mode' = "read" => \A n \in 1..Len(conds') : Chosen(conds'[n])
    <2> SUFFICES ASSUME mode' = "read", NEW n \in 1..Len(conds') PROVE Chosen(conds'[n])
      OBVIOUS
    <2>1. CASE n = 1
      BY <1>2, <2>1
    <2>2. CASE n # 1
      BY <1>1, <1>2, <1>3, <2>2
    <2> QED
      BY <2>1, <2>2
  <1> QED
    BY <1>3, <1>4 DEF Outside, ReadsChosenGroups, Chosen

LEMMA ClosingGroups ==
  ASSUME GroupsInv, ReadEndif
  PROVE  Outside' /\ ReadsChosenGroups'
  <1>1. conds \in Seq(CondRecords) /\ conds # <<>> /\ Len(conds) \in Nat
    BY NotStray DEF GroupsInv, TypeOK, ReadEndif
  <1>2. conds' = Tail(conds)
    BY DEF ReadEndif
  <1>3. /\ Len(conds') = Len(conds) - 1
        /\ \A n \in 1..Len(conds) - 1 : conds'[n] = conds[n + 1]
    BY <1>1, <1>2, Popped
  <1>4. \A n \in 1..Len(conds') : Chosen(conds'[n])
    <2> TAKE n \in 1..Len(conds')
    <2>1. n \in 1..Len(conds) - 1 /\ n + 1 \in 2..Len(conds)
      BY <1>1, <1>3
    <2> QED
      BY <1>3, <2>1 DEF GroupsInv, Outside
  <1>5. \A n \in 2..Len(conds') : Chosen(conds'[n])
    BY <1>1, <1>3, <1>4
  <1> QED
    BY <1>4, <1>5 DEF Outside, ReadsChosenGroups, Chosen

LEMMA NextGroups ==
  ASSUME GroupsInv, Next
  PROVE  Outside' /\ ReadsChosenGroups'
  <1> USE DEF condVars, Unread, lineVars, skipVars, incVars
  <1>1. CASE ReadQuote \/ ReadStray \/ ReadEof \/ SkipEof
    BY <1>1, SameConds DEF ReadQuote, ReadStray, ReadEof, SkipEof, Stop
  <1>2. CASE ReadText \/ ReadBlank \/ ReadDefine \/ PragmaOnce
    BY <1>2, SameConds DEF ReadText, ReadBlank, ReadDefine, PragmaOnce, ReadLine, Is, Closing
  <1>3. CASE ReadLineName \/ ReadPopsFile
    BY <1>3, SameConds DEF ReadLineName, ReadPopsFile, PopFile, Is, Closing
  <1>4. CASE ReadIf
    BY <1>4, OpeningGroups
  <1>5. CASE ReadElse
    <2>1. conds # <<>>
      BY <1>5, NotStray DEF ReadElse
    <2>2. /\ Elsed(conds[1]) \in CondRecords
          /\ Elsed(conds[1]).ctx = "else" /\ Elsed(conds[1]).wastrue = conds[1].wastrue
      BY <2>1, ElsedTyped DEF GroupsInv
    <2>3. mode' # "look" /\ (mode' = "read" => ~ conds[1].wastrue)
      BY <1>5 DEF ReadElse
    <2>4. conds' = <<Elsed(conds[1])>> \o Tail(conds)
      BY <1>5 DEF ReadElse, SetConds
    <2>5. mode' = "read" => Chosen(Elsed(conds[1]))
      BY <2>2, <2>3 DEF Chosen
    <2> QED
      BY <2>1, <2>2, <2>3, <2>4, <2>5, NextGroup
  <1>6. CASE ReadElif
    <2>1. conds # <<>>
      BY <1>6, NotStray DEF ReadElif
    <2> DEFINE c == [ctx     |-> "elif",
                     wastrue |-> conds[1].wastrue \/ Line.arg \in defined,
                     guard   |-> NoName,
                     file    |-> conds[1].file]
    <2>2. c \in CondRecords
      BY <2>1, HeadCond DEF CondRecords, GroupsInv
    <2>3. conds' = <<c>> \o Tail(conds)
      BY <1>6 DEF ReadElif, SetConds
    <2>4. mode' # "look" /\ (mode' = "read" => Line.arg \in defined)
      BY <1>6 DEF ReadElif
    <2>5. mode' = "read" => Chosen(c)
      BY <2>4 DEF Chosen
    <2> HIDE DEF c
    <2> QED
      BY <2>1, <2>2, <2>3, <2>4, <2>5, NextGroup
  <1>7. CASE ReadEndif
    BY <1>7, ClosingGroups
  <1>8. CASE LookOn \/ LookEnds
    BY <1>8, SameConds DEF LookOn, LookEnds
  <1>9. CASE IncludeOnce \/ IncludeGuarded \/ Include
    BY <1>9, SameConds DEF IncludeOnce, IncludeGuarded, Include, ReadLine, Is, Closing
  <1>10. CASE SkipPopsFile \/ SkipQuote \/ SkipNested \/ SkipNestedEndif \/ SkipLine
    BY <1>10, SameConds DEF SkipPopsFile, SkipQuote, SkipNested, SkipNestedEndif, SkipLine,
                            Skipping
  <1>11. CASE SkipEnds
    <2>1. Is(Closing)'
      BY <1>11 DEF SkipEnds, Is, AtEnd, File, Line
    <2> QED
      BY <1>11, <2>1, SameConds DEF SkipEnds
  <1> QED
    BY <1>1, <1>2, <1>3, <1>4, <1>5, <1>6, <1>7, <1>8, <1>9, <1>10, <1>11 DEF Next

(* Whatever the files hold, balanced or not: every line the tokenizer is   *)
(* given lies in chosen groups only, across files, guards and skipping.    *)
THEOREM OnlyChosenGroups == Spec => []ReadsChosenGroups
  <1>1. Init => GroupsInv
    BY InitTyped, NoConds DEF Init, GroupsInv
  <1>2. GroupsInv /\ [Next]_vars => GroupsInv'
    <2> SUFFICES ASSUME GroupsInv, [Next]_vars PROVE GroupsInv'
      OBVIOUS
    <2>1. CASE Next
      BY <2>1, NextTyped, NextGroups DEF GroupsInv
    <2>2. CASE UNCHANGED vars
      <3>1. TypeOK'
        BY <2>2, StutterTyped DEF GroupsInv
      <3>2. Is(Closing)' <=> Is(Closing)
        BY <2>2 DEF vars, Is, AtEnd, File, Line
      <3>3. Outside' /\ ReadsChosenGroups'
        BY <2>2, <3>2, SameConds DEF vars
      <3> QED
        BY <3>1, <3>3 DEF GroupsInv
    <2> QED
      BY <2>1, <2>2
  <1>3. GroupsInv => ReadsChosenGroups
    BY DEF GroupsInv
  <1> QED
    BY <1>1, <1>2, <1>3, PTL DEF Spec
------------------------------------------------------------------------------
(* Guards.  A balanced file closes the conditionals it opens, and only     *)
(* those.  Of other programs GuardsAreSound does not hold: an #if may be   *)
(* closed in another file; skip_char takes a lone apostrophe in skipped    *)
(* text for the beginning of a character and hides lines; and the guard is *)
(* filed under the name that #line has given the file (cpp.c:602).         *)
Balanced(lines) ==
  /\ Depth(lines, Len(lines)) = 0
  /\ \A n \in 1..Len(lines) :
       /\ Depth(lines, n) >= 0
       /\ lines[n].kind \in {"else", "elif"} => Depth(lines, n) > 0

Tame ==
  \A f \in Files :
    /\ Balanced(disk[f])
    /\ \A n \in 1..Len(disk[f]) :
         disk[f][n].kind # "quote" /\ (disk[f][n].kind = "line" => disk[f][n].arg = f)

LEMMA CountStep ==
  ASSUME NEW S, NEW n \in Nat
  PROVE  /\ Cardinality({x \in 1..n : x \in S}) \in Nat
         /\ Cardinality({x \in 1..n + 1 : x \in S})
              = Cardinality({x \in 1..n : x \in S}) + (IF n + 1 \in S THEN 1 ELSE 0)
  <1> DEFINE A == {x \in 1..n : x \in S}
  <1>1. IsFiniteSet(A) /\ Cardinality(A) \in Nat
    <2>1. IsFiniteSet(1..n)
      BY FS_Interval
    <2>2. A \in SUBSET (1..n)
      OBVIOUS
    <2>3. IsFiniteSet(A)
      BY <2>1, <2>2, FS_Subset
    <2> QED
      BY <2>3, FS_CardinalityType
  <1>2. CASE n + 1 \in S
    <2>1. {x \in 1..n + 1 : x \in S} = A \cup {n + 1} /\ n + 1 \notin A
      BY <1>2
    <2> QED
      BY <1>1, <1>2, <2>1, FS_AddElement
  <1>3. CASE n + 1 \notin S
    <2>1. {x \in 1..n + 1 : x \in S} = A
      BY <1>3
    <2> QED
      BY <1>1, <1>3, <2>1
  <1> QED
    BY <1>2, <1>3

LEMMA DepthStep ==
  ASSUME NEW lines, NEW n \in Nat
  PROVE  /\ Depth(lines, n) \in Int
         /\ Depth(lines, n + 1) = Depth(lines, n) + (IF lines[n + 1].kind \in Opening THEN 1
                                                     ELSE IF lines[n + 1].kind = "endif" THEN -1 ELSE 0)
  <1> DEFINE O == {x \in 1..n + 1 : lines[x].kind \in Opening}
             C == {x \in 1..n + 1 : lines[x].kind = "endif"}
  <1>1. /\ {x \in 1..n : lines[x].kind \in Opening} = {x \in 1..n : x \in O}
        /\ {x \in 1..n + 1 : lines[x].kind \in Opening} = {x \in 1..n + 1 : x \in O}
        /\ n + 1 \in O <=> lines[n + 1].kind \in Opening
    OBVIOUS
  <1>2. /\ {x \in 1..n : lines[x].kind = "endif"} = {x \in 1..n : x \in C}
        /\ {x \in 1..n + 1 : lines[x].kind = "endif"} = {x \in 1..n + 1 : x \in C}
        /\ n + 1 \in C <=> lines[n + 1].kind = "endif"
    OBVIOUS
  <1>3. ~(lines[n + 1].kind \in Opening /\ lines[n + 1].kind = "endif")
    BY DEF Opening
  <1> HIDE DEF O, C
  <1>4. /\ Depth(lines, n) = Cardinality({x \in 1..n : x \in O}) - Cardinality({x \in 1..n : x \in C})
        /\ Depth(lines, n + 1)
             = Cardinality({x \in 1..n + 1 : x \in O}) - Cardinality({x \in 1..n + 1 : x \in C})
    BY <1>1, <1>2 DEF Depth
  <1>5. /\ Cardinality({x \in 1..n : x \in O}) \in Nat
        /\ Cardinality({x \in 1..n + 1 : x \in O})
             = Cardinality({x \in 1..n : x \in O}) + (IF n + 1 \in O THEN 1 ELSE 0)
    BY CountStep
  <1>6. /\ Cardinality({x \in 1..n : x \in C}) \in Nat
        /\ Cardinality({x \in 1..n + 1 : x \in C})
             = Cardinality({x \in 1..n : x \in C}) + (IF n + 1 \in C THEN 1 ELSE 0)
    BY CountStep
  <1> QED
    BY <1>1, <1>2, <1>3, <1>4, <1>5, <1>6

LEMMA DepthZero ==
  ASSUME NEW lines
  PROVE  Depth(lines, 0) = 0
  <1>1. {x \in 1..0 : lines[x].kind \in Opening} = {} /\ {x \in 1..0 : lines[x].kind = "endif"} = {}
    OBVIOUS
  <1>2. Cardinality({}) = 0
    BY FS_EmptySet
  <1> QED
    BY <1>1, <1>2 DEF Depth

LEMMA DepthIsInt ==
  ASSUME NEW lines, NEW n \in Nat
  PROVE  Depth(lines, n) \in Int
  BY DepthStep

(* The element of a stack that is the j-th from its bottom.                *)
At(q, j) == q[Len(q) + 1 - j]

LEMMA AtPushed ==
  ASSUME NEW S, NEW q \in Seq(S), NEW x \in S
  PROVE  /\ At(<<x>> \o q, Len(q) + 1) = x
         /\ \A j \in 1..Len(q) : At(<<x>> \o q, j) = At(q, j)
  <1>1. /\ Len(<<x>> \o q) = Len(q) + 1 /\ (<<x>> \o q)[1] = x
        /\ \A n \in 2..Len(q) + 1 : (<<x>> \o q)[n] = q[n - 1]
    BY Pushed
  <1>2. Len(q) \in Nat
    OBVIOUS
  <1>3. (Len(q) + 1) + 1 - (Len(q) + 1) = 1
    BY <1>2
  <1>4. ASSUME NEW j \in 1..Len(q) PROVE At(<<x>> \o q, j) = At(q, j)
    <2>1. (Len(q) + 1) + 1 - j \in 2..Len(q) + 1 /\ ((Len(q) + 1) + 1 - j) - 1 = Len(q) + 1 - j
      BY <1>2
    <2> QED
      BY <1>1, <2>1 DEF At
  <1> QED
    BY <1>1, <1>3, <1>4 DEF At

LEMMA AtPopped ==
  ASSUME NEW S, NEW q \in Seq(S), q # <<>>
  PROVE  \A j \in 1..Len(q) - 1 : At(Tail(q), j) = At(q, j)
  <1>1. /\ Len(Tail(q)) = Len(q) - 1
        /\ \A n \in 1..Len(q) - 1 : Tail(q)[n] = q[n + 1]
    BY Popped
  <1>2. Len(q) \in Nat
    OBVIOUS
  <1> SUFFICES ASSUME NEW j \in 1..Len(q) - 1 PROVE At(Tail(q), j) = At(q, j)
    OBVIOUS
  <1>3. (Len(q) - 1) + 1 - j \in 1..Len(q) - 1 /\ ((Len(q) - 1) + 1 - j) + 1 = Len(q) + 1 - j
    BY <1>2
  <1> QED
    BY <1>1, <1>3 DEF At

LEMMA AtReplaced ==
  ASSUME NEW S, NEW q \in Seq(S), q # <<>>, NEW x \in S
  PROVE  /\ At(<<x>> \o Tail(q), Len(q)) = x
         /\ \A j \in 1..Len(q) - 1 : At(<<x>> \o Tail(q), j) = At(q, j)
  <1>1. /\ Len(<<x>> \o Tail(q)) = Len(q) /\ (<<x>> \o Tail(q))[1] = x
        /\ \A n \in 2..Len(q) : (<<x>> \o Tail(q))[n] = q[n]
    BY Replaced
  <1>2. Len(q) \in Nat
    OBVIOUS
  <1>3. Len(q) + 1 - Len(q) = 1
    BY <1>2
  <1>4. ASSUME NEW j \in 1..Len(q) - 1 PROVE At(<<x>> \o Tail(q), j) = At(q, j)
    <2>1. Len(q) + 1 - j \in 2..Len(q)
      BY <1>2
    <2> QED
      BY <1>1, <2>1 DEF At
  <1> QED
    BY <1>1, <1>3, <1>4 DEF At

LEMMA AtTop ==
  ASSUME NEW S, NEW q \in Seq(S)
  PROVE  At(q, Len(q)) = q[1]
  <1>1. Len(q) + 1 - Len(q) = 1
    OBVIOUS
  <1> QED
    BY <1>1 DEF At

------------------------------------------------------------------------------
(* How deep a file is read: so many of its own conditionals are open.      *)
Own(d, file) == Depth(d[file.path], file.at - 1)

Blank(d, f, n) == d[f][n].kind = "blank"
Within(d, f, n) ==
  /\ Depth(d[f], n) > 0
  /\ d[f][n].kind \in {"else", "elif"} => Depth(d[f], n) > 1
Opens(d, f, a, g) ==
  /\ a \in 1..Len(d[f]) /\ d[f][a] = [kind |-> "ifndef", arg |-> g]
  /\ \A n \in 1..a - 1 : Blank(d, f, n)

(* So far g may guard the file.                                            *)
Guarding(d, file, g) ==
  \E a \in 1..file.at - 1 :
    Opens(d, file.path, a, g) /\ \A n \in a..file.at - 1 : Within(d, file.path, n)

(* The open files know their names and are numbered as they were opened;   *)
(* where no token was counted all lines were blank.                        *)
FilesOpen(d, fs, last) ==
  \A j \in 1..Len(fs) :
    /\ At(fs, j).name = At(fs, j).path
    /\ At(fs, j).id <= last
    /\ At(fs, j).ntok = 0 => \A n \in 1..At(fs, j).at - 1 : Blank(d, At(fs, j).path, n)
    /\ \A l \in 1..j - 1 : At(fs, l).id < At(fs, j).id

(* The conditionals s[j] + 1 .. s[j + 1], counted from the outermost, are  *)
(* those of the j-th file: as many as it has opened and not closed.  The   *)
(* innermost file may have opened nst more in the group that is skipped.   *)
(* Only the first of its conditionals may be a file's guard.               *)
Rises(d, file, low, high, nst) == high + nst = low + Own(d, file)
GuardsOf(d, file, cs, low, high) ==
  \A k \in low + 1..high : At(cs, k).guard # NoName => k = low + 1 /\ Guarding(d, file, At(cs, k).guard)

Nested(d, fs, m, cs, c, nst, s) ==
  /\ s \in [Nat -> Nat]
  /\ s[1] = 0 /\ s[m + 1] = c
  /\ \A j, l \in 1..m : j <= l => s[j] <= s[l]
  /\ \A j \in 1..m - 1 : Rises(d, At(fs, j), s[j], s[j + 1], 0)
  /\ Rises(d, At(fs, m), s[m], c, nst)
  /\ \A j \in 1..m : GuardsOf(d, At(fs, j), cs, s[j], s[j + 1])

(* The #endif of a guard was read: the rest of its file is blank so far.   *)
Looked(d, file, c) ==
  LET f == c.name IN
  \E a, z \in 1..Len(d[f]) :
    /\ Opens(d, f, a, c.guard) /\ Depth(d[f], z) = 0
    /\ \A n \in a..z - 1 : Within(d, f, n)
    /\ file.id <= c.file
    /\ IF file.id = c.file
       THEN file.path = f /\ z < file.at /\ \A n \in z + 1..file.at - 1 : Blank(d, f, n)
       ELSE \A n \in z + 1..Len(d[f]) : Blank(d, f, n)

(* Files and conditionals are in step; a group is skipped in the file that *)
(* has opened it.                                                          *)
Track(d, fs, last, cs, nst, how) ==
  /\ FilesOpen(d, fs, last)
  /\ \E s : /\ Nested(d, fs, Len(fs), cs, Len(cs), nst, s)
            /\ IF how = "skip" THEN Len(cs) > s[Len(fs)] ELSE nst = 0

Reads == mode \notin {"done", "error"}
GuardInv ==
  /\ GuardsAreSound
  /\ Reads =>
       /\ Track(disk, files, opened, conds, nest, mode)
       /\ mode # "quoted"
       /\ mode = "look" => Looked(disk, File, closed)

(* The line at hand, in a tame program.                                    *)
LEMMA TameLine ==
  ASSUME TypeOK, Tame, ~AtEnd
  PROVE  /\ Line = disk[File.path][File.at] /\ File.at \in 1..Len(disk[File.path]) /\ File.path \in Files
         /\ Depth(disk[File.path], File.at) \in Nat /\ Own(disk, File) \in Nat
         /\ Depth(disk[File.path], File.at)
              = Own(disk, File) + (IF Line.kind \in Opening THEN 1 ELSE IF Line.kind = "endif" THEN -1 ELSE 0)
         /\ Line.kind \in {"else", "elif"} => Own(disk, File) > 0
         /\ Line.kind # "quote" /\ (Line.kind = "line" => Line.arg = File.path)
  <1>1. /\ File \in FileRecords /\ File.path \in Files /\ File.at \in 1..Len(disk[File.path])
        /\ disk[File.path] \in Seq(Lines)
    BY HeadFile, LineAtHand DEF FileRecords
  <1> DEFINE d == disk[File.path]  n == File.at - 1
  <1>2. Line = d[File.at] /\ n \in Nat /\ n + 1 = File.at /\ Len(d) \in Nat
    BY <1>1 DEF Line
  <1>3. Balanced(d) /\ d[File.at].kind # "quote" /\ (d[File.at].kind = "line" => d[File.at].arg = File.path)
    BY <1>1 DEF Tame
  <1>4. Depth(d, n) \in Int /\ Own(disk, File) = Depth(d, n) /\ Depth(d, File.at) \in Int
    BY <1>1, <1>2, DepthIsInt DEF Own
  <1>5. Depth(d, File.at) >= 0 /\ (Line.kind \in {"else", "elif"} => Depth(d, File.at) > 0)
    BY <1>1, <1>2, <1>3 DEF Balanced
  <1>6. Depth(d, n) >= 0
    <2>1. CASE n = 0
      BY <2>1, DepthZero
    <2>2. CASE n # 0
      <3>1. n \in 1..Len(d)
        BY <1>1, <1>2, <2>2
      <3> QED
        BY <1>3, <3>1 DEF Balanced
    <2> QED
      BY <2>1, <2>2
  <1>7. Depth(d, File.at) = Depth(d, n) + (IF Line.kind \in Opening THEN 1 ELSE IF Line.kind = "endif" THEN -1 ELSE 0)
    BY <1>2, DepthStep
  <1>8. Line.kind \in {"else", "elif"} => Line.kind \notin Opening /\ Line.kind # "endif"
    BY DEF Opening
  <1>9. Depth(d, File.at) \in Nat /\ Own(disk, File) \in Nat
    BY <1>4, <1>5, <1>6
  <1>10. Line.kind \in {"else", "elif"} => Own(disk, File) > 0
    BY <1>4, <1>5, <1>7, <1>8
  <1> QED
    BY <1>1, <1>2, <1>3, <1>4, <1>7, <1>9, <1>10

(* At the end of a file none of its conditionals is open.                  *)
LEMMA TameEnd ==
  ASSUME TypeOK, Tame, AtEnd
  PROVE  Own(disk, File) = 0 /\ File.at = Len(disk[File.path]) + 1
  <1>1. File \in FileRecords /\ disk[File.path] \in Seq(Lines) /\ File.path \in Files
        /\ File.at \in 1..Len(disk[File.path]) + 1
    BY HeadFile DEF FileRecords
  <1>2. File.at = Len(disk[File.path]) + 1 /\ File.at - 1 = Len(disk[File.path])
    BY <1>1 DEF AtEnd
  <1>3. Depth(disk[File.path], Len(disk[File.path])) = 0
    BY <1>1 DEF Tame, Balanced
  <1> QED
    BY <1>2, <1>3 DEF Own

------------------------------------------------------------------------------
(* The files and the levels, as lines are read and files come and go.      *)

LEMMA FilesGoOn ==
  ASSUME NEW d, NEW fs \in Seq(FileRecords), fs # <<>>, NEW last \in Nat, FilesOpen(d, fs, last),
         NEW f \in FileRecords, f.id = fs[1].id, f.name = f.path,
         f.ntok = 0 => \A n \in 1..f.at - 1 : Blank(d, f.path, n)
  PROVE  FilesOpen(d, <<f>> \o Tail(fs), last)
  <1> DEFINE gs == <<f>> \o Tail(fs)
  <1>1. Len(gs) = Len(fs) /\ Len(fs) \in Nat /\ Len(fs) >= 1
    BY Replaced
  <1>2. At(gs, Len(fs)) = f /\ \A j \in 1..Len(fs) - 1 : At(gs, j) = At(fs, j)
    BY AtReplaced
  <1>3. At(fs, Len(fs)) = fs[1]
    BY AtTop
  <1> HIDE DEF gs
  <1>4. ASSUME NEW j \in 1..Len(gs)
        PROVE /\ At(gs, j).name = At(gs, j).path
              /\ At(gs, j).id <= last
              /\ At(gs, j).ntok = 0 => \A n \in 1..At(gs, j).at - 1 : Blank(d, At(gs, j).path, n)
              /\ \A l \in 1..j - 1 : At(gs, l).id < At(gs, j).id
    <2>1. \A l \in 1..j - 1 : l \in 1..Len(fs) - 1
      BY <1>1
    <2>2. CASE j = Len(fs)
      BY <1>1, <1>2, <1>3, <2>1, <2>2 DEF FilesOpen
    <2>3. CASE j # Len(fs)
      <3>1. j \in 1..Len(fs) - 1 /\ j \in 1..Len(fs)
        BY <1>1, <2>3
      <3> QED
        BY <1>2, <2>1, <3>1 DEF FilesOpen
    <2> QED
      BY <2>2, <2>3
  <1>5. FilesOpen(d, gs, last)
    BY <1>4 DEF FilesOpen
  <1> QED
    BY <1>5 DEF gs

LEMMA FilesReturn ==
  ASSUME NEW d, NEW fs \in Seq(FileRecords), Len(fs) > 1, NEW last \in Nat, FilesOpen(d, fs, last)
  PROVE  FilesOpen(d, Tail(fs), last) /\ Tail(fs)[1].id < fs[1].id
  <1>1. fs # <<>> /\ Len(Tail(fs)) = Len(fs) - 1 /\ Len(fs) \in Nat /\ Tail(fs)[1] = fs[2]
    BY Popped
  <1>2. \A j \in 1..Len(fs) - 1 : At(Tail(fs), j) = At(fs, j)
    BY <1>1, AtPopped
  <1>3. \A j \in 1..Len(Tail(fs)) : j \in 1..Len(fs) /\ \A l \in 1..j - 1 : l \in 1..Len(fs) - 1
    BY <1>1
  <1>4. FilesOpen(d, Tail(fs), last)
    BY <1>1, <1>2, <1>3 DEF FilesOpen
  <1>5. At(fs, Len(fs)) = fs[1] /\ At(fs, Len(fs) - 1) = fs[2]
    <2>1. Len(fs) + 1 - (Len(fs) - 1) = 2
      BY <1>1
    <2> QED
      BY <2>1, AtTop DEF At
  <1>6. Len(fs) \in 1..Len(fs) /\ Len(fs) - 1 \in 1..Len(fs) - 1
    BY <1>1
  <1> QED
    BY <1>1, <1>4, <1>5, <1>6 DEF FilesOpen

LEMMA FilesBegin ==
  ASSUME NEW d, NEW fs \in Seq(FileRecords), NEW last \in Nat, FilesOpen(d, fs, last), NEW path \in Files
  PROVE  FilesOpen(d, <<OpenFile(path, last + 1)>> \o fs, last + 1)
  <1> DEFINE f == OpenFile(path, last + 1)  gs == <<f>> \o fs
  <1>1. f \in FileRecords /\ f.id = last + 1 /\ f.name = path /\ f.path = path /\ f.at = 1
    BY DEF OpenFile, FileRecords
  <1> HIDE DEF f
  <1>2. /\ Len(gs) = Len(fs) + 1 /\ Len(fs) \in Nat /\ At(gs, Len(fs) + 1) = f
        /\ \A j \in 1..Len(fs) : At(gs, j) = At(fs, j)
    BY <1>1, Pushed, AtPushed
  <1>3. \A j \in 1..Len(fs) : At(fs, j) \in FileRecords
    <2> SUFFICES ASSUME NEW j \in 1..Len(fs) PROVE At(fs, j) \in FileRecords
      OBVIOUS
    <2>1. Len(fs) + 1 - j \in 1..Len(fs)
      BY <1>2
    <2> QED
      BY <2>1 DEF At
  <1> HIDE DEF gs
  <1>4. ASSUME NEW j \in 1..Len(gs)
        PROVE /\ At(gs, j).name = At(gs, j).path
              /\ At(gs, j).id <= last + 1
              /\ At(gs, j).ntok = 0 => \A n \in 1..At(gs, j).at - 1 : Blank(d, At(gs, j).path, n)
              /\ \A l \in 1..j - 1 : At(gs, l).id < At(gs, j).id
    <2>1. \A l \in 1..j - 1 : l \in 1..Len(fs)
      BY <1>2
    <2>2. \A l \in 1..Len(fs) : At(gs, l).id <= last /\ At(gs, l).id \in Nat
      BY <1>2, <1>3 DEF FilesOpen, FileRecords
    <2>3. CASE j = Len(fs) + 1
      BY <1>1, <1>2, <2>1, <2>2, <2>3
    <2>4. CASE j # Len(fs) + 1
      <3>1. j \in 1..Len(fs)
        BY <1>2, <2>4
      <3> QED
        BY <1>2, <2>1, <2>2, <3>1 DEF FilesOpen
    <2> QED
      BY <2>3, <2>4
  <1>5. FilesOpen(d, gs, last + 1)
    BY <1>4 DEF FilesOpen
  <1> QED
    BY <1>5 DEF gs, f

LEMMA Below ==
  ASSUME NEW m \in Nat, NEW j \in 1..m, j # m
  PROVE  /\ j \in 1..m - 1 /\ j + 1 \in 1..m /\ m \in 1..m /\ j + 1 <= m
         /\ j \in Nat /\ j + 1 \in Nat
  OBVIOUS

LEMMA Under ==
  ASSUME NEW m \in Nat, NEW j \in 1..m - 1
  PROVE  j \in 1..m /\ j + 1 \in 1..m
  OBVIOUS

LEMMA UpTo ==
  ASSUME NEW m \in Nat, NEW j \in 1..m + 1, j # m + 1
  PROVE  /\ j \in 1..m /\ j + 1 \in 1..m + 1 /\ j <= m /\ m \in 1..m
         /\ j # m => j \in 1..m - 1
  OBVIOUS

LEMMA Lower ==
  ASSUME NEW m \in Nat, NEW l \in 1..m, NEW j \in 1..m + 1, j <= l
  PROVE  j \in 1..m
  OBVIOUS

LEMMA Inside ==
  ASSUME NEW low \in Nat, NEW mid \in Nat, NEW high \in Nat, mid <= high, NEW k \in low + 1..mid
  PROVE  k \in 1..high
  OBVIOUS

LEMMA ExceptAt ==
  ASSUME NEW s \in [Nat -> Nat], NEW x \in Nat, NEW v \in Nat
  PROVE  LET t == [s EXCEPT ![x] = v] IN t \in [Nat -> Nat] /\ t[x] = v /\ \A j \in Nat \ {x} : t[j] = s[j]
  OBVIOUS

(* s with the innermost file's conditionals up to c.                       *)
LEMMA NewTop ==
  ASSUME NEW s \in [Nat -> Nat], NEW m \in Nat, NEW c \in Nat
  PROVE  \E t : t \in [Nat -> Nat] /\ t[m + 1] = c /\ \A j \in 1..m : t[j] = s[j] /\ j \in Nat
  <1> DEFINE t == [s EXCEPT ![m + 1] = c]
  <1>1. m + 1 \in Nat /\ \A j \in 1..m : j \in Nat \ {m + 1} /\ j \in Nat
    OBVIOUS
  <1>2. t \in [Nat -> Nat] /\ t[m + 1] = c /\ \A j \in Nat \ {m + 1} : t[j] = s[j]
    BY <1>1, ExceptAt
  <1> HIDE DEF t
  <1> QED
    BY <1>1, <1>2

Kept(bs, cs, high) == \A k \in 1..high : At(bs, k).guard # NoName => At(bs, k) = At(cs, k)

LEMMA GuardsKept ==
  ASSUME NEW d, NEW file, NEW cs, NEW bs, NEW low \in Nat, NEW mid \in Nat, NEW high \in Nat, mid <= high,
         GuardsOf(d, file, cs, low, mid), Kept(bs, cs, high)
  PROVE  GuardsOf(d, file, bs, low, mid)
  <1> SUFFICES ASSUME NEW k \in low + 1..mid, At(bs, k).guard # NoName
               PROVE  k = low + 1 /\ Guarding(d, file, At(bs, k).guard)
    BY DEF GuardsOf
  <1>1. k \in 1..high
    BY Inside
  <1>2. At(bs, k) = At(cs, k)
    BY <1>1 DEF Kept
  <1> QED
    BY <1>2 DEF GuardsOf

(* A line is read: the conditionals of the files around are left alone.    *)
GoesOn(d, fs, m, cs, b, nst, s, gs, bs, c, n2) ==
  /\ Nested(d, fs, m, cs, b, nst, s)
  /\ \A j \in 1..m - 1 : At(gs, j) = At(fs, j)
  /\ Kept(bs, cs, s[m])
  /\ Rises(d, At(gs, m), s[m], c, n2)
  /\ GuardsOf(d, At(gs, m), bs, s[m], c)

LEMMA LevelsGoOn ==
  ASSUME NEW d, NEW fs, NEW m \in Nat, m >= 1, NEW cs, NEW b, NEW nst, NEW s,
         NEW gs, NEW bs, NEW c \in Nat, NEW n2, GoesOn(d, fs, m, cs, b, nst, s, gs, bs, c, n2)
  PROVE  \E t : Nested(d, gs, m, bs, c, n2, t) /\ t[m] = s[m]
  <1>0. \A j, l \in 1..m : j <= l => s[j] <= s[l]
    BY DEF GoesOn, Nested
  <1>1. /\ s \in [Nat -> Nat] /\ s[1] = 0
        /\ \A j, l \in 1..m : j <= l => s[j] <= s[l]
        /\ \A j \in 1..m - 1 : Rises(d, At(fs, j), s[j], s[j + 1], 0)
        /\ \A j \in 1..m : GuardsOf(d, At(fs, j), cs, s[j], s[j + 1])
    BY DEF GoesOn, Nested
  <1>9. /\ \A j \in 1..m - 1 : At(gs, j) = At(fs, j)
        /\ Kept(bs, cs, s[m])
        /\ Rises(d, At(gs, m), s[m], c, n2)
        /\ GuardsOf(d, At(gs, m), bs, s[m], c)
    BY DEF GoesOn
  <1>2. PICK t : t \in [Nat -> Nat] /\ t[m + 1] = c /\ \A j \in 1..m : t[j] = s[j] /\ j \in Nat
    BY <1>1, NewTop
  <1>3. 1 \in 1..m /\ m \in 1..m
    OBVIOUS
  <1>4. t[1] = 0 /\ t[m] = s[m]
    BY <1>1, <1>2, <1>3
  <1>5. ASSUME NEW j \in 1..m - 1 PROVE Rises(d, At(gs, j), t[j], t[j + 1], 0)
    <2>1. j \in 1..m /\ j + 1 \in 1..m
      BY Under
    <2>2. t[j] = s[j] /\ t[j + 1] = s[j + 1]
      BY <1>2, <2>1
    <2>3. At(gs, j) = At(fs, j)
      BY <1>9
    <2> QED
      BY <1>1, <2>2, <2>3
  <1>6. ASSUME NEW j \in 1..m, NEW l \in 1..m, j <= l PROVE t[j] <= t[l]
    <2>1. s[j] <= s[l]
      BY <1>0, <1>6
    <2>2. t[j] = s[j] /\ t[l] = s[l]
      BY <1>2
    <2> QED
      BY <2>1, <2>2
  <1>7. ASSUME NEW j \in 1..m PROVE GuardsOf(d, At(gs, j), bs, t[j], t[j + 1])
    <2>1. CASE j = m
      BY <1>2, <1>4, <1>9, <2>1
    <2>2. CASE j # m
      <3>1. j \in 1..m - 1 /\ j + 1 \in 1..m /\ m \in 1..m /\ j + 1 <= m /\ j \in Nat /\ j + 1 \in Nat
        BY <2>2, Below
      <3>2. t[j] = s[j] /\ t[j + 1] = s[j + 1] /\ At(gs, j) = At(fs, j)
        BY <1>2, <1>9, <3>1
      <3>3. GuardsOf(d, At(fs, j), cs, s[j], s[j + 1])
        BY <1>1
      <3>4. s[j + 1] <= s[m]
        BY <1>1, <3>1
      <3>5. s[j] \in Nat /\ s[j + 1] \in Nat /\ s[m] \in Nat
        BY <1>1, <3>1
      <3>6. GuardsOf(d, At(fs, j), bs, s[j], s[j + 1])
        BY <1>9, <3>3, <3>4, <3>5, GuardsKept
      <3> QED
        BY <3>2, <3>6
    <2> QED
      BY <2>1, <2>2
  <1>8. Nested(d, gs, m, bs, c, n2, t)
    BY <1>2, <1>4, <1>5, <1>6, <1>7, <1>9 DEF Nested
  <1> QED
    BY <1>4, <1>8

(* A file that has closed its conditionals is left.                        *)
LEMMA LevelsReturn ==
  ASSUME NEW d, NEW fs, NEW gs, NEW m \in Nat, m >= 1, \A j \in 1..m : At(gs, j) = At(fs, j),
         NEW cs, NEW c, NEW s, Nested(d, fs, m + 1, cs, c, 0, s), c = s[m + 1]
  PROVE  Nested(d, gs, m, cs, c, 0, s)
  <1>1. /\ s \in [Nat -> Nat] /\ s[1] = 0
        /\ \A j, l \in 1..m + 1 : j <= l => s[j] <= s[l]
        /\ \A j \in 1..(m + 1) - 1 : Rises(d, At(fs, j), s[j], s[j + 1], 0)
        /\ \A j \in 1..m + 1 : GuardsOf(d, At(fs, j), cs, s[j], s[j + 1])
    BY DEF Nested
  <1>2. /\ (m + 1) - 1 = m /\ m \in 1..m
        /\ \A j \in 1..m : j \in 1..m + 1
        /\ \A j \in 1..m - 1 : j \in 1..m
    OBVIOUS
  <1>3. \A j \in 1..m : Rises(d, At(gs, j), s[j], s[j + 1], 0)
    BY <1>1, <1>2
  <1>4. Rises(d, At(gs, m), s[m], c, 0)
    BY <1>2, <1>3
  <1>5. \A j, l \in 1..m : j <= l => s[j] <= s[l]
    BY <1>1, <1>2
  <1>6. \A j \in 1..m : GuardsOf(d, At(gs, j), cs, s[j], s[j + 1])
    BY <1>1, <1>2
  <1> QED
    BY <1>1, <1>2, <1>3, <1>4, <1>5, <1>6 DEF Nested

(* A file is opened: it has no conditionals yet.                           *)
LEMMA LevelsBegin ==
  ASSUME NEW d, NEW fs, NEW gs, NEW m \in Nat, m >= 1,
         Own(d, At(gs, m + 1)) = 0, \A j \in 1..m : At(gs, j) = At(fs, j),
         NEW cs, NEW c \in Nat, NEW s, Nested(d, fs, m, cs, c, 0, s), c >= s[m]
  PROVE  \E t : Nested(d, gs, m + 1, cs, c, 0, t)
  <1>0. \A j, l \in 1..m : j <= l => s[j] <= s[l]
    BY DEF Nested
  <1>1. /\ s \in [Nat -> Nat] /\ s[1] = 0 /\ s[m + 1] = c
        /\ \A j, l \in 1..m : j <= l => s[j] <= s[l]
        /\ \A j \in 1..m - 1 : Rises(d, At(fs, j), s[j], s[j + 1], 0)
        /\ Rises(d, At(fs, m), s[m], c, 0)
        /\ \A j \in 1..m : GuardsOf(d, At(fs, j), cs, s[j], s[j + 1])
    BY DEF Nested
  <1>2. m + 1 \in Nat /\ (m + 1) - 1 = m /\ 1 \in 1..m + 1 /\ m + 1 \in 1..m + 1
    OBVIOUS
  <1>3. PICK t : t \in [Nat -> Nat] /\ t[(m + 1) + 1] = c /\ \A j \in 1..m + 1 : t[j] = s[j] /\ j \in Nat
    <2>1. s \in [Nat -> Nat] /\ m + 1 \in Nat /\ c \in Nat
      BY <1>1, <1>2
    <2> QED
      BY <2>1, NewTop, Zenon
  <1>4. t[1] = 0 /\ t[m + 1] = c
    BY <1>1, <1>2, <1>3
  <1>5. ASSUME NEW j \in 1..m + 1 PROVE s[j] <= c /\ s[j] \in Nat
    <2>1. CASE j = m + 1
      BY <1>1, <2>1
    <2>2. CASE j # m + 1
      <3>1. j \in 1..m /\ j <= m /\ m \in 1..m
        BY <2>2, UpTo
      <3>2. s[j] <= s[m] /\ s[j] \in Nat /\ s[m] \in Nat
        BY <1>1, <1>3, <3>1
      <3> QED
        BY <3>2
    <2> QED
      BY <2>1, <2>2
  <1>6. ASSUME NEW j \in 1..m + 1, NEW l \in 1..m + 1, j <= l PROVE t[j] <= t[l]
    <2>1. CASE l = m + 1
      BY <1>3, <1>4, <1>5, <2>1
    <2>2. CASE l # m + 1
      <3>1. l \in 1..m /\ l <= m
        BY <2>2, UpTo
      <3>2. j \in 1..m
        BY <1>6, <3>1, Lower
      <3>3. s[j] <= s[l]
        BY <1>0, <1>6, <3>1, <3>2
      <3>4. t[j] = s[j] /\ t[l] = s[l]
        BY <1>3
      <3> QED
        BY <3>3, <3>4
    <2> QED
      BY <2>1, <2>2
  <1>7. ASSUME NEW j \in 1..m PROVE Rises(d, At(gs, j), t[j], t[j + 1], 0)
    <2>1. j \in 1..m + 1 /\ j + 1 \in 1..m + 1
      OBVIOUS
    <2>2. t[j] = s[j] /\ t[j + 1] = s[j + 1] /\ At(gs, j) = At(fs, j)
      BY <1>3, <2>1
    <2>3. CASE j = m
      BY <1>1, <2>2, <2>3
    <2>4. CASE j # m
      <3>1. j \in 1..m - 1
        BY <2>4, Below
      <3> QED
        BY <1>1, <2>2, <3>1
    <2> QED
      BY <2>3, <2>4
  <1>8. Rises(d, At(gs, m + 1), t[m + 1], c, 0)
    BY <1>4 DEF Rises
  <1>9. ASSUME NEW j \in 1..m + 1 PROVE GuardsOf(d, At(gs, j), cs, t[j], t[j + 1])
    <2>1. CASE j = m + 1
      <3>1. t[j] = c /\ t[j + 1] = c
        BY <1>3, <1>4, <2>1
      <3>2. \A k : k \notin c + 1..c
        OBVIOUS
      <3> QED
        BY <3>1, <3>2 DEF GuardsOf
    <2>2. CASE j # m + 1
      <3>1. j \in 1..m /\ j + 1 \in 1..m + 1
        BY <2>2, UpTo
      <3>2. At(gs, j) = At(fs, j) /\ t[j] = s[j] /\ t[j + 1] = s[j + 1]
        BY <1>3, <3>1
      <3> QED
        BY <1>1, <3>1, <3>2
    <2> QED
      BY <2>1, <2>2
  <1>10. Nested(d, gs, m + 1, cs, c, 0, t)
    BY <1>2, <1>3, <1>4, <1>6, <1>7, <1>8, <1>9 DEF Nested
  <1> QED
    BY <1>10

------------------------------------------------------------------------------
(* One line is read, whoever reads it.                                     *)

LEMMA GuardingOn ==
  ASSUME NEW d, NEW file \in FileRecords, NEW f, f.path = file.path, f.at = file.at + 1,
         NEW g, Guarding(d, file, g), Within(d, file.path, file.at)
  PROVE  Guarding(d, f, g)
  <1>1. file.at \in Nat
    BY DEF FileRecords
  <1>2. PICK a \in 1..file.at - 1 :
          Opens(d, file.path, a, g) /\ \A n \in a..file.at - 1 : Within(d, file.path, n)
    BY DEF Guarding
  <1>3. a \in 1..f.at - 1 /\ \A n \in a..f.at - 1 : n \in a..file.at - 1 \/ n = file.at
    BY <1>1
  <1> QED
    BY <1>2, <1>3 DEF Guarding

LEMMA GuardingBegins ==
  ASSUME NEW d, NEW file \in FileRecords, file.at >= 1, NEW f, f.path = file.path, f.at = file.at + 1,
         NEW g, Opens(d, file.path, file.at, g), Within(d, file.path, file.at)
  PROVE  Guarding(d, f, g)
  <1>1. file.at \in Nat
    BY DEF FileRecords
  <1>2. file.at \in 1..f.at - 1 /\ \A n \in file.at..f.at - 1 : n = file.at
    BY <1>1
  <1> QED
    BY <1>2 DEF Guarding

LEMMA ConsumedIs ==
  ASSUME TypeOK, ~AtEnd
  PROVE  /\ Consumed(File) \in FileRecords
         /\ Consumed(File).path = File.path /\ Consumed(File).at = File.at + 1
         /\ Consumed(File).name = File.name /\ Consumed(File).id = File.id
         /\ Consumed(File).ntok = 0 => File.ntok = 0 /\ Line.kind = "blank"
  <1>1. File \in FileRecords
    BY HeadFile
  <1>2. Consumed(File).name = File.name /\ Consumed(File).id = File.id
        /\ (Consumed(File).ntok = 0 => File.ntok = 0 /\ Line.kind = "blank")
    BY <1>1 DEF Consumed, FileRecords
  <1> QED
    BY <1>2, ConsumedFile

(* The innermost file.                                                     *)
LEMMA Innermost ==
  ASSUME TypeOK, NEW last, FilesOpen(disk, files, last)
  PROVE  /\ files \in Seq(FileRecords) /\ files # <<>> /\ Len(files) \in Nat /\ Len(files) >= 1
         /\ At(files, Len(files)) = File /\ File.name = File.path
         /\ File.ntok = 0 => \A n \in 1..File.at - 1 : Blank(disk, File.path, n)
  <1>1. files \in Seq(FileRecords) /\ files # <<>>
    BY HeadFile DEF TypeOK, FilesOK
  <1>2. Len(files) \in Nat /\ Len(files) >= 1 /\ Len(files) \in 1..Len(files)
    BY <1>1
  <1>3. At(files, Len(files)) = File
    BY <1>1, AtTop DEF File
  <1> QED
    BY <1>1, <1>2, <1>3 DEF FilesOpen

LEMMA FilesRead ==
  ASSUME TypeOK, ~AtEnd, FilesOpen(disk, files, opened)
  PROVE  LET gs == <<Consumed(File)>> \o Tail(files)
         IN  /\ FilesOpen(disk, gs, opened) /\ gs \in Seq(FileRecords) /\ Len(gs) = Len(files)
             /\ At(gs, Len(files)) = Consumed(File)
             /\ \A j \in 1..Len(files) - 1 : At(gs, j) = At(files, j)
             /\ Own(disk, Consumed(File)) = Depth(disk[File.path], File.at)
  <1> DEFINE f == Consumed(File)  gs == <<f>> \o Tail(files)
  <1>1. /\ f \in FileRecords /\ f.path = File.path /\ f.at = File.at + 1
        /\ f.name = File.name /\ f.id = File.id
        /\ f.ntok = 0 => File.ntok = 0 /\ Line.kind = "blank"
    BY ConsumedIs
  <1>2. /\ files \in Seq(FileRecords) /\ files # <<>>
        /\ File.name = File.path /\ File = files[1]
        /\ File.ntok = 0 => \A n \in 1..File.at - 1 : Blank(disk, File.path, n)
    BY Innermost DEF File
  <1>3. File.at \in Nat /\ Line = disk[File.path][File.at]
    BY HeadFile DEF FileRecords, Line
  <1> HIDE DEF f
  <1>4. f.ntok = 0 => \A n \in 1..f.at - 1 : Blank(disk, f.path, n)
    <2> SUFFICES ASSUME f.ntok = 0, NEW n \in 1..f.at - 1 PROVE Blank(disk, f.path, n)
      OBVIOUS
    <2>1. n \in 1..File.at - 1 \/ n = File.at
      BY <1>1, <1>3
    <2> QED
      BY <1>1, <1>2, <1>3, <2>1 DEF Blank
  <1>5. FilesOpen(disk, gs, opened)
    <2>1. opened \in Nat
      BY DEF TypeOK
    <2> QED
      BY <1>1, <1>2, <1>4, <2>1, FilesGoOn
  <1>6. /\ gs \in Seq(FileRecords) /\ Len(gs) = Len(files) /\ At(gs, Len(files)) = f
        /\ \A j \in 1..Len(files) - 1 : At(gs, j) = At(files, j)
    BY <1>1, <1>2, Replaced, AtReplaced
  <1>7. Own(disk, f) = Depth(disk[File.path], File.at)
    <2>1. f.at - 1 = File.at
      BY <1>1, <1>3
    <2> QED
      BY <1>1, <2>1 DEF Own
  <1> QED
    BY <1>5, <1>6, <1>7 DEF f

(* What a guard needs of the line that is read.                            *)
Going(cs, bs, k, low) ==
  /\ Within(disk, File.path, File.at)
  /\ \/ k <= Len(cs) /\ At(bs, k).guard = At(cs, k).guard
     \/ k = low + 1 /\ Opens(disk, File.path, File.at, At(bs, k).guard)

LEMMA GuardsRead ==
  ASSUME TypeOK, ~AtEnd, NEW low \in Nat, NEW cs, Len(cs) \in Nat, GuardsOf(disk, File, cs, low, Len(cs)),
         NEW bs, NEW c \in Nat, \A k \in low + 1..c : At(bs, k).guard # NoName => Going(cs, bs, k, low)
  PROVE  GuardsOf(disk, Consumed(File), bs, low, c)
  <1>1. Consumed(File).path = File.path /\ Consumed(File).at = File.at + 1
    BY ConsumedIs
  <1>2. File \in FileRecords /\ File.at >= 1
    BY HeadFile, LineAtHand DEF FileRecords
  <1> SUFFICES ASSUME NEW k \in low + 1..c, At(bs, k).guard # NoName
               PROVE  k = low + 1 /\ Guarding(disk, Consumed(File), At(bs, k).guard)
    BY DEF GuardsOf
  <1>3. Going(cs, bs, k, low)
    OBVIOUS
  <1>4. CASE k <= Len(cs) /\ At(bs, k).guard = At(cs, k).guard
    <2>1. k \in low + 1..Len(cs)
      BY <1>4
    <2>2. k = low + 1 /\ Guarding(disk, File, At(bs, k).guard)
      BY <1>4, <2>1 DEF GuardsOf
    <2> QED
      BY <1>1, <1>2, <1>3, <2>2, GuardingOn DEF Going
  <1>5. CASE k = low + 1 /\ Opens(disk, File.path, File.at, At(bs, k).guard)
    BY <1>1, <1>2, <1>3, <1>5, GuardingBegins DEF Going
  <1> QED
    BY <1>3, <1>4, <1>5 DEF Going

LEMMA LineIsRead ==
  ASSUME TypeOK, ~AtEnd, FilesOpen(disk, files, opened),
         NEW s, Nested(disk, files, Len(files), conds, Len(conds), nest, s),
         NEW bs, NEW n2, Len(bs) \in Nat,
         Len(bs) + n2 = s[Len(files)] + Depth(disk[File.path], File.at),
         Kept(bs, conds, s[Len(files)]),
         \A k \in s[Len(files)] + 1..Len(bs) : At(bs, k).guard # NoName => Going(conds, bs, k, s[Len(files)])
  PROVE  LET gs == <<Consumed(File)>> \o Tail(files)
         IN  /\ FilesOpen(disk, gs, opened) /\ gs \in Seq(FileRecords) /\ Len(gs) = Len(files)
             /\ \E t : Nested(disk, gs, Len(gs), bs, Len(bs), n2, t) /\ t[Len(gs)] = s[Len(files)]
  <1> DEFINE gs == <<Consumed(File)>> \o Tail(files)
             m == Len(files)
  <1>1. /\ FilesOpen(disk, gs, opened) /\ gs \in Seq(FileRecords) /\ Len(gs) = m
        /\ At(gs, m) = Consumed(File)
        /\ \A j \in 1..m - 1 : At(gs, j) = At(files, j)
        /\ Own(disk, Consumed(File)) = Depth(disk[File.path], File.at)
    BY FilesRead
  <1>2. m \in Nat /\ m >= 1 /\ m \in 1..m /\ At(files, m) = File
    BY Innermost
  <1> HIDE DEF gs, m
  <1>3. s \in [Nat -> Nat] /\ s[m] \in Nat
    BY <1>2 DEF Nested, m
  <1>4. GuardsOf(disk, File, conds, s[m], Len(conds))
    BY <1>2 DEF Nested, m
  <1>5. GuardsOf(disk, At(gs, m), bs, s[m], Len(bs))
    <2>1. Len(conds) \in Nat
      BY DEF TypeOK
    <2> QED
      BY <1>1, <1>3, <1>4, <2>1, GuardsRead DEF m
  <1>6. Rises(disk, At(gs, m), s[m], Len(bs), n2)
    BY <1>1 DEF Rises, m
  <1>7. \E t : Nested(disk, gs, m, bs, Len(bs), n2, t) /\ t[m] = s[m]
    <2>1. Nested(disk, files, m, conds, Len(conds), nest, s) /\ Kept(bs, conds, s[m])
      BY DEF m
    <2>2. GoesOn(disk, files, m, conds, Len(conds), nest, s, gs, bs, Len(bs), n2)
      BY <1>1, <1>5, <1>6, <2>1 DEF GoesOn, m
    <2> QED
      BY <1>2, <2>2, LevelsGoOn
  <1> QED
    BY <1>1, <1>7 DEF gs, m
------------------------------------------------------------------------------
(* The steps.  What is open at the innermost level.                        *)
LEMMA Innermore ==
  ASSUME TypeOK, NEW s, Nested(disk, files, Len(files), conds, Len(conds), nest, s),
         FilesOpen(disk, files, opened)
  PROVE  /\ s[Len(files)] \in Nat /\ Len(conds) \in Nat /\ nest \in Nat
         /\ Len(conds) + nest = s[Len(files)] + Own(disk, File)
         /\ GuardsOf(disk, File, conds, s[Len(files)], Len(conds))
  <1> DEFINE m == Len(files)
  <1>1. m \in Nat /\ m \in 1..m /\ At(files, m) = File
    BY Innermost
  <1>2. Nested(disk, files, m, conds, Len(conds), nest, s)
    OBVIOUS
  <1>3. Len(conds) \in Nat /\ nest \in Nat
    BY DEF TypeOK
  <1> HIDE DEF m
  <1>4. s[m] \in Nat /\ Rises(disk, File, s[m], Len(conds), nest)
        /\ GuardsOf(disk, File, conds, s[m], Len(conds))
    BY <1>1, <1>2 DEF Nested
  <1> QED
    BY <1>3, <1>4 DEF Rises, m

LEMMA TrackIs ==
  ASSUME GuardInv, Reads
  PROVE  /\ FilesOpen(disk, files, opened)
         /\ \E s : /\ Nested(disk, files, Len(files), conds, Len(conds), nest, s)
                   /\ IF mode = "skip" THEN Len(conds) > s[Len(files)] ELSE nest = 0
  BY DEF GuardInv, Track

(* A line that opens or closes nothing that is read.                       *)
LEMMA PlainTrack ==
  ASSUME TypeOK, Tame, GuardInv, Reads, ~AtEnd, NEW n2 \in Nat,
         n2 + Own(disk, File) = nest + Depth(disk[File.path], File.at),
         Line.kind \in {"else", "elif"} => nest > 0,
         mode # "skip" => n2 = 0
  PROVE  Track(disk, <<Consumed(File)>> \o Tail(files), opened, conds, n2, mode)
  <1>1. FilesOpen(disk, files, opened)
    BY TrackIs
  <1>2. PICK s : /\ Nested(disk, files, Len(files), conds, Len(conds), nest, s)
                 /\ IF mode = "skip" THEN Len(conds) > s[Len(files)] ELSE nest = 0
    BY TrackIs
  <1> DEFINE low == s[Len(files)]
             gs == <<Consumed(File)>> \o Tail(files)
  <1>3. /\ low \in Nat /\ Len(conds) \in Nat /\ nest \in Nat
        /\ Len(conds) + nest = low + Own(disk, File)
    BY <1>1, <1>2, Innermore
  <1>4. Line = disk[File.path][File.at] /\ Own(disk, File) \in Nat /\ Depth(disk[File.path], File.at) \in Nat
        /\ (Line.kind \in {"else", "elif"} => Depth(disk[File.path], File.at) = Own(disk, File))
    BY TameLine DEF Opening
  <1>5. Len(conds) + n2 = low + Depth(disk[File.path], File.at)
    BY <1>3, <1>4
  <1>6. ASSUME Len(conds) > low PROVE Within(disk, File.path, File.at)
    <2>1. Depth(disk[File.path], File.at) > 0
      BY <1>3, <1>4, <1>5, <1>6
    <2>2. Line.kind \in {"else", "elif"} => Depth(disk[File.path], File.at) > 1
      BY <1>3, <1>4, <1>6
    <2> QED
      BY <1>4, <2>1, <2>2 DEF Within
  <1>7. ASSUME NEW k \in low + 1..Len(conds) PROVE Going(conds, conds, k, low)
    <2>1. Len(conds) > low /\ k <= Len(conds)
      BY <1>3
    <2> QED
      BY <1>6, <2>1 DEF Going
  <1>8. Kept(conds, conds, low)
    BY DEF Kept
  <1>9. /\ FilesOpen(disk, gs, opened)
        /\ \E t : Nested(disk, gs, Len(gs), conds, Len(conds), n2, t) /\ t[Len(gs)] = low
    BY <1>1, <1>2, <1>3, <1>5, <1>7, <1>8, LineIsRead
  <1> QED
    BY <1>2, <1>9 DEF Track

(* The lines so far are blank: no conditional of the file is open.         *)
LEMMA BlankDepth ==
  ASSUME NEW lines, NEW n \in Nat, \A j \in 1..n : lines[j].kind = "blank"
  PROVE  Depth(lines, n) = 0
  <1>1. {x \in 1..n : lines[x].kind \in Opening} = {} /\ {x \in 1..n : lines[x].kind = "endif"} = {}
    BY DEF Opening
  <1>2. Depth(lines, n) = Cardinality({}) - Cardinality({})
    BY <1>1, Zenon DEF Depth
  <1>3. Cardinality({}) = 0
    BY FS_EmptySet
  <1> QED
    BY <1>2, <1>3

LEMMA IfTrack ==
  ASSUME TypeOK, Tame, GuardInv, ReadIf
  PROVE  Track(disk, files', opened, conds', nest, mode')
  <1>1. FilesOpen(disk, files, opened) /\ ~AtEnd /\ mode = "read" /\ Reads /\ Line.kind \in Opening
        /\ files' = <<Consumed(File)>> \o Tail(files)
    BY TrackIs DEF ReadIf, ReadLine, Is, Reads, NextLine
  <1>2. PICK s : Nested(disk, files, Len(files), conds, Len(conds), nest, s) /\ nest = 0
    BY <1>1, TrackIs
  <1> DEFINE low == s[Len(files)]
             depth == Depth(disk[File.path], File.at)
             c == [ctx |-> "then", wastrue |-> Holds(Line),
                   guard |-> IF Line.kind = "ifndef" /\ File.ntok = 0 THEN Line.arg ELSE NoName,
                   file |-> File.id]
  <1>3. /\ low \in Nat /\ Len(conds) \in Nat
        /\ Len(conds) = low + Own(disk, File)
    <2>1. low \in Nat /\ Len(conds) \in Nat /\ Len(conds) + nest = low + Own(disk, File)
      BY <1>1, <1>2, Innermore
    <2>2. Own(disk, File) \in Nat
      BY <1>1, TameLine
    <2> QED
      BY <1>2, <2>1, <2>2
  <1>4. /\ Line = disk[File.path][File.at] /\ File.at \in 1..Len(disk[File.path])
        /\ Own(disk, File) \in Nat /\ depth = Own(disk, File) + 1
        /\ Line \in Lines
    BY <1>1, TameLine, LineAtHand
  <1>5. conds' = <<c>> \o conds /\ mode' \in {"read", "skip"} /\ nest' = nest
    BY DEF ReadIf, SetConds
  <1>6. c \in CondRecords /\ conds \in Seq(CondRecords)
    <2>1. File.id \in Nat
      BY HeadFile DEF FileRecords
    <2>2. Line.kind = "ifndef" => Line.arg \in Macros
      BY <1>4, LineKinds
    <2>3. Holds(Line) \in BOOLEAN
      <3>1. CASE Line.kind = "ifndef"
        BY <3>1 DEF Holds
      <3>2. CASE Line.kind # "ifndef"
        BY <3>2 DEF Holds
      <3> QED
        BY <3>1, <3>2
    <2> QED
      BY <2>1, <2>2, <2>3 DEF CondRecords, TypeOK
  <1>7. c.guard # NoName => /\ Line.kind = "ifndef" /\ File.ntok = 0 /\ c.guard = Line.arg
    OBVIOUS
  <1> HIDE DEF c
  <1>8. /\ Len(conds') = Len(conds) + 1 /\ At(conds', Len(conds) + 1) = c
        /\ \A k \in 1..Len(conds) : At(conds', k) = At(conds, k)
    BY <1>5, <1>6, Pushed, AtPushed
  <1>9. Within(disk, File.path, File.at)
    <2>1. Line.kind \notin {"else", "elif"} /\ depth > 0
      BY <1>1, <1>4 DEF Opening
    <2> QED
      BY <1>4, <2>1 DEF Within
  <1>10. ASSUME c.guard # NoName PROVE Len(conds) = low /\ Opens(disk, File.path, File.at, c.guard)
    <2>1. \A n \in 1..File.at - 1 : Blank(disk, File.path, n)
      BY <1>1, <1>7, <1>10, Innermost
    <2>2. File.at - 1 \in Nat
      BY <1>4
    <2>3. Own(disk, File) = 0
      BY <2>1, <2>2, BlankDepth DEF Own, Blank
    <2>4. Line = [kind |-> "ifndef", arg |-> c.guard]
      BY <1>4, <1>7, <1>10 DEF Lines
    <2> QED
      BY <1>3, <1>4, <2>1, <2>3, <2>4 DEF Opens
  <1>11. ASSUME NEW k \in low + 1..Len(conds'), At(conds', k).guard # NoName
         PROVE  Going(conds, conds', k, low)
    <2>1. CASE k = Len(conds) + 1
      BY <1>8, <1>9, <1>10, <1>11, <2>1 DEF Going
    <2>2. CASE k # Len(conds) + 1
      <3>1. k \in 1..Len(conds) /\ k <= Len(conds)
        BY <1>3, <1>8, <2>2
      <3> QED
        BY <1>8, <1>9, <3>1 DEF Going
    <2> QED
      BY <2>1, <2>2
  <1>12. Kept(conds', conds, low)
    <2>1. \A k \in 1..low : k \in 1..Len(conds)
      BY <1>3, <1>4
    <2> QED
      BY <1>8, <2>1 DEF Kept
  <1>13. Len(conds') \in Nat /\ Len(conds') + nest = low + depth /\ Len(conds') > low
    BY <1>2, <1>3, <1>4, <1>8
  <1> DEFINE bs == conds'
  <1> HIDE DEF bs
  <1>14. /\ FilesOpen(disk, files', opened)
         /\ \E t : Nested(disk, files', Len(files'), bs, Len(bs), nest, t) /\ t[Len(files')] = low
    BY <1>1, <1>2, <1>11, <1>12, <1>13, LineIsRead DEF bs
  <1> QED
    BY <1>2, <1>13, <1>14 DEF Track, bs

(* #else and #elif take the guard from the conditional they go on with.    *)
LEMMA ElseTrack ==
  ASSUME TypeOK, Tame, GuardInv, mode = "read", ~AtEnd, Line.kind \in {"else", "elif"},
         NEW c \in CondRecords, c.guard = NoName, conds # <<>>,
         NEW how \in {"read", "skip"}
  PROVE  Track(disk, <<Consumed(File)>> \o Tail(files), opened, <<c>> \o Tail(conds), nest, how)
  <1>1. FilesOpen(disk, files, opened) /\ Reads
    BY TrackIs DEF Reads
  <1>2. PICK s : Nested(disk, files, Len(files), conds, Len(conds), nest, s) /\ nest = 0
    BY <1>1, TrackIs
  <1> DEFINE low == s[Len(files)]
             depth == Depth(disk[File.path], File.at)
             bs == <<c>> \o Tail(conds)
             gs == <<Consumed(File)>> \o Tail(files)
  <1>3. /\ low \in Nat /\ Len(conds) \in Nat
        /\ Len(conds) + nest = low + Own(disk, File)
        /\ GuardsOf(disk, File, conds, low, Len(conds))
    BY <1>1, <1>2, Innermore
  <1>4. /\ Line = disk[File.path][File.at]
        /\ Own(disk, File) \in Nat /\ Own(disk, File) > 0 /\ depth = Own(disk, File)
    BY TameLine DEF Opening
  <1>5. Len(conds) = low + depth /\ Len(conds) > low /\ depth \in Nat /\ depth > 0
    BY <1>2, <1>3, <1>4
  <1>6. /\ Len(bs) = Len(conds) /\ At(bs, Len(conds)) = c
        /\ \A k \in 1..Len(conds) - 1 : At(bs, k) = At(conds, k)
    <2>1. conds \in Seq(CondRecords)
      BY DEF TypeOK
    <2> QED
      BY <2>1, Replaced, AtReplaced
  <1> HIDE DEF bs, gs
  <1>7. ASSUME NEW k \in low + 1..Len(bs), At(bs, k).guard # NoName
        PROVE  Going(conds, bs, k, low)
    <2>1. k # Len(conds)
      BY <1>6, <1>7
    <2>2. k \in 1..Len(conds) - 1 /\ k \in low + 1..Len(conds) /\ k <= Len(conds) /\ k < Len(conds)
      BY <1>3, <1>6, <2>1
    <2>3. At(bs, k) = At(conds, k)
      BY <1>6, <2>2
    <2>4. k = low + 1
      BY <1>3, <1>7, <2>2, <2>3 DEF GuardsOf
    <2>5. depth > 1
      BY <1>3, <1>5, <2>2, <2>4
    <2>6. Within(disk, File.path, File.at)
      BY <1>5, <2>5 DEF Within
    <2> QED
      BY <2>2, <2>3, <2>6 DEF Going
  <1>8. Kept(bs, conds, low)
    <2>1. \A k \in 1..low : k \in 1..Len(conds) - 1
      BY <1>3, <1>5
    <2> QED
      BY <1>6, <2>1 DEF Kept
  <1>9. Len(bs) \in Nat /\ Len(bs) + nest = low + depth
    BY <1>2, <1>3, <1>5, <1>6
  <1>10. /\ FilesOpen(disk, gs, opened)
         /\ \E t : Nested(disk, gs, Len(gs), bs, Len(bs), nest, t) /\ t[Len(gs)] = low
    BY <1>1, <1>2, <1>7, <1>8, <1>9, LineIsRead DEF gs
  <1>11. Len(bs) > low
    BY <1>5, <1>6
  <1> QED
    BY <1>2, <1>10, <1>11 DEF Track, bs, gs

(* #endif takes the innermost conditional away, which is the file's own.   *)
LEMMA EndifTrack ==
  ASSUME TypeOK, Tame, GuardInv, ReadEndif
  PROVE  /\ Track(disk, files', opened, conds', nest, "read")
         /\ conds[1].guard # NoName =>
              /\ Guarding(disk, File, conds[1].guard)
              /\ Depth(disk[File.path], File.at) = 0
  <1>1. /\ FilesOpen(disk, files, opened) /\ ~AtEnd /\ mode = "read" /\ Reads
        /\ Line.kind = "endif" /\ conds # <<>> /\ conds' = Tail(conds)
        /\ files' = <<Consumed(File)>> \o Tail(files)
    BY TrackIs, NotStray DEF ReadEndif, ReadLine, Is, Reads, NextLine
  <1>2. PICK s : Nested(disk, files, Len(files), conds, Len(conds), nest, s) /\ nest = 0
    BY <1>1, TrackIs
  <1> DEFINE low == s[Len(files)]
             depth == Depth(disk[File.path], File.at)
             bs == conds'
             gs == files'
  <1>3. /\ low \in Nat /\ Len(conds) \in Nat
        /\ Len(conds) + nest = low + Own(disk, File)
        /\ GuardsOf(disk, File, conds, low, Len(conds))
    BY <1>1, <1>2, Innermore
  <1>4. /\ Line = disk[File.path][File.at]
        /\ Own(disk, File) \in Nat /\ depth \in Nat /\ depth = Own(disk, File) - 1
    BY <1>1, TameLine DEF Opening
  <1>5. Len(conds) - 1 = low + depth /\ Len(conds) > low
    BY <1>2, <1>3, <1>4
  <1>6. /\ Len(bs) = Len(conds) - 1 /\ At(conds, Len(conds)) = conds[1]
        /\ \A k \in 1..Len(conds) - 1 : At(bs, k) = At(conds, k)
    <2>1. conds \in Seq(CondRecords)
      BY DEF TypeOK
    <2> QED
      BY <1>1, <2>1, Popped, AtPopped, AtTop
  <1>7. ASSUME conds[1].guard # NoName
        PROVE  Guarding(disk, File, conds[1].guard) /\ depth = 0
    <2>1. Len(conds) \in low + 1..Len(conds)
      BY <1>3, <1>5
    <2>2. Len(conds) = low + 1 /\ Guarding(disk, File, conds[1].guard)
      BY <1>3, <1>6, <1>7, <2>1 DEF GuardsOf
    <2> QED
      BY <1>3, <1>4, <1>5, <2>2
  <1> HIDE DEF bs, gs
  <1>8. ASSUME NEW k \in low + 1..Len(bs), At(bs, k).guard # NoName
        PROVE  Going(conds, bs, k, low)
    <2>1. k \in 1..Len(conds) - 1 /\ k <= Len(conds) /\ low < Len(conds) - 1
      BY <1>3, <1>6
    <2>2. At(bs, k) = At(conds, k)
      BY <1>6, <2>1
    <2>3. depth > 0
      BY <1>3, <1>4, <1>5, <2>1
    <2>4. Within(disk, File.path, File.at)
      BY <1>1, <1>4, <2>3 DEF Within
    <2> QED
      BY <2>1, <2>2, <2>4 DEF Going
  <1>9. Kept(bs, conds, low)
    <2>1. \A k \in 1..low : k \in 1..Len(conds) - 1
      BY <1>3, <1>5
    <2> QED
      BY <1>6, <2>1 DEF Kept
  <1>10. Len(bs) \in Nat /\ Len(bs) + nest = low + depth
    BY <1>2, <1>3, <1>4, <1>5, <1>6
  <1>11. /\ FilesOpen(disk, gs, opened)
         /\ \E t : Nested(disk, gs, Len(gs), bs, Len(bs), nest, t) /\ t[Len(gs)] = low
    BY <1>1, <1>2, <1>8, <1>9, <1>10, LineIsRead DEF gs
  <1> QED
    BY <1>2, <1>7, <1>11 DEF Track, bs, gs

(* The end of an included file: it leaves none of its conditionals open,   *)
(* so that the end of a file is never met in a group that is skipped.      *)
LEMMA PopTrack ==
  ASSUME TypeOK, Tame, GuardInv, Reads, PopFile
  PROVE  mode # "skip" /\ Track(disk, files', opened, conds, nest, mode)
  <1>1. /\ FilesOpen(disk, files, opened) /\ AtEnd /\ Len(files) > 1 /\ files' = Tail(files)
        /\ files \in Seq(FileRecords) /\ files # <<>> /\ Len(files) \in Nat
    BY TrackIs, Innermost DEF PopFile
  <1>2. PICK s : /\ Nested(disk, files, Len(files), conds, Len(conds), nest, s)
                 /\ IF mode = "skip" THEN Len(conds) > s[Len(files)] ELSE nest = 0
    BY TrackIs
  <1>3. /\ s[Len(files)] \in Nat /\ Len(conds) \in Nat /\ nest \in Nat
        /\ Len(conds) + nest = s[Len(files)] + Own(disk, File)
    BY <1>1, <1>2, Innermore
  <1>4. Own(disk, File) = 0
    BY <1>1, TameEnd
  <1>5. mode # "skip" /\ nest = 0 /\ Len(conds) = s[Len(files)]
    BY <1>2, <1>3, <1>4
  <1>6. PICK m \in Nat : m + 1 = Len(files) /\ m >= 1 /\ m = Len(files) - 1
    <2>1. Len(files) - 1 \in Nat /\ (Len(files) - 1) + 1 = Len(files) /\ Len(files) - 1 >= 1
      BY <1>1
    <2> QED
      BY <2>1
  <1>7. FilesOpen(disk, files', opened)
    <2>1. opened \in Nat
      BY DEF TypeOK
    <2> QED
      BY <1>1, <2>1, FilesReturn
  <1>8. Len(files') = m /\ \A j \in 1..m : At(files', j) = At(files, j)
    BY <1>1, <1>6, Popped, AtPopped
  <1>9. Nested(disk, files, m + 1, conds, Len(conds), 0, s) /\ Len(conds) = s[m + 1]
    BY <1>2, <1>5, <1>6
  <1>10. Nested(disk, files', m, conds, Len(conds), 0, s)
    <2> DEFINE gs == files'
    <2> HIDE DEF gs
    <2>1. \A j \in 1..m : At(gs, j) = At(files, j)
      BY <1>8 DEF gs
    <2>2. Nested(disk, gs, m, conds, Len(conds), 0, s)
      BY <1>6, <1>9, <2>1, LevelsReturn
    <2> QED
      BY <2>2 DEF gs
  <1> QED
    BY <1>5, <1>7, <1>8, <1>10 DEF Track

(* #include: the line is read, then the file is opened.                    *)
LEMMA IncludeTrack ==
  ASSUME TypeOK, Tame, GuardInv, Include, Len(files) < MaxOpen
  PROVE  Track(disk, files', opened', conds, nest, mode)
  <1> DEFINE q == <<Consumed(File)>> \o Tail(files)
             f == OpenFile(Line.arg, opened + 1)
             gs == <<f>> \o q
             m == Len(q)
  <1>1. ~AtEnd /\ mode = "read" /\ Reads /\ Line.kind \in {"include", "import"}
        /\ FilesOpen(disk, files, opened)
    BY TrackIs DEF Include, Is, Reads
  <1>2. Line \in Lines /\ Line.arg \in Files
    BY <1>1, LineAtHand, LineKinds
  <1>3. nest = 0
    BY <1>1, TrackIs
  <1>4. files \in Seq(FileRecords) /\ files # <<>> /\ Len(files) \in 1..MaxOpen
        /\ Len(files) \in Nat /\ Consumed(File) \in FileRecords
    BY <1>1, HeadFile, ConsumedFile DEF TypeOK, FilesOK
  <1>5. files' = gs /\ opened' = opened + 1
    <2>1. Len(files) # MaxOpen
      BY <1>4
    <2>2. files' = <<f, Consumed(File)>> \o Tail(files) /\ opened' = opened + 1
      BY <2>1 DEF Include
    <2> HIDE DEF f
    <2>3. <<f, Consumed(File)>> \o Tail(files) = <<f>> \o (<<Consumed(File)>> \o Tail(files))
      BY <1>4
    <2> QED
      BY <2>2, <2>3
  <1>6. Own(disk, File) = Depth(disk[File.path], File.at) /\ Own(disk, File) \in Nat
    BY <1>1, TameLine DEF Opening
  <1>7. Track(disk, q, opened, conds, nest, "read")
    BY <1>1, <1>3, <1>6, PlainTrack
  <1>8. /\ q \in Seq(FileRecords) /\ m = Len(files) /\ m \in Nat /\ m >= 1
        /\ At(q, m) = Consumed(File)
        /\ Own(disk, Consumed(File)) = Depth(disk[File.path], File.at)
    BY <1>1, <1>4, FilesRead
  <1>9. f \in FileRecords /\ f.path = Line.arg /\ f.at = 1 /\ opened \in Nat
    BY <1>2 DEF OpenFile, FileRecords, TypeOK
  <1>10. FilesOpen(disk, q, opened)
    BY <1>7 DEF Track
  <1>11. FilesOpen(disk, gs, opened + 1)
    BY <1>2, <1>8, <1>9, <1>10, FilesBegin
  <1> HIDE DEF f
  <1>12. /\ Len(gs) = m + 1 /\ At(gs, m + 1) = f
         /\ \A j \in 1..m : At(gs, j) = At(q, j)
    BY <1>8, <1>9, Pushed, AtPushed
  <1>13. Own(disk, f) = 0
    BY <1>9, DepthZero DEF Own
  <1>14. PICK s : Nested(disk, q, m, conds, Len(conds), nest, s)
    BY <1>7 DEF Track
  <1> HIDE DEF gs, q, m
  <1>15. Len(conds) \in Nat /\ Len(conds) >= s[m]
    <2>1. Len(conds) \in Nat /\ s[m] \in Nat /\ Rises(disk, Consumed(File), s[m], Len(conds), nest)
      BY <1>8, <1>14 DEF Nested, TypeOK
    <2> QED
      BY <1>3, <1>6, <1>8, <2>1 DEF Rises
  <1>16. \E t : Nested(disk, gs, m + 1, conds, Len(conds), 0, t)
    BY <1>3, <1>8, <1>12, <1>13, <1>14, <1>15, LevelsBegin
  <1> QED
    BY <1>1, <1>3, <1>5, <1>11, <1>12, <1>16 DEF Track

------------------------------------------------------------------------------
(* The look behind an #endif.                                              *)

LEMMA LookedBegins ==
  ASSUME TypeOK, ~AtEnd, FilesOpen(disk, files, opened), NEW g, Guarding(disk, File, g),
         Depth(disk[File.path], File.at) = 0
  PROVE  Looked(disk, Consumed(File), [guard |-> g, file |-> File.id, name |-> File.name])
  <1> DEFINE lines == disk[File.path]
  <1>1. /\ Consumed(File).path = File.path /\ Consumed(File).id = File.id
        /\ Consumed(File).at = File.at + 1 /\ File.name = File.path /\ File.id \in Nat
    BY ConsumedIs, Innermost, HeadFile DEF FileRecords
  <1>2. File.at \in 1..Len(lines) /\ Len(lines) \in Nat
    BY LineAtHand, HeadFile
  <1>3. PICK a \in 1..File.at - 1 :
          Opens(disk, File.path, a, g) /\ \A n \in a..File.at - 1 : Within(disk, File.path, n)
    BY DEF Guarding
  <1>4. a \in 1..Len(lines) /\ File.at < File.at + 1 /\ \A n \in File.at + 1..(File.at + 1) - 1 : FALSE
    BY <1>2
  <1> QED
    BY <1>1, <1>2, <1>3, <1>4 DEF Looked

LEMMA LookedOn ==
  ASSUME TypeOK, ~AtEnd, Line.kind = "blank", NEW c, Looked(disk, File, c)
  PROVE  Looked(disk, Consumed(File), c)
  <1> DEFINE lines == disk[c.name]
  <1>1. /\ Consumed(File).path = File.path /\ Consumed(File).id = File.id
        /\ Consumed(File).at = File.at + 1
    BY ConsumedIs
  <1>2. File.at \in 1..Len(disk[File.path]) /\ Len(disk[File.path]) \in Nat
        /\ Line = disk[File.path][File.at]
    BY LineAtHand, HeadFile DEF Line
  <1>3. PICK a \in 1..Len(lines), z \in 1..Len(lines) :
          /\ Opens(disk, c.name, a, c.guard) /\ Depth(lines, z) = 0
          /\ \A n \in a..z - 1 : Within(disk, c.name, n)
          /\ File.id <= c.file
          /\ IF File.id = c.file
             THEN File.path = c.name /\ z < File.at /\ \A n \in z + 1..File.at - 1 : Blank(disk, c.name, n)
             ELSE \A n \in z + 1..Len(lines) : Blank(disk, c.name, n)
    BY DEF Looked
  <1>4. ASSUME File.id = c.file
        PROVE  /\ z < Consumed(File).at
               /\ \A n \in z + 1..Consumed(File).at - 1 : Blank(disk, c.name, n)
    <2>1. File.path = c.name /\ z < File.at /\ \A n \in z + 1..File.at - 1 : Blank(disk, c.name, n)
      BY <1>3, <1>4
    <2>2. z < File.at + 1 /\ \A n \in z + 1..(File.at + 1) - 1 : n \in z + 1..File.at - 1 \/ n = File.at
      BY <1>2, <2>1
    <2>3. Blank(disk, c.name, File.at)
      BY <1>2, <2>1 DEF Blank
    <2> QED
      BY <1>1, <2>1, <2>2, <2>3
  <1> QED
    BY <1>1, <1>3, <1>4 DEF Looked

(* The next token is not in the file: all behind the #endif is blank.      *)
LEMMA LookedAll ==
  ASSUME TypeOK, NEW c, Looked(disk, File, c), AtEnd \/ File.id # c.file
  PROVE  \E a, z \in 1..Len(disk[c.name]) :
           /\ Opens(disk, c.name, a, c.guard) /\ Depth(disk[c.name], z) = 0
           /\ \A n \in a..z - 1 : Within(disk, c.name, n)
           /\ File.id <= c.file
           /\ \A n \in z + 1..Len(disk[c.name]) : Blank(disk, c.name, n)
  <1>1. File.at \in 1..Len(disk[File.path]) + 1 /\ Len(disk[File.path]) \in Nat
    BY HeadFile
  <1>2. AtEnd => File.at - 1 = Len(disk[File.path])
    BY <1>1 DEF AtEnd
  <1> QED
    BY <1>2 DEF Looked

LEMMA LookedReturns ==
  ASSUME TypeOK, NEW c, Looked(disk, File, c), AtEnd, NEW file \in FileRecords, file.id < File.id,
         c.file \in Nat
  PROVE  Looked(disk, file, c)
  <1>1. File.id \in Nat /\ file.id \in Nat
    BY HeadFile DEF FileRecords
  <1>2. PICK a \in 1..Len(disk[c.name]), z \in 1..Len(disk[c.name]) :
           /\ Opens(disk, c.name, a, c.guard) /\ Depth(disk[c.name], z) = 0
           /\ \A n \in a..z - 1 : Within(disk, c.name, n)
           /\ File.id <= c.file
           /\ \A n \in z + 1..Len(disk[c.name]) : Blank(disk, c.name, n)
    BY LookedAll
  <1>3. file.id <= c.file /\ file.id # c.file
    BY <1>1, <1>2
  <1> QED
    BY <1>2, <1>3 DEF Looked

LEMMA LookedInert ==
  ASSUME TypeOK, NEW c, c.name \in Files, Looked(disk, File, c), AtEnd \/ File.id # c.file
  PROVE  Inert(disk[c.name], c.guard)
  <1> DEFINE lines == disk[c.name]
  <1>1. PICK a \in 1..Len(lines), z \in 1..Len(lines) :
           /\ Opens(disk, c.name, a, c.guard) /\ Depth(lines, z) = 0
           /\ \A n \in a..z - 1 : Within(disk, c.name, n)
           /\ \A n \in z + 1..Len(lines) : Blank(disk, c.name, n)
    BY LookedAll
  <1>2. DOMAIN lines = 1..Len(lines) /\ Len(lines) \in Nat
    BY DEF TypeOK
  <1>3. ASSUME NEW n \in DOMAIN lines, n \notin a..z PROVE lines[n].kind = "blank"
    <2>1. n \in 1..a - 1 \/ n \in z + 1..Len(lines)
      BY <1>2, <1>3
    <2> QED
      BY <1>1, <2>1 DEF Opens, Blank
  <1>4. lines[a] = [kind |-> "ifndef", arg |-> c.guard]
    BY <1>1 DEF Opens
  <1>5. \A n \in a..z - 1 : Depth(lines, n) > 0 /\ (lines[n].kind \in {"else", "elif"} => Depth(lines, n) > 1)
    BY <1>1 DEF Within
  <1> QED
    BY <1>1, <1>2, <1>3, <1>4, <1>5 DEF Inert

------------------------------------------------------------------------------
(* A step.                                                                 *)

(* What has to be shown of a step that files no guard.                     *)
LEMMA GuardStep ==
  ASSUME GuardInv, UNCHANGED <<disk, guards>>,
         mode' \notin {"done", "error"} =>
           /\ Track(disk, files', opened', conds', nest', mode') /\ mode' # "quoted"
           /\ mode' = "look" => Looked(disk, files'[1], closed')
  PROVE  GuardInv'
  <1>1. GuardsAreSound'
    BY DEF GuardInv, GuardsAreSound
  <1> QED
    BY <1>1 DEF GuardInv, Reads, File

LEMMA ReadsPlain ==
  ASSUME TypeOK, Tame, GuardInv, mode = "read", ~AtEnd, Line.kind \notin Opening \cup Closing
  PROVE  Track(disk, <<Consumed(File)>> \o Tail(files), opened, conds, nest, mode)
  <1>1. Reads /\ nest = 0
    BY TrackIs DEF Reads
  <1>2. Own(disk, File) = Depth(disk[File.path], File.at) /\ Own(disk, File) \in Nat
        /\ Line.kind \notin {"else", "elif"}
    BY TameLine DEF Closing
  <1> QED
    BY <1>1, <1>2, PlainTrack

LEMMA ReadsGuards ==
  ASSUME TypeOK, Tame, GuardInv
  PROVE  /\ ReadText \/ ReadBlank \/ ReadDefine \/ PragmaOnce \/ ReadLineName => GuardInv'
         /\ IncludeOnce \/ IncludeGuarded \/ Include => GuardInv'
  <1> USE DEF lineVars, skipVars, condVars, incVars
  <1>1. ASSUME ReadText \/ ReadBlank \/ ReadDefine \/ PragmaOnce \/ IncludeOnce \/ IncludeGuarded
        PROVE  GuardInv'
    <2>1. /\ mode = "read" /\ ~AtEnd /\ Line.kind \notin Opening \cup Closing
          /\ files' = <<Consumed(File)>> \o Tail(files)
          /\ UNCHANGED <<disk, opened, mode, nest, conds, guards>>
      BY <1>1 DEF ReadText, ReadBlank, ReadDefine, PragmaOnce, IncludeOnce, IncludeGuarded,
                  ReadLine, Is, NextLine, Opening, Closing
    <2>2. Track(disk, files', opened', conds', nest', mode')
      BY <2>1, ReadsPlain
    <2> QED
      BY <2>1, <2>2, GuardStep
  <1>2. ASSUME ReadLineName PROVE GuardInv'
    <2>1. /\ mode = "read" /\ ~AtEnd /\ Line.kind = "line"
          /\ files' = <<[Consumed(File) EXCEPT !.name = Line.arg]>> \o Tail(files)
          /\ UNCHANGED <<disk, opened, mode, nest, conds, guards>>
      BY <1>2 DEF ReadLineName, Is
    <2>2. Line.arg = File.name
      <3>1. FilesOpen(disk, files, opened)
        BY <2>1, TrackIs DEF Reads
      <3> QED
        BY <2>1, <3>1, TameLine, Innermost
    <2>3. Consumed(File) \in FileRecords /\ Consumed(File).name = File.name
      BY <2>1, ConsumedIs
    <2>4. [Consumed(File) EXCEPT !.name = Line.arg] = Consumed(File)
      BY <2>2, <2>3 DEF FileRecords
    <2>5. Track(disk, files', opened', conds', nest', mode')
      BY <2>1, <2>4, ReadsPlain DEF Opening, Closing
    <2> QED
      BY <2>1, <2>5, GuardStep
  <1>3. ASSUME Include PROVE GuardInv'
    <2>1. mode = "read" /\ UNCHANGED <<disk, conds, nest, guards>>
          /\ ((Len(files) < MaxOpen /\ mode' = mode) \/ mode' = "error")
      BY <1>3 DEF Include
    <2>2. CASE Len(files) < MaxOpen /\ mode' = mode
      BY <1>3, <2>1, <2>2, IncludeTrack, GuardStep
    <2>3. CASE mode' = "error"
      BY <2>1, <2>3, GuardStep
    <2> QED
      BY <2>1, <2>2, <2>3
  <1> QED
    BY <1>1, <1>2, <1>3

LEMMA ConditionalsGuards ==
  ASSUME TypeOK, Tame, GuardInv
  PROVE  /\ ReadIf => GuardInv'
         /\ ReadElse \/ ReadElif => GuardInv'
         /\ ReadEndif => GuardInv'
  <1> USE DEF lineVars, skipVars, condVars, incVars
  <1>1. ASSUME ReadIf PROVE GuardInv'
    <2>1. /\ UNCHANGED <<disk, opened, nest, guards>> /\ mode' \in {"read", "skip"}
      BY <1>1 DEF ReadIf, ReadLine
    <2>2. Track(disk, files', opened', conds', nest', mode')
      BY <1>1, <2>1, IfTrack
    <2> QED
      BY <2>1, <2>2, GuardStep
  <1>2. ASSUME ReadElse \/ ReadElif PROVE GuardInv'
    <2> DEFINE e == [ctx |-> "elif", wastrue |-> conds[1].wastrue \/ Line.arg \in defined,
                     guard |-> NoName, file |-> conds[1].file]
    <2>1. /\ mode = "read" /\ ~AtEnd /\ Line.kind \in {"else", "elif"} /\ conds # <<>>
          /\ files' = <<Consumed(File)>> \o Tail(files) /\ mode' \in {"read", "skip"}
          /\ UNCHANGED <<disk, opened, nest, guards>>
          /\ conds' = <<Elsed(conds[1])>> \o Tail(conds) \/ conds' = <<e>> \o Tail(conds)
      BY <1>2, NotStray DEF ReadElse, ReadElif, ReadLine, Is, NextLine, SetConds
    <2>2. Elsed(conds[1]) \in CondRecords /\ Elsed(conds[1]).guard = NoName
      BY <2>1, ElsedTyped DEF Elsed
    <2>3. e \in CondRecords /\ e.guard = NoName
      <3>1. conds[1] \in CondRecords
        BY <2>1, HeadCond
      <3>2. (conds[1].wastrue \/ Line.arg \in defined) \in BOOLEAN
        <4>1. CASE conds[1].wastrue \/ Line.arg \in defined
          BY <4>1
        <4>2. CASE ~(conds[1].wastrue \/ Line.arg \in defined)
          BY <4>2
        <4> QED
          BY <4>1, <4>2
      <3> QED
        BY <3>1, <3>2 DEF CondRecords
    <2> HIDE DEF e
    <2>4. Track(disk, files', opened', conds', nest', mode')
      BY <2>1, <2>2, <2>3, ElseTrack
    <2> QED
      BY <2>1, <2>4, GuardStep
  <1>3. ASSUME ReadEndif PROVE GuardInv'
    <2>1. /\ mode = "read" /\ ~AtEnd /\ Reads
          /\ UNCHANGED <<disk, opened, nest, guards>>
          /\ files' = <<Consumed(File)>> \o Tail(files)
          /\ \/ mode' = "read"
             \/ /\ mode' = "look" /\ conds[1].guard # NoName
                /\ closed' = [guard |-> conds[1].guard, file |-> File.id, name |-> File.name]
      BY <1>3 DEF ReadEndif, ReadLine, Is, NextLine, Reads
    <2>2. nest = 0 /\ FilesOpen(disk, files, opened)
      BY <2>1, TrackIs
    <2>3. /\ Track(disk, files', opened, conds', nest, "read")
          /\ conds[1].guard # NoName => Guarding(disk, File, conds[1].guard) /\ Depth(disk[File.path], File.at) = 0
      BY <1>3, EndifTrack
    <2>4. Track(disk, files', opened', conds', nest', mode')
      BY <2>1, <2>3 DEF Track
    <2>5. mode' = "look" => Looked(disk, files'[1], closed')
      <3>1. files'[1] = Consumed(File)
        BY <2>1, <2>2, ConsumedFile, Innermost, Replaced
      <3>2. CASE mode' = "look"
        <4>1. Looked(disk, Consumed(File), [guard |-> conds[1].guard, file |-> File.id, name |-> File.name])
          BY <2>1, <2>2, <2>3, <3>2, LookedBegins
        <4> QED
          BY <2>1, <3>1, <3>2, <4>1
      <3> QED
        BY <3>2
    <2> QED
      BY <2>1, <2>4, <2>5, GuardStep
  <1> QED
    BY <1>1, <1>2, <1>3

LEMMA FilesGuards ==
  ASSUME TypeOK, Tame, GuardInv
  PROVE  /\ ReadPopsFile => GuardInv'
         /\ LookOn => GuardInv'
         /\ LookEnds => GuardInv'
         /\ SkipPopsFile => GuardInv'
  <1> USE DEF lineVars, skipVars, condVars, incVars, Unread
  <1>1. ASSUME ReadPopsFile PROVE GuardInv'
    <2>1. mode = "read" /\ Reads /\ PopFile /\ UNCHANGED <<disk, opened, mode, nest, conds, guards>>
      BY <1>1 DEF ReadPopsFile, Reads
    <2> QED
      BY <2>1, PopTrack, GuardStep
  <1>2. ASSUME LookOn PROVE GuardInv'
    <2>1. /\ mode = "look" /\ Reads /\ Looked(disk, File, closed)
          /\ UNCHANGED <<disk, opened, mode, nest, conds, closed, guards>>
      BY <1>2 DEF LookOn, GuardInv, Reads
    <2>2. nest = 0 /\ FilesOpen(disk, files, opened)
      BY <2>1, TrackIs
    <2>3. CASE Is({"blank"}) /\ NextLine
      <3>1. ~AtEnd /\ Line.kind = "blank" /\ files' = <<Consumed(File)>> \o Tail(files)
        BY <2>3 DEF Is, NextLine
      <3>2. Own(disk, File) = Depth(disk[File.path], File.at) /\ Own(disk, File) \in Nat
        BY <3>1, TameLine DEF Opening
      <3>3. Track(disk, files', opened, conds, nest, mode)
        BY <2>1, <2>2, <3>1, <3>2, PlainTrack
      <3>4. files'[1] = Consumed(File)
        BY <2>2, <3>1, ConsumedFile, Innermost, Replaced
      <3>5. Looked(disk, files'[1], closed)
        BY <2>1, <3>1, <3>4, LookedOn
      <3> QED
        BY <2>1, <3>3, <3>5, GuardStep
    <2>4. CASE PopFile
      <3>1. Track(disk, files', opened, conds, nest, mode)
        BY <2>1, <2>4, PopTrack
      <3>2. /\ AtEnd /\ Len(files) > 1 /\ files' = Tail(files) /\ files \in Seq(FileRecords)
            /\ File = files[1] /\ opened \in Nat /\ closed.file \in Nat
        BY <2>2, <2>4, Innermost DEF PopFile, TypeOK, File
      <3>3. files'[1] \in FileRecords /\ files'[1].id < File.id
        <4>1. Tail(files)[1].id < files[1].id
          BY <2>2, <3>2, FilesReturn
        <4>2. Tail(files)[1] \in FileRecords
          BY <3>2
        <4> QED
          BY <3>2, <4>1, <4>2
      <3>4. Looked(disk, files'[1], closed)
        BY <2>1, <3>2, <3>3, LookedReturns
      <3> QED
        BY <2>1, <3>1, <3>4, GuardStep
    <2> QED
      BY <1>2, <2>3, <2>4 DEF LookOn
  <1>3. ASSUME LookEnds PROVE GuardInv'
    <2>1. /\ mode = "look" /\ Reads /\ mode' = "read" /\ Looked(disk, File, closed)
          /\ UNCHANGED <<disk, files, opened, nest, conds>>
          /\ guards' = IF AtEnd \/ File.id # closed.file
                       THEN [guards EXCEPT ![closed.name] = closed.guard] ELSE guards
      BY <1>3 DEF LookEnds, GuardInv, Reads
    <2>2. Track(disk, files, opened, conds, nest, mode)
      BY <2>1 DEF GuardInv
    <2>3. Track(disk, files', opened', conds', nest', mode')
      BY <2>1, <2>2 DEF Track
    <2>4. closed.name \in Files /\ guards \in [Files -> Macros \cup {NoName}]
      BY <2>1 DEF TypeOK
    <2>5. GuardsAreSound
      BY DEF GuardInv
    <2>6. ASSUME NEW f \in Files, guards'[f] # NoName PROVE Inert(disk[f], guards'[f])
      <3>1. CASE guards'[f] = guards[f]
        BY <2>5, <2>6, <3>1 DEF GuardsAreSound
      <3>2. CASE guards'[f] # guards[f]
        <4>1. f = closed.name /\ guards'[f] = closed.guard /\ (AtEnd \/ File.id # closed.file)
          BY <2>1, <2>4, <3>2
        <4> QED
          BY <2>1, <2>4, <4>1, LookedInert
      <3> QED
        BY <3>1, <3>2
    <2>7. GuardsAreSound'
      BY <2>1, <2>6 DEF GuardsAreSound
    <2> QED
      BY <2>1, <2>3, <2>7 DEF GuardInv
  <1>4. ASSUME SkipPopsFile PROVE GuardInv'
    <2>1. mode \in {"skip", "quoted"} /\ PopFile /\ Reads
      BY <1>4 DEF SkipPopsFile, Skipping, Reads
    <2>2. mode = "skip"
      BY <2>1 DEF GuardInv
    <2> QED
      BY <2>1, <2>2, PopTrack
  <1> QED
    BY <1>1, <1>2, <1>3, <1>4

LEMMA SkipsGuards ==
  ASSUME TypeOK, Tame, GuardInv
  PROVE  /\ SkipQuote => GuardInv'
         /\ SkipNested \/ SkipNestedEndif \/ SkipLine => GuardInv'
         /\ SkipEnds => GuardInv'
  <1> USE DEF lineVars, skipVars, condVars, incVars, Unread
  <1>1. ASSUME SkipQuote PROVE GuardInv'
    BY <1>1, TameLine DEF SkipQuote, Is
  <1>2. ASSUME SkipNested \/ SkipNestedEndif \/ SkipLine PROVE GuardInv'
    <2>1. mode \in {"skip", "quoted"} /\ Reads /\ mode' = mode
      BY <1>2 DEF SkipNested, SkipNestedEndif, SkipLine, Skipping, Reads
    <2>2. mode = "skip"
      BY <2>1 DEF GuardInv
    <2>3. nest \in Nat
      BY DEF TypeOK
    <2>4. /\ ~AtEnd /\ files' = <<Consumed(File)>> \o Tail(files)
          /\ UNCHANGED <<disk, opened, conds, guards>>
          /\ Line.kind \in {"else", "elif"} => nest > 0
          /\ nest' = nest + (IF Line.kind \in Opening THEN 1 ELSE IF Line.kind = "endif" THEN -1 ELSE 0)
          /\ nest' \in Nat
      BY <1>2, <2>2, <2>3 DEF SkipNested, SkipNestedEndif, SkipLine, Is, NextLine, Opening, Closing
    <2>5. nest' + Own(disk, File) = nest + Depth(disk[File.path], File.at)
      <3>1. /\ Own(disk, File) \in Nat
            /\ Depth(disk[File.path], File.at)
                 = Own(disk, File) + (IF Line.kind \in Opening THEN 1 ELSE IF Line.kind = "endif" THEN -1 ELSE 0)
        BY <2>4, TameLine
      <3> QED
        BY <2>3, <2>4, <3>1
    <2>6. Track(disk, files', opened, conds, nest', mode)
      BY <2>1, <2>2, <2>4, <2>5, PlainTrack
    <2> QED
      BY <2>1, <2>2, <2>4, <2>6, GuardStep
  <1>3. ASSUME SkipEnds PROVE GuardInv'
    <2>1. /\ mode = "skip" /\ nest = 0 /\ mode' = "read" /\ Reads
          /\ UNCHANGED <<disk, files, opened, nest, conds, guards>>
      BY <1>3 DEF SkipEnds, Reads
    <2>2. Track(disk, files, opened, conds, nest, mode)
      BY <2>1 DEF GuardInv
    <2>3. Track(disk, files', opened', conds', nest', mode')
      BY <2>1, <2>2 DEF Track
    <2> QED
      BY <2>1, <2>3, GuardStep
  <1> QED
    BY <1>1, <1>2, <1>3

LEMMA NextGuards ==
  ASSUME TypeOK, Tame, GuardInv, Next
  PROVE  GuardInv'
  <1>1. CASE ReadQuote \/ ReadStray \/ ReadEof \/ SkipEof
    <2>1. mode' \in {"done", "error"} /\ UNCHANGED <<disk, guards>>
      BY <1>1 DEF ReadQuote, ReadStray, ReadEof, SkipEof, Stop, lineVars, incVars
    <2> QED
      BY <2>1, GuardStep
  <1> QED
    BY <1>1, ReadsGuards, ConditionalsGuards, FilesGuards, SkipsGuards DEF Next

LEMMA InitGuards ==
  ASSUME Init
  PROVE  GuardInv
  <1> DEFINE f == OpenFile("main", 1)  s == [n \in Nat |-> 0]
  <1>1. /\ files = <<f>> /\ opened = 1 /\ mode = "read" /\ nest = 0 /\ conds = <<>>
        /\ \A x \in Files : guards[x] = NoName
    BY DEF Init
  <1>2. f.path = "main" /\ f.name = "main" /\ f.at = 1 /\ f.id = 1 /\ f.ntok = 0
    BY DEF OpenFile
  <1> HIDE DEF f
  <1>3. Len(files) = 1 /\ At(files, 1) = f /\ Len(conds) = 0
    BY <1>1 DEF At
  <1>4. FilesOpen(disk, files, opened)
    BY <1>1, <1>2, <1>3 DEF FilesOpen
  <1>5. Own(disk, f) = 0
    BY <1>2, DepthZero DEF Own
  <1>6. /\ s \in [Nat -> Nat] /\ s[1] = 0 /\ s[1 + 1] = 0
        /\ \A j, l \in 1..1 : s[j] <= s[l]
        /\ \A j \in 1..1 - 1 : FALSE
        /\ \A j \in 1..1 : j = 1
        /\ \A k \in 0 + 1..0 : FALSE
    OBVIOUS
  <1> HIDE DEF s
  <1>7. Nested(disk, files, 1, conds, 0, 0, s)
    <2>1. Rises(disk, At(files, 1), s[1], 0, 0)
      BY <1>3, <1>5, <1>6 DEF Rises
    <2>2. \A j \in 1..1 : GuardsOf(disk, At(files, j), conds, s[j], s[j + 1])
      BY <1>6 DEF GuardsOf
    <2> QED
      BY <1>6, <2>1, <2>2 DEF Nested
  <1>8. Track(disk, files, opened, conds, nest, mode)
    BY <1>1, <1>3, <1>4, <1>7 DEF Track
  <1> QED
    BY <1>1, <1>8 DEF GuardInv, GuardsAreSound

(* "so that we can skip the file next time" (cpp.c:595): of files that are *)
(* Tame, none is ever taken for guarded that reading it again would not be *)
(* in vain, however they include one another.                              *)
THEOREM SkipsLoseNothing == Spec => [](Tame => GuardsAreSound)
  <1> DEFINE Inv == TypeOK /\ (Tame => GuardInv)
  <1>1. Init => Inv
    BY InitTyped, InitGuards
  <1>2. Inv /\ [Next]_vars => Inv'
    <2> SUFFICES ASSUME Inv, [Next]_vars PROVE Inv'
      OBVIOUS
    <2>1. CASE Next
      <3>1. disk' = disk
        BY <2>1 DEF Next, ReadText, ReadBlank, ReadQuote, ReadDefine, ReadPopsFile, ReadEof, ReadIf,
             ReadStray, ReadElse, ReadElif, ReadEndif, LookOn, LookEnds, IncludeOnce, IncludeGuarded,
             Include, PragmaOnce, ReadLineName, SkipPopsFile, SkipEof, SkipQuote, SkipNested,
             SkipNestedEndif, SkipLine, SkipEnds, Stop, ReadLine, Unread, lineVars
      <3>2. Tame' => Tame
        BY <3>1 DEF Tame
      <3> QED
        BY <2>1, <3>2, NextTyped, NextGuards
    <2>2. CASE UNCHANGED vars
      <3>1. TypeOK'
        BY <2>2, StutterTyped
      <3>2. Tame' => Tame
        BY <2>2 DEF Tame, vars
      <3>3. GuardInv => GuardInv'
        <4> SUFFICES ASSUME GuardInv PROVE GuardInv'
          OBVIOUS
        <4>1. UNCHANGED <<disk, files, opened, mode, nest, conds, closed, guards>>
          BY <2>2 DEF vars
        <4> QED
          BY <4>1 DEF GuardInv, GuardsAreSound, Reads, File
      <3> QED
        BY <3>1, <3>2, <3>3
    <2> QED
      BY <2>1, <2>2
  <1>3. Inv => (Tame => GuardsAreSound)
    BY DEF GuardInv
  <1> QED
    BY <1>1, <1>2, <1>3, PTL DEF Spec
=============================================================================
