------------------------------- MODULE Groups --------------------------------
(***************************************************************************)
(* What conditional inclusion has to compute (C11 6.10.1): of each         *)
(* conditional the lines of one group, found by structure instead of by    *)
(* skipping, and of each #include the lines of the file, which is read     *)
(* whatever is known of it unless it asked to be read once.                *)
(***************************************************************************)
EXTENDS CondIncl, FiniteSetsExt

Level(ls, n) == Cardinality({x \in 1..n : ls[x].kind \in Opening})
                - Cardinality({x \in 1..n - 1 : ls[x].kind = "endif"})

(* The marks of the conditional ls begins with: where its groups begin and *)
(* where it ends.                                                          *)
Marks(ls) ==
  LET end == Min({n \in DOMAIN ls : ls[n].kind = "endif" /\ Level(ls, n) = 1})
  IN  {1, end} \cup {n \in 1..end : ls[n].kind \in Closing /\ Level(ls, n) = 1}

(* A file in which each conditional begins and ends, its #else last.       *)
Balanced(ls) ==
  /\ \A n \in DOMAIN ls : ls[n].kind \in Closing => Level(ls, n) >= 1
  /\ Depth(ls, Len(ls)) = 0
  /\ \A n, o \in DOMAIN ls :
       /\ n < o /\ ls[n].kind = "else" /\ ls[o].kind \in {"else", "elif"}
       /\ Level(ls, n) = Level(ls, o)
       => \E x \in n..o : ls[x].kind = "endif" /\ Level(ls, x) = Level(ls, n)

RECURSIVE Preprocess(_, _, _)

(* A reading: what is defined, which files are not to be read again, the   *)
(* texts read, and whether files were nested too deeply or a line was no C. *)
Preprocess(ls, f, r) ==
  IF ls = <<>> \/ r.error THEN r
  ELSE
  LET l == ls[1]
      After(n) == SubSeq(ls, n + 1, Len(ls))
      Then(reading) == Preprocess(Tail(ls), f, reading)
      Test(line) == (line.arg \in r.defined) = (line.kind # "ifndef")
  IN
  CASE l.kind = "text" -> Then([r EXCEPT !.out = Append(@, l.arg)])
    [] l.kind \in {"blank", "line"} -> Then(r)
    [] l.kind = "quote" -> [r EXCEPT !.error = TRUE]
    [] l.kind = "define" -> Then([r EXCEPT !.defined = @ \cup {l.arg}])
    [] l.kind = "undef" -> Then([r EXCEPT !.defined = @ \ {l.arg}])
    [] l.kind = "once" -> Then([r EXCEPT !.once = @ \cup {f}])
    [] l.kind \in Opening ->
         LET marks == Marks(ls)
             end   == Max(marks)
             true  == {n \in marks \ {end} :
                         ls[n].kind = "else" \/ Test(ls[n])}
             first == Min(true)
             last  == Min({n \in marks : n > first})
             group == SubSeq(ls, first + 1, last - 1)
         IN  Preprocess(After(end), f,
                        IF true = {} THEN r ELSE Preprocess(group, f, r))
    [] l.kind \in {"include", "import"} ->
         IF l.arg \in r.once THEN Then(r)
         ELSE IF r.depth = MaxOpen THEN [r EXCEPT !.error = TRUE]
         ELSE LET inside == Preprocess(disk[l.arg], l.arg,
                              [r EXCEPT !.depth = @ + 1,
                                        !.once = IF l.kind = "import" THEN @ \cup {l.arg} ELSE @])
              IN  Then([inside EXCEPT !.depth = r.depth])

Reading == Preprocess(disk["main"], "main",
             [defined |-> {}, once |-> {}, out |-> <<>>, depth |-> 1, error |-> FALSE])

(* The compiler reads the lines of the groups the language chooses, and    *)
(* ends with the macros it should: however a group was skipped, and though *)
(* a guarded file is not opened again.                                     *)
MatchesGroups ==
  (\A f \in Files : Balanced(disk[f])) =>
    /\ mode = "done" => /\ ~ Reading.error
                        /\ out = Reading.out /\ defined = Reading.defined /\ conds = <<>>
    /\ mode = "error" => Reading.error
=============================================================================
