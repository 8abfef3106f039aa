----------------------------- MODULE Structured ------------------------------
(***************************************************************************)
(* What the statements of C mean, without labels and jumps: the meaning    *)
(* the standard gives a function body, as a machine that walks over its    *)
(* tokens.  A place in the body is named by the position of a token.       *)
(***************************************************************************)
EXTENDS Naturals, Sequences, FiniteSets

OneToken == {"expr", ";", "break", "continue", "goto", "return"}
Prefixes == {"while", "for", "forever", "switch", "label", "case", "default"}
LoopKinds == {"while", "do", "for", "forever"}

(* The position after the statement (the rest of the block) that begins at *)
(* p; 0 if there is none.                                                  *)
RECURSIVE EndOf(_, _), BlockEnd(_, _)
EndOf(ts, p) ==
  IF p \notin DOMAIN ts THEN 0
  ELSE CASE ts[p].kind \in OneToken -> p + 1
         [] ts[p].kind \in Prefixes -> EndOf(ts, p + 1)
         [] ts[p].kind = "{"  -> BlockEnd(ts, p + 1)
         [] ts[p].kind = "if" -> LET q == EndOf(ts, p + 1) IN
                                 IF q \in DOMAIN ts /\ ts[q].kind = "else"
                                 THEN EndOf(ts, q + 1) ELSE q
         [] ts[p].kind = "do" -> LET q == EndOf(ts, p + 1) IN
                                 IF /\ q \in DOMAIN ts /\ q + 1 \in DOMAIN ts
                                    /\ ts[q].kind = "while" /\ ts[q + 1].kind = ";"
                                 THEN q + 2 ELSE 0
         [] OTHER -> 0

BlockEnd(ts, p) ==
  IF p \notin DOMAIN ts THEN 0
  ELSE IF ts[p].kind = "}" THEN p + 1
  ELSE LET q == EndOf(ts, p) IN IF q = 0 THEN 0 ELSE BlockEnd(ts, q)

(* The statements directly in the one at p; those of the rest of a block.  *)
RECURSIVE Listed(_, _)
Listed(ts, p) == IF ts[p].kind = "}" THEN {} ELSE {p} \cup Listed(ts, EndOf(ts, p))

Parts(ts, p) ==
  CASE ts[p].kind \in OneToken -> {}
    [] ts[p].kind = "{"  -> Listed(ts, p + 1)
    [] ts[p].kind = "if" -> {p + 1} \cup
         LET q == EndOf(ts, p + 1) IN
         IF q \in DOMAIN ts /\ ts[q].kind = "else" THEN {q + 1} ELSE {}
    [] OTHER -> {p + 1}

(* The statements in the one at p, however deep, each with the one it is in. *)
RECURSIVE Nested(_, _)
Nested(ts, p) == {<<q, p>> : q \in Parts(ts, p)} \cup UNION {Nested(ts, q) : q \in Parts(ts, p)}

(* A function body with its structure.                                     *)
Body(ts) == [ts |-> ts, nested |-> Nested(ts, 1)]

(* The statement that the one at p is in; 0 for the body itself.           *)
In(b, p) == IF p = 1 THEN 0 ELSE (CHOOSE e \in b.nested : e[1] = p)[2]

At(b, kinds) == {p \in {1} \cup {e[1] : e \in b.nested} : b.ts[p].kind \in kinds}

(* The innermost statement of these kinds around p, or 0.                  *)
RECURSIVE Around(_, _, _)
Around(b, p, kinds) ==
  LET q == In(b, p) IN
  IF q = 0 THEN 0 ELSE IF b.ts[q].kind \in kinds THEN q ELSE Around(b, q, kinds)

SwitchOf(b, p) == Around(b, p, {"switch"})

(* What C demands of a function body.  A default label outside of a switch *)
(* is let pass, as parse.c does.                                           *)
IsBody(ts) == EndOf(ts, 1) = Len(ts) + 1

IsValid(b) ==
  /\ \A p \in At(b, {"break"}) : Around(b, p, LoopKinds \cup {"switch"}) # 0
  /\ \A p \in At(b, {"continue"}) : Around(b, p, LoopKinds) # 0
  /\ \A p \in At(b, {"case"}) : SwitchOf(b, p) # 0 /\ b.ts[p].lo <= b.ts[p].hi
  /\ \A p, q \in At(b, {"case"}) :
       p # q /\ SwitchOf(b, p) = SwitchOf(b, q) => b.ts[p].hi < b.ts[q].lo \/ b.ts[q].hi < b.ts[p].lo
  /\ \A p, q \in At(b, {"default"}) : p # q => SwitchOf(b, p) # SwitchOf(b, q)
  /\ \A p, q \in At(b, {"label"}) : p # q => b.ts[p].name # b.ts[q].name
  /\ \A p \in At(b, {"goto"}) : \E q \in At(b, {"label"}) : b.ts[q].name = b.ts[p].name

Accepts(ts) == IsBody(ts) /\ IsValid(Body(ts))

------------------------------------------------------------------------------
(* A state of the walk: about to begin the statement at p, done with it,   *)
(* or at a later point of a loop.                                          *)
Begin(p) == [do |-> "begin", p |-> p]
After(p) == [do |-> "after", p |-> p]
Again(p) == [do |-> "again", p |-> p]        (* where continue goes *)
Check(p) == [do |-> "check", p |-> p]        (* the condition of "for" *)

ElsePart(b, p) == LET q == EndOf(b.ts, p + 1) IN
                  IF q \in DOMAIN b.ts /\ b.ts[q].kind = "else" THEN Begin(q + 1) ELSE After(p)

(* What is done next in a state, if it is something to be seen: an         *)
(* expression is evaluated, with or without its value being asked for.     *)
Seen(b, s) ==
  LET t == b.ts[s.p]
      Do(what, name) == [what |-> what, name |-> name]
  IN  CASE s.do = "begin" /\ t.kind = "expr"            -> Do("do", t.name)
        [] s.do = "begin" /\ t.kind \in {"if", "while"} -> Do("test", t.name)
        [] s.do = "begin" /\ t.kind = "switch"          -> Do("pick", t.name)
        [] s.do = "begin" /\ t.kind = "for"             -> Do("do", <<t.name, "init">>)
        [] s.do = "check"                               -> Do("test", <<t.name, "cond">>)
        [] s.do = "again" /\ t.kind = "for"             -> Do("do", <<t.name, "step">>)
        [] s.do = "again" /\ t.kind = "do"              -> Do("test", b.ts[EndOf(b.ts, s.p) - 2].name)
        [] s.do = "begin" /\ t.kind = "return"          -> Do("return", <<>>)
        [] s.do = "after" /\ In(b, s.p) = 0              -> Do("return", <<>>)
        [] OTHER                                        -> Do("", <<>>)

(* Where a switch on value v goes.                                         *)
Target(b, p, v) ==
  LET mine(kind) == {q \in At(b, {kind}) : SwitchOf(b, q) = p}
      hits == {q \in mine("case") : v \in b.ts[q].lo..b.ts[q].hi}
  IN  IF hits # {} THEN Begin(CHOOSE q \in hits : TRUE)
      ELSE IF mine("default") # {} THEN Begin(CHOOSE q \in mine("default") : TRUE)
      ELSE After(p)

(* The state after what is seen, v being the value.                        *)
Then(b, s, v) ==
  LET t == b.ts[s.p] IN
  CASE \/ s.do = "check"
       \/ s.do = "again" /\ t.kind = "do"
       \/ s.do = "begin" /\ t.kind = "while"  -> IF v # 0 THEN Begin(s.p + 1) ELSE After(s.p)
    [] s.do = "begin" /\ t.kind = "if"          -> IF v # 0 THEN Begin(s.p + 1) ELSE ElsePart(b, s.p)
    [] s.do = "begin" /\ t.kind = "switch"      -> Target(b, s.p, v)
    [] t.kind = "for"                           -> Check(s.p)
    [] OTHER                                    -> After(s.p)

(* The state after one where nothing is seen.                              *)
Silent(b, s) ==
  LET t == b.ts[s.p]
      up == In(b, s.p)
      next == EndOf(b.ts, s.p)
  IN  CASE s.do = "begin" /\ t.kind \in Prefixes \cup {"do"} -> Begin(s.p + 1)
        [] s.do = "begin" /\ t.kind = "{" ->
             IF b.ts[s.p + 1].kind = "}" THEN After(s.p) ELSE Begin(s.p + 1)
        [] s.do = "begin" /\ t.kind = ";" -> After(s.p)
        [] s.do = "begin" /\ t.kind = "break" ->
             After(Around(b, s.p, LoopKinds \cup {"switch"}))
        [] s.do = "begin" /\ t.kind = "continue" -> Again(Around(b, s.p, LoopKinds))
        [] s.do = "begin" /\ t.kind = "goto" ->
             Begin(CHOOSE q \in At(b, {"label"}) : b.ts[q].name = t.name)
        [] s.do = "again" -> Begin(s.p)
        [] s.do = "after" /\ b.ts[up].kind \in LoopKinds -> Again(up)
        [] s.do = "after" /\ b.ts[up].kind = "{" /\ b.ts[next].kind # "}" -> Begin(next)
        [] OTHER -> After(up)

(* The state in which something is seen next, or the last of n silent ones. *)
RECURSIVE Walk(_, _, _)
Walk(b, s, n) ==
  IF n = 0 \/ Seen(b, s).what # "" THEN s ELSE Walk(b, Silent(b, s), n - 1)
=============================================================================
