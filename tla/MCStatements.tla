---------------------------- MODULE MCStatements -----------------------------
(* Function bodies: every loop, switch and if around every statement that  *)
(* may leave it, two levels deep, with statements after the inner one; and *)
(* bodies that jump into loops or that C does not allow.                   *)
EXTENDS Lowered

CONSTANTS a, b, c, d, l, m

T(kind, name) == <<[kind |-> kind, name |-> name, lo |-> 0, hi |-> 0]>>
Case(lo, hi) == <<[kind |-> "case", name |-> a, lo |-> lo, hi |-> hi]>>

B(s) == T("{", a) \o s \o T("}", a)

Do(s) == T("do", a) \o s \o T("while", d) \o T(";", a)

(* A continue in s belongs to a loop around s.                             *)
Continues(s) == /\ \E n \in DOMAIN s : s[n].kind = "continue"
                /\ s[1].kind \notin {"while", "for", "forever"}

(* No continue of a do: it goes to the body's beginning (parse.c:2483).    *)
Wraps(s) ==
  { T("if", c) \o s,
    T("if", c) \o s \o T("else", a) \o T("expr", b),
    T("if", c) \o T(";", a) \o T("else", a) \o s,
    T("while", c) \o s,
    T("for", c) \o s,
    T("forever", c) \o s,
    T("switch", c) \o B(Case(1, 1) \o s \o T("default", a) \o T("expr", b)),
    T("switch", c) \o s }
  \cup {Do(t) : t \in {t \in {s} : ~ Continues(t)}}

WrapAll(S) == UNION {Wraps(s) : s \in S}

Leaves == {T("expr", a), T("break", a), T("continue", a), T(";", a)}
Inner == WrapAll(Leaves)
Follow == {B(s \o t) : s \in Inner, t \in {T("break", a), T("continue", a)}}
            \cup {B(s \o T("expr", b)) : s \in Inner}

(* Bodies no generator makes.                                              *)
Special == {
  (* Duff's device *)
  T("switch", c) \o B(Case(0, 0) \o Do(B(T("expr", a) \o Case(1, 1) \o T("expr", b)))),
  (* a default in front, and two cases that share a statement *)
  T("switch", c) \o B(T("default", a) \o T("expr", a) \o Case(1, 1) \o Case(0, 0) \o T("expr", b)),
  T("switch", c) \o B(Case(0, 1) \o T("break", a) \o Case(2, 2) \o T("expr", b)),
  (* an inner switch does not see the outer one's cases, nor its default *)
  T("switch", c) \o B(Case(0, 0) \o T("switch", d) \o B(Case(0, 0) \o T("expr", a))
                      \o T("default", a) \o T("expr", b) \o Case(1, 2) \o T("expr", c)),
  (* goto into a loop, out of it, and back; a label nothing goes to *)
  T("goto", l) \o T("while", c) \o B(T("expr", a) \o T("label", l) \o T("expr", b)),
  T("for", c) \o B(T("goto", m) \o T("label", l) \o T("expr", a)) \o T("label", m)
    \o T("if", d) \o T("goto", l),
  T("label", l) \o T("expr", a) \o T("if", c) \o T("goto", l) \o T("if", d) \o T("goto", l) \o T("label", m) \o T(";", a),
  T("label", l) \o T("goto", l),
  T("if", c) \o T("return", a) \o T("expr", a),
  (* what C does not allow *)
  T("goto", l),
  T("label", l) \o T("label", l) \o T("expr", a),
  Case(0, 0) \o T("expr", a),
  T("switch", c) \o B(Case(2, 1) \o T("expr", a)),
  T("switch", c) \o B(Case(0, 1) \o Case(1, 2) \o T("expr", a)),
  T("switch", c) \o B(Case(1, 1) \o T("while", d) \o Case(1, 1) \o T("expr", a)),
  T("switch", c) \o B(T("default", a) \o T("default", a) \o T("expr", a)),
  T("switch", c) \o B(T("expr", a)) \o Case(0, 0) \o T("expr", a),
  T("else", a) \o T("expr", a),
  T("do", a) \o T("expr", a) \o T("expr", b),
  B(T("while", c)) }

Whole(s) == B(s \o T("expr", d))

MCPrograms == {Whole(s) : s \in Inner \cup WrapAll(Inner) \cup WrapAll(WrapAll(Inner)) \cup WrapAll(Follow) \cup Special}
                \cup {T("{", a) \o T("expr", a), T("{", a) \o T("if", c)}
=============================================================================
