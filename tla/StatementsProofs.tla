-------------------------- MODULE StatementsProofs ---------------------------
(***************************************************************************)
(* Proofs about Statements, for every set of function bodies: TypeOK, and  *)
(* that break, continue and case belong to the innermost loop or switch    *)
(* being read.  The second needs to be known of the labels each frame has  *)
(* saved, too: they are those of the frames around it (Saved).             *)
(***************************************************************************)
EXTENDS Statements, TLAPS, SequenceTheorems

Saved(s) ==
  \A n \in 1..Len(s) :
    /\ s[n].at \in Breakable => BreaksAt(s, n + 1, s[n].obreak)
    /\ s[n].at \in Loops => ContinuesAt(s, n + 1, s[n].ocontinue)
    /\ s[n].at = "switch" => (s[n].ocases # <<>> <=> InSwitch(s, n + 1))

(* What is left to be read inside of the frames s has the right labels now *)
(* and when the frames inside have returned.                               *)
Scoped(s, cont, brk, cs) ==
  /\ ContinuesAt(s, 1, cont)
  /\ BreaksAt(s, 1, brk)
  /\ cs # <<>> <=> InSwitch(s, 1)
  /\ Saved(s)

IInv == TypeOK /\ Scoped(stack, lcontinue, lbreak, cases)

------------------------------------------------------------------------------
(* Stacks as sequences. *)

IsSeq(s) == s \in Seq({s[n] : n \in 1..Len(s)})

LEMMA SeqIsSeq == ASSUME NEW S, NEW s \in Seq(S) PROVE IsSeq(s)
<1>1. Len(s) \in Nat /\ s \in [1..Len(s) -> S]
  OBVIOUS
<1>2. s \in [1..Len(s) -> {s[n] : n \in 1..Len(s)}]
  BY <1>1
<1> QED BY <1>1, <1>2, SeqDef DEF IsSeq

(* t is s with a frame on top: frame 1 is new, those of s move up by one.  *)
Above(s, t) ==
  /\ Len(s) \in Nat /\ Len(t) = Len(s) + 1
  /\ \A n \in 1..Len(s) : t[n + 1] = s[n]

LEMMA Pushed ==
  ASSUME NEW s, NEW f, NEW t, IsSeq(s), t = <<f>> \o s
  PROVE  IsSeq(t) /\ Above(s, t) /\ t[1] = f /\ t # <<>> /\ Tail(t) = s
<1> DEFINE S == {s[n] : n \in 1..Len(s)} \cup {f}
<1>1. s \in Seq({s[n] : n \in 1..Len(s)})
  BY DEF IsSeq
<1>2. s \in Seq(S) /\ <<f>> \in Seq(S)
  BY <1>1
<1> HIDE DEF S
<1>3. t \in Seq(S)
  BY <1>2
<1>4. IsSeq(t)
  BY <1>3, SeqIsSeq
<1>5. Len(t) = Len(s) + 1 /\ Len(s) \in Nat /\ t[1] = f
  BY <1>2
<1>6. \A n \in 1..Len(s) : t[n + 1] = s[n]
  BY <1>2
<1>7. t # <<>>
  BY <1>2, <1>3, <1>5
<1>8. Tail(t) = s
  <2>1. Tail(t) \in Seq(S) /\ Len(Tail(t)) = Len(s)
    BY <1>2, <1>3, <1>5, <1>7
  <2>2. \A n \in 1..Len(s) : Tail(t)[n] = s[n]
    BY <1>3, <1>5, <1>6, <1>7
  <2> QED BY <1>2, <2>1, <2>2, SeqEqual
<1> QED BY <1>4, <1>5, <1>6, <1>7, <1>8 DEF Above

LEMMA Popped ==
  ASSUME NEW t, IsSeq(t), t # <<>>
  PROVE  IsSeq(Tail(t)) /\ Above(Tail(t), t) /\ Len(t) \in Nat \ {0}
<1> DEFINE S == {t[n] : n \in 1..Len(t)}
<1>1. t \in Seq(S)
  BY DEF IsSeq
<1> HIDE DEF S
<1>2. Tail(t) \in Seq(S)
  BY <1>1
<1>3. IsSeq(Tail(t))
  BY <1>2, SeqIsSeq
<1> QED BY <1>1, <1>3 DEF Above

(* A stack above another one, and back. *)
LEMMA Frames ==
  ASSUME NEW s, NEW t, NEW k \in Nat, NEW l \in Nat, k <= l,
         IsSeq(s), IsSeq(t), Above(s, t)
  PROVE  /\ IsStack(s, k) /\ FrameOK(t[1], l) => IsStack(t, l)
         /\ IsStack(t, k) => IsStack(s, k) /\ FrameOK(t[1], k)
<1>1. \A f : FrameOK(f, k) => FrameOK(f, l)
  BY DEF FrameOK
<1>2. ASSUME IsStack(s, k), FrameOK(t[1], l) PROVE IsStack(t, l)
  <2>1. ASSUME NEW n \in 1..Len(t) PROVE FrameOK(t[n], l)
    <3>1. CASE n = 1
      BY <3>1, <1>2
    <3>2. CASE n # 1
      <4>1. n - 1 \in 1..Len(s) /\ (n - 1) + 1 = n
        BY <3>2 DEF Above
      <4>2. t[n] = s[n - 1]
        BY <4>1 DEF Above
      <4> QED BY <4>1, <4>2, <1>1, <1>2 DEF IsStack
    <3> QED BY <3>1, <3>2
  <2> QED BY <2>1 DEF IsStack, IsSeq
<1>3. ASSUME IsStack(t, k) PROVE IsStack(s, k) /\ FrameOK(t[1], k)
  <2>1. ASSUME NEW n \in 1..Len(s) PROVE FrameOK(s[n], k)
    <3>1. n + 1 \in 1..Len(t) /\ t[n + 1] = s[n]
      BY DEF Above
    <3> QED BY <3>1, <1>3 DEF IsStack
  <2>2. 1 \in 1..Len(t)
    BY DEF Above
  <2> QED BY <2>1, <2>2, <1>3 DEF IsStack, IsSeq
<1> QED BY <1>2, <1>3

(* Nothing that is said of a stack's frames depends on where they are. *)
LEMMA InnermostAbove ==
  ASSUME NEW s, NEW t, Above(s, t), NEW m \in Nat \ {0}, NEW n \in Nat \ {0}, NEW K
  PROVE  Innermost(t, n + 1, m + 1, K) <=> Innermost(s, n, m, K)
<1>1. n + 1 \in m + 1..Len(t) <=> n \in m..Len(s)
  BY DEF Above
<1>2. ASSUME n \in m..Len(s)
      PROVE  (\A k \in m + 1..(n + 1) - 1 : t[k].at \notin K) <=> (\A k \in m..n - 1 : s[k].at \notin K)
  <2>1. ASSUME \A k \in m + 1..(n + 1) - 1 : t[k].at \notin K, NEW k \in m..n - 1 PROVE s[k].at \notin K
    <3>1. k + 1 \in m + 1..(n + 1) - 1 /\ k \in 1..Len(s)
      BY <1>2 DEF Above
    <3> QED BY <3>1, <2>1 DEF Above
  <2>2. ASSUME \A k \in m..n - 1 : s[k].at \notin K, NEW k \in m + 1..(n + 1) - 1 PROVE t[k].at \notin K
    <3>1. k - 1 \in m..n - 1 /\ k - 1 \in 1..Len(s) /\ (k - 1) + 1 = k
      BY <1>2 DEF Above
    <3>2. t[k] = s[k - 1]
      BY <3>1 DEF Above
    <3> QED BY <3>1, <3>2, <2>2
  <2> QED BY <2>1, <2>2
<1>3. n \in m..Len(s) => t[n + 1] = s[n]
  BY DEF Above
<1> QED BY <1>1, <1>2, <1>3 DEF Innermost

LEMMA ScopesAbove ==
  ASSUME NEW s, NEW t, Above(s, t), NEW m \in Nat \ {0}, NEW l
  PROVE  /\ ContinuesAt(t, m + 1, l) <=> ContinuesAt(s, m, l)
         /\ BreaksAt(t, m + 1, l) <=> BreaksAt(s, m, l)
         /\ InSwitch(t, m + 1) <=> InSwitch(s, m)
<1>1. ASSUME NEW n \in m..Len(s) PROVE n + 1 \in m + 1..Len(t) /\ t[n + 1] = s[n] /\ n \in Nat \ {0}
  BY DEF Above
<1>2. ASSUME NEW n \in m + 1..Len(t)
      PROVE  n - 1 \in m..Len(s) /\ t[n] = s[n - 1] /\ n - 1 \in Nat \ {0} /\ (n - 1) + 1 = n
  <2>1. n - 1 \in m..Len(s) /\ n - 1 \in 1..Len(s) /\ (n - 1) + 1 = n
    BY DEF Above
  <2> QED BY <2>1 DEF Above
<1>3. ASSUME NEW n \in m..Len(s), NEW K PROVE Innermost(t, n + 1, m + 1, K) <=> Innermost(s, n, m, K)
  BY <1>1, InnermostAbove
<1>4. ASSUME NEW n \in m + 1..Len(t), NEW K PROVE Innermost(t, n, m + 1, K) <=> Innermost(s, n - 1, m, K)
  <2>1. n - 1 \in m..Len(s) /\ (n - 1) + 1 = n
    BY <1>2
  <2>2. Innermost(t, (n - 1) + 1, m + 1, K) <=> Innermost(s, n - 1, m, K)
    BY <2>1, <1>3
  <2> QED BY <2>1, <2>2
<1>5. ASSUME NEW K
      PROVE  (\A n \in m + 1..Len(t) : t[n].at \notin K) <=> (\A n \in m..Len(s) : s[n].at \notin K)
  <2>1. ASSUME \A n \in m + 1..Len(t) : t[n].at \notin K, NEW n \in m..Len(s) PROVE s[n].at \notin K
    BY <2>1, <1>1
  <2>2. ASSUME \A n \in m..Len(s) : s[n].at \notin K, NEW n \in m + 1..Len(t) PROVE t[n].at \notin K
    BY <2>2, <1>2
  <2> QED BY <2>1, <2>2
<1>6. ContinuesAt(t, m + 1, l) <=> ContinuesAt(s, m, l)
  <2>1. ASSUME ContinuesAt(t, m + 1, l), NEW n \in m..Len(s), Innermost(s, n, m, Loops)
        PROVE  l = ContinueLabel(s[n])
    <3>1. n + 1 \in m + 1..Len(t) /\ t[n + 1] = s[n] /\ Innermost(t, n + 1, m + 1, Loops)
      BY <2>1, <1>1, <1>3
    <3>2. l = ContinueLabel(t[n + 1])
      BY <3>1, <2>1 DEF ContinuesAt
    <3> QED BY <3>1, <3>2
  <2>2. ASSUME ContinuesAt(s, m, l), NEW n \in m + 1..Len(t), Innermost(t, n, m + 1, Loops)
        PROVE  l = ContinueLabel(t[n])
    <3>1. n - 1 \in m..Len(s) /\ t[n] = s[n - 1] /\ Innermost(s, n - 1, m, Loops)
      BY <2>2, <1>2, <1>4
    <3>2. l = ContinueLabel(s[n - 1])
      BY <3>1, <2>2 DEF ContinuesAt
    <3> QED BY <3>1, <3>2
  <2> QED BY <2>1, <2>2, <1>5 DEF ContinuesAt
<1>7. BreaksAt(t, m + 1, l) <=> BreaksAt(s, m, l)
  <2>1. ASSUME BreaksAt(t, m + 1, l), NEW n \in m..Len(s), Innermost(s, n, m, Breakable)
        PROVE  l = s[n].end
    <3>1. n + 1 \in m + 1..Len(t) /\ t[n + 1] = s[n] /\ Innermost(t, n + 1, m + 1, Breakable)
      BY <2>1, <1>1, <1>3
    <3>2. l = t[n + 1].end
      BY <3>1, <2>1 DEF BreaksAt
    <3> QED BY <3>1, <3>2
  <2>2. ASSUME BreaksAt(s, m, l), NEW n \in m + 1..Len(t), Innermost(t, n, m + 1, Breakable)
        PROVE  l = t[n].end
    <3>1. n - 1 \in m..Len(s) /\ t[n] = s[n - 1] /\ Innermost(s, n - 1, m, Breakable)
      BY <2>2, <1>2, <1>4
    <3>2. l = s[n - 1].end
      BY <3>1, <2>2 DEF BreaksAt
    <3> QED BY <3>1, <3>2
  <2> QED BY <2>1, <2>2, <1>5 DEF BreaksAt
<1>8. InSwitch(t, m + 1) <=> InSwitch(s, m)
  BY <1>1, <1>2 DEF InSwitch
<1> QED BY <1>6, <1>7, <1>8

(* The frame on top decides if it is of the kind that is looked for, else  *)
(* the frames below it do.                                                 *)
LEMMA ScopesTop ==
  ASSUME NEW s, NEW t, Above(s, t), NEW l
  PROVE  /\ t[1].at \in Loops => (ContinuesAt(t, 1, l) <=> l = ContinueLabel(t[1]))
         /\ t[1].at \notin Loops => (ContinuesAt(t, 1, l) <=> ContinuesAt(s, 1, l))
         /\ t[1].at \in Breakable => (BreaksAt(t, 1, l) <=> l = t[1].end)
         /\ t[1].at \notin Breakable => (BreaksAt(t, 1, l) <=> BreaksAt(s, 1, l))
         /\ InSwitch(t, 1) <=> t[1].at = "switch" \/ InSwitch(s, 1)
<1>1. 1 \in 1..Len(t) /\ Len(t) \in Nat /\ 1 + 1 = 2 /\ \A n \in 1..Len(t) : n = 1 \/ n \in 2..Len(t)
  BY DEF Above
<1>2. \A n \in 2..Len(t) : n \in 1..Len(t) /\ n - 1 \in 1..n - 1 /\ 1 \in 1..n - 1
  BY <1>1
<1>3. ASSUME NEW K, t[1].at \in K
      PROVE  \A n \in 1..Len(t) : Innermost(t, n, 1, K) <=> n = 1
  <2>1. Innermost(t, 1, 1, K)
    BY <1>1, <1>3 DEF Innermost
  <2>2. \A n \in 2..Len(t) : ~ Innermost(t, n, 1, K)
    BY <1>2, <1>3 DEF Innermost
  <2> QED BY <1>1, <2>1, <2>2
<1>4. ASSUME NEW K, t[1].at \notin K
      PROVE  /\ ~ Innermost(t, 1, 1, K)
             /\ \A n \in 2..Len(t) : Innermost(t, n, 1, K) <=> Innermost(t, n, 2, K)
  <2>1. ~ Innermost(t, 1, 1, K)
    BY <1>4 DEF Innermost
  <2>2. ASSUME NEW n \in 2..Len(t) PROVE Innermost(t, n, 1, K) <=> Innermost(t, n, 2, K)
    <3>1. \A k \in 1..n - 1 : k = 1 \/ k \in 2..n - 1
      BY <1>1
    <3>2. \A k \in 2..n - 1 : k \in 1..n - 1
      BY <1>1
    <3> QED BY <1>2, <1>4, <3>1, <3>2 DEF Innermost
  <2> QED BY <2>1, <2>2
<1>5. t[1].at \in Loops => (ContinuesAt(t, 1, l) <=> l = ContinueLabel(t[1]))
  BY <1>1, <1>3 DEF ContinuesAt
<1>6. t[1].at \in Breakable => (BreaksAt(t, 1, l) <=> l = t[1].end)
  BY <1>1, <1>3 DEF BreaksAt
<1>7. t[1].at \notin Loops => (ContinuesAt(t, 1, l) <=> ContinuesAt(t, 2, l))
  BY <1>1, <1>2, <1>4 DEF ContinuesAt
<1>8. t[1].at \notin Breakable => (BreaksAt(t, 1, l) <=> BreaksAt(t, 2, l))
  BY <1>1, <1>2, <1>4 DEF BreaksAt
<1>9. InSwitch(t, 1) <=> t[1].at = "switch" \/ InSwitch(t, 2)
  BY <1>1, <1>2 DEF InSwitch
<1>10. /\ ContinuesAt(t, 2, l) <=> ContinuesAt(s, 1, l)
       /\ BreaksAt(t, 2, l) <=> BreaksAt(s, 1, l)
       /\ InSwitch(t, 2) <=> InSwitch(s, 1)
  BY <1>1, ScopesAbove
<1> QED BY <1>5, <1>6, <1>7, <1>8, <1>9, <1>10

(* What the frame f has saved are the labels of the frames s around it.    *)
SavedBy(f, s) ==
  /\ f.at \in Breakable => BreaksAt(s, 1, f.obreak)
  /\ f.at \in Loops => ContinuesAt(s, 1, f.ocontinue)
  /\ f.at = "switch" => (f.ocases # <<>> <=> InSwitch(s, 1))

LEMMA SavedAbove ==
  ASSUME NEW s, NEW t, Above(s, t)
  PROVE  Saved(t) <=> Saved(s) /\ SavedBy(t[1], s)
<1> DEFINE P(r, n) == /\ r[n].at \in Breakable => BreaksAt(r, n + 1, r[n].obreak)
                      /\ r[n].at \in Loops => ContinuesAt(r, n + 1, r[n].ocontinue)
                      /\ r[n].at = "switch" => (r[n].ocases # <<>> <=> InSwitch(r, n + 1))
<1>1. P(t, 1) <=> SavedBy(t[1], s)
  <2>1. \A l : /\ ContinuesAt(t, 1 + 1, l) <=> ContinuesAt(s, 1, l)
               /\ BreaksAt(t, 1 + 1, l) <=> BreaksAt(s, 1, l)
               /\ InSwitch(t, 1 + 1) <=> InSwitch(s, 1)
    BY ScopesAbove
  <2> QED BY <2>1 DEF SavedBy
<1>2. ASSUME NEW n \in 1..Len(s) PROVE P(t, n + 1) <=> P(s, n)
  <2>1. n + 1 \in Nat \ {0} /\ t[n + 1] = s[n]
    BY DEF Above
  <2>2. \A l : /\ ContinuesAt(t, (n + 1) + 1, l) <=> ContinuesAt(s, n + 1, l)
               /\ BreaksAt(t, (n + 1) + 1, l) <=> BreaksAt(s, n + 1, l)
               /\ InSwitch(t, (n + 1) + 1) <=> InSwitch(s, n + 1)
    BY <2>1, ScopesAbove
  <2> QED BY <2>1, <2>2
<1> HIDE DEF P
<1>3. (\A n \in 1..Len(t) : P(t, n)) <=> P(t, 1) /\ \A n \in 1..Len(s) : P(t, n + 1)
  <2>1. 1 \in 1..Len(t) /\ \A n \in 1..Len(s) : n + 1 \in 1..Len(t)
    BY DEF Above
  <2>2. \A n \in 1..Len(t) : n = 1 \/ (n - 1 \in 1..Len(s) /\ (n - 1) + 1 = n)
    BY DEF Above
  <2>3. ASSUME P(t, 1), \A n \in 1..Len(s) : P(t, n + 1), NEW n \in 1..Len(t) PROVE P(t, n)
    <3>1. CASE n = 1
      BY <3>1, <2>3
    <3>2. CASE n # 1
      <4>1. n - 1 \in 1..Len(s) /\ (n - 1) + 1 = n
        BY <3>2, <2>2
      <4>2. P(t, (n - 1) + 1)
        BY <4>1, <2>3
      <4> QED BY <4>1, <4>2
    <3> QED BY <3>1, <3>2
  <2> QED BY <2>1, <2>3
<1>4. Saved(t) <=> \A n \in 1..Len(t) : P(t, n)
  BY DEF Saved, P
<1>5. Saved(s) <=> \A n \in 1..Len(s) : P(s, n)
  BY DEF Saved, P
<1> QED BY <1>1, <1>2, <1>3, <1>4, <1>5

(* How the labels change when a frame comes or goes. *)
LEMMA PlainScoped ==
  ASSUME NEW s, NEW t, Above(s, t), NEW c, NEW b, NEW cs, t[1].at \notin Breakable
  PROVE  Scoped(t, c, b, cs) <=> Scoped(s, c, b, cs)
<1>1. t[1].at \notin Loops /\ t[1].at # "switch"
  BY DEF Breakable
<1>2. SavedBy(t[1], s)
  BY <1>1 DEF SavedBy
<1> QED BY <1>1, <1>2, ScopesTop, SavedAbove DEF Scoped

LEMMA LoopScoped ==
  ASSUME NEW s, NEW t, Above(s, t), NEW c, NEW b, NEW cs, t[1].at \in Loops
  PROVE  Scoped(t, c, b, cs) <=> /\ Scoped(s, t[1].ocontinue, t[1].obreak, cs)
                                 /\ c = ContinueLabel(t[1]) /\ b = t[1].end
<1>1. t[1].at \in Breakable /\ t[1].at # "switch"
  BY DEF Loops, Breakable
<1>2. SavedBy(t[1], s) <=> BreaksAt(s, 1, t[1].obreak) /\ ContinuesAt(s, 1, t[1].ocontinue)
  BY <1>1 DEF SavedBy
<1>3. InSwitch(t, 1) <=> InSwitch(s, 1)
  BY <1>1, ScopesTop
<1> QED BY <1>1, <1>2, <1>3, ScopesTop, SavedAbove DEF Scoped

LEMMA SwitchScoped ==
  ASSUME NEW s, NEW t, Above(s, t), NEW c, NEW b, NEW cs, t[1].at = "switch"
  PROVE  Scoped(t, c, b, cs) <=> /\ Scoped(s, c, t[1].obreak, t[1].ocases)
                                 /\ b = t[1].end /\ cs # <<>>
<1>1. t[1].at \in Breakable /\ t[1].at \notin Loops
  BY DEF Loops, Breakable
<1>2. SavedBy(t[1], s) <=> /\ BreaksAt(s, 1, t[1].obreak)
                           /\ t[1].ocases # <<>> <=> InSwitch(s, 1)
  BY <1>1 DEF SavedBy
<1>3. InSwitch(t, 1)
  BY <1>1, ScopesTop
<1> QED BY <1>1, <1>2, <1>3, ScopesTop, SavedAbove DEF Scoped

------------------------------------------------------------------------------
(* The three things a step does to the stack. *)

LEMMA PushStep ==
  ASSUME TypeOK, NEW f, NEW k \in Nat, nlabels <= k, FrameOK(f, k), stack' = <<f>> \o stack
  PROVE  IsStack(stack', k) /\ Above(stack, stack') /\ stack'[1] = f /\ stack' # <<>>
<1>1. IsSeq(stack) /\ nlabels \in Nat /\ IsStack(stack, nlabels)
  BY DEF TypeOK, IsStack, IsSeq
<1>2. IsSeq(stack') /\ Above(stack, stack') /\ stack'[1] = f /\ stack' # <<>>
  BY <1>1, Pushed
<1> QED BY <1>1, <1>2, Frames

LEMMA PopStep ==
  ASSUME TypeOK, stack # <<>>, stack' = Tail(stack)
  PROVE  IsStack(stack', nlabels) /\ Above(stack', stack) /\ FrameOK(stack[1], nlabels)
<1>1. IsSeq(stack) /\ nlabels \in Nat /\ IsStack(stack, nlabels)
  BY DEF TypeOK, IsStack, IsSeq
<1>2. IsSeq(stack') /\ Above(stack', stack)
  BY <1>1, Popped
<1> QED BY <1>1, <1>2, Frames

LEMMA ReplaceStep ==
  ASSUME TypeOK, stack # <<>>, NEW f, FrameOK(f, nlabels), stack' = <<f>> \o Tail(stack)
  PROVE  /\ IsStack(stack', nlabels) /\ stack'[1] = f /\ stack' # <<>>
         /\ Above(Tail(stack), stack) /\ Above(Tail(stack), stack')
<1>1. IsSeq(stack) /\ nlabels \in Nat /\ IsStack(stack, nlabels)
  BY DEF TypeOK, IsStack, IsSeq
<1>2. IsSeq(Tail(stack)) /\ Above(Tail(stack), stack)
  BY <1>1, Popped
<1>3. IsStack(Tail(stack), nlabels)
  BY <1>1, <1>2, Frames
<1>4. IsSeq(stack') /\ Above(Tail(stack), stack') /\ stack'[1] = f /\ stack' # <<>>
  BY <1>2, Pushed
<1>5. nlabels <= nlabels /\ FrameOK(stack'[1], nlabels)
  BY <1>1, <1>4
<1>6. IsStack(stack', nlabels)
  BY <1>1, <1>2, <1>3, <1>4, <1>5, Frames
<1> QED BY <1>2, <1>4, <1>6

(* What is read next. *)
LEMMA TokenOK ==
  ASSUME TypeOK, input # <<>>
  PROVE  /\ Tok.name \in Names /\ Tok.lo \in Values /\ Tok.hi \in Values
         /\ Tail(input) \in Seq(Tokens)
<1>1. Tok \in Tokens /\ Tail(input) \in Seq(Tokens)
  BY DEF TypeOK, Tok
<1> QED BY <1>1 DEF Tokens

LEMMA InitInv == Init => IInv
<1> SUFFICES ASSUME Init PROVE IInv
  OBVIOUS
<1>1. program \in Seq(Tokens) /\ program # <<>> /\ input \in Seq(Tokens)
  BY ProgramAssumption DEF Init
<1> DEFINE f == Block(<<>>)
           s == <<>>
<1>2. f.at = "block" /\ FrameOK(f, 0)
  BY DEF Block, FrameOK, Loops, Breakable
<1> HIDE DEF f
<1>3. IsSeq(s) /\ stack = <<f>> \o s
  BY DEF Init, f, IsSeq
<1>4. IsSeq(stack) /\ Above(s, stack) /\ stack[1] = f /\ stack # <<>>
  BY <1>3, Pushed
<1>5. IsStack(s, 0)
  BY DEF IsStack
<1>6. IsStack(stack, 0)
  BY <1>2, <1>3, <1>4, <1>5, Frames
<1>7. TypeOK
  BY <1>1, <1>4, <1>6 DEF Init, TypeOK, IsCases
<1>8. Scoped(s, 0, 0, <<>>)
  BY DEF Scoped, ContinuesAt, BreaksAt, InSwitch, Saved
<1>9. Scoped(stack, 0, 0, <<>>)
  BY <1>2, <1>4, <1>8, PlainScoped DEF Breakable, Loops
<1> QED BY <1>7, <1>9 DEF Init, IInv

------------------------------------------------------------------------------
(* One lemma for the steps that read a token, one for those that get a     *)
(* statement, one for what follows the function body.                      *)

(* The variables a step that fails, or yields a statement, leaves alone.   *)
LEMMA YieldInv ==
  ASSUME IInv, NEW node, Yield(node), input # <<>>, labels' = labels, newlabel' = newlabel,
         gotos' \in Seq(Names)
  PROVE  IInv'
<1>1. input' \in Seq(Tokens)
  BY TokenOK DEF IInv, Yield, Advance
<1>2. TypeOK'
  BY <1>1 DEF IInv, Yield, TypeOK, jumpVars, switchVars
<1>3. Scoped(stack, lcontinue, lbreak, cases)'
  BY DEF IInv, Yield, jumpVars, switchVars
<1> QED BY <1>2, <1>3 DEF IInv

LEMMA FailInv == ASSUME IInv, Fail PROVE IInv'
<1>1. TypeOK'
  BY DEF IInv, Fail, TypeOK, jumpVars, switchVars, labelVars
<1> QED BY <1>1 DEF IInv, Fail, jumpVars, switchVars, labelVars

(* A block, an if or a label is entered; a case label adds to the cases.   *)
LEMMA EnterPlain ==
  ASSUME IInv, input # <<>>, NEW f, Push(f), f.at \in {"block", "then", "label"},
         nlabels' \in Nat, nlabels <= nlabels', UNCHANGED jumpVars, IsCases(cases'),
         cases' # <<>> <=> cases # <<>>, defaultcase' \in 0..nlabels',
         labels' \subseteq Names, UNCHANGED <<gotos, newlabel>>
  PROVE  IInv'
<1>1. f.at \notin Breakable /\ FrameOK(f, nlabels')
  BY DEF FrameOK, Breakable, Loops
<1>2. TypeOK /\ stack' = <<f>> \o stack
  BY DEF IInv, Push
<1>3. IsStack(stack', nlabels') /\ Above(stack, stack') /\ stack'[1] = f /\ stack' # <<>>
  BY <1>1, <1>2, PushStep
<1>4. input' \in Seq(Tokens)
  BY <1>2, TokenOK DEF Push, Advance
<1>5. TypeOK'
  BY <1>2, <1>3, <1>4 DEF TypeOK, Push, jumpVars
<1>6. Scoped(stack, lcontinue, lbreak, cases')
  BY DEF IInv, Scoped
<1>7. Scoped(stack', lcontinue', lbreak', cases')
  BY <1>1, <1>3, <1>6, PlainScoped DEF jumpVars
<1> QED BY <1>5, <1>7 DEF IInv

LEMMA EnterLoop ==
  ASSUME IInv, input # <<>>, NEW f, Push(f), f.at \in Loops, nlabels' \in Nat, nlabels <= nlabels',
         FrameOK(f, nlabels'), f.ocontinue = lcontinue, f.obreak = lbreak,
         lcontinue' = ContinueLabel(f), lbreak' = f.end,
         UNCHANGED <<switchVars, labelVars>>
  PROVE  IInv'
<1>1. TypeOK /\ stack' = <<f>> \o stack
  BY DEF IInv, Push
<1>2. IsStack(stack', nlabels') /\ Above(stack, stack') /\ stack'[1] = f /\ stack' # <<>>
  BY <1>1, PushStep
<1>3. input' \in Seq(Tokens)
  BY <1>1, TokenOK DEF Push, Advance
<1>4. lcontinue' \in 0..nlabels' /\ lbreak' \in 0..nlabels'
  BY DEF FrameOK, ContinueLabel, Loops, Breakable
<1>5. TypeOK'
  BY <1>1, <1>2, <1>3, <1>4 DEF TypeOK, Push, switchVars, labelVars
<1>6. Scoped(stack', lcontinue', lbreak', cases')
  BY <1>2, LoopScoped DEF IInv, switchVars
<1> QED BY <1>5, <1>6 DEF IInv

(* The steps of read_stmt. *)
ReadStmt ==
  \/ ReadExpr \/ ReadBlock \/ CloseBlock \/ ReadNothing \/ ReadIf
  \/ ReadWhileOrDo \/ ReadFor \/ ReadSwitch \/ ReadCase \/ ReadDefault \/ ReadLabel
  \/ ReadBreak \/ ReadContinue \/ ReadGoto \/ ReadStray

LEMMA ReadInv == ASSUME IInv, ReadStmt PROVE IInv'
<1>t. TypeOK /\ nlabels \in Nat /\ gotos \in Seq(Names) /\ labels \subseteq Names
      /\ IsCases(cases) /\ defaultcase \in 0..nlabels
      /\ lcontinue \in 0..nlabels /\ lbreak \in 0..nlabels
  BY DEF IInv, TypeOK
<1>n. nlabels + 1 \in Nat /\ nlabels + 2 \in Nat /\ nlabels + 3 \in Nat
  BY <1>t
<1>1. CASE ReadExpr
  BY <1>1, <1>t, YieldInv DEF ReadExpr, Reads, NextIs, labelVars
<1>2. CASE ReadBlock
  <2>1. Push(Block(<<>>)) /\ input # <<>>
    BY <1>2 DEF ReadBlock, Reads, NextIs
  <2>2. Block(<<>>).at \in {"block", "then", "label"}
    BY DEF Block
  <2>3. UNCHANGED <<jumpVars, cases, defaultcase, labels, gotos, newlabel, nlabels>>
    BY <1>2 DEF ReadBlock, switchVars, labelVars
  <2> QED BY <2>1, <2>2, <2>3, <1>t, EnterPlain
<1>3. CASE CloseBlock
  <2>1. stack # <<>> /\ input # <<>> /\ stack' = Tail(stack) /\ Frame.at = "block"
    BY <1>3, <1>t DEF CloseBlock, Reads, NextIs, TypeOK
  <2>2. IsStack(stack', nlabels) /\ Above(stack', stack) /\ stack[1].at \notin Breakable
    BY <2>1, <1>t, PopStep DEF Frame, Breakable, Loops
  <2>3. input' \in Seq(Tokens)
    BY <1>3, <1>t, <2>1, TokenOK DEF CloseBlock, Advance
  <2>4. TypeOK'
    BY <1>3, <1>t, <2>2, <2>3 DEF CloseBlock, TypeOK, jumpVars, switchVars, labelVars
  <2>5. Scoped(stack', lcontinue', lbreak', cases')
    BY <1>3, <2>2, PlainScoped DEF IInv, CloseBlock, jumpVars, switchVars
  <2> QED BY <2>4, <2>5 DEF IInv
<1>4. CASE ReadNothing
  BY <1>4, FailInv DEF ReadNothing
<1>5. CASE ReadIf
  <2> DEFINE f == [at |-> "then", cond |-> Tok.name]
  <2>1. Push(f) /\ input # <<>> /\ f.at \in {"block", "then", "label"}
    BY <1>5 DEF ReadIf, Reads, NextIs
  <2>2. UNCHANGED <<jumpVars, cases, defaultcase, labels, gotos, newlabel, nlabels>>
    BY <1>5 DEF ReadIf, switchVars, labelVars
  <2> HIDE DEF f
  <2> QED BY <2>1, <2>2, <1>t, EnterPlain
<1>6. CASE ReadWhileOrDo
  <2> DEFINE f == Loop(Tok.kind, Tok.name, nlabels + 1, 0, nlabels + 2)
  <2>1. Push(f) /\ input # <<>> /\ Tok.kind \in {"while", "do"}
    BY <1>6 DEF ReadWhileOrDo, Reads, NextIs
  <2>2. /\ f.at \in {"while", "do"} /\ f.ocontinue = lcontinue /\ f.obreak = lbreak
        /\ f.beg = nlabels + 1 /\ f.end = nlabels + 2
    BY <2>1 DEF Loop
  <2>3. nlabels' = nlabels + 2 /\ lcontinue' = nlabels + 1 /\ lbreak' = nlabels + 2
        /\ UNCHANGED <<switchVars, labelVars>>
    BY <1>6 DEF ReadWhileOrDo, SetJumpLabels
  <2> HIDE DEF f
  <2>4. f.at \in Loops /\ FrameOK(f, nlabels') /\ ContinueLabel(f) = nlabels + 1
    BY <2>2, <2>3, <1>t DEF FrameOK, Loops, Breakable, ContinueLabel
  <2> QED BY <1>n, <1>t, <2>1, <2>2, <2>3, <2>4, EnterLoop
<1>7. CASE ReadFor
  <2> DEFINE f == Loop(Tok.kind, Tok.name, nlabels + 1, nlabels + 2, nlabels + 3)
  <2>1. Push(f) /\ input # <<>> /\ Tok.kind \in {"for", "forever"}
    BY <1>7 DEF ReadFor, Reads, NextIs
  <2>2. /\ f.at \in {"for", "forever"} /\ f.ocontinue = lcontinue /\ f.obreak = lbreak
        /\ f.mid = nlabels + 2 /\ f.end = nlabels + 3
    BY <2>1 DEF Loop
  <2>3. nlabels' = nlabels + 3 /\ lcontinue' = nlabels + 2 /\ lbreak' = nlabels + 3
        /\ UNCHANGED <<switchVars, labelVars>>
    BY <1>7 DEF ReadFor, SetJumpLabels
  <2> HIDE DEF f
  <2>4. f.at \in Loops /\ FrameOK(f, nlabels') /\ ContinueLabel(f) = nlabels + 2
    BY <2>2, <2>3, <1>t DEF FrameOK, Loops, Breakable, ContinueLabel
  <2> QED BY <1>n, <1>t, <2>1, <2>2, <2>3, <2>4, EnterLoop
<1>8. CASE ReadSwitch
  <2> DEFINE f == [at |-> "switch", cond |-> Tok.name, end |-> nlabels + 1,
                   ocases |-> cases, odefault |-> defaultcase, obreak |-> lbreak]
  <2>1. Push(f) /\ input # <<>> /\ stack' = <<f>> \o stack
    BY <1>8 DEF ReadSwitch, Reads, NextIs, Push
  <2>2. /\ f.at = "switch" /\ f.end = nlabels + 1 /\ f.obreak = lbreak
        /\ f.ocases = cases /\ f.odefault = defaultcase
    OBVIOUS
  <2>3. /\ nlabels' = nlabels + 1 /\ cases' = <<<<>>>> /\ defaultcase' = 0
        /\ lbreak' = nlabels + 1 /\ UNCHANGED <<lcontinue, labels, gotos, newlabel>>
    BY <1>8 DEF ReadSwitch, labelVars
  <2> HIDE DEF f
  <2>4. FrameOK(f, nlabels')
    BY <2>2, <2>3, <1>t DEF FrameOK, Loops, Breakable
  <2>5. IsStack(stack', nlabels') /\ Above(stack, stack') /\ stack'[1] = f /\ stack' # <<>>
    BY <1>n, <1>t, <2>1, <2>3, <2>4, PushStep
  <2>6. input' \in Seq(Tokens) /\ UNCHANGED <<program, ret, status>>
    BY <1>t, <2>1, TokenOK DEF Push, Advance
  <2>7. <<>> \in CaseLists /\ IsCases(cases') /\ cases' # <<>>
    BY <2>3 DEF IsCases, CaseLists
  <2>8. TypeOK'
    BY <1>t, <2>3, <2>5, <2>6, <2>7 DEF TypeOK
  <2>9. Scoped(stack', lcontinue', lbreak', cases')
    BY <2>2, <2>3, <2>5, <2>7, SwitchScoped DEF IInv
  <2> QED BY <2>8, <2>9 DEF IInv
<1>9. CASE ReadCase
  <2> DEFINE f == [at |-> "label", node |-> Dest(nlabels + 1)]
             r == [lo |-> Tok.lo, hi |-> Tok.hi, label |-> nlabels + 1]
  <2>1. Push(f) /\ input # <<>> /\ f.at \in {"block", "then", "label"}
    BY <1>9 DEF ReadCase, Reads, NextIs, PushLabel
  <2>2. /\ cases # <<>> /\ cases' = <<Append(cases[1], r)>>
        /\ nlabels' = nlabels + 1 /\ UNCHANGED <<jumpVars, defaultcase, labels, gotos, newlabel>>
    BY <1>9 DEF ReadCase, CaseOK, labelVars
  <2>3. r \in [lo : Values, hi : Values, label : Nat \ {0}]
    BY <1>t, <2>1, TokenOK
  <2> HIDE DEF f, r
  <2>4. cases[1] \in CaseLists
    BY <1>t, <2>2 DEF IsCases
  <2>5. Append(cases[1], r) \in CaseLists
    BY <2>3, <2>4 DEF CaseLists
  <2>6. IsCases(cases') /\ cases' # <<>>
    BY <2>2, <2>5 DEF IsCases
  <2>7. /\ nlabels' \in Nat /\ nlabels <= nlabels' /\ defaultcase' \in 0..nlabels'
        /\ labels' \subseteq Names /\ UNCHANGED <<jumpVars, gotos, newlabel>>
    BY <1>n, <1>t, <2>2
  <2> QED BY <2>1, <2>2, <2>6, <2>7, EnterPlain
<1>10. CASE ReadDefault
  <2> DEFINE f == [at |-> "label", node |-> Dest(nlabels + 1)]
  <2>1. Push(f) /\ input # <<>> /\ f.at \in {"block", "then", "label"}
    BY <1>10 DEF ReadDefault, Reads, NextIs, PushLabel
  <2>2. nlabels' = nlabels + 1 /\ defaultcase' = nlabels + 1
        /\ UNCHANGED <<jumpVars, cases, labels, gotos, newlabel>>
    BY <1>10 DEF ReadDefault, labelVars
  <2> HIDE DEF f
  <2> QED BY <1>n, <1>t, <2>1, <2>2, EnterPlain
<1>11. CASE ReadLabel
  <2> DEFINE f == [at |-> "label", node |-> [kind |-> "label", name |-> Tok.name]]
  <2>1. Push(f) /\ input # <<>> /\ f.at \in {"block", "then", "label"}
    BY <1>11 DEF ReadLabel, Reads, NextIs, PushLabel
  <2>2. labels' = labels \cup {Tok.name}
        /\ UNCHANGED <<jumpVars, cases, defaultcase, gotos, newlabel, nlabels>>
    BY <1>11 DEF ReadLabel, switchVars
  <2> HIDE DEF f
  <2>3. labels' \subseteq Names
    BY <1>t, <2>1, <2>2, TokenOK
  <2> QED BY <1>t, <2>1, <2>2, <2>3, EnterPlain
<1>12. CASE ReadBreak
  BY <1>12, <1>t, YieldInv DEF ReadBreak, Reads, NextIs, labelVars
<1>13. CASE ReadContinue
  BY <1>13, <1>t, YieldInv DEF ReadContinue, Reads, NextIs, labelVars
<1>14. CASE ReadGoto
  <2>1. Yield([kind |-> "goto", name |-> Tok.name]) /\ input # <<>>
        /\ gotos' = Append(gotos, Tok.name) /\ labels' = labels /\ newlabel' = newlabel
    BY <1>14 DEF ReadGoto, Reads, NextIs
  <2>2. gotos' \in Seq(Names)
    BY <1>t, <2>1, TokenOK
  <2> QED BY <2>1, <2>2, YieldInv
<1>15. CASE ReadStray
  BY <1>15, FailInv DEF ReadStray
<1> QED BY <1>1, <1>2, <1>3, <1>4, <1>5, <1>6, <1>7, <1>8, <1>9, <1>10, <1>11, <1>12,
           <1>13, <1>14, <1>15 DEF ReadStmt

------------------------------------------------------------------------------
(* A function that is not a loop or a switch returns.                      *)
LEMMA LeavePlain ==
  ASSUME IInv, NEW node, Return(node), stack # <<>>, Frame.at \notin Breakable,
         input' \in Seq(Tokens), UNCHANGED <<jumpVars, switchVars>>
  PROVE  IInv'
<1>1. TypeOK /\ stack' = Tail(stack)
  BY DEF IInv, Return
<1>2. IsStack(stack', nlabels) /\ Above(stack', stack)
  BY <1>1, PopStep
<1>3. TypeOK'
  BY <1>1, <1>2 DEF TypeOK, Return, jumpVars, switchVars, labelVars
<1>4. Scoped(stack', lcontinue', lbreak', cases')
  BY <1>2, PlainScoped DEF IInv, Frame, jumpVars, switchVars
<1> QED BY <1>3, <1>4 DEF IInv

LEMMA LeaveLoop ==
  ASSUME IInv, NEW node, Return(node), stack # <<>>, Frame.at \in Loops, RestoreJumpLabels,
         input' \in Seq(Tokens), UNCHANGED switchVars
  PROVE  IInv'
<1>1. TypeOK /\ stack' = Tail(stack)
  BY DEF IInv, Return
<1>2. IsStack(stack', nlabels) /\ Above(stack', stack) /\ FrameOK(Frame, nlabels)
  BY <1>1, PopStep DEF Frame
<1>3. Frame.ocontinue \in 0..nlabels /\ Frame.obreak \in 0..nlabels
  BY <1>2 DEF FrameOK, Loops, Breakable
<1>4. TypeOK'
  BY <1>1, <1>2, <1>3 DEF TypeOK, Return, RestoreJumpLabels, switchVars, labelVars
<1>5. Scoped(stack', lcontinue', lbreak', cases')
  BY <1>2, LoopScoped DEF IInv, Frame, RestoreJumpLabels, switchVars
<1> QED BY <1>4, <1>5 DEF IInv

(* A frame that is not a loop or a switch is replaced by another one.      *)
LEMMA StayPlain ==
  ASSUME IInv, NEW f, stack # <<>>, stack' = <<f>> \o Tail(stack), Frame.at \notin Breakable,
         f.at \in {"block", "else"}, input' \in Seq(Tokens), ret' = <<>>,
         UNCHANGED <<program, jumpVars, switchVars, labelVars, nlabels, status>>
  PROVE  IInv'
<1>1. TypeOK /\ FrameOK(f, nlabels) /\ f.at \notin Breakable
  BY DEF IInv, FrameOK, Breakable, Loops
<1>2. /\ IsStack(stack', nlabels) /\ stack'[1] = f /\ stack' # <<>>
      /\ Above(Tail(stack), stack) /\ Above(Tail(stack), stack')
  BY <1>1, ReplaceStep
<1>3. TypeOK'
  BY <1>1, <1>2 DEF TypeOK, jumpVars, switchVars, labelVars
<1>4. Scoped(Tail(stack), lcontinue, lbreak, cases)
  BY <1>2, PlainScoped DEF IInv, Frame
<1>5. Scoped(stack', lcontinue', lbreak', cases')
  BY <1>1, <1>2, <1>4, PlainScoped DEF jumpVars, switchVars
<1> QED BY <1>3, <1>5 DEF IInv

GotStmt ==
  \/ BlockGot \/ ThenGot \/ ElseGot \/ LabelGot \/ WhileGot \/ DoGot \/ DoNoTail
  \/ ForGot \/ SwitchGot

LEMMA GotInv == ASSUME IInv, GotStmt PROVE IInv'
<1>t. TypeOK /\ input \in Seq(Tokens) /\ nlabels \in Nat
  BY DEF IInv, TypeOK
<1>1. CASE BlockGot
  <2>1. /\ stack # <<>> /\ Frame.at \notin Breakable /\ ret' = <<>> /\ input' = input
        /\ stack' = <<Block(Frame.list \o Stmt(Node))>> \o Tail(stack)
        /\ UNCHANGED <<program, jumpVars, switchVars, labelVars, nlabels, status>>
    BY <1>1 DEF BlockGot, Got, Breakable, Loops
  <2>2. Block(Frame.list \o Stmt(Node)).at = "block"
    BY DEF Block
  <2> QED BY <1>t, <2>1, <2>2, StayPlain
<1>2. CASE ThenGot
  <2>1. /\ stack # <<>> /\ Frame.at \notin Breakable
        /\ UNCHANGED <<jumpVars, switchVars>>
    BY <1>2 DEF ThenGot, Got, Breakable, Loops
  <2>2. CASE NextIs("else")
    <3> DEFINE f == [at |-> "else", cond |-> Frame.cond, then |-> Node]
    <3>1. /\ stack' = <<f>> \o Tail(stack) /\ ret' = <<>> /\ f.at = "else" /\ input # <<>>
          /\ Advance /\ UNCHANGED <<program, labelVars, nlabels, status>>
      BY <1>2, <2>2 DEF ThenGot, NextIs
    <3> HIDE DEF f
    <3>2. input' \in Seq(Tokens)
      BY <1>t, <3>1, TokenOK DEF Advance
    <3> QED BY <2>1, <3>1, <3>2, StayPlain
  <2>3. CASE ~ NextIs("else")
    <3>1. Return(If(Test(Frame.cond), Node, NoNode)) /\ input' = input
      BY <1>2, <2>3 DEF ThenGot
    <3> QED BY <1>t, <2>1, <3>1, LeavePlain
  <2> QED BY <2>2, <2>3
<1>3. CASE ElseGot
  <2>1. /\ stack # <<>> /\ Frame.at \notin Breakable /\ input' = input
        /\ UNCHANGED <<jumpVars, switchVars>> /\ Return(If(Test(Frame.cond), Frame.then, Node))
    BY <1>3 DEF ElseGot, Got, Breakable, Loops
  <2> QED BY <1>t, <2>1, LeavePlain
<1>4. CASE LabelGot
  <2>1. /\ stack # <<>> /\ Frame.at \notin Breakable /\ input' = input
        /\ UNCHANGED <<jumpVars, switchVars>> /\ Return(Compound(<<Frame.node>> \o Stmt(Node)))
    BY <1>4 DEF LabelGot, Got, Breakable, Loops
  <2> QED BY <1>t, <2>1, LeavePlain
<1>5. CASE WhileGot
  <2>1. /\ stack # <<>> /\ Frame.at \in Loops /\ input' = input
        /\ RestoreJumpLabels /\ UNCHANGED switchVars
        /\ \E node : Return(node)
    BY <1>5 DEF WhileGot, Got, Loops
  <2> QED BY <1>t, <2>1, LeaveLoop
<1>6. CASE DoGot
  <2>1. /\ stack # <<>> /\ Frame.at \in Loops /\ RestoreJumpLabels /\ UNCHANGED switchVars
        /\ input # <<>> /\ Len(input) > 1 /\ input' = Tail(Tail(input))
        /\ \E node : Return(node)
    BY <1>6 DEF DoGot, Got, Loops, DoTail, NextIs
  <2>2. Tail(input) \in Seq(Tokens) /\ Tail(input) # <<>>
    BY <1>t, <2>1
  <2>3. input' \in Seq(Tokens)
    BY <2>1, <2>2
  <2> QED BY <2>1, <2>3, LeaveLoop
<1>7. CASE DoNoTail
  BY <1>7, FailInv DEF DoNoTail
<1>8. CASE ForGot
  <2>1. /\ stack # <<>> /\ Frame.at \in Loops /\ input' = input
        /\ RestoreJumpLabels /\ UNCHANGED switchVars /\ Return(ForNode(Frame, Stmt(Node)))
    BY <1>8 DEF ForGot, Got, Loops
  <2> QED BY <1>t, <2>1, LeaveLoop
<1>9. CASE SwitchGot
  <2>1. /\ stack # <<>> /\ stack[1].at = "switch"
        /\ cases' = stack[1].ocases /\ defaultcase' = stack[1].odefault
        /\ lbreak' = stack[1].obreak /\ lcontinue' = lcontinue /\ input' = input
    BY <1>9 DEF SwitchGot, Got, Frame
  <2>2. /\ stack' = Tail(stack) /\ ret' # <<>> /\ Len(ret') \in {0, 1}
        /\ UNCHANGED <<program, labelVars, nlabels, status>>
    BY <1>9 DEF SwitchGot, Return
  <2>3. IsStack(stack', nlabels) /\ Above(stack', stack) /\ FrameOK(stack[1], nlabels)
    BY <1>t, <2>1, <2>2, PopStep
  <2>4. IsCases(cases') /\ defaultcase' \in 0..nlabels /\ lbreak' \in 0..nlabels
    BY <2>1, <2>3 DEF FrameOK, Breakable
  <2>5. TypeOK'
    BY <1>t, <2>1, <2>2, <2>3, <2>4 DEF TypeOK, labelVars
  <2>6. Scoped(stack', lcontinue', lbreak', cases')
    BY <2>1, <2>3, SwitchScoped DEF IInv
  <2> QED BY <2>5, <2>6 DEF IInv
<1> QED BY <1>1, <1>2, <1>3, <1>4, <1>5, <1>6, <1>7, <1>8, <1>9 DEF GotStmt

LEMMA EndInv == ASSUME IInv, Backfill \/ StrayGoto \/ Finish PROVE IInv'
<1>t. TypeOK
  BY DEF IInv
<1>1. CASE Backfill
  <2>1. gotos[1] \in Names /\ Tail(gotos) \in Seq(Names) /\ nlabels \in Nat /\ stack = <<>>
    BY <1>1, <1>t DEF Backfill, Backfilling, TypeOK
  <2>2. nlabels' \in Nat /\ nlabels <= nlabels' /\ newlabel' \in [Names -> 0..nlabels']
    <3>1. newlabel \in [Names -> 0..nlabels] /\ 0..nlabels \subseteq 0..nlabels + 1
      BY <1>t, <2>1 DEF TypeOK
    <3>2. CASE newlabel[gotos[1]] # 0
      BY <1>1, <2>1, <3>1, <3>2 DEF Backfill
    <3>3. CASE newlabel[gotos[1]] = 0
      <4>1. newlabel' = [newlabel EXCEPT ![gotos[1]] = nlabels + 1] /\ nlabels' = nlabels + 1
        BY <1>1, <3>3 DEF Backfill
      <4>2. newlabel \in [Names -> 0..nlabels + 1] /\ nlabels + 1 \in 0..nlabels + 1
        BY <2>1, <3>1
      <4> QED BY <2>1, <4>1, <4>2
    <3> QED BY <3>2, <3>3
  <2>3. IsStack(stack', nlabels')
    BY <1>1, <2>1 DEF Backfill, IsStack
  <2>4. TypeOK'
    BY <1>1, <1>t, <2>1, <2>2, <2>3 DEF Backfill, TypeOK, jumpVars, switchVars
  <2> QED BY <1>1, <2>4 DEF IInv, Backfill, jumpVars, switchVars
<1>2. CASE StrayGoto
  BY <1>2, FailInv DEF StrayGoto
<1>3. CASE Finish
  <2>1. TypeOK'
    BY <1>3, <1>t DEF Finish, TypeOK, jumpVars, switchVars, labelVars
  <2> QED BY <1>3, <2>1 DEF IInv, Finish, jumpVars, switchVars, labelVars
<1> QED BY <1>1, <1>2, <1>3

LEMMA NextInv == IInv /\ [Next]_vars => IInv'
<1> SUFFICES ASSUME IInv, [Next]_vars PROVE IInv'
  OBVIOUS
<1>1. CASE UNCHANGED vars
  <2>1. TypeOK'
    BY <1>1 DEF IInv, TypeOK, vars, jumpVars, switchVars, labelVars
  <2> QED BY <1>1, <2>1 DEF IInv, vars, jumpVars, switchVars, labelVars
<1>2. CASE Next
  BY <1>2, ReadInv, GotInv, EndInv DEF Next, ReadStmt, GotStmt
<1> QED BY <1>1, <1>2

LEMMA Inductive == Spec => []IInv
<1> QED BY InitInv, NextInv, PTL DEF Spec

(* Every variable of the parser keeps its type, and no jump is made to a   *)
(* label that make_label has not given out.                                *)
THEOREM TypeCorrect == Spec => []TypeOK
<1>1. IInv => TypeOK
  BY DEF IInv
<1> QED BY <1>1, Inductive, PTL

(* SET_JUMP_LABELS, SET_SWITCH_CONTEXT and what restores them: break and   *)
(* continue always mean the innermost loop or switch being read, for every *)
(* function body.                                                          *)
THEOREM JumpsScoped == Spec => []JumpsAreScoped
<1>1. IInv => JumpsAreScoped
  BY DEF IInv, Scoped, JumpsAreScoped
<1> QED BY <1>1, Inductive, PTL
=============================================================================
