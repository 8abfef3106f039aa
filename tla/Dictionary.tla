----------------------------- MODULE Dictionary -----------------------------
(***************************************************************************)
(* What the tables of map.c promise to the parser: a chain of nested       *)
(* scopes, each a partial function from keys to values.  A lookup answers  *)
(* with the innermost binding of the key.  utiltest.c (test_map and        *)
(* test_map_stack) states the same promise as tests.                       *)
(***************************************************************************)
EXTENDS Naturals, Sequences

CONSTANTS
  Keys,   (* identifiers *)
  Vals,   (* what the callers store, never the null pointer *)
  NoVal,  (* the null pointer map_get answers for "absent" *)
  NoKey   (* nothing is being looked up *)

VARIABLES
  scopes, (* scopes[1] is the outermost dictionary *)
  asked,  (* the key being looked up *)
  result  (* what the last lookup answered *)

vars == <<scopes, asked, result>>

Unbound == [k \in Keys |-> NoVal]

(* The innermost binding of k.                                             *)
Binding(k) ==
  LET bound == {n \in DOMAIN scopes : scopes[n][k] # NoVal}
  IN  IF bound = {} THEN NoVal
      ELSE scopes[CHOOSE n \in bound : \A o \in bound : o <= n][k]

Init ==
  /\ scopes = <<Unbound>>
  /\ asked = NoKey
  /\ result = NoVal

(* An update begins: the answer of the lookup before is forgotten.         *)
Begin ==
  /\ asked = NoKey
  /\ result' = NoVal
  /\ UNCHANGED <<scopes, asked>>

Open ==
  /\ asked = NoKey
  /\ scopes' = Append(scopes, Unbound)
  /\ UNCHANGED <<asked, result>>

Close ==
  /\ asked = NoKey
  /\ Len(scopes) > 1
  /\ scopes' = SubSeq(scopes, 1, Len(scopes) - 1)
  /\ UNCHANGED <<asked, result>>

Put(d, k, v) ==
  /\ asked = NoKey
  /\ scopes' = [scopes EXCEPT ![d][k] = v]
  /\ UNCHANGED <<asked, result>>

Ask(k) ==
  /\ asked = NoKey
  /\ asked' = k
  /\ result' = NoVal
  /\ UNCHANGED scopes

Answer ==
  /\ asked # NoKey
  /\ result' = Binding(asked)
  /\ asked' = NoKey
  /\ UNCHANGED scopes

Next ==
  \/ Begin
  \/ Open
  \/ Close
  \/ Answer
  \/ \E k \in Keys :
       \/ Ask(k)
       \/ \E d \in DOMAIN scopes, v \in Vals : Put(d, k, v)

Spec == Init /\ [][Next]_vars
=============================================================================
