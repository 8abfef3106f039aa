------------------------------ MODULE HashMap -------------------------------
(***************************************************************************)
(* map.c: open addressing with linear probing and tombstones, and the      *)
(* chain of parents that makes a map a scope.  The probe loops and the     *)
(* copy loop of a rehash are taken one slot at a time.  Two kinds of table *)
(* exist in the program and a behaviour has one of them:                   *)
(*   "env"     the keyword, tag, scope and file tables, only added to;     *)
(*             scopes nest through make_map_parent                         *)
(*   "macros"  cpp.c's macro table, no parent, the only one from which     *)
(*             anything is removed (#undef)                                *)
(***************************************************************************)
EXTENDS Naturals, Sequences, FiniteSets

CONSTANTS
  Keys, Vals, NoVal,
  NULL,       (* an empty slot *)
  TOMBSTONE,  (* a slot whose key was removed *)
  Hash,       (* the FNV hash of each key, before masking *)
  InitSize,   (* INIT_SIZE, 16 in the code *)
  MaxDepth,   (* bound: nested scopes *)
  MaxSize,    (* bound: no put that would have to grow a table beyond it *)
  MaxNested   (* bound: no put into a nested scope that holds this many *)

(* Below 4 slots "nused < size * 0.7" lets a table fill up completely. *)
ASSUME SizeAssumption == InitSize \in Nat /\ InitSize >= 4

ASSUME HashAssumption == Hash \in [Keys -> Nat]

ASSUME SlotAssumption ==
  /\ NULL \notin Keys
  /\ TOMBSTONE \notin Keys
  /\ NULL # TOMBSTONE
  /\ NoVal \notin Vals

ASSUME BoundAssumption ==
  /\ MaxDepth \in Nat /\ MaxNested \in Nat
  /\ MaxSize \in Nat /\ InitSize <= MaxSize

VARIABLES
  table,         (* "env" or "macros" *)
  maps,          (* the chain: maps[n] has parent maps[n-1]; 1 has none *)
  pc,            (* "idle", "copy", "place" or "probe" *)
  op, m, k, v,   (* the call under way: "put", "get" or "remove", its map, key, value *)
  i,             (* the probe index *)
  copy, s, j,    (* a rehash: the new table, the source and destination indices *)
  result         (* what the last map_get returned *)

call == <<op, m, k, v>>
rehash == <<copy, s, j>>
vars == <<table, maps, pc, op, m, k, v, i, copy, s, j, result>>

Slots == Keys \cup {NULL, TOMBSTONE}

(* do_make_map: calloc'ed arrays.  Size 0 is EMPTY_MAP, no arrays yet. *)
EmptyTable(size) ==
  [size  |-> size,
   key   |-> [n \in 0..size - 1 |-> NULL],
   val   |-> [n \in 0..size - 1 |-> NoVal],
   nelem |-> 0,
   nused |-> 0]

Live(t) == {n \in 0..t.size - 1 : t.key[n] \in Keys}
Used(t) == {n \in 0..t.size - 1 : t.key[n] # NULL}

(* "& mask" with mask = size - 1 and size a power of two. *)
Home(key, size) == Hash[key] % size

(* Mutant of Step: the mask is forgotten. *)
StepUnmasked(n, size) == n + 1

(* Mutant of Step: the probe stops at the end of the table. *)
StepToEnd(n, size) == IF n + 1 < size THEN n + 1 ELSE n

Step(n, size) == (n + 1) % size

NoCall == op' = "none" /\ m' = 0 /\ k' = NULL /\ v' = NoVal
NoRehash == copy' = EmptyTable(0) /\ s' = 0 /\ j' = 0

Init ==
  /\ table \in {"env", "macros"}
  /\ maps = <<EmptyTable(0)>>
  /\ pc = "idle"
  /\ op = "none" /\ m = 0 /\ k = NULL /\ v = NoVal
  /\ i = 0
  /\ copy = EmptyTable(0) /\ s = 0 /\ j = 0
  /\ result = NoVal

Return ==
  /\ pc' = "idle"
  /\ i' = 0
  /\ NoCall
  /\ UNCHANGED <<table, rehash>>

(* make_map_parent(localenv), and leaving the scope. *)
OpenScope ==
  /\ pc = "idle" /\ table = "env"
  /\ Len(maps) < MaxDepth
  /\ maps' = Append(maps, EmptyTable(InitSize))
  /\ UNCHANGED <<table, pc, call, i, rehash, result>>

CloseScope ==
  /\ pc = "idle" /\ Len(maps) > 1
  /\ maps' = SubSeq(maps, 1, Len(maps) - 1)
  /\ UNCHANGED <<table, pc, call, i, rehash, result>>

------------------------------------------------------------------------------
(* maybe_rehash *)

(* Mutant of Crowded: tombstones do not count. *)
CrowdedByLive(t) == 10 * t.nelem >= 7 * t.size

Crowded(t) == 10 * t.nused >= 7 * t.size          (* nused >= size * 0.7 *)
NewSize(t) == IF 20 * t.nelem < 7 * t.size        (* nelem < size * 0.35 *)
              THEN t.size ELSE 2 * t.size

WithinBound(n) == n > 1 => maps[n].nelem < MaxNested

(* A call begins; the answer of the one before is gone. *)
Call(o, n, key, val) ==
  /\ pc = "idle"
  /\ op' = o /\ m' = n /\ k' = key /\ v' = val
  /\ result' = NoVal

(* map_put, first use of an EMPTY_MAP: the arrays are allocated. *)
PutAllocates(n, key, val) ==
  /\ Call("put", n, key, val) /\ WithinBound(n)
  /\ maps[n].size = 0
  /\ maps' = [maps EXCEPT ![n] = [EmptyTable(InitSize) EXCEPT !.nelem = maps[n].nelem,
                                                              !.nused = maps[n].nused]]
  /\ pc' = "probe"
  /\ i' = Home(key, InitSize)
  /\ UNCHANGED <<table, rehash>>

PutFits(n, key, val) ==
  /\ Call("put", n, key, val) /\ WithinBound(n)
  /\ maps[n].size > 0 /\ ~ Crowded(maps[n])
  /\ pc' = "probe"
  /\ i' = Home(key, maps[n].size)
  /\ UNCHANGED <<table, maps, rehash>>

PutRehashes(n, key, val) ==
  /\ Call("put", n, key, val) /\ WithinBound(n)
  /\ maps[n].size > 0 /\ Crowded(maps[n])
  /\ NewSize(maps[n]) <= MaxSize
  /\ pc' = "copy"
  /\ copy' = EmptyTable(NewSize(maps[n]))
  /\ s' = 0
  /\ UNCHANGED <<table, maps, i, j>>

CopySkips ==
  /\ pc = "copy" /\ s < maps[m].size
  /\ maps[m].key[s] \notin Keys
  /\ s' = s + 1
  /\ UNCHANGED <<table, maps, pc, call, i, copy, j, result>>

CopyPicks ==
  /\ pc = "copy" /\ s < maps[m].size
  /\ maps[m].key[s] \in Keys
  /\ pc' = "place"
  /\ j' = Home(maps[m].key[s], copy.size)
  /\ UNCHANGED <<table, maps, call, i, copy, s, result>>

PlaceCollides ==
  /\ pc = "place" /\ copy.key[j] # NULL
  /\ j' = Step(j, copy.size)
  /\ UNCHANGED <<table, maps, pc, call, i, copy, s, result>>

PlaceStores ==
  /\ pc = "place" /\ copy.key[j] = NULL
  /\ copy' = [copy EXCEPT !.key[j] = maps[m].key[s], !.val[j] = maps[m].val[s]]
  /\ s' = s + 1
  /\ pc' = "copy"
  /\ UNCHANGED <<table, maps, call, i, j, result>>

(* Mutants of CopySwaps: nused still counts the old tombstones; map_put goes *)
(* on probing with the mask of the old table.                                *)
CopySwapsKeepingNused ==
  /\ pc = "copy" /\ s = maps[m].size
  /\ maps' = [maps EXCEPT ![m] = [copy EXCEPT !.nelem = maps[m].nelem,
                                              !.nused = maps[m].nused]]
  /\ pc' = "probe"
  /\ i' = Home(k, copy.size)
  /\ NoRehash
  /\ UNCHANGED <<table, call, result>>

CopySwapsOldMask ==
  /\ pc = "copy" /\ s = maps[m].size
  /\ maps' = [maps EXCEPT ![m] = [copy EXCEPT !.nelem = maps[m].nelem,
                                              !.nused = maps[m].nelem]]
  /\ pc' = "probe"
  /\ i' = Home(k, maps[m].size)
  /\ NoRehash
  /\ UNCHANGED <<table, call, result>>

CopySwaps ==
  /\ pc = "copy" /\ s = maps[m].size
  /\ maps' = [maps EXCEPT ![m] = [copy EXCEPT !.nelem = maps[m].nelem,
                                              !.nused = maps[m].nelem]]
  /\ pc' = "probe"
  /\ i' = Home(k, copy.size)
  /\ NoRehash
  /\ UNCHANGED <<table, call, result>>

------------------------------------------------------------------------------
(* The loop of map_put. *)

Probing(o) == pc = "probe" /\ op = o

PutAdvances ==
  /\ Probing("put")
  /\ maps[m].key[i] \in Keys \ {k}
  /\ i' = Step(i, maps[m].size)
  /\ UNCHANGED <<table, maps, pc, call, rehash, result>>

PutInserts ==
  /\ Probing("put")
  /\ maps[m].key[i] \in {NULL, TOMBSTONE}
  /\ maps' = [maps EXCEPT ![m].key[i] = k, ![m].val[i] = v, ![m].nelem = @ + 1,
                          ![m].nused = IF maps[m].key[i] = NULL THEN @ + 1 ELSE @]
  /\ Return
  /\ UNCHANGED result

PutOverwrites ==
  /\ Probing("put")
  /\ maps[m].key[i] = k
  /\ maps' = [maps EXCEPT ![m].val[i] = v]
  /\ Return
  /\ UNCHANGED result

------------------------------------------------------------------------------
(* map_get_nostack and its caller map_get, which goes on in the parent.   *)
(* Only the outermost map can be an EMPTY_MAP without arrays.             *)

MapGet(n, key) ==
  \/ /\ maps[n].size > 0
     /\ op' = "get" /\ m' = n /\ k' = key /\ v' = NoVal
     /\ pc' = "probe"
     /\ i' = Home(key, maps[n].size)
     /\ UNCHANGED <<table, rehash>>
  \/ /\ maps[n].size = 0
     /\ Return

(* Names are looked up in the innermost scope: map_get(env(), name).       *)
CallGet(n, key) ==
  /\ pc = "idle" /\ n = Len(maps)
  /\ MapGet(n, key)
  /\ result' = NoVal
  /\ UNCHANGED maps

GetAdvances ==
  /\ Probing("get")
  /\ maps[m].key[i] \notin {NULL, k}
  /\ i' = Step(i, maps[m].size)
  /\ UNCHANGED <<table, maps, pc, call, rehash, result>>

GetHits ==
  /\ Probing("get")
  /\ maps[m].key[i] = k
  /\ result' = maps[m].val[i]
  /\ Return
  /\ UNCHANGED maps

(* Mutant of GetMisses: the parent is not asked. *)
GetMissesForGood ==
  /\ Probing("get")
  /\ maps[m].key[i] = NULL
  /\ Return
  /\ UNCHANGED <<maps, result>>

GetMisses ==
  /\ Probing("get")
  /\ maps[m].key[i] = NULL
  /\ \/ m > 1 /\ MapGet(m - 1, k)
     \/ m = 1 /\ Return
  /\ UNCHANGED <<maps, result>>

------------------------------------------------------------------------------
(* map_remove *)

CallRemove(n, key) ==
  /\ Call("remove", n, key, NoVal)
  /\ table = "macros"
  /\ maps[n].size > 0                        (* otherwise it returns at once *)
  /\ pc' = "probe"
  /\ i' = Home(key, maps[n].size)
  /\ UNCHANGED <<table, maps, rehash>>

RemoveAdvances ==
  /\ Probing("remove")
  /\ maps[m].key[i] \notin {NULL, k}
  /\ i' = Step(i, maps[m].size)
  /\ UNCHANGED <<table, maps, pc, call, rehash, result>>

RemoveHits ==
  /\ Probing("remove")
  /\ maps[m].key[i] = k
  /\ maps' = [maps EXCEPT ![m].key[i] = TOMBSTONE, ![m].val[i] = NoVal,
                          ![m].nelem = @ - 1]
  /\ Return
  /\ UNCHANGED result

RemoveMisses ==
  /\ Probing("remove")
  /\ maps[m].key[i] = NULL
  /\ Return
  /\ UNCHANGED <<maps, result>>

------------------------------------------------------------------------------
(* A step of the loop a call is in; a call by the program. *)
LoopStep ==
  \/ CopySkips \/ CopyPicks \/ PlaceCollides \/ PlaceStores \/ CopySwaps
  \/ PutAdvances \/ PutInserts \/ PutOverwrites
  \/ GetAdvances \/ GetHits \/ GetMisses
  \/ RemoveAdvances \/ RemoveHits \/ RemoveMisses

ClientCall ==
  \/ OpenScope
  \/ CloseScope
  \/ \E n \in DOMAIN maps, key \in Keys :
       \/ CallGet(n, key)
       \/ CallRemove(n, key)
       \/ \E val \in Vals : \/ PutAllocates(n, key, val)
                            \/ PutFits(n, key, val)
                            \/ PutRehashes(n, key, val)

Next == LoopStep \/ ClientCall

(* Code in the middle of a loop keeps running; nothing makes the program call. *)
Spec == Init /\ [][Next]_vars /\ WF_vars(LoopStep)

------------------------------------------------------------------------------
(* What the arrays of one table answer for a key: the first slot on the    *)
(* probe path that holds the key or is empty.                              *)
Answer(t, key) ==
  LET Path(d) == (Hash[key] + d) % t.size
      stops   == {d \in 0..t.size - 1 : t.key[Path(d)] \in {key, NULL}}
  IN  IF stops = {} THEN NoVal
      ELSE t.val[Path(CHOOSE d \in stops : \A e \in stops : d <= e)]

(* A table whose arrays have its size. *)
IsTable(t) ==
  /\ t.size \in {0} \cup InitSize..MaxSize
  /\ t \in [size  : {t.size},
            key   : [0..t.size - 1 -> Slots],
            val   : [0..t.size - 1 -> Vals \cup {NoVal}],
            nelem : Nat,
            nused : Nat]

(* Every variable has its type; the probe indices of a loop are slots of   *)
(* the table it walks, and only the outermost map can have no arrays.      *)
TypeOK ==
  /\ table \in {"env", "macros"}
  /\ Len(maps) \in Nat \ {0}
  /\ maps = [n \in 1..Len(maps) |-> maps[n]]
  /\ \A n \in 1..Len(maps) : IsTable(maps[n]) /\ (n > 1 => maps[n].size > 0)
  /\ pc \in {"idle", "copy", "place", "probe"}
  /\ op \in {"none", "put", "get", "remove"}
  /\ v \in Vals \cup {NoVal}
  /\ result \in Vals \cup {NoVal}
  /\ IsTable(copy)
  /\ pc # "idle" => m \in 1..Len(maps) /\ k \in Keys /\ maps[m].size > 0
  /\ pc = "probe" => i \in 0..maps[m].size - 1
  /\ op = "put" => v \in Vals
  /\ pc \in {"copy", "place"} => op = "put" /\ copy.size > 0 /\ s \in 0..maps[m].size
  /\ pc = "place" => /\ s < maps[m].size /\ maps[m].key[s] \in Keys
                     /\ j \in 0..copy.size - 1

(* The two counters are what maybe_rehash decides by: nelem counts the     *)
(* live slots and nused the slots that are not empty, tombstones included, *)
(* through every mix of puts, removes and rehashes.                        *)
Accounting ==
  \A n \in DOMAIN maps :
    /\ maps[n].nelem = Cardinality(Live(maps[n]))
    /\ maps[n].nused = Cardinality(Used(maps[n]))

(* No probe can go round for ever: a table with arrays has an empty slot,  *)
(* and so has the table a rehash is filling.                               *)
HasEmptySlot ==
  /\ \A n \in DOMAIN maps :
       maps[n].size > 0 => \E x \in 0..maps[n].size - 1 : maps[n].key[x] = NULL
  /\ pc \in {"copy", "place"} => \E x \in 0..copy.size - 1 : copy.key[x] = NULL

(* When map_put returns, map_get of the same table answers with the value  *)
(* put, whatever tombstones and collisions the probe met.                  *)
PutIsSeen ==
  [][pc = "probe" /\ op = "put" /\ pc' = "idle" => Answer(maps'[m], k) = v]_vars

(* After map_remove of a key, map_get answers "absent": what               *)
(* utiltest.c:103-104 asserts.                                             *)
RemovedIsGone ==
  [][pc = "probe" /\ op = "remove" /\ pc' = "idle" => Answer(maps'[m], k) = NoVal]_vars

(* Every call returns. *)
CallReturns == pc # "idle" ~> pc = "idle"

(* The tables nothing is removed from implement nested dictionaries: probe *)
(* steps and a rehash, while it copies and when it swaps the arrays, are   *)
(* invisible, and a lookup answers with the innermost binding.             *)
Env == INSTANCE Dictionary
         WITH scopes <- IF table = "env"
                        THEN [n \in DOMAIN maps |->
                                [key \in Keys |-> Answer(maps[n], key)]]
                        ELSE <<[key \in Keys |-> NoVal]>>,
              asked  <- IF table = "env" /\ pc = "probe" /\ op = "get" THEN k ELSE NULL,
              result <- IF table = "env" THEN result ELSE NoVal,
              NoKey  <- NULL

EnvIsDictionary == Env!Spec
=============================================================================
