--------------------------- MODULE HashMapProofs ----------------------------
(***************************************************************************)
(* Type correctness, the two counters and the empty slot that ends every   *)
(* probe; that a put is seen by the next lookup; and that the tables       *)
(* nothing is removed from implement nested dictionaries: for all keys,    *)
(* hash functions, table sizes of at least four slots and depths of        *)
(* nesting.                                                                *)
(***************************************************************************)
EXTENDS HashMap, FiniteSetTheorems, SequenceTheorems, WellFoundedInduction, TLAPS

Tables ==
  UNION {[size  : {z},
          key   : [0..z - 1 -> Slots],
          val   : [0..z - 1 -> Vals \cup {NoVal}],
          nelem : Nat,
          nused : Nat] : z \in {0} \cup InitSize..MaxSize}

(* The counters of one table, and its empty slot. *)
Counted(t) ==
  /\ t.nelem = Cardinality(Live(t))
  /\ t.nused = Cardinality(Used(t))
  /\ t.size > 0 => t.nused < t.size

(* The live slots a rehash has already moved. *)
Copied == {x \in Live(maps[m]) : x < s}

IInv ==
  /\ TypeOK
  /\ \A n \in 1..Len(maps) : Counted(maps[n])
  /\ pc = "probe" /\ op = "put" => ~ Crowded(maps[m])
  /\ pc \in {"copy", "place"} =>
       /\ copy.size = NewSize(maps[m])
       /\ \A x \in 0..copy.size - 1 : copy.key[x] # TOMBSTONE
       /\ Cardinality(Used(copy)) = Cardinality(Copied)

------------------------------------------------------------------------------
(* Facts about one table. *)

LEMMA TablesAreTables == \A t : IsTable(t) <=> t \in Tables
<1>1. ASSUME NEW t, IsTable(t) PROVE t \in Tables
  BY <1>1 DEF IsTable, Tables
<1>2. ASSUME NEW t, t \in Tables PROVE IsTable(t)
  BY <1>2 DEF IsTable, Tables
<1> QED BY <1>1, <1>2

(* The live slots are among the used ones, and those among all slots. *)
LEMMA SlotSets ==
  ASSUME NEW t, IsTable(t)
  PROVE  /\ IsFiniteSet(Live(t)) /\ IsFiniteSet(Used(t))
         /\ Live(t) \subseteq Used(t) /\ Used(t) \subseteq 0..t.size - 1
         /\ Cardinality(Live(t)) \in Nat /\ Cardinality(Used(t)) \in Nat
         /\ Cardinality(Live(t)) <= Cardinality(Used(t))
         /\ Cardinality(Used(t)) <= t.size
<1>1. t.size \in Nat
  BY SizeAssumption, BoundAssumption DEF IsTable
<1>2. IsFiniteSet(0..t.size - 1) /\ Cardinality(0..t.size - 1) = t.size
  <2>1. 0 \in Int /\ t.size - 1 \in Int /\ (0 > t.size - 1 <=> t.size = 0)
    BY <1>1
  <2>2. IsFiniteSet(0..t.size - 1)
    BY <2>1, FS_Interval
  <2>3. Cardinality(0..t.size - 1) = IF 0 > t.size - 1 THEN 0 ELSE t.size - 1 - 0 + 1
    BY <2>1, FS_Interval
  <2> QED BY <1>1, <2>1, <2>2, <2>3
<1>3. Live(t) \subseteq Used(t) /\ Used(t) \subseteq 0..t.size - 1
  BY SlotAssumption DEF Live, Used
<1>4. IsFiniteSet(Used(t)) /\ Cardinality(Used(t)) <= t.size
  BY <1>2, <1>3, FS_Subset
<1>5. IsFiniteSet(Live(t)) /\ Cardinality(Live(t)) <= Cardinality(Used(t))
  BY <1>3, <1>4, FS_Subset
<1> QED BY <1>3, <1>4, <1>5, FS_CardinalityType

(* A table with fewer used slots than slots has an empty one. *)
LEMMA EmptySlotExists ==
  ASSUME NEW t, IsTable(t), Cardinality(Used(t)) < t.size
  PROVE  \E x \in 0..t.size - 1 : t.key[x] = NULL
<1>1. t.size \in Nat
  BY SizeAssumption, BoundAssumption DEF IsTable
<1>2. SUFFICES ASSUME \A x \in 0..t.size - 1 : t.key[x] # NULL PROVE FALSE
  OBVIOUS
<1>3. Used(t) = 0..t.size - 1
  BY <1>2 DEF Used
<1>4. Cardinality(Used(t)) = t.size
  BY <1>1, <1>3, FS_Interval
<1> QED BY <1>1, <1>4

LEMMA EmptyTables ==
  ASSUME NEW size \in {0} \cup InitSize..MaxSize
  PROVE  /\ IsTable(EmptyTable(size)) /\ EmptyTable(size).size = size
         /\ Live(EmptyTable(size)) = {} /\ Used(EmptyTable(size)) = {}
         /\ Counted(EmptyTable(size))
<1>1. size \in Nat
  BY SizeAssumption, BoundAssumption
<1>2. IsTable(EmptyTable(size)) /\ EmptyTable(size).size = size
  BY <1>1 DEF IsTable, EmptyTable, Slots
<1>3. Live(EmptyTable(size)) = {} /\ Used(EmptyTable(size)) = {}
  BY SlotAssumption DEF EmptyTable, Live, Used
<1>4. Counted(EmptyTable(size))
  BY <1>1, <1>2, <1>3, FS_EmptySet DEF Counted, EmptyTable
<1> QED BY <1>2, <1>3, <1>4

(* What a probe of map_put leaves: the free slot x now holds the key. *)
LEMMA InsertCounted ==
  ASSUME NEW t, IsTable(t), Counted(t), t.size > 0, ~ Crowded(t),
         NEW x \in 0..t.size - 1, t.key[x] \in {NULL, TOMBSTONE},
         NEW key \in Keys, NEW val \in Vals,
         NEW keys, keys = [t.key EXCEPT ![x] = key],
         NEW values, values = [t.val EXCEPT ![x] = val],
         NEW used, used = IF t.key[x] = NULL THEN t.nused + 1 ELSE t.nused,
         NEW u, u = [size |-> t.size, key |-> keys, val |-> values,
                     nelem |-> t.nelem + 1, nused |-> used]
  PROVE  IsTable(u) /\ Counted(u) /\ u.size = t.size
<1>1. /\ t.size \in Nat /\ t.nelem \in Nat /\ t.nused \in Nat /\ t.size >= 4
      /\ used \in Nat
  BY SizeAssumption, BoundAssumption DEF IsTable
<1>2. /\ u.size = t.size
      /\ u.key = [t.key EXCEPT ![x] = key]
      /\ u.val = [t.val EXCEPT ![x] = val]
      /\ u.nelem = t.nelem + 1
      /\ u.nused = used
  BY DEF IsTable
<1>3. IsTable(u)
  <2>1. u = [size |-> t.size, key |-> u.key, val |-> u.val,
             nelem |-> u.nelem, nused |-> u.nused]
    BY DEF IsTable
  <2>2. u.key \in [0..u.size - 1 -> Slots]
    BY <1>2 DEF IsTable, Slots
  <2>3. u.val \in [0..u.size - 1 -> Vals \cup {NoVal}]
    BY <1>2 DEF IsTable
  <2>4. u.size \in {0} \cup InitSize..MaxSize
    BY <1>2 DEF IsTable
  <2>5. u.nelem \in Nat /\ u.nused \in Nat
    BY <1>1, <1>2
  <2>6. u = [size |-> u.size, key |-> u.key, val |-> u.val,
             nelem |-> u.nelem, nused |-> u.nused]
    BY <1>2, <2>1
  <2> QED BY <2>2, <2>3, <2>4, <2>5, <2>6 DEF IsTable
<1>4. Live(u) = Live(t) \cup {x} /\ x \notin Live(t)
  BY <1>2, SlotAssumption DEF Live, IsTable
<1>5. Cardinality(Live(u)) = Cardinality(Live(t)) + 1
  BY <1>4, SlotSets, FS_AddElement
<1>6. Used(u) = Used(t) \cup {x} /\ (x \in Used(t) <=> t.key[x] # NULL)
  BY <1>2, SlotAssumption DEF Used, IsTable
<1>7. Cardinality(Used(u)) = IF t.key[x] = NULL THEN Cardinality(Used(t)) + 1
                                                ELSE Cardinality(Used(t))
  BY <1>6, SlotSets, FS_AddElement
<1>8. u.nused < u.size
  BY <1>1, <1>2 DEF Crowded, Counted
<1> QED BY <1>2, <1>3, <1>5, <1>7, <1>8 DEF Counted

(* map_put over an existing key. *)
LEMMA OverwriteCounted ==
  ASSUME NEW t, IsTable(t), Counted(t), NEW x \in 0..t.size - 1, NEW val \in Vals,
         NEW u, u = [t EXCEPT !.val[x] = val]
  PROVE  IsTable(u) /\ Counted(u) /\ u.size = t.size
<1>1. /\ u.size = t.size /\ u.key = t.key /\ u.nelem = t.nelem /\ u.nused = t.nused
      /\ u.val = [t.val EXCEPT ![x] = val]
  BY DEF IsTable
<1>2. IsTable(u)
  BY <1>1 DEF IsTable
<1>3. Live(u) = Live(t) /\ Used(u) = Used(t)
  BY <1>1 DEF Live, Used
<1> QED BY <1>1, <1>2, <1>3 DEF Counted

(* map_remove leaves a tombstone. *)
LEMMA RemoveCounted ==
  ASSUME NEW t, IsTable(t), Counted(t), NEW x \in 0..t.size - 1, t.key[x] \in Keys,
         NEW u, u = [t EXCEPT !.key[x] = TOMBSTONE, !.val[x] = NoVal, !.nelem = @ - 1]
  PROVE  IsTable(u) /\ Counted(u) /\ u.size = t.size
<1>1. /\ u.size = t.size /\ u.nelem = t.nelem - 1 /\ u.nused = t.nused
      /\ u.key = [t.key EXCEPT ![x] = TOMBSTONE]
      /\ u.val = [t.val EXCEPT ![x] = NoVal]
  BY DEF IsTable
<1>2. Live(u) = Live(t) \ {x} /\ x \in Live(t)
  BY <1>1, SlotAssumption DEF Live, IsTable
<1>3. Used(u) = Used(t)
  BY <1>1, SlotAssumption DEF Used, IsTable
<1>4. Cardinality(Live(u)) = Cardinality(Live(t)) - 1
  BY <1>2, SlotSets, FS_RemoveElement
<1>5. Live(t) # {} /\ Cardinality(Live(t)) # 0
  BY <1>2, SlotSets, FS_EmptySet
<1>6. t.nelem - 1 \in Nat
  BY <1>5, SlotSets DEF Counted
<1>7. IsTable(u)
  BY <1>1, <1>6 DEF IsTable, Slots
<1> QED BY <1>1, <1>3, <1>4, <1>7 DEF Counted

------------------------------------------------------------------------------
(* Facts about the chain of tables. *)

(* What TypeOK says of maps. *)
Chain(q) ==
  /\ Len(q) \in Nat \ {0}
  /\ q = [n \in 1..Len(q) |-> q[n]]
  /\ \A n \in 1..Len(q) : IsTable(q[n]) /\ (n > 1 => q[n].size > 0)

LEMMA ChainIsSeq ==
  ASSUME NEW q, Chain(q)
  PROVE  q \in Seq(Tables) /\ DOMAIN q = 1..Len(q)
<1>1. q \in [1..Len(q) -> Tables]
  BY TablesAreTables DEF Chain
<1> QED BY <1>1, SeqDef DEF Chain

LEMMA SeqIsChain ==
  ASSUME NEW q \in Seq(Tables), Len(q) > 0, \A n \in 2..Len(q) : q[n].size > 0
  PROVE  Chain(q)
<1>1. Len(q) \in Nat /\ q \in [1..Len(q) -> Tables]
  BY LenProperties
<1>2. q = [n \in 1..Len(q) |-> q[n]]
  BY <1>1
<1>3. \A n \in 1..Len(q) : IsTable(q[n])
  BY <1>1, TablesAreTables
<1> QED BY <1>1, <1>2, <1>3 DEF Chain

LEMMA ChainUpdate ==
  ASSUME NEW q, Chain(q), NEW p \in 1..Len(q), NEW t, IsTable(t), t.size > 0
  PROVE  LET r == [q EXCEPT ![p] = t]
         IN  /\ Chain(r) /\ Len(r) = Len(q) /\ r[p] = t
             /\ \A n \in 1..Len(q) : n # p => r[n] = q[n]
<1> DEFINE r == [q EXCEPT ![p] = t]
<1>1. q \in Seq(Tables) /\ t \in Tables
  BY ChainIsSeq, TablesAreTables
<1>2. r \in Seq(Tables) /\ Len(r) = Len(q)
      /\ \A n \in 1..Len(q) : r[n] = IF n = p THEN t ELSE q[n]
  BY <1>1, ExceptSeq
<1>3. Len(r) > 0 /\ \A n \in 2..Len(r) : r[n].size > 0
  BY <1>2 DEF Chain
<1>4. p \in 1..Len(q)
  OBVIOUS
<1> HIDE DEF r
<1> QED BY <1>2, <1>3, <1>4, SeqIsChain DEF r

LEMMA ChainAppend ==
  ASSUME NEW q, Chain(q), NEW t, IsTable(t), t.size > 0
  PROVE  Chain(Append(q, t)) /\ Len(Append(q, t)) = Len(q) + 1
         /\ Append(q, t)[Len(q) + 1] = t
         /\ \A n \in 1..Len(q) : Append(q, t)[n] = q[n]
<1>1. q \in Seq(Tables) /\ t \in Tables /\ Len(q) \in Nat
  BY ChainIsSeq, TablesAreTables DEF Chain
<1>2. /\ Append(q, t) \in Seq(Tables)
      /\ Len(Append(q, t)) = Len(q) + 1
      /\ Append(q, t)[Len(q) + 1] = t
      /\ \A n \in 1..Len(q) : Append(q, t)[n] = q[n]
  BY <1>1
<1>3. Len(Append(q, t)) > 0
      /\ \A n \in 2..Len(Append(q, t)) : Append(q, t)[n].size > 0
  BY <1>1, <1>2 DEF Chain
<1> QED BY <1>2, <1>3, SeqIsChain

LEMMA ChainShrink ==
  ASSUME NEW q, Chain(q), Len(q) > 1
  PROVE  LET r == SubSeq(q, 1, Len(q) - 1)
         IN  Chain(r) /\ Len(r) = Len(q) - 1 /\ \A n \in 1..Len(r) : r[n] = q[n]
<1> DEFINE r == SubSeq(q, 1, Len(q) - 1)
<1>1. q \in Seq(Tables) /\ Len(q) \in Nat
  BY ChainIsSeq DEF Chain
<1>2. \A n \in 1..Len(q) - 1 : q[n] \in Tables
  BY <1>1, ElementOfSeq
<1>3. r \in Seq(Tables) /\ Len(r) = Len(q) - 1 /\ \A n \in 1..Len(q) - 1 : r[n] = q[n]
  BY <1>1, <1>2, SubSeqProperties
<1>4. Len(r) > 0 /\ \A n \in 2..Len(r) : r[n].size > 0
  BY <1>1, <1>3 DEF Chain
<1> HIDE DEF r
<1> QED BY <1>3, <1>4, SeqIsChain DEF r

(* Probe indices are slots. *)
LEMMA ProbeIndices ==
  ASSUME NEW size \in Nat \ {0}
  PROVE  /\ \A key \in Keys : Home(key, size) \in 0..size - 1
         /\ \A x \in 0..size - 1 : Step(x, size) \in 0..size - 1
BY HashAssumption DEF Home, Step

LEMMA TableSizes ==
  ASSUME NEW t, IsTable(t)
  PROVE  t.size \in Nat /\ t.nelem \in Nat /\ t.nused \in Nat /\ (t.size > 0 => t.size >= 4)
BY SizeAssumption, BoundAssumption DEF IsTable

------------------------------------------------------------------------------
(* The initial state, and one lemma per group of actions. *)

LEMMA InitIInv == Init => IInv
<1> SUFFICES ASSUME Init PROVE IInv
  OBVIOUS
<1>1. IsTable(EmptyTable(0)) /\ EmptyTable(0).size = 0 /\ Counted(EmptyTable(0))
  BY EmptyTables
<1>2. Len(maps) = 1 /\ maps[1] = EmptyTable(0) /\ maps = [n \in 1..1 |-> maps[n]]
  BY DEF Init
<1>3. TypeOK
  BY <1>1, <1>2 DEF Init, TypeOK
<1>4. \A n \in 1..Len(maps) : Counted(maps[n])
  BY <1>1, <1>2
<1> QED BY <1>3, <1>4 DEF Init, IInv

(* Steps that move a probe index and nothing else. *)
LEMMA AdvanceIInv ==
  ASSUME IInv, PutAdvances \/ GetAdvances \/ RemoveAdvances
  PROVE  IInv'
<1> USE DEF PutAdvances, GetAdvances, RemoveAdvances, Probing, call, rehash
<1>1. i' \in 0..maps[m].size - 1
  <2>1. maps[m].size \in Nat \ {0} /\ i \in 0..maps[m].size - 1
    BY TableSizes DEF IInv, TypeOK
  <2> QED BY <2>1, ProbeIndices
<1>2. TypeOK'
  BY <1>1 DEF IInv, TypeOK
<1> QED BY <1>2 DEF IInv, Copied, Counted

(* A return that leaves the tables as they are. *)
LEMMA ReturnIInv ==
  ASSUME IInv, Return, UNCHANGED maps, result' \in Vals \cup {NoVal}
  PROVE  IInv'
BY DEF IInv, TypeOK, Return, NoCall, rehash

(* The opening of a probe that leaves the tables as they are. *)
LEMMA GetStartIInv ==
  ASSUME IInv, NEW n \in 1..Len(maps), NEW key \in Keys, MapGet(n, key),
         UNCHANGED maps, result' \in Vals \cup {NoVal}
  PROVE  IInv'
<1>1. CASE Return
  BY <1>1, ReturnIInv
<1>2. CASE /\ maps[n].size > 0
           /\ op' = "get" /\ m' = n /\ k' = key /\ v' = NoVal
           /\ pc' = "probe"
           /\ i' = Home(key, maps[n].size)
           /\ UNCHANGED <<table, rehash>>
  <2>1. i' \in 0..maps[n].size - 1
    <3>1. maps[n].size \in Nat \ {0}
      BY <1>2, TableSizes DEF IInv, TypeOK
    <3> QED BY <1>2, <3>1, ProbeIndices
  <2>2. TypeOK'
    BY <1>2, <2>1 DEF IInv, TypeOK, rehash
  <2> QED BY <1>2, <2>2 DEF IInv, Counted, rehash
<1> QED BY <1>1, <1>2 DEF MapGet

LEMMA GetIInv ==
  ASSUME IInv,
         GetHits \/ GetMisses \/ RemoveMisses
           \/ \E n \in DOMAIN maps, key \in Keys : CallGet(n, key)
  PROVE  IInv'
<1> USE DEF Probing
<1>1. CASE GetHits
  <2>1. maps[m].val[i] \in Vals \cup {NoVal}
    BY <1>1 DEF GetHits, IInv, TypeOK, IsTable
  <2> QED BY <1>1, <2>1, ReturnIInv DEF GetHits
<1>2. CASE GetMisses
  <2>1. m \in 1..Len(maps) /\ k \in Keys /\ result \in Vals \cup {NoVal}
    BY <1>2 DEF GetMisses, IInv, TypeOK
  <2>2. CASE m > 1 /\ MapGet(m - 1, k)
    <3>1. m - 1 \in 1..Len(maps)
      BY <2>1, <2>2 DEF IInv, TypeOK
    <3> QED BY <1>2, <2>1, <2>2, <3>1, GetStartIInv DEF GetMisses
  <2>3. CASE Return
    BY <1>2, <2>1, <2>3, ReturnIInv DEF GetMisses
  <2> QED BY <1>2, <2>2, <2>3 DEF GetMisses
<1>3. CASE RemoveMisses
  BY <1>3, ReturnIInv DEF RemoveMisses, IInv, TypeOK
<1>4. CASE \E n \in DOMAIN maps, key \in Keys : CallGet(n, key)
  <2>1. PICK n \in DOMAIN maps, key \in Keys : CallGet(n, key)
    BY <1>4
  <2>2. n \in 1..Len(maps)
    BY ChainIsSeq DEF IInv, TypeOK, Chain
  <2> QED BY <2>1, <2>2, GetStartIInv DEF CallGet
<1> QED BY <1>1, <1>2, <1>3, <1>4

LEMMA ScopeIInv ==
  ASSUME IInv, OpenScope \/ CloseScope
  PROVE  IInv'
<1>1. Chain(maps) /\ Len(maps) \in Nat /\ pc = "idle" /\ pc' = pc
  BY DEF IInv, TypeOK, Chain, OpenScope, CloseScope
<1>2. Chain(maps') /\ \A n \in 1..Len(maps') : Counted(maps'[n])
  <2>1. CASE OpenScope
    <3> DEFINE t == EmptyTable(InitSize)
    <3>1. IsTable(t) /\ t.size > 0 /\ Counted(t)
      BY EmptyTables, SizeAssumption, BoundAssumption
    <3> HIDE DEF t
    <3>2. maps' = Append(maps, t)
      BY <2>1 DEF OpenScope, t
    <3>3. /\ Chain(maps') /\ Len(maps') = Len(maps) + 1 /\ maps'[Len(maps) + 1] = t
          /\ \A n \in 1..Len(maps) : maps'[n] = maps[n]
      BY <1>1, <3>1, <3>2, ChainAppend
    <3>4. ASSUME NEW n \in 1..Len(maps') PROVE Counted(maps'[n])
      <4>1. n = Len(maps) + 1 \/ n \in 1..Len(maps)
        BY <1>1, <3>3
      <4> QED BY <3>1, <3>3, <4>1 DEF IInv
    <3> QED BY <3>3, <3>4
  <2>2. CASE CloseScope
    <3>1. /\ Chain(maps') /\ Len(maps') = Len(maps) - 1
          /\ \A n \in 1..Len(maps') : maps'[n] = maps[n]
      BY <1>1, <2>2, ChainShrink DEF CloseScope
    <3> QED BY <1>1, <3>1 DEF IInv
  <2> QED BY <2>1, <2>2
<1>3. UNCHANGED <<table, pc, call, i, rehash, result>>
  BY DEF OpenScope, CloseScope
<1>4. TypeOK'
  BY <1>1, <1>2, <1>3 DEF IInv, TypeOK, Chain, call, rehash
<1> QED BY <1>1, <1>2, <1>4 DEF IInv

(* A call that writes one table and returns. *)
LEMMA WriteIInv ==
  ASSUME IInv, pc = "probe", Return, UNCHANGED result,
         NEW t, IsTable(t), Counted(t), t.size = maps[m].size
  PROVE  maps' = [maps EXCEPT ![m] = t] => IInv'
<1> DEFINE r == [maps EXCEPT ![m] = t]
<1>0. SUFFICES ASSUME maps' = r PROVE IInv'
  OBVIOUS
<1> HIDE DEF r
<1>1. Chain(maps) /\ m \in 1..Len(maps) /\ IsTable(t) /\ t.size > 0
  BY DEF IInv, TypeOK, Chain
<1>2. /\ Chain(maps') /\ Len(maps') = Len(maps) /\ maps'[m] = t
      /\ \A n \in 1..Len(maps) : n # m => maps'[n] = maps[n]
  <2>1. /\ Chain(r) /\ Len(r) = Len(maps) /\ r[m] = t
        /\ \A n \in 1..Len(maps) : n # m => r[n] = maps[n]
    BY <1>1, ChainUpdate DEF r
  <2> QED BY <1>0, <2>1
<1>3. TypeOK'
  BY <1>2 DEF IInv, TypeOK, Chain, Return, NoCall, rehash
<1>4. \A n \in 1..Len(maps') : Counted(maps'[n])
  BY <1>2 DEF IInv
<1> QED BY <1>3, <1>4 DEF IInv, Return

LEMMA PutEndsIInv ==
  ASSUME IInv, PutInserts \/ PutOverwrites \/ RemoveHits
  PROVE  IInv'
<1> DEFINE t == maps[m]
<1>1. /\ pc = "probe" /\ op \in {"put", "remove"} /\ m \in 1..Len(maps)
      /\ IsTable(t) /\ Counted(t) /\ t.size > 0
      /\ i \in 0..t.size - 1 /\ k \in Keys /\ Return /\ UNCHANGED result
  BY DEF IInv, TypeOK, PutInserts, PutOverwrites, RemoveHits, Probing
<1>2. maps = [n \in 1..Len(maps) |-> maps[n]]
  BY DEF IInv, TypeOK
<1>3. CASE PutInserts
  <2> DEFINE keys == [t.key EXCEPT ![i] = k]
             values == [t.val EXCEPT ![i] = v]
             used == IF t.key[i] = NULL THEN t.nused + 1 ELSE t.nused
             u == [size |-> t.size, key |-> keys, val |-> values,
                   nelem |-> t.nelem + 1, nused |-> used]
             w == [t EXCEPT !.key[i] = k, !.val[i] = v, !.nelem = @ + 1, !.nused = used]
  <2>1. v \in Vals /\ ~ Crowded(t) /\ t.key[i] \in {NULL, TOMBSTONE}
    BY <1>3 DEF PutInserts, Probing, IInv, TypeOK
  <2>2. maps' = [maps EXCEPT ![m] = w]
    BY <1>1, <1>2, <1>3 DEF PutInserts
  <2>3. w = u
    <3> HIDE DEF t
    <3>1. ASSUME NEW z, z = w PROVE z = u
      BY <1>1, <3>1 DEF IsTable
    <3> QED BY <3>1
  <2>4. IsTable(u) /\ Counted(u) /\ u.size = t.size
    <3> HIDE DEF keys, values, used, u, t
    <3>1. keys = [t.key EXCEPT ![i] = k] /\ values = [t.val EXCEPT ![i] = v]
      BY DEF keys, values
    <3>2. used = IF t.key[i] = NULL THEN t.nused + 1 ELSE t.nused
      BY DEF used
    <3>3. u = [size |-> t.size, key |-> keys, val |-> values,
               nelem |-> t.nelem + 1, nused |-> used]
      BY DEF u
    <3> QED BY <1>1, <2>1, <3>1, <3>2, <3>3, InsertCounted
  <2> HIDE DEF u, w
  <2> QED BY <1>1, <2>2, <2>3, <2>4, WriteIInv
<1>4. CASE PutOverwrites
  <2> DEFINE u == [t EXCEPT !.val[i] = v]
  <2>1. v \in Vals
    BY <1>4 DEF PutOverwrites, Probing, IInv, TypeOK
  <2>2. IsTable(u) /\ Counted(u) /\ u.size = t.size
    BY <1>1, <2>1, OverwriteCounted
  <2>3. maps' = [maps EXCEPT ![m] = u]
    BY <1>1, <1>2, <1>4 DEF PutOverwrites
  <2> QED BY <1>1, <2>2, <2>3, WriteIInv
<1>5. CASE RemoveHits
  <2> DEFINE u == [t EXCEPT !.key[i] = TOMBSTONE, !.val[i] = NoVal, !.nelem = @ - 1]
  <2>1. t.key[i] \in Keys
    BY <1>1, <1>5 DEF RemoveHits
  <2>2. IsTable(u) /\ Counted(u) /\ u.size = t.size
    BY <1>1, <2>1, RemoveCounted
  <2>3. maps' = [maps EXCEPT ![m] = u]
    BY <1>1, <1>2, <1>5 DEF RemoveHits
  <2> QED BY <1>1, <2>2, <2>3, WriteIInv
<1> QED BY <1>3, <1>4, <1>5

(* A put into a table that needs no rehash, a remove. *)
LEMMA StartIInv ==
  ASSUME IInv, NEW n \in 1..Len(maps), NEW key \in Keys,
         CallRemove(n, key) \/ \E val \in Vals : PutFits(n, key, val)
  PROVE  IInv'
<1> USE DEF CallRemove, PutFits, Call
<1>1. maps[n].size \in Nat \ {0}
  BY TableSizes DEF IInv, TypeOK
<1>2. i' \in 0..maps[n].size - 1
  BY <1>1, ProbeIndices
<1>3. TypeOK'
  BY <1>1, <1>2 DEF IInv, TypeOK, rehash
<1> QED BY <1>3 DEF IInv, Counted, Crowded, rehash

LEMMA ZeroCounters ==
  ASSUME NEW t, IsTable(t), t.nelem = 0, t.nused = 0,
         NEW u, u = [t EXCEPT !.nelem = 0, !.nused = 0]
  PROVE  u = t
BY DEF IsTable

LEMMA AllocateIInv ==
  ASSUME IInv, NEW n \in 1..Len(maps), NEW key \in Keys, NEW val \in Vals,
         PutAllocates(n, key, val)
  PROVE  IInv'
<1> DEFINE t == [EmptyTable(InitSize) EXCEPT !.nelem = maps[n].nelem, !.nused = maps[n].nused]
<1>1. Chain(maps) /\ IsTable(maps[n]) /\ Counted(maps[n]) /\ maps[n].size = 0
  BY DEF IInv, TypeOK, Chain, PutAllocates
<1>2. maps[n].nelem = 0 /\ maps[n].nused = 0
  <2>1. Live(maps[n]) = {} /\ Used(maps[n]) = {}
    BY <1>1 DEF Live, Used
  <2> QED BY <1>1, <2>1, FS_EmptySet DEF Counted
<1>3. t = EmptyTable(InitSize)
  <2> DEFINE e == EmptyTable(InitSize)
  <2>1. IsTable(e) /\ e.nelem = 0 /\ e.nused = 0
    <3>1. IsTable(e)
      BY EmptyTables, SizeAssumption, BoundAssumption
    <3>2. e.nelem = 0 /\ e.nused = 0
      BY DEF EmptyTable
    <3> QED BY <3>1, <3>2
  <2>2. t = [e EXCEPT !.nelem = 0, !.nused = 0]
    BY <1>2
  <2> HIDE DEF e, t
  <2> QED BY <2>1, <2>2, ZeroCounters DEF e
<1>4. IsTable(t) /\ Counted(t) /\ t.size = InitSize /\ InitSize > 0 /\ t.nused = 0
  BY <1>3, EmptyTables, SizeAssumption, BoundAssumption DEF EmptyTable
<1>5. maps' = [maps EXCEPT ![n] = t]
  BY DEF PutAllocates
<1> HIDE DEF t
<1>6. /\ Chain(maps') /\ Len(maps') = Len(maps) /\ maps'[n] = t
      /\ \A p \in 1..Len(maps) : p # n => maps'[p] = maps[p]
  <2> DEFINE r == [maps EXCEPT ![n] = t]
  <2>1. /\ Chain(r) /\ Len(r) = Len(maps) /\ r[n] = t
        /\ \A p \in 1..Len(maps) : p # n => r[p] = maps[p]
    BY <1>1, <1>4, ChainUpdate
  <2>2. maps' = r
    BY <1>5
  <2> HIDE DEF r
  <2> QED BY <2>1, <2>2
<1>7. i' \in 0..t.size - 1
  BY <1>4, SizeAssumption, ProbeIndices DEF PutAllocates
<1>8. TypeOK'
  BY <1>4, <1>6, <1>7 DEF IInv, TypeOK, Chain, PutAllocates, Call, rehash
<1>9. \A p \in 1..Len(maps') : Counted(maps'[p])
  BY <1>4, <1>6 DEF IInv
<1>10. ~ Crowded(maps'[n])
  BY <1>4, <1>6, SizeAssumption DEF Crowded
<1> QED BY <1>8, <1>9, <1>10 DEF IInv, PutAllocates, Call

------------------------------------------------------------------------------
(* The rehash. *)

LEMMA RehashStartIInv ==
  ASSUME IInv, NEW n \in 1..Len(maps), NEW key \in Keys, NEW val \in Vals,
         PutRehashes(n, key, val)
  PROVE  IInv'
<1> USE DEF PutRehashes, Call
<1>1. IsTable(maps[n]) /\ maps[n].size > 0
  BY DEF IInv, TypeOK
<1>2. maps[n].size \in Nat /\ NewSize(maps[n]) \in InitSize..MaxSize /\ NewSize(maps[n]) > 0
  BY <1>1, TableSizes, SizeAssumption, BoundAssumption DEF NewSize, IsTable
<1>3. /\ IsTable(copy') /\ copy'.size = NewSize(maps[n]) /\ Used(copy') = {}
      /\ \A x \in 0..copy'.size - 1 : copy'.key[x] = NULL
  <2> DEFINE z == NewSize(maps[n])
  <2> HIDE DEF z
  <2>1. copy' = EmptyTable(z) /\ z \in {0} \cup InitSize..MaxSize
    BY <1>2 DEF z
  <2>2. IsTable(copy') /\ copy'.size = z /\ Used(copy') = {}
    BY <2>1, EmptyTables
  <2>3. \A x \in 0..z - 1 : copy'.key[x] = NULL
    BY <2>1 DEF EmptyTable
  <2> QED BY <2>2, <2>3 DEF z
<1>4. TypeOK'
  BY <1>1, <1>2, <1>3 DEF IInv, TypeOK
<1>5. Copied' = {}
  BY <1>1, <1>2 DEF Copied, Live
<1>6. Cardinality(Used(copy')) = Cardinality(Copied')
  BY <1>3, <1>5
<1> QED BY <1>3, <1>4, <1>6, SlotAssumption DEF IInv, Counted

LEMMA CopyMovesIInv ==
  ASSUME IInv, CopySkips \/ CopyPicks \/ PlaceCollides
  PROVE  IInv'
<1> USE DEF call
<1>1. /\ m \in 1..Len(maps) /\ IsTable(maps[m]) /\ maps[m].size \in Nat
      /\ copy.size \in Nat \ {0} /\ s \in 0..maps[m].size
  BY TableSizes DEF IInv, TypeOK, CopySkips, CopyPicks, PlaceCollides
<1>2. CASE CopySkips
  <2>1. TypeOK'
    BY <1>1, <1>2 DEF IInv, TypeOK, CopySkips
  <2>2. Copied' = Copied
    BY <1>1, <1>2 DEF Copied, CopySkips, Live
  <2> QED BY <1>2, <2>1, <2>2 DEF IInv, CopySkips, Counted
<1>3. CASE CopyPicks
  <2>1. j' \in 0..copy.size - 1
    BY <1>1, <1>3, ProbeIndices DEF CopyPicks
  <2>2. TypeOK'
    BY <1>1, <1>3, <2>1 DEF IInv, TypeOK, CopyPicks
  <2> QED BY <1>3, <2>2 DEF IInv, CopyPicks, Counted, Copied
<1>4. CASE PlaceCollides
  <2>1. j' \in 0..copy.size - 1
    BY <1>1, <1>4, ProbeIndices DEF PlaceCollides, IInv, TypeOK
  <2>2. TypeOK'
    BY <1>1, <1>4, <2>1 DEF IInv, TypeOK, PlaceCollides
  <2> QED BY <1>4, <2>2 DEF IInv, PlaceCollides, Counted, Copied
<1> QED BY <1>2, <1>3, <1>4

LEMMA PlaceStoresIInv ==
  ASSUME IInv, PlaceStores
  PROVE  IInv'
<1> USE DEF PlaceStores, call
<1>1. /\ m \in 1..Len(maps) /\ IsTable(maps[m]) /\ maps[m].size \in Nat
      /\ IsTable(copy) /\ copy.size \in Nat \ {0}
      /\ s \in 0..maps[m].size - 1 /\ maps[m].key[s] \in Keys
      /\ j \in 0..copy.size - 1 /\ copy.key[j] = NULL
  BY TableSizes DEF IInv, TypeOK
<1>2. maps[m].val[s] \in Vals \cup {NoVal}
  BY <1>1 DEF IsTable
<1>3. /\ copy'.size = copy.size
      /\ copy'.key = [copy.key EXCEPT ![j] = maps[m].key[s]]
      /\ copy'.val = [copy.val EXCEPT ![j] = maps[m].val[s]]
      /\ copy'.nelem = copy.nelem /\ copy'.nused = copy.nused
  BY <1>1 DEF IsTable
<1>4. IsTable(copy')
  BY <1>1, <1>2, <1>3 DEF IsTable, Slots
<1>5. TypeOK'
  BY <1>1, <1>3, <1>4 DEF IInv, TypeOK
<1>6. Used(copy') = Used(copy) \cup {j} /\ j \notin Used(copy)
  BY <1>1, <1>3, SlotAssumption DEF Used, IsTable
<1>7. Cardinality(Used(copy')) = Cardinality(Used(copy)) + 1
  BY <1>1, <1>6, SlotSets, FS_AddElement
<1>8. Copied' = Copied \cup {s} /\ s \notin Copied
  BY <1>1 DEF Copied, Live
<1>9. IsFiniteSet(Copied)
  BY <1>1, SlotSets, FS_Subset DEF Copied
<1>10. Cardinality(Copied') = Cardinality(Copied) + 1
  BY <1>8, <1>9, FS_AddElement
<1>11. \A x \in 0..copy'.size - 1 : copy'.key[x] # TOMBSTONE
  BY <1>1, <1>3, SlotAssumption DEF IInv, IsTable
<1> QED BY <1>3, <1>5, <1>7, <1>10, <1>11 DEF IInv, Counted

(* The new arrays take the place of the old: every used slot of them is    *)
(* live, and there are as many as the old table had live slots.            *)
LEMMA CopySwapsIInv ==
  ASSUME IInv, CopySwaps
  PROVE  IInv'
<1> DEFINE t == maps[m]
           u == [size |-> copy.size, key |-> copy.key, val |-> copy.val,
                 nelem |-> t.nelem, nused |-> t.nelem]
           w == [copy EXCEPT !.nelem = t.nelem, !.nused = t.nelem]
<1>1. /\ pc = "copy" /\ s = t.size /\ op = "put" /\ m \in 1..Len(maps) /\ k \in Keys
      /\ Chain(maps) /\ IsTable(t) /\ Counted(t) /\ t.size > 0
      /\ IsTable(copy) /\ copy.size > 0
      /\ copy.size = NewSize(t) /\ Cardinality(Used(copy)) = Cardinality(Copied)
      /\ \A x \in 0..copy.size - 1 : copy.key[x] # TOMBSTONE
  BY DEF IInv, TypeOK, CopySwaps, Chain
<1>2. /\ t.size \in Nat /\ t.nelem \in Nat /\ t.nused \in Nat /\ t.size >= 4
      /\ copy.size \in Nat /\ copy.size >= 4
  BY <1>1, TableSizes
<1>3. w = u
  <2> HIDE DEF t
  <2>1. ASSUME NEW z, z = w PROVE z = u
    BY <1>1, <2>1 DEF IsTable
  <2> QED BY <2>1
<1>4. u.size = copy.size /\ u.key = copy.key /\ u.nelem = t.nelem /\ u.nused = t.nelem
  OBVIOUS
<1>5. IsTable(u)
  BY <1>1, <1>2 DEF IsTable
<1>11. maps' = [maps EXCEPT ![m] = u]
  BY <1>3 DEF CopySwaps
<1> HIDE DEF u, t
<1>6. Live(u) = Used(copy) /\ Used(u) = Used(copy)
  BY <1>1, <1>4, SlotAssumption DEF Live, Used, IsTable, Slots
<1>7. Cardinality(Used(copy)) = t.nelem
  <2>1. Copied = Live(t)
    BY <1>1, <1>2 DEF Copied, Live, t
  <2> QED BY <1>1, <2>1 DEF Counted
<1>8. t.nelem <= t.nused /\ t.nused < t.size
  BY <1>1, SlotSets DEF Counted
<1>9. ~ Crowded(u) /\ u.nused < u.size
  <2>1. CASE 20 * t.nelem < 7 * t.size
    <3>1. copy.size = t.size
      BY <1>1, <2>1 DEF NewSize
    <3> QED BY <1>2, <1>4, <2>1, <3>1 DEF Crowded
  <2>2. CASE ~ (20 * t.nelem < 7 * t.size)
    <3>1. copy.size = 2 * t.size
      BY <1>1, <2>2 DEF NewSize
    <3> QED BY <1>2, <1>4, <1>8, <3>1 DEF Crowded
  <2> QED BY <2>1, <2>2
<1>10. Counted(u)
  BY <1>4, <1>6, <1>7, <1>9 DEF Counted
<1>12. /\ Chain(maps') /\ Len(maps') = Len(maps) /\ maps'[m] = u
       /\ \A n \in 1..Len(maps) : n # m => maps'[n] = maps[n]
  <2> DEFINE r == [maps EXCEPT ![m] = u]
  <2>1. /\ Chain(r) /\ Len(r) = Len(maps) /\ r[m] = u
        /\ \A n \in 1..Len(maps) : n # m => r[n] = maps[n]
    BY <1>1, <1>4, <1>5, ChainUpdate
  <2>2. maps' = r
    BY <1>11
  <2> HIDE DEF r
  <2> QED BY <2>1, <2>2
<1>13. i' \in 0..u.size - 1 /\ IsTable(copy')
  BY <1>1, <1>2, <1>4, ProbeIndices, EmptyTables DEF CopySwaps, NoRehash
<1>14. TypeOK'
  BY <1>1, <1>2, <1>4, <1>12, <1>13 DEF IInv, TypeOK, Chain, CopySwaps, call
<1>15. \A n \in 1..Len(maps') : Counted(maps'[n])
  BY <1>10, <1>12 DEF IInv
<1> QED BY <1>9, <1>12, <1>14, <1>15 DEF IInv, CopySwaps, call

------------------------------------------------------------------------------

LEMMA NextIInv == IInv /\ [Next]_vars => IInv'
<1> SUFFICES ASSUME IInv, [Next]_vars PROVE IInv'
  OBVIOUS
<1>1. DOMAIN maps = 1..Len(maps)
  BY ChainIsSeq DEF IInv, TypeOK, Chain
<1>2. CASE LoopStep
  BY <1>2, AdvanceIInv, GetIInv, PutEndsIInv, CopyMovesIInv, PlaceStoresIInv, CopySwapsIInv
     DEF LoopStep
<1>3. CASE OpenScope \/ CloseScope
  BY <1>3, ScopeIInv
<1>4. CASE \E n \in DOMAIN maps, key \in Keys :
             \/ CallGet(n, key)
             \/ CallRemove(n, key)
             \/ \E val \in Vals : \/ PutAllocates(n, key, val)
                                  \/ PutFits(n, key, val)
                                  \/ PutRehashes(n, key, val)
  <2>1. PICK n \in 1..Len(maps), key \in Keys :
             \/ CallGet(n, key)
             \/ CallRemove(n, key)
             \/ \E val \in Vals : \/ PutAllocates(n, key, val)
                                  \/ PutFits(n, key, val)
                                  \/ PutRehashes(n, key, val)
    BY <1>1, <1>4
  <2>2. CASE CallGet(n, key)
    BY <1>1, <2>2, GetIInv
  <2>3. CASE CallRemove(n, key) \/ \E val \in Vals : PutFits(n, key, val)
    BY <2>3, StartIInv
  <2>4. CASE \E val \in Vals : PutAllocates(n, key, val)
    BY <2>4, AllocateIInv
  <2>5. CASE \E val \in Vals : PutRehashes(n, key, val)
    BY <2>5, RehashStartIInv
  <2> QED BY <2>1, <2>2, <2>3, <2>4, <2>5
<1>5. CASE UNCHANGED vars
  BY <1>5 DEF IInv, TypeOK, Copied, Counted, vars
<1> QED BY <1>2, <1>3, <1>4, <1>5 DEF Next, ClientCall

THEOREM Inductive == Spec => []IInv
BY InitIInv, NextIInv, PTL DEF Spec

(* Every reachable state is well typed: in particular no probe index ever  *)
(* leaves the arrays of the table it walks.                                *)
THEOREM TypeCorrect == Spec => []TypeOK
<1>1. IInv => TypeOK
  BY DEF IInv
<1> QED BY <1>1, Inductive, PTL

(* nelem and nused always count the live and the used slots.               *)
THEOREM CountersCorrect == Spec => []Accounting
<1>1. IInv => Accounting
  <2> SUFFICES ASSUME IInv PROVE Accounting
    OBVIOUS
  <2>1. DOMAIN maps = 1..Len(maps)
    BY ChainIsSeq DEF IInv, TypeOK, Chain
  <2> QED BY <2>1 DEF Accounting, IInv, Counted
<1> QED BY <1>1, Inductive, PTL

(* A table with arrays always has an empty slot, and so has the one a      *)
(* rehash is filling: no loop of map.c can go round for ever.              *)
THEOREM ProbesEnd == Spec => []HasEmptySlot
<1>1. IInv => HasEmptySlot
  <2> SUFFICES ASSUME IInv PROVE HasEmptySlot
    OBVIOUS
  <2>1. DOMAIN maps = 1..Len(maps)
    BY ChainIsSeq DEF IInv, TypeOK, Chain
  <2>2. ASSUME NEW n \in DOMAIN maps, maps[n].size > 0
        PROVE  \E x \in 0..maps[n].size - 1 : maps[n].key[x] = NULL
    BY <2>1, <2>2, EmptySlotExists DEF IInv, TypeOK, Counted
  <2>3. ASSUME pc \in {"copy", "place"}
        PROVE  \E x \in 0..copy.size - 1 : copy.key[x] = NULL
    <3> DEFINE t == maps[m]
    <3>1. /\ IsTable(t) /\ Counted(t) /\ t.size > 0 /\ IsTable(copy)
          /\ copy.size = NewSize(t) /\ Cardinality(Used(copy)) = Cardinality(Copied)
      BY <2>3 DEF IInv, TypeOK
    <3> HIDE DEF t
    <3>2. Cardinality(Copied) <= t.nelem
      <4>1. Copied \subseteq Live(t)
        BY DEF Copied, t
      <4> QED BY <3>1, <4>1, SlotSets, FS_Subset DEF Counted
    <3>3. t.nelem \in Nat /\ t.nelem < copy.size
      BY <3>1, SlotSets, TableSizes DEF Counted, NewSize
    <3>4. Cardinality(Used(copy)) \in Nat
      BY <3>1, SlotSets
    <3> QED BY <3>1, <3>2, <3>3, <3>4, EmptySlotExists, TableSizes
  <2> QED BY <2>2, <2>3 DEF HasEmptySlot
<1> QED BY <1>1, Inductive, PTL
------------------------------------------------------------------------------
(* Probe paths. *)

(* Every non-empty set of naturals has a least element. *)
LEMMA LeastNumber ==
  ASSUME NEW S \in SUBSET Nat, S # {}
  PROVE  \E x \in S : \A y \in S : x <= y
<1> DEFINE R == OpToRel(<, Nat)
<1>1. \A x, y : <<x, y>> \in R <=> x \in Nat /\ y \in Nat /\ x < y
  BY DEF OpToRel
<1>2. IsWellFoundedOn(R, Nat)
  BY NatLessThanWellFounded
<1> HIDE DEF R
<1>3. PICK x \in S : \A y \in S : ~ (<<y, x>> \in R)
  BY <1>2, WFMin
<1>4. \A y \in S : x \in Nat /\ y \in Nat /\ ~ (y < x)
  BY <1>1, <1>3
<1> QED BY <1>3, <1>4

LEMMA Quotient ==
  ASSUME NEW n \in Nat \ {0}, NEW a \in Nat
  PROVE  /\ a % n \in 0..n - 1
         /\ \E q \in Int : a = (n * q) + (a % n)
<1>1. a = (n * (a \div n)) + (a % n) /\ a \div n \in Int /\ a % n \in 0..n - 1
  OBVIOUS
<1> QED BY <1>1

LEMMA Remainder ==
  ASSUME NEW n \in Nat \ {0}, NEW q \in Int, NEW r \in 0..n - 1
  PROVE  ((n * q) + r) % n = r
OBVIOUS

(* A remainder does not see another n, nor a remainder taken before. *)
LEMMA Remainders ==
  ASSUME NEW n \in Nat \ {0}, NEW a \in Nat
  PROVE  /\ (a + n) % n = a % n
         /\ ((a % n) + 1) % n = (a + 1) % n
<1>1. PICK q \in Int : a = (n * q) + (a % n)
  BY Quotient
<1> DEFINE r == a % n
<1>2. r \in 0..n - 1
  BY Quotient
<1> HIDE DEF r
<1>3. a = (n * q) + r
  BY <1>1 DEF r
<1>4. (a + n) % n = r
  <2>1. a + n = (n * (q + 1)) + r
    BY <1>2, <1>3
  <2>2. q + 1 \in Int
    OBVIOUS
  <2> QED BY <1>2, <2>1, <2>2, Remainder
<1>5. (r + 1) % n = (a + 1) % n
  <2>1. CASE r < n - 1
    <3>1. r + 1 \in 0..n - 1
      BY <1>2, <2>1
    <3>2. a + 1 = (n * q) + (r + 1)
      BY <1>2, <1>3
    <3>3. (a + 1) % n = r + 1
      BY <3>1, <3>2, Remainder
    <3>4. (r + 1) % n = r + 1
      <4>1. r + 1 = (n * 0) + (r + 1)
        BY <3>1
      <4> QED BY <3>1, <4>1, Remainder
    <3> QED BY <3>3, <3>4
  <2>2. CASE r = n - 1
    <3>1. r + 1 = (n * 1) + 0 /\ 0 \in 0..n - 1
      BY <2>2
    <3>2. a + 1 = (n * (q + 1)) + 0 /\ q + 1 \in Int
      BY <1>3, <2>2
    <3>3. (r + 1) % n = 0
      BY <3>1, Remainder
    <3>4. (a + 1) % n = 0
      BY <3>1, <3>2, Remainder
    <3> QED BY <3>3, <3>4
  <2> QED BY <1>2, <2>1, <2>2
<1> QED BY <1>4, <1>5 DEF r

(* The slot a probe for key reaches after d steps. *)
Path(key, size, d) == (Hash[key] + d) % size

LEMMA PathSteps ==
  ASSUME NEW key \in Keys, NEW size \in Nat \ {0}, NEW d \in Nat
  PROVE  /\ Path(key, size, d) \in 0..size - 1
         /\ Path(key, size, 0) = Home(key, size)
         /\ Path(key, size, d + 1) = Step(Path(key, size, d), size)
         /\ Path(key, size, d + size) = Path(key, size, d)
<1> DEFINE h == Hash[key]
<1>1. h \in Nat
  BY HashAssumption
<1> HIDE DEF h
<1>2. h + d \in Nat /\ (h + 0) = h /\ h + (d + 1) = (h + d) + 1
      /\ h + (d + size) = (h + d) + size
  BY <1>1
<1>3. (h + d) % size \in 0..size - 1
  BY <1>2, Quotient
<1>4. (h + (d + 1)) % size = (((h + d) % size) + 1) % size
  BY <1>2, Remainders
<1>5. (h + (d + size)) % size = (h + d) % size
  BY <1>2, Remainders
<1> QED BY <1>1, <1>2, <1>3, <1>4, <1>5 DEF Path, Home, Step, h

(* A probe for key walks over other keys for d steps ... *)
Clear(t, key, d) == \A e \in 0..d - 1 : t.key[Path(key, t.size, e)] \in Keys \ {key}

(* ... and so reaches slot x. *)
Reaches(t, key, x) == \E d \in Nat : Path(key, t.size, d) = x /\ Clear(t, key, d)

LEMMA ReachesHome ==
  ASSUME NEW t, IsTable(t), t.size > 0, NEW key \in Keys
  PROVE  Reaches(t, key, Home(key, t.size))
<1>1. Path(key, t.size, 0) = Home(key, t.size)
  BY TableSizes, PathSteps
<1>2. Clear(t, key, 0)
  BY DEF Clear
<1> QED BY <1>1, <1>2 DEF Reaches

LEMMA ReachesNext ==
  ASSUME NEW t, IsTable(t), t.size > 0, NEW key \in Keys, NEW x, Reaches(t, key, x),
         t.key[x] \in Keys \ {key}
  PROVE  Reaches(t, key, Step(x, t.size))
<1>1. PICK d \in Nat : Path(key, t.size, d) = x /\ Clear(t, key, d)
  BY DEF Reaches
<1>2. Path(key, t.size, d + 1) = Step(x, t.size) /\ d + 1 \in Nat
  BY <1>1, TableSizes, PathSteps
<1>3. Clear(t, key, d + 1)
  <2> SUFFICES ASSUME NEW e \in 0..(d + 1) - 1
               PROVE  t.key[Path(key, t.size, e)] \in Keys \ {key}
    BY DEF Clear
  <2>1. e = d \/ e \in 0..d - 1
    OBVIOUS
  <2> QED BY <1>1, <2>1 DEF Clear
<1> QED BY <1>2, <1>3 DEF Reaches

(* Two slots a probe could stop at are one. *)
LEMMA ReachesOne ==
  ASSUME NEW t, IsTable(t), t.size > 0, NEW key \in Keys,
         NEW x, Reaches(t, key, x), t.key[x] \notin Keys \ {key},
         NEW y, Reaches(t, key, y), t.key[y] \notin Keys \ {key}
  PROVE  x = y
<1>1. PICK d \in Nat : Path(key, t.size, d) = x /\ Clear(t, key, d)
  BY DEF Reaches
<1>2. PICK e \in Nat : Path(key, t.size, e) = y /\ Clear(t, key, e)
  BY DEF Reaches
<1>3. ~ (d < e) /\ ~ (e < d)
  BY <1>1, <1>2 DEF Clear
<1> QED BY <1>1, <1>2, <1>3

(* A slot that ends the probe is reached before the path comes round, and  *)
(* it is the one that answers.                                             *)
LEMMA AnswerAt ==
  ASSUME NEW t, IsTable(t), t.size > 0, NEW key \in Keys, NEW x,
         Reaches(t, key, x), t.key[x] \in {key, NULL}
  PROVE  Answer(t, key) = t.val[x]
<1> DEFINE stops == {d \in 0..t.size - 1 : t.key[Path(key, t.size, d)] \in {key, NULL}}
<1>1. PICK d \in Nat : Path(key, t.size, d) = x /\ Clear(t, key, d)
  BY DEF Reaches
<1>2. t.size \in Nat \ {0}
  BY TableSizes
<1>3. d < t.size
  <2> SUFFICES ASSUME d >= t.size PROVE FALSE
    BY <1>2
  <2>1. d - t.size \in Nat /\ d - t.size \in 0..d - 1 /\ (d - t.size) + t.size = d
    BY <1>2
  <2>2. Path(key, t.size, (d - t.size) + t.size) = Path(key, t.size, d - t.size)
    BY <1>2, <2>1, PathSteps
  <2>3. Path(key, t.size, d - t.size) = x
    BY <1>1, <2>1, <2>2
  <2> QED BY <1>1, <2>1, <2>3, SlotAssumption DEF Clear
<1>4. d \in stops
  BY <1>1, <1>2, <1>3
<1>5. ASSUME NEW e \in stops PROVE d <= e
  <2>1. e \in Nat /\ (e < d => e \in 0..d - 1)
    BY <1>2
  <2> QED BY <1>1, <2>1, SlotAssumption DEF Clear
<1>6. (CHOOSE a \in stops : \A e \in stops : a <= e) = d
  <2>1. \A a \in stops : (\A e \in stops : a <= e) => a = d
    <3>1. stops \subseteq Nat
      BY <1>2
    <3> QED BY <1>4, <1>5, <3>1
  <2> QED BY <1>4, <1>5, <2>1
<1>7. Answer(t, key) = IF stops = {} THEN NoVal
                       ELSE t.val[Path(key, t.size, CHOOSE a \in stops : \A e \in stops : a <= e)]
  BY DEF Answer, Path
<1> QED BY <1>1, <1>4, <1>6, <1>7

(* A table nothing was removed from: every key is where a probe finds it.  *)
Sound(t) ==
  \A x \in 0..t.size - 1 :
    \/ t.key[x] = NULL /\ t.val[x] = NoVal
    \/ t.key[x] \in Keys /\ t.val[x] \in Vals /\ Reaches(t, t.key[x], x)

Holds(t, x, key) == x \in 0..t.size - 1 /\ t.key[x] = key

LEMMA SoundHolds ==
  ASSUME NEW t, IsTable(t), Sound(t), NEW key \in Keys, NEW x, Holds(t, x, key)
  PROVE  /\ Answer(t, key) = t.val[x]
         /\ t.val[x] \in Vals
         /\ \A y : Holds(t, y, key) => y = x
<1>1. t.size > 0
  BY TableSizes DEF Holds
<1>2. \A y : Holds(t, y, key) => t.val[y] \in Vals /\ Reaches(t, key, y)
  BY SlotAssumption DEF Sound, Holds
<1>3. t.key[x] \notin Keys \ {key} /\ \A y : Holds(t, y, key) => t.key[y] \notin Keys \ {key}
  BY DEF Holds
<1>4. \A y : Holds(t, y, key) => y = x
  BY <1>1, <1>2, <1>3, ReachesOne
<1>5. Answer(t, key) = t.val[x]
  BY <1>1, <1>2, AnswerAt DEF Holds
<1> QED BY <1>2, <1>4, <1>5

LEMMA SoundLacks ==
  ASSUME NEW t, IsTable(t), Sound(t), NEW key \in Keys, \A x : ~ Holds(t, x, key)
  PROVE  Answer(t, key) = NoVal
<1> DEFINE stops == {d \in 0..t.size - 1 : t.key[Path(key, t.size, d)] \in {key, NULL}}
           first == CHOOSE a \in stops : \A e \in stops : a <= e
<1>1. Answer(t, key) = IF stops = {} THEN NoVal ELSE t.val[Path(key, t.size, first)]
  BY DEF Answer, Path
<1>2. CASE stops # {}
  <2>1. t.size \in Nat /\ stops \in SUBSET Nat
    BY TableSizes
  <2>2. first \in stops
    BY <1>2, <2>1, LeastNumber
  <2> HIDE DEF first
  <2>3. first \in 0..t.size - 1 /\ t.key[Path(key, t.size, first)] \in {key, NULL}
    BY <2>2
  <2>4. Path(key, t.size, first) \in 0..t.size - 1
    <3>1. first \in Nat /\ t.size \in Nat \ {0}
      BY <2>1, <2>3
    <3> QED BY <3>1, PathSteps
  <2>5. t.key[Path(key, t.size, first)] = NULL
    BY <2>3, <2>4 DEF Holds
  <2>6. t.val[Path(key, t.size, first)] = NoVal
    BY <2>4, <2>5, SlotAssumption DEF Sound
  <2> QED BY <1>1, <1>2, <2>6
<1>3. CASE stops = {}
  BY <1>1, <1>3
<1> QED BY <1>2, <1>3

(* Answers of sound tables. *)
LEMMA AnswerType ==
  ASSUME NEW t, IsTable(t), Sound(t), NEW key \in Keys
  PROVE  Answer(t, key) \in Vals \cup {NoVal}
<1>1. CASE \E x : Holds(t, x, key)
  BY <1>1, SoundHolds
<1>2. CASE \A x : ~ Holds(t, x, key)
  BY <1>2, SoundLacks
<1> QED BY <1>1, <1>2

(* Two tables with the same bindings answer alike, wherever they keep them. *)
LEMMA SameAnswers ==
  ASSUME NEW t, IsTable(t), Sound(t), NEW u, IsTable(u), Sound(u), NEW key \in Keys,
         \A x : Holds(t, x, key) => \E y : Holds(u, y, key) /\ u.val[y] = t.val[x],
         \A y : Holds(u, y, key) => \E x : Holds(t, x, key)
  PROVE  Answer(u, key) = Answer(t, key)
<1>1. CASE \E x : Holds(t, x, key)
  <2>1. PICK x : Holds(t, x, key)
    BY <1>1
  <2>2. PICK y : Holds(u, y, key) /\ u.val[y] = t.val[x]
    BY <2>1
  <2> QED BY <2>1, <2>2, SoundHolds
<1>2. CASE \A x : ~ Holds(t, x, key)
  <2>1. \A y : ~ Holds(u, y, key)
    BY <1>2
  <2> QED BY <1>2, <2>1, SoundLacks
<1> QED BY <1>1, <1>2

LEMMA EmptySound ==
  ASSUME NEW size \in {0} \cup InitSize..MaxSize
  PROVE  /\ Sound(EmptyTable(size))
         /\ \A key \in Keys : Answer(EmptyTable(size), key) = NoVal
<1> DEFINE t == EmptyTable(size)
<1>1. IsTable(t) /\ t.size = size
  BY EmptyTables
<1>2. \A x \in 0..t.size - 1 : t.key[x] = NULL /\ t.val[x] = NoVal
  BY DEF EmptyTable
<1> HIDE DEF t
<1>3. Sound(t)
  BY <1>2 DEF Sound
<1>4. \A key \in Keys : \A x : ~ Holds(t, x, key)
  BY <1>2, SlotAssumption DEF Holds
<1>5. \A key \in Keys : Answer(t, key) = NoVal
  BY <1>1, <1>3, <1>4, SoundLacks
<1> QED BY <1>3, <1>5 DEF t

(* The arrays of t and u are the same but for the binding in slot x. *)
Stores(t, u, x, key, val) ==
  /\ u.size = t.size
  /\ u.key = [t.key EXCEPT ![x] = key]
  /\ u.val = [t.val EXCEPT ![x] = val]

(* What a probe walked over is not what is written. *)
LEMMA ReachesKept ==
  ASSUME NEW t, IsTable(t), NEW x \in 0..t.size - 1, NEW key \in Keys, NEW val,
         NEW u, Stores(t, u, x, key, val),
         t.key[x] \notin Keys \ {key},
         NEW c \in Keys, NEW y, Reaches(t, c, y)
  PROVE  Reaches(u, c, y)
<1>1. PICK d \in Nat : Path(c, t.size, d) = y /\ Clear(t, c, d)
  BY DEF Reaches
<1>2. t.size \in Nat \ {0}
  BY TableSizes
<1>3. ASSUME NEW e \in 0..d - 1 PROVE u.key[Path(c, t.size, e)] \in Keys \ {c}
  <2>1. e \in Nat /\ t.key[Path(c, t.size, e)] \in Keys \ {c}
    BY <1>1 DEF Clear
  <2>2. Path(c, t.size, e) \in 0..t.size - 1
    BY <1>2, <2>1, PathSteps
  <2>3. Path(c, t.size, e) = x => t.key[x] = key
    BY <2>1
  <2>4. u.key[Path(c, t.size, e)] = t.key[Path(c, t.size, e)]
    BY <2>2, <2>3 DEF Stores, IsTable
  <2> QED BY <2>1, <2>4
<1>4. Clear(u, c, d) /\ Path(c, u.size, d) = y
  BY <1>1, <1>3 DEF Clear, Stores
<1> QED BY <1>4 DEF Reaches

(* After a store where its probe ended, the key is found with its value:   *)
(* this needs nothing of the rest of the table.                            *)
LEMMA StoredIsSeen ==
  ASSUME NEW t, IsTable(t), NEW x \in 0..t.size - 1, NEW key \in Keys, NEW val,
         Reaches(t, key, x), t.key[x] \notin Keys \ {key},
         NEW u, IsTable(u), Stores(t, u, x, key, val)
  PROVE  Answer(u, key) = val
<1>1. u.key[x] = key /\ u.val[x] = val /\ u.size > 0
  BY TableSizes DEF Stores, IsTable
<1>2. Reaches(u, key, x)
  BY ReachesKept
<1> QED BY <1>1, <1>2, AnswerAt

LEMMA StoreSound ==
  ASSUME NEW t, IsTable(t), Sound(t), NEW x \in 0..t.size - 1,
         NEW key \in Keys, NEW val \in Vals,
         Reaches(t, key, x), t.key[x] \notin Keys \ {key},
         NEW u, IsTable(u), Stores(t, u, x, key, val)
  PROVE  /\ Sound(u)
         /\ \A y : Holds(t, y, key) => y = x
         /\ \A c \in Keys \ {key} : \A y : Holds(u, y, c) <=> Holds(t, y, c)
         /\ \A y \in 0..t.size - 1 : y # x => u.val[y] = t.val[y]
         /\ \A c \in Keys \ {key} : Answer(u, c) = Answer(t, c)
<1>1. /\ u.size = t.size /\ u.key[x] = key /\ u.val[x] = val
      /\ \A y \in 0..t.size - 1 : y # x => u.key[y] = t.key[y] /\ u.val[y] = t.val[y]
  BY DEF Stores, IsTable
<1>2. t.size > 0
  BY TableSizes
<1>3. Sound(u)
  <2> SUFFICES ASSUME NEW y \in 0..u.size - 1
               PROVE  \/ u.key[y] = NULL /\ u.val[y] = NoVal
                      \/ u.key[y] \in Keys /\ u.val[y] \in Vals /\ Reaches(u, u.key[y], y)
    BY DEF Sound
  <2>1. CASE y = x
    <3>1. Reaches(u, key, x)
      BY ReachesKept
    <3> QED BY <1>1, <2>1, <3>1
  <2>2. CASE y # x /\ t.key[y] \in Keys
    <3>1. Reaches(t, t.key[y], y) /\ t.val[y] \in Vals
      BY <1>1, <2>2, SlotAssumption DEF Sound
    <3> QED BY <1>1, <2>2, <3>1, ReachesKept
  <2>3. CASE y # x /\ t.key[y] \notin Keys
    BY <1>1, <2>3 DEF Sound
  <2> QED BY <2>1, <2>2, <2>3
<1>4. ASSUME NEW y, Holds(t, y, key) PROVE y = x
  <2>1. Reaches(t, key, y) /\ t.key[y] \notin Keys \ {key}
    BY <1>4, SlotAssumption DEF Sound, Holds
  <2> QED BY <1>2, <2>1, ReachesOne
<1>5. \A c \in Keys \ {key} : \A y : Holds(u, y, c) <=> Holds(t, y, c)
  BY <1>1 DEF Holds
<1>6. ASSUME NEW c \in Keys \ {key} PROVE Answer(u, c) = Answer(t, c)
  <2>1. \A y : Holds(t, y, c) => Holds(u, y, c) /\ u.val[y] = t.val[y]
    BY <1>1, <1>5 DEF Holds
  <2>2. \A y : Holds(u, y, c) => Holds(t, y, c)
    BY <1>5
  <2> QED BY <1>3, <2>1, <2>2, SameAnswers
<1> QED BY <1>1, <1>3, <1>4, <1>5, <1>6

(* The counters play no part in an answer. *)
LEMMA SameArrays ==
  ASSUME NEW t, NEW u, u.size = t.size, u.key = t.key, u.val = t.val
  PROVE  /\ Sound(t) => Sound(u)
         /\ \A key : Answer(u, key) = Answer(t, key)
         /\ \A key, x : Reaches(t, key, x) => Reaches(u, key, x)
<1>1. \A key, d : Clear(t, key, d) => Clear(u, key, d)
  BY DEF Clear
<1>2. \A key, x : Reaches(t, key, x) => Reaches(u, key, x)
  BY <1>1 DEF Reaches
<1>3. Sound(t) => Sound(u)
  BY <1>2 DEF Sound
<1>4. \A key : Answer(u, key) = Answer(t, key)
  BY DEF Answer
<1> QED BY <1>2, <1>3, <1>4

------------------------------------------------------------------------------
(* What each writing action does to the chain. *)

LEMMA ChainOf ==
  ASSUME IInv
  PROVE  /\ DOMAIN maps = 1..Len(maps) /\ Len(maps) \in Nat \ {0}
         /\ maps = [n \in 1..Len(maps) |-> maps[n]]
         /\ \A n \in 1..Len(maps) : IsTable(maps[n])
BY ChainIsSeq DEF IInv, TypeOK, Chain

LEMMA SameLength ==
  ASSUME NEW a \in Nat, NEW b \in Nat, 1..a = 1..b
  PROVE  a = b
<1>1. a \in 1..b \/ a = 0
  OBVIOUS
<1>2. b \in 1..a \/ b = 0
  OBVIOUS
<1> QED BY <1>1, <1>2

LEMMA PutEffect ==
  ASSUME IInv, PutInserts \/ PutOverwrites
  PROVE  /\ Len(maps') = Len(maps) /\ m \in 1..Len(maps)
         /\ IsTable(maps'[m]) /\ Stores(maps[m], maps'[m], i, k, v)
         /\ \A n \in 1..Len(maps) : n # m => maps'[n] = maps[n]
<1>1. IInv'
  BY PutEndsIInv
<1>2. /\ m \in 1..Len(maps) /\ IsTable(maps[m]) /\ i \in 0..maps[m].size - 1
      /\ Len(maps) \in Nat /\ maps = [n \in 1..Len(maps) |-> maps[n]]
  BY DEF IInv, TypeOK, PutInserts, PutOverwrites, Probing
<1>3. /\ Stores(maps[m], maps'[m], i, k, v) /\ DOMAIN maps' = DOMAIN maps
      /\ \A n \in 1..Len(maps) : n # m => maps'[n] = maps[n]
  <2>1. CASE PutInserts
    BY <1>2, <2>1 DEF PutInserts, Stores, IsTable
  <2>2. CASE PutOverwrites
    <3>1. maps[m].key[i] = k
      BY <2>2 DEF PutOverwrites
    <3>2. maps[m].key = [maps[m].key EXCEPT ![i] = k]
      BY <1>2, <3>1 DEF IsTable
    <3> QED BY <1>2, <2>2, <3>2 DEF PutOverwrites, Stores, IsTable
  <2> QED BY <2>1, <2>2
<1>4. DOMAIN maps = 1..Len(maps) /\ DOMAIN maps' = 1..Len(maps') /\ Len(maps') \in Nat
  <2>1. maps' = [n \in 1..Len(maps') |-> maps'[n]] /\ Len(maps') \in Nat
    BY <1>1 DEF IInv, TypeOK
  <2> QED BY <1>2, <2>1
<1>5. Len(maps') = Len(maps)
  BY <1>2, <1>3, <1>4
<1> QED BY <1>1, <1>2, <1>3, <1>5 DEF IInv, TypeOK

LEMMA AllocateEffect ==
  ASSUME IInv, NEW n \in 1..Len(maps), NEW key \in Keys, NEW val \in Vals,
         PutAllocates(n, key, val)
  PROVE  /\ Len(maps') = Len(maps)
         /\ maps[n].size = 0
         /\ maps'[n].size = InitSize
         /\ maps'[n].key = EmptyTable(InitSize).key
         /\ maps'[n].val = EmptyTable(InitSize).val
         /\ \A p \in 1..Len(maps) : p # n => maps'[p] = maps[p]
<1> DEFINE t == [EmptyTable(InitSize) EXCEPT !.nelem = maps[n].nelem, !.nused = maps[n].nused]
<1>1. /\ t.size = InitSize
      /\ t.key = EmptyTable(InitSize).key
      /\ t.val = EmptyTable(InitSize).val
  BY DEF EmptyTable
<1>2. maps' = [maps EXCEPT ![n] = t]
  BY DEF PutAllocates
<1> HIDE DEF t
<1>3. IInv'
  BY AllocateIInv
<1>4. maps = [p \in 1..Len(maps) |-> maps[p]] /\ Len(maps) \in Nat /\ Len(maps') \in Nat
      /\ maps' = [p \in 1..Len(maps') |-> maps'[p]]
  BY <1>3 DEF IInv, TypeOK
<1>5. DOMAIN maps' = DOMAIN maps /\ maps'[n] = t
      /\ \A p \in 1..Len(maps) : p # n => maps'[p] = maps[p]
  BY <1>2, <1>4
<1>6. DOMAIN maps = 1..Len(maps) /\ DOMAIN maps' = 1..Len(maps')
  BY <1>4
<1>7. Len(maps') = Len(maps)
  BY <1>4, <1>5, <1>6, SameLength
<1> QED BY <1>1, <1>5, <1>7 DEF PutAllocates

LEMMA SwapEffect ==
  ASSUME IInv, CopySwaps
  PROVE  /\ Len(maps') = Len(maps) /\ m \in 1..Len(maps)
         /\ maps'[m].size = copy.size
         /\ maps'[m].key = copy.key
         /\ maps'[m].val = copy.val
         /\ \A p \in 1..Len(maps) : p # m => maps'[p] = maps[p]
<1> DEFINE t == [copy EXCEPT !.nelem = maps[m].nelem, !.nused = maps[m].nelem]
<1>1. IsTable(copy) /\ m \in 1..Len(maps)
  BY DEF IInv, TypeOK, CopySwaps
<1>2. t.size = copy.size /\ t.key = copy.key /\ t.val = copy.val
  BY <1>1 DEF IsTable
<1>3. maps' = [maps EXCEPT ![m] = t]
  BY DEF CopySwaps
<1> HIDE DEF t
<1>4. IInv'
  BY CopySwapsIInv
<1>5. maps = [p \in 1..Len(maps) |-> maps[p]] /\ Len(maps) \in Nat /\ Len(maps') \in Nat
      /\ maps' = [p \in 1..Len(maps') |-> maps'[p]]
  BY <1>4 DEF IInv, TypeOK
<1>6. DOMAIN maps' = DOMAIN maps /\ maps'[m] = t
      /\ \A p \in 1..Len(maps) : p # m => maps'[p] = maps[p]
  BY <1>1, <1>3, <1>5
<1>7. DOMAIN maps = 1..Len(maps) /\ DOMAIN maps' = 1..Len(maps')
  BY <1>5
<1>8. Len(maps') = Len(maps)
  BY <1>5, <1>6, <1>7, SameLength
<1> QED BY <1>1, <1>2, <1>6, <1>8

LEMMA OpenEffect ==
  ASSUME IInv, OpenScope
  PROVE  /\ Len(maps') = Len(maps) + 1
         /\ maps'[Len(maps) + 1] = EmptyTable(InitSize)
         /\ \A n \in 1..Len(maps) : maps'[n] = maps[n]
<1> DEFINE t == EmptyTable(InitSize)
<1>1. Chain(maps) /\ IsTable(t) /\ t.size > 0
  BY EmptyTables, SizeAssumption, BoundAssumption DEF IInv, TypeOK, Chain
<1> HIDE DEF t
<1>2. maps' = Append(maps, t)
  BY DEF OpenScope, t
<1> QED BY <1>1, <1>2, ChainAppend DEF t

LEMMA CloseEffect ==
  ASSUME IInv, CloseScope
  PROVE  /\ Len(maps') = Len(maps) - 1 /\ Len(maps) > 1
         /\ \A n \in 1..Len(maps') : maps'[n] = maps[n]
<1>1. Chain(maps) /\ Len(maps) > 1
  BY DEF IInv, TypeOK, Chain, CloseScope
<1> QED BY <1>1, ChainShrink DEF CloseScope

------------------------------------------------------------------------------
(* The search invariant. *)

(* A rehash has moved the bindings of the slots below s, and no others. *)
Moved ==
  /\ \A x \in Copied : \E y : Holds(copy, y, maps[m].key[x]) /\ copy.val[y] = maps[m].val[x]
  /\ \A key \in Keys : \A y : Holds(copy, y, key) => \E x \in Copied : maps[m].key[x] = key

PutOnPath == pc = "probe" /\ op = "put" => Reaches(maps[m], k, i)

GetOnPath ==
  pc = "probe" /\ op = "get" =>
    /\ Reaches(maps[m], k, i)
    /\ result = NoVal
    /\ \A n \in 1..Len(maps) : n > m => Answer(maps[n], k) = NoVal

CopyAgrees ==
  /\ pc \in {"copy", "place"} => Sound(copy) /\ Moved
  /\ pc = "place" => Reaches(copy, maps[m].key[s], j)

SInv ==
  /\ op = "remove" => table = "macros"
  /\ PutOnPath
  /\ table = "env" => /\ \A n \in 1..Len(maps) : Sound(maps[n])
                      /\ GetOnPath
                      /\ CopyAgrees

LEMMA InitSInv == Init => SInv
<1> SUFFICES ASSUME Init PROVE SInv
  OBVIOUS
<1>1. Len(maps) = 1 /\ maps[1] = EmptyTable(0)
  BY DEF Init
<1>2. Sound(EmptyTable(0))
  BY EmptySound
<1>3. \A n \in 1..Len(maps) : Sound(maps[n])
  BY <1>1, <1>2
<1> QED BY <1>3 DEF Init, SInv, PutOnPath, GetOnPath, CopyAgrees

LEMMA AdvanceSInv ==
  ASSUME IInv, SInv, PutAdvances \/ GetAdvances \/ RemoveAdvances
  PROVE  SInv'
<1> USE DEF PutAdvances, GetAdvances, RemoveAdvances, Probing, call, rehash
<1>1. /\ pc = "probe" /\ IsTable(maps[m]) /\ maps[m].size > 0 /\ k \in Keys
      /\ m \in 1..Len(maps) /\ i \in 0..maps[m].size - 1
  BY DEF IInv, TypeOK
<1>2. PutOnPath'
  <2>1. CASE PutAdvances
    BY <1>1, <2>1, ReachesNext DEF SInv, PutOnPath
  <2>2. CASE op # "put"
    BY <2>2 DEF PutOnPath
  <2> QED BY <2>1, <2>2
<1>3. ASSUME table = "env" PROVE GetOnPath'
  <2>1. CASE GetAdvances
    <3>1. Sound(maps[m]) /\ GetOnPath
      BY <1>1, <1>3 DEF SInv
    <3>2. maps[m].key[i] \in Keys \ {k}
      BY <1>1, <2>1, <3>1 DEF Sound
    <3> QED BY <1>1, <2>1, <3>1, <3>2, ReachesNext DEF GetOnPath
  <2>2. CASE op # "get"
    BY <2>2 DEF GetOnPath
  <2> QED BY <2>1, <2>2
<1>4. CopyAgrees'
  BY <1>1 DEF CopyAgrees
<1> QED BY <1>2, <1>3, <1>4 DEF SInv

(* A return that leaves the tables as they are. *)
LEMMA ReturnSInv ==
  ASSUME SInv, Return, UNCHANGED maps
  PROVE  SInv'
BY DEF SInv, Return, NoCall, PutOnPath, GetOnPath, CopyAgrees

(* A lookup goes to map n; the maps inside n have no binding. *)
LEMMA MapGetSInv ==
  ASSUME IInv, SInv, NEW n \in 1..Len(maps), NEW key \in Keys, MapGet(n, key),
         UNCHANGED maps, result' = NoVal,
         table = "env" => \A p \in 1..Len(maps) : p > n => Answer(maps[p], key) = NoVal
  PROVE  SInv'
<1>1. CASE Return
  BY <1>1, ReturnSInv
<1>2. CASE /\ maps[n].size > 0
           /\ op' = "get" /\ m' = n /\ k' = key /\ v' = NoVal
           /\ pc' = "probe"
           /\ i' = Home(key, maps[n].size)
           /\ UNCHANGED <<table, rehash>>
  <2>1. Reaches(maps[n], key, i')
    BY <1>2, ReachesHome DEF IInv, TypeOK
  <2>2. table' = "env" => GetOnPath'
    BY <1>2, <2>1 DEF GetOnPath
  <2> QED BY <1>2, <2>2 DEF SInv, PutOnPath, CopyAgrees
<1> QED BY <1>1, <1>2 DEF MapGet

LEMMA GetSInv ==
  ASSUME IInv, SInv,
         GetHits \/ GetMisses \/ RemoveMisses
           \/ \E n \in DOMAIN maps, key \in Keys : CallGet(n, key)
  PROVE  SInv'
<1>0. DOMAIN maps = 1..Len(maps) /\ Len(maps) \in Nat
  BY ChainOf
<1>1. CASE GetHits \/ RemoveMisses
  BY <1>1, ReturnSInv DEF GetHits, RemoveMisses
<1>2. CASE GetMisses
  <2>1. /\ pc = "probe" /\ op = "get" /\ m \in 1..Len(maps) /\ k \in Keys
        /\ IsTable(maps[m]) /\ maps[m].size > 0 /\ i \in 0..maps[m].size - 1
        /\ maps[m].key[i] = NULL
    BY <1>2 DEF GetMisses, Probing, IInv, TypeOK
  <2>2. CASE m > 1 /\ MapGet(m - 1, k) /\ table = "env"
    <3>1. Sound(maps[m]) /\ GetOnPath
      BY <2>1, <2>2 DEF SInv
    <3>2. Answer(maps[m], k) = NoVal
      BY <2>1, <3>1, AnswerAt, SlotAssumption DEF GetOnPath, Sound
    <3>3. \A p \in 1..Len(maps) : p > m - 1 => Answer(maps[p], k) = NoVal
      BY <2>1, <3>1, <3>2 DEF GetOnPath
    <3>4. m - 1 \in 1..Len(maps) /\ result' = NoVal /\ UNCHANGED maps
      BY <1>0, <1>2, <2>1, <2>2, <3>1 DEF GetMisses, GetOnPath
    <3> QED BY <2>1, <2>2, <3>3, <3>4, MapGetSInv
  <2>3. CASE m > 1 /\ MapGet(m - 1, k) /\ table # "env"
    <3>1. CASE Return
      BY <1>2, <3>1, ReturnSInv DEF GetMisses
    <3>2. CASE ~ Return
      <4>1. /\ op' = "get" /\ pc' = "probe" /\ UNCHANGED table
        BY <2>3, <3>2 DEF MapGet
      <4> QED BY <2>3, <4>1 DEF SInv, PutOnPath
    <3> QED BY <3>1, <3>2
  <2>4. CASE Return
    BY <1>2, <2>4, ReturnSInv DEF GetMisses
  <2> QED BY <1>2, <2>2, <2>3, <2>4 DEF GetMisses
<1>3. CASE \E n \in DOMAIN maps, key \in Keys : CallGet(n, key)
  <2>1. PICK n \in DOMAIN maps, key \in Keys : CallGet(n, key)
    BY <1>3
  <2>2. n \in 1..Len(maps) /\ n = Len(maps) /\ \A p \in 1..Len(maps) : ~ (p > n)
    BY <1>0, <2>1 DEF CallGet
  <2> QED BY <2>1, <2>2, MapGetSInv DEF CallGet
<1> QED BY <1>1, <1>2, <1>3

LEMMA ScopeSInv ==
  ASSUME IInv, SInv, OpenScope \/ CloseScope
  PROVE  SInv'
<1>1. pc = "idle" /\ UNCHANGED <<table, pc, call>>
  BY DEF OpenScope, CloseScope
<1>2. ASSUME table = "env", NEW n \in 1..Len(maps') PROVE Sound(maps'[n])
  <2>1. CASE OpenScope
    <3>1. n \in 1..Len(maps) \/ n = Len(maps) + 1
      BY <2>1, OpenEffect, ChainOf
    <3>2. Sound(EmptyTable(InitSize))
      BY EmptySound, SizeAssumption, BoundAssumption
    <3> QED BY <1>2, <2>1, <3>1, <3>2, OpenEffect DEF SInv
  <2>2. CASE CloseScope
    <3>1. n \in 1..Len(maps) /\ maps'[n] = maps[n]
      BY <2>2, CloseEffect, ChainOf
    <3> QED BY <1>2, <3>1 DEF SInv
  <2> QED BY <2>1, <2>2
<1> QED BY <1>1, <1>2 DEF SInv, PutOnPath, GetOnPath, CopyAgrees, call

(* The opening of a put or of a remove. *)
LEMMA StartSInv ==
  ASSUME IInv, SInv, NEW n \in 1..Len(maps), NEW key \in Keys,
         \/ CallRemove(n, key)
         \/ \E val \in Vals : PutFits(n, key, val) \/ PutAllocates(n, key, val)
  PROVE  SInv'
<1>1. /\ pc' = "probe" /\ m' = n /\ k' = key /\ op' \in {"put", "remove"} /\ UNCHANGED table
      /\ op' = "remove" => table = "macros"
  BY DEF CallRemove, PutFits, PutAllocates, Call
<1>2. CASE CallRemove(n, key) \/ \E val \in Vals : PutFits(n, key, val)
  <2>1. UNCHANGED maps /\ i' = Home(key, maps[n].size) /\ maps[n].size > 0
    BY <1>2 DEF CallRemove, PutFits
  <2>2. Reaches(maps[n], key, i')
    BY <2>1, ReachesHome DEF IInv, TypeOK
  <2> QED BY <1>1, <2>1, <2>2 DEF SInv, PutOnPath, GetOnPath, CopyAgrees
<1>3. CASE \E val \in Vals : PutAllocates(n, key, val)
  <2>1. PICK val \in Vals : PutAllocates(n, key, val)
    BY <1>3
  <2> DEFINE e == EmptyTable(InitSize)
  <2>2. IsTable(e) /\ e.size = InitSize /\ Sound(e) /\ InitSize > 0
    BY EmptyTables, EmptySound, SizeAssumption, BoundAssumption
  <2> HIDE DEF e
  <2>3. /\ Len(maps') = Len(maps)
        /\ maps'[n].size = e.size /\ maps'[n].key = e.key /\ maps'[n].val = e.val
        /\ \A p \in 1..Len(maps) : p # n => maps'[p] = maps[p]
    BY <2>1, <2>2, AllocateEffect DEF e
  <2>4. Sound(maps'[n]) /\ Reaches(maps'[n], key, i')
    <3>1. Reaches(e, key, Home(key, e.size))
      BY <2>2, ReachesHome
    <3>2. i' = Home(key, e.size)
      BY <2>1, <2>2 DEF PutAllocates
    <3> QED BY <2>2, <2>3, <3>1, <3>2, SameArrays
  <2>5. PutOnPath' /\ (table' = "env" => GetOnPath' /\ CopyAgrees')
    BY <1>1, <2>1, <2>4 DEF PutOnPath, GetOnPath, CopyAgrees, PutAllocates, Call
  <2>6. table' = "env" => \A p \in 1..Len(maps') : Sound(maps'[p])
    BY <1>1, <2>3, <2>4 DEF SInv
  <2> QED BY <1>1, <2>5, <2>6 DEF SInv
<1> QED BY <1>2, <1>3

LEMMA RehashStartSInv ==
  ASSUME IInv, SInv, NEW n \in 1..Len(maps), NEW key \in Keys, NEW val \in Vals,
         PutRehashes(n, key, val)
  PROVE  SInv'
<1> USE DEF PutRehashes, Call
<1>1. IInv' /\ IsTable(maps[n]) /\ maps[n].size > 0
  BY RehashStartIInv DEF IInv, TypeOK
<1>2. NewSize(maps[n]) \in InitSize..MaxSize
  <2>1. IsTable(maps[n]) /\ maps[n].size > 0
    BY <1>1
  <2> QED BY <2>1, TableSizes, SizeAssumption, BoundAssumption DEF NewSize, IsTable
<1> DEFINE z == NewSize(maps[n])
<1> HIDE DEF z
<1>3. copy' = EmptyTable(z) /\ z \in {0} \cup InitSize..MaxSize
  BY <1>2 DEF z
<1>4. Sound(copy') /\ copy'.size = z /\ \A x \in 0..copy'.size - 1 : copy'.key[x] = NULL
  <2>1. copy'.size = z /\ \A x \in 0..z - 1 : copy'.key[x] = NULL
    BY <1>3 DEF EmptyTable
  <2> QED BY <1>3, <2>1, EmptySound
<1>5. Copied' = {}
  BY <1>1, TableSizes DEF Copied, Live
<1>6. Moved'
  BY <1>4, <1>5, SlotAssumption DEF Moved, Holds
<1>7. CopyAgrees'
  BY <1>4, <1>6 DEF CopyAgrees
<1> QED BY <1>7 DEF SInv, PutOnPath, GetOnPath

(* What holds when the copy loop of an "env" table is in slot s. *)
LEMMA Copying ==
  ASSUME IInv, SInv, pc \in {"copy", "place"}
  PROVE  /\ op = "put" /\ m \in 1..Len(maps)
         /\ IsTable(maps[m]) /\ maps[m].size \in Nat
         /\ IsTable(copy) /\ copy.size \in Nat \ {0} /\ copy.size > 0
         /\ s \in 0..maps[m].size
         /\ pc = "place" => /\ s \in 0..maps[m].size - 1 /\ maps[m].key[s] \in Keys
                            /\ j \in 0..copy.size - 1
         /\ table = "env" => Sound(maps[m]) /\ Sound(copy) /\ Moved
<1>1. /\ op = "put" /\ m \in 1..Len(maps)
      /\ IsTable(maps[m]) /\ IsTable(copy) /\ copy.size > 0
      /\ s \in 0..maps[m].size
      /\ pc = "place" => s < maps[m].size /\ maps[m].key[s] \in Keys /\ j \in 0..copy.size - 1
  BY DEF IInv, TypeOK
<1>2. maps[m].size \in Nat /\ copy.size \in Nat
  BY <1>1, TableSizes
<1>3. table = "env" => Sound(maps[m]) /\ Sound(copy) /\ Moved
  BY <1>1 DEF SInv, CopyAgrees
<1> QED BY <1>1, <1>2, <1>3

LEMMA CopyMovesSInv ==
  ASSUME IInv, SInv, CopySkips \/ CopyPicks \/ PlaceCollides
  PROVE  SInv'
<1> USE DEF call
<1>1. /\ pc \in {"copy", "place"} /\ UNCHANGED <<table, maps, op, m, k, copy>>
      /\ pc' \in {"copy", "place"}
  BY DEF CopySkips, CopyPicks, PlaceCollides
<1>2. ASSUME table = "env" PROVE CopyAgrees'
  <2>1. CASE CopySkips
    <3>1. Copied' = Copied
      BY <1>1, <2>1, Copying DEF Copied, CopySkips, Live
    <3>2. Moved'
      BY <1>1, <1>2, <3>1, Copying DEF Moved
    <3> QED BY <1>1, <1>2, <2>1, <3>2, Copying DEF CopySkips, CopyAgrees
  <2>2. CASE CopyPicks
    <3>1. Moved'
      BY <1>1, <1>2, <2>2, Copying DEF Moved, CopyPicks, Copied
    <3>2. Reaches(copy, maps[m].key[s], j')
      BY <1>1, <2>2, Copying, ReachesHome DEF CopyPicks
    <3> QED BY <1>1, <1>2, <2>2, <3>1, <3>2, Copying DEF CopyAgrees, CopyPicks
  <2>3. CASE PlaceCollides
    <3> DEFINE c == maps[m].key[s]
    <3>1. pc = "place" /\ copy.key[j] # NULL
      BY <2>3 DEF PlaceCollides
    <3>2. copy.key[j] \in Keys
      BY <1>1, <1>2, <3>1, Copying DEF Sound
    <3>3. copy.key[j] # c
      <4> SUFFICES ASSUME copy.key[j] = c PROVE FALSE
        OBVIOUS
      <4>1. Holds(copy, j, c) /\ c \in Keys /\ Holds(maps[m], s, c)
        BY <1>1, <3>1, Copying DEF Holds
      <4>2. PICK x \in Copied : maps[m].key[x] = c
        BY <1>1, <1>2, <4>1, Copying DEF Moved
      <4>3. Holds(maps[m], x, c) /\ x < s /\ x \in Nat
        BY <1>1, <4>2, Copying DEF Copied, Live, Holds
      <4>4. x = s
        BY <1>1, <1>2, <4>1, <4>3, Copying, SoundHolds
      <4> QED BY <4>3, <4>4
    <3>4. Reaches(copy, c, j)
      BY <1>2, <3>1 DEF SInv, CopyAgrees
    <3>5. Reaches(copy, c, j')
      BY <1>1, <2>3, <3>1, <3>2, <3>3, <3>4, Copying, ReachesNext DEF PlaceCollides
    <3>6. Moved'
      BY <1>1, <1>2, <2>3, Copying DEF Moved, PlaceCollides, Copied
    <3> QED BY <1>1, <1>2, <2>3, <3>5, <3>6, Copying DEF CopyAgrees, PlaceCollides
  <2> QED BY <2>1, <2>2, <2>3
<1> QED BY <1>1, <1>2, Copying DEF SInv, PutOnPath, GetOnPath

LEMMA PlaceStoresSInv ==
  ASSUME IInv, SInv, PlaceStores
  PROVE  SInv'
<1> USE DEF PlaceStores, call
<1> DEFINE t == maps[m]
           c == maps[m].key[s]
<1>1. /\ op = "put" /\ UNCHANGED <<table, maps, op, m, k, result>> /\ pc = "place" /\ pc' = "copy"
      /\ IsTable(t) /\ IsTable(copy) /\ copy.size > 0
      /\ s \in 0..t.size - 1 /\ c \in Keys /\ j \in 0..copy.size - 1 /\ s' = s + 1
      /\ t.size \in Nat
  BY Copying
<1>2. copy.key[j] = NULL /\ Stores(copy, copy', j, c, t.val[s])
  BY <1>1 DEF Stores, IsTable
<1>3. ASSUME table = "env" PROVE CopyAgrees'
  <2>1. Sound(t) /\ Sound(copy) /\ Moved /\ Reaches(copy, c, j)
    BY <1>1, <1>3, Copying DEF SInv, CopyAgrees
  <2>2. t.val[s] \in Vals /\ Holds(t, s, c)
    BY <1>1, <2>1, SlotAssumption DEF Sound, Holds
  <2>3. IsTable(copy')
    BY PlaceStoresIInv DEF IInv, TypeOK
  <2>4. copy.key[j] \notin Keys \ {c}
    BY <1>2, SlotAssumption
  <2> HIDE DEF t, c
  <2>5. /\ Sound(copy')
        /\ \A y : Holds(copy, y, c) => y = j
        /\ \A a \in Keys \ {c} : \A y : Holds(copy', y, a) <=> Holds(copy, y, a)
        /\ \A y \in 0..copy.size - 1 : y # j => copy'.val[y] = copy.val[y]
    BY <1>1, <1>2, <2>1, <2>2, <2>3, <2>4, StoreSound
  <2>6. Copied' = Copied \cup {s}
    BY <1>1 DEF Copied, Live, t, c
  <2>7. \A x \in Copied : t.key[x] \in Keys \ {c}
    <3> SUFFICES ASSUME NEW x \in Copied PROVE t.key[x] \in Keys \ {c}
      OBVIOUS
    <3>1. t.key[x] \in Keys /\ x \in 0..t.size - 1 /\ x < s
      BY DEF Copied, Live, t
    <3>2. t.key[x] = c => Holds(t, x, c)
      BY <3>1 DEF Holds
    <3>3. t.key[x] = c => x = s
      BY <1>1, <2>1, <2>2, <3>2, SoundHolds
    <3> QED BY <1>1, <3>1, <3>3
  <2>8. Holds(copy', j, c) /\ copy'.val[j] = t.val[s]
    BY <1>1, <1>2 DEF Holds, Stores, IsTable
  <2>9. ASSUME NEW x \in Copied'
        PROVE  \E y : Holds(copy', y, t.key[x]) /\ copy'.val[y] = t.val[x]
    <3>1. CASE x = s
      BY <2>8, <3>1 DEF c, t
    <3>2. CASE x \in Copied
      <4>1. PICK y : Holds(copy, y, t.key[x]) /\ copy.val[y] = t.val[x]
        BY <2>1, <3>2 DEF Moved, t
      <4>2. Holds(copy', y, t.key[x])
        BY <2>5, <2>7, <3>2, <4>1
      <4>3. y # j /\ y \in 0..copy.size - 1
        BY <1>2, <2>7, <3>2, <4>1, SlotAssumption DEF Holds
      <4> QED BY <2>5, <4>1, <4>2, <4>3
    <3> QED BY <2>6, <2>9, <3>1, <3>2
  <2>10. ASSUME NEW a \in Keys, NEW y, Holds(copy', y, a) PROVE \E x \in Copied' : t.key[x] = a
    <3>1. CASE a = c
      BY <2>6, <3>1 DEF c, t
    <3>2. CASE a # c
      <4>1. Holds(copy, y, a)
        BY <2>5, <2>10, <3>2
      <4> QED BY <2>1, <2>6, <4>1 DEF Moved, t
    <3> QED BY <3>1, <3>2
  <2>11. Moved'
    BY <1>1, <2>9, <2>10 DEF Moved, t
  <2> QED BY <1>1, <2>5, <2>11 DEF CopyAgrees
<1> QED BY <1>1, <1>3 DEF SInv, PutOnPath, GetOnPath

LEMMA CopySwapsSInv ==
  ASSUME IInv, SInv, CopySwaps
  PROVE  SInv'
<1>1. /\ pc = "copy" /\ op = "put" /\ k \in Keys /\ IsTable(copy) /\ copy.size > 0
      /\ UNCHANGED <<table, op, m, k>> /\ pc' = "probe"
      /\ i' = Home(k, copy.size)
  BY DEF CopySwaps, IInv, TypeOK, call
<1>2. /\ Len(maps') = Len(maps) /\ m \in 1..Len(maps)
      /\ maps'[m].size = copy.size /\ maps'[m].key = copy.key /\ maps'[m].val = copy.val
      /\ \A p \in 1..Len(maps) : p # m => maps'[p] = maps[p]
  BY SwapEffect
<1>3. Reaches(maps'[m], k, i')
  <2>1. Reaches(copy, k, i')
    BY <1>1, ReachesHome
  <2> QED BY <1>2, <2>1, SameArrays
<1>4. ASSUME table = "env" PROVE \A p \in 1..Len(maps') : Sound(maps'[p])
  <2>1. Sound(copy)
    BY <1>1, <1>4 DEF SInv, CopyAgrees
  <2>2. Sound(maps'[m])
    BY <1>2, <2>1, SameArrays
  <2> QED BY <1>2, <1>4, <2>2 DEF SInv
<1> QED BY <1>1, <1>3, <1>4 DEF SInv, PutOnPath, GetOnPath, CopyAgrees

LEMMA PutEndsSInv ==
  ASSUME IInv, SInv, PutInserts \/ PutOverwrites \/ RemoveHits
  PROVE  SInv'
<1>1. /\ pc = "probe" /\ pc' = "idle" /\ op' = "none" /\ UNCHANGED table
      /\ m \in 1..Len(maps) /\ k \in Keys /\ i \in 0..maps[m].size - 1
      /\ IsTable(maps[m]) /\ maps[m].size > 0
  BY DEF PutInserts, PutOverwrites, RemoveHits, Probing, Return, NoCall, IInv, TypeOK
<1>2. ASSUME table = "env" PROVE \A n \in 1..Len(maps') : Sound(maps'[n])
  <2>1. (PutInserts \/ PutOverwrites) /\ op = "put"
    BY <1>2 DEF RemoveHits, PutInserts, PutOverwrites, Probing, SInv
  <2>2. /\ Len(maps') = Len(maps) /\ m \in 1..Len(maps)
        /\ IsTable(maps'[m]) /\ Stores(maps[m], maps'[m], i, k, v)
        /\ \A n \in 1..Len(maps) : n # m => maps'[n] = maps[n]
    BY <2>1, PutEffect
  <2>3. Reaches(maps[m], k, i) /\ Sound(maps[m]) /\ v \in Vals
    BY <1>1, <1>2, <2>1 DEF SInv, PutOnPath, IInv, TypeOK
  <2>4. maps[m].key[i] \notin Keys \ {k}
    BY <2>1, SlotAssumption DEF PutInserts, PutOverwrites
  <2>5. Sound(maps'[m])
    BY <1>1, <2>2, <2>3, <2>4, StoreSound
  <2> QED BY <1>2, <2>2, <2>5 DEF SInv
<1> QED BY <1>1, <1>2 DEF SInv, PutOnPath, GetOnPath, CopyAgrees

LEMMA NextSInv == IInv /\ SInv /\ [Next]_vars => SInv'
<1> SUFFICES ASSUME IInv, SInv, [Next]_vars PROVE SInv'
  OBVIOUS
<1>1. DOMAIN maps = 1..Len(maps)
  BY ChainOf
<1>2. CASE LoopStep
  BY <1>2, AdvanceSInv, GetSInv, PutEndsSInv, CopyMovesSInv, PlaceStoresSInv, CopySwapsSInv
     DEF LoopStep
<1>3. CASE OpenScope \/ CloseScope
  BY <1>3, ScopeSInv
<1>4. CASE \E n \in DOMAIN maps, key \in Keys :
             \/ CallGet(n, key)
             \/ CallRemove(n, key)
             \/ \E val \in Vals : \/ PutAllocates(n, key, val)
                                  \/ PutFits(n, key, val)
                                  \/ PutRehashes(n, key, val)
  <2>1. PICK n \in 1..Len(maps), key \in Keys :
             \/ CallGet(n, key)
             \/ CallRemove(n, key)
             \/ \E val \in Vals : \/ PutAllocates(n, key, val)
                                  \/ PutFits(n, key, val)
                                  \/ PutRehashes(n, key, val)
    BY <1>1, <1>4
  <2>2. CASE CallGet(n, key)
    BY <1>1, <2>2, GetSInv
  <2>3. CASE \/ CallRemove(n, key)
             \/ \E val \in Vals : PutFits(n, key, val) \/ PutAllocates(n, key, val)
    BY <2>3, StartSInv
  <2>4. CASE \E val \in Vals : PutRehashes(n, key, val)
    BY <2>4, RehashStartSInv
  <2> QED BY <2>1, <2>2, <2>3, <2>4
<1>5. CASE UNCHANGED vars
  BY <1>5 DEF SInv, PutOnPath, GetOnPath, CopyAgrees, Moved, Copied, vars, call, rehash
<1> QED BY <1>2, <1>3, <1>4, <1>5 DEF Next, ClientCall

THEOREM Searching == Spec => [](IInv /\ SInv)
<1>1. Init => IInv /\ SInv
  BY InitIInv, InitSInv
<1>2. IInv /\ SInv /\ [Next]_vars => (IInv /\ SInv)'
  BY NextIInv, NextSInv
<1> QED BY <1>1, <1>2, PTL DEF Spec

(* Whatever tombstones and collisions a put met on its way, a lookup in    *)
(* the same table finds the value afterwards: for both kinds of table.     *)
THEOREM PutsAreSeen == Spec => PutIsSeen
<1>1. IInv /\ SInv /\ [Next]_vars =>
        [pc = "probe" /\ op = "put" /\ pc' = "idle" => Answer(maps'[m], k) = v]_vars
  <2> SUFFICES ASSUME IInv, SInv, Next, pc = "probe", op = "put", pc' = "idle"
               PROVE  Answer(maps'[m], k) = v
    BY DEF vars
  <2>1. PutInserts \/ PutOverwrites
    BY DEF Next, LoopStep, ClientCall, Probing, CopySkips, CopyPicks, PlaceCollides,
           PlaceStores, CopySwaps, PutAdvances, GetAdvances, GetHits, GetMisses,
           RemoveAdvances, RemoveHits, RemoveMisses, OpenScope, CloseScope, CallGet,
           CallRemove, PutAllocates, PutFits, PutRehashes, Call
  <2>2. /\ m \in 1..Len(maps) /\ k \in Keys /\ i \in 0..maps[m].size - 1
        /\ IsTable(maps[m])
    BY DEF IInv, TypeOK
  <2>3. IsTable(maps'[m]) /\ Stores(maps[m], maps'[m], i, k, v)
    BY <2>1, PutEffect
  <2>4. Reaches(maps[m], k, i) /\ maps[m].key[i] \notin Keys \ {k}
    BY <2>1, SlotAssumption DEF SInv, PutOnPath, PutInserts, PutOverwrites
  <2> QED BY <2>2, <2>3, <2>4, StoredIsSeen
<1> QED BY <1>1, Searching, PTL DEF Spec, PutIsSeen

------------------------------------------------------------------------------
(* The refinement of Dictionary, one lemma per kind of step. *)

(* What the instance Env puts for the variables of Dictionary. *)
Scopes == IF table = "env"
          THEN [n \in DOMAIN maps |-> [key \in Keys |-> Answer(maps[n], key)]]
          ELSE <<[key \in Keys |-> NoVal]>>
Asked == IF table = "env" /\ pc = "probe" /\ op = "get" THEN k ELSE NULL
Found == IF table = "env" THEN result ELSE NoVal

LEMMA EnvVars == Env!vars = <<Scopes, Asked, Found>>
BY DEF Env!vars, Scopes, Asked, Found

(* A step in which every table goes on answering as it did. *)
LEMMA SameScopes ==
  ASSUME IInv, IInv', UNCHANGED table,
         table = "env" =>
           /\ Len(maps') = Len(maps)
           /\ \A n \in 1..Len(maps), key \in Keys : Answer(maps'[n], key) = Answer(maps[n], key)
  PROVE  Scopes' = Scopes
<1>1. DOMAIN maps = 1..Len(maps)
  BY ChainOf
<1>2. DOMAIN maps' = 1..Len(maps')
  <2>1. maps' = [n \in 1..Len(maps') |-> maps'[n]]
    BY DEF IInv, TypeOK
  <2> QED BY <2>1
<1>3. CASE table = "env"
  <2>1. DOMAIN maps' = DOMAIN maps
    BY <1>1, <1>2, <1>3
  <2>2. \A n \in DOMAIN maps :
          [key \in Keys |-> Answer(maps'[n], key)] = [key \in Keys |-> Answer(maps[n], key)]
    BY <1>1, <1>3
  <2> QED BY <1>3, <2>1, <2>2 DEF Scopes
<1>4. CASE table # "env"
  BY <1>4 DEF Scopes
<1> QED BY <1>3, <1>4

ScopesShape ==
  /\ Scopes \in [1..Len(maps) -> [Keys -> Vals \cup {NoVal}]]
  /\ Scopes \in Seq([Keys -> Vals \cup {NoVal}]) /\ Len(Scopes) = Len(maps)
  /\ \A n \in 1..Len(maps), key \in Keys : Scopes[n][key] = Answer(maps[n], key)

LEMMA ScopesType == IInv /\ SInv /\ table = "env" => ScopesShape
<1> SUFFICES ASSUME IInv, SInv, table = "env" PROVE ScopesShape
  OBVIOUS
<1>1. DOMAIN maps = 1..Len(maps) /\ Len(maps) \in Nat
      /\ \A n \in 1..Len(maps) : IsTable(maps[n]) /\ Sound(maps[n])
  BY ChainOf DEF SInv
<1>2. Scopes = [n \in 1..Len(maps) |-> [key \in Keys |-> Answer(maps[n], key)]]
  BY <1>1 DEF Scopes
<1>3. \A n \in 1..Len(maps) :
        [key \in Keys |-> Answer(maps[n], key)] \in [Keys -> Vals \cup {NoVal}]
  BY <1>1, AnswerType
<1>4. Scopes \in [1..Len(maps) -> [Keys -> Vals \cup {NoVal}]]
  BY <1>2, <1>3
<1>5. Scopes \in Seq([Keys -> Vals \cup {NoVal}]) /\ Len(Scopes) = Len(maps)
  BY <1>1, <1>4, SeqDef
<1> QED BY <1>2, <1>4, <1>5 DEF ScopesShape

LEMMA ScopesTypeNext == (IInv /\ SInv /\ table = "env")' => ScopesShape'
BY ScopesType, PTL

(* A table of the wrong kind is no dictionary's business. *)
LEMMA MacrosStep ==
  ASSUME table = "macros", UNCHANGED table
  PROVE  UNCHANGED <<Scopes, Asked, Found>>
BY DEF Scopes, Asked, Found

LEMMA TableStays == [Next]_vars => UNCHANGED table
BY DEF Next, LoopStep, ClientCall, CopySkips, CopyPicks, PlaceCollides,
       PlaceStores, CopySwaps, PutAdvances, PutInserts, PutOverwrites, GetAdvances,
       GetHits, GetMisses, RemoveAdvances, RemoveHits, RemoveMisses, OpenScope,
       CloseScope, CallGet, CallRemove, PutAllocates, PutFits, PutRehashes, Call,
       Return, MapGet, vars

(* The steps of a put or a rehash before the store. *)
LEMMA QuietStep ==
  ASSUME IInv, SInv, IInv', table = "env",
         \/ CopySkips \/ CopyPicks \/ PlaceCollides \/ PlaceStores
         \/ PutAdvances \/ GetAdvances \/ RemoveAdvances
  PROVE  UNCHANGED <<Scopes, Asked, Found>>
<1>1. UNCHANGED <<table, maps, op, k, result>>
      /\ (pc = "probe" /\ op = "get" <=> pc' = "probe" /\ op' = "get")
  BY DEF CopySkips, CopyPicks, PlaceCollides, PlaceStores, PutAdvances, GetAdvances,
         RemoveAdvances, Probing, call, IInv, TypeOK
<1>2. Scopes' = Scopes
  BY <1>1, SameScopes
<1> QED BY <1>1, <1>2 DEF Asked, Found

(* The rehash has moved every binding, and the new arrays answer as the old. *)
LEMMA SwapStep ==
  ASSUME IInv, SInv, IInv', table = "env", CopySwaps
  PROVE  UNCHANGED <<Scopes, Asked, Found>>
<1>1. /\ pc = "copy" /\ op = "put" /\ pc' = "probe" /\ s = maps[m].size
      /\ UNCHANGED <<table, op, k, result>>
  BY DEF CopySwaps, call, IInv, TypeOK
<1>2. /\ Len(maps') = Len(maps) /\ m \in 1..Len(maps)
      /\ maps'[m].size = copy.size /\ maps'[m].key = copy.key /\ maps'[m].val = copy.val
      /\ \A p \in 1..Len(maps) : p # m => maps'[p] = maps[p]
  BY SwapEffect
<1>3. /\ IsTable(maps[m]) /\ IsTable(copy) /\ maps[m].size \in Nat
      /\ Sound(maps[m]) /\ Sound(copy) /\ Moved
  BY <1>1, Copying
<1>4. ASSUME NEW key \in Keys PROVE Answer(copy, key) = Answer(maps[m], key)
  <2>1. ASSUME NEW x, Holds(maps[m], x, key)
        PROVE  \E y : Holds(copy, y, key) /\ copy.val[y] = maps[m].val[x]
    <3>1. x \in Copied /\ maps[m].key[x] = key
      BY <1>1, <1>3, <2>1 DEF Copied, Live, Holds
    <3> QED BY <1>3, <3>1 DEF Moved
  <2>2. ASSUME NEW y, Holds(copy, y, key) PROVE \E x : Holds(maps[m], x, key)
    <3>1. PICK x \in Copied : maps[m].key[x] = key
      BY <1>3, <2>2 DEF Moved
    <3> QED BY <3>1 DEF Copied, Live, Holds
  <2> QED BY <1>3, <2>1, <2>2, SameAnswers
<1>5. \A key \in Keys : Answer(maps'[m], key) = Answer(maps[m], key)
  BY <1>2, <1>4, SameArrays
<1>6. Scopes' = Scopes
  BY <1>1, <1>2, <1>5, SameScopes
<1> QED BY <1>1, <1>6 DEF Asked, Found

(* The store of a put is the whole of it. *)
LEMMA PutStep ==
  ASSUME IInv, SInv, IInv', SInv', table = "env", PutInserts \/ PutOverwrites
  PROVE  m \in 1..Len(maps) /\ k \in Keys /\ v \in Vals /\ Env!Put(m, k, v)
<1>1. /\ pc = "probe" /\ op = "put" /\ pc' = "idle" /\ UNCHANGED <<table, result>>
      /\ m \in 1..Len(maps) /\ k \in Keys /\ v \in Vals /\ i \in 0..maps[m].size - 1
      /\ IsTable(maps[m])
  BY DEF PutInserts, PutOverwrites, Probing, Return, IInv, TypeOK
<1>2. /\ Len(maps') = Len(maps)
      /\ IsTable(maps'[m]) /\ Stores(maps[m], maps'[m], i, k, v)
      /\ \A n \in 1..Len(maps) : n # m => maps'[n] = maps[n]
  BY PutEffect
<1>3. Reaches(maps[m], k, i) /\ Sound(maps[m]) /\ maps[m].key[i] \notin Keys \ {k}
  BY <1>1, SlotAssumption DEF SInv, PutOnPath, PutInserts, PutOverwrites
<1>4. /\ Answer(maps'[m], k) = v
      /\ \A c \in Keys \ {k} : Answer(maps'[m], c) = Answer(maps[m], c)
  BY <1>1, <1>2, <1>3, StoreSound, StoredIsSeen
<1>5. /\ Scopes \in [1..Len(maps) -> [Keys -> Vals \cup {NoVal}]]
      /\ Scopes' \in [1..Len(maps) -> [Keys -> Vals \cup {NoVal}]]
      /\ \A n \in 1..Len(maps), key \in Keys :
           /\ Scopes[n][key] = Answer(maps[n], key)
           /\ Scopes'[n][key] = Answer(maps'[n], key)
  <2>1. ScopesShape
    BY ScopesType
  <2>2. ScopesShape'
    BY <1>1, ScopesTypeNext
  <2> QED BY <1>2, <2>1, <2>2 DEF ScopesShape
<1>6. ASSUME NEW n \in 1..Len(maps), NEW c \in Keys
      PROVE  Scopes'[n][c] = IF n = m /\ c = k THEN v ELSE Scopes[n][c]
  BY <1>2, <1>4, <1>5
<1>7. Scopes' = [Scopes EXCEPT ![m][k] = v]
  <2> DEFINE T == [Scopes EXCEPT ![m][k] = v]
  <2>1. T \in [1..Len(maps) -> [Keys -> Vals \cup {NoVal}]]
    BY <1>1, <1>5
  <2>2. \A n \in 1..Len(maps) : \A c \in Keys :
          T[n][c] = IF n = m /\ c = k THEN v ELSE Scopes[n][c]
    BY <1>1, <1>5
  <2> HIDE DEF T
  <2>3. \A n \in 1..Len(maps) : Scopes'[n] = T[n]
    <3> TAKE n \in 1..Len(maps)
    <3>1. \A c \in Keys : Scopes'[n][c] = T[n][c]
      BY <1>6, <2>2
    <3>2. Scopes'[n] \in [Keys -> Vals \cup {NoVal}] /\ T[n] \in [Keys -> Vals \cup {NoVal}]
      BY <1>5, <2>1
    <3> QED BY <3>1, <3>2
  <2>4. Scopes' = T
    BY <1>5, <2>1, <2>3
  <2> QED BY <2>4 DEF T
<1>8. Asked = NULL /\ Asked' = Asked /\ Found' = Found
  BY <1>1 DEF Asked, Found
<1> QED BY <1>1, <1>7, <1>8 DEF Env!Put, Scopes, Asked, Found

LEMMA OpenStep ==
  ASSUME IInv, SInv, IInv', SInv', table = "env", OpenScope
  PROVE  Env!Open
<1>1. pc = "idle" /\ UNCHANGED <<table, pc, op, k, result>>
  BY DEF OpenScope, call
<1>2. Asked = NULL /\ Asked' = Asked /\ Found' = Found
  BY <1>1 DEF Asked, Found
<1> DEFINE none == [key \in Keys |-> NoVal]
<1>3. none \in [Keys -> Vals \cup {NoVal}]
  OBVIOUS
<1>4. ScopesShape /\ ScopesShape'
  BY <1>1, ScopesType, ScopesTypeNext
<1>5. Len(maps) \in Nat /\ Len(maps') = Len(maps) + 1
  BY ChainOf, OpenEffect
<1>6. \A n \in 1..Len(maps) : Scopes'[n] = Scopes[n]
  <2> TAKE n \in 1..Len(maps)
  <2>1. maps'[n] = maps[n] /\ n \in 1..Len(maps')
    BY <1>5, OpenEffect
  <2>2. Scopes[n] \in [Keys -> Vals \cup {NoVal}] /\ Scopes'[n] \in [Keys -> Vals \cup {NoVal}]
    BY <1>4, <2>1 DEF ScopesShape
  <2>3. \A key \in Keys : Scopes'[n][key] = Scopes[n][key]
    BY <1>4, <2>1 DEF ScopesShape
  <2> QED BY <2>2, <2>3
<1>7. Scopes'[Len(maps) + 1] = none
  <2>1. maps'[Len(maps) + 1] = EmptyTable(InitSize) /\ Len(maps) + 1 \in 1..Len(maps')
    BY <1>5, OpenEffect
  <2>2. \A key \in Keys : Answer(EmptyTable(InitSize), key) = NoVal
    BY EmptySound, SizeAssumption, BoundAssumption
  <2>3. \A key \in Keys : Scopes'[Len(maps) + 1][key] = NoVal
    BY <1>4, <2>1, <2>2 DEF ScopesShape
  <2>4. Scopes'[Len(maps) + 1] \in [Keys -> Vals \cup {NoVal}]
    BY <1>4, <2>1 DEF ScopesShape
  <2> QED BY <2>3, <2>4
<1> HIDE DEF none
<1>8. Scopes' = Append(Scopes, none)
  <2> DEFINE T == Append(Scopes, none)
             V == [Keys -> Vals \cup {NoVal}]
  <2>1. Scopes \in Seq(V) /\ Len(Scopes) = Len(maps) /\ none \in V
        /\ Scopes' \in [1..Len(maps) + 1 -> V]
    BY <1>3, <1>4, <1>5 DEF ScopesShape
  <2> HIDE DEF V
  <2>2. T \in Seq(V) /\ Len(T) = Len(maps) + 1 /\ T[Len(maps) + 1] = none
        /\ \A n \in 1..Len(maps) : T[n] = Scopes[n]
    BY <2>1, AppendProperties
  <2>3. T \in [1..Len(maps) + 1 -> V]
    BY <2>2, LenProperties
  <2> HIDE DEF T
  <2>4. \A n \in 1..Len(maps) + 1 : Scopes'[n] = T[n]
    BY <1>5, <1>6, <1>7, <2>2
  <2>5. Scopes' = T
    BY <2>1, <2>3, <2>4
  <2> QED BY <2>5 DEF T
<1> QED BY <1>2, <1>8 DEF Env!Open, Env!Unbound, Scopes, Asked, Found, none

LEMMA CloseStep ==
  ASSUME IInv, SInv, IInv', SInv', table = "env", CloseScope
  PROVE  Env!Close
<1>1. pc = "idle" /\ UNCHANGED <<table, pc, op, k, result>>
  BY DEF CloseScope, call
<1>2. Asked = NULL /\ Asked' = Asked /\ Found' = Found
  BY <1>1 DEF Asked, Found
<1>4. ScopesShape /\ ScopesShape'
  BY <1>1, ScopesType, ScopesTypeNext
<1>5. Len(maps) \in Nat /\ Len(maps') = Len(maps) - 1 /\ Len(maps) > 1
  BY ChainOf, CloseEffect
<1>6. \A n \in 1..Len(maps) - 1 : Scopes'[n] = Scopes[n]
  <2> TAKE n \in 1..Len(maps) - 1
  <2>1. maps'[n] = maps[n] /\ n \in 1..Len(maps') /\ n \in 1..Len(maps)
    BY <1>5, CloseEffect
  <2>2. Scopes[n] \in [Keys -> Vals \cup {NoVal}] /\ Scopes'[n] \in [Keys -> Vals \cup {NoVal}]
    BY <1>4, <2>1 DEF ScopesShape
  <2>3. \A key \in Keys : Scopes'[n][key] = Scopes[n][key]
    BY <1>4, <2>1 DEF ScopesShape
  <2> QED BY <2>2, <2>3
<1>8. Scopes' = SubSeq(Scopes, 1, Len(Scopes) - 1)
  <2> DEFINE T == SubSeq(Scopes, 1, Len(Scopes) - 1)
             V == [Keys -> Vals \cup {NoVal}]
  <2>1. Scopes \in Seq(V) /\ Len(Scopes) = Len(maps)
        /\ Scopes' \in [1..Len(maps) - 1 -> V]
    BY <1>4, <1>5 DEF ScopesShape
  <2> HIDE DEF V
  <2>2. \A n \in 1..Len(Scopes) - 1 : Scopes[n] \in V
    BY <1>5, <2>1, ElementOfSeq
  <2>3. T \in Seq(V) /\ Len(T) = Len(maps) - 1
        /\ \A n \in 1..Len(maps) - 1 : T[n] = Scopes[n]
    BY <1>5, <2>1, <2>2, SubSeqProperties
  <2>4. T \in [1..Len(maps) - 1 -> V]
    BY <2>3, LenProperties
  <2> HIDE DEF T
  <2>5. Scopes' = T
    BY <1>6, <2>1, <2>3, <2>4
  <2> QED BY <2>5 DEF T
<1>9. Len(Scopes) > 1
  BY <1>4, <1>5 DEF ScopesShape
<1> QED BY <1>2, <1>8, <1>9 DEF Env!Close, Scopes, Asked, Found

(* A put begins. *)
LEMMA BeginStep ==
  ASSUME IInv, SInv, IInv', SInv', table = "env",
         NEW n \in 1..Len(maps), NEW key \in Keys, NEW val \in Vals,
         PutAllocates(n, key, val) \/ PutFits(n, key, val) \/ PutRehashes(n, key, val)
  PROVE  Env!Begin
<1>1. pc = "idle" /\ op' = "put" /\ result' = NoVal /\ UNCHANGED table
  BY DEF PutAllocates, PutFits, PutRehashes, Call
<1>2. Asked = NULL /\ Asked' = NULL /\ Found' = NoVal
  BY <1>1 DEF Asked, Found
<1>3. Scopes' = Scopes
  <2>1. CASE PutFits(n, key, val) \/ PutRehashes(n, key, val)
    <3>1. UNCHANGED maps
      BY <2>1 DEF PutFits, PutRehashes
    <3> QED BY <1>1, <3>1, SameScopes
  <2>2. CASE PutAllocates(n, key, val)
    <3>1. /\ Len(maps') = Len(maps)
          /\ maps[n].size = 0
          /\ maps'[n].size = InitSize
          /\ maps'[n].key = EmptyTable(InitSize).key
          /\ maps'[n].val = EmptyTable(InitSize).val
          /\ \A p \in 1..Len(maps) : p # n => maps'[p] = maps[p]
      BY <2>2, AllocateEffect
    <3>2. EmptyTable(InitSize).size = InitSize
          /\ \A c \in Keys : Answer(EmptyTable(InitSize), c) = NoVal
      BY EmptyTables, EmptySound, SizeAssumption, BoundAssumption
    <3>3. \A c \in Keys : Answer(maps'[n], c) = NoVal
      BY <3>1, <3>2, SameArrays
    <3>4. IsTable(maps[n]) /\ Sound(maps[n]) /\ \A c \in Keys : \A x : ~ Holds(maps[n], x, c)
      BY <3>1 DEF IInv, SInv, TypeOK, Holds
    <3>5. \A c \in Keys : Answer(maps[n], c) = NoVal
      BY <3>4, SoundLacks
    <3> QED BY <1>1, <3>1, <3>3, <3>5, SameScopes
  <2> QED BY <2>1, <2>2
<1> QED BY <1>2, <1>3 DEF Env!Begin, Scopes, Asked, Found

(* A lookup begins in the innermost map, or ends at once when that is the  *)
(* one map without arrays.                                                 *)
LEMMA AskStep ==
  ASSUME IInv, SInv, IInv', SInv', table = "env",
         NEW n \in 1..Len(maps), NEW key \in Keys, CallGet(n, key)
  PROVE  Env!Begin \/ Env!Ask(key)
<1>1. pc = "idle" /\ result' = NoVal /\ UNCHANGED <<table, maps>> /\ MapGet(n, key)
  BY DEF CallGet, MapGet, Return
<1>2. Asked = NULL /\ Found' = NoVal /\ Scopes' = Scopes
  BY <1>1, SameScopes DEF Asked, Found
<1>3. CASE Return
  <2>1. Asked' = NULL
    BY <1>3 DEF Asked, Return
  <2> QED BY <1>2, <2>1 DEF Env!Begin, Scopes, Asked, Found
<1>4. CASE ~ Return
  <2>1. Asked' = key
    BY <1>1, <1>4 DEF Asked, MapGet
  <2> QED BY <1>2, <2>1 DEF Env!Ask, Scopes, Asked, Found
<1> QED BY <1>3, <1>4

LEMMA BindingIs ==
  ASSUME IInv, SInv, table = "env", NEW key \in Keys, NEW n \in 1..Len(maps),
         \A p \in 1..Len(maps) : p > n => Answer(maps[p], key) = NoVal,
         Answer(maps[n], key) # NoVal \/ n = 1
  PROVE  Env!Binding(key) = Answer(maps[n], key)
<1> DEFINE bound == {p \in DOMAIN Scopes : Scopes[p][key] # NoVal}
           inner == CHOOSE p \in bound : \A o \in bound : o <= p
<1>1. Env!Binding(key) = IF bound = {} THEN NoVal ELSE Scopes[inner][key]
  BY DEF Env!Binding, Scopes
<1>2. Len(maps) \in Nat /\ DOMAIN Scopes = 1..Len(maps)
      /\ \A p \in 1..Len(maps) : Scopes[p][key] = Answer(maps[p], key)
  BY ChainOf, ScopesType DEF ScopesShape
<1>3. bound = {p \in 1..Len(maps) : Answer(maps[p], key) # NoVal}
  BY <1>2
<1>4. CASE Answer(maps[n], key) # NoVal
  <2>1. n \in bound /\ \A o \in bound : o \in Nat /\ o <= n
    BY <1>2, <1>3, <1>4
  <2>2. inner = n
    BY <2>1
  <2> QED BY <1>1, <1>2, <2>1, <2>2
<1>5. CASE Answer(maps[n], key) = NoVal
  <2>1. n = 1 /\ bound = {}
    BY <1>2, <1>3, <1>5
  <2> QED BY <1>1, <1>5, <2>1
<1> QED BY <1>4, <1>5

(* The lookup ends, or goes on in the parent. *)
LEMMA AnswerStep ==
  ASSUME IInv, SInv, IInv', SInv', table = "env", GetHits \/ GetMisses
  PROVE  Env!Answer \/ UNCHANGED <<Scopes, Asked, Found>>
<1>1. /\ pc = "probe" /\ op = "get" /\ m \in 1..Len(maps) /\ k \in Keys
      /\ IsTable(maps[m]) /\ maps[m].size > 0 /\ i \in 0..maps[m].size - 1
      /\ UNCHANGED <<table, maps>> /\ maps[m].key[i] \in {k, NULL}
  BY DEF GetHits, GetMisses, Probing, IInv, TypeOK, Return, MapGet
<1>2. Sound(maps[m]) /\ Reaches(maps[m], k, i) /\ result = NoVal
      /\ \A p \in 1..Len(maps) : p > m => Answer(maps[p], k) = NoVal
  BY <1>1 DEF SInv, GetOnPath
<1>3. Answer(maps[m], k) = maps[m].val[i]
  BY <1>1, <1>2, AnswerAt
<1>4. Scopes' = Scopes /\ Asked = k /\ k # NULL
  BY <1>1, SameScopes, SlotAssumption DEF Asked
<1>5. CASE GetHits
  <2>1. maps[m].key[i] = k /\ result' = maps[m].val[i] /\ pc' = "idle"
    BY <1>5 DEF GetHits, Return
  <2>2. maps[m].val[i] \in Vals
    BY <1>1, <1>2, <2>1, SlotAssumption DEF Sound
  <2>3. Env!Binding(k) = result'
    BY <1>1, <1>2, <1>3, <2>1, <2>2, BindingIs, SlotAssumption
  <2>4. Asked' = NULL /\ Found' = result'
    BY <1>1, <2>1 DEF Asked, Found
  <2> QED BY <1>4, <2>3, <2>4 DEF Env!Answer, Scopes, Asked, Found
<1>6. CASE GetMisses /\ Return
  <2>1. maps[m].key[i] = NULL /\ result' = result /\ pc' = "idle"
    BY <1>6 DEF GetMisses, Return
  <2>2. maps[m].val[i] = NoVal
    BY <1>1, <1>2, <2>1, SlotAssumption DEF Sound
  <2>3. Env!Binding(k) = NoVal
    <3>1. CASE m = 1
      BY <1>1, <1>2, <1>3, <2>2, <3>1, BindingIs
    <3>2. CASE m # 1
      <4>1. pc' # "probe"
        BY <2>1
      <4>2. m - 1 \in 1..Len(maps) /\ maps[m - 1].size = 0
        <5>1. m > 1 /\ m - 1 \in 1..Len(maps)
          BY <1>1, <3>2, ChainOf
        <5> QED BY <1>6, <3>2, <4>1, <5>1 DEF GetMisses, MapGet
      <4>3. m - 1 = 1
        <5>1. \A p \in 1..Len(maps) : p > 1 => maps[p].size > 0
          BY DEF IInv, TypeOK
        <5>2. ~ (maps[m - 1].size > 0)
          BY <4>2
        <5>3. ~ (m - 1 > 1)
          BY <4>2, <5>1, <5>2
        <5> QED BY <1>1, <3>2, <4>2, <5>3, ChainOf
      <4>4. IsTable(maps[1]) /\ Sound(maps[1]) /\ \A x : ~ Holds(maps[1], x, k)
        BY <4>2, <4>3 DEF IInv, SInv, TypeOK, Holds
      <4>5. Answer(maps[1], k) = NoVal
        BY <1>1, <4>4, SoundLacks
      <4>6. 1 \in 1..Len(maps) /\ \A p \in 1..Len(maps) : p > 1 => Answer(maps[p], k) = NoVal
        BY <1>1, <1>2, <1>3, <2>2, <4>2, <4>3
      <4> QED BY <1>1, <4>5, <4>6, BindingIs
    <3> QED BY <3>1, <3>2
  <2>4. Asked' = NULL /\ Found' = NoVal
    BY <1>1, <1>2, <2>1 DEF Asked, Found
  <2> QED BY <1>4, <2>3, <2>4 DEF Env!Answer, Scopes, Asked, Found
<1>7. CASE GetMisses /\ ~ Return
  <2>1. pc' = "probe" /\ op' = "get" /\ k' = k /\ UNCHANGED result
    BY <1>7 DEF GetMisses, MapGet
  <2> QED BY <1>1, <1>4, <2>1 DEF Asked, Found
<1> QED BY <1>5, <1>6, <1>7

LEMMA DictionaryInit == Init => Env!Init
<1> SUFFICES ASSUME Init PROVE Env!Init
  OBVIOUS
<1>1. maps = <<EmptyTable(0)>> /\ pc = "idle" /\ result = NoVal
  BY DEF Init
<1>2. \A key \in Keys : Answer(EmptyTable(0), key) = NoVal
  BY EmptySound
<1>3. Scopes = <<[key \in Keys |-> NoVal]>>
  <2>1. CASE table = "env"
    <3>1. DOMAIN maps = 1..1 /\ maps[1] = EmptyTable(0)
      BY <1>1
    <3>2. [key \in Keys |-> Answer(maps[1], key)] = [key \in Keys |-> NoVal]
      BY <1>2, <3>1
    <3>3. Scopes = [n \in 1..1 |-> [key \in Keys |-> Answer(maps[n], key)]]
      BY <2>1, <3>1 DEF Scopes
    <3> QED BY <3>2, <3>3
  <2> QED BY <2>1 DEF Scopes
<1>4. Asked = NULL /\ Found = NoVal
  BY <1>1 DEF Asked, Found
<1> QED BY <1>3, <1>4 DEF Env!Init, Env!Unbound, Scopes, Asked, Found

LEMMA DictionaryStep ==
  IInv /\ SInv /\ IInv' /\ SInv' /\ [Next]_vars => [Env!Next]_(Env!vars)
<1> SUFFICES ASSUME IInv, SInv, IInv', SInv', [Next]_vars
             PROVE  Env!Next \/ UNCHANGED <<Scopes, Asked, Found>>
  BY EnvVars DEF Env!vars, Scopes, Asked, Found
<1>1. UNCHANGED table /\ table \in {"env", "macros"} /\ DOMAIN maps = 1..Len(maps)
  BY TableStays, ChainOf DEF IInv, TypeOK
<1>2. CASE table = "macros"
  BY <1>1, <1>2, MacrosStep
<1>3. CASE UNCHANGED vars
  BY <1>3 DEF vars, call, Scopes, Asked, Found
<1>4. ASSUME table = "env", LoopStep
      PROVE  Env!Next \/ UNCHANGED <<Scopes, Asked, Found>>
  <2>1. CASE \/ CopySkips \/ CopyPicks \/ PlaceCollides \/ PlaceStores
             \/ PutAdvances \/ GetAdvances \/ RemoveAdvances
    BY <1>4, <2>1, QuietStep
  <2>2. CASE CopySwaps
    BY <1>4, <2>2, SwapStep
  <2>3. CASE PutInserts \/ PutOverwrites
    <3>1. m \in 1..Len(maps) /\ k \in Keys /\ v \in Vals /\ Env!Put(m, k, v)
      BY <1>4, <2>3, PutStep
    <3>2. m \in DOMAIN Scopes
      BY <1>4, <3>1, ScopesType DEF ScopesShape
    <3> QED BY <3>1, <3>2 DEF Env!Next, Scopes
  <2>4. CASE GetHits \/ GetMisses
    BY <1>4, <2>4, AnswerStep DEF Env!Next
  <2>5. CASE RemoveHits \/ RemoveMisses
    BY <1>4, <2>5 DEF RemoveHits, RemoveMisses, Probing, SInv
  <2> QED BY <1>4, <2>1, <2>2, <2>3, <2>4, <2>5 DEF LoopStep
<1>5. ASSUME table = "env", ClientCall
      PROVE  Env!Next
  <2>1. CASE OpenScope
    BY <1>5, <2>1, OpenStep DEF Env!Next
  <2>2. CASE CloseScope
    BY <1>5, <2>2, CloseStep DEF Env!Next
  <2>3. ASSUME NEW n \in 1..Len(maps), NEW key \in Keys, CallGet(n, key)
        PROVE  Env!Next
    <3>1. Env!Begin \/ Env!Ask(key)
      BY <1>5, <2>3, AskStep
    <3> QED BY <3>1 DEF Env!Next
  <2>4. ASSUME NEW n \in 1..Len(maps), NEW key \in Keys, NEW val \in Vals,
               PutAllocates(n, key, val) \/ PutFits(n, key, val) \/ PutRehashes(n, key, val)
        PROVE  Env!Next
    <3>1. Env!Begin
      BY <1>5, <2>4, BeginStep
    <3> QED BY <3>1 DEF Env!Next
  <2>5. ASSUME NEW n, NEW key, CallRemove(n, key) PROVE FALSE
    BY <1>5, <2>5 DEF CallRemove
  <2> QED BY <1>1, <1>5, <2>1, <2>2, <2>3, <2>4, <2>5 DEF ClientCall
<1> QED BY <1>1, <1>2, <1>3, <1>4, <1>5 DEF Next

(* The tables nothing is removed from implement nested dictionaries, for   *)
(* all keys, hash functions, table sizes and depths of nesting.            *)
THEOREM ImplementsDictionary == Spec => EnvIsDictionary
<1>1. Init => Env!Init
  BY DictionaryInit
<1>2. IInv /\ SInv /\ IInv' /\ SInv' /\ [Next]_vars => [Env!Next]_(Env!vars)
  BY DictionaryStep
<1> QED BY <1>1, <1>2, Searching, PTL DEF Spec, EnvIsDictionary, Env!Spec
=============================================================================
