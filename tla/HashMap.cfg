SPECIFICATION Spec
CONSTANTS
  k1 = k1
  k2 = k2
  k3 = k3
  Keys = {k1, k2, k3}
  Vals = {v1, v2}
  NoVal = NoVal
  NULL = NULL
  TOMBSTONE = TOMBSTONE
  Hash <- MCHash
  InitSize = 4
  MaxDepth = 2
  MaxSize = 8
  MaxNested = 1
INVARIANTS
  TypeOK
  Accounting
  HasEmptySlot
PROPERTIES
  PutIsSeen
  CallReturns
  EnvIsDictionary
