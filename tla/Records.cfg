SPECIFICATION Spec
CONSTANTS
  s = s
  u = u
  x = x
  y = y
  z = z
  none = none
  Tags = {s, u}
  Names = {s, x, y, z}
  NoName = none
  Basics <- MCBasics
  PointerSize = 2
  Programs <- MCPrograms
INVARIANTS
  TypeOK
  MembersApart
  MembersInside
  MatchesAbi
CHECK_DEADLOCK FALSE
