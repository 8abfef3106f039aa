SPECIFICATION LSpec
CONSTANTS
  a = a
  b = b
  c = c
  d = d
  l = l
  m = m
  Names = {a, b, c, d, l, m}
  Values = {0, 1, 2}
  Programs <- MCPrograms
INVARIANTS
  TypeOK
  JumpsAreScoped
  Judged
  LabelsResolved
  MatchesMeaning
PROPERTIES
  Terminates
CHECK_DEADLOCK FALSE
