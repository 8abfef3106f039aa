SPECIFICATION Spec
CONSTANTS
  Declarations <- MCDeclarations
  Registers <- MCRegisters
  Garbage <- MCGarbage
INVARIANTS
  MatchesC
