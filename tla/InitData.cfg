SPECIFICATION Spec
CONSTANTS
  Declarations <- GlobalTest
  Registers = {0}
  Garbage <- MCGarbage
INVARIANTS
  DataReadsBack
