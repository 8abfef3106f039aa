SPECIFICATION Spec
CONSTANTS
  Chars <- MCChars
  Letters <- MCLetters
  Inputs <- MCInputs
  Pushback = 3
INVARIANTS
  TypeOK
  PushbackFits
  MatchesPhases
PROPERTY Ends
