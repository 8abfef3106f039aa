SPECIFICATION Spec
CONSTANTS
  Builds <- MCBuilds
INVARIANTS
  MatchesLinkage
  OwnLabels
  StatusTrue
  Tidy
