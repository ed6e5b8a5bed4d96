CONSTANTS
  Candidates <- MCCandidates
  MaxReplays = 3
SPECIFICATION Spec
INVARIANTS
  TypeOK
  InvestigateIsSound
  InvestigateSurvivesRemoval
PROPERTY
  ShutGatesStayShut
CHECK_DEADLOCK FALSE
