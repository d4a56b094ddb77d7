SPECIFICATION MCSpec
CONSTANTS
  MaxExecutions = 2
  s1 = s1
  s2 = s2
  Sessions = {s1, s2}
  SessionLimit = 1
  MaxPending = 2
  MaxQueued = 1
  MaxChunks <- MCMaxChunks
  MaxCuts = 1
  MaxVisits = 2
  MaxFile = 2
  MaxEnv = 2
  MaxManual = 1
  MaxLocalFaults = 1
INVARIANTS
  JobContainerSafety
  AccessSafety
  LocalSafety
PROPERTIES
  EveryJobIsAnswered
  
  DeadConnectionsLeave
  LocalProgress
CHECK_DEADLOCK FALSE
