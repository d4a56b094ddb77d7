SPECIFICATION MCSpec
CONSTANTS
  deploy = deploy
  Commands = {deploy}
  Durable <- MCDurable
  MaxAttempts = 1
  MaxEpochs = 2
  MaxCrashes = 1
  MaxInFlight = 1
  MaxLogs = 2
  MaxLines = 2
  LiveMax = 1
  FeedBuffer = 1
  Workloads <- MCWorkloads
INVARIANTS LogStreamSafety
PROPERTIES SpoolDrains ExecutedIsAnswered StatusSettles
CHECK_DEADLOCK FALSE
