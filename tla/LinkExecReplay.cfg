SPECIFICATION Spec
CONSTANTS
  deploy = deploy
  teardown = teardown
  exec = exec
  Commands = {exec}
  Durable <- MCDurable
  MaxAttempts = 1
  MaxEpochs = 2
  MaxCrashes = 0
  MaxInFlight = 2
INVARIANT ExecSentOnce
CHECK_DEADLOCK FALSE
