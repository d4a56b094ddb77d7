SPECIFICATION Spec
CONSTANTS
  deploy = deploy
  teardown = teardown
  exec = exec
  Commands = {deploy}
  Durable <- MCDurable
  MaxAttempts = 2
  MaxEpochs = 1
  MaxCrashes = 0
  MaxInFlight = 2
INVARIANT RetryExecutes
CHECK_DEADLOCK FALSE
