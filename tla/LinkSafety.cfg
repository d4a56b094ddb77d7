SPECIFICATION Spec
CONSTANTS
  deploy = deploy
  teardown = teardown
  exec = exec
  Commands = {deploy}
  Durable <- MCDurable
  MaxAttempts = 2
  MaxEpochs = 2
  MaxCrashes = 1
  MaxInFlight = 2
INVARIANTS SuccessIsReal  LiveSessionStaysRegistered
CHECK_DEADLOCK FALSE
