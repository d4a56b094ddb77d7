SPECIFICATION FairSpec
CONSTANTS
  Runs = {r1}
  MaxFaults = 1
INVARIANTS SuccessIsReal
PROPERTIES SettledStaysSettled RunsAreSettled CompletionIsRecorded
CHECK_DEADLOCK FALSE
