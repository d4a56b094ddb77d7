SPECIFICATION MCSpec
CONSTANTS
  deploy = deploy
  redeploy = redeploy
  exec = exec
  job = job
  deploy1 = deploy1
  deploy2 = deploy2
  deploy3 = deploy3
  redeploy1 = redeploy1
  exec1 = exec1
  job1 = job1
  job2 = job2
  heavy = heavy
  narrow = narrow
  interactive = interactive
  None = None
  Commands = {deploy, redeploy, exec, job}
  Copies = {deploy1, deploy2, deploy3, redeploy1, exec1, job1, job2}
  Sems = {heavy, narrow, interactive}
  CommandOf <- MCCommandOf
  KindOf <- MCKindOf
  SemOf <- MCSemOf
  Limit <- MCLimit
  MaxQueueDepth = 1
INVARIANTS AtMostOneExecutor AnswerFromFinishedRun ThrottleAccounting
  DrainWaitsForRunning
 
CHECK_DEADLOCK FALSE
