SPECIFICATION Spec
CONSTANTS
  web = web
  old = old
  new = new
  NoSum = none
  ticker = ticker
  nobody = nobody
  Sums = {old, new}
  Stacks = {web}
  Content <- WebContent
  MaxCommits = 2
  MaxRetries = 2
  MaxSyncs = 1
  MaxOps = 0
  MaxFaults = 2
PROPERTY SkipMeansDeployed
