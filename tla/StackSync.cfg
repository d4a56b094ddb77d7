SPECIFICATION FairSpec
CONSTANTS
  web = web
  old = old
  new = new
  NoSum = none
  ticker = ticker
  nobody = nobody
  Sums = {old, new}
  Stacks = {web}
  Content <- WebContent
  MaxCommits = 2
  MaxRetries = 2
  MaxSyncs = 2
  MaxOps = 2
  MaxFaults = 2
INVARIANTS RenderedIsRecorded SyncingIsWorkedOn
PROPERTIES RecordFollowsHost PausedRests ChangeIsRendered
