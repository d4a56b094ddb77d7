SPECIFICATION MCSpec
CONSTANTS
  r1 = r1
  r2 = r2
  s1 = s1
  s2 = s2
  k1 = k1
  k2 = k2
  Emails = {e1, e2}
  SsoEmails = {e2}
  Requests = {r1, r2}
  Assigned = {"viewer"}
  MaxLogins = 2
  Edits <- MCEdits
  KeyRequests = {r1, r2}
  MaxKeys = 3
  BackupKeys = {k1, k2}
  Callers = {r1, r2}
  Cron = cron
  MaxCount = 1
  Settings <- MCSettings
  Loaders = {r1, r2}
  MaxTokens = 3
  MaxAttempts = 2
  MaxOAuthFaults = 2
  Tasks = {r1, r2}
  Sources <- MCSources
  First <- MCFirst
  MaxPushes = 1
  MaxEdits = 1
  MaxTries = 2
  SecretKeys = {"k1", "k2"}
  NoSecretKey = "nokey"
  Texts = {"p1", "p2"}
  WebhookTokens = {"t1"}
  UsedOwners = {"stack", "copy", "global", "webhook"}
  EnvRequests = {s1, s2}
  Plans <- MCPlans
  MaxRows = 2
  EnvForms <- MCEnvForms
  LegacyOwners = {"stack"}
  Savers = {r1, r2}
  NoEntry = noentry
  MaxEntries = 4
  MaxRestarts = 1
  Editors = {r1, r2}
  Families = {"keys", "stacks", "jobs", "policy"}
  MaxSaves = 5
  Hosts = {a, b}
  NoHost = nohost
  MaxOperations = 3
  MaxCommands = 2
  MaxFlushes = 3
SYMMETRY Symmetry
INVARIANTS
  AccountsSafety
  
  OAuthSafety
  WorkspacesSafety
  
  
PROPERTIES
  ServiceAccountsSafety
  
  
  
  ExecutorSafety
  KeepsContract
CHECK_DEADLOCK FALSE
