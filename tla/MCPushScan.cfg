\* Two pushes to a repository with a default and another branch, two
\* failures of requests or tokens, and as many tokens as can be in use.
SPECIFICATION FairSpec
CONSTANTS
  SCMs = {"gh", "gl", "bbdc", "adoe"}
  Branches = {main, release}
  Default = main
  Protections = {{}, {release}}
  Retries = 2
  MaxEvents = 2
  MaxCommit = 3
  MaxFaults = 2
  Callers = {1, 2}
  MaxTokens = 3
INVARIANTS TypeOK ScanIsOfPush DenialExplained
PROPERTY PushScanned
CHECK_DEADLOCK FALSE
