SPECIFICATION FairSpec
CONSTANTS
  SCMs = {"gh", "gl", "bbdc", "adoe"}
  NumPRs = 2
  Branches = {"main", "topic"}
  Default = "main"
  Listed = {"main"}
  Wildcard = {}
  MaxEvents = 3
  MaxActive = 2
  MaxCommit = 2
  Delegation = TRUE
  MaxLost = 1
INVARIANT TypeOK TagsOfOwnPR NoRescan
PROPERTY CommitScanned StateReflected
CHECK_DEADLOCK FALSE
