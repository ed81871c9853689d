SPECIFICATION FairSpec
CONSTANTS
  Moniker = "svc"
  AgentTags = {"ubuntu", "windows"}
  Tag = "ubuntu"
  MsgIds = {m1, m2, m3, m4, m5}
  NoScan = noscan
  Pushes = {q1}
  PullRequests = {}
  Runners = {w1, w2}
  TwoStage = {w2}
  TimeoutHandlers = {t1}
  ResultHandlers = {h1}
  NoMessage = nomsg
  ScanRetries = 2
  Faults = {"crash", "ack-timeout", "publish", "channel", "executor", "body", "cleanup", "dispatch", "signature"}
  MaxDisturb = 1
INVARIANTS TypeOK DelegationSurvives OutcomeBound RetryBound
PROPERTY DelegationEnds
CHECK_DEADLOCK FALSE
