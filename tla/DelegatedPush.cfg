SPECIFICATION Spec
CONSTANTS
  Moniker = "svc"
  AgentTags = {"ubuntu", "windows"}
  Tag = "ubuntu"
  MsgIds = {m1, m2, m3, m4, m5}
  NoScan = noscan
  Pushes = {q1}
  PullRequests = {}
  Runners = {w1}
  TwoStage = {}
  TimeoutHandlers = {t1}
  ResultHandlers = {h1}
  NoMessage = nomsg
  ScanRetries = 2
  Faults = {}
  MaxDisturb = 1
INVARIANT PushFeedbackStarts
CHECK_DEADLOCK FALSE
