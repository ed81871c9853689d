SPECIFICATION Spec
CONSTANTS
  Moniker = "svc"
  AgentTags = {"ubuntu", "windows"}
  MsgIds = {m1, m2, m3, m4, m5, m6, m7}
  NoScan = noscan
  PRScans = {p1}
  PushScans = {}
  Pollers = {a, b}
  NoMessage = nomsg
  Interval = 2
  Backoff = 2
  MaxInterval = 5
  ScanTimeout = 48
  Faults = {"crash", "duplicate", "publish", "channel", "response", "request"}
  MaxDisturb = 1
INVARIANTS TypeOK MonitoringSurvives FeedbackBound OutcomeFaithful
CHECK_DEADLOCK FALSE
SYMMETRY Symmetry
