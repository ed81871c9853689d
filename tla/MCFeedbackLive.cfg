SPECIFICATION FairSysSpec
CONSTANTS
  Moniker = "svc"
  AgentTags = {}
  MsgIds = {m1, m2, m3, m4}
  NoScan = noscan
  PRScans = {p1}
  PushScans = {}
  Pollers = {a}
  NoMessage = nomsg
  Interval = 1
  Backoff = 1
  MaxInterval = 1
  ScanTimeout = 48
  Faults = {"crash", "duplicate"}
  MaxDisturb = 1
  Annotators = {n1}
  Reporters = {r1}
  SCMs = {"gh"}
  PageSize = 10
  Tries = 1
  MaxAway = 0
  MaxCleared = 0
  MaxOthers = 0
  Generators = {}
  HttpAgents = {}
  AmqpAgents = {}
  Retries = 0

PROPERTY ImplementsContract OutcomeShown
CHECK_DEADLOCK FALSE
