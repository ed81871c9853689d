SPECIFICATION FairSysSpec
CONSTANTS
  Moniker = "svc"
  AgentTags = {}
  MsgIds = {m1, m2, m3, m4}
  NoScan = noscan
  PRScans = {}
  PushScans = {q1}
  Pollers = {a}
  NoMessage = nomsg
  Interval = 1
  Backoff = 1
  MaxInterval = 1
  ScanTimeout = 48
  Faults = {"crash", "sarif", "refuse", "connect"}
  MaxDisturb = 1
  Annotators = {}
  Reporters = {}
  SCMs = {"gh"}
  PageSize = 10
  Tries = 1
  MaxAway = 0
  MaxCleared = 0
  MaxOthers = 0
  Generators = {g1, g2}
  HttpAgents = {h1}
  AmqpAgents = {q}
  Retries = 1
INVARIANTS SysTypeOK OutcomeReachesAgents SarifBound
PROPERTY OutcomeDelivered
CHECK_DEADLOCK FALSE
