SPECIFICATION SysSpec
CONSTANTS
  Moniker = "svc"
  AgentTags = {}
  MsgIds = {m1, m2, m3, m4}
  NoScan = noscan
  PRScans = {p1}
  PushScans = {}
  Pollers = {a}
  NoMessage = nomsg
  Interval = 1
  Backoff = 1
  MaxInterval = 1
  ScanTimeout = 0
  Faults = {"crash", "load", "scm", "repeat"}
  MaxDisturb = 1
  Annotators = {n1}
  Reporters = {r1}
  SCMs = {"gh", "gl", "bbdc", "adoe"}
  PageSize = 10
  Tries = 2
  MaxAway = 1
  MaxCleared = 1
  MaxOthers = 1
  Generators = {}
  HttpAgents = {}
  AmqpAgents = {}
  Retries = 0
INVARIANTS OutcomeReachesPR CommentsBounded
PROPERTY ForeignUntouched
CHECK_DEADLOCK FALSE
